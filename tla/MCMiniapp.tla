----------------------------- MODULE MCMiniapp -----------------------------
(* The parts of the miniapp on small instances: a behaviour exercises the   *)
(* one that `active' names.  The reading of reports is taken in three: the  *)
(* home page's requests, its paging, and the walk of a detail; what the     *)
(* Backend tracks in three: the list, the search and the filter choices.    *)
EXTENDS CompanyPage, ReportReading, TrackedCompanies, TLC

CONSTANTS root, leaf

VARIABLE active

MCParent == (root :> Nothing) @@ (leaf :> root)
MCOwner == [t \in Logins |-> "user"]

MCUnits == [r \in Reports |-> [geo   |-> IF r = 1 THEN 1 ELSE 2,
                               macro |-> IF r = 1 THEN 0 ELSE 2]]
MCTabs == {<<"geo", "macro">>, <<"macro">>}

Reading == {"home", "units", "detail"}

Tracking == {"watchlist", "search", "filters"}

miniappVars == <<active, vars, readingVars, trackVars>>

MiniappInit ==
    /\ active \in {"company"} \cup Reading \cup Tracking
    /\ Init /\ ReadingInit /\ TrackInit

\* Bound: the page sees one session end, and lives on with the other.
Sessions == Cardinality({t \in Tokens : session'[t] \in {"expired", "revoked"}}) <= 1

\* Requests that the part at hand does without; of those about the list one call reads
\* and another writes, and searches and filter choices change nothing for another call.
Focus ==
    CASE active = "home"   -> UNCHANGED detailReads /\ \A m \in UnitLoads : unitLoads'[m].at = "free"
      [] active = "units"  -> UNCHANGED <<detailReads, moment>>
                              /\ Cardinality({l \in HomeLoads : homeLoads'[l].at # "free"}) <= 1
      [] active = "detail" -> UNCHANGED resource
      [] active = "watchlist" -> /\ UNCHANGED <<fits, industries>>
                                 /\ 3 \notin catalogue' /\ trackCall'["writer"].stock # 3
                                 /\ trackCall'["reader"].op \in {"none", "list"}
                                 /\ trackCall'["writer"].op \in {"none", "add", "remove"}
      [] active = "search" -> /\ UNCHANGED industries
                              /\ trackCall'["reader"].op \in {"none", "search"}
                              /\ UNCHANGED trackCall["writer"]
      [] active = "filters" -> /\ UNCHANGED <<catalogue, fits, login>>
                               /\ trackCall'["reader"].op \in {"none", "filters"}
                               /\ UNCHANGED trackCall["writer"]

MiniappNext ==
    /\ UNCHANGED active
    /\ \/ active = "company" /\ Next /\ Sessions /\ UNCHANGED <<readingVars, trackVars>>
       \/ active \in Reading /\ ReadingNext /\ Focus /\ UNCHANGED <<vars, trackVars>>
       \/ active \in Tracking /\ TrackNext /\ Focus /\ UNCHANGED <<vars, readingVars>>

MiniappSpec == MiniappInit /\ [][MiniappNext]_miniappVars

\* Sessions and the requests of the home page are named by the same two values, whose names mean
\* nothing to either part.
MiniappSymmetry == Permutations(Tokens)
=============================================================================
