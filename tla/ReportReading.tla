---------------------------- MODULE ReportReading ----------------------------
(***************************************************************************)
(* Reading reports: the home page and the detail page of the Mini Program, *)
(* the Miniapp Backend that answers them out of several reads of the Data  *)
(* Service, and the reports that are published meanwhile.                  *)
(*                                                                         *)
(* A report takes its publication time before it is committed, so reports  *)
(* may become visible in another order than the one they are listed in.    *)
(* The home answer is selected by up to two list reads; a detail looks its *)
(* report up by walking all pages of the list.  Once stored, a report and  *)
(* its units do not change, so what is read of one report is one step.     *)
(*                                                                         *)
(* The page is JavaScript: an action is a callback with all it calls.  A   *)
(* request whose generation was superseded is not live.  Effects of React  *)
(* run some time after the render that causes them (EffectRuns).  Clocks   *)
(* of the services are taken to agree; only reports of the present format  *)
(* exist, since the list is asked for no other.                            *)
(***************************************************************************)
EXTENDS Integers, Sequences, FiniteSets

CONSTANTS
    Reports,     \* report ids, numbers in the order of the ids
    Kinds,       \* kinds of analyses
    Units,       \* Units[r][k]: number of units of a kind in a report
    Tabs,        \* the category tabs: sequences of kinds
    PageLimit,   \* units in a page of a list
    WalkLimit,   \* reports in a page of the list of reports
    HomeLoads,   \* bound: requests for the home answer in flight
    UnitLoads,   \* bound: requests for more units in flight
    DetailReads, \* requests for a detail
    DayLength,   \* moments in a day
    LastMoment   \* bound of the clock

ASSUME ReadingConstants ==
    /\ Reports \subseteq Nat \ {0}
    /\ Units \in [Reports -> [Kinds -> Nat]]
    /\ Tabs \subseteq Seq(Kinds)
    /\ \E all \in Tabs : \A tab \in Tabs : Len(tab) <= Len(all)
    /\ PageLimit \in Nat \ {0} /\ WalkLimit \in Nat \ {0}
    /\ DayLength \in Nat \ {0} /\ LastMoment \in Nat

VARIABLES
    moment,      \* the clock
    publication, \* the reports: their stage and publication time
    resource,    \* ReportResourceSession of the home page
    homeLoads,   \* its requests
    reader,      \* NormalizedHome, mounted while there is a report to show
    unitLoads,   \* its requests
    detailReads, \* requests for details
    shown        \* history: the last report the home page showed

readingVars == <<moment, publication, resource, homeLoads, reader, unitLoads, detailReads, shown>>

-----------------------------------------------------------------------------
(* The list of reports *)

NoReport == 0
Stored == {r \in Reports : publication[r].stage = "stored"}
Day(t) == t \div DayLength

\* ORDER BY published_at DESC, id ASC; the cursor continues strictly after its report.
Before(r, s) ==
    \/ publication[r].at > publication[s].at
    \/ publication[r].at = publication[s].at /\ r < s

\* ListReports with a limit of one.
Newest(S) == IF S = {} THEN NoReport ELSE CHOOSE r \in S : \A s \in S \ {r} : Before(r, s)

\* A mutant of Rest: the cursor is the publication time alone.
Rest_NoTie(after) ==
    {r \in Stored : after = NoReport \/ publication[r].at < publication[after].at}

\* One page of the list of reports after a report, or from the start.
Rest(after) == {r \in Stored : after = NoReport \/ Before(after, r)}
ReportPage(after) ==
    {r \in Rest(after) : Cardinality({s \in Rest(after) : Before(s, r)}) < WalkLimit}

\* A list of units: what has been read of it and the cursor, 0 if there is no more.
UnitPage(r, k, after) ==
    LET n == IF Units[r][k] - after > PageLimit THEN PageLimit ELSE Units[r][k] - after
    IN  [items |-> [i \in 1 .. n |-> <<r, after + i>>],
         next  |-> IF after + n < Units[r][k] THEN after + n ELSE 0]

Elements(list) == {list.items[i] : i \in DOMAIN list.items}

\* The units of a page that are not there yet, behind those that are.
Extended(list, page) ==
    LET fresh  == {i \in DOMAIN page.items : page.items[i] \notin Elements(list)}
        nth(n) == CHOOSE i \in fresh : Cardinality({h \in fresh : h < i}) = n - 1
    IN  [items |-> list.items \o [n \in 1 .. Cardinality(fresh) |-> page.items[nth(n)]],
         next  |-> page.next]

-----------------------------------------------------------------------------
(* The home page *)

Unloaded == [items |-> <<>>, next |-> -1]
NoKind == "no kind"

NoReader == [report |-> NoReport, tab |-> <<>>, pages |-> [k \in Kinds |-> Unloaded],
             pending |-> NoKind, failed |-> NoKind, inflight |-> FALSE, due |-> FALSE]

\* The first render of NormalizedHome for a report; its effect is still to run.
Mounted(r) == [NoReader EXCEPT !.report = r, !.due = TRUE,
                               !.tab = CHOOSE t \in Tabs : \A u \in Tabs : Len(u) <= Len(t)]

FreeLoad == [at |-> "free", live |-> FALSE, day |-> 0, report |-> NoReport, ok |-> FALSE,
             oldest |-> NoReport]
FreeUnits == [at |-> "free", live |-> FALSE, report |-> NoReport, kind |-> NoKind,
              list |-> Unloaded, page |-> Unloaded, ok |-> FALSE]

\* Generations: requests of the session, and of the mounted home, that no longer count.
DropHome == [l \in HomeLoads |-> [homeLoads[l] EXCEPT !.live = FALSE]]
DropUnits == [m \in UnitLoads |-> [unitLoads[m] EXCEPT !.live = FALSE]]

\* A mutant of Render: the home is not keyed.
Render_NoKey(r) ==
    /\ reader' = IF r = NoReport THEN NoReader
                 ELSE IF reader.report = NoReport THEN Mounted(r)
                 ELSE [reader EXCEPT !.report = r, !.due = TRUE]
    /\ IF r = NoReport THEN unitLoads' = DropUnits ELSE UNCHANGED unitLoads

\* IndexView: the home is keyed by its report; a new answer about the same one only
\* makes its effect run again.
Render(r) ==
    IF r # NoReport /\ r = reader.report
    THEN reader' = [reader EXCEPT !.due = TRUE] /\ UNCHANGED unitLoads
    ELSE /\ reader' = IF r = NoReport THEN NoReader ELSE Mounted(r)
         /\ unitLoads' = DropUnits

\* ReportResourceSession.load up to its request; a refresh keeps what is shown.
Load(refresh) ==
    \E l \in HomeLoads :
        /\ homeLoads[l].at = "free"
        /\ homeLoads' = [DropHome EXCEPT ![l] =
               [FreeLoad EXCEPT !.at = "sent", !.live = TRUE, !.oldest = Newest(Stored)]]
        /\ IF refresh /\ resource.status = "ready"
           THEN /\ resource' = [resource EXCEPT !.refreshing = TRUE, !.refreshFailed = FALSE]
                /\ UNCHANGED <<reader, unitLoads>>
           ELSE /\ resource' = [status |-> "loading", report |-> NoReport,
                                refreshing |-> FALSE, refreshFailed |-> FALSE]
                /\ Render(NoReport)
        /\ UNCHANGED <<moment, publication, detailReads, shown>>

\* The page is opened.
OpenHome == resource.status = "idle" /\ Load(FALSE)

\* The page is left for good: the session is disposed.
LeaveHome ==
    /\ resource.status # "idle"
    /\ resource' = [status |-> "idle", report |-> NoReport, refreshing |-> FALSE,
                    refreshFailed |-> FALSE]
    /\ homeLoads' = DropHome
    /\ Render(NoReport)
    /\ UNCHANGED <<moment, publication, detailReads, shown>>

\* Retry is offered on an error, refresh beside the report that is shown.
RetryHome == resource.status = "error" /\ Load(FALSE)
RefreshHome == resource.status = "ready" /\ Load(TRUE)

\* The effect of a new group: pages read so far go, requests no longer count.
EffectRuns ==
    /\ reader.due
    /\ reader' = [reader EXCEPT !.due = FALSE, !.pages = [k \in Kinds |-> Unloaded],
                                !.pending = NoKind, !.failed = NoKind, !.inflight = FALSE]
    /\ unitLoads' = DropUnits
    /\ UNCHANGED <<moment, publication, resource, homeLoads, detailReads, shown>>

ChooseTab(tab) ==
    /\ reader.report # NoReport /\ tab # reader.tab
    /\ reader' = [reader EXCEPT !.tab = tab]
    /\ UNCHANGED <<moment, publication, resource, homeLoads, unitLoads, detailReads, shown>>

\* The units of a kind on the screen: the pages read, or those of the home answer.
OnScreen(k) ==
    IF reader.pages[k] = Unloaded THEN UnitPage(reader.report, k, 0) ELSE reader.pages[k]

\* The list the next page is taken from: one that failed, or the first that goes on.
Continued ==
    LET going == {i \in DOMAIN reader.tab : OnScreen(reader.tab[i]).next > 0}
        again == {i \in going : reader.tab[i] = reader.failed}
    IN  IF going = {} THEN NoKind
        ELSE reader.tab[CHOOSE i \in going : IF again # {} THEN i \in again
                                              ELSE \A j \in going : i <= j]

\* load of NormalizedHome up to its request.
More ==
    /\ reader.report # NoReport /\ reader.pending = NoKind /\ Continued # NoKind
    /\ ~reader.inflight
    /\ \E m \in UnitLoads :
          /\ unitLoads[m].at = "free"
          /\ unitLoads' = [unitLoads EXCEPT ![m] =
                 [FreeUnits EXCEPT !.at = "sent", !.live = TRUE, !.report = reader.report,
                                   !.kind = Continued, !.list = OnScreen(Continued)]]
    /\ reader' = [reader EXCEPT !.inflight = TRUE, !.pending = Continued, !.failed = NoKind]
    /\ UNCHANGED <<moment, publication, resource, homeLoads, detailReads, shown>>

\* The Miniapp Backend and the Data Service list the next units, or something fails.
ServeUnits(m) ==
    /\ unitLoads[m].at = "sent"
    /\ LET load == unitLoads[m]
           page == UnitPage(load.report, load.kind, load.list.next)
       IN  \E ok \in BOOLEAN :
              unitLoads' = [unitLoads EXCEPT ![m] =
                  [load EXCEPT !.at = "answered", !.ok = ok,
                               !.page = IF ok THEN page ELSE Unloaded]]
    /\ UNCHANGED <<moment, publication, resource, homeLoads, reader, detailReads, shown>>

\* The answer: pages and the end of the request, unless the generation has moved on.
ReceiveUnits(m) ==
    LET load == unitLoads[m] IN
    /\ load.at = "answered"
    /\ unitLoads' = [unitLoads EXCEPT ![m] = FreeUnits]
    /\ IF load.live
       THEN reader' = [reader EXCEPT
                !.pages[load.kind] = IF load.ok THEN Extended(load.list, load.page) ELSE @,
                !.failed   = IF load.ok THEN @ ELSE load.kind,
                !.inflight = FALSE,
                !.pending  = NoKind]
       ELSE UNCHANGED reader
    /\ UNCHANGED <<moment, publication, resource, homeLoads, detailReads, shown>>

-----------------------------------------------------------------------------
(* The home answer *)

\* UseCase.Home: the day of Shanghai is fixed when the request arrives ...
HomeArrives(l) ==
    /\ homeLoads[l].at = "sent"
    /\ homeLoads' = [homeLoads EXCEPT ![l].at = "today", ![l].day = Day(moment)]
    /\ UNCHANGED <<moment, publication, resource, reader, unitLoads, detailReads, shown>>

\* ... its newest report is selected, ...
ReadToday(l) ==
    LET found == Newest({r \in Stored : Day(publication[r].at) = homeLoads[l].day}) IN
    /\ homeLoads[l].at = "today"
    /\ homeLoads' = [homeLoads EXCEPT ![l] =
           IF found = NoReport THEN [@ EXCEPT !.at = "fallback"]
           ELSE [@ EXCEPT !.at = "answered", !.ok = TRUE, !.report = found]]
    /\ UNCHANGED <<moment, publication, resource, reader, unitLoads, detailReads, shown>>

\* ... or the newest of all; no report is an answer too.
ReadLatest(l) ==
    /\ homeLoads[l].at = "fallback"
    /\ homeLoads' = [homeLoads EXCEPT ![l] =
           [@ EXCEPT !.at = "answered", !.ok = TRUE, !.report = Newest(Stored)]]
    /\ UNCHANGED <<moment, publication, resource, reader, unitLoads, detailReads, shown>>

\* Any of its reads fails, those of the four lists of units included, or the page
\* waits no longer.
FailHome(l) ==
    /\ homeLoads[l].at \in {"sent", "today", "fallback"}
    /\ homeLoads' = [homeLoads EXCEPT ![l].at = "answered", ![l].day = 0]
    /\ UNCHANGED <<moment, publication, resource, reader, unitLoads, detailReads, shown>>

Outcome(load) ==
    IF load.ok
    THEN [status |-> IF load.report = NoReport THEN "empty" ELSE "ready",
          report |-> load.report, refreshing |-> FALSE, refreshFailed |-> FALSE]
    ELSE IF resource.status = "ready"
    THEN [resource EXCEPT !.refreshing = FALSE, !.refreshFailed = TRUE]
    ELSE [status |-> "error", report |-> NoReport, refreshing |-> FALSE, refreshFailed |-> FALSE]

\* A mutant of ReceiveHome: every answer is published.
ReceiveHome_AnyGeneration(l) ==
    LET load == homeLoads[l] IN
    /\ load.at = "answered"
    /\ homeLoads' = [homeLoads EXCEPT ![l] = FreeLoad]
    /\ resource' = Outcome(load)
    /\ shown' = IF load.ok /\ load.report # NoReport THEN load.report ELSE shown
    /\ IF load.ok \/ resource.status # "ready" THEN Render(load.report)
       ELSE UNCHANGED <<reader, unitLoads>>
    /\ UNCHANGED <<moment, publication, detailReads>>

\* ReportResourceSession.load, answered.
ReceiveHome(l) ==
    LET load == homeLoads[l] IN
    /\ load.at = "answered"
    /\ homeLoads' = [homeLoads EXCEPT ![l] = FreeLoad]
    /\ IF ~load.live THEN UNCHANGED <<resource, reader, unitLoads, shown>>
       ELSE /\ resource' = Outcome(load)
            /\ shown' = IF load.ok /\ load.report # NoReport THEN load.report ELSE shown
            /\ IF load.ok \/ resource.status # "ready" THEN Render(load.report)
               ELSE UNCHANGED <<reader, unitLoads>>
    /\ UNCHANGED <<moment, publication, detailReads>>

-----------------------------------------------------------------------------
(* Details *)

\* A detail of a stored report is opened, from the home or from a shared link.
OpenDetail(d, r) ==
    /\ detailReads[d].at \notin {"unit", "walk"} /\ r \in Stored
    /\ detailReads' = [detailReads EXCEPT ![d] = [at |-> "unit", report |-> r, after |-> NoReport]]
    /\ UNCHANGED <<moment, publication, resource, homeLoads, reader, unitLoads, shown>>

\* UseCase.Analysis: the unit with its counts and tokens, ...
ReadUnit(d) ==
    /\ detailReads[d].at = "unit"
    /\ detailReads' = [detailReads EXCEPT ![d].at = "walk"]
    /\ UNCHANGED <<moment, publication, resource, homeLoads, reader, unitLoads, shown>>

\* ... then reportPublication: page by page, until the report is met or the list ends.
WalkReports(d) ==
    LET read == detailReads[d]
        page == ReportPage(read.after)
    IN
    /\ read.at = "walk"
    /\ detailReads' = [detailReads EXCEPT ![d] =
           IF read.report \in page THEN [@ EXCEPT !.at = "found"]
           ELSE IF page = Rest(read.after) THEN [@ EXCEPT !.at = "unavailable"]
           ELSE [@ EXCEPT !.after = CHOOSE r \in page : \A s \in page \ {r} : Before(s, r)]]
    /\ UNCHANGED <<moment, publication, resource, homeLoads, reader, unitLoads, shown>>

FailDetail(d) ==
    /\ detailReads[d].at \in {"unit", "walk"}
    /\ detailReads' = [detailReads EXCEPT ![d].at = "failed"]
    /\ UNCHANGED <<moment, publication, resource, homeLoads, reader, unitLoads, shown>>

-----------------------------------------------------------------------------
(* Publication *)

\* UseCase.Publish: the publication time is taken within the transaction ...
StampReport(r) ==
    /\ publication[r].stage = "new"
    /\ publication' = [publication EXCEPT ![r] = [stage |-> "stamped", at |-> moment]]
    /\ UNCHANGED <<moment, resource, homeLoads, reader, unitLoads, detailReads, shown>>

\* ... that commits later, or never.
CommitReport(r) ==
    /\ publication[r].stage = "stamped"
    /\ publication' = [publication EXCEPT ![r].stage = "stored"]
    /\ UNCHANGED <<moment, resource, homeLoads, reader, unitLoads, detailReads, shown>>

ClockMoves ==
    /\ moment < LastMoment
    /\ moment' = moment + 1
    /\ UNCHANGED <<publication, resource, homeLoads, reader, unitLoads, detailReads, shown>>

-----------------------------------------------------------------------------
(* Specification *)

ReadingInit ==
    /\ moment = 0
    /\ publication = [r \in Reports |-> [stage |-> "new", at |-> 0]]
    /\ resource = [status |-> "idle", report |-> NoReport, refreshing |-> FALSE,
                   refreshFailed |-> FALSE]
    /\ homeLoads = [l \in HomeLoads |-> FreeLoad]
    /\ reader = NoReader
    /\ unitLoads = [m \in UnitLoads |-> FreeUnits]
    /\ detailReads = [d \in DetailReads |-> [at |-> "new", report |-> NoReport, after |-> NoReport]]
    /\ shown = NoReport

HomePage ==
    \/ OpenHome \/ LeaveHome \/ RetryHome \/ RefreshHome \/ EffectRuns \/ More
    \/ \E tab \in Tabs : ChooseTab(tab)

HomeAnswer(l) ==
    HomeArrives(l) \/ ReadToday(l) \/ ReadLatest(l) \/ FailHome(l) \/ ReceiveHome(l)

Detail(d) ==
    \/ \E r \in Reports : OpenDetail(d, r)
    \/ ReadUnit(d) \/ WalkReports(d) \/ FailDetail(d)

ReadingNext ==
    \/ HomePage
    \/ \E l \in HomeLoads : HomeAnswer(l)
    \/ \E m \in UnitLoads : ServeUnits(m) \/ ReceiveUnits(m)
    \/ \E d \in DetailReads : Detail(d)
    \/ \E r \in Reports : StampReport(r) \/ CommitReport(r)
    \/ ClockMoves

ReadingSpec == ReadingInit /\ [][ReadingNext]_readingVars

-----------------------------------------------------------------------------
(* Properties *)

ReadingTypeOK ==
    /\ moment \in 0 .. LastMoment
    /\ publication \in [Reports -> [stage : {"new", "stamped", "stored"}, at : 0 .. LastMoment]]
    /\ resource \in [status : {"idle", "loading", "empty", "ready", "error"},
                     report : Reports \cup {NoReport}, refreshing : BOOLEAN, refreshFailed : BOOLEAN]
    /\ \A l \in HomeLoads :
          /\ homeLoads[l].at \in {"free", "sent", "today", "fallback", "answered"}
          /\ homeLoads[l].report \in Stored \cup {NoReport}
    /\ \A m \in UnitLoads : unitLoads[m].at \in {"free", "sent", "answered"}
    /\ \A d \in DetailReads : detailReads[d].at \in {"new", "unit", "walk", "found", "unavailable", "failed"}

\* A read made of several queries misses nothing that was there all along: the report a
\* home answer selects is not older than the newest one stored when it was asked for,
\* whichever day begins and whatever is published between its queries, and a detail
\* of a stored report always finds its publication time, however many reports get in
\* between the pages of its walk.
ReadsMissNothing ==
    /\ \A l \in HomeLoads : homeLoads[l].at = "answered" /\ homeLoads[l].ok =>
          \/ homeLoads[l].oldest \in {NoReport, homeLoads[l].report}
          \/ homeLoads[l].report # NoReport /\ Before(homeLoads[l].report, homeLoads[l].oldest)
    /\ \A d \in DetailReads : detailReads[d].at # "unavailable"

\* The home page never goes back: refreshed, or loaded again after an error, it shows
\* the same report or a newer one, also when the answer of an earlier request comes last.
HomeNeverGoesBack ==
    [][shown # NoReport /\ resource'.status \in {"ready", "empty"} =>
          \/ resource'.report = shown
          \/ resource'.report # NoReport /\ Before(resource'.report, shown)]_readingVars

\* The units on the screen are those of the report on the screen, from its first unit
\* on, without a gap or a repetition, and the next page continues them: no answer for
\* another report, tab or refresh gets among them.
UnitsAreAPrefix ==
    /\ ReadingTypeOK
    /\ reader.report # NoReport =>
         /\ reader.report = resource.report
         /\ \A k \in Kinds :
              LET list  == OnScreen(k)
                  total == Units[reader.report][k]
              IN  /\ list.items = [i \in 1 .. Len(list.items) |-> <<reader.report, i>>]
                  /\ list.next = IF Len(list.items) < total THEN Len(list.items) ELSE 0

\* The page waits only for a request that will be heard: it says loading or refreshing
\* only with a live request, and once the effect of its last answer has run, the button
\* for more units is blocked exactly as long as one is under way.
WaitingHasARequest ==
    /\ resource.status = "loading" \/ resource.refreshing => \E l \in HomeLoads : homeLoads[l].live
    /\ reader.report # NoReport /\ ~reader.due =>
          /\ reader.inflight <=> \E m \in UnitLoads : unitLoads[m].live
          /\ reader.pending # NoKind => reader.inflight

\* The home page shows what it says it shows, and waits for what it says it waits for.
HomeIsWhole == UnitsAreAPrefix /\ WaitingHasARequest
=============================================================================
