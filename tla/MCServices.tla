----------------------------- MODULE MCServices -----------------------------
(* The parts of the Data Service, and the calls of the User Service: what    *)
(* they wait for ends.  The services share nothing, and a behaviour exercises *)
(* one of them.                                                               *)
EXTENDS MCDataService

CONSTANTS UserCalls, OpenIDs, UnionIDs, WatchedStocks, AuthorizedOps, TTL, MaxClock, None

VARIABLES service, clock, accounts, sessions, req

User == INSTANCE UserIdentity WITH Requests <- UserCalls, Stocks <- WatchedStocks

userVars == <<clock, accounts, sessions, req>>

servicesVars == <<service, dataVars, userVars>>

ServicesInit ==
    /\ service \in {"data", "user"} /\ DataInit /\ User!Init
    /\ service = "user" => active = "migration" /\ schemaVersion = Latest
                             /\ \A r \in Runs : migration[r].order = O(FALSE, 0, FALSE)

ForUser(step) == service = "user" /\ step /\ UNCHANGED <<service, dataVars>>
ForData(step) == service = "data" /\ step /\ UNCHANGED <<service, userVars>>

ServicesNext == ForUser(User!Next) \/ ForData(DataNext)

\* Handlers keep running, and PostgreSQL hands released locks to those who wait,
\* to each in turn.
ServicesSpec ==
    /\ ServicesInit /\ [][ServicesNext]_servicesVars
    /\ \A r \in UserCalls : WF_servicesVars(ForUser(User!Serve(r)))
    /\ \A c \in Calls : SF_servicesVars(ForData(CallGoesOn(c)))

\* A call of the Data Service that waits for an advisory lock, a table, a row
\* or a migration command, also behind the victim of a deadlock, ends; and a
\* call of the User Service is answered without the help of its deadline.
\* Calls are interchangeable, so that it is checked for one of them.
EveryCallEnds ==
    LET c == CHOOSE c \in Calls : TRUE
        r == CHOOSE r \in UserCalls : TRUE
        waits == \/ service = "data" /\ InProgress(c)
                 \/ service = "user" /\ User!InFlight(r)
    IN  waits ~> ~waits
=============================================================================
