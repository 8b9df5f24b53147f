---------------------------- MODULE CompanyPage -----------------------------
(***************************************************************************)
(* The company page of the Miniapp: the access gate (use-research-access), *)
(* the directory (use-tracking in directory mode, switched on and off by   *)
(* the gate), and the session both read from the storage of the device.    *)
(*                                                                         *)
(* JavaScript runs one callback at a time, so every action is a callback   *)
(* with all it calls: the page shown or hidden, an input, a timer, the     *)
(* answer of a request.  Requests stay in flight while other callbacks     *)
(* run; a sequence number the code compares on arrival is the mark "live"  *)
(* here, taken from every request that a later one supersedes.  A request  *)
(* that is not live keeps only its token, which the code still looks at.   *)
(* React renders after a change of state; the render is part of the        *)
(* callback that causes it.                                                *)
(*                                                                         *)
(* Other pages keep running behind this one: they can save a new session   *)
(* or clear the stored one at any time (use-identity).  Each session is of *)
(* another account; the follows of an account change only by this page.    *)
(***************************************************************************)
EXTENDS Naturals, FiniteSets

CONSTANTS
    Tokens,     \* sessions that can be granted
    None,       \* no session, no request, no company
    Queries,    \* texts of the search field
    Filters,    \* filter choices
    Companies,  \* number of companies, all found by every search, one a page
    Wanted,     \* bound: the companies the user follows
    MaxSearches \* bound: searches in flight at once

ASSUME ConstantsAssumption ==
    /\ Queries # {} /\ Filters # {}
    /\ Companies \in Nat \ {0}
    /\ Wanted \subseteq 1..Companies
    /\ MaxSearches \in Nat \ {0}

VARIABLES
    stored,   \* the session in the storage of the device
    session,  \* what the User Service holds of each session
    followed, \* companies followed by the account of each session
    place,    \* the page: absent, hidden, shown
    gate,     \* state of use-research-access
    dir,      \* state of use-tracking with its searches in flight
    write,    \* the follow in progress
    doubt     \* a follow ended without an answer: its effect is not known

vars == <<stored, session, followed, place, gate, dir, write, doubt>>

-----------------------------------------------------------------------------
(* State *)

Answer == {"ok", "rejected", "error"}
Session == Tokens \cup {None}
Row == [company : 1..Companies, followed : BOOLEAN, query : Queries,
        filters : Filters, token : Session]

\* A search: what it asks, whether its answer still counts, whether the
\* follow in progress waits for it, and its answer once there is one.
SearchCall == [token : Session, query : Queries \cup {None},
               filters : Filters \cup {None}, offset : Nat, live : BOOLEAN,
               awaited : BOOLEAN, answer : Answer \cup {"none"}, rows : SUBSET Row]

\* A check: asking the server about a session, or opening the login page;
\* fresh while the page has not been hidden since.
Check == [token : Session, step : {"me", "login"},
          answer : {"none", "ok", "rejected"}, fresh : BOOLEAN]

Write == [token : Tokens, company : 1..Companies, query : Queries,
          filtered : BOOLEAN, answer : Answer \cup {"none", "reading"}]

Gate == [allowed : BOOLEAN, check : Check \cup {None}, error : BOOLEAN,
         timer : Session, verified : BOOLEAN]

Dir == [token : Session, query : Queries, filters : Filters,
        results : SUBSET Row, more : BOOLEAN,
        status : {"idle", "loading", "ready", "error"},
        pending : 1..Companies \cup {None}, mounted : BOOLEAN,
        timer : BOOLEAN, busy : BOOLEAN, searches : SUBSET SearchCall]

ASSUME NoneAssumption ==
    None \notin Tokens \cup (1..Companies) /\ None \notin Check /\ None \notin Write

NewGate == [allowed |-> FALSE, check |-> None, error |-> FALSE, timer |-> None,
            verified |-> FALSE]
NewDir == [token |-> None, query |-> CHOOSE q \in Queries : TRUE,
           filters |-> CHOOSE f \in Filters : TRUE, results |-> {}, more |-> FALSE,
           status |-> "idle", pending |-> None, mounted |-> FALSE, timer |-> FALSE,
           busy |-> FALSE, searches |-> {}]

\* A search whose answer no longer counts.
Dead(token, awaited) ==
    [token |-> token, query |-> None, filters |-> None, offset |-> 0,
     live |-> FALSE, awaited |-> awaited, answer |-> "none", rows |-> {}]

Init ==
    /\ stored \in Session
    /\ session = [t \in Tokens |-> IF t = stored THEN "valid" ELSE "unused"]
    /\ followed = [t \in Tokens |-> {}]
    /\ place = "absent"
    /\ gate = NewGate
    /\ dir = NewDir
    /\ write = None
    /\ doubt = FALSE

-----------------------------------------------------------------------------
(* use-tracking: what its callbacks are made of.  d is the state of the    *)
(* hook, s the session now in storage.                                     *)

\* ++searchSequence: no search in flight counts any more.
Drop(d) ==
    [d EXCEPT !.searches = {Dead(r.token, r.awaited) : r \in @}]

\* search(offset): nothing while a page is loading, unless it starts over.
\* A follow that ends with a search waits for it.
Search(d, offset, awaited) ==
    IF offset > 0 /\ d.busy
    THEN d
    ELSE [Drop(d) EXCEPT
            !.searches = @ \cup {[Dead(d.token, awaited) EXCEPT
                !.query = d.query, !.filters = d.filters, !.offset = offset,
                !.live = TRUE]},
            !.busy = TRUE, !.status = "loading"]

\* Mutant: rows of the account before are kept until new ones arrive.
Refresh_KeepsRows(d, s) ==
    Search([d EXCEPT
        !.timer = FALSE, !.mounted = TRUE, !.busy = FALSE, !.token = s,
        !.pending = IF write = None THEN None ELSE @], 0, FALSE)

\* refresh(): take the stored session, forget the rows of another, read anew.
Refresh(d, s) ==
    LET forget == s # d.token \/ s = None
    IN  Search([d EXCEPT
            !.timer = FALSE, !.mounted = TRUE, !.busy = FALSE, !.token = s,
            !.pending = IF write = None THEN None ELSE @,
            !.results = IF forget THEN {} ELSE @,
            !.more = IF forget THEN FALSE ELSE @], 0, FALSE)

\* The effect of the gate closing: nothing kept, nothing awaited.
Disable(d) ==
    [Drop(d) EXCEPT !.mounted = FALSE, !.timer = FALSE, !.results = {}]

\* current(t): the page still works for session t, and storage agrees.
Current(d, t) == d.mounted /\ d.token = t /\ stored = t

\* current(t) refused: when only storage disagrees the hook starts over.
Left(d, t) ==
    IF d.mounted /\ d.token = t THEN Refresh(d, stored) ELSE d

\* fail(): a rejected session is cleared and the hook goes on as a guest.
Failed(d, answer) ==
    IF answer = "rejected"
    THEN [Drop(d) EXCEPT !.token = None, !.results = {}, !.more = FALSE,
                         !.status = "idle"]
    ELSE d

Cleared(answer) == stored' = IF answer = "rejected" THEN None ELSE stored

Room == Cardinality(dir.searches) < MaxSearches

-----------------------------------------------------------------------------
(* The gate and the life of the page *)

\* check(): close, take the stored session to the server, or open the login.
Checking ==
    [NewGate EXCEPT !.check =
        [token |-> stored, step |-> IF stored = None THEN "login" ELSE "me",
         answer |-> "none", fresh |-> TRUE]]

Open ==
    /\ place = "absent"
    /\ place' = "shown"
    /\ gate' = Checking
    /\ UNCHANGED <<stored, session, followed, dir, write, doubt>>

\* useDidShow: a check already pending goes on instead of a new one.
Show ==
    /\ place = "hidden"
    /\ place' = "shown"
    /\ gate' = IF gate.check = None THEN Checking ELSE gate
    /\ UNCHANGED <<stored, session, followed, dir, write, doubt>>

\* Mutant: hiding the page leaves its check pending.
Hide_KeepsCheck ==
    /\ place = "shown"
    /\ place' = "hidden"
    /\ gate' = [gate EXCEPT !.check = IF @ = None THEN None ELSE [@ EXCEPT !.fresh = FALSE],
                            !.timer = None, !.allowed = FALSE]
    /\ dir' = Disable(dir)
    /\ UNCHANGED <<stored, session, followed, write, doubt>>

\* useDidHide of both hooks: the check is invalidated, the content withdrawn.
Hide ==
    /\ place = "shown"
    /\ place' = "hidden"
    /\ gate' = [gate EXCEPT !.check = None, !.timer = None, !.allowed = FALSE]
    /\ dir' = Disable(dir)
    /\ UNCHANGED <<stored, session, followed, write, doubt>>

\* A check started by the retry button, or by the timer set for the expiry
\* of the session that was let in.
Recheck ==
    /\ place = "shown" /\ gate.check = None
    /\ \/ ~gate.allowed /\ gate.error
       \/ gate.timer # None /\ session[gate.timer] = "expired"
    /\ gate' = Checking
    /\ dir' = Disable(dir)
    /\ UNCHANGED <<stored, session, followed, place, write, doubt>>

AnswerCheck ==
    /\ gate.check # None /\ gate.check.step = "me" /\ gate.check.answer = "none"
    /\ gate' = [gate EXCEPT !.check.answer =
         IF session[gate.check.token] = "valid" THEN "ok" ELSE "rejected"]
    /\ UNCHANGED <<stored, session, followed, place, dir, write, doubt>>

\* The session was accepted and is still the stored one: open the gate.
Admit ==
    /\ gate.check # None /\ gate.check.answer = "ok" /\ stored = gate.check.token
    /\ Room
    /\ gate' = [gate EXCEPT !.allowed = TRUE, !.check = None, !.timer = gate.check.token,
                            !.verified = gate.check.fresh]
    /\ dir' = Refresh(dir, stored)
    /\ UNCHANGED <<stored, session, followed, place, write, doubt>>

\* Accepted but replaced meanwhile, or rejected: on to the login page.
TurnAway ==
    /\ gate.check # None
    /\ gate.check.step = "me"
    /\ \/ gate.check.answer = "ok" /\ stored # gate.check.token
       \/ gate.check.answer = "rejected"
    /\ stored' = IF gate.check.answer = "rejected" /\ stored = gate.check.token
                 THEN None ELSE stored
    /\ gate' = [gate EXCEPT !.check.step = "login", !.check.answer = "none"]
    /\ UNCHANGED <<session, followed, place, dir, write, doubt>>

\* Mutant: the failure is swallowed.
CheckFails_Silent ==
    /\ gate.check # None
    /\ gate' = [gate EXCEPT !.check = None]
    /\ UNCHANGED <<stored, session, followed, place, dir, write, doubt>>

\* The server cannot be reached, or the login page does not open.
CheckFails ==
    /\ gate.check # None
    /\ gate' = [gate EXCEPT !.check = None, !.error = TRUE]
    /\ UNCHANGED <<stored, session, followed, place, dir, write, doubt>>

\* redirectTo replaces this page; a follow in flight keeps an unknown effect.
LoginOpens ==
    /\ gate.check # None /\ gate.check.step = "login"
    /\ place' = "absent" /\ gate' = NewGate /\ dir' = NewDir /\ write' = None
    /\ doubt' = (doubt \/ (write # None /\ write.answer = "none"))
    /\ followed' \in
         {followed} \cup
         (IF write # None /\ write.answer = "none" /\ session[write.token] = "valid"
          THEN {[followed EXCEPT ![write.token] = @ \cup {write.company}]} ELSE {})
    /\ UNCHANGED <<stored, session>>

-----------------------------------------------------------------------------
(* The directory in use *)

Usable == place = "shown" /\ gate.allowed

\* Mutant: typing does not cancel the page being loaded.
SetQuery_KeepsSearch(q) ==
    /\ Usable /\ q # dir.query
    /\ dir' = [dir EXCEPT
         !.query = q, !.busy = FALSE, !.results = {}, !.more = FALSE,
         !.status = "loading", !.timer = TRUE]
    /\ UNCHANGED <<stored, session, followed, place, gate, write, doubt>>

\* An input event reports a new text.
SetQuery(q) ==
    /\ Usable /\ q # dir.query
    /\ dir' = [Drop(dir) EXCEPT
         !.query = q, !.busy = FALSE, !.results = {}, !.more = FALSE,
         !.status = "loading", !.timer = TRUE]
    /\ UNCHANGED <<stored, session, followed, place, gate, write, doubt>>

\* The debounced search.
TimerFires ==
    /\ dir.timer /\ Room
    /\ dir' = Search([dir EXCEPT !.timer = FALSE], 0, FALSE)
    /\ UNCHANGED <<stored, session, followed, place, gate, write, doubt>>

SetFilters(f) ==
    /\ Usable /\ Room
    /\ dir' = Search([Drop(dir) EXCEPT
         !.filters = f, !.busy = FALSE, !.timer = FALSE, !.results = {}, !.more = FALSE],
         0, FALSE)
    /\ write' = IF write = None THEN None ELSE [write EXCEPT !.filtered = TRUE]
    /\ UNCHANGED <<stored, session, followed, place, gate, doubt>>

Retry ==
    /\ Usable /\ Room
    /\ dir' = Search(dir, 0, FALSE)
    /\ UNCHANGED <<stored, session, followed, place, gate, write, doubt>>

LoadMore ==
    /\ Usable /\ Room
    /\ dir.more /\ dir.status = "ready" /\ dir.pending = None
    /\ dir' = Search(dir, Cardinality(dir.results), FALSE)
    /\ UNCHANGED <<stored, session, followed, place, gate, write, doubt>>

\* The server searches with the session it is given, for a guest without one.
\* Only a request whose answer counts is worth an answer.
ServeSearch(r) ==
    /\ r.live /\ r.answer = "none"
    /\ LET ok == r.token = None \/ session[r.token] = "valid"
       IN  dir' = [dir EXCEPT !.searches = (@ \ {r}) \cup {[r EXCEPT
             !.answer = IF ok THEN "ok" ELSE "rejected",
             !.rows = {[company |-> c, query |-> r.query, filters |-> r.filters,
                        token |-> r.token,
                        followed |-> r.token # None /\ c \in followed[r.token]] :
                       c \in {c \in {r.offset + 1} : ok /\ c <= Companies}}]}]
    /\ UNCHANGED <<stored, session, followed, place, gate, write, doubt>>

\* What an answer that counts does: rows replace the old or follow them.
Shown(d, r) ==
    [d EXCEPT !.results = IF r.offset = 0 THEN r.rows
                          ELSE @ \cup {x \in r.rows : \A y \in @ : y.company # x.company},
              !.more = r.offset + 1 < Companies, !.status = "ready", !.busy = FALSE]

\* A follow that has ended frees the buttons of the page it still works for.
Freed(d, over) ==
    IF over /\ d.mounted THEN [d EXCEPT !.pending = None] ELSE d

\* The answer, or the error of a request the server never got or whose
\* answer was lost.
ReceiveSearch(r, answer) ==
    /\ r \in dir.searches
    /\ r.live => answer \in {r.answer, "error"} \ {"none"}
    /\ ~r.live => answer = "none"
    /\ LET rest == [dir EXCEPT !.searches = @ \ {r}]
       IN  IF Current(dir, r.token)
           THEN /\ dir' = Freed(IF ~r.live THEN rest
                                ELSE IF answer = "ok" THEN Shown(rest, r)
                                ELSE Failed([rest EXCEPT !.status = "error",
                                             !.busy = answer = "rejected"], answer),
                                r.awaited)
                /\ Cleared(answer)
           ELSE /\ dir' = Freed(Left(rest, r.token), r.awaited)
                /\ UNCHANGED stored
    /\ write' = IF r.awaited THEN None ELSE write
    /\ UNCHANGED <<session, followed, place, gate, doubt>>

-----------------------------------------------------------------------------
(* Following a company *)

\* change(item, true): reads in flight carry the old membership, none counts.
Follow(c) ==
    /\ Usable /\ Room
    /\ \E x \in dir.results : x.company = c /\ ~x.followed
    /\ dir.pending = None /\ dir.token # None /\ write = None
    /\ IF Current(dir, dir.token)
       THEN /\ dir' = [Drop(dir) EXCEPT !.pending = c, !.busy = FALSE, !.timer = FALSE]
            /\ write' = [token |-> dir.token, company |-> c, query |-> dir.query,
                         filtered |-> FALSE, answer |-> "none"]
       ELSE /\ dir' = Left(dir, dir.token)
            /\ UNCHANGED write
    /\ UNCHANGED <<stored, session, followed, place, gate, doubt>>

Followed == [followed EXCEPT ![write.token] = @ \cup {write.company}]

ServeWrite ==
    /\ write # None /\ write.answer = "none"
    /\ IF session[write.token] = "valid"
       THEN followed' = Followed /\ write' = [write EXCEPT !.answer = "ok"]
       ELSE UNCHANGED followed /\ write' = [write EXCEPT !.answer = "rejected"]
    /\ UNCHANGED <<stored, session, place, gate, dir, doubt>>

\* The answer is an error, or lost with what it said.
LoseWrite ==
    /\ write # None /\ write.answer = "none"
    /\ write' = [write EXCEPT !.answer = "error"]
    /\ doubt' = TRUE
    /\ followed' \in
         {followed} \cup (IF session[write.token] = "valid" THEN {Followed} ELSE {})
    /\ UNCHANGED <<stored, session, place, gate, dir>>

\* Mutant: reads started during the follow still count after it.
Confirmed_KeepsReads(d) ==
    LET marked == [d EXCEPT
            !.busy = FALSE,
            !.results = {[x EXCEPT !.followed = @ \/ x.company = write.company] : x \in @}]
    IN  IF write.query = d.query /\ ~write.filtered
        THEN [marked EXCEPT !.status = "ready"]
        ELSE Search(marked, 0, TRUE)

\* The rows show the confirmed membership; a search typed or filtered
\* meanwhile is read again, and the follow ends with it.
Confirmed(d) ==
    LET marked == [Drop(d) EXCEPT
            !.busy = FALSE,
            !.results = {[x EXCEPT !.followed = @ \/ x.company = write.company] : x \in @}]
    IN  IF write.query = d.query /\ ~write.filtered
        THEN [marked EXCEPT !.status = "ready"]
        ELSE Search(marked, 0, TRUE)

ReceiveWrite ==
    /\ write # None /\ write.answer \in Answer
    /\ Room
    /\ LET here == Current(dir, write.token)
           reads == /\ here /\ write.answer = "ok"
                    /\ write.query # dir.query \/ write.filtered
       IN  /\ dir' = IF reads THEN Confirmed(dir)
                     ELSE Freed(IF ~here THEN Left(dir, write.token)
                                ELSE IF write.answer = "ok" THEN Confirmed(dir)
                                ELSE Failed([dir EXCEPT !.status = "error"],
                                            write.answer), TRUE)
           /\ write' = IF reads THEN [write EXCEPT !.answer = "reading"] ELSE None
           /\ IF here THEN Cleared(write.answer) ELSE UNCHANGED stored
    /\ UNCHANGED <<session, followed, place, gate, doubt>>

-----------------------------------------------------------------------------
(* The session outside this page *)

\* Another page logs in: the session it replaces may be revoked with it.
SaveSession(t) ==
    /\ session[t] = "unused"
    /\ stored' = t
    /\ \E replaced \in SUBSET ({stored} \cap {s \in Tokens : session[s] = "valid"}) :
         session' = [s \in Tokens |-> IF s = t THEN "valid"
                                      ELSE IF s \in replaced THEN "revoked" ELSE session[s]]
    /\ UNCHANGED <<followed, place, gate, dir, write, doubt>>

\* Another page logs out or is told that a session is rejected.
ClearSession ==
    /\ stored # None
    /\ stored' = None
    /\ UNCHANGED <<session, followed, place, gate, dir, write, doubt>>

\* The User Service revokes a session: logout, disabled account, new login.
Revoke(t) ==
    /\ session[t] = "valid"
    /\ session' = [session EXCEPT ![t] = "revoked"]
    /\ UNCHANGED <<stored, followed, place, gate, dir, write, doubt>>

\* A session reaches its expiry: readSession then removes it.
Expire(t) ==
    /\ session[t] \in {"valid", "revoked"}
    /\ session' = [session EXCEPT ![t] = "expired"]
    /\ stored' = IF stored = t THEN None ELSE stored
    /\ UNCHANGED <<followed, place, gate, dir, write, doubt>>

Next ==
    \/ Open \/ Show \/ Hide
    \/ Recheck \/ AnswerCheck \/ Admit \/ TurnAway \/ CheckFails \/ LoginOpens
    \/ \E q \in Queries : SetQuery(q)
    \/ \E f \in Filters : SetFilters(f)
    \/ TimerFires \/ Retry \/ LoadMore
    \/ \E r \in dir.searches : ServeSearch(r)
    \/ \E r \in dir.searches, a \in Answer \cup {"none"} : ReceiveSearch(r, a)
    \/ \E c \in Wanted : Follow(c)
    \/ ServeWrite \/ LoseWrite \/ ReceiveWrite
    \/ \E t \in Tokens : SaveSession(t) \/ Revoke(t) \/ Expire(t)
    \/ ClearSession

Spec == Init /\ [][Next]_vars

-----------------------------------------------------------------------------
(* Properties *)

\* The variables keep their shape; of the searches in flight the answer of
\* one at most counts.
TypeOK ==
    /\ stored \in Session
    /\ session \in [Tokens -> {"unused", "valid", "revoked", "expired"}]
    /\ followed \in [Tokens -> SUBSET (1..Companies)]
    /\ place \in {"absent", "hidden", "shown"}
    /\ gate \in Gate
    /\ dir \in Dir
    /\ IsFiniteSet(dir.results)
    /\ \A r \in dir.searches : IsFiniteSet(r.rows)
    /\ write \in Write \cup {None}
    /\ doubt \in BOOLEAN
    /\ \A r, s \in dir.searches : r.live /\ s.live => r = s

\* Rows shown are answers to the present query and filters, read with the
\* session the page works for: no row of an old search, of another account
\* or of a page that belongs to another search survives.
ResultsMatchSearch ==
    \A x \in dir.results :
        x.query = dir.query /\ x.filters = dir.filters /\ x.token = dir.token

\* Paging leaves no gap and repeats nothing, whatever was typed, followed or
\* reloaded between the request of a page and its answer.
PagesAreContiguous ==
    /\ TypeOK
    /\ \A x, y \in dir.results : x.company = y.company => x = y
    /\ {x.company : x \in dir.results} = 1..Cardinality(dir.results)

\* A company is shown as followed only when the server holds the follow, and
\* as not followed only when it does not, except while a follow is under way
\* or after one whose outcome never became known.
FollowShown ==
    \A x \in dir.results : x.token # None =>
        /\ x.followed => x.company \in followed[x.token]
        /\ ~x.followed /\ x.company \in followed[x.token] => write # None \/ doubt

\* The buttons are blocked exactly while a follow is under way: two follows
\* never overlap and a page never keeps its buttons blocked.
BusyWhileWriting == dir.mounted => (dir.pending # None <=> write # None)

\* "Loading" is shown only while a search whose answer counts is in flight or
\* scheduled, or a follow that will settle the page is under way.
LoadingIsSearching ==
    dir.mounted /\ dir.status = "loading" =>
        dir.timer \/ write # None \/ \E r \in dir.searches : r.live

\* Nothing is shown, loaded or scheduled unless the server accepted the
\* session after the page was last shown.
ContentIsVerified ==
    /\ gate.allowed => place = "shown" /\ gate.verified
    /\ dir.results # {} \/ dir.timer \/ dir.mounted \/ (\E r \in dir.searches : r.live)
         => gate.allowed

\* A shown page that is not open is being checked, being replaced by the
\* login page, or says what went wrong and offers to retry.
NeverBlank ==
    place = "shown" /\ ~gate.allowed => gate.check # None \/ gate.error

\* Whatever ended, was left or was lost, the page is never stuck: blank with
\* nothing to wait for or to retry, loading with nothing on its way, or with
\* buttons that no follow will free.
PageIsNeverStuck == NeverBlank /\ LoadingIsSearching /\ BusyWhileWriting

\* The inductive invariant behind ContentIsVerified, NeverBlank,
\* BusyWhileWriting, LoadingIsSearching and ResultsMatchSearch.
GateInv ==
    /\ gate.allowed = dir.mounted
    /\ gate.allowed => place = "shown" /\ gate.verified /\ gate.check = None
    /\ gate.check # None => place = "shown" /\ gate.check.fresh
    /\ NeverBlank

\* The searches of hook state d: one counts at most, and it asks what the
\* page now wants; rows answer what was asked.
SearchesInv(d) ==
    /\ \A r, s \in d.searches : r.live /\ s.live => r = s
    /\ \A r \in d.searches : r.live =>
         d.mounted /\ r.query = d.query /\ r.filters = d.filters /\ r.token = d.token
    /\ \A r \in d.searches : \A x \in r.rows :
         x.query = r.query /\ x.filters = r.filters /\ x.token = r.token
    /\ \A x \in d.results :
         d.mounted /\ x.query = d.query /\ x.filters = d.filters /\ x.token = d.token
    /\ d.timer => d.mounted

\* Hook state d beside the follow w.
WriteInv(d, w) ==
    /\ w # None => d.pending # None
    /\ d.mounted /\ d.pending # None => w # None
    /\ d.mounted /\ d.status = "loading" =>
         \/ d.timer
         \/ \E r \in d.searches : r.live
         \/ w # None /\ w.answer # "reading" /\ w.token = d.token
    /\ \A r \in d.searches : r.awaited => w # None /\ w.answer = "reading"
    /\ \A r, s \in d.searches : r.awaited /\ s.awaited => r = s

PageInv == GateInv /\ SearchesInv(dir) /\ WriteInv(dir, write)

\* What the documentation says of a return to the page: it reads anew.  Every
\* search finds companies, so a page that is ready shows some, unless the
\* search just typed is still to be sent.
ReadyShowsAnswer ==
    dir.mounted /\ dir.status = "ready" /\ ~dir.timer => dir.results # {}

=============================================================================
