------------------------- MODULE CompanyPageProofs -------------------------
(***************************************************************************)
(* Theorems about CompanyPage, for any sessions, queries, filters, number  *)
(* of companies and number of searches in flight.                          *)
(***************************************************************************)
EXTENDS CompanyPage, FiniteSetTheorems, TLAPS

(* What the parts of use-tracking do to the state of the hook *)

\* The type of a hook state: what TypeOK says of dir, but for the last clause.
HookOK(d) ==
    /\ d \in Dir
    /\ IsFiniteSet(d.results)
    /\ \A r \in d.searches : IsFiniteSet(r.rows)

\* Hook state e differs from d in its searches, its status and busy only.
SameWish(d, e) ==
    /\ e.token = d.token /\ e.query = d.query /\ e.filters = d.filters
    /\ e.results = d.results /\ e.more = d.more /\ e.pending = d.pending
    /\ e.mounted = d.mounted /\ e.timer = d.timer

OneAwaited(d) == \A r, s \in d.searches : r.awaited /\ s.awaited => r = s

\* A search that no longer counts is well formed.
LEMMA DeadType ==
    ASSUME NEW t \in Session, NEW a \in BOOLEAN
    PROVE  /\ Dead(t, a) \in SearchCall
           /\ Dead(t, a).token = t /\ Dead(t, a).awaited = a
           /\ ~Dead(t, a).live /\ Dead(t, a).rows = {}
           /\ IsFiniteSet(Dead(t, a).rows)
BY FS_EmptySet DEF Dead, SearchCall

\* Dropping the searches leaves none that counts and changes nothing else.
LEMMA DropLemma ==
    ASSUME NEW d, HookOK(d)
    PROVE  /\ HookOK(Drop(d)) /\ SameWish(d, Drop(d))
           /\ Drop(d).status = d.status /\ Drop(d).busy = d.busy
           /\ \A r \in Drop(d).searches :
                /\ ~r.live /\ r.rows = {}
                /\ \E s \in d.searches : r.awaited = s.awaited
           /\ OneAwaited(d) => OneAwaited(Drop(d))
<1>1. d \in Dir
  BY DEF HookOK
<1> DEFINE S == {Dead(r.token, r.awaited) : r \in d.searches}
<1>2. \A r \in d.searches : r.token \in Session /\ r.awaited \in BOOLEAN
  BY <1>1 DEF Dir, SearchCall
<1>3. /\ S \in SUBSET SearchCall
      /\ \A x \in S : ~x.live /\ x.rows = {} /\ IsFiniteSet(x.rows)
      /\ \A x \in S : \E s \in d.searches :
           x = Dead(s.token, s.awaited) /\ x.awaited = s.awaited
  BY <1>2, DeadType
<1>4. OneAwaited(d) => \A x, y \in S : x.awaited /\ y.awaited => x = y
  BY <1>3 DEF OneAwaited
<1>5. Drop(d) = [d EXCEPT !.searches = S]
  BY DEF Drop
<1> HIDE DEF S
<1>6. /\ Drop(d) \in Dir /\ Drop(d).searches = S /\ SameWish(d, Drop(d))
      /\ Drop(d).status = d.status /\ Drop(d).busy = d.busy
  BY <1>1, <1>3, <1>5 DEF Dir, SameWish
<1> QED
  BY <1>3, <1>4, <1>6 DEF HookOK, SameWish, OneAwaited

\* What a search that is started leaves: it alone counts, asks what the page
\* wants, and has no rows yet.
Searching(d, e, a) ==
    /\ HookOK(e) /\ SameWish(d, e)
    /\ e.busy /\ e.status = "loading"
    /\ \E r \in e.searches : r.live
    /\ \A r, s \in e.searches : r.live /\ s.live => r = s
    /\ \A r \in e.searches :
         /\ r.rows = {}
         /\ r.live => r.query = d.query /\ r.filters = d.filters /\ r.token = d.token
         /\ r.awaited => a \/ \E s \in d.searches : s.awaited
    /\ OneAwaited(d) /\ (a => \A s \in d.searches : ~s.awaited) => OneAwaited(e)

LEMMA SearchLemma ==
    ASSUME NEW d, HookOK(d), NEW o \in Nat, NEW a \in BOOLEAN,
           ~(o > 0 /\ d.busy)
    PROVE  Searching(d, Search(d, o, a), a)
<1> DEFINE n == [Dead(d.token, a) EXCEPT !.query = d.query, !.filters = d.filters,
                                         !.offset = o, !.live = TRUE]
           S == Drop(d).searches
           e == [Drop(d) EXCEPT !.searches = S \cup {n}, !.busy = TRUE,
                                !.status = "loading"]
<1>1. /\ HookOK(Drop(d)) /\ SameWish(d, Drop(d))
      /\ \A r \in S : /\ ~r.live /\ r.rows = {}
                      /\ \E s \in d.searches : r.awaited = s.awaited
      /\ OneAwaited(d) => OneAwaited(Drop(d))
  BY DropLemma
<1>2. Search(d, o, a) = e
  BY DEF Search
<1>3. /\ d.token \in Session /\ d.query \in Queries /\ d.filters \in Filters
      /\ Drop(d) \in Dir
  BY <1>1 DEF HookOK, Dir
<1>4. /\ n \in SearchCall /\ n.rows = {} /\ n.live /\ n.awaited = a
      /\ n.query = d.query /\ n.filters = d.filters /\ n.token = d.token
  BY <1>3 DEF Dead, SearchCall
<1>5. IsFiniteSet(n.rows)
  BY <1>4, FS_EmptySet
<1> HIDE DEF n
<1>6. S \in SUBSET SearchCall
  BY <1>3 DEF Dir
<1>7. /\ e \in Dir /\ e.searches = S \cup {n} /\ e.busy /\ e.status = "loading"
      /\ SameWish(Drop(d), e)
  BY <1>3, <1>4, <1>6 DEF Dir, SameWish
<1> HIDE DEF e
<1>8. HookOK(e) /\ SameWish(d, e)
  BY <1>1, <1>5, <1>7 DEF HookOK, SameWish
<1>9. OneAwaited(d) /\ (a => \A s \in d.searches : ~s.awaited) => OneAwaited(e)
  <2> SUFFICES ASSUME OneAwaited(d), a => \A s \in d.searches : ~s.awaited
               PROVE  OneAwaited(e)
    OBVIOUS
  <2>1. \A x, y \in S : x.awaited /\ y.awaited => x = y
    BY <1>1 DEF OneAwaited
  <2>2. a => \A x \in S : ~x.awaited
    BY <1>1
  <2> QED
    BY <1>4, <1>7, <2>1, <2>2 DEF OneAwaited
<1> HIDE DEF S
<1> QED
  BY <1>1, <1>2, <1>4, <1>7, <1>8, <1>9 DEF Searching

\* What a hook state must satisfy beside the follow w.
Fit(d, w) == HookOK(d) /\ SearchesInv(d) /\ WriteInv(d, w)

\* The searches awaited in d, beside the follow w.
AwaitOK(d, w) ==
    /\ \A r \in d.searches : r.awaited => w # None /\ w.answer = "reading"
    /\ OneAwaited(d)

\* Rows and searches of d, before the searches are dropped.
RowsOK(d) ==
    \A x \in d.results :
        d.mounted /\ x.query = d.query /\ x.filters = d.filters /\ x.token = d.token

\* A search started for a mounted page makes its hook state fit again.
LEMMA SearchFit ==
    ASSUME NEW d, HookOK(d), NEW o \in Nat, NEW a \in BOOLEAN, NEW w,
           ~(o > 0 /\ d.busy), d.mounted, RowsOK(d), AwaitOK(d, w),
           w # None <=> d.pending # None,
           a => w # None /\ w.answer = "reading" /\ \A s \in d.searches : ~s.awaited
    PROVE  Fit(Search(d, o, a), w)
<1> DEFINE e == Search(d, o, a)
<1>1. Searching(d, e, a)
  BY SearchLemma
<1> HIDE DEF e
<1>2. SearchesInv(e)
  BY <1>1 DEF Searching, SameWish, SearchesInv, RowsOK
<1>3. WriteInv(e, w)
  BY <1>1 DEF Searching, SameWish, WriteInv, AwaitOK, OneAwaited
<1> QED
  BY <1>1, <1>2, <1>3 DEF Fit, Searching, e

\* refresh() leaves a mounted page that works for the stored session, with
\* one search that counts.
LEMMA RefreshLemma ==
    ASSUME NEW d, HookOK(d), NEW s \in Session, NEW w, SearchesInv(d), AwaitOK(d, w),
           write = None \/ d.pending # None
    PROVE  /\ HookOK(Refresh(d, s)) /\ SearchesInv(Refresh(d, s))
           /\ Refresh(d, s).mounted /\ Refresh(d, s).token = s
           /\ write # None <=> Refresh(d, s).pending # None
           /\ \E r \in Refresh(d, s).searches : r.live
           /\ AwaitOK(Refresh(d, s), w)
<1> DEFINE forget == s # d.token \/ s = None
           m == [d EXCEPT !.timer = FALSE, !.mounted = TRUE, !.busy = FALSE, !.token = s,
                          !.pending = IF write = None THEN None ELSE @,
                          !.results = IF forget THEN {} ELSE @,
                          !.more = IF forget THEN FALSE ELSE @]
           e == Refresh(d, s)
<1>1. e = Search(m, 0, FALSE)
  BY DEF Refresh
<1>2. d \in Dir
  BY DEF HookOK
<1>3. /\ m \in Dir /\ m.mounted /\ m.token = s /\ ~m.timer
      /\ m.searches = d.searches /\ m.query = d.query /\ m.filters = d.filters
      /\ m.pending = (IF write = None THEN None ELSE d.pending)
      /\ m.results = (IF forget THEN {} ELSE d.results)
  BY <1>2 DEF Dir
<1> HIDE DEF m
<1>4. HookOK(m)
  BY <1>3, FS_EmptySet DEF HookOK
<1> HIDE DEF e
<1>5. Searching(m, e, FALSE)
  <2>1. ~(0 > 0 /\ m.busy)
    OBVIOUS
  <2>2. Searching(m, Search(m, 0, FALSE), FALSE)
    BY <1>4, <2>1, SearchLemma
  <2> QED
    BY <1>1, <2>2
<1>6. SearchesInv(e)
  BY <1>3, <1>5 DEF Searching, SameWish, SearchesInv
<1>7. AwaitOK(e, w)
  BY <1>3, <1>5 DEF Searching, AwaitOK, OneAwaited
<1> QED
  BY <1>3, <1>5, <1>6, <1>7 DEF Searching, SameWish, e

\* The gate closing leaves nothing that could be shown or counted.
LEMMA DisableLemma ==
    ASSUME NEW d, NEW w, Fit(d, w)
    PROVE  Fit(Disable(d), w) /\ ~Disable(d).mounted
<1> DEFINE D == Drop(d)
           e == Disable(d)
<1>1. /\ HookOK(D) /\ SameWish(d, D)
      /\ \A r \in D.searches : /\ ~r.live /\ r.rows = {}
                               /\ \E s \in d.searches : r.awaited = s.awaited
      /\ OneAwaited(d) => OneAwaited(D)
  BY DropLemma DEF Fit
<1>2. e = [D EXCEPT !.mounted = FALSE, !.timer = FALSE, !.results = {}]
  BY DEF Disable
<1> HIDE DEF D, e
<1>3. /\ e \in Dir /\ ~e.mounted /\ ~e.timer /\ e.results = {}
      /\ e.searches = D.searches /\ e.pending = D.pending
  BY <1>1, <1>2 DEF HookOK, Dir
<1>4. HookOK(e) /\ SearchesInv(e)
  BY <1>1, <1>3, FS_EmptySet DEF HookOK, SearchesInv
<1>5. WriteInv(e, w)
  BY <1>1, <1>3 DEF Fit, WriteInv, OneAwaited, SameWish
<1> QED
  BY <1>3, <1>4, <1>5 DEF Fit, e

\* A page that is not there yet.
LEMMA NewDirLemma == Fit(NewDir, None) /\ ~NewDir.mounted
<1>1. /\ (CHOOSE q \in Queries : TRUE) \in Queries
      /\ (CHOOSE f \in Filters : TRUE) \in Filters
  BY ConstantsAssumption
<1>2. /\ NewDir \in Dir /\ ~NewDir.mounted /\ ~NewDir.timer
      /\ NewDir.results = {} /\ NewDir.searches = {}
  BY <1>1 DEF NewDir, Dir, Session
<1> QED
  BY <1>2, FS_EmptySet DEF Fit, HookOK, SearchesInv, WriteInv

\* A rejected session leaves a page without rows that loads nothing; any
\* other failure changes nothing.
LEMMA FailedLemma ==
    ASSUME NEW d, HookOK(d), SearchesInv(d), NEW w, AwaitOK(d, w), NEW answer,
           d.status # "loading"
    PROVE  /\ HookOK(Failed(d, answer)) /\ SearchesInv(Failed(d, answer))
           /\ AwaitOK(Failed(d, answer), w)
           /\ Failed(d, answer).mounted = d.mounted
           /\ Failed(d, answer).pending = d.pending
           /\ Failed(d, answer).status # "loading"
           /\ \A r \in Failed(d, answer).searches : r.awaited =>
                \E s \in d.searches : s.awaited
<1>1. CASE answer # "rejected"
  BY <1>1 DEF Failed
<1>2. CASE answer = "rejected"
  <2> DEFINE D == Drop(d)
             e == Failed(d, answer)
  <2>1. /\ HookOK(D) /\ SameWish(d, D)
        /\ \A r \in D.searches : /\ ~r.live /\ r.rows = {}
                                 /\ \E s \in d.searches : r.awaited = s.awaited
        /\ OneAwaited(d) => OneAwaited(D)
    BY DropLemma
  <2>2. e = [D EXCEPT !.token = None, !.results = {}, !.more = FALSE,
                      !.status = "idle"]
    BY <1>2 DEF Failed
  <2> HIDE DEF D, e
  <2>3. /\ e \in Dir /\ e.mounted = D.mounted /\ e.timer = D.timer /\ e.results = {}
        /\ e.searches = D.searches /\ e.pending = D.pending /\ e.status = "idle"
    BY <2>1, <2>2 DEF HookOK, Dir, Session
  <2>4. HookOK(e) /\ SearchesInv(e)
    BY <2>1, <2>3, FS_EmptySet DEF HookOK, SearchesInv, SameWish
  <2>5. AwaitOK(e, w)
    BY <2>1, <2>3 DEF AwaitOK, OneAwaited
  <2> QED
    BY <2>1, <2>3, <2>4, <2>5 DEF SameWish, e
<1> QED
  BY <1>1, <1>2

\* The end of a follow: its buttons are freed on the page that is there.
LEMMA FreedLemma ==
    ASSUME NEW d, HookOK(d), SearchesInv(d),
           \A r \in d.searches : ~r.awaited,
           d.mounted /\ d.status = "loading" => d.timer \/ \E r \in d.searches : r.live
    PROVE  Fit(Freed(d, TRUE), None) /\ Freed(d, TRUE).mounted = d.mounted
<1>1. CASE ~d.mounted
  BY <1>1 DEF Freed, Fit, WriteInv
<1>2. CASE d.mounted
  <2> DEFINE e == Freed(d, TRUE)
  <2>1. e = [d EXCEPT !.pending = None]
    BY <1>2 DEF Freed
  <2> HIDE DEF e
  <2>2. /\ e \in Dir /\ e.pending = None /\ e.mounted = d.mounted
        /\ e.searches = d.searches /\ e.status = d.status /\ e.timer = d.timer
        /\ e.results = d.results /\ e.query = d.query /\ e.filters = d.filters
        /\ e.token = d.token
    BY <2>1 DEF HookOK, Dir
  <2>3. HookOK(e) /\ SearchesInv(e)
    BY <2>2 DEF HookOK, SearchesInv
  <2>4. WriteInv(e, None)
    BY <2>2 DEF WriteInv
  <2> QED
    BY <2>2, <2>3, <2>4 DEF Fit, e
<1> QED
  BY <1>1, <1>2 DEF HookOK, Dir

-----------------------------------------------------------------------------
(* The inductive invariant and the actions that leave the hook alone *)

Inv == TypeOK /\ PageInv

\* The type of what is not the directory.
PlainOK ==
    /\ stored \in Session
    /\ session \in [Tokens -> {"unused", "valid", "revoked", "expired"}]
    /\ followed \in [Tokens -> SUBSET (1..Companies)]
    /\ place \in {"absent", "hidden", "shown"}
    /\ gate \in Gate
    /\ write \in Write \cup {None}
    /\ doubt \in BOOLEAN

LEMMA Parts == Inv <=> PlainOK /\ GateInv /\ Fit(dir, write)
BY DEF Inv, TypeOK, PageInv, PlainOK, Fit, HookOK, SearchesInv

\* A check that starts is well formed, and is of the page as shown now.
LEMMA CheckingLemma ==
    ASSUME PlainOK
    PROVE  /\ Checking \in Gate /\ ~Checking.allowed
           /\ Checking.check # None /\ Checking.check.fresh
<1> DEFINE c == [token |-> stored, step |-> IF stored = None THEN "login" ELSE "me",
                 answer |-> "none", fresh |-> TRUE]
<1>1. c \in Check /\ c.fresh
  BY DEF PlainOK, Check
<1>2. c # None
  BY <1>1, NoneAssumption
<1>3. Checking = [NewGate EXCEPT !.check = c]
  BY DEF Checking
<1> HIDE DEF c
<1> QED
  BY <1>1, <1>2, <1>3 DEF NewGate, Gate, Session

LEMMA NewGateLemma ==
    NewGate \in Gate /\ ~NewGate.allowed /\ NewGate.check = None
BY DEF NewGate, Gate, Session

LEMMA OpenStep ==
    ASSUME Inv, Open
    PROVE  PlainOK' /\ GateInv' /\ Fit(dir', write')
<1>1. PlainOK /\ GateInv /\ Fit(dir, write)
  BY Parts
<1>2. PlainOK'
  BY <1>1, CheckingLemma DEF Open, PlainOK
<1>3. GateInv'
  <2>1. gate.allowed \in BOOLEAN /\ dir.mounted \in BOOLEAN /\ dir' = dir
    BY <1>1 DEF Open, PlainOK, Gate, Fit, HookOK, Dir
  <2>2. ~dir.mounted
    BY <1>1, <2>1 DEF Open, GateInv
  <2>3. gate'.allowed \in BOOLEAN /\ ~gate'.allowed
    BY <1>1, CheckingLemma DEF Open, Gate
  <2> QED
    BY <1>1, <2>1, <2>2, <2>3, CheckingLemma DEF Open, GateInv, NeverBlank
<1> QED
  BY <1>1, <1>2, <1>3 DEF Open

LEMMA ShowStep ==
    ASSUME Inv, Show
    PROVE  PlainOK' /\ GateInv' /\ Fit(dir', write')
<1>1. PlainOK /\ GateInv /\ Fit(dir, write)
  BY Parts
<1>2. gate' = Checking
  BY <1>1 DEF Show, GateInv
<1>3. PlainOK'
  BY <1>1, <1>2, CheckingLemma DEF Show, PlainOK
<1>4. GateInv'
  <2>1. gate.allowed \in BOOLEAN /\ dir.mounted \in BOOLEAN /\ dir' = dir
    BY <1>1 DEF Show, PlainOK, Gate, Fit, HookOK, Dir
  <2>2. ~dir.mounted
    BY <1>1, <2>1 DEF Show, GateInv
  <2>3. gate'.allowed \in BOOLEAN /\ ~gate'.allowed
    BY <1>1, <1>2, CheckingLemma DEF Gate
  <2> QED
    BY <1>1, <1>2, <2>1, <2>2, <2>3, CheckingLemma DEF Show, GateInv, NeverBlank
<1> QED
  BY <1>1, <1>3, <1>4 DEF Show

LEMMA HideStep ==
    ASSUME Inv, Hide
    PROVE  PlainOK' /\ GateInv' /\ Fit(dir', write')
<1>1. PlainOK /\ GateInv /\ Fit(dir, write)
  BY Parts
<1>2. gate' \in Gate /\ ~gate'.allowed /\ gate'.check = None
  BY <1>1 DEF Hide, PlainOK, Gate, Session
<1>3. Fit(dir', write') /\ ~dir'.mounted
  BY <1>1, DisableLemma DEF Hide
<1>4. dir' \in Dir
  BY <1>3 DEF Fit, HookOK
<1>5. PlainOK'
  BY <1>1, <1>2 DEF Hide, PlainOK
<1>6. GateInv'
  BY <1>2, <1>3, <1>4 DEF Hide, GateInv, NeverBlank, Gate, Dir
<1> QED
  BY <1>3, <1>5, <1>6

LEMMA RecheckStep ==
    ASSUME Inv, Recheck
    PROVE  PlainOK' /\ GateInv' /\ Fit(dir', write')
<1>1. PlainOK /\ GateInv /\ Fit(dir, write)
  BY Parts
<1>2. /\ gate' \in Gate /\ ~gate'.allowed /\ gate'.check # None
      /\ gate'.check.fresh
  BY <1>1, CheckingLemma DEF Recheck
<1>3. Fit(dir', write') /\ ~dir'.mounted
  BY <1>1, DisableLemma DEF Recheck
<1>4. dir' \in Dir
  BY <1>3 DEF Fit, HookOK
<1>5. PlainOK'
  BY <1>1, <1>2 DEF Recheck, PlainOK
<1>6. GateInv'
  BY <1>2, <1>3, <1>4 DEF Recheck, GateInv, NeverBlank, Gate, Dir
<1> QED
  BY <1>3, <1>5, <1>6

LEMMA AnswerCheckStep ==
    ASSUME Inv, AnswerCheck
    PROVE  PlainOK' /\ GateInv' /\ Fit(dir', write')
<1>1. PlainOK /\ GateInv /\ Fit(dir, write)
  BY Parts
<1> DEFINE a == IF session[gate.check.token] = "valid" THEN "ok" ELSE "rejected"
           c == [gate.check EXCEPT !.answer = a]
<1>2. gate.check \in Check
  BY <1>1 DEF AnswerCheck, PlainOK, Gate
<1>3. c \in Check /\ c.fresh = gate.check.fresh
  BY <1>2 DEF Check
<1>4. gate' = [gate EXCEPT !.check = c]
  BY <1>1 DEF AnswerCheck, PlainOK, Gate
<1> HIDE DEF c
<1>5. /\ gate' \in Gate /\ gate'.check = c /\ gate'.allowed = gate.allowed
      /\ gate'.error = gate.error
  BY <1>1, <1>3, <1>4 DEF PlainOK, Gate
<1>6. c # None
  BY <1>3, NoneAssumption
<1>7. PlainOK'
  BY <1>1, <1>5 DEF AnswerCheck, PlainOK
<1>8. GateInv'
  BY <1>1, <1>3, <1>5, <1>6 DEF AnswerCheck, GateInv, NeverBlank
<1> QED
  BY <1>1, <1>7, <1>8 DEF AnswerCheck

LEMMA TurnAwayStep ==
    ASSUME Inv, TurnAway
    PROVE  PlainOK' /\ GateInv' /\ Fit(dir', write')
<1>1. PlainOK /\ GateInv /\ Fit(dir, write)
  BY Parts
<1> DEFINE c == [gate.check EXCEPT !.step = "login", !.answer = "none"]
<1>2. gate.check \in Check
  BY <1>1 DEF TurnAway, PlainOK, Gate
<1>3. c \in Check /\ c.fresh = gate.check.fresh
  BY <1>2 DEF Check
<1>4. gate' = [gate EXCEPT !.check = c]
  BY <1>1 DEF TurnAway, PlainOK, Gate
<1> HIDE DEF c
<1>5. /\ gate' \in Gate /\ gate'.check = c /\ gate'.allowed = gate.allowed
      /\ gate'.error = gate.error
  BY <1>1, <1>3, <1>4 DEF PlainOK, Gate
<1>6. c # None
  BY <1>3, NoneAssumption
<1>7. PlainOK'
  BY <1>1, <1>5 DEF TurnAway, PlainOK, Session
<1>8. GateInv'
  BY <1>1, <1>3, <1>5, <1>6 DEF TurnAway, GateInv, NeverBlank
<1> QED
  BY <1>1, <1>7, <1>8 DEF TurnAway

LEMMA CheckFailsStep ==
    ASSUME Inv, CheckFails
    PROVE  PlainOK' /\ GateInv' /\ Fit(dir', write')
<1>1. PlainOK /\ GateInv /\ Fit(dir, write)
  BY Parts
<1>2. /\ gate' \in Gate /\ gate'.allowed = gate.allowed /\ gate'.check = None
      /\ gate'.error
  BY <1>1 DEF CheckFails, PlainOK, Gate
<1>3. ~gate.allowed
  BY <1>1 DEF CheckFails, GateInv
<1>4. PlainOK'
  BY <1>1, <1>2 DEF CheckFails, PlainOK
<1>5. GateInv'
  BY <1>1, <1>2, <1>3 DEF CheckFails, GateInv, NeverBlank
<1> QED
  BY <1>1, <1>4, <1>5 DEF CheckFails

-----------------------------------------------------------------------------
(* The actions that open the page or work on the directory *)

\* A step that changes the directory and the follow only, and leaves the page
\* there as it was, keeps the rest.
LEMMA DirStep ==
    ASSUME Inv, HookOK(dir'), dir'.mounted = dir.mounted,
           stored' \in Session, write' \in Write \cup {None},
           UNCHANGED <<session, followed, place, gate, doubt>>
    PROVE  PlainOK' /\ GateInv'
<1>1. PlainOK /\ GateInv /\ Fit(dir, write)
  BY Parts
<1> QED
  BY <1>1 DEF PlainOK, GateInv, NeverBlank

\* What the invariant says of the follow and the searches it awaits.
LEMMA FollowParts ==
    ASSUME Inv
    PROVE  /\ HookOK(dir) /\ SearchesInv(dir) /\ RowsOK(dir) /\ AwaitOK(dir, write)
           /\ write # None => dir.pending # None
           /\ dir.mounted => (write # None <=> dir.pending # None)
           /\ dir.mounted \in BOOLEAN /\ gate.allowed = dir.mounted
           /\ dir.token \in Session /\ stored \in Session
           /\ write \in Write \cup {None}
<1>1. PlainOK /\ GateInv /\ Fit(dir, write)
  BY Parts
<1> QED
  BY <1>1 DEF PlainOK, GateInv, Fit, HookOK, Dir, SearchesInv, RowsOK, WriteInv,
              AwaitOK, OneAwaited

\* A hook that works for the stored session again fits beside the follow.
LEMMA RefreshFit ==
    ASSUME NEW d, HookOK(d), SearchesInv(d), AwaitOK(d, write),
           write # None => d.pending # None, stored \in Session
    PROVE  Fit(Refresh(d, stored), write) /\ Refresh(d, stored).mounted
<1>1. PICK e : e = Refresh(d, stored)
  OBVIOUS
<1>2. /\ HookOK(e) /\ SearchesInv(e) /\ e.mounted /\ AwaitOK(e, write)
      /\ write # None <=> e.pending # None
      /\ \E r \in e.searches : r.live
  BY <1>1, RefreshLemma
<1>3. WriteInv(e, write)
  BY <1>2 DEF WriteInv, AwaitOK, OneAwaited
<1> QED
  BY <1>1, <1>2, <1>3 DEF Fit

LEMMA AdmitStep ==
    ASSUME Inv, Admit
    PROVE  PlainOK' /\ GateInv' /\ Fit(dir', write')
<1>1. PlainOK /\ GateInv /\ Fit(dir, write)
  BY Parts
<1>2. Fit(dir', write') /\ dir'.mounted
  BY FollowParts, RefreshFit DEF Admit
<1>3. gate.check \in Check /\ gate.check.fresh /\ place = "shown"
  BY <1>1 DEF Admit, PlainOK, Gate, GateInv
<1>4. /\ gate' \in Gate /\ gate'.allowed /\ gate'.check = None
      /\ gate'.verified
  BY <1>1, <1>3 DEF Admit, PlainOK, Gate, Check
<1>5. dir' \in Dir
  BY <1>2 DEF Fit, HookOK
<1>6. PlainOK'
  BY <1>1, <1>4 DEF Admit, PlainOK
<1>7. GateInv'
  BY <1>2, <1>3, <1>4, <1>5 DEF Admit, GateInv, NeverBlank, Gate, Dir
<1> QED
  BY <1>2, <1>6, <1>7

LEMMA LoginOpensStep ==
    ASSUME Inv, LoginOpens
    PROVE  PlainOK' /\ GateInv' /\ Fit(dir', write')
<1>1. PlainOK /\ GateInv /\ Fit(dir, write)
  BY Parts
<1>2. write # None => write.token \in Tokens /\ write.company \in 1..Companies
  BY <1>1 DEF PlainOK, Write
<1>3. followed' \in [Tokens -> SUBSET (1..Companies)]
  BY <1>1, <1>2 DEF LoginOpens, PlainOK
<1>4. doubt' \in BOOLEAN
  BY <1>1 DEF LoginOpens, PlainOK
<1>5. PlainOK'
  BY <1>1, <1>3, <1>4, NewGateLemma DEF LoginOpens, PlainOK
<1>6. Fit(dir', write') /\ ~dir'.mounted
  BY NewDirLemma DEF LoginOpens
<1>7. dir' \in Dir
  BY <1>6 DEF Fit, HookOK
<1>8. GateInv'
  BY <1>6, <1>7, NewGateLemma DEF LoginOpens, GateInv, NeverBlank, Gate, Dir
<1> QED
  BY <1>5, <1>6, <1>8

\* A hook state that starts a search for the query just chosen.
LEMMA ChosenLemma ==
    ASSUME Inv, NEW m \in Dir, dir.mounted,
           m.mounted = dir.mounted, m.pending = dir.pending, m.results = {},
           m.searches = Drop(dir).searches,
           m.timer \/ m.status # "loading"
    PROVE  HookOK(m) /\ RowsOK(m) /\ AwaitOK(m, write) /\ Fit(m, write)
<1>1. HookOK(dir) /\ AwaitOK(dir, write) /\ (write # None <=> dir.pending # None)
  BY FollowParts
<1>2. /\ HookOK(Drop(dir))
      /\ \A r \in m.searches : /\ ~r.live /\ r.rows = {}
                               /\ \E s \in dir.searches : r.awaited = s.awaited
      /\ OneAwaited(Drop(dir))
  BY <1>1, DropLemma DEF AwaitOK
<1>3. HookOK(m) /\ RowsOK(m) /\ SearchesInv(m)
  BY <1>2, FS_EmptySet DEF HookOK, RowsOK, SearchesInv
<1>4. AwaitOK(m, write)
  BY <1>1, <1>2 DEF AwaitOK, OneAwaited
<1>5. WriteInv(m, write)
  BY <1>1, <1>4 DEF WriteInv, AwaitOK, OneAwaited
<1> QED
  BY <1>3, <1>4, <1>5 DEF Fit

LEMMA SetQueryStep ==
    ASSUME Inv, NEW q \in Queries, SetQuery(q)
    PROVE  PlainOK' /\ GateInv' /\ Fit(dir', write')
<1>1. HookOK(dir) /\ dir.mounted
  BY FollowParts DEF SetQuery, Usable
<1>2. HookOK(Drop(dir)) /\ SameWish(dir, Drop(dir))
  BY <1>1, DropLemma
<1>3. /\ dir' \in Dir /\ dir'.mounted = dir.mounted /\ dir'.pending = dir.pending
      /\ dir'.results = {} /\ dir'.searches = Drop(dir).searches /\ dir'.timer
  BY <1>2 DEF SetQuery, HookOK, SameWish, Dir
<1>4. Fit(dir', write)
  BY <1>1, <1>3, ChosenLemma
<1>5. PlainOK' /\ GateInv'
  BY <1>3, <1>4, FollowParts, DirStep DEF SetQuery, Fit
<1> QED
  BY <1>4, <1>5 DEF SetQuery

LEMMA TimerFiresStep ==
    ASSUME Inv, TimerFires
    PROVE  PlainOK' /\ GateInv' /\ Fit(dir', write')
<1> DEFINE m == [dir EXCEPT !.timer = FALSE]
<1>1. /\ HookOK(dir) /\ dir.mounted /\ RowsOK(dir) /\ AwaitOK(dir, write)
      /\ write # None <=> dir.pending # None
  BY FollowParts DEF TimerFires, SearchesInv
<1>2. /\ m \in Dir /\ m.mounted = dir.mounted /\ m.pending = dir.pending
      /\ m.results = dir.results /\ m.searches = dir.searches
      /\ m.query = dir.query /\ m.filters = dir.filters /\ m.token = dir.token
  BY <1>1 DEF HookOK, Dir
<1>3. dir' = Search(m, 0, FALSE)
  BY DEF TimerFires
<1> HIDE DEF m
<1>4. HookOK(m) /\ RowsOK(m) /\ AwaitOK(m, write)
  BY <1>1, <1>2 DEF HookOK, RowsOK, AwaitOK, OneAwaited
<1>5. ~(0 > 0 /\ m.busy)
  OBVIOUS
<1>6. Fit(dir', write) /\ dir'.mounted = dir.mounted
  <2>1. Fit(Search(m, 0, FALSE), write)
    BY <1>1, <1>2, <1>4, <1>5, SearchFit
  <2>2. Searching(m, Search(m, 0, FALSE), FALSE)
    BY <1>4, <1>5, SearchLemma
  <2> QED
    BY <1>2, <1>3, <2>1, <2>2 DEF Searching, SameWish
<1>7. PlainOK' /\ GateInv'
  BY <1>6, FollowParts, DirStep DEF TimerFires, Fit
<1> QED
  BY <1>6, <1>7 DEF TimerFires

LEMMA SetFiltersStep ==
    ASSUME Inv, NEW f \in Filters, SetFilters(f)
    PROVE  PlainOK' /\ GateInv' /\ Fit(dir', write')
<1> DEFINE m == [Drop(dir) EXCEPT !.filters = f, !.busy = FALSE, !.timer = FALSE,
                                  !.results = {}, !.more = FALSE]
<1>1. /\ HookOK(dir) /\ dir.mounted /\ AwaitOK(dir, write)
      /\ write # None <=> dir.pending # None
  BY FollowParts DEF SetFilters, Usable
<1>2. /\ HookOK(Drop(dir)) /\ SameWish(dir, Drop(dir)) /\ OneAwaited(Drop(dir))
      /\ \A r \in Drop(dir).searches : \E s \in dir.searches : r.awaited = s.awaited
  BY <1>1, DropLemma DEF AwaitOK
<1>3. /\ m \in Dir /\ m.mounted = dir.mounted /\ m.pending = dir.pending
      /\ m.results = {} /\ m.searches = Drop(dir).searches
  BY <1>2 DEF HookOK, SameWish, Dir
<1>4. dir' = Search(m, 0, FALSE)
  BY DEF SetFilters
<1> HIDE DEF m
<1>5. /\ write' \in Write \cup {None}
      /\ write' # None <=> write # None
      /\ write # None => write'.answer = write.answer
  BY FollowParts, NoneAssumption DEF SetFilters, Write
<1>6. HookOK(m) /\ RowsOK(m) /\ AwaitOK(m, write')
  BY <1>1, <1>2, <1>3, <1>5, FS_EmptySet DEF HookOK, RowsOK, AwaitOK, OneAwaited
<1>7. ~(0 > 0 /\ m.busy)
  OBVIOUS
<1>8. Fit(dir', write') /\ dir'.mounted = dir.mounted
  <2>1. Fit(Search(m, 0, FALSE), write')
    BY <1>1, <1>3, <1>5, <1>6, <1>7, SearchFit
  <2>2. Searching(m, Search(m, 0, FALSE), FALSE)
    BY <1>6, <1>7, SearchLemma
  <2> QED
    BY <1>3, <1>4, <2>1, <2>2 DEF Searching, SameWish
<1>9. PlainOK' /\ GateInv'
  BY <1>5, <1>8, FollowParts, DirStep DEF SetFilters, Fit
<1> QED
  BY <1>8, <1>9

\* A search of the mounted page as it is: the retry, and the next page.
LEMMA SearchStep ==
    ASSUME Inv, NEW o \in Nat, dir.mounted, dir' = Search(dir, o, FALSE),
           UNCHANGED <<stored, session, followed, place, gate, write, doubt>>
    PROVE  PlainOK' /\ GateInv' /\ Fit(dir', write')
<1>1. /\ HookOK(dir) /\ RowsOK(dir) /\ AwaitOK(dir, write) /\ stored \in Session
      /\ write # None <=> dir.pending # None
      /\ write \in Write \cup {None} /\ Fit(dir, write)
  BY FollowParts, Parts
<1>2. Fit(dir', write) /\ dir'.mounted = dir.mounted
  <2>1. CASE o > 0 /\ dir.busy
    BY <1>1, <2>1 DEF Search
  <2>2. CASE ~(o > 0 /\ dir.busy)
    <3>1. Fit(Search(dir, o, FALSE), write)
      BY <1>1, <2>2, SearchFit
    <3>2. Searching(dir, Search(dir, o, FALSE), FALSE)
      BY <1>1, <2>2, SearchLemma
    <3> QED
      BY <3>1, <3>2 DEF Searching, SameWish
  <2> QED
    BY <2>1, <2>2
<1>3. PlainOK' /\ GateInv'
  BY <1>1, <1>2, DirStep DEF Fit
<1> QED
  BY <1>2, <1>3

LEMMA RetryStep ==
    ASSUME Inv, Retry
    PROVE  PlainOK' /\ GateInv' /\ Fit(dir', write')
BY FollowParts, SearchStep DEF Retry, Usable

LEMMA LoadMoreStep ==
    ASSUME Inv, LoadMore
    PROVE  PlainOK' /\ GateInv' /\ Fit(dir', write')
<1>1. Cardinality(dir.results) \in Nat
  BY FollowParts, FS_CardinalityType DEF HookOK
<1> QED
  BY <1>1, FollowParts, SearchStep DEF LoadMore, Usable

-----------------------------------------------------------------------------
(* Answers of searches *)

\* The rows a search is answered with: one page, of what it asked.
LEMMA ServedRows ==
    ASSUME Inv, NEW r \in dir.searches, r.live, NEW ok \in BOOLEAN,
           NEW rows,
           rows = {[company |-> c, query |-> r.query, filters |-> r.filters,
                    token |-> r.token,
                    followed |-> r.token # None /\ c \in followed[r.token]] :
                   c \in {c \in {r.offset + 1} : ok /\ c <= Companies}}
    PROVE  /\ rows \in SUBSET Row /\ IsFiniteSet(rows)
           /\ \A x \in rows : x.query = r.query /\ x.filters = r.filters
                              /\ x.token = r.token
<1>1. /\ r \in SearchCall /\ r.query = dir.query /\ r.filters = dir.filters
      /\ r.token = dir.token /\ dir \in Dir
  BY FollowParts DEF SearchesInv, HookOK, Dir
<1>2. /\ r.query \in Queries /\ r.filters \in Filters /\ r.token \in Session
      /\ r.offset \in Nat
  BY <1>1 DEF SearchCall, Dir
<1> DEFINE n == r.offset + 1
           x == [company |-> n, query |-> r.query, filters |-> r.filters,
                 token |-> r.token,
                 followed |-> r.token # None /\ n \in followed[r.token]]
<1>3. n \in Nat \ {0} /\ (n <= Companies => n \in 1..Companies)
  BY <1>2, ConstantsAssumption
<1>4. n \in 1..Companies => x \in Row
  BY <1>2 DEF Row
<1>5. rows \in SUBSET {x} /\ (rows # {} => n <= Companies)
  OBVIOUS
<1>6. /\ rows \in SUBSET Row
      /\ \A y \in rows : y.query = r.query /\ y.filters = r.filters
                         /\ y.token = r.token
  BY <1>3, <1>4, <1>5
<1> HIDE DEF x
<1>7. IsFiniteSet({x})
  BY FS_Singleton
<1>8. IsFiniteSet(rows)
  BY <1>5, <1>7, FS_Subset
<1> QED
  BY <1>6, <1>8

LEMMA ServeSearchStep ==
    ASSUME Inv, NEW r \in dir.searches, ServeSearch(r)
    PROVE  PlainOK' /\ GateInv' /\ Fit(dir', write')
<1>1. PlainOK /\ GateInv /\ Fit(dir, write)
  BY Parts
<1> DEFINE ok == r.token = None \/ session[r.token] = "valid"
           rows == {[company |-> c, query |-> r.query, filters |-> r.filters,
                     token |-> r.token,
                     followed |-> r.token # None /\ c \in followed[r.token]] :
                    c \in {c \in {r.offset + 1} : ok /\ c <= Companies}}
           n == [r EXCEPT !.answer = IF ok THEN "ok" ELSE "rejected", !.rows = rows]
           S == (dir.searches \ {r}) \cup {n}
<1>2. r \in SearchCall /\ r.live /\ dir \in Dir
  BY <1>1 DEF ServeSearch, Fit, HookOK, Dir
<1>3. /\ rows \in SUBSET Row /\ IsFiniteSet(rows)
      /\ \A x \in rows : x.query = r.query /\ x.filters = r.filters
                         /\ x.token = r.token
  <2>1. ok \in BOOLEAN
    OBVIOUS
  <2> QED
    BY <1>2, <2>1, ServedRows
<1>4. dir' = [dir EXCEPT !.searches = S]
  BY <1>2 DEF ServeSearch, Dir
<1> HIDE DEF rows
<1>5. /\ n \in SearchCall /\ n.rows = rows /\ n.live /\ n.awaited = r.awaited
      /\ n.query = r.query /\ n.filters = r.filters /\ n.token = r.token
  BY <1>2, <1>3 DEF SearchCall, Answer
<1> HIDE DEF n
<1>6. S \in SUBSET SearchCall
  BY <1>2, <1>5 DEF Dir
<1>7. /\ dir' \in Dir /\ dir'.searches = S /\ SameWish(dir, dir')
      /\ dir'.status = dir.status
  BY <1>2, <1>4, <1>6 DEF Dir, SameWish
<1>8. HookOK(dir')
  BY <1>1, <1>3, <1>5, <1>7 DEF Fit, HookOK, SameWish
<1>9. SearchesInv(dir')
  BY <1>1, <1>2, <1>3, <1>5, <1>7 DEF Fit, SearchesInv, SameWish
<1>10. WriteInv(dir', write)
  BY <1>1, <1>2, <1>5, <1>7 DEF Fit, WriteInv, SameWish
<1>11. Fit(dir', write')
  BY <1>8, <1>9, <1>10 DEF ServeSearch, Fit
<1>12. PlainOK' /\ GateInv'
  BY <1>7, <1>8, FollowParts, DirStep DEF ServeSearch, SameWish
<1> QED
  BY <1>11, <1>12

\* The directory without one of its searches.
Without(r) == [dir EXCEPT !.searches = @ \ {r}]

LEMMA RestLemma ==
    ASSUME Inv, NEW r \in dir.searches, NEW rest,
           rest = Without(r)
    PROVE  /\ HookOK(rest) /\ SearchesInv(rest) /\ AwaitOK(rest, write)
           /\ SameWish(dir, rest) /\ rest.status = dir.status
           /\ rest.searches = dir.searches \ {r}
           /\ r.awaited => \A s \in rest.searches : ~s.awaited
           /\ ~r.live => Fit(rest, write)
<1>1. Fit(dir, write) /\ AwaitOK(dir, write) /\ dir \in Dir
  BY Parts, FollowParts DEF HookOK
<1>2. /\ rest \in Dir /\ rest.searches = dir.searches \ {r} /\ SameWish(dir, rest)
      /\ rest.status = dir.status
  BY <1>1 DEF Dir, SameWish, Without
<1>3. HookOK(rest) /\ SearchesInv(rest)
  BY <1>1, <1>2 DEF Fit, HookOK, SearchesInv, SameWish
<1>4. AwaitOK(rest, write) /\ (r.awaited => \A s \in rest.searches : ~s.awaited)
  BY <1>1, <1>2 DEF AwaitOK, OneAwaited
<1>5. ~r.live => WriteInv(rest, write)
  BY <1>1, <1>2 DEF Fit, WriteInv, SameWish
<1> QED
  BY <1>2, <1>3, <1>4, <1>5 DEF Fit

\* A page shown anew: its rows are of the search that was answered.
LEMMA ShownLemma ==
    ASSUME NEW d, HookOK(d), SearchesInv(d), d.mounted, NEW r \in SearchCall,
           IsFiniteSet(r.rows),
           \A x \in r.rows : x.query = d.query /\ x.filters = d.filters
                             /\ x.token = d.token
    PROVE  /\ HookOK(Shown(d, r)) /\ SearchesInv(Shown(d, r))
           /\ Shown(d, r).mounted = d.mounted /\ Shown(d, r).pending = d.pending
           /\ Shown(d, r).status = "ready" /\ Shown(d, r).searches = d.searches
<1> DEFINE e == Shown(d, r)
           R == IF r.offset = 0 THEN r.rows
                ELSE d.results \cup {x \in r.rows : \A y \in d.results : y.company # x.company}
           more == r.offset + 1 < Companies
<1>1. d \in Dir /\ r.rows \in SUBSET Row /\ IsFiniteSet(d.results)
  BY DEF HookOK, SearchCall
<1>2. /\ R \in SUBSET Row
      /\ \A x \in R : x.query = d.query /\ x.filters = d.filters /\ x.token = d.token
  BY <1>1 DEF Dir, SearchesInv
<1>3. IsFiniteSet(R)
  <2>1. IsFiniteSet({x \in r.rows : \A y \in d.results : y.company # x.company})
    BY FS_Subset
  <2> QED
    BY <1>1, <2>1, FS_Union
<1>4. e = [d EXCEPT !.results = R, !.more = more, !.status = "ready", !.busy = FALSE]
  BY <1>1 DEF Shown, Dir
<1>5. more \in BOOLEAN
  OBVIOUS
<1> HIDE DEF R, more, e
<1>6. /\ e \in Dir /\ e.results = R /\ e.searches = d.searches
      /\ e.mounted = d.mounted /\ e.pending = d.pending /\ e.timer = d.timer
      /\ e.query = d.query /\ e.filters = d.filters /\ e.token = d.token
      /\ e.status = "ready"
  BY <1>1, <1>2, <1>4, <1>5 DEF Dir
<1>7. HookOK(e) /\ SearchesInv(e)
  BY <1>2, <1>3, <1>6 DEF HookOK, SearchesInv
<1> QED
  BY <1>6, <1>7 DEF e

\* current(t) refused: the hook starts over, or the search was of no use to it.
LEMMA LeftLemma ==
    ASSUME NEW d, HookOK(d), SearchesInv(d), NEW w, AwaitOK(d, w), NEW t,
           write # None => d.pending # None, stored \in Session
    PROVE  /\ HookOK(Left(d, t)) /\ SearchesInv(Left(d, t)) /\ AwaitOK(Left(d, t), w)
           /\ Left(d, t).mounted = d.mounted
           /\ \/ ~(d.mounted /\ d.token = t) /\ Left(d, t) = d
              \/ /\ write # None <=> Left(d, t).pending # None
                 /\ \E r \in Left(d, t).searches : r.live
<1>1. d.mounted \in BOOLEAN
  BY DEF HookOK, Dir
<1>2. CASE d.mounted /\ d.token = t
  <2>1. Left(d, t) = Refresh(d, stored)
    BY <1>2 DEF Left
  <2>2. /\ HookOK(Refresh(d, stored)) /\ SearchesInv(Refresh(d, stored))
        /\ Refresh(d, stored).mounted
        /\ write # None <=> Refresh(d, stored).pending # None
        /\ \E r \in Refresh(d, stored).searches : r.live
        /\ AwaitOK(Refresh(d, stored), w)
    BY RefreshLemma
  <2>3. Refresh(d, stored).mounted \in BOOLEAN
    BY <2>2 DEF HookOK, Dir
  <2> QED
    BY <1>1, <1>2, <2>1, <2>2, <2>3
<1>3. CASE ~(d.mounted /\ d.token = t)
  BY <1>3 DEF Left
<1> QED
  BY <1>2, <1>3

\* What the answer of a search makes of the rest of the directory, before the
\* follow that waited for it ends.
Answered(rest, r, answer) ==
    IF Current(dir, r.token)
    THEN IF ~r.live THEN rest
         ELSE IF answer = "ok" THEN Shown(rest, r)
         ELSE Failed([rest EXCEPT !.status = "error", !.busy = answer = "rejected"],
                     answer)
    ELSE Left(rest, r.token)

LEMMA AnsweredLemma ==
    ASSUME Inv, NEW r \in dir.searches, NEW answer, NEW rest, NEW w,
           rest = Without(r), AwaitOK(rest, w)
    PROVE  LET e == Answered(rest, r, answer)
           IN  /\ HookOK(e) /\ SearchesInv(e) /\ AwaitOK(e, w)
               /\ e.mounted = dir.mounted
               /\ write # None => e.pending # None
               /\ e.mounted /\ e.pending # None => write # None
               /\ e.mounted /\ e.status = "loading" =>
                    \/ e.timer
                    \/ \E s \in e.searches : s.live
                    \/ write # None /\ write.answer # "reading" /\ write.token = e.token
<1> DEFINE e == Answered(rest, r, answer)
<1>1. /\ HookOK(rest) /\ SearchesInv(rest) /\ SameWish(dir, rest)
      /\ rest.status = dir.status /\ rest.searches = dir.searches \ {r}
      /\ ~r.live => Fit(rest, write)
  BY RestLemma
<1>2. /\ SearchesInv(dir) /\ HookOK(dir) /\ stored \in Session
      /\ write # None => dir.pending # None
      /\ dir.mounted => (write # None <=> dir.pending # None)
  BY FollowParts
<1>3. CASE ~r.live /\ Current(dir, r.token)
  BY <1>1, <1>3 DEF Answered, SameWish, Fit, WriteInv
<1>4. CASE r.live /\ Current(dir, r.token) /\ answer = "ok"
  <2>1. /\ dir.mounted /\ r \in SearchCall /\ IsFiniteSet(r.rows)
        /\ \A x \in r.rows : x.query = dir.query /\ x.filters = dir.filters
                             /\ x.token = dir.token
    BY <1>2, <1>4 DEF SearchesInv, HookOK, Dir
  <2>2. e = Shown(rest, r)
    BY <1>4 DEF Answered
  <2> HIDE DEF e
  <2>3. /\ HookOK(e) /\ SearchesInv(e)
        /\ e.mounted = rest.mounted /\ e.pending = rest.pending
        /\ e.status = "ready" /\ e.searches = rest.searches
    <3>1. /\ rest.mounted
          /\ \A x \in r.rows : x.query = rest.query /\ x.filters = rest.filters
                               /\ x.token = rest.token
      BY <1>1, <2>1 DEF SameWish
    <3>2. /\ HookOK(Shown(rest, r)) /\ SearchesInv(Shown(rest, r))
          /\ Shown(rest, r).mounted = rest.mounted
          /\ Shown(rest, r).pending = rest.pending
          /\ Shown(rest, r).status = "ready"
          /\ Shown(rest, r).searches = rest.searches
      BY <1>1, <2>1, <3>1, ShownLemma, ZenonT(60)
    <3> QED
      BY <2>2, <3>2
  <2>4. AwaitOK(e, w)
    BY <2>3 DEF AwaitOK, OneAwaited
  <2> QED
    BY <1>1, <1>2, <2>1, <2>3, <2>4 DEF SameWish, e
<1>5. CASE r.live /\ Current(dir, r.token) /\ answer # "ok"
  <2> DEFINE m == [rest EXCEPT !.status = "error", !.busy = answer = "rejected"]
  <2>1. /\ m \in Dir /\ m.status # "loading" /\ m.searches = rest.searches
        /\ SameWish(rest, m)
    BY <1>1 DEF HookOK, Dir, SameWish
  <2>2. e = Failed(m, answer)
    BY <1>5 DEF Answered
  <2> HIDE DEF m, e
  <2>3. HookOK(m) /\ SearchesInv(m) /\ AwaitOK(m, w)
    BY <1>1, <2>1 DEF HookOK, SearchesInv, AwaitOK, OneAwaited, SameWish
  <2>4. /\ HookOK(e) /\ SearchesInv(e) /\ AwaitOK(e, w)
        /\ e.mounted = m.mounted /\ e.pending = m.pending /\ e.status # "loading"
    BY <2>1, <2>2, <2>3, FailedLemma
  <2>5. dir.mounted
    BY <1>5 DEF Current
  <2> QED
    BY <1>1, <1>2, <2>1, <2>4, <2>5 DEF SameWish, e
<1>6. CASE ~Current(dir, r.token)
  <2>1. e = Left(rest, r.token)
    BY <1>6 DEF Answered
  <2>2. write # None => rest.pending # None
    BY <1>1, <1>2 DEF SameWish
  <2> HIDE DEF e
  <2>3. /\ HookOK(e) /\ SearchesInv(e) /\ AwaitOK(e, w) /\ e.mounted = rest.mounted
        /\ \/ ~(rest.mounted /\ rest.token = r.token) /\ e = rest
           \/ /\ write # None <=> e.pending # None
              /\ \E s \in e.searches : s.live
    <3> DEFINE l == Left(rest, r.token)
    <3>1. /\ HookOK(l) /\ SearchesInv(l) /\ AwaitOK(l, w) /\ l.mounted = rest.mounted
          /\ \/ ~(rest.mounted /\ rest.token = r.token) /\ l = rest
             \/ /\ write # None <=> l.pending # None
                /\ \E s \in l.searches : s.live
      BY <1>1, <1>2, <2>2, LeftLemma
    <3> QED
      BY <2>1, <3>1
  <2>4. CASE ~(rest.mounted /\ rest.token = r.token) /\ e = rest
    <3>1. ~r.live
      BY <1>1, <1>2, <2>4 DEF SearchesInv, SameWish
    <3> QED
      BY <1>1, <2>3, <2>4, <3>1 DEF SameWish, Fit, WriteInv, e
  <2>5. CASE (write # None <=> e.pending # None) /\ \E s \in e.searches : s.live
    BY <1>1, <2>3, <2>5 DEF SameWish, e
  <2> QED
    BY <2>3, <2>4, <2>5
<1>7. r.live \in BOOLEAN
  BY <1>2 DEF HookOK, Dir, SearchCall
<1> QED
  BY <1>3, <1>4, <1>5, <1>6, <1>7

LEMMA ReceiveSearchStep ==
    ASSUME Inv, NEW r \in dir.searches, NEW answer, ReceiveSearch(r, answer)
    PROVE  PlainOK' /\ GateInv' /\ Fit(dir', write')
<1> DEFINE rest == Without(r)
           e == Answered(rest, r, answer)
<1>1. /\ AwaitOK(rest, write)
      /\ r.awaited => AwaitOK(rest, None)
  BY RestLemma DEF AwaitOK
<1>2. dir' = Freed(e, r.awaited)
  BY DEF ReceiveSearch, Answered, Without
<1>3. stored' \in Session
  BY FollowParts DEF ReceiveSearch, Cleared, Session
<1>4. /\ HookOK(e) /\ SearchesInv(e) /\ AwaitOK(e, write)
      /\ e.mounted = dir.mounted
      /\ write # None => e.pending # None
      /\ e.mounted /\ e.pending # None => write # None
      /\ e.mounted /\ e.status = "loading" =>
           \/ e.timer
           \/ \E s \in e.searches : s.live
           \/ write # None /\ write.answer # "reading" /\ write.token = e.token
  BY <1>1, AnsweredLemma
<1>5. r.awaited => AwaitOK(e, None)
  BY <1>1, AnsweredLemma
<1> HIDE DEF rest, e
<1>6. r.awaited \in BOOLEAN /\ (r.awaited => write # None /\ write.answer = "reading")
  BY FollowParts DEF HookOK, Dir, SearchCall, AwaitOK
<1>7. CASE r.awaited
  <2>1. write' = None
    BY <1>7 DEF ReceiveSearch
  <2>2. Fit(Freed(e, TRUE), None) /\ Freed(e, TRUE).mounted = e.mounted
    BY <1>4, <1>5, <1>6, <1>7, FreedLemma DEF AwaitOK
  <2>3. Fit(dir', write') /\ dir'.mounted = dir.mounted
    BY <1>2, <1>4, <1>6, <1>7, <2>1, <2>2
  <2> QED
    BY <1>3, <2>1, <2>3, DirStep DEF ReceiveSearch, Fit
<1>8. CASE ~r.awaited
  <2>1. dir' = e /\ write' = write
    BY <1>2, <1>8 DEF Freed, ReceiveSearch
  <2>2. Fit(dir', write')
    BY <1>4, <2>1 DEF Fit, WriteInv, AwaitOK, OneAwaited
  <2> QED
    BY <1>3, <1>4, <2>1, <2>2, FollowParts, DirStep DEF ReceiveSearch, Fit
<1> QED
  BY <1>6, <1>7, <1>8

-----------------------------------------------------------------------------
(* Following a company *)

LEMMA FollowStep ==
    ASSUME Inv, NEW c \in Wanted, Follow(c)
    PROVE  PlainOK' /\ GateInv' /\ Fit(dir', write')
<1>1. /\ HookOK(dir) /\ SearchesInv(dir) /\ AwaitOK(dir, write) /\ RowsOK(dir)
      /\ dir.mounted /\ stored \in Session /\ dir.token \in Session
      /\ write = None /\ dir.pending = None /\ dir.token # None
  BY FollowParts DEF Follow, Usable
<1>2. c \in 1..Companies /\ c # None
  BY ConstantsAssumption, NoneAssumption
<1>3. CASE Current(dir, dir.token)
  <2> DEFINE D == Drop(dir)
             w == [token |-> dir.token, company |-> c, query |-> dir.query,
                   filtered |-> FALSE, answer |-> "none"]
  <2>1. /\ HookOK(D) /\ SameWish(dir, D)
        /\ \A r \in D.searches : /\ ~r.live /\ r.rows = {}
                                 /\ \E s \in dir.searches : r.awaited = s.awaited
        /\ OneAwaited(D)
    BY <1>1, DropLemma DEF AwaitOK
  <2>2. /\ dir' = [D EXCEPT !.pending = c, !.busy = FALSE, !.timer = FALSE]
        /\ write' = w
    BY <1>3 DEF Follow
  <2>3. /\ w \in Write /\ w # None
        /\ w.token = dir.token /\ w.answer = "none"
    <3>1. dir.token \in Tokens /\ dir.query \in Queries
      BY <1>1 DEF HookOK, Dir, Session
    <3>2. w \in Write /\ w.token = dir.token /\ w.answer = "none"
      BY <1>2, <3>1 DEF Write
    <3> QED
      BY <3>2, NoneAssumption
  <2> HIDE DEF D, w
  <2>4. /\ dir' \in Dir /\ dir'.pending = c /\ ~dir'.timer
        /\ dir'.mounted = D.mounted /\ dir'.searches = D.searches
        /\ dir'.results = D.results /\ dir'.query = D.query
        /\ dir'.filters = D.filters /\ dir'.token = D.token
    BY <1>2, <2>1, <2>2 DEF HookOK, Dir
  <2>5. HookOK(dir') /\ SearchesInv(dir')
    BY <1>1, <2>1, <2>4 DEF HookOK, SearchesInv, SameWish
  <2>6. \A s \in dir.searches : ~s.awaited
    BY <1>1 DEF AwaitOK
  <2>7. WriteInv(dir', w)
    BY <1>2, <2>1, <2>3, <2>4, <2>6 DEF WriteInv, SameWish
  <2>8. Fit(dir', write') /\ dir'.mounted = dir.mounted
    BY <2>1, <2>2, <2>4, <2>5, <2>7 DEF Fit, SameWish
  <2> QED
    BY <1>1, <2>2, <2>3, <2>8, DirStep DEF Follow, Fit
<1>4. CASE ~Current(dir, dir.token)
  <2>1. dir' = Refresh(dir, stored) /\ write' = write
    BY <1>1, <1>4 DEF Follow, Left
  <2>2. Fit(dir', write') /\ dir'.mounted
    BY <1>1, <2>1, RefreshFit
  <2>3. dir'.mounted = dir.mounted
    BY <1>1, <2>2 DEF Fit, HookOK, Dir
  <2> QED
    BY <1>1, <2>1, <2>2, <2>3, DirStep DEF Follow, Fit
<1> QED
  BY <1>3, <1>4

\* A follow whose request is still open leaves the directory alone.
LEMMA WriteAnswered ==
    ASSUME Inv, write # None, write.answer = "none", NEW a \in Answer,
           write' = [write EXCEPT !.answer = a], dir' = dir
    PROVE  write' \in Write /\ Fit(dir', write')
<1>1. Fit(dir, write) /\ write \in Write
  BY Parts, FollowParts
<1>2. /\ write' \in Write /\ write'.token = write.token /\ write'.answer = a
      /\ a # "reading"
  BY <1>1 DEF Write, Answer
<1>3. write' # None
  BY <1>2, NoneAssumption
<1>4. WriteInv(dir', write')
  BY <1>1, <1>2, <1>3 DEF Fit, WriteInv
<1> QED
  BY <1>1, <1>2, <1>4 DEF Fit

\* The server can only add the company followed.
LEMMA FollowedType ==
    ASSUME Inv, write # None
    PROVE  Followed \in [Tokens -> SUBSET (1..Companies)]
<1>1. /\ followed \in [Tokens -> SUBSET (1..Companies)]
      /\ write.token \in Tokens /\ write.company \in 1..Companies
  BY Parts DEF PlainOK, Write
<1> QED
  BY <1>1 DEF Followed

LEMMA ServeWriteStep ==
    ASSUME Inv, ServeWrite
    PROVE  PlainOK' /\ GateInv' /\ Fit(dir', write')
<1>1. PlainOK /\ GateInv
  BY Parts
<1>2. write' \in Write /\ Fit(dir', write')
  BY WriteAnswered DEF ServeWrite, Answer
<1>3. followed' \in [Tokens -> SUBSET (1..Companies)]
  BY <1>1, FollowedType DEF ServeWrite, PlainOK
<1>4. PlainOK' /\ GateInv'
  BY <1>1, <1>2, <1>3 DEF ServeWrite, PlainOK, GateInv, NeverBlank
<1> QED
  BY <1>2, <1>4

LEMMA LoseWriteStep ==
    ASSUME Inv, LoseWrite
    PROVE  PlainOK' /\ GateInv' /\ Fit(dir', write')
<1>1. PlainOK /\ GateInv
  BY Parts
<1>2. write' \in Write /\ Fit(dir', write')
  BY WriteAnswered DEF LoseWrite, Answer
<1>3. followed' \in [Tokens -> SUBSET (1..Companies)]
  BY <1>1, FollowedType DEF LoseWrite, PlainOK
<1>4. PlainOK' /\ GateInv'
  BY <1>1, <1>2, <1>3 DEF LoseWrite, PlainOK, GateInv, NeverBlank
<1> QED
  BY <1>2, <1>4

\* The rows of d with the membership of the follow confirmed, nothing in flight.
Marked(d) ==
    [Drop(d) EXCEPT
       !.busy = FALSE,
       !.results = {[x EXCEPT !.followed = @ \/ x.company = write.company] : x \in @}]

LEMMA MarkedLemma ==
    ASSUME NEW d, HookOK(d), SearchesInv(d), OneAwaited(d)
    PROVE  /\ HookOK(Marked(d)) /\ SearchesInv(Marked(d))
           /\ Marked(d).mounted = d.mounted /\ Marked(d).pending = d.pending
           /\ Marked(d).query = d.query
           /\ \A r \in Marked(d).searches : \E s \in d.searches : r.awaited = s.awaited
           /\ OneAwaited(Marked(d))
<1> DEFINE D == Drop(d)
           mark(x) == [x EXCEPT !.followed = @ \/ x.company = write.company]
           R == {mark(x) : x \in D.results}
           m == Marked(d)
<1>1. /\ HookOK(D) /\ SameWish(d, D)
      /\ \A r \in D.searches : /\ ~r.live /\ r.rows = {}
                               /\ \E s \in d.searches : r.awaited = s.awaited
      /\ OneAwaited(D)
  BY DropLemma
<1>2. \A x \in Row : mark(x) \in Row /\ mark(x).query = x.query
                     /\ mark(x).filters = x.filters /\ mark(x).token = x.token
  <2> SUFFICES ASSUME NEW x \in Row
               PROVE  mark(x) \in Row /\ mark(x).query = x.query
                      /\ mark(x).filters = x.filters /\ mark(x).token = x.token
    OBVIOUS
  <2>1. (x.followed \/ x.company = write.company) \in BOOLEAN
    OBVIOUS
  <2> QED
    BY <2>1 DEF Row
<1>3. D.results \in SUBSET Row /\ IsFiniteSet(D.results) /\ D \in Dir
  BY <1>1 DEF HookOK, Dir
<1>4. m = [D EXCEPT !.busy = FALSE, !.results = R]
  BY <1>3 DEF Marked, Dir
<1> HIDE DEF mark
<1>5. /\ R \in SUBSET Row
      /\ \A y \in R : \E x \in D.results :
           y.query = x.query /\ y.filters = x.filters /\ y.token = x.token
  BY <1>2, <1>3
<1>6. IsFiniteSet(R)
  <2> DEFINE f == [x \in D.results |-> mark(x)]
  <2>1. f \in Surjection(D.results, R)
    BY DEF Surjection
  <2> QED
    BY <1>3, <2>1, FS_Surjection
<1> HIDE DEF D, R, m
<1>7. /\ m \in Dir /\ m.results = R /\ m.searches = D.searches
      /\ m.mounted = D.mounted /\ m.pending = D.pending /\ m.timer = D.timer
      /\ m.query = D.query /\ m.filters = D.filters /\ m.token = D.token
  BY <1>3, <1>4, <1>5 DEF Dir
<1>8. HookOK(m)
  BY <1>1, <1>6, <1>7 DEF HookOK
<1>9. SearchesInv(m)
  BY <1>1, <1>5, <1>7 DEF SearchesInv, SameWish
<1> QED
  BY <1>1, <1>7, <1>8, <1>9 DEF OneAwaited, SameWish, m

\* The follow was answered, but what was typed or filtered meanwhile is read
\* again before it ends.
LEMMA ReadAgainStep ==
    ASSUME Inv, ReceiveWrite, Current(dir, write.token), write.answer = "ok",
           write.query # dir.query \/ write.filtered
    PROVE  PlainOK' /\ GateInv' /\ Fit(dir', write')
<1> DEFINE m == Marked(dir)
<1>1. /\ HookOK(dir) /\ SearchesInv(dir) /\ AwaitOK(dir, write) /\ dir.mounted
      /\ write \in Write /\ write # None /\ dir.pending # None
      /\ stored \in Session
  BY FollowParts DEF Current, ReceiveWrite
<1>2. /\ HookOK(m) /\ SearchesInv(m) /\ m.mounted = dir.mounted
      /\ m.pending = dir.pending /\ OneAwaited(m)
      /\ \A r \in m.searches : ~r.awaited
  <2>1. \A s \in dir.searches : ~s.awaited
    BY <1>1 DEF AwaitOK
  <2> QED
    BY <1>1, <2>1, MarkedLemma DEF AwaitOK
<1>3. /\ dir' = Search(m, 0, TRUE)
      /\ write' = [write EXCEPT !.answer = "reading"]
  BY <1>1 DEF ReceiveWrite, Confirmed, Marked, Write
<1> HIDE DEF m
<1>4. write' \in Write /\ write'.answer = "reading"
  BY <1>1, <1>3 DEF Write
<1>5. write' # None
  BY <1>4, NoneAssumption
<1>6. RowsOK(m) /\ AwaitOK(m, write') /\ ~(0 > 0 /\ m.busy)
  BY <1>2 DEF RowsOK, AwaitOK, SearchesInv
<1>7. Fit(Search(m, 0, TRUE), write')
  BY <1>1, <1>2, <1>4, <1>5, <1>6, SearchFit
<1>8. Searching(m, Search(m, 0, TRUE), TRUE)
  BY <1>2, <1>6, SearchLemma
<1>9. Fit(dir', write') /\ dir'.mounted = dir.mounted
  BY <1>2, <1>3, <1>7, <1>8 DEF Searching, SameWish
<1>10. stored' \in Session
  BY <1>1 DEF ReceiveWrite, Cleared
<1> QED
  BY <1>4, <1>9, <1>10, DirStep DEF ReceiveWrite, Fit

\* What the answer of a follow that ends makes of the directory, before its
\* buttons are freed.
Ended ==
    IF ~Current(dir, write.token) THEN Left(dir, write.token)
    ELSE IF write.answer = "ok" THEN Confirmed(dir)
    ELSE Failed([dir EXCEPT !.status = "error"], write.answer)

LEMMA EndedLemma ==
    ASSUME Inv, write # None, write.answer \in Answer,
           ~(/\ Current(dir, write.token) /\ write.answer = "ok"
             /\ write.query # dir.query \/ write.filtered)
    PROVE  /\ HookOK(Ended) /\ SearchesInv(Ended) /\ AwaitOK(Ended, None)
           /\ Ended.mounted = dir.mounted
           /\ Ended.mounted /\ Ended.status = "loading" =>
                Ended.timer \/ \E r \in Ended.searches : r.live
<1>1. /\ HookOK(dir) /\ SearchesInv(dir) /\ AwaitOK(dir, write) /\ stored \in Session
      /\ dir.pending # None /\ Fit(dir, write)
  BY FollowParts, Parts
<1>2. AwaitOK(dir, None)
  BY <1>1 DEF AwaitOK, Answer
<1>3. CASE ~Current(dir, write.token)
  <2> DEFINE l == Left(dir, write.token)
  <2>1. /\ HookOK(l) /\ SearchesInv(l) /\ AwaitOK(l, None) /\ l.mounted = dir.mounted
        /\ \/ ~(dir.mounted /\ dir.token = write.token) /\ l = dir
           \/ \E s \in l.searches : s.live
    BY <1>1, <1>2, LeftLemma
  <2>2. Ended = l
    BY <1>3 DEF Ended
  <2> HIDE DEF l
  <2>3. CASE ~(dir.mounted /\ dir.token = write.token) /\ l = dir
    BY <1>1, <2>1, <2>2, <2>3 DEF Fit, WriteInv
  <2>4. CASE \E s \in l.searches : s.live
    BY <2>1, <2>2, <2>4
  <2> QED
    BY <2>1, <2>3, <2>4
<1>4. CASE Current(dir, write.token) /\ write.answer = "ok"
  <2> DEFINE m == Marked(dir)
             e == [m EXCEPT !.status = "ready"]
  <2>1. /\ HookOK(m) /\ SearchesInv(m) /\ m.mounted = dir.mounted /\ OneAwaited(m)
        /\ \A r \in m.searches : \E s \in dir.searches : r.awaited = s.awaited
    BY <1>1, MarkedLemma DEF AwaitOK
  <2>2. Ended = e
    BY <1>4 DEF Ended, Confirmed, Marked
  <2> HIDE DEF m, e
  <2>3. /\ e \in Dir /\ e.status = "ready" /\ e.mounted = m.mounted
        /\ e.searches = m.searches /\ e.results = m.results /\ e.timer = m.timer
        /\ e.query = m.query /\ e.filters = m.filters /\ e.token = m.token
    BY <2>1 DEF HookOK, Dir, e
  <2>4. HookOK(e) /\ SearchesInv(e) /\ AwaitOK(e, None)
    BY <1>2, <2>1, <2>3 DEF HookOK, SearchesInv, AwaitOK, OneAwaited
  <2> QED
    BY <2>1, <2>2, <2>3, <2>4
<1>5. CASE Current(dir, write.token) /\ write.answer # "ok"
  <2> DEFINE m == [dir EXCEPT !.status = "error"]
             e == Failed(m, write.answer)
  <2>1. /\ m \in Dir /\ m.status # "loading" /\ m.searches = dir.searches
        /\ SameWish(dir, m)
    BY <1>1 DEF HookOK, Dir, SameWish
  <2>2. Ended = e
    BY <1>5 DEF Ended
  <2> HIDE DEF m
  <2>3. HookOK(m) /\ SearchesInv(m) /\ AwaitOK(m, None)
    BY <1>1, <1>2, <2>1 DEF HookOK, SearchesInv, AwaitOK, OneAwaited, SameWish
  <2>4. /\ HookOK(e) /\ SearchesInv(e) /\ AwaitOK(e, None)
        /\ e.mounted = m.mounted /\ e.status # "loading"
    BY <2>1, <2>3, FailedLemma
  <2> QED
    BY <2>1, <2>2, <2>4 DEF SameWish
<1> QED
  BY <1>3, <1>4, <1>5

LEMMA ReceiveWriteStep ==
    ASSUME Inv, ReceiveWrite
    PROVE  PlainOK' /\ GateInv' /\ Fit(dir', write')
<1> DEFINE reads == /\ Current(dir, write.token) /\ write.answer = "ok"
                    /\ write.query # dir.query \/ write.filtered
<1>1. CASE reads
  BY <1>1, ReadAgainStep
<1>2. CASE ~reads
  <2>1. dir' = Freed(Ended, TRUE) /\ write' = None
    BY <1>2 DEF ReceiveWrite, Ended
  <2>2. /\ HookOK(Ended) /\ SearchesInv(Ended) /\ AwaitOK(Ended, None)
        /\ Ended.mounted = dir.mounted
        /\ Ended.mounted /\ Ended.status = "loading" =>
             Ended.timer \/ \E r \in Ended.searches : r.live
    BY <1>2, EndedLemma DEF ReceiveWrite
  <2>3. Fit(Freed(Ended, TRUE), None) /\ Freed(Ended, TRUE).mounted = Ended.mounted
    BY <2>2, FreedLemma DEF AwaitOK
  <2>4. Fit(dir', write') /\ dir'.mounted = dir.mounted
    BY <2>1, <2>2, <2>3
  <2>5. stored' \in Session
    BY FollowParts DEF ReceiveWrite, Cleared, Session
  <2> QED
    BY <2>1, <2>4, <2>5, DirStep DEF ReceiveWrite, Fit
<1> QED
  BY <1>1, <1>2

-----------------------------------------------------------------------------
(* The session outside this page, and the invariant *)

\* Sessions come and go in storage and at the server; the page is not touched.
LEMMA OutsideStep ==
    ASSUME Inv,
           \/ \E t \in Tokens : SaveSession(t) \/ Revoke(t) \/ Expire(t)
           \/ ClearSession
    PROVE  PlainOK' /\ GateInv' /\ Fit(dir', write')
<1>1. PlainOK /\ GateInv /\ Fit(dir, write)
  BY Parts
<1>2. UNCHANGED <<followed, place, gate, dir, write, doubt>>
  BY DEF SaveSession, Revoke, Expire, ClearSession
<1>3. /\ stored' \in Session
      /\ session' \in [Tokens -> {"unused", "valid", "revoked", "expired"}]
  <2>1. ASSUME NEW t \in Tokens, SaveSession(t)
        PROVE  /\ stored' \in Session
               /\ session' \in [Tokens -> {"unused", "valid", "revoked", "expired"}]
    BY <1>1, <2>1 DEF SaveSession, PlainOK, Session
  <2>2. ASSUME NEW t \in Tokens, Revoke(t) \/ Expire(t)
        PROVE  /\ stored' \in Session
               /\ session' \in [Tokens -> {"unused", "valid", "revoked", "expired"}]
    BY <1>1, <2>2 DEF Revoke, Expire, PlainOK, Session
  <2>3. CASE ClearSession
    BY <1>1, <2>3 DEF ClearSession, PlainOK, Session
  <2> QED
    BY <2>1, <2>2, <2>3
<1>4. PlainOK' /\ GateInv'
  BY <1>1, <1>2, <1>3 DEF PlainOK, GateInv, NeverBlank
<1> QED
  BY <1>1, <1>2, <1>4

LEMMA InitInv == Init => Inv
<1> SUFFICES ASSUME Init PROVE Inv
  OBVIOUS
<1>1. PlainOK
  BY NewGateLemma DEF Init, PlainOK, Session
<1>2. Fit(dir, write) /\ ~dir.mounted
  BY NewDirLemma DEF Init
<1>3. dir \in Dir
  BY <1>2 DEF Fit, HookOK
<1>4. GateInv
  BY <1>2, <1>3, NewGateLemma DEF Init, GateInv, NeverBlank, Gate, Dir
<1> QED
  BY <1>1, <1>2, <1>4, Parts

LEMMA StepInv == Inv /\ [Next]_vars => Inv'
<1> SUFFICES ASSUME Inv, [Next]_vars
             PROVE  PlainOK' /\ GateInv' /\ Fit(dir', write')
  BY DEF Inv, TypeOK, PageInv, PlainOK, Fit, HookOK, SearchesInv
<1>1. CASE Open
  BY <1>1, OpenStep
<1>2. CASE Show
  BY <1>2, ShowStep
<1>3. CASE Hide
  BY <1>3, HideStep
<1>4. CASE Recheck
  BY <1>4, RecheckStep
<1>5. CASE AnswerCheck
  BY <1>5, AnswerCheckStep
<1>6. CASE Admit
  BY <1>6, AdmitStep
<1>7. CASE TurnAway
  BY <1>7, TurnAwayStep
<1>8. CASE CheckFails
  BY <1>8, CheckFailsStep
<1>9. CASE LoginOpens
  BY <1>9, LoginOpensStep
<1>10. CASE \E q \in Queries : SetQuery(q)
  BY <1>10, SetQueryStep
<1>11. CASE \E f \in Filters : SetFilters(f)
  BY <1>11, SetFiltersStep
<1>12. CASE TimerFires
  BY <1>12, TimerFiresStep
<1>13. CASE Retry
  BY <1>13, RetryStep
<1>14. CASE LoadMore
  BY <1>14, LoadMoreStep
<1>15. CASE \E r \in dir.searches : ServeSearch(r)
  BY <1>15, ServeSearchStep
<1>16. CASE \E r \in dir.searches, a \in Answer \cup {"none"} : ReceiveSearch(r, a)
  BY <1>16, ReceiveSearchStep
<1>17. CASE \E c \in Wanted : Follow(c)
  BY <1>17, FollowStep
<1>18. CASE ServeWrite
  BY <1>18, ServeWriteStep
<1>19. CASE LoseWrite
  BY <1>19, LoseWriteStep
<1>20. CASE ReceiveWrite
  BY <1>20, ReceiveWriteStep
<1>21. CASE (\E t \in Tokens : SaveSession(t) \/ Revoke(t) \/ Expire(t)) \/ ClearSession
  BY <1>21, OutsideStep
<1>22. CASE UNCHANGED vars
  <2>1. PlainOK /\ GateInv /\ Fit(dir, write)
    BY Parts
  <2> QED
    BY <1>22, <2>1 DEF vars, PlainOK, GateInv, NeverBlank
<1> QED
  BY <1>1, <1>2, <1>3, <1>4, <1>5, <1>6, <1>7, <1>8, <1>9, <1>10, <1>11, <1>12,
     <1>13, <1>14, <1>15, <1>16, <1>17, <1>18, <1>19, <1>20, <1>21, <1>22
  DEF Next

LEMMA InvAlways == Spec => []Inv
BY InitInv, StepInv, PTL DEF Spec

-----------------------------------------------------------------------------
(* The rows: paging without gaps, and the membership they show *)

\* The pages shown are the companies 1 to n, each once; the search that counts
\* asks for the first page or for the next, and a page has one row.
PagesOK(d) ==
    /\ \A x, y \in d.results : x.company = y.company => x = y
    /\ {x.company : x \in d.results} = 1..Cardinality(d.results)
    /\ \A r \in d.searches :
         /\ r.live /\ r.offset # 0 => r.offset = Cardinality(d.results)
         /\ ~r.live => r.rows = {}
         /\ \A x, y \in r.rows : x.company = r.offset + 1 /\ x = y

\* The membership row x shows, beside the follows f of the server, the follow
\* w and the doubt b: only the follow under way explains one not shown yet.
RowKnown(x, f, w, b) ==
    x.token # None =>
      /\ x.followed => x.company \in f[x.token]
      /\ ~x.followed /\ x.company \in f[x.token] =>
           \/ b
           \/ w # None /\ w.answer # "reading" /\ w.company = x.company
              /\ w.token = x.token

MarksOK(d, f, w, b) ==
    /\ \A x \in d.results : RowKnown(x, f, w, b)
    /\ \A r \in d.searches : \A x \in r.rows : RowKnown(x, f, w, b)

\* What the answer of the follow says of the follows of the server.
WriteKnown(f, w, b) ==
    w # None =>
      /\ w.answer \in {"ok", "reading"} => w.company \in f[w.token]
      /\ w.answer \in {"none", "rejected"} /\ w.company \in f[w.token] => b
      /\ w.answer = "error" => b

RowsInv ==
    /\ PagesOK(dir)
    /\ MarksOK(dir, followed, write, doubt)
    /\ WriteKnown(followed, write, doubt)

\* Hook state e shows the rows of d or none, and has no new rows in flight.
Quiet(d, e) ==
    /\ e.results = d.results \/ e.results = {}
    /\ \A r \in e.searches :
         \/ r \in d.searches /\ e.results = d.results
         \/ /\ r.rows = {}
            /\ r.live /\ r.offset # 0 => r.offset = Cardinality(e.results)

LEMMA QuietPages ==
    ASSUME NEW d, NEW e, PagesOK(d), Quiet(d, e)
    PROVE  PagesOK(e)
<1>1. Cardinality({}) = 0 /\ 1..0 = {}
  BY FS_EmptySet
<1>2. /\ \A x, y \in e.results : x.company = y.company => x = y
      /\ {x.company : x \in e.results} = 1..Cardinality(e.results)
  <2>1. CASE e.results = d.results
    BY <2>1 DEF PagesOK
  <2>2. CASE e.results = {}
    BY <1>1, <2>2
  <2> QED
    BY <2>1, <2>2 DEF Quiet
<1>3. ASSUME NEW r \in e.searches
      PROVE  /\ r.live /\ r.offset # 0 => r.offset = Cardinality(e.results)
             /\ ~r.live => r.rows = {}
             /\ \A x, y \in r.rows : x.company = r.offset + 1 /\ x = y
  BY <1>3 DEF PagesOK, Quiet
<1> QED
  BY <1>2, <1>3 DEF PagesOK

LEMMA QuietMarks ==
    ASSUME NEW d, NEW e, NEW f, NEW w, NEW b, MarksOK(d, f, w, b), Quiet(d, e)
    PROVE  MarksOK(e, f, w, b)
BY DEF MarksOK, Quiet

LEMMA QuietTransitive ==
    ASSUME NEW d, NEW e, NEW g, Quiet(d, e), Quiet(e, g)
    PROVE  Quiet(d, g)
BY DEF Quiet

\* The same rows and no new search: a button freed, a status set.
LEMMA QuietSame ==
    ASSUME NEW d, NEW e, e.results = d.results, e.searches \subseteq d.searches
    PROVE  Quiet(d, e)
BY DEF Quiet

\* A state without rows whose searches were all dropped.
LEMMA QuietEmpty ==
    ASSUME NEW d, NEW e, e.results = {} \/ e.results = d.results,
           \A r \in e.searches : ~r.live /\ r.rows = {}
    PROVE  Quiet(d, e)
BY DEF Quiet

\* Searches with no rows, of which only one at offset o counts.
StartedAt(d, e, o) ==
    /\ e.results = d.results
    /\ \A r \in e.searches : r.rows = {} /\ (r.live => r.offset = o)

\* A search starts with no rows, where it was asked to.
LEMMA SearchRows ==
    ASSUME NEW d, HookOK(d), NEW o \in Nat, NEW a \in BOOLEAN, ~(o > 0 /\ d.busy)
    PROVE  StartedAt(d, Search(d, o, a), o)
<1> DEFINE n == [Dead(d.token, a) EXCEPT !.query = d.query, !.filters = d.filters,
                                         !.offset = o, !.live = TRUE]
           S == Drop(d).searches
           e == [Drop(d) EXCEPT !.searches = S \cup {n}, !.busy = TRUE,
                                !.status = "loading"]
<1>1. /\ HookOK(Drop(d)) /\ SameWish(d, Drop(d))
      /\ \A r \in S : ~r.live /\ r.rows = {}
  BY DropLemma
<1>2. Search(d, o, a) = e
  BY DEF Search
<1>3. n.rows = {} /\ n.offset = o
  BY DEF Dead
<1>4. Drop(d) \in Dir
  BY <1>1 DEF HookOK
<1> HIDE DEF n
<1>5. e.searches = S \cup {n} /\ e.results = Drop(d).results
  BY <1>4 DEF Dir
<1> HIDE DEF e, S
<1> QED
  BY <1>1, <1>2, <1>3, <1>5 DEF SameWish, StartedAt

\* A search that starts over, or asks for the page after the rows shown.
LEMMA SearchQuiet ==
    ASSUME NEW d, HookOK(d), NEW a \in BOOLEAN, NEW o \in {0, Cardinality(d.results)}
    PROVE  Quiet(d, Search(d, o, a))
<1>1. o \in Nat
  BY FS_CardinalityType DEF HookOK
<1>2. CASE o > 0 /\ d.busy
  BY <1>2 DEF Search, Quiet
<1>3. CASE ~(o > 0 /\ d.busy)
  <2> DEFINE e == Search(d, o, a)
  <2>1. /\ e.results = d.results
        /\ \A r \in e.searches : r.rows = {} /\ (r.live => r.offset = o)
    BY <1>1, <1>3, SearchRows DEF StartedAt
  <2> HIDE DEF e
  <2>2. Quiet(d, e)
    BY <2>1 DEF Quiet
  <2> QED
    BY <2>2 DEF e
<1> QED
  BY <1>2, <1>3

LEMMA DropQuiet ==
    ASSUME NEW d, HookOK(d)
    PROVE  Quiet(d, Drop(d))
BY DropLemma DEF Quiet, SameWish

\* A page taken up for another session shows nothing; else what it showed.
LEMMA RefreshQuiet ==
    ASSUME NEW d, HookOK(d), NEW s \in Session
    PROVE  /\ Quiet(d, Refresh(d, s))
           /\ s # d.token => Refresh(d, s).results = {}
           /\ \A r \in Refresh(d, s).searches : r.rows = {}
<1> DEFINE forget == s # d.token \/ s = None
           m == [d EXCEPT !.timer = FALSE, !.mounted = TRUE, !.busy = FALSE, !.token = s,
                          !.pending = IF write = None THEN None ELSE @,
                          !.results = IF forget THEN {} ELSE @,
                          !.more = IF forget THEN FALSE ELSE @]
           e == Search(m, 0, FALSE)
<1>1. Refresh(d, s) = e
  BY DEF Refresh
<1>2. d \in Dir
  BY DEF HookOK
<1>3. /\ m \in Dir /\ m.searches = d.searches
      /\ m.results = (IF forget THEN {} ELSE d.results)
  BY <1>2 DEF Dir
<1> HIDE DEF m
<1>4. HookOK(m)
  BY <1>3, FS_EmptySet DEF HookOK
<1>5. ~(0 > 0 /\ m.busy)
  OBVIOUS
<1>6. /\ e.results = m.results
      /\ \A r \in e.searches : r.rows = {} /\ (r.live => r.offset = 0)
  <2>1. StartedAt(m, Search(m, 0, FALSE), 0)
    BY <1>4, <1>5, SearchRows
  <2> QED
    BY <2>1 DEF StartedAt
<1> HIDE DEF e
<1>7. /\ e.results = d.results \/ e.results = {}
      /\ s # d.token => e.results = {}
  BY <1>3, <1>6
<1>8. Quiet(d, e)
  BY <1>6, <1>7 DEF Quiet
<1> QED
  BY <1>1, <1>6, <1>7, <1>8

LEMMA DisableQuiet ==
    ASSUME NEW d, HookOK(d)
    PROVE  Quiet(d, Disable(d))
<1> DEFINE D == Drop(d)
           e == Disable(d)
<1>1. HookOK(D) /\ \A r \in D.searches : ~r.live /\ r.rows = {}
  BY DropLemma
<1>2. e = [D EXCEPT !.mounted = FALSE, !.timer = FALSE, !.results = {}]
  BY DEF Disable
<1> HIDE DEF D, e
<1>3. e.results = {} /\ e.searches = D.searches
  BY <1>1, <1>2 DEF HookOK, Dir
<1>4. Quiet(d, e)
  BY <1>1, <1>3 DEF Quiet
<1> QED
  BY <1>4 DEF e

\* A failure takes the rows of a rejected session with it.
LEMMA FailedQuiet ==
    ASSUME NEW d, HookOK(d), NEW answer
    PROVE  /\ Quiet(d, Failed(d, answer))
           /\ answer = "rejected" =>
                /\ Failed(d, answer).results = {}
                /\ \A r \in Failed(d, answer).searches : r.rows = {}
<1>1. CASE answer # "rejected"
  BY <1>1 DEF Failed, Quiet
<1>2. CASE answer = "rejected"
  <2> DEFINE D == Drop(d)
             e == Failed(d, answer)
  <2>1. HookOK(D) /\ \A r \in D.searches : ~r.live /\ r.rows = {}
    BY DropLemma
  <2>2. e = [D EXCEPT !.token = None, !.results = {}, !.more = FALSE,
                      !.status = "idle"]
    BY <1>2 DEF Failed
  <2> HIDE DEF D, e
  <2>3. e.results = {} /\ e.searches = D.searches
    BY <2>1, <2>2 DEF HookOK, Dir
  <2>4. Quiet(d, e)
    BY <2>1, <2>3 DEF Quiet
  <2> QED
    BY <2>1, <2>3, <2>4 DEF e
<1> QED
  BY <1>1, <1>2

LEMMA LeftQuiet ==
    ASSUME NEW d, HookOK(d), NEW t, stored \in Session
    PROVE  Quiet(d, Left(d, t))
<1>1. Quiet(d, d)
  BY DEF Quiet
<1> QED
  BY <1>1, RefreshQuiet DEF Left

LEMMA FreedQuiet ==
    ASSUME NEW d, HookOK(d), NEW over
    PROVE  Quiet(d, Freed(d, over))
<1>1. CASE over /\ d.mounted
  <2> DEFINE e == [d EXCEPT !.pending = None]
  <2>1. e.results = d.results /\ e.searches = d.searches
    BY DEF HookOK, Dir
  <2> HIDE DEF e
  <2>2. Quiet(d, e)
    BY <2>1 DEF Quiet
  <2> QED
    BY <1>1, <2>2 DEF Freed, e
<1>2. CASE ~(over /\ d.mounted)
  BY <1>2 DEF Freed, Quiet
<1> QED
  BY <1>1, <1>2

\* What the steps below have to show.
Kept == /\ PagesOK(dir')
        /\ MarksOK(dir', followed', write', doubt')
        /\ WriteKnown(followed', write', doubt')

\* A step that brings no rows and does not touch the follow.
LEMMA QuietStep ==
    ASSUME RowsInv, Quiet(dir, dir'), followed' = followed, write' = write, doubt' = doubt
    PROVE  Kept
<1>1. PagesOK(dir')
  BY QuietPages DEF RowsInv
<1>2. MarksOK(dir', followed, write, doubt)
  BY QuietMarks DEF RowsInv
<1> QED
  BY <1>1, <1>2 DEF RowsInv, Kept

\* Nothing of the directory and of the follow changes.
LEMMA StillStep ==
    ASSUME RowsInv, dir' = dir, followed' = followed, write' = write, doubt' = doubt
    PROVE  Kept
BY QuietStep DEF Quiet

LEMMA CloseRows ==
    ASSUME Inv, RowsInv, Hide \/ Recheck
    PROVE  Kept
BY FollowParts, DisableQuiet, QuietStep DEF Hide, Recheck

LEMMA AdmitRows ==
    ASSUME Inv, RowsInv, Admit
    PROVE  Kept
BY FollowParts, RefreshQuiet, QuietStep DEF Admit

LEMMA LoginOpensRows ==
    ASSUME Inv, RowsInv, LoginOpens
    PROVE  Kept
<1>1. dir'.results = {} /\ dir'.searches = {} /\ write' = None
  BY DEF LoginOpens, NewDir
<1>2. Cardinality({}) = 0 /\ 1..0 = {}
  BY FS_EmptySet
<1> QED
  BY <1>1, <1>2 DEF Kept, PagesOK, MarksOK, WriteKnown

LEMMA SetQueryRows ==
    ASSUME Inv, RowsInv, NEW q \in Queries, SetQuery(q)
    PROVE  Kept
<1>1. /\ HookOK(Drop(dir))
      /\ \A r \in Drop(dir).searches : ~r.live /\ r.rows = {}
  BY FollowParts, DropLemma
<1>2. dir'.results = {} /\ dir'.searches = Drop(dir).searches
  BY <1>1 DEF SetQuery, HookOK, Dir
<1>3. Quiet(dir, dir')
  BY <1>1, <1>2, QuietEmpty
<1> QED
  BY <1>3, QuietStep DEF SetQuery

LEMMA TimerFiresRows ==
    ASSUME Inv, RowsInv, TimerFires
    PROVE  Kept
<1> DEFINE m == [dir EXCEPT !.timer = FALSE]
<1>1. HookOK(dir)
  BY FollowParts
<1>2. m \in Dir /\ m.results = dir.results /\ m.searches = dir.searches
  BY <1>1 DEF HookOK, Dir
<1>3. dir' = Search(m, 0, FALSE)
  BY DEF TimerFires
<1> HIDE DEF m
<1>4. HookOK(m) /\ Quiet(dir, m)
  BY <1>1, <1>2 DEF HookOK, Quiet
<1>5. Quiet(m, Search(m, 0, FALSE))
  BY <1>4, SearchQuiet
<1>6. Quiet(dir, dir')
  BY <1>3, <1>4, <1>5, QuietTransitive
<1> QED
  BY <1>6, QuietStep DEF TimerFires

LEMMA SetFiltersRows ==
    ASSUME Inv, RowsInv, NEW f \in Filters, SetFilters(f)
    PROVE  Kept
<1> DEFINE m == [Drop(dir) EXCEPT !.filters = f, !.busy = FALSE, !.timer = FALSE,
                                  !.results = {}, !.more = FALSE]
<1>1. HookOK(dir) /\ write \in Write \cup {None}
  BY FollowParts
<1>2. /\ HookOK(Drop(dir))
      /\ \A r \in Drop(dir).searches : ~r.live /\ r.rows = {}
  BY <1>1, DropLemma
<1>3. m \in Dir /\ m.results = {} /\ m.searches = Drop(dir).searches
  BY <1>2 DEF HookOK, Dir
<1>4. dir' = Search(m, 0, FALSE)
  BY DEF SetFilters
<1> HIDE DEF m
<1>5. HookOK(m) /\ Quiet(dir, m)
  BY <1>2, <1>3, FS_EmptySet, QuietEmpty DEF HookOK
<1>6. Quiet(m, Search(m, 0, FALSE))
  BY <1>5, SearchQuiet
<1>7. Quiet(dir, dir')
  BY <1>4, <1>5, <1>6, QuietTransitive
<1>8. PagesOK(dir') /\ MarksOK(dir', followed, write, doubt)
  BY <1>7, QuietPages, QuietMarks DEF RowsInv
<1>9. /\ write # None => /\ write' # None /\ write'.answer = write.answer
                         /\ write'.company = write.company /\ write'.token = write.token
      /\ write' # None => write # None
      /\ followed' = followed /\ doubt' = doubt
  BY <1>1, NoneAssumption DEF SetFilters, Write
<1>10. MarksOK(dir', followed', write', doubt')
  BY <1>8, <1>9 DEF MarksOK, RowKnown
<1>11. WriteKnown(followed', write', doubt')
  BY <1>9 DEF RowsInv, WriteKnown
<1> QED
  BY <1>8, <1>10, <1>11 DEF Kept

LEMMA PageRows ==
    ASSUME Inv, RowsInv, Retry \/ LoadMore
    PROVE  Kept
<1>1. HookOK(dir)
  BY FollowParts
<1>2. /\ Quiet(dir, Search(dir, 0, FALSE))
      /\ Quiet(dir, Search(dir, Cardinality(dir.results), FALSE))
  BY <1>1, SearchQuiet
<1> QED
  BY <1>2, QuietStep DEF Retry, LoadMore

\* The server answers with the row after the offset, as it follows it now.
LEMMA ServeSearchRows ==
    ASSUME Inv, RowsInv, NEW r \in dir.searches, ServeSearch(r)
    PROVE  Kept
<1> DEFINE ok == r.token = None \/ session[r.token] = "valid"
           rows == {[company |-> c, query |-> r.query, filters |-> r.filters,
                     token |-> r.token,
                     followed |-> r.token # None /\ c \in followed[r.token]] :
                    c \in {c \in {r.offset + 1} : ok /\ c <= Companies}}
           n == [r EXCEPT !.answer = IF ok THEN "ok" ELSE "rejected", !.rows = rows]
           S == (dir.searches \ {r}) \cup {n}
<1>1. r \in SearchCall /\ r.live /\ dir \in Dir
  BY FollowParts DEF ServeSearch, HookOK, Dir
<1>2. \A x, y \in rows : /\ x.company = r.offset + 1 /\ x = y
                         /\ x.token = r.token
                         /\ x.followed = (r.token # None /\ x.company \in followed[r.token])
  <2> DEFINE k == r.offset + 1
             one == [company |-> k, query |-> r.query, filters |-> r.filters,
                     token |-> r.token,
                     followed |-> r.token # None /\ k \in followed[r.token]]
  <2>1. rows \in SUBSET {one}
    OBVIOUS
  <2>2. /\ one.company = k /\ one.token = r.token
        /\ one.followed = (r.token # None /\ k \in followed[r.token])
    OBVIOUS
  <2> HIDE DEF one, rows
  <2> QED
    BY <2>1, <2>2
<1>3. dir' = [dir EXCEPT !.searches = S]
  BY <1>1 DEF ServeSearch, Dir
<1> HIDE DEF rows
<1>4. n.rows = rows /\ n.live /\ n.offset = r.offset
  BY <1>1 DEF SearchCall
<1> HIDE DEF n, S
<1>5. dir'.searches = S /\ dir'.results = dir.results
  BY <1>1, <1>3 DEF Dir
<1>6. S = (dir.searches \ {r}) \cup {n}
  BY DEF S
<1>9. \A x \in rows : RowKnown(x, followed, write, doubt)
  BY <1>2 DEF RowKnown
<1>7. PagesOK(dir')
  BY <1>1, <1>2, <1>4, <1>5, <1>6 DEF RowsInv, PagesOK
<1>8. MarksOK(dir', followed, write, doubt)
  BY <1>4, <1>5, <1>6, <1>9 DEF RowsInv, MarksOK
<1> QED
  BY <1>7, <1>8 DEF ServeSearch, RowsInv, Kept

\* A page shown: the first, or the next one after the rows there are.
LEMMA ShownPages ==
    ASSUME NEW d, HookOK(d), PagesOK(d), NEW r \in SearchCall, IsFiniteSet(r.rows),
           r.offset # 0 => r.offset = Cardinality(d.results),
           \A x, y \in r.rows : x.company = r.offset + 1 /\ x = y,
           \A s \in d.searches : ~s.live
    PROVE  /\ PagesOK(Shown(d, r))
           /\ Shown(d, r).results \subseteq d.results \cup r.rows
           /\ Shown(d, r).searches = d.searches
<1> DEFINE e == Shown(d, r)
           new == {x \in r.rows : \A y \in d.results : y.company # x.company}
           R == IF r.offset = 0 THEN r.rows ELSE d.results \cup new
           n == Cardinality(d.results)
           more == r.offset + 1 < Companies
<1>1. /\ d \in Dir /\ r.rows \in SUBSET Row /\ IsFiniteSet(d.results)
      /\ r.offset \in Nat /\ n \in Nat
  BY FS_CardinalityType DEF HookOK, SearchCall
<1>2. R \in SUBSET Row /\ R \subseteq d.results \cup r.rows
  BY <1>1 DEF Dir
<1>3. e = [d EXCEPT !.results = R, !.more = more, !.status = "ready", !.busy = FALSE]
  BY <1>1 DEF Shown, Dir
<1>4. more \in BOOLEAN
  OBVIOUS
<1> HIDE DEF more, e
<1>5. e.results = R /\ e.searches = d.searches
  BY <1>1, <1>2, <1>3, <1>4 DEF Dir
<1>6. /\ \A x, y \in R : x.company = y.company => x = y
      /\ {x.company : x \in R} = 1..Cardinality(R)
  <2>1. CASE R = {}
    <3> HIDE DEF R
    <3>1. Cardinality({}) = 0 /\ 1..0 = {} /\ {x.company : x \in {}} = {}
      BY FS_EmptySet
    <3> QED
      BY <2>1, <3>1
  <2>2. CASE r.offset = 0 /\ R # {}
    <3>1. PICK x \in r.rows : TRUE
      BY <2>2
    <3>2. R = {x} /\ x.company = 1
      <4>1. x.company = r.offset + 1 /\ \A y \in r.rows : y = x
        BY <3>1
      <4> QED
        BY <1>1, <2>2, <3>1, <4>1
    <3> HIDE DEF R
    <3>3. Cardinality(R) = 1
      BY <3>2, FS_Singleton
    <3>4. {y.company : y \in R} = {1}
      BY <3>2
    <3> QED
      BY <3>2, <3>3, <3>4
  <2>3. CASE r.offset # 0 /\ new = {}
    <3>1. R = d.results
      BY <2>3
    <3> HIDE DEF R
    <3> QED
      BY <3>1 DEF PagesOK
  <2>4. CASE r.offset # 0 /\ new # {}
    <3>1. PICK x \in new : TRUE
      BY <2>4
    <3>2. /\ new = {x} /\ x.company = n + 1
          /\ \A y \in d.results : y.company # x.company
      <4>1. x \in r.rows /\ \A y \in r.rows : y = x /\ x.company = r.offset + 1
        BY <3>1
      <4> QED
        BY <2>4, <3>1, <4>1
    <3>3. R = d.results \cup {x}
      BY <2>4, <3>2
    <3> HIDE DEF R, new
    <3>4. Cardinality(R) = n + 1
      BY <1>1, <3>2, <3>3, FS_AddElement
    <3>5. {y.company : y \in d.results} = 1..n
      BY DEF PagesOK
    <3>6. {y.company : y \in R} = (1..n) \cup {n + 1}
      BY <3>2, <3>3, <3>5
    <3> HIDE DEF n
    <3>7. (1..n) \cup {n + 1} = 1..(n + 1)
      BY <1>1
    <3>8. \A y, z \in R : y.company = z.company => y = z
      BY <3>2, <3>3 DEF PagesOK
    <3> QED
      BY <3>4, <3>6, <3>7, <3>8
  <2> QED
    BY <2>1, <2>2, <2>3, <2>4
<1> HIDE DEF R
<1>7. PagesOK(e)
  BY <1>5, <1>6 DEF PagesOK
<1> QED
  BY <1>2, <1>5, <1>7 DEF e

\* The rows a search that no longer counts leaves: those there were.
LEMMA AnsweredQuiet ==
    ASSUME Inv, NEW r \in dir.searches, NEW answer, NEW rest,
           HookOK(rest), stored \in Session,
           ~(Current(dir, r.token) /\ r.live /\ answer = "ok")
    PROVE  Quiet(rest, Answered(rest, r, answer))
<1>1. CASE ~Current(dir, r.token)
  BY <1>1, LeftQuiet DEF Answered
<1>2. CASE Current(dir, r.token) /\ ~r.live
  BY <1>2, QuietSame DEF Answered
<1>3. CASE Current(dir, r.token) /\ r.live /\ answer # "ok"
  <2> DEFINE m == [rest EXCEPT !.status = "error", !.busy = answer = "rejected"]
  <2>1. m \in Dir /\ m.results = rest.results /\ m.searches = rest.searches
    BY DEF HookOK, Dir
  <2>2. Answered(rest, r, answer) = Failed(m, answer)
    BY <1>3 DEF Answered
  <2> HIDE DEF m
  <2>3. HookOK(m) /\ Quiet(rest, m)
    BY <2>1 DEF HookOK, Quiet
  <2>4. Quiet(m, Failed(m, answer))
    BY <2>3, FailedQuiet
  <2>5. Quiet(rest, Failed(m, answer))
    BY <2>3, <2>4, QuietTransitive
  <2> QED
    BY <2>2, <2>5
<1> QED
  BY <1>1, <1>2, <1>3

\* The follow that waited for a search is confirmed: no row waits for it.
LEMMA ReadEnds ==
    ASSUME NEW d, NEW f, NEW w, NEW b, MarksOK(d, f, w, b), w # None => w.answer = "reading"
    PROVE  MarksOK(d, f, None, b)
BY DEF MarksOK, RowKnown

LEMMA ReceiveSearchRows ==
    ASSUME Inv, RowsInv, NEW r \in dir.searches, NEW answer, ReceiveSearch(r, answer)
    PROVE  Kept
<1> DEFINE rest == Without(r)
           e == Answered(rest, r, answer)
<1>1. /\ HookOK(rest) /\ SameWish(dir, rest)
      /\ rest.searches = dir.searches \ {r}
  BY RestLemma
<1>2. dir' = Freed(e, r.awaited)
  BY DEF ReceiveSearch, Answered, Without
<1>3. /\ stored \in Session /\ HookOK(dir) /\ AwaitOK(dir, write)
      /\ SearchesInv(dir)
  BY FollowParts
<1>4. HookOK(e)
  <2>1. AwaitOK(rest, write)
    BY RestLemma
  <2> QED
    BY <2>1, AnsweredLemma
<1> HIDE DEF rest
<1>5. Quiet(dir, rest)
  BY <1>1, QuietSame DEF SameWish
<1>6. PagesOK(rest) /\ MarksOK(rest, followed, write, doubt)
  BY <1>5, QuietPages, QuietMarks DEF RowsInv
<1>7. PagesOK(e) /\ MarksOK(e, followed, write, doubt)
  <2>1. CASE ~(Current(dir, r.token) /\ r.live /\ answer = "ok")
    <3>1. Quiet(rest, e)
      BY <1>1, <1>3, <2>1, AnsweredQuiet
    <3> QED
      BY <1>6, <3>1, QuietPages, QuietMarks
  <2>2. CASE Current(dir, r.token) /\ r.live /\ answer = "ok"
    <3>1. e = Shown(rest, r)
      BY <2>2 DEF Answered
    <3>2. /\ r \in SearchCall /\ IsFiniteSet(r.rows)
          /\ r.offset # 0 => r.offset = Cardinality(rest.results)
          /\ \A x, y \in r.rows : x.company = r.offset + 1 /\ x = y
          /\ \A s \in rest.searches : ~s.live
          /\ \A x \in r.rows : RowKnown(x, followed, write, doubt)
      <4>1. rest.results = dir.results
        BY <1>1 DEF SameWish
      <4>2. \A s \in rest.searches : ~s.live
        BY <1>1, <1>3, <2>2 DEF SearchesInv
      <4> QED
        BY <1>3, <2>2, <4>1, <4>2 DEF HookOK, Dir, RowsInv, PagesOK, MarksOK
    <3> HIDE DEF e
    <3>3. /\ PagesOK(Shown(rest, r))
          /\ Shown(rest, r).results \subseteq rest.results \cup r.rows
          /\ Shown(rest, r).searches = rest.searches
      BY <1>1, <1>6, <3>2, ShownPages
    <3>4. MarksOK(e, followed, write, doubt)
      BY <1>6, <3>1, <3>2, <3>3 DEF MarksOK
    <3> QED
      BY <3>1, <3>3, <3>4
  <2> QED
    BY <2>1, <2>2
<1> HIDE DEF e
<1>8. Quiet(e, dir')
  BY <1>2, <1>4, FreedQuiet
<1>9. PagesOK(dir') /\ MarksOK(dir', followed, write, doubt)
  BY <1>7, <1>8, QuietPages, QuietMarks
<1>10. followed' = followed /\ doubt' = doubt
  BY DEF ReceiveSearch
<1>11. CASE r.awaited
  <2>1. write' = None /\ write.answer = "reading"
    BY <1>3, <1>11 DEF ReceiveSearch, AwaitOK
  <2>2. MarksOK(dir', followed, None, doubt)
    BY <1>9, <2>1, ReadEnds
  <2> QED
    BY <1>9, <1>10, <2>1, <2>2 DEF Kept, WriteKnown
<1>12. CASE ~r.awaited
  <2>1. write' = write
    BY <1>12 DEF ReceiveSearch
  <2> QED
    BY <1>9, <1>10, <2>1 DEF Kept, RowsInv
<1> QED
  BY <1>11, <1>12

\* A follow starts from a row that shows no membership: the server holds none,
\* or its answer to an earlier follow was lost.
LEMMA FollowRows ==
    ASSUME Inv, RowsInv, NEW c \in Wanted, Follow(c)
    PROVE  Kept
<1>1. HookOK(dir) /\ SearchesInv(dir) /\ stored \in Session
  BY FollowParts
<1>2. write = None /\ dir.token # None /\ followed' = followed /\ doubt' = doubt
  BY DEF Follow
<1>3. CASE Current(dir, dir.token)
  <2> DEFINE D == Drop(dir)
  <2>1. HookOK(D) /\ SameWish(dir, D) /\ \A r \in D.searches : ~r.live /\ r.rows = {}
    BY <1>1, DropLemma
  <2>2. /\ dir' = [D EXCEPT !.pending = c, !.busy = FALSE, !.timer = FALSE]
        /\ write' = [token |-> dir.token, company |-> c, query |-> dir.query,
                     filtered |-> FALSE, answer |-> "none"]
    BY <1>3 DEF Follow
  <2> HIDE DEF D
  <2>3. dir'.results = dir.results /\ dir'.searches = D.searches
    BY <2>1, <2>2 DEF HookOK, Dir, SameWish
  <2>4. Quiet(dir, dir')
    BY <2>1, <2>3, QuietEmpty
  <2>5. PagesOK(dir') /\ MarksOK(dir', followed, None, doubt)
    BY <1>2, <2>4, QuietPages, QuietMarks DEF RowsInv
  <2>6. MarksOK(dir', followed, write', doubt)
    BY <2>5 DEF MarksOK, RowKnown
  <2>7. PICK x \in dir.results : x.company = c /\ ~x.followed
    BY DEF Follow
  <2>8. c \in followed[dir.token] => doubt
    <3>1. x.token = dir.token
      BY <1>1 DEF SearchesInv
    <3>2. RowKnown(x, followed, None, doubt)
      BY <1>2 DEF RowsInv, MarksOK
    <3> QED
      BY <1>2, <2>7, <3>1, <3>2 DEF RowKnown
  <2>9. /\ write'.token = dir.token /\ write'.company = c /\ write'.answer = "none"
    BY <2>2
  <2>10. WriteKnown(followed, write', doubt)
    BY <2>8, <2>9 DEF WriteKnown
  <2> QED
    BY <1>2, <2>5, <2>6, <2>10 DEF Kept
<1>4. CASE ~Current(dir, dir.token)
  <2>1. dir' = Left(dir, dir.token) /\ write' = write
    BY <1>4 DEF Follow
  <2> QED
    BY <1>1, <1>2, <2>1, LeftQuiet, QuietStep
<1> QED
  BY <1>3, <1>4

\* The server adds the company followed, or nothing.
LEMMA FollowedAt ==
    ASSUME Inv, write # None
    PROVE  /\ write.company \in Followed[write.token]
           /\ \A t \in Tokens : followed[t] \subseteq Followed[t]
           /\ \A t \in Tokens : \A c \in Followed[t] :
                c \in followed[t] \/ (t = write.token /\ c = write.company)
<1>1. /\ followed \in [Tokens -> SUBSET (1..Companies)]
      /\ write.token \in Tokens /\ write.company \in 1..Companies
  BY Parts DEF PlainOK, Write
<1> QED
  BY <1>1 DEF Followed

\* Rows are read with a session, or with none.
LEMMA RowTokens ==
    ASSUME Inv
    PROVE  /\ \A x \in dir.results : x.token \in Tokens \cup {None}
           /\ \A r \in dir.searches : \A x \in r.rows : x.token \in Tokens \cup {None}
BY FollowParts DEF HookOK, Dir, SearchCall, Row, Session

LEMMA ServeWriteRows ==
    ASSUME Inv, RowsInv, ServeWrite
    PROVE  Kept
<1>1. write \in Write /\ write # None /\ write.answer = "none"
  BY FollowParts DEF ServeWrite
<1>2. /\ dir' = dir /\ doubt' = doubt
      /\ \E a \in {"ok", "rejected"} :
           /\ write' = [write EXCEPT !.answer = a]
           /\ a = "ok" => followed' = Followed
           /\ a = "rejected" => followed' = followed
  BY DEF ServeWrite
<1>3. PICK a \in {"ok", "rejected"} :
        /\ write' = [write EXCEPT !.answer = a]
        /\ a = "ok" => followed' = Followed
        /\ a = "rejected" => followed' = followed
  BY <1>2
<1>4. /\ write'.token = write.token /\ write'.company = write.company
      /\ write'.answer = a /\ write' \in Write
  BY <1>1, <1>3 DEF Write, Answer
<1>5. write' # None
  BY <1>4, NoneAssumption
<1>6. /\ write.company \in Followed[write.token]
      /\ \A t \in Tokens : followed[t] \subseteq Followed[t]
      /\ \A t \in Tokens : \A c \in Followed[t] :
           c \in followed[t] \/ (t = write.token /\ c = write.company)
  BY <1>1, FollowedAt
<1>7. ASSUME NEW x, RowKnown(x, followed, write, doubt), x.token \in Tokens \cup {None}
      PROVE  RowKnown(x, followed', write', doubt')
  BY <1>1, <1>2, <1>3, <1>4, <1>5, <1>6, <1>7 DEF RowKnown
<1>8. MarksOK(dir', followed', write', doubt')
  BY <1>2, <1>7, RowTokens DEF RowsInv, MarksOK
<1>9. WriteKnown(followed', write', doubt')
  BY <1>1, <1>2, <1>3, <1>4, <1>6 DEF RowsInv, WriteKnown
<1> QED
  BY <1>2, <1>8, <1>9 DEF RowsInv, Kept

LEMMA LoseWriteRows ==
    ASSUME Inv, RowsInv, LoseWrite
    PROVE  Kept
<1>1. write \in Write /\ write # None
  BY FollowParts DEF LoseWrite
<1>2. dir' = dir /\ doubt' /\ (followed' = followed \/ followed' = Followed)
  BY DEF LoseWrite
<1>3. write'.answer = "error"
  BY <1>1 DEF LoseWrite, Write
<1>4. \A t \in Tokens : followed[t] \subseteq followed'[t]
  BY <1>1, <1>2, FollowedAt
<1>5. ASSUME NEW x, RowKnown(x, followed, write, doubt), x.token \in Tokens \cup {None}
      PROVE  RowKnown(x, followed', write', doubt')
  BY <1>2, <1>4, <1>5 DEF RowKnown
<1>6. MarksOK(dir', followed', write', doubt')
  BY <1>2, <1>5, RowTokens DEF RowsInv, MarksOK
<1>7. WriteKnown(followed', write', doubt')
  BY <1>2, <1>3 DEF WriteKnown
<1> QED
  BY <1>2, <1>6, <1>7 DEF RowsInv, Kept

\* A confirmed follow: the pages are what they were, the rows of its company
\* show it, and nothing is in flight.
LEMMA MarkedRows ==
    ASSUME NEW d, HookOK(d), PagesOK(d)
    PROVE  /\ PagesOK(Marked(d))
           /\ \A y \in Marked(d).results : \E x \in d.results :
                /\ y.company = x.company /\ y.token = x.token
                /\ y.followed = (x.followed \/ x.company = write.company)
           /\ \A r \in Marked(d).searches : ~r.live /\ r.rows = {}
<1> DEFINE D == Drop(d)
           mark(x) == [x EXCEPT !.followed = @ \/ x.company = write.company]
           R == {mark(x) : x \in d.results}
           m == Marked(d)
<1>1. /\ HookOK(D) /\ SameWish(d, D)
      /\ \A r \in D.searches : ~r.live /\ r.rows = {}
  BY DropLemma
<1>2. \A x \in Row : /\ mark(x) \in Row
                     /\ mark(x).company = x.company /\ mark(x).token = x.token
                     /\ mark(x).followed = (x.followed \/ x.company = write.company)
  <2> SUFFICES ASSUME NEW x \in Row
               PROVE  /\ mark(x) \in Row
                      /\ mark(x).company = x.company /\ mark(x).token = x.token
                      /\ mark(x).followed = (x.followed \/ x.company = write.company)
    OBVIOUS
  <2>1. (x.followed \/ x.company = write.company) \in BOOLEAN
    OBVIOUS
  <2> QED
    BY <2>1 DEF Row
<1>3. /\ d.results \in SUBSET Row /\ IsFiniteSet(d.results) /\ D \in Dir
      /\ D.results = d.results
  BY <1>1 DEF HookOK, Dir, SameWish
<1>4. m = [D EXCEPT !.busy = FALSE, !.results = R]
  BY <1>3 DEF Marked, Dir
<1> HIDE DEF mark
<1>5. R \in SUBSET Row /\ \A y \in R : \E x \in d.results : y = mark(x)
  BY <1>2, <1>3
<1>6. \A x, y \in d.results : x.company = y.company => x = y
  BY DEF PagesOK
<1>7. Cardinality(R) = Cardinality(d.results)
  <2> DEFINE f == [x \in d.results |-> mark(x)]
  <2>1. f \in Surjection(d.results, R)
    BY DEF Surjection
  <2>2. \A x, y \in d.results : mark(x) = mark(y) => x = y
    BY <1>2, <1>3, <1>6
  <2>3. f \in Injection(d.results, R)
    <3>1. f \in [d.results -> R] /\ \A x \in d.results : f[x] = mark(x)
      OBVIOUS
    <3> HIDE DEF f, R
    <3>2. \A x, y \in d.results : f[x] = f[y] => x = y
      BY <2>2, <3>1
    <3> QED
      BY <3>1, <3>2 DEF Injection, IsInjective
  <2>4. f \in Bijection(d.results, R)
    BY <2>1, <2>3 DEF Bijection
  <2>5. ExistsBijection(d.results, R)
    BY <2>4 DEF ExistsBijection
  <2> QED
    BY <1>3, <2>5, FS_Bijection
<1>8. {y.company : y \in R} = {x.company : x \in d.results}
  <2>1. \A x \in d.results : mark(x) \in R /\ mark(x).company = x.company
    BY <1>2, <1>3
  <2>2. \A y \in R : \E x \in d.results : y.company = x.company
    BY <1>2, <1>3, <1>5
  <2> HIDE DEF R
  <2> QED
    BY <2>1, <2>2
<1>9. \A x, y \in R : x.company = y.company => x = y
  BY <1>2, <1>3, <1>5, <1>6
<1> HIDE DEF D, R, m
<1>10. m.results = R /\ m.searches = D.searches
  BY <1>3, <1>4 DEF Dir
<1>11. PagesOK(m)
  BY <1>1, <1>7, <1>8, <1>9, <1>10 DEF PagesOK
<1>12. \A y \in m.results : \E x \in d.results :
         /\ y.company = x.company /\ y.token = x.token
         /\ y.followed = (x.followed \/ x.company = write.company)
  BY <1>2, <1>3, <1>5, <1>10
<1> QED
  BY <1>1, <1>10, <1>11, <1>12 DEF m

\* After the mark no row waits for the follow, whatever becomes of it.
LEMMA MarkedKnown ==
    ASSUME Inv, RowsInv, write # None, write.answer = "ok", Current(dir, write.token),
           NEW w
    PROVE  PagesOK(Marked(dir)) /\ MarksOK(Marked(dir), followed, w, doubt)
<1> DEFINE m == Marked(dir)
<1>1. /\ HookOK(dir) /\ PagesOK(dir) /\ \A x \in dir.results : x.token = write.token
      /\ write.company \in followed[write.token]
  BY FollowParts DEF SearchesInv, RowsInv, WriteKnown, Current
<1>2. /\ PagesOK(m)
      /\ \A y \in m.results : \E x \in dir.results :
           /\ y.company = x.company /\ y.token = x.token
           /\ y.followed = (x.followed \/ x.company = write.company)
      /\ \A r \in m.searches : ~r.live /\ r.rows = {}
  BY <1>1, MarkedRows
<1> HIDE DEF m
<1>3. ASSUME NEW y \in m.results
      PROVE  RowKnown(y, followed, w, doubt)
  <2>1. PICK x \in dir.results :
          /\ y.company = x.company /\ y.token = x.token
          /\ y.followed = (x.followed \/ x.company = write.company)
    BY <1>2
  <2>2. RowKnown(x, followed, write, doubt)
    BY DEF RowsInv, MarksOK
  <2> QED
    BY <1>1, <2>1, <2>2 DEF RowKnown
<1> QED
  BY <1>2, <1>3 DEF MarksOK, m

\* What was typed meanwhile is read again: the follow keeps waiting.
LEMMA ReadAgainRows ==
    ASSUME Inv, RowsInv, ReceiveWrite, Current(dir, write.token), write.answer = "ok",
           write.query # dir.query \/ write.filtered
    PROVE  Kept
<1> DEFINE m == Marked(dir)
<1>1. HookOK(dir) /\ SearchesInv(dir) /\ AwaitOK(dir, write) /\ write # None /\ write \in Write
  BY FollowParts DEF ReceiveWrite
<1>2. HookOK(m)
  BY <1>1, MarkedLemma DEF AwaitOK
<1>3. dir' = Search(m, 0, TRUE) /\ write' = [write EXCEPT !.answer = "reading"]
  BY <1>1 DEF ReceiveWrite, Confirmed, Marked, Write
<1>4. PagesOK(m) /\ MarksOK(m, followed, write', doubt)
  BY <1>1, MarkedKnown
<1> HIDE DEF m
<1>5. Quiet(m, dir')
  BY <1>2, <1>3, SearchQuiet
<1>6. PagesOK(dir') /\ MarksOK(dir', followed, write', doubt)
  BY <1>4, <1>5, QuietPages, QuietMarks
<1>7. followed' = followed /\ doubt' = doubt
  BY DEF ReceiveWrite
<1>8. write'.token = write.token /\ write'.company = write.company /\ write'.answer = "reading"
  BY <1>1, <1>3 DEF Write
<1>9. WriteKnown(followed, write', doubt)
  BY <1>1, <1>8 DEF RowsInv, WriteKnown
<1> QED
  BY <1>6, <1>7, <1>9 DEF Kept

\* Whatever the answer of a follow that ends was, no row waits for it: rows it
\* was for show it, are gone, or belong to a page of another session.
LEMMA EndedRows ==
    ASSUME Inv, RowsInv, write # None, write.answer \in Answer,
           ~(/\ Current(dir, write.token) /\ write.answer = "ok"
             /\ write.query # dir.query \/ write.filtered)
    PROVE  PagesOK(Ended) /\ MarksOK(Ended, followed, None, doubt)
<1>1. /\ HookOK(dir) /\ SearchesInv(dir) /\ AwaitOK(dir, write) /\ stored \in Session
  BY FollowParts
<1>2. CASE ~Current(dir, write.token)
  <2>1. Ended = Left(dir, write.token)
    BY <1>2 DEF Ended
  <2>2. Quiet(dir, Ended)
    BY <1>1, <2>1, LeftQuiet
  <2>3. CASE dir.mounted /\ dir.token = write.token
    <3>1. Ended = Refresh(dir, stored) /\ stored # dir.token
      BY <1>2, <2>1, <2>3 DEF Left, Current
    <3>2. Ended.results = {} /\ \A r \in Ended.searches : r.rows = {}
      BY <1>1, <3>1, RefreshQuiet
    <3> QED
      BY <2>2, <3>2, QuietPages DEF RowsInv, MarksOK
  <2>4. CASE ~(dir.mounted /\ dir.token = write.token)
    <3>1. Ended = dir
      BY <2>1, <2>4 DEF Left
    <3>2. \A x \in dir.results : x.token # write.token
      BY <1>1, <2>4 DEF SearchesInv
    <3>3. \A r \in dir.searches : \A x \in r.rows : r.live
      BY DEF RowsInv, PagesOK
    <3>4. \A r \in dir.searches : \A x \in r.rows : x.token # write.token
      BY <1>1, <2>4, <3>3 DEF SearchesInv
    <3>5. MarksOK(dir, followed, None, doubt)
      BY <3>2, <3>4 DEF RowsInv, MarksOK, RowKnown
    <3> QED
      BY <3>1, <3>5 DEF RowsInv
  <2> QED
    BY <2>3, <2>4
<1>3. CASE Current(dir, write.token) /\ write.answer = "ok"
  <2> DEFINE m == Marked(dir)
             e == [m EXCEPT !.status = "ready"]
  <2>1. HookOK(m) /\ PagesOK(m) /\ MarksOK(m, followed, None, doubt)
    BY <1>1, <1>3, MarkedLemma, MarkedKnown DEF AwaitOK
  <2>2. Ended = e
    BY <1>3 DEF Ended, Confirmed, Marked
  <2> HIDE DEF m, e
  <2>3. e.results = m.results /\ e.searches = m.searches
    BY <2>1 DEF HookOK, Dir, e
  <2>4. Quiet(m, e)
    BY <2>3, QuietSame
  <2> QED
    BY <2>1, <2>2, <2>4, QuietPages, QuietMarks
<1>4. CASE Current(dir, write.token) /\ write.answer # "ok"
  <2> DEFINE m == [dir EXCEPT !.status = "error"]
             e == Failed(m, write.answer)
  <2>1. m \in Dir /\ m.results = dir.results /\ m.searches = dir.searches
    BY <1>1 DEF HookOK, Dir
  <2>2. Ended = e
    BY <1>4 DEF Ended
  <2> HIDE DEF m
  <2>3. HookOK(m) /\ Quiet(dir, m)
    BY <1>1, <2>1 DEF HookOK, Quiet
  <2>4. /\ Quiet(m, e)
        /\ write.answer = "rejected" =>
             e.results = {} /\ \A r \in e.searches : r.rows = {}
    BY <2>3, FailedQuiet
  <2> HIDE DEF e
  <2>5. Quiet(dir, e)
    BY <2>3, <2>4, QuietTransitive
  <2>6. PagesOK(e) /\ MarksOK(e, followed, write, doubt)
    BY <2>5, QuietPages, QuietMarks DEF RowsInv
  <2>7. MarksOK(e, followed, None, doubt)
    <3>1. CASE write.answer = "rejected"
      BY <2>4, <3>1 DEF MarksOK
    <3>2. CASE write.answer = "error"
      <4>1. doubt
        BY <3>2 DEF RowsInv, WriteKnown
      <4> QED
        BY <2>6, <4>1 DEF MarksOK, RowKnown
    <3> QED
      BY <1>4, <3>1, <3>2 DEF Answer
  <2> QED
    BY <2>2, <2>6, <2>7
<1> QED
  BY <1>2, <1>3, <1>4

LEMMA ReceiveWriteRows ==
    ASSUME Inv, RowsInv, ReceiveWrite
    PROVE  Kept
<1> DEFINE reads == /\ Current(dir, write.token) /\ write.answer = "ok"
                    /\ write.query # dir.query \/ write.filtered
<1>1. CASE reads
  BY <1>1, ReadAgainRows
<1>2. CASE ~reads
  <2>1. dir' = Freed(Ended, TRUE) /\ write' = None
    BY <1>2 DEF ReceiveWrite, Ended
  <2>2. followed' = followed /\ doubt' = doubt /\ write # None /\ write.answer \in Answer
    BY DEF ReceiveWrite
  <2>3. HookOK(Ended) /\ PagesOK(Ended) /\ MarksOK(Ended, followed, None, doubt)
    BY <1>2, <2>2, EndedLemma, EndedRows
  <2>4. Quiet(Ended, dir')
    BY <2>1, <2>3, FreedQuiet
  <2> QED
    BY <2>1, <2>2, <2>3, <2>4, QuietPages, QuietMarks DEF Kept, WriteKnown
<1> QED
  BY <1>1, <1>2

LEMMA InitRows == Init => RowsInv
<1>1. Cardinality({}) = 0 /\ 1..0 = {}
  BY FS_EmptySet
<1> SUFFICES ASSUME Init PROVE RowsInv
  OBVIOUS
<1>2. dir.results = {} /\ dir.searches = {} /\ write = None
  BY DEF Init, NewDir
<1> QED
  BY <1>1, <1>2 DEF RowsInv, PagesOK, MarksOK, WriteKnown

LEMMA StepRows == Inv /\ RowsInv /\ [Next]_vars => RowsInv'
<1> SUFFICES ASSUME Inv, RowsInv, [Next]_vars
             PROVE  Kept
  BY DEF RowsInv, Kept
<1>1. CASE Open \/ Show \/ AnswerCheck \/ TurnAway \/ CheckFails
  BY <1>1, StillStep DEF Open, Show, AnswerCheck, TurnAway, CheckFails
<1>2. CASE Hide \/ Recheck
  BY <1>2, CloseRows
<1>3. CASE Admit
  BY <1>3, AdmitRows
<1>4. CASE LoginOpens
  BY <1>4, LoginOpensRows
<1>5. CASE \E q \in Queries : SetQuery(q)
  BY <1>5, SetQueryRows
<1>6. CASE \E f \in Filters : SetFilters(f)
  BY <1>6, SetFiltersRows
<1>7. CASE TimerFires
  BY <1>7, TimerFiresRows
<1>8. CASE Retry \/ LoadMore
  BY <1>8, PageRows
<1>9. CASE \E r \in dir.searches : ServeSearch(r)
  BY <1>9, ServeSearchRows
<1>10. CASE \E r \in dir.searches, a \in Answer \cup {"none"} : ReceiveSearch(r, a)
  BY <1>10, ReceiveSearchRows
<1>11. CASE \E c \in Wanted : Follow(c)
  BY <1>11, FollowRows
<1>12. CASE ServeWrite
  BY <1>12, ServeWriteRows
<1>13. CASE LoseWrite
  BY <1>13, LoseWriteRows
<1>14. CASE ReceiveWrite
  BY <1>14, ReceiveWriteRows
<1>15. CASE (\E t \in Tokens : SaveSession(t) \/ Revoke(t) \/ Expire(t)) \/ ClearSession
  BY <1>15, StillStep DEF SaveSession, Revoke, Expire, ClearSession
<1>16. CASE UNCHANGED vars
  BY <1>16, StillStep DEF vars
<1> QED
  BY <1>1, <1>2, <1>3, <1>4, <1>5, <1>6, <1>7, <1>8, <1>9, <1>10, <1>11, <1>12,
     <1>13, <1>14, <1>15, <1>16
  DEF Next

LEMMA RowsAlways == Spec => []RowsInv
BY InitRows, StepRows, InvAlways, PTL DEF Spec

-----------------------------------------------------------------------------
(* Theorems *)

\* The variables keep their shape, and at most one of the searches in flight
\* has an answer that still counts.
THEOREM TypeCorrect == Spec => []TypeOK
<1>1. Inv => TypeOK
  BY DEF Inv
<1> QED
  BY <1>1, InvAlways, PTL

\* Whatever is typed, filtered, followed or reloaded while searches are in
\* flight, and whichever sessions come and go: the rows shown answer the
\* present query and filters and were read with the session of the page.
THEOREM RowsAnswerTheSearch == Spec => []ResultsMatchSearch
<1>1. Inv => ResultsMatchSearch
  BY DEF Inv, PageInv, SearchesInv, ResultsMatchSearch
<1> QED
  BY <1>1, InvAlways, PTL

\* The directory works only behind an open gate, and the gate is open only on
\* an answer of the server that is younger than the last return to the page.
THEOREM GateGuardsContent == Spec => []ContentIsVerified
<1>1. Inv => ContentIsVerified
  BY DEF Inv, PageInv, GateInv, SearchesInv, ContentIsVerified
<1> QED
  BY <1>1, InvAlways, PTL

\* A shown page is open, being checked, or offers to retry.
THEOREM PageIsNeverBlank == Spec => []NeverBlank
<1>1. Inv => NeverBlank
  BY DEF Inv, PageInv, GateInv
<1> QED
  BY <1>1, InvAlways, PTL

\* The buttons are blocked exactly while a follow is under way.
THEOREM ButtonsFollowTheWrite == Spec => []BusyWhileWriting
<1>1. Inv => BusyWhileWriting
  BY DEF Inv, PageInv, WriteInv, BusyWhileWriting
<1> QED
  BY <1>1, InvAlways, PTL

\* The page never says "loading" with nothing on its way that will end it.
THEOREM LoadingHasACause == Spec => []LoadingIsSearching
<1>1. Inv => LoadingIsSearching
  BY DEF Inv, PageInv, WriteInv, LoadingIsSearching
<1> QED
  BY <1>1, InvAlways, PTL

\* Whatever ends, is left or is lost: the page has something to show, to wait
\* for or to retry, what it waits for is on its way, and so is the follow that
\* blocks its buttons.
THEOREM PageGoesOn == Spec => []PageIsNeverStuck
<1>1. NeverBlank /\ LoadingIsSearching /\ BusyWhileWriting => PageIsNeverStuck
  BY DEF PageIsNeverStuck
<1> QED
  BY <1>1, PageIsNeverBlank, LoadingHasACause, ButtonsFollowTheWrite, PTL

\* Paging leaves no gap and repeats nothing, whatever was typed, followed or
\* reloaded between the request of a page and its answer.
THEOREM PagesHaveNoGap == Spec => []PagesAreContiguous
<1>1. Inv /\ RowsInv => PagesAreContiguous
  BY DEF Inv, RowsInv, PagesOK, PagesAreContiguous
<1> QED
  BY <1>1, InvAlways, RowsAlways, PTL

\* A company is shown as followed only when the server holds the follow, and
\* as not followed only when it does not, a follow is under way, or the answer
\* of one was lost.
THEOREM MembershipIsShown == Spec => []FollowShown
<1>1. RowsInv => FollowShown
  BY DEF RowsInv, MarksOK, RowKnown, FollowShown
<1> QED
  BY <1>1, RowsAlways, PTL

=============================================================================
