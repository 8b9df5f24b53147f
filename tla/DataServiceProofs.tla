------------------------- MODULE DataServiceProofs -------------------------
(***************************************************************************)
(* What is proved about the Data Service.  Publication: what a call has    *)
(* read still holds when it commits, because its advisory locks are its    *)
(* own, so that sets are never mixed, citations resolve, repeats are       *)
(* answered alike and storage is complete.  Reports: what the publisher    *)
(* accepts, the Miniapp backend reads, but for the differences             *)
(* ReportContract names: part by part, then for a unit, then as an         *)
(* invariant of the specification; and it is stored with all it cites,     *)
(* because a walk over the document that names elements apart names        *)
(* citations apart.  Evidence and events: what is accepted is read, but    *)
(* for the differences FactContract names: first a raw evidence, a set and *)
(* an event by themselves, then the invariant that every row is what an    *)
(* accepted publication is stored as.  Migrations: a report tells what its *)
(* run did.  Stocks: whichever packages meet on the table, facts keep      *)
(* their date, quotes are final and only unwritten rows deadlock.          *)
(* Sources: the limits on the set hold because what is counted is what is  *)
(* enabled.  Last, all of it for the service as a whole, whichever part    *)
(* has the step.                                                           *)
(***************************************************************************)
EXTENDS MCServices, FiniteSetTheorems, WellFoundedInduction, TLAPS

-----------------------------------------------------------------------------
(* Publication: the invariant *)

Working == {"lock", "read", "insert"}

\* A call holds what it locks from its first read to its end.
HoldsItsLocks(c) ==
    /\ call[c].pc \in {"read", "insert"} => call[c].held = Locks(c)
    /\ call[c].pc = "lock" => call[c].held \subseteq Locks(c)
    /\ call[c].pc \notin Working => call[c].held = {}

\* What a call has read, when it is about to insert.
StillUnpublished(c) ==
    call[c].pc = "insert" =>
      /\ Kind(c) = "raw" => ~\E r \in raws : r.key = Key(c)
      /\ Kind(c) = "evidence" => /\ \E r \in raws : r.key = Key(c)
                                 /\ ~\E e \in evidences : e.raw = Key(c)
      /\ Kind(c) \in {"report", "event"} =>
           /\ ~\E p \in publications : p.kind = Kind(c) /\ p.key = Key(c)
           /\ Cites[call[c].request.content] \subseteq Published

\* What a call was told is stored, unless maintenance has removed it.
WasToldTruly(c) ==
    /\ call[c].pc # "replayed" => call[c].answer = c
    /\ call[c].pc \in {"published", "replayed"} /\ Kind(c) \in {"report", "event"} =>
         \/ \E p \in publications :
              /\ p.kind = Kind(c) /\ p.key = Key(c)
              /\ p.content = call[c].request.content /\ p.id = call[c].answer
         \/ plan.pc = "applied" /\ \E p \in plan.delete : p.key = Key(c) /\ p.kind = Kind(c)

CallInv(c) ==
    /\ HoldsItsLocks(c)
    /\ call[c].pc \in Working /\ Kind(c) = "evidence" => call[c].request.statements # {}
    /\ call[c].pc # "constraint"
    /\ StillUnpublished(c)
    /\ WasToldTruly(c)

LocksAreExclusive ==
    \A c, d \in Calls : c # d => call[c].held \cap call[d].held = {}

\* Every row is that of a call that ended.
RowsHaveCalls ==
    /\ \A p \in publications : call[p.id].pc \in {"published", "failed"} /\ p = Row(p.id)
    /\ \A k \in Keys :
         (\E e \in evidences : e.raw = k) =>
           \E c \in Calls : /\ call[c].pc \in {"published", "failed"} /\ Kind(c) = "evidence"
                            /\ {e \in evidences : e.raw = k} = Rows(c)

\* The tables among themselves.
TablesAgree ==
    /\ \A p, q \in publications : p.kind = q.kind /\ p.key = q.key => p = q
    /\ \A e \in evidences : \E r \in raws : r.key = e.raw
    /\ \A l \in links : \E p \in publications : p.id = l.publication
    /\ CitationsResolve
    /\ \A c \in storage : \E p \in publications : p.kind = "report" /\ p.id = c
    /\ version = "new" =>
         \A p \in publications : p.kind = "report" => p.id \in storage
    /\ plan.delete \subseteq plan.inventory

PublicationInv ==
    /\ TypeOK
    /\ \A c \in Calls : CallInv(c)
    /\ LocksAreExclusive /\ RowsHaveCalls /\ TablesAgree

-----------------------------------------------------------------------------
(* What the parts of a step do to the calls *)

\* Everything of the other calls stays.
OnlyCall(c) == /\ call' \in [Calls -> CallState]
               /\ \A d \in Calls \ {c} : call'[d] = call[d]

LEMMA StepIs ==
    ASSUME call \in [Calls -> CallState], NEW c \in Calls,
           NEW phase \in {"lock", "read", "insert"}, Step(c, phase)
    PROVE  /\ OnlyCall(c) /\ call'[c].pc = phase /\ call'[c].held = call[c].held
           /\ call'[c].request = call[c].request /\ call'[c].answer = call[c].answer
BY DEF Step, OnlyCall, CallState

LEMMA EndIs ==
    ASSUME call \in [Calls -> CallState], NEW c \in Calls, NEW outcome \in Ended, End(c, outcome)
    PROVE  /\ OnlyCall(c) /\ call'[c].pc = outcome /\ call'[c].held = {}
           /\ call'[c].request = call[c].request /\ call'[c].answer = call[c].answer
<1> DEFINE ended == [call[c] EXCEPT !.pc = outcome, !.held = {}]
<1>1. call[c] \in CallState
  OBVIOUS
<1>2. /\ ended \in CallState /\ ended.pc = outcome /\ ended.held = {}
      /\ ended.request = call[c].request /\ ended.answer = call[c].answer
  BY <1>1 DEF CallState
<1>3. call' = [call EXCEPT ![c] = ended]
  BY DEF End
<1> HIDE DEF ended
<1> QED
  BY <1>2, <1>3 DEF OnlyCall

\* A call is answered the publication that is stored.
Told(c, id) ==
    call' = [call EXCEPT ![c].pc = "replayed", ![c].held = {}, ![c].answer = id]

LEMMA ReplayIs ==
    ASSUME call \in [Calls -> CallState], NEW c \in Calls, NEW id \in Calls, Told(c, id)
    PROVE  /\ OnlyCall(c) /\ call'[c].pc = "replayed" /\ call'[c].held = {}
           /\ call'[c].request = call[c].request /\ call'[c].answer = id
<1> DEFINE told == [call[c] EXCEPT !.pc = "replayed", !.held = {}, !.answer = id]
<1>1. call[c] \in CallState
  OBVIOUS
<1>2. /\ told \in CallState /\ told.pc = "replayed" /\ told.held = {}
      /\ told.request = call[c].request /\ told.answer = id
  BY <1>1 DEF CallState, Ended
<1>3. call' = [call EXCEPT ![c] = told]
  BY DEF Told
<1> HIDE DEF told
<1> QED
  BY <1>2, <1>3 DEF OnlyCall

LEMMA LocksAreLocks ==
    ASSUME TypeOK, NEW c \in Calls
    PROVE  Locks(c) \subseteq Lock
BY DEF TypeOK, CallState, Request, Locks, Lock, Kind, Key, Kinds

\* A call that does not move keeps its invariant while no table does.
LEMMA SameCall ==
    ASSUME NEW d \in Calls, call'[d] = call[d], CallInv(d),
           UNCHANGED <<raws, evidences, publications, plan>>
    PROVE  CallInv(d)'
BY DEF CallInv, HoldsItsLocks, StillUnpublished, WasToldTruly, Kind, Key, Locks, Published

\* A step of one call that leaves the tables alone and does not end it with new rows.
LEMMA QuietStep ==
    ASSUME PublicationInv, NEW c \in Calls, OnlyCall(c), UNCHANGED <<tables, version, plan>>,
           call[c].pc \notin {"published", "failed"}, CallInv(c)',
           \A d \in Calls \ {c} : call'[c].held \cap call[d].held = {}
    PROVE  PublicationInv'
<1>1. TypeOK'
  BY DEF PublicationInv, TypeOK, OnlyCall, tables
<1>2. ASSUME NEW d \in Calls PROVE CallInv(d)'
  <2>1. CASE d = c
    BY <2>1
  <2>2. CASE d # c
    BY <2>2, SameCall DEF PublicationInv, OnlyCall, tables
  <2> QED
    BY <2>1, <2>2
<1>3. LocksAreExclusive'
  BY DEF PublicationInv, LocksAreExclusive, OnlyCall
<1>4. RowsHaveCalls'
  <2>1. \A d \in Calls : call[d].pc \in {"published", "failed"} =>
          call'[d] = call[d] /\ Row(d)' = Row(d) /\ Rows(d)' = Rows(d) /\ Kind(d)' = Kind(d)
    BY DEF OnlyCall, Row, Rows, Kind, Key
  <2>2. \A p \in publications : p.id \in Calls
    BY DEF PublicationInv, TypeOK, PublicationRow
  <2> QED
    BY <2>1, <2>2 DEF PublicationInv, RowsHaveCalls, tables
<1>5. TablesAgree'
  BY DEF PublicationInv, TablesAgree, CitationsResolve, Published, tables
<1> QED
  BY <1>1, <1>2, <1>3, <1>4, <1>5 DEF PublicationInv

-----------------------------------------------------------------------------
(* The steps of one call before it commits *)

\* A call that ends without an answer, or with a refusal, is right to.
LEMMA EndKeeps ==
    ASSUME PublicationInv, NEW c \in Calls, call[c].pc \in Working,
           NEW outcome \in {"conflict", "missing", "invalid", "failed"},
           End(c, outcome), UNCHANGED <<tables, version, plan>>
    PROVE  PublicationInv'
<1>1. /\ OnlyCall(c) /\ call'[c].pc = outcome /\ call'[c].held = {}
      /\ call'[c].request = call[c].request /\ call'[c].answer = call[c].answer
  BY EndIs DEF PublicationInv, TypeOK, Ended
<1>2. CallInv(c)'
  BY <1>1 DEF PublicationInv, CallInv, HoldsItsLocks, StillUnpublished, WasToldTruly, Working
<1> QED
  BY <1>1, <1>2, QuietStep DEF Working

\* A call that found its own publication stored is told so.
LEMMA ReplayKeeps ==
    ASSUME PublicationInv, NEW c \in Calls, call[c].pc \in Working,
           NEW id \in Calls, UNCHANGED <<tables, version, plan>>, Told(c, id),
           Kind(c) \in {"report", "event"} =>
             \E p \in Stored(c) : p.content = call[c].request.content /\ p.id = id
    PROVE  PublicationInv'
<1>1. /\ OnlyCall(c) /\ call'[c].pc = "replayed" /\ call'[c].held = {}
      /\ call'[c].request = call[c].request /\ call'[c].answer = id
  BY ReplayIs DEF PublicationInv, TypeOK
<1>2. WasToldTruly(c)'
  BY <1>1 DEF WasToldTruly, Kind, Key, Stored, tables
<1>3. CallInv(c)'
  BY <1>1, <1>2 DEF PublicationInv, CallInv, HoldsItsLocks, StillUnpublished, Working
<1> QED
  BY <1>1, <1>3, QuietStep DEF Working

\* A call that found nothing stored goes on to insert.
LEMMA InsertKeeps ==
    ASSUME PublicationInv, NEW c \in Calls, call[c].pc = "read",
           Step(c, "insert"), UNCHANGED <<tables, version, plan>>,
           Kind(c) = "raw" => ~\E r \in raws : r.key = Key(c),
           Kind(c) = "evidence" => /\ \E r \in raws : r.key = Key(c)
                                   /\ ~\E e \in evidences : e.raw = Key(c),
           Kind(c) \in {"report", "event"} =>
             Stored(c) = {} /\ Cites[call[c].request.content] \subseteq Published
    PROVE  PublicationInv'
<1>1. /\ OnlyCall(c) /\ call'[c].pc = "insert" /\ call'[c].held = call[c].held
      /\ call'[c].request = call[c].request /\ call'[c].answer = call[c].answer
  BY StepIs DEF PublicationInv, TypeOK
<1>2. HoldsItsLocks(c)' /\ WasToldTruly(c)'
  BY <1>1 DEF PublicationInv, CallInv, HoldsItsLocks, WasToldTruly, Working, Locks, Kind, Key
<1>3. StillUnpublished(c)'
  BY <1>1 DEF StillUnpublished, Kind, Key, Stored, Published, tables
<1>4. CallInv(c)'
  BY <1>1, <1>2, <1>3 DEF PublicationInv, CallInv, Working, Kind
<1>5. \A d \in Calls \ {c} : call'[c].held \cap call[d].held = {}
  BY <1>1 DEF PublicationInv, LocksAreExclusive
<1> QED
  BY <1>1, <1>4, <1>5, QuietStep

LEMMA StartKeeps ==
    ASSUME PublicationInv, NEW c \in Calls, Start(c)
    PROVE  PublicationInv'
<1>1. PICK request \in Request :
         /\ request.kind # "report" => request.kind = "evidence" \/ request.statements = {}
         /\ call' = [call EXCEPT ![c].request = request,
                       ![c].pc = IF request.kind = "report" \/ Accepted(request)
                                 THEN "lock" ELSE "invalid"]
  BY DEF Start
<1> DEFINE phase == IF request.kind = "report" \/ Accepted(request) THEN "lock" ELSE "invalid"
           asked == [call[c] EXCEPT !.request = request, !.pc = phase]
<1>2. call[c] \in CallState /\ call[c].pc = "idle"
  BY DEF PublicationInv, TypeOK, Start
<1>3. phase \in {"lock", "invalid"}
  OBVIOUS
<1>4. request.kind = "evidence" /\ phase = "lock" => request.statements # {}
  BY DEF Accepted
<1>5. call' = [call EXCEPT ![c] = asked]
  BY <1>1
<1> HIDE DEF phase
<1>6. /\ asked \in CallState /\ asked.pc = phase /\ asked.held = call[c].held
      /\ asked.request = request /\ asked.answer = call[c].answer
  BY <1>2, <1>3 DEF CallState, Ended
<1> HIDE DEF asked
<1>7. /\ OnlyCall(c) /\ call'[c].pc = phase /\ call'[c].held = call[c].held
      /\ call'[c].request = request /\ call'[c].answer = call[c].answer
  BY <1>5, <1>6 DEF OnlyCall, PublicationInv, TypeOK
<1>8. call[c].held = {} /\ call[c].answer = c
  BY <1>2 DEF PublicationInv, CallInv, HoldsItsLocks, WasToldTruly, Working
<1>9. CallInv(c)'
  BY <1>3, <1>4, <1>7, <1>8
  DEF CallInv, HoldsItsLocks, StillUnpublished, WasToldTruly, Working, Kind
<1>10. \A d \in Calls \ {c} : call'[c].held \cap call[d].held = {}
  BY <1>7, <1>8
<1> QED
  BY <1>2, <1>7, <1>9, <1>10, QuietStep DEF Start

LEMMA TakeLockKeeps ==
    ASSUME PublicationInv, NEW c \in Calls, TakeLock(c)
    PROVE  PublicationInv'
<1>1. PICK l \in NextLocks(c) :
         /\ \A d \in Calls : l \notin call[d].held
         /\ call' = [call EXCEPT ![c].held = @ \cup {l},
                       ![c].pc = IF Locks(c) = call[c].held \cup {l} THEN "read" ELSE "lock"]
  BY DEF TakeLock
<1> DEFINE phase == IF Locks(c) = call[c].held \cup {l} THEN "read" ELSE "lock"
           locked == [call[c] EXCEPT !.held = @ \cup {l}, !.pc = phase]
<1>2. call[c] \in CallState /\ call[c].pc = "lock" /\ call[c].held \subseteq Locks(c)
  BY DEF PublicationInv, TypeOK, TakeLock, CallInv, HoldsItsLocks
<1>3. l \in Locks(c) /\ l \in Lock
  BY LocksAreLocks DEF NextLocks, PublicationInv
<1>4. phase \in {"read", "lock"} /\ (phase = "read" => call[c].held \cup {l} = Locks(c))
  OBVIOUS
<1>5. call' = [call EXCEPT ![c] = locked]
  BY <1>1
<1> HIDE DEF phase
<1>6. /\ locked \in CallState /\ locked.pc = phase /\ locked.held = call[c].held \cup {l}
      /\ locked.request = call[c].request /\ locked.answer = call[c].answer
  BY <1>2, <1>3, <1>4 DEF CallState
<1> HIDE DEF locked
<1>7. /\ OnlyCall(c) /\ call'[c].pc = phase /\ call'[c].held = call[c].held \cup {l}
      /\ call'[c].request = call[c].request /\ call'[c].answer = call[c].answer
  BY <1>5, <1>6 DEF OnlyCall, PublicationInv, TypeOK
<1>8. Locks(c)' = Locks(c) /\ Kind(c)' = Kind(c)
  BY <1>7 DEF Locks, Kind, Key
<1>9. HoldsItsLocks(c)'
  BY <1>2, <1>3, <1>4, <1>7, <1>8 DEF HoldsItsLocks, Working
<1>10. CallInv(c)'
  BY <1>2, <1>4, <1>7, <1>8, <1>9
  DEF PublicationInv, CallInv, StillUnpublished, WasToldTruly, Working
<1>11. \A d \in Calls \ {c} : call'[c].held \cap call[d].held = {}
  BY <1>1, <1>7 DEF PublicationInv, LocksAreExclusive
<1> QED
  BY <1>2, <1>7, <1>10, <1>11, QuietStep DEF TakeLock

LEMMA ReadRawKeeps ==
    ASSUME PublicationInv, NEW c \in Calls, ReadRaw(c)
    PROVE  PublicationInv'
<1> DEFINE existing == {r \in raws : r.key = Key(c)}
           same == \E r \in existing : r.content = call[c].request.content
<1>1. /\ call[c].pc = "read" /\ Kind(c) = "raw" /\ UNCHANGED <<tables, version, plan>>
      /\ IF existing = {} THEN Step(c, "insert")
         ELSE End(c, IF same THEN "replayed" ELSE "conflict")
  BY DEF ReadRaw
<1>2. CASE existing = {}
  BY <1>1, <1>2, InsertKeeps
<1>3. CASE existing # {} /\ same
  <2>1. End(c, "replayed")
    BY <1>1, <1>3
  <2>2. /\ OnlyCall(c) /\ call'[c].pc = "replayed" /\ call'[c].held = {}
        /\ call'[c].request = call[c].request
    BY <2>1, EndIs DEF PublicationInv, TypeOK, Ended
  <2>3. CallInv(c)'
    BY <1>1, <2>2 DEF CallInv, HoldsItsLocks, StillUnpublished, WasToldTruly, Working, Kind
  <2> QED
    BY <1>1, <2>2, <2>3, QuietStep
<1>4. CASE existing # {} /\ ~same
  BY <1>1, <1>4, EndKeeps DEF Working
<1> QED
  BY <1>2, <1>3, <1>4

LEMMA ReadEvidenceKeeps ==
    ASSUME PublicationInv, NEW c \in Calls, ReadEvidence(c)
    PROVE  PublicationInv'
<1> DEFINE existing == {e \in evidences : e.raw = Key(c)}
           known == \E r \in raws : r.key = Key(c)
           same == existing = Rows(c)
<1>1. /\ call[c].pc = "read" /\ Kind(c) = "evidence" /\ UNCHANGED <<tables, version, plan>>
      /\ IF ~known THEN End(c, "missing")
         ELSE IF existing = {} THEN Step(c, "insert")
         ELSE End(c, IF same THEN "replayed" ELSE "conflict")
  BY DEF ReadEvidence
<1>2. CASE ~known
  BY <1>1, <1>2, EndKeeps DEF Working
<1>3. CASE known /\ existing = {}
  BY <1>1, <1>3, InsertKeeps
<1>4. CASE known /\ existing # {} /\ same
  <2>1. End(c, "replayed")
    BY <1>1, <1>4
  <2>2. /\ OnlyCall(c) /\ call'[c].pc = "replayed" /\ call'[c].held = {}
        /\ call'[c].request = call[c].request
    BY <2>1, EndIs DEF PublicationInv, TypeOK, Ended
  <2>3. CallInv(c)'
    BY <1>1, <2>2 DEF CallInv, HoldsItsLocks, StillUnpublished, WasToldTruly, Working, Kind
  <2> QED
    BY <1>1, <2>2, <2>3, QuietStep
<1>5. CASE known /\ existing # {} /\ ~same
  BY <1>1, <1>5, EndKeeps DEF Working
<1> QED
  BY <1>2, <1>3, <1>4, <1>5

\* What a report and an event share: the stored publication is the answer,
\* or the call is refused, or nothing is stored and all it cites is.
Reads(c) ==
    \/ \E p \in Stored(c) :
         /\ p.content = call[c].request.content /\ Told(c, p.id)
    \/ \E outcome \in {"conflict", "missing", "invalid"} :
         /\ End(c, outcome)
         /\ ~\E p \in Stored(c) : p.content = call[c].request.content
    \/ /\ Stored(c) = {} /\ Cites[call[c].request.content] \subseteq Published
       /\ Step(c, "insert")

\* One key has one stored publication, so any of them is the same.
LEMMA StoredIsOne ==
    ASSUME PublicationInv, NEW c \in Calls, NEW p \in Stored(c), NEW q \in Stored(c)
    PROVE  p = q
BY DEF PublicationInv, TablesAgree, Stored

LEMMA ReadReportReads ==
    ASSUME PublicationInv, NEW c \in Calls, ReadReport(c)
    PROVE  Reads(c)
BY StoredIsOne DEF ReadReport, Reads, Told

LEMMA ReadEventReads ==
    ASSUME PublicationInv, NEW c \in Calls, ReadEvent(c)
    PROVE  Reads(c)
BY StoredIsOne DEF ReadEvent, Reads, Told

LEMMA ReadsKeep ==
    ASSUME PublicationInv, NEW c \in Calls, call[c].pc = "read", Reads(c),
           Kind(c) \in {"report", "event"}, UNCHANGED <<tables, version, plan>>
    PROVE  PublicationInv'
<1>1. ASSUME NEW p \in Stored(c), p.content = call[c].request.content, Told(c, p.id)
      PROVE  PublicationInv'
  <2>1. p.id \in Calls
    BY DEF Stored, PublicationInv, TypeOK, PublicationRow
  <2> QED
    BY <1>1, <2>1, ReplayKeeps DEF Working
<1>2. ASSUME NEW outcome \in {"conflict", "missing", "invalid"}, End(c, outcome)
      PROVE  PublicationInv'
  BY <1>2, EndKeeps DEF Working
<1>3. ASSUME Stored(c) = {}, Cites[call[c].request.content] \subseteq Published,
             Step(c, "insert")
      PROVE  PublicationInv'
  BY <1>3, InsertKeeps
<1> QED
  BY <1>1, <1>2, <1>3 DEF Reads

LEMMA FailKeeps ==
    ASSUME PublicationInv, NEW c \in Calls, Fail(c)
    PROVE  PublicationInv'
BY EndKeeps DEF Fail, Working

-----------------------------------------------------------------------------
(* Publication: the commit *)

\* Two calls that have their locks do not share a key, nor does the set of a
\* raw evidence share it with the raw evidence.
LEMMA KeysAreExclusive ==
    ASSUME PublicationInv, NEW c \in Calls, NEW d \in Calls, c # d,
           call[c].pc \in {"read", "insert"}, call[d].pc \in {"read", "insert"},
           Key(c) = Key(d)
    PROVE  /\ Kind(c) # Kind(d)
           /\ ~(Kind(c) = "raw" /\ Kind(d) = "evidence")
           /\ ~(Kind(c) = "evidence" /\ Kind(d) = "raw")
<1> DEFINE keyLock(e) == [kind |-> IF Kind(e) = "evidence" THEN "raw" ELSE Kind(e),
                          key |-> Key(e), statement |-> 0]
<1>1. keyLock(c) \in Locks(c) /\ keyLock(d) \in Locks(d)
  BY DEF Locks
<1>2. call[c].held = Locks(c) /\ call[d].held = Locks(d)
  BY DEF PublicationInv, CallInv, HoldsItsLocks
<1>3. keyLock(c) # keyLock(d)
  BY <1>1, <1>2 DEF PublicationInv, LocksAreExclusive
<1> QED
  BY <1>3

LEMMA NoClash ==
    ASSUME PublicationInv, NEW c \in Calls, call[c].pc = "insert"
    PROVE  ~Clashes(c)
<1>1. StillUnpublished(c)
  BY DEF PublicationInv, CallInv
<1>2. Kind(c) \in Kinds
  BY DEF PublicationInv, TypeOK, CallState, Request, Kind
<1>3. CASE Kind(c) = "raw"
  BY <1>1, <1>3 DEF StillUnpublished, Clashes
<1>4. CASE Kind(c) = "evidence"
  BY <1>1, <1>4 DEF StillUnpublished, Clashes, Rows
<1>5. CASE Kind(c) \in {"report", "event"}
  BY <1>1, <1>5 DEF StillUnpublished, Clashes, Stored
<1> QED
  BY <1>2, <1>3, <1>4, <1>5 DEF Kinds

\* What a commit writes, by the kind of its call.
Writes(c) ==
    /\ \A r : r \in raws' <=> \/ r \in raws
                              \/ /\ Kind(c) = "raw"
                                 /\ r = [key |-> Key(c), content |-> call[c].request.content]
    /\ evidences' = IF Kind(c) = "evidence" THEN evidences \cup Rows(c) ELSE evidences
    /\ publications' = IF Kind(c) \in {"report", "event"}
                       THEN publications \cup {Row(c)} ELSE publications
    /\ \A l : l \in links' <=>
         \/ l \in links
         \/ /\ Kind(c) \in {"report", "event"}
            /\ \E e \in Cites[call[c].request.content] : l = [publication |-> c, evidence |-> e]
    /\ storage' = IF Kind(c) = "report" /\ version = "new" THEN storage \cup {c} ELSE storage
    /\ UNCHANGED <<version, plan>>

LEMMA CommitWrites ==
    ASSUME PublicationInv, NEW c \in Calls, Commit(c)
    PROVE  /\ Writes(c) /\ OnlyCall(c) /\ call[c].pc = "insert"
           /\ call'[c].pc \in {"published", "failed"} /\ call'[c].held = {}
           /\ call'[c].request = call[c].request /\ call'[c].answer = c
<1>1. call[c].pc = "insert" /\ ~Clashes(c)
  BY NoClash DEF Commit
<1>2. PICK outcome \in {"published", "failed"} : End(c, outcome)
  BY <1>1 DEF Commit
<1>3. /\ OnlyCall(c) /\ call'[c].pc = outcome /\ call'[c].held = {}
      /\ call'[c].request = call[c].request /\ call'[c].answer = call[c].answer
  BY <1>2, EndIs DEF PublicationInv, TypeOK, Ended
<1>4. call[c].answer = c
  BY <1>1 DEF PublicationInv, CallInv, WasToldTruly
<1>5. raws' = raws \cup {[key |-> Key(c), content |-> call[c].request.content] :
                            kind \in {Kind(c)} \cap {"raw"}}
  BY <1>1 DEF Commit
<1>6. publications' = publications \cup {Row(c) : kind \in {Kind(c)} \cap {"report", "event"}}
  BY <1>1 DEF Commit
<1>7. links' = links \cup [publication : {c}, evidence :
                             IF Kind(c) \in {"report", "event"}
                             THEN Cites[call[c].request.content] ELSE {}]
  BY <1>1 DEF Commit
<1>8. /\ evidences' = evidences \cup (IF Kind(c) = "evidence" THEN Rows(c) ELSE {})
      /\ storage' = storage \cup (IF Kind(c) = "report" /\ version = "new" THEN {c} ELSE {})
      /\ UNCHANGED <<version, plan>>
  BY <1>1 DEF Commit
<1>9. \A r : r \in raws' <=> \/ r \in raws
                             \/ /\ Kind(c) = "raw"
                                /\ r = [key |-> Key(c), content |-> call[c].request.content]
  BY <1>5
<1>10. publications' = IF Kind(c) \in {"report", "event"}
                       THEN publications \cup {Row(c)} ELSE publications
  BY <1>6
<1>11. \A l : l \in links' <=>
         \/ l \in links
         \/ /\ Kind(c) \in {"report", "event"}
            /\ \E e \in Cites[call[c].request.content] : l = [publication |-> c, evidence |-> e]
  BY <1>7
<1>12. Writes(c)
  BY <1>8, <1>9, <1>10, <1>11 DEF Writes
<1> QED
  BY <1>1, <1>3, <1>4, <1>12

\* The requests of the calls are not changed by a commit.
LEMMA CommitAsksNothing ==
    ASSUME PublicationInv, NEW c \in Calls, Commit(c), NEW d \in Calls
    PROVE  /\ Kind(d)' = Kind(d) /\ Key(d)' = Key(d) /\ Row(d)' = Row(d) /\ Rows(d)' = Rows(d)
           /\ call'[d].request = call[d].request
BY CommitWrites DEF OnlyCall, Kind, Key, Row, Rows

LEMMA RowsAreRows ==
    ASSUME TypeOK, NEW c \in Calls
    PROVE  Rows(c) \subseteq EvidenceRow
<1> DEFINE split == Cardinality(call[c].request.statements) > 1
<1>1. /\ Key(c) \in Keys /\ call[c].request.statements \subseteq Statements
  BY DEF TypeOK, CallState, Request, Key
<1>2. Cardinality(call[c].request.statements) \in Nat
  BY <1>1, ConstantsAssumption, FS_Subset, FS_CardinalityType
<1>3. split \in BOOLEAN
  BY <1>2
<1>4. Rows(c) = {[raw |-> Key(c), statement |-> s, split |-> split] :
                   s \in call[c].request.statements}
  BY Zenon DEF Rows
<1> HIDE DEF split
<1>5. ASSUME NEW s \in call[c].request.statements
      PROVE  [raw |-> Key(c), statement |-> s, split |-> split] \in EvidenceRow
  BY <1>1, <1>3 DEF EvidenceRow
<1> QED
  BY <1>4, <1>5, Zenon

LEMMA CommitKeepsTypes ==
    ASSUME PublicationInv, NEW c \in Calls, Commit(c)
    PROVE  TypeOK'
<1>1. /\ Writes(c) /\ OnlyCall(c)
  BY CommitWrites
<1>2. /\ Key(c) \in Keys /\ Kind(c) \in Kinds /\ call[c].request.content \in Contents
      /\ call[c].request.statements \subseteq Statements
  BY DEF PublicationInv, TypeOK, CallState, Request, Kind, Key
<1>3. raws' \subseteq RawRow
  BY <1>1, <1>2 DEF Writes, RawRow, PublicationInv, TypeOK
<1>4. evidences' \subseteq EvidenceRow
  <2>1. Rows(c) \subseteq EvidenceRow /\ evidences \subseteq EvidenceRow
    BY RowsAreRows DEF PublicationInv, TypeOK
  <2> QED
    BY <1>1, <2>1 DEF Writes
<1>5. publications' \subseteq PublicationRow
  BY <1>1, <1>2 DEF Writes, Row, PublicationRow, PublicationInv, TypeOK
<1>6. links' \subseteq Link
  BY <1>1, <1>2, ConstantsAssumption DEF Writes, Link, PublicationInv, TypeOK
<1>7. storage' \subseteq Calls /\ version' = version /\ plan' = plan
  BY <1>1 DEF Writes, PublicationInv, TypeOK
<1> QED
  BY <1>1, <1>3, <1>4, <1>5, <1>6, <1>7 DEF OnlyCall, PublicationInv, TypeOK

\* What other calls have read stays true: a commit has its key for itself.
LEMMA CommitKeepsReads ==
    ASSUME PublicationInv, NEW c \in Calls, Commit(c), NEW d \in Calls, d # c
    PROVE  StillUnpublished(d)'
<1>1. Writes(c) /\ OnlyCall(c) /\ call[c].pc = "insert"
  BY CommitWrites
<1>2. call'[d] = call[d]
  BY <1>1 DEF OnlyCall
<1>3. Kind(d)' = Kind(d) /\ Key(d)' = Key(d)
  BY CommitAsksNothing
<1> SUFFICES ASSUME call[d].pc = "insert" PROVE StillUnpublished(d)'
  BY <1>2 DEF StillUnpublished
<1>4. StillUnpublished(d)
  BY DEF PublicationInv, CallInv
<1>5. Key(c) = Key(d) => /\ Kind(c) # Kind(d)
                         /\ ~(Kind(c) = "raw" /\ Kind(d) = "evidence")
                         /\ ~(Kind(c) = "evidence" /\ Kind(d) = "raw")
  BY <1>1, KeysAreExclusive
<1>6. Kind(d) = "raw" => ~\E r \in raws' : r.key = Key(d)
  BY <1>1, <1>4, <1>5 DEF StillUnpublished, Writes
<1>7. Kind(d) = "evidence" => /\ \E r \in raws' : r.key = Key(d)
                              /\ ~\E e \in evidences' : e.raw = Key(d)
  <2>1. \A e \in Rows(c) : e.raw = Key(c)
    BY DEF Rows
  <2> QED
    BY <1>1, <1>4, <1>5, <2>1 DEF StillUnpublished, Writes
<1>8. Kind(d) \in {"report", "event"} =>
        ~\E p \in publications' : p.kind = Kind(d) /\ p.key = Key(d)
  <2>1. Row(c).kind = Kind(c) /\ Row(c).key = Key(c)
    BY DEF Row
  <2> QED
    BY <1>1, <1>4, <1>5, <2>1 DEF StillUnpublished, Writes
<1>9. Published \subseteq Published'
  BY <1>1 DEF Published, Writes
<1> QED
  BY <1>2, <1>3, <1>4, <1>6, <1>7, <1>8, <1>9 DEF StillUnpublished

LEMMA CommitKeepsCalls ==
    ASSUME PublicationInv, NEW c \in Calls, Commit(c), NEW d \in Calls
    PROVE  CallInv(d)'
<1>1. /\ Writes(c) /\ OnlyCall(c) /\ call[c].pc = "insert"
      /\ call'[c].pc \in {"published", "failed"} /\ call'[c].held = {} /\ call'[c].answer = c
  BY CommitWrites
<1>2. Kind(d)' = Kind(d) /\ Key(d)' = Key(d) /\ call'[d].request = call[d].request
  BY CommitAsksNothing
<1>3. CallInv(d)
  BY DEF PublicationInv
<1>4. CASE d # c
  <2>1. call'[d] = call[d] /\ publications \subseteq publications' /\ plan' = plan
    BY <1>1, <1>4 DEF OnlyCall, Writes
  <2>2. StillUnpublished(d)'
    BY <1>4, CommitKeepsReads
  <2>3. HoldsItsLocks(d)' /\ WasToldTruly(d)'
    BY <1>2, <1>3, <2>1 DEF CallInv, HoldsItsLocks, WasToldTruly, Locks
  <2> QED
    BY <1>2, <1>3, <2>1, <2>2, <2>3 DEF CallInv
<1>5. CASE d = c
  <2>1. Kind(c) \in {"report", "event"} => Row(c) \in publications'
    BY <1>1 DEF Writes
  <2>2. /\ Row(c).kind = Kind(c) /\ Row(c).key = Key(c) /\ Row(c).id = c
        /\ Row(c).content = call[c].request.content
    BY DEF Row
  <2>3. WasToldTruly(c)'
    BY <1>1, <1>2, <1>5, <2>1, <2>2 DEF WasToldTruly
  <2>4. HoldsItsLocks(c)' /\ StillUnpublished(c)'
    BY <1>1 DEF HoldsItsLocks, StillUnpublished, Working
  <2> QED
    BY <1>1, <1>5, <2>3, <2>4 DEF CallInv, Working
<1> QED
  BY <1>4, <1>5

LEMMA CommitKeepsRows ==
    ASSUME PublicationInv, NEW c \in Calls, Commit(c)
    PROVE  RowsHaveCalls'
<1>1. /\ Writes(c) /\ OnlyCall(c) /\ call[c].pc = "insert"
      /\ call'[c].pc \in {"published", "failed"}
  BY CommitWrites
<1>2. \A d \in Calls : Kind(d)' = Kind(d) /\ Row(d)' = Row(d) /\ Rows(d)' = Rows(d)
  BY CommitAsksNothing
<1>3. \A d \in Calls : call[d].pc \in {"published", "failed"} => call'[d].pc = call[d].pc
  BY <1>1 DEF OnlyCall
<1>4. ASSUME NEW p \in publications'
      PROVE  call'[p.id].pc \in {"published", "failed"} /\ p = Row(p.id)'
  <2>1. CASE p \in publications
    <3>1. p.id \in Calls /\ call[p.id].pc \in {"published", "failed"} /\ p = Row(p.id)
      BY <2>1 DEF PublicationInv, RowsHaveCalls, TypeOK, PublicationRow
    <3> QED
      BY <1>2, <1>3, <3>1
  <2>2. CASE p = Row(c)
    <3>1. p.id = c
      BY <2>2 DEF Row
    <3> QED
      BY <1>1, <1>2, <2>2, <3>1
  <2> QED
    BY <1>1, <2>1, <2>2 DEF Writes
<1>5. ASSUME NEW k \in Keys, NEW e \in evidences', e.raw = k
      PROVE  \E d \in Calls : /\ call'[d].pc \in {"published", "failed"} /\ Kind(d)' = "evidence"
                              /\ {f \in evidences' : f.raw = k} = Rows(d)'
  <2>1. \A f \in Rows(c) : f.raw = Key(c)
    BY DEF Rows
  <2>2. CASE Kind(c) = "evidence" /\ k = Key(c)
    <3>1. ~\E f \in evidences : f.raw = k
      BY <1>1, <2>2 DEF PublicationInv, CallInv, StillUnpublished
    <3>2. {f \in evidences' : f.raw = k} = Rows(c)
      BY <1>1, <2>1, <2>2, <3>1 DEF Writes
    <3> QED
      BY <1>1, <1>2, <2>2, <3>2
  <2>3. CASE ~(Kind(c) = "evidence" /\ k = Key(c))
    <3>1. {f \in evidences' : f.raw = k} = {f \in evidences : f.raw = k}
      BY <1>1, <2>1, <2>3 DEF Writes
    <3>2. e \in evidences
      BY <1>5, <3>1
    <3>3. PICK d \in Calls : /\ call[d].pc \in {"published", "failed"} /\ Kind(d) = "evidence"
                             /\ {f \in evidences : f.raw = k} = Rows(d)
      BY <1>5, <3>2 DEF PublicationInv, RowsHaveCalls
    <3> QED
      BY <1>2, <1>3, <3>1, <3>3
  <2> QED
    BY <2>2, <2>3
<1> QED
  BY <1>4, <1>5 DEF RowsHaveCalls

\* The links of a publication.
LinkedTo(id) == {l.evidence : l \in {m \in links : m.publication = id}}

LEMMA CommitKeepsCitations ==
    ASSUME PublicationInv, NEW c \in Calls, Commit(c)
    PROVE  CitationsResolve'
<1>1. Writes(c) /\ call[c].pc = "insert"
  BY CommitWrites
<1>2. /\ \A l \in links : l.evidence \in Published
      /\ \A p \in publications : LinkedTo(p.id) = Cites[p.content]
      /\ \A l \in links : \E p \in publications : p.id = l.publication
  BY DEF PublicationInv, TablesAgree, CitationsResolve, LinkedTo
<1>3. Published \subseteq Published'
  BY <1>1 DEF Published, Writes
<1>4. Kind(c) \in {"report", "event"} => Cites[call[c].request.content] \subseteq Published
  BY <1>1 DEF PublicationInv, CallInv, StillUnpublished
<1>5. \A l \in links' : l.evidence \in Published'
  BY <1>1, <1>2, <1>3, <1>4 DEF Writes
<1>6. \A p \in publications : p.id # c
  BY <1>1 DEF PublicationInv, RowsHaveCalls
<1>7. ASSUME NEW p \in publications' PROVE LinkedTo(p.id)' = Cites[p.content]
  <2>1. CASE p \in publications
    <3>1. \A l : l \in links' /\ l.publication = p.id <=> l \in links /\ l.publication = p.id
      BY <1>1, <1>6, <2>1 DEF Writes
    <3>2. LinkedTo(p.id)' = LinkedTo(p.id)
      BY <3>1 DEF LinkedTo
    <3> QED
      BY <1>2, <2>1, <3>2
  <2>2. CASE p = Row(c) /\ Kind(c) \in {"report", "event"}
    <3>1. p.id = c /\ p.content = call[c].request.content
      BY <2>2 DEF Row
    <3>2. \A l \in links : l.publication # c
      BY <1>2, <1>6
    <3>3. \A l : l \in links' /\ l.publication = c <=>
            \E e \in Cites[call[c].request.content] : l = [publication |-> c, evidence |-> e]
      BY <1>1, <2>2, <3>2 DEF Writes
    <3>4. \A e : e \in Cites[call[c].request.content] =>
             /\ [publication |-> c, evidence |-> e] \in links'
             /\ [publication |-> c, evidence |-> e].publication = c
             /\ [publication |-> c, evidence |-> e].evidence = e
      BY <3>3
    <3>5. \A l \in links' : l.publication = c => l.evidence \in Cites[call[c].request.content]
      BY <3>3
    <3>6. LinkedTo(c)' = {l.evidence : l \in {m \in links' : m.publication = c}}
      BY DEF LinkedTo
    <3>7. ASSUME NEW e \in Cites[call[c].request.content] PROVE e \in LinkedTo(c)'
      <4>1. \E l \in links' : l.publication = c /\ l.evidence = e
        BY <3>4
      <4> QED
        BY <3>6, <4>1, Zenon
    <3>8. ASSUME NEW e \in LinkedTo(c)' PROVE e \in Cites[call[c].request.content]
      BY <3>5, <3>6
    <3>9. LinkedTo(c)' = Cites[call[c].request.content]
      BY <3>7, <3>8
    <3> QED
      BY <3>1, <3>9 DEF LinkedTo
  <2> QED
    BY <1>1, <2>1, <2>2 DEF Writes
<1> QED
  BY <1>5, <1>7 DEF CitationsResolve, LinkedTo

LEMMA CommitKeepsTables ==
    ASSUME PublicationInv, NEW c \in Calls, Commit(c)
    PROVE  TablesAgree'
<1>1. Writes(c) /\ call[c].pc = "insert"
  BY CommitWrites
<1>2. StillUnpublished(c)
  BY DEF PublicationInv, CallInv
<1>3. /\ Row(c).kind = Kind(c) /\ Row(c).key = Key(c) /\ Row(c).id = c
      /\ Row(c).content = call[c].request.content
  BY DEF Row
<1>4. \A p, q \in publications' : p.kind = q.kind /\ p.key = q.key => p = q
  BY <1>1, <1>2, <1>3 DEF Writes, StillUnpublished, PublicationInv, TablesAgree
<1>5. \A e \in evidences' : \E r \in raws' : r.key = e.raw
  <2>1. \A e \in Rows(c) : e.raw = Key(c)
    BY DEF Rows
  <2> QED
    BY <1>1, <1>2, <2>1 DEF Writes, StillUnpublished, PublicationInv, TablesAgree
<1>6. \A l \in links' : \E p \in publications' : p.id = l.publication
  <2>1. ASSUME NEW l \in links' PROVE \E p \in publications' : p.id = l.publication
    <3>1. CASE l \in links
      BY <1>1, <3>1 DEF Writes, PublicationInv, TablesAgree
    <3>2. CASE l \notin links
      <4>1. Kind(c) \in {"report", "event"} /\ l.publication = c
        BY <1>1, <3>2 DEF Writes
      <4>2. Row(c) \in publications'
        BY <1>1, <4>1 DEF Writes
      <4> QED
        BY <1>3, <4>1, <4>2
    <3> QED
      BY <3>1, <3>2
  <2> QED
    BY <2>1
<1>7. \A d \in storage' : \E p \in publications' : p.kind = "report" /\ p.id = d
  BY <1>1, <1>3 DEF Writes, PublicationInv, TablesAgree
<1>8. version' = "new" => \A p \in publications' : p.kind = "report" => p.id \in storage'
  BY <1>1, <1>3 DEF Writes, PublicationInv, TablesAgree
<1>9. plan'.delete \subseteq plan'.inventory
  BY <1>1 DEF Writes, PublicationInv, TablesAgree
<1> QED
  BY <1>4, <1>5, <1>6, <1>7, <1>8, <1>9, CommitKeepsCitations DEF TablesAgree

LEMMA CommitKeeps ==
    ASSUME PublicationInv, NEW c \in Calls, Commit(c)
    PROVE  PublicationInv'
<1>1. LocksAreExclusive'
  BY CommitWrites DEF PublicationInv, LocksAreExclusive, OnlyCall
<1> QED
  BY <1>1, CommitKeepsTypes, CommitKeepsCalls, CommitKeepsRows, CommitKeepsTables
  DEF PublicationInv

-----------------------------------------------------------------------------
(* The storage maintenance and the cutover *)

LEMMA StopOldKeeps ==
    ASSUME PublicationInv, StopOld
    PROVE  PublicationInv'
<1>1. call' = [c \in Calls |-> IF call[c].pc \in Working
                               THEN [call[c] EXCEPT !.pc = "failed", !.held = {}] ELSE call[c]]
  BY DEF StopOld, Working
<1>2. version' = "stopped" /\ UNCHANGED <<tables, plan>>
  BY DEF StopOld
<1>3. ASSUME NEW c \in Calls
      PROVE  /\ call'[c] \in CallState /\ call'[c].request = call[c].request
             /\ call'[c].answer = call[c].answer
             /\ call[c].pc \in Working => call'[c].pc = "failed" /\ call'[c].held = {}
             /\ call[c].pc \notin Working => call'[c] = call[c]
  <2>1. call[c] \in CallState
    BY DEF PublicationInv, TypeOK
  <2> DEFINE stopped == [call[c] EXCEPT !.pc = "failed", !.held = {}]
  <2>2. /\ stopped \in CallState /\ stopped.pc = "failed" /\ stopped.held = {}
        /\ stopped.request = call[c].request /\ stopped.answer = call[c].answer
    BY <2>1 DEF CallState, Ended
  <2>3. call'[c] = IF call[c].pc \in Working THEN stopped ELSE call[c]
    BY <1>1
  <2> HIDE DEF stopped
  <2> QED
    BY <2>1, <2>2, <2>3
<1>4. TypeOK'
  <2>1. call' \in [Calls -> CallState]
    BY <1>1, <1>3
  <2> QED
    BY <1>2, <2>1 DEF PublicationInv, TypeOK, tables
<1>5. ASSUME NEW c \in Calls
      PROVE  /\ Kind(c)' = Kind(c) /\ Key(c)' = Key(c)
             /\ Row(c)' = Row(c) /\ Rows(c)' = Rows(c)
  BY <1>3 DEF Kind, Key, Row, Rows
<1>6. ASSUME NEW c \in Calls PROVE CallInv(c)'
  <2>1. CASE call[c].pc \in Working
    <3>1. call'[c].pc = "failed" /\ call'[c].held = {} /\ call'[c].answer = c
      BY <1>3, <2>1 DEF PublicationInv, CallInv, WasToldTruly, Working
    <3> QED
      BY <3>1 DEF CallInv, HoldsItsLocks, StillUnpublished, WasToldTruly, Working
  <2>2. CASE call[c].pc \notin Working
    BY <1>2, <1>3, <2>2, SameCall DEF PublicationInv, tables
  <2> QED
    BY <2>1, <2>2
<1>7. LocksAreExclusive'
  BY <1>3 DEF PublicationInv, LocksAreExclusive
<1>8. \A c \in Calls : call[c].pc \in {"published", "failed"} => call'[c].pc = call[c].pc
  BY <1>3 DEF Working
<1>9. RowsHaveCalls'
  <2>1. \A p \in publications : p.id \in Calls
    BY DEF PublicationInv, TypeOK, PublicationRow
  <2> QED
    BY <1>2, <1>5, <1>8, <2>1 DEF PublicationInv, RowsHaveCalls, tables
<1>10. TablesAgree'
  BY <1>2 DEF PublicationInv, TablesAgree, CitationsResolve, Published, tables
<1> QED
  BY <1>4, <1>6, <1>7, <1>9, <1>10 DEF PublicationInv

LEMMA StartNewKeeps ==
    ASSUME PublicationInv, StartNew
    PROVE  PublicationInv'
<1>1. UNCHANGED <<tables, call, plan>> /\ version' = "new"
  BY DEF StartNew
<1>2. \A p \in publications : p.kind = "report" => p.id \in storage
  BY DEF StartNew, Reports
<1>3. TypeOK' /\ LocksAreExclusive'
  BY <1>1 DEF PublicationInv, TypeOK, LocksAreExclusive, tables
<1>4. \A c \in Calls : CallInv(c)'
  BY <1>1, SameCall DEF PublicationInv, tables
<1>5. RowsHaveCalls'
  BY <1>1 DEF PublicationInv, RowsHaveCalls, Row, Rows, Kind, Key, tables
<1>6. TablesAgree'
  BY <1>1, <1>2 DEF PublicationInv, TablesAgree, CitationsResolve, Published, tables
<1> QED
  BY <1>3, <1>4, <1>5, <1>6 DEF PublicationInv

LEMMA PlanStorageKeeps ==
    ASSUME PublicationInv, PlanStorage
    PROVE  PublicationInv'
<1>1. PICK delete \in SUBSET Reports :
         plan' = [pc |-> "reviewed", inventory |-> Reports, delete |-> delete]
  BY DEF PlanStorage
<1>2. UNCHANGED <<tables, version, call>> /\ plan.pc \in {"none", "refused"}
  BY DEF PlanStorage
<1>3. Reports \subseteq PublicationRow
  BY DEF PublicationInv, TypeOK, Reports
<1>4. TypeOK' /\ LocksAreExclusive'
  BY <1>1, <1>2, <1>3 DEF PublicationInv, TypeOK, LocksAreExclusive, tables
<1>5. ASSUME NEW c \in Calls PROVE CallInv(c)'
  <2>1. CallInv(c)
    BY DEF PublicationInv
  <2>2. HoldsItsLocks(c)' /\ StillUnpublished(c)'
    BY <1>2, <2>1 DEF CallInv, HoldsItsLocks, StillUnpublished, Locks, Kind, Key, Published, tables
  <2>3. WasToldTruly(c)'
    BY <1>2, <2>1 DEF CallInv, WasToldTruly, Kind, Key, tables
  <2> QED
    BY <1>2, <2>1, <2>2, <2>3 DEF CallInv, Kind
<1>6. RowsHaveCalls'
  BY <1>2 DEF PublicationInv, RowsHaveCalls, Row, Rows, Kind, Key, tables
<1>7. TablesAgree'
  BY <1>1, <1>2 DEF PublicationInv, TablesAgree, CitationsResolve, Published, tables
<1> QED
  BY <1>4, <1>5, <1>6, <1>7 DEF PublicationInv

LEMMA RefusedPlanKeeps ==
    ASSUME PublicationInv, plan.pc = "reviewed",
           plan' = [pc |-> "refused", inventory |-> {}, delete |-> {}],
           UNCHANGED <<tables, version, call>>
    PROVE  PublicationInv'
<1>1. TypeOK' /\ LocksAreExclusive'
  BY DEF PublicationInv, TypeOK, LocksAreExclusive, tables
<1>2. ASSUME NEW c \in Calls PROVE CallInv(c)'
  <2>1. CallInv(c)
    BY DEF PublicationInv
  <2>2. HoldsItsLocks(c)' /\ StillUnpublished(c)'
    BY <2>1 DEF CallInv, HoldsItsLocks, StillUnpublished, Locks, Kind, Key, Published, tables
  <2>3. WasToldTruly(c)'
    BY <2>1 DEF CallInv, WasToldTruly, Kind, Key, tables
  <2> QED
    BY <2>1, <2>2, <2>3 DEF CallInv, Kind
<1>3. RowsHaveCalls'
  BY DEF PublicationInv, RowsHaveCalls, Row, Rows, Kind, Key, tables
<1>4. TablesAgree'
  BY DEF PublicationInv, TablesAgree, CitationsResolve, Published, tables
<1> QED
  BY <1>1, <1>2, <1>3, <1>4 DEF PublicationInv

\* The plan is applied to the inventory it was reviewed for.
LEMMA AppliedPlanKeeps ==
    ASSUME PublicationInv, plan.pc = "reviewed", Reports = plan.inventory,
           NEW removed, removed = {p.id : p \in plan.delete},
           plan' = [plan EXCEPT !.pc = "applied"],
           publications' = publications \ plan.delete,
           links' = {l \in links : l.publication \notin removed},
           storage' = {p.id : p \in Reports} \ removed,
           UNCHANGED <<raws, evidences, version, call>>
    PROVE  PublicationInv'
<1>1. /\ plan.delete \subseteq publications
      /\ \A p \in plan.delete : p.kind = "report"
  BY DEF PublicationInv, TablesAgree, Reports
<1>2. plan'.pc = "applied" /\ plan'.delete = plan.delete /\ plan'.inventory = plan.inventory
  BY DEF PublicationInv, TypeOK
<1>3. \A p, q \in publications : p.id = q.id => p = q
  BY DEF PublicationInv, RowsHaveCalls
<1>4. \A p \in publications : p.id \in removed <=> p \in plan.delete
  BY <1>1, <1>3
<1>5. TypeOK'
  <2>1. storage' \subseteq Calls
    BY DEF PublicationInv, TypeOK, Reports, PublicationRow
  <2>2. plan' \in [pc : {"none", "reviewed", "applied", "refused"},
                   inventory : SUBSET PublicationRow, delete : SUBSET PublicationRow]
    BY DEF PublicationInv, TypeOK
  <2> QED
    BY <2>1, <2>2 DEF PublicationInv, TypeOK
<1>6. ASSUME NEW c \in Calls PROVE CallInv(c)'
  <2>1. CallInv(c)
    BY DEF PublicationInv
  <2>2. HoldsItsLocks(c)' /\ StillUnpublished(c)'
    BY <2>1 DEF CallInv, HoldsItsLocks, StillUnpublished, Locks, Kind, Key, Published
  <2>3. WasToldTruly(c)'
    BY <1>2, <2>1 DEF CallInv, WasToldTruly, Kind, Key
  <2> QED
    BY <2>1, <2>2, <2>3 DEF CallInv, Kind
<1>7. LocksAreExclusive' /\ RowsHaveCalls'
  BY DEF PublicationInv, LocksAreExclusive, RowsHaveCalls, Row, Rows, Kind, Key
<1>8. CitationsResolve'
  <2>1. \A l \in links' : l.evidence \in Published'
    BY DEF PublicationInv, TablesAgree, CitationsResolve, Published
  <2>2. ASSUME NEW p \in publications' PROVE LinkedTo(p.id)' = Cites[p.content]
    <3>1. p.id \notin removed
      BY <1>4
    <3>2. {m \in links' : m.publication = p.id} = {m \in links : m.publication = p.id}
      BY <3>1
    <3> QED
      BY <3>2 DEF LinkedTo, PublicationInv, TablesAgree, CitationsResolve
  <2> QED
    BY <2>1, <2>2 DEF CitationsResolve, LinkedTo
<1>9. \A l \in links' : \E p \in publications' : p.id = l.publication
  BY <1>1, <1>4 DEF PublicationInv, TablesAgree
<1>10. \A c \in storage' : \E p \in publications' : p.kind = "report" /\ p.id = c
  BY <1>4 DEF Reports
<1>11. \A p \in publications' : p.kind = "report" => p.id \in storage'
  BY <1>4 DEF Reports
<1>12. TablesAgree'
  BY <1>2, <1>8, <1>9, <1>10, <1>11 DEF PublicationInv, TablesAgree
<1> QED
  BY <1>5, <1>6, <1>7, <1>12 DEF PublicationInv

LEMMA ApplyStorageKeeps ==
    ASSUME PublicationInv, ApplyStorage
    PROVE  PublicationInv'
<1>1. CASE Reports # plan.inventory
  BY <1>1, RefusedPlanKeeps DEF ApplyStorage, tables
<1>2. CASE Reports = plan.inventory
  BY <1>2, AppliedPlanKeeps DEF ApplyStorage
<1> QED
  BY <1>1, <1>2

-----------------------------------------------------------------------------
(* Publication: the theorems *)

LEMMA InitInv == Init => PublicationInv
<1> SUFFICES ASSUME Init PROVE PublicationInv
  OBVIOUS
<1>1. Unasked \in Request
  BY ConstantsAssumption DEF Unasked, Request, Kinds
<1>2. \A c \in Calls : /\ call[c].pc = "idle" /\ call[c].held = {}
                       /\ call[c].answer = c /\ call[c].request = Unasked
  BY DEF Init
<1>3. \A c \in Calls : [pc |-> "idle", request |-> Unasked, held |-> {}, answer |-> c] \in CallState
  BY <1>1 DEF CallState
<1>4. TypeOK
  BY <1>3 DEF Init, TypeOK
<1>5. \A c \in Calls : CallInv(c)
  BY <1>2 DEF CallInv, HoldsItsLocks, StillUnpublished, WasToldTruly, Working
<1>6. LocksAreExclusive
  BY <1>2 DEF LocksAreExclusive
<1>7. RowsHaveCalls /\ TablesAgree
  BY DEF Init, RowsHaveCalls, TablesAgree, CitationsResolve
<1> QED
  BY <1>4, <1>5, <1>6, <1>7 DEF PublicationInv

LEMMA NextInv == PublicationInv /\ [Next]_vars => PublicationInv'
<1> SUFFICES ASSUME PublicationInv, [Next]_vars PROVE PublicationInv'
  OBVIOUS
<1>1. ASSUME NEW c \in Calls, Start(c) PROVE PublicationInv'
  BY <1>1, StartKeeps
<1>2. ASSUME NEW c \in Calls, Serve(c) PROVE PublicationInv'
  <2>1. ReadReport(c) => PublicationInv'
    BY ReadReportReads, ReadsKeep DEF ReadReport
  <2>2. ReadEvent(c) => PublicationInv'
    BY ReadEventReads, ReadsKeep DEF ReadEvent
  <2> QED
    BY <1>2, <2>1, <2>2, TakeLockKeeps, ReadRawKeeps, ReadEvidenceKeeps, CommitKeeps DEF Serve
<1>3. ASSUME NEW c \in Calls, Fail(c) PROVE PublicationInv'
  BY <1>3, FailKeeps
<1>4. CASE UNCHANGED vars
  <2>1. \A c \in Calls : CallInv(c)'
    BY <1>4, SameCall DEF PublicationInv, vars
  <2>2. TypeOK' /\ LocksAreExclusive'
    BY <1>4 DEF PublicationInv, TypeOK, LocksAreExclusive, vars
  <2>3. RowsHaveCalls'
    BY <1>4 DEF PublicationInv, RowsHaveCalls, Row, Rows, Kind, Key, vars
  <2>4. TablesAgree'
    BY <1>4 DEF PublicationInv, TablesAgree, CitationsResolve, Published, vars
  <2> QED
    BY <2>1, <2>2, <2>3, <2>4 DEF PublicationInv
<1> QED
  BY <1>1, <1>2, <1>3, <1>4, StopOldKeeps, StartNewKeeps, PlanStorageKeeps, ApplyStorageKeeps
  DEF Next

LEMMA PublicationInvHolds == Spec => []PublicationInv
BY InitInv, NextInv, PTL DEF Spec

\* The evidences of a raw evidence are the set of one publication, whatever
\* rival splits of it were published at once (UseCase.PublishEvidence).
THEOREM OneSetPerRawEvidence == Spec => []EvidenceSetIsOnePublication
<1>1. PublicationInv => EvidenceSetIsOnePublication
  <2> SUFFICES ASSUME PublicationInv, NEW k \in Keys, NEW e \in evidences, e.raw = k
               PROVE  \E c \in Calls : /\ call[c].pc \in {"published", "failed"}
                                       /\ Kind(c) = "evidence"
                                       /\ {f \in evidences : f.raw = k} = Rows(c)
    BY DEF PublicationInv, EvidenceSetIsOnePublication
  <2> QED
    BY DEF PublicationInv, RowsHaveCalls
<1> QED
  BY <1>1, PublicationInvHolds, PTL

\* Reports and events cite evidences that exist, and each has all of its
\* links (ExistingEvidenceIDs, InsertEvidenceLinks).
THEOREM CitationsStayResolved == Spec => []CitationsResolve
<1>1. PublicationInv => CitationsResolve
  BY DEF PublicationInv, TablesAgree
<1> QED
  BY <1>1, PublicationInvHolds, PTL

\* All that were told of success for one key were told the same, and no call
\* meets a unique key (UseCase.Publish of reports and of events).
THEOREM RivalsAgree == Spec => []OneAnswerPerKey
<1>1. PublicationInv => OneAnswerPerKey
  <2> SUFFICES ASSUME PublicationInv PROVE OneAnswerPerKey
    OBVIOUS
  <2>1. \A c \in Calls : call[c].pc # "constraint" /\ WasToldTruly(c)
    BY DEF PublicationInv, CallInv
  <2>2. \A p, q \in publications : p.kind = q.kind /\ p.key = q.key => p = q
    BY DEF PublicationInv, TablesAgree
  <2> QED
    BY <2>1, <2>2 DEF OneAnswerPerKey, WasToldTruly
<1> QED
  BY <1>1, PublicationInvHolds, PTL

\* The version that reads the split tables finds there the archived reports
\* and nothing else (VerifyStorage, ApplyStorage).
THEOREM StorageStaysComplete == Spec => []StorageIsComplete
<1>1. PublicationInv => StorageIsComplete
  BY DEF PublicationInv, TablesAgree, StorageIsComplete, Reports
<1> QED
  BY <1>1, PublicationInvHolds, PTL

\* A step removes what the plan says, and only when it counted all of it.
RemovesReviewed ==
    /\ raws \subseteq raws' /\ evidences \subseteq evidences'
    /\ (publications \ publications') \subseteq plan.delete
    /\ (publications \ publications' # {} => Reports = plan.inventory)

LEMMA StepsRemoveReviewed ==
    [Next]_vars => [RemovesReviewed]_vars
<1> SUFFICES ASSUME Next PROVE RemovesReviewed
  OBVIOUS
<1>1. CASE UNCHANGED <<raws, evidences, publications>>
  BY <1>1 DEF RemovesReviewed
<1>2. ASSUME NEW c \in Calls, Commit(c) PROVE RemovesReviewed
  BY <1>2 DEF Commit, tables, RemovesReviewed
<1>3. CASE ApplyStorage
  BY <1>3 DEF ApplyStorage, RemovesReviewed
<1>4. ASSUME NEW c \in Calls, Start(c) \/ Serve(c) \/ Fail(c), ~Commit(c)
      PROVE  UNCHANGED <<raws, evidences, publications>>
  BY <1>4
  DEF Start, Serve, TakeLock, ReadRaw, ReadEvidence, ReadReport, ReadEvent, Fail, tables
<1>5. StopOld \/ PlanStorage \/ StartNew => UNCHANGED <<raws, evidences, publications>>
  BY DEF StopOld, PlanStorage, StartNew, tables
<1> QED
  BY <1>1, <1>2, <1>3, <1>4, <1>5 DEF Next

\* Rows are removed by the storage maintenance alone, as it was reviewed.
THEOREM OnlyReviewedRemoved == Spec => RemovedAsReviewed
<1>1. [Next]_vars => [RemovesReviewed]_vars
  BY StepsRemoveReviewed
<1> QED
  BY <1>1, PTL DEF Spec, RemovedAsReviewed, RemovesReviewed

\* The publication a call repeats is stored.
Repeats(c) ==
    \/ \E r \in raws : Kind(c) = "raw" /\ r.key = Key(c)
                      /\ r.content = call[c].request.content
    \/ Kind(c) = "evidence" /\ evidences # {}
       /\ {e \in evidences : e.raw = Key(c)} = Rows(c)
    \/ \E p \in Stored(c) : p.content = call[c].request.content

\* A repeated call that reads is told so.
LEMMA RepeatIsReplayed ==
    ASSUME PublicationInv, NEW c \in Calls, Serve(c), call[c].pc = "read", Repeats(c)
    PROVE  call'[c].pc = "replayed"
<1>1. \A outcome \in Ended : End(c, outcome) => call'[c].pc = outcome
  BY EndIs DEF PublicationInv, TypeOK
<1>2. \A p \in Stored(c) : p.kind = Kind(c) /\ p.kind \in {"report", "event"} /\ p.id \in Calls
  BY DEF Stored, PublicationInv, TypeOK, PublicationRow
<1>3. ~TakeLock(c) /\ ~Commit(c)
  BY DEF TakeLock, Commit
<1>4. CASE ReadRaw(c)
  <2>1. \E r \in raws : r.key = Key(c) /\ r.content = call[c].request.content
    BY <1>2, <1>4 DEF Repeats, ReadRaw
  <2>2. End(c, "replayed")
    BY <1>4, <2>1 DEF ReadRaw
  <2> QED
    BY <1>1, <2>2 DEF Ended
<1>5. CASE ReadEvidence(c)
  <2>1. {e \in evidences : e.raw = Key(c)} = Rows(c)
    BY <1>2, <1>5 DEF Repeats, ReadEvidence
  <2>2. call[c].request.statements # {}
    BY <1>5 DEF PublicationInv, CallInv, Working, ReadEvidence
  <2>3. Rows(c) # {}
    BY <2>2 DEF Rows
  <2>4. PICK e \in evidences : e.raw = Key(c)
    BY <2>1, <2>3
  <2>5. \E r \in raws : r.key = Key(c)
    BY <2>4 DEF PublicationInv, TablesAgree
  <2>6. End(c, "replayed")
    BY <1>5, <2>1, <2>3, <2>5 DEF ReadEvidence
  <2> QED
    BY <1>1, <2>6 DEF Ended
<1>6. ASSUME ReadReport(c) \/ ReadEvent(c) PROVE call'[c].pc = "replayed"
  <2>1. Kind(c) \in {"report", "event"}
    BY <1>6 DEF ReadReport, ReadEvent
  <2>2. \E p \in Stored(c) : p.content = call[c].request.content
    BY <2>1 DEF Repeats
  <2>3. PICK p \in Stored(c) : Told(c, p.id)
    BY <1>6, <2>2, SMTT(40) DEF ReadReport, ReadEvent, Told
  <2> QED
    BY <1>2, <2>3, ReplayIs DEF PublicationInv, TypeOK
<1> QED
  BY <1>3, <1>4, <1>5, <1>6 DEF Serve

\* No other step moves a call that reads, except to fail it.
LEMMA OthersLetItRead ==
    ASSUME PublicationInv, NEW c \in Calls, call[c].pc = "read", Next, ~Serve(c)
    PROVE  call'[c].pc \in {"read", "failed"}
<1>1. ASSUME NEW d \in Calls, d # c, Start(d) \/ Serve(d) \/ Fail(d)
      PROVE  call'[c] = call[c]
  <2>1. ~TakeLock(d) => call'[c] = call[c]
    BY <1>1
    DEF Start, Serve, ReadRaw, ReadEvidence, ReadReport, ReadEvent, Commit, Fail,
        Step, End, PublicationInv, TypeOK
  <2>2. TakeLock(d) => call'[c] = call[c]
    BY <1>1 DEF TakeLock, PublicationInv, TypeOK
  <2> QED
    BY <2>1, <2>2
<1>2. Start(c) => FALSE
  BY DEF Start
<1>3. ASSUME Fail(c) PROVE call'[c].pc = "failed"
  BY <1>3, EndIs DEF Fail, PublicationInv, TypeOK, Ended
<1>4. ASSUME StopOld PROVE call'[c].pc = "failed"
  <2>1. call'[c] = [call[c] EXCEPT !.pc = "failed", !.held = {}] /\ call[c] \in CallState
    BY <1>4 DEF StopOld, PublicationInv, TypeOK
  <2> QED
    BY <2>1 DEF CallState
<1>5. PlanStorage \/ ApplyStorage \/ StartNew => call' = call
  BY DEF PlanStorage, ApplyStorage, StartNew
<1> QED
  BY <1>1, <1>2, <1>3, <1>4, <1>5 DEF Next

\* A publisher that repeats what is stored is never refused for it
\* (the Existing... reads before ValidateReport and the conflicts).
THEOREM RepeatsAreReplayed == Spec => ReplayIsAccepted
<1> DEFINE Replayed == \A c \in Calls : call[c].pc = "read" /\ Repeats(c)
                                      => call'[c].pc \in {"read", "replayed", "failed"}
<1>1. PublicationInv /\ [Next]_vars => [Replayed]_vars
  <2> SUFFICES ASSUME PublicationInv, Next, NEW c \in Calls, call[c].pc = "read", Repeats(c)
               PROVE  call'[c].pc \in {"read", "replayed", "failed"}
    OBVIOUS
  <2> QED
    BY RepeatIsReplayed, OthersLetItRead
<1>2. [Replayed]_vars
        => [ \A c \in Calls :
              /\ call[c].pc = "read"
              /\ \/ \E r \in raws : Kind(c) = "raw" /\ r.key = Key(c)
                                    /\ r.content = call[c].request.content
                 \/ Kind(c) = "evidence" /\ evidences # {}
                    /\ {e \in evidences : e.raw = Key(c)} = Rows(c)
                 \/ \E p \in Stored(c) : p.content = call[c].request.content
              => call'[c].pc \in {"read", "replayed", "failed"} ]_vars
  BY DEF Repeats
<1> QED
  BY <1>1, <1>2, PublicationInvHolds, PTL DEF Spec, ReplayIsAccepted

-----------------------------------------------------------------------------
(* Reports *)

\* An assessment the writer accepts is one the reader accepts, by the rules of either kind.
LEMMA AssessmentIsRead ==
    ASSUME NEW a, NEW geopolitical \in BOOLEAN,
           AssessmentFields(a, geopolitical), AssessmentState(a, geopolitical)
    PROVE  ReadAssessment(a, geopolitical)
<1>1. CASE a.basis = "observation_only"
  BY <1>1 DEF AssessmentFields, AssessmentState, ReadAssessment
<1>2. CASE a.basis = "reasoning_hypothesis"
  <2>1. a.confidence \in {"low", "medium", "high"} \/ (geopolitical /\ a.confidence = Absent)
    BY <1>2 DEF AssessmentFields, AssessmentState
  <2> QED
    BY <1>2, <2>1 DEF AssessmentFields, ReadAssessment
<1> QED
  BY <1>1, <1>2 DEF AssessmentFields

\* An object that claims no judgment has no provenance to refuse.
LEMMA UnjudgedIsRead ==
    ASSUME NEW x, ~Judged(x)
    PROVE  ReadProvenance(x)
BY DEF Judged, ReadProvenance

\* Judgments that close among themselves have provenance the reader accepts one by one.
LEMMA JudgmentIsRead ==
    ASSUME NEW judgments, NEW j \in judgments, SignalJudgments(judgments)
    PROVE  ReadProvenance(j.of)
<1> DEFINE x == j.of
<1>1. OwnSignals(x) /\ UpstreamCloses(j, judgments)
  BY DEF SignalJudgments
<1>2. x.origin # ""
  BY <1>1 DEF OwnSignals
<1>3. \A i \in DOMAIN x.signals : ReadSignal(x.signals[i], x.sources, i)
  BY <1>1 DEF OwnSignals, ValidSignal, ReadSignal
<1>4. NormalizedKeys(x.sources.upstream)
  BY <1>1 DEF SignalJudgments, UpstreamCloses, NormalizedKeys
<1> QED
  BY <1>1, <1>2, <1>3, <1>4 DEF OwnSignals, ReadProvenance

\* A graph without the oddities is read.
LEMMA GraphIsRead ==
    ASSUME NEW graph, graph # Absent, UnifiedGraph(graph)
    PROVE  ReadGraph(graph) <=> ~OddGraph(graph)
BY DEF UnifiedGraph, ReadGraph, OddGraph

\* A block is read unless a metric of it has only a text the reader refuses.
LEMMA BlockIsRead ==
    ASSUME NEW block, UnifiedBlock(block),
           \A n \in Range(block.nodes) : \A m \in Range(n.metrics) : m.display \in Texts
    PROVE  ReadBlock(block) <=>
             ~\E n \in Range(block.nodes) : \E m \in Range(n.metrics) : OddMetric(m)
<1>1. \A n \in Range(block.nodes) : \A m \in Range(n.metrics) : ReadMetric(m) <=> ~OddMetric(m)
  BY DEF UnifiedBlock, UnifiedMetric, ReadMetric, OddMetric, RequiredText, Texts, Range
<1> QED
  BY <1>1 DEF UnifiedBlock, ReadBlock, Range

LEMMA ObjectsOfAUnitAreRead ==
    ASSUME NEW kind, NEW u, ValidateUnifiedUnit(kind, u)
    PROVE  /\ ReadProvenance(u)
           /\ \A r \in DOMAIN u.reasonings :
                 /\ ReadProvenance(u.reasonings[r])
                 /\ \A a \in DOMAIN u.reasonings[r].assets : ReadProvenance(u.reasonings[r].assets[a])
           /\ \A c \in DOMAIN u.companies : ReadProvenance(u.companies[c]) <=> ~OddCompany(u.companies[c])
<1> DEFINE judgments == UnitJudgments(u)
<1>1. SignalJudgments(judgments)
  BY DEF ValidateUnifiedUnit
<1>2. ASSUME NEW at, NEW x, Judgment(at, x) \in judgments
      PROVE  ReadProvenance(x)
  <2>1. ReadProvenance(Judgment(at, x).of)
    BY <1>1, <1>2, JudgmentIsRead
  <2> QED
    BY <2>1 DEF Judgment
<1>3. ReadProvenance(u)
  <2>1. CASE Judged(u)
    <3>1. Judgment(<<"unit">>, u) \in judgments
      BY <2>1 DEF UnitJudgments, Judgment
    <3> QED
      BY <3>1, <1>2
  <2> QED
    BY <2>1, UnjudgedIsRead
<1>4. ASSUME NEW r \in DOMAIN u.reasonings
      PROVE  ReadProvenance(u.reasonings[r])
  <2>1. CASE Judged(u.reasonings[r])
    <3>1. Judgment(<<"reasoning", r>>, u.reasonings[r]) \in judgments
      BY <2>1 DEF UnitJudgments, Judgment
    <3> QED
      BY <3>1, <1>2
  <2> QED
    BY <2>1, UnjudgedIsRead
<1>5. ASSUME NEW r \in DOMAIN u.reasonings, NEW a \in DOMAIN u.reasonings[r].assets
      PROVE  ReadProvenance(u.reasonings[r].assets[a])
  <2> DEFINE x == u.reasonings[r].assets[a]
  <2>1. CASE Judged(x)
    <3> DEFINE ofReasoning(s) == {Judgment(<<"asset", s, k>>, u.reasonings[s].assets[k]) :
                                    k \in DOMAIN u.reasonings[s].assets}
    <3>1. Judgment(<<"asset", r, a>>, x) \in ofReasoning(r)
      OBVIOUS
    <3>2. AssetJudgments(u) = UNION {ofReasoning(s) : s \in DOMAIN u.reasonings}
      BY DEF AssetJudgments
    <3> HIDE DEF ofReasoning
    <3>3. Judgment(<<"asset", r, a>>, x) \in AssetJudgments(u)
      BY <3>1, <3>2
    <3>4. Judgment(<<"asset", r, a>>, x).of = x
      BY DEF Judgment
    <3>5. Judgment(<<"asset", r, a>>, x) \in judgments
      BY <2>1, <3>3, <3>4 DEF UnitJudgments
    <3> QED
      BY <3>5, <1>2
  <2> QED
    BY <2>1, UnjudgedIsRead
<1>6. ASSUME NEW c \in DOMAIN u.companies
      PROVE  ReadProvenance(u.companies[c]) <=> ~OddCompany(u.companies[c])
  <2> DEFINE x == u.companies[c]
  <2>1. CASE x.origin # ""
    <3>1. Judgment(<<"company", c>>, x) \in judgments
      BY <2>1 DEF UnitJudgments, Judgment
    <3> QED
      BY <3>1, <1>2, <2>1 DEF OddCompany
  <2>2. CASE x.origin = ""
    BY <2>2 DEF OddCompany, ReadProvenance
  <2> QED
    BY <2>1, <2>2
<1> QED
  BY <1>3, <1>4, <1>5, <1>6

DisplaysAreTexts(u) ==
    \A r \in Range(u.reasonings) : \A b \in Range(r.blocks) : \A n \in Range(b.nodes) :
        \A m \in Range(n.metrics) : m.display \in Texts

\* What of a reasoning the two ends see differently.
OddReasoning(r) ==
    \/ OddGraph(r.graph)
    \/ \E b \in Range(r.blocks) : \E n \in Range(b.nodes) : \E m \in Range(n.metrics) : OddMetric(m)

\* A reasoning the writer accepts is read, but for its graph and the texts of its metrics.
LEMMA ReasoningIsRead ==
    ASSUME NEW kind, NEW u, ValidateUnifiedUnit(kind, u), DisplaysAreTexts(u),
           NEW i \in DOMAIN u.reasonings
    PROVE  ReadReasoning(kind, u.reasonings[i]) <=> ~OddReasoning(u.reasonings[i])
<1> DEFINE r == u.reasonings[i]
<1>1. UnifiedReasoning(kind, r) /\ r \in Range(u.reasonings)
  BY DEF ValidateUnifiedUnit, Range
<1>2. Geopolitical(kind) \in BOOLEAN
  BY SMTT(40) DEF Geopolitical
<1>3. ReadAssessment(r.assessment, Geopolitical(kind))
  BY <1>1, <1>2, AssessmentIsRead DEF UnifiedReasoning, UnifiedAssessment
<1>4. ReadProvenance(r)
  BY ObjectsOfAUnitAreRead
<1>5. (r.graph = Absent \/ ReadGraph(r.graph)) <=> ~OddGraph(r.graph)
  <2>1. CASE r.graph = Absent
    BY <2>1 DEF OddGraph
  <2>2. CASE r.graph # Absent
    BY <2>2, <1>1, GraphIsRead, SMTT(40) DEF UnifiedReasoning
  <2> QED
    BY <2>1, <2>2
<1>6. ASSUME NEW k \in DOMAIN r.assets
      PROVE  ReadAsset(kind, r.assets[k], r.graph)
  <2>1. UnifiedAsset(kind, r.assets[k], r.graph) /\ r.assets[k].key \in LocalKeys
    BY <1>1, SMTT(40) DEF UnifiedReasoning, NormalizedKeys, Range
  <2>2. ReadAssessment(r.assets[k].assessment, Geopolitical(kind))
    BY <2>1, <1>2, AssessmentIsRead DEF UnifiedAsset, UnifiedAssessment
  <2>3. ReadProvenance(r.assets[k])
    BY ObjectsOfAUnitAreRead
  <2> QED
    BY <2>1, <2>2, <2>3 DEF ReadAsset, UnifiedAsset, UnifiedAssessment
<1>7. ASSUME NEW b \in Range(r.blocks)
      PROVE  ReadBlock(b) <=>
               ~\E n \in Range(b.nodes) : \E m \in Range(n.metrics) : OddMetric(m)
  <2>1. UnifiedBlock(b)
    BY <1>1 DEF UnifiedReasoning
  <2>2. \A n \in Range(b.nodes) : \A m \in Range(n.metrics) : m.display \in Texts
    BY <1>1 DEF DisplaysAreTexts
  <2> QED
    BY <2>1, <2>2, BlockIsRead
<1>8. \A a \in Range(r.assets) : ReadAsset(kind, a, r.graph)
  BY <1>6 DEF Range
<1>9. NormalizedKeys(r.assets) /\ NormalizedKeys(r.blocks)
  BY <1>1 DEF UnifiedReasoning
<1> HIDE DEF r
<1>10. (\A b \in Range(r.blocks) : ReadBlock(b)) <=>
         ~\E b \in Range(r.blocks) : \E n \in Range(b.nodes) : \E m \in Range(n.metrics) : OddMetric(m)
  BY <1>7
<1> QED
  BY <1>3, <1>4, <1>5, <1>8, <1>9, <1>10 DEF ReadReasoning, OddReasoning, r

\* The card of a unit the writer accepts is read unless its title is too long.
LEMMA SummaryIsRead ==
    ASSUME NEW kind, NEW u, ValidateUnifiedUnit(kind, u)
    PROVE  ReadSummary(kind, u) <=> ~LongTitle(u)
<1>1. Geopolitical(kind) \in BOOLEAN
  BY DEF Geopolitical
<1>2. u.key \in LocalKeys /\ u.title \in {"short", "long"}
  BY DEF ValidateUnifiedUnit, RequiredText
<1>3. ASSUME NEW x, ReadProvenance(x)
      PROVE  x.origin \in {"", "direct", "inferred"}
  BY <1>3 DEF ReadProvenance
<1>4. u.origin \in {"", "direct", "inferred"}
  BY <1>3, ObjectsOfAUnitAreRead
<1>5. ASSUME NEW r \in DOMAIN u.reasonings, NEW a \in DOMAIN u.reasonings[r].assets
      PROVE  ReadAnchor(kind, u.reasonings[r].assets[a])
  <2>1. UnifiedReasoning(kind, u.reasonings[r])
    BY DEF ValidateUnifiedUnit, Range
  <2>2. UnifiedAsset(kind, u.reasonings[r].assets[a], u.reasonings[r].graph)
    BY <2>1, SMTT(40) DEF UnifiedReasoning, Range
  <2>3. ReadAssessment(u.reasonings[r].assets[a].assessment, Geopolitical(kind))
    BY <2>2, <1>1, AssessmentIsRead DEF UnifiedAsset, UnifiedAssessment
  <2>4. ReadProvenance(u.reasonings[r].assets[a])
    BY ObjectsOfAUnitAreRead
  <2> QED
    BY <2>3, <2>4, <1>3 DEF ReadAnchor
<1>6. ASSUME NEW anchor \in Anchors(u)
      PROVE  ReadAnchor(kind, u.reasonings[anchor[1]].assets[anchor[2]])
  <2> DEFINE of(r) == {<<r, a>> : a \in DOMAIN u.reasonings[r].assets}
  <2>1. anchor \in UNION {of(r) : r \in DOMAIN u.reasonings}
    BY Zenon DEF Anchors
  <2> HIDE DEF of
  <2>2. PICK r \in DOMAIN u.reasonings : anchor \in of(r)
    BY <2>1, Zenon
  <2>3. PICK a \in DOMAIN u.reasonings[r].assets : anchor = <<r, a>>
    BY <2>2, Zenon DEF of
  <2>4. anchor[1] = r /\ anchor[2] = a
    BY <2>3
  <2> QED
    BY <2>4, <1>5, Zenon
<1>7. ReadAnchors(kind, u)
  BY <1>6, Zenon DEF ReadAnchors
<1>8. CASE u.title = "short"
  <2>1. RequiredText(u.title, TitleLimit)
    BY <1>8 DEF RequiredText
  <2>2. ~LongTitle(u)
    BY <1>8 DEF LongTitle
  <2>3. ReadSummary(kind, u)
    BY <1>2, <1>4, <1>7, <2>1 DEF ReadSummary
  <2> QED
    BY <2>2, <2>3 DEF ReadSummary
<1>9. CASE u.title = "long"
  <2>1. ~RequiredText(u.title, TitleLimit)
    BY <1>9 DEF RequiredText, TitleLimit, TextLimit
  <2>2. LongTitle(u)
    BY <1>9 DEF LongTitle
  <2>3. ~ReadSummary(kind, u)
    BY <2>1 DEF ReadSummary
  <2> QED
    BY <2>2, <2>3 DEF ReadSummary
<1> QED
  BY <1>2, <1>8, <1>9

\* The detail of a unit the writer accepts is read exactly if nothing in it diverges.
THEOREM AcceptedDetailIsRead ==
    ASSUME NEW kind, NEW u, ValidateUnifiedUnit(kind, u), DisplaysAreTexts(u)
    PROVE  ReadDetail(kind, u) <=> ~Diverges(u)
<1>1. ReadSummary(kind, u) <=> ~LongTitle(u)
  BY SummaryIsRead
<1>2. (\A r \in Range(u.reasonings) : ReadReasoning(kind, r))
        <=> ~\E r \in Range(u.reasonings) : OddReasoning(r)
  BY ReasoningIsRead DEF Range
<1>3. ASSUME NEW c \in Range(u.companies)
      PROVE  ReadAssessment(c.assessment, FALSE) /\ (ReadProvenance(c) <=> ~OddCompany(c))
  <2>1. SignalCompany(c)
    BY DEF ValidateUnifiedUnit
  <2>2. AssessmentFields(c.assessment, FALSE) /\ AssessmentState(c.assessment, FALSE)
    BY <2>1 DEF SignalCompany
  <2>3. ReadAssessment(c.assessment, FALSE)
    BY <2>2, AssessmentIsRead
  <2> QED
    BY <2>3, ObjectsOfAUnitAreRead DEF Range
<1>4. ReadProvenance(u)
  BY ObjectsOfAUnitAreRead
<1>5. Diverges(u) <=> \/ LongTitle(u)
                      \/ \E r \in Range(u.reasonings) : OddReasoning(r)
                      \/ \E c \in Range(u.companies) : OddCompany(c)
  BY DEF Diverges, OddReasoning
<1>6. (\A c \in Range(u.companies) : ReadAssessment(c.assessment, FALSE) /\ ReadProvenance(c))
        <=> ~\E c \in Range(u.companies) : OddCompany(c)
  BY <1>3
<1>7. /\ u.reasonings # <<>> /\ u.macros = <<>> /\ u.chains = <<>>
      /\ NormalizedKeys(u.reasonings)
      /\ IsInjective(u.summary.refs) /\ Range(u.summary.refs) \subseteq AssetRefs(u)
  BY DEF ValidateUnifiedUnit
<1>8. ReadDetail(kind, u) <=>
        /\ ReadSummary(kind, u)
        /\ \A r \in Range(u.reasonings) : ReadReasoning(kind, r)
        /\ \A c \in Range(u.companies) : ReadAssessment(c.assessment, FALSE) /\ ReadProvenance(c)
  BY <1>4, <1>7 DEF ReadDetail
<1> QED
  BY <1>1, <1>2, <1>5, <1>6, <1>8, Zenon

-----------------------------------------------------------------------------
(* Reports: places of citations *)

IsPath(p) == \E W : p \in Seq(W)

\* What lies at a place or within it.
StartsWith(p, q) == Len(p) <= Len(q) /\ \A k \in 1 .. Len(p) : q[k] = p[k]

\* The name of an element: its place, or what the services know it by.
Label(key, array, i) ==
    IF key = "path" /\ "key" \in DOMAIN array[i] THEN array[i].key ELSE i

\* The place of an element.
Deeper(key, p, f, array, i) == p \o <<f, Label(key, array, i)>>

\* Citations that are told apart by where they are, below a place under one of the
\* given fields, all of whose names fit.
Branch(key, barred, p, fields, S) ==
    /\ IsPath(p)
    /\ \A c \in S :
         /\ IsPath(c[key]) /\ Len(p) < Len(c[key]) /\ StartsWith(p, c[key])
         /\ c[key][Len(p) + 1] \in fields
         /\ \A k \in 1 .. Len(c[key]) : k > Len(p) => c[key][k] \notin barred
    /\ \A c, d \in S : c[key] = d[key] => c = d

AllOf(sub) == UNION {sub[i] : i \in DOMAIN sub}

\* The same, of what is at the place or anywhere below it.
Below(key, barred, p, S) ==
    /\ IsPath(p)
    /\ \A c \in S :
         /\ IsPath(c[key]) /\ StartsWith(p, c[key])
         /\ \A k \in 1 .. Len(c[key]) : k > Len(p) => c[key][k] \notin barred
    /\ \A c, d \in S : c[key] = d[key] => c = d

\* The names of the elements of an array tell them apart and fit.
Labels(key, barred, array) ==
    /\ \A i \in DOMAIN array : Label(key, array, i) \notin barred
    /\ \A i, j \in DOMAIN array : Label(key, array, i) = Label(key, array, j) => i = j

LEMMA LongerPath ==
    ASSUME NEW p, IsPath(p), NEW f
    PROVE  LET q == Append(p, f)
           IN  IsPath(q) /\ Len(q) = Len(p) + 1 /\ q[Len(p) + 1] = f /\ StartsWith(p, q)
               /\ Len(p) \in Nat
<1>1. PICK W : p \in Seq(W)
  BY DEF IsPath
<1>2. p \in Seq(W \cup {f}) /\ f \in W \cup {f}
  BY <1>1
<1>3. Append(p, f) \in Seq(W \cup {f})
  BY <1>2
<1> QED
  BY <1>2, <1>3 DEF IsPath, StartsWith

LEMMA BranchesJoin ==
    ASSUME NEW key, NEW barred, NEW p, NEW fields, NEW others, NEW S, NEW Y,
           Branch(key, barred, p, fields, S), Branch(key, barred, p, others, Y),
           fields \cap others = {}
    PROVE  Branch(key, barred, p, fields \cup others, S \cup Y)
<1>1. \A c \in S, d \in Y : c[key] # d[key]
  BY DEF Branch
<1> QED
  BY <1>1 DEF Branch

\* What is below a field of a place.
LEMMA BranchOfField ==
    ASSUME NEW key, NEW barred, NEW p, NEW f, IsPath(p), f \notin barred, NEW S,
           Below(key, barred, Append(p, f), S)
    PROVE  Branch(key, barred, p, {f}, S)
<1>1. PICK q : q = Append(p, f)
  OBVIOUS
<1>2. IsPath(q) /\ Len(q) = Len(p) + 1 /\ q[Len(p) + 1] = f /\ StartsWith(p, q) /\ Len(p) \in Nat
  BY <1>1, LongerPath
<1>3. ASSUME NEW c \in S
      PROVE  /\ IsPath(c[key]) /\ Len(p) < Len(c[key]) /\ StartsWith(p, c[key])
             /\ c[key][Len(p) + 1] \in {f}
             /\ \A k \in 1 .. Len(c[key]) : k > Len(p) => c[key][k] \notin barred
  <2>1. PICK r : r = c[key]
    OBVIOUS
  <2>2. IsPath(r) /\ StartsWith(q, r) /\ \A k \in 1 .. Len(r) : k > Len(q) => r[k] \notin barred
    BY <1>1, <2>1 DEF Below
  <2>3. Len(r) \in Nat
    BY <2>2 DEF IsPath
  <2>4. Len(p) < Len(r) /\ r[Len(p) + 1] = f
    BY <1>2, <2>2, <2>3 DEF StartsWith
  <2>5. StartsWith(p, r)
    BY <1>2, <2>2, <2>3 DEF StartsWith
  <2>6. \A k \in 1 .. Len(r) : k > Len(p) => r[k] \notin barred
    BY <1>2, <2>2, <2>3, <2>4
  <2> QED
    BY <2>1, <2>2, <2>4, <2>5, <2>6
<1>4. \A c, d \in S : c[key] = d[key] => c = d
  BY DEF Below
<1> QED
  BY <1>3, <1>4 DEF Branch

LEMMA BranchIsBelow ==
    ASSUME NEW key, NEW barred, NEW p, NEW fields, NEW S, Branch(key, barred, p, fields, S)
    PROVE  Below(key, barred, p, S)
BY DEF Branch, Below

\* What is below the elements of an array.
LEMMA BranchOfArray ==
    ASSUME NEW key, NEW barred, NEW p, NEW f, IsPath(p), f \notin barred, NEW array,
           Labels(key, barred, array), NEW sub, DOMAIN sub = DOMAIN array,
           \A i \in DOMAIN array : Below(key, barred, Deeper(key, p, f, array, i), sub[i])
    PROVE  Branch(key, barred, p, {f}, AllOf(sub))
<1>1. ASSUME NEW i \in DOMAIN array, NEW c \in sub[i]
      PROVE  /\ IsPath(c[key]) /\ Len(p) < Len(c[key]) /\ StartsWith(p, c[key])
             /\ c[key][Len(p) + 1] \in {f}
             /\ \A k \in 1 .. Len(c[key]) : k > Len(p) => c[key][k] \notin barred
             /\ c[key][Len(p) + 2] = Label(key, array, i)
  <2>1. PICK r : r = c[key]
    OBVIOUS
  <2>2. PICK l : l = Label(key, array, i)
    OBVIOUS
  <2>3. PICK q : q = p \o <<f, l>>
    OBVIOUS
  <2>4. /\ IsPath(q) /\ Len(q) = Len(p) + 2 /\ q[Len(p) + 1] = f /\ q[Len(p) + 2] = l
        /\ StartsWith(p, q) /\ Len(p) \in Nat
    <3>1. PICK W : p \in Seq(W)
      BY DEF IsPath
    <3> DEFINE V == W \cup {f, l}
    <3>2. p \in Seq(V) /\ <<f, l>> \in Seq(V)
      BY <3>1
    <3>3. p \o <<f, l>> \in Seq(V) /\ Len(<<f, l>>) = 2
      BY <3>2
    <3> QED
      BY <2>3, <3>2, <3>3 DEF IsPath, StartsWith
  <2>5. Below(key, barred, q, sub[i])
    BY <2>2, <2>3 DEF Deeper
  <2>6. IsPath(r) /\ StartsWith(q, r) /\ \A k \in 1 .. Len(r) : k > Len(q) => r[k] \notin barred
    BY <2>1, <2>5 DEF Below
  <2>7. Len(r) \in Nat
    BY <2>6 DEF IsPath
  <2>8. Len(p) < Len(r) /\ r[Len(p) + 1] = f /\ r[Len(p) + 2] = l
    BY <2>4, <2>6, <2>7 DEF StartsWith
  <2>9. StartsWith(p, r)
    BY <2>4, <2>6, <2>7 DEF StartsWith
  <2>10. l \notin barred
    BY <2>2 DEF Labels
  <2>11. ASSUME NEW k \in 1 .. Len(r), k > Len(p)
         PROVE  r[k] \notin barred
    <3>1. k = Len(p) + 1 \/ k = Len(p) + 2 \/ k > Len(q)
      BY <2>4, <2>7, <2>11
    <3> QED
      BY <2>6, <2>8, <2>10, <3>1
  <2> QED
    BY <2>1, <2>2, <2>6, <2>8, <2>9, <2>11
<1>2. ASSUME NEW i \in DOMAIN array, NEW j \in DOMAIN array, NEW c \in sub[i], NEW d \in sub[j],
             c[key] = d[key]
      PROVE  c = d
  <2>1. i = j
    BY <1>1, <1>2 DEF Labels
  <2>2. Below(key, barred, Deeper(key, p, f, array, i), sub[i])
    OBVIOUS
  <2> QED
    BY <1>2, <2>1, <2>2 DEF Below
<1> QED
  BY <1>1, <1>2 DEF Branch, AllOf

\* What is below several fields.
LEMMA BranchOfFields ==
    ASSUME NEW key, NEW barred, NEW p, IsPath(p), NEW fields, NEW sub, DOMAIN sub = fields,
           \A f \in fields : Branch(key, barred, p, {f}, sub[f])
    PROVE  Branch(key, barred, p, fields, AllOf(sub))
<1>1. ASSUME NEW f \in fields, NEW g \in fields, NEW c \in sub[f], NEW d \in sub[g], c[key] = d[key]
      PROVE  c = d
  <2>1. f = g
    BY <1>1 DEF Branch
  <2> QED
    BY <1>1, <2>1 DEF Branch
<1> QED
  BY <1>1 DEF Branch, AllOf

-----------------------------------------------------------------------------
(* Reports: the walk over the citations *)

\* The two ways to name a place, and keys that no field name is among.
Naming(key, barred) == key \in {"path", "at"} /\ \A f \in ScopeFields : f \notin barred

LEMMA DeeperIsPath ==
    ASSUME NEW key, NEW p, IsPath(p), NEW f, NEW array, NEW i
    PROVE  IsPath(Deeper(key, p, f, array, i))
<1>1. PICK W : p \in Seq(W)
  BY DEF IsPath
<1>2. PICK l : l = Label(key, array, i)
  OBVIOUS
<1> DEFINE V == W \cup {f, l}
<1>3. p \in Seq(V) /\ <<f, l>> \in Seq(V)
  BY <1>1
<1>4. p \o <<f, l>> \in Seq(V)
  BY <1>3
<1> QED
  BY <1>2, <1>4 DEF IsPath, Deeper

LEMMA PlaceOfElement ==
    ASSUME NEW key \in {"path", "at"}, NEW place, NEW field, NEW array, NEW i
    PROVE  Into(place, field, array, i)[key] = Deeper(key, place[key], field, array, i)
<1>1. CASE key = "path"
  <2>1. Into(place, field, array, i).path = Deeper("path", place.path, field, array, i)
    BY DEF Into, Deeper, Label
  <2> QED
    BY <1>1, <2>1
<1>2. CASE key = "at"
  <2>1. Label("at", array, i) = i
    BY DEF Label
  <2>2. Into(place, field, array, i).at = Deeper("at", place.at, field, array, i)
    BY <2>1 DEF Into, Deeper
  <2> QED
    BY <1>2, <2>2
<1> QED
  BY <1>1, <1>2

LEMMA PlaceOfField ==
    ASSUME NEW key \in {"path", "at"}, NEW place, NEW field
    PROVE  Under(place, field)[key] = Append(place[key], field)
<1>1. /\ Under(place, field).path = Append(place.path, field)
      /\ Under(place, field).at = Append(place.at, field)
  BY DEF Under
<1>2. CASE key = "path"
  BY <1>1, <1>2
<1>3. CASE key = "at"
  BY <1>1, <1>3
<1> QED
  BY <1>2, <1>3

LEMMA PlaceOfCitation ==
    ASSUME NEW key \in {"path", "at"}, NEW place, NEW x
    PROVE  Citation(place, x)[key] = place[key]
<1>1. Citation(place, x).path = place.path /\ Citation(place, x).at = place.at
  BY DEF Citation
<1>2. CASE key = "path"
  BY <1>1, <1>2
<1>3. CASE key = "at"
  BY <1>1, <1>3
<1> QED
  BY <1>2, <1>3

LEMMA OneIsBelow ==
    ASSUME NEW key \in {"path", "at"}, NEW barred, NEW place, IsPath(place[key]), NEW x
    PROVE  Below(key, barred, place[key], {Citation(place, x)})
<1>1. PICK p : p = place[key]
  OBVIOUS
<1>3. Citation(place, x)[key] = p
  BY <1>1, PlaceOfCitation
<1>2. Len(p) \in Nat
  BY <1>1 DEF IsPath
<1> QED
  BY <1>1, <1>2, <1>3 DEF Below, StartsWith

LEMMA FieldIsBranch ==
    ASSUME NEW key, NEW barred, Naming(key, barred), NEW place, IsPath(place[key]),
           NEW field \in ScopeFields, NEW x
    PROVE  Branch(key, barred, place[key], {field}, {Citation(Under(place, field), x)})
<1>1. Under(place, field)[key] = Append(place[key], field) /\ key \in {"path", "at"} /\ field \notin barred
  <2>1. key \in {"path", "at"} /\ field \notin barred
    BY DEF Naming
  <2> QED
    BY <2>1, PlaceOfField
<1>2. IsPath(Under(place, field)[key])
  BY <1>1, LongerPath
<1>3. Below(key, barred, Under(place, field)[key], {Citation(Under(place, field), x)})
  <2>1. PICK inner : inner = Under(place, field)
    OBVIOUS
  <2>2. Below(key, barred, inner[key], {Citation(inner, x)})
    BY <1>1, <1>2, <2>1, OneIsBelow
  <2> QED
    BY <2>1, <2>2
<1> QED
  BY <1>1, <1>3, BranchOfField

LEMMA EachIsBranch ==
    ASSUME NEW key, NEW barred, Naming(key, barred), NEW place, IsPath(place[key]),
           NEW field \in ScopeFields, NEW array, Labels(key, barred, array)
    PROVE  Branch(key, barred, place[key], {field}, EachCites(place, field, array))
<1> DEFINE sub == [i \in DOMAIN array |-> {Citation(Into(place, field, array, i), array[i])}]
<1>1. key \in {"path", "at"} /\ field \notin barred
  BY DEF Naming
<1>2. ASSUME NEW i \in DOMAIN array
      PROVE  Below(key, barred, Deeper(key, place[key], field, array, i), sub[i])
  <2>1. Into(place, field, array, i)[key] = Deeper(key, place[key], field, array, i)
    BY <1>1, PlaceOfElement
  <2>2. IsPath(Into(place, field, array, i)[key])
    BY <2>1, DeeperIsPath
  <2>3. Below(key, barred, Into(place, field, array, i)[key], {Citation(Into(place, field, array, i), array[i])})
    BY <1>1, <2>2, OneIsBelow
  <2> QED
    BY <2>1, <2>3
<1>3. EachCites(place, field, array) = AllOf(sub)
  BY DEF EachCites, AllOf
<1>5. DOMAIN sub = DOMAIN array
  OBVIOUS
<1> HIDE DEF sub
<1>4. Branch(key, barred, place[key], {field}, AllOf(sub))
  BY <1>1, <1>2, <1>5, BranchOfArray
<1> QED
  BY <1>3, <1>4

ObjectLabels(key, barred, x) ==
    /\ Labels(key, barred, x.objections.counterevidence) /\ Labels(key, barred, x.objections.buffers)
    /\ x.signals = Absent \/ Labels(key, barred, x.signals)

ObjectFields == {"assessment", "objections", "variable_signals"}

LEMMA SignalsAreBranch ==
    ASSUME NEW key, NEW barred, Naming(key, barred), NEW place, IsPath(place[key]),
           NEW x, x.signals = Absent \/ Labels(key, barred, x.signals)
    PROVE  Branch(key, barred, place[key], {"variable_signals"}, SignalCitations(place, x))
<1>1. CASE x.signals = Absent
  <2>1. SignalCitations(place, x) = {}
    BY <1>1 DEF SignalCitations
  <2> QED
    BY <2>1 DEF Branch
<1>2. CASE x.signals # Absent
  <2>1. SignalCitations(place, x) = EachCites(place, "variable_signals", x.signals)
    BY <1>2 DEF SignalCitations
  <2>2. "variable_signals" \in ScopeFields
    BY DEF ScopeFields
  <2> QED
    BY <1>2, <2>1, <2>2, EachIsBranch
<1> QED
  BY <1>1, <1>2

LEMMA ObjectionsAreBranch ==
    ASSUME NEW key, NEW barred, Naming(key, barred), NEW place, IsPath(place[key]),
           NEW objections, Labels(key, barred, objections.counterevidence),
           Labels(key, barred, objections.buffers)
    PROVE  Branch(key, barred, place[key], {"objections"}, ObjectionCitations(place, objections))
<1> DEFINE inner == Under(place, "objections")
           S == EachCites(inner, "counterevidence", objections.counterevidence)
           Y == EachCites(inner, "buffers", objections.buffers)
<1>1. {"objections", "counterevidence", "buffers"} \subseteq ScopeFields
  BY DEF ScopeFields
<1>2. inner[key] = Append(place[key], "objections") /\ key \in {"path", "at"} /\ "objections" \notin barred
  <2>1. key \in {"path", "at"} /\ "objections" \notin barred
    BY <1>1 DEF Naming
  <2>2. Under(place, "objections")[key] = Append(place[key], "objections")
    BY ONLY <2>1, PlaceOfField
  <2> QED
    BY <2>1, <2>2
<1>3. IsPath(inner[key])
  BY <1>2, LongerPath
<1> HIDE DEF inner
<1>4. Branch(key, barred, inner[key], {"counterevidence"}, S)
  BY <1>1, <1>3, EachIsBranch
<1>5. Branch(key, barred, inner[key], {"buffers"}, Y)
  BY <1>1, <1>3, EachIsBranch
<1> HIDE DEF S, Y
<1>6. Branch(key, barred, inner[key], {"counterevidence"} \cup {"buffers"}, S \cup Y)
  BY <1>4, <1>5, BranchesJoin
<1>7. Below(key, barred, Append(place[key], "objections"), S \cup Y)
  BY <1>2, <1>6, BranchIsBelow
<1>8. Branch(key, barred, place[key], {"objections"}, S \cup Y)
  BY <1>2, <1>7, BranchOfField
<1> QED
  BY <1>8 DEF ObjectionCitations, S, Y, inner

LEMMA ObjectIsBranch ==
    ASSUME NEW key, NEW barred, Naming(key, barred), NEW place, IsPath(place[key]),
           NEW x, ObjectLabels(key, barred, x)
    PROVE  Branch(key, barred, place[key], ObjectFields, ObjectCitations(place, x))
<1> DEFINE S == {Citation(Under(place, "assessment"), x.assessment)}
           Y == ObjectionCitations(place, x.objections)
           Z == SignalCitations(place, x)
<1>1. "assessment" \in ScopeFields
  BY DEF ScopeFields
<1>2. Branch(key, barred, place[key], {"assessment"}, S)
  BY <1>1, FieldIsBranch
<1>3. Branch(key, barred, place[key], {"objections"}, Y)
  BY ObjectionsAreBranch DEF ObjectLabels
<1>4. Branch(key, barred, place[key], {"variable_signals"}, Z)
  BY SignalsAreBranch DEF ObjectLabels
<1> HIDE DEF S, Y, Z
<1>5. Branch(key, barred, place[key], {"assessment"} \cup {"objections"}, S \cup Y)
  BY <1>2, <1>3, BranchesJoin
<1>6. Branch(key, barred, place[key], ({"assessment"} \cup {"objections"}) \cup {"variable_signals"}, (S \cup Y) \cup Z)
  BY <1>4, <1>5, BranchesJoin
<1>7. ({"assessment"} \cup {"objections"}) \cup {"variable_signals"} = ObjectFields
  BY DEF ObjectFields
<1>8. ObjectCitations(place, x) = (S \cup Y) \cup Z
  BY DEF ObjectCitations, S, Y, Z
<1> QED
  BY <1>6, <1>7, <1>8

LEMMA IntoIsPath ==
    ASSUME NEW key \in {"path", "at"}, NEW place, IsPath(place[key]), NEW field, NEW array, NEW i
    PROVE  IsPath(Into(place, field, array, i)[key])
<1>1. Into(place, field, array, i)[key] = Deeper(key, place[key], field, array, i)
  BY PlaceOfElement
<1> QED
  BY <1>1, DeeperIsPath

LEMMA ArrayIsBranch ==
    ASSUME NEW key, NEW barred, Naming(key, barred), NEW place, IsPath(place[key]),
           NEW field \in ScopeFields, NEW array, Labels(key, barred, array),
           NEW sub, DOMAIN sub = DOMAIN array,
           \A i \in DOMAIN array : Below(key, barred, Into(place, field, array, i)[key], sub[i])
    PROVE  Branch(key, barred, place[key], {field}, AllOf(sub))
<1>1. key \in {"path", "at"} /\ field \notin barred
  BY DEF Naming
<1>2. \A i \in DOMAIN array : Below(key, barred, Deeper(key, place[key], field, array, i), sub[i])
  BY <1>1, PlaceOfElement
<1> QED
  BY <1>1, <1>2, BranchOfArray

\* Objects of an array.
LEMMA ObjectsAreBranch ==
    ASSUME NEW key, NEW barred, Naming(key, barred), NEW place, IsPath(place[key]),
           NEW field \in ScopeFields, NEW array, Labels(key, barred, array),
           \A i \in DOMAIN array : ObjectLabels(key, barred, array[i])
    PROVE  Branch(key, barred, place[key], {field}, EachObjectCites(place, field, array))
<1> DEFINE sub == [i \in DOMAIN array |-> ObjectCitations(Into(place, field, array, i), array[i])]
<1>1. key \in {"path", "at"}
  BY DEF Naming
<1>2. ASSUME NEW i \in DOMAIN array
      PROVE  Below(key, barred, Into(place, field, array, i)[key], sub[i])
  <2>1. PICK inner : inner = Into(place, field, array, i)
    OBVIOUS
  <2>2. IsPath(inner[key])
    BY <1>1, <2>1, IntoIsPath
  <2>3. Below(key, barred, inner[key], ObjectCitations(inner, array[i]))
    BY <2>2, ObjectIsBranch, BranchIsBelow
  <2> QED
    BY <2>1, <2>3
<1>3. EachObjectCites(place, field, array) = AllOf(sub)
  BY DEF AllOf, EachObjectCites
<1>5. DOMAIN sub = DOMAIN array
  OBVIOUS
<1> HIDE DEF sub
<1>4. Branch(key, barred, place[key], {field}, AllOf(sub))
  BY <1>2, <1>5, ArrayIsBranch
<1> QED
  BY <1>3, <1>4

BlockLabels(key, barred, block) ==
    /\ Labels(key, barred, block.nodes)
    /\ \A n \in DOMAIN block.nodes : Labels(key, barred, block.nodes[n].metrics)

LEMMA BlockIsBranch ==
    ASSUME NEW key, NEW barred, Naming(key, barred), NEW place, IsPath(place[key]),
           NEW block, BlockLabels(key, barred, block)
    PROVE  Branch(key, barred, place[key], {"nodes"}, BlockCitations(place, block))
<1> DEFINE nodes == block.nodes
           sub == [n \in DOMAIN nodes |-> EachCites(Into(place, "nodes", nodes, n), "metrics", nodes[n].metrics)]
<1>1. key \in {"path", "at"} /\ {"nodes", "metrics"} \subseteq ScopeFields
  BY DEF Naming, ScopeFields
<1>2. ASSUME NEW n \in DOMAIN nodes
      PROVE  Below(key, barred, Into(place, "nodes", nodes, n)[key], sub[n])
  <2>1. PICK inner : inner = Into(place, "nodes", nodes, n)
    OBVIOUS
  <2>2. IsPath(inner[key])
    BY <1>1, <2>1, IntoIsPath
  <2>3. Labels(key, barred, nodes[n].metrics)
    BY DEF BlockLabels
  <2>4. Below(key, barred, inner[key], EachCites(inner, "metrics", nodes[n].metrics))
    BY <1>1, <2>2, <2>3, EachIsBranch, BranchIsBelow
  <2> QED
    BY <2>1, <2>4
<1>3. BlockCitations(place, block) = AllOf(sub)
  BY DEF BlockCitations, AllOf
<1>4. Labels(key, barred, nodes)
  BY DEF BlockLabels
<1>6. DOMAIN sub = DOMAIN nodes
  OBVIOUS
<1> HIDE DEF sub, nodes
<1>5. Branch(key, barred, place[key], {"nodes"}, AllOf(sub))
  BY <1>1, <1>2, <1>4, <1>6, ArrayIsBranch
<1> QED
  BY <1>3, <1>5

ReasoningLabels(key, barred, r) ==
    /\ ObjectLabels(key, barred, r)
    /\ Labels(key, barred, r.assets) /\ \A a \in DOMAIN r.assets : ObjectLabels(key, barred, r.assets[a])
    /\ Labels(key, barred, r.blocks) /\ \A b \in DOMAIN r.blocks : BlockLabels(key, barred, r.blocks[b])

ReasoningFields == ObjectFields \cup {"support", "affected_assets", "reasoning_blocks"}

LEMMA ReasoningIsBranch ==
    ASSUME NEW key, NEW barred, Naming(key, barred), NEW place, IsPath(place[key]),
           NEW r, ReasoningLabels(key, barred, r)
    PROVE  Branch(key, barred, place[key], ReasoningFields, ReasoningCitations(place, r))
<1> DEFINE S == ObjectCitations(place, r)
           Y == IF r.support = Absent THEN {} ELSE {Citation(Under(place, "support"), r.support)}
           assets == r.assets
           Q == EachObjectCites(place, "affected_assets", assets)
           blocks == r.blocks
           sub == [b \in DOMAIN blocks |-> BlockCitations(Into(place, "reasoning_blocks", blocks, b), blocks[b])]
           Z == AllOf(sub)
<1>1. key \in {"path", "at"} /\ {"support", "affected_assets", "reasoning_blocks"} \subseteq ScopeFields
  BY DEF Naming, ScopeFields
<1>2. Branch(key, barred, place[key], ObjectFields, S)
  BY ObjectIsBranch DEF ReasoningLabels
<1>3. Branch(key, barred, place[key], {"support"}, Y)
  <2>1. CASE r.support = Absent
    BY <2>1 DEF Branch
  <2>2. CASE r.support # Absent
    BY <1>1, <2>2, FieldIsBranch
  <2> QED
    BY <2>1, <2>2
<1>4. Branch(key, barred, place[key], {"affected_assets"}, Q)
  <2>1. Labels(key, barred, assets) /\ \A a \in DOMAIN assets : ObjectLabels(key, barred, assets[a])
    BY DEF ReasoningLabels
  <2> HIDE DEF assets
  <2> QED
    BY <1>1, <2>1, ObjectsAreBranch
<1>5. ASSUME NEW b \in DOMAIN blocks
      PROVE  Below(key, barred, Into(place, "reasoning_blocks", blocks, b)[key], sub[b])
  <2>1. PICK inner : inner = Into(place, "reasoning_blocks", blocks, b)
    OBVIOUS
  <2>2. IsPath(inner[key])
    BY <1>1, <2>1, IntoIsPath
  <2>3. BlockLabels(key, barred, blocks[b])
    BY DEF ReasoningLabels
  <2>4. Below(key, barred, inner[key], BlockCitations(inner, blocks[b]))
    BY <2>2, <2>3, BlockIsBranch, BranchIsBelow
  <2> QED
    BY <2>1, <2>4
<1>6. Labels(key, barred, blocks)
  BY DEF ReasoningLabels
<1>7. ReasoningCitations(place, r) = ((S \cup Y) \cup Q) \cup Z
  <2>1. Z = UNION {BlockCitations(Into(place, "reasoning_blocks", blocks, b), blocks[b]) : b \in DOMAIN blocks}
    BY DEF AllOf
  <2> HIDE DEF Z, sub
  <2> QED
    BY <2>1 DEF ReasoningCitations
<1>13. DOMAIN sub = DOMAIN blocks
  OBVIOUS
<1> HIDE DEF sub, blocks
<1>8. Branch(key, barred, place[key], {"reasoning_blocks"}, Z)
  BY <1>1, <1>5, <1>6, <1>13, ArrayIsBranch
<1> HIDE DEF S, Y, Q, Z
<1>9. Branch(key, barred, place[key], ObjectFields \cup {"support"}, S \cup Y)
  BY <1>2, <1>3, BranchesJoin DEF ObjectFields
<1>10. Branch(key, barred, place[key], (ObjectFields \cup {"support"}) \cup {"affected_assets"}, (S \cup Y) \cup Q)
  BY <1>4, <1>9, BranchesJoin DEF ObjectFields
<1>11. Branch(key, barred, place[key],
              ((ObjectFields \cup {"support"}) \cup {"affected_assets"}) \cup {"reasoning_blocks"},
              ((S \cup Y) \cup Q) \cup Z)
  BY <1>8, <1>10, BranchesJoin DEF ObjectFields
<1>12. ((ObjectFields \cup {"support"}) \cup {"affected_assets"}) \cup {"reasoning_blocks"} = ReasoningFields
  BY DEF ReasoningFields
<1> QED
  BY <1>7, <1>11, <1>12

UnitLabels(key, barred, u) ==
    /\ u.signals = Absent \/ Labels(key, barred, u.signals)
    /\ Labels(key, barred, u.reasonings)
    /\ \A r \in DOMAIN u.reasonings : ReasoningLabels(key, barred, u.reasonings[r])
    /\ Labels(key, barred, u.companies)
    /\ \A c \in DOMAIN u.companies : ObjectLabels(key, barred, u.companies[c])

UnitFields == {"summary", "impact_assessment", "detail", "reasonings", "companies"}

LEMMA DetailIsBranch ==
    ASSUME NEW key, NEW barred, Naming(key, barred), NEW place, IsPath(place[key]),
           NEW u, UnitLabels(key, barred, u)
    PROVE  Branch(key, barred, place[key], {"detail"}, SignalCitations(Under(place, "detail"), u))
<1>1. PICK inner : inner = Under(place, "detail")
  OBVIOUS
<1>2. key \in {"path", "at"} /\ "detail" \in ScopeFields /\ "detail" \notin barred
  BY DEF Naming, ScopeFields
<1>3. inner[key] = Append(place[key], "detail")
  BY <1>1, <1>2, PlaceOfField
<1>4. IsPath(inner[key])
  BY <1>3, LongerPath
<1>5. Below(key, barred, inner[key], SignalCitations(inner, u))
  BY <1>4, SignalsAreBranch, BranchIsBelow DEF UnitLabels
<1> QED
  BY <1>1, <1>2, <1>3, <1>5, BranchOfField

LEMMA UnitIsBranch ==
    ASSUME NEW key, NEW barred, Naming(key, barred), NEW place, IsPath(place[key]),
           NEW u, UnitLabels(key, barred, u)
    PROVE  Branch(key, barred, place[key], UnitFields, UnitCitations(place, u))
<1> DEFINE S == {Citation(Under(place, "summary"), u.summary)}
           Y == {Citation(Under(place, "impact_assessment"), u.summary.impact)}
           Q == SignalCitations(Under(place, "detail"), u)
           array == u.reasonings
           sub == [r \in DOMAIN array |-> ReasoningCitations(Into(place, "reasonings", array, r), array[r])]
           Z == AllOf(sub)
           X == EachObjectCites(place, "companies", u.companies)
<1>1. /\ key \in {"path", "at"}
      /\ {"summary", "impact_assessment", "detail", "reasonings", "companies"} \subseteq ScopeFields
  BY DEF Naming, ScopeFields
<1>2. Branch(key, barred, place[key], {"summary"}, S)
  BY <1>1, FieldIsBranch
<1>3. Branch(key, barred, place[key], {"impact_assessment"}, Y)
  BY <1>1, FieldIsBranch
<1>4. Branch(key, barred, place[key], {"detail"}, Q)
  BY DetailIsBranch
<1>5. ASSUME NEW r \in DOMAIN array
      PROVE  Below(key, barred, Into(place, "reasonings", array, r)[key], sub[r])
  <2>1. PICK inner : inner = Into(place, "reasonings", array, r)
    OBVIOUS
  <2>2. IsPath(inner[key])
    BY <1>1, <2>1, IntoIsPath
  <2>3. ReasoningLabels(key, barred, array[r])
    BY DEF UnitLabels
  <2>4. Below(key, barred, inner[key], ReasoningCitations(inner, array[r]))
    BY <2>2, <2>3, ReasoningIsBranch, BranchIsBelow
  <2> QED
    BY <2>1, <2>4
<1>6. Branch(key, barred, place[key], {"companies"}, X)
  BY <1>1, ObjectsAreBranch DEF UnitLabels
<1>7. Labels(key, barred, array)
  BY DEF UnitLabels
<1>8. UnitCitations(place, u) = (((S \cup Y) \cup Q) \cup Z) \cup X
  <2>1. Z = EachReasoningCites(place, array)
    BY DEF AllOf, EachReasoningCites
  <2> HIDE DEF Z, sub
  <2>2. UnitCitations(place, u) =
          {Citation(Under(place, "summary"), u.summary),
           Citation(Under(place, "impact_assessment"), u.summary.impact)}
          \cup Q \cup EachReasoningCites(place, array) \cup X
    BY DEF UnitCitations
  <2> HIDE DEF Q, X
  <2> QED
    BY <2>1, <2>2
<1>9. DOMAIN sub = DOMAIN array
  OBVIOUS
<1> HIDE DEF sub, array
<1>10. Branch(key, barred, place[key], {"reasonings"}, Z)
  BY <1>1, <1>5, <1>7, <1>9, ArrayIsBranch
<1> HIDE DEF S, Y, Q, Z, X
<1>11. Branch(key, barred, place[key], {"summary"} \cup {"impact_assessment"}, S \cup Y)
  BY <1>2, <1>3, BranchesJoin
<1>12. Branch(key, barred, place[key], ({"summary"} \cup {"impact_assessment"}) \cup {"detail"}, (S \cup Y) \cup Q)
  BY <1>4, <1>11, BranchesJoin
<1>13. Branch(key, barred, place[key],
              (({"summary"} \cup {"impact_assessment"}) \cup {"detail"}) \cup {"reasonings"},
              ((S \cup Y) \cup Q) \cup Z)
  BY <1>10, <1>12, BranchesJoin
<1>14. Branch(key, barred, place[key],
              ((({"summary"} \cup {"impact_assessment"}) \cup {"detail"}) \cup {"reasonings"}) \cup {"companies"},
              (((S \cup Y) \cup Q) \cup Z) \cup X)
  BY <1>6, <1>13, BranchesJoin
<1>15. ((({"summary"} \cup {"impact_assessment"}) \cup {"detail"}) \cup {"reasonings"}) \cup {"companies"}
         = UnitFields
  BY DEF UnitFields
<1> QED
  BY <1>8, <1>14, <1>15

ReportLabels(key, barred, report) ==
    /\ \A kind \in AnalysisKinds :
         /\ Labels(key, barred, report.analyses[kind])
         /\ \A i \in DOMAIN report.analyses[kind] : UnitLabels(key, barred, report.analyses[kind][i])
    /\ Labels(key, barred, report.companies)
    /\ \A c \in DOMAIN report.companies : ObjectLabels(key, barred, report.companies[c])
    /\ Labels(key, barred, report.observations)

LEMMA KindIsBranch ==
    ASSUME NEW key, NEW barred, Naming(key, barred), NEW report, ReportLabels(key, barred, report),
           NEW kind \in AnalysisKinds
    PROVE  Branch(key, barred, <<>>, {kind}, EachUnitCites(kind, report.analyses[kind]))
<1> DEFINE array == report.analyses[kind]
           sub == [i \in DOMAIN array |-> UnitCitations(Into(Root, kind, array, i), array[i])]
<1>1. key \in {"path", "at"} /\ kind \in ScopeFields
  BY DEF Naming, ScopeFields
<1>2. Root[key] = <<>> /\ IsPath(<<>>)
  BY <1>1 DEF Root, IsPath
<1>3. ASSUME NEW i \in DOMAIN array
      PROVE  Below(key, barred, Into(Root, kind, array, i)[key], sub[i])
  <2>1. PICK inner : inner = Into(Root, kind, array, i)
    OBVIOUS
  <2>2. IsPath(inner[key])
    BY <1>1, <1>2, <2>1, IntoIsPath
  <2>3. UnitLabels(key, barred, array[i])
    BY DEF ReportLabels
  <2>4. Below(key, barred, inner[key], UnitCitations(inner, array[i]))
    BY <2>2, <2>3, UnitIsBranch, BranchIsBelow
  <2> QED
    BY <2>1, <2>4
<1>4. EachUnitCites(kind, report.analyses[kind]) = AllOf(sub)
  BY DEF EachUnitCites, AllOf
<1>5. Labels(key, barred, array)
  BY DEF ReportLabels
<1>6. DOMAIN sub = DOMAIN array
  OBVIOUS
<1> HIDE DEF sub, array
<1>7. Branch(key, barred, Root[key], {kind}, AllOf(sub))
  BY <1>1, <1>2, <1>3, <1>5, <1>6, ArrayIsBranch
<1> QED
  BY <1>2, <1>4, <1>7

\* Where the names of all arrays tell their elements apart, the citations of a report are
\* told apart by where they are.
LEMMA ReportIsBranch ==
    ASSUME NEW key, NEW barred, Naming(key, barred), NEW report, ReportLabels(key, barred, report)
    PROVE  Branch(key, barred, <<>>, AnalysisKinds \cup {"company_analyses", "observations"},
                  UnifiedEvidenceScopes(report))
<1> DEFINE sub == [kind \in AnalysisKinds |-> EachUnitCites(kind, report.analyses[kind])]
           S == AllOf(sub)
           Y == EachObjectCites(Root, "company_analyses", report.companies)
           Q == EachCites(Root, "observations", report.observations)
<1>1. key \in {"path", "at"} /\ {"company_analyses", "observations"} \subseteq ScopeFields
  BY DEF Naming, ScopeFields
<1>2. Root[key] = <<>> /\ IsPath(<<>>)
  BY <1>1 DEF Root, IsPath
<1>3. \A kind \in AnalysisKinds : Branch(key, barred, <<>>, {kind}, sub[kind])
  BY KindIsBranch
<1>4. UnifiedEvidenceScopes(report) = (S \cup Y) \cup Q
  <2>1. \A c : c \in S <=> \E kind \in AnalysisKinds : c \in EachUnitCites(kind, report.analyses[kind])
    BY DEF AllOf
  <2> HIDE DEF S, sub, Y, Q
  <2>2. ASSUME NEW c
        PROVE  c \in UnifiedEvidenceScopes(report) <=>
               \/ \E kind \in AnalysisKinds : c \in EachUnitCites(kind, report.analyses[kind])
               \/ c \in EachObjectCites(Root, "company_analyses", report.companies)
               \/ c \in EachCites(Root, "observations", report.observations)
    BY ONLY DEF UnifiedEvidenceScopes
  <2> QED
    BY <2>1, <2>2 DEF Y, Q
<1>5. DOMAIN sub = AnalysisKinds
  OBVIOUS
<1> HIDE DEF sub
<1>6. Branch(key, barred, <<>>, AnalysisKinds, S)
  BY <1>2, <1>3, <1>5, BranchOfFields
<1>7. Branch(key, barred, Root[key], {"company_analyses"}, Y)
  BY <1>1, <1>2, ObjectsAreBranch DEF ReportLabels
<1>8. Branch(key, barred, Root[key], {"observations"}, Q)
  BY <1>1, <1>2, EachIsBranch DEF ReportLabels
<1> HIDE DEF S, Y, Q
<1>9. {"company_analyses", "observations"} \cap AnalysisKinds = {}
  BY DEF AnalysisKinds
<1>10. Branch(key, barred, <<>>, AnalysisKinds \cup {"company_analyses"}, S \cup Y)
  BY <1>2, <1>6, <1>7, <1>9, BranchesJoin
<1>11. Branch(key, barred, <<>>, (AnalysisKinds \cup {"company_analyses"}) \cup {"observations"}, (S \cup Y) \cup Q)
  BY <1>2, <1>8, <1>9, <1>10, BranchesJoin
<1>12. (AnalysisKinds \cup {"company_analyses"}) \cup {"observations"}
         = AnalysisKinds \cup {"company_analyses", "observations"}
  OBVIOUS
<1> QED
  BY <1>4, <1>11, <1>12

-----------------------------------------------------------------------------
(* Reports: what the validation says of the names *)

LEMMA KeysTellApart ==
    ASSUME NEW array, Keyed(array),
           \A i, j \in DOMAIN array : array[i].key \notin LongKeys /\ (array[i].key = array[j].key => i = j)
    PROVE  Labels("path", LongKeys, array)
<1>1. \A i \in DOMAIN array : Label("path", array, i) = array[i].key
  BY DEF Keyed, Range, Label
<1> QED
  BY <1>1 DEF Labels

LEMMA LocalKeysTellApart ==
    ASSUME NEW array, Keyed(array), NormalizedKeys(array)
    PROVE  Labels("path", LongKeys, array)
<1>1. \A i, j \in DOMAIN array : array[i].key \notin LongKeys /\ (array[i].key = array[j].key => i = j)
  BY KeysHaveRoom DEF NormalizedKeys
<1> QED
  BY <1>1, KeysTellApart

LEMMA IndexesTellApart ==
    ASSUME NEW array, Unkeyed(array)
    PROVE  Labels("path", LongKeys, array)
<1>1. \A i \in DOMAIN array : Label("path", array, i) = i
  BY DEF Unkeyed, Range, Label
<1>2. DOMAIN array \subseteq Nat
  BY DEF Unkeyed, Array
<1> QED
  BY <1>1, <1>2, KeysHaveRoom DEF Labels

LEMMA ObjectNames ==
    ASSUME NEW x, ObjectForm(x)
    PROVE  ObjectLabels("path", LongKeys, x)
BY IndexesTellApart DEF ObjectForm, ObjectLabels

LEMMA ReasoningNames ==
    ASSUME NEW r, ReasoningForm(r), NEW kind, UnifiedReasoning(kind, r)
    PROVE  ReasoningLabels("path", LongKeys, r)
<1>1. ObjectLabels("path", LongKeys, r)
  BY ObjectNames DEF ReasoningForm
<1>2. Labels("path", LongKeys, r.assets) /\ Labels("path", LongKeys, r.blocks)
  BY LocalKeysTellApart DEF ReasoningForm, UnifiedReasoning
<1>3. ASSUME NEW a \in DOMAIN r.assets
      PROVE  ObjectLabels("path", LongKeys, r.assets[a])
  BY ObjectNames DEF ReasoningForm, Range
<1>4. ASSUME NEW b \in DOMAIN r.blocks
      PROVE  BlockLabels("path", LongKeys, r.blocks[b])
  <2>1. PICK block : block = r.blocks[b]
    OBVIOUS
  <2>2. block \in Range(r.blocks)
    BY <2>1 DEF Range
  <2>3. UnifiedBlock(block)
    BY <2>2 DEF UnifiedReasoning
  <2>4. Keyed(block.nodes) /\ \A n \in Range(block.nodes) : Unkeyed(n.metrics)
    BY <2>2 DEF ReasoningForm
  <2>5. Labels("path", LongKeys, block.nodes)
    BY <2>3, <2>4, LocalKeysTellApart DEF UnifiedBlock
  <2>6. \A n \in DOMAIN block.nodes : Labels("path", LongKeys, block.nodes[n].metrics)
    BY <2>4, IndexesTellApart DEF Range
  <2> QED
    BY <2>1, <2>5, <2>6 DEF BlockLabels
<1> QED
  BY <1>1, <1>2, <1>3, <1>4 DEF ReasoningLabels

\* Keys of an array that nobody validates, when they give no trouble.
KeysFit(array) ==
    \A i, j \in DOMAIN array :
        ~(array[i].key \in LongKeys \/ (i # j /\ array[i].key = array[j].key))

LEMMA FittingKeysTellApart ==
    ASSUME NEW array, Keyed(array), KeysFit(array)
    PROVE  Labels("path", LongKeys, array)
BY KeysTellApart DEF KeysFit

LEMMA UnitNames ==
    ASSUME NEW u, UnitForm(u), NEW kind, ValidateUnifiedUnit(kind, u), KeysFit(u.companies)
    PROVE  UnitLabels("path", LongKeys, u)
<1>1. u.signals = Absent \/ Labels("path", LongKeys, u.signals)
  BY IndexesTellApart DEF UnitForm
<1>2. Labels("path", LongKeys, u.reasonings)
  BY LocalKeysTellApart DEF UnitForm, ValidateUnifiedUnit
<1>3. ASSUME NEW r \in DOMAIN u.reasonings
      PROVE  ReasoningLabels("path", LongKeys, u.reasonings[r])
  <2>1. u.reasonings[r] \in Range(u.reasonings)
    BY DEF Range
  <2> QED
    BY <2>1, ReasoningNames DEF UnitForm, ValidateUnifiedUnit
<1>4. Labels("path", LongKeys, u.companies)
  BY FittingKeysTellApart DEF UnitForm
<1>5. \A c \in DOMAIN u.companies : ObjectLabels("path", LongKeys, u.companies[c])
  BY ObjectNames DEF UnitForm, Range
<1> QED
  BY <1>1, <1>2, <1>3, <1>4, <1>5 DEF UnitLabels

\* The arrays whose keys nobody validates.
UncheckedFit(report) ==
    /\ KeysFit(report.observations) /\ KeysFit(report.companies)
    /\ \A kind \in AnalysisKinds : \A u \in Range(report.analyses[kind]) : KeysFit(u.companies)

LEMMA ReportNames ==
    ASSUME NEW report, ReportForm(report), ValidateUnifiedReport(report), UncheckedFit(report)
    PROVE  ReportLabels("path", LongKeys, report)
<1>1. ASSUME NEW kind \in AnalysisKinds
      PROVE  /\ Labels("path", LongKeys, report.analyses[kind])
             /\ \A i \in DOMAIN report.analyses[kind] :
                   UnitLabels("path", LongKeys, report.analyses[kind][i])
  <2>1. PICK array : array = report.analyses[kind]
    OBVIOUS
  <2>2. /\ Keyed(array) /\ \A u \in Range(array) : UnitForm(u)
        /\ NormalizedKeys(array) /\ \A u \in Range(array) : ValidateUnifiedUnit(kind, u)
        /\ \A u \in Range(array) : KeysFit(u.companies)
    BY <2>1 DEF ReportForm, ValidateUnifiedReport, UncheckedFit
  <2>3. Labels("path", LongKeys, array)
    BY <2>2, LocalKeysTellApart
  <2>4. \A i \in DOMAIN array : UnitLabels("path", LongKeys, array[i])
    BY <2>2, UnitNames DEF Range
  <2> QED
    BY <2>1, <2>3, <2>4
<1>2. Labels("path", LongKeys, report.companies) /\ Labels("path", LongKeys, report.observations)
  BY FittingKeysTellApart DEF ReportForm, UncheckedFit
<1>3. \A c \in DOMAIN report.companies : ObjectLabels("path", LongKeys, report.companies[c])
  BY ObjectNames DEF ReportForm, Range
<1> QED
  BY <1>1, <1>2, <1>3 DEF ReportLabels

\* Citations of a validated report that have one path are one, and no key is too long.
LEMMA PathsTellApart ==
    ASSUME NEW report, ReportForm(report), ValidateUnifiedReport(report), UncheckedFit(report)
    PROVE  /\ \A c, d \in UnifiedEvidenceScopes(report) : c.path = d.path => c = d
           /\ \A c \in UnifiedEvidenceScopes(report) : \A i \in DOMAIN c.path : c.path[i] \notin LongKeys
<1>1. Naming("path", LongKeys)
  BY KeysHaveRoom DEF Naming
<1>2. ReportLabels("path", LongKeys, report)
  BY ReportNames
<1>3. Branch("path", LongKeys, <<>>, AnalysisKinds \cup {"company_analyses", "observations"},
             UnifiedEvidenceScopes(report))
  BY <1>1, <1>2, ReportIsBranch
<1>4. \A c, d \in UnifiedEvidenceScopes(report) : c.path = d.path => c = d
  BY <1>3 DEF Branch
<1>5. ASSUME NEW c \in UnifiedEvidenceScopes(report), NEW i \in DOMAIN c.path
      PROVE  c.path[i] \notin LongKeys
  <2>1. PICK p : p = c.path
    OBVIOUS
  <2>2. IsPath(p) /\ \A k \in 1 .. Len(p) : k > 0 => p[k] \notin LongKeys
    BY <1>3, <2>1 DEF Branch
  <2>3. DOMAIN p = 1 .. Len(p) /\ Len(p) \in Nat
    BY <2>2 DEF IsPath
  <2> QED
    BY <2>1, <2>2, <2>3
<1> QED
  BY <1>4, <1>5

\* Whatever its keys, a citation has a place of its own in the document.
LEMMA PlacesTellApart ==
    ASSUME NEW report
    PROVE  \A c, d \in UnifiedEvidenceScopes(report) : c.at = d.at => c = d
<1>1. Naming("at", {})
  BY DEF Naming
<1>2. \A array : Labels("at", {}, array)
  BY DEF Labels, Label
<1>3. ReportLabels("at", {}, report)
  <2>1. \A x : ObjectLabels("at", {}, x)
    BY <1>2 DEF ObjectLabels
  <2>2. \A x : BlockLabels("at", {}, x)
    BY <1>2 DEF BlockLabels
  <2>3. \A x : ReasoningLabels("at", {}, x)
    BY <1>2, <2>1, <2>2 DEF ReasoningLabels
  <2>4. \A x : UnitLabels("at", {}, x)
    BY <1>2, <2>1, <2>3 DEF UnitLabels
  <2> QED
    BY <1>2, <2>1, <2>4 DEF ReportLabels
<1>4. Branch("at", {}, <<>>, AnalysisKinds \cup {"company_analyses", "observations"},
             UnifiedEvidenceScopes(report))
  BY <1>1, <1>3, ReportIsBranch
<1> QED
  BY <1>4 DEF Branch

-----------------------------------------------------------------------------
(* Reports: a unit that is asked for by its key *)

\* Every citation of the one has a citation of the other with its path and its list.
FoundIn(S, Y) == \A c \in S : \E d \in Y : d.path = c.path /\ d.ids = c.ids

LEMMA FoundInUnions ==
    ASSUME NEW S, NEW Y, NEW Q, NEW Z, FoundIn(S, Y), FoundIn(Q, Z)
    PROVE  FoundIn(S \cup Q, Y \cup Z)
BY DEF FoundIn

LEMMA FoundInParts ==
    ASSUME NEW sub, NEW other, DOMAIN sub = DOMAIN other,
           \A i \in DOMAIN sub : FoundIn(sub[i], other[i])
    PROVE  FoundIn(AllOf(sub), AllOf(other))
<1> SUFFICES ASSUME NEW c \in AllOf(sub)
             PROVE  \E d \in AllOf(other) : d.path = c.path /\ d.ids = c.ids
  BY DEF FoundIn
<1>1. PICK i \in DOMAIN sub : c \in sub[i]
  BY DEF AllOf
<1>2. PICK d \in other[i] : d.path = c.path /\ d.ids = c.ids
  BY <1>1 DEF FoundIn
<1> QED
  BY <1>1, <1>2 DEF AllOf

LEMMA SamePaths ==
    ASSUME NEW p, NEW q, p.path = q.path, NEW field
    PROVE  /\ Under(p, field).path = Under(q, field).path
           /\ \A array, i : Into(p, field, array, i).path = Into(q, field, array, i).path
           /\ \A x : FoundIn({Citation(p, x)}, {Citation(q, x)})
BY DEF Under, Into, Citation, FoundIn

LEMMA EachIsFound ==
    ASSUME NEW p, NEW q, p.path = q.path, NEW field, NEW array
    PROVE  FoundIn(EachCites(p, field, array), EachCites(q, field, array))
<1> SUFFICES ASSUME NEW i \in DOMAIN array
             PROVE  \E d \in EachCites(q, field, array) :
                      /\ d.path = Citation(Into(p, field, array, i), array[i]).path
                      /\ d.ids = Citation(Into(p, field, array, i), array[i]).ids
  BY DEF FoundIn, EachCites
<1>1. Citation(Into(q, field, array, i), array[i]) \in EachCites(q, field, array)
  BY DEF EachCites
<1>2. Into(p, field, array, i).path = Into(q, field, array, i).path
  BY SamePaths
<1> QED
  BY <1>1, <1>2 DEF Citation

LEMMA SignalsAreFound ==
    ASSUME NEW p, NEW q, p.path = q.path, NEW x
    PROVE  FoundIn(SignalCitations(p, x), SignalCitations(q, x))
<1>1. CASE x.signals = Absent
  BY <1>1 DEF SignalCitations, FoundIn
<1>2. CASE x.signals # Absent
  BY <1>2, EachIsFound DEF SignalCitations
<1> QED
  BY <1>1, <1>2

LEMMA ObjectIsFound ==
    ASSUME NEW p, NEW q, p.path = q.path, NEW x
    PROVE  FoundIn(ObjectCitations(p, x), ObjectCitations(q, x))
<1>1. FoundIn({Citation(Under(p, "assessment"), x.assessment)},
              {Citation(Under(q, "assessment"), x.assessment)})
  BY SamePaths
<1>2. FoundIn(ObjectionCitations(p, x.objections), ObjectionCitations(q, x.objections))
  <2>1. Under(p, "objections").path = Under(q, "objections").path
    BY SamePaths
  <2> QED
    BY <2>1, EachIsFound, FoundInUnions DEF ObjectionCitations
<1>3. FoundIn(SignalCitations(p, x), SignalCitations(q, x))
  BY SignalsAreFound
<1> QED
  BY <1>1, <1>2, <1>3, FoundInUnions DEF ObjectCitations

LEMMA ObjectsAreFound ==
    ASSUME NEW p, NEW q, p.path = q.path, NEW field, NEW array
    PROVE  FoundIn(EachObjectCites(p, field, array), EachObjectCites(q, field, array))
<1> DEFINE sub == [i \in DOMAIN array |-> ObjectCitations(Into(p, field, array, i), array[i])]
           other == [i \in DOMAIN array |-> ObjectCitations(Into(q, field, array, i), array[i])]
<1>1. ASSUME NEW i \in DOMAIN array
      PROVE  FoundIn(sub[i], other[i])
  <2>1. Into(p, field, array, i).path = Into(q, field, array, i).path
    BY SamePaths
  <2> QED
    BY <2>1, ObjectIsFound
<1>2. AllOf(sub) = EachObjectCites(p, field, array) /\ AllOf(other) = EachObjectCites(q, field, array)
  BY DEF AllOf, EachObjectCites
<1>3. DOMAIN sub = DOMAIN other /\ DOMAIN sub = DOMAIN array
  OBVIOUS
<1> HIDE DEF sub, other
<1> QED
  BY <1>1, <1>2, <1>3, FoundInParts

LEMMA BlockIsFound ==
    ASSUME NEW p, NEW q, p.path = q.path, NEW block
    PROVE  FoundIn(BlockCitations(p, block), BlockCitations(q, block))
<1> DEFINE nodes == block.nodes
           sub == [n \in DOMAIN nodes |-> EachCites(Into(p, "nodes", nodes, n), "metrics", nodes[n].metrics)]
           other == [n \in DOMAIN nodes |-> EachCites(Into(q, "nodes", nodes, n), "metrics", nodes[n].metrics)]
<1>1. ASSUME NEW n \in DOMAIN nodes
      PROVE  FoundIn(sub[n], other[n])
  <2>1. Into(p, "nodes", nodes, n).path = Into(q, "nodes", nodes, n).path
    BY SamePaths
  <2> QED
    BY <2>1, EachIsFound
<1>2. AllOf(sub) = BlockCitations(p, block) /\ AllOf(other) = BlockCitations(q, block)
  BY DEF AllOf, BlockCitations
<1>3. DOMAIN sub = DOMAIN other /\ DOMAIN sub = DOMAIN nodes
  OBVIOUS
<1> HIDE DEF sub, other
<1> QED
  BY <1>1, <1>2, <1>3, FoundInParts

LEMMA ReasoningIsFound ==
    ASSUME NEW p, NEW q, p.path = q.path, NEW r
    PROVE  FoundIn(ReasoningCitations(p, r), ReasoningCitations(q, r))
<1> DEFINE blocks == r.blocks
           sub == [b \in DOMAIN blocks |-> BlockCitations(Into(p, "reasoning_blocks", blocks, b), blocks[b])]
           other == [b \in DOMAIN blocks |-> BlockCitations(Into(q, "reasoning_blocks", blocks, b), blocks[b])]
           Support(place) == IF r.support = Absent THEN {} ELSE {Citation(Under(place, "support"), r.support)}
           Assets(place) == EachObjectCites(place, "affected_assets", r.assets)
<1>1. ASSUME NEW b \in DOMAIN blocks
      PROVE  FoundIn(sub[b], other[b])
  <2>1. Into(p, "reasoning_blocks", blocks, b).path = Into(q, "reasoning_blocks", blocks, b).path
    BY SamePaths
  <2> QED
    BY <2>1, BlockIsFound
<1>2. /\ AllOf(sub) = UNION {BlockCitations(Into(p, "reasoning_blocks", blocks, b), blocks[b]) : b \in DOMAIN blocks}
      /\ AllOf(other) = UNION {BlockCitations(Into(q, "reasoning_blocks", blocks, b), blocks[b]) : b \in DOMAIN blocks}
  BY DEF AllOf
<1>3. DOMAIN sub = DOMAIN other /\ DOMAIN sub = DOMAIN blocks
  OBVIOUS
<1>4. FoundIn(Support(p), Support(q))
  <2>1. CASE r.support = Absent
    BY <2>1 DEF FoundIn
  <2>2. CASE r.support # Absent
    <3>1. Under(p, "support").path = Under(q, "support").path
      BY SamePaths
    <3>2. FoundIn({Citation(Under(p, "support"), r.support)}, {Citation(Under(q, "support"), r.support)})
      BY <3>1, SamePaths
    <3> QED
      BY <2>2, <3>2
  <2> QED
    BY <2>1, <2>2
<1>5. FoundIn(ObjectCitations(p, r), ObjectCitations(q, r)) /\ FoundIn(Assets(p), Assets(q))
  BY ObjectIsFound, ObjectsAreFound
<1>6. /\ ReasoningCitations(p, r) = ((ObjectCitations(p, r) \cup Support(p)) \cup Assets(p)) \cup AllOf(sub)
      /\ ReasoningCitations(q, r) = ((ObjectCitations(q, r) \cup Support(q)) \cup Assets(q)) \cup AllOf(other)
  <2> HIDE DEF sub, other
  <2> QED
    BY <1>2 DEF ReasoningCitations
<1> HIDE DEF sub, other, blocks, Support, Assets
<1>7. FoundIn(AllOf(sub), AllOf(other))
  BY <1>1, <1>3, FoundInParts
<1>8. FoundIn(ObjectCitations(p, r) \cup Support(p), ObjectCitations(q, r) \cup Support(q))
  BY <1>4, <1>5, FoundInUnions
<1>9. FoundIn((ObjectCitations(p, r) \cup Support(p)) \cup Assets(p),
              (ObjectCitations(q, r) \cup Support(q)) \cup Assets(q))
  BY <1>5, <1>8, FoundInUnions
<1>10. FoundIn(((ObjectCitations(p, r) \cup Support(p)) \cup Assets(p)) \cup AllOf(sub),
               ((ObjectCitations(q, r) \cup Support(q)) \cup Assets(q)) \cup AllOf(other))
  BY <1>7, <1>9, FoundInUnions
<1> QED
  BY <1>6, <1>10

LEMMA ReasoningsAreFound ==
    ASSUME NEW p, NEW q, p.path = q.path, NEW array
    PROVE  FoundIn(EachReasoningCites(p, array), EachReasoningCites(q, array))
<1> DEFINE sub == [r \in DOMAIN array |-> ReasoningCitations(Into(p, "reasonings", array, r), array[r])]
           other == [r \in DOMAIN array |-> ReasoningCitations(Into(q, "reasonings", array, r), array[r])]
<1>1. ASSUME NEW r \in DOMAIN array
      PROVE  FoundIn(sub[r], other[r])
  <2>1. Into(p, "reasonings", array, r).path = Into(q, "reasonings", array, r).path
    BY SamePaths
  <2> QED
    BY <2>1, ReasoningIsFound
<1>2. AllOf(sub) = EachReasoningCites(p, array) /\ AllOf(other) = EachReasoningCites(q, array)
  BY DEF AllOf, EachReasoningCites
<1>3. DOMAIN sub = DOMAIN other /\ DOMAIN sub = DOMAIN array
  OBVIOUS
<1> HIDE DEF sub, other
<1> QED
  BY <1>1, <1>2, <1>3, FoundInParts

LEMMA UnitIsFound ==
    ASSUME NEW p, NEW q, p.path = q.path, NEW u
    PROVE  FoundIn(UnitCitations(p, u), UnitCitations(q, u))
<1> DEFINE Heading(place) == {Citation(Under(place, "summary"), u.summary)}
           Impact(place) == {Citation(Under(place, "impact_assessment"), u.summary.impact)}
           Detail(place) == SignalCitations(Under(place, "detail"), u)
           Reasons(place) == EachReasoningCites(place, u.reasonings)
           Firms(place) == EachObjectCites(place, "companies", u.companies)
           All(place) == (((Heading(place) \cup Impact(place)) \cup Detail(place)) \cup Reasons(place)) \cup Firms(place)
<1>1. FoundIn(Heading(p), Heading(q)) /\ FoundIn(Impact(p), Impact(q))
  BY SamePaths
<1>2. FoundIn(Detail(p), Detail(q))
  <2>1. Under(p, "detail").path = Under(q, "detail").path
    BY SamePaths
  <2> QED
    BY <2>1, SignalsAreFound
<1>3. FoundIn(Reasons(p), Reasons(q)) /\ FoundIn(Firms(p), Firms(q))
  BY ReasoningsAreFound, ObjectsAreFound
<1>4. UnitCitations(p, u) = All(p) /\ UnitCitations(q, u) = All(q)
  BY DEF UnitCitations
<1> HIDE DEF Heading, Impact, Detail, Reasons, Firms
<1>5. FoundIn(Heading(p) \cup Impact(p), Heading(q) \cup Impact(q))
  BY <1>1, FoundInUnions
<1>6. FoundIn((Heading(p) \cup Impact(p)) \cup Detail(p), (Heading(q) \cup Impact(q)) \cup Detail(q))
  BY <1>2, <1>5, FoundInUnions
<1>7. FoundIn(((Heading(p) \cup Impact(p)) \cup Detail(p)) \cup Reasons(p),
              ((Heading(q) \cup Impact(q)) \cup Detail(q)) \cup Reasons(q))
  BY <1>3, <1>6, FoundInUnions
<1>8. FoundIn(All(p), All(q))
  BY <1>3, <1>7, FoundInUnions
<1> QED
  BY <1>4, <1>8

\* The path of a unit or company of the report is the one its key is asked with.
LEMMA AskedByKey ==
    ASSUME NEW field, NEW array, NEW i \in DOMAIN array, Keyed(array)
    PROVE  ReadPlace(field, array[i].key).path = Into(Root, field, array, i).path
<1>1. "key" \in DOMAIN array[i]
  BY DEF Keyed, Range
<1>2. Into(Root, field, array, i).path = <<>> \o <<field, array[i].key>>
  BY <1>1 DEF Into, Root
<1>3. PICK l : l = array[i].key
  OBVIOUS
<1>4. <<>> \o <<field, l>> = <<field, l>>
  <2>1. <<field, l>> \in Seq({field, l})
    OBVIOUS
  <2> QED
    BY <2>1
<1> QED
  BY <1>2, <1>3, <1>4 DEF ReadPlace

LEMMA UnitIsAskedFor ==
    ASSUME NEW report, ReportForm(report), NEW kind \in AnalysisKinds,
           NEW u \in Range(report.analyses[kind])
    PROVE  FoundIn(UnitCitations(ReadPlace(kind, u.key), u), UnifiedEvidenceScopes(report))
<1>1. PICK array : array = report.analyses[kind]
  OBVIOUS
<1>2. PICK i \in DOMAIN array : u = array[i]
  BY <1>1 DEF Range
<1>3. Keyed(array)
  BY <1>1 DEF ReportForm
<1>4. ReadPlace(kind, u.key).path = Into(Root, kind, array, i).path
  BY <1>2, <1>3, AskedByKey
<1>5. FoundIn(UnitCitations(ReadPlace(kind, u.key), u), UnitCitations(Into(Root, kind, array, i), u))
  BY <1>4, UnitIsFound
<1>6. UnitCitations(Into(Root, kind, array, i), u) \subseteq EachUnitCites(kind, array)
  BY <1>2 DEF EachUnitCites
<1>7. EachUnitCites(kind, report.analyses[kind]) \subseteq UnifiedEvidenceScopes(report)
  BY ONLY kind \in AnalysisKinds DEF UnifiedEvidenceScopes
<1> QED
  BY <1>1, <1>5, <1>6, <1>7 DEF FoundIn

LEMMA CompanyIsAskedFor ==
    ASSUME NEW report, ReportForm(report), NEW c \in Range(report.companies)
    PROVE  FoundIn(ObjectCitations(ReadPlace("company_analyses", c.key), c), UnifiedEvidenceScopes(report))
<1>1. PICK array : array = report.companies
  OBVIOUS
<1>2. PICK i \in DOMAIN array : c = array[i]
  BY <1>1 DEF Range
<1>3. Keyed(array)
  BY <1>1 DEF ReportForm
<1>4. ReadPlace("company_analyses", c.key).path = Into(Root, "company_analyses", array, i).path
  BY <1>2, <1>3, AskedByKey
<1>5. FoundIn(ObjectCitations(ReadPlace("company_analyses", c.key), c),
              ObjectCitations(Into(Root, "company_analyses", array, i), c))
  BY <1>4, ObjectIsFound
<1>6. ObjectCitations(Into(Root, "company_analyses", array, i), c)
        \subseteq EachObjectCites(Root, "company_analyses", array)
  BY <1>2 DEF EachObjectCites
<1>7. EachObjectCites(Root, "company_analyses", report.companies) \subseteq UnifiedEvidenceScopes(report)
  BY ONLY DEF UnifiedEvidenceScopes
<1> QED
  BY <1>1, <1>5, <1>6, <1>7 DEF FoundIn

-----------------------------------------------------------------------------
(* Reports: what is accepted is stored with all it cites *)

LEMMA ListsAreCounted ==
    ASSUME NEW ids, Array(ids)
    PROVE  Cardinality(Range(ids)) = 0 <=> ids = <<>>
<1>1. ids \in Seq(Range(ids)) /\ DOMAIN ids = 1 .. Len(ids) /\ Len(ids) \in Nat
  BY DEF Array
<1>2. IsFiniteSet(1 .. Len(ids))
  BY <1>1, FS_Interval
<1>3. ids \in Surjection(1 .. Len(ids), Range(ids))
  BY <1>1 DEF Surjection, Range
<1>4. IsFiniteSet(Range(ids))
  BY <1>2, <1>3, FS_Surjection
<1>5. Cardinality(Range(ids)) = 0 <=> Range(ids) = {}
  BY <1>4, FS_EmptySet
<1>6. Range(ids) = {} <=> Len(ids) = 0
  <2>1. CASE Len(ids) = 0
    BY <1>1, <2>1 DEF Range
  <2>2. CASE Len(ids) # 0
    <3>1. 1 \in DOMAIN ids
      BY <1>1, <2>2
    <3>2. ids[1] \in Range(ids)
      BY <3>1 DEF Range
    <3> QED
      BY <2>2, <3>2
  <2> QED
    BY <2>1, <2>2
<1>7. Len(ids) = 0 <=> ids = <<>>
  BY <1>1
<1> QED
  BY <1>5, <1>6, <1>7

\* What is listed under a path is what a citation with this path cites.
LEMMA LinksOfCitations ==
    ASSUME NEW scopes, NEW path
    PROVE  path \in DOMAIN LinksOf(scopes) =>
             \E e \in scopes : e.path = path /\ e.ids # <<>> /\ LinksOf(scopes)[path] = e.ids
<1> SUFFICES ASSUME path \in DOMAIN LinksOf(scopes)
             PROVE  \E e \in scopes : e.path = path /\ e.ids # <<>> /\ LinksOf(scopes)[path] = e.ids
  OBVIOUS
<1> DEFINE e == CHOOSE c \in scopes : c.path = path /\ c.ids # <<>>
<1>1. \E c \in scopes : c.path = path /\ c.ids # <<>>
  BY DEF LinksOf
<1>2. e \in scopes /\ e.path = path /\ e.ids # <<>>
  BY <1>1
<1>3. LinksOf(scopes)[path] = e.ids
  BY DEF LinksOf
<1> QED
  BY <1>2, <1>3

LEMMA CitationsAreListed ==
    ASSUME NEW scopes, NEW d \in scopes, d.ids # <<>>
    PROVE  d.path \in DOMAIN LinksOf(scopes)
BY DEF LinksOf

\* Where paths tell the citations apart, the links are complete and the rows project.
LEMMA PlainStorageFits ==
    ASSUME NEW report \in Drafts, ValidateUnifiedReport(report), UncheckedFit(report)
    PROVE  /\ LinksFit(UnifiedEvidenceScopes(report))
           /\ StoredRowsProject(report, LinksOf(UnifiedEvidenceScopes(report)))
<1>1. PICK scopes : scopes = UnifiedEvidenceScopes(report)
  OBVIOUS
<1>2. ReportForm(report) /\ \A c \in scopes : Array(c.ids)
  BY <1>1, DraftForms
<1>3. /\ \A c, d \in scopes : c.path = d.path => c = d
      /\ \A c \in scopes : \A i \in DOMAIN c.path : c.path[i] \notin LongKeys
  BY <1>1, <1>2, PathsTellApart
<1>4. LinksFit(scopes)
  BY <1>3 DEF LinksFit
<1>5. ASSUME NEW S, FoundIn(S, scopes)
      PROVE  Projects(S, LinksOf(scopes))
  <2> SUFFICES ASSUME NEW c \in S
               PROVE  Cardinality(Range(c.ids)) =
                        (IF c.path \in DOMAIN LinksOf(scopes)
                         THEN Cardinality(Range(LinksOf(scopes)[c.path])) ELSE 0)
    BY DEF Projects
  <2>1. PICK d \in scopes : d.path = c.path /\ d.ids = c.ids
    BY <1>5 DEF FoundIn
  <2>2. CASE c.path \in DOMAIN LinksOf(scopes)
    <3>1. PICK e \in scopes : e.path = c.path /\ LinksOf(scopes)[c.path] = e.ids
      BY <2>2, LinksOfCitations
    <3>2. e = d
      BY <1>3, <2>1, <3>1
    <3> QED
      BY <2>1, <2>2, <3>1, <3>2
  <2>3. CASE c.path \notin DOMAIN LinksOf(scopes)
    <3>1. d.ids = <<>>
      BY <2>1, <2>3, CitationsAreListed
    <3>2. Cardinality(Range(c.ids)) = 0
      BY <1>2, <2>1, <3>1, ListsAreCounted
    <3> QED
      BY <2>3, <3>2
  <2> QED
    BY <2>2, <2>3
<1>6. StoredRowsProject(report, LinksOf(scopes))
  BY <1>1, <1>2, <1>5, UnitIsAskedFor, CompanyIsAskedFor DEF StoredRowsProject
<1> QED
  BY <1>1, <1>4, <1>6

\* Links that fit and rows that project list what was cited.
LEMMA StoredLinksAreCited ==
    ASSUME NEW report \in Drafts,
           LinksFit(UnifiedEvidenceScopes(report)),
           StoredRowsProject(report, LinksOf(UnifiedEvidenceScopes(report))),
           evidenceLinks = LinksOf(UnifiedEvidenceScopes(report)),
           NEW kind \in AnalysisKinds, NEW u \in Range(report.analyses[kind]),
           NEW c \in UnitCitations(ReadPlace(kind, u.key), u)
    PROVE  Listed(c.path) = c.ids
<1>1. PICK scopes : scopes = UnifiedEvidenceScopes(report)
  OBVIOUS
<1>2. ReportForm(report) /\ \A d \in scopes : Array(d.ids)
  BY <1>1, DraftForms
<1>3. \A d, e \in scopes : d.at = e.at => d = e
  BY <1>1, PlacesTellApart
<1>4. PICK d \in scopes : d.path = c.path /\ d.ids = c.ids
  BY <1>1, <1>2, UnitIsAskedFor DEF FoundIn
<1>5. CASE c.path \in DOMAIN LinksOf(scopes)
  <2>1. PICK e \in scopes : e.path = c.path /\ e.ids # <<>> /\ LinksOf(scopes)[c.path] = e.ids
    BY <1>5, LinksOfCitations
  <2>2. CASE d.ids # <<>>
    <3>1. e.at = d.at
      BY <1>1, <1>4, <2>1, <2>2 DEF LinksFit
    <3>2. e = d
      BY <1>3, <3>1
    <3> QED
      BY <1>1, <1>4, <1>5, <2>1, <3>2 DEF Listed
  <2>3. CASE d.ids = <<>>
    <3>1. Cardinality(Range(c.ids)) = Cardinality(Range(e.ids))
      <4>1. Projects(UnitCitations(ReadPlace(kind, u.key), u), LinksOf(scopes))
        BY <1>1 DEF StoredRowsProject
      <4> QED
        BY <1>5, <2>1, <4>1 DEF Projects
    <3>2. Cardinality(Range(c.ids)) = 0
      BY <1>2, <1>4, <2>3, ListsAreCounted
    <3>3. Cardinality(Range(e.ids)) # 0
      BY <1>2, <2>1, ListsAreCounted
    <3> QED
      BY <3>1, <3>2, <3>3
  <2> QED
    BY <2>2, <2>3
<1>6. CASE c.path \notin DOMAIN LinksOf(scopes)
  <2>1. d.ids = <<>>
    BY <1>4, <1>6, CitationsAreListed
  <2> QED
    BY <1>1, <1>4, <1>6, <2>1 DEF Listed
<1> QED
  BY <1>5, <1>6

-----------------------------------------------------------------------------

\* What is stored was validated, its links list what it cites and its rows project;
\* what failed was validated too, and failed at its links or its rows.
StorageFits ==
    LET scopes == UnifiedEvidenceScopes(draft)
    IN  LinksFit(scopes) /\ StoredRowsProject(draft, LinksOf(scopes))

ContractInv ==
    /\ draft \in Drafts
    /\ stage \in {"stored", "failed"} => ValidateUnifiedReport(draft)
    /\ stage = "stored" => StorageFits /\ evidenceLinks = LinksOf(UnifiedEvidenceScopes(draft))
    /\ stage = "failed" => ~StorageFits

LEMMA ContractStarts == ContractInit => ContractInv
BY DEF ContractInit, ContractInv

LEMMA ContractInvStep ==
    ContractInv /\ [ContractNext]_contractVars => ContractInv'
<1> SUFFICES ASSUME ContractInv, [ContractNext]_contractVars
             PROVE  ContractInv'
  OBVIOUS
<1>1. CASE Publish
  <2>1. draft' = draft
    BY <1>1 DEF Publish
  <2>2. CASE stage' = "refused"
    BY <2>1, <2>2 DEF ContractInv
  <2>3. CASE stage' = "stored" /\ evidenceLinks' = LinksOf(UnifiedEvidenceScopes(draft))
             /\ ValidateUnifiedReport(draft) /\ StorageFits
    BY <2>1, <2>3 DEF ContractInv, StorageFits
  <2>4. CASE stage' = "failed" /\ ValidateUnifiedReport(draft) /\ ~StorageFits
    BY <2>1, <2>4 DEF ContractInv, StorageFits
  <2>5. \/ stage' = "refused"
        \/ stage' = "stored" /\ evidenceLinks' = LinksOf(UnifiedEvidenceScopes(draft))
             /\ ValidateUnifiedReport(draft) /\ StorageFits
        \/ stage' = "failed" /\ ValidateUnifiedReport(draft) /\ ~StorageFits
    BY <1>1, Zenon DEF Publish, StorageFits
  <2> QED
    BY <2>2, <2>3, <2>4, <2>5
<1>2. ASSUME UNCHANGED <<draft, stage, evidenceLinks>>
      PROVE  ContractInv'
  BY <1>2 DEF ContractInv, StorageFits
<1>3. Publish \/ UNCHANGED <<draft, stage, evidenceLinks>>
  BY DEF ContractNext, Home, ListAnalyses, GetAnalysis, Answered, contractVars
<1> QED
  BY <1>1, <1>2, <1>3

LEMMA ContractInvariant == ContractSpec => []ContractInv
BY ContractStarts, ContractInvStep, PTL DEF ContractSpec

LEMMA ContractInvIsRead ==
    ContractInv => OnlyDivergencesAreRefused
<1> SUFFICES ASSUME ContractInv, stage = "stored", NEW kind \in AnalysisKinds
             PROVE  /\ ReadPage(kind, draft.analyses[kind])
                         <=> ~\E u \in Range(draft.analyses[kind]) : LongTitle(u)
                    /\ \A u \in Range(draft.analyses[kind]) : ReadDetail(kind, u) <=> ~Diverges(u)
  BY DEF OnlyDivergencesAreRefused
<1>1. /\ NormalizedKeys(draft.analyses[kind])
      /\ \A u \in Range(draft.analyses[kind]) : ValidateUnifiedUnit(kind, u)
  BY DEF ContractInv, ValidateUnifiedReport
<1>2. \A u \in Range(draft.analyses[kind]) : DisplaysAreTexts(u)
  BY DraftTexts DEF ContractInv, DisplaysAreTexts, AnalysisKinds
<1>3. \A u \in Range(draft.analyses[kind]) : ReadSummary(kind, u) <=> ~LongTitle(u)
  BY <1>1, SummaryIsRead
<1> QED
  BY <1>1, <1>2, <1>3, AcceptedDetailIsRead DEF ReadPage

\* For every set of drafts: a published report is read, but for the named differences.
THEOREM PublishedIsRead == ContractSpec => []OnlyDivergencesAreRefused
<1>1. ContractInv => OnlyDivergencesAreRefused
  BY ContractInvIsRead
<1> QED
  BY <1>1, ContractInvariant, PTL

LEMMA ContractInvIsFaithful == ContractInv => StorageIsFaithful
<1> SUFFICES ASSUME ContractInv
             PROVE  CitationsSurviveStorage /\ OnlyUncheckedKeysFailStorage
  BY DEF StorageIsFaithful
<1>1. CitationsSurviveStorage
  <2> SUFFICES ASSUME stage = "stored", NEW kind \in AnalysisKinds,
                      NEW u \in Range(draft.analyses[kind]),
                      NEW c \in UnitCitations(ReadPlace(kind, u.key), u)
               PROVE  Listed(c.path) = c.ids
    BY DEF CitationsSurviveStorage
  <2> QED
    BY StoredLinksAreCited DEF ContractInv, StorageFits
<1>2. OnlyUncheckedKeysFailStorage
  <2> DEFINE units == UNION {Range(draft.analyses[kind]) : kind \in AnalysisKinds}
             unchecked == {draft.observations, draft.companies} \cup {u.companies : u \in units}
             Trouble(array) ==
                 \E i, j \in DOMAIN array :
                     array[i].key \in LongKeys \/ (i # j /\ array[i].key = array[j].key)
  <2> SUFFICES ASSUME stage = "failed", \A array \in unchecked : ~Trouble(array)
               PROVE  FALSE
    BY DEF OnlyUncheckedKeysFailStorage
  <2>1. draft \in Drafts /\ ValidateUnifiedReport(draft) /\ ~StorageFits
    BY DEF ContractInv
  <2>2. \A array : ~Trouble(array) => KeysFit(array)
    BY DEF KeysFit
  <2>3. ASSUME NEW kind \in AnalysisKinds, NEW u \in Range(draft.analyses[kind])
        PROVE  u.companies \in unchecked
    <3>1. u \in units
      OBVIOUS
    <3> HIDE DEF units
    <3> QED
      BY <3>1
  <2> HIDE DEF Trouble
  <2>4. draft.observations \in unchecked /\ draft.companies \in unchecked
    OBVIOUS
  <2> HIDE DEF unchecked
  <2>5. UncheckedFit(draft)
    BY <2>2, <2>3, <2>4 DEF UncheckedFit
  <2> QED
    BY <2>1, <2>5, PlainStorageFits DEF StorageFits
<1> QED
  BY <1>1, <1>2

\* For every set of drafts: what was validated is stored with all it cites, each list under
\* the path it is asked for with, or fails for a key that nobody validates.
THEOREM AcceptedReportsAreKept == ContractSpec => []StorageIsFaithful
BY ContractInvIsFaithful, ContractInvariant, PTL

-----------------------------------------------------------------------------
(* One raw evidence *)

\* A raw evidence as it is stored.
RawIsAccepted(raw, row) == ValidRawEvidence(raw) /\ row = RawColumns(StoredRaw(raw))

\* The driver and the writer touch the times and the categories alone.
LEMMA FormOfRaw ==
    ASSUME NEW raw \in RawDrafts
    PROVE  LET row == RawColumns(StoredRaw(raw)) IN
           /\ row.source_id = raw.source_id /\ row.source_name = raw.source_name
           /\ row.source_url = raw.source_url /\ row.source_level = raw.source_level
           /\ row.is_original = raw.is_original /\ row.quoted_id = raw.quoted_id
           /\ row.quoted_name = raw.quoted_name /\ row.title = raw.title
           /\ row.raw_text = raw.raw_text
BY DEF RawDrafts, RawColumns, StoredRaw

\* What the database keeps of an accepted raw evidence is readable but for its text and its
\* first microsecond.
LEMMA AcceptedRawIsRead ==
    ASSUME NEW raw \in RawDrafts, NEW row, RawIsAccepted(raw, row)
    PROVE  RawIsReadable(row) <=> ~Backslash(row.raw_text) /\ ~FirstMicrosecond(row)
<1>1. /\ row.source_id = raw.source_id /\ row.source_name = raw.source_name
      /\ row.source_url = raw.source_url /\ row.source_level = raw.source_level
      /\ row.is_original = raw.is_original /\ row.quoted_id = raw.quoted_id
      /\ row.quoted_name = raw.quoted_name /\ row.title = raw.title /\ row.raw_text = raw.raw_text
  BY FormOfRaw DEF RawIsAccepted
<1>2. ValidRawEvidence(raw)
  BY DEF RawIsAccepted
<1>3. raw.is_original \in BOOLEAN
  BY DEF RawDrafts
<1> QED
  BY <1>1, <1>2, <1>3
     DEF ValidRawEvidence, RawIsReadable, RequiredChars, OptionalChars, StoredRequired,
         StoredOptional, Backslash, FirstMicrosecond

LEMMA SameTime ==
    ASSUME NEW a \in FactTimes, NEW b \in FactTimes, a.ns = b.ns, a.utc <=> b.utc
    PROVE  a = b
BY DEF FactTimes

LEMMA CutIsNat ==
    ASSUME NEW n \in Nat
    PROVE  n - (n % 1000) \in Nat
OBVIOUS

\* The driver cuts the times as the writer does: what is stored is the whole of what was sent.
LEMMA ColumnIsMicro ==
    ASSUME NEW time \in MaybeTime, time # Null => time.utc
    PROVE  Column(time) = Micro(time)
<1>1. CASE time = Null
  BY <1>1 DEF Column, Micro
<1>2. CASE time # Null
  <2> DEFINE cut == time.ns - (time.ns % 1000)
  <2>1. time \in FactTimes /\ time.utc
    BY <1>2 DEF MaybeTime
  <2>2. cut \in Nat
    BY <2>1, CutIsNat DEF FactTimes
  <2>3. Column(time) = [time EXCEPT !.ns = cut]
    BY <1>2 DEF Column
  <2>4. Micro(time) = [ns |-> cut, utc |-> TRUE]
    BY <1>2 DEF Micro
  <2> HIDE DEF cut
  <2>5. Column(time) \in FactTimes /\ Column(time).ns = cut /\ Column(time).utc
    BY <2>1, <2>2, <2>3 DEF FactTimes
  <2>6. Micro(time) \in FactTimes /\ Micro(time).ns = cut /\ Micro(time).utc
    BY <2>2, <2>4 DEF FactTimes
  <2> QED
    BY <2>5, <2>6, SameTime
<1> QED
  BY <1>1, <1>2

LEMMA StoredIsSent ==
    ASSUME NEW raw \in RawDrafts, ValidRawEvidence(raw)
    PROVE  RawColumns([raw EXCEPT !.categories = Range(@)]) = StoredRaw(raw)
<1> DEFINE sent == [raw EXCEPT !.categories = Range(@)]
<1>1. Column(raw.collected_at) = Micro(raw.collected_at)
  BY ColumnIsMicro DEF RawDrafts, ValidRawEvidence, MaybeTime
<1>2. Column(raw.published_at) = Micro(raw.published_at)
  BY ColumnIsMicro DEF RawDrafts, ValidRawEvidence
<1>3. sent.collected_at = raw.collected_at /\ sent.published_at = raw.published_at
  BY DEF RawDrafts
<1>4. RawColumns(sent) =
        [sent EXCEPT !.collected_at = Micro(raw.collected_at), !.published_at = Micro(raw.published_at)]
  BY <1>1, <1>2, <1>3 DEF RawColumns
<1> QED
  BY <1>4 DEF RawDrafts, StoredRaw

-----------------------------------------------------------------------------
(* One set of evidence *)

LEMMA MicroKeepsOrder ==
    ASSUME NEW a \in Nat, NEW b \in Nat, a <= b
    PROVE  a - (a % 1000) <= b - (b % 1000)
OBVIOUS

\* Cutting the bounds of a time to microseconds keeps them in order.
LEMMA TimeIsRead ==
    ASSUME NEW time \in [raw : MaybeText, precision : STRING, start_at : MaybeTime, end_at : MaybeTime],
           ValidTime(time)
    PROVE  StoredTime([time EXCEPT !.start_at = Micro(@), !.end_at = Micro(@)])
<1> DEFINE stored == [time EXCEPT !.start_at = Micro(@), !.end_at = Micro(@)]
<1>1. /\ stored.raw = time.raw /\ stored.precision = time.precision
      /\ stored.start_at = Micro(time.start_at) /\ stored.end_at = Micro(time.end_at)
  OBVIOUS
<1>2. CASE time.start_at = Null
  BY <1>1, <1>2 DEF ValidTime, StoredTime, Micro, OptionalChars, RequiredChars, StoredOptional, StoredRequired
<1>3. CASE time.start_at # Null
  <2>1. time.start_at \in FactTimes /\ time.end_at \in FactTimes
    BY <1>3 DEF ValidTime, MaybeTime
  <2>2. time.start_at.ns \in Nat /\ time.end_at.ns \in Nat /\ time.start_at.ns <= time.end_at.ns
    BY <1>3, <2>1 DEF ValidTime, FactTimes
  <2>3. Micro(time.start_at) = [ns |-> time.start_at.ns - (time.start_at.ns % 1000), utc |-> TRUE]
    BY <1>3 DEF Micro
  <2>4. time.end_at # Null
    BY <1>3 DEF ValidTime
  <2>5. Micro(time.end_at) = [ns |-> time.end_at.ns - (time.end_at.ns % 1000), utc |-> TRUE]
    BY <2>4 DEF Micro
  <2>6. Micro(time.start_at).ns <= Micro(time.end_at).ns /\ Micro(time.start_at).utc /\ Micro(time.end_at).utc
    BY <2>2, <2>3, <2>5, MicroKeepsOrder
  <2>7. Micro(time.start_at) # Null /\ Micro(time.end_at) # Null
    <3>1. Micro(time.start_at) \in FactTimes /\ Micro(time.end_at) \in FactTimes
      BY <2>2, <2>3, <2>5 DEF FactTimes
    <3> QED
      BY <3>1, FactForms
  <2> QED
    BY <1>1, <2>6, <2>7 DEF ValidTime, StoredTime, OptionalChars, RequiredChars, StoredOptional, StoredRequired
<1> QED
  BY <1>2, <1>3

\* The metrics of an evidence are read as they are written.
LEMMA MetricsAreRead ==
    ASSUME NEW metrics, ValidMetrics(metrics)
    PROVE  StoredMetrics(metrics)
BY DEF ValidMetrics, StoredMetrics, MetricIdentity, StoredMetricIdentity,
       RequiredChars, OptionalChars, StoredRequired, StoredOptional

LEMMA StringsAreRead ==
    ASSUME NEW values, NEW min, NEW max, NEW chars, UniqueRequiredStrings(values, min, max, chars)
    PROVE  StoredStrings(values, min, max, chars)
BY DEF UniqueRequiredStrings, StoredStrings, RequiredChars, StoredRequired

\* The writer touches the bounds of the time alone.
LEMMA FormOfEvidence ==
    ASSUME NEW item \in EvidenceDrafts, NEW content, content = StoredEvidence(item)
    PROVE  /\ content.summary = item.summary /\ content.keywords = item.keywords
           /\ content.semantic.actors = item.semantic.actors
           /\ content.semantic.action = item.semantic.action
           /\ content.semantic.objects = item.semantic.objects
           /\ content.semantic.stage = item.semantic.stage
           /\ content.semantic.modality = item.semantic.modality
           /\ content.semantic.time =
                [item.semantic.time EXCEPT !.start_at = Micro(@), !.end_at = Micro(@)]
           /\ content.semantic.jurisdictions = item.semantic.jurisdictions
           /\ content.semantic.reason = item.semantic.reason
           /\ content.semantic.method = item.semantic.method
           /\ content.semantic.metrics = item.semantic.metrics
           /\ content.semantic.attribution = item.semantic.attribution
BY DEF EvidenceDrafts, SemanticDrafts, StoredEvidence

\* One evidence of an accepted set is readable.
LEMMA EvidenceIsRead ==
    ASSUME NEW items \in Seq(EvidenceDrafts), ValidEvidences(items), NEW item \in Range(items)
    PROVE  EvidenceIsReadable(StoredEvidence(item))
<1>1. item \in EvidenceDrafts
  BY DEF Range
<1>2. item.semantic \in SemanticDrafts
  BY <1>1 DEF EvidenceDrafts
<1>3. /\ RequiredChars(item.summary, 200) /\ UniqueRequiredStrings(item.keywords, 1, 5, 6)
      /\ ValidSemantic(item.semantic)
  BY DEF ValidEvidences
<1>4. StoredTime([item.semantic.time EXCEPT !.start_at = Micro(@), !.end_at = Micro(@)])
  BY <1>2, <1>3, TimeIsRead DEF SemanticDrafts, ValidSemantic
<1>5. StoredMetrics(item.semantic.metrics)
  BY <1>3, MetricsAreRead DEF ValidSemantic
<1>6. /\ StoredStrings(item.keywords, 1, 5, 6)
      /\ StoredStrings(item.semantic.actors, 1, 20, 100)
      /\ StoredStrings(item.semantic.objects, 1, 20, 200)
      /\ StoredStrings(item.semantic.jurisdictions, 0, 20, 100)
  BY <1>3, StringsAreRead DEF ValidSemantic
<1>7. /\ StoredRequired(item.summary, 200) /\ StoredRequired(item.semantic.action, 200)
      /\ StoredOptional(item.semantic.reason, 500) /\ StoredOptional(item.semantic.method, 500)
      /\ \A party \in Range(item.semantic.attribution) : StoredOptional(party, 100)
  BY <1>3 DEF ValidSemantic, RequiredChars, OptionalChars, StoredRequired, StoredOptional
<1>8. /\ item.semantic.stage \in FactStages /\ item.semantic.modality \in FactModalities
      /\ item.semantic.attribution # Null
  BY <1>3 DEF ValidSemantic
<1> DEFINE content == StoredEvidence(item)
           semantic == content.semantic
<1>f. /\ content.summary = item.summary /\ content.keywords = item.keywords
      /\ semantic.actors = item.semantic.actors /\ semantic.action = item.semantic.action
      /\ semantic.objects = item.semantic.objects /\ semantic.stage = item.semantic.stage
      /\ semantic.modality = item.semantic.modality
      /\ semantic.time = [item.semantic.time EXCEPT !.start_at = Micro(@), !.end_at = Micro(@)]
      /\ semantic.jurisdictions = item.semantic.jurisdictions
      /\ semantic.reason = item.semantic.reason /\ semantic.method = item.semantic.method
      /\ semantic.metrics = item.semantic.metrics
      /\ semantic.attribution = item.semantic.attribution
  BY <1>1, FormOfEvidence, ZenonT(60)
<1> HIDE DEF content
<1>9. /\ StoredRequired(content.summary, 200) /\ StoredRequired(semantic.action, 200)
      /\ StoredStrings(semantic.actors, 1, 20, 100)
      /\ StoredStrings(semantic.objects, 1, 20, 200)
      /\ StoredStrings(semantic.jurisdictions, 0, 20, 100)
      /\ semantic.stage \in FactStages /\ semantic.modality \in FactModalities
  BY <1>1, <1>6, <1>7, <1>8, <1>f
<1>10. /\ StoredTime(semantic.time)
       /\ StoredOptional(semantic.reason, 500) /\ StoredOptional(semantic.method, 500)
       /\ semantic.attribution # Null
       /\ \A party \in Range(semantic.attribution) : StoredOptional(party, 100)
       /\ StoredMetrics(semantic.metrics)
       /\ StoredStrings(content.keywords, 1, 5, 6)
  BY <1>1, <1>4, <1>5, <1>6, <1>7, <1>8, <1>f
<1> QED
  BY <1>9, <1>10 DEF EvidenceIsReadable, content

\* A set has as many rows as evidences were sent: their ids are different.
LEMMA RowsOfASet ==
    ASSUME NEW items \in Seq(EvidenceDrafts), ValidEvidences(items)
    PROVE  /\ IsFiniteSet(Range(items)) /\ Cardinality(Range(items)) = Len(items)
           /\ DOMAIN Records(items) = Range(items)
<1>1. Len(items) \in Nat /\ items \in [1 .. Len(items) -> Range(items)] /\ IsInjective(items)
  BY DEF Range, ValidEvidences
<1>2. items \in Bijection(1 .. Len(items), Range(items))
  BY <1>1 DEF Bijection, Injection, Surjection, Range
<1>3. ExistsBijection(1 .. Len(items), Range(items))
  BY <1>2 DEF ExistsBijection
<1> QED
  BY <1>1, <1>3, FS_NatBijection, FS_CountingElements DEF Records

\* The set of an accepted publication is readable, row by row and as a set.
LEMMA AcceptedSetIsRead ==
    ASSUME NEW items \in Seq(EvidenceDrafts), ValidEvidences(items)
    PROVE  SetIsReadable(Records(items))
<1> SUFFICES ASSUME NEW id \in Range(items)
             PROVE  /\ EvidenceIsReadable(Records(items)[id].content)
                    /\ Records(items)[id].is_split = (Cardinality(Range(items)) > 1)
  BY RowsOfASet DEF SetIsReadable
<1>1. Records(items)[id] = [content |-> StoredEvidence(id), is_split |-> Len(items) > 1]
  BY DEF Records
<1> QED
  BY <1>1, EvidenceIsRead, RowsOfASet

\* Sets of the same ids are the same set.
LEMMA SameIdsSameSet ==
    ASSUME NEW some \in Seq(EvidenceDrafts), ValidEvidences(some),
           NEW other \in Seq(EvidenceDrafts), ValidEvidences(other),
           DOMAIN Records(some) = Range(other)
    PROVE  Records(some) = Records(other)
<1>1. Range(some) = Range(other)
  BY RowsOfASet
<1>2. Len(some) = Len(other)
  BY <1>1, RowsOfASet
<1> QED
  BY <1>1, <1>2 DEF Records

-----------------------------------------------------------------------------
(* One event *)

\* The nearest microsecond is that of Go, unless the time is half way between two.
LEMMA NearestIsRound ==
    ASSUME NEW n \in Nat, n % 1000 # 500, NEW t,
           t \in {n - (n % 1000), n - (n % 1000) + 1000}, t - n \in -500 .. 500
    PROVE  ((n + 500) \div 1000) * 1000 = t
OBVIOUS

LEMMA CastIsRead ==
    ASSUME NEW time \in MaybeTime, ~HalfMicrosecond(time), NEW column \in CastTimes(time)
    PROVE  SameOptionalTime(time, column)
<1>1. CASE time = Null
  BY <1>1 DEF CastTimes, SameOptionalTime
<1>2. CASE time # Null
  <2>1. time.ns \in Nat /\ time.ns % 1000 # 500
    BY <1>2 DEF MaybeTime, FactTimes, HalfMicrosecond
  <2>2. Micro(time).ns = time.ns - (time.ns % 1000)
    BY <1>2 DEF Micro
  <2>3. column \in {time.ns - (time.ns % 1000), time.ns - (time.ns % 1000) + 1000}
    BY <1>2, <2>2 DEF CastTimes
  <2>4. column - time.ns \in -500 .. 500
    BY <1>2 DEF CastTimes
  <2>5. RoundToMicro(time) = column
    <3> DEFINE n == time.ns
    <3>1. /\ n \in Nat /\ n % 1000 # 500 /\ column - n \in -500 .. 500
          /\ column \in {n - (n % 1000), n - (n % 1000) + 1000}
      BY <2>1, <2>3, <2>4
    <3>2. RoundToMicro(time) = ((n + 500) \div 1000) * 1000
      BY DEF RoundToMicro
    <3> HIDE DEF n
    <3> QED
      BY <3>1, <3>2, NearestIsRound
  <2>6. column \in Int
    BY <2>1, <2>3
  <2> QED
    BY <1>2, <2>5, <2>6, FactForms DEF SameOptionalTime
<1> QED
  BY <1>1, <1>2

\* An event as it may be stored.
EventIsAccepted(event, row) ==
    /\ ValidEvent(event)
    /\ \E occurred \in CastTimes(event.occurred_at), announced \in CastTimes(event.announced_at) :
          row = [event |-> event, occurred_at |-> occurred, announced_at |-> announced]

LEMMA AcceptedEventIsRead ==
    ASSUME NEW event \in EventDrafts, NEW row, EventIsAccepted(event, row)
    PROVE  row.event = event /\ (EventIsReadable(row) \/ HalfEvent(event))
<1>1. PICK occurred \in CastTimes(event.occurred_at), announced \in CastTimes(event.announced_at) :
          row = [event |-> event, occurred_at |-> occurred, announced_at |-> announced]
  BY DEF EventIsAccepted
<1>2. event.occurred_at \in MaybeTime /\ event.announced_at \in MaybeTime
  BY DEF EventDrafts
<1>3. ~HalfEvent(event) => /\ SameOptionalTime(event.occurred_at, occurred)
                          /\ SameOptionalTime(event.announced_at, announced)
  BY <1>2, CastIsRead DEF HalfEvent
<1>4. event.title.size > 0 /\ event.summary.size > 0 /\ event.modality \in FactModalities
  BY DEF EventIsAccepted, ValidEvent, RequiredChars
<1> QED
  BY <1>1, <1>3, <1>4 DEF EventIsReadable

-----------------------------------------------------------------------------
(* The specification *)

\* Every row is what an accepted publication is stored as, and a set is only below a raw
\* evidence that could be read.
RowsAreAccepted ==
    /\ rawRow # Null => \E raw \in RawDrafts : RawIsAccepted(raw, rawRow)
    /\ setRows # Null =>
         /\ rawRow # Null /\ RawIsReadable(rawRow)
         /\ \E items \in Seq(EvidenceDrafts) : ValidEvidences(items) /\ setRows = Records(items)
    /\ eventRow # Null => \E event \in EventDrafts : EventIsAccepted(event, eventRow)

FactInv ==
    /\ factDraft \in FactDrafts /\ listing.total \in Nat
    /\ RowsAreAccepted /\ RepeatsAreRecognised /\ ListsAreServed

LEMMA DraftsHaveTheirForm ==
    ASSUME factDraft \in FactDrafts
    PROVE  /\ factDraft.raws \subseteq RawDrafts
           /\ factDraft.sets \subseteq Seq(EvidenceDrafts)
           /\ factDraft.events \subseteq EventDrafts
BY FactForms

\* What can be read of a raw evidence is what lists show of it, but for its address.
LEMMA ListItemIsRead ==
    ASSUME NEW row, NEW item, RawIsReadable(row), EvidenceIsReadable(item.content),
           row.source_url.size \in Nat
    PROVE  ListItemIsReadable(row, item) <=> ~LongAddress(row)
BY DEF RawIsReadable, ListItemIsReadable, LongAddress, StoredRequired, StoredOptional

LEMMA AcceptedRowsAreRead ==
    ASSUME RowsAreAccepted
    PROVE  StoredFactsAreRead
<1>1. rawRow # Null =>
        /\ rawRow.source_url.size \in Nat
        /\ RawIsReadable(rawRow) <=> ~Backslash(rawRow.raw_text) /\ ~FirstMicrosecond(rawRow)
  <2> SUFFICES ASSUME rawRow # Null
               PROVE  /\ rawRow.source_url.size \in Nat
                      /\ RawIsReadable(rawRow) <=>
                           ~Backslash(rawRow.raw_text) /\ ~FirstMicrosecond(rawRow)
    OBVIOUS
  <2>1. PICK raw \in RawDrafts : RawIsAccepted(raw, rawRow)
    BY DEF RowsAreAccepted
  <2>2. rawRow.source_url = raw.source_url
    BY <2>1, FormOfRaw DEF RawIsAccepted
  <2>3. raw.source_url.size \in Nat
    BY DEF RawDrafts, FactTexts
  <2> QED
    BY <2>1, <2>2, <2>3, AcceptedRawIsRead
<1>2. ASSUME setRows # Null
      PROVE  /\ SetIsReadable(setRows)
             /\ \A id \in DOMAIN setRows :
                   ListItemIsReadable(rawRow, setRows[id]) <=> ~LongAddress(rawRow)
  <2>1. rawRow # Null /\ RawIsReadable(rawRow)
    BY <1>2 DEF RowsAreAccepted
  <2>2. SetIsReadable(setRows)
    BY <1>2, AcceptedSetIsRead DEF RowsAreAccepted
  <2> QED
    BY <1>1, <2>1, <2>2, ListItemIsRead DEF SetIsReadable
<1>3. eventRow # Null => EventIsReadable(eventRow) \/ HalfEvent(eventRow.event)
  BY AcceptedEventIsRead DEF RowsAreAccepted
<1> QED
  BY <1>1, <1>2, <1>3 DEF StoredFactsAreRead

LEMMA PublishRawKeepsInv ==
    ASSUME FactInv, NEW raw \in factDraft.raws, PublishRaw(raw)
    PROVE  FactInv'
<1>1. raw \in RawDrafts
  BY DraftsHaveTheirForm DEF FactInv
<1>2. /\ factAnswer'.call = "raw" /\ factAnswer'.sent = raw
      /\ UNCHANGED <<factDraft, setRows, eventRow, listing>>
  BY DEF PublishRaw, Tells
<1>3. factAnswer'.outcome = "stored" => rawRow = Null /\ ValidRawEvidence(raw)
  BY DEF PublishRaw, Tells
<1>4. RowsAreAccepted'
  <2>1. CASE factAnswer'.outcome = "stored"
    <3>1. RawIsAccepted(raw, rawRow')
      BY <1>3, <2>1 DEF PublishRaw, RawIsAccepted
    <3>2. setRows = Null
      BY <1>3, <2>1 DEF FactInv, RowsAreAccepted
    <3> QED
      BY <1>1, <1>2, <3>1, <3>2 DEF FactInv, RowsAreAccepted
  <2>2. CASE factAnswer'.outcome # "stored"
    BY <1>2, <2>2 DEF PublishRaw, FactInv, RowsAreAccepted
  <2> QED
    BY <2>1, <2>2
<1>5. factAnswer'.outcome = "failed" =>
        \/ Backslash(raw.raw_text)
        \/ rawRow' # Null /\ (Backslash(rawRow'.raw_text) \/ FirstMicrosecond(rawRow'))
  <2> SUFFICES ASSUME factAnswer'.outcome = "failed", ~Backslash(raw.raw_text)
               PROVE  rawRow' # Null /\ (Backslash(rawRow'.raw_text) \/ FirstMicrosecond(rawRow'))
    OBVIOUS
  <2>1. rawRow' = rawRow
    BY DEF PublishRaw
  <2>2. rawRow # Null /\ ~RawIsReadable(rawRow)
    BY DEF PublishRaw, Tells, Backslash
  <2> QED
    BY <2>1, <2>2, AcceptedRowsAreRead DEF FactInv, StoredFactsAreRead
<1>6. factAnswer'.outcome = "conflict" => rawRow' # RawColumns([raw EXCEPT !.categories = Range(@)])
  <2> SUFFICES ASSUME factAnswer'.outcome = "conflict"
               PROVE  rawRow' # RawColumns([raw EXCEPT !.categories = Range(@)])
    OBVIOUS
  <2>1. rawRow' = rawRow /\ ValidRawEvidence(raw) /\ rawRow # StoredRaw(raw)
    BY DEF PublishRaw, Tells
  <2> QED
    BY <1>1, <2>1, StoredIsSent
<1>7. RepeatsAreRecognised' /\ ListsAreServed'
  BY <1>2, <1>5, <1>6 DEF RepeatsAreRecognised, ListsAreServed
<1> QED
  BY <1>2, <1>4, <1>7 DEF FactInv

LEMMA PublishSetKeepsInv ==
    ASSUME FactInv, NEW items \in factDraft.sets, PublishSet(items)
    PROVE  FactInv'
<1>1. items \in Seq(EvidenceDrafts)
  BY DraftsHaveTheirForm DEF FactInv
<1>2. /\ factAnswer'.call = "set" /\ factAnswer'.sent = items
      /\ UNCHANGED <<factDraft, rawRow, eventRow, listing>>
  BY DEF PublishSet, Tells
<1>3. RowsAreAccepted'
  <2>1. CASE factAnswer'.outcome = "stored"
    <3>1. /\ ValidEvidences(items) /\ rawRow # Null /\ RawIsReadable(rawRow)
          /\ setRows' = Records(items)
      BY <2>1 DEF PublishSet, Tells
    <3> QED
      BY <1>1, <1>2, <3>1 DEF FactInv, RowsAreAccepted
  <2>2. CASE factAnswer'.outcome # "stored"
    BY <1>2, <2>2 DEF PublishSet, FactInv, RowsAreAccepted
  <2> QED
    BY <2>1, <2>2
<1>4. factAnswer'.outcome = "conflict" => DOMAIN setRows' # Range(items)
  <2> SUFFICES ASSUME factAnswer'.outcome = "conflict"
               PROVE  DOMAIN setRows' # Range(items)
    OBVIOUS
  <2>1. /\ setRows' = setRows /\ setRows # Null /\ ValidEvidences(items)
        /\ setRows # Records(items)
    BY DEF PublishSet, Tells
  <2>2. PICK stored \in Seq(EvidenceDrafts) : ValidEvidences(stored) /\ setRows = Records(stored)
    BY <2>1 DEF FactInv, RowsAreAccepted
  <2> QED
    BY <1>1, <2>1, <2>2, SameIdsSameSet
<1>5. RepeatsAreRecognised' /\ ListsAreServed'
  BY <1>2, <1>4 DEF RepeatsAreRecognised, ListsAreServed
<1> QED
  BY <1>2, <1>3, <1>5 DEF FactInv

LEMMA PublishEventKeepsInv ==
    ASSUME FactInv, NEW event \in factDraft.events, PublishEvent(event)
    PROVE  FactInv'
<1>1. event \in EventDrafts
  BY DraftsHaveTheirForm DEF FactInv
<1>2. /\ factAnswer'.call = "event" /\ factAnswer'.sent = event
      /\ UNCHANGED <<factDraft, rawRow, setRows, listing>>
  BY DEF PublishEvent, Tells
<1>3. RowsAreAccepted'
  <2>1. CASE factAnswer'.outcome = "stored"
    <3>1. ValidEvent(event)
      BY <2>1 DEF PublishEvent, Tells
    <3>2. EventIsAccepted(event, eventRow')
      BY <2>1, <3>1 DEF PublishEvent, EventIsAccepted
    <3> QED
      BY <1>1, <1>2, <3>2 DEF FactInv, RowsAreAccepted
  <2>2. CASE factAnswer'.outcome # "stored"
    BY <1>2, <2>2 DEF PublishEvent, FactInv, RowsAreAccepted
  <2> QED
    BY <2>1, <2>2
<1>4. factAnswer'.outcome = "failed" => HalfEvent(event)
  <2> SUFFICES ASSUME factAnswer'.outcome = "failed"
               PROVE  HalfEvent(event)
    OBVIOUS
  <2>1. eventRow # Null /\ eventRow.event = event /\ ~EventIsReadable(eventRow)
    BY DEF PublishEvent, Tells
  <2> QED
    BY <2>1, AcceptedRowsAreRead DEF FactInv, StoredFactsAreRead
<1>5. RepeatsAreRecognised' /\ ListsAreServed'
  BY <1>2, <1>4 DEF RepeatsAreRecognised, ListsAreServed
<1> QED
  BY <1>2, <1>3, <1>5 DEF FactInv

LEMMA StoredSetIsFinite ==
    ASSUME RowsAreAccepted
    PROVE  Cardinality(StoredSet) \in Nat
<1>1. CASE setRows = Null
  BY <1>1, FS_EmptySet DEF StoredSet
<1>2. CASE setRows # Null
  <2>1. PICK stored \in Seq(EvidenceDrafts) : ValidEvidences(stored) /\ setRows = Records(stored)
    BY <1>2 DEF RowsAreAccepted
  <2> QED
    BY <1>2, <2>1, RowsOfASet DEF StoredSet
<1> QED
  BY <1>1, <1>2

\* A read tells which call it answers.
LEMMA ReadsTell ==
    ASSUME NEW asker, NEW sent, NEW outcome, Tells(asker, sent, outcome)
    PROVE  factAnswer'.call = asker
BY DEF Tells

LEMMA ReadsKeepInv ==
    ASSUME FactInv, GetRawEvidence \/ CountEvidence \/ ReadEvidencePage \/ ListEvents
    PROVE  FactInv'
<1>1. UNCHANGED <<factDraft, rawRow, setRows, eventRow>> /\ RowsAreAccepted'
  BY DEF FactInv, RowsAreAccepted, GetRawEvidence, CountEvidence, ReadEvidencePage, ListEvents
<1>2. listing'.total \in Nat
  <2>1. CASE CountEvidence
    BY <2>1, StoredSetIsFinite DEF FactInv, CountEvidence
  <2>2. CASE ReadEvidencePage
    BY <2>2 DEF ReadEvidencePage
  <2>3. CASE GetRawEvidence \/ ListEvents
    BY <2>3 DEF FactInv, GetRawEvidence, ListEvents
  <2> QED
    BY <2>1, <2>2, <2>3
<1>3. RepeatsAreRecognised'
  <2>1. CASE CountEvidence
    BY <1>1, <2>1 DEF FactInv, CountEvidence, RepeatsAreRecognised
  <2>2. CASE GetRawEvidence \/ ReadEvidencePage \/ ListEvents
    <3>1. GetRawEvidence => factAnswer'.call = "get"
      BY ReadsTell DEF GetRawEvidence
    <3>2. ReadEvidencePage => factAnswer'.call = "list"
      BY DEF ReadEvidencePage
    <3>3. ListEvents => factAnswer'.call = "events"
      BY ReadsTell DEF ListEvents
    <3> QED
      BY <2>2, <3>1, <3>2, <3>3 DEF RepeatsAreRecognised
  <2> QED
    BY <2>1, <2>2
<1>4. ListsAreServed'
  <2>1. CASE CountEvidence
    BY <1>1, <2>1 DEF FactInv, CountEvidence, ListsAreServed, StoredSet
  <2>2. CASE GetRawEvidence \/ ListEvents
    <3>1. GetRawEvidence => factAnswer'.call = "get"
      BY ReadsTell DEF GetRawEvidence
    <3>2. ListEvents => factAnswer'.call = "events"
      BY ReadsTell DEF ListEvents
    <3> QED
      BY <2>2, <3>1, <3>2 DEF ListsAreServed
  <2>3. CASE ReadEvidencePage
    <3>1. StoredSet' = StoredSet /\ rawRow' = rawRow
      BY <1>1 DEF StoredSet
    <3>2. factAnswer'.total = listing.total /\ listing.total \in Nat
      BY <2>3 DEF ReadEvidencePage, FactInv
    <3>3. factAnswer'.outcome = "failed" =>
            \/ \E id \in StoredSet : ~ListItemIsReadable(rawRow, setRows[id])
            \/ listing.total < Cardinality(StoredSet)
      BY <2>3, <3>2, StoredSetIsFinite DEF ReadEvidencePage, FactInv
    <3>4. (\E id \in StoredSet : ~ListItemIsReadable(rawRow, setRows[id])) => LongAddress(rawRow)
      BY AcceptedRowsAreRead DEF FactInv, StoredFactsAreRead, StoredSet
    <3> QED
      BY <3>1, <3>2, <3>3, <3>4 DEF ListsAreServed
  <2> QED
    BY <2>1, <2>2, <2>3
<1> QED
  BY <1>1, <1>2, <1>3, <1>4 DEF FactInv

LEMMA FactInvInit ==
    FactInit => FactInv
BY DEF FactInit, FactInv, RowsAreAccepted, RepeatsAreRecognised, ListsAreServed

LEMMA FactInvStep ==
    FactInv /\ [FactNext]_factVars => FactInv'
<1> SUFFICES ASSUME FactInv, [FactNext]_factVars PROVE FactInv'
  OBVIOUS
<1>1. ASSUME NEW raw \in factDraft.raws, PublishRaw(raw) PROVE FactInv'
  BY <1>1, PublishRawKeepsInv
<1>2. ASSUME NEW items \in factDraft.sets, PublishSet(items) PROVE FactInv'
  BY <1>2, PublishSetKeepsInv
<1>3. ASSUME NEW event \in factDraft.events, PublishEvent(event) PROVE FactInv'
  BY <1>3, PublishEventKeepsInv
<1>4. CASE GetRawEvidence \/ CountEvidence \/ ReadEvidencePage \/ ListEvents
  BY <1>4, ReadsKeepInv
<1>5. CASE UNCHANGED factVars
  BY <1>5 DEF factVars, FactInv, RowsAreAccepted, RepeatsAreRecognised, ListsAreServed, StoredSet
<1> QED
  BY <1>1, <1>2, <1>3, <1>4, <1>5 DEF FactNext

LEMMA FactInvIsRead ==
    FactInv => FactsAreRead
BY AcceptedRowsAreRead DEF FactInv, FactsAreRead

\* Whatever publishers send, in whatever order, and whatever the casts of PostgreSQL give:
\* what is accepted of evidence and events can be read again, repeats are recognised and
\* lists are served, but for the differences FactContract names.
THEOREM AcceptedFactsAreRead == FactSpec => []FactsAreRead
<1>1. FactInit => FactInv
  BY FactInvInit
<1>2. FactInv /\ [FactNext]_factVars => FactInv'
  BY FactInvStep
<1>3. FactInv => FactsAreRead
  BY FactInvIsRead
<1> QED
  BY <1>1, <1>2, <1>3, PTL DEF FactSpec

-----------------------------------------------------------------------------
(* Schema migration *)

\* The steps at which a run that applies migrations holds the lock.
LockedSteps == {"reset", "version", "pending", "select", "next", "migrate",
                "after", "remaining", "report"}

\* Those after it has read what is pending.
AppliedSteps == {"select", "next", "migrate", "after", "remaining", "report"}

MigrationRun ==
    [at : Steps, order : Orders, seen : Int, before : SUBSET Int, limit : Int, next : Int,
     remaining : SUBSET Int, committed : SUBSET Int, failed : BOOLEAN, applied : SUBSET Int,
     derived : BOOLEAN]

\* What a finished run says.
SaysTheTruth(run) ==
    /\ run.applied = run.committed
    /\ run.order.apply /\ ~run.failed =>
          IF run.order.target = 0 THEN run.remaining = {}
          ELSE run.remaining = PendingAfter(run.order.target)

\* A run against the ledger and the lock: what it has read is what is there, because
\* nobody but the holder of the lock changes the ledger.
RunFits(r, run, reached, lock) ==
    /\ run \in MigrationRun
    /\ run.before \cup run.remaining \cup run.committed \cup run.applied \subseteq 1 .. Latest
    /\ run.at \in LockedSteps /\ run.order.apply => lock = {r}
    /\ run.at \in {"lock", "reset"} \cup AppliedSteps => run.order.apply
    /\ run.at \in {"idle", "lock", "reset", "version", "pending", "select"} => run.committed = {}
    /\ run.at \in AppliedSteps =>
          /\ run.before = run.committed \cup PendingAfter(reached)
          /\ \A m \in run.committed : m <= reached
    /\ run.at \in {"next", "migrate"} => run.limit <= Latest
    /\ run.at = "migrate" => run.next <= run.limit /\ run.next = reached + 1
    /\ run.at \in {"remaining", "report"} => run.seen = reached
    /\ run.at = "report" => run.remaining = PendingAfter(reached)
    /\ run.at # "done" => run.applied = {} /\ ~run.derived
    /\ run.at = "done" /\ run.derived => SaysTheTruth(run)

MigrationInv ==
    /\ schemaVersion \in 0 .. Latest
    /\ migrationLock \subseteq Runs
    /\ DOMAIN migration = Runs
    /\ \A r \in Runs : RunFits(r, migration[r], schemaVersion, migrationLock)

\* A step of one run leaves the others as they were: the ledger changes only under the
\* lock, and a run takes the lock only when nobody has it and gives up only its own.
LEMMA OtherRunsFit ==
    ASSUME NEW r, NEW other, other # r, NEW run, NEW reached, NEW lock,
           RunFits(other, run, reached, lock),
           NEW reached2, reached2 = reached \/ lock = {r},
           NEW lock2, lock2 = lock \/ lock2 = lock \ {r} \/ (lock = {} /\ lock2 = {r})
    PROVE  RunFits(other, run, reached2, lock2)
<1>1. run.at \in LockedSteps /\ run.order.apply => lock2 = {other} /\ reached2 = reached
  BY DEF RunFits
<1>2. run.at \in AppliedSteps \cup {"next", "migrate", "remaining", "report"} =>
          run.at \in LockedSteps /\ run.order.apply
  BY DEF RunFits, AppliedSteps, LockedSteps
<1> QED
  BY <1>1, <1>2 DEF RunFits

LEMMA RunChanges ==
    ASSUME MigrationInv, NEW r \in Runs, NEW run,
           migration' = [migration EXCEPT ![r] = run],
           schemaVersion' \in 0 .. Latest,
           schemaVersion' = schemaVersion \/ migrationLock = {r},
           \/ migrationLock' = migrationLock
           \/ migrationLock' = migrationLock \ {r}
           \/ migrationLock = {} /\ migrationLock' = {r},
           RunFits(r, run, schemaVersion', migrationLock')
    PROVE  MigrationInv'
<1>1. migrationLock' \subseteq Runs /\ DOMAIN migration' = Runs
  BY DEF MigrationInv
<1>2. ASSUME NEW other \in Runs
      PROVE  RunFits(other, migration'[other], schemaVersion', migrationLock')
  <2>1. CASE other = r
    BY <2>1 DEF MigrationInv
  <2>2. CASE other # r
    <3>1. migration'[other] = migration[other]
      BY <2>2 DEF MigrationInv
    <3>2. RunFits(other, migration[other], schemaVersion, migrationLock)
      BY DEF MigrationInv
    <3> QED
      BY <2>2, <3>1, <3>2, OtherRunsFit
  <2> QED
    BY <2>1, <2>2
<1> QED
  BY <1>1, <1>2 DEF MigrationInv

\* A run that ends before its report says nothing.
LEMMA EndedFits ==
    ASSUME NEW r, NEW run, NEW reached, NEW lock, NEW step \in {"done", "killed"},
           RunFits(r, run, reached, lock), run.at # "done",
           NEW ended, ended \in MigrationRun, ended.at = step,
           ended.before = run.before, ended.remaining = run.remaining,
           ended.committed = run.committed, ended.applied = run.applied,
           ended.derived <=> run.derived,
           NEW lock2
    PROVE  RunFits(r, ended, reached, lock2)
BY DEF RunFits, LockedSteps, AppliedSteps

LEMMA MigrationInvInit ==
    MigrationInit => MigrationInv
<1> SUFFICES ASSUME MigrationInit PROVE MigrationInv
  OBVIOUS
<1>1. DOMAIN migration = Runs
  BY DEF MigrationInit
<1>2. ASSUME NEW r \in Runs
      PROVE  RunFits(r, migration[r], schemaVersion, migrationLock)
  <2>1. PICK order \in Orders : migration[r] = NewRun(order)
    BY DEF MigrationInit
  <2>2. NewRun(order) \in MigrationRun
    BY DEF NewRun, MigrationRun, Steps
  <2> QED
    BY <2>1, <2>2 DEF RunFits, NewRun, LockedSteps, AppliedSteps
<1> QED
  BY <1>1, <1>2 DEF MigrationInit, MigrationInv

LEMMA MigrationInvStep ==
    MigrationInv /\ [MigrationNext]_migrationVars => MigrationInv'
<1> SUFFICES ASSUME MigrationInv, [MigrationNext]_migrationVars
             PROVE  MigrationInv'
  OBVIOUS
<1>1. CASE UNCHANGED migrationVars
  BY <1>1 DEF migrationVars, MigrationInv
<1>2. ASSUME NEW r \in Runs,
             \/ StartMigration(r, migration[r].order)
             \/ MigrationStep(r) \/ FailMigration(r) \/ Kill(r)
      PROVE  MigrationInv'
  <2> DEFINE run == migration[r]
  <2>a. RunFits(r, run, schemaVersion, migrationLock) /\ run \in MigrationRun
    BY DEF MigrationInv, RunFits
  <2>b. schemaVersion \in 0 .. Latest /\ Latest \in Nat /\ PendingAfter(schemaVersion) \subseteq 1 .. Latest
    BY MigrationConstants DEF MigrationInv, PendingAfter
  <2>c. run.order \in Orders /\ run.order.target \in 0 .. Latest + 1
    BY <2>a, MigrationConstants DEF MigrationRun
  <2>d. run.order.target # 0 \/ run.order.rebuild => run.order.apply
    BY <2>c, MigrationConstants
  <2>e. schemaVersion \in Int /\ PendingAfter(schemaVersion) \in SUBSET Int
    BY <2>b DEF PendingAfter
  <2>f. run \in MigrationRun
    BY <2>a
  <2>1. CASE StartMigration(r, run.order)
    <3> DEFINE new == [NewRun(run.order) EXCEPT !.at = IF run.order.apply THEN "lock" ELSE "version"]
    <3>0. (IF run.order.apply THEN "lock" ELSE "version") \in Steps
      BY DEF Steps
    <3>1. new \in MigrationRun
      <4>1. NewRun(run.order) \in MigrationRun
        BY <2>c DEF NewRun, MigrationRun, Steps
      <4> QED
        BY <3>0, <4>1 DEF MigrationRun
    <3>2. /\ new.at = IF run.order.apply THEN "lock" ELSE "version"
          /\ new.order = run.order /\ new.before = {} /\ new.remaining = {} /\ new.committed = {}
          /\ new.applied = {} /\ ~new.derived
      BY DEF NewRun
    <3>3. migration' = [migration EXCEPT ![r] = new] /\ UNCHANGED <<schemaVersion, migrationLock>>
      BY <2>1 DEF StartMigration, Continue
    <3> HIDE DEF new
    <3>4. RunFits(r, new, schemaVersion, migrationLock)
      BY <3>1, <3>2 DEF RunFits, LockedSteps, AppliedSteps
    <3> QED
      BY <2>b, <3>3, <3>4, RunChanges
  <2>2. CASE Acquire(r)
    <3> DEFINE new == [run EXCEPT !.at = IF run.order.rebuild THEN "reset" ELSE "version"]
    <3>1. new \in MigrationRun
      BY <2>f DEF MigrationRun, Steps
    <3>2. /\ new.at \in {"reset", "version"}
          /\ new.order = run.order /\ new.before = run.before /\ new.remaining = run.remaining
          /\ new.committed = run.committed /\ new.applied = run.applied
          /\ new.derived <=> run.derived
      BY <2>a DEF MigrationRun
    <3>3. /\ migration' = [migration EXCEPT ![r] = new] /\ schemaVersion' = schemaVersion
          /\ migrationLock = {} /\ migrationLock' = {r} /\ run.at = "lock"
      BY <2>2, <2>a DEF Acquire, AtMigration
    <3> HIDE DEF new, run
    <3>4. RunFits(r, new, schemaVersion, {r})
      BY <2>a, <3>1, <3>2, <3>3 DEF RunFits, LockedSteps, AppliedSteps
    <3> QED
      BY <2>b, <3>3, <3>4, RunChanges DEF run
  <2>3. CASE Reset(r)
    <3> DEFINE new == [run EXCEPT !.at = "pending"]
    <3>1. new \in MigrationRun
      BY <2>f DEF MigrationRun, Steps
    <3>2. /\ new.at = "pending"
          /\ new.order = run.order /\ new.before = run.before /\ new.remaining = run.remaining
          /\ new.committed = run.committed /\ new.applied = run.applied
          /\ new.derived <=> run.derived
      BY <2>a DEF MigrationRun
    <3>3. /\ migration' = [migration EXCEPT ![r] = new] /\ schemaVersion' = 0
          /\ migrationLock' = migrationLock /\ run.at = "reset"
      BY <2>3, <2>a DEF Reset, AtMigration
    <3> HIDE DEF new, run
    <3>4. migrationLock = {r}
      BY <2>a, <3>3 DEF RunFits, LockedSteps
    <3>5. RunFits(r, new, 0, migrationLock)
      BY <2>a, <3>1, <3>2, <3>3, <3>4 DEF RunFits, LockedSteps, AppliedSteps
    <3>6. schemaVersion' \in 0 .. Latest /\ RunFits(r, new, schemaVersion', migrationLock')
      BY <2>b, <3>3, <3>5
    <3> QED
      BY <3>3, <3>4, <3>6, RunChanges DEF run
  <2>4. CASE ReadVersion(r)
    <3> DEFINE new == [run EXCEPT !.at = "pending", !.seen = schemaVersion]
    <3>1. new \in MigrationRun
      BY <2>e, <2>f DEF MigrationRun, Steps
    <3>2. /\ new.at = "pending"
          /\ new.order = run.order /\ new.before = run.before /\ new.remaining = run.remaining
          /\ new.committed = run.committed /\ new.applied = run.applied
          /\ new.derived <=> run.derived
      BY <2>a DEF MigrationRun
    <3>3. /\ migration' = [migration EXCEPT ![r] = new] /\ run.at = "version"
          /\ UNCHANGED <<schemaVersion, migrationLock>>
      BY <2>4, <2>a DEF ReadVersion, Continue, AtMigration
    <3> HIDE DEF new, run
    <3>4. RunFits(r, new, schemaVersion, migrationLock)
      BY <2>a, <3>1, <3>2, <3>3 DEF RunFits, LockedSteps, AppliedSteps
    <3> QED
      BY <2>b, <3>3, <3>4, RunChanges DEF run
  <2>5. CASE ReadPending(r)
    <3> DEFINE pending == PendingAfter(schemaVersion)
               more    == [run EXCEPT !.before = pending, !.remaining = pending]
               new1    == [[more EXCEPT !.derived = TRUE] EXCEPT !.at = "done"]
               new2    == [more EXCEPT !.at = "select"]
    <3>0. run.at = "pending" /\ more.order = run.order
      BY <2>5, <2>a DEF ReadPending, AtMigration, MigrationRun
    <3>1. CASE ~run.order.apply \/ (pending = {} /\ run.order.target = 0)
      <4>1. new1 \in MigrationRun
        BY <2>e, <2>f DEF MigrationRun, Steps
      <4>2. /\ new1.at = "done"
            /\ new1.order = run.order /\ new1.before = pending /\ new1.remaining = pending
            /\ new1.committed = run.committed /\ new1.applied = run.applied
        BY <2>a DEF MigrationRun
      <4>3. /\ migration' = [migration EXCEPT ![r] = new1]
            /\ schemaVersion' = schemaVersion /\ migrationLock' = migrationLock \ {r}
        BY <2>5, <3>0, <3>1 DEF ReadPending, EndMigration
      <4> HIDE DEF new1, run
      <4>4. RunFits(r, new1, schemaVersion, migrationLock \ {r})
        <5>1. SaysTheTruth(new1)
          BY <2>a, <3>0, <3>1, <4>2 DEF RunFits, SaysTheTruth, LockedSteps, AppliedSteps
        <5> QED
          BY <2>a, <2>b, <3>0, <3>1, <4>1, <4>2, <5>1 DEF RunFits, LockedSteps, AppliedSteps
      <4> QED
        BY <2>b, <4>3, <4>4, RunChanges DEF run
    <3>2. CASE ~(~run.order.apply \/ (pending = {} /\ run.order.target = 0))
      <4>1. new2 \in MigrationRun
        BY <2>e, <2>f DEF MigrationRun, Steps
      <4>2. /\ new2.at = "select"
            /\ new2.order = run.order /\ new2.before = pending /\ new2.remaining = pending
            /\ new2.committed = run.committed /\ new2.applied = run.applied
            /\ new2.derived <=> run.derived
        BY <2>a DEF MigrationRun
      <4>3. /\ migration' = [migration EXCEPT ![r] = new2]
            /\ schemaVersion' = schemaVersion /\ migrationLock' = migrationLock
        BY <2>5, <3>0, <3>2 DEF ReadPending, Continue
      <4> HIDE DEF new2, run
      <4>4. RunFits(r, new2, schemaVersion, migrationLock)
        BY <2>a, <2>b, <3>0, <3>2, <4>1, <4>2 DEF RunFits, LockedSteps, AppliedSteps
      <4> QED
        BY <2>b, <4>3, <4>4, RunChanges DEF run
    <3> QED
      BY <3>1, <3>2
  <2>6. CASE Select(r)
    <3> DEFINE target  == run.order.target
               nothing == IF target = 0 THEN schemaVersion = Latest ELSE target = schemaVersion
               refused == target # 0 /\ target # schemaVersion /\ target \notin PendingAfter(schemaVersion)
               new == [run EXCEPT !.limit  = IF target = 0 THEN Latest ELSE target,
                                  !.failed = refused,
                                  !.at     = IF refused \/ nothing THEN "after" ELSE "next"]
    <3>0. (IF target = 0 THEN Latest ELSE target) \in Int /\ refused \in BOOLEAN
      BY <2>b, <2>c
    <3>1. new \in MigrationRun
      BY <2>f, <3>0 DEF MigrationRun, Steps
    <3>2. /\ new.at = IF refused \/ nothing THEN "after" ELSE "next"
          /\ new.limit = IF target = 0 THEN Latest ELSE target
          /\ new.order = run.order /\ new.before = run.before /\ new.remaining = run.remaining
          /\ new.committed = run.committed /\ new.applied = run.applied
          /\ new.derived <=> run.derived
      BY <2>a DEF MigrationRun
    <3>3. /\ migration' = [migration EXCEPT ![r] = new] /\ run.at = "select"
          /\ UNCHANGED <<schemaVersion, migrationLock>>
      BY <2>6, <2>a DEF Select, Continue, AtMigration
    <3>4. new.at = "next" => new.limit <= Latest
      BY <2>b, <2>c, <3>2 DEF PendingAfter
    <3>5. new.at \in {"next", "after"}
      BY <3>2
    <3> HIDE DEF new, run
    <3>6. RunFits(r, new, schemaVersion, migrationLock)
      BY <2>a, <2>b, <3>1, <3>2, <3>3, <3>4, <3>5 DEF RunFits, LockedSteps, AppliedSteps
    <3> QED
      BY <2>b, <3>3, <3>6, RunChanges DEF run
  <2>7. CASE PickNext(r)
    <3> DEFINE new == [run EXCEPT !.next = schemaVersion + 1,
                                  !.at   = IF schemaVersion >= run.limit THEN "after" ELSE "migrate"]
    <3>0. (IF schemaVersion >= run.limit THEN "after" ELSE "migrate") \in Steps /\ schemaVersion + 1 \in Int
      BY <2>e DEF Steps
    <3>1. new \in MigrationRun
      BY <2>f, <3>0 DEF MigrationRun
    <3>2. /\ new.at = IF schemaVersion >= run.limit THEN "after" ELSE "migrate"
          /\ new.next = schemaVersion + 1 /\ new.limit = run.limit /\ run.limit \in Int
          /\ new.order = run.order /\ new.before = run.before /\ new.remaining = run.remaining
          /\ new.committed = run.committed /\ new.applied = run.applied
          /\ new.derived <=> run.derived
      BY <2>a DEF MigrationRun
    <3>3. /\ migration' = [migration EXCEPT ![r] = new] /\ run.at = "next"
          /\ UNCHANGED <<schemaVersion, migrationLock>>
      BY <2>7, <2>a DEF PickNext, Continue, AtMigration
    <3>4. /\ new.at \in {"after", "migrate"}
          /\ new.at = "migrate" => new.next <= new.limit
      BY <2>b, <3>2
    <3> HIDE DEF new, run
    <3>5. RunFits(r, new, schemaVersion, migrationLock)
      BY <2>a, <2>b, <3>1, <3>2, <3>3, <3>4 DEF RunFits, LockedSteps, AppliedSteps
    <3> QED
      BY <2>b, <3>3, <3>5, RunChanges DEF run
  <2>8. CASE Migrate(r)
    <3>0. run.at = "migrate" /\ run.next = schemaVersion + 1 /\ run.next \in 1 .. Latest
      BY <2>8, <2>a, <2>b DEF Migrate, AtMigration, RunFits, MigrationRun
    <3> DEFINE new == [run EXCEPT !.at = "next", !.committed = @ \cup {run.next}]
    <3>1. new \in MigrationRun
      BY <2>f, <3>0 DEF MigrationRun, Steps
    <3>2. /\ new.at = "next" /\ new.limit = run.limit
          /\ new.order = run.order /\ new.before = run.before /\ new.remaining = run.remaining
          /\ new.committed = run.committed \cup {run.next} /\ new.applied = run.applied
          /\ new.derived <=> run.derived
      BY <2>a DEF MigrationRun
    <3>3. /\ migration' = [migration EXCEPT ![r] = new]
          /\ schemaVersion' = run.next /\ migrationLock' = migrationLock
      <4>1. schemaVersion = run.next - 1
        BY <2>b, <3>0
      <4>2. /\ migration' = [migration EXCEPT ![r].at = "next",
                                              ![r].committed = @ \cup {run.next}]
            /\ schemaVersion' = run.next /\ migrationLock' = migrationLock
        BY <2>8, <4>1 DEF Migrate
      <4>3. [migration EXCEPT ![r].at = "next", ![r].committed = @ \cup {run.next}]
              = [migration EXCEPT ![r] = new]
        BY <2>a DEF MigrationInv, MigrationRun
      <4> QED
        BY <4>2, <4>3
    <3> HIDE DEF new, run
    <3>4. migrationLock = {r}
      BY <2>a, <3>0 DEF RunFits, LockedSteps, AppliedSteps
    <3>5. /\ new.committed \subseteq 1 .. Latest
          /\ \A m \in new.committed : m <= run.next
      BY <2>a, <2>b, <3>0, <3>2 DEF RunFits, MigrationRun, AppliedSteps
    <3>6. new.before = new.committed \cup PendingAfter(run.next)
      <4>1. PendingAfter(schemaVersion) = {run.next} \cup PendingAfter(run.next)
        BY <2>b, <3>0 DEF PendingAfter
      <4>2. run.before = run.committed \cup PendingAfter(schemaVersion)
        BY <2>a, <3>0 DEF RunFits, AppliedSteps
      <4> QED
        BY <3>2, <4>1, <4>2
    <3>7. RunFits(r, new, run.next, migrationLock)
      BY <2>a, <2>b, <3>0, <3>1, <3>2, <3>4, <3>5, <3>6 DEF RunFits, LockedSteps, AppliedSteps
    <3>8. schemaVersion' \in 0 .. Latest /\ RunFits(r, new, schemaVersion', migrationLock')
      BY <3>0, <3>3, <3>7
    <3> QED
      BY <3>3, <3>4, <3>8, RunChanges DEF run
  <2>9. CASE ReadAfter(r)
    <3> DEFINE new == [run EXCEPT !.at = "remaining", !.seen = schemaVersion]
    <3>1. new \in MigrationRun
      BY <2>e, <2>f DEF MigrationRun, Steps
    <3>2. /\ new.at = "remaining" /\ new.seen = schemaVersion
          /\ new.order = run.order /\ new.before = run.before /\ new.remaining = run.remaining
          /\ new.committed = run.committed /\ new.applied = run.applied
          /\ new.derived <=> run.derived
      BY <2>a DEF MigrationRun
    <3>3. /\ migration' = [migration EXCEPT ![r] = new] /\ run.at = "after"
          /\ UNCHANGED <<schemaVersion, migrationLock>>
      BY <2>9, <2>a DEF ReadAfter, Continue, AtMigration
    <3> HIDE DEF new, run
    <3>4. RunFits(r, new, schemaVersion, migrationLock)
      BY <2>a, <3>1, <3>2, <3>3 DEF RunFits, LockedSteps, AppliedSteps
    <3> QED
      BY <2>b, <3>3, <3>4, RunChanges DEF run
  <2>10. CASE ReadRemaining(r)
    <3> DEFINE new == [run EXCEPT !.at = "report", !.remaining = PendingAfter(schemaVersion)]
    <3>1. new \in MigrationRun
      BY <2>e, <2>f DEF MigrationRun, Steps
    <3>2. /\ new.at = "report" /\ new.seen = run.seen
          /\ new.order = run.order /\ new.before = run.before
          /\ new.remaining = PendingAfter(schemaVersion)
          /\ new.committed = run.committed /\ new.applied = run.applied
          /\ new.derived <=> run.derived
      BY <2>a DEF MigrationRun
    <3>3. /\ migration' = [migration EXCEPT ![r] = new] /\ run.at = "remaining"
          /\ UNCHANGED <<schemaVersion, migrationLock>>
      BY <2>10, <2>a DEF ReadRemaining, Continue, AtMigration
    <3> HIDE DEF new, run
    <3>4. RunFits(r, new, schemaVersion, migrationLock)
      BY <2>a, <2>b, <3>1, <3>2, <3>3 DEF RunFits, LockedSteps, AppliedSteps
    <3> QED
      BY <2>b, <3>3, <3>4, RunChanges DEF run
  <2>11. CASE Report(r)
    <3> DEFINE new == [[run EXCEPT !.derived = Derived(run),
                                   !.applied = run.before \ run.remaining,
                                   !.failed = @ \/ ~Derived(run) \/ ~Reached(run)]
                         EXCEPT !.at = "done"]
    <3>1. new \in MigrationRun
      BY <2>f, ZenonT(60) DEF MigrationRun, Steps, Derived
    <3>2. /\ new.at = "done"
          /\ new.order = run.order /\ new.before = run.before /\ new.remaining = run.remaining
          /\ new.committed = run.committed /\ new.applied = run.before \ run.remaining
          /\ ~new.failed => Reached(run)
      BY <2>a DEF MigrationRun
    <3>3. /\ migration' = [migration EXCEPT ![r] = new] /\ run.at = "report"
          /\ schemaVersion' = schemaVersion /\ migrationLock' = migrationLock \ {r}
      BY <2>11 DEF Report, EndMigration, AtMigration
    <3> HIDE DEF new, run
    <3>4. new.applied = new.committed
      BY <2>a, <2>b, <3>2, <3>3 DEF RunFits, AppliedSteps, PendingAfter
    <3>5. SaysTheTruth(new)
      BY <2>a, <3>2, <3>3, <3>4 DEF SaysTheTruth, Reached, RunFits
    <3>6. RunFits(r, new, schemaVersion, migrationLock \ {r})
      BY <2>a, <3>1, <3>2, <3>3, <3>4, <3>5 DEF RunFits, LockedSteps, AppliedSteps
    <3> QED
      BY <2>b, <3>3, <3>6, RunChanges DEF run
  <2>12. CASE FailMigration(r)
    <3> DEFINE failed == [run EXCEPT !.failed = TRUE]
               new1 == [failed EXCEPT !.at = "done"]
               new2 == [failed EXCEPT !.at = "after"]
    <3>1. CASE /\ run.at \in {"lock", "reset", "version", "pending", "after", "remaining"}
               /\ EndMigration(r, failed)
      <4>1. new1 \in MigrationRun
        BY <2>f DEF MigrationRun, Steps
      <4>2. /\ new1.at = "done"
            /\ new1.order = run.order /\ new1.before = run.before /\ new1.remaining = run.remaining
            /\ new1.committed = run.committed /\ new1.applied = run.applied
            /\ new1.derived <=> run.derived
        BY <2>a DEF MigrationRun
      <4>3. /\ migration' = [migration EXCEPT ![r] = new1]
            /\ schemaVersion' = schemaVersion /\ migrationLock' = migrationLock \ {r}
        BY <3>1 DEF EndMigration
      <4> HIDE DEF new1, run
      <4>4. RunFits(r, new1, schemaVersion, migrationLock \ {r})
        BY <2>a, <3>1, <4>1, <4>2, EndedFits
      <4> QED
        BY <2>b, <4>3, <4>4, RunChanges DEF run
    <3>2. CASE /\ run.at \in {"select", "next", "migrate"}
               /\ migration' = [migration EXCEPT ![r] = new2]
               /\ UNCHANGED <<schemaVersion, migrationLock>>
      <4>1. new2 \in MigrationRun
        BY <2>f DEF MigrationRun, Steps
      <4>2. /\ new2.at = "after"
            /\ new2.order = run.order /\ new2.before = run.before /\ new2.remaining = run.remaining
            /\ new2.committed = run.committed /\ new2.applied = run.applied
            /\ new2.derived <=> run.derived
        BY <2>a DEF MigrationRun
      <4>3. /\ migration' = [migration EXCEPT ![r] = new2]
            /\ UNCHANGED <<schemaVersion, migrationLock>>
        BY <3>2
      <4> HIDE DEF new2, run
      <4>4. RunFits(r, new2, schemaVersion, migrationLock)
        BY <2>a, <3>2, <4>1, <4>2 DEF RunFits, LockedSteps, AppliedSteps
      <4> QED
        BY <2>b, <4>3, <4>4, RunChanges DEF run
    <3> QED
      BY <2>12, <3>1, <3>2 DEF FailMigration
  <2>13. CASE Kill(r)
    <3> DEFINE new == [run EXCEPT !.at = "killed"]
    <3>1. new \in MigrationRun
      BY <2>f DEF MigrationRun, Steps
    <3>2. /\ new.at = "killed"
          /\ new.order = run.order /\ new.before = run.before /\ new.remaining = run.remaining
          /\ new.committed = run.committed /\ new.applied = run.applied
          /\ new.derived <=> run.derived
      BY <2>a DEF MigrationRun
    <3>3. /\ migration' = [migration EXCEPT ![r] = new] /\ run.at # "done"
          /\ schemaVersion' = schemaVersion /\ migrationLock' = migrationLock \ {r}
      BY <2>13, <2>a DEF Kill
    <3> HIDE DEF new, run
    <3>4. RunFits(r, new, schemaVersion, migrationLock \ {r})
      BY <2>a, <3>1, <3>2, <3>3, EndedFits
    <3> QED
      BY <2>b, <3>3, <3>4, RunChanges DEF run
  <2> QED
    BY <1>2, <2>1, <2>2, <2>3, <2>4, <2>5, <2>6, <2>7, <2>8, <2>9, <2>10, <2>11, <2>12, <2>13
       DEF MigrationStep
<1> QED
  BY <1>1, <1>2 DEF MigrationNext

\* The whole of the migration commands keeps the invariant, whatever runs there are and
\* whatever they were asked.
THEOREM MigrationInvariant ==
    MigrationSpec => []MigrationInv
<1> QED
  BY MigrationInvInit, MigrationInvStep, PTL DEF MigrationSpec

LEMMA MigrationInvIsTrue ==
    MigrationInv => MigrationReportIsTrue
<1> SUFFICES ASSUME MigrationInv PROVE MigrationReportIsTrue
  OBVIOUS
<1>1. ASSUME NEW r \in Runs
      PROVE  /\ migration[r].at \in Steps
             /\ migration[r].order \in Orders
             /\ migration[r].before \cup migration[r].remaining \cup migration[r].committed
                  \cup migration[r].applied \subseteq 1 .. Latest
             /\ AtMigration(r, "done") /\ migration[r].derived => SaysTheTruth(migration[r])
  <2>1. PICK run : run = migration[r]
    OBVIOUS
  <2>2. RunFits(r, run, schemaVersion, migrationLock)
    BY <2>1 DEF MigrationInv
  <2>3. run.at \in Steps /\ run.order \in Orders
    BY <2>2 DEF RunFits, MigrationRun
  <2> QED
    BY <2>1, <2>2, <2>3 DEF RunFits, AtMigration
<1> QED
  BY <1>1 DEF MigrationReportIsTrue, MigrationTypeOK, MigrationInv, SaysTheTruth

\* A report tells what its run did.
THEOREM ReportsAreTrue ==
    MigrationSpec => []MigrationReportIsTrue
<1>1. MigrationInv => MigrationReportIsTrue
  BY MigrationInvIsTrue
<1> QED
  BY <1>1, MigrationInvariant, PTL

-----------------------------------------------------------------------------
(* The place of an element in the order of keys *)

LEMMA PlacesFollowKeys ==
    ASSUME NEW S, IsFiniteSet(S), NEW key \in [S -> Nat], NEW j \in S, NEW k \in S
    PROVE  LET UpTo(x) == {i \in S : key[i] <= key[x]}
           IN  /\ Cardinality(UpTo(k)) \in 1 .. Cardinality(S)
               /\ key[j] < key[k] => Cardinality(UpTo(j)) < Cardinality(UpTo(k))
<1> DEFINE UpTo(x) == {i \in S : key[i] <= key[x]}
<1>1. \A i \in S : key[i] \in Nat
  OBVIOUS
<1>2. /\ IsFiniteSet(UpTo(j)) /\ IsFiniteSet(UpTo(k))
      /\ Cardinality(UpTo(j)) \in Nat /\ Cardinality(UpTo(k)) \in Nat /\ Cardinality(S) \in Nat
  <2>1. UpTo(j) \in SUBSET S /\ UpTo(k) \in SUBSET S
    OBVIOUS
  <2>2. IsFiniteSet(UpTo(j)) /\ IsFiniteSet(UpTo(k))
    BY <2>1, FS_Subset
  <2> QED
    BY <2>2, FS_CardinalityType
<1>3. Cardinality(UpTo(k)) <= Cardinality(S)
  BY <1>2, FS_Subset
<1>4. Cardinality(UpTo(k)) # 0
  <2>1. k \in UpTo(k)
    BY <1>1
  <2> QED
    BY <1>2, <2>1, FS_EmptySet
<1>5. ASSUME key[j] < key[k]
      PROVE  Cardinality(UpTo(j)) < Cardinality(UpTo(k))
  <2>1. UpTo(j) \in SUBSET UpTo(k) /\ k \in UpTo(k) /\ k \notin UpTo(j)
    BY <1>1, <1>5
  <2>2. Cardinality(UpTo(j)) <= Cardinality(UpTo(k)) /\ Cardinality(UpTo(j)) # Cardinality(UpTo(k))
    BY <1>2, <2>1, FS_Subset
  <2> QED
    BY <1>2, <2>2
<1> QED
  BY <1>2, <1>3, <1>4, <1>5

\* In a finite set with a number for each element every place is taken.
LEMMA PlacesAreFilled ==
    ASSUME NEW S, IsFiniteSet(S), NEW key \in Injection(S, Nat), NEW n \in 1 .. Cardinality(S)
    PROVE  \E k \in S : Cardinality({i \in S : key[i] <= key[k]}) = n
<1> DEFINE UpTo(x) == {i \in S : key[i] <= key[x]}
           places == [k \in S |-> Cardinality(UpTo(k))]
           count == Cardinality(S)
<1>0. key \in [S -> Nat] /\ \A i, j \in S : key[i] = key[j] => i = j
  BY DEF Injection, IsInjective
<1>1. count \in Nat
  BY FS_CardinalityType
<1>2. places \in [S -> 1 .. count]
  BY <1>0, PlacesFollowKeys
<1>3. ASSUME NEW j \in S, NEW k \in S, places[j] = places[k]
      PROVE  j = k
  <2>1. key[j] \in Nat /\ key[k] \in Nat
    BY <1>0
  <2>2. Cardinality(UpTo(j)) \in Nat /\ Cardinality(UpTo(j)) = Cardinality(UpTo(k))
    BY <1>0, <1>1, <1>3, PlacesFollowKeys
  <2>3. key[j] < key[k] => Cardinality(UpTo(j)) < Cardinality(UpTo(k))
    BY <1>0, PlacesFollowKeys
  <2>4. key[k] < key[j] => Cardinality(UpTo(k)) < Cardinality(UpTo(j))
    BY <1>0, PlacesFollowKeys
  <2> HIDE DEF UpTo
  <2> QED
    BY <1>0, <2>1, <2>2, <2>3, <2>4
<1>4. places \in Injection(S, 1 .. count)
  BY <1>2, <1>3 DEF Injection, IsInjective
<1>5. IsFiniteSet(1 .. count) /\ Cardinality(1 .. count) = count
  BY <1>1, FS_Interval
<1>6. places \in Surjection(S, 1 .. count)
  BY <1>4, <1>5, FS_Injection
<1>7. \E k \in S : places[k] = n
  BY <1>6 DEF Surjection
<1> QED
  BY <1>7

-----------------------------------------------------------------------------
(* Publications of stocks *)

\* The rows of a valid file in the order of their keys are rows of the file.
LEMMA OrderedRows ==
    ASSUME NEW file \in Files, ValidFile(file), file.kind \in {"catalogue", "profiles"}
    PROVE  Ordered(file) \in Seq(Entry)
<1>1. file.rows \in Seq(Entry) /\ Stocks \subseteq Nat
  BY StockConstants
<1>2. CASE file.kind = "profiles"
  BY <1>1, <1>2 DEF Ordered
<1>3. CASE file.kind = "catalogue"
  <2> DEFINE rows == Range(file.rows)
             size == Len(file.rows)
             stockOf == [i \in 1 .. size |-> file.rows[i].stock]
  <2>1. size \in Nat /\ DOMAIN file.rows = 1 .. size /\ \A i \in 1 .. size : file.rows[i] \in Entry
    BY <1>1
  <2>2. stockOf \in Surjection(1 .. size, StocksOf(file))
    BY <2>1 DEF StocksOf, Surjection
  <2>3. IsFiniteSet(1 .. size) /\ Cardinality(1 .. size) = size
    BY <2>1, FS_Interval
  <2>4. Cardinality(StocksOf(file)) = size
    BY <1>3 DEF ValidFile, ValidRows
  <2>5. stockOf \in Injection(1 .. size, StocksOf(file))
    BY <2>2, <2>3, <2>4, FS_Surjection
  <2>6. \A i, j \in 1 .. size : file.rows[i].stock = file.rows[j].stock => i = j
    BY <2>5 DEF Injection, IsInjective
  <2>7. rows = {file.rows[i] : i \in 1 .. size} /\ rows \subseteq Entry
    BY <2>1 DEF Range
  <2>8. IsFiniteSet(rows)
    <3> DEFINE at == [i \in 1 .. size |-> file.rows[i]]
    <3>1. at \in Surjection(1 .. size, rows)
      BY <2>7 DEF Surjection
    <3> QED
      BY <2>3, <3>1, FS_Surjection
  <2>9. PICK key : key = [x \in rows |-> x.stock]
    OBVIOUS
  <2>a. \A x \in rows : x.stock \in Nat
    BY <1>1, <2>7 DEF Entry
  <2>b. \A x, y \in rows : x.stock = y.stock => x = y
    BY <2>6, <2>7
  <2> DEFINE UpTo(x) == {y \in rows : y.stock <= x.stock}
  <2> HIDE DEF rows
  <2>10. key \in [rows -> Nat] /\ \A x, y \in rows : key[x] = key[y] => x = y
    BY <2>9, <2>a, <2>b
  <2>c. key \in Injection(rows, Nat)
    BY <2>10 DEF Injection, IsInjective
  <2>11. ASSUME NEW n \in 1 .. Cardinality(rows)
         PROVE  \E x \in rows : Cardinality(UpTo(x)) = n
    <3>0. \E x \in rows : Cardinality({y \in rows : key[y] <= key[x]}) = n
      BY <2>8, <2>c, PlacesAreFilled
    <3>1. PICK x \in rows : Cardinality({y \in rows : key[y] <= key[x]}) = n
      BY <3>0
    <3>2. {y \in rows : key[y] <= key[x]} = UpTo(x)
      BY <2>9
    <3> QED
      BY <3>1, <3>2
  <2>12. \A n \in 1 .. Cardinality(rows) : (CHOOSE x \in rows : Cardinality(UpTo(x)) = n) \in rows
    BY <2>11
  <2>13. Cardinality(rows) \in Nat
    BY <2>8, FS_CardinalityType
  <2>14. InKeyOrder(rows) \in Seq(Entry)
    <3>1. PICK count : count = Cardinality(rows)
      OBVIOUS
    <3>2. InKeyOrder(rows) = [n \in 1 .. count |-> CHOOSE x \in rows : Cardinality(UpTo(x)) = n]
      BY <3>1 DEF InKeyOrder
    <3>3. \A n \in 1 .. count : (CHOOSE x \in rows : Cardinality(UpTo(x)) = n) \in Entry
      BY <2>7, <2>12, <3>1
    <3> HIDE DEF UpTo
    <3> QED
      BY <2>13, <3>1, <3>2, <3>3
  <2> QED
    BY <1>3, <2>14 DEF Ordered, rows
<1> QED
  BY <1>2, <1>3

\* What a package leaves of a row: a later date, or the facts that were there.
Succeeds(old, new) ==
    /\ new.asOf >= old.asOf
    /\ new.asOf = old.asOf =>
         new.name = old.name /\ old.profile \in {NoProfile, new.profile}

Rivals(file, other) ==
    \/ {file.kind, other.kind} \subseteq Writers
    \/ file.kind = "classification" /\ other.kind = "classification"

Queued == {"idle", "advisory"}

WrittenFits(written, rows) ==
    /\ DOMAIN written \subseteq Stocks
    /\ \A s \in DOMAIN written :
         /\ written[s] \in StockRow
         /\ s \in DOMAIN rows => Succeeds(rows[s], written[s])

\* What was decided from the row that is locked still holds when it is written.
DecisionHolds(job, seen) ==
    LET entry == Head(job.todo) IN
    entry.stock \in DOMAIN seen =>
        /\ ValidateReplacement(seen[entry.stock], entry, job.file.date)
        /\ job.file.kind = "profiles" =>
             ~ProfileConflict(seen[entry.stock], entry, job.file.date)

PublicationFields(job) ==
    job = [pc |-> job.pc, file |-> job.file, todo |-> job.todo, rows |-> job.rows,
            keys |-> job.keys, table |-> job.table, written |-> job.written]

HoldsNothing(job) ==
    job.rows = {} /\ job.keys = {} /\ job.table = "none" /\ DOMAIN job.written = {}

\* A publication against the table: a writer of rows, past its advisory lock; a reader
\* that has the table shared; or one that has no lock yet.
WritesRows(job, rows) ==
    /\ job.pc \in {"row", "write"} /\ job.file.kind \in Writers
    /\ job.keys = {} /\ job.table \in {"none", "row exclusive"}
    /\ WrittenFits(job.written, rows)
    /\ job.file.kind = "reindex" => DOMAIN job.written = {}
    /\ job.file.kind # "reindex" => job.todo \in Seq(Entry)
    /\ job.pc = "write" /\ job.file.kind # "reindex" =>
         job.todo # <<>> /\ DecisionHolds(job, Overridden(rows, job.written))

SharesRows(job, rows) ==
    /\ job.pc \in {"quotes", "check", "insert"} /\ job.file.kind \in Readers
    /\ job.rows = {} /\ job.table = "share" /\ DOMAIN job.written = {}
    /\ job.pc = "insert" => StocksOf(job.file) \subseteq DOMAIN rows

Waits(job) ==
    /\ job.pc \in Queued \cup {"share"} /\ HoldsNothing(job)
    /\ job.pc = "advisory" => job.file.kind # "quotes"
    /\ job.pc = "share" => job.file.kind \in Readers

PublicationFits(job, rows) ==
    /\ PublicationFields(job)
    /\ job.pc # "idle" => job.file \in Files /\ ValidFile(job.file)
    /\ Waits(job) \/ WritesRows(job, rows) \/ SharesRows(job, rows)

TablesFit(rows, figures, assigned) ==
    /\ DOMAIN rows \subseteq Stocks
    /\ \A s \in DOMAIN rows : rows[s] \in StockRow
    /\ \A k \in DOMAIN figures : k[1] \in DOMAIN rows /\ ValidQuote(Decoded(figures[k]))
    /\ assigned \in [Stocks -> SUBSET Targets]

\* Two publications that do not wait for each other.
Apart(job, other) ==
    /\ Rivals(job.file, other.file) => job.pc \in Queued \/ other.pc \in Queued
    /\ job.table = "share" => other.table # "row exclusive"
    /\ job.table = "row exclusive" => other.table # "share"

StockInv ==
    /\ TablesFit(stock, quotes, classifications)
    /\ DOMAIN stockCall = StockCalls
    /\ \A c \in StockCalls : PublicationFits(stockCall[c], stock)
    /\ \A c, d \in StockCalls : c # d => Apart(stockCall[c], stockCall[d])

LEMMA ApartIsSymmetric ==
    ASSUME NEW job, NEW other, Apart(job, other)
    PROVE  Apart(other, job)
BY DEF Apart, Rivals

LEMMA StockChanges ==
    ASSUME StockInv, NEW c \in StockCalls, NEW job, Becomes(c, job),
           PublicationFits(job, stock'),
           TablesFit(stock', quotes', classifications'),
           \A d \in StockCalls : d # c => Apart(job, stockCall[d]),
           \/ stock' = stock
           \/ /\ DOMAIN stock \subseteq DOMAIN stock'
              /\ \A d \in StockCalls : d # c => stockCall[d].pc \notin {"row", "write"}
    PROVE  StockInv'
<1>1. stockCall'[c] = job /\ DOMAIN stockCall' = StockCalls
  BY DEF StockInv, Becomes
<1>2. \A d \in StockCalls : d # c => stockCall'[d] = stockCall[d]
  BY DEF StockInv, Becomes
<1>3. ASSUME NEW d \in StockCalls
      PROVE  PublicationFits(stockCall'[d], stock')
  <2>1. CASE d = c
    BY <1>1, <2>1
  <2>2. CASE d # c
    <3>1. PICK other : other = stockCall[d] /\ PublicationFits(other, stock)
      BY DEF StockInv
    <3>2. CASE stock' = stock
      BY <1>2, <2>2, <3>1, <3>2
    <3>3. CASE DOMAIN stock \subseteq DOMAIN stock' /\ other.pc \notin {"row", "write"}
      <4>1. PublicationFits(other, stock')
        BY <3>1, <3>3 DEF PublicationFits, WritesRows, SharesRows
      <4> QED
        BY <1>2, <2>2, <3>1, <4>1
    <3> QED
      BY <2>2, <3>1, <3>2, <3>3
  <2> QED
    BY <2>1, <2>2
<1>4. ASSUME NEW d \in StockCalls, NEW e \in StockCalls, d # e
      PROVE  Apart(stockCall'[d], stockCall'[e])
  <2>1. CASE d # c /\ e # c
    BY <1>2, <1>4, <2>1 DEF StockInv
  <2>2. CASE d = c
    BY <1>1, <1>2, <1>4, <2>2
  <2>3. CASE e = c
    BY <1>1, <1>2, <1>4, <2>3, ApartIsSymmetric
  <2> QED
    BY <2>1, <2>2, <2>3
<1> QED
  BY <1>1, <1>3, <1>4 DEF StockInv

\* A publication that goes on with the locks it had stays apart from the others.
LEMMA StaysApart ==
    ASSUME NEW job, NEW other, NEW next, Apart(job, other),
           \/ next.pc \in Queued \/ next.file.kind = "quotes"
           \/ next.file = job.file /\ job.pc \notin Queued,
           next.table \in {job.table, "none"}
    PROVE  Apart(next, other)
BY DEF Apart, Rivals, Writers

\* A step that leaves the tables alone and takes no lock against others.
LEMMA PublicationGoesOn ==
    ASSUME StockInv, NEW c \in StockCalls, NEW job, Becomes(c, job), UNCHANGED Tables,
           PublicationFits(job, stock),
           \/ job.pc \in Queued \/ job.file.kind = "quotes"
           \/ job.file = stockCall[c].file /\ stockCall[c].pc \notin Queued,
           job.table \in {stockCall[c].table, "none"}
    PROVE  StockInv'
<1>1. UNCHANGED <<stock, quotes, classifications>>
  BY DEF Tables
<1>2. \A d \in StockCalls : d # c => Apart(stockCall[c], stockCall[d])
  BY DEF StockInv
<1>3. \A d \in StockCalls : d # c => Apart(job, stockCall[d])
  BY <1>2, StaysApart
<1>4. TablesFit(stock', quotes', classifications')
  BY <1>1 DEF StockInv
<1>5. PublicationFits(job, stock')
  BY <1>1
<1> QED
  BY <1>1, <1>3, <1>4, <1>5, StockChanges

LEMMA IdleFits ==
    /\ IdleCall.pc = "idle" /\ IdleCall.table = "none"
    /\ \A rows : PublicationFits(IdleCall, rows)
BY DEF IdleCall, PublicationFits, PublicationFields, Waits, HoldsNothing, Queued

LEMMA PublicationEnds ==
    ASSUME StockInv, NEW c \in StockCalls, EndCall(c), UNCHANGED Tables
    PROVE  StockInv'
<1>1. PICK job : job = IdleCall
  OBVIOUS
<1>2. Becomes(c, job) /\ job.pc \in Queued /\ job.table = "none" /\ PublicationFits(job, stock)
  BY <1>1, IdleFits DEF EndCall, Queued
<1> QED
  BY <1>2, PublicationGoesOn

LEMMA StockInvInit ==
    StockInit => StockInv
<1> SUFFICES ASSUME StockInit PROVE StockInv
  OBVIOUS
<1>1. TablesFit(stock, quotes, classifications)
  BY DEF StockInit, TablesFit
<1>2. PICK idle : idle = IdleCall
  OBVIOUS
<1>3. \A c \in StockCalls : stockCall[c] = idle
  BY <1>2 DEF StockInit
<1>4. Apart(idle, idle) /\ PublicationFits(idle, stock)
  BY <1>2, IdleFits DEF Apart, Queued
<1>5. DOMAIN stockCall = StockCalls
  BY DEF StockInit
<1> QED
  BY <1>1, <1>3, <1>4, <1>5 DEF StockInv

LEMMA FileFacts ==
    ASSUME NEW file \in Files
    PROVE  /\ file.kind \in Writers \cup Readers /\ file.rows \in Seq(Entry)
           /\ file.date \in Dates /\ file.date \in Nat
           /\ file.targets \in [Stocks -> SUBSET Targets]
BY StockConstants DEF Writers, Readers

\* No facts go back over several packages.
LEMMA SucceedsTransitive ==
    ASSUME NEW a \in StockRow, NEW b \in StockRow, NEW d \in StockRow,
           Succeeds(a, b), Succeeds(b, d)
    PROVE  Succeeds(a, d)
<1>1. a.asOf \in Nat /\ b.asOf \in Nat /\ d.asOf \in Nat
  BY StockConstants DEF StockRow
<1>2. d.asOf >= a.asOf
  BY <1>1 DEF Succeeds
<1>3. CASE d.asOf = a.asOf
  <2>1. b.asOf = a.asOf /\ d.asOf = b.asOf
    BY <1>1, <1>3 DEF Succeeds
  <2> QED
    BY <1>2, <2>1 DEF Succeeds
<1> QED
  BY <1>2, <1>3 DEF Succeeds

\* What a transaction sees of a stock is a row, and one that succeeds the stored one.
LEMMA SeenRows ==
    ASSUME NEW rows, NEW written, WrittenFits(written, rows),
           DOMAIN rows \subseteq Stocks, \A s \in DOMAIN rows : rows[s] \in StockRow
    PROVE  LET seen == Overridden(rows, written)
           IN  /\ DOMAIN rows \subseteq DOMAIN seen /\ DOMAIN seen \subseteq Stocks
               /\ \A s \in DOMAIN seen : seen[s] \in StockRow
               /\ \A s \in DOMAIN rows : Succeeds(rows[s], seen[s])
<1>1. \A s \in DOMAIN rows : Succeeds(rows[s], rows[s])
  <2> TAKE s \in DOMAIN rows
  <2>1. rows[s].asOf \in Nat
    BY StockConstants DEF StockRow
  <2> QED
    BY <2>1 DEF Succeeds
<1>2. PICK seen : seen = Overridden(rows, written)
  OBVIOUS
<1>3. /\ DOMAIN seen = DOMAIN rows \cup DOMAIN written
      /\ \A s \in DOMAIN seen : seen[s] = IF s \in DOMAIN written THEN written[s] ELSE rows[s]
  BY <1>2 DEF Overridden
<1>4. /\ DOMAIN rows \subseteq DOMAIN seen /\ DOMAIN seen \subseteq Stocks
      /\ \A s \in DOMAIN seen : seen[s] \in StockRow
      /\ \A s \in DOMAIN rows : Succeeds(rows[s], seen[s])
  BY <1>1, <1>3 DEF WrittenFits
<1> QED
  BY <1>2, <1>4

LEMMA BeginFits ==
    ASSUME StockInv, NEW c \in StockCalls, BeginPublication(c)
    PROVE  StockInv'
<1>1. PICK file \in Files :
        /\ ValidFile(file)
        /\ Becomes(c, [IdleCall EXCEPT !.file = file,
                         !.pc = IF file.kind = "quotes" THEN "share" ELSE "advisory"])
  BY DEF BeginPublication
<1>2. PICK job : job = [IdleCall EXCEPT !.file = file,
                            !.pc = IF file.kind = "quotes" THEN "share" ELSE "advisory"]
  OBVIOUS
<1>3. /\ PublicationFields(job) /\ HoldsNothing(job) /\ job.file = file
      /\ job.pc = IF file.kind = "quotes" THEN "share" ELSE "advisory"
      /\ job.table = "none"
  BY <1>2 DEF IdleCall, PublicationFields, HoldsNothing
<1>4. PublicationFits(job, stock)
  BY <1>1, <1>3 DEF PublicationFits, Waits, Queued, Readers
<1> QED
  BY <1>1, <1>2, <1>3, <1>4, PublicationGoesOn DEF BeginPublication, Queued

LEMMA AdmitFits ==
    ASSUME StockInv, NEW c \in StockCalls, Admit(c)
    PROVE  StockInv'
<1> DEFINE old == stockCall[c]
<1>1. PICK todo :
        /\ old.file.kind \in {"catalogue", "profiles"} => todo = Ordered(old.file)
        /\ Becomes(c, [old EXCEPT !.pc = IF old.file.kind \in Writers THEN "row" ELSE "share",
                                  !.todo = todo])
  BY DEF Admit, File
<1>2. PICK job : job = [old EXCEPT !.pc = IF old.file.kind \in Writers THEN "row" ELSE "share",
                                     !.todo = todo]
  OBVIOUS
<1>3. old.pc = "advisory" /\ Blockers(c) = {} /\ UNCHANGED Tables
  BY DEF Admit, AtStep
<1>4. PublicationFits(old, stock)
  BY DEF StockInv
<1>5. /\ PublicationFields(old) /\ HoldsNothing(old) /\ old.file \in Files /\ ValidFile(old.file)
      /\ old.file.kind # "quotes"
  BY <1>3, <1>4 DEF PublicationFits, Waits, WritesRows, SharesRows, Queued
<1>6. /\ PublicationFields(job) /\ HoldsNothing(job) /\ job.file = old.file
      /\ job.pc = IF old.file.kind \in Writers THEN "row" ELSE "share"
      /\ job.todo = todo /\ job.table = "none"
  BY <1>2, <1>5 DEF PublicationFields, HoldsNothing
<1>7. job.file.kind # "reindex" /\ job.file.kind \in Writers => job.todo \in Seq(Entry)
  BY <1>1, <1>5, <1>6, OrderedRows DEF Writers
<1>8. job.file.kind \in Writers \cup Readers
  BY <1>5, <1>6, FileFacts
<1>9. ASSUME NEW d \in StockCalls, d # c
      PROVE  Apart(job, stockCall[d])
  <2>1. ~(SameLock(c, d) /\ stockCall[d].pc \notin {"idle", "advisory"})
    BY <1>3, <1>9 DEF Blockers
  <2>2. Rivals(job.file, stockCall[d].file) => stockCall[d].pc \in Queued
    BY <1>6, <2>1 DEF SameLock, File, Rivals, Queued
  <2> QED
    BY <1>6, <2>2 DEF Apart
<1>10. PublicationFits(job, stock)
  <2>1. CASE job.file.kind \in Writers
    <3>1. WritesRows(job, stock)
      BY <1>6, <1>7, <2>1 DEF WritesRows, WrittenFits, HoldsNothing
    <3> QED
      BY <1>5, <1>6, <3>1 DEF PublicationFits
  <2>2. CASE job.file.kind \notin Writers
    BY <1>5, <1>6, <1>8, <2>2 DEF PublicationFits, Waits, Queued
  <2> QED
    BY <2>1, <2>2
<1>11. UNCHANGED <<stock, quotes, classifications>>
  BY <1>3 DEF Tables
<1>12. PublicationFits(job, stock') /\ TablesFit(stock', quotes', classifications')
  BY <1>10, <1>11 DEF StockInv
<1> QED
  BY <1>1, <1>2, <1>9, <1>11, <1>12, StockChanges

LEMMA RowsLeft ==
    ASSUME NEW rows \in Seq(Entry), rows # <<>>
    PROVE  Tail(rows) \in Seq(Entry)
OBVIOUS

LEMMA LockRowFits ==
    ASSUME StockInv, NEW c \in StockCalls, LockRow(c)
    PROVE  StockInv'
<1> DEFINE seen == Overlay(c)
           kind == File(c).kind
<1>1. PICK old : old = stockCall[c]
  OBVIOUS
<1>2. old.pc = "row" /\ old.todo # <<>> /\ UNCHANGED Tables
  BY <1>1 DEF LockRow, AtStep
<1>3. PublicationFits(old, stock)
  BY <1>1 DEF StockInv
<1>4. PublicationFields(old) /\ WritesRows(old, stock) /\ old.file \in Files /\ ValidFile(old.file)
  BY <1>2, <1>3 DEF PublicationFits, Waits, SharesRows, Queued
<1>5. seen = Overridden(stock, old.written) /\ File(c) = old.file
  BY <1>1 DEF Overlay, File
<1>6. PICK entry : entry = Head(old.todo)
  OBVIOUS
<1>7. PICK locked : locked = [old EXCEPT !.rows = @ \cup {entry.stock}]
  OBVIOUS
<1>8. /\ PublicationFields(locked) /\ WritesRows(locked, stock)
      /\ locked.pc = "row" /\ locked.file = old.file /\ locked.table = old.table
      /\ locked.todo = old.todo /\ locked.written = old.written
  BY <1>2, <1>4, <1>7 DEF PublicationFields, WritesRows
<1>9. ASSUME NEW next, Becomes(c, next), PublicationFields(next), WritesRows(next, stock),
             next.file = old.file, next.table = old.table
      PROVE  StockInv'
  <2>1. PublicationFits(next, stock)
    BY <1>4, <1>9 DEF PublicationFits
  <2> QED
    BY <1>1, <1>2, <1>9, <2>1, PublicationGoesOn DEF Queued
<1>10. ASSUME Becomes(c, NextRow(locked))
       PROVE  StockInv'
  <2>1. PICK next : next = NextRow(locked)
    OBVIOUS
  <2>2. /\ PublicationFields(next) /\ next.pc = "row" /\ next.file = old.file
        /\ next.table = old.table /\ next.written = old.written /\ next.keys = locked.keys
        /\ next.todo = Tail(locked.todo)
    BY <1>8, <2>1 DEF NextRow, PublicationFields
  <2>3. next.file.kind # "reindex" => next.todo \in Seq(Entry)
    <3>1. HAVE next.file.kind # "reindex"
    <3>2. locked.todo \in Seq(Entry) /\ locked.todo # <<>>
      BY <1>2, <1>8, <2>2, <3>1 DEF WritesRows
    <3> QED
      BY <2>2, <3>2, RowsLeft
  <2>4. WritesRows(next, stock)
    BY <1>8, <2>2, <2>3 DEF WritesRows
  <2> QED
    BY <1>9, <1>10, <2>1, <2>2, <2>4
<1>11. ASSUME NEW from \in {old, locked}, Becomes(c, [from EXCEPT !.pc = "write"]),
              old.file.kind # "reindex" => DecisionHolds(old, seen)
       PROVE  StockInv'
  <2>1. PICK next : next = [from EXCEPT !.pc = "write"]
    OBVIOUS
  <2>2. /\ PublicationFields(from) /\ WritesRows(from, stock) /\ from.file = old.file
        /\ from.table = old.table /\ from.todo = old.todo /\ from.written = old.written
    BY <1>4, <1>8
  <2>3. /\ PublicationFields(next) /\ next.pc = "write" /\ next.file = old.file
        /\ next.table = old.table /\ next.todo = old.todo /\ next.written = old.written
        /\ next.keys = from.keys
    BY <2>1, <2>2 DEF PublicationFields
  <2>4. next.file.kind # "reindex" => DecisionHolds(next, Overridden(stock, next.written))
    BY <1>5, <1>11, <2>3 DEF DecisionHolds
  <2>5. WritesRows(next, stock)
    BY <1>2, <2>2, <2>3, <2>4 DEF WritesRows
  <2> QED
    BY <1>9, <1>11, <2>1, <2>3, <2>5
<1>12. CASE entry.stock \notin DOMAIN seen
  <2>1. DecisionHolds(old, seen)
    BY <1>6, <1>12 DEF DecisionHolds
  <2>2. CASE kind = "catalogue"
    <3>1. Becomes(c, [old EXCEPT !.pc = "write"])
      BY <1>1, <1>6, <1>12, <2>2 DEF LockRow
    <3> QED
      BY <1>11, <2>1, <3>1
  <2>3. CASE kind # "catalogue"
    <3>1. EndCall(c)
      BY <1>1, <1>6, <1>12, <2>3 DEF LockRow
    <3> QED
      BY <1>2, <3>1, PublicationEnds
  <2> QED
    BY <2>2, <2>3
<1>13. CASE entry.stock \in DOMAIN seen
  <2>1. CASE kind = "reindex"
    <3>1. \/ Becomes(c, NextRow(locked))
          \/ Becomes(c, [locked EXCEPT !.pc = "write"])
      BY <1>1, <1>6, <1>7, <1>13, <2>1 DEF LockRow
    <3> QED
      BY <1>5, <1>10, <1>11, <2>1, <3>1
  <2>2. CASE /\ kind # "reindex"
             /\ \/ ~ValidateReplacement(seen[entry.stock], entry, File(c).date)
                \/ kind = "profiles" /\ ProfileConflict(seen[entry.stock], entry, File(c).date)
    <3>1. EndCall(c)
      BY <1>1, <1>6, <1>13, <2>2 DEF LockRow
    <3> QED
      BY <1>2, <3>1, PublicationEnds
  <2>3. CASE /\ kind # "reindex"
             /\ ~(\/ ~ValidateReplacement(seen[entry.stock], entry, File(c).date)
                  \/ kind = "profiles" /\ ProfileConflict(seen[entry.stock], entry, File(c).date))
    <3>1. DecisionHolds(old, seen)
      BY <1>5, <1>6, <2>3 DEF DecisionHolds
    <3>2. \/ Becomes(c, NextRow(locked))
          \/ Becomes(c, [locked EXCEPT !.pc = "write"])
      BY <1>1, <1>6, <1>7, <1>13, <2>3 DEF LockRow
    <3> QED
      BY <1>10, <1>11, <3>1, <3>2
  <2> QED
    BY <2>1, <2>2, <2>3
<1> QED
  BY <1>12, <1>13

LEMMA WriteRowFits ==
    ASSUME StockInv, NEW c \in StockCalls, WriteRow(c)
    PROVE  StockInv'
<1>1. PICK old : old = stockCall[c]
  OBVIOUS
<1>2. PICK entry : entry = Head(old.todo)
  OBVIOUS
<1>3. PICK row : row = Replacement(c, entry)
  OBVIOUS
<1>4. PICK written : written = IF old.file.kind = "reindex" THEN old.written
                               ELSE Overridden(old.written, [s \in {entry.stock} |-> row])
  OBVIOUS
<1>5. PICK next : next = [NextRow(old) EXCEPT !.table = "row exclusive", !.written = written]
  OBVIOUS
<1>6. old.pc = "write" /\ Blockers(c) = {} /\ UNCHANGED Tables
  BY <1>1 DEF WriteRow, AtStep
<1>7. PublicationFits(old, stock)
  BY <1>1 DEF StockInv
<1>8. PublicationFields(old) /\ WritesRows(old, stock) /\ old.file \in Files /\ ValidFile(old.file)
  BY <1>6, <1>7 DEF PublicationFits, Waits, SharesRows, Queued
<1>9. Becomes(c, next)
  <2>1. NextRow(old) = [old EXCEPT !.pc = "row", !.todo = Tail(@)]
    BY DEF NextRow
  <2>2. NextRow(old).written = old.written
    BY <1>8, <2>1 DEF PublicationFields
  <2> QED
    BY <1>1, <1>2, <1>3, <1>4, <1>5, <2>2 DEF WriteRow, File
<1>10. /\ PublicationFields(next) /\ next.pc = "row" /\ next.file = old.file
       /\ next.table = "row exclusive" /\ next.written = written /\ next.keys = old.keys
       /\ next.todo = Tail(old.todo)
  BY <1>5, <1>8 DEF NextRow, PublicationFields
<1>11. WrittenFits(old.written, stock)
  BY <1>8 DEF WritesRows
<1>12. WrittenFits(written, stock)
  <2>1. CASE old.file.kind = "reindex"
    BY <1>4, <1>11, <2>1
  <2>2. CASE old.file.kind # "reindex"
    <3>1. old.todo \in Seq(Entry) /\ old.todo # <<>> /\ DecisionHolds(old, Overridden(stock, old.written))
      BY <1>6, <1>8, <2>2 DEF WritesRows
    <3>2. entry \in Entry
      BY <1>2, <3>1
    <3>3. PICK seen : seen = Overridden(stock, old.written)
      OBVIOUS
    <3>4. /\ DOMAIN stock \subseteq DOMAIN seen
          /\ \A s \in DOMAIN seen : seen[s] \in StockRow
          /\ \A s \in DOMAIN stock : stock[s] \in StockRow /\ Succeeds(stock[s], seen[s])
      BY <1>11, <3>3, SeenRows DEF StockInv, TablesFit
    <3>5. row = IF old.file.kind = "profiles"
                THEN [name |-> entry.name, asOf |-> old.file.date, profile |-> entry.profile]
                ELSE [name |-> entry.name, asOf |-> old.file.date,
                      profile |-> IF entry.stock \notin DOMAIN seen THEN NoProfile
                                  ELSE seen[entry.stock].profile]
      BY <1>1, <1>3, <3>3 DEF Replacement, Overlay, File
    <3>6. old.file.date \in Dates /\ old.file.date \in Nat
      BY <1>8, FileFacts
    <3>7. row \in StockRow
      BY <3>2, <3>4, <3>5, <3>6 DEF Entry, StockRow
    <3>8. entry.stock \in DOMAIN seen => Succeeds(seen[entry.stock], row)
      <4>1. HAVE entry.stock \in DOMAIN seen
      <4>2. PICK before : before = seen[entry.stock] /\ before \in StockRow
        BY <3>4, <4>1
      <4>3. /\ ValidateReplacement(before, entry, old.file.date)
            /\ old.file.kind = "profiles" => ~ProfileConflict(before, entry, old.file.date)
        BY <1>2, <3>1, <3>3, <4>1, <4>2 DEF DecisionHolds
      <4>4. row.name = entry.name /\ row.asOf = old.file.date
            /\ row.profile = IF old.file.kind = "profiles" THEN entry.profile ELSE before.profile
        BY <3>5, <4>1, <4>2
      <4>5. before.asOf \in Nat
        BY <4>2, StockConstants DEF StockRow
      <4>6. Succeeds(before, row)
        BY <3>6, <4>3, <4>4, <4>5 DEF ValidateReplacement, ProfileConflict, Succeeds
      <4> QED
        BY <4>2, <4>6
    <3>9. entry.stock \in DOMAIN stock => Succeeds(stock[entry.stock], row)
      <4>1. HAVE entry.stock \in DOMAIN stock
      <4>2. PICK a : a = stock[entry.stock] /\ a \in StockRow
        BY <3>4, <4>1
      <4>3. PICK b : b = seen[entry.stock] /\ b \in StockRow
        BY <3>4, <4>1
      <4>4. Succeeds(a, b) /\ Succeeds(b, row)
        BY <3>4, <3>8, <4>1, <4>2, <4>3
      <4>5. Succeeds(a, row)
        BY <3>7, <4>2, <4>3, <4>4, SucceedsTransitive
      <4> QED
        BY <4>2, <4>5
    <3>10. /\ DOMAIN written = DOMAIN old.written \cup {entry.stock}
           /\ written[entry.stock] = row
           /\ \A s \in DOMAIN old.written : s # entry.stock => written[s] = old.written[s]
      BY <1>4, <2>2 DEF Overridden
    <3>11. entry.stock \in Stocks
      BY <3>2 DEF Entry
    <3> QED
      BY <1>11, <3>7, <3>9, <3>10, <3>11 DEF WrittenFits
  <2> QED
    BY <2>1, <2>2
<1>13. next.file.kind # "reindex" => next.todo \in Seq(Entry)
  <2>1. HAVE next.file.kind # "reindex"
  <2>2. old.todo \in Seq(Entry) /\ old.todo # <<>>
    BY <1>6, <1>8, <1>10, <2>1 DEF WritesRows
  <2> QED
    BY <1>10, <2>2, RowsLeft
<1>14. next.file.kind = "reindex" => DOMAIN next.written = {}
  BY <1>4, <1>8, <1>10 DEF WritesRows
<1>15. WritesRows(next, stock)
  BY <1>8, <1>10, <1>12, <1>13, <1>14 DEF WritesRows
<1>16. PublicationFits(next, stock)
  BY <1>8, <1>10, <1>15 DEF PublicationFits
<1>17. ASSUME NEW d \in StockCalls, d # c
       PROVE  Apart(next, stockCall[d])
  <2>1. stockCall[d].table # "share"
    BY <1>1, <1>6, <1>17 DEF Blockers
  <2>2. Apart(old, stockCall[d])
    BY <1>1, <1>17 DEF StockInv
  <2> QED
    BY <1>6, <1>10, <2>1, <2>2 DEF Apart, Queued
<1>18. UNCHANGED <<stock, quotes, classifications>>
  BY <1>6 DEF Tables
<1>19. PublicationFits(next, stock') /\ TablesFit(stock', quotes', classifications')
  BY <1>16, <1>18 DEF StockInv
<1> QED
  BY <1>9, <1>17, <1>18, <1>19, StockChanges

\* The committed rows succeed those that were there.
LEMMA CommittedRows ==
    ASSUME StockInv, NEW c \in StockCalls, CommitRows(c)
    PROVE  /\ DOMAIN stock \subseteq DOMAIN stock' /\ DOMAIN stock' \subseteq Stocks
           /\ \A s \in DOMAIN stock' : stock'[s] \in StockRow
           /\ \A s \in DOMAIN stock : Succeeds(stock[s], stock'[s])
           /\ stockCall[c].file.kind \in Writers /\ stockCall[c].pc = "row"
<1>1. PICK old : old = stockCall[c] /\ PublicationFits(old, stock)
  BY DEF StockInv
<1>2. old.pc = "row" /\ stock' = Overridden(stock, old.written)
  BY <1>1 DEF CommitRows, AtStep, Overlay
<1>3. WrittenFits(old.written, stock) /\ old.file.kind \in Writers
  BY <1>1, <1>2 DEF PublicationFits, Waits, SharesRows, WritesRows, Queued
<1>4. PICK seen : seen = Overridden(stock, old.written)
  OBVIOUS
<1>5. /\ DOMAIN stock \subseteq DOMAIN seen /\ DOMAIN seen \subseteq Stocks
      /\ \A s \in DOMAIN seen : seen[s] \in StockRow
      /\ \A s \in DOMAIN stock : Succeeds(stock[s], seen[s])
  BY <1>3, <1>4, SeenRows DEF StockInv, TablesFit
<1> QED
  BY <1>1, <1>2, <1>3, <1>4, <1>5

LEMMA CommitRowsFits ==
    ASSUME StockInv, NEW c \in StockCalls, CommitRows(c)
    PROVE  StockInv'
<1>1. PICK job : job = IdleCall
  OBVIOUS
<1>2. Becomes(c, job) /\ UNCHANGED <<quotes, classifications>>
  BY <1>1 DEF CommitRows, EndCall
<1>3. PublicationFits(job, stock') /\ job.pc = "idle" /\ job.table = "none"
  BY <1>1, IdleFits
<1>4. TablesFit(stock', quotes', classifications')
  BY <1>2, CommittedRows DEF StockInv, TablesFit
<1>5. ASSUME NEW d \in StockCalls, d # c
      PROVE  Apart(job, stockCall[d]) /\ stockCall[d].pc \notin {"row", "write"}
  <2>1. Apart(stockCall[c], stockCall[d]) /\ PublicationFits(stockCall[d], stock)
    BY <1>5 DEF StockInv
  <2>2. stockCall[c].file.kind \in Writers /\ stockCall[c].pc = "row"
    BY CommittedRows
  <2>3. PICK other : other = stockCall[d] /\ PublicationFits(other, stock)
    BY <2>1
  <2>4. other.pc \in {"row", "write"} => other.file.kind \in Writers
    BY <2>3 DEF PublicationFits, Waits, SharesRows, WritesRows, Queued
  <2>5. other.pc \notin {"row", "write"}
    BY <2>1, <2>2, <2>3, <2>4 DEF Apart, Rivals, Queued
  <2> QED
    BY <1>3, <2>3, <2>5 DEF Apart, Queued
<1>6. DOMAIN stock \subseteq DOMAIN stock'
  BY CommittedRows
<1> QED
  BY <1>2, <1>3, <1>4, <1>5, <1>6, StockChanges

LEMMA ShareFits ==
    ASSUME StockInv, NEW c \in StockCalls, ShareStocks(c)
    PROVE  StockInv'
<1>1. PICK old : old = stockCall[c]
  OBVIOUS
<1>2. PICK next : next = [old EXCEPT !.table = "share",
                            !.pc = IF old.file.kind = "quotes" THEN "quotes" ELSE "check"]
  OBVIOUS
<1>3. old.pc = "share" /\ Blockers(c) = {} /\ UNCHANGED Tables /\ Becomes(c, next)
  BY <1>1, <1>2 DEF ShareStocks, AtStep, File
<1>4. PublicationFits(old, stock)
  BY <1>1 DEF StockInv
<1>5. /\ PublicationFields(old) /\ HoldsNothing(old) /\ old.file \in Files /\ ValidFile(old.file)
      /\ old.file.kind \in Readers
  BY <1>3, <1>4 DEF PublicationFits, Waits, SharesRows, WritesRows, Queued
<1>6. /\ PublicationFields(next) /\ next.pc \in {"quotes", "check"} /\ next.file = old.file
      /\ next.table = "share" /\ next.rows = {} /\ DOMAIN next.written = {}
  BY <1>2, <1>5 DEF PublicationFields, HoldsNothing
<1>7. PublicationFits(next, stock)
  BY <1>5, <1>6 DEF PublicationFits, SharesRows
<1>8. ASSUME NEW d \in StockCalls, d # c
      PROVE  Apart(next, stockCall[d])
  <2>1. stockCall[d].table # "row exclusive"
    BY <1>1, <1>3, <1>8 DEF Blockers
  <2>2. Apart(old, stockCall[d])
    BY <1>1, <1>8 DEF StockInv
  <2> QED
    BY <1>3, <1>6, <2>1, <2>2 DEF Apart, Queued
<1>9. UNCHANGED <<stock, quotes, classifications>>
  BY <1>3 DEF Tables
<1>10. PublicationFits(next, stock') /\ TablesFit(stock', quotes', classifications')
  BY <1>7, <1>9 DEF StockInv
<1> QED
  BY <1>3, <1>8, <1>9, <1>10, StockChanges

\* A reader that goes on with the table shared.
LEMMA ReaderStep ==
    ASSUME StockInv, NEW c \in StockCalls, NEW job, Becomes(c, job), UNCHANGED Tables,
           stockCall[c].pc \in {"quotes", "check", "insert"},
           job.pc \in {"check", "insert"},
           PublicationFields(stockCall[c]) => PublicationFields(job),
           job.file = stockCall[c].file, job.rows = stockCall[c].rows,
           job.table = stockCall[c].table, job.written = stockCall[c].written,
           job.pc = "insert" /\ stockCall[c].pc # "insert" =>
               StocksOf(job.file) \subseteq DOMAIN stock
    PROVE  StockInv'
<1>1. PICK old : old = stockCall[c] /\ PublicationFits(old, stock)
  BY DEF StockInv
<1>2. /\ PublicationFields(old) /\ SharesRows(old, stock)
      /\ old.file \in Files /\ ValidFile(old.file)
  BY <1>1 DEF PublicationFits, Waits, WritesRows, Queued
<1>3. PublicationFits(job, stock)
  BY <1>1, <1>2 DEF PublicationFits, SharesRows
<1> QED
  BY <1>1, <1>3, PublicationGoesOn DEF Queued

LEMMA ReadersFit ==
    ASSUME StockInv, NEW c \in StockCalls, LockQuotes(c) \/ Check(c) \/ LockKey(c)
    PROVE  StockInv'
<1>1. CASE LockQuotes(c)
  <2>1. PICK job : job = [stockCall[c] EXCEPT !.pc = "check"]
    OBVIOUS
  <2>2. PublicationFields(stockCall[c])
    BY DEF StockInv, PublicationFits
  <2>3. /\ PublicationFields(job) /\ job.pc = "check" /\ job.file = stockCall[c].file
        /\ job.rows = stockCall[c].rows /\ job.table = stockCall[c].table
        /\ job.written = stockCall[c].written
    BY <2>1, <2>2 DEF PublicationFields
  <2> QED
    BY <1>1, <2>1, <2>3, ReaderStep DEF LockQuotes, AtStep
<1>2. CASE Check(c)
  <2>1. PICK job : job = [stockCall[c] EXCEPT !.pc = "insert"]
    OBVIOUS
  <2>2. PublicationFields(stockCall[c])
    BY DEF StockInv, PublicationFits
  <2>3. /\ PublicationFields(job) /\ job.pc = "insert" /\ job.file = stockCall[c].file
        /\ job.rows = stockCall[c].rows /\ job.table = stockCall[c].table
        /\ job.written = stockCall[c].written
    BY <2>1, <2>2 DEF PublicationFields
  <2>4. CASE EndCall(c)
    BY <1>2, <2>4, PublicationEnds DEF Check
  <2>5. CASE StocksOf(File(c)) \subseteq DOMAIN stock /\ Becomes(c, job)
    BY <1>2, <2>3, <2>5, ReaderStep DEF Check, AtStep, File
  <2> QED
    BY <1>2, <2>1, <2>4, <2>5 DEF Check
<1>3. CASE LockKey(c)
  <2>1. PICK job : job = [stockCall[c] EXCEPT !.keys = @ \cup {NextKey(c)}]
    OBVIOUS
  <2>2. PublicationFields(stockCall[c]) /\ stockCall[c].pc = "insert"
    BY <1>3 DEF StockInv, PublicationFits, LockKey, AtStep
  <2>3. /\ PublicationFields(job) /\ job.pc = "insert" /\ job.file = stockCall[c].file
        /\ job.rows = stockCall[c].rows /\ job.table = stockCall[c].table
        /\ job.written = stockCall[c].written
    BY <2>1, <2>2 DEF PublicationFields
  <2> QED
    BY <1>3, <2>1, <2>2, <2>3, ReaderStep DEF LockKey
<1> QED
  BY <1>1, <1>2, <1>3

\* A commit of a reader: the tables change, the rows do not.
LEMMA ReaderCommits ==
    ASSUME StockInv, NEW c \in StockCalls, EndCall(c), stock' = stock,
           TablesFit(stock', quotes', classifications')
    PROVE  StockInv'
<1>1. PICK job : job = IdleCall
  OBVIOUS
<1>2. Becomes(c, job) /\ PublicationFits(job, stock') /\ job.pc = "idle" /\ job.table = "none"
  BY <1>1, IdleFits DEF EndCall
<1>3. \A d \in StockCalls : d # c => Apart(job, stockCall[d])
  BY <1>2 DEF Apart, Queued
<1> QED
  BY <1>2, <1>3, StockChanges

LEMMA InsertFacts ==
    ASSUME StockInv, NEW c \in StockCalls, stockCall[c].pc = "insert"
    PROVE  /\ stockCall[c].file \in Files /\ ValidFile(stockCall[c].file)
           /\ StocksOf(stockCall[c].file) \subseteq DOMAIN stock
<1>1. PICK job : job = stockCall[c] /\ PublicationFits(job, stock)
  BY DEF StockInv
<1> QED
  BY <1>1 DEF PublicationFits, Waits, WritesRows, SharesRows, Queued

LEMMA CommitQuotesFits ==
    ASSUME StockInv, NEW c \in StockCalls, CommitQuotes(c)
    PROVE  StockInv'
<1> DEFINE file == stockCall[c].file
           texts == Pending(c)
<1>1. ValidFile(file) /\ StocksOf(file) \subseteq DOMAIN stock /\ file.kind = "quotes"
  BY InsertFacts DEF CommitQuotes, AtStep, File
<1>2. \A text \in file.quotes : text.stock \in DOMAIN stock /\ ValidQuote(Decoded(text))
  BY <1>1 DEF ValidFile, ValidQuotes
<1>3. texts \subseteq file.quotes
  BY DEF Pending, File
<1>4. PICK new : new = [k \in {QuoteKey(text) : text \in texts} |->
                          Figures(CHOOSE text \in texts : QuoteKey(text) = k)]
  OBVIOUS
<1>5. quotes' = Overridden(new, quotes) /\ stock' = stock /\ classifications' = classifications
  BY <1>4 DEF CommitQuotes
<1>6. ASSUME NEW k \in DOMAIN new
      PROVE  k[1] \in DOMAIN stock /\ ValidQuote(Decoded(new[k]))
  <2>1. \E text \in texts : QuoteKey(text) = k
    BY <1>4
  <2>2. PICK text : text = CHOOSE t \in texts : QuoteKey(t) = k
    OBVIOUS
  <2>3. text \in texts /\ QuoteKey(text) = k
    BY <2>1, <2>2
  <2>4. new[k] = Figures(text)
    BY <1>4, <2>2
  <2>5. k[1] = text.stock
    BY <2>3 DEF QuoteKey
  <2>6. text.stock \in DOMAIN stock /\ ValidQuote(Decoded(text))
    BY <1>2, <1>3, <2>3
  <2> QED
    BY <2>4, <2>5, <2>6 DEF Figures, Decoded, ValidQuote
<1>7. \A k \in DOMAIN quotes' : k[1] \in DOMAIN stock /\ ValidQuote(Decoded(quotes'[k]))
  <2>1. \A k \in DOMAIN quotes : k[1] \in DOMAIN stock /\ ValidQuote(Decoded(quotes[k]))
    BY DEF StockInv, TablesFit
  <2>2. /\ DOMAIN quotes' = DOMAIN new \cup DOMAIN quotes
        /\ \A k \in DOMAIN quotes' : quotes'[k] = IF k \in DOMAIN quotes THEN quotes[k] ELSE new[k]
    BY <1>5 DEF Overridden
  <2> QED
    BY <1>6, <2>1, <2>2
<1>8. TablesFit(stock', quotes', classifications')
  BY <1>5, <1>7 DEF StockInv, TablesFit
<1> QED
  BY <1>5, <1>8, ReaderCommits DEF CommitQuotes

LEMMA CommitLinksFits ==
    ASSUME StockInv, NEW c \in StockCalls, CommitLinks(c)
    PROVE  StockInv'
<1>1. PICK file \in Files : file = stockCall[c].file
  BY InsertFacts DEF CommitLinks, AtStep
<1>2. file.targets \in [Stocks -> SUBSET Targets] /\ classifications \in [Stocks -> SUBSET Targets]
  BY FileFacts DEF StockInv, TablesFit
<1>3. /\ classifications' = [s \in Stocks |-> IF s \in StocksOf(file)
                                THEN file.targets[s] ELSE classifications[s]]
      /\ stock' = stock /\ quotes' = quotes
  BY <1>1 DEF CommitLinks, File
<1>4. classifications' \in [Stocks -> SUBSET Targets]
  BY <1>2, <1>3
<1>5. TablesFit(stock', quotes', classifications')
  BY <1>3, <1>4 DEF StockInv, TablesFit
<1> QED
  BY <1>3, <1>5, ReaderCommits DEF CommitLinks

LEMMA StockInvStep ==
    StockInv /\ [StockNext]_stockVars => StockInv'
<1> SUFFICES ASSUME StockInv, [StockNext]_stockVars
             PROVE  StockInv'
  OBVIOUS
<1>1. CASE UNCHANGED stockVars
  BY <1>1 DEF stockVars, StockInv
<1>2. ASSUME NEW c \in StockCalls, BeginPublication(c) \/ Work(c) \/ FailPublication(c)
      PROVE  StockInv'
  <2>1. CASE FailPublication(c)
    BY <2>1, PublicationEnds DEF FailPublication, Refuse
  <2> QED
    BY <1>2, <2>1, BeginFits, AdmitFits, LockRowFits, WriteRowFits, CommitRowsFits, ShareFits,
       ReadersFit, CommitQuotesFits, CommitLinksFits DEF Work
<1> QED
  BY <1>1, <1>2 DEF StockNext

\* What the publications of stocks keep, whatever packages meet on the table.
THEOREM StockInvariant ==
    StockSpec => []StockInv
<1> QED
  BY StockInvInit, StockInvStep, PTL DEF StockSpec

\* One that has no lock yet is in the way only behind the advisory lock.
LEMMA WaitingBlocksFew ==
    ASSUME NEW c \in StockCalls, NEW d \in Blockers(c), Waits(stockCall[d])
    PROVE  stockCall[c].pc = "advisory" /\ stockCall[d].pc = "share"
<1>1. PICK x : x = stockCall[c]
  OBVIOUS
<1>2. PICK y : y = stockCall[d]
  OBVIOUS
<1>3. y.rows = {} /\ y.keys = {} /\ y.table = "none" /\ y.pc \in {"idle", "advisory", "share"}
  BY <1>2 DEF Waits, HoldsNothing, Queued
<1>4. \/ x.pc = "advisory" /\ y.pc \notin {"idle", "advisory"}
      \/ x.todo # <<>> /\ Head(x.todo).stock \in y.rows \cup y.keys
      \/ y.table \in {"share", "row exclusive"} \/ y.pc \in {"check", "insert"}
      \/ NextKey(c) \in y.rows
  BY <1>1, <1>2 DEF Blockers
<1> QED
  BY <1>1, <1>2, <1>3, <1>4

LEMMA StockInvIsNarrow ==
    StockInv => DeadlocksNeedAnUnwrittenRow
<1> SUFFICES ASSUME StockInv PROVE DeadlocksNeedAnUnwrittenRow
  OBVIOUS
<1>1. StockTypeOK
  BY DEF StockInv, TablesFit, StockTypeOK
<1>2. ASSUME NEW c \in StockCalls, NEW d \in StockCalls,
             c \in Blockers(d), d \in Blockers(c)
      PROVE  \E w \in {c, d} :
                /\ File(w).kind \in Writers /\ stockCall[w].table = "none"
                /\ \A r \in {c, d} \ {w} : File(r).kind \in Readers
  <2>1. c # d
    BY <1>2 DEF Blockers
  <2>2. PICK x : x = stockCall[c] /\ PublicationFits(x, stock)
    BY DEF StockInv
  <2>3. PICK y : y = stockCall[d] /\ PublicationFits(y, stock)
    BY DEF StockInv
  <2>4. Apart(x, y)
    BY <2>1, <2>2, <2>3 DEF StockInv
  <2>5. ~Waits(x) /\ ~Waits(y)
    <3>1. Waits(x) => x.pc = "share" /\ y.pc = "advisory"
      BY <1>2, <2>2, <2>3, WaitingBlocksFew
    <3>2. Waits(y) => y.pc = "share" /\ x.pc = "advisory"
      BY <1>2, <2>2, <2>3, WaitingBlocksFew
    <3>3. /\ x.pc = "advisory" => Waits(x)
          /\ y.pc = "advisory" => Waits(y)
      BY <2>2, <2>3 DEF PublicationFits, WritesRows, SharesRows
    <3> QED
      BY <3>1, <3>2, <3>3
  <2>6. /\ WritesRows(x, stock) \/ SharesRows(x, stock)
        /\ WritesRows(y, stock) \/ SharesRows(y, stock)
    BY <2>2, <2>3, <2>5 DEF PublicationFits
  <2>7. ~(WritesRows(x, stock) /\ WritesRows(y, stock))
    BY <2>4 DEF Apart, Rivals, WritesRows, Queued
  <2>8. ~(SharesRows(x, stock) /\ SharesRows(y, stock))
    BY <1>2, <2>1, <2>2, <2>3 DEF Blockers, SharesRows
  <2>9. CASE WritesRows(x, stock) /\ SharesRows(y, stock)
    <3>1. x.table = "none" /\ File(c).kind \in Writers /\ File(d).kind \in Readers
      BY <2>2, <2>3, <2>4, <2>9 DEF Apart, WritesRows, SharesRows, File
    <3> QED
      BY <2>2, <3>1
  <2>10. CASE SharesRows(x, stock) /\ WritesRows(y, stock)
    <3>1. y.table = "none" /\ File(d).kind \in Writers /\ File(c).kind \in Readers
      BY <2>2, <2>3, <2>4, <2>10 DEF Apart, WritesRows, SharesRows, File
    <3> QED
      BY <2>3, <3>1
  <2> QED
    BY <2>6, <2>7, <2>8, <2>9, <2>10
<1> QED
  BY <1>1, <1>2 DEF DeadlocksNeedAnUnwrittenRow

\* Deadlocks are between a writer that has written nothing and a reader that inserts.
THEOREM DeadlocksAreNarrow ==
    StockSpec => []DeadlocksNeedAnUnwrittenRow
<1>1. StockInv => DeadlocksNeedAnUnwrittenRow
  BY StockInvIsNarrow
<1> QED
  BY <1>1, StockInvariant, PTL

\* A step keeps stocks, their dates and what was published for them.
DatesStay ==
    \A s \in DOMAIN stock :
      /\ s \in DOMAIN stock' /\ stock'[s].asOf >= stock[s].asOf
      /\ stock'[s].asOf = stock[s].asOf =>
           /\ stock'[s].name = stock[s].name
           /\ stock[s].profile \in {NoProfile, stock'[s].profile}

LEMMA StepsKeepDates ==
    StockInv /\ [StockNext]_stockVars => [DatesStay]_stockVars
<1> SUFFICES ASSUME StockInv, StockNext PROVE DatesStay
  BY DEF stockVars
<1>1. PICK c \in StockCalls : BeginPublication(c) \/ Work(c) \/ FailPublication(c)
  BY DEF StockNext
<1>2. CASE CommitRows(c)
  BY <1>2, CommittedRows DEF Succeeds, DatesStay
<1>3. CASE ~CommitRows(c)
  <2>1. stock' = stock
    BY <1>1, <1>3 DEF BeginPublication, FailPublication, Refuse, Work, Admit, LockRow, WriteRow,
       ShareStocks, LockQuotes, Check, LockKey, CommitQuotes, CommitLinks, Tables
  <2>2. \A s \in DOMAIN stock : stock[s].asOf \in Nat
    BY StockConstants DEF StockInv, TablesFit, StockRow
  <2> QED
    BY <2>1, <2>2, SMTT(40) DEF DatesStay
<1> QED
  BY <1>2, <1>3

\* Dates never go back and published facts of a date stay, whichever packages race.
THEOREM StockFactsStay ==
    StockSpec => FactsKeepTheirDate
<1>1. StockInv /\ [StockNext]_stockVars => [DatesStay]_stockVars
  BY StepsKeepDates
<1> QED
  BY <1>1, StockInvariant, PTL DEF StockSpec, FactsKeepTheirDate, DatesStay

\* A step keeps quotes, and refuses no repeated batch.
QuotesAreKept ==
    /\ \A k \in DOMAIN quotes :
         k[1] \in DOMAIN stock /\ k \in DOMAIN quotes' /\ quotes'[k] = quotes[k]
    /\ \A c \in StockCalls :
         /\ stockCall[c].pc = "check" /\ File(c).kind = "quotes"
         /\ StocksOf(File(c)) \subseteq DOMAIN stock
         /\ File(c).apply /\ Check(c)
         /\ \A text \in File(c).quotes : QuoteKey(text) \in DOMAIN quotes
               /\ quotes[QuoteKey(text)].open = text.open
               /\ quotes[QuoteKey(text)].close = text.close
         => stockCall'[c].pc = "insert"

LEMMA StepsKeepQuotes ==
    StockInv /\ [StockNext]_stockVars => [QuotesAreKept]_stockVars
<1> SUFFICES ASSUME StockInv, StockNext PROVE QuotesAreKept
  BY DEF stockVars
<1>1. PICK c \in StockCalls : BeginPublication(c) \/ Work(c) \/ FailPublication(c)
  BY DEF StockNext
<1>2. \A k \in DOMAIN quotes : k \in DOMAIN quotes' /\ quotes'[k] = quotes[k]
  <2>1. CASE CommitQuotes(c)
    BY <2>1 DEF CommitQuotes, Overridden
  <2>2. CASE ~CommitQuotes(c)
    <3>1. quotes' = quotes
      BY <1>1, <2>2 DEF BeginPublication, FailPublication, Refuse, Work, Admit, LockRow, WriteRow,
         CommitRows, ShareStocks, LockQuotes, Check, LockKey, CommitLinks, Tables
    <3> QED
      BY <3>1, SMTT(40)
  <2> QED
    BY <2>1, <2>2
<1>3. \A k \in DOMAIN quotes : k[1] \in DOMAIN stock
  BY DEF StockInv, TablesFit
<1>4. ASSUME NEW d \in StockCalls, File(d).kind = "quotes",
             StocksOf(File(d)) \subseteq DOMAIN stock, File(d).apply, Check(d),
             \A text \in File(d).quotes : QuoteKey(text) \in DOMAIN quotes
               /\ quotes[QuoteKey(text)].open = text.open
               /\ quotes[QuoteKey(text)].close = text.close
      PROVE  stockCall'[d].pc = "insert"
  <2>1. \A text \in File(d).quotes : Agree(text)
    BY <1>4 DEF Agree, Decoded
  <2>2. Becomes(d, [stockCall[d] EXCEPT !.pc = "insert"])
    BY <1>4, <2>1 DEF Check
  <2>3. PublicationFields(stockCall[d]) /\ DOMAIN stockCall = StockCalls
    BY DEF StockInv, PublicationFits
  <2> QED
    BY <2>2, <2>3 DEF Becomes, PublicationFields
<1> QED
  BY <1>2, <1>3, <1>4 DEF QuotesAreKept

\* Stored quotes are final, and a batch that is sent again is accepted.
THEOREM QuotesStay ==
    StockSpec => QuotesAreFinal
<1>1. StockInv /\ [StockNext]_stockVars => [QuotesAreKept]_stockVars
  BY StepsKeepQuotes
<1> QED
  BY <1>1, StockInvariant, PTL DEF StockSpec, QuotesAreFinal, QuotesAreKept

-----------------------------------------------------------------------------
(* Sources: sums and the least of their parts *)

LEMMA MinIsLeast ==
    ASSUME NEW S \in SUBSET Nat, NEW n \in S
    PROVE  Min(S) \in S /\ \A m \in S : Min(S) <= m
<1>1. \E k \in S : \A m \in S : <<m, k>> \notin OpToRel(<, Nat)
  BY NatLessThanWellFounded, WFMin
<1>2. PICK k \in S : \A m \in S : <<m, k>> \notin OpToRel(<, Nat)
  BY <1>1
<1>3. ASSUME NEW m \in S
      PROVE  k <= m
  <2>1. k \in Nat /\ m \in Nat
    OBVIOUS
  <2>2. ~(m < k)
    BY <1>2, <2>1 DEF OpToRel
  <2> QED
    BY <2>1, <2>2
<1>4. \E x \in S : \A y \in S : x <= y
  BY <1>3
<1> QED
  BY <1>4 DEF Min

\* What is not less, part by part, is not less in all.
LEMMA TotalsGrow ==
    ASSUME NEW few, NEW more, IsFiniteSet(DOMAIN more), DOMAIN few \subseteq DOMAIN more,
           \A part \in DOMAIN more : more[part] \in Nat,
           \A part \in DOMAIN few : few[part] \in Nat /\ few[part] <= more[part]
    PROVE  Total(few) \in Nat /\ Total(more) \in Nat /\ Total(few) <= Total(more)
<1> DEFINE Bits(bytes, part) == {part} \X (1 .. bytes[part])
           bits == [part \in DOMAIN more |-> Bits(more, part)]
           family == {Bits(more, part) : part \in DOMAIN more}
           all == UNION family
           some == UNION {Bits(few, part) : part \in DOMAIN few}
<1>1. bits \in Surjection(DOMAIN more, family)
  BY DEF Surjection
<1>2. IsFiniteSet(family)
  BY <1>1, FS_Surjection
<1>3. ASSUME NEW part \in DOMAIN more
      PROVE  IsFiniteSet(Bits(more, part))
  <2>1. 1 \in Int /\ more[part] \in Int
    OBVIOUS
  <2>2. IsFiniteSet(1 .. more[part]) /\ IsFiniteSet({part})
    BY <2>1, FS_Interval, FS_Singleton
  <2> QED
    BY <2>2, FS_Product
<1>4. IsFiniteSet(all)
  BY <1>2, <1>3, FS_UNION
<1>5. ASSUME NEW part \in DOMAIN few
      PROVE  Bits(few, part) \subseteq Bits(more, part)
  BY SMT
<1>6. some \in SUBSET all
  BY <1>5
<1>7. IsFiniteSet(some) /\ Cardinality(some) <= Cardinality(all)
  BY <1>4, <1>6, FS_Subset
<1>8. Cardinality(some) \in Nat /\ Cardinality(all) \in Nat
  BY <1>4, <1>7, FS_CardinalityType
<1>9. Total(few) = Cardinality(some) /\ Total(more) = Cardinality(all)
  BY DEF Total
<1> QED
  BY <1>7, <1>8, <1>9

LEMMA Widths ==
    ASSUME NEW stamp \in Stamps
    PROVE  /\ Width(stamp) \in Nat /\ Width(stamp) <= WorstWidth /\ WorstWidth \in Nat
           /\ LeastWidth(stamp) \in Nat
           /\ \A t \in stamp .. MaxNow : LeastWidth(stamp) <= Width(t)
<1>1. MaxNow \in Nat /\ WorstWidth \in Nat
  BY SourceConstants
<1>2. ASSUME NEW t \in Stamps
      PROVE  Width(t) \in Nat /\ Width(t) <= WorstWidth
  BY <1>1, SourceConstants DEF Width, Stamps
<1>3. stamp \in stamp .. MaxNow /\ stamp .. MaxNow \subseteq Stamps
  BY <1>1 DEF Stamps
<1>4. PICK all : all = {Width(t) : t \in stamp .. MaxNow}
  OBVIOUS
<1>5. all \in SUBSET Nat /\ Width(stamp) \in all
  BY <1>2, <1>3, <1>4
<1>6. Min(all) \in all /\ \A m \in all : Min(all) <= m
  BY <1>5, MinIsLeast
<1>7. LeastWidth(stamp) = Min(all)
  BY <1>4 DEF LeastWidth
<1> QED
  BY <1>1, <1>2, <1>4, <1>5, <1>6, <1>7

\* A body that is stored was sent in no more bytes than any that reads back as it.
LEMMA SentAtLeast ==
    ASSUME NEW config \in Configs
    PROVE  /\ Bytes[config] \in Nat /\ Jsonb[config] \in Configs
           /\ SentBytes(Jsonb[config]) \in Nat /\ SentBytes(Jsonb[config]) <= Bytes[config]
           /\ Jsonb[Jsonb[config]] = Jsonb[config]
<1>1. /\ Bytes[config] \in Nat /\ Jsonb[config] \in Configs /\ Jsonb[Jsonb[config]] = Jsonb[config]
      /\ \A c \in Configs : Bytes[c] \in Nat
  BY SourceConstants, SourceStamps
<1>2. PICK all : all = {Bytes[sent] : sent \in {s \in Configs : Jsonb[s] = Jsonb[config]}}
  OBVIOUS
<1>3. all \in SUBSET Nat /\ Bytes[config] \in all
  BY <1>1, <1>2
<1>4. Min(all) \in all /\ \A m \in all : Min(all) <= m
  BY <1>3, MinIsLeast
<1>5. SentBytes(Jsonb[config]) = Min(all)
  BY <1>2 DEF SentBytes
<1> QED
  BY <1>1, <1>3, <1>4, <1>5

-----------------------------------------------------------------------------
(* Sources: the invariant *)

\* A stored row: what the database reads back, in order, and no longer than allowed.
StoredRow(row) ==
    /\ row \in Source /\ row.created \in 1 .. row.updated
    /\ Jsonb[row.config] = row.config /\ SentBytes(row.config) <= MaxConfigBytes

RowsWithin(rows) ==
    /\ DOMAIN rows \subseteq Codes
    /\ \A code \in DOMAIN rows : StoredRow(rows[code])
    /\ Cardinality(DOMAIN rows) <= MaxSources
    /\ Cardinality(ActiveWeb(rows)) <= 1
    /\ Total([code \in Enabled(rows) |-> Measured(rows[code])]) <= MaxEnvelope

\* What a call has listed under the lock is still so, and a document was checked.
SourceCallFits(asked, rows) ==
    /\ asked.pc \in {"idle", "begun", "locked"}
    /\ asked = [pc |-> asked.pc, ask |-> asked.ask, started |-> asked.started,
               document |-> asked.document, seen |-> asked.seen]
    /\ asked.pc = "idle" => asked.started = 0
    /\ asked.pc # "idle" =>
         /\ asked.started \in 1 .. MaxNow /\ asked.ask \in Ask /\ asked.document \in Imports
         /\ asked.ask.op = "import" => ValidateProjectedSet(asked.document) = "done"
    /\ asked.pc = "locked" => asked.seen = rows

SourceInv ==
    /\ RowsWithin(sources) /\ now \in 1 .. MaxNow
    /\ DOMAIN sourceCall = SourceCalls
    /\ \A c \in SourceCalls : SourceCallFits(sourceCall[c], sources) /\ sourceCall[c].started <= now
    /\ \A c, d \in SourceCalls :
         sourceCall[c].pc = "locked" /\ sourceCall[d].pc = "locked" => c = d

\* A row takes the place of a candidate with which the set was measured.
TakesPlace(row, candidate) ==
    /\ row \in Source /\ row.created \in 1 .. row.updated /\ Jsonb[row.config] = row.config
    /\ row.enabled = candidate.enabled /\ row.channel = candidate.channel
    /\ SentBytes(row.config) <= Bytes[candidate.config]
    /\ Width(row.created) <= Width(candidate.created)
    /\ LeastWidth(row.created) <= Width(candidate.updated)

LEMMA CodesAreFinite ==
    ASSUME NEW codes \in SUBSET Codes, NEW few \in SUBSET codes
    PROVE  /\ IsFiniteSet(codes) /\ IsFiniteSet(few)
           /\ Cardinality(codes) \in Nat /\ Cardinality(few) \in Nat
           /\ Cardinality(few) <= Cardinality(codes)
<1>1. IsFiniteSet(codes)
  BY SourceConstants, FS_Subset
<1>2. IsFiniteSet(few) /\ Cardinality(few) <= Cardinality(codes)
  BY <1>1, FS_Subset
<1> QED
  BY <1>1, <1>2, FS_CardinalityType

LEMMA MeasuredIsNumber ==
    ASSUME NEW row \in Source, Jsonb[row.config] = row.config
    PROVE  /\ Measured(row) \in Nat /\ SentBytes(row.config) \in Nat
           /\ SentBytes(row.config) <= Bytes[row.config]
           /\ Width(row.created) \in Nat /\ LeastWidth(row.created) \in Nat
           /\ Bytes[row.config] \in Nat /\ Width(row.updated) \in Nat
<1>1. row.config \in Configs /\ row.created \in Stamps /\ row.updated \in Stamps
  BY DEF Source
<1>2. SentBytes(row.config) \in Nat /\ SentBytes(row.config) <= Bytes[row.config] /\ Bytes[row.config] \in Nat
  BY <1>1, SentAtLeast
<1>3. Width(row.created) \in Nat /\ LeastWidth(row.created) \in Nat /\ Width(row.updated) \in Nat
  BY <1>1, Widths
<1> QED
  BY <1>2, <1>3 DEF Measured

\* A set that was checked is within the limits, as it is stored.
LEMMA CheckedSetIsWithin ==
    ASSUME NEW rows, NEW candidates, DOMAIN candidates = DOMAIN rows, DOMAIN rows \subseteq Codes,
           ValidateProjectedSet(candidates) = "done",
           \A code \in DOMAIN rows : candidates[code] \in Source /\ TakesPlace(rows[code], candidates[code])
    PROVE  RowsWithin(rows)
<1>1. /\ ~(Cardinality(DOMAIN candidates) > MaxSources)
      /\ \A code \in DOMAIN candidates : ValidSource(candidates[code])
      /\ ~(Cardinality(ActiveWeb(candidates)) > 1)
      /\ ~(EnvelopeSize(candidates) > MaxEnvelope)
  BY DEF ValidateProjectedSet
<1>2. Enabled(candidates) = Enabled(rows) /\ Enabled(rows) \in SUBSET DOMAIN rows
  BY DEF Enabled, TakesPlace
<1>3. ActiveWeb(candidates) = ActiveWeb(rows) /\ ActiveWeb(rows) \in SUBSET DOMAIN rows
  BY <1>2 DEF ActiveWeb, TakesPlace
<1>4. /\ IsFiniteSet(Enabled(rows))
      /\ Cardinality(DOMAIN rows) \in Nat /\ Cardinality(ActiveWeb(rows)) \in Nat
  BY <1>2, <1>3, CodesAreFinite
<1>5. MaxSources \in Nat /\ MaxConfigBytes \in Nat /\ MaxEnvelope \in Nat
  BY SourceConstants
<1>6. ASSUME NEW code \in DOMAIN rows
      PROVE  /\ StoredRow(rows[code])
             /\ Measured(rows[code]) \in Nat
             /\ Bytes[candidates[code].config] + Width(candidates[code].created)
                  + Width(candidates[code].updated) \in Nat
             /\ Measured(rows[code]) <= Bytes[candidates[code].config] + Width(candidates[code].created)
                                          + Width(candidates[code].updated)
  <2>1. PICK row, candidate : row = rows[code] /\ candidate = candidates[code]
    OBVIOUS
  <2>2. TakesPlace(row, candidate) /\ row \in Source /\ candidate \in Source
    BY <2>1 DEF TakesPlace
  <2>3. /\ Measured(row) \in Nat /\ SentBytes(row.config) \in Nat
        /\ Width(row.created) \in Nat /\ LeastWidth(row.created) \in Nat
    BY <2>2, MeasuredIsNumber DEF TakesPlace
  <2>4. candidate.config \in Configs /\ candidate.created \in Stamps /\ candidate.updated \in Stamps
    BY <2>2 DEF Source
  <2>5. Bytes[candidate.config] \in Nat /\ Width(candidate.created) \in Nat /\ Width(candidate.updated) \in Nat
    BY <2>4, SentAtLeast, Widths
  <2>6. Bytes[candidate.config] <= MaxConfigBytes
    BY <1>1, <2>1 DEF ValidSource
  <2>7. StoredRow(row)
    BY <1>5, <2>2, <2>3, <2>5, <2>6 DEF StoredRow, TakesPlace
  <2>8. Measured(row) <= Bytes[candidate.config] + Width(candidate.created) + Width(candidate.updated)
    BY <2>2, <2>3, <2>5 DEF Measured, TakesPlace
  <2> QED
    BY <2>1, <2>3, <2>5, <2>7, <2>8
<1>7. PICK few, more : /\ few = [code \in Enabled(rows) |-> Measured(rows[code])]
                       /\ more = [code \in Enabled(candidates) |->
                                    Bytes[candidates[code].config] + Width(candidates[code].created)
                                      + Width(candidates[code].updated)]
  OBVIOUS
<1>8. Total(few) \in Nat /\ Total(more) \in Nat /\ Total(few) <= Total(more)
  BY <1>2, <1>4, <1>6, <1>7, TotalsGrow
<1>9. ~(Total(more) > MaxEnvelope)
  BY <1>1, <1>7 DEF EnvelopeSize
<1>10. Total([code \in Enabled(rows) |-> Measured(rows[code])]) <= MaxEnvelope
  BY <1>5, <1>7, <1>8, <1>9
<1> QED
  BY <1>1, <1>3, <1>4, <1>5, <1>6, <1>10 DEF RowsWithin

\* What is stored takes its own place.
LEMMA StoredTakesPlace ==
    ASSUME NEW row, StoredRow(row)
    PROVE  row \in Source /\ TakesPlace(row, row)
<1>1. row \in Source /\ row.created \in 1 .. row.updated /\ Jsonb[row.config] = row.config
  BY DEF StoredRow
<1>2. SentBytes(row.config) <= Bytes[row.config]
  BY <1>1, MeasuredIsNumber
<1>3. row.created \in Stamps /\ row.updated \in Stamps
  BY <1>1 DEF Source
<1>4. row.updated \in row.created .. MaxNow
  BY <1>1, <1>3, SourceConstants DEF Stamps
<1>5. Width(row.created) \in Nat /\ LeastWidth(row.created) <= Width(row.updated)
  BY <1>3, <1>4, Widths
<1> QED
  BY <1>1, <1>2, <1>5 DEF TakesPlace

\* A row that is inserted takes the place of the source it is inserted from.
LEMMA InsertTakesPlace ==
    ASSUME NEW c \in SourceCalls, NEW candidate \in Source, sourceCall[c].started \in 1 .. MaxNow,
           \/ candidate.created = 0 /\ candidate.updated = 0
           \/ candidate.created \in 1 .. candidate.updated
    PROVE  TakesPlace(Inserted(c, candidate), candidate)
<1>1. PICK start : start = sourceCall[c].started
  OBVIOUS
<1>2. /\ candidate.config \in Configs /\ candidate.created \in Stamps /\ candidate.updated \in Stamps
      /\ candidate = [owner |-> candidate.owner, channel |-> candidate.channel,
                      enabled |-> candidate.enabled, config |-> candidate.config,
                      created |-> candidate.created, updated |-> candidate.updated]
      /\ candidate.enabled \in BOOLEAN /\ candidate.channel \in {"web_search", "api", "rss"}
      /\ candidate.owner \in {"fixed", "dynamic"}
  BY DEF Source
<1>3. PICK created, updated, config :
        /\ created = (IF candidate.created = 0 THEN start ELSE candidate.created)
        /\ updated = (IF candidate.updated = 0 THEN start ELSE candidate.updated)
        /\ config = Jsonb[candidate.config]
  OBVIOUS
<1>4. PICK row : row = Inserted(c, candidate)
  OBVIOUS
<1>5. row = [candidate EXCEPT !.config = config, !.created = created, !.updated = updated]
  BY <1>1, <1>3, <1>4 DEF Inserted
<1>6. /\ row.owner = candidate.owner /\ row.channel = candidate.channel
      /\ row.enabled = candidate.enabled /\ row.config = config /\ row.created = created
      /\ row.updated = updated
      /\ row = [owner |-> candidate.owner, channel |-> candidate.channel, enabled |-> candidate.enabled,
                config |-> config, created |-> created, updated |-> updated]
  BY <1>2, <1>5
<1>7. start \in Stamps /\ 0 \in Stamps
  BY <1>1, SourceConstants DEF Stamps
<1>8. created \in Stamps /\ updated \in Stamps /\ created \in 1 .. updated
  BY <1>1, <1>2, <1>3, <1>7 DEF Stamps
<1>9. config \in Configs /\ Jsonb[config] = config /\ SentBytes(config) <= Bytes[candidate.config]
  BY <1>2, <1>3, SentAtLeast
<1>10. row \in Source
  BY <1>2, <1>6, <1>8, <1>9 DEF Source
<1>11. Width(created) <= Width(candidate.created)
  <2>1. CASE candidate.created = 0
    <3>1. Width(created) <= WorstWidth /\ Width(candidate.created) = WorstWidth
      BY <1>8, <2>1, Widths DEF Width
    <3> QED
      BY <3>1
  <2>2. CASE candidate.created # 0
    <3>1. created = candidate.created /\ Width(created) \in Nat
      BY <1>3, <1>8, <2>2, Widths
    <3> QED
      BY <3>1
  <2> QED
    BY <2>1, <2>2
<1>12. LeastWidth(created) <= Width(candidate.updated)
  <2>1. MaxNow \in Nat
    BY SourceConstants
  <2>2. updated \in created .. MaxNow
    BY <1>8, <2>1 DEF Stamps
  <2>3. LeastWidth(created) \in Nat /\ LeastWidth(created) <= Width(updated) /\ Width(updated) \in Nat
    BY <1>8, <2>2, Widths
  <2>4. CASE candidate.updated = 0
    <3>1. Width(updated) <= WorstWidth /\ WorstWidth \in Nat /\ Width(candidate.updated) = WorstWidth
      BY <1>8, <2>4, Widths DEF Width
    <3> QED
      BY <2>3, <3>1
  <2>5. CASE candidate.updated # 0
    BY <1>3, <2>3, <2>5
  <2> QED
    BY <2>4, <2>5
<1> QED
  BY <1>4, <1>6, <1>8, <1>9, <1>10, <1>11, <1>12 DEF TakesPlace

-----------------------------------------------------------------------------
(* Sources: the steps *)

LEMMA IdleSourceFits ==
    ASSUME NEW rows
    PROVE  SourceCallFits(Idle, rows) /\ Idle.started = 0 /\ Idle.pc = "idle"
BY DEF SourceCallFits, Idle

LEMMA SourceCallGoesOn ==
    ASSUME SourceInv, NEW c \in SourceCalls, NEW next, sourceCall' = [sourceCall EXCEPT ![c] = next],
           sources' = sources, now' = now, SourceCallFits(next, sources), next.started <= now,
           next.pc = "locked" => \A d \in SourceCalls : sourceCall[d].pc # "locked"
    PROVE  SourceInv'
<1>1. DOMAIN sourceCall' = SourceCalls /\ sourceCall'[c] = next
  BY DEF SourceInv
<1>2. \A d \in SourceCalls : d # c => sourceCall'[d] = sourceCall[d]
  BY DEF SourceInv
<1>3. \A d \in SourceCalls : SourceCallFits(sourceCall'[d], sources) /\ sourceCall'[d].started <= now
  BY <1>1, <1>2 DEF SourceInv
<1>4. ASSUME NEW d \in SourceCalls, NEW e \in SourceCalls,
             sourceCall'[d].pc = "locked", sourceCall'[e].pc = "locked"
      PROVE  d = e
  BY <1>1, <1>2, <1>4 DEF SourceInv
<1> QED
  BY <1>1, <1>3, <1>4 DEF SourceInv

LEMMA SourceEnds ==
    ASSUME SourceInv, NEW c \in SourceCalls, NEW outcome, EndSource(c, outcome)
    PROVE  SourceInv'
<1>1. sourceCall' = [sourceCall EXCEPT ![c] = Idle] /\ sources' = sources /\ now' = now
  BY DEF EndSource
<1>2. 0 <= now
  BY SourceConstants DEF SourceInv
<1> QED
  BY <1>1, <1>2, IdleSourceFits, SourceCallGoesOn

LEMMA SourceCommits ==
    ASSUME SourceInv, NEW c \in SourceCalls, NEW rows, sourceCall[c].pc = "locked",
           CommitChange(c, rows), RowsWithin(rows)
    PROVE  SourceInv'
<1>1. sources' = rows /\ sourceCall' = [sourceCall EXCEPT ![c] = Idle] /\ now' = now
  BY DEF CommitChange
<1>2. DOMAIN sourceCall' = SourceCalls /\ sourceCall'[c] = Idle /\ now \in 1 .. MaxNow
  BY <1>1 DEF SourceInv
<1>3. \A d \in SourceCalls : d # c => sourceCall'[d] = sourceCall[d] /\ sourceCall[d].pc # "locked"
  BY <1>1 DEF SourceInv
<1>4. ASSUME NEW d \in SourceCalls
      PROVE  SourceCallFits(sourceCall'[d], rows) /\ sourceCall'[d].started <= now
  <2>1. CASE d = c
    <3>1. 0 <= now
      BY <1>2, SourceConstants
    <3> QED
      BY <1>2, <2>1, <3>1, IdleSourceFits
  <2>2. CASE d # c
    <3>1. SourceCallFits(sourceCall[d], sources) /\ sourceCall[d].started <= now
      BY DEF SourceInv
    <3> QED
      BY <1>3, <2>2, <3>1 DEF SourceCallFits
  <2> QED
    BY <2>1, <2>2
<1>5. \A d, e \in SourceCalls :
        sourceCall'[d].pc = "locked" /\ sourceCall'[e].pc = "locked" => d = e
  BY <1>2, <1>3, IdleSourceFits
<1> QED
  BY <1>1, <1>2, <1>4, <1>5 DEF SourceInv

\* What a call that decides has listed, and when it began.
LEMMA DecidingFacts ==
    ASSUME SourceInv, NEW c \in SourceCalls, NEW op, Deciding(c, op)
    PROVE  /\ sourceCall[c].pc = "locked" /\ Seen(c) = sources /\ Asked(c) \in Ask
           /\ Asked(c).op = op
           /\ sourceCall[c].started \in 1 .. MaxNow /\ sourceCall[c].document \in Imports
           /\ op = "import" => ValidateProjectedSet(sourceCall[c].document) = "done"
           /\ RowsWithin(sources)
           /\ \A code \in DOMAIN sources : sources[code] \in Source /\ TakesPlace(sources[code], sources[code])
<1>1. sourceCall[c].pc = "locked" /\ Asked(c).op = op /\ SourceCallFits(sourceCall[c], sources)
  BY DEF SourceInv, Deciding
<1>2. RowsWithin(sources)
  BY DEF SourceInv
<1>3. \A code \in DOMAIN sources : StoredRow(sources[code])
  BY <1>2 DEF RowsWithin
<1> QED
  BY <1>1, <1>2, <1>3, StoredTakesPlace DEF SourceCallFits, Seen, Asked

\* Rows inserted beside those that are stored, from candidates that were checked with them.
LEMMA InsertedSetIsWithin ==
    ASSUME SourceInv, NEW c \in SourceCalls, NEW more, sourceCall[c].started \in 1 .. MaxNow,
           DOMAIN more \subseteq Codes,
           \A code \in DOMAIN more :
             /\ more[code] \in Source
             /\ \/ more[code].created = 0 /\ more[code].updated = 0
                \/ more[code].created \in 1 .. more[code].updated,
           ValidateProjectedSet(Merged(sources, more)) = "done",
           NEW inserted, DOMAIN inserted = DOMAIN more,
           \A code \in DOMAIN more : inserted[code] = Inserted(c, more[code])
    PROVE  RowsWithin(Merged(sources, inserted))
<1>1. PICK rows, candidates : rows = Merged(sources, inserted) /\ candidates = Merged(sources, more)
  OBVIOUS
<1>2. /\ DOMAIN rows = DOMAIN sources \cup DOMAIN more
      /\ DOMAIN candidates = DOMAIN sources \cup DOMAIN more
  BY <1>1 DEF Merged
<1>3. RowsWithin(sources)
  BY DEF SourceInv
<1>4. ASSUME NEW code \in DOMAIN rows
      PROVE  candidates[code] \in Source /\ TakesPlace(rows[code], candidates[code])
  <2>1. CASE code \in DOMAIN sources
    <3>1. rows[code] = sources[code] /\ candidates[code] = sources[code]
      BY <1>1, <1>2, <2>1 DEF Merged
    <3>2. StoredRow(sources[code])
      BY <1>3, <2>1 DEF RowsWithin
    <3> QED
      BY <3>1, <3>2, StoredTakesPlace
  <2>2. CASE code \notin DOMAIN sources
    <3>1. code \in DOMAIN more
      BY <1>2, <2>2
    <3>2. rows[code] = inserted[code] /\ candidates[code] = more[code]
      BY <1>1, <1>2, <2>2, <3>1 DEF Merged
    <3>3. rows[code] = Inserted(c, more[code]) /\ more[code] \in Source
      BY <3>1, <3>2
    <3>4. TakesPlace(Inserted(c, more[code]), more[code])
      BY <3>1, InsertTakesPlace
    <3> QED
      BY <3>2, <3>3, <3>4
  <2> QED
    BY <2>1, <2>2
<1>5. DOMAIN rows \subseteq Codes
  BY <1>2, <1>3 DEF RowsWithin
<1>6. ValidateProjectedSet(candidates) = "done"
  BY <1>1
<1>7. RowsWithin(rows)
  BY <1>2, <1>4, <1>5, <1>6, CheckedSetIsWithin
<1> QED
  BY <1>1, <1>7

LEMMA ManifestIsInserted ==
    ASSUME SourceInv, NEW c \in SourceCalls, NEW op, Deciding(c, op),
           NEW manifest \in {FixedManifest, ResearchManifest} \cup Imports,
           ValidateProjectedSet(Merged(sources, manifest)) = "done", InsertMissing(c, manifest)
    PROVE  SourceInv'
<1>1. sourceCall[c].pc = "locked" /\ sourceCall[c].started \in 1 .. MaxNow
  BY DecidingFacts
<1>2. /\ DOMAIN manifest \subseteq Codes
      /\ \A code \in DOMAIN manifest :
           /\ manifest[code] \in Source
           /\ \/ manifest[code].created = 0 /\ manifest[code].updated = 0
              \/ manifest[code].created \in 1 .. manifest[code].updated
  BY SourceConstants, SourceStamps
<1>3. PICK inserted : inserted = [code \in DOMAIN manifest |-> Inserted(c, manifest[code])]
  OBVIOUS
<1>4. DOMAIN inserted = DOMAIN manifest /\ \A code \in DOMAIN manifest : inserted[code] = Inserted(c, manifest[code])
  BY <1>3
<1>5. RowsWithin(Merged(sources, inserted))
  BY <1>1, <1>2, <1>4, InsertedSetIsWithin
<1>6. CommitChange(c, Merged(sources, inserted))
  BY <1>3 DEF InsertMissing
<1> QED
  BY <1>1, <1>5, <1>6, SourceCommits

LEMMA SourceIsCreated ==
    ASSUME SourceInv, NEW c \in SourceCalls, CreateDynamic(c)
    PROVE  SourceInv'
<1>1. PICK code, candidate, row : /\ code = Asked(c).code /\ candidate = NewSource(Asked(c))
                                  /\ row = Inserted(c, candidate)
  OBVIOUS
<1>2. Deciding(c, "create")
  BY DEF CreateDynamic
<1>3. Seen(c) = sources /\ Asked(c) \in Ask /\ sourceCall[c].pc = "locked" /\ sourceCall[c].started \in 1 .. MaxNow
  BY <1>2, DecidingFacts
<1>4. code \in Codes /\ candidate \in Source /\ candidate.created = 0 /\ candidate.updated = 0
  BY <1>1, <1>3, SourceConstants DEF Ask, NewSource, Source, Stamps
<1>5. CASE \E outcome : EndSource(c, outcome)
  BY <1>5, SourceEnds
<1>6. CASE /\ ValidateProjectedSet(Merged(sources, [k \in {code} |-> candidate])) = "done"
           /\ CommitChange(c, Merged(sources, [k \in {code} |-> row]))
  <2>1. PICK more, inserted : more = [k \in {code} |-> candidate] /\ inserted = [k \in {code} |-> row]
    OBVIOUS
  <2>2. /\ DOMAIN more = {code} /\ more[code] = candidate
        /\ DOMAIN inserted = {code} /\ inserted[code] = row
    BY <2>1
  <2>3. RowsWithin(Merged(sources, inserted))
    BY <1>1, <1>3, <1>4, <1>6, <2>1, <2>2, InsertedSetIsWithin
  <2> QED
    BY <1>3, <1>6, <2>1, <2>3, SourceCommits
<1> QED
  BY <1>1, <1>3, <1>5, <1>6 DEF CreateDynamic

LEMMA SourceIsUpdated ==
    ASSUME SourceInv, NEW c \in SourceCalls, Update(c)
    PROVE  SourceInv'
<1>1. Deciding(c, "update")
  BY DEF Update
<1>2. /\ Seen(c) = sources /\ Asked(c) \in Ask /\ sourceCall[c].pc = "locked"
      /\ sourceCall[c].started \in 1 .. MaxNow /\ RowsWithin(sources)
      /\ \A code \in DOMAIN sources : sources[code] \in Source /\ TakesPlace(sources[code], sources[code])
  BY <1>1, DecidingFacts
<1>3. PICK code, old, start : code = Asked(c).code /\ old = sources[code] /\ start = sourceCall[c].started
  OBVIOUS
<1>4. PICK candidate : candidate = [old EXCEPT !.enabled = Asked(c).enabled, !.config = Asked(c).config]
  OBVIOUS
<1>5. PICK row : row = [candidate EXCEPT !.config = Jsonb[@], !.updated = start]
  OBVIOUS
<1>6. CASE \E outcome : EndSource(c, outcome)
  BY <1>6, SourceEnds
<1>7. CASE /\ code \in DOMAIN sources /\ ValidSource(candidate)
           /\ ValidateProjectedSet([sources EXCEPT ![code] = candidate]) = "done"
           /\ ~(row.updated < row.created) /\ CommitChange(c, [sources EXCEPT ![code] = row])
  <2>1. StoredRow(old) /\ old \in Source /\ TakesPlace(old, old)
    BY <1>2, <1>3, <1>7 DEF RowsWithin
  <2>2. /\ old.created \in Stamps /\ old.updated \in Stamps /\ old.config \in Configs
        /\ old.created \in 1 .. old.updated
        /\ old.channel \in {"web_search", "api", "rss"} /\ old.owner \in {"fixed", "dynamic"}
        /\ old = [owner |-> old.owner, channel |-> old.channel, enabled |-> old.enabled,
                  config |-> old.config, created |-> old.created, updated |-> old.updated]
    BY <2>1 DEF Source, StoredRow
  <2>3. Asked(c).enabled \in BOOLEAN /\ Asked(c).config \in Configs
    BY <1>2 DEF Ask
  <2>4. candidate = [owner |-> old.owner, channel |-> old.channel, enabled |-> Asked(c).enabled,
                     config |-> Asked(c).config, created |-> old.created, updated |-> old.updated]
    BY <1>4, <2>2
  <2>5. candidate \in Source
    BY <2>2, <2>3, <2>4 DEF Source
  <2>6. row = [owner |-> old.owner, channel |-> old.channel, enabled |-> Asked(c).enabled,
               config |-> Jsonb[Asked(c).config], created |-> old.created, updated |-> start]
    BY <1>5, <2>4
  <2>7. Jsonb[Asked(c).config] \in Configs /\ Jsonb[row.config] = row.config
        /\ SentBytes(row.config) <= Bytes[candidate.config]
    BY <2>3, <2>4, <2>6, SentAtLeast
  <2>8. start \in Stamps /\ start \in Nat /\ old.created \in Nat
    BY <1>2, <1>3, <2>2, SourceConstants DEF Stamps
  <2>9. row \in Source /\ row.created \in 1 .. row.updated
    <3>1. row.created = old.created /\ row.updated = start
      BY <2>6
    <3>2. row.created \in 1 .. row.updated
      BY <1>7, <2>2, <2>8, <3>1
    <3> QED
      BY <2>2, <2>3, <2>6, <2>7, <2>8, <3>2 DEF Source
  <2>10. /\ Width(row.created) <= Width(candidate.created)
         /\ LeastWidth(row.created) <= Width(candidate.updated)
    <3>1. row.created = old.created /\ candidate.created = old.created /\ candidate.updated = old.updated
      BY <2>4, <2>6
    <3> QED
      BY <2>1, <3>1 DEF TakesPlace
  <2>11. row.enabled = candidate.enabled /\ row.channel = candidate.channel
    BY <2>4, <2>6
  <2>12. TakesPlace(row, candidate)
    BY <2>7, <2>9, <2>10, <2>11 DEF TakesPlace
  <2>13. PICK rows, candidates : /\ rows = [sources EXCEPT ![code] = row]
                                 /\ candidates = [sources EXCEPT ![code] = candidate]
    OBVIOUS
  <2>14. /\ DOMAIN rows = DOMAIN sources /\ DOMAIN candidates = DOMAIN sources
         /\ rows[code] = row /\ candidates[code] = candidate
         /\ \A k \in DOMAIN sources : k # code => rows[k] = sources[k] /\ candidates[k] = sources[k]
    BY <1>7, <2>13
  <2>15. \A k \in DOMAIN rows : candidates[k] \in Source /\ TakesPlace(rows[k], candidates[k])
    BY <1>2, <2>5, <2>12, <2>14
  <2>16. DOMAIN rows \subseteq Codes /\ ValidateProjectedSet(candidates) = "done"
    BY <1>2, <1>7, <2>13, <2>14 DEF RowsWithin
  <2>17. RowsWithin(rows)
    BY <2>14, <2>15, <2>16, CheckedSetIsWithin
  <2> QED
    BY <1>2, <1>7, <2>13, <2>17, SourceCommits
<1> QED
  BY <1>2, <1>3, <1>4, <1>5, <1>6, <1>7, Zenon DEF Update

LEMMA SourceIsDeleted ==
    ASSUME SourceInv, NEW c \in SourceCalls, Delete(c)
    PROVE  SourceInv'
<1>1. Seen(c) = sources /\ sourceCall[c].pc = "locked" /\ RowsWithin(sources)
  BY DecidingFacts DEF Delete
<1>2. CASE \E outcome : EndSource(c, outcome)
  BY <1>2, SourceEnds
<1>3. PICK rows : rows = [code \in DOMAIN sources \ {Asked(c).code} |-> sources[code]]
  OBVIOUS
<1>4. CASE CommitChange(c, rows)
  <2>1. DOMAIN rows \in SUBSET DOMAIN sources /\ \A code \in DOMAIN rows : rows[code] = sources[code]
    BY <1>3
  <2>2. Enabled(rows) \in SUBSET Enabled(sources) /\ ActiveWeb(rows) \in SUBSET ActiveWeb(sources)
    BY <2>1 DEF Enabled, ActiveWeb
  <2>3. DOMAIN sources \in SUBSET Codes /\ Enabled(sources) \in SUBSET Codes /\ ActiveWeb(sources) \in SUBSET Codes
    BY <1>1 DEF RowsWithin, Enabled, ActiveWeb
  <2>4. /\ Cardinality(DOMAIN rows) \in Nat /\ Cardinality(DOMAIN sources) \in Nat
        /\ Cardinality(DOMAIN rows) <= Cardinality(DOMAIN sources)
    BY <2>1, <2>3, CodesAreFinite
  <2>5. /\ Cardinality(ActiveWeb(rows)) \in Nat /\ Cardinality(ActiveWeb(sources)) \in Nat
        /\ Cardinality(ActiveWeb(rows)) <= Cardinality(ActiveWeb(sources))
    BY <2>2, <2>3, CodesAreFinite
  <2>6. PICK few, more : /\ few = [code \in Enabled(rows) |-> Measured(rows[code])]
                         /\ more = [code \in Enabled(sources) |-> Measured(sources[code])]
    OBVIOUS
  <2>7. \A code \in Enabled(sources) : Measured(sources[code]) \in Nat
    BY <1>1, MeasuredIsNumber DEF RowsWithin, Enabled, StoredRow
  <2>8. Enabled(rows) \subseteq DOMAIN rows
    BY DEF Enabled
  <2>9. /\ DOMAIN few = Enabled(rows) /\ DOMAIN more = Enabled(sources)
        /\ \A code \in DOMAIN few : few[code] = more[code]
    BY <2>1, <2>2, <2>6, <2>8
  <2>10. IsFiniteSet(DOMAIN more)
    BY <2>3, <2>9, CodesAreFinite
  <2>11. \A code \in DOMAIN more : more[code] \in Nat
    BY <2>6, <2>7
  <2>12. Total(few) \in Nat /\ Total(more) \in Nat /\ Total(few) <= Total(more)
    BY <2>2, <2>9, <2>10, <2>11, TotalsGrow
  <2>13. MaxSources \in Nat /\ MaxEnvelope \in Nat
    BY SourceConstants
  <2>14. Total(few) <= MaxEnvelope
    BY <1>1, <2>6, <2>12, <2>13 DEF RowsWithin
  <2>15. Cardinality(DOMAIN rows) <= MaxSources /\ Cardinality(ActiveWeb(rows)) <= 1
    BY <1>1, <2>4, <2>5, <2>13 DEF RowsWithin
  <2>16. RowsWithin(rows)
    BY <1>1, <2>1, <2>6, <2>14, <2>15 DEF RowsWithin
  <2> QED
    BY <1>1, <1>4, <2>16, SourceCommits
<1> QED
  BY <1>1, <1>2, <1>3, <1>4 DEF Delete

\* An empty registry takes the document as it is; a set merged with nothing is itself.
LEMMA MergedWithNone ==
    ASSUME NEW rows, rows = [code \in DOMAIN rows |-> rows[code]], DOMAIN sources = {}
    PROVE  Merged(sources, rows) = rows
BY DEF Merged

LEMMA SourcesAreImported ==
    ASSUME SourceInv, NEW c \in SourceCalls, Import(c)
    PROVE  SourceInv'
<1>1. PICK document : document = sourceCall[c].document
  OBVIOUS
<1>2. Deciding(c, "import")
  BY DEF Import
<1>3. /\ Seen(c) = sources /\ document \in Imports /\ ValidateProjectedSet(document) = "done"
  BY <1>1, <1>2, DecidingFacts
<1>4. CASE \E outcome : EndSource(c, outcome)
  BY <1>4, SourceEnds
<1>5. CASE DOMAIN sources = {} /\ InsertMissing(c, document)
  <2>1. PICK candidates : candidates = Merged(sources, document)
    OBVIOUS
  <2>2. /\ DOMAIN candidates = DOMAIN document
        /\ \A code \in DOMAIN document : candidates[code] = document[code]
    BY <1>5, <2>1 DEF Merged
  <2>3. Enabled(candidates) = Enabled(document) /\ ActiveWeb(candidates) = ActiveWeb(document)
    BY <2>2 DEF Enabled, ActiveWeb
  <2>4. Enabled(document) \subseteq DOMAIN document
    BY DEF Enabled
  <2>5. EnvelopeSize(candidates) = EnvelopeSize(document)
    BY <2>2, <2>3, <2>4 DEF EnvelopeSize
  <2>6. ValidateProjectedSet(candidates) = "done"
    BY <1>3, <2>2, <2>3, <2>5 DEF ValidateProjectedSet
  <2> QED
    BY <1>2, <1>3, <1>5, <2>1, <2>6, ManifestIsInserted
<1> QED
  BY <1>1, <1>3, <1>4, <1>5 DEF Import

LEMMA FixedArePublished ==
    ASSUME SourceInv, NEW c \in SourceCalls, PublishFixed(c)
    PROVE  SourceInv'
<1>1. Deciding(c, "fixed") /\ Seen(c) = sources
  BY DecidingFacts DEF PublishFixed
<1>2. CASE \E outcome : EndSource(c, outcome)
  BY <1>2, SourceEnds
<1>3. CASE ValidateProjectedSet(Merged(sources, FixedManifest)) = "done" /\ InsertMissing(c, FixedManifest)
  BY <1>1, <1>3, ManifestIsInserted
<1> QED
  BY <1>1, <1>2, <1>3 DEF PublishFixed

LEMMA ResearchIsPublished ==
    ASSUME SourceInv, NEW c \in SourceCalls, PublishDynamicCatalog(c)
    PROVE  SourceInv'
<1>1. Deciding(c, "research") /\ Seen(c) = sources
  BY DecidingFacts DEF PublishDynamicCatalog
<1>2. CASE \E outcome : EndSource(c, outcome)
  BY <1>2, SourceEnds
<1>3. CASE ValidateProjectedSet(Merged(sources, ResearchManifest)) = "done" /\ InsertMissing(c, ResearchManifest)
  BY <1>1, <1>3, ManifestIsInserted
<1> QED
  BY <1>1, <1>2, <1>3 DEF PublishDynamicCatalog

LEMMA SourceCallBegins ==
    ASSUME SourceInv, NEW c \in SourceCalls, Begin(c)
    PROVE  SourceInv'
<1>1. PICK ask \in Requests, document \in Imports :
        /\ Prevalidated(ask, document) = "done"
        /\ sourceCall' = [sourceCall EXCEPT ![c] =
             [@ EXCEPT !.pc = "begun", !.ask = ask, !.started = now, !.document = document]]
  BY DEF Begin
<1>2. PICK old, next : /\ old = sourceCall[c]
                       /\ next = [old EXCEPT !.pc = "begun", !.ask = ask, !.started = now,
                                             !.document = document]
  OBVIOUS
<1>3. SourceCallFits(old, sources) /\ now \in 1 .. MaxNow
  BY <1>2 DEF SourceInv
<1>4. old = [pc |-> old.pc, ask |-> old.ask, started |-> old.started, document |-> old.document,
             seen |-> old.seen]
  BY <1>3 DEF SourceCallFits
<1>5. /\ next.pc = "begun" /\ next.ask = ask /\ next.started = now /\ next.document = document
      /\ next = [pc |-> "begun", ask |-> ask, started |-> now, document |-> document,
                 seen |-> old.seen]
      /\ next.seen = old.seen
  BY <1>2, <1>4
<1>6. ask \in Ask
  BY SourceRequests
<1>7. ask.op = "import" => ValidateProjectedSet(document) = "done"
  BY <1>1 DEF Prevalidated
<1>8. SourceCallFits(next, sources)
  BY <1>3, <1>5, <1>6, <1>7 DEF SourceCallFits
<1>9. sourceCall' = [sourceCall EXCEPT ![c] = next] /\ sources' = sources /\ now' = now
  BY <1>1, <1>2 DEF Begin
<1>10. next.started <= now
  BY <1>3, <1>5, SourceConstants
<1> QED
  BY <1>5, <1>8, <1>9, <1>10, SourceCallGoesOn

LEMMA SourcesAreLocked ==
    ASSUME SourceInv, NEW c \in SourceCalls, LockSources(c)
    PROVE  SourceInv'
<1>1. PICK old, next : old = sourceCall[c] /\ next = [old EXCEPT !.pc = "locked", !.seen = sources]
  OBVIOUS
<1>2. SourceCallFits(old, sources) /\ old.pc = "begun" /\ old.started <= now
  BY <1>1 DEF SourceInv, LockSources
<1>3. old = [pc |-> old.pc, ask |-> old.ask, started |-> old.started, document |-> old.document,
             seen |-> old.seen]
  BY <1>2 DEF SourceCallFits
<1>4. /\ next.pc = "locked" /\ next.ask = old.ask /\ next.started = old.started
      /\ next.document = old.document /\ next.seen = sources
      /\ next = [pc |-> "locked", ask |-> old.ask, started |-> old.started,
                 document |-> old.document, seen |-> sources]
  BY <1>1, <1>3
<1>5. SourceCallFits(next, sources)
  BY <1>2, <1>4 DEF SourceCallFits
<1>6. sourceCall' = [sourceCall EXCEPT ![c] = next] /\ sources' = sources /\ now' = now
  <2>1. sourceCall' = [sourceCall EXCEPT ![c].pc = "locked", ![c].seen = sources]
    BY DEF LockSources
  <2>2. c \in DOMAIN sourceCall
    BY DEF SourceInv
  <2>3. sourceCall' = [sourceCall EXCEPT ![c] = next]
    BY <1>1, <2>1, <2>2
  <2> QED
    BY <2>3 DEF LockSources
<1>7. \A d \in SourceCalls : sourceCall[d].pc # "locked"
  BY DEF LockSources
<1> QED
  BY <1>2, <1>4, <1>5, <1>6, <1>7, SourceCallGoesOn

LEMMA ClockGoesOn ==
    ASSUME SourceInv, SourceTick
    PROVE  SourceInv'
<1>1. /\ now' = now + 1 /\ now < MaxNow /\ now \in 1 .. MaxNow /\ MaxNow \in Nat
      /\ sources' = sources /\ sourceCall' = sourceCall
  BY SourceConstants DEF SourceTick, SourceInv
<1>2. ASSUME NEW c \in SourceCalls
      PROVE  sourceCall[c].started <= now'
  <2>1. SourceCallFits(sourceCall[c], sources) /\ sourceCall[c].started <= now
    BY DEF SourceInv
  <2>2. sourceCall[c].started \in Nat
    BY <1>1, <2>1 DEF SourceCallFits
  <2> QED
    BY <1>1, <2>1, <2>2
<1> QED
  BY <1>1, <1>2 DEF SourceInv

LEMMA SourceSteps == SourceInv /\ [SourceNext]_sourceVars => SourceInv'
<1> SUFFICES ASSUME SourceInv, [SourceNext]_sourceVars
             PROVE  SourceInv'
  OBVIOUS
<1>1. CASE UNCHANGED sourceVars
  BY <1>1 DEF sourceVars, SourceInv
<1>2. ASSUME NEW c \in SourceCalls, Decide(c)
      PROVE  SourceInv'
  BY <1>2, SourceIsCreated, SourceIsUpdated, SourceIsDeleted, SourcesAreImported, FixedArePublished,
     ResearchIsPublished DEF Decide
<1>3. ASSUME NEW c \in SourceCalls, FailCall(c)
      PROVE  SourceInv'
  BY <1>3, SourceEnds DEF FailCall
<1> QED
  BY <1>1, <1>2, <1>3, ClockGoesOn, SourceCallBegins, SourcesAreLocked DEF SourceNext

LEMMA SourceStarts == SourceInit => SourceInv
<1> SUFFICES ASSUME SourceInit
             PROVE  SourceInv
  OBVIOUS
<1>1. DOMAIN sources = {} /\ now = 1 /\ sourceCall = [c \in SourceCalls |-> Idle]
  BY DEF SourceInit
<1>2. MaxNow \in Nat /\ MaxNow > 0 /\ MaxSources \in Nat /\ MaxEnvelope \in Nat
  BY SourceConstants
<1>3. Enabled(sources) = {} /\ ActiveWeb(sources) = {}
  BY <1>1 DEF Enabled, ActiveWeb
<1>4. Total([code \in Enabled(sources) |-> Measured(sources[code])]) = 0
  <2>1. Total([code \in Enabled(sources) |-> Measured(sources[code])]) = Cardinality({})
    BY <1>3 DEF Total
  <2> QED
    BY <2>1, FS_EmptySet
<1>5. RowsWithin(sources)
  BY <1>1, <1>2, <1>3, <1>4, FS_EmptySet DEF RowsWithin
<1>6. \A c \in SourceCalls : sourceCall[c] = Idle
  BY <1>1
<1> QED
  BY <1>1, <1>2, <1>5, <1>6, IdleSourceFits DEF SourceInv

LEMMA SourceInvariant == SourceSpec => []SourceInv
BY SourceStarts, SourceSteps, PTL DEF SourceSpec

LEMMA SourceInvTyped == SourceInv => SourceTypeOK
<1> SUFFICES ASSUME SourceInv
             PROVE  SourceTypeOK
  OBVIOUS
<1>1. ASSUME NEW c \in SourceCalls
      PROVE  sourceCall[c].started \in 0 .. now
  <2>1. /\ SourceCallFits(sourceCall[c], sources) /\ sourceCall[c].started <= now /\ now \in 1 .. MaxNow
        /\ MaxNow \in Nat
    BY SourceConstants DEF SourceInv
  <2>2. sourceCall[c].started \in Nat
    BY <2>1 DEF SourceCallFits
  <2> QED
    BY <2>1, <2>2
<1> QED
  BY <1>1 DEF SourceInv, RowsWithin, StoredRow, SourceTypeOK

\* Where no body has grown, what was measured is what a read encodes, but for the
\* stamps that took the place of shorter ones.
LEMMA ReadsAreWithin ==
    ASSUME RowsWithin(sources),
           \A code \in DOMAIN sources : Bytes[sources[code].config] = SentBytes(sources[code].config)
    PROVE  /\ ListAnswer = "done"
           /\ SnapshotAnswer = "done" \/ \E code \in Enabled(sources) :
                LeastWidth(sources[code].created) < Width(sources[code].updated)
<1>1. ASSUME NEW code \in DOMAIN sources
      PROVE  /\ ValidSource(sources[code]) /\ Measured(sources[code]) \in Nat
             /\ LeastWidth(sources[code].created) \in Nat /\ Width(sources[code].created) \in Nat
             /\ Width(sources[code].updated) \in Nat /\ Bytes[sources[code].config] \in Nat
             /\ Measured(sources[code]) = Bytes[sources[code].config] + Width(sources[code].created)
                                            + LeastWidth(sources[code].created)
  <2>1. PICK row : row = sources[code]
    OBVIOUS
  <2>2. StoredRow(row) /\ Bytes[row.config] = SentBytes(row.config)
    BY <2>1 DEF RowsWithin
  <2>3. /\ Measured(row) \in Nat /\ LeastWidth(row.created) \in Nat /\ Width(row.created) \in Nat
        /\ Width(row.updated) \in Nat /\ Bytes[row.config] \in Nat
    BY <2>2, MeasuredIsNumber DEF StoredRow
  <2> QED
    BY <2>1, <2>2, <2>3 DEF StoredRow, ValidSource, Measured
<1>2. ListAnswer = "done"
  BY <1>1 DEF ListAnswer
<1>3. SUFFICES ASSUME \A code \in Enabled(sources) :
                        ~(LeastWidth(sources[code].created) < Width(sources[code].updated))
               PROVE  SnapshotAnswer = "done"
  BY <1>2
<1>4. Enabled(sources) \in SUBSET DOMAIN sources /\ DOMAIN sources \in SUBSET Codes
  BY DEF Enabled, RowsWithin
<1>5. /\ IsFiniteSet(Enabled(sources)) /\ Cardinality(Enabled(sources)) \in Nat
      /\ Cardinality(DOMAIN sources) \in Nat
      /\ Cardinality(Enabled(sources)) <= Cardinality(DOMAIN sources)
  BY <1>4, CodesAreFinite
<1>6. MaxSources \in Nat /\ MaxEnvelope \in Nat
  BY SourceConstants
<1>7. PICK few, more : /\ few = [code \in Enabled(sources) |->
                                   Bytes[sources[code].config] + Width(sources[code].created)
                                     + Width(sources[code].updated)]
                       /\ more = [code \in Enabled(sources) |-> Measured(sources[code])]
  OBVIOUS
<1>8. ASSUME NEW code \in Enabled(sources)
      PROVE  few[code] \in Nat /\ more[code] \in Nat /\ few[code] <= more[code]
  <2>1. code \in DOMAIN sources
    BY <1>4
  <2>2. PICK bytes, created, updated, least :
          /\ bytes = Bytes[sources[code].config] /\ created = Width(sources[code].created)
          /\ updated = Width(sources[code].updated) /\ least = LeastWidth(sources[code].created)
    OBVIOUS
  <2>3. {bytes, created, updated, least} \subseteq Nat /\ ~(least < updated)
    BY <1>1, <1>3, <2>1, <2>2
  <2>4. few[code] = bytes + created + updated /\ more[code] = bytes + created + least
    BY <1>1, <1>7, <2>1, <2>2
  <2> QED
    BY <2>3, <2>4
<1>9. DOMAIN few = Enabled(sources) /\ DOMAIN more = Enabled(sources)
  BY <1>7
<1>10. Total(few) \in Nat /\ Total(more) \in Nat /\ Total(few) <= Total(more)
  BY <1>5, <1>8, <1>9, TotalsGrow
<1>11. ~(EnvelopeSize(sources) > MaxEnvelope)
  BY <1>6, <1>7, <1>10 DEF EnvelopeSize, RowsWithin
<1>12. ~(Cardinality(Enabled(sources)) > MaxSources)
  BY <1>5, <1>6 DEF RowsWithin
<1> QED
  BY <1>1, <1>4, <1>11, <1>12 DEF SnapshotAnswer

LEMMA SourceInvWithin == SourceInv => SourceSetIsWithinLimits
BY SourceInvTyped, ReadsAreWithin, Zenon DEF SourceInv, RowsWithin, SourceSetIsWithinLimits

\* The limits of the source set - their number, the one web search and the bytes of
\* the snapshot - hold at every commit, for any sources, bodies, widths and calls.
THEOREM SourcesStayWithin == SourceSpec => []SourceSetIsWithinLimits
BY SourceInvariant, SourceInvWithin, PTL

\* A step keeps what is fixed, and a publication all that is stored.
KeepsFixed ==
    \A code \in DOMAIN sources : sources[code].owner = "fixed" =>
        /\ code \in DOMAIN sources' /\ sources'[code].owner = "fixed"
        /\ sources'[code].channel = sources[code].channel

PublishesBeside ==
    \A c \in SourceCalls :
        /\ sourceCall[c].pc = "locked" /\ sourceCall'[c].pc # "locked"
        /\ Asked(c).op \in {"fixed", "research", "import"}
        => \A code \in DOMAIN sources : code \in DOMAIN sources' /\ sources'[code] = sources[code]

LEMMA UnchangedKeeps ==
    ASSUME sources' = sources
    PROVE  KeepsFixed /\ PublishesBeside
BY DEF KeepsFixed, PublishesBeside

LEMMA MergeKeeps ==
    ASSUME NEW more, sources' = Merged(sources, more)
    PROVE  KeepsFixed /\ PublishesBeside
<1>1. \A code \in DOMAIN sources : code \in DOMAIN sources' /\ sources'[code] = sources[code]
  BY DEF Merged
<1> QED
  BY <1>1 DEF KeepsFixed, PublishesBeside

\* A call that neither publishes nor imports: the others stay where they are.
LEMMA EditPublishesNothing ==
    ASSUME SourceInv, NEW c \in SourceCalls, NEW op \in {"update", "delete"}, Deciding(c, op),
           NEW rows, CommitChange(c, rows)
    PROVE  PublishesBeside
<1>1. \A d \in SourceCalls : d # c => sourceCall'[d] = sourceCall[d]
  BY DEF CommitChange, SourceInv
<1>2. Asked(c).op = op
  BY DEF Deciding
<1> QED
  BY <1>1, <1>2 DEF PublishesBeside

LEMMA SourceStepKeeps ==
    ASSUME SourceInv, [SourceNext]_sourceVars
    PROVE  KeepsFixed /\ PublishesBeside
<1>1. CASE UNCHANGED sourceVars \/ SourceTick
  BY <1>1, UnchangedKeeps DEF sourceVars, SourceTick
<1>2. ASSUME NEW c \in SourceCalls, Begin(c) \/ LockSources(c) \/ FailCall(c)
                                    \/ \E outcome : EndSource(c, outcome)
      PROVE  KeepsFixed /\ PublishesBeside
  BY <1>2, UnchangedKeeps DEF Begin, LockSources, FailCall, EndSource
<1>3. ASSUME NEW c \in SourceCalls, NEW more, CommitChange(c, Merged(sources, more))
      PROVE  KeepsFixed /\ PublishesBeside
  BY <1>3, MergeKeeps DEF CommitChange
<1>4. ASSUME NEW c \in SourceCalls, CreateDynamic(c) \/ PublishFixed(c) \/ PublishDynamicCatalog(c) \/ Import(c)
      PROVE  KeepsFixed /\ PublishesBeside
  BY <1>2, <1>3, <1>4, Zenon DEF CreateDynamic, PublishFixed, PublishDynamicCatalog, Import, InsertMissing
<1>5. ASSUME NEW c \in SourceCalls, Update(c)
      PROVE  KeepsFixed /\ PublishesBeside
  <2>1. Deciding(c, "update") /\ Seen(c) = sources /\ RowsWithin(sources)
    BY <1>5, DecidingFacts DEF Update
  <2>2. PICK code, old : code = Asked(c).code /\ old = sources[code]
    OBVIOUS
  <2>3. PICK candidate : candidate = [old EXCEPT !.enabled = Asked(c).enabled, !.config = Asked(c).config]
    OBVIOUS
  <2>4. PICK row : row = [candidate EXCEPT !.config = Jsonb[@], !.updated = sourceCall[c].started]
    OBVIOUS
  <2>5. CASE code \in DOMAIN sources /\ CommitChange(c, [sources EXCEPT ![code] = row])
    <3>1. old \in Source
      BY <2>1, <2>2, <2>5 DEF RowsWithin, StoredRow
    <3>2. row.owner = old.owner /\ row.channel = old.channel
      BY <2>3, <2>4, <3>1 DEF Source
    <3>3. sources' = [sources EXCEPT ![code] = row]
      BY <2>5 DEF CommitChange
    <3>4. KeepsFixed
      BY <2>2, <2>5, <3>2, <3>3 DEF KeepsFixed
    <3>5. PublishesBeside
      BY <2>1, <2>5, EditPublishesNothing
    <3> QED
      BY <3>4, <3>5
  <2>6. CASE \E outcome : EndSource(c, outcome)
    BY <1>2, <2>6
  <2> QED
    BY <1>5, <2>1, <2>2, <2>3, <2>4, <2>5, <2>6, Zenon DEF Update
<1>6. ASSUME NEW c \in SourceCalls, Delete(c)
      PROVE  KeepsFixed /\ PublishesBeside
  <2>1. Deciding(c, "delete") /\ Seen(c) = sources
    BY <1>6, DecidingFacts DEF Delete
  <2>2. PICK rows : rows = [code \in DOMAIN sources \ {Asked(c).code} |-> sources[code]]
    OBVIOUS
  <2>3. CASE sources[Asked(c).code].owner # "fixed" /\ CommitChange(c, rows)
    <3>1. KeepsFixed
      BY <2>2, <2>3 DEF CommitChange, KeepsFixed
    <3>2. PublishesBeside
      BY <2>1, <2>3, EditPublishesNothing
    <3> QED
      BY <3>1, <3>2
  <2>4. CASE \E outcome : EndSource(c, outcome)
    BY <1>2, <2>4
  <2> QED
    BY <1>6, <2>1, <2>2, <2>3, <2>4, Zenon DEF Delete
<1> QED
  BY <1>1, <1>2, <1>4, <1>5, <1>6 DEF SourceNext, Decide

\* Both.
FixedAreKept ==
    /\ \A code \in DOMAIN sources : sources[code].owner = "fixed" =>
         /\ code \in DOMAIN sources'
         /\ sources'[code].owner = "fixed"
         /\ sources'[code].channel = sources[code].channel
    /\ \A c \in SourceCalls :
         /\ sourceCall[c].pc = "locked" /\ sourceCall'[c].pc # "locked"
         /\ Asked(c).op \in {"fixed", "research", "import"}
         => \A code \in DOMAIN sources :
              code \in DOMAIN sources' /\ sources'[code] = sources[code]

LEMMA SourceStepsKeep ==
    SourceInv /\ [SourceNext]_sourceVars => [FixedAreKept]_sourceVars
BY SourceStepKeeps, Zenon DEF FixedAreKept, KeepsFixed, PublishesBeside

\* A fixed source stays, under its identity, whatever operators do; and publishing or
\* importing a manifest again never touches what is stored.
THEOREM FixedSourcesAreKept == SourceSpec => FixedSourcesStay
<1>1. SourceInv /\ [SourceNext]_sourceVars => [FixedAreKept]_sourceVars
  BY SourceStepsKeep
<1> QED
  BY <1>1, SourceInvariant, PTL DEF SourceSpec, FixedSourcesStay, FixedAreKept

-----------------------------------------------------------------------------
(* All parts at once *)

ServicesInv ==
    PublicationInv /\ ContractInv /\ FactInv /\ SourceInv /\ StockInv /\ MigrationInv

LEMMA ServicesStart == ServicesInit => ServicesInv
BY ContractStarts, InitInv, FactInvInit, SourceStarts, StockInvInit, MigrationInvInit
   DEF ServicesInit, DataInit, ServicesInv

\* Whoever has the step, a part takes a step of its own or rests.
LEMMA ServicesPartsStep ==
    ASSUME [ServicesNext]_servicesVars
    PROVE  /\ [Next]_vars /\ [ContractNext]_contractVars /\ [FactNext]_factVars
           /\ [SourceNext]_sourceVars /\ [StockNext]_stockVars /\ [MigrationNext]_migrationVars
<1>1. CASE UNCHANGED dataVars
  BY <1>1 DEF dataVars
<1>2. CASE Only("publication") /\ Next
  BY <1>2 DEF Only
<1>3. CASE Only("contract") /\ ContractNext
  BY <1>3 DEF Only
<1>4. CASE Only("facts") /\ FactNext
  BY <1>4 DEF Only
<1>5. CASE Only("source") /\ SourceNext
  BY <1>5 DEF Only
<1>6. CASE Only("stock") /\ StockNext
  BY <1>6 DEF Only
<1>7. CASE Only("migration") /\ MigrationNext
  BY <1>7 DEF Only
<1>8. UNCHANGED dataVars \/ DataNext
  BY DEF ServicesNext, servicesVars, ForUser, ForData
<1> QED
  BY <1>1, <1>2, <1>3, <1>4, <1>5, <1>6, <1>7, <1>8 DEF DataNext

LEMMA ServicesStep == ServicesInv /\ [ServicesNext]_servicesVars => ServicesInv'
<1> SUFFICES ASSUME ServicesInv, [ServicesNext]_servicesVars
             PROVE  ServicesInv'
  OBVIOUS
<1>1. /\ [Next]_vars /\ [ContractNext]_contractVars /\ [FactNext]_factVars
      /\ [SourceNext]_sourceVars /\ [StockNext]_stockVars /\ [MigrationNext]_migrationVars
  BY ServicesPartsStep
<1>2. PublicationInv'
  BY <1>1, NextInv, Zenon DEF ServicesInv
<1>3. ContractInv'
  BY <1>1, ContractInvStep, Zenon DEF ServicesInv
<1>4. FactInv'
  BY <1>1, FactInvStep, Zenon DEF ServicesInv
<1>5. SourceInv'
  BY <1>1, SourceSteps, Zenon DEF ServicesInv
<1>6. StockInv'
  BY <1>1, StockInvStep, Zenon DEF ServicesInv
<1>7. MigrationInv'
  BY <1>1, MigrationInvStep, Zenon DEF ServicesInv
<1> QED
  BY <1>2, <1>3, <1>4, <1>5, <1>6, <1>7, Zenon DEF ServicesInv

\* Whichever part of the Data Service, or the User Service beside it, works: reports
\* are read but for the named differences, what is accepted is kept with all it cites,
\* sources stay within the limits of what is sent to the Miniapp backend, deadlocks of
\* stocks stay with unwritten rows and migrations tell what they did.
THEOREM ServicesKeepTheirPromises ==
    ServicesSpec => [](/\ OnlyDivergencesAreRefused /\ AcceptedIsKept
                       /\ SourceSetIsWithinLimits
                       /\ DeadlocksNeedAnUnwrittenRow /\ MigrationReportIsTrue)
<1>1. ServicesInv => /\ OnlyDivergencesAreRefused /\ AcceptedIsKept
                     /\ SourceSetIsWithinLimits
                     /\ DeadlocksNeedAnUnwrittenRow /\ MigrationReportIsTrue
  BY ContractInvIsRead, ContractInvIsFaithful, FactInvIsRead, SourceInvWithin, StockInvIsNarrow,
     MigrationInvIsTrue
     DEF ServicesInv, AcceptedIsKept
<1> QED
  BY <1>1, ServicesStart, ServicesStep, PTL DEF ServicesSpec

\* Whichever packages, quotes and operators meet, and whatever else the Data Service
\* does: what its commands find published stays as it is: dates of stocks never go
\* back, quotes are final and fixed sources stay.
THEOREM PublishedFactsAreKept == ServicesSpec => PublishedFactsStay
<1>1. ServicesInv /\ [ServicesNext]_servicesVars =>
        /\ [DatesStay]_stockVars /\ [QuotesAreKept]_stockVars
        /\ [FixedAreKept]_sourceVars
  <2> SUFFICES ASSUME ServicesInv, [ServicesNext]_servicesVars
               PROVE  /\ [DatesStay]_stockVars /\ [QuotesAreKept]_stockVars
                      /\ [FixedAreKept]_sourceVars
    OBVIOUS
  <2>1. [StockNext]_stockVars /\ [SourceNext]_sourceVars
    BY ServicesPartsStep
  <2>2. StockInv /\ SourceInv
    BY DEF ServicesInv
  <2> QED
    BY <2>1, <2>2, StepsKeepDates, StepsKeepQuotes, SourceStepsKeep, Zenon
<1>2. ServicesSpec => [][DatesStay]_stockVars /\ [][QuotesAreKept]_stockVars
                        /\ [][FixedAreKept]_sourceVars
  BY <1>1, ServicesStart, ServicesStep, PTL DEF ServicesSpec
<1>3. [][DatesStay]_stockVars => FactsKeepTheirDate
  BY PTL DEF FactsKeepTheirDate, DatesStay
<1>4. [][QuotesAreKept]_stockVars => QuotesAreFinal
  BY PTL DEF QuotesAreFinal, QuotesAreKept
<1>5. [][FixedAreKept]_sourceVars => FixedSourcesStay
  BY PTL DEF FixedSourcesStay, FixedAreKept
<1> QED
  BY <1>2, <1>3, <1>4, <1>5 DEF PublishedFactsStay

\* Beside all other parts too, maintenance removes what was reviewed and nothing else.
THEOREM ReviewedAmongServices == ServicesSpec => RemovedAsReviewed
<1>1. [ServicesNext]_servicesVars => [RemovesReviewed]_vars
  BY ServicesPartsStep, StepsRemoveReviewed, Zenon
<1> QED
  BY <1>1, PTL DEF ServicesSpec, RemovedAsReviewed, RemovesReviewed
=============================================================================
