------------------------ MODULE UatDeploymentProofs -------------------------
(***************************************************************************)
(* Theorems about UatDeployment, for any runs, releases, files of a        *)
(* release, cutovers and schema versions.                                  *)
(***************************************************************************)
EXTENDS UatDeployment, TLAPS

(* The files of a release, and copies of them *)

WholeRelease(record) == \E release \in Releases : record = Whole(release)

\* The files before the n-th are copied.
CopiedTo(n, to, from) ==
    \A i \in DOMAIN FileOrder : i < n => to[FileOrder[i]] = from[FileOrder[i]]

LEMMA FileFacts ==
    /\ DOMAIN FileOrder = 1..Len(FileOrder) /\ Len(FileOrder) \in Nat
    /\ \A i \in DOMAIN FileOrder : FileOrder[i] \in Files
    /\ \A f \in Files : \E i \in DOMAIN FileOrder : f = FileOrder[i]
    /\ "images" \in Files
<1>1. FileOrder \in Seq(STRING)
  BY ConstantsAssumption
<1>2. DOMAIN FileOrder = 1..Len(FileOrder) /\ Len(FileOrder) \in Nat
  BY <1>1
<1>3. "images" \in {FileOrder[i] : i \in DOMAIN FileOrder}
  BY ConstantsAssumption
<1> QED
  BY <1>2, <1>3 DEF Files

LEMMA SlotFacts ==
    /\ "current" \in Slots /\ "previous" \in Slots /\ Cutovers \subseteq Slots
    /\ "current" \notin Cutovers /\ "previous" \notin Cutovers
    /\ "normal" \notin Cutovers /\ "none" \notin Cutovers
    /\ "committed" \notin Cutovers /\ NoMarker \notin Cutovers
BY ConstantsAssumption DEF Slots, NoMarker

LEMMA WholeFacts ==
    ASSUME NEW c
    PROVE  /\ \A f \in Files : Whole(c)[f] = c
           /\ c \in Contents => Whole(c) \in [Files -> Contents]
BY DEF Whole

LEMMA ContentsFacts ==
    /\ Releases \subseteq Contents /\ Missing \in Contents /\ Torn \in Contents
    /\ Missing \notin Releases /\ Torn \notin Releases /\ NoRelease \notin Releases
    /\ Absent \in [Files -> Contents] /\ Absent = Whole(Missing)
BY WholeFacts, ConstantsAssumption DEF Contents, Missing, Torn, NoRelease, Absent

\* A record whose files are all copied is the record copied.
LEMMA CopiedAll ==
    ASSUME NEW a \in [Files -> Contents], NEW b \in [Files -> Contents],
           NEW n, n = Len(FileOrder) + 1, CopiedTo(n, a, b)
    PROVE  a = b
<1>1. \A i \in DOMAIN FileOrder : i < n
  BY FileFacts
<1>2. \A f \in Files : a[f] = b[f]
  BY <1>1, FileFacts DEF CopiedTo
<1> QED
  BY <1>2

LEMMA CopiedNone ==
    ASSUME NEW a, NEW b
    PROVE  CopiedTo(1, a, b)
BY FileFacts DEF CopiedTo

LEMMA CopiedMore ==
    ASSUME NEW a \in [Files -> Contents], NEW b \in [Files -> Contents],
           NEW n \in DOMAIN FileOrder, CopiedTo(n, a, b), NEW c,
           c = [a EXCEPT ![FileOrder[n]] = b[FileOrder[n]]]
    PROVE  /\ c \in [Files -> Contents]
           /\ CopiedTo(n + 1, c, b)
           /\ n + 1 \in 1..(Len(FileOrder) + 1)
<1>1. \A i \in DOMAIN FileOrder : i < n + 1 => i < n \/ i = n
  BY FileFacts
<1>2. c \in [Files -> Contents]
  BY FileFacts
<1>3. ASSUME NEW i \in DOMAIN FileOrder, i < n + 1
      PROVE  c[FileOrder[i]] = b[FileOrder[i]]
  BY <1>1, <1>3, FileFacts DEF CopiedTo
<1>4. n + 1 \in 1..(Len(FileOrder) + 1)
  BY FileFacts
<1> QED
  BY <1>2, <1>3, <1>4 DEF CopiedTo

-----------------------------------------------------------------------------
(* The inductive invariant *)

\* What the record is restored from.
SourceOf(d, w) ==
    IF w = "none" THEN Absent
    ELSE IF w = "committed" THEN d["current"]
    ELSE d[w]

\* The record is whole unless the write marker says otherwise, and the marker
\* names a whole snapshot.
RecordOK(d, w) ==
    /\ d \in [Slots -> [Files -> Contents]] /\ w \in WriteMarkers
    /\ w \in {NoMarker, "committed"} =>
         \E release \in Releases \cup {Missing} : d["current"] = Whole(release)
    /\ w \in {"previous"} \cup Cutovers => WholeRelease(d[w])

\* The stages from the verified plan to the first write of the record.
Unwritten == {"verify", "preflight", "confirm", "reconcile", "prepare", "stop",
              "mark stopped", "begin", "mark started", "migrate",
              "mark migrated", "up", "check", "snapshot", "forget", "mark"}

\* From the first migration of a cutover to its end.
Migrating == {"mark started", "migrate", "mark migrated"}
              \cup FirstOfRelease \cup Recording

\* The stages of a cutover only.
OfCutover == {"confirm", "reconcile", "prepare", "stop", "mark stopped", "begin",
              "mark started", "mark migrated"}

\* A run that is restoring the record, before it goes on or after it failed.
Restoring(x, d, w) ==
    x.pc \in {"restore", "unwind"} =>
      /\ w # NoMarker
      /\ CopiedTo(x.n, d["current"], SourceOf(d, w))
      /\ w = "committed" => x.n = Len(FileOrder) + 1
      /\ IF x.pc = "unwind" THEN x.faults >= 1 ELSE ~x.ready

\* A run that has not touched the record: it is the one planned on.
Untouched(x, d, w) ==
    x.pc \in Unwritten =>
      /\ w = NoMarker
      /\ x.pc # "verify" /\ x.available => d["current"] = x.planned
      /\ x.pc # "mark" => ~x.ready

\* What a run knows of the snapshot it has taken.
Snapshotted(x, d) ==
    /\ x.ready => x.mode = "normal" /\ WholeRelease(d["previous"])
    /\ x.pc = "snapshot" =>
         /\ x.available
         /\ CopiedTo(x.n, d[IF x.mode \in Cutovers THEN x.mode ELSE "previous"],
                     d["current"])
    /\ x.pc \in {"forget", "mark"} /\ x.mode # "normal" => WholeRelease(d[x.mode])
    /\ x.pc \in Recording \ {"snapshot"} /\ x.mode = "normal" /\ x.available
         => x.ready

\* What a cutover has behind it.
Underway(x) ==
    /\ x.pc \in OfCutover => x.mode # "normal"
    /\ x.mode # "normal" =>
         /\ x.pc \notin {"restore", "verify", "preflight"} => x.available
         /\ x.pc \in Migrating => x.started

\* A run that writes the record, and one that rolls back.
Written(x, d, w) ==
    /\ x.pc = "install" => /\ w \notin {NoMarker, "committed"}
                           /\ CopiedTo(x.n, d["current"], Whole(x.release))
    /\ x.pc = "commit" => d["current"] = Whole(x.release)
    /\ x.pc = "clear" => w = "committed"
    /\ x.pc = "rollback" =>
         /\ ~x.ready /\ x.available => d["current"] = x.planned
         /\ w # NoMarker => x.faults >= 1

StageOK(x, d, w) ==
    /\ Restoring(x, d, w) /\ Untouched(x, d, w) /\ Snapshotted(x, d)
    /\ Underway(x) /\ Written(x, d, w)

\* What run x promises beside the disk d and the write marker w.
RunOK(x, d, w) ==
    /\ x \in RunState
    /\ x.pc \in Stages \cup {"planned"} =>
         /\ x.release \in Releases
         /\ x.available => \A f \in Files : x.planned[f] \in Releases
         /\ x.pc = "planned" => ~x.ready
    /\ x.pc \in Stages => StageOK(x, d, w)

\* The lock is held by one run at most.
OneHolds == \A q, r \in Runs : Locked(q) /\ Locked(r) => q = r

PlainOK ==
    /\ cutoverMarker \in CutoverMarkers
    /\ db \in Nat
    /\ serving \in Releases \cup {NoRelease}

RecordInv ==
    /\ PlainOK /\ OneHolds
    /\ RecordOK(disk, writeMarker)
    /\ run \in [Runs -> RunState]
    /\ \A r \in Runs : RunOK(run[r], disk, writeMarker)

-----------------------------------------------------------------------------
(* Steps of the run that holds the lock, and of runs that do not *)

\* Run r goes on as x.
GoesOn(r, x) ==
    /\ run' = [run EXCEPT ![r] = x]
    /\ RunOK(x, disk', writeMarker')
    /\ RecordOK(disk', writeMarker')
    /\ PlainOK'

LEMMA HeldStep ==
    ASSUME RecordInv, NEW r \in Runs, Locked(r), NEW x, GoesOn(r, x)
    PROVE  RecordInv'
<1>1. run' \in [Runs -> RunState]
  BY DEF RecordInv, GoesOn, RunOK
<1>2. ASSUME NEW q \in Runs, q # r
      PROVE  run'[q] = run[q] /\ run[q].pc \notin Stages
  BY <1>2 DEF RecordInv, OneHolds, Locked, GoesOn
<1>3. run'[r] = x
  BY DEF RecordInv, GoesOn
<1>4. OneHolds'
  BY <1>2 DEF OneHolds, Locked
<1>5. ASSUME NEW q \in Runs
      PROVE  RunOK(run'[q], disk', writeMarker')
  <2>1. CASE q = r
    BY <1>3, <2>1 DEF GoesOn
  <2>2. CASE q # r
    BY <1>2, <2>2 DEF RecordInv, RunOK
  <2> QED
    BY <2>1, <2>2
<1> QED
  BY <1>1, <1>4, <1>5 DEF RecordInv, GoesOn

\* A run without the lock leaves the disk alone.
LEMMA FreeStep ==
    ASSUME RecordInv, NEW r \in Runs, NEW x, GoesOn(r, x),
           x.pc \in Stages => \A q \in Runs : ~Locked(q),
           disk' = disk, writeMarker' = writeMarker
    PROVE  RecordInv'
<1>1. run' \in [Runs -> RunState]
  BY DEF RecordInv, GoesOn, RunOK
<1>2. /\ run'[r] = x
      /\ \A q \in Runs : q # r => run'[q] = run[q]
  BY DEF RecordInv, GoesOn
<1>3. OneHolds'
  BY <1>2 DEF RecordInv, OneHolds, Locked
<1>4. ASSUME NEW q \in Runs
      PROVE  RunOK(run'[q], disk', writeMarker')
  BY <1>2 DEF RecordInv, GoesOn
<1> QED
  BY <1>1, <1>3, <1>4 DEF RecordInv, GoesOn

\* What is known of the run that takes a step.
LEMMA RunFacts ==
    ASSUME RecordInv, NEW r \in Runs
    PROVE  /\ run[r] \in RunState /\ RunOK(run[r], disk, writeMarker)
           /\ run \in [Runs -> RunState]
           /\ RecordOK(disk, writeMarker) /\ PlainOK
BY DEF RecordInv

LEMMA IdleRun == Idle \in RunState
<1>1. Unmarked \in CutoverMarkers /\ Absent \in [Files -> Contents]
  BY ContentsFacts DEF Unmarked, CutoverMarkers
<1>2. MaxFaults \in Nat
  BY ConstantsAssumption
<1>3. 1 \in 1..(Len(FileOrder) + 1) /\ 0 \in 0..MaxFaults
  BY <1>2, FileFacts
<1> DEFINE f == [current |-> Absent, write |-> NoMarker, cutover |-> Unmarked]
<1>5. f \in [current : [Files -> Contents], write : WriteMarkers,
              cutover : CutoverMarkers]
  BY <1>1 DEF WriteMarkers
<1>6. NoMarker \in WriteMarkers /\ "normal" \in Modes
  BY DEF WriteMarkers, Modes
<1>7. Idle = [pc |-> "idle", mode |-> "normal", release |-> NoRelease,
              available |-> FALSE, planned |-> Absent, fingerprint |-> f,
              recovery |-> NoMarker, started |-> FALSE, ready |-> FALSE,
              n |-> 1, faults |-> 0]
  BY DEF Idle
<1> HIDE DEF f
<1> QED
  BY <1>1, <1>3, <1>5, <1>6, <1>7 DEF RunState

LEMMA IdleFacts ==
    ASSUME NEW o \in Ended
    PROVE  [Idle EXCEPT !.pc = o] \in RunState /\ [Idle EXCEPT !.pc = o].pc = o
BY IdleRun DEF RunState

\* A run that has ended promises nothing.
LEMMA EndStep ==
    ASSUME RecordInv, NEW r \in Runs, NEW o \in Ended, End(r, o),
           RecordOK(disk', writeMarker'), PlainOK',
           Locked(r) \/ (disk' = disk /\ writeMarker' = writeMarker)
    PROVE  RecordInv'
<1> DEFINE x == [Idle EXCEPT !.pc = o]
<1>1. x \in RunState /\ x.pc = o
  BY IdleFacts
<1>2. run' = [run EXCEPT ![r] = x]
  BY DEF End
<1> HIDE DEF x
<1>3. o \notin Stages \cup {"planned"}
  BY DEF Ended, Stages
<1>4. GoesOn(r, x)
  BY <1>1, <1>2, <1>3 DEF GoesOn, RunOK
<1> QED
  BY <1>1, <1>3, <1>4, HeldStep, FreeStep

\* Run x goes on as y: what it was started with is the same.
SameRun(x, y) ==
    /\ y.mode = x.mode /\ y.release = x.release /\ y.available = x.available
    /\ y.planned = x.planned /\ y.ready = x.ready

\* Step(r, stage) changes the stage only.
LEMMA StageStep ==
    ASSUME RecordInv, NEW r \in Runs, NEW stage \in Stages, Step(r, stage)
    PROVE  \E x \in RunState :
             /\ run' = [run EXCEPT ![r] = x] /\ x.pc = stage /\ SameRun(run[r], x)
             /\ x.started = run[r].started /\ x.faults = run[r].faults
             /\ x.n = run[r].n
<1> DEFINE x == [run[r] EXCEPT !.pc = stage]
<1>1. run[r] \in RunState /\ run \in [Runs -> RunState]
  BY RunFacts
<1>2. run' = [run EXCEPT ![r] = x]
  BY <1>1 DEF Step
<1>3. x \in RunState /\ x.pc = stage
  BY <1>1 DEF RunState
<1>4. SameRun(run[r], x)
  BY <1>1 DEF RunState, SameRun
<1>5. x.started = run[r].started /\ x.faults = run[r].faults /\ x.n = run[r].n
  BY <1>1 DEF RunState
<1> HIDE DEF x
<1> QED
  BY <1>2, <1>3, <1>4, <1>5

\* A restore begins with nothing copied.
LEMMA RestoreBegins ==
    ASSUME RecordInv, NEW r \in Runs, NEW stage \in Stages, BeginRestore(r, stage)
    PROVE  \E x \in RunState :
             /\ run' = [run EXCEPT ![r] = x] /\ x.pc = stage /\ SameRun(run[r], x)
             /\ x.started = run[r].started /\ x.faults = run[r].faults
             /\ x.n = IF writeMarker = "committed" THEN Len(FileOrder) + 1 ELSE 1
<1> DEFINE n == IF writeMarker = "committed" THEN Len(FileOrder) + 1 ELSE 1
           x == [run[r] EXCEPT !.pc = stage, !.recovery = writeMarker, !.n = n]
<1>1. run[r] \in RunState /\ run \in [Runs -> RunState]
      /\ writeMarker \in WriteMarkers
  BY RunFacts DEF RecordOK
<1>2. run' = [run EXCEPT ![r] = x]
  BY <1>1 DEF BeginRestore
<1>3. n \in 1..(Len(FileOrder) + 1)
  BY FileFacts
<1>4. x \in RunState /\ x.pc = stage
  BY <1>1, <1>3 DEF RunState
<1>5. SameRun(run[r], x)
  BY <1>1 DEF RunState, SameRun
<1>6. x.started = run[r].started /\ x.faults = run[r].faults /\ x.n = n
  BY <1>1 DEF RunState
<1> HIDE DEF x
<1> QED
  BY <1>2, <1>4, <1>5, <1>6

-----------------------------------------------------------------------------
(* Planning and the gates *)

LEMMA PlanStep ==
    ASSUME RecordInv, NEW r \in Runs, Plan(r)
    PROVE  RecordInv'
<1>1. /\ run[r] \in RunState /\ run \in [Runs -> RunState]
      /\ RecordOK(disk, writeMarker) /\ PlainOK
  BY RunFacts
<1>2. /\ disk' = disk /\ writeMarker' = writeMarker /\ PlainOK'
      /\ RecordOK(disk', writeMarker')
  BY <1>1 DEF Plan, PlainOK
<1>3. CASE End(r, "refused")
  <2>1. "refused" \in Ended
    BY DEF Ended
  <2> QED
    BY <1>2, <1>3, <2>1, EndStep
<1>4. CASE ~End(r, "refused")
  <2>1. ASSUME NEW mode \in Modes, NEW b, b = PlanningBase(mode)
        PROVE  /\ b \in [Files -> Contents]
               /\ (IF \A f \in Files : b[f] \in Releases THEN b ELSE Absent)
                    \in [Files -> Contents]
    BY <1>1, <2>1, SlotFacts, ContentsFacts DEF PlanningBase, RecordOK
  <2>2. PICK mode \in Modes, release \in Releases, available \in BOOLEAN,
             planned \in [Files -> Contents] :
          /\ available => \A f \in Files : planned[f] \in Releases
          /\ run' = [run EXCEPT ![r] =
                   [Idle EXCEPT !.pc = "planned", !.mode = mode, !.release = release,
                      !.available = available, !.planned = planned,
                      !.fingerprint = Fingerprint]]
    <3>1. PICK mode \in Modes, release \in Releases :
            run' = [run EXCEPT ![r] =
                   [Idle EXCEPT !.pc = "planned", !.mode = mode, !.release = release,
                      !.available = \A f \in Files : PlanningBase(mode)[f] \in Releases,
                      !.planned = IF \A f \in Files : PlanningBase(mode)[f] \in Releases
                                  THEN PlanningBase(mode) ELSE Absent,
                      !.fingerprint = Fingerprint]]
      BY <1>4 DEF Plan
    <3>2. CASE \A f \in Files : PlanningBase(mode)[f] \in Releases
      <4>1. run' = [run EXCEPT ![r] =
                   [Idle EXCEPT !.pc = "planned", !.mode = mode, !.release = release,
                      !.available = TRUE, !.planned = PlanningBase(mode),
                      !.fingerprint = Fingerprint]]
        BY <3>1, <3>2
      <4> QED
        BY <2>1, <3>2, <4>1
    <3>3. CASE ~\A f \in Files : PlanningBase(mode)[f] \in Releases
      <4>1. run' = [run EXCEPT ![r] =
                   [Idle EXCEPT !.pc = "planned", !.mode = mode, !.release = release,
                      !.available = FALSE, !.planned = Absent,
                      !.fingerprint = Fingerprint]]
        BY <3>1, <3>3
      <4> QED
        BY <4>1, ContentsFacts
    <3> QED
      BY <3>2, <3>3
  <2>3. Fingerprint \in [current : [Files -> Contents], write : WriteMarkers,
                         cutover : CutoverMarkers]
    BY <1>1, SlotFacts DEF Fingerprint, RecordOK, PlainOK
  <2> DEFINE x == [Idle EXCEPT !.pc = "planned", !.mode = mode, !.release = release,
                      !.available = available, !.planned = planned,
                      !.fingerprint = Fingerprint]
  <2>4. x \in RunState
    BY <2>2, <2>3, IdleRun DEF RunState
  <2>5. /\ x.pc = "planned" /\ x.release = release /\ x.available = available
        /\ x.planned = planned /\ x.ready = FALSE
    BY IdleRun DEF RunState, Idle
  <2>6. run' = [run EXCEPT ![r] = x]
    BY <2>2
  <2> HIDE DEF x
  <2>11. GoesOn(r, x)
    <3>1. "planned" \notin Stages
      BY DEF Stages
    <3> QED
      BY <1>2, <2>2, <2>4, <2>5, <2>6, <3>1 DEF GoesOn, RunOK
  <2>12. x.pc \notin Stages
    BY <2>5 DEF Stages
  <2> QED
    BY <1>2, <2>11, <2>12, FreeStep
<1> QED
  BY <1>3, <1>4

LEMMA LockStep ==
    ASSUME RecordInv, NEW r \in Runs, Lock(r)
    PROVE  RecordInv'
<1>1. /\ run[r] \in RunState /\ run \in [Runs -> RunState]
      /\ RecordOK(disk, writeMarker) /\ PlainOK
      /\ RunOK(run[r], disk, writeMarker)
  BY RunFacts
<1>2. /\ disk' = disk /\ writeMarker' = writeMarker /\ PlainOK'
      /\ RecordOK(disk', writeMarker')
  BY <1>1 DEF Lock, PlainOK
<1>3. /\ run[r].release \in Releases /\ ~run[r].ready
      /\ run[r].available => \A f \in Files : run[r].planned[f] \in Releases
  BY <1>1 DEF Lock, RunOK
<1>4. CASE End(r, "refused")
  <2>1. "refused" \in Ended
    BY DEF Ended
  <2> QED
    BY <1>2, <1>4, <2>1, EndStep
<1>5. CASE writeMarker = NoMarker /\ Step(r, "verify") /\ \A q \in Runs : ~Locked(q)
  <2>1. "verify" \in Stages
    BY DEF Stages
  <2>2. PICK x \in RunState :
          run' = [run EXCEPT ![r] = x] /\ x.pc = "verify" /\ SameRun(run[r], x)
    BY <1>5, <2>1, StageStep
  <2>3. StageOK(x, disk, writeMarker)
    BY <1>3, <1>5, <2>2
    DEF SameRun, StageOK, Restoring, Untouched, Snapshotted, Underway, Written,
        Migrating, OfCutover, FirstOfRelease, Recording
  <2>4. GoesOn(r, x)
    BY <1>2, <1>3, <2>2, <2>3 DEF GoesOn, RunOK, SameRun
  <2> QED
    BY <1>2, <1>5, <2>4, FreeStep
<1>6. CASE /\ writeMarker # NoMarker /\ BeginRestore(r, "restore")
           /\ \A q \in Runs : ~Locked(q)
  <2>1. "restore" \in Stages
    BY DEF Stages
  <2>2. PICK x \in RunState :
          /\ run' = [run EXCEPT ![r] = x] /\ x.pc = "restore" /\ SameRun(run[r], x)
          /\ x.n = IF writeMarker = "committed" THEN Len(FileOrder) + 1 ELSE 1
    BY <1>6, <2>1, RestoreBegins
  <2>3. CopiedTo(x.n, disk["current"], SourceOf(disk, writeMarker))
    BY <2>2, CopiedNone DEF SourceOf, CopiedTo
  <2>4. StageOK(x, disk, writeMarker)
    BY <1>3, <1>6, <2>2, <2>3
    DEF SameRun, StageOK, Restoring, Untouched, Unwritten, Snapshotted, Underway,
        Written, Migrating, OfCutover, FirstOfRelease, Recording
  <2>5. GoesOn(r, x)
    BY <1>2, <1>3, <2>2, <2>4 DEF GoesOn, RunOK, SameRun
  <2> QED
    BY <1>2, <1>6, <2>5, FreeStep
<1> QED
  BY <1>4, <1>5, <1>6 DEF Lock

-----------------------------------------------------------------------------
(* The run that holds the lock *)

LEMMA ModeFacts ==
    ASSUME NEW x \in RunState
    PROVE  /\ x.mode # "normal" <=> x.mode \in Cutovers
           /\ x.mode \in Cutovers => To[x.mode] \in Nat
           /\ x.ready \in BOOLEAN /\ x.started \in BOOLEAN /\ x.available \in BOOLEAN
           /\ x.n \in 1..(Len(FileOrder) + 1) /\ x.n \in Nat
<1>1. x.mode \in Modes /\ "normal" \notin Cutovers
  BY SlotFacts DEF RunState
<1>2. To \in [Cutovers -> Nat]
  BY ConstantsAssumption
<1> QED
  BY <1>1, <1>2, FileFacts DEF Modes, RunState

LEMMA HeldFacts ==
    ASSUME RecordInv, NEW r \in Runs, Locked(r)
    PROVE  /\ StageOK(run[r], disk, writeMarker) /\ run[r].release \in Releases
           /\ run[r].available => \A f \in Files : run[r].planned[f] \in Releases
BY DEF RecordInv, RunOK, Locked

LEMMA GoesOnStep ==
    ASSUME RecordInv, NEW r \in Runs, Locked(r), NEW x \in RunState,
           run' = [run EXCEPT ![r] = x], SameRun(run[r], x), x.pc \in Stages,
           StageOK(x, disk', writeMarker'), RecordOK(disk', writeMarker'), PlainOK'
    PROVE  RecordInv'
<1>1. /\ run[r].release \in Releases
      /\ run[r].available => \A f \in Files : run[r].planned[f] \in Releases
  BY HeldFacts
<1>2. x.pc # "planned"
  BY DEF Stages
<1>3. RunOK(x, disk', writeMarker')
  BY <1>1, <1>2 DEF RunOK, SameRun
<1> QED
  BY <1>3, HeldStep DEF GoesOn

\* The stages between the preflight checks and the snapshot.
Middle == {"confirm", "reconcile", "prepare", "stop", "mark stopped", "begin",
           "mark started", "migrate", "mark migrated", "up", "check"}

\* A step there leaves disk and write marker alone.
LEMMA MiddleStep ==
    ASSUME RecordInv, NEW r \in Runs, NEW x \in RunState,
           run' = [run EXCEPT ![r] = x], SameRun(run[r], x),
           run[r].pc \in Middle \cup {"preflight"}, x.pc \in Middle,
           x.pc \in OfCutover => x.mode # "normal",
           x.mode # "normal" => x.available,
           x.mode # "normal" /\ x.pc \in Migrating => x.started,
           disk' = disk, writeMarker' = writeMarker, PlainOK'
    PROVE  RecordInv'
<1>1. Locked(r) /\ x.pc \in Stages
  BY DEF Locked, Stages, Middle
<1>2. StageOK(run[r], disk, writeMarker) /\ RecordOK(disk, writeMarker)
  BY <1>1, HeldFacts, RunFacts
<1>3. Untouched(x, disk, writeMarker)
  BY <1>2 DEF StageOK, Untouched, Unwritten, Middle, SameRun
<1>4. Snapshotted(x, disk)
  BY <1>2 DEF StageOK, Snapshotted, Middle, SameRun, Recording
<1>5. Restoring(x, disk, writeMarker) /\ Written(x, disk, writeMarker)
  BY DEF Restoring, Written, Middle
<1>6. Underway(x)
  BY DEF Underway
<1> QED
  BY <1>1, <1>2, <1>3, <1>4, <1>5, <1>6, GoesOnStep DEF StageOK

\* One file more is copied to a slot.
LEMMA CopyOne ==
    ASSUME disk \in [Slots -> [Files -> Contents]], NEW r, NEW slot \in Slots,
           NEW from \in [Files -> Contents], run[r].n \in DOMAIN FileOrder,
           CopiedTo(run[r].n, disk[slot], from), disk' = CopiedNext(r, from, slot)
    PROVE  /\ disk' \in [Slots -> [Files -> Contents]]
           /\ CopiedTo(run[r].n + 1, disk'[slot], from)
           /\ \A s \in Slots : s # slot => disk'[s] = disk[s]
<1> DEFINE f == FileOrder[run[r].n]
           c == [disk[slot] EXCEPT ![f] = from[f]]
<1>1. disk[slot] \in [Files -> Contents]
  OBVIOUS
<1>2. c \in [Files -> Contents] /\ CopiedTo(run[r].n + 1, c, from)
  BY <1>1, CopiedMore
<1>3. disk' = [disk EXCEPT ![slot] = c]
  BY DEF CopiedNext
<1> HIDE DEF c
<1> QED
  BY <1>2, <1>3

LEMMA CopyStage ==
    ASSUME RecordInv, NEW r \in Runs, NEW from, NEW slot, CopyNext(r, from, slot)
    PROVE  \E x \in RunState :
             /\ run' = [run EXCEPT ![r] = x] /\ x.pc = run[r].pc /\ SameRun(run[r], x)
             /\ x.started = run[r].started /\ x.faults = run[r].faults
             /\ x.n = run[r].n + 1
<1> DEFINE n == run[r].n + 1
           x == [run[r] EXCEPT !.n = n]
<1>1. run[r] \in RunState /\ run \in [Runs -> RunState]
  BY RunFacts
<1>2. run' = [run EXCEPT ![r] = x]
  BY <1>1 DEF CopyNext
<1>3. n \in 1..(Len(FileOrder) + 1)
  BY FileFacts DEF CopyNext
<1>4. x \in RunState /\ x.pc = run[r].pc
  BY <1>1, <1>3 DEF RunState
<1>5. SameRun(run[r], x)
  BY <1>1 DEF RunState, SameRun
<1>6. x.started = run[r].started /\ x.faults = run[r].faults /\ x.n = n
  BY <1>1 DEF RunState
<1> HIDE DEF x
<1> QED
  BY <1>2, <1>4, <1>5, <1>6

\* What the record is restored from stands while the record is copied back.
LEMMA CopyBack ==
    ASSUME RecordOK(disk, writeMarker), NEW r, run[r].n \in DOMAIN FileOrder,
           writeMarker # NoMarker,
           writeMarker = "committed" => run[r].n = Len(FileOrder) + 1,
           CopiedTo(run[r].n, disk["current"], SourceOf(disk, writeMarker)),
           disk' = CopiedNext(r, Source(writeMarker), "current"),
           writeMarker' = writeMarker
    PROVE  /\ RecordOK(disk', writeMarker') /\ writeMarker # "committed"
           /\ CopiedTo(run[r].n + 1, disk'["current"], SourceOf(disk', writeMarker))
           /\ \A s \in Slots : s # "current" => disk'[s] = disk[s]
<1>1. writeMarker # "committed"
  BY FileFacts
<1>2. writeMarker = "none" \/ writeMarker \in {"previous"} \cup Cutovers
  BY <1>1 DEF RecordOK, WriteMarkers
<1>3. /\ Source(writeMarker) = SourceOf(disk, writeMarker)
      /\ SourceOf(disk, writeMarker) \in [Files -> Contents]
  BY <1>2, SlotFacts, ContentsFacts DEF Source, SourceOf, RecordOK
<1> DEFINE from == SourceOf(disk, writeMarker)
<1>4. disk' = CopiedNext(r, from, "current")
  BY <1>3
<1> HIDE DEF from
<1>5. /\ disk' \in [Slots -> [Files -> Contents]]
      /\ CopiedTo(run[r].n + 1, disk'["current"], from)
      /\ \A s \in Slots : s # "current" => disk'[s] = disk[s]
  <2>1. disk \in [Slots -> [Files -> Contents]]
    BY DEF RecordOK
  <2>2. "current" \in Slots
    BY SlotFacts
  <2>3. from \in [Files -> Contents] /\ CopiedTo(run[r].n, disk["current"], from)
    BY <1>3 DEF from
  <2> QED
    BY <1>4, <2>1, <2>2, <2>3, CopyOne
<1>6. SourceOf(disk', writeMarker) = from
  BY <1>2, <1>5, SlotFacts DEF SourceOf, from
<1>7. RecordOK(disk', writeMarker')
  BY <1>1, <1>2, <1>5, SlotFacts DEF RecordOK
<1> QED
  BY <1>1, <1>5, <1>6, <1>7

\* What is copied back is a whole record.
LEMMA RestoredIsWhole ==
    ASSUME RecordOK(disk, writeMarker), writeMarker # NoMarker,
           NEW n, n = Len(FileOrder) + 1,
           CopiedTo(n, disk["current"], SourceOf(disk, writeMarker))
    PROVE  RecordOK(disk, NoMarker)
<1>1. writeMarker \in {"none", "committed", "previous"} \cup Cutovers
  BY DEF RecordOK, WriteMarkers
<1>2. /\ SourceOf(disk, writeMarker) \in [Files -> Contents]
      /\ disk["current"] \in [Files -> Contents]
  BY <1>1, SlotFacts, ContentsFacts DEF SourceOf, RecordOK
<1>3. disk["current"] = SourceOf(disk, writeMarker)
  BY <1>2, CopiedAll
<1>4. \E release \in Releases \cup {Missing} : disk["current"] = Whole(release)
  <2>1. CASE writeMarker = "none"
    BY <1>3, <2>1, ContentsFacts DEF SourceOf
  <2>2. CASE writeMarker = "committed"
    BY <2>2 DEF RecordOK
  <2>3. CASE writeMarker \in {"previous"} \cup Cutovers
    BY <1>3, <2>3, SlotFacts DEF SourceOf, RecordOK, WholeRelease
  <2> QED
    BY <1>1, <2>1, <2>2, <2>3
<1> QED
  BY <1>4, SlotFacts DEF RecordOK, WriteMarkers, NoMarker

LEMMA RestoreStep ==
    ASSUME RecordInv, NEW r \in Runs, Restore(r)
    PROVE  RecordInv'
<1>1. run[r].pc = "restore" /\ Locked(r)
  BY DEF Restore, Locked, Stages
<1>2. StageOK(run[r], disk, writeMarker) /\ RecordOK(disk, writeMarker)
  BY <1>1, HeldFacts, RunFacts
<1>3. /\ writeMarker # NoMarker /\ run[r].ready = FALSE
      /\ CopiedTo(run[r].n, disk["current"], SourceOf(disk, writeMarker))
      /\ writeMarker = "committed" => run[r].n = Len(FileOrder) + 1
  BY <1>1, <1>2, RunFacts, ModeFacts DEF StageOK, Restoring
<1>4. PlainOK'
  BY RunFacts DEF PlainOK, Restore
<1>5. CASE CopyNext(r, Source(writeMarker), "current") /\ UNCHANGED writeMarker
  <2>1. /\ run[r].n \in DOMAIN FileOrder /\ writeMarker' = writeMarker
        /\ disk' = CopiedNext(r, Source(writeMarker), "current")
    BY <1>5 DEF CopyNext
  <2>2. /\ RecordOK(disk', writeMarker') /\ writeMarker # "committed"
        /\ CopiedTo(run[r].n + 1, disk'["current"], SourceOf(disk', writeMarker))
    BY <1>2, <1>3, <2>1, CopyBack
  <2>3. PICK x \in RunState :
          /\ run' = [run EXCEPT ![r] = x] /\ x.pc = "restore" /\ SameRun(run[r], x)
          /\ x.n = run[r].n + 1
    BY <1>1, <1>5, CopyStage
  <2>4. StageOK(x, disk', writeMarker')
    BY <1>3, <2>1, <2>2, <2>3
    DEF SameRun, StageOK, Restoring, Untouched, Unwritten, Snapshotted, Underway,
        Written, Migrating, OfCutover, FirstOfRelease, Recording
  <2> QED
    BY <1>1, <1>4, <2>2, <2>3, <2>4, GoesOnStep DEF Stages
<1>6. CASE /\ Copied(r) /\ writeMarker' = NoMarker /\ Step(r, "verify")
           /\ UNCHANGED disk
  <2>1. RecordOK(disk', writeMarker')
    BY <1>2, <1>3, <1>6, RestoredIsWhole DEF Copied
  <2>2. "verify" \in Stages
    BY DEF Stages
  <2>3. PICK x \in RunState :
          run' = [run EXCEPT ![r] = x] /\ x.pc = "verify" /\ SameRun(run[r], x)
    BY <1>6, <2>2, StageStep
  <2>4. StageOK(x, disk', writeMarker')
    BY <1>3, <1>6, <2>3
    DEF SameRun, StageOK, Restoring, Untouched, Unwritten, Snapshotted, Underway,
        Written, Migrating, OfCutover, FirstOfRelease, Recording
  <2> QED
    BY <1>1, <1>4, <2>1, <2>2, <2>3, <2>4, GoesOnStep
<1> QED
  BY <1>1, <1>5, <1>6 DEF Restore

LEMMA VerifyStep ==
    ASSUME RecordInv, NEW r \in Runs, Verify(r)
    PROVE  RecordInv'
<1>1. run[r].pc = "verify" /\ Locked(r) /\ "preflight" \in Stages
  BY DEF Verify, Locked, Stages
<1>2. /\ StageOK(run[r], disk, writeMarker) /\ RecordOK(disk, writeMarker)
      /\ run[r] \in RunState /\ run \in [Runs -> RunState]
  BY <1>1, HeldFacts, RunFacts
<1>3. writeMarker = NoMarker /\ run[r].ready = FALSE
  BY <1>1, <1>2, ModeFacts DEF StageOK, Untouched, Unwritten
<1>4. /\ PlainOK' /\ disk' = disk /\ writeMarker' = writeMarker
      /\ RecordOK(disk', writeMarker')
  BY <1>2, RunFacts DEF PlainOK, Verify
<1>5. CASE End(r, "refused")
  BY <1>4, <1>5, EndStep DEF Ended
<1>6. CASE /\ PlanHolds(r)
           /\ run' = [run EXCEPT ![r].pc = "preflight",
                                 ![r].fingerprint = Idle.fingerprint]
  <2>1. run[r].available => disk["current"] = run[r].planned
    BY <1>6 DEF PlanHolds
  <2> DEFINE x == [run[r] EXCEPT !.pc = "preflight",
                                 !.fingerprint = Idle.fingerprint]
  <2>2. run' = [run EXCEPT ![r] = x]
    BY <1>2, <1>6
  <2>3. x \in RunState /\ x.pc = "preflight"
    BY <1>1, <1>2, IdleRun DEF RunState
  <2>4. SameRun(run[r], x)
    BY <1>2 DEF RunState, SameRun
  <2> HIDE DEF x
  <2>5. StageOK(x, disk', writeMarker')
    BY <1>3, <1>4, <2>1, <2>3, <2>4
    DEF SameRun, StageOK, Restoring, Untouched, Unwritten, Snapshotted, Underway,
        Written, Migrating, OfCutover, FirstOfRelease, Recording
  <2> QED
    BY <1>1, <1>4, <2>2, <2>3, <2>4, <2>5, GoesOnStep
<1> QED
  BY <1>5, <1>6 DEF Verify

LEMMA PreflightStep ==
    ASSUME RecordInv, NEW r \in Runs, Preflight(r)
    PROVE  RecordInv'
<1>1. run[r].pc = "preflight" /\ Locked(r)
  BY DEF Preflight, Locked, Stages
<1>2. /\ RecordOK(disk, writeMarker)
      /\ run[r] \in RunState /\ run \in [Runs -> RunState]
  BY <1>1, RunFacts
<1>3. /\ PlainOK' /\ disk' = disk /\ writeMarker' = writeMarker
      /\ RecordOK(disk', writeMarker')
  BY <1>2, RunFacts DEF PlainOK, Preflight
<1>4. run[r].mode # "normal" <=> Bounded(r)
  BY <1>2, ModeFacts DEF Bounded
<1>5. CASE End(r, "refused")
  BY <1>1, <1>3, <1>5, EndStep DEF Ended
<1>6. CASE ~Bounded(r) /\ Step(r, "migrate")
  <2>1. "migrate" \in Stages
    BY DEF Stages
  <2>2. PICK x \in RunState :
          run' = [run EXCEPT ![r] = x] /\ x.pc = "migrate" /\ SameRun(run[r], x)
    BY <1>6, <2>1, StageStep
  <2>3. x.mode = "normal"
    BY <1>4, <1>6, <2>2 DEF SameRun
  <2> QED
    BY <1>1, <1>3, <2>2, <2>3, MiddleStep DEF Middle, OfCutover
<1>7. CASE Bounded(r) /\ CutoverGate(r) /\ AfterPreflight(r)
  <2>1. PICK started \in BOOLEAN, stage \in {"confirm", "reconcile", "stop", "prepare"} :
          run' = [run EXCEPT ![r].started = started, ![r].pc = stage]
    BY <1>7 DEF AfterPreflight
  <2> DEFINE x == [run[r] EXCEPT !.started = started, !.pc = stage]
  <2>2. run' = [run EXCEPT ![r] = x]
    BY <1>2, <2>1
  <2>3. stage \in Stages /\ stage \in Middle /\ stage \notin Migrating
    BY DEF Stages, Middle, Migrating, FirstOfRelease, Recording
  <2>4. x \in RunState /\ x.pc = stage
    BY <1>2, <2>3 DEF RunState
  <2>5. SameRun(run[r], x)
    BY <1>2 DEF RunState, SameRun
  <2> HIDE DEF x
  <2>6. x.available /\ x.mode # "normal"
    BY <1>4, <1>7, <2>5 DEF CutoverGate, SameRun
  <2> QED
    BY <1>1, <1>3, <2>2, <2>3, <2>4, <2>5, <2>6, MiddleStep
<1> QED
  BY <1>5, <1>6, <1>7 DEF Preflight, AfterPreflight

LEMMA UnmarkedFacts == Unmarked \in CutoverMarkers
BY DEF Unmarked, CutoverMarkers

LEMMA ConfirmStep ==
    ASSUME RecordInv, NEW r \in Runs, Confirm(r)
    PROVE  RecordInv'
<1>1. Locked(r)
  BY DEF Confirm, Locked, Stages
<1>2. RecordOK(disk, writeMarker) /\ PlainOK
  BY RunFacts
<1>3. disk' = disk /\ writeMarker' = writeMarker /\ RecordOK(disk', writeMarker')
  BY <1>2 DEF Confirm
<1>4. PlainOK'
  BY <1>2, UnmarkedFacts DEF PlainOK, Confirm
<1>5. End(r, "done") \/ End(r, "failed")
  BY DEF Confirm
<1> QED
  BY <1>1, <1>3, <1>4, <1>5, EndStep DEF Ended

\* The marker a cutover writes.
LEMMA MarkFacts ==
    ASSUME RecordInv, NEW r \in Runs, run[r].pc \in OfCutover,
           NEW phase \in {"prepared", "services-stopped", "migration-started",
                          "data-migrated"},
           Mark(r, phase)
    PROVE  cutoverMarker' \in CutoverMarkers
<1>1. Locked(r) /\ run[r] \in RunState
  BY RunFacts DEF Locked, OfCutover, Stages
<1>2. run[r].release \in Releases /\ run[r].mode # "normal"
  BY <1>1, HeldFacts DEF StageOK, Underway
<1>3. To[run[r].mode] \in Nat
  BY <1>1, <1>2, ModeFacts
<1> QED
  BY <1>2, <1>3 DEF Mark, CutoverMarkers

\* A step of a cutover that writes the cutover marker, or stops the services.
LEMMA CutoverStep ==
    ASSUME RecordInv, NEW r \in Runs, run[r].pc \in OfCutover,
           NEW stage \in Middle, Step(r, stage),
           stage \in Migrating => run[r].started,
           disk' = disk, writeMarker' = writeMarker, PlainOK'
    PROVE  RecordInv'
<1>1. Locked(r) /\ stage \in Stages
  BY DEF Locked, OfCutover, Middle, Stages
<1>2. run[r].mode # "normal" /\ run[r].available
  BY <1>1, HeldFacts DEF StageOK, Underway, OfCutover
<1>3. PICK x \in RunState :
        /\ run' = [run EXCEPT ![r] = x] /\ x.pc = stage /\ SameRun(run[r], x)
        /\ x.started = run[r].started
  BY <1>1, StageStep
<1>4. x.mode # "normal" /\ x.available
  BY <1>2, <1>3 DEF SameRun
<1>5. run[r].pc \in Middle \cup {"preflight"}
  BY DEF OfCutover, Middle
<1> QED
  BY <1>3, <1>4, <1>5, MiddleStep

LEMMA CutoverSteps ==
    ASSUME RecordInv, NEW r \in Runs,
           \/ Reconcile(r) \/ Prepare(r) \/ Stop(r) \/ MarkStopped(r)
           \/ MarkStarted(r) \/ MarkMigrated(r)
    PROVE  RecordInv'
<1>1. PlainOK /\ run[r] \in RunState
  BY RunFacts
<1>2. run[r].pc \in OfCutover /\ Locked(r)
  BY DEF Reconcile, Prepare, Stop, MarkStopped, MarkStarted, MarkMigrated,
         OfCutover, Locked, Stages
<1>3. run[r].pc \in Migrating => run[r].started
  BY <1>2, HeldFacts DEF StageOK, Underway
<1>4. /\ disk' = disk /\ writeMarker' = writeMarker /\ PlainOK'
      /\ \E stage \in Middle : /\ Step(r, stage)
                               /\ stage \in Migrating => run[r].started
  <2>1. CASE Reconcile(r)
    BY <1>1, <1>2, <2>1, MarkFacts
    DEF Reconcile, PlainOK, Middle, Migrating, FirstOfRelease, Recording
  <2>2. CASE Prepare(r)
    BY <1>1, <1>2, <2>2, MarkFacts
    DEF Prepare, PlainOK, Middle, Migrating, FirstOfRelease, Recording
  <2>3. CASE Stop(r)
    BY <1>1, <1>2, <2>3
    DEF Stop, PlainOK, Middle, Migrating, FirstOfRelease, Recording
  <2>4. CASE MarkStopped(r)
    BY <1>1, <1>2, <2>4, MarkFacts
    DEF MarkStopped, PlainOK, Middle, Migrating, FirstOfRelease, Recording
  <2>5. CASE MarkStarted(r)
    <3>1. run[r].started /\ "migrate" \in Middle
      BY <1>3, <2>5 DEF MarkStarted, Migrating, Middle
    <3> QED
      BY <1>1, <1>2, <2>5, <3>1, MarkFacts DEF MarkStarted, PlainOK
  <2>6. CASE MarkMigrated(r)
    <3>1. run[r].started /\ "up" \in Middle
      BY <1>3, <2>6 DEF MarkMigrated, Migrating, Middle
    <3> QED
      BY <1>1, <1>2, <2>6, <3>1, MarkFacts DEF MarkMigrated, PlainOK
  <2> QED
    BY <2>1, <2>2, <2>3, <2>4, <2>5, <2>6
<1> QED
  BY <1>2, <1>4, CutoverStep

LEMMA BeginStep ==
    ASSUME RecordInv, NEW r \in Runs, Begin(r)
    PROVE  RecordInv'
<1>1. run[r].pc = "begin" /\ Locked(r)
  BY DEF Begin, Locked, Stages
<1>2. /\ PlainOK /\ run[r] \in RunState /\ run \in [Runs -> RunState]
      /\ StageOK(run[r], disk, writeMarker)
  BY <1>1, HeldFacts, RunFacts
<1>3. disk' = disk /\ writeMarker' = writeMarker /\ PlainOK'
  BY <1>2 DEF Begin, PlainOK
<1> DEFINE x == [run[r] EXCEPT !.pc = "mark started", !.started = TRUE]
<1>4. run' = [run EXCEPT ![r] = x]
  BY <1>2 DEF Begin
<1>5. x \in RunState /\ x.pc = "mark started" /\ x.started = TRUE
  BY <1>2 DEF RunState, Stages
<1>6. SameRun(run[r], x)
  BY <1>2 DEF RunState, SameRun
<1> HIDE DEF x
<1>7. x.mode # "normal" /\ x.available
  BY <1>1, <1>2, <1>6 DEF SameRun, StageOK, Underway, OfCutover
<1> QED
  BY <1>1, <1>3, <1>4, <1>5, <1>6, <1>7, MiddleStep DEF Middle

LEMMA MigrateStep ==
    ASSUME RecordInv, NEW r \in Runs, Migrate(r)
    PROVE  RecordInv'
<1>1. run[r].pc = "migrate" /\ Locked(r)
  BY DEF Migrate, Locked, Stages
<1>2. /\ PlainOK /\ run[r] \in RunState /\ StageOK(run[r], disk, writeMarker)
  BY <1>1, HeldFacts, RunFacts
<1>3. disk' = disk /\ writeMarker' = writeMarker /\ PlainOK'
  <2>1. db' = db + 1 \/ db' = db
    BY DEF Migrate
  <2>2. /\ disk' = disk /\ writeMarker' = writeMarker
        /\ cutoverMarker' = cutoverMarker /\ serving' = serving
    BY DEF Migrate
  <2> QED
    BY <1>2, <2>1, <2>2 DEF PlainOK
<1>4. CASE UNCHANGED run
  BY <1>3, <1>4 DEF RecordInv, OneHolds, Locked
<1>5. CASE Step(r, IF Bounded(r) THEN "mark migrated" ELSE "up")
  <2> DEFINE stage == IF Bounded(r) THEN "mark migrated" ELSE "up"
  <2>1. stage \in Stages /\ stage \in Middle /\ (stage \in OfCutover => Bounded(r))
    BY DEF Stages, Middle, OfCutover
  <2>5. Step(r, stage)
    BY <1>5
  <2> HIDE DEF stage
  <2>2. PICK x \in RunState :
          /\ run' = [run EXCEPT ![r] = x] /\ x.pc = stage /\ SameRun(run[r], x)
          /\ x.started = run[r].started
    BY <2>1, <2>5, StageStep
  <2>3. x.mode # "normal" <=> Bounded(r)
    BY <1>2, <2>2, ModeFacts DEF SameRun, Bounded
  <2>4. x.mode # "normal" => x.available /\ x.started
    BY <1>1, <1>2, <2>2 DEF SameRun, StageOK, Underway, Migrating
  <2> QED
    BY <1>1, <1>3, <2>1, <2>2, <2>3, <2>4, MiddleStep DEF Middle
<1> QED
  BY <1>4, <1>5 DEF Migrate

-----------------------------------------------------------------------------
(* The candidate starts, and its release is recorded *)

\* A run that failed, or has to, and goes back to the old release or halts.
LEMMA FallBack ==
    ASSUME RecordInv, NEW r \in Runs, Locked(r), NEW x \in RunState,
           run' = [run EXCEPT ![r] = x], SameRun(run[r], x),
           x.pc \in {"halt", "rollback"},
           writeMarker' = writeMarker, RecordOK(disk', writeMarker'), PlainOK',
           x.ready => WholeRelease(disk'["previous"]),
           x.mode # "normal" => x.available,
           x.pc = "rollback" =>
             /\ ~x.ready /\ x.available => disk'["current"] = x.planned
             /\ writeMarker' # NoMarker => x.faults >= 1
    PROVE  RecordInv'
<1>1. StageOK(run[r], disk, writeMarker) /\ x.pc \in Stages
  BY HeldFacts DEF Stages
<1>2. StageOK(x, disk', writeMarker')
  BY <1>1 DEF SameRun, StageOK, Restoring, Untouched, Unwritten, Snapshotted,
     Underway, Written, Migrating, OfCutover, FirstOfRelease, Recording
<1> QED
  BY <1>1, <1>2, GoesOnStep

LEMMA UpStep ==
    ASSUME RecordInv, NEW r \in Runs, Up(r)
    PROVE  RecordInv'
<1>1. run[r].pc = "up" /\ Locked(r)
  BY DEF Up, Locked, Stages
<1>2. /\ PlainOK /\ run[r] \in RunState /\ StageOK(run[r], disk, writeMarker)
      /\ RecordOK(disk, writeMarker) /\ run[r].release \in Releases
  BY <1>1, HeldFacts, RunFacts
<1>3. /\ disk' = disk /\ writeMarker' = writeMarker /\ PlainOK'
      /\ RecordOK(disk', writeMarker')
  BY <1>2 DEF Up, PlainOK
<1>4. run[r].mode # "normal" <=> Bounded(r)
  BY <1>2, ModeFacts DEF Bounded
<1>5. run[r].mode # "normal" => run[r].available /\ run[r].started
  BY <1>1, <1>2 DEF StageOK, Underway, Migrating, FirstOfRelease
<1>6. /\ writeMarker = NoMarker /\ ~run[r].ready
      /\ run[r].available => disk["current"] = run[r].planned
  BY <1>1, <1>2 DEF StageOK, Untouched, Unwritten
<1>7. CASE Step(r, "check")
  <2>1. "check" \in Stages /\ "check" \in Middle /\ "check" \notin OfCutover
    BY DEF Stages, Middle, OfCutover
  <2>2. PICK x \in RunState :
          /\ run' = [run EXCEPT ![r] = x] /\ x.pc = "check" /\ SameRun(run[r], x)
          /\ x.started = run[r].started
    BY <1>7, <2>1, StageStep
  <2>3. x.mode # "normal" => x.available /\ x.started
    BY <1>5, <2>2 DEF SameRun
  <2> QED
    BY <1>1, <1>3, <2>1, <2>2, <2>3, MiddleStep DEF Middle
<1>8. CASE Exit(r)
  <2>1. PICK stage \in {"halt", "rollback"} : Step(r, stage)
    BY <1>1, <1>4, <1>5, <1>8 DEF Exit, OnExit, FirstOfRelease
  <2>2. stage \in Stages
    BY DEF Stages
  <2>3. PICK x \in RunState :
          run' = [run EXCEPT ![r] = x] /\ x.pc = stage /\ SameRun(run[r], x)
    BY <2>1, <2>2, StageStep
  <2>4. /\ ~x.ready /\ (x.mode # "normal" => x.available)
        /\ x.available => disk'["current"] = x.planned
    BY <1>3, <1>5, <1>6, <2>3 DEF SameRun
  <2> QED
    BY <1>1, <1>3, <1>6, <2>3, <2>4, FallBack
<1> QED
  BY <1>7, <1>8 DEF Up

LEMMA CheckStep ==
    ASSUME RecordInv, NEW r \in Runs, Check(r)
    PROVE  RecordInv'
<1>1. run[r].pc = "check" /\ Locked(r)
  BY DEF Check, Locked, Stages
<1>2. /\ PlainOK /\ run[r] \in RunState /\ run \in [Runs -> RunState]
      /\ StageOK(run[r], disk, writeMarker) /\ RecordOK(disk, writeMarker)
  BY <1>1, HeldFacts, RunFacts
<1>3. /\ disk' = disk /\ writeMarker' = writeMarker /\ PlainOK'
      /\ RecordOK(disk', writeMarker')
  BY <1>2 DEF Check, PlainOK
<1>4. /\ writeMarker = NoMarker /\ ~run[r].ready
      /\ run[r].available => disk["current"] = run[r].planned
  BY <1>1, <1>2 DEF StageOK, Untouched, Unwritten
<1>5. run[r].mode # "normal" => run[r].available /\ run[r].started
  BY <1>1, <1>2 DEF StageOK, Underway, Migrating, FirstOfRelease
<1>6. PICK stage \in {"snapshot", "forget"} :
        /\ run' = [run EXCEPT ![r].n = 1, ![r].pc = stage]
        /\ stage = "snapshot" <=> run[r].available
  BY DEF Check
<1> DEFINE x == [run[r] EXCEPT !.n = 1, !.pc = stage]
<1>7. run' = [run EXCEPT ![r] = x]
  BY <1>2, <1>6
<1>8. x \in RunState /\ x.pc = stage /\ x.n = 1 /\ stage \in Stages
  <2>1. stage \in Stages
    BY DEF Stages
  <2>2. 1 \in 1..(Len(FileOrder) + 1)
    BY FileFacts
  <2>3. x.pc = stage /\ x.n = 1
    BY <1>2 DEF RunState
  <2>4. x \in RunState
    BY <1>2, <2>1, <2>2 DEF RunState
  <2> QED
    BY <2>1, <2>3, <2>4
<1>9. SameRun(run[r], x) /\ x.started = run[r].started
  BY <1>2 DEF RunState, SameRun
<1> HIDE DEF x
<1>10. \A slot \in Slots : CopiedTo(x.n, disk[slot], disk["current"])
  BY <1>8, CopiedNone
<1>11. (IF x.mode \in Cutovers THEN x.mode ELSE "previous") \in Slots
  BY SlotFacts
<1>12. Snapshotted(x, disk)
  <2>1. ~x.ready /\ (stage = "snapshot" <=> x.available)
    BY <1>4, <1>6, <1>9 DEF SameRun
  <2>2. x.mode # "normal" => x.available
    BY <1>5, <1>9 DEF SameRun
  <2> QED
    BY <1>8, <1>10, <1>11, <2>1, <2>2 DEF Snapshotted
<1>13. Untouched(x, disk, writeMarker)
  BY <1>4, <1>8, <1>9 DEF Untouched, SameRun
<1>14. Underway(x)
  BY <1>5, <1>8, <1>9 DEF Underway, SameRun, OfCutover
<1>15. Restoring(x, disk, writeMarker) /\ Written(x, disk, writeMarker)
  BY <1>8 DEF Restoring, Written
<1> QED
  BY <1>1, <1>3, <1>7, <1>8, <1>9, <1>12, <1>13, <1>14, <1>15, GoesOnStep
  DEF StageOK

\* The record a run was planned on is a whole release.
LEMMA PlannedIsWhole ==
    ASSUME RecordOK(disk, NoMarker), NEW x \in RunState, x.available,
           disk["current"] = x.planned,
           \A f \in Files : x.planned[f] \in Releases
    PROVE  WholeRelease(disk["current"])
<1>1. PICK release \in Releases \cup {Missing} : disk["current"] = Whole(release)
  BY DEF RecordOK
<1>2. disk["current"]["images"] = release
  BY <1>1, FileFacts, WholeFacts
<1>3. release \in Releases
  BY <1>2, FileFacts
<1> QED
  BY <1>1, <1>3 DEF WholeRelease

LEMMA SnapshotStep ==
    ASSUME RecordInv, NEW r \in Runs, Snapshot(r)
    PROVE  RecordInv'
<1>1. run[r].pc = "snapshot" /\ Locked(r)
  BY DEF Snapshot, Locked, Stages
<1>2. /\ PlainOK /\ run[r] \in RunState /\ run \in [Runs -> RunState]
      /\ StageOK(run[r], disk, writeMarker) /\ RecordOK(disk, writeMarker)
      /\ run[r].available => \A f \in Files : run[r].planned[f] \in Releases
  BY <1>1, HeldFacts, RunFacts
<1>3. writeMarker' = writeMarker /\ PlainOK'
  BY <1>2 DEF Snapshot, PlainOK
<1>4. /\ writeMarker = NoMarker /\ ~run[r].ready /\ run[r].available
      /\ disk["current"] = run[r].planned
      /\ CopiedTo(run[r].n, disk[SnapshotSlot(r)], disk["current"])
  BY <1>1, <1>2 DEF StageOK, Untouched, Unwritten, Snapshotted, SnapshotSlot, Bounded
<1>5. run[r].mode # "normal" => run[r].started
  BY <1>1, <1>2 DEF StageOK, Underway, Migrating, Recording
<1>6. /\ SnapshotSlot(r) \in Slots \ {"current"} /\ "current" \in Slots
      /\ disk["current"] \in [Files -> Contents]
      /\ disk \in [Slots -> [Files -> Contents]]
  BY <1>2, SlotFacts DEF SnapshotSlot, Bounded, RecordOK
<1>7. run[r].mode # "normal" <=> Bounded(r)
  BY <1>2, ModeFacts DEF Bounded
<1>8. CASE CopyNext(r, disk["current"], SnapshotSlot(r))
  <2>1. /\ run[r].n \in DOMAIN FileOrder
        /\ disk' = CopiedNext(r, disk["current"], SnapshotSlot(r))
    BY <1>8 DEF CopyNext
  <2>2. /\ disk' \in [Slots -> [Files -> Contents]]
        /\ CopiedTo(run[r].n + 1, disk'[SnapshotSlot(r)], disk["current"])
        /\ \A s \in Slots : s # SnapshotSlot(r) => disk'[s] = disk[s]
    BY <1>4, <1>6, <2>1, CopyOne
  <2>3. disk'["current"] = disk["current"]
    BY <1>6, <2>2
  <2>4. RecordOK(disk', writeMarker')
    BY <1>2, <1>3, <1>4, <2>2, <2>3, SlotFacts DEF RecordOK, NoMarker
  <2>5. PICK x \in RunState :
          /\ run' = [run EXCEPT ![r] = x] /\ x.pc = "snapshot" /\ SameRun(run[r], x)
          /\ x.started = run[r].started /\ x.n = run[r].n + 1
    BY <1>1, <1>8, CopyStage
  <2>6. Snapshotted(x, disk')
    BY <1>4, <2>2, <2>3, <2>5 DEF Snapshotted, SameRun, SnapshotSlot, Bounded
  <2>7. Untouched(x, disk', writeMarker')
    BY <1>3, <1>4, <2>3, <2>5 DEF Untouched, SameRun
  <2>8. Underway(x)
    BY <1>4, <1>5, <2>5 DEF Underway, SameRun, OfCutover
  <2>9. Restoring(x, disk', writeMarker') /\ Written(x, disk', writeMarker')
    BY <2>5 DEF Restoring, Written
  <2>10. x.pc \in Stages
    BY <2>5 DEF Stages
  <2> QED
    BY <1>1, <1>3, <2>4, <2>5, <2>6, <2>7, <2>8, <2>9, <2>10, GoesOnStep DEF StageOK
<1>9. CASE /\ Copied(r) /\ UNCHANGED disk
           /\ run' = [run EXCEPT ![r].ready = ~Bounded(r),
                        ![r].pc = IF Bounded(r) THEN "forget" ELSE "mark"]
  <2>1. disk[SnapshotSlot(r)] = disk["current"]
    BY <1>4, <1>6, <1>9, CopiedAll DEF Copied
  <2>2. WholeRelease(disk[SnapshotSlot(r)])
    BY <1>2, <1>4, <2>1, PlannedIsWhole
  <2>3. PICK ready \in BOOLEAN, stage \in {"forget", "mark"} :
          /\ run' = [run EXCEPT ![r].ready = ready, ![r].pc = stage]
          /\ Bounded(r) => ready = FALSE /\ stage = "forget"
          /\ ~Bounded(r) => ready = TRUE /\ stage = "mark"
    <3>1. CASE Bounded(r)
      BY <1>9, <3>1
    <3>2. CASE ~Bounded(r)
      BY <1>9, <3>2
    <3> QED
      BY <3>1, <3>2
  <2> DEFINE x == [run[r] EXCEPT !.ready = ready, !.pc = stage]
  <2>4. run' = [run EXCEPT ![r] = x]
    BY <1>2, <2>3
  <2>5. x \in RunState /\ x.pc = stage /\ x.ready = ready
    BY <1>2 DEF RunState, Stages
  <2>6. /\ x.mode = run[r].mode /\ x.release = run[r].release
        /\ x.available = run[r].available /\ x.planned = run[r].planned
        /\ x.started = run[r].started
    BY <1>2 DEF RunState
  <2> HIDE DEF x
  <2>7. x.pc \in Stages /\ x.pc # "planned" /\ x.release \in Releases
    BY <1>1, <2>5, <2>6, HeldFacts DEF Stages
  <2>8. Snapshotted(x, disk)
    <3>1. CASE Bounded(r)
      BY <2>2, <2>3, <2>5, <2>6, <1>7, <3>1
      DEF Snapshotted, SnapshotSlot, Bounded
    <3>2. CASE ~Bounded(r)
      BY <2>2, <2>3, <2>5, <2>6, <1>7, <3>2 DEF Snapshotted, SnapshotSlot
    <3> QED
      BY <3>1, <3>2
  <2>9. Untouched(x, disk, writeMarker)
    BY <1>4, <2>3, <2>5, <2>6 DEF Untouched
  <2>10. Underway(x)
    BY <1>4, <1>5, <2>5, <2>6 DEF Underway, OfCutover
  <2>11. Restoring(x, disk, writeMarker) /\ Written(x, disk, writeMarker)
    BY <2>5 DEF Restoring, Written
  <2>12. RunOK(x, disk, writeMarker)
    BY <1>2, <1>4, <2>5, <2>6, <2>7, <2>8, <2>9, <2>10, <2>11 DEF RunOK, StageOK
  <2> QED
    BY <1>1, <1>2, <1>3, <1>9, <2>4, <2>12, HeldStep DEF GoesOn
<1> QED
  BY <1>8, <1>9 DEF Snapshot

LEMMA ForgetStep ==
    ASSUME RecordInv, NEW r \in Runs, Forget(r)
    PROVE  RecordInv'
<1>1. run[r].pc = "forget" /\ Locked(r)
  BY DEF Forget, Locked, Stages
<1>2. /\ PlainOK /\ run[r] \in RunState
      /\ StageOK(run[r], disk, writeMarker) /\ RecordOK(disk, writeMarker)
  BY <1>1, HeldFacts, RunFacts
<1>3. writeMarker' = writeMarker /\ PlainOK'
  BY <1>2 DEF Forget, PlainOK
<1>4. /\ writeMarker = NoMarker /\ ~run[r].ready
      /\ run[r].available => disk["current"] = run[r].planned
      /\ run[r].mode # "normal" => /\ WholeRelease(disk[run[r].mode])
                                   /\ run[r].available /\ run[r].started
      /\ run[r].mode = "normal" => ~run[r].available
  BY <1>1, <1>2 DEF StageOK, Untouched, Unwritten, Snapshotted, Underway, Migrating,
     Recording
<1>5. run[r].mode # "normal" <=> Bounded(r)
  BY <1>2, ModeFacts DEF Bounded
<1>6. /\ disk' \in [Slots -> [Files -> Contents]]
      /\ disk'["current"] = disk["current"]
      /\ Bounded(r) => disk'[run[r].mode] = disk[run[r].mode]
  <2>1. "current" \notin Forgotten(r)
    BY SlotFacts, ConstantsAssumption DEF Forgotten
  <2>2. Bounded(r) => run[r].mode \in Slots /\ run[r].mode \notin Forgotten(r)
    BY SlotFacts DEF Bounded, Forgotten
  <2>3. disk' = [s \in Slots |-> IF s \in Forgotten(r) THEN Absent ELSE disk[s]]
    BY DEF Forget
  <2>4. disk \in [Slots -> [Files -> Contents]] /\ Absent \in [Files -> Contents]
    BY <1>2, ContentsFacts DEF RecordOK
  <2> QED
    BY <2>1, <2>2, <2>3, <2>4, SlotFacts
<1>7. RecordOK(disk', writeMarker')
  BY <1>2, <1>3, <1>4, <1>6, SlotFacts DEF RecordOK, NoMarker
<1>8. "mark" \in Stages /\ Step(r, "mark")
  BY DEF Stages, Forget
<1>9. PICK x \in RunState :
        /\ run' = [run EXCEPT ![r] = x] /\ x.pc = "mark" /\ SameRun(run[r], x)
        /\ x.started = run[r].started
  BY <1>8, StageStep
<1>10. Snapshotted(x, disk')
  BY <1>4, <1>5, <1>6, <1>9 DEF Snapshotted, SameRun
<1>11. Untouched(x, disk', writeMarker')
  BY <1>3, <1>4, <1>6, <1>9 DEF Untouched, SameRun
<1>12. Underway(x)
  BY <1>4, <1>9 DEF Underway, OfCutover, SameRun
<1>13. Restoring(x, disk', writeMarker') /\ Written(x, disk', writeMarker')
  BY <1>9 DEF Restoring, Written
<1> QED
  BY <1>1, <1>3, <1>7, <1>8, <1>9, <1>10, <1>11, <1>12, <1>13, GoesOnStep DEF StageOK

LEMMA MarkWriteStep ==
    ASSUME RecordInv, NEW r \in Runs, MarkWrite(r)
    PROVE  RecordInv'
<1>1. run[r].pc = "mark" /\ Locked(r)
  BY DEF MarkWrite, Locked, Stages
<1>2. /\ PlainOK /\ run[r] \in RunState /\ run \in [Runs -> RunState]
      /\ StageOK(run[r], disk, writeMarker) /\ RecordOK(disk, writeMarker)
  BY <1>1, HeldFacts, RunFacts
<1>3. disk' = disk /\ PlainOK'
  BY <1>2 DEF MarkWrite, PlainOK
<1>4. /\ run[r].ready => WholeRelease(disk["previous"]) /\ run[r].mode = "normal"
      /\ run[r].mode # "normal" => /\ WholeRelease(disk[run[r].mode])
                                   /\ run[r].available /\ run[r].started
      /\ run[r].mode = "normal" /\ run[r].available => run[r].ready
  BY <1>1, <1>2 DEF StageOK, Snapshotted, Underway, Migrating, Recording
<1>5. run[r].mode # "normal" <=> Bounded(r)
  BY <1>2, ModeFacts DEF Bounded
<1>6. /\ writeMarker' \in WriteMarkers \ {NoMarker, "committed"}
      /\ writeMarker' \in {"previous"} \cup Cutovers =>
           WholeRelease(disk[writeMarker'])
  BY <1>4, <1>5, SlotFacts DEF MarkWrite, WriteMarkers, NoMarker, Bounded
<1>7. RecordOK(disk', writeMarker')
  BY <1>2, <1>3, <1>6 DEF RecordOK
<1> DEFINE x == [run[r] EXCEPT !.pc = "install", !.n = 1]
<1>8. run' = [run EXCEPT ![r] = x]
  BY <1>2 DEF MarkWrite
<1>9. x \in RunState /\ x.pc = "install" /\ x.n = 1 /\ "install" \in Stages
  <2>1. "install" \in Stages /\ 1 \in 1..(Len(FileOrder) + 1)
    BY FileFacts DEF Stages
  <2> QED
    BY <1>2, <2>1 DEF RunState
<1>10. SameRun(run[r], x) /\ x.started = run[r].started
  BY <1>2 DEF RunState, SameRun
<1> HIDE DEF x
<1>11. Snapshotted(x, disk')
  BY <1>3, <1>4, <1>9, <1>10 DEF Snapshotted, SameRun
<1>12. Underway(x)
  BY <1>4, <1>9, <1>10 DEF Underway, OfCutover, SameRun
<1>13. Written(x, disk', writeMarker')
  BY <1>6, <1>9, CopiedNone DEF Written
<1>14. Restoring(x, disk', writeMarker') /\ Untouched(x, disk', writeMarker')
  BY <1>9 DEF Restoring, Untouched, Unwritten
<1> QED
  BY <1>1, <1>3, <1>7, <1>8, <1>9, <1>10, <1>11, <1>12, <1>13, <1>14, GoesOnStep
  DEF StageOK

LEMMA InstallStep ==
    ASSUME RecordInv, NEW r \in Runs, Install(r)
    PROVE  RecordInv'
<1>1. run[r].pc = "install" /\ Locked(r)
  BY DEF Install, Locked, Stages
<1>2. /\ PlainOK /\ run[r] \in RunState /\ run[r].release \in Releases
      /\ StageOK(run[r], disk, writeMarker) /\ RecordOK(disk, writeMarker)
  BY <1>1, HeldFacts, RunFacts
<1>3. writeMarker' = writeMarker /\ PlainOK'
  BY <1>2 DEF Install, PlainOK
<1>4. /\ writeMarker \notin {NoMarker, "committed"}
      /\ CopiedTo(run[r].n, disk["current"], Whole(run[r].release))
      /\ run[r].ready => WholeRelease(disk["previous"]) /\ run[r].mode = "normal"
      /\ run[r].mode # "normal" => run[r].available /\ run[r].started
      /\ run[r].mode = "normal" /\ run[r].available => run[r].ready
  BY <1>1, <1>2 DEF StageOK, Snapshotted, Underway, Written, Migrating, Recording
<1>5. /\ Whole(run[r].release) \in [Files -> Contents]
      /\ disk \in [Slots -> [Files -> Contents]] /\ "current" \in Slots
  BY <1>2, WholeFacts, ContentsFacts, SlotFacts DEF RecordOK
<1>6. CASE CopyNext(r, Whole(run[r].release), "current")
  <2>1. /\ run[r].n \in DOMAIN FileOrder
        /\ disk' = CopiedNext(r, Whole(run[r].release), "current")
    BY <1>6 DEF CopyNext
  <2>2. /\ disk' \in [Slots -> [Files -> Contents]]
        /\ CopiedTo(run[r].n + 1, disk'["current"], Whole(run[r].release))
        /\ \A s \in Slots : s # "current" => disk'[s] = disk[s]
    BY <1>4, <1>5, <2>1, CopyOne
  <2>3. RecordOK(disk', writeMarker')
    BY <1>2, <1>3, <1>4, <2>2, SlotFacts DEF RecordOK
  <2>4. PICK x \in RunState :
          /\ run' = [run EXCEPT ![r] = x] /\ x.pc = "install" /\ SameRun(run[r], x)
          /\ x.started = run[r].started /\ x.n = run[r].n + 1
    BY <1>1, <1>6, CopyStage
  <2>5. Snapshotted(x, disk')
    BY <1>4, <2>2, <2>4, SlotFacts DEF Snapshotted, SameRun
  <2>6. Underway(x)
    BY <1>4, <2>4 DEF Underway, OfCutover, SameRun
  <2>7. Written(x, disk', writeMarker')
    BY <1>3, <1>4, <2>2, <2>4 DEF Written, SameRun
  <2>8. Restoring(x, disk', writeMarker') /\ Untouched(x, disk', writeMarker')
    BY <2>4 DEF Restoring, Untouched, Unwritten
  <2> QED
    BY <1>1, <1>3, <2>3, <2>4, <2>5, <2>6, <2>7, <2>8, GoesOnStep DEF StageOK, Stages
<1>7. CASE Copied(r) /\ Step(r, "commit") /\ UNCHANGED disk
  <2>1. disk["current"] = Whole(run[r].release)
    BY <1>4, <1>5, <1>7, CopiedAll DEF Copied
  <2>2. "commit" \in Stages /\ RecordOK(disk', writeMarker')
    BY <1>2, <1>3, <1>7 DEF Stages
  <2>3. PICK x \in RunState :
          /\ run' = [run EXCEPT ![r] = x] /\ x.pc = "commit" /\ SameRun(run[r], x)
          /\ x.started = run[r].started
    BY <1>7, <2>2, StageStep
  <2>4. Snapshotted(x, disk')
    BY <1>4, <1>7, <2>3, SlotFacts DEF Snapshotted, SameRun
  <2>5. Underway(x)
    BY <1>4, <2>3 DEF Underway, OfCutover, SameRun
  <2>6. Written(x, disk', writeMarker')
    BY <1>7, <2>1, <2>3 DEF Written, SameRun
  <2>7. Restoring(x, disk', writeMarker') /\ Untouched(x, disk', writeMarker')
    BY <2>3 DEF Restoring, Untouched, Unwritten
  <2> QED
    BY <1>1, <1>3, <2>2, <2>3, <2>4, <2>5, <2>6, <2>7, GoesOnStep DEF StageOK
<1> QED
  BY <1>6, <1>7 DEF Install

\* The steps that close the recording, each a marker or nothing.
LEMMA ClosingSteps ==
    ASSUME RecordInv, NEW r \in Runs, Commit(r) \/ Clear(r) \/ Unblock(r)
    PROVE  RecordInv'
<1>1. run[r].pc \in {"commit", "clear", "unblock"} /\ Locked(r)
  BY DEF Commit, Clear, Unblock, Locked, Stages
<1>2. /\ PlainOK /\ run[r] \in RunState /\ run[r].release \in Releases
      /\ StageOK(run[r], disk, writeMarker) /\ RecordOK(disk, writeMarker)
  BY <1>1, HeldFacts, RunFacts
<1>3. disk' = disk /\ PlainOK'
  BY <1>2, UnmarkedFacts DEF Commit, Clear, Unblock, PlainOK
<1>4. RecordOK(disk', writeMarker')
  <2>1. CASE Commit(r)
    BY <1>2, <1>3, <2>1, SlotFacts
    DEF Commit, StageOK, Written, RecordOK, WriteMarkers, NoMarker
  <2>2. CASE Clear(r)
    BY <1>2, <1>3, <2>2, SlotFacts
    DEF Clear, StageOK, Written, RecordOK, WriteMarkers, NoMarker
  <2>3. CASE Unblock(r)
    BY <1>2, <1>3, <2>3 DEF Unblock
  <2> QED
    BY <2>1, <2>2, <2>3
<1>5. /\ run[r].ready => WholeRelease(disk["previous"]) /\ run[r].mode = "normal"
      /\ run[r].mode # "normal" => run[r].available /\ run[r].started
      /\ run[r].mode = "normal" /\ run[r].available => run[r].ready
  BY <1>1, <1>2 DEF StageOK, Snapshotted, Underway, Migrating, Recording
<1>6. PICK stage \in {"clear", "unblock", "settle"} :
        Step(r, stage) /\ (stage = "clear" => writeMarker' = "committed")
  BY DEF Commit, Clear, Unblock
<1>7. stage \in Stages
  BY DEF Stages
<1>8. PICK x \in RunState :
        /\ run' = [run EXCEPT ![r] = x] /\ x.pc = stage /\ SameRun(run[r], x)
        /\ x.started = run[r].started
  BY <1>6, <1>7, StageStep
<1>9. Snapshotted(x, disk')
  BY <1>3, <1>5, <1>8 DEF Snapshotted, SameRun
<1>10. Underway(x)
  BY <1>5, <1>8 DEF Underway, OfCutover, SameRun
<1>11. /\ Written(x, disk', writeMarker') /\ Restoring(x, disk', writeMarker')
       /\ Untouched(x, disk', writeMarker')
  BY <1>6, <1>8 DEF Written, Restoring, Untouched, Unwritten
<1> QED
  BY <1>1, <1>3, <1>4, <1>7, <1>8, <1>9, <1>10, <1>11, GoesOnStep DEF StageOK

LEMMA SettleStep ==
    ASSUME RecordInv, NEW r \in Runs, Settle(r)
    PROVE  RecordInv'
<1>1. PlainOK' /\ RecordOK(disk', writeMarker') /\ disk' = disk
      /\ writeMarker' = writeMarker /\ End(r, "done")
  BY RunFacts DEF Settle, PlainOK
<1> QED
  BY <1>1, EndStep DEF Ended

-----------------------------------------------------------------------------
(* Failure *)

\* What a torn copy leaves alone: a file is torn only in a record that the
\* write marker does not take for whole.
LEMMA TornFacts ==
    ASSUME RecordInv, NEW r \in Runs, Locked(r), disk' \in TornCopies(r),
           writeMarker' = writeMarker
    PROVE  /\ RecordOK(disk', writeMarker')
           /\ run[r].pc \in {"restore", "install", "snapshot", "unwind"}
           /\ run[r].ready => disk'["previous"] = disk["previous"]
           /\ run[r].pc = "snapshot" => disk'["current"] = disk["current"]
<1>1. /\ StageOK(run[r], disk, writeMarker) /\ RecordOK(disk, writeMarker)
      /\ run[r] \in RunState
  BY HeldFacts, RunFacts
<1>2. PICK s \in Writing(r) :
        /\ disk' = [disk EXCEPT ![s][FileOrder[run[r].n]] = Torn]
        /\ run[r].n \in DOMAIN FileOrder
  BY DEF TornCopies
<1>3. /\ run[r].pc \in {"restore", "install", "snapshot", "unwind"}
      /\ run[r].pc \in {"restore", "unwind"} => writeMarker # "none" /\ s = "current"
      /\ run[r].pc = "install" => s = "current"
      /\ run[r].pc = "snapshot" => s = SnapshotSlot(r)
  BY <1>2 DEF Writing
<1>4. SnapshotSlot(r) \in Slots /\ SnapshotSlot(r) # "current" /\ "current" \in Slots
  BY <1>1, SlotFacts DEF SnapshotSlot, Bounded
<1>5. s \in Slots /\ (s = "current" <=> run[r].pc # "snapshot")
  BY <1>3, <1>4
<1>6. /\ disk' \in [Slots -> [Files -> Contents]]
      /\ \A t \in Slots : t # s => disk'[t] = disk[t]
  <2> DEFINE c == [disk[s] EXCEPT ![FileOrder[run[r].n]] = Torn]
  <2>1. c \in [Files -> Contents]
    BY <1>1, <1>5, ContentsFacts DEF RecordOK
  <2>2. disk' = [disk EXCEPT ![s] = c]
    BY <1>2
  <2> HIDE DEF c
  <2> QED
    BY <1>1, <1>5, <2>1, <2>2 DEF RecordOK
<1>7. run[r].pc # "snapshot" => writeMarker \notin {NoMarker, "committed"}
  BY <1>1, <1>2, <1>3, FileFacts DEF StageOK, Restoring, Written
<1>8. run[r].pc = "snapshot" => writeMarker = NoMarker /\ ~run[r].ready
  BY <1>1 DEF StageOK, Untouched, Unwritten
<1>9. RecordOK(disk', writeMarker')
  BY <1>1, <1>5, <1>6, <1>7, <1>8, SlotFacts DEF RecordOK, NoMarker
<1> QED
  BY <1>3, <1>4, <1>5, <1>6, <1>8, <1>9, SlotFacts

LEMMA InterruptedFacts ==
    ASSUME RecordInv, NEW r \in Runs, serving' \in Interrupted(r)
    PROVE  serving' \in Releases \cup {NoRelease}
BY RunFacts DEF Interrupted, PlainOK

LEMMA CrashStep ==
    ASSUME RecordInv, NEW r \in Runs, Crash(r)
    PROVE  RecordInv'
<1>1. Locked(r) /\ writeMarker' = writeMarker /\ End(r, "dead")
  BY DEF Crash
<1>2. PlainOK'
  BY RunFacts, InterruptedFacts DEF Crash, PlainOK
<1>3. RecordOK(disk', writeMarker')
  BY <1>1, RunFacts, TornFacts DEF Crash
<1> QED
  BY <1>1, <1>2, <1>3, EndStep DEF Ended

\* A command fails, and the script goes on to its trap.
LEMMA FailStage ==
    ASSUME RecordInv, NEW r \in Runs, NEW stage \in {"halt", "rollback"},
           run' = [run EXCEPT ![r].pc = stage, ![r].faults = @ + 1],
           run[r].faults < MaxFaults
    PROVE  \E x \in RunState :
             /\ run' = [run EXCEPT ![r] = x] /\ x.pc = stage /\ SameRun(run[r], x)
             /\ x.started = run[r].started /\ x.faults >= 1
<1> DEFINE n == run[r].faults + 1
           x == [run[r] EXCEPT !.pc = stage, !.faults = n]
<1>1. run[r] \in RunState /\ run \in [Runs -> RunState]
  BY RunFacts
<1>2. run' = [run EXCEPT ![r] = x]
  BY <1>1
<1>3. n \in 0..MaxFaults /\ n >= 1 /\ stage \in Stages
  <2>1. MaxFaults \in Nat
    BY ConstantsAssumption
  <2>2. run[r].faults \in 0..MaxFaults
    BY <1>1 DEF RunState
  <2>3. n \in 0..MaxFaults /\ n >= 1
    BY <2>1, <2>2
  <2>4. stage \in Stages
    BY DEF Stages
  <2> QED
    BY <2>3, <2>4
<1> HIDE DEF n
<1>4. x \in RunState
  BY <1>1, <1>3 DEF RunState
<1>5. SameRun(run[r], x)
  BY <1>1 DEF RunState, SameRun
<1>6. x.pc = stage /\ x.faults = n /\ x.started = run[r].started
  BY <1>1 DEF RunState
<1> HIDE DEF x
<1> QED
  BY <1>2, <1>3, <1>4, <1>5, <1>6

LEMMA FailStep ==
    ASSUME RecordInv, NEW r \in Runs, Fail(r)
    PROVE  RecordInv'
<1>1. /\ Locked(r) /\ run[r].pc \in Failing /\ writeMarker' = writeMarker
      /\ run[r].faults < MaxFaults
  BY DEF Fail, Failing, Locked
<1>2. /\ StageOK(run[r], disk, writeMarker) /\ RecordOK(disk, writeMarker)
      /\ run[r] \in RunState
  BY <1>1, HeldFacts, RunFacts
<1>3. PlainOK'
  BY RunFacts, InterruptedFacts DEF Fail, PlainOK
<1>4. /\ RecordOK(disk', writeMarker')
      /\ run[r].ready => disk'["previous"] = disk["previous"]
      /\ run[r].pc \notin {"restore", "install", "unwind"} =>
           disk'["current"] = disk["current"]
  BY <1>1, <1>2, TornFacts DEF Fail
<1>5. CASE End(r, "failed")
  BY <1>1, <1>3, <1>4, <1>5, EndStep DEF Ended
<1>6. CASE /\ OnExit(r) # "failed"
           /\ run' = [run EXCEPT ![r].pc = OnExit(r), ![r].faults = @ + 1]
  <2>1. /\ OnExit(r) \in {"halt", "rollback"}
        /\ run[r].pc \notin {"restore", "verify", "preflight", "confirm"}
        /\ Bounded(r) /\ OnExit(r) = "rollback" => ~run[r].started
        /\ ~Bounded(r) => run[r].pc \in FirstOfRelease \cup Recording
    BY <1>6 DEF OnExit
  <2> DEFINE stage == OnExit(r)
  <2>2. run' = [run EXCEPT ![r].pc = stage, ![r].faults = @ + 1]
    BY <1>6
  <2>3. stage \in {"halt", "rollback"} /\ stage = OnExit(r)
    BY <2>1
  <2> HIDE DEF stage
  <2>4. PICK x \in RunState :
          /\ run' = [run EXCEPT ![r] = x] /\ x.pc = stage /\ SameRun(run[r], x)
          /\ x.faults >= 1
    BY <1>1, <2>2, <2>3, FailStage
  <2>5. run[r].mode # "normal" <=> Bounded(r)
    BY <1>2, ModeFacts DEF Bounded
  <2>6. run[r].mode # "normal" =>
          /\ run[r].available
          /\ run[r].pc \in Migrating => run[r].started
    BY <1>2, <2>1 DEF StageOK, Underway
  <2>7. run[r].ready => WholeRelease(disk'["previous"])
    BY <1>2, <1>4 DEF StageOK, Snapshotted
  <2>8. ASSUME stage = "rollback", ~run[r].ready, run[r].available
        PROVE  disk'["current"] = run[r].planned
    <3>1. run[r].pc \in Unwritten \ {"verify"}
      <4>1. CASE Bounded(r)
        BY <1>1, <2>1, <2>3, <2>5, <2>6, <2>8, <4>1
        DEF Migrating, FirstOfRelease, Recording, Failing, Stages, Unwritten
      <4>2. CASE ~Bounded(r)
        BY <1>2, <2>1, <2>5, <2>8, <4>2
        DEF StageOK, Snapshotted, FirstOfRelease, Recording, Unwritten
      <4> QED
        BY <4>1, <4>2
    <3>2. disk["current"] = run[r].planned
      BY <1>2, <2>8, <3>1 DEF StageOK, Untouched
    <3> QED
      BY <1>4, <3>1, <3>2 DEF Unwritten
  <2>9. /\ x.ready => WholeRelease(disk'["previous"])
        /\ x.mode # "normal" => x.available
        /\ x.pc = "rollback" /\ ~x.ready /\ x.available => disk'["current"] = x.planned
    BY <2>4, <2>6, <2>7, <2>8 DEF SameRun
  <2> QED
    BY <1>1, <1>3, <1>4, <2>3, <2>4, <2>9, FallBack
<1> QED
  BY <1>5, <1>6 DEF Fail

-----------------------------------------------------------------------------
(* The EXIT trap, and rollback_current_release *)

LEMMA HaltStep ==
    ASSUME RecordInv, NEW r \in Runs, Halt(r) \/ Unmark(r)
    PROVE  RecordInv'
<1>1. disk' = disk /\ writeMarker' = writeMarker /\ RecordOK(disk', writeMarker')
  BY RunFacts DEF Halt, Unmark
<1>2. PlainOK'
  <2>1. CASE Halt(r)
    <3>1. serving' \in {NoRelease, serving}
      BY <2>1 DEF Halt
    <3> QED
      BY <2>1, <3>1, RunFacts DEF Halt, PlainOK
  <2>2. CASE Unmark(r)
    BY <2>2, RunFacts, UnmarkedFacts DEF Unmark, PlainOK
  <2> QED
    BY <2>1, <2>2
<1>3. End(r, "failed") \/ End(r, "restored")
  BY DEF Halt, Unmark
<1> QED
  BY <1>1, <1>2, <1>3, EndStep DEF Ended

\* The release that is started again is one that was recorded.
LEMMA RollbackIsRelease ==
    ASSUME RecordInv, NEW r \in Runs, run[r].pc = "rollback", CanRollBack(r)
    PROVE  RollbackRelease(r) \in Releases
<1>1. Locked(r)
  BY DEF Locked, Stages
<1>2. /\ StageOK(run[r], disk, writeMarker)
      /\ run[r].available => \A f \in Files : run[r].planned[f] \in Releases
  BY <1>1, HeldFacts
<1>3. CASE run[r].ready
  <2>1. PICK release \in Releases : disk["previous"] = Whole(release)
    BY <1>2, <1>3 DEF StageOK, Snapshotted, WholeRelease
  <2> QED
    BY <1>3, <2>1, FileFacts, WholeFacts DEF RollbackRelease, RollbackSlot
<1>4. CASE ~run[r].ready
  <2>1. disk["current"] = run[r].planned /\ run[r].available
    BY <1>2, <1>4 DEF StageOK, Written, CanRollBack
  <2> QED
    BY <1>2, <1>4, <2>1, FileFacts DEF RollbackRelease, RollbackSlot
<1> QED
  BY <1>3, <1>4

LEMMA RollbackFailsStep ==
    ASSUME RecordInv, NEW r \in Runs, RollbackFails(r)
    PROVE  RecordInv'
<1>1. /\ disk' = disk /\ writeMarker' = writeMarker /\ RecordOK(disk', writeMarker')
      /\ End(r, "failed")
  BY RunFacts DEF RollbackFails
<1>2. serving' = serving \/ serving' = NoRelease \/ serving' \in Releases
  BY RollbackIsRelease DEF RollbackFails
<1>3. PlainOK'
  BY <1>2, RunFacts DEF RollbackFails, PlainOK
<1> QED
  BY <1>1, <1>3, EndStep DEF Ended

LEMMA RollbackStartsStep ==
    ASSUME RecordInv, NEW r \in Runs, RollbackStarts(r)
    PROVE  RecordInv'
<1>1. run[r].pc = "rollback" /\ Locked(r)
  BY DEF RollbackStarts, Locked, Stages
<1>2. /\ PlainOK /\ run[r] \in RunState
      /\ StageOK(run[r], disk, writeMarker) /\ RecordOK(disk, writeMarker)
  BY <1>1, HeldFacts, RunFacts
<1>3. disk' = disk /\ writeMarker' = writeMarker /\ RecordOK(disk', writeMarker')
  BY <1>2 DEF RollbackStarts
<1>4. PlainOK'
  BY <1>2 DEF RollbackStarts, Starts, PlainOK
<1>5. /\ run[r].ready => WholeRelease(disk["previous"]) /\ run[r].mode = "normal"
      /\ run[r].mode # "normal" => run[r].available
      /\ writeMarker # NoMarker => run[r].faults >= 1
  BY <1>1, <1>2 DEF StageOK, Snapshotted, Underway, Written
<1>6. CASE Step(r, "unmark")
  <2>1. "unmark" \in Stages
    BY DEF Stages
  <2>2. PICK x \in RunState :
          run' = [run EXCEPT ![r] = x] /\ x.pc = "unmark" /\ SameRun(run[r], x)
    BY <1>6, <2>1, StageStep
  <2>3. StageOK(x, disk', writeMarker')
    BY <1>3, <1>5, <2>2
    DEF SameRun, StageOK, Restoring, Untouched, Unwritten, Snapshotted, Underway,
        Written, Migrating, OfCutover, FirstOfRelease, Recording
  <2> QED
    BY <1>1, <1>3, <1>4, <2>1, <2>2, <2>3, GoesOnStep
<1>7. CASE writeMarker # NoMarker /\ BeginRestore(r, "unwind")
  <2>1. "unwind" \in Stages
    BY DEF Stages
  <2>2. PICK x \in RunState :
          /\ run' = [run EXCEPT ![r] = x] /\ x.pc = "unwind" /\ SameRun(run[r], x)
          /\ x.faults = run[r].faults
          /\ x.n = IF writeMarker = "committed" THEN Len(FileOrder) + 1 ELSE 1
    BY <1>7, <2>1, RestoreBegins
  <2>3. CopiedTo(x.n, disk["current"], SourceOf(disk, writeMarker))
    BY <2>2, CopiedNone DEF SourceOf, CopiedTo
  <2>4. StageOK(x, disk', writeMarker')
    BY <1>3, <1>5, <1>7, <2>2, <2>3
    DEF SameRun, StageOK, Restoring, Untouched, Unwritten, Snapshotted, Underway,
        Written, Migrating, OfCutover, FirstOfRelease, Recording
  <2> QED
    BY <1>1, <1>3, <1>4, <2>1, <2>2, <2>4, GoesOnStep
<1> QED
  BY <1>6, <1>7 DEF RollbackStarts

\* A run unwinds because a command of it failed; with one failure at most, no
\* copy of the unwinding fails.
LEMMA UnwindStep ==
    ASSUME RecordInv, MaxFaults <= 1, NEW r \in Runs, Unwind(r)
    PROVE  RecordInv'
<1>1. run[r].pc = "unwind" /\ Locked(r) /\ "unwind" \in Stages
  BY DEF Unwind, Locked, Stages
<1>2. /\ PlainOK /\ run[r] \in RunState /\ run \in [Runs -> RunState]
      /\ StageOK(run[r], disk, writeMarker) /\ RecordOK(disk, writeMarker)
  BY <1>1, HeldFacts, RunFacts
<1>3. PlainOK'
  BY <1>2 DEF Unwind, PlainOK
<1>4. /\ writeMarker # NoMarker /\ run[r].faults >= 1
      /\ CopiedTo(run[r].n, disk["current"], SourceOf(disk, writeMarker))
      /\ writeMarker = "committed" => run[r].n = Len(FileOrder) + 1
  BY <1>1, <1>2 DEF StageOK, Restoring
<1>5. /\ run[r].ready => WholeRelease(disk["previous"]) /\ run[r].mode = "normal"
      /\ run[r].mode # "normal" => run[r].available
  BY <1>1, <1>2 DEF StageOK, Snapshotted, Underway
<1>6. CASE /\ Copied(r) /\ writeMarker' = NoMarker /\ Step(r, "unmark")
           /\ UNCHANGED disk
  <2>1. RecordOK(disk', writeMarker')
    BY <1>2, <1>4, <1>6, RestoredIsWhole DEF Copied
  <2>2. "unmark" \in Stages
    BY DEF Stages
  <2>3. PICK x \in RunState :
          run' = [run EXCEPT ![r] = x] /\ x.pc = "unmark" /\ SameRun(run[r], x)
    BY <1>6, <2>2, StageStep
  <2>4. StageOK(x, disk', writeMarker')
    BY <1>5, <1>6, <2>3
    DEF SameRun, StageOK, Restoring, Untouched, Unwritten, Snapshotted, Underway,
        Written, Migrating, OfCutover, FirstOfRelease, Recording
  <2> QED
    BY <1>1, <1>3, <2>1, <2>2, <2>3, <2>4, GoesOnStep
<1>7. CASE run[r].n \in DOMAIN FileOrder /\ UNCHANGED writeMarker
  <2>1. ~(run[r].faults < MaxFaults)
    <3>1. MaxFaults \in Nat
      BY ConstantsAssumption
    <3>2. run[r].faults \in 0..MaxFaults
      BY <1>2 DEF RunState
    <3> QED
      BY <1>4, <3>1, <3>2
  <2>2. ~Copied(r)
    BY <1>7, FileFacts DEF Copied
  <2>3. /\ disk' = CopiedNext(r, Source(writeMarker), "current")
        /\ run' = [run EXCEPT ![r].n = @ + 1, ![r].faults = @ + 0]
    BY <2>1, <2>2 DEF Unwind
  <2>4. /\ RecordOK(disk', writeMarker') /\ writeMarker # "committed"
        /\ CopiedTo(run[r].n + 1, disk'["current"], SourceOf(disk', writeMarker))
        /\ \A s \in Slots : s # "current" => disk'[s] = disk[s]
    BY <1>2, <1>4, <1>7, <2>3, CopyBack
  <2> DEFINE n == run[r].n + 1
             x == [run[r] EXCEPT !.n = n, !.faults = @ + 0]
  <2>5. run' = [run EXCEPT ![r] = x]
    BY <1>2, <2>3
  <2>6. n \in 1..(Len(FileOrder) + 1)
    BY <1>7, FileFacts
  <2>7. run[r].faults \in 0..MaxFaults /\ run[r].faults + 0 = run[r].faults
    <3>1. MaxFaults \in Nat
      BY ConstantsAssumption
    <3>2. run[r].faults \in 0..MaxFaults
      BY <1>2 DEF RunState
    <3> QED
      BY <3>1, <3>2
  <2>8. x \in RunState
    BY <1>2, <2>6, <2>7 DEF RunState
  <2>9. SameRun(run[r], x)
    BY <1>2 DEF RunState, SameRun
  <2>10. x.pc = "unwind" /\ x.n = n /\ x.faults = run[r].faults
    BY <1>1, <1>2, <2>7 DEF RunState
  <2> HIDE DEF x
  <2>11. StageOK(x, disk', writeMarker')
    BY <1>4, <1>5, <1>7, <2>4, <2>9, <2>10, SlotFacts
    DEF SameRun, StageOK, Restoring, Untouched, Unwritten, Snapshotted, Underway,
        Written, Migrating, OfCutover, FirstOfRelease, Recording
  <2> QED
    BY <1>1, <1>3, <2>4, <2>5, <2>8, <2>9, <2>10, <2>11, GoesOnStep
<1> QED
  BY <1>6, <1>7 DEF Unwind

LEMMA ManualStep ==
    ASSUME RecordInv, ManualMigrate
    PROVE  RecordInv'
<1>1. /\ disk' = disk /\ writeMarker' = writeMarker /\ run' = run
      /\ cutoverMarker' = cutoverMarker /\ serving' = serving /\ db' = db + 1
  BY DEF ManualMigrate
<1> QED
  BY <1>1 DEF RecordInv, PlainOK, OneHolds, Locked

-----------------------------------------------------------------------------
(* The theorems *)

LEMMA InitInv ==
    ASSUME Init
    PROVE  RecordInv
<1>1. PICK release \in Releases \cup {NoRelease} :
        /\ serving = release
        /\ disk = [s \in Slots |->
                     IF s = "current" /\ release \in Releases
                     THEN Whole(release) ELSE Absent]
  BY DEF Init
<1>2. \A s \in Slots : \E c \in Releases \cup {Missing} : disk[s] = Whole(c)
  BY <1>1, ContentsFacts
<1>3. disk \in [Slots -> [Files -> Contents]]
  <2>1. \A s \in Slots : disk[s] \in [Files -> Contents]
    BY <1>2, ContentsFacts, WholeFacts
  <2>2. disk = [s \in Slots |-> disk[s]]
    BY <1>1
  <2> QED
    BY <2>1, <2>2
<1>4. writeMarker = NoMarker /\ cutoverMarker = Unmarked /\ db = InitialVersion
      /\ run = [r \in Runs |-> Idle]
  BY DEF Init
<1>5. RecordOK(disk, writeMarker)
  BY <1>2, <1>3, <1>4, SlotFacts DEF RecordOK, WriteMarkers, NoMarker
<1>6. InitialVersion \in Nat
  BY ConstantsAssumption
<1>7. PlainOK
  BY <1>1, <1>4, <1>6, UnmarkedFacts DEF PlainOK
<1>8. Idle.pc \notin Stages \cup {"planned"}
  BY DEF Idle, Stages
<1>9. OneHolds /\ run \in [Runs -> RunState]
  BY <1>4, <1>8, IdleRun DEF OneHolds, Locked
<1>10. \A r \in Runs : RunOK(run[r], disk, writeMarker)
  BY <1>4, <1>8, IdleRun DEF RunOK
<1> QED
  BY <1>5, <1>7, <1>9, <1>10 DEF RecordInv

LEMMA NextInv ==
    ASSUME MaxFaults <= 1, RecordInv, [Next]_vars
    PROVE  RecordInv'
<1>1. CASE ManualMigrate
  BY <1>1, ManualStep
<1>2. CASE \E r \in Runs : Advance(r)
  <2>1. PICK r \in Runs : Advance(r)
    BY <1>2
  <2>2. CASE Plan(r) \/ Lock(r) \/ Restore(r) \/ Verify(r) \/ Preflight(r)
             \/ Confirm(r)
    BY <2>2, PlanStep, LockStep, RestoreStep, VerifyStep, PreflightStep, ConfirmStep
  <2>3. CASE Reconcile(r) \/ Prepare(r) \/ Stop(r) \/ MarkStopped(r)
             \/ MarkStarted(r) \/ MarkMigrated(r)
    BY <2>3, CutoverSteps
  <2>4. CASE Begin(r) \/ Migrate(r) \/ Up(r) \/ Check(r) \/ Snapshot(r)
             \/ Forget(r) \/ MarkWrite(r) \/ Install(r)
    BY <2>4, BeginStep, MigrateStep, UpStep, CheckStep, SnapshotStep, ForgetStep,
       MarkWriteStep, InstallStep
  <2>5. CASE Commit(r) \/ Clear(r) \/ Unblock(r)
    BY <2>5, ClosingSteps
  <2>6. CASE Halt(r) \/ Unmark(r)
    BY <2>6, HaltStep
  <2>7. CASE Settle(r) \/ RollbackFails(r) \/ RollbackStarts(r) \/ Unwind(r)
    BY <2>7, SettleStep, RollbackFailsStep, RollbackStartsStep, UnwindStep
  <2> QED
    BY <2>1, <2>2, <2>3, <2>4, <2>5, <2>6, <2>7 DEF Advance
<1>3. CASE \E r \in Runs : Fail(r) \/ Crash(r)
  BY <1>3, FailStep, CrashStep
<1>4. CASE UNCHANGED vars
  <2>1. /\ disk' = disk /\ writeMarker' = writeMarker /\ run' = run
        /\ cutoverMarker' = cutoverMarker /\ serving' = serving /\ db' = db
    BY <1>4 DEF vars
  <2> QED
    BY <2>1 DEF RecordInv, PlainOK, OneHolds, Locked
<1> QED
  BY <1>1, <1>2, <1>3, <1>4 DEF Next

LEMMA DeploymentInvariant ==
    ASSUME MaxFaults <= 1
    PROVE  Spec => []RecordInv
<1>1. Init => RecordInv
  BY InitInv
<1>2. RecordInv /\ [Next]_vars => RecordInv'
  BY NextInv
<1> QED
  BY <1>1, <1>2, PTL DEF Spec

\* Wherever a run of deploy.sh is killed, the recorded release is one whole
\* release or the write marker names a whole snapshot to restore it from,
\* provided no run meets a second failing command while it undoes the first
\* (rollback_current_release then ignores a copy that fails).
THEOREM RecordStaysSafe ==
    ASSUME MaxFaults <= 1
    PROVE  Spec => []RecordIsSafe
<1>1. RecordInv => RecordIsSafe
  BY DEF RecordInv, PlainOK, RecordOK, RecordIsSafe, TypeOK, RecordIsWhole,
         MarkerIsBacked, WholeRelease
<1>2. Spec => []RecordInv
  BY DeploymentInvariant
<1> QED
  BY <1>1, <1>2, PTL

\* From verify_planned_state to the first write of the record, a run works on
\* the very record it was planned on, whatever other runs did between its plan
\* and its lock.
THEOREM PlannedRecordHolds ==
    ASSUME MaxFaults <= 1
    PROVE  Spec => []PlanStillHolds
<1>1. RecordInv => PlanStillHolds
  BY DEF RecordInv, RunOK, StageOK, Untouched, Unwritten, Stages, PlanStillHolds
<1>2. Spec => []RecordInv
  BY DeploymentInvariant
<1> QED
  BY <1>1, <1>2, PTL

-----------------------------------------------------------------------------
(* What a cutover knows of the schema, the marker and the services *)

\* The stages behind the gates.
Past == Stages \ {"restore", "verify", "preflight"}

\* From the services' stop to the candidate's start, and from there to the end.
Down == {"mark stopped", "begin", "mark started", "migrate", "mark migrated", "up"}
Running == {"check"} \cup Recording

\* The cutover marker is that of run x.
Owned(x, m) ==
    m.phase # "absent" /\ m.release = x.release /\ m.target = To[x.mode]

\* An ordinary run: no cutover is open, and no guarded migration is before it.
OrdinaryFits(x, m, v) ==
    x.mode = "normal" /\ x.pc \in Past =>
        /\ m = Unmarked
        /\ x.pc = "migrate" => (v + 1)..Schema[x.release] \cap Guarded = {}

\* A run of a cutover: version v is in its range, and at the start of it until the
\* migrations begin; the marker is its own; nothing is served while it migrates.
CutoverFits(x, m, v, s, c, w) ==
    x.mode # "normal" /\ x.pc \in Past =>
        /\ Schema[x.release] = To[x.mode]
        /\ From[x.mode] <= v /\ v <= To[x.mode]
        /\ ~x.started => v = From[x.mode]
        /\ x.pc \notin {"prepare", "settle", "halt"} => Owned(x, m)
        /\ x.pc = "prepare" => m = Unmarked \/ Owned(x, m)
        /\ x.pc = "settle" => m = Unmarked
        /\ x.pc \in Down => s = NoRelease
        /\ x.pc # "unwind"
        /\ x.pc \in {"rollback", "unmark"} => ~x.started /\ w = NoMarker
        /\ x.pc = "unmark" => s \in Releases /\ Schema[s] = v /\ c = Whole(s)

\* A run whose release is served and recorded, and one that finds it so.
CandidateFits(x, m, v, s, c, w) ==
    /\ x.pc \in Running => s = x.release /\ Schema[x.release] = v
    /\ x.pc \in {"clear", "unblock", "settle"} => c = Whole(x.release)
    /\ x.pc \in {"unblock", "settle"} => w = NoMarker
    /\ x.pc = "confirm" => x.recovery = "committed"
    /\ x.mode # "normal" /\ x.pc \in {"preflight", "confirm"} /\ x.recovery = "committed" =>
         /\ m = [release |-> x.release, phase |-> "data-migrated", target |-> To[x.mode]]
         /\ c = Whole(x.release)

CutoverOK(x, m, v, s, c, w) ==
    /\ OrdinaryFits(x, m, v) /\ CutoverFits(x, m, v, s, c, w)
    /\ CandidateFits(x, m, v, s, c, w)

\* The marker is of one cutover, in whose range the version is.
MarkerFits(m, v) ==
    /\ m.phase = "absent" => m = Unmarked
    /\ m.phase # "absent" =>
         /\ m.release \in Releases /\ Schema[m.release] = m.target
         /\ \E k \in Cutovers : m.target = To[k] /\ From[k] <= v /\ v <= To[k]

CutoverInv ==
    /\ MarkerFits(cutoverMarker, db) /\ MidCutoverIsMarked /\ OldReleaseStaysDown
    /\ \A r \in Runs : Locked(r) =>
         CutoverOK(run[r], cutoverMarker, db, serving, disk["current"], writeMarker)

-----------------------------------------------------------------------------
(* Steps that keep it *)

LEMMA VersionFacts ==
    /\ \A k \in Cutovers : From[k] \in Nat /\ To[k] \in Nat /\ From[k] < To[k]
    /\ \A release \in Releases : Schema[release] \in Nat
BY ConstantsAssumption

\* The marker and the version are as before, and no other release starts than one
\* that fits the schema.
WorldStays ==
    /\ cutoverMarker' = cutoverMarker /\ db' = db
    /\ \/ serving' \in {serving, NoRelease}
       \/ serving' \in Releases /\ Schema[serving'] = db

WorldFits == MarkerFits(cutoverMarker, db) /\ MidCutoverIsMarked /\ OldReleaseStaysDown

LEMMA WorldStaysFit ==
    ASSUME RecordInv, CutoverInv, WorldStays
    PROVE  WorldFits'
<1>1. MarkerFits(cutoverMarker', db') /\ MidCutoverIsMarked'
  BY DEF CutoverInv, WorldStays, MidCutoverIsMarked, Marked
<1>2. OldReleaseStaysDown'
  <2>1. db \in Nat /\ Guarded \subseteq Nat /\ db' = db
    BY ConstantsAssumption DEF RecordInv, PlainOK, WorldStays
  <2>2. CASE serving' = serving
    BY <2>1, <2>2 DEF CutoverInv, OldReleaseStaysDown
  <2>3. CASE serving' = NoRelease
    BY <2>3, ContentsFacts DEF OldReleaseStaysDown
  <2>4. CASE serving' \in Releases /\ Schema[serving'] = db
    BY <2>1, <2>4 DEF OldReleaseStaysDown
  <2> QED
    BY <2>2, <2>3, <2>4 DEF WorldStays
<1> QED
  BY <1>1, <1>2 DEF WorldFits

\* What run r promises after a step.
Promises(r) ==
    Locked(r) => CutoverOK(run[r], cutoverMarker, db, serving, disk["current"], writeMarker)

\* Runs other than the holder of the lock promise nothing.
LEMMA HolderStep ==
    ASSUME RecordInv, CutoverInv, NEW r \in Runs, Locked(r), NEW x,
           run' = [run EXCEPT ![r] = x], Promises(r)', WorldFits'
    PROVE  CutoverInv'
<1>1. ASSUME NEW q \in Runs, q # r
      PROVE  ~Locked(q)'
  BY <1>1 DEF RecordInv, OneHolds, Locked
<1> QED
  BY <1>1 DEF CutoverInv, Promises, WorldFits

\* A step of a run without the lock leaves everything else alone.
LEMMA OutsideStep ==
    ASSUME RecordInv, CutoverInv, NEW r \in Runs, NEW x,
           run' = [run EXCEPT ![r] = x], Promises(r)',
           UNCHANGED <<disk, writeMarker, cutoverMarker, db, serving>>
    PROVE  CutoverInv'
<1>1. ASSUME NEW q \in Runs, q # r, Locked(q)'
      PROVE  CutoverOK(run[q], cutoverMarker, db, serving, disk["current"], writeMarker)'
  <2>1. run'[q] = run[q] /\ Locked(q)
    BY <1>1 DEF RecordInv, Locked
  <2> QED
    BY <2>1 DEF CutoverInv
<1>2. WorldFits'
  BY WorldStaysFit DEF WorldStays
<1> QED
  BY <1>1, <1>2 DEF CutoverInv, Promises, WorldFits

LEMMA EndPromises ==
    ASSUME RecordInv, NEW r \in Runs, NEW o \in Ended, End(r, o)
    PROVE  /\ \E x : run' = [run EXCEPT ![r] = x]
           /\ Promises(r)' /\ run'[r].pc = o
<1>1. run' = [run EXCEPT ![r] = [Idle EXCEPT !.pc = o]] /\ [Idle EXCEPT !.pc = o].pc = o
  BY IdleFacts DEF End
<1>2. run'[r] = [Idle EXCEPT !.pc = o]
  BY <1>1 DEF RecordInv
<1>3. run'[r].pc = o
  BY <1>1, <1>2
<1> QED
  BY <1>1, <1>3 DEF Promises, Locked, Ended, Stages

LEMMA EndKeeps ==
    ASSUME RecordInv, CutoverInv, NEW r \in Runs, NEW o \in Ended, End(r, o),
           \/ Locked(r) /\ WorldFits'
           \/ UNCHANGED <<disk, writeMarker, cutoverMarker, db, serving>>
    PROVE  CutoverInv'
BY EndPromises, HolderStep, OutsideStep

-----------------------------------------------------------------------------
(* Planning and the gates *)

LEMMA PlanKeeps ==
    ASSUME RecordInv, CutoverInv, NEW r \in Runs, Plan(r) \/ Lock(r)
    PROVE  CutoverInv'
<1>1. UNCHANGED <<disk, writeMarker, cutoverMarker, db, serving>>
  BY DEF Plan, Lock
<1>2. run[r] \in RunState /\ run \in [Runs -> RunState]
  BY RunFacts
<1>3. CASE End(r, "refused")
  BY <1>1, <1>3, EndKeeps DEF Ended
<1>4. CASE ~End(r, "refused") /\ Plan(r)
  <2>1. PICK mode \in Modes, release \in Releases :
          run' = [run EXCEPT ![r] =
                   [Idle EXCEPT !.pc = "planned", !.mode = mode, !.release = release,
                      !.available = \A f \in Files : PlanningBase(mode)[f] \in Releases,
                      !.planned = IF \A f \in Files : PlanningBase(mode)[f] \in Releases
                                  THEN PlanningBase(mode) ELSE Absent,
                      !.fingerprint = Fingerprint]]
    BY <1>4 DEF Plan
  <2> DEFINE x == [Idle EXCEPT !.pc = "planned", !.mode = mode, !.release = release,
                      !.available = \A f \in Files : PlanningBase(mode)[f] \in Releases,
                      !.planned = IF \A f \in Files : PlanningBase(mode)[f] \in Releases
                                  THEN PlanningBase(mode) ELSE Absent,
                      !.fingerprint = Fingerprint]
  <2>2. x.pc = "planned"
    BY DEF Idle
  <2>3. run' = [run EXCEPT ![r] = x] /\ run'[r] = x
    BY <1>2, <2>1
  <2> HIDE DEF x
  <2>4. Promises(r)'
    BY <2>2, <2>3 DEF Promises, Locked, Stages
  <2> QED
    BY <1>1, <2>3, <2>4, OutsideStep
<1>5. CASE ~End(r, "refused") /\ Lock(r)
  <2>1. Step(r, "verify") \/ BeginRestore(r, "restore")
    BY <1>5 DEF Lock
  <2>2. \E x : run' = [run EXCEPT ![r] = x] /\ x.pc \in {"verify", "restore"}
    <3>1. CASE Step(r, "verify")
      <4> "verify" \in Stages
        BY DEF Stages
      <4> QED
        BY <3>1, StageStep
    <3>2. CASE BeginRestore(r, "restore")
      <4> "restore" \in Stages
        BY DEF Stages
      <4> QED
        BY <3>2, RestoreBegins
    <3> QED
      BY <2>1, <3>1, <3>2
  <2>3. PICK x : run' = [run EXCEPT ![r] = x] /\ x.pc \in {"verify", "restore"}
    BY <2>2
  <2>4. run'[r] = x
    BY <1>2, <2>3
  <2>5. Promises(r)'
    BY <2>3, <2>4 DEF Promises, CutoverOK, OrdinaryFits, CutoverFits, CandidateFits, Past,
       Running, Recording
  <2> QED
    BY <1>1, <2>3, <2>5, OutsideStep
<1> QED
  BY <1>3, <1>4, <1>5

LEMMA RestoreKeeps ==
    ASSUME RecordInv, CutoverInv, NEW r \in Runs, Restore(r)
    PROVE  CutoverInv'
<1>1. Locked(r) /\ run[r] \in RunState /\ run \in [Runs -> RunState]
  BY RunFacts DEF Restore, Locked, Stages
<1>2. PICK x : run' = [run EXCEPT ![r] = x] /\ x.pc \in {"verify", "restore"}
  <2>1. CASE Step(r, "verify")
    <3> "verify" \in Stages
      BY DEF Stages
    <3> QED
      BY <2>1, StageStep
  <2>2. CASE CopyNext(r, Source(writeMarker), "current")
    <3> DEFINE x == [run[r] EXCEPT !.n = @ + 1]
    <3>1. run' = [run EXCEPT ![r] = x] /\ x.pc = "restore"
      BY <1>1, <2>2 DEF CopyNext, Restore, RunState
    <3> QED
      BY <3>1
  <2> QED
    BY <2>1, <2>2 DEF Restore
<1>3. run'[r] = x
  BY <1>1, <1>2
<1>4. Promises(r)'
  BY <1>2, <1>3 DEF Promises, CutoverOK, OrdinaryFits, CutoverFits, CandidateFits, Past,
     Running, Recording
<1>5. WorldFits'
  BY WorldStaysFit DEF Restore, WorldStays
<1> QED
  BY <1>1, <1>2, <1>4, <1>5, HolderStep

LEMMA VerifyKeeps ==
    ASSUME RecordInv, CutoverInv, NEW r \in Runs, Verify(r)
    PROVE  CutoverInv'
<1>1. Locked(r) /\ run[r] \in RunState /\ run \in [Runs -> RunState]
  BY RunFacts DEF Verify, Locked, Stages
<1>2. UNCHANGED <<disk, writeMarker, cutoverMarker, db, serving>>
  BY DEF Verify
<1>3. CASE End(r, "refused")
  BY <1>2, <1>3, EndKeeps DEF Ended
<1>4. CASE /\ CommittedRecovery(r) => CommittedMatches(r)
           /\ run' = [run EXCEPT ![r].pc = "preflight",
                                 ![r].fingerprint = Idle.fingerprint]
  <2> DEFINE x == [run[r] EXCEPT !.pc = "preflight", !.fingerprint = Idle.fingerprint]
  <2>1. run' = [run EXCEPT ![r] = x] /\ run'[r] = x
    BY <1>1, <1>4
  <2>2. /\ x.pc = "preflight" /\ x.mode = run[r].mode /\ x.release = run[r].release
        /\ x.recovery = run[r].recovery
    BY <1>1 DEF RunState
  <2> HIDE DEF x
  <2>3. x.mode # "normal" <=> Bounded(r)
    BY <1>1, <2>2, ModeFacts DEF Bounded
  <2>4. CandidateFits(x, cutoverMarker, db, serving, disk["current"], writeMarker)
    BY <1>4, <2>2, <2>3 DEF CandidateFits, Running, Recording, CommittedRecovery,
       CommittedMatches
  <2>5. Promises(r)'
    BY <1>2, <2>1, <2>2, <2>4 DEF Promises, CutoverOK, OrdinaryFits, CutoverFits, Past
  <2> QED
    BY <1>2, <2>1, <2>5, OutsideStep
<1> QED
  BY <1>3, <1>4 DEF Verify

LEMMA PreflightKeeps ==
    ASSUME RecordInv, CutoverInv, NEW r \in Runs, Preflight(r)
    PROVE  CutoverInv'
<1>1. /\ Locked(r) /\ run[r] \in RunState /\ run \in [Runs -> RunState]
      /\ run[r].pc = "preflight" /\ run[r].release \in Releases /\ db \in Nat
      /\ writeMarker = NoMarker
  BY RunFacts, HeldFacts DEF Preflight, Locked, Stages, PlainOK, StageOK, Untouched, Unwritten
<1>2. UNCHANGED <<disk, writeMarker, cutoverMarker, db, serving>>
  BY DEF Preflight
<1>3. run[r].mode # "normal" <=> Bounded(r)
  BY <1>1, ModeFacts DEF Bounded
<1>4. CASE End(r, "refused")
  BY <1>2, <1>4, EndKeeps DEF Ended
<1>5. CASE ~Bounded(r) /\ NormalGate(r) /\ Step(r, "migrate")
  <2>1. "migrate" \in Stages
    BY DEF Stages
  <2>2. PICK x \in RunState :
          run' = [run EXCEPT ![r] = x] /\ x.pc = "migrate" /\ SameRun(run[r], x)
    BY <1>5, <2>1, StageStep
  <2>3. /\ run' = [run EXCEPT ![r] = x] /\ run'[r] = x /\ x.pc = "migrate"
        /\ SameRun(run[r], x)
    BY <1>1, <2>2
  <2>4. x.mode = "normal" /\ x.release = run[r].release
    BY <1>3, <1>5, <2>3 DEF SameRun
  <2>5. cutoverMarker = Unmarked
    BY <1>5 DEF NormalGate, Marked, CutoverInv, MarkerFits
  <2>6. (db + 1)..Schema[x.release] \cap Guarded = {}
    BY <1>5, <2>4 DEF NormalGate, Pending
  <2>7. CutoverOK(x, cutoverMarker, db, serving, disk["current"], writeMarker)
    BY <2>3, <2>4, <2>5, <2>6
    DEF CutoverOK, OrdinaryFits, CutoverFits, CandidateFits, Running, Recording
  <2>8. Promises(r)'
    BY <1>2, <2>3, <2>7 DEF Promises
  <2> QED
    BY <1>2, <2>3, <2>8, OutsideStep
<1>6. CASE Bounded(r) /\ CutoverGate(r) /\ AfterPreflight(r)
  <2> DEFINE mode == run[r].mode
             release == run[r].release
             migrating == cutoverMarker.phase \in {"migration-started", "data-migrated"}
             unrecorded == Marked /\ ~migrating /\ db # From[mode]
  <2>1. mode \in Cutovers /\ mode # "normal"
    BY <1>3, <1>6 DEF Bounded
  <2>2. PICK started \in BOOLEAN, stage \in {"confirm", "reconcile", "stop", "prepare"} :
          /\ run' = [run EXCEPT ![r].started = started, ![r].pc = stage]
          /\ started <=> migrating \/ unrecorded
          /\ stage = "confirm" <=> CommittedRecovery(r)
          /\ stage = "reconcile" => unrecorded
          /\ stage = "stop" => migrating
    BY <1>6 DEF AfterPreflight
  <2> DEFINE x == [run[r] EXCEPT !.started = started, !.pc = stage]
  <2>3. run' = [run EXCEPT ![r] = x] /\ run'[r] = x
    BY <1>1, <2>2
  <2>4. /\ x.pc = stage /\ x.mode = mode /\ x.release = release
        /\ x.started = started /\ x.recovery = run[r].recovery
    BY <1>1 DEF RunState
  <2> HIDE DEF x
  <2>5. /\ (db + 1)..Schema[release] = (db + 1)..To[mode]
        /\ IF Marked THEN /\ cutoverMarker.release = release
                          /\ cutoverMarker.target = To[mode]
                          /\ db \in From[mode]..To[mode]
           ELSE db = From[mode]
    BY <1>6 DEF CutoverGate, Pending
  <2>6. From[mode] \in Nat /\ To[mode] \in Nat /\ From[mode] < To[mode] /\ Schema[release] \in Nat
    BY <1>1, <2>1, VersionFacts
  <2>7. Schema[release] = To[mode] /\ From[mode] <= db /\ db <= To[mode]
    <3>1. CASE Marked
      BY <1>1, <2>5, <2>6, <3>1 DEF CutoverInv, MarkerFits, Marked
    <3>2. CASE ~Marked
      <4>1. To[mode] \in (db + 1)..Schema[release]
        BY <1>1, <2>5, <2>6, <3>2
      <4>2. Schema[release] \in (db + 1)..To[mode]
        BY <1>1, <2>5, <2>6, <4>1
      <4> QED
        BY <1>1, <2>5, <2>6, <3>2, <4>1, <4>2
    <3> QED
      BY <3>1, <3>2
  <2>8. ~started => db = From[mode]
    BY <2>2, <2>5
  <2>9. Marked <=> Owned(x, cutoverMarker)
    BY <2>4, <2>5 DEF Owned, Marked
  <2>10. ~Marked => cutoverMarker = Unmarked
    BY DEF CutoverInv, MarkerFits, Marked
  <2>11. stage # "prepare" => Marked
    <3>1. CASE stage = "confirm"
      <4>1. run[r].recovery = "committed"
        BY <2>2, <3>1 DEF CommittedRecovery
      <4>2. cutoverMarker.phase = "data-migrated"
        BY <1>1, <2>1, <4>1 DEF CutoverInv, CutoverOK, CandidateFits
      <4> QED
        BY <4>2 DEF Marked
    <3>2. CASE stage # "confirm"
      BY <2>2, <3>2 DEF Marked
    <3> QED
      BY <3>1, <3>2
  <2>12. stage = "confirm" =>
           /\ x.recovery = "committed"
           /\ cutoverMarker = [release |-> x.release, phase |-> "data-migrated",
                               target |-> To[x.mode]]
           /\ disk["current"] = Whole(x.release)
    BY <1>1, <2>1, <2>2, <2>4 DEF CommittedRecovery, CutoverInv, CutoverOK, CandidateFits
  <2>13. CutoverFits(x, cutoverMarker, db, serving, disk["current"], writeMarker)
    BY <2>2, <2>4, <2>7, <2>8, <2>9, <2>10, <2>11 DEF CutoverFits, Down
  <2>14. CandidateFits(x, cutoverMarker, db, serving, disk["current"], writeMarker)
    BY <2>2, <2>4, <2>12 DEF CandidateFits, Running, Recording
  <2>15. CutoverOK(x, cutoverMarker, db, serving, disk["current"], writeMarker)
    BY <2>1, <2>4, <2>13, <2>14 DEF CutoverOK, OrdinaryFits
  <2>16. Promises(r)'
    BY <1>2, <2>3, <2>15 DEF Promises
  <2> QED
    BY <1>2, <2>3, <2>16, OutsideStep
<1> QED
  BY <1>4, <1>5, <1>6 DEF Preflight, AfterPreflight

-----------------------------------------------------------------------------
(* A cutover up to the migrated schema *)

\* What the holder of the lock knows.
LEMMA HolderKnows ==
    ASSUME RecordInv, CutoverInv, NEW r \in Runs, Locked(r)
    PROVE  /\ run[r] \in RunState /\ run \in [Runs -> RunState]
           /\ OrdinaryFits(run[r], cutoverMarker, db)
           /\ CutoverFits(run[r], cutoverMarker, db, serving, disk["current"], writeMarker)
           /\ CandidateFits(run[r], cutoverMarker, db, serving, disk["current"], writeMarker)
           /\ run[r].mode # "normal" <=> Bounded(r)
           /\ run[r].mode # "normal" <=> run[r].mode \in Cutovers
           /\ run[r].release \in Releases /\ db \in Nat
           /\ StageOK(run[r], disk, writeMarker) /\ RecordOK(disk, writeMarker)
BY RunFacts, HeldFacts, ModeFacts DEF CutoverInv, CutoverOK, Bounded, PlainOK

\* The holder of the lock goes on as x.
LEMMA HolderGoesOn ==
    ASSUME RecordInv, CutoverInv, NEW r \in Runs, Locked(r), NEW x,
           run' = [run EXCEPT ![r] = x],
           OrdinaryFits(x, cutoverMarker', db'),
           CutoverFits(x, cutoverMarker', db', serving', disk'["current"], writeMarker'),
           CandidateFits(x, cutoverMarker', db', serving', disk'["current"], writeMarker'),
           WorldFits'
    PROVE  CutoverInv'
<1>1. run'[r] = x
  BY RunFacts
<1>2. Promises(r)'
  BY <1>1 DEF Promises, CutoverOK
<1> QED
  BY <1>2, HolderStep

\* A version is inside one cutover at most.
LEMMA InsideOne ==
    ASSUME NEW k \in Cutovers, NEW c \in Cutovers, NEW v \in Nat,
           From[k] <= v, v <= To[k], From[c] < v, v < To[c]
    PROVE  c = k
<1>1. c = k \/ To[c] <= From[k] \/ To[k] <= From[c]
  BY CutoverRanges
<1> QED
  BY <1>1, VersionFacts

\* A run of a cutover writes its marker.
LEMMA MarkedWorld ==
    ASSUME RecordInv, CutoverInv, NEW r \in Runs, Locked(r), run[r].mode # "normal",
           run[r].pc \in Past, NEW phase \in {"prepared", "services-stopped",
                                             "migration-started", "data-migrated"},
           Mark(r, phase), db' = db, serving' = serving
    PROVE  WorldFits' /\ Owned(run[r], cutoverMarker')
<1> DEFINE mode == run[r].mode
<1>1. /\ mode \in Cutovers /\ run[r].release \in Releases /\ db \in Nat
      /\ Schema[run[r].release] = To[mode] /\ From[mode] <= db /\ db <= To[mode]
  BY HolderKnows DEF CutoverFits
<1>2. /\ cutoverMarker'.release = run[r].release /\ cutoverMarker'.phase # "absent"
      /\ cutoverMarker'.target = To[mode]
  BY DEF Mark
<1>3. MarkerFits(cutoverMarker', db')
  BY <1>1, <1>2 DEF MarkerFits
<1>4. MidCutoverIsMarked'
  BY <1>1, <1>2, InsideOne DEF MidCutoverIsMarked, Marked
<1>5. OldReleaseStaysDown'
  BY DEF CutoverInv, OldReleaseStaysDown
<1> QED
  BY <1>2, <1>3, <1>4, <1>5 DEF WorldFits, Owned

LEMMA MarkKeeps ==
    ASSUME RecordInv, CutoverInv, NEW r \in Runs,
           NEW stage \in {"stop", "begin", "migrate", "up"}, Step(r, stage),
           run[r].pc \in {"reconcile", "prepare", "mark stopped", "mark started",
                          "mark migrated"},
           stage # "stop" => run[r].pc \in Down,
           NEW phase \in {"prepared", "services-stopped", "migration-started", "data-migrated"},
           Mark(r, phase), db' = db, serving' = serving, writeMarker' = writeMarker, disk' = disk
    PROVE  CutoverInv'
<1>1. Locked(r) /\ run[r].pc \in Past /\ run[r].pc \in OfCutover /\ stage \in Stages
  BY DEF Locked, Stages, Past, OfCutover
<1>2. run[r].mode # "normal"
  BY <1>1, HolderKnows DEF StageOK, Underway
<1>3. WorldFits' /\ Owned(run[r], cutoverMarker')
  BY <1>1, <1>2, MarkedWorld
<1>4. PICK x \in RunState :
        /\ run' = [run EXCEPT ![r] = x] /\ x.pc = stage /\ SameRun(run[r], x)
        /\ x.started = run[r].started /\ x.faults = run[r].faults
        /\ x.n = run[r].n
  BY <1>1, StageStep
<1>5. CutoverFits(run[r], cutoverMarker, db, serving, disk["current"], writeMarker)
  BY <1>1, HolderKnows
<1>6. CutoverFits(x, cutoverMarker', db', serving', disk'["current"], writeMarker')
  BY <1>1, <1>2, <1>3, <1>4, <1>5 DEF CutoverFits, SameRun, Owned, Down
<1>7. OrdinaryFits(x, cutoverMarker', db')
  BY <1>2, <1>4 DEF OrdinaryFits, SameRun
<1>8. CandidateFits(x, cutoverMarker', db', serving', disk'["current"], writeMarker')
  BY <1>4 DEF CandidateFits, Running, Recording
<1> QED
  BY <1>1, <1>3, <1>4, <1>6, <1>7, <1>8, HolderGoesOn

LEMMA CutoverKeeps ==
    ASSUME RecordInv, CutoverInv, NEW r \in Runs,
           \/ Reconcile(r) \/ Prepare(r) \/ MarkStopped(r) \/ MarkStarted(r) \/ MarkMigrated(r)
    PROVE  CutoverInv'
<1>1. CASE Reconcile(r)
  BY <1>1, MarkKeeps DEF Reconcile
<1>2. CASE Prepare(r)
  BY <1>2, MarkKeeps DEF Prepare
<1>3. CASE MarkStopped(r)
  BY <1>3, MarkKeeps DEF MarkStopped, Down
<1>4. CASE MarkStarted(r)
  BY <1>4, MarkKeeps DEF MarkStarted, Down
<1>5. CASE MarkMigrated(r)
  BY <1>5, MarkKeeps DEF MarkMigrated, Down
<1> QED
  BY <1>1, <1>2, <1>3, <1>4, <1>5

LEMMA StopKeeps ==
    ASSUME RecordInv, CutoverInv, NEW r \in Runs, Stop(r)
    PROVE  CutoverInv'
<1>1. /\ Locked(r) /\ run[r].pc = "stop" /\ run[r].pc \in Past /\ run[r].pc \in OfCutover
  BY DEF Stop, Locked, Stages, Past, OfCutover
<1>2. run[r].mode # "normal"
  BY <1>1, HolderKnows DEF StageOK, Underway
<1>3. WorldFits'
  BY WorldStaysFit DEF Stop, WorldStays
<1>4. PICK stage \in {"migrate", "mark stopped"} : Step(r, stage)
  BY DEF Stop
<1>5. stage \in Stages
  BY DEF Stages
<1>6. PICK x \in RunState :
        /\ run' = [run EXCEPT ![r] = x] /\ x.pc = stage /\ SameRun(run[r], x)
        /\ x.started = run[r].started /\ x.faults = run[r].faults
        /\ x.n = run[r].n
  BY <1>4, <1>5, StageStep
<1>7. CutoverFits(run[r], cutoverMarker, db, serving, disk["current"], writeMarker)
  BY <1>1, HolderKnows
<1>8. /\ cutoverMarker' = cutoverMarker /\ db' = db /\ disk' = disk
      /\ writeMarker' = writeMarker /\ serving' = NoRelease
  BY DEF Stop
<1>9. CutoverFits(x, cutoverMarker', db', serving', disk'["current"], writeMarker')
  BY <1>1, <1>2, <1>6, <1>7, <1>8 DEF CutoverFits, SameRun, Owned, Down
<1>10. OrdinaryFits(x, cutoverMarker', db')
  BY <1>2, <1>6 DEF OrdinaryFits, SameRun
<1>11. CandidateFits(x, cutoverMarker', db', serving', disk'["current"], writeMarker')
  BY <1>6 DEF CandidateFits, Running, Recording
<1> QED
  BY <1>1, <1>3, <1>6, <1>9, <1>10, <1>11, HolderGoesOn

LEMMA BeginKeeps ==
    ASSUME RecordInv, CutoverInv, NEW r \in Runs, Begin(r)
    PROVE  CutoverInv'
<1>1. /\ Locked(r) /\ run[r].pc = "begin" /\ run[r].pc \in Past /\ run[r].pc \in OfCutover
  BY DEF Begin, Locked, Stages, Past, OfCutover
<1>2. run[r].mode # "normal"
  BY <1>1, HolderKnows DEF StageOK, Underway
<1>3. WorldFits'
  BY WorldStaysFit DEF Begin, WorldStays
<1> DEFINE x == [run[r] EXCEPT !.pc = "mark started", !.started = TRUE]
<1>4. run' = [run EXCEPT ![r] = x]
  BY <1>1, HolderKnows DEF Begin
<1>5. /\ x.pc = "mark started" /\ x.started /\ x.mode = run[r].mode
      /\ x.release = run[r].release
  BY <1>1, HolderKnows DEF RunState
<1> HIDE DEF x
<1>6. CutoverFits(run[r], cutoverMarker, db, serving, disk["current"], writeMarker)
  BY <1>1, HolderKnows
<1>7. UNCHANGED <<disk, writeMarker, cutoverMarker, db, serving>>
  BY DEF Begin
<1>8. CutoverFits(x, cutoverMarker', db', serving', disk'["current"], writeMarker')
  BY <1>1, <1>2, <1>5, <1>6, <1>7 DEF CutoverFits, Owned, Down
<1>9. OrdinaryFits(x, cutoverMarker', db')
  BY <1>2, <1>5 DEF OrdinaryFits
<1>10. CandidateFits(x, cutoverMarker', db', serving', disk'["current"], writeMarker')
  BY <1>5 DEF CandidateFits, Running, Recording
<1> QED
  BY <1>1, <1>3, <1>4, <1>8, <1>9, <1>10, HolderGoesOn

\* One migration more is applied.
LEMMA OneMigration ==
    ASSUME RecordInv, CutoverInv, NEW r \in Runs, run[r].pc = "migrate",
           Pending(run[r].release) # {}, db' = db + 1, run' = run,
           UNCHANGED <<disk, writeMarker, cutoverMarker, serving>>
    PROVE  CutoverInv'
<1> DEFINE mode == run[r].mode
           release == run[r].release
<1>1. Locked(r) /\ run[r].pc \in Past /\ run[r].pc \in Down /\ run[r].pc \in Migrating
  BY DEF Locked, Stages, Past, Down, Migrating
<1>2. /\ db \in Nat /\ release \in Releases /\ Schema[release] \in Nat
      /\ mode # "normal" <=> mode \in Cutovers
  BY <1>1, HolderKnows, VersionFacts
<1>3. db + 1 <= Schema[release]
  BY <1>2 DEF Pending
<1>4. OrdinaryFits(run[r], cutoverMarker, db)
  BY <1>1, HolderKnows
<1>5. CutoverFits(run[r], cutoverMarker, db, serving, disk["current"], writeMarker)
  BY <1>1, HolderKnows
<1> DEFINE Good == /\ WorldFits'
                   /\ OrdinaryFits(run[r], cutoverMarker', db')
                   /\ CutoverFits(run[r], cutoverMarker', db', serving', disk'["current"],
                                  writeMarker')
<1>6. ASSUME mode = "normal" PROVE Good
  <2>1. cutoverMarker = Unmarked /\ (db + 1)..Schema[release] \cap Guarded = {}
    BY <1>1, <1>4, <1>6 DEF OrdinaryFits
  <2>2. MarkerFits(cutoverMarker', db')
    BY <2>1 DEF MarkerFits, Unmarked
  <2>3. ASSUME NEW c \in Cutovers
        PROVE  ~(From[c] < db + 1 /\ db + 1 < To[c])
    <3>1. From[c] \in Nat /\ To[c] \in Nat
      BY VersionFacts
    <3>2. CASE From[c] < db
      <4>1. ~(From[c] < db /\ db < To[c])
        BY <2>1 DEF CutoverInv, MidCutoverIsMarked, Marked, Unmarked
      <4> QED
        BY <1>2, <3>1, <3>2, <4>1
    <3>3. CASE From[c] = db
      <4>1. (From[c] + 1)..Schema[release] \cap Guarded # {}
        BY <1>2, <1>3, <3>1, <3>3, CutoverRanges
      <4> QED
        BY <2>1, <3>3, <4>1
    <3> QED
      BY <1>2, <3>1, <3>2, <3>3
  <2>4. MidCutoverIsMarked'
    BY <2>3 DEF MidCutoverIsMarked
  <2>5. OldReleaseStaysDown'
    <3>3. db + 1 \in (db + 1)..Schema[release]
      BY <1>2, <1>3
    <3>1. db + 1 \notin Guarded /\ Guarded \subseteq Nat
      BY <2>1, <3>3, ConstantsAssumption
    <3>2. \A v \in Guarded : v <= db + 1 => v <= db
      BY <1>2, <3>1
    <3> QED
      BY <3>2 DEF CutoverInv, OldReleaseStaysDown
  <2>6. OrdinaryFits(run[r], cutoverMarker', db')
    <3>1. (db + 1 + 1)..Schema[release] \subseteq (db + 1)..Schema[release]
      BY <1>2
    <3> QED
      BY <2>1, <3>1 DEF OrdinaryFits
  <2>7. CutoverFits(run[r], cutoverMarker', db', serving', disk'["current"], writeMarker')
    BY <1>6 DEF CutoverFits
  <2> QED
    BY <2>2, <2>4, <2>5, <2>6, <2>7 DEF WorldFits
<1>7. ASSUME mode # "normal" PROVE Good
  <2>1. /\ Schema[release] = To[mode] /\ From[mode] <= db /\ db <= To[mode]
        /\ Owned(run[r], cutoverMarker) /\ serving = NoRelease
    BY <1>1, <1>5, <1>7 DEF CutoverFits, Down
  <2>2. /\ mode \in Cutovers /\ From[mode] \in Nat /\ To[mode] \in Nat
        /\ From[mode] <= db + 1 /\ db + 1 <= To[mode]
    BY <1>2, <1>3, <1>7, <2>1, VersionFacts
  <2>3. MarkerFits(cutoverMarker', db')
    BY <1>2, <2>1, <2>2 DEF MarkerFits, Owned
  <2>4. MidCutoverIsMarked'
    BY <1>2, <2>1, <2>2, InsideOne DEF MidCutoverIsMarked, Marked, Owned
  <2>5. OldReleaseStaysDown'
    BY <2>1, ContentsFacts DEF OldReleaseStaysDown
  <2>6. run[r].started
    BY <1>1, <1>7, HolderKnows DEF StageOK, Underway
  <2>7. CutoverFits(run[r], cutoverMarker', db', serving', disk'["current"], writeMarker')
    BY <2>1, <2>2, <2>6 DEF CutoverFits
  <2>8. OrdinaryFits(run[r], cutoverMarker', db')
    BY <1>7 DEF OrdinaryFits
  <2> QED
    BY <2>3, <2>4, <2>5, <2>7, <2>8 DEF WorldFits
<1>8. CandidateFits(run[r], cutoverMarker', db', serving', disk'["current"], writeMarker')
  BY DEF CandidateFits, Running, Recording
<1>9. run' = [run EXCEPT ![r] = run[r]]
  BY RunFacts
<1> QED
  BY <1>1, <1>6, <1>7, <1>8, <1>9, HolderGoesOn

LEMMA MigrateKeeps ==
    ASSUME RecordInv, CutoverInv, NEW r \in Runs, Migrate(r)
    PROVE  CutoverInv'
<1>1. Locked(r) /\ run[r].pc = "migrate" /\ run[r].pc \in Past /\ run[r].pc \in Down
  BY DEF Migrate, Locked, Stages, Past, Down
<1>2. CASE Pending(run[r].release) # {}
  BY <1>2, OneMigration DEF Migrate
<1>3. CASE Pending(run[r].release) = {}
  <2>1. PICK stage \in {"mark migrated", "up"} :
          Step(r, stage) /\ (stage = "mark migrated" => Bounded(r))
    BY <1>3 DEF Migrate
  <2>2. stage \in Stages
    BY DEF Stages
  <2>3. PICK x \in RunState :
          /\ run' = [run EXCEPT ![r] = x] /\ x.pc = stage /\ SameRun(run[r], x)
          /\ x.started = run[r].started /\ x.faults = run[r].faults
          /\ x.n = run[r].n
    BY <2>1, <2>2, StageStep
  <2>4. UNCHANGED <<disk, writeMarker, cutoverMarker, db, serving>>
    BY <1>3 DEF Migrate
  <2>5. OrdinaryFits(run[r], cutoverMarker, db)
    BY <1>1, HolderKnows
  <2>6. CutoverFits(run[r], cutoverMarker, db, serving, disk["current"], writeMarker)
    BY <1>1, HolderKnows
  <2>7. OrdinaryFits(x, cutoverMarker', db')
    BY <1>1, <2>3, <2>4, <2>5 DEF OrdinaryFits, SameRun
  <2>8. CutoverFits(x, cutoverMarker', db', serving', disk'["current"], writeMarker')
    BY <1>1, <2>3, <2>4, <2>6 DEF CutoverFits, SameRun, Owned, Down
  <2>9. CandidateFits(x, cutoverMarker', db', serving', disk'["current"], writeMarker')
    BY <2>3 DEF CandidateFits, Running, Recording
  <2>10. WorldFits'
    BY <2>4, WorldStaysFit DEF WorldStays
  <2> QED
    BY <1>1, <2>3, <2>7, <2>8, <2>9, <2>10, HolderGoesOn
<1> QED
  BY <1>2, <1>3

-----------------------------------------------------------------------------
(* The candidate starts, and its release is recorded *)

\* Run r falls back to stage: to the end of a cutover that has begun, or to the
\* release before it.
LEMMA FallsBack ==
    ASSUME RecordInv, RecordInv', CutoverInv, NEW r \in Runs, Locked(r),
           run[r].pc \in Past \ {"halt", "rollback", "unwind", "unmark"},
           NEW stage \in {"halt", "rollback"}, NEW x \in RunState,
           run' = [run EXCEPT ![r] = x], x.pc = stage, x.mode = run[r].mode,
           x.release = run[r].release, x.started = run[r].started,
           x.mode # "normal" => IF run[r].started THEN stage = "halt" ELSE Marked,
           WorldStays, writeMarker' = writeMarker
    PROVE  CutoverInv'
<1>1. cutoverMarker' = cutoverMarker /\ db' = db
  BY DEF WorldStays
<1>2. OrdinaryFits(run[r], cutoverMarker, db)
  BY HolderKnows
<1>3. CutoverFits(run[r], cutoverMarker, db, serving, disk["current"], writeMarker)
  BY HolderKnows
<1>4. OrdinaryFits(x, cutoverMarker', db')
  BY <1>1, <1>2 DEF OrdinaryFits
<1>5. ASSUME x.mode # "normal", stage = "rollback"
      PROVE  ~run[r].started /\ Marked /\ writeMarker = NoMarker /\ run[r].pc # "settle"
             /\ run[r].pc # "halt"
  <2>1. ~run[r].started /\ Marked
    BY <1>5
  <2>2. run[r].pc \notin Migrating
    BY <1>5, <2>1, HolderKnows DEF StageOK, Underway
  <2>3. writeMarker = NoMarker
    <3>1. run[r].pc \in Unwritten
      BY <2>2 DEF Past, Stages, Migrating, FirstOfRelease, Recording, Unwritten
    <3> QED
      BY <3>1, HolderKnows DEF StageOK, Untouched
  <2>4. run[r].pc # "settle"
    BY <2>2 DEF Migrating, Recording
  <2> QED
    BY <2>1, <2>3, <2>4
<1>6. CutoverFits(x, cutoverMarker', db', serving', disk'["current"], writeMarker')
  <2>1. CASE x.mode = "normal"
    BY <2>1 DEF CutoverFits
  <2>2. CASE x.mode # "normal"
    <3>1. /\ Schema[x.release] = To[x.mode] /\ From[x.mode] <= db /\ db <= To[x.mode]
          /\ ~run[r].started => db = From[x.mode]
          /\ run[r].pc \notin {"prepare", "settle", "halt"} => Owned(run[r], cutoverMarker)
          /\ run[r].pc = "prepare" => cutoverMarker = Unmarked \/ Owned(run[r], cutoverMarker)
      BY <1>3, <2>2 DEF CutoverFits
    <3>2. CASE stage = "halt"
      BY <1>1, <3>1, <3>2 DEF CutoverFits, Down
    <3>3. CASE stage = "rollback"
      <4>1. Marked => cutoverMarker # Unmarked
        BY DEF Marked, Unmarked
      <4>2. Owned(run[r], cutoverMarker)
        BY <1>5, <2>2, <3>1, <3>3, <4>1
      <4>3. Owned(x, cutoverMarker')
        BY <1>1, <4>2 DEF Owned
      <4> QED
        BY <1>1, <1>5, <2>2, <3>1, <3>3, <4>3 DEF CutoverFits, Down
    <3> QED
      BY <3>2, <3>3
  <2> QED
    BY <2>1, <2>2
<1>7. CandidateFits(x, cutoverMarker', db', serving', disk'["current"], writeMarker')
  BY DEF CandidateFits, Running, Recording
<1>8. WorldFits'
  BY WorldStaysFit
<1> QED
  BY <1>4, <1>6, <1>7, <1>8, HolderGoesOn

\* A run of whose candidate the containers are up goes on to record it.
LEMMA RecordingKeeps ==
    ASSUME RecordInv, CutoverInv, NEW r \in Runs, run[r].pc \in Running, run[r].pc # "settle",
           NEW x, run' = [run EXCEPT ![r] = x], x.pc \in Running,
           x.mode = run[r].mode, x.release = run[r].release, x.started = run[r].started,
           UNCHANGED <<cutoverMarker, db, serving>>,
           x.pc \in {"clear", "unblock", "settle"} => disk'["current"] = Whole(x.release),
           x.pc \in {"unblock", "settle"} => writeMarker' = NoMarker,
           x.pc = "settle" => x.mode = "normal"
    PROVE  CutoverInv'
<1>1. Locked(r) /\ run[r].pc \in Past
  BY DEF Locked, Stages, Past, Running, Recording
<1>2. OrdinaryFits(run[r], cutoverMarker, db)
  BY <1>1, HolderKnows
<1>3. CutoverFits(run[r], cutoverMarker, db, serving, disk["current"], writeMarker)
  BY <1>1, HolderKnows
<1>4. CandidateFits(run[r], cutoverMarker, db, serving, disk["current"], writeMarker)
  BY <1>1, HolderKnows
<1>5. OrdinaryFits(x, cutoverMarker', db')
  BY <1>1, <1>2 DEF OrdinaryFits, Running, Recording
<1>6. CutoverFits(x, cutoverMarker', db', serving', disk'["current"], writeMarker')
  BY <1>1, <1>3 DEF CutoverFits, Owned, Down, Running, Recording
<1>7. CandidateFits(x, cutoverMarker', db', serving', disk'["current"], writeMarker')
  BY <1>1, <1>4 DEF CandidateFits, Running, Recording
<1>8. WorldFits'
  BY WorldStaysFit DEF WorldStays
<1> QED
  BY <1>1, <1>5, <1>6, <1>7, <1>8, HolderGoesOn

LEMMA UpKeeps ==
    ASSUME RecordInv, RecordInv', CutoverInv, NEW r \in Runs, Up(r)
    PROVE  CutoverInv'
<1>1. Locked(r) /\ run[r].pc = "up" /\ run[r].pc \in Past /\ run[r].pc \in Down
  BY DEF Up, Locked, Stages, Past, Down
<1>2. UNCHANGED <<disk, writeMarker, cutoverMarker, db>>
  BY DEF Up
<1>3. CASE /\ Starts(run[r].release) /\ serving' = run[r].release /\ Step(r, "check")
  <2>1. "check" \in Stages
    BY DEF Stages
  <2>2. PICK x \in RunState :
          /\ run' = [run EXCEPT ![r] = x] /\ x.pc = "check" /\ SameRun(run[r], x)
          /\ x.started = run[r].started /\ x.faults = run[r].faults
          /\ x.n = run[r].n
    BY <1>3, <2>1, StageStep
  <2>3. OrdinaryFits(run[r], cutoverMarker, db)
    BY <1>1, HolderKnows
  <2>4. CutoverFits(run[r], cutoverMarker, db, serving, disk["current"], writeMarker)
    BY <1>1, HolderKnows
  <2>5. OrdinaryFits(x, cutoverMarker', db')
    BY <1>1, <1>2, <2>2, <2>3 DEF OrdinaryFits, SameRun
  <2>6. CutoverFits(x, cutoverMarker', db', serving', disk'["current"], writeMarker')
    BY <1>1, <1>2, <2>2, <2>4 DEF CutoverFits, SameRun, Owned, Down
  <2>7. CandidateFits(x, cutoverMarker', db', serving', disk'["current"], writeMarker')
    BY <1>2, <1>3, <2>2 DEF CandidateFits, SameRun, Starts
  <2>8. WorldFits'
    BY <1>2, <1>3, WorldStaysFit DEF WorldStays, Starts
  <2> QED
    BY <1>1, <2>2, <2>5, <2>6, <2>7, <2>8, HolderGoesOn
<1>4. CASE serving' = NoRelease /\ Exit(r)
  <2>1. WorldStays
    BY <1>2, <1>4 DEF WorldStays
  <2>2. CASE End(r, "failed")
    BY <1>1, <2>1, <2>2, WorldStaysFit, EndKeeps DEF Ended
  <2>3. CASE ~End(r, "failed")
    <3>1. run[r].mode # "normal" => run[r].started
      BY <1>1, HolderKnows DEF StageOK, Underway, Migrating, FirstOfRelease
    <3>2. PICK stage \in {"halt", "rollback"} :
            /\ Step(r, stage)
            /\ Bounded(r) => IF run[r].started THEN stage = "halt" ELSE Marked
      BY <1>1, <1>4, <2>3 DEF Exit, OnExit, FirstOfRelease
    <3>3. stage \in Stages
      BY DEF Stages
    <3>4. PICK x \in RunState :
            /\ run' = [run EXCEPT ![r] = x] /\ x.pc = stage /\ SameRun(run[r], x)
            /\ x.started = run[r].started /\ x.faults = run[r].faults
            /\ x.n = run[r].n
      BY <3>2, <3>3, StageStep
    <3>5. x.mode # "normal" => IF run[r].started THEN stage = "halt" ELSE Marked
      BY <1>1, <3>2, <3>4, HolderKnows DEF SameRun
    <3>6. x.mode = run[r].mode /\ x.release = run[r].release
      BY <3>4 DEF SameRun
    <3> QED
      BY <1>1, <1>2, <2>1, <3>4, <3>5, <3>6, FallsBack
  <2> QED
    BY <2>2, <2>3
<1> QED
  BY <1>3, <1>4 DEF Up

LEMMA CheckKeeps ==
    ASSUME RecordInv, CutoverInv, NEW r \in Runs, Check(r)
    PROVE  CutoverInv'
<1> DEFINE x == [run[r] EXCEPT !.n = 1,
                   !.pc = IF run[r].available THEN "snapshot" ELSE "forget"]
<1>1. run[r] \in RunState /\ run \in [Runs -> RunState]
  BY RunFacts
<1>2. run' = [run EXCEPT ![r] = x]
  BY <1>1 DEF Check
<1>3. /\ x.pc \in {"snapshot", "forget"} /\ x.mode = run[r].mode
      /\ x.release = run[r].release /\ x.started = run[r].started
  BY <1>1 DEF RunState
<1> HIDE DEF x
<1> QED
  BY <1>2, <1>3, RecordingKeeps DEF Check, Running, Recording

LEMMA CopyKeeps ==
    ASSUME RecordInv, CutoverInv, NEW r \in Runs, run[r].pc \in {"snapshot", "install"},
           NEW from, NEW slot, CopyNext(r, from, slot),
           UNCHANGED <<cutoverMarker, db, serving>>
    PROVE  CutoverInv'
<1> DEFINE x == [run[r] EXCEPT !.n = @ + 1]
<1>1. run[r] \in RunState /\ run \in [Runs -> RunState]
  BY RunFacts
<1>2. run' = [run EXCEPT ![r] = x]
  BY <1>1 DEF CopyNext
<1>3. /\ x.pc = run[r].pc /\ x.mode = run[r].mode
      /\ x.release = run[r].release /\ x.started = run[r].started
  BY <1>1 DEF RunState
<1> HIDE DEF x
<1> QED
  BY <1>2, <1>3, RecordingKeeps DEF Running, Recording

LEMMA RecordStageKeeps ==
    ASSUME RecordInv, CutoverInv, NEW r \in Runs, run[r].pc \in Running, run[r].pc # "settle",
           NEW stage \in Running, Step(r, stage),
           UNCHANGED <<cutoverMarker, db, serving>>,
           stage \in {"clear", "unblock", "settle"} => disk'["current"] = Whole(run[r].release),
           stage \in {"unblock", "settle"} => writeMarker' = NoMarker,
           stage = "settle" => run[r].mode = "normal"
    PROVE  CutoverInv'
<1>1. stage \in Stages
  BY DEF Stages, Running, Recording
<1>2. PICK x \in RunState :
        /\ run' = [run EXCEPT ![r] = x] /\ x.pc = stage /\ SameRun(run[r], x)
        /\ x.started = run[r].started /\ x.faults = run[r].faults
        /\ x.n = run[r].n
  BY <1>1, StageStep
<1>3. x.mode = run[r].mode /\ x.release = run[r].release
  BY <1>2 DEF SameRun
<1> QED
  BY <1>2, <1>3, RecordingKeeps

LEMMA SnapshotKeeps ==
    ASSUME RecordInv, CutoverInv, NEW r \in Runs, Snapshot(r)
    PROVE  CutoverInv'
<1>1. run[r] \in RunState /\ run \in [Runs -> RunState] /\ run[r].pc = "snapshot"
      /\ UNCHANGED <<cutoverMarker, db, serving>>
  BY RunFacts DEF Snapshot
<1>2. CASE CopyNext(r, disk["current"], SnapshotSlot(r))
  BY <1>1, <1>2, CopyKeeps
<1>3. CASE run' = [run EXCEPT ![r].ready = ~Bounded(r),
                     ![r].pc = IF Bounded(r) THEN "forget" ELSE "mark"]
  <2> DEFINE x == [run[r] EXCEPT !.ready = ~Bounded(r),
                     !.pc = IF Bounded(r) THEN "forget" ELSE "mark"]
  <2>1. run' = [run EXCEPT ![r] = x]
    BY <1>1, <1>3
  <2>2. /\ x.pc \in {"forget", "mark"} /\ x.mode = run[r].mode
        /\ x.release = run[r].release /\ x.started = run[r].started
    BY <1>1 DEF RunState
  <2> HIDE DEF x
  <2> QED
    BY <1>1, <2>1, <2>2, RecordingKeeps DEF Running, Recording
<1> QED
  BY <1>2, <1>3 DEF Snapshot

LEMMA MarkWriteKeeps ==
    ASSUME RecordInv, CutoverInv, NEW r \in Runs, MarkWrite(r)
    PROVE  CutoverInv'
<1> DEFINE x == [run[r] EXCEPT !.pc = "install", !.n = 1]
<1>1. run[r] \in RunState /\ run \in [Runs -> RunState]
  BY RunFacts
<1>2. run' = [run EXCEPT ![r] = x]
  BY <1>1 DEF MarkWrite
<1>3. /\ x.pc = "install" /\ x.mode = run[r].mode
      /\ x.release = run[r].release /\ x.started = run[r].started
  BY <1>1 DEF RunState
<1> HIDE DEF x
<1> QED
  BY <1>2, <1>3, RecordingKeeps DEF MarkWrite, Running, Recording

LEMMA InstallKeeps ==
    ASSUME RecordInv, CutoverInv, NEW r \in Runs, Install(r)
    PROVE  CutoverInv'
<1>1. CASE CopyNext(r, Whole(run[r].release), "current")
  BY <1>1, CopyKeeps DEF Install
<1>2. CASE Step(r, "commit")
  BY <1>2, RecordStageKeeps DEF Install, Running, Recording
<1> QED
  BY <1>1, <1>2 DEF Install

LEMMA ClosingKeeps ==
    ASSUME RecordInv, CutoverInv, NEW r \in Runs, Forget(r) \/ Commit(r) \/ Clear(r)
    PROVE  CutoverInv'
<1>1. CASE Forget(r)
  BY <1>1, RecordStageKeeps DEF Forget, Running, Recording
<1>2. CASE Commit(r)
  <2>1. Locked(r) /\ run[r].pc = "commit"
    BY <1>2 DEF Commit, Locked, Stages
  <2>2. disk["current"] = Whole(run[r].release)
    BY <2>1, HolderKnows DEF StageOK, Written
  <2> QED
    BY <1>2, <2>2, RecordStageKeeps DEF Commit, Running, Recording
<1>3. CASE Clear(r)
  <2>1. Locked(r) /\ run[r].pc = "clear"
    BY <1>3 DEF Clear, Locked, Stages
  <2>2. disk["current"] = Whole(run[r].release)
    BY <2>1, HolderKnows DEF CandidateFits
  <2>3. Bounded(r) <=> run[r].mode # "normal"
    BY <2>1, HolderKnows
  <2>4. CASE Step(r, "unblock")
    BY <1>3, <2>1, <2>2, <2>4, RecordStageKeeps DEF Clear, Running, Recording
  <2>5. CASE Step(r, "settle") /\ ~Bounded(r)
    BY <1>3, <2>1, <2>2, <2>3, <2>5, RecordStageKeeps DEF Clear, Running, Recording
  <2> QED
    BY <1>3, <2>4, <2>5 DEF Clear
<1> QED
  BY <1>1, <1>2, <1>3

\* A cutover marker may go once the version is at either end of its cutover.
LEMMA MarkerGoes ==
    ASSUME RecordInv, CutoverInv, NEW k \in Cutovers, db = From[k] \/ db = To[k],
           cutoverMarker' = Unmarked, db' = db, serving' = serving
    PROVE  WorldFits'
<1>1. MarkerFits(cutoverMarker', db')
  BY DEF MarkerFits, Unmarked
<1>2. ASSUME NEW c \in Cutovers
      PROVE  ~(From[c] < db /\ db < To[c])
  <2>1. db \in Nat /\ From[k] <= db /\ db <= To[k]
    BY VersionFacts DEF RecordInv, PlainOK
  <2> QED
    BY <2>1, InsideOne, VersionFacts
<1>3. MidCutoverIsMarked'
  BY <1>2 DEF MidCutoverIsMarked
<1>4. OldReleaseStaysDown'
  BY DEF CutoverInv, OldReleaseStaysDown
<1> QED
  BY <1>1, <1>3, <1>4 DEF WorldFits

LEMMA UnblockKeeps ==
    ASSUME RecordInv, CutoverInv, NEW r \in Runs, Unblock(r)
    PROVE  CutoverInv'
<1>1. /\ Locked(r) /\ run[r].pc = "unblock" /\ run[r].pc \in Past /\ run[r].pc \in Running
      /\ cutoverMarker' = Unmarked /\ UNCHANGED <<disk, writeMarker, db, serving>>
      /\ Step(r, "settle") /\ "settle" \in Stages
  BY DEF Unblock, Locked, Stages, Past, Running, Recording
<1>2. CutoverFits(run[r], cutoverMarker, db, serving, disk["current"], writeMarker)
  BY <1>1, HolderKnows
<1>3. CandidateFits(run[r], cutoverMarker, db, serving, disk["current"], writeMarker)
  BY <1>1, HolderKnows
<1>4. OrdinaryFits(run[r], cutoverMarker, db)
  BY <1>1, HolderKnows
<1>5. PICK x \in RunState :
        /\ run' = [run EXCEPT ![r] = x] /\ x.pc = "settle" /\ SameRun(run[r], x)
        /\ x.started = run[r].started /\ x.faults = run[r].faults
        /\ x.n = run[r].n
  BY <1>1, StageStep
<1>6. CutoverFits(x, cutoverMarker', db', serving', disk'["current"], writeMarker')
  BY <1>1, <1>2, <1>5 DEF CutoverFits, SameRun, Down
<1>7. CandidateFits(x, cutoverMarker', db', serving', disk'["current"], writeMarker')
  BY <1>1, <1>3, <1>5 DEF CandidateFits, SameRun
<1>8. OrdinaryFits(x, cutoverMarker', db')
  BY <1>1, <1>5 DEF OrdinaryFits
<1>9. WorldFits'
  <2>1. CASE run[r].mode = "normal"
    <3>1. cutoverMarker' = cutoverMarker
      BY <1>1, <1>4, <2>1 DEF OrdinaryFits
    <3> QED
      BY <1>1, <3>1, WorldStaysFit DEF WorldStays
  <2>2. CASE run[r].mode # "normal"
    <3>1. db = To[run[r].mode] /\ run[r].mode \in Cutovers
      BY <1>1, <1>2, <1>3, <2>2, HolderKnows DEF CutoverFits, CandidateFits
    <3> QED
      BY <1>1, <3>1, MarkerGoes
  <2> QED
    BY <2>1, <2>2
<1> QED
  BY <1>1, <1>5, <1>6, <1>7, <1>8, <1>9, HolderGoesOn

LEMMA SettleKeeps ==
    ASSUME RecordInv, CutoverInv, NEW r \in Runs, Settle(r)
    PROVE  CutoverInv'
BY EndKeeps DEF Settle, Ended

\* A committed cutover is one of a bounded run.
LEMMA ConfirmKeeps ==
    ASSUME RecordInv, CutoverInv, NEW r \in Runs, Confirm(r)
    PROVE  CutoverInv'
<1>1. /\ Locked(r) /\ run[r].pc = "confirm" /\ run[r].pc \in OfCutover /\ db' = db
  BY DEF Confirm, Locked, Stages, OfCutover
<1>2. run[r].mode \in Cutovers
  BY <1>1, HolderKnows DEF StageOK, Underway
<1>3. CASE serving = run[r].release /\ db = To[run[r].mode]
  <2>1. cutoverMarker' = Unmarked /\ serving' = serving /\ End(r, "done")
    BY <1>3 DEF Confirm
  <2>2. WorldFits'
    BY <1>1, <1>2, <1>3, <2>1, MarkerGoes
  <2> QED
    BY <1>1, <2>1, <2>2, EndKeeps DEF Ended
<1>4. CASE ~(serving = run[r].release /\ db = To[run[r].mode])
  <2>1. WorldStays /\ End(r, "failed")
    BY <1>1, <1>4 DEF Confirm, WorldStays
  <2> QED
    BY <1>1, <2>1, WorldStaysFit, EndKeeps DEF Ended
<1> QED
  BY <1>3, <1>4

-----------------------------------------------------------------------------
(* Failure, and the EXIT trap *)

LEMMA FailKeeps ==
    ASSUME RecordInv, RecordInv', CutoverInv, NEW r \in Runs, Fail(r)
    PROVE  CutoverInv'
<1>1. /\ Locked(r) /\ run[r].pc \in Failing /\ writeMarker' = writeMarker
      /\ run[r].faults < MaxFaults
  BY DEF Fail, Failing, Locked
<1>2. WorldStays
  BY DEF Fail, Interrupted, WorldStays
<1>3. CASE End(r, "failed")
  BY <1>1, <1>2, <1>3, WorldStaysFit, EndKeeps DEF Ended
<1>4. CASE /\ OnExit(r) # "failed"
           /\ run' = [run EXCEPT ![r].pc = OnExit(r), ![r].faults = @ + 1]
  <2>1. PICK stage \in {"halt", "rollback"} :
          /\ run' = [run EXCEPT ![r].pc = stage, ![r].faults = @ + 1]
          /\ Bounded(r) => IF run[r].started THEN stage = "halt" ELSE Marked
    BY <1>4 DEF OnExit
  <2>2. run[r].pc \in Past \ {"halt", "rollback", "unwind", "unmark"}
    BY <1>1, <1>4 DEF OnExit, Failing, Past
  <2>3. PICK x \in RunState :
          /\ run' = [run EXCEPT ![r] = x] /\ x.pc = stage /\ SameRun(run[r], x)
          /\ x.started = run[r].started /\ x.faults >= 1
    BY <1>1, <2>1, FailStage
  <2>4. x.mode # "normal" => IF run[r].started THEN stage = "halt" ELSE Marked
    BY <1>1, <2>1, <2>3, HolderKnows DEF SameRun
  <2>5. x.mode = run[r].mode /\ x.release = run[r].release
    BY <2>3 DEF SameRun
  <2> QED
    BY <1>1, <1>2, <2>2, <2>3, <2>4, <2>5, FallsBack
<1> QED
  BY <1>3, <1>4 DEF Fail

\* A run that ends leaving the marker and the schema.
LEMMA EndingKeeps ==
    ASSUME RecordInv, CutoverInv, NEW r \in Runs, Crash(r) \/ Halt(r) \/ RollbackFails(r)
    PROVE  CutoverInv'
<1>1. Locked(r)
  BY DEF Crash, Halt, RollbackFails, Locked, Stages
<1>2. WorldStays
  <2>1. CASE Crash(r)
    BY <2>1 DEF Crash, Interrupted, WorldStays
  <2>2. CASE Halt(r)
    BY <2>2 DEF Halt, WorldStays
  <2>3. CASE RollbackFails(r)
    BY <2>3 DEF RollbackFails, Starts, WorldStays
  <2> QED
    BY <2>1, <2>2, <2>3
<1>3. PICK o \in Ended : End(r, o)
  BY DEF Crash, Halt, RollbackFails, Ended
<1> QED
  BY <1>1, <1>2, <1>3, WorldStaysFit, EndKeeps

LEMMA UnmarkKeeps ==
    ASSUME RecordInv, CutoverInv, NEW r \in Runs, Unmark(r)
    PROVE  CutoverInv'
<1>1. /\ Locked(r) /\ run[r].pc = "unmark" /\ run[r].pc \in Past /\ End(r, "restored")
      /\ UNCHANGED <<disk, writeMarker, db, serving>>
  BY DEF Unmark, Locked, Stages, Past
<1>2. WorldFits'
  <2>1. CASE Bounded(r)
    <3>1. run[r].mode \in Cutovers /\ db = From[run[r].mode]
      BY <1>1, <2>1, HolderKnows DEF CutoverFits
    <3>2. cutoverMarker' = Unmarked
      BY <2>1 DEF Unmark
    <3> QED
      BY <1>1, <3>1, <3>2, MarkerGoes
  <2>2. CASE ~Bounded(r)
    BY <1>1, <2>2, WorldStaysFit DEF Unmark, WorldStays
  <2> QED
    BY <2>1, <2>2
<1> QED
  BY <1>1, <1>2, EndKeeps DEF Ended

LEMMA RollbackStartsKeeps ==
    ASSUME RecordInv, CutoverInv, NEW r \in Runs, RollbackStarts(r)
    PROVE  CutoverInv'
<1>1. /\ Locked(r) /\ run[r].pc = "rollback" /\ run[r].pc \in Past
      /\ UNCHANGED <<disk, writeMarker, cutoverMarker, db>>
      /\ serving' \in Releases /\ Schema[serving'] = db /\ serving' = RollbackRelease(r)
  BY DEF RollbackStarts, Starts, Locked, Stages, Past
<1>2. OrdinaryFits(run[r], cutoverMarker, db)
  BY <1>1, HolderKnows
<1>3. CutoverFits(run[r], cutoverMarker, db, serving, disk["current"], writeMarker)
  BY <1>1, HolderKnows
<1>4. WorldFits'
  BY <1>1, WorldStaysFit DEF WorldStays
<1>5. ASSUME run[r].mode # "normal"
      PROVE  writeMarker = NoMarker /\ disk["current"] = Whole(serving')
  <2>1. writeMarker = NoMarker /\ ~run[r].ready
    BY <1>1, <1>3, <1>5, HolderKnows DEF CutoverFits, StageOK, Snapshotted
  <2>2. PICK release \in Releases \cup {Missing} : disk["current"] = Whole(release)
    BY <1>1, <2>1, HolderKnows DEF RecordOK
  <2>3. serving' = disk["current"]["images"]
    BY <1>1, <2>1 DEF RollbackRelease, RollbackSlot
  <2>4. serving' = release
    BY <2>2, <2>3, FileFacts, WholeFacts
  <2> QED
    BY <2>1, <2>2, <2>4
<1>6. PICK stage \in {"unmark", "unwind"} :
        /\ Step(r, stage) \/ BeginRestore(r, stage)
        /\ writeMarker = NoMarker => stage = "unmark"
  BY DEF RollbackStarts
<1>7. stage \in Stages
  BY DEF Stages
<1>8. PICK x \in RunState :
        /\ run' = [run EXCEPT ![r] = x] /\ x.pc = stage /\ SameRun(run[r], x)
        /\ x.started = run[r].started /\ x.faults = run[r].faults
  <2>1. CASE Step(r, stage)
    BY <1>7, <2>1, StageStep
  <2>2. CASE BeginRestore(r, stage)
    BY <1>7, <2>2, RestoreBegins
  <2> QED
    BY <1>6, <2>1, <2>2
<1>9. OrdinaryFits(x, cutoverMarker', db')
  BY <1>1, <1>2, <1>8 DEF OrdinaryFits, SameRun
<1>10. CutoverFits(x, cutoverMarker', db', serving', disk'["current"], writeMarker')
  BY <1>1, <1>3, <1>5, <1>6, <1>8 DEF CutoverFits, SameRun, Owned, Down
<1>11. CandidateFits(x, cutoverMarker', db', serving', disk'["current"], writeMarker')
  BY <1>8 DEF CandidateFits, Running, Recording
<1> QED
  BY <1>1, <1>4, <1>8, <1>9, <1>10, <1>11, HolderGoesOn

\* Only an ordinary run unwinds.
LEMMA UnwindKeeps ==
    ASSUME RecordInv, CutoverInv, NEW r \in Runs, Unwind(r)
    PROVE  CutoverInv'
<1>1. /\ Locked(r) /\ run[r].pc = "unwind" /\ run[r].pc \in Past
      /\ UNCHANGED <<cutoverMarker, db, serving>>
      /\ run[r] \in RunState /\ run \in [Runs -> RunState]
  BY RunFacts DEF Unwind, Locked, Stages, Past
<1>2. run[r].mode = "normal" /\ cutoverMarker = Unmarked
  BY <1>1, HolderKnows DEF OrdinaryFits, CutoverFits
<1>3. PICK x : /\ run' = [run EXCEPT ![r] = x] /\ x.pc \in {"unwind", "unmark"}
               /\ x.mode = "normal"
  <2>1. CASE Step(r, "unmark")
    <3> DEFINE x == [run[r] EXCEPT !.pc = "unmark"]
    <3>1. run' = [run EXCEPT ![r] = x] /\ x.pc = "unmark" /\ x.mode = "normal"
      BY <1>1, <1>2, <2>1 DEF Step, RunState
    <3> QED
      BY <3>1
  <2>2. CASE ~Step(r, "unmark")
    <3>1. PICK failed \in BOOLEAN :
            run' = [run EXCEPT ![r].n = @ + 1,
                      ![r].faults = @ + (IF failed THEN 1 ELSE 0)]
      BY <2>2 DEF Unwind
    <3> DEFINE m == run[r].faults + (IF failed THEN 1 ELSE 0)
               x == [run[r] EXCEPT !.n = @ + 1, !.faults = m]
    <3>2. run' = [run EXCEPT ![r] = x]
      BY <1>1, <3>1
    <3> HIDE DEF m
    <3>3. x.pc = "unwind" /\ x.mode = "normal"
      BY <1>1, <1>2 DEF RunState
    <3> QED
      BY <3>2, <3>3
  <2> QED
    BY <2>1, <2>2
<1>4. OrdinaryFits(x, cutoverMarker', db')
  BY <1>1, <1>2, <1>3 DEF OrdinaryFits
<1>5. CutoverFits(x, cutoverMarker', db', serving', disk'["current"], writeMarker')
  BY <1>3 DEF CutoverFits
<1>6. CandidateFits(x, cutoverMarker', db', serving', disk'["current"], writeMarker')
  BY <1>3 DEF CandidateFits, Running, Recording
<1>7. WorldFits'
  BY <1>1, WorldStaysFit DEF WorldStays
<1> QED
  BY <1>1, <1>3, <1>4, <1>5, <1>6, <1>7, HolderGoesOn

LEMMA ManualKeeps ==
    ASSUME RecordInv, CutoverInv, ManualMigrate
    PROVE  CutoverInv'
<1>1. /\ cutoverMarker' = cutoverMarker /\ serving' = serving /\ run' = run /\ db' = db + 1
      /\ Marked /\ serving = NoRelease /\ db < cutoverMarker.target /\ db \in Nat
      /\ \A r \in Runs : ~Locked(r)
  BY DEF ManualMigrate, Marked, RecordInv, PlainOK
<1>2. PICK k \in Cutovers : cutoverMarker.target = To[k] /\ From[k] <= db /\ db <= To[k]
  BY <1>1 DEF CutoverInv, MarkerFits, Marked
<1>3. From[k] \in Nat /\ To[k] \in Nat /\ From[k] <= db + 1 /\ db + 1 <= To[k]
  BY <1>1, <1>2, VersionFacts
<1>4. MarkerFits(cutoverMarker', db')
  BY <1>1, <1>2, <1>3 DEF CutoverInv, MarkerFits
<1>5. MidCutoverIsMarked'
  BY <1>1, <1>2, <1>3, InsideOne DEF MidCutoverIsMarked, Marked
<1>6. OldReleaseStaysDown'
  BY <1>1, ContentsFacts DEF OldReleaseStaysDown
<1>7. \A r \in Runs : ~Locked(r)'
  BY <1>1 DEF Locked
<1> QED
  BY <1>4, <1>5, <1>6, <1>7 DEF CutoverInv

-----------------------------------------------------------------------------
(* The cutover's theorems *)

LEMMA CutoverInit ==
    ASSUME Init
    PROVE  CutoverInv
<1>1. /\ cutoverMarker = Unmarked /\ db = InitialVersion /\ run = [r \in Runs |-> Idle]
      /\ serving \in Releases => Schema[serving] = InitialVersion
  BY DEF Init
<1>2. MarkerFits(cutoverMarker, db)
  BY <1>1 DEF MarkerFits, Unmarked
<1>3. MidCutoverIsMarked
  <2>1. ASSUME NEW c \in Cutovers
        PROVE  ~(From[c] < db /\ db < To[c])
    <3>1. InitialVersion <= From[c] \/ To[c] <= InitialVersion
      BY CutoverRanges
    <3>2. InitialVersion \in Nat
      BY ConstantsAssumption
    <3> QED
      BY <1>1, <3>1, <3>2, VersionFacts
  <2> QED
    BY <2>1 DEF MidCutoverIsMarked
<1>4. OldReleaseStaysDown
  <2>1. InitialVersion \in Nat /\ Guarded \subseteq Nat
    BY ConstantsAssumption
  <2> QED
    BY <1>1, <2>1 DEF OldReleaseStaysDown
<1>5. \A r \in Runs : ~Locked(r)
  BY <1>1 DEF Locked, Idle, Stages
<1> QED
  BY <1>2, <1>3, <1>4, <1>5 DEF CutoverInv

LEMMA CutoverNext ==
    ASSUME RecordInv, RecordInv', CutoverInv, [Next]_vars
    PROVE  CutoverInv'
<1>1. CASE ManualMigrate
  BY <1>1, ManualKeeps
<1>2. CASE \E r \in Runs : Advance(r)
  <2>1. PICK r \in Runs : Advance(r)
    BY <1>2
  <2>2. CASE Plan(r) \/ Lock(r) \/ Restore(r) \/ Verify(r) \/ Preflight(r) \/ Confirm(r)
    BY <2>2, PlanKeeps, RestoreKeeps, VerifyKeeps, PreflightKeeps, ConfirmKeeps
  <2>3. CASE Reconcile(r) \/ Prepare(r) \/ MarkStopped(r) \/ MarkStarted(r) \/ MarkMigrated(r)
    BY <2>3, CutoverKeeps
  <2>4. CASE Stop(r) \/ Begin(r) \/ Migrate(r) \/ Up(r) \/ Check(r) \/ Snapshot(r)
    BY <2>4, StopKeeps, BeginKeeps, MigrateKeeps, UpKeeps, CheckKeeps, SnapshotKeeps
  <2>5. CASE MarkWrite(r) \/ Install(r) \/ Forget(r) \/ Commit(r) \/ Clear(r) \/ Unblock(r)
             \/ Settle(r)
    BY <2>5, MarkWriteKeeps, InstallKeeps, ClosingKeeps, UnblockKeeps, SettleKeeps
  <2>6. CASE Halt(r) \/ RollbackFails(r) \/ RollbackStarts(r) \/ Unwind(r) \/ Unmark(r)
    BY <2>6, EndingKeeps, RollbackStartsKeeps, UnwindKeeps, UnmarkKeeps
  <2> QED
    BY <2>1, <2>2, <2>3, <2>4, <2>5, <2>6 DEF Advance
<1>3. CASE \E r \in Runs : Fail(r) \/ Crash(r)
  BY <1>3, FailKeeps, EndingKeeps
<1>4. CASE UNCHANGED vars
  <2>1. /\ run' = run /\ writeMarker' = writeMarker /\ disk' = disk
        /\ cutoverMarker' = cutoverMarker /\ serving' = serving /\ db' = db
    BY <1>4 DEF vars
  <2>2. MarkerFits(cutoverMarker', db') /\ MidCutoverIsMarked' /\ OldReleaseStaysDown'
    BY <2>1 DEF CutoverInv, MidCutoverIsMarked, Marked, OldReleaseStaysDown
  <2> QED
    BY <2>1, <2>2 DEF CutoverInv, Locked
<1> QED
  BY <1>1, <1>2, <1>3, <1>4 DEF Next

LEMMA CutoverInvariant ==
    ASSUME MaxFaults <= 1
    PROVE  Spec => [](RecordInv /\ CutoverInv)
<1>1. Init => RecordInv /\ CutoverInv
  BY InitInv, CutoverInit
<1>2. RecordInv /\ CutoverInv /\ [Next]_vars => RecordInv' /\ CutoverInv'
  BY NextInv, CutoverNext
<1> QED
  BY <1>1, <1>2, PTL DEF Spec

\* No release is served on a schema changed by a guarded migration that it does
\* not know, wherever the deployments and cutovers of any runs are killed or one
\* command of each fails: the services are down from before the first migration
\* of a cutover, and no gate lets another run start them.
THEOREM OldReleaseIsDown ==
    ASSUME MaxFaults <= 1
    PROVE  Spec => []OldReleaseStaysDown
<1>1. RecordInv /\ CutoverInv => OldReleaseStaysDown
  BY DEF CutoverInv
<1> QED
  BY <1>1, CutoverInvariant, PTL

\* What a step does to the cutover marker.
MarkerMoves ==
    Marked =>
      \/ /\ cutoverMarker'.release = cutoverMarker.release
         /\ cutoverMarker'.target = cutoverMarker.target
      \/ /\ cutoverMarker' = Unmarked /\ db = cutoverMarker.target
         /\ disk["current"] = Whole(cutoverMarker.release)
      \/ /\ cutoverMarker' = Unmarked /\ serving \in Releases
         /\ Schema[serving] = db
         /\ disk["current"] = Whole(serving)

LEMMA MarkerMovesMarking ==
    ASSUME RecordInv, CutoverInv, NEW r \in Runs,
           \/ Reconcile(r) \/ Prepare(r) \/ MarkStopped(r) \/ MarkStarted(r) \/ MarkMigrated(r)
    PROVE  MarkerMoves
<1>1. PICK phase \in {"prepared", "services-stopped", "migration-started", "data-migrated"} :
        Mark(r, phase)
  BY DEF Reconcile, Prepare, MarkStopped, MarkStarted, MarkMigrated
<1>2. /\ Locked(r) /\ run[r].pc \in Past /\ run[r].pc \in OfCutover
      /\ run[r].pc \notin {"settle", "halt"}
  BY DEF Reconcile, Prepare, MarkStopped, MarkStarted, MarkMigrated, Locked, Past, Stages,
     OfCutover
<1>3. run[r].mode # "normal"
  BY <1>2, HolderKnows DEF StageOK, Underway
<1>4. cutoverMarker = Unmarked \/ Owned(run[r], cutoverMarker)
  BY <1>2, <1>3, HolderKnows DEF CutoverFits
<1> QED
  BY <1>1, <1>4 DEF MarkerMoves, Mark, Owned, Marked, Unmarked

LEMMA MarkerMovesAway ==
    ASSUME RecordInv, CutoverInv, NEW r \in Runs, Confirm(r) \/ Unblock(r) \/ Unmark(r)
    PROVE  MarkerMoves
<1>1. Locked(r) /\ run[r].pc \in Past
  BY DEF Confirm, Unblock, Unmark, Locked, Past, Stages
<1>2. CASE cutoverMarker' = cutoverMarker
  BY <1>2 DEF MarkerMoves
<1>3. CASE cutoverMarker' = Unmarked /\ Confirm(r) /\ db = To[run[r].mode]
  <2>1. run[r].pc = "confirm" /\ run[r].pc \in OfCutover
    BY <1>3 DEF Confirm, OfCutover
  <2>2. run[r].mode # "normal"
    BY <1>1, <2>1, HolderKnows DEF StageOK, Underway
  <2>3. /\ cutoverMarker = [release |-> run[r].release, phase |-> "data-migrated",
                            target |-> To[run[r].mode]]
        /\ disk["current"] = Whole(run[r].release)
    BY <1>1, <2>1, <2>2, HolderKnows DEF CandidateFits
  <2>4. cutoverMarker.target = To[run[r].mode] /\ cutoverMarker.release = run[r].release
    BY <2>3
  <2> QED
    BY <1>3, <2>3, <2>4 DEF MarkerMoves
<1>4. CASE cutoverMarker' = Unmarked /\ Unblock(r)
  <2>1. run[r].pc = "unblock" /\ run[r].pc \in Running
    BY <1>4 DEF Unblock, Running, Recording
  <2>2. disk["current"] = Whole(run[r].release) /\ db = Schema[run[r].release]
    BY <1>1, <2>1, HolderKnows DEF CandidateFits
  <2>3. CASE run[r].mode = "normal"
    BY <1>1, <2>3, HolderKnows DEF OrdinaryFits, MarkerMoves, Marked, Unmarked
  <2>4. CASE run[r].mode # "normal"
    <3>1. Owned(run[r], cutoverMarker) /\ Schema[run[r].release] = To[run[r].mode]
      BY <1>1, <2>1, <2>4, HolderKnows DEF CutoverFits
    <3> QED
      BY <1>4, <2>2, <3>1 DEF MarkerMoves, Owned
  <2> QED
    BY <2>3, <2>4
<1>5. CASE cutoverMarker' = Unmarked /\ Unmark(r) /\ Bounded(r)
  <2>1. run[r].pc = "unmark"
    BY <1>5 DEF Unmark
  <2>2. run[r].mode # "normal"
    BY <1>1, <1>5, HolderKnows
  <2>3. serving \in Releases /\ Schema[serving] = db /\ disk["current"] = Whole(serving)
    BY <1>1, <2>1, <2>2, HolderKnows DEF CutoverFits
  <2> QED
    BY <1>5, <2>3 DEF MarkerMoves
<1> QED
  BY <1>2, <1>3, <1>4, <1>5 DEF Confirm, Unblock, Unmark

LEMMA MarkerMovesNext ==
    ASSUME RecordInv, CutoverInv, [Next]_vars
    PROVE  MarkerMoves
<1>1. CASE cutoverMarker' = cutoverMarker
  BY <1>1 DEF MarkerMoves
<1>2. CASE cutoverMarker' # cutoverMarker
  <2>1. ~ManualMigrate /\ ~UNCHANGED vars
    BY <1>2 DEF ManualMigrate, vars
  <2>2. PICK r \in Runs : Advance(r) \/ Fail(r) \/ Crash(r)
    BY <2>1, SMTT(40) DEF Next
  <2>3. \/ Reconcile(r) \/ Prepare(r) \/ MarkStopped(r) \/ MarkStarted(r) \/ MarkMigrated(r)
        \/ Confirm(r) \/ Unblock(r) \/ Unmark(r)
    BY <1>2, <2>2
    DEF Advance, Fail, Crash, Plan, Lock, Restore, Verify, Preflight, Stop, Begin, Migrate,
        Up, Check, Snapshot, Forget, MarkWrite, Install, Commit, Clear, Settle, Halt,
        RollbackFails, RollbackStarts, Unwind
  <2> QED
    BY <2>3, MarkerMovesMarking, MarkerMovesAway
<1> QED
  BY <1>1, <1>2

\* A schema in the middle of a cutover is covered by that cutover's marker, and
\* a marker changes owner or goes only when the cutover is complete (its release
\* recorded, its schema reached) or undone (the recorded release running on the
\* schema it was on).
THEOREM CutoversExclude ==
    ASSUME MaxFaults <= 1
    PROVE  Spec => CutoverIsExclusive
<1>1. RecordInv /\ CutoverInv => MidCutoverIsMarked
  BY DEF CutoverInv
<1>2. RecordInv /\ CutoverInv /\ [Next]_vars => [MarkerMoves]_vars
  BY MarkerMovesNext
<1>3. Spec => []MidCutoverIsMarked
  BY <1>1, CutoverInvariant, PTL
<1>4. Spec => [][MarkerMoves]_vars
  BY <1>2, CutoverInvariant, PTL DEF Spec
<1> QED
  BY <1>3, <1>4 DEF CutoverIsExclusive, OnlyMarkedReleaseProceeds, MarkerMoves

\* What a run leaves that ends with success.
CompleteAfter(r) ==
    /\ serving = run[r].release
    /\ disk["current"] = Whole(run[r].release)
    /\ db = Schema[run[r].release]
    /\ writeMarker' = NoMarker /\ cutoverMarker' = Unmarked

LEMMA DoneIsComplete ==
    ASSUME RecordInv, CutoverInv, NEW r \in Runs, Settle(r) \/ Confirm(r), run'[r].pc = "done"
    PROVE  CompleteAfter(r)
<1>1. Locked(r) /\ run[r].pc \in Past
  BY DEF Confirm, Settle, Locked, Past, Stages
<1>2. CASE Settle(r)
  <2>1. run[r].pc = "settle" /\ run[r].pc \in Running
        /\ cutoverMarker' = cutoverMarker /\ writeMarker' = writeMarker
    BY <1>2 DEF Settle, Running, Recording
  <2>2. /\ serving = run[r].release /\ Schema[run[r].release] = db
        /\ disk["current"] = Whole(run[r].release) /\ writeMarker = NoMarker
    BY <1>1, <2>1, HolderKnows DEF CandidateFits
  <2>3. cutoverMarker = Unmarked
    BY <1>1, <2>1, HolderKnows DEF OrdinaryFits, CutoverFits
  <2> QED
    BY <2>1, <2>2, <2>3 DEF CompleteAfter
<1>3. CASE Confirm(r)
  <2>1. run[r].pc = "confirm" /\ run[r].pc \in OfCutover /\ run[r].pc \in Unwritten
        /\ writeMarker' = writeMarker
    BY <1>3 DEF Confirm, OfCutover, Unwritten
  <2>2. run[r].mode # "normal" /\ writeMarker = NoMarker
    BY <1>1, <2>1, HolderKnows DEF StageOK, Underway, Untouched
  <2>3. ~End(r, "failed")
    <3>1. "failed" \in Ended
      BY DEF Ended
    <3>2. End(r, "failed") => run'[r].pc = "failed"
      BY <3>1, EndPromises
    <3> QED
      BY <3>2
  <2>4. serving = run[r].release /\ db = To[run[r].mode] /\ cutoverMarker' = Unmarked
    BY <1>3, <2>3 DEF Confirm
  <2>5. disk["current"] = Whole(run[r].release) /\ Schema[run[r].release] = To[run[r].mode]
    BY <1>1, <2>1, <2>2, HolderKnows DEF CutoverFits, CandidateFits
  <2> QED
    BY <2>1, <2>2, <2>4, <2>5 DEF CompleteAfter
<1> QED
  BY <1>2, <1>3

\* The acting run goes on as a run that has not ended with success.
Undone(r) == \E x : run' = [run EXCEPT ![r] = x] /\ x.pc # "done"

LEMMA UndoneSteps ==
    ASSUME RecordInv, NEW r \in Runs
    PROVE  /\ \A stage \in Stages : Step(r, stage) \/ BeginRestore(r, stage) => Undone(r)
           /\ \A o \in Ended \ {"done"} : End(r, o) => Undone(r)
           /\ \A from, slot : CopyNext(r, from, slot) /\ run[r].pc # "done" => Undone(r)
<1>1. ASSUME NEW stage \in Stages, Step(r, stage)
      PROVE  Undone(r)
  <2>1. stage # "done"
    BY DEF Stages
  <2> QED
    BY <1>1, <2>1, StageStep DEF Undone
<1>2. ASSUME NEW stage \in Stages, BeginRestore(r, stage)
      PROVE  Undone(r)
  <2>1. stage # "done"
    BY DEF Stages
  <2> QED
    BY <1>2, <2>1, RestoreBegins DEF Undone
<1>3. ASSUME NEW o \in Ended \ {"done"}, End(r, o)
      PROVE  Undone(r)
  <2> DEFINE x == [Idle EXCEPT !.pc = o]
  <2>1. run' = [run EXCEPT ![r] = x] /\ x.pc = o
    BY <1>3, IdleFacts DEF End
  <2> HIDE DEF x
  <2> QED
    BY <2>1 DEF Undone
<1>4. ASSUME NEW from, NEW slot, CopyNext(r, from, slot), run[r].pc # "done"
      PROVE  Undone(r)
  <2> DEFINE x == [run[r] EXCEPT !.n = @ + 1]
  <2>1. run' = [run EXCEPT ![r] = x] /\ x.pc = run[r].pc
    BY <1>4, RunFacts DEF CopyNext, RunState
  <2> HIDE DEF x
  <2> QED
    BY <1>4, <2>1 DEF Undone
<1> QED
  BY <1>1, <1>2, <1>3, <1>4

LEMMA OthersUndone ==
    ASSUME RecordInv, NEW r \in Runs,
           (Advance(r) /\ ~Settle(r) /\ ~Confirm(r)) \/ Fail(r) \/ Crash(r)
    PROVE  Undone(r) \/ run' = run
<1>1. run[r] \in RunState /\ run \in [Runs -> RunState]
  BY RunFacts
<1>2. CASE Plan(r)
  <2>1. CASE End(r, "refused")
    BY <2>1, UndoneSteps DEF Ended
  <2>2. CASE ~End(r, "refused")
    <3>1. PICK mode \in Modes, release \in Releases :
            run' = [run EXCEPT ![r] =
                   [Idle EXCEPT !.pc = "planned", !.mode = mode, !.release = release,
                      !.available = \A f \in Files : PlanningBase(mode)[f] \in Releases,
                      !.planned = IF \A f \in Files : PlanningBase(mode)[f] \in Releases
                                  THEN PlanningBase(mode) ELSE Absent,
                      !.fingerprint = Fingerprint]]
      BY <1>2, <2>2 DEF Plan
    <3> DEFINE x == [Idle EXCEPT !.pc = "planned", !.mode = mode, !.release = release,
                      !.available = \A f \in Files : PlanningBase(mode)[f] \in Releases,
                      !.planned = IF \A f \in Files : PlanningBase(mode)[f] \in Releases
                                  THEN PlanningBase(mode) ELSE Absent,
                      !.fingerprint = Fingerprint]
    <3>2. run' = [run EXCEPT ![r] = x] /\ x.pc = "planned"
      BY <3>1 DEF Idle
    <3> HIDE DEF x
    <3> QED
      BY <3>2 DEF Undone
  <2> QED
    BY <2>1, <2>2
<1>3. CASE Lock(r) \/ Restore(r)
  BY <1>3, UndoneSteps DEF Lock, Restore, Stages, Ended
<1>4. CASE \/ Reconcile(r) \/ Prepare(r) \/ Stop(r) \/ MarkStopped(r) \/ MarkStarted(r)
           \/ Migrate(r) \/ MarkMigrated(r)
  BY <1>4, UndoneSteps
  DEF Reconcile, Prepare, Stop, MarkStopped, MarkStarted, Migrate, MarkMigrated, Stages
<1>5. CASE Up(r)
  <2>1. OnExit(r) \in {"failed", "halt", "rollback"}
    BY DEF OnExit
  <2> QED
    BY <1>5, <2>1, UndoneSteps DEF Up, Exit, Stages, Ended
<1>6. CASE Forget(r) \/ Install(r) \/ Commit(r) \/ Clear(r) \/ Unblock(r)
  BY <1>6, UndoneSteps DEF Forget, Install, Commit, Clear, Unblock, Stages
<1>7. CASE Halt(r) \/ RollbackFails(r) \/ RollbackStarts(r) \/ Unmark(r) \/ Crash(r)
  BY <1>7, UndoneSteps DEF Halt, RollbackFails, RollbackStarts, Unmark, Crash, Stages, Ended
<1>8. CASE Fail(r)
  <2>1. CASE End(r, "failed")
    BY <2>1, UndoneSteps DEF Ended
  <2>2. CASE ~End(r, "failed")
    <3>1. PICK stage \in {"halt", "rollback"} :
            run' = [run EXCEPT ![r].pc = stage, ![r].faults = @ + 1]
      BY <1>8, <2>2 DEF Fail, OnExit
    <3>2. run[r].faults < MaxFaults
      BY <1>8 DEF Fail
    <3> QED
      BY <3>1, <3>2, FailStage DEF Undone
  <2> QED
    BY <2>1, <2>2
<1>9. CASE Verify(r) \/ Preflight(r) \/ Begin(r) \/ Check(r) \/ MarkWrite(r) \/ Snapshot(r)
  <2>1. CASE End(r, "refused")
    BY <2>1, UndoneSteps DEF Ended
  <2>2. CASE Step(r, "migrate")
    BY <2>2, UndoneSteps DEF Stages
  <2>3. CASE CopyNext(r, disk["current"], SnapshotSlot(r)) /\ Snapshot(r)
    BY <2>3, UndoneSteps DEF Snapshot
  <2>4. CASE Verify(r) /\ ~End(r, "refused")
    <3> DEFINE x == [run[r] EXCEPT !.pc = "preflight", !.fingerprint = Idle.fingerprint]
    <3>1. run' = [run EXCEPT ![r] = x] /\ x.pc = "preflight"
      BY <1>1, <2>4 DEF Verify, RunState
    <3> QED
      BY <3>1 DEF Undone
  <2>5. CASE Preflight(r) /\ ~End(r, "refused") /\ ~Step(r, "migrate")
    <3>1. PICK started \in BOOLEAN, stage \in {"confirm", "reconcile", "stop", "prepare"} :
            run' = [run EXCEPT ![r].started = started, ![r].pc = stage]
      BY <2>5 DEF Preflight, AfterPreflight
    <3> DEFINE x == [run[r] EXCEPT !.started = started, !.pc = stage]
    <3>2. run' = [run EXCEPT ![r] = x] /\ x.pc = stage
      BY <1>1, <3>1 DEF RunState
    <3> HIDE DEF x
    <3> QED
      BY <3>2 DEF Undone
  <2>6. CASE Begin(r)
    <3> DEFINE x == [run[r] EXCEPT !.pc = "mark started", !.started = TRUE]
    <3>1. run' = [run EXCEPT ![r] = x] /\ x.pc = "mark started"
      BY <1>1, <2>6 DEF Begin, RunState
    <3> QED
      BY <3>1 DEF Undone
  <2>7. CASE Check(r)
    <3> DEFINE x == [run[r] EXCEPT !.n = 1,
                       !.pc = IF run[r].available THEN "snapshot" ELSE "forget"]
    <3>1. run' = [run EXCEPT ![r] = x] /\ x.pc \in {"snapshot", "forget"}
      BY <1>1, <2>7 DEF Check, RunState
    <3> HIDE DEF x
    <3> QED
      BY <3>1 DEF Undone
  <2>8. CASE MarkWrite(r)
    <3> DEFINE x == [run[r] EXCEPT !.pc = "install", !.n = 1]
    <3>1. run' = [run EXCEPT ![r] = x] /\ x.pc = "install"
      BY <1>1, <2>8 DEF MarkWrite, RunState
    <3> QED
      BY <3>1 DEF Undone
  <2>9. CASE Snapshot(r) /\ ~CopyNext(r, disk["current"], SnapshotSlot(r))
    <3> DEFINE x == [run[r] EXCEPT !.ready = ~Bounded(r),
                       !.pc = IF Bounded(r) THEN "forget" ELSE "mark"]
    <3>1. run' = [run EXCEPT ![r] = x] /\ x.pc \in {"forget", "mark"}
      BY <1>1, <2>9 DEF Snapshot, RunState
    <3> HIDE DEF x
    <3> QED
      BY <3>1 DEF Undone
  <2> QED
    BY <1>9, <2>1, <2>2, <2>3, <2>4, <2>5, <2>6, <2>7, <2>8, <2>9
<1>10. CASE Unwind(r)
  <2>1. CASE Step(r, "unmark")
    BY <2>1, UndoneSteps DEF Stages
  <2>2. CASE ~Step(r, "unmark")
    <3>1. PICK failed \in BOOLEAN :
            run' = [run EXCEPT ![r].n = @ + 1,
                      ![r].faults = @ + (IF failed THEN 1 ELSE 0)]
      BY <1>10, <2>2 DEF Unwind
    <3> DEFINE m == run[r].faults + (IF failed THEN 1 ELSE 0)
               x == [run[r] EXCEPT !.n = @ + 1, !.faults = m]
    <3>2. run' = [run EXCEPT ![r] = x]
      BY <1>1, <3>1
    <3> HIDE DEF m
    <3>3. x.pc = "unwind"
      BY <1>1, <1>10 DEF Unwind, RunState
    <3> QED
      BY <3>2, <3>3 DEF Undone
  <2> QED
    BY <2>1, <2>2
<1> QED
  BY <1>2, <1>3, <1>4, <1>5, <1>6, <1>7, <1>8, <1>9, <1>10 DEF Advance

\* What a step that ends a run with success leaves.
Succeeds ==
    \A r \in Runs :
      run[r].pc # "done" /\ run'[r].pc = "done"
        => /\ serving = run[r].release
           /\ disk["current"] = Whole(run[r].release)
           /\ db = Schema[run[r].release]
           /\ writeMarker' = NoMarker /\ cutoverMarker' = Unmarked

LEMMA SucceedsNext ==
    ASSUME RecordInv, CutoverInv, [Next]_vars
    PROVE  Succeeds
<1> SUFFICES ASSUME NEW r \in Runs, run[r].pc # "done", run'[r].pc = "done"
             PROVE  CompleteAfter(r)
  BY DEF Succeeds, CompleteAfter
<1>1. run' # run
  OBVIOUS
<1>2. ~ManualMigrate /\ ~UNCHANGED vars
  BY <1>1 DEF ManualMigrate, vars
<1>3. PICK q \in Runs : Advance(q) \/ Fail(q) \/ Crash(q)
  BY <1>2 DEF Next
<1>4. run \in [Runs -> RunState]
  BY RunFacts
<1>5. ~Undone(q) \/ q # r
  BY <1>4 DEF Undone
<1>6. ASSUME q # r
      PROVE  FALSE
  <2>1. ~Undone(q)
    BY <1>4, <1>6 DEF Undone
  <2>2. Settle(q) \/ Confirm(q)
    BY <1>1, <1>3, <2>1, OthersUndone
  <2>3. \E o \in Ended : End(q, o)
    BY <2>2 DEF Settle, Confirm, Ended
  <2>4. \E x : run' = [run EXCEPT ![q] = x]
    BY <2>3, EndPromises
  <2> QED
    BY <1>4, <1>6, <2>4
<1>7. Settle(r) \/ Confirm(r)
  BY <1>1, <1>3, <1>5, <1>6, OthersUndone
<1> QED
  BY <1>7, DoneIsComplete

\* A run of deploy.sh that ends with success leaves its own release running,
\* recorded whole, on its own schema, with no marker behind, whatever runs were
\* killed or failed before it.
THEOREM SuccessLeavesAll ==
    ASSUME MaxFaults <= 1
    PROVE  Spec => SuccessIsComplete
<1>1. RecordInv /\ CutoverInv /\ [Next]_vars => [Succeeds]_vars
  BY SucceedsNext
<1>2. Spec => [][Succeeds]_vars
  BY <1>1, CutoverInvariant, PTL DEF Spec
<1> QED
  BY <1>2 DEF SuccessIsComplete, Succeeds
=============================================================================
