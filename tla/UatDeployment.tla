--------------------------- MODULE UatDeployment ----------------------------
(***************************************************************************)
(* Deployment of a release to the UAT host: the planning job of the        *)
(* workflow and deploy.sh, with the release state it keeps on disk, the    *)
(* two markers that make an interrupted run resumable, the schema of the   *)
(* Data database and the application containers.                           *)
(*                                                                         *)
(* A run is one workflow run.  Its pc names the next command that changes  *)
(* something; a run may be killed before any of them (Crash), and a        *)
(* command may fail (Fail), which ends the script through set -e and the   *)
(* EXIT trap if one is set by then.                                        *)
(*                                                                         *)
(* A release stands for its commit, its four images, its runtime           *)
(* environment and its compose file; the file names are kept because they  *)
(* are written one at a time.                                              *)
(***************************************************************************)
EXTENDS Naturals, Sequences

CONSTANTS
    Runs,        \* workflow runs; bounds how many there are
    Releases,    \* commits that can be deployed
    FileOrder,   \* the files of a recorded release, in the order written
    Cutovers,    \* bounded Data cutover modes, named as their write markers
    From, To,    \* schema version a cutover starts from and ends at
    Schema,      \* latest migration a release's Data image carries
    Guarded,     \* migrations an ordinary deployment must not apply
    Restorable,  \* cutovers restore_interrupted_release_state knows
    Purged,      \* cutovers whose checkpoints a first baseline removes
    InitialVersion,  \* schema version of the database at the start
    MaxFaults    \* bound on the commands of one run that fail

ASSUME ConstantsAssumption ==
    /\ FileOrder \in Seq(STRING)
    /\ Cutovers \cap {"normal", "previous", "committed", "none",
                      "no marker", "current"} = {}
    /\ "images" \in {FileOrder[i] : i \in DOMAIN FileOrder}
    /\ Restorable \subseteq Cutovers /\ Purged \subseteq Cutovers
    /\ From \in [Cutovers -> Nat] /\ To \in [Cutovers -> Nat]
    /\ \A c \in Cutovers : From[c] < To[c]
    /\ Schema \in [Releases -> Nat] /\ Guarded \subseteq Nat
    /\ InitialVersion \in Nat /\ MaxFaults \in Nat
    /\ Releases \cap {"missing", "torn", "no release"} = {}

\* The cutovers of an instance follow one another, the database starts outside of
\* them, and a release whose image carries a migration of a cutover carries one
\* that the gates of an ordinary deployment know.
ASSUME CutoverRanges ==
    /\ \A c, d \in Cutovers : c = d \/ To[c] <= From[d] \/ To[d] <= From[c]
    /\ \A c \in Cutovers : InitialVersion <= From[c] \/ To[c] <= InitialVersion
    /\ \A c \in Cutovers, release \in Releases :
         From[c] < Schema[release] => (From[c] + 1)..Schema[release] \cap Guarded # {}

VARIABLES
    disk,          \* the recorded releases: slot -> file -> contents
    writeMarker,   \* release-state-write-in-progress
    cutoverMarker, \* tidewise-2-cutover-in-progress
    db,            \* version of the Data schema
    serving,       \* release of the running application containers
    run            \* progress of each workflow run

vars == <<disk, writeMarker, cutoverMarker, db, serving, run>>

-----------------------------------------------------------------------------
(* State *)

Files == {FileOrder[i] : i \in DOMAIN FileOrder}
Slots == {"current", "previous"} \cup Cutovers
Modes == {"normal"} \cup Cutovers
NoRelease == "no release"
NoMarker == "no marker"

\* A file that does not exist, and one whose writing was cut short.
Missing == "missing"
Torn == "torn"

Contents == Releases \cup {Missing, Torn}
Whole(release) == [f \in Files |-> release]
Absent == Whole(Missing)
Complete(record) == \A f \in Files : record[f] # Missing

Unmarked == [release |-> NoRelease, phase |-> "absent", target |-> 0]
Marked == cutoverMarker.phase # "absent"

Fingerprint == [current |-> disk["current"], write |-> writeMarker,
                cutover |-> cutoverMarker]

Idle == [pc |-> "idle", mode |-> "normal", release |-> NoRelease,
         available |-> FALSE, planned |-> Absent,
         fingerprint |-> [current |-> Absent, write |-> NoMarker,
                          cutover |-> Unmarked],
         recovery |-> NoMarker, started |-> FALSE, ready |-> FALSE,
         n |-> 1, faults |-> 0]

\* Outcomes: refused by a gate, failed, failed with the old release back,
\* killed, and successful.
Ended == {"refused", "failed", "restored", "dead", "done"}

Stages == {"restore", "verify", "preflight", "confirm", "reconcile",
           "prepare", "stop", "mark stopped", "begin", "mark started",
           "migrate", "mark migrated", "up", "check", "snapshot", "forget",
           "mark", "install", "commit", "clear", "unblock", "settle",
           "halt", "rollback", "unwind", "unmark"}

WriteMarkers == {NoMarker, "previous", "none", "committed"} \cup Cutovers
CutoverMarkers ==
    [release : Releases \cup {NoRelease},
     phase : {"absent", "prepared", "services-stopped", "migration-started",
              "data-migrated"},
     target : Nat]

RunState ==
    [pc : Stages \cup Ended \cup {"idle", "planned"}, mode : Modes,
     release : Releases \cup {NoRelease}, available : BOOLEAN,
     planned : [Files -> Contents],
     fingerprint : [current : [Files -> Contents], write : WriteMarkers,
                    cutover : CutoverMarkers],
     recovery : WriteMarkers, started : BOOLEAN, ready : BOOLEAN,
     n : 1..(Len(FileOrder) + 1), faults : 0..MaxFaults]

\* The lock file is held through an open descriptor: it is held exactly
\* while the script that took it is alive.
Locked(r) == run[r].pc \in Stages

Bounded(r) == run[r].mode \in Cutovers

\* A new installation, or one serving a recorded release.
Init ==
    /\ \E release \in Releases \cup {NoRelease} :
         /\ serving = release
         /\ release \in Releases => Schema[release] = InitialVersion
         /\ disk = [s \in Slots |->
                      IF s = "current" /\ release \in Releases
                      THEN Whole(release) ELSE Absent]
    /\ writeMarker = NoMarker
    /\ cutoverMarker = Unmarked
    /\ db = InitialVersion
    /\ run = [r \in Runs |-> Idle]

-----------------------------------------------------------------------------
(* Helpers *)

Step(r, stage) == run' = [run EXCEPT ![r].pc = stage]
End(r, outcome) == run' = [run EXCEPT ![r] = [Idle EXCEPT !.pc = outcome]]
Mark(r, phase) ==
    cutoverMarker' = [release |-> run[r].release, phase |-> phase,
                      target |-> To[run[r].mode]]

\* One install or rm of a sequence of them.
CopiedNext(r, from, slot) ==
    [disk EXCEPT ![slot][FileOrder[run[r].n]] = from[FileOrder[run[r].n]]]
CopyNext(r, from, slot) ==
    /\ run[r].n \in DOMAIN FileOrder
    /\ disk' = CopiedNext(r, from, slot)
    /\ run' = [run EXCEPT ![r].n = @ + 1]
Copied(r) == run[r].n = Len(FileOrder) + 1

\* What the record is restored from, for each content of the write marker.
Source(marker) ==
    IF marker = "none" THEN Absent
    ELSE IF marker = "committed" THEN disk["current"]
    ELSE disk[marker]
CanRestore(marker) ==
    \/ marker = "none"
    \/ /\ marker \in {"committed", "previous"} \cup Restorable
       /\ Complete(Source(marker))
BeginRestore(r, stage) ==
    run' = [run EXCEPT ![r].pc = stage,
              ![r].recovery = writeMarker,
              ![r].n = IF writeMarker = "committed"
                       THEN Len(FileOrder) + 1 ELSE 1]

Pending(release) == (db + 1)..Schema[release]

\* The Data service refuses to start while a migration of its image is
\* pending, and while one is applied that its image does not have.
Starts(release) == release \in Releases /\ Schema[release] = db

-----------------------------------------------------------------------------
(* Planning, and the gates that change nothing *)

\* The record the planning job reads; none while a write is in progress,
\* unless the same cutover can take it up again.
PlanningBase(mode) ==
    IF writeMarker = NoMarker \/ (mode \in Cutovers /\ writeMarker = "committed")
    THEN disk["current"]
    ELSE IF mode \in Cutovers /\ writeMarker = mode THEN disk[mode]
    ELSE Absent

Plan(r) ==
    /\ run[r].pc = "idle"
    /\ \E mode \in Modes, release \in Releases :
         LET base == PlanningBase(mode)
             available == \A f \in Files : base[f] \in Releases
         IN IF Marked /\ mode = "normal" THEN End(r, "refused")
            ELSE run' = [run EXCEPT ![r] =
                   [Idle EXCEPT !.pc = "planned", !.mode = mode,
                      !.release = release, !.available = available,
                      !.planned = IF available THEN base ELSE Absent,
                      !.fingerprint = Fingerprint]]
    /\ UNCHANGED <<disk, writeMarker, cutoverMarker, db, serving>>

\* flock -n: a run that finds the lock taken gives up.
Lock(r) ==
    /\ run[r].pc = "planned"
    /\ IF \E q \in Runs : Locked(q) THEN End(r, "refused")
       ELSE IF writeMarker = NoMarker THEN Step(r, "verify")
       ELSE IF CanRestore(writeMarker) THEN BeginRestore(r, "restore")
       ELSE End(r, "refused")
    /\ UNCHANGED <<disk, writeMarker, cutoverMarker, db, serving>>

Restore(r) ==
    /\ run[r].pc = "restore"
    /\ \/ CopyNext(r, Source(writeMarker), "current") /\ UNCHANGED writeMarker
       \/ /\ Copied(r)
          /\ writeMarker' = NoMarker
          /\ Step(r, "verify")
          /\ UNCHANGED disk
    /\ UNCHANGED <<cutoverMarker, db, serving>>

\* Mutant: the state is not compared with the plan.
PlanHolds_Unchecked(r) == run[r].available => writeMarker = NoMarker

\* The fingerprint is compared unless a cutover has just restored the state.
PlanHolds(r) ==
    /\ \/ /\ Bounded(r)
          /\ run[r].recovery \in Restorable \cup {"committed"}
       \/ run[r].fingerprint = Fingerprint
    /\ run[r].available => /\ writeMarker = NoMarker
                           /\ disk["current"] = run[r].planned

CommittedRecovery(r) == Bounded(r) /\ run[r].recovery = "committed"

CommittedMatches(r) ==
    /\ cutoverMarker = [release |-> run[r].release,
                        phase |-> "data-migrated",
                        target |-> To[run[r].mode]]
    /\ disk["current"] = Whole(run[r].release)

Verify(r) ==
    /\ run[r].pc = "verify"
    /\ IF PlanHolds(r) /\ (CommittedRecovery(r) => CommittedMatches(r))
       THEN run' = [run EXCEPT ![r].pc = "preflight",
                               ![r].fingerprint = Idle.fingerprint]
       ELSE End(r, "refused")
    /\ UNCHANGED <<disk, writeMarker, cutoverMarker, db, serving>>

NormalGate(r) ==
    /\ ~Marked
    /\ Pending(run[r].release) \cap Guarded = {}

\* Mutant: a marker left by another release is taken over.
CutoverGate_AnyRelease(r) ==
    LET mode == run[r].mode IN
    /\ run[r].available
    /\ Pending(run[r].release) = (db + 1)..To[mode]
    /\ IF Marked THEN /\ cutoverMarker.target = To[mode]
                      /\ db \in From[mode]..To[mode]
       ELSE db = From[mode]

\* A cutover is started on the exact range, or resumed on a suffix of it.
CutoverGate(r) ==
    LET mode == run[r].mode IN
    /\ run[r].available
    /\ Pending(run[r].release) = (db + 1)..To[mode]
    /\ IF Marked THEN /\ cutoverMarker.release = run[r].release
                      /\ cutoverMarker.target = To[mode]
                      /\ db \in From[mode]..To[mode]
       ELSE db = From[mode]

AfterPreflight(r) ==
    LET mode == run[r].mode
        migrating == cutoverMarker.phase \in {"migration-started",
                                              "data-migrated"}
        unrecorded == Marked /\ ~migrating /\ db # From[mode]
    IN IF ~Bounded(r) THEN Step(r, "migrate")
       ELSE run' = [run EXCEPT ![r].started = migrating \/ unrecorded,
                      ![r].pc = IF CommittedRecovery(r) THEN "confirm"
                                ELSE IF unrecorded THEN "reconcile"
                                ELSE IF migrating THEN "stop"
                                ELSE "prepare"]

Preflight(r) ==
    /\ run[r].pc = "preflight"
    /\ IF IF Bounded(r) THEN CutoverGate(r) ELSE NormalGate(r)
       THEN AfterPreflight(r)
       ELSE End(r, "refused")
    /\ UNCHANGED <<disk, writeMarker, cutoverMarker, db, serving>>

\* A committed cutover is only checked; its marker then goes.
Confirm(r) ==
    /\ run[r].pc = "confirm"
    /\ IF serving = run[r].release /\ db = To[run[r].mode]
       THEN /\ cutoverMarker' = Unmarked
            /\ End(r, "done")
            /\ UNCHANGED serving
       ELSE /\ End(r, "failed")
            /\ serving' = IF db = To[run[r].mode] THEN NoRelease ELSE serving
            /\ UNCHANGED cutoverMarker
    /\ UNCHANGED <<disk, writeMarker, db>>

-----------------------------------------------------------------------------
(* A cutover up to the migrated schema *)

Reconcile(r) ==
    /\ run[r].pc = "reconcile"
    /\ Mark(r, "migration-started")
    /\ Step(r, "stop")
    /\ UNCHANGED <<disk, writeMarker, db, serving>>

Prepare(r) ==
    /\ run[r].pc = "prepare"
    /\ Mark(r, "prepared")
    /\ Step(r, "stop")
    /\ UNCHANGED <<disk, writeMarker, db, serving>>

\* Mutant: the old containers are not stopped.
Stop_Skipped(r) ==
    /\ run[r].pc = "stop"
    /\ Step(r, IF run[r].started THEN "migrate" ELSE "mark stopped")
    /\ UNCHANGED <<disk, writeMarker, cutoverMarker, db, serving>>

Stop(r) ==
    /\ run[r].pc = "stop"
    /\ serving' = NoRelease
    /\ Step(r, IF run[r].started THEN "migrate" ELSE "mark stopped")
    /\ UNCHANGED <<disk, writeMarker, cutoverMarker, db>>

MarkStopped(r) ==
    /\ run[r].pc = "mark stopped"
    /\ Mark(r, "services-stopped")
    /\ Step(r, "begin")
    /\ UNCHANGED <<disk, writeMarker, db, serving>>

\* After the backup; the flag is set before the marker is written.
Begin(r) ==
    /\ run[r].pc = "begin"
    /\ run' = [run EXCEPT ![r].pc = "mark started", ![r].started = TRUE]
    /\ UNCHANGED <<disk, writeMarker, cutoverMarker, db, serving>>

MarkStarted(r) ==
    /\ run[r].pc = "mark started"
    /\ Mark(r, "migration-started")
    /\ Step(r, "migrate")
    /\ UNCHANGED <<disk, writeMarker, db, serving>>

MarkMigrated(r) ==
    /\ run[r].pc = "mark migrated"
    /\ Mark(r, "data-migrated")
    /\ Step(r, "up")
    /\ UNCHANGED <<disk, writeMarker, db, serving>>

\* dbmigrate -apply commits one migration after the other.
Migrate(r) ==
    /\ run[r].pc = "migrate"
    /\ IF Pending(run[r].release) # {}
       THEN db' = db + 1 /\ UNCHANGED run
       ELSE /\ Step(r, IF Bounded(r) THEN "mark migrated" ELSE "up")
            /\ UNCHANGED db
    /\ UNCHANGED <<disk, writeMarker, cutoverMarker, serving>>

-----------------------------------------------------------------------------
(* The candidate starts, and its release is recorded *)

\* Where the script goes when the command at the run's pc fails.
FirstOfRelease == {"up", "check"}
Recording == {"snapshot", "forget", "mark", "install", "commit", "clear",
              "unblock", "settle"}
OnExit(r) ==
    LET pc == run[r].pc IN
    IF pc \in {"restore", "verify", "preflight", "confirm"} THEN "failed"
    ELSE IF Bounded(r)
    THEN IF run[r].started THEN "halt"
         ELSE IF Marked THEN "rollback"
         ELSE "failed"
    ELSE IF pc \in FirstOfRelease \cup Recording THEN "rollback"
    ELSE "failed"
Exit(r) == IF OnExit(r) = "failed" THEN End(r, "failed")
           ELSE Step(r, OnExit(r))

\* Mutant: docker compose up without --wait.
Up_NoWait(r) ==
    /\ run[r].pc = "up"
    /\ serving' = run[r].release
    /\ Step(r, "check")
    /\ UNCHANGED <<disk, writeMarker, cutoverMarker, db>>

Up(r) ==
    /\ run[r].pc = "up"
    /\ IF Starts(run[r].release)
       THEN serving' = run[r].release /\ Step(r, "check")
       ELSE serving' = NoRelease /\ Exit(r)
    /\ UNCHANGED <<disk, writeMarker, cutoverMarker, db>>

\* verify_services and verify_public_data_api.
Check(r) ==
    /\ run[r].pc = "check"
    /\ run' = [run EXCEPT ![r].n = 1, ![r].pc =
                 IF run[r].available THEN "snapshot" ELSE "forget"]
    /\ UNCHANGED <<disk, writeMarker, cutoverMarker, db, serving>>

\* Mutant: the checkpoint of a cutover goes to the ordinary snapshot.
SnapshotSlot_Previous(r) == "previous"
SnapshotSlot(r) == IF Bounded(r) THEN run[r].mode ELSE "previous"

Snapshot(r) ==
    /\ run[r].pc = "snapshot"
    /\ \/ CopyNext(r, disk["current"], SnapshotSlot(r))
       \/ /\ Copied(r)
          /\ run' = [run EXCEPT ![r].ready = ~Bounded(r),
                       ![r].pc = IF Bounded(r) THEN "forget" ELSE "mark"]
          /\ UNCHANGED disk
    /\ UNCHANGED <<writeMarker, cutoverMarker, db, serving>>

\* Snapshots that may no longer be rolled back to are removed.
Forgotten(r) == {"previous"} \cup (IF Bounded(r) THEN {} ELSE Purged)

Forget(r) ==
    /\ run[r].pc = "forget"
    /\ disk' = [s \in Slots |-> IF s \in Forgotten(r) THEN Absent ELSE disk[s]]
    /\ Step(r, "mark")
    /\ UNCHANGED <<writeMarker, cutoverMarker, db, serving>>

MarkWrite(r) ==
    /\ run[r].pc = "mark"
    /\ writeMarker' = IF Bounded(r) THEN run[r].mode
                      ELSE IF run[r].ready THEN "previous" ELSE "none"
    /\ run' = [run EXCEPT ![r].pc = "install", ![r].n = 1]
    /\ UNCHANGED <<disk, cutoverMarker, db, serving>>

Install(r) ==
    /\ run[r].pc = "install"
    /\ \/ CopyNext(r, Whole(run[r].release), "current")
       \/ Copied(r) /\ Step(r, "commit") /\ UNCHANGED disk
    /\ UNCHANGED <<writeMarker, cutoverMarker, db, serving>>

Commit(r) ==
    /\ run[r].pc = "commit"
    /\ writeMarker' = "committed"
    /\ Step(r, "clear")
    /\ UNCHANGED <<disk, cutoverMarker, db, serving>>

Clear(r) ==
    /\ run[r].pc = "clear"
    /\ writeMarker' = NoMarker
    /\ Step(r, IF Bounded(r) THEN "unblock" ELSE "settle")
    /\ UNCHANGED <<disk, cutoverMarker, db, serving>>

Unblock(r) ==
    /\ run[r].pc = "unblock"
    /\ cutoverMarker' = Unmarked
    /\ Step(r, "settle")
    /\ UNCHANGED <<disk, writeMarker, db, serving>>

\* The last sync, after which the trap is removed.
Settle(r) ==
    /\ run[r].pc = "settle"
    /\ End(r, "done")
    /\ UNCHANGED <<disk, writeMarker, cutoverMarker, db, serving>>

-----------------------------------------------------------------------------
(* Failure *)

\* A failing copy may leave the file it was writing torn.
Writing(r) ==
    CASE run[r].pc \in {"restore", "unwind"} /\ writeMarker # "none"
              -> {"current"}
      [] run[r].pc = "install"  -> {"current"}
      [] run[r].pc = "snapshot" -> {SnapshotSlot(r)}
      [] OTHER -> {}
TornCopies(r) ==
    IF run[r].n \in DOMAIN FileOrder
    THEN {[disk EXCEPT ![s][FileOrder[run[r].n]] = Torn] : s \in Writing(r)}
    ELSE {}

\* docker compose may have taken some of the containers down.
Interrupted(r) ==
    IF run[r].pc \in {"confirm", "stop", "up", "rollback", "halt"}
    THEN {serving, NoRelease} ELSE {serving}

\* set -e is in force for these; the last two stages ignore failures.
Failing == Stages \ {"halt", "rollback", "unwind", "unmark"}

Fail(r) ==
    /\ run[r].pc \in Failing
    /\ run[r].faults < MaxFaults
    /\ disk' \in {disk} \cup TornCopies(r)
    /\ serving' \in Interrupted(r)
    /\ IF OnExit(r) = "failed" THEN End(r, "failed")
       ELSE run' = [run EXCEPT ![r].pc = OnExit(r), ![r].faults = @ + 1]
    /\ UNCHANGED <<writeMarker, cutoverMarker, db>>

\* The runner, or the host, dies: nothing of the script runs any more.
Crash(r) ==
    /\ Locked(r)
    /\ disk' \in {disk} \cup TornCopies(r)
    /\ serving' \in Interrupted(r)
    /\ End(r, "dead")
    /\ UNCHANGED <<writeMarker, cutoverMarker, db>>

-----------------------------------------------------------------------------
(* The EXIT trap, and rollback_current_release *)

\* Once the database may have changed, nothing is left running.
Halt(r) ==
    /\ run[r].pc = "halt"
    /\ serving' \in IF run[r].faults < MaxFaults THEN {NoRelease, serving}
                    ELSE {NoRelease}
    /\ End(r, "failed")
    /\ UNCHANGED <<disk, writeMarker, cutoverMarker, db>>

Unmark(r) ==
    /\ run[r].pc = "unmark"
    /\ cutoverMarker' = IF Bounded(r) THEN Unmarked ELSE cutoverMarker
    /\ End(r, "restored")
    /\ UNCHANGED <<disk, writeMarker, db, serving>>

RollbackSlot(r) == IF run[r].ready THEN "previous" ELSE "current"
RollbackRelease(r) == disk[RollbackSlot(r)]["images"]
CanRollBack(r) ==
    /\ run[r].ready \/ run[r].available
    /\ Complete(disk[RollbackSlot(r)])

\* The old release is started and checked; if either fails, that is all.
RollbackFails(r) ==
    /\ run[r].pc = "rollback"
    /\ \/ ~CanRollBack(r) /\ UNCHANGED serving
       \/ /\ CanRollBack(r) /\ ~Starts(RollbackRelease(r))
          /\ serving' = NoRelease
       \/ /\ CanRollBack(r) /\ Starts(RollbackRelease(r))
          /\ run[r].faults < MaxFaults
          /\ serving' \in {NoRelease, RollbackRelease(r)}
    /\ End(r, "failed")
    /\ UNCHANGED <<disk, writeMarker, cutoverMarker, db>>

RollbackStarts(r) ==
    /\ run[r].pc = "rollback"
    /\ CanRollBack(r) /\ Starts(RollbackRelease(r))
    /\ serving' = RollbackRelease(r)
    /\ IF writeMarker = NoMarker THEN Step(r, "unmark")
       ELSE IF CanRestore(writeMarker) THEN BeginRestore(r, "unwind")
       ELSE Step(r, "unmark")
    /\ UNCHANGED <<disk, writeMarker, cutoverMarker, db>>

\* Called from a condition, so that set -e does not stop it: a copy that
\* fails is followed by the next one.
Unwind(r) ==
    /\ run[r].pc = "unwind"
    /\ \/ /\ run[r].n \in DOMAIN FileOrder
          /\ \E failed \in BOOLEAN :
               /\ failed => run[r].faults < MaxFaults
               /\ IF failed THEN disk' \in TornCopies(r)
                  ELSE disk' = CopiedNext(r, Source(writeMarker), "current")
               /\ run' = [run EXCEPT ![r].n = @ + 1,
                            ![r].faults = @ + (IF failed THEN 1 ELSE 0)]
          /\ UNCHANGED writeMarker
       \/ /\ Copied(r)
          /\ writeMarker' = NoMarker
          /\ Step(r, "unmark")
          /\ UNCHANGED disk
    /\ UNCHANGED <<cutoverMarker, db, serving>>

\* An operator applies a pending migration by hand while a cutover that
\* stopped the services is waiting to be resumed.
ManualMigrate ==
    /\ cutoverMarker.phase = "services-stopped"
    /\ serving = NoRelease
    /\ ~\E r \in Runs : Locked(r)
    /\ db < cutoverMarker.target
    /\ db' = db + 1
    /\ UNCHANGED <<disk, writeMarker, cutoverMarker, serving, run>>

-----------------------------------------------------------------------------
Advance(r) ==
    \/ Plan(r) \/ Lock(r) \/ Restore(r) \/ Verify(r) \/ Preflight(r)
    \/ Confirm(r) \/ Reconcile(r) \/ Prepare(r) \/ Stop(r) \/ MarkStopped(r)
    \/ Begin(r) \/ MarkStarted(r) \/ Migrate(r) \/ MarkMigrated(r)
    \/ Up(r) \/ Check(r) \/ Snapshot(r) \/ Forget(r) \/ MarkWrite(r)
    \/ Install(r) \/ Commit(r) \/ Clear(r) \/ Unblock(r) \/ Settle(r)
    \/ Halt(r) \/ RollbackFails(r) \/ RollbackStarts(r) \/ Unwind(r)
    \/ Unmark(r)

Next == ManualMigrate \/ \E r \in Runs : Advance(r) \/ Fail(r) \/ Crash(r)

Spec == Init /\ [][Next]_vars

-----------------------------------------------------------------------------
(* Correctness *)

TypeOK ==
    /\ disk \in [Slots -> [Files -> Contents]]
    /\ writeMarker \in WriteMarkers
    /\ cutoverMarker \in CutoverMarkers
    /\ db \in Nat
    /\ serving \in Releases \cup {NoRelease}
    /\ run \in [Runs -> RunState]

\* The recorded release is never a mixture of two releases, nor cut short,
\* unless the write marker says so: what planning and rollback read without
\* looking further (current_release_state_fingerprint, rollback).
RecordIsWhole ==
    writeMarker \in {NoMarker, "committed"}
      => \E release \in Releases \cup {Missing} :
           disk["current"] = Whole(release)

\* Whenever the write marker names a snapshot, that snapshot is whole: an
\* interrupted write can be undone from it, wherever the run was killed.
MarkerIsBacked ==
    writeMarker \in {"previous"} \cup Cutovers
      => \E release \in Releases : disk[writeMarker] = Whole(release)

\* Wherever a run is killed, the record is one whole release or can be made
\* one: it is whole, or the write marker says where a whole one is; and nothing
\* takes a shape that a run could not read.
RecordIsSafe == TypeOK /\ RecordIsWhole /\ MarkerIsBacked

\* No release runs on a schema changed by a migration that needs a cutover
\* and that the release does not know: the old services are down from before
\* the first such migration until the candidate starts.
OldReleaseStaysDown ==
    serving \in Releases
      => \A v \in Guarded : ~(Schema[serving] < v /\ v <= db)

\* A database in the middle of a cutover is always covered by that cutover's
\* marker, which keeps every other deployment out until it is finished.
MidCutoverIsMarked ==
    \A c \in Cutovers : From[c] < db /\ db < To[c]
      => Marked /\ cutoverMarker.target = To[c]

\* A cutover marker changes owner or goes only when its work is complete (its
\* release recorded and the target schema reached) or entirely undone (the
\* recorded release running on the schema it was on).
OnlyMarkedReleaseProceeds ==
    [][ Marked =>
          \/ /\ cutoverMarker'.release = cutoverMarker.release
             /\ cutoverMarker'.target = cutoverMarker.target
          \/ /\ cutoverMarker' = Unmarked /\ db = cutoverMarker.target
             /\ disk["current"] = Whole(cutoverMarker.release)
          \/ /\ cutoverMarker' = Unmarked /\ serving \in Releases
             /\ Schema[serving] = db
             /\ disk["current"] = Whole(serving) ]_vars

\* From the first migration of a cutover until it is finished or undone, its
\* marker is there and no other deployment can take it over or remove it.
CutoverIsExclusive == []MidCutoverIsMarked /\ OnlyMarkedReleaseProceeds

\* From its verification until it writes, a run works on the very record it
\* was planned on, although plans are made before the lock is taken.
PlanStillHolds ==
    \A r \in Runs :
      /\ run[r].pc \in {"preflight", "confirm", "reconcile", "prepare", "stop",
                        "mark stopped", "begin", "mark started", "migrate",
                        "mark migrated", "up", "check", "snapshot", "forget",
                        "mark"}
      /\ run[r].available
      => disk["current"] = run[r].planned

\* A run that reports success leaves its own release running, recorded whole,
\* with its own schema and no marker behind.
SuccessIsComplete ==
    [][ \A r \in Runs :
          run[r].pc # "done" /\ run'[r].pc = "done"
            => /\ serving = run[r].release
               /\ disk["current"] = Whole(run[r].release)
               /\ db = Schema[run[r].release]
               /\ writeMarker' = NoMarker /\ cutoverMarker' = Unmarked ]_vars

-----------------------------------------------------------------------------
(* Promises of the documentation the script does not keep *)

\* infra/uat/README.md:89: current.* records the version last deployed with
\* success.  So a run that rolled back to a release leaves it recorded.
RestoredIsRecorded ==
    [][ \A r \in Runs :
          run[r].pc = "unmark" /\ run'[r].pc = "restored"
            => disk["current"] = Whole(serving) ]_vars

\* infra/uat/README.md:334: if starting or checking the new services fails,
\* the script goes back, once, to the recorded release.  With no further
\* failure than that one, the rollback of an ordinary run succeeds.
RollbackSucceeds ==
    [][ \A r \in Runs :
          run[r].pc = "rollback" /\ ~Bounded(r) /\ run[r].available
            => run'[r].pc \notin {"failed"} ]_vars

\* infra/uat/README.md:439: a failed cutover keeps its marker and its
\* snapshot, for the same release to resume it.  So the run that resumes it
\* is not turned away for the state the failed one left behind.
MarkedReleaseResumes ==
    [][ \A r \in Runs :
          /\ run[r].pc = "planned" /\ ~\E q \in Runs : Locked(q)
          /\ Marked /\ run[r].release = cutoverMarker.release
          /\ Bounded(r) /\ To[run[r].mode] = cutoverMarker.target
          => run'[r].pc # "refused" ]_vars
=============================================================================
