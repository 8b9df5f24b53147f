--------------------------- MODULE SchemaMigration ---------------------------
(***************************************************************************)
(* The Data Service's schema migration (internal/data/dbmigration), which  *)
(* deployments and operators start as a command, several at once if they   *)
(* please.  A run that applies migrations holds a session advisory lock on *)
(* a connection of its own, reads what is pending, lets Goose apply it one *)
(* transaction at a time on other connections, reads again and reports the *)
(* difference; a run that only reports takes no lock.  A rebuild drops the *)
(* schema first.                                                           *)
(*                                                                         *)
(* Migrations are numbered from 1 without gaps, so the ledger of Goose is  *)
(* its highest version.  Killing a run ends its session and with it the    *)
(* lock; a lock connection that breaks under a living run is left out.     *)
(***************************************************************************)
EXTENDS Integers, FiniteSets

CONSTANTS
    Runs,             \* the migration commands
    Latest,           \* the newest migration of the repository
    Orders,           \* options a run may have: [apply, target, rebuild]; target 0 is none
    MaxMigrationFaults \* bound on statements that fail and runs that are killed

ASSUME MigrationConstants ==
    /\ Latest \in Nat /\ MaxMigrationFaults \in Nat
    /\ \A order \in Orders :
          /\ order.target \in 0 .. Latest + 1
          /\ order.target # 0 \/ order.rebuild => order.apply
          /\ order.rebuild => order.target # 0

VARIABLES
    schemaVersion,    \* goose_db_version: the highest version applied
    migrationLock,    \* the run that holds the advisory lock, or none
    migration,        \* the runs
    migrationFaults   \* faults so far

migrationVars == <<schemaVersion, migrationLock, migration, migrationFaults>>

Steps == {"idle", "lock", "reset", "version", "pending", "select", "next", "migrate",
          "after", "remaining", "report", "done", "killed"}

NewRun(order) ==
    [at |-> "idle", order |-> order, seen |-> 0, before |-> {}, limit |-> 0, next |-> 0,
     remaining |-> {}, committed |-> {}, failed |-> FALSE, applied |-> {}, derived |-> FALSE]

PendingAfter(v) == v + 1 .. Latest

AtMigration(r, step) == migration[r].at = step

\* The run goes on, nothing else changes.
Continue(r, run) ==
    /\ migration' = [migration EXCEPT ![r] = run]
    /\ UNCHANGED <<schemaVersion, migrationLock, migrationFaults>>

\* The run ends: the report it has, then the lock.
EndMigration(r, run) ==
    /\ migration' = [migration EXCEPT ![r] = [run EXCEPT !.at = "done"]]
    /\ migrationLock' = migrationLock \ {r}
    /\ UNCHANGED schemaVersion

MigrationFault ==
    /\ migrationFaults < MaxMigrationFaults
    /\ migrationFaults' = migrationFaults + 1

-----------------------------------------------------------------------------
(* Actions *)

StartMigration(r, order) ==
    /\ AtMigration(r, "idle")
    /\ Continue(r, [NewRun(order) EXCEPT !.at = IF order.apply THEN "lock" ELSE "version"])

\* A mutant of Acquire: the lock is shared.
Acquire_Shared(r) ==
    /\ AtMigration(r, "lock")
    /\ migrationLock' = migrationLock \cup {r}
    /\ migration' = [migration EXCEPT ![r].at =
                       IF migration[r].order.rebuild THEN "reset" ELSE "version"]
    /\ UNCHANGED <<schemaVersion, migrationFaults>>

\* pg_advisory_lock: waits for the run that has it.
Acquire(r) ==
    /\ AtMigration(r, "lock")
    /\ migrationLock = {}
    /\ migrationLock' = {r}
    /\ migration' = [migration EXCEPT ![r].at =
                       IF migration[r].order.rebuild THEN "reset" ELSE "version"]
    /\ UNCHANGED <<schemaVersion, migrationFaults>>

\* resetPublicSchema, in one transaction; a rebuild then reads only what is pending.
Reset(r) ==
    /\ AtMigration(r, "reset")
    /\ schemaVersion' = 0
    /\ migration' = [migration EXCEPT ![r].at = "pending"]
    /\ UNCHANGED <<migrationLock, migrationFaults>>

\* readState: the version in one statement, what is pending in the next.
ReadVersion(r) ==
    /\ AtMigration(r, "version")
    /\ Continue(r, [migration[r] EXCEPT !.at = "pending", !.seen = schemaVersion])

ReadPending(r) ==
    /\ AtMigration(r, "pending")
    /\ LET pending == PendingAfter(schemaVersion)
           run     == [migration[r] EXCEPT !.before = pending, !.remaining = pending]
       IN  IF ~run.order.apply \/ (pending = {} /\ run.order.target = 0)
           THEN EndMigration(r, [run EXCEPT !.derived = TRUE]) /\ UNCHANGED migrationFaults
           ELSE Continue(r, [run EXCEPT !.at = "select"])

\* Apply: what is pending and the version again, then how far to go.
Select(r) ==
    /\ AtMigration(r, "select")
    /\ LET target  == migration[r].order.target
           nothing == IF target = 0 THEN schemaVersion = Latest ELSE target = schemaVersion
           refused == target # 0 /\ target # schemaVersion /\ target \notin PendingAfter(schemaVersion)
       IN  Continue(r, [migration[r] EXCEPT
               !.limit  = IF target = 0 THEN Latest ELSE target,
               !.failed = refused,
               !.at     = IF refused \/ nothing THEN "after" ELSE "next"])

\* Goose: the version, the next migration up to the limit, ...
PickNext(r) ==
    /\ AtMigration(r, "next")
    /\ Continue(r, [migration[r] EXCEPT
           !.next = schemaVersion + 1,
           !.at   = IF schemaVersion >= migration[r].limit THEN "after" ELSE "migrate"])

\* ... and its statements with the ledger row in one transaction; a migration that is
\* there already clashes.
Migrate(r) ==
    LET run == migration[r] IN
    /\ AtMigration(r, "migrate")
    /\ IF schemaVersion = run.next - 1
       THEN /\ schemaVersion' = run.next
            /\ migration' = [migration EXCEPT ![r].at = "next",
                                              ![r].committed = @ \cup {run.next}]
            /\ UNCHANGED <<migrationLock, migrationFaults>>
       ELSE Continue(r, [run EXCEPT !.at = "after", !.failed = TRUE])

\* The state after Apply, whether it failed or not, and the version ...
ReadAfter(r) ==
    /\ AtMigration(r, "after")
    /\ Continue(r, [migration[r] EXCEPT !.at = "remaining", !.seen = schemaVersion])

ReadRemaining(r) ==
    /\ AtMigration(r, "remaining")
    /\ Continue(r, [migration[r] EXCEPT !.at = "report", !.remaining = PendingAfter(schemaVersion)])

\* appliedMigrationDifference: what was pending and is no more must not be ahead of the version.
Derived(run) == \A v \in run.before \ run.remaining : v <= run.seen

\* validateAppliedState: everything is applied, or the version is the target.
Reached(run) ==
    IF run.order.target = 0 THEN run.remaining = {} ELSE run.seen = run.order.target

Report(r) ==
    /\ AtMigration(r, "report")
    /\ LET run == migration[r] IN
       EndMigration(r, [run EXCEPT !.derived = Derived(run),
                                   !.applied = run.before \ run.remaining,
                                   !.failed = @ \/ ~Derived(run) \/ ~Reached(run)])
    /\ UNCHANGED migrationFaults

\* A statement fails: one before Apply ends the run, a migration is rolled back, and what
\* Apply did is reported only if the state after it can be read.
FailMigration(r) ==
    LET failed == [migration[r] EXCEPT !.failed = TRUE] IN
    /\ MigrationFault
    /\ \/ /\ migration[r].at \in {"lock", "reset", "version", "pending", "after", "remaining"}
          /\ EndMigration(r, failed)
       \/ /\ migration[r].at \in {"select", "next", "migrate"}
          /\ migration' = [migration EXCEPT ![r] = [failed EXCEPT !.at = "after"]]
          /\ UNCHANGED <<schemaVersion, migrationLock>>

\* The command is killed: the server ends its sessions, a transaction is rolled back.
Kill(r) ==
    /\ migration[r].at \notin {"idle", "done", "killed"}
    /\ MigrationFault
    /\ migration' = [migration EXCEPT ![r].at = "killed"]
    /\ migrationLock' = migrationLock \ {r}
    /\ UNCHANGED schemaVersion

-----------------------------------------------------------------------------
(* Specification *)

MigrationInit ==
    /\ schemaVersion \in 0 .. Latest
    /\ migrationLock = {}
    /\ migration \in [Runs -> {NewRun(order) : order \in Orders}]
    /\ migrationFaults = 0

MigrationStep(r) ==
    \/ Acquire(r) \/ Reset(r) \/ ReadVersion(r) \/ ReadPending(r) \/ Select(r)
    \/ PickNext(r) \/ Migrate(r) \/ ReadAfter(r) \/ ReadRemaining(r) \/ Report(r)

MigrationNext ==
    \E r \in Runs :
        \/ StartMigration(r, migration[r].order)
        \/ MigrationStep(r) \/ FailMigration(r) \/ Kill(r)

\* A command that was started goes on; nobody has to start one.
MigrationSpec ==
    /\ MigrationInit /\ [][MigrationNext]_migrationVars
    /\ \A r \in Runs : WF_migrationVars(MigrationStep(r))

-----------------------------------------------------------------------------
(* Properties *)

MigrationTypeOK ==
    /\ schemaVersion \in 0 .. Latest
    /\ migrationLock \subseteq Runs
    /\ \A r \in Runs :
          /\ migration[r].at \in Steps
          /\ migration[r].order \in Orders
          /\ migration[r].before \cup migration[r].remaining \cup migration[r].committed
               \cup migration[r].applied \subseteq 1 .. Latest

\* A report tells what the run did: the migrations it says were applied are those this
\* run committed, also when it failed half way or another run came before or after it,
\* and a run that says it succeeded went all the way, without a rebuild from nothing.
MigrationReportIsTrue ==
    MigrationTypeOK /\ \A r \in Runs : AtMigration(r, "done") /\ migration[r].derived =>
        LET run == migration[r] IN
        /\ run.applied = run.committed
        /\ run.order.apply /\ ~run.failed =>
              IF run.order.target = 0 THEN run.remaining = {}
              ELSE run.remaining = PendingAfter(run.order.target)
=============================================================================
