---------------------------- MODULE Publication -----------------------------
(***************************************************************************)
(* Publication in the Data Service: raw evidence, the set of atomic        *)
(* evidences of a raw evidence, reports and events, each in one database   *)
(* transaction under transaction-scoped advisory locks; the cutover to     *)
(* split report storage, and the storage maintenance that runs beside the  *)
(* publications.                                                           *)
(*                                                                         *)
(* Transactions run at READ COMMITTED: tables hold committed rows, a call  *)
(* keeps what it has read, and its rows appear when it commits.  Every     *)
(* statement of the same transaction that only one lock holder can         *)
(* disturb is merged with the next.                                        *)
(*                                                                         *)
(* The content of a raw evidence, of a report and of an event is a value   *)
(* that says which evidences it cites; an atomic evidence is identified,   *)
(* as in the code, by its raw evidence and its statement.  A call is       *)
(* served once, and its name doubles as the random id it generates.        *)
(***************************************************************************)
EXTENDS Naturals, FiniteSets

CONSTANTS
    Calls,       \* calls of the service; bounds how many there are
    Keys,        \* publication keys, raw evidence ids, publisher report ids
    Contents,    \* contents a publisher can send
    Cites,       \* content -> the evidences it refers to
    Strict,      \* contents that pass the rules of every later version
    Statements   \* what an atomic evidence can say, ordered as its id is

ASSUME ConstantsAssumption ==
    /\ Cites \in [Contents -> SUBSET (Keys \X Statements)]
    /\ Strict \subseteq Contents
    /\ Statements \subseteq Nat /\ IsFiniteSet(Statements)
    /\ Keys # {} /\ Contents # {}

VARIABLES
    raws,         \* raw_evidences: rows [key, content]
    evidences,    \* evidences: rows [raw, statement, split]
    publications, \* report_archive, and event_publication_receipts with events
    links,        \* report_evidence_links, event_evidence_links
    storage,      \* reports projected to the split storage tables
    version,      \* what serves: old rules, none (cutover), stricter rules
    call,         \* progress of each call
    plan          \* the storage maintenance and its reviewed plan

vars == <<raws, evidences, publications, links, storage, version, call, plan>>
tables == <<raws, evidences, publications, links, storage>>

-----------------------------------------------------------------------------
(* State *)

Kinds == {"raw", "evidence", "report", "event"}

RawRow == [key : Keys, content : Contents]
EvidenceRow == [raw : Keys, statement : Statements, split : BOOLEAN]
PublicationRow == [kind : {"report", "event"}, id : Calls, key : Keys,
                   content : Contents]
Link == [publication : Calls, evidence : Keys \X Statements]

\* Advisory locks: every call locks its key, an evidence publication also
\* the identities it inserts.
Lock == [kind : Kinds, key : Keys, statement : Statements \cup {0}]

Request == [kind : Kinds, key : Keys, content : Contents,
            statements : SUBSET Statements]

Ended == {"published", "replayed", "conflict", "invalid", "missing",
          "constraint", "failed"}

\* The answer names the publication, or the call itself for evidence, whose
\* ids follow from the request.
CallState == [pc : {"idle", "lock", "read", "insert"} \cup Ended,
              request : Request, held : SUBSET Lock, answer : Calls]

Unasked == [kind |-> "raw", key |-> CHOOSE k \in Keys : TRUE,
            content |-> CHOOSE c \in Contents : TRUE, statements |-> {}]

Init ==
    /\ raws = {} /\ evidences = {} /\ publications = {} /\ links = {}
    /\ storage = {}
    /\ version \in {"old", "new"}
    /\ call = [c \in Calls |-> [pc |-> "idle", request |-> Unasked,
                                held |-> {}, answer |-> c]]
    /\ plan = [pc |-> "none", inventory |-> {}, delete |-> {}]

-----------------------------------------------------------------------------
(* Helpers *)

Kind(c) == call[c].request.kind
Key(c) == call[c].request.key

\* The rules of the version that serves a call: Validate*, of each kind.
Accepted(request) ==
    /\ request.kind = "evidence" => request.statements # {}
    /\ version = "new" /\ request.kind # "evidence" => request.content \in Strict

\* Mutant: an evidence publication locks its own identities only.
Locks_EvidenceOnly(c) ==
    IF Kind(c) = "evidence"
    THEN {[kind |-> "evidence", key |-> Key(c), statement |-> s] :
             s \in call[c].request.statements}
    ELSE {[kind |-> Kind(c), key |-> Key(c), statement |-> 0]}

\* The identities a call locks; an evidence publication locks the raw
\* evidence like a raw publication does.
Locks(c) ==
    LET statements == IF Kind(c) = "evidence"
                      THEN call[c].request.statements ELSE {}
    IN {[kind |-> "evidence", key |-> Key(c), statement |-> s] :
           s \in statements}
       \cup {[kind |-> IF Kind(c) = "evidence" THEN "raw" ELSE Kind(c),
              key |-> Key(c), statement |-> 0]}

\* The sorted order: "evidence:..." comes before "raw-evidence:...".
Before(l, m) == m.statement = 0 \/ (l.statement # 0
                                     /\ l.statement <= m.statement)
\* Mutant: the identities are locked as they come.
NextLocks_Unsorted(c) == Locks(c) \ call[c].held

NextLocks(c) ==
    LET missing == Locks(c) \ call[c].held
    IN {l \in missing : \A m \in missing : Before(l, m)}

Rows(c) ==
    {[raw |-> Key(c), statement |-> s,
      split |-> Cardinality(call[c].request.statements) > 1] :
        s \in call[c].request.statements}
Row(c) == [kind |-> Kind(c), id |-> c, key |-> Key(c),
           content |-> call[c].request.content]

Stored(c) == {p \in publications : p.kind = Kind(c) /\ p.key = Key(c)}
Published == {<<e.raw, e.statement>> : e \in evidences}

\* A transaction that ends releases its locks.
End(c, outcome) ==
    call' = [call EXCEPT ![c].pc = outcome, ![c].held = {}]
Step(c, stage) == call' = [call EXCEPT ![c].pc = stage]

-----------------------------------------------------------------------------
(* One publication *)

\* Everything but a report is validated before its transaction; only an
\* already published report may skip the rules, and it is looked up first.
Start(c) ==
    /\ call[c].pc = "idle" /\ version # "stopped"
    /\ \E request \in Request :
         /\ request.kind = "evidence"
              => request.content = Unasked.content
         /\ request.kind # "evidence" => request.statements = {}
         /\ call' = [call EXCEPT ![c].request = request,
                       ![c].pc = IF request.kind = "report"
                                    \/ Accepted(request)
                                 THEN "lock" ELSE "invalid"]
    /\ UNCHANGED <<tables, version, plan>>

\* pg_advisory_xact_lock, one identity at a time.
TakeLock(c) ==
    /\ call[c].pc = "lock"
    /\ \E l \in NextLocks(c) :
         /\ \A d \in Calls : l \notin call[d].held
         /\ call' = [call EXCEPT ![c].held = @ \cup {l},
                       ![c].pc = IF Locks(c) = call[c].held \cup {l}
                                 THEN "read" ELSE "lock"]
    /\ UNCHANGED <<tables, version, plan>>

ReadRaw(c) ==
    /\ call[c].pc = "read" /\ Kind(c) = "raw"
    /\ LET existing == {r \in raws : r.key = Key(c)} IN
       IF existing = {} THEN Step(c, "insert")
       ELSE End(c, IF \E r \in existing : r.content = call[c].request.content
                   THEN "replayed" ELSE "conflict")
    /\ UNCHANGED <<tables, version, plan>>

ReadEvidence(c) ==
    /\ call[c].pc = "read" /\ Kind(c) = "evidence"
    /\ LET existing == {e \in evidences : e.raw = Key(c)} IN
       IF ~\E r \in raws : r.key = Key(c) THEN End(c, "missing")
       ELSE IF existing = {} THEN Step(c, "insert")
       ELSE End(c, IF existing = Rows(c) THEN "replayed" ELSE "conflict")
    /\ UNCHANGED <<tables, version, plan>>

\* Mutant: the rules are checked before the stored report is looked up.
ReadReport_RulesFirst(c) ==
    /\ call[c].pc = "read" /\ Kind(c) = "report"
    /\ IF ~Accepted(call[c].request) THEN End(c, "invalid")
       ELSE IF \E p \in Stored(c) : p.content = call[c].request.content
       THEN \E p \in Stored(c) :
              call' = [call EXCEPT ![c].pc = "replayed", ![c].held = {},
                                   ![c].answer = p.id]
       ELSE IF Stored(c) # {} THEN End(c, "conflict")
       ELSE IF ~(Cites[call[c].request.content] \subseteq Published)
       THEN End(c, "missing")
       ELSE Step(c, "insert")
    /\ UNCHANGED <<tables, version, plan>>

\* Mutant: a replay is answered the id made for the repeated call.
ReadReport_NewID(c) ==
    /\ call[c].pc = "read" /\ Kind(c) = "report"
    /\ IF \E p \in Stored(c) : p.content = call[c].request.content
       THEN End(c, "replayed")
       ELSE IF Stored(c) # {} THEN End(c, "conflict")
       ELSE IF ~Accepted(call[c].request) THEN End(c, "invalid")
       ELSE IF ~(Cites[call[c].request.content] \subseteq Published)
       THEN End(c, "missing")
       ELSE Step(c, "insert")
    /\ UNCHANGED <<tables, version, plan>>

\* The stored report wins over the rules, the rules over its references.
ReadReport(c) ==
    /\ call[c].pc = "read" /\ Kind(c) = "report"
    /\ IF \E p \in Stored(c) : p.content = call[c].request.content
       THEN \E p \in Stored(c) :
              call' = [call EXCEPT ![c].pc = "replayed", ![c].held = {},
                                   ![c].answer = p.id]
       ELSE IF Stored(c) # {} THEN End(c, "conflict")
       ELSE IF ~Accepted(call[c].request) THEN End(c, "invalid")
       ELSE IF ~(Cites[call[c].request.content] \subseteq Published)
       THEN End(c, "missing")
       ELSE Step(c, "insert")
    /\ UNCHANGED <<tables, version, plan>>

\* Mutant: an event whose references are not all published is accepted.
ReadEvent_AnyReference(c) ==
    /\ call[c].pc = "read" /\ Kind(c) = "event"
    /\ IF \E p \in Stored(c) : p.content = call[c].request.content
       THEN \E p \in Stored(c) :
              call' = [call EXCEPT ![c].pc = "replayed", ![c].held = {},
                                   ![c].answer = p.id]
       ELSE IF Stored(c) # {} THEN End(c, "conflict")
       ELSE Step(c, "insert")
    /\ UNCHANGED <<tables, version, plan>>

ReadEvent(c) ==
    /\ call[c].pc = "read" /\ Kind(c) = "event"
    /\ IF \E p \in Stored(c) : p.content = call[c].request.content
       THEN \E p \in Stored(c) :
              call' = [call EXCEPT ![c].pc = "replayed", ![c].held = {},
                                   ![c].answer = p.id]
       ELSE IF Stored(c) # {} THEN End(c, "conflict")
       ELSE IF ~(Cites[call[c].request.content] \subseteq Published)
       THEN End(c, "missing")
       ELSE Step(c, "insert")
    /\ UNCHANGED <<tables, version, plan>>

\* Inserts meet the unique keys of the tables: one raw evidence per id, one
\* row per evidence id, one report or receipt per key.
Clashes(c) ==
    CASE Kind(c) = "raw" -> \E r \in raws : r.key = Key(c)
      [] Kind(c) = "evidence" ->
           \E e \in evidences : \E row \in Rows(c) :
             e.raw = row.raw /\ e.statement = row.statement
      [] OTHER -> Stored(c) # {}

\* The inserts and the commit; its acknowledgement may be lost.  The version
\* before split storage writes the archive alone.
Commit(c) ==
    /\ call[c].pc = "insert"
    /\ IF Clashes(c)
       THEN End(c, "constraint") /\ UNCHANGED tables
       ELSE /\ \E acknowledged \in BOOLEAN :
                 End(c, IF acknowledged THEN "published" ELSE "failed")
            /\ raws' = raws \cup
                 {[key |-> Key(c), content |-> call[c].request.content] :
                     kind \in {Kind(c)} \cap {"raw"}}
            /\ evidences' = evidences \cup
                 (IF Kind(c) = "evidence" THEN Rows(c) ELSE {})
            /\ publications' = publications \cup
                 {Row(c) : kind \in {Kind(c)} \cap {"report", "event"}}
            /\ links' = links \cup
                 [publication : {c} , evidence :
                    IF Kind(c) \in {"report", "event"}
                    THEN Cites[call[c].request.content] ELSE {}]
            /\ storage' = storage \cup
                 (IF Kind(c) = "report" /\ version = "new" THEN {c} ELSE {})
    /\ UNCHANGED <<version, plan>>

\* A statement fails, the deadline passes or the process dies: rollback.
Fail(c) ==
    /\ call[c].pc \in {"lock", "read", "insert"}
    /\ End(c, "failed")
    /\ UNCHANGED <<tables, version, plan>>

-----------------------------------------------------------------------------
(* Report storage maintenance and the cutover to split storage *)

Reports == {p \in publications : p.kind = "report"}
ReadArchive(c) == call[c].pc = "insert" /\ Kind(c) = "report"

\* Migration 88 renames the archive: old writers are stopped before it.
StopOld ==
    /\ version = "old"
    /\ version' = "stopped"
    /\ call' = [c \in Calls |->
         IF call[c].pc \in {"lock", "read", "insert"}
         THEN [call[c] EXCEPT !.pc = "failed", !.held = {}] ELSE call[c]]
    /\ UNCHANGED <<tables, plan>>

\* The inventory splits at a cutoff; which reports are older is left open.
PlanStorage ==
    /\ version # "old"
    /\ plan.pc \in {"none", "refused"}
    /\ \E delete \in SUBSET Reports :
         plan' = [pc |-> "reviewed", inventory |-> Reports, delete |-> delete]
    /\ UNCHANGED <<tables, version, call>>

\* Mutant: the reviewed plan is applied to whatever is there now.
ApplyStorage_Stale ==
    /\ plan.pc = "reviewed"
    /\ ~\E c \in Calls : ReadArchive(c)
    /\ plan' = [plan EXCEPT !.pc = "applied"]
    /\ LET removed == {p.id : p \in plan.delete} IN
       /\ publications' = publications \ plan.delete
       /\ links' = {l \in links : l.publication \notin removed}
       /\ storage' = {p.id : p \in Reports} \ removed
    /\ UNCHANGED <<raws, evidences, version, call>>

\* The exclusive table locks wait for the transactions that have read them.
ApplyStorage ==
    /\ plan.pc = "reviewed"
    /\ ~\E c \in Calls : ReadArchive(c)
    /\ IF Reports # plan.inventory
       THEN /\ plan' = [pc |-> "refused", inventory |-> {}, delete |-> {}]
            /\ UNCHANGED <<publications, links, storage>>
       ELSE /\ plan' = [plan EXCEPT !.pc = "applied"]
            /\ LET removed == {p.id : p \in plan.delete} IN
               /\ publications' = publications \ plan.delete
               /\ links' = {l \in links : l.publication \notin removed}
               /\ storage' = {p.id : p \in Reports} \ removed
    /\ UNCHANGED <<raws, evidences, version, call>>

\* Mutant: the version that reads split storage starts without the gate.
StartNew_Unverified ==
    /\ version = "stopped"
    /\ version' = "new"
    /\ UNCHANGED <<tables, call, plan>>

\* VerifyStorage is the gate of the version that reads split storage.
StartNew ==
    /\ version = "stopped"
    /\ {p.id : p \in Reports} \subseteq storage
    /\ version' = "new"
    /\ UNCHANGED <<tables, call, plan>>

-----------------------------------------------------------------------------
Serve(c) ==
    \/ TakeLock(c) \/ ReadRaw(c) \/ ReadEvidence(c) \/ ReadReport(c)
    \/ ReadEvent(c) \/ Commit(c)

Next ==
    \/ StopOld \/ PlanStorage \/ ApplyStorage \/ StartNew
    \/ \E c \in Calls : Start(c) \/ Serve(c) \/ Fail(c)

Spec == Init /\ [][Next]_vars

\* The database grants a lock that stays free and the process goes on.
FairSpec == Spec /\ \A c \in Calls : WF_vars(Serve(c))

-----------------------------------------------------------------------------
(* Correctness *)

TypeOK ==
    /\ raws \subseteq RawRow
    /\ evidences \subseteq EvidenceRow
    /\ publications \subseteq PublicationRow
    /\ links \subseteq Link
    /\ storage \subseteq Calls
    /\ version \in {"old", "stopped", "new"}
    /\ call \in [Calls -> CallState]
    /\ plan \in [pc : {"none", "reviewed", "applied", "refused"},
                 inventory : SUBSET PublicationRow,
                 delete : SUBSET PublicationRow]

\* The evidences of a raw evidence are exactly the set of one publication,
\* however many rival splits of it were published at once: never a part of a
\* set, never a mixture of two (UseCase.PublishEvidence); and all rows keep
\* their shape.
EvidenceSetIsOnePublication ==
    TypeOK /\ \A k \in Keys :
      LET set == {e \in evidences : e.raw = k} IN
      set # {} => \E c \in Calls : /\ call[c].pc \in {"published", "failed"}
                                   /\ Kind(c) = "evidence" /\ set = Rows(c)

\* A reference resolves for good: reports and events cite evidences that
\* exist, and each has all of its links (InsertEvidenceLinks).
CitationsResolve ==
    /\ \A l \in links : l.evidence \in Published
    /\ \A p \in publications :
         {l.evidence : l \in {l \in links : l.publication = p.id}}
           = Cites[p.content]

\* Rival calls with one key: those that were told of success were told the
\* same thing, the same content and, unless maintenance has removed the first
\* report in between, the same publication; and none is answered an internal
\* error because the other inserted first: the advisory locks leave nothing
\* to the unique keys.
OneAnswerPerKey ==
  /\ \A c \in Calls : call[c].pc # "constraint"
  /\ \A c, d \in Calls :
      /\ call[c].pc \in {"published", "replayed"}
      /\ call[d].pc \in {"published", "replayed"}
      /\ Kind(c) = Kind(d) /\ Kind(c) \in {"report", "event"}
      /\ Key(c) = Key(d)
      /\ ~\E p \in plan.delete : plan.pc = "applied" /\ p.key = Key(c)
                                 /\ p.kind = Kind(c)
      => /\ call[c].request.content = call[d].request.content
         /\ call[c].answer = call[d].answer

\* A publisher that repeats what is stored is never refused for it: neither as
\* a conflict nor, for a report, by rules that came later.
ReplayIsAccepted ==
    [][ \A c \in Calls :
          /\ call[c].pc = "read"
          /\ \/ \E r \in raws : Kind(c) = "raw" /\ r.key = Key(c)
                                /\ r.content = call[c].request.content
             \/ Kind(c) = "evidence" /\ evidences # {}
                /\ {e \in evidences : e.raw = Key(c)} = Rows(c)
             \/ \E p \in Stored(c) : p.content = call[c].request.content
          => call'[c].pc \in {"read", "replayed", "failed"} ]_vars

\* Maintenance removes only reports its reviewed plan lists for removal, and
\* only if no report was published or removed since; nothing else ever
\* removes or replaces a committed row.
RemovedAsReviewed ==
    [][ /\ raws \subseteq raws' /\ evidences \subseteq evidences'
        /\ (publications \ publications') \subseteq plan.delete
        /\ (publications \ publications' # {} => Reports = plan.inventory) ]_vars

\* The version that reads the split tables finds every archived report there,
\* and nothing else: those written before the cutover, those it publishes,
\* and those maintenance has left (VerifyStorage).
StorageIsComplete == version = "new" => storage = {p.id : p \in Reports}
=============================================================================
