--------------------------- MODULE SourceRegistry ---------------------------
(***************************************************************************)
(* The Source registry of the Data Service: the set of collection sources  *)
(* that operators edit, that reviewed manifests are published into, and    *)
(* that the collector reads as one complete snapshot.                      *)
(*                                                                         *)
(* A mutation is one READ COMMITTED transaction: it begins, takes the      *)
(* registry's advisory lock, lists the rows, decides and commits.  Time is *)
(* the clock that now() reads, which in PostgreSQL is the start of the     *)
(* transaction and not of the statement.                                   *)
(*                                                                         *)
(* A source keeps what the limits tell apart: who owns it, its channel,    *)
(* whether it is enabled, its config and its stamps.  A config stands for  *)
(* the whole body of a source; Jsonb says what the database makes of it    *)
(* (1e5000 is stored, and read back, as five thousand digits).             *)
(***************************************************************************)
EXTENDS Naturals, FiniteSets, FiniteSetsExt

CONSTANTS
    Codes,             \* codes; the id of a source is derived from its code
    SourceCalls,       \* calls that can be in progress at a time
    Requests,          \* what the calls ask for
    Configs,           \* what the body of a source can be
    Jsonb,             \* config -> the config read back after it was stored
    Bytes,             \* config -> its bytes in the snapshot
    StampWidth,        \* instant -> bytes of its RFC3339Nano text
    WorstWidth,        \* bytes of the longest such text
    MaxNow,            \* bound on the clock
    MaxConfigBytes, MaxSources, MaxEnvelope,
    FixedManifest,     \* code -> source, as CurrentFixedManifest lists them
    ResearchManifest,  \* code -> source, as CurrentResearchRSSManifest
    Imports            \* documents an export can hold: code -> source

VARIABLES
    sources,     \* table sources: code -> row
    sourceCall,  \* progress of each call
    now          \* the clock of the database

sourceVars == <<sources, sourceCall, now>>

-----------------------------------------------------------------------------
(* State *)

\* 0 is the zero time of a source that was not stored yet.
Stamps == 0 .. MaxNow

Source == [owner : {"fixed", "dynamic"}, channel : {"web_search", "api", "rss"},
           enabled : BOOLEAN, config : Configs, created : Stamps,
           updated : Stamps]

ASSUME SourceConstants ==
    /\ Jsonb \in [Configs -> Configs] /\ Bytes \in [Configs -> Nat]
    /\ StampWidth \in [1 .. MaxNow -> 0 .. WorstWidth]
    /\ {MaxNow, MaxConfigBytes, MaxSources, MaxEnvelope, WorstWidth}
         \subseteq Nat
    /\ MaxNow > 0 /\ IsFiniteSet(Codes)
    /\ \A m \in {FixedManifest, ResearchManifest} \cup Imports :
         DOMAIN m \subseteq Codes /\ \A code \in DOMAIN m : m[code] \in Source
    /\ \A code \in DOMAIN FixedManifest : FixedManifest[code].owner = "fixed"
    /\ \A code \in DOMAIN ResearchManifest :
         /\ ResearchManifest[code].owner = "dynamic"
         /\ ResearchManifest[code].channel = "rss"

\* What the database reads back it stores as it is; manifests have no stamps,
\* and Import refuses a document without them or with one out of order.
ASSUME SourceStamps ==
    /\ \A config \in Configs : Jsonb[Jsonb[config]] = Jsonb[config]
    /\ \A m \in {FixedManifest, ResearchManifest} :
         \A code \in DOMAIN m : m[code].created = 0 /\ m[code].updated = 0
    /\ \A m \in Imports : \A code \in DOMAIN m : m[code].created \in 1 .. m[code].updated

Operations == {"create", "update", "delete", "fixed", "research", "import"}
Outcomes == {"done", "invalid", "not_found", "conflict", "forbidden",
             "capacity", "persistence", "failed"}

\* Only an update and a create look at every field of a request.
Ask == [op : Operations, code : Codes, enabled : BOOLEAN, config : Configs]

ASSUME SourceRequests == Requests \subseteq Ask

\* A call that is over is followed by another.
Idle == [pc |-> "idle", ask |-> CHOOSE ask \in Requests : TRUE, started |-> 0,
         document |-> CHOOSE document \in Imports : TRUE,
         seen |-> [code \in {} |-> 0]]

SourceInit ==
    /\ sources = [code \in {} |-> 0]
    /\ sourceCall = [c \in SourceCalls |-> Idle]
    /\ now = 1

-----------------------------------------------------------------------------
(* Limits of the set *)

Width(stamp) == IF stamp = 0 THEN WorstWidth ELSE StampWidth[stamp]

Enabled(rows) == {code \in DOMAIN rows : rows[code].enabled}

\* The bytes of what is encoded: those of its parts, one by one.
Total(bytes) == Cardinality(UNION {{part} \X (1 .. bytes[part]) : part \in DOMAIN bytes})

\* snapshotEnvelopeSize: an unset stamp is measured at its longest.
EnvelopeSize(rows) ==
    Total([code \in Enabled(rows) |->
             Bytes[rows[code].config] + Width(rows[code].created) + Width(rows[code].updated)])

\* validateSource; the config stands for every field with a limit.
ValidSource(row) == Bytes[row.config] <= MaxConfigBytes

ActiveWeb(rows) == {code \in Enabled(rows) : rows[code].channel = "web_search"}

\* validateProjectedSet: the first limit the set breaks.
ValidateProjectedSet(rows) ==
    IF Cardinality(DOMAIN rows) > MaxSources THEN "capacity"
    ELSE IF \E code \in DOMAIN rows : ~ValidSource(rows[code]) THEN "invalid"
    ELSE IF Cardinality(ActiveWeb(rows)) > 1 THEN "conflict"
    ELSE IF EnvelopeSize(rows) > MaxEnvelope THEN "capacity"
    ELSE "done"

\* The rows of one set and the sources of another that it lacks.
Merged(rows, more) ==
    [code \in DOMAIN rows \cup DOMAIN more |->
        IF code \in DOMAIN rows THEN rows[code] ELSE more[code]]

-----------------------------------------------------------------------------
(* A transaction *)

Asked(c) == sourceCall[c].ask

\* The row an Insert leaves: defaults of the stamps are now().
Inserted(c, source) ==
    [source EXCEPT !.config = Jsonb[@],
                   !.created = IF @ = 0 THEN sourceCall[c].started ELSE @,
                   !.updated = IF @ = 0 THEN sourceCall[c].started ELSE @]

\* The call is answered with an outcome that changes nothing.
EndSource(c, outcome) ==
    /\ outcome \in Outcomes
    /\ sourceCall' = [sourceCall EXCEPT ![c] = Idle]
    /\ UNCHANGED <<sources, now>>

\* The rows this transaction inserted, changed or removed become visible.
CommitChange(c, rows) ==
    /\ sources' = rows
    /\ sourceCall' = [sourceCall EXCEPT ![c] = Idle]
    /\ UNCHANGED now

\* The dynamic source of a create.
NewSource(ask) ==
    [owner |-> "dynamic", channel |-> "rss", enabled |-> ask.enabled,
     config |-> ask.config, created |-> 0, updated |-> 0]

\* What is checked before a transaction begins.
Prevalidated(ask, document) ==
    IF ask.op = "create" /\ ~ValidSource(NewSource(ask)) THEN "invalid"
    ELSE IF ask.op = "import" THEN ValidateProjectedSet(document)
    ELSE "done"

Begin(c) ==
    /\ sourceCall[c].pc = "idle"
    /\ \E ask \in Requests, document \in Imports :
         /\ ask.op # "import" => document = Idle.document
         /\ Prevalidated(ask, document) = "done"
         /\ sourceCall' = [sourceCall EXCEPT ![c] =
              [@ EXCEPT !.pc = "begun", !.ask = ask, !.started = now,
                        !.document = document]]
    /\ UNCHANGED <<sources, now>>

\* Mutant: the advisory lock is not exclusive.
LockSources_Shared(c) ==
    /\ sourceCall[c].pc = "begun"
    /\ sourceCall' = [sourceCall EXCEPT ![c].pc = "locked",
                                        ![c].seen = sources]
    /\ UNCHANGED <<sources, now>>

\* The rows are listed by the statement after the lock, which is held to the
\* end of the transaction.
LockSources(c) ==
    /\ sourceCall[c].pc = "begun"
    /\ \A other \in SourceCalls : sourceCall[other].pc # "locked"
    /\ sourceCall' = [sourceCall EXCEPT ![c].pc = "locked",
                                        ![c].seen = sources]
    /\ UNCHANGED <<sources, now>>

\* The connection breaks, or the budget of the call runs out: rolled back.
FailCall(c) ==
    /\ sourceCall[c].pc \in {"begun", "locked"}
    /\ EndSource(c, "failed")

-----------------------------------------------------------------------------
(* What a mutation decides, from the rows it has listed *)

Deciding(c, op) == sourceCall[c].pc = "locked" /\ Asked(c).op = op
Seen(c) == sourceCall[c].seen

\* CreateDynamic
CreateDynamic(c) ==
    /\ Deciding(c, "create")
    /\ LET code == Asked(c).code
           candidate == NewSource(Asked(c))
           checked == ValidateProjectedSet(Merged(Seen(c), [k \in {code} |-> candidate]))
       IN IF code \in DOMAIN Seen(c) THEN EndSource(c, "conflict")
          ELSE IF checked # "done" THEN EndSource(c, checked)
          ELSE CommitChange(c, Merged(sources, [k \in {code} |-> Inserted(c, candidate)]))

\* Update keeps the identity; the set is measured with the old stamp, the row
\* gets the start of the transaction, which a table constraint refuses when it
\* is before the creation of the row.
Update(c) ==
    /\ Deciding(c, "update")
    /\ LET code == Asked(c).code
           candidate == [Seen(c)[code] EXCEPT !.enabled = Asked(c).enabled,
                                              !.config = Asked(c).config]
           checked == ValidateProjectedSet([Seen(c) EXCEPT ![code] = candidate])
           row == [candidate EXCEPT !.config = Jsonb[@],
                                    !.updated = sourceCall[c].started]
       IN IF code \notin DOMAIN Seen(c) THEN EndSource(c, "not_found")
          ELSE IF ~ValidSource(candidate) THEN EndSource(c, "invalid")
          ELSE IF checked # "done" THEN EndSource(c, checked)
          ELSE IF row.updated < row.created THEN EndSource(c, "persistence")
          ELSE CommitChange(c, [sources EXCEPT ![code] = row])

\* A trigger refuses the same again below the code.
Delete(c) ==
    /\ Deciding(c, "delete")
    /\ IF Asked(c).code \notin DOMAIN Seen(c) THEN EndSource(c, "not_found")
       ELSE IF Seen(c)[Asked(c).code].owner = "fixed"
            THEN EndSource(c, "forbidden")
       ELSE CommitChange(c, [code \in DOMAIN sources \ {Asked(c).code} |->
                         sources[code]])

\* A source of a manifest that is stored under another identity.
Mismatch(manifest, rows) ==
    \E code \in DOMAIN manifest \cap DOMAIN rows :
        \/ rows[code].owner # manifest[code].owner
        \/ rows[code].channel # manifest[code].channel

InsertMissing(c, manifest) ==
    CommitChange(c, Merged(sources,
                     [code \in DOMAIN manifest |->
                        Inserted(c, manifest[code])]))

\* PublishFixed inserts as it goes, so that the unique index on the enabled web
\* search speaks before the whole set is validated.
PublishFixed(c) ==
    /\ Deciding(c, "fixed")
    /\ LET projected == Merged(Seen(c), FixedManifest)
       IN IF \/ Mismatch(FixedManifest, Seen(c))
             \/ Cardinality(ActiveWeb(projected)) > 1
          THEN EndSource(c, "conflict")
          ELSE IF ValidateProjectedSet(projected) # "done"
               THEN EndSource(c, ValidateProjectedSet(projected))
          ELSE InsertMissing(c, FixedManifest)

\* PublishDynamicCatalog validates before it inserts.
PublishDynamicCatalog(c) ==
    /\ Deciding(c, "research")
    /\ LET checked == ValidateProjectedSet(Merged(Seen(c), ResearchManifest))
       IN IF Mismatch(ResearchManifest, Seen(c)) THEN EndSource(c, "conflict")
          ELSE IF checked # "done" THEN EndSource(c, checked)
          ELSE InsertMissing(c, ResearchManifest)

\* sameSource compares configs by the JSON they denote.
SameSources(rows, document) ==
    /\ DOMAIN rows = DOMAIN document
    /\ \A code \in DOMAIN rows :
         rows[code] = [document[code] EXCEPT !.config = Jsonb[@]]

\* Import fills an empty registry, or verifies that it holds the document.
Import(c) ==
    /\ Deciding(c, "import")
    /\ LET document == sourceCall[c].document
       IN IF DOMAIN Seen(c) = {} THEN InsertMissing(c, document)
          ELSE IF SameSources(Seen(c), document) THEN EndSource(c, "done")
          ELSE EndSource(c, "conflict")

SourceTick ==
    /\ now < MaxNow
    /\ now' = now + 1
    /\ UNCHANGED <<sources, sourceCall>>

Decide(c) ==
    \/ CreateDynamic(c) \/ Update(c) \/ Delete(c) \/ Import(c)
    \/ PublishFixed(c) \/ PublishDynamicCatalog(c)

SourceNext ==
    \/ SourceTick
    \/ \E c \in SourceCalls : Begin(c) \/ LockSources(c) \/ Decide(c) \/ FailCall(c)

\* The database grants a lock again and again to whoever waits for it, and
\* goes on with a transaction until it ends.
SourceSpec ==
    /\ SourceInit /\ [][SourceNext]_sourceVars
    /\ \A c \in SourceCalls : SF_sourceVars(LockSources(c)) /\ WF_sourceVars(Decide(c))

-----------------------------------------------------------------------------
(* Reads: one statement each, without the lock *)

\* List fails as a whole when a stored source is invalid.
ListAnswer ==
    IF \E code \in DOMAIN sources : ~ValidSource(sources[code])
    THEN "persistence" ELSE "done"

\* ActiveSnapshot also when the active set is over a limit.
SnapshotAnswer ==
    IF \E code \in Enabled(sources) : ~ValidSource(sources[code]) THEN "persistence"
    ELSE IF \/ Cardinality(Enabled(sources)) > MaxSources
            \/ EnvelopeSize(sources) > MaxEnvelope THEN "capacity"
    ELSE "done"

-----------------------------------------------------------------------------
(* Properties *)

SourceTypeOK ==
    /\ DOMAIN sources \subseteq Codes
    /\ \A code \in DOMAIN sources :
         /\ sources[code] \in Source
         /\ sources[code].created \in 1 .. sources[code].updated
    /\ \A c \in SourceCalls : sourceCall[c].started \in 0 .. now
    /\ now \in 1 .. MaxNow

\* The bytes a config was sent with are at least these.
SentBytes(config) == Min({Bytes[sent] : sent \in
                            {s \in Configs : Jsonb[s] = config}})

\* The shortest text of an instant from the given one on: what the last stamp of
\* a row was measured with has at least that width.
LeastWidth(stamp) == Min({Width(t) : t \in stamp .. MaxNow})

\* What a row was measured with when it was accepted, at least.
Measured(row) == SentBytes(row.config) + Width(row.created) + LeastWidth(row.created)

\* The limits of the set hold at every commit, whichever mutations race: the
\* count, the one active web search, and the envelope of the bodies as they
\* were accepted.  So a read is refused only for what was never measured: a
\* body that grew when it was stored, or the stamp an Update put in place of a
\* shorter one it was measured with.
SourceSetIsWithinLimits ==
    /\ SourceTypeOK
    /\ Cardinality(DOMAIN sources) <= MaxSources
    /\ Cardinality(ActiveWeb(sources)) <= 1
    /\ Total([code \in Enabled(sources) |-> Measured(sources[code])]) <= MaxEnvelope
    /\ (\A code \in DOMAIN sources :
          Bytes[sources[code].config] = SentBytes(sources[code].config))
       => /\ ListAnswer = "done"
          /\ SnapshotAnswer = "done" \/ \E code \in Enabled(sources) :
               LeastWidth(sources[code].created) < Width(sources[code].updated)

\* A fixed source stays, under its identity, whatever the operators do; and
\* publishing or importing a manifest again never touches what they have set.
FixedSourcesStay ==
    [][/\ \A code \in DOMAIN sources : sources[code].owner = "fixed" =>
            /\ code \in DOMAIN sources'
            /\ sources'[code].owner = "fixed"
            /\ sources'[code].channel = sources[code].channel
       /\ \A c \in SourceCalls :
            /\ sourceCall[c].pc = "locked" /\ sourceCall'[c].pc # "locked"
            /\ Asked(c).op \in {"fixed", "research", "import"}
            => \A code \in DOMAIN sources :
                 code \in DOMAIN sources' /\ sources'[code] = sources[code]
      ]_sourceVars
=============================================================================
