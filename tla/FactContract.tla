---------------------------- MODULE FactContract ----------------------------
(***************************************************************************)
(* The facts of the Data Service, as their two ends enforce them: one raw  *)
(* evidence, the set of evidence split from it, one event.                 *)
(*                                                                         *)
(* The writer validates a publication (biz/evidence, biz/event) and        *)
(* normalizes it; PostgreSQL computes a hash and two time columns of its   *)
(* own; every read validates the row again, against persisted invariants   *)
(* (data/evidence, data/event), and answers an error when one fails.  Rows *)
(* are immutable: what is stored and cannot be read stays so, and takes    *)
(* the lists it is on, the repeats of its publication and whatever builds  *)
(* on it with it.                                                          *)
(*                                                                         *)
(* A text is a word and a number of characters, 0 for a blank one; a time  *)
(* is a number of nanoseconds, 0 for the zero time, and whether it is UTC. *)
(* IDs, URLs and enumerations of the wrong form are left out but for one   *)
(* of each: both ends test them alike.  Null stands for nil and for NULL.  *)
(***************************************************************************)
EXTENDS Integers, Sequences, FiniteSets, Functions

CONSTANTS
    Null,
    Fold,               \* words, each in lower case
    Cast,               \* what the cast to bytea makes of a word: "verbatim", "decoded", "invalid"
    KnownCategories,    \* the evidence categories
    PublishedEvidence,  \* evidence that was published before
    FactDrafts          \* what publishers send: raws, sets, events

\* What publishers send, as decoded.
FactTexts == [word : DOMAIN Fold, size : Nat]
MaybeText == FactTexts \cup {Null}
MaybeTexts == Seq(FactTexts) \cup {Null}
FactTimes == [ns : Nat, utc : BOOLEAN]
MaybeTime == FactTimes \cup {Null}

RawDrafts ==
    [source_id : FactTexts, source_name : FactTexts, source_url : FactTexts, source_level : STRING,
     is_original : BOOLEAN, quoted_id : MaybeText, quoted_name : MaybeText, title : MaybeText,
     raw_text : FactTexts, published_at : MaybeTime, collected_at : FactTimes, categories : Seq(Nat)]

MetricDrafts ==
    [name : FactTexts, value : MaybeText, unit : MaybeText, change : MaybeText, period : MaybeText]
MaybeMetrics == Seq(MetricDrafts) \cup {Null}

SemanticDrafts ==
    [actors : MaybeTexts, action : FactTexts, objects : MaybeTexts, stage : STRING, modality : STRING,
     time : [raw : MaybeText, precision : STRING, start_at : MaybeTime, end_at : MaybeTime],
     jurisdictions : MaybeTexts, reason : MaybeText, method : MaybeText, metrics : MaybeMetrics,
     attribution : [reported_by : MaybeText, claimed_by : MaybeText] \cup {Null}]

EvidenceDrafts == [summary : FactTexts, keywords : Seq(FactTexts), semantic : SemanticDrafts]

EventDrafts ==
    [title : FactTexts, summary : FactTexts, actors : Seq(FactTexts), action : FactTexts,
     objects : Seq(FactTexts), stage : STRING, modality : STRING, precision : STRING,
     occurred_at : MaybeTime, announced_at : MaybeTime, effective_at : MaybeTime,
     observed_at : MaybeTime, jurisdictions : MaybeTexts, metrics : MaybeMetrics, evidence : Seq(Nat)]

ASSUME FactForms ==
    /\ Null \notin Int /\ Null \notin FactTimes
    /\ \A drafts \in FactDrafts :
          /\ drafts.raws \subseteq RawDrafts
          /\ drafts.sets \subseteq Seq(EvidenceDrafts)
          /\ drafts.events \subseteq EventDrafts

VARIABLES
    factDraft,          \* the drafts of this behaviour
    rawRow,             \* raw_evidences: the row, or Null
    setRows,            \* evidences: what is stored under each id, or Null
    eventRow,           \* events: the event and its two time columns, or Null
    listing,            \* a list of evidence between its two statements
    factAnswer          \* the last answer

factVars == <<factDraft, rawRow, setRows, eventRow, listing, factAnswer>>

SourceLevels == {"L1_OFFICIAL", "L2_WIRE", "L3_MEDIA", "L4_SOCIAL"}
FactStages == {"OCCURRED", "ANNOUNCED", "EFFECTIVE", "IMPLEMENTED", "UPDATED", "SUSPENDED",
               "TERMINATED", "EXPECTED"}
FactModalities == {"FACT", "PLAN", "SPEC"}
TimePrecisions == {"INSTANT", "DAY", "RANGE", "MONTH", "QUARTER", "YEAR", "UNKNOWN"}

-----------------------------------------------------------------------------
(* What the writer accepts, and makes of it *)

\* required and optional: not blank, and within the limit if there is one.
RequiredChars(text, max) == text.size > 0 /\ (max = 0 \/ text.size <= max)
OptionalChars(text, max) == text # Null => RequiredChars(text, max)

\* validateUniqueRequiredStrings and validateEvidenceKeywords.
UniqueRequiredStrings(values, min, max, chars) ==
    /\ values # Null
    /\ Len(values) \in min .. max
    /\ \A value \in Range(values) : RequiredChars(value, chars)
    /\ IsInjective(values)

ValidRawEvidence(raw) ==
    /\ RequiredChars(raw.source_id, 32) /\ RequiredChars(raw.source_name, 100)
    /\ RequiredChars(raw.source_url, 0) /\ RequiredChars(raw.raw_text, 0)
    /\ raw.source_level \in SourceLevels
    /\ OptionalChars(raw.quoted_id, 32) /\ OptionalChars(raw.quoted_name, 100)
    /\ OptionalChars(raw.title, 500)
    /\ IF raw.is_original THEN raw.quoted_id = Null /\ raw.quoted_name = Null
                          ELSE raw.quoted_name # Null
    /\ raw.collected_at.ns # 0 /\ raw.collected_at.utc
    /\ raw.published_at # Null => raw.published_at.utc
    /\ IsInjective(raw.categories)

ValidTime(time) ==
    /\ OptionalChars(time.raw, 200)
    /\ time.precision \in TimePrecisions
    /\ (time.start_at = Null) = (time.end_at = Null)
    /\ time.start_at # Null =>
          time.start_at.utc /\ time.end_at.utc /\ time.start_at.ns <= time.end_at.ns

\* A metric of an evidence goes by its name and its period, in lower case.
MetricIdentity(metric) ==
    <<Fold[metric.name.word], IF metric.period = Null THEN Null ELSE Fold[metric.period.word]>>

ValidMetrics(metrics) ==
    /\ metrics # Null
    /\ \A metric \in Range(metrics) :
          /\ RequiredChars(metric.name, 100)
          /\ OptionalChars(metric.value, 100) /\ OptionalChars(metric.unit, 50)
          /\ OptionalChars(metric.change, 100) /\ OptionalChars(metric.period, 100)
          /\ metric.value # Null \/ metric.change # Null
    /\ \A i, j \in DOMAIN metrics : MetricIdentity(metrics[i]) = MetricIdentity(metrics[j]) => i = j

ValidSemantic(semantic) ==
    /\ UniqueRequiredStrings(semantic.actors, 1, 20, 100)
    /\ RequiredChars(semantic.action, 200)
    /\ UniqueRequiredStrings(semantic.objects, 1, 20, 200)
    /\ semantic.stage \in FactStages /\ semantic.modality \in FactModalities
    /\ ValidTime(semantic.time)
    /\ UniqueRequiredStrings(semantic.jurisdictions, 0, 20, 100)
    /\ OptionalChars(semantic.reason, 500) /\ OptionalChars(semantic.method, 500)
    /\ ValidMetrics(semantic.metrics)
    /\ semantic.attribution # Null
    /\ \A party \in Range(semantic.attribution) : OptionalChars(party, 100)

\* validateEvidencePublication: an id is derived from the content as it was sent.
ValidEvidences(items) ==
    /\ items # <<>> /\ IsInjective(items)
    /\ \A item \in Range(items) :
          /\ RequiredChars(item.summary, 200)
          /\ UniqueRequiredStrings(item.keywords, 1, 5, 6)
          /\ ValidSemantic(item.semantic)

\* normalizePostgresTime: cut to microseconds.
Micro(time) == IF time = Null THEN Null ELSE [ns |-> time.ns - (time.ns % 1000), utc |-> TRUE]

\* cloneRawEvidence; the order of the categories is that of their ids.
StoredRaw(raw) ==
    [raw EXCEPT !.collected_at = Micro(@), !.published_at = Micro(@), !.categories = Range(@)]

StoredEvidence(item) ==
    [item EXCEPT !.semantic.time.start_at = Micro(@), !.semantic.time.end_at = Micro(@)]

\* The rows of a set, by id: the content that was sent stands for the id of its hash.
Records(items) ==
    [item \in Range(items) |-> [content |-> StoredEvidence(item), is_split |-> Len(items) > 1]]

\* The metrics of an event are not compared with each other.
ValidEvent(event) ==
    /\ RequiredChars(event.title, 200) /\ RequiredChars(event.summary, 0)
    /\ event.actors # <<>> /\ event.objects # <<>> /\ RequiredChars(event.action, 0)
    /\ event.jurisdictions # Null /\ event.metrics # Null
    /\ event.stage \in FactStages /\ event.modality \in FactModalities
    /\ event.precision \in TimePrecisions
    /\ \A values \in {event.actors, event.objects, event.jurisdictions} :
          IsInjective(values) /\ \A value \in Range(values) : RequiredChars(value, 0)
    /\ (\E time \in {"occurred_at", "announced_at", "effective_at"} : event[time] # Null)
          # (event.observed_at # Null)
    /\ \A metric \in Range(event.metrics) :
          RequiredChars(metric.name, 0) /\ (metric.value # Null \/ metric.change # Null)
    /\ event.evidence # <<>> /\ IsInjective(event.evidence)

-----------------------------------------------------------------------------
(* What PostgreSQL computes *)

HalfMicrosecond(time) == time # Null /\ time.ns % 1000 = 500

\* A time as a parameter: the driver sends whole microseconds.
Column(time) == IF time = Null THEN Null ELSE [time EXCEPT !.ns = @ - (@ % 1000)]

RawColumns(raw) == [raw EXCEPT !.collected_at = Column(@), !.published_at = Column(@)]

\* A time in text, cast to timestamptz: the nearest microsecond.  A half goes where the
\* floating point product of the fraction falls and rint takes it, to either side.
CastTimes(time) ==
    IF time = Null THEN {Null}
    ELSE {t \in {Micro(time).ns, Micro(time).ns + 1000} :
             t - time.ns \in -500 .. 500}

-----------------------------------------------------------------------------
(* What the reader accepts *)

StoredRequired(text, max) == text.size > 0 /\ (max = 0 \/ text.size <= max)
StoredOptional(text, max) == text # Null => StoredRequired(text, max)

\* validateStoredRawEvidence, the hash of the raw text included: the generated column
\* hashes the bytes the cast to bytea makes of the text, Go the text.
RawIsReadable(row) ==
    /\ StoredRequired(row.source_id, 32) /\ StoredRequired(row.source_name, 100)
    /\ StoredRequired(row.source_url, 0) /\ StoredRequired(row.raw_text, 0)
    /\ StoredOptional(row.quoted_id, 32) /\ StoredOptional(row.quoted_name, 100)
    /\ StoredOptional(row.title, 500)
    /\ row.source_level \in SourceLevels
    /\ row.is_original => row.quoted_id = Null /\ row.quoted_name = Null
    /\ ~row.is_original => row.quoted_name # Null
    /\ row.collected_at.ns # 0
    /\ Cast[row.raw_text.word] = "verbatim"

StoredStrings(values, min, max, chars) ==
    /\ values # Null /\ Len(values) \in min .. max
    /\ \A value \in Range(values) : StoredRequired(value, chars)
    /\ IsInjective(values)

StoredMetricIdentity(metric) ==
    <<Fold[metric.name.word], IF metric.period = Null THEN Null ELSE Fold[metric.period.word]>>

StoredMetrics(metrics) ==
    /\ metrics # Null
    /\ \A metric \in Range(metrics) :
          /\ StoredRequired(metric.name, 100)
          /\ metric.value # Null \/ metric.change # Null
          /\ StoredOptional(metric.value, 100) /\ StoredOptional(metric.unit, 50)
          /\ StoredOptional(metric.change, 100) /\ StoredOptional(metric.period, 100)
    /\ \A i, j \in DOMAIN metrics :
          StoredMetricIdentity(metrics[i]) = StoredMetricIdentity(metrics[j]) => i = j

StoredTime(time) ==
    /\ time.precision \in TimePrecisions
    /\ (time.start_at = Null) = (time.end_at = Null)
    /\ time.start_at # Null =>
          time.start_at.utc /\ time.end_at.utc /\ time.start_at.ns <= time.end_at.ns
    /\ StoredOptional(time.raw, 200)

\* validateStoredEvidence.
EvidenceIsReadable(content) ==
    LET semantic == content.semantic IN
    /\ StoredRequired(content.summary, 200) /\ StoredRequired(semantic.action, 200)
    /\ StoredStrings(semantic.actors, 1, 20, 100)
    /\ StoredStrings(semantic.objects, 1, 20, 200)
    /\ StoredStrings(semantic.jurisdictions, 0, 20, 100)
    /\ semantic.stage \in FactStages /\ semantic.modality \in FactModalities
    /\ StoredTime(semantic.time)
    /\ StoredOptional(semantic.reason, 500) /\ StoredOptional(semantic.method, 500)
    /\ semantic.attribution # Null
    /\ \A party \in Range(semantic.attribution) : StoredOptional(party, 100)
    /\ StoredMetrics(semantic.metrics)
    /\ StoredStrings(content.keywords, 1, 5, 6)

\* The rows of the set, each of them, and that the set is split if it has several.
SetIsReadable(rows) ==
    \A id \in DOMAIN rows :
        EvidenceIsReadable(rows[id].content) /\ rows[id].is_split = (Cardinality(DOMAIN rows) > 1)

\* validateEvidenceListItem: an evidence with the projection of its raw evidence.
ListItemIsReadable(raw, row) ==
    /\ StoredRequired(raw.source_id, 32) /\ StoredRequired(raw.source_name, 100)
    /\ StoredRequired(raw.source_url, 2048)
    /\ StoredOptional(raw.title, 500)
    /\ raw.source_level \in SourceLevels
    /\ raw.is_original => raw.quoted_name = Null
    /\ ~raw.is_original => raw.quoted_name # Null
    /\ StoredOptional(raw.quoted_name, 100)
    /\ EvidenceIsReadable(row.content)
    /\ raw.collected_at.ns # 0

\* A mutant of RoundToMicro: Truncate for Round.
RoundToMicro_Down(time) == time.ns - (time.ns % 1000)

\* Time.Round, halves up.
RoundToMicro(time) == ((time.ns + 500) \div 1000) * 1000

\* sameOptionalTime of the canonical time and the column, which has microseconds.
SameOptionalTime(time, column) ==
    IF time = Null \/ column = Null THEN time = column ELSE RoundToMicro(time) = column

\* scanEvent and EventByID alike.
EventIsReadable(row) ==
    /\ SameOptionalTime(row.event.occurred_at, row.occurred_at)
    /\ SameOptionalTime(row.event.announced_at, row.announced_at)
    /\ row.event.title.size > 0 /\ row.event.summary.size > 0
    /\ row.event.modality \in FactModalities

-----------------------------------------------------------------------------
(* The operations *)

Tells(call, sent, outcome) ==
    factAnswer' = [call |-> call, sent |-> sent, outcome |-> outcome, total |-> 0]

\* PublishRawEvidence, one transaction behind a lock on the id.
PublishRaw(raw) ==
    /\ Tells("raw", raw,
             IF ~ValidRawEvidence(raw) THEN "invalid"
             ELSE IF ~(Range(raw.categories) \subseteq KnownCategories) THEN "unknown category"
             ELSE IF rawRow # Null
             THEN IF ~RawIsReadable(rawRow) THEN "failed"
                  ELSE IF rawRow = StoredRaw(raw) THEN "repeated" ELSE "conflict"
             ELSE IF Cast[raw.raw_text.word] = "invalid" THEN "failed" ELSE "stored")
    /\ rawRow' = IF factAnswer'.outcome = "stored" THEN RawColumns(StoredRaw(raw)) ELSE rawRow
    /\ UNCHANGED <<factDraft, setRows, eventRow, listing>>

\* PublishEvidence: the raw evidence and what is stored of the set are read first.
PublishSet(items) ==
    /\ Tells("set", items,
             IF ~ValidEvidences(items) THEN "invalid"
             ELSE IF rawRow = Null THEN "unknown raw evidence"
             ELSE IF ~RawIsReadable(rawRow) THEN "failed"
             ELSE IF setRows = Null THEN "stored"
             ELSE IF ~SetIsReadable(setRows) THEN "failed"
             ELSE IF setRows = Records(items) THEN "repeated" ELSE "conflict")
    /\ setRows' = IF factAnswer'.outcome = "stored" THEN Records(items) ELSE setRows
    /\ UNCHANGED <<factDraft, rawRow, eventRow, listing>>

GetRawEvidence ==
    /\ Tells("get", Null, IF rawRow = Null THEN "not found"
                          ELSE IF RawIsReadable(rawRow) THEN "served" ELSE "failed")
    /\ UNCHANGED <<factDraft, rawRow, setRows, eventRow, listing>>

StoredSet == IF setRows = Null THEN {} ELSE DOMAIN setRows

\* ListEvidence counts the evidence in one statement ...
CountEvidence ==
    /\ ~listing.counted
    /\ listing' = [counted |-> TRUE, total |-> Cardinality(StoredSet)]
    /\ UNCHANGED <<factDraft, rawRow, setRows, eventRow, factAnswer>>

\* ... and reads the page in another: one row it refuses, or more rows than were counted,
\* and the page is an error.
ReadEvidencePage ==
    /\ listing.counted
    /\ factAnswer' = [call |-> "list", sent |-> Null, total |-> listing.total,
                      outcome |-> IF /\ \A id \in StoredSet : ListItemIsReadable(rawRow, setRows[id])
                                     /\ Cardinality(StoredSet) <= listing.total
                                  THEN "served" ELSE "failed"]
    /\ listing' = [counted |-> FALSE, total |-> 0]
    /\ UNCHANGED <<factDraft, rawRow, setRows, eventRow>>

UtcEvent(event) ==
    \A time \in {"occurred_at", "announced_at", "effective_at", "observed_at"} :
        event[time] # Null => event[time].utc

\* PublishEvent under one key: a repeat is told by the hash of all it sends, and reads the
\* event after the transaction.
PublishEvent(event) ==
    /\ Tells("event", event,
             IF ~UtcEvent(event) \/ ~ValidEvent(event) THEN "invalid"
             ELSE IF eventRow # Null
             THEN IF eventRow.event # event THEN "conflict"
                  ELSE IF EventIsReadable(eventRow) THEN "repeated" ELSE "failed"
             ELSE IF Range(event.evidence) \subseteq PublishedEvidence THEN "stored"
             ELSE "unknown evidence")
    /\ IF factAnswer'.outcome = "stored"
       THEN \E occurred \in CastTimes(event.occurred_at), announced \in CastTimes(event.announced_at) :
               eventRow' = [event |-> event, occurred_at |-> occurred, announced_at |-> announced]
       ELSE UNCHANGED eventRow
    /\ UNCHANGED <<factDraft, rawRow, setRows, listing>>

\* ListEvents: one event that is refused takes the page with it.
ListEvents ==
    /\ Tells("events", Null, IF eventRow = Null \/ EventIsReadable(eventRow) THEN "served" ELSE "failed")
    /\ UNCHANGED <<factDraft, rawRow, setRows, eventRow, listing>>

-----------------------------------------------------------------------------
(* Specification *)

FactInit ==
    /\ factDraft \in FactDrafts
    /\ rawRow = Null /\ setRows = Null /\ eventRow = Null
    /\ listing = [counted |-> FALSE, total |-> 0]
    /\ factAnswer = [call |-> "none", sent |-> Null, outcome |-> "none", total |-> 0]

FactNext ==
    \/ \E raw \in factDraft.raws : PublishRaw(raw)
    \/ \E items \in factDraft.sets : PublishSet(items)
    \/ \E event \in factDraft.events : PublishEvent(event)
    \/ GetRawEvidence
    \/ CountEvidence
    \/ ReadEvidencePage
    \/ ListEvents

FactSpec == FactInit /\ [][FactNext]_factVars

-----------------------------------------------------------------------------
(* Properties *)

\* What is stored and what is read differ in four ways: a raw text with a backslash, ...
Backslash(text) == Cast[text.word] # "verbatim"

\* ... a raw evidence collected within the first microsecond of the calendar, ...
FirstMicrosecond(raw) == raw.collected_at.ns = 0

\* ... an address of more than 2048 characters, on lists alone, ...
LongAddress(raw) == raw.source_url.size > 2048

\* ... and an event that occurred or was announced at half a microsecond.
HalfEvent(event) == HalfMicrosecond(event.occurred_at) \/ HalfMicrosecond(event.announced_at)

\* A row that was stored is read again, whatever was sent, except for the differences
\* between the writer, the database and the reader named above.
StoredFactsAreRead ==
    /\ rawRow # Null =>
         (RawIsReadable(rawRow) <=> ~Backslash(rawRow.raw_text) /\ ~FirstMicrosecond(rawRow))
    /\ setRows # Null =>
         /\ SetIsReadable(setRows)
         /\ \A id \in DOMAIN setRows :
               ListItemIsReadable(rawRow, setRows[id]) <=> ~LongAddress(rawRow)
    /\ eventRow # Null => EventIsReadable(eventRow) \/ HalfEvent(eventRow.event)

\* A publication sent again is recognised: it fails only for one of these differences, and
\* is answered a conflict only if it says something else, if only within a microsecond.
RepeatsAreRecognised ==
    LET sent == factAnswer.sent IN
    /\ factAnswer.call = "raw" /\ factAnswer.outcome = "failed" =>
         \/ Backslash(sent.raw_text)
         \/ rawRow # Null /\ (Backslash(rawRow.raw_text) \/ FirstMicrosecond(rawRow))
    /\ factAnswer.call = "raw" /\ factAnswer.outcome = "conflict" =>
         rawRow # RawColumns([sent EXCEPT !.categories = Range(@)])
    /\ factAnswer.call = "set" /\ factAnswer.outcome = "conflict" =>
         \/ {setRows[id].content : id \in DOMAIN setRows} # {StoredEvidence(item) : item \in Range(sent)}
         \/ DOMAIN setRows # Range(sent)
    /\ factAnswer.call = "event" /\ factAnswer.outcome = "failed" => HalfEvent(sent)

\* A list of evidence is refused only for a long address, or because a set was published
\* between its two statements.
ListsAreServed ==
    factAnswer.call = "list" /\ factAnswer.outcome = "failed" =>
        LongAddress(rawRow) \/ factAnswer.total < Cardinality(StoredSet)

\* What is accepted of evidence and events can be read again.
FactsAreRead == StoredFactsAreRead /\ RepeatsAreRecognised /\ ListsAreServed
=============================================================================
