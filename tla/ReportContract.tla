--------------------------- MODULE ReportContract ---------------------------
(***************************************************************************)
(* The v6 report contract, as its two ends enforce it.                     *)
(*                                                                         *)
(* The Data Service validates a publication (biz/report), gives every      *)
(* array of Evidence IDs a scope path, stores one link per citation and    *)
(* the split summary/detail rows, and on a read replaces each array by the *)
(* token and the count of its scope (data/report).  The Miniapp backend    *)
(* validates what it reads again, with rules of its own, and refuses a     *)
(* whole page when one part of it fails (miniapp data/report).  A          *)
(* publication is immutable: what the writer lets through and the reader   *)
(* refuses stays unreadable.                                               *)
(*                                                                         *)
(* A text is one of the classes the two length and padding rules tell      *)
(* apart, an ID is a well-formed one, an array is present; wording, dates  *)
(* of metrics and IDs of the wrong form are left out, both ends refuse     *)
(* them alike.  Absent stands for a missing pointer.                       *)
(***************************************************************************)
EXTENDS Integers, Sequences, FiniteSets, Functions

CONSTANTS
    Absent,          \* a nil pointer
    LocalKeys,       \* keys that match the local key pattern
    LongKeys,        \* keys no 1000 character scope path has room for
    KnownEvidence,   \* the Evidence that was published before
    Drafts           \* the reports a publisher may send

AnalysisKinds == {"geopolitical_stories", "macroeconomic_stories", "concept_analyses",
          "industry_chain_analyses"}

Texts == {"blank", "padded", "short", "long", "over"}

ASSUME DraftTexts ==
    \A report \in Drafts : \A kind \in AnalysisKinds :
        \A u \in Range(report.analyses[kind]) : \A r \in Range(u.reasonings) :
            \A b \in Range(r.blocks) : \A n \in Range(b.nodes) : \A m \in Range(n.metrics) :
                m.display \in Texts

VARIABLES
    draft,           \* the publication being sent
    stage,           \* "draft", "refused", "failed" or "stored"
    evidenceLinks,   \* report_evidence_links: the IDs listed under each scope path
    answer           \* the last answer of the Miniapp backend

contractVars == <<draft, stage, evidenceLinks, answer>>

Geopolitical(kind) == kind = "geopolitical_stories"

-----------------------------------------------------------------------------
(* Texts and keys *)

TextLimit == 16000
TitleLimit == 10000

\* requiredText and the reader's validText: not blank, not padded, not too long.
RequiredText(text, max) == text = "short" \/ (text = "long" /\ max = TextLimit)

\* normalizedKey over the elements of one array: well formed and unique.
NormalizedKeys(array) ==
    /\ \A i \in DOMAIN array : array[i].key \in LocalKeys
    /\ \A i, j \in DOMAIN array : array[i].key = array[j].key => i = j

-----------------------------------------------------------------------------
(* What the Data Service accepts *)

ValidClaim(claim) ==
    /\ claim.basis \in {"source_fact", "inference", "hypothetical_buffer"}
    /\ IsInjective(claim.evidence)

\* validateV4Objections and validateNormalizedObjections.
UnifiedObjections(objections) ==
    /\ \A claim \in Range(objections.counterevidence) \cup Range(objections.buffers) :
          ValidClaim(claim)
    /\ objections.status \in {"identified", "none_identified"}
    /\ (objections.counterevidence # <<>>) = (objections.status = "identified")
    /\ \A claim \in Range(objections.counterevidence) :
          claim.basis = "source_fact" /\ claim.evidence # <<>>
    /\ \A claim \in Range(objections.buffers) :
          claim.basis = "source_fact" => claim.evidence # <<>>

EmptyWindow(window) ==
    window.kind \in {"", "not_applicable"} /\ ~window.described /\ window.dates = "none"

ValidWindow(window) ==
    /\ window.kind \in {"relative", "calendar", "stage", "mixed", "not_applicable"}
    /\ window.described

AssessmentFields(a, geopolitical) ==
    /\ a.direction \in {"warming", "cooling", "diverging", "pending"}
    /\ a.basis \in {"reasoning_hypothesis", "observation_only"}
    /\ a.status \in {"pending_validation", "insufficient_evidence"}
    /\ a.confidence \in {Absent, "low", "medium", "high"}
    /\ (geopolitical /\ EmptyWindow(a.window)) \/ ValidWindow(a.window)
    /\ geopolitical \/ a.follow_up # "null"
    /\ IsInjective(a.evidence)

\* A mutant of AssessmentState: the exemption of the geopolitical stories applied to all.
AssessmentState_AllExempt(a, geopolitical) ==
    /\ a.window.dates # "reversed"
    /\ a.basis = "observation_only" => a.direction = "pending" /\ a.confidence = Absent
    /\ a.basis # "observation_only" => a.conditions

AssessmentState(a, geopolitical) ==
    /\ a.window.dates # "reversed"
    /\ IF a.basis = "observation_only"
       THEN /\ a.direction = "pending"
            /\ a.status = "insufficient_evidence"
            /\ a.confidence = Absent
            /\ \/ a.window.kind = "not_applicable"
               \/ geopolitical /\ EmptyWindow(a.window)
            /\ a.window.dates = "none"
       ELSE /\ a.status = "pending_validation"
            /\ a.conditions
            /\ \/ geopolitical
               \/ /\ a.confidence # Absent
                  /\ a.window.kind # "not_applicable"
                  /\ a.follow_up = "some"
                  /\ a.evidence # <<>>

UnifiedAssessment(kind, a) ==
    /\ AssessmentFields(a, Geopolitical(kind))
    /\ AssessmentState(a, Geopolitical(kind))
    /\ a.delta = Absent \/ a.delta \in -100 .. 100

GraphKeys(graph) == {graph.nodes[i].key : i \in DOMAIN graph.nodes}

\* Graph keys are texts, unique in the graph; an edge joins nodes of the graph.
UnifiedGraph(graph) ==
    /\ \A i, j \in DOMAIN graph.nodes : graph.nodes[i].key = graph.nodes[j].key => i = j
    /\ \A i \in DOMAIN graph.edges :
          {graph.edges[i].from, graph.edges[i].to} \subseteq GraphKeys(graph)

\* An asset that names a graph node is that node.
BoundToGraph(asset, graph) ==
    asset.node = Absent \/
    /\ graph # Absent
    /\ \E i \in DOMAIN graph.nodes :
          /\ graph.nodes[i].key = asset.node
          /\ graph.nodes[i].name = asset.name
          /\ graph.nodes[i].source = asset.source

\* A metric carries a number or a text of its own that is not blank.
UnifiedMetric(metric) ==
    /\ metric.value \/ metric.display # "blank"
    /\ metric.measure \in {"level", "change_rate", "count"}
    /\ metric.nature \in {"observed", "forecast", "assumption"}

BlockKeys(block) == {block.nodes[i].key : i \in DOMAIN block.nodes}

\* Links of a block: causal only, between its nodes, no loop and no repetition.
BlockLinks(block) ==
    /\ \A i \in DOMAIN block.links :
          /\ block.relation = "causal"
          /\ {block.links[i].from, block.links[i].to} \subseteq BlockKeys(block)
          /\ block.links[i].from # block.links[i].to
    /\ IsInjective(block.links)

UnifiedBlock(block) ==
    /\ block.relation \in {"causal", "comparison"}
    /\ block.nodes # <<>>
    /\ NormalizedKeys(block.nodes)
    /\ \A i \in DOMAIN block.nodes :
          /\ block.nodes[i].metrics # <<>>
          /\ \A m \in Range(block.nodes[i].metrics) : UnifiedMetric(m)
    /\ BlockLinks(block)

\* An object that says anything of where its judgment comes from is a judgment.
Judged(x) == x.origin # "" \/ x.sources # Absent \/ x.signals # Absent

Judgment(at, x) == [at |-> at, key |-> x.key, id |-> x.source, of |-> x]

AssetJudgments(u) ==
    UNION {{Judgment(<<"asset", r, a>>, u.reasonings[r].assets[a]) :
              a \in DOMAIN u.reasonings[r].assets} : r \in DOMAIN u.reasonings}

UnitJudgments(u) ==
    {j \in {Judgment(<<"unit">>, u)}
         \cup {Judgment(<<"reasoning", r>>, u.reasonings[r]) : r \in DOMAIN u.reasonings}
         \cup AssetJudgments(u) : Judged(j.of)}
    \cup {j \in {Judgment(<<"company", c>>, u.companies[c]) : c \in DOMAIN u.companies} :
            j.of.origin # ""}

ValidSignal(signal, sources, i) ==
    /\ signal.id = sources.signals[i]
    /\ signal.direction \in {"UP", "DOWN", "STABLE", "MIXED", "UNKNOWN"}
    /\ signal.adoption \in {"adopted", "qualified"}
    /\ signal.events # <<>> /\ IsInjective(signal.events)
    /\ Range(signal.events) \subseteq Range(sources.events)
    /\ signal.evidence # <<>> /\ IsInjective(signal.evidence)

\* An upstream reference names another judgment of the same scope.
UpstreamCloses(judgment, judgments) ==
    LET upstream == judgment.of.sources.upstream IN
    /\ \A i \in DOMAIN upstream :
          /\ upstream[i].key # judgment.key
          /\ \E target \in judgments :
                target.key = upstream[i].key /\ target.id = upstream[i].entity
    /\ \A i, j \in DOMAIN upstream : upstream[i].key = upstream[j].key => i = j

OwnSignals(x) ==
    /\ x.sources # Absent /\ x.signals # Absent
    /\ IsInjective(x.sources.signals) /\ IsInjective(x.sources.events)
    /\ x.origin \in {"direct", "inferred"}
    /\ (x.origin = "direct") = (x.signals # <<>>)
    /\ x.sources.events # <<>> \/ x.sources.upstream # <<>>
    /\ DOMAIN x.sources.signals = DOMAIN x.signals
    /\ \A i \in DOMAIN x.signals : ValidSignal(x.signals[i], x.sources, i)

SignalJudgments(judgments) ==
    /\ \A j \in judgments : j.key \in LocalKeys
    /\ \A j, k \in judgments : j.key = k.key => j.at = k.at
    /\ \A j \in judgments : OwnSignals(j.of) /\ UpstreamCloses(j, judgments)

\* A company is judged by the rules of every kind but the geopolitical one, and must conclude.
SignalCompany(company) ==
    /\ AssessmentFields(company.assessment, FALSE)
    /\ company.assessment.basis = "reasoning_hypothesis"
    /\ AssessmentState(company.assessment, FALSE)
    /\ UnifiedObjections(company.objections)

UnifiedAsset(kind, asset, graph) ==
    /\ UnifiedAssessment(kind, asset.assessment)
    /\ UnifiedObjections(asset.objections)
    /\ BoundToGraph(asset, graph)

UnifiedReasoning(kind, r) ==
    /\ UnifiedAssessment(kind, r.assessment)
    /\ r.support = Absent \/ ValidClaim(r.support)
    /\ UnifiedObjections(r.objections)
    /\ r.graph = Absent \/ UnifiedGraph(r.graph)
    /\ NormalizedKeys(r.assets)
    /\ \A a \in Range(r.assets) : UnifiedAsset(kind, a, r.graph)
    /\ NormalizedKeys(r.blocks)
    /\ \A b \in Range(r.blocks) : UnifiedBlock(b)

\* The assets a summary may refer to, by reasoning and asset key.
AssetRefs(u) ==
    UNION {{[reasoning |-> u.reasonings[r].key, asset |-> u.reasonings[r].assets[a].key] :
              a \in DOMAIN u.reasonings[r].assets} : r \in DOMAIN u.reasonings}

ValidateUnifiedUnit(kind, u) ==
    /\ u.key \in LocalKeys
    /\ RequiredText(u.title, TextLimit)
    /\ u.reasonings # <<>> /\ u.macros = <<>> /\ u.chains = <<>>
    /\ u.summary.impact.level \in {"high", "medium", "low", "pending"}
    /\ IsInjective(u.summary.impact.evidence)
    /\ Geopolitical(kind) => u.summary.evidence # <<>>
    /\ NormalizedKeys(u.reasonings)
    /\ \A r \in Range(u.reasonings) : UnifiedReasoning(kind, r)
    /\ \A c \in Range(u.companies) : SignalCompany(c)
    /\ SignalJudgments(UnitJudgments(u))
    /\ IsInjective(u.summary.refs) /\ Range(u.summary.refs) \subseteq AssetRefs(u)

-----------------------------------------------------------------------------
(* Evidence scopes: where a report cites Evidence.  A place has the path the  *)
(* services know it by, and at, its place in the document.                    *)

\* An element of an array goes by its local key if it has one, else by its index.
Into(place, field, array, i) ==
    [path |-> place.path \o <<field, IF "key" \in DOMAIN array[i] THEN array[i].key ELSE i>>,
     at   |-> place.at \o <<field, i>>]

Under(place, field) ==
    [path |-> Append(place.path, field), at |-> Append(place.at, field)]

Citation(place, x) == [path |-> place.path, at |-> place.at, ids |-> x.evidence]

EachCites(place, field, array) ==
    {Citation(Into(place, field, array, i), array[i]) : i \in DOMAIN array}

ObjectionCitations(place, objections) ==
    EachCites(Under(place, "objections"), "counterevidence", objections.counterevidence)
    \cup EachCites(Under(place, "objections"), "buffers", objections.buffers)

SignalCitations(place, x) ==
    IF x.signals = Absent THEN {} ELSE EachCites(place, "variable_signals", x.signals)

\* An asset, a company: an assessment, objections and signals of its own.
ObjectCitations(place, x) ==
    {Citation(Under(place, "assessment"), x.assessment)}
    \cup ObjectionCitations(place, x.objections)
    \cup SignalCitations(place, x)

EachObjectCites(place, field, array) ==
    UNION {ObjectCitations(Into(place, field, array, i), array[i]) : i \in DOMAIN array}

BlockCitations(place, block) ==
    UNION {EachCites(Into(place, "nodes", block.nodes, n), "metrics", block.nodes[n].metrics) :
             n \in DOMAIN block.nodes}

ReasoningCitations(place, r) ==
    ObjectCitations(place, r)
    \cup (IF r.support = Absent THEN {} ELSE {Citation(Under(place, "support"), r.support)})
    \cup EachObjectCites(place, "affected_assets", r.assets)
    \cup UNION {BlockCitations(Into(place, "reasoning_blocks", r.blocks, b), r.blocks[b]) :
                  b \in DOMAIN r.blocks}

EachReasoningCites(place, array) ==
    UNION {ReasoningCitations(Into(place, "reasonings", array, r), array[r]) : r \in DOMAIN array}

UnitCitations(place, u) ==
    {Citation(Under(place, "summary"), u.summary),
     Citation(Under(place, "impact_assessment"), u.summary.impact)}
    \cup SignalCitations(Under(place, "detail"), u)
    \cup EachReasoningCites(place, u.reasonings)
    \cup EachObjectCites(place, "companies", u.companies)

Root == [path |-> <<>>, at |-> <<>>]

EachUnitCites(kind, array) ==
    UNION {UnitCitations(Into(Root, kind, array, u), array[u]) : u \in DOMAIN array}

\* unifiedEvidenceScopes: the walk over the whole publication.
UnifiedEvidenceScopes(report) ==
    (UNION {EachUnitCites(kind, report.analyses[kind]) : kind \in AnalysisKinds})
    \cup EachObjectCites(Root, "company_analyses", report.companies)
    \cup EachCites(Root, "observations", report.observations)

\* The arrays a publication is decoded into: elements with a local key, or without one.
Array(array) == array \in Seq(Range(array))
Keyed(array) == Array(array) /\ \A x \in Range(array) : "key" \in DOMAIN x
Unkeyed(array) == Array(array) /\ \A x \in Range(array) : "key" \notin DOMAIN x

ObjectForm(x) ==
    /\ Unkeyed(x.objections.counterevidence) /\ Unkeyed(x.objections.buffers)
    /\ x.signals = Absent \/ Unkeyed(x.signals)

ReasoningForm(r) ==
    /\ ObjectForm(r) /\ Keyed(r.assets) /\ Keyed(r.blocks)
    /\ \A a \in Range(r.assets) : ObjectForm(a)
    /\ \A b \in Range(r.blocks) : Keyed(b.nodes) /\ \A n \in Range(b.nodes) : Unkeyed(n.metrics)

UnitForm(u) ==
    /\ u.signals = Absent \/ Unkeyed(u.signals)
    /\ Keyed(u.reasonings) /\ \A r \in Range(u.reasonings) : ReasoningForm(r)
    /\ Keyed(u.companies) /\ \A c \in Range(u.companies) : ObjectForm(c)

ReportForm(report) ==
    /\ \A kind \in AnalysisKinds :
          Keyed(report.analyses[kind]) /\ \A u \in Range(report.analyses[kind]) : UnitForm(u)
    /\ Keyed(report.companies) /\ \A c \in Range(report.companies) : ObjectForm(c)
    /\ Keyed(report.observations)

ASSUME DraftForms ==
    \A report \in Drafts :
        ReportForm(report) /\ \A c \in UnifiedEvidenceScopes(report) : Array(c.ids)

\* The names in a scope path, and the keys that never make it too long.
ScopeFields ==
    {"summary", "impact_assessment", "detail", "reasonings", "companies", "company_analyses",
     "observations", "assessment", "objections", "counterevidence", "buffers", "variable_signals",
     "support", "affected_assets", "reasoning_blocks", "nodes", "metrics"} \cup AnalysisKinds

ASSUME KeysHaveRoom == \A key \in LongKeys : key \notin LocalKeys \cup ScopeFields \cup Nat

ValidateUnifiedReport(report) ==
    /\ \/ \E kind \in AnalysisKinds : report.analyses[kind] # <<>>
       \/ report.companies # <<>>
    /\ \A kind \in AnalysisKinds :
          /\ NormalizedKeys(report.analyses[kind])
          /\ \A u \in Range(report.analyses[kind]) : ValidateUnifiedUnit(kind, u)
    /\ \A c \in DOMAIN report.companies :
          /\ SignalCompany(report.companies[c])
          /\ SignalJudgments({Judgment(<<"company", c>>, report.companies[c])})
    /\ \A c \in UnifiedEvidenceScopes(report) : IsInjective(c.ids)

-----------------------------------------------------------------------------
(* Publishing *)

\* A link is unique by report, scope path and position; a path has 1000 characters.
LinksFit(scopes) ==
    \A c \in scopes : c.ids # <<>> =>
        /\ \A d \in scopes : d.path = c.path /\ d.ids # <<>> => d.at = c.at
        /\ \A i \in DOMAIN c.path : c.path[i] \notin LongKeys

\* The links grouped by scope, as countEvidenceScopes and readScopeTokens see them.
LinksOf(scopes) ==
    [path \in {c.path : c \in {d \in scopes : d.ids # <<>>}} |->
        (CHOOSE c \in scopes : c.path = path /\ c.ids # <<>>).ids]

Listed(path) == IF path \in DOMAIN evidenceLinks THEN evidenceLinks[path] ELSE <<>>

\* The projection of a unit or a company asks of each citation that its count is the
\* frozen one and, if there is one, that its scope has a token.
Projects(scopes, stored) ==
    \A c \in scopes :
        Cardinality(Range(c.ids)) =
            (IF c.path \in DOMAIN stored THEN Cardinality(Range(stored[c.path])) ELSE 0)

\* The unit by the kind and the key it is asked for.
ReadPlace(kind, key) == [path |-> <<kind, key>>, at |-> <<>>]

StoredRowsProject(report, stored) ==
    /\ \A kind \in AnalysisKinds : \A u \in Range(report.analyses[kind]) :
          Projects(UnitCitations(ReadPlace(kind, u.key), u), stored)
    /\ \A c \in Range(report.companies) :
          Projects(ObjectCitations(ReadPlace("company_analyses", c.key), c), stored)

Publish ==
    /\ stage = "draft"
    /\ LET scopes == UnifiedEvidenceScopes(draft) IN
       IF ~ValidateUnifiedReport(draft)
          \/ \E c \in scopes : ~(Range(c.ids) \subseteq KnownEvidence)
       THEN stage' = "refused" /\ UNCHANGED evidenceLinks
       ELSE IF LinksFit(scopes) /\ StoredRowsProject(draft, LinksOf(scopes))
       THEN stage' = "stored" /\ evidenceLinks' = LinksOf(scopes)
       ELSE stage' = "failed" /\ UNCHANGED evidenceLinks
    /\ UNCHANGED <<draft, answer>>

-----------------------------------------------------------------------------
(* What the Miniapp backend accepts *)

\* An assessment as read: the strict decoder, then the rules of its kind.
ReadAssessment(a, geopolitical) ==
    /\ geopolitical \/ a.follow_up # "null"
    /\ a.direction \in {"warming", "cooling", "diverging", "pending"}
    /\ \/ a.basis = "observation_only" /\ a.confidence = Absent /\ a.direction = "pending"
       \/ /\ a.basis = "reasoning_hypothesis"
          /\ a.confidence \in {"low", "medium", "high"} \/ (geopolitical /\ a.confidence = Absent)

ReadSignal(signal, sources, i) ==
    /\ signal.id = sources.signals[i]
    /\ signal.direction \in {"UP", "DOWN", "STABLE", "MIXED", "UNKNOWN"}
    /\ signal.adoption \in {"adopted", "qualified"}
    /\ signal.evidence # <<>>
    /\ signal.events # <<>> /\ IsInjective(signal.events)
    /\ Range(signal.events) \subseteq Range(sources.events)

ReadProvenance(x) ==
    IF x.origin = "" THEN x.sources = Absent /\ x.signals = Absent
    ELSE /\ x.origin \in {"direct", "inferred"}
         /\ x.sources # Absent /\ x.signals # Absent
         /\ (x.origin = "direct") = (x.signals # <<>>)
         /\ DOMAIN x.sources.signals = DOMAIN x.signals
         /\ x.sources.events # <<>> \/ x.sources.upstream # <<>>
         /\ IsInjective(x.sources.events) /\ IsInjective(x.sources.signals)
         /\ \A i \in DOMAIN x.signals : ReadSignal(x.signals[i], x.sources, i)
         /\ NormalizedKeys(x.sources.upstream)

ReadGraph(graph) ==
    /\ graph.scope \in {"", "assessed_nodes_only"}
    /\ \A i, j \in DOMAIN graph.nodes : graph.nodes[i].key = graph.nodes[j].key => i = j
    /\ \A i \in DOMAIN graph.edges :
          /\ {graph.edges[i].from, graph.edges[i].to} \subseteq GraphKeys(graph)
          /\ graph.edges[i].from # graph.edges[i].to
          /\ \A j \in DOMAIN graph.edges :
                graph.edges[i].from = graph.edges[j].from
                /\ graph.edges[i].to = graph.edges[j].to => i = j

ReadMetric(metric) ==
    /\ metric.value \/ RequiredText(metric.display, TextLimit)
    /\ metric.measure \in {"level", "change_rate", "count"}
    /\ metric.nature \in {"observed", "forecast", "assumption"}

ReadBlock(block) ==
    /\ block.relation \in {"causal", "comparison"}
    /\ block.nodes # <<>> /\ NormalizedKeys(block.nodes)
    /\ \A i \in DOMAIN block.nodes :
          /\ block.nodes[i].metrics # <<>>
          /\ \A m \in Range(block.nodes[i].metrics) : ReadMetric(m)
    /\ BlockLinks(block)

ReadAsset(kind, asset, graph) ==
    /\ asset.key \in LocalKeys
    /\ ReadAssessment(asset.assessment, Geopolitical(kind))
    /\ ReadProvenance(asset)
    /\ BoundToGraph(asset, graph)
    /\ asset.assessment.delta = Absent \/ asset.assessment.delta \in -100 .. 100

ReadReasoning(kind, r) ==
    /\ ReadAssessment(r.assessment, Geopolitical(kind))
    /\ ReadProvenance(r)
    /\ r.graph = Absent \/ ReadGraph(r.graph)
    /\ NormalizedKeys(r.assets)
    /\ \A a \in Range(r.assets) : ReadAsset(kind, a, r.graph)
    /\ NormalizedKeys(r.blocks)
    /\ \A b \in Range(r.blocks) : ReadBlock(b)

\* normalizedSummary: the assets a summary refers to, resolved in its unit.
Anchors(u) ==
    {anchor \in UNION {{<<r, a>> : a \in DOMAIN u.reasonings[r].assets} : r \in DOMAIN u.reasonings} :
        \E i \in DOMAIN u.summary.refs :
            /\ u.summary.refs[i].reasoning = u.reasonings[anchor[1]].key
            /\ u.summary.refs[i].asset = u.reasonings[anchor[1]].assets[anchor[2]].key}

\* The entries of a card: assets, without their sources and signals.
ReadAnchor(kind, asset) ==
    /\ ReadAssessment(asset.assessment, Geopolitical(kind))
    /\ asset.origin \in {"", "direct", "inferred"}

ReadAnchors(kind, u) ==
    \A anchor \in Anchors(u) : ReadAnchor(kind, u.reasonings[anchor[1]].assets[anchor[2]])

ReadSummary(kind, u) ==
    /\ u.key \in LocalKeys
    /\ RequiredText(u.title, TitleLimit)
    /\ u.origin \in {"", "direct", "inferred"}
    /\ ReadAnchors(kind, u)

ReadDetail(kind, u) ==
    /\ ReadSummary(kind, u)
    /\ u.reasonings # <<>> /\ u.macros = <<>> /\ u.chains = <<>>
    /\ NormalizedKeys(u.reasonings)
    /\ \A r \in Range(u.reasonings) : ReadReasoning(kind, r)
    /\ IsInjective(u.summary.refs) /\ Range(u.summary.refs) \subseteq AssetRefs(u)
    /\ ReadProvenance(u)
    /\ \A c \in Range(u.companies) : ReadAssessment(c.assessment, FALSE) /\ ReadProvenance(c)

ReadPage(kind, units) ==
    /\ NormalizedKeys(units)
    /\ \A u \in Range(units) : ReadSummary(kind, u)

Answered(call, served) ==
    /\ answer' = [call |-> call, served |-> served]
    /\ UNCHANGED <<draft, stage, evidenceLinks>>

\* The first page of a kind: one summary that is refused takes the page with it.
ListAnalyses(kind) ==
    /\ stage = "stored"
    /\ Answered(<<"list", kind>>, ReadPage(kind, draft.analyses[kind]))

\* The home page is the first page of every kind.
Home ==
    /\ stage = "stored"
    /\ Answered(<<"home">>, \A kind \in AnalysisKinds : ReadPage(kind, draft.analyses[kind]))

\* The Data Service validates and projects the stored unit again before the reader sees it.
GetAnalysis(kind, i) ==
    /\ stage = "stored"
    /\ i \in DOMAIN draft.analyses[kind]
    /\ LET u == draft.analyses[kind][i] IN
       Answered(<<"detail", kind, u.key>>,
                /\ ValidateUnifiedUnit(kind, u)
                /\ Projects(UnitCitations(ReadPlace(kind, u.key), u), evidenceLinks)
                /\ ReadDetail(kind, u))

-----------------------------------------------------------------------------
(* Specification *)

ContractInit ==
    /\ draft \in Drafts
    /\ stage = "draft"
    /\ evidenceLinks = <<>>
    /\ answer = [call |-> <<>>, served |-> FALSE]

ContractNext ==
    \/ Publish
    \/ Home
    \/ \E kind \in AnalysisKinds : ListAnalyses(kind)
    \/ \E kind \in AnalysisKinds : \E i \in DOMAIN draft.analyses[kind] : GetAnalysis(kind, i)

ContractSpec == ContractInit /\ [][ContractNext]_contractVars

-----------------------------------------------------------------------------
(* Properties *)

\* What the writer lets through and the reader does not: a title of more than 10,000
\* characters, ...
LongTitle(u) == u.title = "long"

\* ... a graph that loops, repeats an edge or has a scope of its own, ...
OddGraph(graph) ==
    graph # Absent /\
    \/ graph.scope \notin {"", "assessed_nodes_only"}
    \/ \E i, j \in DOMAIN graph.edges :
          \/ graph.edges[i].from = graph.edges[i].to
          \/ /\ i # j
             /\ graph.edges[i].from = graph.edges[j].from
             /\ graph.edges[i].to = graph.edges[j].to

\* ... a metric whose only value is a text with padding or beyond the limit, ...
OddMetric(metric) == ~metric.value /\ metric.display \in {"padded", "over"}

\* ... and a company that gives sources or signals and no origin.
OddCompany(company) ==
    company.origin = "" /\ (company.sources # Absent \/ company.signals # Absent)

Diverges(u) ==
    \/ LongTitle(u)
    \/ \E r \in Range(u.reasonings) :
          \/ OddGraph(r.graph)
          \/ \E b \in Range(r.blocks) : \E n \in Range(b.nodes) :
                \E m \in Range(n.metrics) : OddMetric(m)
    \/ \E c \in Range(u.companies) : OddCompany(c)

\* A report that was published can be read: its pages and details are refused only for
\* the differences between the two validators named above, and for each of them.
OnlyDivergencesAreRefused ==
    stage = "stored" =>
    \A kind \in AnalysisKinds :
        /\ ReadPage(kind, draft.analyses[kind])
             <=> ~\E u \in Range(draft.analyses[kind]) : LongTitle(u)
        /\ \A u \in Range(draft.analyses[kind]) : ReadDetail(kind, u) <=> ~Diverges(u)

\* The scope of every citation, found by the kind and the key the reader asks with, lists
\* the Evidence that was cited at that place of the publication, and nothing else.
CitationsSurviveStorage ==
    stage = "stored" =>
    \A kind \in AnalysisKinds : \A u \in Range(draft.analyses[kind]) :
        \A c \in UnitCitations(ReadPlace(kind, u.key), u) : Listed(c.path) = c.ids

\* A report that passes validation fails to be stored only because companies or
\* observations, whose keys nobody validates, repeat a key or have one that is too long.
OnlyUncheckedKeysFailStorage ==
    stage = "failed" =>
    LET unchecked == {draft.observations, draft.companies}
                       \cup {u.companies : u \in UNION {Range(draft.analyses[kind]) : kind \in AnalysisKinds}}
    IN  \E array \in unchecked : \E i, j \in DOMAIN array :
           array[i].key \in LongKeys \/ (i # j /\ array[i].key = array[j].key)

\* What the validation accepted is stored with all it cites, unless a key that
\* no validation looks at makes the storage fail.
StorageIsFaithful == CitationsSurviveStorage /\ OnlyUncheckedKeysFailStorage

\* The complete detail of a published story is read in one response.
PublishedDetailsAreServed ==
    answer.call # <<>> /\ answer.call[1] = "detail" => answer.served
=============================================================================
