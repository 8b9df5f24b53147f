-------------------------- MODULE MCReportContract --------------------------
(* Reports that differ from a plain one in one part or in two. *)
EXTENDS ReportContract, TLC

CONSTANTS keyA, keyB, bad, endless, e1, e2, gone

Plain == [direction |-> "warming", basis |-> "reasoning_hypothesis", status |-> "pending_validation",
          confidence |-> "low", window |-> [kind |-> "relative", described |-> TRUE, dates |-> "none"],
          conditions |-> TRUE, follow_up |-> "some", delta |-> Absent, evidence |-> <<e1>>]
Observed == [Plain EXCEPT !.direction = "pending", !.basis = "observation_only",
             !.status = "insufficient_evidence", !.confidence = Absent,
             !.window = [kind |-> "not_applicable", described |-> TRUE, dates |-> "none"]]
Claim(basis, ids) == [basis |-> basis, evidence |-> ids]
NoObjections == [status |-> "none_identified", counterevidence |-> <<>>, buffers |-> <<>>]
NoProvenance == [origin |-> "", sources |-> Absent, signals |-> Absent]
Sources(signals, events, upstream) == [signals |-> signals, events |-> events, upstream |-> upstream]
Signal == [id |-> 1, direction |-> "UP", adoption |-> "adopted", events |-> <<1>>, evidence |-> <<e2, e1>>]
Up(key) == [key |-> key, entity |-> 7]

Asset(key) == [node |-> Absent, name |-> "n", assessment |-> Plain, objections |-> NoObjections]
                @@ NoProvenance @@ [key |-> key, source |-> 7]
Company(key) == [assessment |-> Plain, objections |-> NoObjections] @@ NoProvenance @@ [key |-> key, source |-> 7]
Metric == [value |-> TRUE, display |-> "blank", measure |-> "level", nature |-> "observed", evidence |-> <<e1, e2>>]
Node(key) == [key |-> key, metrics |-> <<Metric>>]
BlockLink(x, y) == [from |-> x, to |-> y]
Block == [key |-> keyA, relation |-> "causal", nodes |-> <<Node(keyA), Node(keyB)>>, links |-> <<BlockLink(keyA, keyB)>>]
Edge(x, y, label) == [from |-> x, to |-> y, label |-> label]
GNode(key) == [key |-> key, name |-> "n", source |-> 7]
Graph == [scope |-> "", nodes |-> <<GNode(keyA), GNode(bad)>>, edges |-> <<Edge(keyA, bad, 1)>>]
Reasoning(key) == [assessment |-> Plain, support |-> Absent, objections |-> NoObjections, graph |-> Absent,
                   assets |-> <<Asset(keyA)>>, blocks |-> <<>>] @@ NoProvenance @@ [key |-> key, source |-> 7]
Base == [title |-> "short", macros |-> <<>>, chains |-> <<>>,
         summary |-> [evidence |-> <<e1>>, impact |-> [level |-> "pending", evidence |-> <<>>], refs |-> <<>>],
         reasonings |-> <<Reasoning(keyB)>>, companies |-> <<>>] @@ NoProvenance @@ [key |-> keyA, source |-> 7]

Assessments == {Observed,
    [Plain EXCEPT !.direction = "pending"], [Plain EXCEPT !.confidence = Absent],
    [Plain EXCEPT !.follow_up = "null"], [Plain EXCEPT !.evidence = <<>>],
    [Plain EXCEPT !.evidence = <<e1, e1>>], [Plain EXCEPT !.evidence = <<gone>>],
    [Plain EXCEPT !.delta = 101], [Plain EXCEPT !.delta = -100],
    [Plain EXCEPT !.window.kind = "", !.window.described = FALSE],
    [Plain EXCEPT !.window.dates = "reversed"],
    [Observed EXCEPT !.confidence = "low"], [Observed EXCEPT !.direction = "cooling"],
    [Observed EXCEPT !.window.kind = "", !.window.described = FALSE]}
ObjectionSets == {
    [status |-> "identified", counterevidence |-> <<Claim("source_fact", <<e1>>), Claim("source_fact", <<e2>>)>>,
     buffers |-> <<Claim("inference", <<e2>>)>>],
    [NoObjections EXCEPT !.buffers = <<Claim("hypothetical_buffer", <<>>), Claim("source_fact", <<e2>>)>>],
    [NoObjections EXCEPT !.status = "identified"]}
Provenances == {
    [origin |-> "direct", sources |-> Sources(<<1>>, <<1>>, <<>>), signals |-> <<Signal>>],
    [origin |-> "direct", sources |-> Sources(<<1>>, <<1>>, <<>>), signals |-> <<>>],
    [origin |-> "direct", sources |-> Sources(<<1>>, <<2>>, <<>>), signals |-> <<Signal>>],
    [origin |-> "direct", sources |-> Sources(<<1>>, <<1>>, <<>>), signals |-> <<[Signal EXCEPT !.evidence = <<>>]>>],
    [origin |-> "inferred", sources |-> Sources(<<>>, <<1>>, <<>>), signals |-> <<>>],
    [origin |-> "inferred", sources |-> Sources(<<>>, <<>>, <<Up(keyB)>>), signals |-> <<>>],
    [origin |-> "inferred", sources |-> Sources(<<>>, <<>>, <<Up(keyA), Up(keyA)>>), signals |-> <<>>],
    [origin |-> "inferred", sources |-> Sources(<<>>, <<>>, <<Up(keyA)>>), signals |-> <<>>],
    [origin |-> "", sources |-> Sources(<<>>, <<>>, <<>>), signals |-> Absent],
    [origin |-> "inferred", sources |-> Absent, signals |-> <<>>],
    [origin |-> "", sources |-> Absent, signals |-> <<Signal>>]}
Metrics == {[Metric EXCEPT !.value = FALSE], [Metric EXCEPT !.value = FALSE, !.display = "short"],
            [Metric EXCEPT !.value = FALSE, !.display = "padded"], [Metric EXCEPT !.display = "over"],
            [Metric EXCEPT !.value = FALSE, !.display = "long"],
            [Metric EXCEPT !.value = FALSE, !.display = "over"], [Metric EXCEPT !.measure = "x"],
            [Metric EXCEPT !.evidence = <<>>], [Metric EXCEPT !.evidence = <<e2, e2>>]}
Blocks == {Block, [Block EXCEPT !.relation = "comparison"], [Block EXCEPT !.links = <<BlockLink(keyA, keyA)>>],
           [Block EXCEPT !.links = <<BlockLink(keyA, keyB), BlockLink(keyA, keyB)>>], [Block EXCEPT !.nodes = <<Node(keyA), Node(keyA)>>],
           [Block EXCEPT !.key = bad], [Block EXCEPT !.links = <<BlockLink(keyA, bad)>>]}
            \cup {[Block EXCEPT !.nodes[1].metrics = <<Metric, m>>] : m \in Metrics}
Graphs == {Graph, [Graph EXCEPT !.scope = "assessed_nodes_only"], [Graph EXCEPT !.scope = "all"],
           [Graph EXCEPT !.edges = <<Edge(keyA, keyA, 1)>>], [Graph EXCEPT !.edges = <<Edge(keyA, bad, 1), Edge(keyA, bad, 2)>>],
           [Graph EXCEPT !.edges = <<Edge(keyA, bad, 1), Edge(bad, keyA, 1)>>],
           [Graph EXCEPT !.edges = <<Edge(keyA, keyB, 1)>>], [Graph EXCEPT !.nodes = <<GNode(keyA), GNode(keyA)>>]}

Alter(x, provenance) == [x EXCEPT !.origin = provenance.origin, !.sources = provenance.sources,
                                  !.signals = provenance.signals]
AssetsOf == {[Asset(keyA) EXCEPT !.assessment = x] : x \in Assessments}
    \cup {[Asset(keyA) EXCEPT !.objections = x] : x \in ObjectionSets}
    \cup {Alter(Asset(keyA), x) : x \in Provenances}
    \cup {[Asset(keyA) EXCEPT !.node = keyA], [Asset(keyA) EXCEPT !.node = keyB], [Asset(keyA) EXCEPT !.node = bad, !.name = "m"], Asset(bad)}
ReasoningsOf ==
    {[Reasoning(keyB) EXCEPT !.assessment = x] : x \in Assessments}
    \cup {[Reasoning(keyB) EXCEPT !.objections = x] : x \in ObjectionSets}
    \cup {Alter(Reasoning(keyB), x) : x \in Provenances}
    \cup {[Reasoning(keyB) EXCEPT !.blocks = <<x>>] : x \in Blocks}
    \cup {[Reasoning(keyB) EXCEPT !.blocks = <<Block, [Block EXCEPT !.key = k]>>] : k \in {keyA, keyB}}
    \cup {[Reasoning(keyB) EXCEPT !.graph = x] : x \in Graphs}
    \cup {[Reasoning(keyB) EXCEPT !.graph = Graph, !.assets = <<x>>] : x \in AssetsOf}
    \cup {[Reasoning(keyB) EXCEPT !.assets = x] : x \in {<<>>, <<Asset(keyA), Asset(keyB)>>, <<Asset(keyA), Asset(keyA)>>}}
    \cup {[Reasoning(keyB) EXCEPT !.support = Claim("inference", x)] : x \in {<<>>, <<e2>>, <<e2, e1>>}}
CompaniesOf == {<<Company(keyA)>>, <<Company(keyA), Company(keyA)>>, <<Company(endless)>>, <<Company(bad), Company(keyA)>>}
    \cup {<<Alter(Company(key), x)>> : x \in Provenances, key \in {keyA, keyB, endless}}
    \cup {<<[Company(keyB) EXCEPT !.assessment = x]>> : x \in Assessments}
    \cup {<<[Company(keyB) EXCEPT !.objections = x]>> : x \in ObjectionSets}
Ref(r, x) == [reasoning |-> r, asset |-> x]
UnitsOf ==
    {[Base EXCEPT !.reasonings = <<r>>, !.summary.refs = refs] :
        r \in ReasoningsOf, refs \in {<<>>, <<Ref(keyB, keyA)>>}}
    \cup {[Base EXCEPT !.companies = c] : c \in CompaniesOf}
    \cup {Alter(Base, x) : x \in Provenances}
    \cup {[Base EXCEPT !.title = x] : x \in {"long", "padded", "over"}}
    \cup {[Base EXCEPT !.reasonings = <<[Alter(Reasoning(keyB), x) EXCEPT !.assets = <<Alter(Asset(k), y)>>]>>] :
            x \in Provenances, y \in {z \in Provenances : z.origin = "inferred"}, k \in {keyA, keyB}}
    \cup {[Base EXCEPT !.key = bad], [Base EXCEPT !.reasonings = <<>>], [Base EXCEPT !.summary.evidence = <<>>],
          [Base EXCEPT !.summary.impact = [level |-> "high", evidence |-> <<e2, e1>>]],
          [Base EXCEPT !.reasonings = <<Reasoning(keyA), Reasoning(keyB)>>, !.summary.refs = <<Ref(keyA, keyA), Ref(keyB, keyA)>>],
          [Base EXCEPT !.summary.refs = <<Ref(keyB, keyA), Ref(keyB, keyA)>>], [Base EXCEPT !.summary.refs = <<Ref(keyA, keyB)>>]}

Empty == [analyses |-> [kind \in AnalysisKinds |-> <<>>], companies |-> <<>>, observations |-> <<>>]
ReportKinds == {"geopolitical_stories", "concept_analyses"}
One(kind, units) == [Empty EXCEPT !.analyses[kind] = units]
Second == [Base EXCEPT !.key = keyB]
Observation(key, ids) == [key |-> key, evidence |-> ids]
MCDrafts ==
    {One(kind, <<u, Second>>) : kind \in ReportKinds, u \in UnitsOf}
    \cup {[One("concept_analyses", <<Base>>) EXCEPT !.companies = c] : c \in CompaniesOf}
    \cup {[One("concept_analyses", <<Base>>) EXCEPT !.observations = o] :
            o \in {<<Observation(bad, <<e1>>), Observation(bad, <<e2>>)>>,
                   <<Observation(bad, <<e1>>), Observation(bad, <<>>)>>,
                   <<Observation(endless, <<e1>>)>>, <<Observation(endless, <<>>)>>,
                   <<Observation(keyA, <<e1>>), Observation(keyB, <<e1>>)>>}}
    \cup {Empty, [Empty EXCEPT !.companies = <<Company(keyA)>>], One("concept_analyses", <<Base, Base>>)}
=============================================================================
