--------------------------- MODULE MCFactContract ---------------------------
(* Facts that differ from a plain one in one part, sent after it or before. *)
EXTENDS FactContract

\* A text of the plain word, and one of another word.
Chars(n) == [word |-> "a", size |-> n]
Said(word) == [word |-> word, size |-> 1]
At(n) == [ns |-> n, utc |-> TRUE]
Elsewhere(n) == [ns |-> n, utc |-> FALSE]

MCFold == [word \in {"a", "A", "b", "escape", "stray"} |-> IF word = "A" THEN "a" ELSE word]
MCCast == [word \in {"a", "A", "b", "escape", "stray"} |->
              CASE word = "escape" -> "decoded" [] word = "stray" -> "invalid" [] OTHER -> "verbatim"]

PlainRaw == [source_id |-> Chars(1), source_name |-> Chars(1), source_url |-> Chars(1),
             source_level |-> "L3_MEDIA", is_original |-> TRUE, quoted_id |-> Null,
             quoted_name |-> Null, title |-> Null, raw_text |-> Said("a"),
             published_at |-> Null, collected_at |-> At(5000), categories |-> <<2, 1>>]
Reposted == [PlainRaw EXCEPT !.is_original = FALSE, !.quoted_name = Chars(100)]

Raws == {PlainRaw, Reposted,
    [PlainRaw EXCEPT !.source_id = Chars(32)], [PlainRaw EXCEPT !.source_id = Chars(33)],
    [PlainRaw EXCEPT !.source_name = Chars(100)], [PlainRaw EXCEPT !.source_name = Chars(101)],
    [PlainRaw EXCEPT !.source_url = Chars(2048)], [PlainRaw EXCEPT !.source_url = Chars(2049)],
    [PlainRaw EXCEPT !.source_url = Chars(0)], [PlainRaw EXCEPT !.source_level = "other"],
    [PlainRaw EXCEPT !.raw_text = Chars(0)],
    [PlainRaw EXCEPT !.raw_text = Said("escape")], [PlainRaw EXCEPT !.raw_text = Said("stray")],
    [PlainRaw EXCEPT !.title = Chars(500)], [PlainRaw EXCEPT !.title = Chars(501)],
    [PlainRaw EXCEPT !.quoted_name = Chars(1)], [Reposted EXCEPT !.quoted_name = Null],
    [Reposted EXCEPT !.quoted_name = Chars(101)], [Reposted EXCEPT !.quoted_id = Chars(32)],
    [Reposted EXCEPT !.quoted_id = Chars(33)],
    [PlainRaw EXCEPT !.collected_at = At(5999)], [PlainRaw EXCEPT !.collected_at = At(6000)],
    [PlainRaw EXCEPT !.collected_at = At(0)], [PlainRaw EXCEPT !.collected_at = At(1)],
    [PlainRaw EXCEPT !.collected_at = Elsewhere(5000)],
    [PlainRaw EXCEPT !.published_at = At(1)], [PlainRaw EXCEPT !.published_at = Elsewhere(1)],
    [PlainRaw EXCEPT !.categories = <<1, 2>>], [PlainRaw EXCEPT !.categories = <<1, 1>>],
    [PlainRaw EXCEPT !.categories = <<>>], [PlainRaw EXCEPT !.categories = <<3>>]}

FactMetric(name, period) == [name |-> name, value |-> Chars(1), unit |-> Null, change |-> Null, period |-> period]
PlainTime == [raw |-> Null, precision |-> "DAY", start_at |-> Null, end_at |-> Null]
PlainSemantic == [actors |-> <<Chars(1)>>, action |-> Chars(1), objects |-> <<Chars(1)>>,
                  stage |-> "OCCURRED", modality |-> "FACT", time |-> PlainTime, jurisdictions |-> <<>>,
                  reason |-> Null, method |-> Null, metrics |-> <<>>,
                  attribution |-> [reported_by |-> Null, claimed_by |-> Null]]
PlainEvidence == [summary |-> Chars(1), keywords |-> <<Said("b")>>, semantic |-> PlainSemantic]

Bounds(start, end) == [PlainTime EXCEPT !.start_at = start, !.end_at = end]
Times == {Bounds(At(1000), At(2000)), Bounds(At(1001), At(2000)), Bounds(At(1500), At(1499)), Bounds(At(2000), At(1000)),
          Bounds(At(1000), Null), Bounds(Elsewhere(1000), At(2000)),
          [PlainTime EXCEPT !.precision = "other"], [PlainTime EXCEPT !.raw = Chars(200)],
          [PlainTime EXCEPT !.raw = Chars(201)]}
MetricLists == {Null, <<FactMetric(Said("a"), Null)>>,
    <<FactMetric(Said("a"), Null), FactMetric(Said("A"), Null)>>,
    <<FactMetric(Said("a"), Null), FactMetric(Said("a"), Said("b"))>>,
    <<FactMetric(Said("a"), Said("b")), FactMetric(Said("A"), Said("b"))>>,
    <<[FactMetric(Said("a"), Null) EXCEPT !.value = Null]>>,
    <<[FactMetric(Said("a"), Null) EXCEPT !.value = Null, !.change = Chars(100)]>>,
    <<[FactMetric(Said("a"), Null) EXCEPT !.unit = Chars(50)]>>,
    <<[FactMetric(Said("a"), Null) EXCEPT !.unit = Chars(51)]>>,
    <<FactMetric(Chars(101), Null)>>}
Semantics == {[PlainSemantic EXCEPT !.time = t] : t \in Times}
    \cup {[PlainSemantic EXCEPT !.metrics = m] : m \in MetricLists}
    \cup {[PlainSemantic EXCEPT !.actors = a] : a \in {<<>>, Null, <<Chars(100)>>, <<Chars(101)>>}}
    \cup {[PlainSemantic EXCEPT !.objects = <<Said("a"), Said("A")>>],
          [PlainSemantic EXCEPT !.objects = <<Said("a"), Said("a")>>],
          [PlainSemantic EXCEPT !.jurisdictions = Null],
          [PlainSemantic EXCEPT !.jurisdictions = <<Chars(100)>>],
          [PlainSemantic EXCEPT !.action = Chars(200)], [PlainSemantic EXCEPT !.action = Chars(0)],
          [PlainSemantic EXCEPT !.stage = "other"], [PlainSemantic EXCEPT !.modality = "other"],
          [PlainSemantic EXCEPT !.reason = Chars(500)], [PlainSemantic EXCEPT !.method = Chars(501)],
          [PlainSemantic EXCEPT !.attribution = Null],
          [PlainSemantic EXCEPT !.attribution.claimed_by = Chars(100)],
          [PlainSemantic EXCEPT !.attribution.reported_by = Chars(101)]}
Items == {[PlainEvidence EXCEPT !.semantic = s] : s \in Semantics}
    \cup {[PlainEvidence EXCEPT !.summary = Chars(200)], [PlainEvidence EXCEPT !.summary = Chars(201)],
          [PlainEvidence EXCEPT !.keywords = <<>>], [PlainEvidence EXCEPT !.keywords = <<Chars(6)>>],
          [PlainEvidence EXCEPT !.keywords = <<Chars(7)>>],
          [PlainEvidence EXCEPT !.keywords = <<Said("b"), Said("b")>>],
          [PlainEvidence EXCEPT !.keywords = [i \in 1 .. 6 |-> Chars(i)]]}
Twins == {[PlainEvidence EXCEPT !.semantic.time = Bounds(At(n), At(2000))] : n \in {1000, 1001}}
Sets == {<<item>> : item \in Items} \cup {<<PlainEvidence, item>> : item \in Twins}
          \cup {<<>>, <<PlainEvidence, PlainEvidence>>}

PlainEvent == [title |-> Chars(1), summary |-> Chars(1), actors |-> <<Chars(1)>>, action |-> Chars(1),
               objects |-> <<Chars(1)>>, stage |-> "OCCURRED", modality |-> "FACT", precision |-> "DAY",
               occurred_at |-> At(1000), announced_at |-> Null, effective_at |-> Null,
               observed_at |-> Null, jurisdictions |-> <<>>, metrics |-> <<>>, evidence |-> <<1>>]
Events == {[PlainEvent EXCEPT !.occurred_at = At(n)] : n \in {1, 499, 500, 501, 1500}}
    \cup {[PlainEvent EXCEPT !.announced_at = At(n)] : n \in {2400, 2500, 2600}}
    \cup {[PlainEvent EXCEPT !.occurred_at = Null],
          [PlainEvent EXCEPT !.occurred_at = Null, !.observed_at = At(500)],
          [PlainEvent EXCEPT !.occurred_at = Null, !.effective_at = At(500)],
          [PlainEvent EXCEPT !.observed_at = At(1)], [PlainEvent EXCEPT !.occurred_at = Elsewhere(1)],
          [PlainEvent EXCEPT !.title = Chars(200)], [PlainEvent EXCEPT !.title = Chars(201)],
          [PlainEvent EXCEPT !.summary = Chars(0)], [PlainEvent EXCEPT !.actors = <<>>],
          [PlainEvent EXCEPT !.objects = <<Said("a"), Said("a")>>],
          [PlainEvent EXCEPT !.jurisdictions = Null], [PlainEvent EXCEPT !.jurisdictions = <<Chars(0)>>],
          [PlainEvent EXCEPT !.stage = "other"], [PlainEvent EXCEPT !.precision = "other"],
          [PlainEvent EXCEPT !.metrics = <<FactMetric(Said("a"), Null), FactMetric(Said("a"), Null)>>],
          [PlainEvent EXCEPT !.metrics = <<[FactMetric(Said("a"), Null) EXCEPT !.value = Null]>>],
          [PlainEvent EXCEPT !.evidence = <<>>], [PlainEvent EXCEPT !.evidence = <<1, 1>>],
          [PlainEvent EXCEPT !.evidence = <<1, 9>>]}

NoFacts == [raws |-> {}, sets |-> {}, events |-> {}]

MCFactDrafts ==
    {NoFacts} \cup {[raws |-> {PlainRaw, raw}, sets |-> {<<PlainEvidence>>}, events |-> {}] : raw \in Raws}
    \cup {[raws |-> {PlainRaw}, sets |-> {<<PlainEvidence>>, items}, events |-> {}] : items \in Sets}
    \cup {[raws |-> {}, sets |-> {}, events |-> {PlainEvent, event}] : event \in Events}
    \cup {[raws |-> {PlainRaw}, sets |-> {<<item>> : item \in Twins}, events |-> {}]}
=============================================================================
