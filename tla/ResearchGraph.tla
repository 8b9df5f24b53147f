--------------------------- MODULE ResearchGraph ---------------------------
(* The bounded search of the research graph and the closure of references  *)
(* by the Data Service.  A search is a few SQL statements, each of which    *)
(* reads the database as it is at that moment: what one of them has checked *)
(* may have changed when the next one reads.  Every fact carries the times  *)
(* of its creation and last update; a search asks for the facts as they     *)
(* were at its analysis time, which only the unchanged ones can answer.     *)
EXTENDS Integers, Sequences, FiniteSets, FiniteSetsExt

CONSTANTS
    Chain, Node, Country, Region, Organization,
    Theme,            \* industries and concepts
    GraphLink,             \* possible relations, edges, memberships, see LinkType
    ObjectOrder, LinkOrder,   \* positions in ORDER BY
    Ask,              \* the searches that may be asked
    MaxSeeds, MaxDepth, MaxNodes, MaxEdges,
    LastTime,         \* bound of the clock
    MaxChanges,       \* bound of the writes beside the search
    LateObject, LateLink   \* facts that are not there at first

Object == Chain \cup Node \cup Country \cup Region \cup Organization \cup Theme

NoName == "none"
Nowhere == [created |-> -1, updated |-> -1]
Time == 0 .. LastTime
Stamp == {s \in [created : Time, updated : Time] : s.created <= s.updated} \cup {Nowhere}

MappingTypes == {"mapped_to_industry", "mapped_to_concept"}
EdgeTypes == {"is_component_of", "input_to", "depends_on"}
Directions == {"outgoing", "incoming", "both"}

LinkType == [type : MappingTypes \cup EdgeTypes
                      \cup {"belongs_to_region", "has_member", "membership"},
             chain : Chain \cup {NoName},    \* of edges only
             from : Object, to : Object,
             since : Time, until : Time]   \* of has_member only

ASSUME GraphConstants ==
    /\ \A l \in GraphLink : l \in LinkType
    /\ {MaxSeeds, MaxDepth, MaxNodes, MaxEdges, LastTime, MaxChanges} \subseteq Nat

\* Links as the schema keeps them: mappings from a chain to an industry or a concept, edges
\* between nodes, in one chain, that close no cycle.
ASSUME GraphLinks ==
    \A l \in GraphLink :
        /\ l.type \in MappingTypes => l.chain = NoName /\ l.from \in Chain /\ l.to \in Theme
        /\ l.type \in EdgeTypes => /\ l.chain \in Chain /\ l.from # l.to
                                  /\ l.from \in Node /\ l.to \in Node

ASSUME GraphSizes ==
    /\ NoName \notin Object
    /\ IsFiniteSet(Object) /\ IsFiniteSet(GraphLink)
    /\ ObjectOrder \in [Object -> Nat] /\ LinkOrder \in [GraphLink -> Nat]

\* Requests name objects and links by their ids.
ASSUME GraphRequests ==
    \A q \in Ask : q.seeds \subseteq Object /\ q.relations \subseteq GraphLink

VARIABLES
    object,     \* the stamp of each object, Nowhere if it does not exist
    link,       \* the stamp of each link
    approved,   \* the chains whose review is approved
    now,
    changes,
    search      \* the search under way

graphVars == <<object, link, approved, now, changes, search>>

GraphAnswer == [depth : Nat, entities : SUBSET Object, links : SUBSET GraphLink,
          chains : SUBSET Chain, memberships : SUBSET GraphLink, types : SUBSET STRING]
NoGraph == [depth |-> 0, entities |-> {}, links |-> {}, chains |-> {},
            memberships |-> {}, types |-> {}]

Idle == [pc |-> "idle", q |-> NoName, graph |-> NoGraph, out |-> NoName]

-----------------------------------------------------------------------------
(* Requests.  A search has seeds, a direction for each relation type, a     *)
(* depth, perhaps the scope of one chain, and budgets.                      *)

IsSearch(q) == q.kind = "search"

\* validateGraphSearchRequest: the bounds of a request.  Ids of other kinds
\* and repeated ids or relation types are refused as well.
ValidRequest(q) ==
    /\ Cardinality(q.seeds) \in 1 .. MaxSeeds
    /\ q.filter # <<>> /\ \A t \in DOMAIN q.filter : q.filter[t] \in Directions
    /\ q.depth \in 1 .. MaxDepth
    /\ q.nodes \in 1 .. MaxNodes /\ q.edges \in 1 .. MaxEdges
    /\ q.chain \in Chain \cup {NoName}

Asks(q, type, directions) == type \in DOMAIN q.filter /\ q.filter[type] \in directions

\* Where a search goes: Country seeds first, then Organization seeds, and the
\* walk over industry chains for all others.  Kinds of seeds cannot be mixed,
\* and the first two have one relation type each and no chain scope.
Alone(q, kind, type) ==
    /\ q.chain = NoName
    /\ q.seeds \subseteq kind
    /\ DOMAIN q.filter = {type}

Route(q) ==
    IF ~IsSearch(q) THEN "gap"
    ELSE IF ~ValidRequest(q) THEN "refused"
    ELSE IF q.seeds \cap Country # {} THEN
           IF Alone(q, Country, "belongs_to_region") THEN "countries" ELSE "refused"
    ELSE IF q.seeds \cap Organization # {} THEN
           IF Alone(q, Organization, "has_member") THEN "organizations" ELSE "refused"
    ELSE "references"

-----------------------------------------------------------------------------
(* The facts a statement sees for the analysis time of a request.           *)

Current(stamp, q) == /\ stamp # Nowhere
                     /\ stamp.created <= q.asOf /\ stamp.updated <= q.asOf

CurrentObject(o, q) == Current(object[o], q)
CurrentChain(c, q) == c \in approved /\ CurrentObject(c, q)

\* A fact that existed at the analysis time and has been changed since.
Changed(stamp, q) == stamp # Nowhere /\ stamp.created <= q.asOf /\ stamp.updated > q.asOf

CurrentMembership(chain, node, q) ==
    \E m \in GraphLink : /\ m.type = "membership" /\ m.from = chain /\ m.to = node
                    /\ Current(link[m], q)

\* The entities of all_entities: countries, regions and organizations have
\* their own search.
Walkable == Chain \cup Node \cup Theme

CurrentMapping(l, q) ==
    /\ l.type \in MappingTypes /\ Current(link[l], q)
    /\ CurrentObject(l.from, q) /\ CurrentObject(l.to, q)

\* An edge counts if its chain is approved and both ends are members of it.
CurrentEdge(l, q) ==
    /\ l.type \in EdgeTypes /\ Current(link[l], q)
    /\ CurrentChain(l.chain, q)
    /\ CurrentMembership(l.chain, l.from, q) /\ CurrentMembership(l.chain, l.to, q)
    /\ CurrentObject(l.from, q) /\ CurrentObject(l.to, q)
    /\ q.chain \in {NoName, l.chain}

EligibleEdges(q) ==
    {l \in GraphLink : l.type \in DOMAIN q.filter /\ (CurrentMapping(l, q) \/ CurrentEdge(l, q))}

\* The steps the walk may take: an edge in the directions its filter allows.
TraversalOptions(q) ==
    {[edge |-> l, from |-> l.from, to |-> l.to] :
        l \in {e \in EligibleEdges(q) : Asks(q, e.type, {"outgoing", "both"})}}
    \cup
    {[edge |-> l, from |-> l.to, to |-> l.from] :
        l \in {e \in EligibleEdges(q) : Asks(q, e.type, {"incoming", "both"})}}

\* The first n members of S in ORDER BY.
First(S, n, order) == {x \in S : Cardinality({y \in S : order[y] < order[x]}) < n}

Room_NoExcess(q, known) == Max({q.nodes - Cardinality(known), 0})

\* LIMIT GREATEST(budget + 1 - reached, 0).
Room(q, known) == Max({q.nodes + 1 - Cardinality(known), 0})

\* The walk, breadth first: what is reached within d steps, and the depth of
\* each.  It goes on while there is a frontier and the node budget is kept,
\* and takes at most one node more than the budget, which shows the excess.
Walk(q) ==
    LET options == TraversalOptions(q)
        w[d \in 0 .. q.depth] ==
          IF d = 0 THEN [depth |-> [s \in q.seeds |-> 0], frontier |-> q.seeds]
          ELSE LET before == w[d - 1]
                   known == DOMAIN before.depth
                   found == {o.to : o \in {p \in options : p.from \in before.frontier}} \ known
                   taken == First(found, Room(q, known), ObjectOrder)
               IN  [depth |-> [o \in known \cup taken |->
                                 IF o \in known THEN before.depth[o] ELSE d],
                    frontier |-> taken]
    IN  w[q.depth].depth

\* The edges between reached nodes that start before the last depth.
UsedEdges(q, reached) ==
    LET used == {o.edge : o \in {p \in TraversalOptions(q) :
                    /\ p.from \in DOMAIN reached /\ p.to \in DOMAIN reached
                    /\ reached[p.from] < q.depth}}
    IN  First(used, q.edges + 1, LinkOrder)

\* What one statement over the graph selects.
Selected(q) ==
    LET reached == Walk(q)
        used == UsedEdges(q, reached)
        chains == {l.chain : l \in {e \in used : e.type \in EdgeTypes}}
                     \cup ({q.chain} \ {NoName})
    IN  [depth |-> Max({reached[o] : o \in DOMAIN reached}),
         entities |-> {o \in DOMAIN reached \cup chains : CurrentObject(o, q)},
         links |-> used,
         chains |-> {c \in chains : CurrentChain(c, q)},
         memberships |-> {m \in GraphLink : /\ m.type = "membership"
                                       /\ m.from \in chains /\ m.to \in DOMAIN reached
                                       /\ Current(link[m], q)},
         types |-> {l.type : l \in used}]

-----------------------------------------------------------------------------
(* What is checked of a result before it is answered.                       *)

\* validatePersistedResearchGraph and, for every search, referencesResolve:
\* a result that refers to what it does not contain is an internal error.
Closed(g, q) ==
    /\ g.depth \in 0 .. q.depth
    /\ \A l \in g.links : {l.from, l.to} \subseteq g.entities /\ l.type \in g.types
    /\ \A l \in g.links : l.type \in EdgeTypes => l.chain \in g.chains /\ l.from # l.to
    /\ g.chains \subseteq g.entities
    /\ \A m \in g.memberships : m.from \in g.chains /\ m.to \in g.entities

\* referencesResolve also asks for the memberships of both ends of an edge.
ReferencesResolve(g) ==
    \A l \in g.links : l.type \in EdgeTypes =>
        \A node \in {l.from, l.to} :
            \E m \in g.memberships : m.from = l.chain /\ m.to = node

WithinBudget(g, q) ==
    Cardinality(g.entities) <= q.nodes /\ Cardinality(g.links) <= q.edges

\* Store.Search* and then UseCase.Search, over what the statements selected.
Verdict(g, q) ==
    IF ~WithinBudget(g, q) THEN "limit"
    ELSE IF ~Closed(g, q) \/ ~ReferencesResolve(g) THEN "internal"
    ELSE "answer"

Ends(out) == search' = [search EXCEPT !.pc = "done", !.out = out]
Goes(pc) == search' = [search EXCEPT !.pc = pc]
Serves(g, out) == search' = [search EXCEPT !.pc = "done", !.graph = g, !.out = out]

Reads == UNCHANGED <<object, link, approved, now, changes>>

\* A request is validated and goes its way.
SearchRequest(q) ==
    /\ search.pc = "idle"
    /\ LET way == Route(q)
       IN  search' = [Idle EXCEPT !.pc = IF way = "refused" THEN "done" ELSE way, !.q = q,
                                  !.out = IF way = "refused" THEN way ELSE NoName]
    /\ Reads

-----------------------------------------------------------------------------
(* The walk over industry chains: three statements.                         *)

\* Every seed, every relation type and the chain scope have to be available.
Available(q) ==
    /\ q.seeds \subseteq {o \in Walkable : CurrentObject(o, q)}
    /\ \A t \in DOMAIN q.filter : \E l \in EligibleEdges(q) : l.type = t
    /\ q.chain # NoName => CurrentChain(q.chain, q)

ValidateReferences ==
    /\ search.pc = "references"
    /\ IF Available(search.q) THEN Goes("count") ELSE Ends("refused")
    /\ Reads

CountResult ==
    /\ search.pc = "count"
    /\ IF WithinBudget(Selected(search.q), search.q) THEN Goes("payload") ELSE Ends("limit")
    /\ Reads

\* The payload is validated first; the budgets are checked once more at the end.
ReadPayload ==
    /\ search.pc = "payload"
    /\ LET q == search.q
           g == Selected(q)
       IN  IF ~Closed(g, q) \/ ~ReferencesResolve(g) THEN Ends("internal")
           ELSE IF ~WithinBudget(g, q) THEN Ends("limit")
           ELSE Serves(g, "answer")
    /\ Reads

-----------------------------------------------------------------------------
(* Countries with their regions, organizations with their members.          *)

\* The seeds as they were: a later one is no seed, a changed one is refused.
Seeds(q, next) ==
    LET found == {s \in q.seeds : object[s] # Nowhere /\ object[s].created <= q.asOf}
    IN  IF \E s \in found : Changed(object[s], q) THEN Ends("historical")
        ELSE IF found # q.seeds THEN Ends("refused")
        ELSE Goes(next)

ReadCountries ==
    /\ search.pc = "countries"
    /\ Seeds(search.q, "regions")
    /\ Reads

ReadOrganizations ==
    /\ search.pc = "organizations"
    /\ Seeds(search.q, "members")
    /\ Reads

\* The seeds and what their selected links lead to.
Star(q, type, selected) ==
    LET links == IF Asks(q, type, {"outgoing", "both"}) THEN selected ELSE {}
    IN  [NoGraph EXCEPT !.entities = q.seeds \cup {l.to : l \in links}, !.links = links,
                        !.types = {type}, !.depth = IF links = {} THEN 0 ELSE 1]

\* Regions and their links are never updated, so their creation decides.
ReadCountryRegions ==
    /\ search.pc = "regions"
    /\ LET q == search.q
           g == Star(q, "belongs_to_region",
                     {l \in GraphLink : /\ l.type = "belongs_to_region" /\ l.from \in q.seeds
                                   /\ link[l] # Nowhere /\ link[l].created <= q.asOf
                                   /\ object[l.to].created <= q.asOf})
       IN  Serves(g, Verdict(g, q))
    /\ Reads

\* A membership counts by the dates it states, whenever it was recorded.
ReadMembers ==
    /\ search.pc = "members"
    /\ LET q == search.q
           g == Star(q, "has_member",
                     {l \in GraphLink : /\ l.type = "has_member" /\ l.from \in q.seeds
                                   /\ link[l] # Nowhere
                                   /\ l.since <= q.asOf /\ q.asOf <= l.until})
       IN  Serves(g, Verdict(g, q))
    /\ Reads

-----------------------------------------------------------------------------
(* The closure of references: the ids a report cites, with their relations. *)
(* A missing entity or relation is left out, a missing country is an error. *)

CheckGap ==
    /\ search.pc = "gap"
    /\ LET q == search.q
           cited == {object[o] : o \in q.seeds \cap Walkable} \cup {link[l] : l \in q.relations}
       IN  IF \E stamp \in cited : Changed(stamp, q) THEN Ends("historical") ELSE Goes("cited")
    /\ Reads

\* Relations are mappings only, and bring both of their ends.
ReadCited ==
    /\ search.pc = "cited"
    /\ LET q == search.q
           links == {l \in q.relations : l.type \in MappingTypes /\ Current(link[l], q)}
           ids == (q.seeds \cap Walkable) \cup UNION {{l.from, l.to} : l \in links}
           g == [NoGraph EXCEPT !.entities = {o \in ids : CurrentObject(o, q)},
                                !.links = links, !.types = {l.type : l \in links},
                                !.chains = {c \in ids \cap Chain : CurrentChain(c, q)}]
       IN  search' = [search EXCEPT !.pc = "cited countries", !.graph = g]
    /\ Reads

ReadCitedCountries ==
    /\ search.pc = "cited countries"
    /\ LET q == search.q
           cited == q.seeds \cap Country
           found == {s \in cited : object[s] # Nowhere /\ object[s].created <= q.asOf}
           g == [search.graph EXCEPT !.entities = @ \cup found]
       IN  IF \E s \in found : Changed(object[s], q) THEN Ends("historical")
           ELSE IF found # cited THEN Ends("internal")
           ELSE IF \E l \in g.links : ~({l.from, l.to} \subseteq g.entities) THEN Ends("internal")
           ELSE Serves(g, "answer")
    /\ Reads

-----------------------------------------------------------------------------
(* The writes beside the search.  Each is one statement or transaction.     *)

Write == /\ changes < MaxChanges /\ changes' = changes + 1 /\ UNCHANGED <<now, search>>
New == [created |-> now, updated |-> now]

CreateObject(o) ==
    /\ Write
    /\ object[o] = Nowhere
    /\ object' = [object EXCEPT ![o] = New]
    /\ UNCHANGED <<link, approved>>

\* Update of an object other than a region; the review of a chain is a field of it.
UpdateObject(o) ==
    /\ Write
    /\ o \notin Region /\ object[o] # Nowhere
    /\ object' = [object EXCEPT ![o].updated = now]
    /\ approved' \in {approved} \cup (IF o \in Chain
                                      THEN {approved \cup {o}, approved \ {o}} ELSE {})
    /\ UNCHANGED link

\* A country's regions as a whole: links that stay keep their creation.
ReplaceCountryRegions(country, regions) ==
    /\ Write
    /\ object[country] # Nowhere /\ \A r \in regions : object[r] # Nowhere
    /\ link' = [l \in GraphLink |->
                  IF l.type # "belongs_to_region" \/ l.from # country THEN link[l]
                  ELSE IF l.to \notin regions THEN Nowhere
                  ELSE IF link[l] = Nowhere THEN New ELSE link[l]]
    /\ UNCHANGED <<object, approved>>

\* CreateMember, UpdateMember and DeleteMember of an organization.
ChangeMember(l) ==
    /\ Write
    /\ l.type = "has_member" /\ object[l.from] # Nowhere /\ object[l.to] # Nowhere
    /\ link' = [link EXCEPT ![l] = IF @ = Nowhere THEN New ELSE Nowhere]
    /\ UNCHANGED <<object, approved>>

\* Chains are built by an import outside the service: the links of a chain
\* are inserted, and its edges and memberships are rewritten.
ImportLink(l) ==
    /\ Write
    /\ l.type \in MappingTypes \cup EdgeTypes \cup {"membership"}
    /\ object[l.from] # Nowhere /\ object[l.to] # Nowhere
    /\ link' = [link EXCEPT ![l] = IF @ = Nowhere THEN New ELSE [@ EXCEPT !.updated = now]]
    /\ l.type \in MappingTypes => link[l] = Nowhere   \* these have no update
    /\ UNCHANGED <<object, approved>>

GraphTick ==
    /\ now < LastTime /\ now' = now + 1
    /\ UNCHANGED <<object, link, approved, changes, search>>

-----------------------------------------------------------------------------

Early == [created |-> 0, updated |-> 0]

\* All facts but the late ones are there, and every chain is approved.
GraphInit ==
    /\ object = [o \in Object |-> IF o \in LateObject THEN Nowhere ELSE Early]
    /\ link = [l \in GraphLink |-> IF l \in LateLink THEN Nowhere ELSE Early]
    /\ approved = Chain
    /\ now = 0 /\ changes = 0
    /\ search = Idle

SearchStep ==
    \/ ValidateReferences \/ CountResult \/ ReadPayload
    \/ ReadCountries \/ ReadCountryRegions
    \/ ReadOrganizations \/ ReadMembers
    \/ CheckGap \/ ReadCited \/ ReadCitedCountries

GraphNext ==
    \/ \E q \in Ask : SearchRequest(q)
    \/ SearchStep
    \/ \E o \in Object : CreateObject(o) \/ UpdateObject(o)
    \/ \E country \in Country, regions \in SUBSET Region : ReplaceCountryRegions(country, regions)
    \/ \E l \in GraphLink : ChangeMember(l) \/ ImportLink(l)
    \/ GraphTick

GraphSpec == GraphInit /\ [][GraphNext]_graphVars /\ WF_graphVars(SearchStep)

-----------------------------------------------------------------------------
(* Properties.                                                              *)

GraphTypeOK ==
    /\ object \in [Object -> Stamp] /\ link \in [GraphLink -> Stamp]
    /\ approved \subseteq Chain /\ now \in Time /\ changes \in 0 .. MaxChanges
    /\ search.pc \in {"idle", "references", "count", "payload", "countries", "regions",
                       "organizations", "members", "gap", "cited", "cited countries", "done"}
    /\ search.out \in {NoName, "refused", "historical", "limit", "internal", "answer"}
    /\ search.graph.entities \subseteq Object /\ search.graph.links \subseteq GraphLink

\* Paths of at most n steps that start at a seed, as sequences of objects.
Paths(q, n) ==
    {p \in UNION {[1 .. k + 1 -> Walkable] : k \in 0 .. n} :
        /\ p[1] \in q.seeds
        /\ \A i \in 1 .. Len(p) - 1 :
             \E o \in TraversalOptions(q) : o.from = p[i] /\ o.to = p[i + 1]}

\* The subgraph a search asks for, without regard to its budgets: the ends of
\* all paths, the edges on them, and the chains of the edges.
Subgraph(q) ==
    LET reached == {p[Len(p)] : p \in Paths(q, q.depth)}
        inner == {p[Len(p)] : p \in Paths(q, q.depth - 1)}
        edges == {o.edge : o \in {t \in TraversalOptions(q) : t.from \in inner}}
    IN  [entities |-> (reached \cup {l.chain : l \in edges} \cup {q.chain}) \ {NoName},
         links |-> edges]

\* Every search is answered with the whole subgraph it asks for, or refused for
\* its budgets exactly if that subgraph exceeds one: the walk is cut at the
\* budget, but shows one object more than it.  This needs the seeds and the
\* chain scope to be available still when the payload is read: the statement
\* that checked them was another one.
AnswerIsWhole ==
    LET q == search.q
        g == Subgraph(q)
        fits == WithinBudget(g, q)
    IN  search.pc \in {"count", "payload"} /\ search'.pc = "done"
        /\ q.seeds \subseteq {o \in Walkable : CurrentObject(o, q)}
        /\ (q.chain = NoName \/ CurrentChain(q.chain, q))
        => /\ search'.out = IF fits THEN "answer" ELSE "limit"
           /\ fits => /\ search'.graph.entities = g.entities
                      /\ search'.graph.links = g.links

AnswersAreWhole == [][AnswerIsWhole]_graphVars
=============================================================================
