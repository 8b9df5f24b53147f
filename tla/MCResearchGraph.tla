--------------------------- MODULE MCResearchGraph ---------------------------
(* One chain of three nodes with an industry, a country with two regions and *)
(* an organization with one member, and the searches that may be asked.      *)
EXTENDS ResearchGraph

Link(type, chain, from, to) ==
    [type |-> type, chain |-> chain, from |-> from, to |-> to, since |-> 0, until |-> 0]

MCEdges == {Link("input_to", "chain", "node1", "node2"), Link("depends_on", "chain", "node2", "node3")}
MCMemberships == {Link("membership", NoName, "chain", n) : n \in {"node1", "node2", "node3"}}
MCRegions == {Link("belongs_to_region", NoName, "country", r) : r \in {"region1", "region2"}}
MCMapping == Link("mapped_to_industry", NoName, "chain", "industry")
MCLink == MCEdges \cup MCMemberships \cup MCRegions
            \cup {MCMapping, Link("has_member", NoName, "organization", "country")}
MCLateLink == {Link("belongs_to_region", NoName, "country", "region2")}

\* Objects by name, links by type and ends.
MCNames == <<"chain", "country", "industry", "node1", "node2", "node3",
             "organization", "region1", "region2">>
Position(name) == CHOOSE i \in DOMAIN MCNames : MCNames[i] = name
MCObjectOrder == [o \in Object |-> Position(o)]
MCLinkOrder == [l \in MCLink |-> 10 * Position(l.from) + Position(l.to)]

Search(seeds, filter, depth, nodes, edges, chain, asOf) ==
    [kind |-> "search", seeds |-> seeds, filter |-> filter, depth |-> depth,
     nodes |-> nodes, edges |-> edges, chain |-> chain, asOf |-> asOf, relations |-> {}]
Closure(seeds, relations, asOf) ==
    [Search(seeds, <<>>, 1, 1, 1, NoName, asOf) EXCEPT !.kind = "closure", !.relations = relations]

Both == [input_to |-> "both", depends_on |-> "both"]
MCAsk ==
    {Search({"node1"}, Both, 2, 4, 2, NoName, t) : t \in {0, 1}}
    \cup {Search({"node1"}, Both, d, 3, 2, "chain", 0) : d \in {1, 2}}
    \cup {Search({"node1"}, Both, 2, 4, 1, NoName, 0),
          Search({"node1", "node3"}, [input_to |-> "incoming", depends_on |-> "incoming"],
            2, 4, 2, NoName, 0),
          Search({"industry"}, [mapped_to_industry |-> "incoming"], 1, 2, 1, NoName, 0),
          Search({"industry"}, [mapped_to_industry |-> "both"], 2, 1, 1, NoName, 0),
          Search({"country"}, [belongs_to_region |-> "outgoing"], 1, 3, 2, NoName, 1),
          Search({"country"}, [belongs_to_region |-> "both"], 1, 2, 2, NoName, 1),
          Search({"country", "node1"}, [belongs_to_region |-> "both"], 1, 2, 2, NoName, 1),
          Search({"organization"}, [has_member |-> "outgoing"], 1, 2, 1, NoName, 0),
          Search({"organization"}, [has_member |-> "both"], 2, 1, 1, NoName, 0),
          Search({"organization"}, [has_member |-> "incoming"], 3, 1, 1, NoName, 0),
          Closure({"country", "node1", "chain"}, {MCMapping}, 0),
          Closure({"country"}, {MCMapping}, 0)}
=============================================================================
