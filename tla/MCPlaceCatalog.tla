--------------------------- MODULE MCPlaceCatalog ---------------------------
(* Two releases of the catalogue that share codes, drop others and move a     *)
(* tag; one organization, and one country in one region at first.             *)
EXTENDS PlaceCatalog

MCRowRank == [alliance |-> 1, bloc |-> 2, forum |-> 3, finance |-> 4, trade |-> 5,
              lending |-> 6, tariffs |-> 7]

OldFile == [categories |-> {"alliance", "bloc"}, functions |-> {"trade", "finance"},
            tag |-> [tariffs |-> "trade", lending |-> "finance"]]
NewFile == [categories |-> {"bloc", "forum"}, functions |-> {"trade"},
            tag |-> [tariffs |-> "trade", lending |-> "trade"]]
MCFiles2 == {OldFile, NewFile}

OrganizationOrder(kind, r, k, f, tags) ==
    [kind |-> kind, id |-> "o1", region |-> r, category |-> k, function |-> f, tags |-> tags]
MemberOrder(kind, id, o, from, till) ==
    [kind |-> kind, id |-> id, organization |-> o, country |-> "n1", from |-> from, till |-> till]

RegionOrders ==
    {[kind |-> "publish regions", codes |-> {"r1"}], [kind |-> "create region", code |-> "r2"],
     [kind |-> "create country", text |-> "x"], [kind |-> "update country", id |-> "n2", text |-> "x"],
     [kind |-> "replace regions", id |-> "n1", regions |-> {}],
     [kind |-> "replace regions", id |-> "n1", regions |-> {"r1"}]}
CatalogOrders ==
    {[kind |-> "publish catalog", file |-> file] : file \in MCFiles2}
      \cup {OrganizationOrder("update organization", "none", "bloc", "trade", <<"tariffs">>),
            OrganizationOrder("update organization", "r1", "forum", "finance", KeepTags),
            OrganizationOrder("update organization", "none", "bloc", "finance", <<"lending">>),
            OrganizationOrder("create organization", "none", "bloc", "finance", KeepTags)}
      \cup {[kind |-> "replace tags", id |-> "o1", tags |-> <<>>],
            [kind |-> "replace tags", id |-> "o1", tags |-> <<"tariffs", "lending">>]}
MemberOrders ==
    {MemberOrder("create member", "none", "o1", 0, 1), MemberOrder("create member", "none", "o1", 1, 3),
     MemberOrder("update member", "m1", "o1", 2, 2), MemberOrder("update member", "m2", "o1", 2, 1),
     MemberOrder("create member", "none", "o2", 1, 1),
     [kind |-> "delete member", organization |-> "o1", id |-> "m1"]}
MCPlaceOrders == RegionOrders \cup CatalogOrders \cup MemberOrders

MCFirstPlaces ==
    {[region |-> {"r1"}, country |-> [n1 |-> "y", n2 |-> "none"], regionLink |-> {<<"n1", "r1">>},
      catalog |-> OldFile,
      organization |-> [o1 |-> [region |-> "none", category |-> "bloc", function |-> "trade"],
                        o2 |-> NoOrganization],
      tagLink |-> {[organization |-> "o1", function |-> "trade", tag |-> "tariffs"]}]}
=============================================================================
