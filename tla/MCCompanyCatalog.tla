-------------------------- MODULE MCCompanyCatalog --------------------------
(* Two codes, and catalogues of both versions: complete ones, one that keeps *)
(* an id, one that gives a code another id, one that is not in order.        *)
EXTENDS CompanyCatalog

Item(code, id, text) == [code |-> code, id |-> id, text |-> text]
File(version, digest, items) ==
    [version |-> version, expected |-> Len(items), digest |-> digest, items |-> items]

MCCatalogs ==
    {File(2, <<"C1", "C2">>, <<Item("C1", NoId, "x"), Item("C2", NoId, "x")>>),
     File(2, <<"C1">>, <<Item("C1", NoId, "nowhere")>>),
     File(2, <<"C2">>, <<Item("C1", NoId, "x")>>),
     File(1, NoDigest, <<Item("C1", "id2", "x"), Item("C2", "id1", "x")>>)}
MCCompanyOrders ==
    [kind : {"publish"}, catalog : MCCatalogs]
    \cup {[kind |-> "create", code |-> "C2", text |-> "x"],
          [kind |-> "create", code |-> "C1", text |-> "nowhere"],
          [kind |-> "update", code |-> "C1", text |-> "x"],
          [kind |-> "update", code |-> "C2", text |-> "nowhere"],
          [kind |-> "replace", code |-> "C1", industries |-> {"i1"}],
          [kind |-> "replace", code |-> "C1", industries |-> {}],
          [kind |-> "replace", code |-> "C2", industries |-> {"i1", "i0"}],
          [kind |-> "page", size |-> 1],
          [kind |-> "object"]}
MCFirstCompanies ==
    {[k \in CompanyCodes |-> NoCompany],
     [k \in CompanyCodes |-> [id |-> DerivedId[k], text |-> "x", created |-> 0, updated |-> 0]]}
MCCodeRank == [C1 |-> 1, C2 |-> 2]
MCDerivedId == [C1 |-> "id1", C2 |-> "id2"]
=============================================================================
