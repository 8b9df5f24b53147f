-------------------------- MODULE MCEntityRegistry --------------------------
(* Three industries, one below another at first, and a few plain entities. *)
EXTENDS EntityRegistry

MCIdRank == [energy |-> 1, oil |-> 2, gas |-> 3, concept1 |-> 4, concept2 |-> 5,
             concept3 |-> 6, node1 |-> 7, node2 |-> 8, chain1 |-> 9, chain2 |-> 10]
MCIndustryCode == [energy |-> 1, oil |-> 2, gas |-> 3]

W(parent, path, text) == [parent |-> parent, path |-> path, text |-> text]
E(new, id, row) == [new |-> new, id |-> id, row |-> row]

MCLabels == [concept1 |-> 1, concept2 |-> 1, concept3 |-> NoLabel,
             node1 |-> 1, node2 |-> NoLabel, chain1 |-> 1, chain2 |-> NoLabel]
MCFirst == [energy |-> W(NoEntity, <<1>>, 0), oil |-> W("energy", <<1, 2>>, 0)]
MCEdits ==
    {E(FALSE, "energy", W(NoEntity, <<1>>, 1)),
     E(FALSE, "energy", W("gas", <<3, 1>>, 0)),
     E(FALSE, "oil", W("energy", <<1, 2>>, 1)),
     E(FALSE, "oil", W(NoEntity, <<2>>, 0)),
     E(FALSE, "oil", W("gas", <<3, 2>>, 0)),
     E(FALSE, "oil", W("oil", <<2, 2>>, 0)),
     E(TRUE, "gas", W(NoEntity, <<3>>, 0)),
     E(TRUE, "gas", W("oil", <<1, 2, 3>>, 0)),
     E(TRUE, "gas", W("oil", <<2, 3>>, 0)),
     E(FALSE, "gas", W("energy", <<1, 3>>, 0)),
     E(FALSE, "gas", W("oil", <<2, 3>>, 1))}
=============================================================================
