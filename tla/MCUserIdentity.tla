--------------------------- MODULE MCUserIdentity ---------------------------
(* Small instances of UserIdentity for TLC. *)
EXTENDS UserIdentity, TLC

\* Requests are interchangeable: their names are random tokens and ids.
Symmetry == Permutations(Requests) \cup Permutations(OpenIDs)
              \cup Permutations(UnionIDs)
=============================================================================
