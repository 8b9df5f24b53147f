--------------------------- MODULE MCPublication ---------------------------
(* Small instances of Publication for TLC. *)
EXTENDS Publication, TLC

CONSTANTS k1, k2, plain, sourced

\* One content cites nothing, the other two evidences of one raw evidence.
MCCites == (plain :> {}) @@ (sourced :> {<<k1, 1>>, <<k1, 2>>})

\* Contents that cite nothing.
PlainCites == plain :> {}

Symmetry == Permutations(Calls)
=============================================================================
