-------------------------- MODULE MCUatDeployment ---------------------------
(* Small instances of UatDeployment for TLC. *)
EXTENDS UatDeployment, TLC

\* The compose and runtime files are written like these two.
TwoFiles == <<"images", "sha">>

\* One cutover of two migrations, then an ordinary one; "rebuilt" is another
\* commit with the cutover's own migrations.
MCFrom == [c \in Cutovers |-> 1]
MCTo == [c \in Cutovers |-> 3]
MCSchema == [release \in Releases |->
               CASE release = "base" -> 1 [] release = "next" -> 4
                 [] OTHER -> 3]
MCGuarded == {2, 3}

Symmetry == Permutations(Runs)
=============================================================================
