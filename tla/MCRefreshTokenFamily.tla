------------------------ MODULE MCRefreshTokenFamily ------------------------
(* Instances of RefreshTokenFamily for TLC.                                  *)
EXTENDS RefreshTokenFamily, TLC

CONSTANTS j1, j2, u1, f1

Symmetry == Permutations(Reqs)

\* Sound when the initial table is empty: no user, family or token is told apart.
FullSymmetry ==
    UNION {Permutations(S) : S \in {Reqs, Users, Families, Jtis}}
=============================================================================
