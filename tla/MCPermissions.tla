--------------------------- MODULE MCPermissions ---------------------------
(***************************************************************************)
(* A large scene on both parcels, and a small one on the first.             *)
(***************************************************************************)
EXTENDS Permissions, TLC

CONSTANTS r1, r2, w1, w2, p1, p2, large, small

TwoScenes == large :> {p1, p2} @@ small :> {p1}

Symmetry == Permutations({r1, r2}) \cup Permutations({w1, w2})

=============================================================================
