--------------------------- MODULE MCUploadBudget ---------------------------
(***************************************************************************)
(* Small budgets for TLC: two places for three requests, a capacity that    *)
(* one request of the maximal size nearly fills, and one orphan at which    *)
(* admission stops.                                                         *)
(***************************************************************************)
EXTENDS UploadBudget

CONSTANTS u1, u2, u3

OneOrTwo == {1, 2}

=============================================================================
