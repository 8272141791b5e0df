----------------------------- MODULE MCOverlaps -----------------------------
(***************************************************************************)
(* The worlds of MCWorldScenes, and whether their transactions overlapped.  *)
(***************************************************************************)
EXTENDS MCWorldScenes, Overlaps
=============================================================================
