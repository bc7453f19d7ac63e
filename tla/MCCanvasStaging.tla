-------------------------- MODULE MCCanvasStaging --------------------------
(* Instances of CanvasStaging for TLC. *)
EXTENDS CanvasStaging, TLC

Symmetry == Permutations(Sessions)
=============================================================================
