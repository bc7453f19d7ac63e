-------------------------- MODULE MCCanvasPreview --------------------------
(* Instances of CanvasPreview for TLC. *)
EXTENDS CanvasPreview

MCRequests == 1 .. MaxRuns
=============================================================================
