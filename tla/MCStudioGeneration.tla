------------------------- MODULE MCStudioGeneration -------------------------
(* Model-checking instance of StudioGeneration. *)
EXTENDS StudioGeneration

CONSTANTS t1, l1, w1, w2
=============================================================================
