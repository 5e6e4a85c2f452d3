------------------------- MODULE MCRegisteredRestore -------------------------
(* Instance of RegisteredRestore for TLC. *)
EXTENDS RegisteredRestore, TLC

Symmetric == Permutations(Executors) \cup Permutations(Keys)
=============================================================================
