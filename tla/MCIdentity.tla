----------------------------- MODULE MCIdentity -----------------------------
(* Instance of Identity for TLC. *)
EXTENDS Identity, TLC

Symmetric == Permutations(Sessions)
=============================================================================
