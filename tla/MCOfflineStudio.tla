--------------------------- MODULE MCOfflineStudio ---------------------------
(* The local service with one copy, one raw source and one request. *)
EXTENDS OfflineStudio, TLC

Symmetric == Permutations(Objects) \cup Permutations(Requests)
             \cup Permutations(Keys) \cup Permutations(Edits)
=============================================================================
