--------------------------- MODULE MCSyncTransfer ---------------------------
(* One operation of a source and an output made from it. *)
EXTENDS SyncTransfer, TLC

CONSTANTS s1

DepsDef == [o \in Outputs |-> {s1}]
Symmetric == Permutations(RequestKeys)
=============================================================================
