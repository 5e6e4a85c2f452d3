-------------------------- MODULE MCSourceDeletion --------------------------
(* Model-checking instance of SourceDeletion. *)
EXTENDS SourceDeletion

CONSTANTS n1, n2, s1, c1
=============================================================================
