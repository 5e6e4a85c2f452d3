------------------------ MODULE MCDocumentProcessing ------------------------
(* Model-checking instance of DocumentProcessing. *)
EXTENDS DocumentProcessing

CONSTANTS s1, f1, f2, w1, w2
=============================================================================
