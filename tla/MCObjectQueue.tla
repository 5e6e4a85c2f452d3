--------------------------- MODULE MCObjectQueue ---------------------------
(* Instance of ObjectQueue for TLC. *)
EXTENDS ObjectQueue

CONSTANTS o1, o2, j1, j2, a1, a2, k1, b1, b2, r1, c1, p1, p2, w1

\* Of one length, so that the size check does not tell them apart.  Blobs of different
\* lengths fail verification, which is what the store's final refusal does too.
MCSize == [b \in Bytes |-> 3]
\* Both threads work under one worker_id, as the API's upload threads do.
SharedWorkerId == [p \in Procs |-> w1]
UploadIds == [ak \in Actors \X Keys |-> IF ak[1] = a1 THEN o1 ELSE o2]
====
