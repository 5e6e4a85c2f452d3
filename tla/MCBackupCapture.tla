--------------------------- MODULE MCBackupCapture ---------------------------
(* Instance of BackupCapture for TLC. *)
EXTENDS BackupCapture

CONSTANTS r1, r2, r3, k2, k3
=============================================================================
