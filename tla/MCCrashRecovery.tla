--------------------------- MODULE MCCrashRecovery ---------------------------
(* Crash recovery of one or two executions, for TLC.                       *)
EXTENDS CrashRecovery, TLC
=============================================================================
