-------------------------- MODULE MCConcurrencyQueue --------------------------
(* The queue with a handful of executions, for TLC.                        *)
EXTENDS ConcurrencyQueue
=============================================================================
