------------------------- MODULE MCExecutionLifecycle -------------------------
(* The lifecycle with a handful of executions, for TLC.                    *)
EXTENDS ExecutionLifecycle, TLC
\* The ids are interchangeable in runs that check invariants only.
Symmetry == Permutations(Execution)
\* States that differ in the number of starts or in the event log alone are the same,
\* in runs without a boot-up: the properties only look at whether a step starts one.
NoHistory == <<db, memory, stage, stops, restarts, held, late>>
=============================================================================
