------------------------------ MODULE MCMultiMain ------------------------------
(* Mains that choose a leader, for TLC.                                    *)
EXTENDS MultiMain
=============================================================================
