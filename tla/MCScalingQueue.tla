---------------------------- MODULE MCScalingQueue ----------------------------
(* Jobs and workers, for TLC.                                              *)
EXTENDS ScalingQueue
=============================================================================
