---------------------------- MODULE MCMpiExecutor ----------------------------
(* MpiExecutor for three ranks. *)
EXTENDS MpiExecutor

CONSTANTS r0, r1, r2
=============================================================================
