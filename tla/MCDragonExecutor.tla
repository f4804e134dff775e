-------------------------- MODULE MCDragonExecutor --------------------------
(* DragonExecutor for two workers and two rounds. *)
EXTENDS DragonExecutor

CONSTANTS w1, w2
=============================================================================
