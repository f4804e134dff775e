------------------------ MODULE MCNativeBatchBuilder ------------------------
(* NativeBatchBuilder on a small instance: a batch of two files, an empty
   batch, and batches of one file. *)
EXTENDS NativeBatchBuilder

CONSTANTS w1, w2

TwoFilesThenNone ==
    [b \in Batches |-> CASE b = 0 -> 2 [] b = 1 -> 0 [] OTHER -> 1]
=============================================================================
