---------------------------- MODULE MCBufferPool ----------------------------
(* BufferPool on two threads and four bytes of memory. *)
EXTENDS BufferPool

CONSTANTS t1, t2, a1, a2, a3, a4
=============================================================================
