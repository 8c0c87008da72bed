---------------------------- MODULE MCBufferPool ----------------------------
(* Small instance of BufferPool; only invariants are checked, so threads    *)
(* and blocks may be permuted.                                              *)
EXTENDS BufferPool, TLC

Interchangeable == Permutations(Thread) \cup Permutations(Block)
=============================================================================
