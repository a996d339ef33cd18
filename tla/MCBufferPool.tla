---------------------------- MODULE MCBufferPool ----------------------------
(* BufferPool on a small ring; threads and buffers are interchangeable. *)
EXTENDS BufferPool, TLC

Symmetry == Permutations(Thread) \cup Permutations(Buffer)
=============================================================================
