-------------------------- MODULE MCBufferPoolWindow --------------------------
(* BufferPoolWindow on a small ring; threads and buffers are interchangeable. *)
EXTENDS BufferPoolWindow, TLC

Symmetry == Permutations(Thread) \cup Permutations(Buffer)
=============================================================================
