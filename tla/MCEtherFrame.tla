---------------------------- MODULE MCEtherFrame ----------------------------
(* EtherFrame with a few frames; frames and buffers are interchangeable. *)
EXTENDS EtherFrame, TLC

Symmetry == Permutations(Frame) \cup Permutations(Buffer)
=============================================================================
