---------------------------- MODULE MCWgcfRelay ----------------------------
(* WgcfRelay on a small instance: routing, with every name interchangeable. *)
EXTENDS WgcfRelay, TLC

Symmetry == Permutations(ClientId) \cup Permutations(Address)
            \cup Permutations(Fd) \cup Permutations(Port)
=============================================================================
