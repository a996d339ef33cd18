------------------------- MODULE MCWgcfRelayHistory -------------------------
(* WgcfRelayHistory on a small instance: expiry and liveness, no symmetry. *)
EXTENDS WgcfRelayHistory
=============================================================================
