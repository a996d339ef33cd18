---------------------------- MODULE MCUdpForward ----------------------------
(* UdpForward with two targets that have different destinations. *)
EXTENDS UdpForward, TLC

CONSTANTS l1, l2, l3, l4, d1, d2

MCinbound == 0 :> l1 @@ 1 :> l3
MCoutbound == 0 :> l2 @@ 1 :> l4
MCdestination == 0 :> d1 @@ 1 :> d2

\* socket returns the lowest descriptor that is free: the sockets of target i are 2i
\* and 2i + 1.  No step of the worker opens one, so what the worker is owed by
\* fairness is not touched.
LowestDescriptors ==
    \A i \in SetUp : At(i).inboundSocket = 2 * i /\ At(i).outboundSocket = 2 * i + 1
=============================================================================
