------------------------------ MODULE PortRelay ------------------------------
(***************************************************************************)
(* What the relay promises (README.md:31-37): a client that has a session  *)
(* keeps one outbound port, no two clients share one, a datagram of the    *)
(* client leaves through that port, and a datagram that the server sends   *)
(* to that port goes to the address the client was last heard from.        *)
(*                                                                         *)
(* There are no sockets, queues, clocks or counters here: WgcfRelay is     *)
(* shown to implement this module.                                         *)
(***************************************************************************)

CONSTANTS ClientId,   \* client ids: the non-zero reserved fields
          Address,    \* addresses a client can be heard from
          Port,       \* outbound ports
          Absent,     \* the entry of a client that has no session
          NoPacket    \* the last step relayed nothing

VARIABLES table,      \* [ClientId -> [address, port] or Absent]
          sent        \* the datagram the last step put on the network

vars == <<table, sent>>

Entry == [address : Address, port : Port]

\* The datagram that client c sent from address a leaves through port p; one
\* that reached port p leaves for address a of client c.
ToServer(c, a, p) == [kind |-> "up", client |-> c, address |-> a, port |-> p]
ToClient(c, a, p) == [kind |-> "down", client |-> c, address |-> a, port |-> p]

Present == {c \in ClientId : table[c] # Absent}
PortsInUse == {table[c].port : c \in Present}

Init == /\ table = [c \in ClientId |-> Absent]
        /\ sent = NoPacket

\* Client c is heard from address a: its first datagram gets an unused port,
\* a later one keeps the port and moves the address.  The send may fail.
Hear(c, a, p) ==
    /\ IF c \in Present THEN p = table[c].port ELSE p \notin PortsInUse
    /\ table' = [table EXCEPT ![c] = [address |-> a, port |-> p]]
    /\ sent' \in {NoPacket, ToServer(c, a, p)}

\* The server answers on the port of client c.
Answer(c) ==
    /\ c \in Present
    /\ sent' = ToClient(c, table[c].address, table[c].port)
    /\ UNCHANGED table

\* The sessions of S are deleted (none of them: a step that relays nothing).
Forget(S) ==
    /\ table' = [c \in ClientId |-> IF c \in S THEN Absent ELSE table[c]]
    /\ sent' = NoPacket

Next == \/ \E c \in ClientId, a \in Address, p \in Port : Hear(c, a, p)
        \/ \E c \in ClientId : Answer(c)
        \/ \E S \in SUBSET ClientId : Forget(S)

Spec == Init /\ [][Next]_vars
=============================================================================
