------------------------------ MODULE WgcfRelay ------------------------------
(***************************************************************************)
(* The WireGuard relay of src/wgcf: one thread (RunWorker) that waits on   *)
(* epoll, relays datagrams between clients and one server, and deletes     *)
(* sessions when epoll_wait returns no event.                              *)
(*                                                                         *)
(* A step of the worker is one return of epoll_wait, one pass over the     *)
(* sessions or one iteration of the event loop: between these the thread   *)
(* shares nothing with anybody but the kernel, whose sockets, queues and   *)
(* clock are variables here.                                               *)
(*                                                                         *)
(* A datagram is its sender's address and, on the inbound socket, the      *)
(* session id its reserved field yields; the payload is relayed unchanged  *)
(* and is left out.  Outbound descriptors and ports come from finite sets. *)
(***************************************************************************)
EXTENDS Integers, Sequences, FiniteSets

CONSTANTS
    ClientId,            \* session ids 2 << 32 | reserved, reserved # 0
    Address,             \* valid socket addresses of clients
    destinationAddress,  \* the server the relay forwards to
    Stranger,            \* any other address that sends to an outbound port
    Fd,                  \* descriptors of outbound sockets
    Port,                \* ephemeral ports of outbound sockets
    inboundSocket,       \* the descriptor clients send to
    NoId,                \* session id 0; no entry of the descriptor map
    NoSession,           \* no entry of the session table
    Closed,              \* the descriptor is not open
    NoPacket,            \* the last step put nothing on the network
    Timeout,             \* 600 s
    TimeModulus,         \* 2^64: timestamps are uint64_t
    ClockModulus,        \* 2^64 \div 10^9 + 1: a uint64_t of nanoseconds, in seconds
    MaxElapsed,          \* bound: time stops when a stamp shows a session this old
    CounterModulus,      \* 2^32: packet counters are uint32_t
    MaxEvents,           \* 16: capacity of the epoll_wait result
    MaxQueue,            \* bound: datagrams waiting in one socket
    ClockMayStep         \* whether CLOCK_REALTIME may be set while running

ASSUME SocketAssumption == /\ inboundSocket \notin Fd
                           /\ Closed \notin Port
                           /\ NoId \notin ClientId
ASSUME PeerAssumption == Stranger # destinationAddress
ASSUME TimeAssumption == /\ Timeout \in Nat
                         /\ TimeModulus \in Nat
                         /\ ClockModulus \in 1 .. TimeModulus
                         /\ MaxElapsed \in Nat
ASSUME CounterAssumption == CounterModulus \in Nat \ {0}
ASSUME BoundAssumption == /\ MaxEvents \in Nat \ {0}
                          /\ MaxQueue \in Nat \ {0}
ASSUME ClockAssumption == ClockMayStep \in BOOLEAN

VARIABLES
    phase,     \* "setup" until SetupSockets returns, then "running" or "exited";
               \* "idle" between a return of epoll_wait without events and the pass
    sessions,  \* WgcfRelayContext::sessions
    fdMap,     \* WgcfRelayContext::fileDescriptorToSessionIdMap
    events,    \* sockets of the epoll_wait batch not handled yet
    port,      \* kernel: local port of each outbound descriptor, or Closed
    rxq,       \* kernel: datagrams waiting in each socket
    now,       \* kernel: CLOCK_REALTIME in seconds
    sent       \* the datagram the last step put on the network, or NoPacket

table == <<sessions, fdMap>>
kernel == <<port, rxq>>
vars == <<phase, sessions, fdMap, events, port, rxq, now, sent>>

-----------------------------------------------------------------------------
(* Data. *)

Socket == Fd \cup {inboundSocket}
\* CurrentTimeSeconds: nanoseconds wrap at 2^64, so the seconds made of them wrap
\* long before the width of a timestamp is used up.
Time == 0 .. ClockModulus - 1
Counter == 0 .. CounterModulus - 1

Session == [outboundSocket : Fd,
            outboundPort : Port,       \* port of outboundSocketAddress
            sourceAddress : Address,
            lastTx : Time,             \* lastTxTimestampSeconds
            lastRx : Time,             \* lastRxTimestampSeconds
            droppedTx : Counter,       \* droppedTxSinceLastReport
            droppedRx : Counter,
            totalTx : Counter,         \* totalTxPacketsSinceLastReport
            totalRx : Counter]

ASSUME SentinelAssumption == /\ NoSession \notin Session
                             /\ NoSession \notin [address : Address, port : Port]

\* What the inbound socket receives, and what an outbound one receives.
ClientDatagram == [from : Address, id : ClientId \cup {NoId}]
ServerDatagram == [from : {destinationAddress, Stranger}]

\* The datagram that client c sent from address a leaves through port p; one
\* that reached port p leaves for address a of client c.
ToServer(c, a, p) == [kind |-> "up", client |-> c, address |-> a, port |-> p]
ToClient(c, a, p) == [kind |-> "down", client |-> c, address |-> a, port |-> p]
Relayed == [kind : {"up", "down"}, client : ClientId, address : Address, port : Port]
ASSUME PacketAssumption == NoPacket \notin Relayed

Live == {c \in ClientId : sessions[c] # NoSession}
PortsInUse == {port[f] : f \in Fd} \ {Closed}

\* Mutant: the counter grows without bound.
IncUnbounded(n) == n + 1

\* uint32_t ++
Inc(n) == IF n + 1 = CounterModulus THEN 0 ELSE n + 1

\* The difference of two timestamps is modulo 2^64, not modulo the clock's wrap.
Elapsed(last) == IF now >= last THEN now - last ELSE TimeModulus + now - last

\* Outcomes of sendto: sent, EAGAIN, another error.
SendResult == {"ok", "again", "error"}

-----------------------------------------------------------------------------
(* Initial state, SetupSockets and the ends of RunWorker. *)

Init == /\ phase = "setup"
        /\ sessions = [c \in ClientId |-> NoSession]
        /\ fdMap = [f \in Fd |-> NoId]
        /\ events = {}
        /\ port = [f \in Fd |-> Closed]
        /\ rxq = [s \in Socket |-> <<>>]
        /\ now = 0
        /\ sent = NoPacket

\* The inbound socket is bound and watched, or the program ends.
SetupSockets ==
    /\ phase = "setup"
    /\ phase' \in {"running", "exited"}
    /\ sent' = NoPacket
    /\ UNCHANGED <<table, events, kernel, now>>

\* epoll_wait fails with something else than EINTR, or recvfrom with
\* something else than EAGAIN and EINTR: the worker returns, the process ends
\* and the kernel closes its sockets.
RunWorkerFails ==
    /\ phase = "running"
    /\ phase' = "exited"
    /\ sessions' = [c \in ClientId |-> NoSession]
    /\ fdMap' = [f \in Fd |-> NoId]
    /\ events' = {}
    /\ port' = [f \in Fd |-> Closed]
    /\ rxq' = [s \in Socket |-> <<>>]
    /\ sent' = NoPacket
    /\ UNCHANGED now

Terminated == phase = "exited" /\ UNCHANGED vars

-----------------------------------------------------------------------------
(* epoll_wait. *)

Up == phase \in {"running", "idle"}
Waiting == phase = "running" /\ events = {}

\* Level triggered: every open socket that holds a datagram.
Ready == {s \in Socket : rxq[s] # <<>>}

\* The batch holds every ready socket, at most MaxEvents of them.  The order
\* inside the batch is the kernel's: the loop takes the sockets in any order.
EpollWaitReturns ==
    /\ Waiting
    /\ \E batch \in SUBSET Ready :
          /\ batch # {}
          /\ batch = Ready \/ Cardinality(batch) = MaxEvents
          /\ Cardinality(batch) <= MaxEvents
          /\ events' = batch
    /\ sent' = NoPacket
    /\ UNCHANGED <<phase, table, kernel, now>>

\* Mutant: only the direction to the client counts.
ExpiredByRx(s) == Elapsed(s.lastRx) > Timeout

\* A direction of the session has been idle for longer than Timeout.
Expired(s) == Elapsed(s.lastRx) > Timeout \/ Elapsed(s.lastTx) > Timeout

\* The report of lost packets restarts the four counters.
Reported(s) ==
    IF s.droppedRx # 0 \/ s.droppedTx # 0
    THEN [s EXCEPT !.droppedRx = 0, !.droppedTx = 0, !.totalRx = 0, !.totalTx = 0]
    ELSE s

ExpiredIds == {c \in Live : Expired(sessions[c])}
ReleasedSockets == {sessions[c].outboundSocket : c \in ExpiredIds}

\* Mutant: the entry of the descriptor map is not erased.
SweepKeepsEntry ==
    /\ sessions' = [c \in ClientId |->
                      IF c \in Live \ ExpiredIds THEN Reported(sessions[c]) ELSE NoSession]
    /\ fdMap' = fdMap
    /\ port' = [f \in Fd |-> IF f \in ReleasedSockets THEN Closed ELSE port[f]]
    /\ rxq' = [s \in Socket |-> IF s \in ReleasedSockets THEN <<>> ELSE rxq[s]]

\* Mutant: the socket is not closed.
SweepKeepsSocket ==
    /\ sessions' = [c \in ClientId |->
                      IF c \in Live \ ExpiredIds THEN Reported(sessions[c]) ELSE NoSession]
    /\ fdMap' = [f \in Fd |-> IF f \in ReleasedSockets THEN NoId ELSE fdMap[f]]
    /\ port' = port
    /\ rxq' = [s \in Socket |-> IF s \in ReleasedSockets THEN <<>> ELSE rxq[s]]

\* The pass over the table: closing a socket frees its port and what waits in it.
Sweep ==
    /\ sessions' = [c \in ClientId |->
                      IF c \in Live \ ExpiredIds THEN Reported(sessions[c]) ELSE NoSession]
    /\ fdMap' = [f \in Fd |-> IF f \in ReleasedSockets THEN NoId ELSE fdMap[f]]
    /\ port' = [f \in Fd |-> IF f \in ReleasedSockets THEN Closed ELSE port[f]]
    /\ rxq' = [s \in Socket |-> IF s \in ReleasedSockets THEN <<>> ELSE rxq[s]]

\* Mutant: the pass also runs while events of the batch are pending.
SweepAnyTime ==
    /\ Up
    /\ Sweep
    /\ phase' = "running"
    /\ sent' = NoPacket
    /\ UNCHANGED <<events, now>>

\* 100 ms without a datagram, or EINTR: numEvents <= 0.
EpollWaitReturnsNone ==
    /\ Waiting
    /\ Ready = {}
    /\ phase' = "idle"
    /\ sent' = NoPacket
    /\ UNCHANGED <<table, events, kernel, now>>

\* Datagrams may have arrived since; those in a socket that is closed are lost.
SweepSessions ==
    /\ phase = "idle"
    /\ Sweep
    /\ phase' = "running"
    /\ sent' = NoPacket
    /\ UNCHANGED <<events, now>>

-----------------------------------------------------------------------------
(* One iteration of the event loop. *)

\* recvfrom takes the oldest datagram of a socket of the batch.
Receive(s) ==
    /\ phase = "running"
    /\ s \in events
    /\ events' = events \ {s}
    /\ rxq' = [rxq EXCEPT ![s] = Tail(@)]

\* The iteration ends there: nothing is relayed and no table changes.
Discard(s) ==
    /\ Receive(s)
    /\ sent' = NoPacket
    /\ UNCHANGED <<phase, table, port, now>>

\* EAGAIN (the kernel discards a datagram whose checksum is wrong), or a
\* sender whose address family is not IP.
ReceiveUnusable(s) == Discard(s)

\* Shorter than 32 bytes or without a client id: GetSessionIdFromClientPacket = 0.
ReceiveWithoutClientId ==
    /\ Discard(inboundSocket)
    /\ Head(rxq[inboundSocket]).id = NoId

\* socket, bind to port 0, getsockname and EPOLL_CTL_ADD.
NewOutboundUdpSocket(f, p) ==
    /\ port[f] = Closed
    /\ p \notin PortsInUse
    /\ port' = [port EXCEPT ![f] = p]

NewSession(f, p, from) ==
    [outboundSocket |-> f, outboundPort |-> p, sourceAddress |-> from,
     lastTx |-> now, lastRx |-> now,
     droppedTx |-> 0, droppedRx |-> 0, totalTx |-> 0, totalRx |-> 0]

\* Mutant: a client that moved keeps its old address.
AfterTxSameAddress(s, from, result) ==
    [s EXCEPT !.totalTx = Inc(@),
              !.droppedTx = IF result = "again" THEN Inc(@) ELSE @,
              !.lastTx = IF result = "ok" THEN now ELSE @]

\* The session after the datagram of address from went to the server.
AfterTx(s, from, result) ==
    [s EXCEPT !.sourceAddress = from,
              !.totalTx = Inc(@),
              !.droppedTx = IF result = "again" THEN Inc(@) ELSE @,
              !.lastTx = IF result = "ok" THEN now ELSE @]

\* HandlePacketFromClient, no session yet.
ReceiveFromNewClient(f, p, result) ==
    LET d == Head(rxq[inboundSocket]) IN
    /\ Receive(inboundSocket)
    /\ d.id \in ClientId \ Live
    /\ NewOutboundUdpSocket(f, p)
    /\ sessions' = [sessions EXCEPT ![d.id] = AfterTx(NewSession(f, p, d.from), d.from, result)]
    /\ fdMap' = [fdMap EXCEPT ![f] = IF @ = NoId THEN d.id ELSE @]  \* emplace
    /\ sent' = IF result = "ok" THEN ToServer(d.id, d.from, p) ELSE NoPacket
    /\ UNCHANGED <<phase, now>>

\* HandlePacketFromClient, no session yet and a system call fails: what was
\* opened is closed again.
ReceiveFromNewClientFails ==
    /\ Discard(inboundSocket)
    /\ Head(rxq[inboundSocket]).id \in ClientId \ Live

\* HandlePacketFromClient, session found.
ReceiveFromKnownClient(result) ==
    LET d == Head(rxq[inboundSocket]) IN
    /\ Receive(inboundSocket)
    /\ d.id \in Live
    /\ sessions' = [sessions EXCEPT ![d.id] = AfterTx(@, d.from, result)]
    /\ sent' = IF result = "ok"
               THEN ToServer(d.id, d.from, port[sessions[d.id].outboundSocket])
               ELSE NoPacket
    /\ UNCHANGED <<phase, fdMap, port, now>>

\* Mutant: the stamp of the direction to the client is not refreshed.
AfterRxNoStamp(s, result) ==
    [s EXCEPT !.totalRx = Inc(@),
              !.droppedRx = IF result = "again" THEN Inc(@) ELSE @]

\* The session after a datagram of the server went to its client.
AfterRx(s, result) ==
    [s EXCEPT !.totalRx = Inc(@),
              !.droppedRx = IF result = "again" THEN Inc(@) ELSE @,
              !.lastRx = IF result = "ok" THEN now ELSE @]

\* The sender is the server, the descriptor is in the map and its session in
\* the table.  (The source address of a session is valid from its creation.)
FromServer(f) ==
    /\ Head(rxq[f]).from = destinationAddress
    /\ fdMap[f] \in Live

\* HandlePacketFromServer.
ReceiveFromServer(f, result) ==
    /\ Receive(f)
    /\ FromServer(f)
    /\ sessions' = [sessions EXCEPT ![fdMap[f]] = AfterRx(@, result)]
    /\ sent' = IF result = "ok"
               THEN ToClient(fdMap[f], sessions[fdMap[f]].sourceAddress, port[f])
               ELSE NoPacket
    /\ UNCHANGED <<phase, fdMap, port, now>>

\* Unexpected source, unknown descriptor or unknown session.
ReceiveUnexpected(f) ==
    /\ Discard(f)
    /\ ~FromServer(f)

-----------------------------------------------------------------------------
(* The network and the clock. *)

\* The network delivers d to socket s.  A datagram that is lost, or finds the
\* queue full or the port closed, makes no step.
Deliver(s, d) ==
    /\ Up
    /\ Len(rxq[s]) < MaxQueue
    /\ rxq' = [rxq EXCEPT ![s] = Append(@, d)]
    /\ sent' = NoPacket
    /\ UNCHANGED <<phase, table, events, port, now>>

DeliverToRelay == \E d \in ClientDatagram : Deliver(inboundSocket, d)
DeliverToPort(f) == port[f] # Closed /\ \E d \in ServerDatagram : Deliver(f, d)

\* A second passes.
Tick ==
    /\ Up
    /\ \A c \in Live : /\ Elapsed(sessions[c].lastTx) < MaxElapsed
                       /\ Elapsed(sessions[c].lastRx) < MaxElapsed
    /\ now' = IF now + 1 = ClockModulus THEN 0 ELSE now + 1
    /\ sent' = NoPacket
    /\ UNCHANGED <<phase, table, events, kernel>>

\* The administrator or NTP sets CLOCK_REALTIME.
StepClock ==
    /\ ClockMayStep
    /\ Up
    /\ now' \in Time \ {now}
    /\ sent' = NoPacket
    /\ UNCHANGED <<phase, table, events, kernel>>

-----------------------------------------------------------------------------

HandlePacketFromClient ==
    \/ \E f \in Fd, p \in Port, result \in SendResult : ReceiveFromNewClient(f, p, result)
    \/ ReceiveFromNewClientFails
    \/ \E result \in SendResult : ReceiveFromKnownClient(result)

HandleEvent ==
    \/ \E s \in Socket : ReceiveUnusable(s)
    \/ ReceiveWithoutClientId
    \/ HandlePacketFromClient
    \/ \E f \in Fd, result \in SendResult : ReceiveFromServer(f, result)
    \/ \E f \in Fd : ReceiveUnexpected(f)

\* The loop of RunWorker.
Worker == EpollWaitReturns \/ EpollWaitReturnsNone \/ SweepSessions \/ HandleEvent

Arrival == DeliverToRelay \/ \E f \in Fd : DeliverToPort(f)

Untimed == SetupSockets \/ Worker \/ RunWorkerFails \/ Terminated \/ Arrival

Next == Untimed \/ Tick \/ StepClock

Spec == Init /\ [][Next]_vars

\* The thread of the relay is scheduled and time passes.  Nothing is assumed
\* of the network, of the clock being set, or of system calls failing.
Fairness == WF_vars(Worker) /\ WF_vars(Tick)
FairSpec == Spec /\ Fairness

-----------------------------------------------------------------------------
(* Properties. *)

QueuesOK == /\ rxq \in [Socket -> Seq(ClientDatagram \cup ServerDatagram)]
            /\ rxq[inboundSocket] \in Seq(ClientDatagram)
            /\ \A f \in Fd : rxq[f] \in Seq(ServerDatagram)

TypeOK ==
    /\ phase \in {"setup", "running", "idle", "exited"}
    /\ sessions \in [ClientId -> Session \cup {NoSession}]
    /\ fdMap \in [Fd -> ClientId \cup {NoId}]
    /\ events \subseteq Socket
    /\ port \in [Fd -> Port \cup {Closed}]
    /\ QueuesOK
    /\ now \in Time
    /\ sent \in Relayed \cup {NoPacket}

\* The session table, the descriptor map and the kernel tell the same story:
\* every session owns one open socket bound to the port it recorded, every open
\* socket belongs to exactly one session through the map (no descriptor leaks,
\* none is used after close), no two sockets share a port and nothing waits in a
\* closed one.
SessionsAndSocketsAgree ==
    /\ \A c \in Live : fdMap[sessions[c].outboundSocket] = c
    /\ \A f \in Fd : fdMap[f] # NoId => /\ fdMap[f] \in Live
                                        /\ sessions[fdMap[f]].outboundSocket = f
    /\ \A f \in Fd : port[f] = Closed <=> fdMap[f] = NoId
    /\ \A c \in Live : port[sessions[c].outboundSocket] = sessions[c].outboundPort
    /\ \A f, g \in Fd : port[f] = port[g] /\ port[f] # Closed => f = g
    /\ \A f \in Fd : port[f] = Closed => rxq[f] = <<>>

\* The batch of epoll_wait is used over many iterations that change the tables:
\* each event not handled yet still names an open socket that holds a datagram,
\* because sockets are closed only when no batch is pending.
EventsAreLive ==
    \A s \in events : /\ rxq[s] # <<>>
                      /\ s \in Fd => port[s] # Closed

\* Nobody but the server reaches a client, and no answer reaches another client: a
\* datagram leaves for a client only when the worker has taken one of the server
\* from the socket that the session of this client owns, although the session is
\* found through the descriptor map (WgcfRelayWorker.cc:368-382).
OnlyTheServerReachesClients ==
    [][(sent' # NoPacket /\ sent'.kind = "down") =>
          \E f \in events : /\ Head(rxq[f]).from = destinationAddress
                            /\ sent'.client \in Live
                            /\ sessions[sent'.client].outboundSocket = f
                            /\ sessions[sent'.client].outboundPort = sent'.port
                            /\ rxq'[f] = Tail(rxq[f])]_vars

\* The relay implements PortRelay: stable ports, no port shared, replies to the
\* address the client was last heard from.
NoEntry == NoSession
tableOfPorts == [c \in ClientId |->
                    IF sessions[c] = NoSession THEN NoEntry
                    ELSE [address |-> sessions[c].sourceAddress,
                          port |-> sessions[c].outboundPort]]
PR == INSTANCE PortRelay WITH table <- tableOfPorts, Absent <- NoEntry
ImplementsPortRelay == PR!Spec
=============================================================================
