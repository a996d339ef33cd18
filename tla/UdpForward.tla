----------------------------- MODULE UdpForward -----------------------------
(***************************************************************************)
(* The UDP forwarder of src/udpfwd: a fixed list of targets, each with an  *)
(* inbound socket, an outbound socket and a destination, and one thread    *)
(* (RunWorker) that relays between the last source heard on the inbound    *)
(* socket and the destination.                                             *)
(*                                                                         *)
(* A step of the thread is one iteration of the loop of SetupSockets, one  *)
(* return of epoll_wait or one event.  Sockets that are bound receive      *)
(* datagrams while the rest is still being set up.  A datagram is the      *)
(* address of its sender; payloads pass through unchanged.                 *)
(***************************************************************************)
EXTENDS Integers, Sequences, FiniteSets

CONSTANTS
    targetCount,    \* targets.size()
    Local,          \* addresses that sockets bind to
    Address,        \* valid addresses of peers
    inbound,        \* [Target -> Local]
    outbound,       \* [Target -> Local]
    destination,    \* [Target -> Address]
    Fd,             \* descriptors
    Invalid,        \* an INetSocketAddress that was never assigned
    Closed,         \* the descriptor is not open
    NoTarget,       \* no entry of the descriptor map
    NoPacket,       \* the last step put nothing on the network
    MaxEvents,      \* 16: capacity of the epoll_wait result
    MaxQueue        \* bound: datagrams waiting in one socket

Target == 0 .. targetCount - 1

ASSUME CountAssumption == targetCount \in Nat
ASSUME ConfigAssumption == /\ inbound \in [Target -> Local]
                           /\ outbound \in [Target -> Local]
                           /\ destination \in [Target -> Address]
ASSUME SentinelAssumption == /\ Invalid \notin Address
                             /\ Closed \notin Local
                             /\ NoTarget \notin Target
                             /\ Invalid \notin [address : Address, port : Local]
ASSUME BoundAssumption == MaxEvents \in Nat \ {0} /\ MaxQueue \in Nat \ {0}

VARIABLES
    phase,     \* "setup", then "running" (RunWorker), then "exited"
    sessions,  \* UdpForwardContext::sessions, by position
    fdIndex,   \* UdpForwardContext::fileDescriptorToSessionIndex
    events,    \* sockets of the epoll_wait batch not handled yet
    bound,     \* kernel: the address each descriptor is bound to, or Closed
    rxq,       \* kernel: datagrams waiting in each socket
    sent       \* the datagram the last step put on the network, or NoPacket

context == <<sessions, fdIndex>>
kernel == <<bound, rxq>>
vars == <<phase, sessions, fdIndex, events, bound, rxq, sent>>

Session == [sourceAddress : Address \cup {Invalid},
            inboundSocket : Fd,
            outboundSocket : Fd]

ToServer(i, a, p) == [kind |-> "up", client |-> i, address |-> a, port |-> p]
ToClient(i, a, p) == [kind |-> "down", client |-> i, address |-> a, port |-> p]
Relayed == [kind : {"up", "down"}, client : Target, address : Address, port : Local]

SetUp == 0 .. Len(sessions) - 1        \* the targets that have their sockets
At(i) == sessions[i + 1]               \* context.sessions[i]
InUse == {bound[f] : f \in Fd} \ {Closed}

Init == /\ phase = "setup"
        /\ sessions = <<>>
        /\ fdIndex = [f \in Fd |-> NoTarget]
        /\ events = {}
        /\ bound = [f \in Fd |-> Closed]
        /\ rxq = [f \in Fd |-> <<>>]
        /\ sent = NoPacket

-----------------------------------------------------------------------------
(* SetupSockets. *)

\* Mutant: the index is taken after the session has been appended.
EnterSocketsAfterAppend(i, f, g) ==
    fdIndex' = [fdIndex EXCEPT ![f] = i + 1, ![g] = i + 1]

\* emplace: the descriptors are new, so neither has an entry.
EnterSockets(i, f, g) == fdIndex' = [fdIndex EXCEPT ![f] = i, ![g] = i]

\* One iteration: both sockets are bound, watched and entered.  bind fails on an
\* address that is in use.
SetupTarget(f, g) ==
    LET i == Len(sessions) IN
    /\ phase = "setup"
    /\ i \in Target
    /\ f # g /\ bound[f] = Closed /\ bound[g] = Closed
    /\ inbound[i] \notin InUse
    /\ outbound[i] \notin InUse \cup {inbound[i]}
    /\ bound' = [bound EXCEPT ![f] = inbound[i], ![g] = outbound[i]]
    /\ sessions' = Append(sessions, [sourceAddress |-> Invalid,
                                     inboundSocket |-> f, outboundSocket |-> g])
    /\ EnterSockets(i, f, g)
    /\ sent' = NoPacket
    /\ UNCHANGED <<phase, events, rxq>>

SetupDone ==
    /\ phase = "setup"
    /\ Len(sessions) = targetCount
    /\ phase' = "running"
    /\ sent' = NoPacket
    /\ UNCHANGED <<context, events, kernel>>

\* SetupSockets or RunWorker returns an error, the process ends and the kernel
\* closes its sockets: a system call fails; epoll_wait fails, EINTR included;
\* an event carries EPOLLERR or EPOLLHUP; recvfrom fails with something else
\* than EAGAIN and EINTR.
Fails ==
    /\ phase \in {"setup", "running"}
    /\ phase' = "exited"
    /\ sessions' = <<>>
    /\ fdIndex' = [f \in Fd |-> NoTarget]
    /\ events' = {}
    /\ bound' = [f \in Fd |-> Closed]
    /\ rxq' = [f \in Fd |-> <<>>]
    /\ sent' = NoPacket

Terminated == phase = "exited" /\ UNCHANGED vars

-----------------------------------------------------------------------------
(* RunWorker. *)

\* Mutant: only inbound sockets were added to the interest list.
ReadyInbound == {f \in Fd : rxq[f] # <<>> /\ f = At(fdIndex[f]).inboundSocket}

Ready == {f \in Fd : rxq[f] # <<>>}

EpollWaitReturns ==
    /\ phase = "running"
    /\ events = {}
    /\ \E batch \in SUBSET Ready :
          /\ batch # {}
          /\ batch = Ready \/ Cardinality(batch) = MaxEvents
          /\ Cardinality(batch) <= MaxEvents
          /\ events' = batch
    /\ sent' = NoPacket
    /\ UNCHANGED <<phase, context, kernel>>

Receive(f) ==
    /\ phase = "running"
    /\ f \in events
    /\ events' = events \ {f}
    /\ rxq' = [rxq EXCEPT ![f] = Tail(@)]

\* The iteration ends there: nothing is relayed and no session changes.
Discard(f) ==
    /\ Receive(f)
    /\ sent' = NoPacket
    /\ UNCHANGED <<phase, context, bound>>

\* EAGAIN (the kernel discards a datagram whose checksum is wrong), or a
\* sender whose address family is not IP.
ReceiveUnusable(f) == Discard(f)

SendResult == {"ok", "error"}

\* Mutant: the first source is kept.
KeepSource(i, from) ==
    IF At(i).sourceAddress = Invalid
    THEN sessions' = [sessions EXCEPT ![i + 1].sourceAddress = from]
    ELSE sessions' = sessions

NoteSource(i, from) == sessions' = [sessions EXCEPT ![i + 1].sourceAddress = from]

\* kSourceToInboundSocket
ForwardToDestination(f, result) ==
    LET i == fdIndex[f]
        from == Head(rxq[f])
    IN  /\ Receive(f)
        /\ f = At(i).inboundSocket
        /\ NoteSource(i, from)
        /\ sent' = IF result = "ok"
                   THEN ToServer(i, from, bound[At(i).outboundSocket])
                   ELSE NoPacket
        /\ UNCHANGED <<phase, fdIndex, bound>>

\* Mutant: the sender is not compared with the destination of the session.
MayReachAnySource(i, from) == At(i).sourceAddress # Invalid

\* The sender is the destination of the session and a source is known.
MayReachSource(i, from) == from = destination[i] /\ At(i).sourceAddress # Invalid

\* kDestinationToOutboundSocket
ForwardToSource(f, result) ==
    LET i == fdIndex[f] IN
    /\ Receive(f)
    /\ f = At(i).outboundSocket
    /\ MayReachSource(i, Head(rxq[f]))
    /\ sent' = IF result = "ok"
               THEN ToClient(i, At(i).sourceAddress, bound[f])
               ELSE NoPacket
    /\ UNCHANGED <<phase, context, bound>>

\* Unsolicited, or no source known yet.
DropFromPeer(f) ==
    /\ Discard(f)
    /\ f = At(fdIndex[f]).outboundSocket
    /\ ~MayReachSource(fdIndex[f], Head(rxq[f]))

-----------------------------------------------------------------------------
(* The network: every address may send to every open socket. *)

Arrive(f, from) ==
    /\ phase \in {"setup", "running"}
    /\ bound[f] # Closed
    /\ Len(rxq[f]) < MaxQueue
    /\ rxq' = [rxq EXCEPT ![f] = Append(@, from)]
    /\ sent' = NoPacket
    /\ UNCHANGED <<phase, context, events, bound>>

-----------------------------------------------------------------------------

HandleEvent ==
    \/ \E f \in Fd : ReceiveUnusable(f)
    \/ \E f \in Fd, result \in SendResult : ForwardToDestination(f, result)
    \/ \E f \in Fd, result \in SendResult : ForwardToSource(f, result)
    \/ \E f \in Fd : DropFromPeer(f)

Worker == EpollWaitReturns \/ HandleEvent

Next == \/ \E f, g \in Fd : SetupTarget(f, g)
        \/ SetupDone
        \/ Worker
        \/ Fails
        \/ Terminated
        \/ \E f \in Fd, from \in Address : Arrive(f, from)

Spec == Init /\ [][Next]_vars

\* The thread is scheduled; nothing is assumed of the network or of failures.
FairSpec == Spec /\ WF_vars(Worker)

-----------------------------------------------------------------------------
(* Properties. *)

TypeOK ==
    /\ phase \in {"setup", "running", "exited"}
    /\ sessions \in Seq(Session)
    /\ Len(sessions) <= targetCount
    /\ fdIndex \in [Fd -> Target \cup {NoTarget}]
    /\ events \subseteq Fd
    /\ bound \in [Fd -> Local \cup {Closed}]
    /\ rxq \in [Fd -> Seq(Address)]
    /\ sent \in Relayed \cup {NoPacket}

\* The descriptor map names, for every open socket and no other, the session that
\* has it as one of its two sockets, and each socket is bound to the address the
\* configuration gives that end; so the exit with -EINVAL on an unknown descriptor
\* (UdpForwardWorker.cc:133) is never taken.
SocketsAgree ==
    /\ \A i \in SetUp :
          /\ fdIndex[At(i).inboundSocket] = i /\ bound[At(i).inboundSocket] = inbound[i]
          /\ fdIndex[At(i).outboundSocket] = i /\ bound[At(i).outboundSocket] = outbound[i]
          /\ At(i).inboundSocket # At(i).outboundSocket
    /\ \A f \in Fd : fdIndex[f] # NoTarget =>
          /\ fdIndex[f] \in SetUp
          /\ f \in {At(fdIndex[f]).inboundSocket, At(fdIndex[f]).outboundSocket}
    /\ \A f \in Fd : bound[f] = Closed <=> fdIndex[f] = NoTarget
    /\ \A f, g \in Fd : bound[f] = bound[g] /\ bound[f] # Closed => f = g
    /\ \A f \in Fd : bound[f] = Closed => rxq[f] = <<>>
    /\ \A f \in events : rxq[f] # <<>>

\* A source is reached only by the destination of the session it spoke to, never by
\* the destination of another target: the step takes a datagram of that destination
\* from the outbound socket of that session.
OnlyDestinationsReachSources ==
    [][(sent' # NoPacket /\ sent'.kind = "down") =>
          LET f == At(sent'.client).outboundSocket
          IN  /\ f \in events
              /\ Head(rxq[f]) = destination[sent'.client]
              /\ rxq'[f] = Tail(rxq[f])]_vars

\* A datagram that waits is taken into a batch, unless the process ends first, as
\* long as one batch holds all sockets.
NoSocketStarves ==
    \A f \in Fd : (phase = "running" /\ rxq[f] # <<>>) ~> (f \in events \/ phase = "exited")

\* The forwarder is a PortRelay whose clients are the targets: each keeps its
\* outbound address, and answers go to the source last heard.
NoEntry == Invalid
tableOfPorts == [i \in Target |->
                    IF i \in SetUp /\ At(i).sourceAddress # Invalid
                    THEN [address |-> At(i).sourceAddress, port |-> outbound[i]]
                    ELSE NoEntry]
PR == INSTANCE PortRelay WITH ClientId <- Target, Port <- Local,
                              table <- tableOfPorts, Absent <- NoEntry
ImplementsPortRelay == PR!Spec
=============================================================================
