-------------------------- MODULE UdpForwardProofs --------------------------
(***************************************************************************)
(* Proofs about UdpForward, for every list of targets, every set of        *)
(* addresses and every bound.  The inductive invariant is TypeOK together  *)
(* with SocketsAgree: taking the tail of a queue is well typed because an  *)
(* event has a datagram, and a handler finds its session because an open   *)
(* socket is in the map.                                                   *)
(***************************************************************************)
EXTENDS UdpForward, SequenceTheorems, TLAPS

IInv == TypeOK /\ SocketsAgree

-----------------------------------------------------------------------------
(* Sessions and the sockets of a step. *)

LEMMA SetUpFacts ==
  ASSUME TypeOK
  PROVE  /\ SetUp \subseteq Target
         /\ Len(sessions) \in Nat
         /\ \A i \in SetUp : At(i) \in Session /\ i + 1 \in 1 .. Len(sessions) /\ i \in Int
  BY CountAssumption DEF TypeOK, SetUp, At, Target

\* The map leads an open socket to its session.
LEMMA OwnerFacts ==
  ASSUME IInv, NEW f \in Fd, bound[f] # Closed
  PROVE  /\ fdIndex[f] \in SetUp
         /\ f \in {At(fdIndex[f]).inboundSocket, At(fdIndex[f]).outboundSocket}
  BY DEF IInv, SocketsAgree

\* What a handler takes from a socket of the batch.
LEMMA ReceiveFacts ==
  ASSUME IInv, NEW f \in Fd, Receive(f)
  PROVE  /\ bound[f] # Closed
         /\ Head(rxq[f]) \in Address
         /\ rxq' \in [Fd -> Seq(Address)]
         /\ \A g \in Fd : g # f => rxq'[g] = rxq[g]
         /\ rxq'[f] = Tail(rxq[f])
         /\ events' = events \ {f}
  <1>1. rxq \in [Fd -> Seq(Address)] /\ rxq[f] # <<>> /\ bound[f] # Closed
    BY DEF IInv, TypeOK, SocketsAgree, Receive
  <1>2. Head(rxq[f]) \in Address /\ Tail(rxq[f]) \in Seq(Address)
    BY <1>1
  <1>3. rxq' = [rxq EXCEPT ![f] = Tail(@)] /\ events' = events \ {f}
    BY DEF Receive
  <1> QED BY <1>1, <1>2, <1>3

\* A handler that changes no socket: the map and the sockets of every session stay.
LEMMA HandlerStep ==
  ASSUME IInv, NEW f \in Fd, Receive(f), UNCHANGED <<phase, fdIndex, bound>>,
         sessions' \in Seq(Session), Len(sessions') = Len(sessions),
         \A i \in SetUp : /\ At(i)'.inboundSocket = At(i).inboundSocket
                          /\ At(i)'.outboundSocket = At(i).outboundSocket,
         sent' \in Relayed \cup {NoPacket}
  PROVE  IInv'
  <1>1. TypeOK'
    BY ReceiveFacts DEF IInv, TypeOK
  <1>2. SetUp' = SetUp
    BY DEF SetUp
  <1>3. \A g \in Fd : bound[g] = Closed => rxq'[g] = <<>>
    BY ReceiveFacts DEF IInv, SocketsAgree
  <1>4. \A g \in events' : rxq'[g] # <<>>
    BY ReceiveFacts DEF IInv, SocketsAgree, TypeOK
  <1>5. SocketsAgree'
    BY <1>2, <1>3, <1>4, ReceiveFacts DEF IInv, SocketsAgree
  <1> QED BY <1>1, <1>5 DEF IInv

LEMMA DiscardStep ==
  ASSUME IInv, NEW f \in Fd, Discard(f)
  PROVE  IInv'
  <1>1. sessions' \in Seq(Session) /\ Len(sessions') = Len(sessions)
    BY DEF IInv, TypeOK, Discard, context
  <1>2. \A i \in SetUp : At(i)' = At(i)
    BY DEF At, Discard, context
  <1> QED BY <1>1, <1>2, HandlerStep DEF Discard, context

LEMMA ForwardToDestinationStep ==
  ASSUME IInv, NEW f \in Fd, NEW result \in SendResult, ForwardToDestination(f, result)
  PROVE  IInv'
  <1> DEFINE i == fdIndex[f]
             from == Head(rxq[f])
  <1>1. Receive(f) /\ i \in SetUp /\ from \in Address
    BY ReceiveFacts, OwnerFacts DEF ForwardToDestination
  <1>2. sessions \in Seq(Session) /\ i + 1 \in 1 .. Len(sessions) /\ i \in Target
    BY <1>1, SetUpFacts DEF IInv, TypeOK
  <1>3. sessions' = [sessions EXCEPT ![i + 1].sourceAddress = from]
    BY DEF ForwardToDestination, NoteSource
  <1>4. sessions' \in Seq(Session) /\ Len(sessions') = Len(sessions)
    <2> DEFINE new == [sessions[i + 1] EXCEPT !.sourceAddress = from]
    <2>1. sessions[i + 1] \in Session
      BY <1>2
    <2>2. new \in Session
      BY <1>1, <2>1 DEF Session
    <2>3. sessions' = [sessions EXCEPT ![i + 1] = new]
      BY <1>3
    <2> HIDE DEF new, i, from
    <2> QED BY <1>2, <2>2, <2>3, ExceptSeq
  <1>5. \A j \in SetUp : /\ At(j)'.inboundSocket = At(j).inboundSocket
                         /\ At(j)'.outboundSocket = At(j).outboundSocket
    BY <1>1, <1>2, <1>3, SetUpFacts DEF At, Session, IInv
  <1>6. bound[At(i).outboundSocket] \in Local
    BY <1>1, <1>2, ConfigAssumption DEF IInv, SocketsAgree
  <1>7. sent' \in Relayed \cup {NoPacket}
    BY <1>1, <1>2, <1>6 DEF ForwardToDestination, ToServer, Relayed
  <1> QED
    BY <1>1, <1>4, <1>5, <1>7, HandlerStep DEF ForwardToDestination

LEMMA ForwardToSourceStep ==
  ASSUME IInv, NEW f \in Fd, NEW result \in SendResult, ForwardToSource(f, result)
  PROVE  IInv'
  <1> DEFINE i == fdIndex[f]
  <1>1. Receive(f) /\ i \in SetUp /\ bound[f] \in Local
    BY ReceiveFacts, OwnerFacts DEF ForwardToSource, IInv, TypeOK
  <1>2. At(i).sourceAddress \in Address /\ i \in Target
    BY <1>1, SetUpFacts DEF ForwardToSource, MayReachSource, Session, IInv
  <1>3. sent' \in Relayed \cup {NoPacket}
    BY <1>1, <1>2 DEF ForwardToSource, ToClient, Relayed
  <1>4. sessions' = sessions
    BY DEF ForwardToSource, context
  <1>5. sessions' \in Seq(Session) /\ \A j \in SetUp : At(j)' = At(j)
    BY <1>4 DEF At, IInv, TypeOK
  <1> QED
    BY <1>1, <1>3, <1>4, <1>5, HandlerStep DEF ForwardToSource, context

-----------------------------------------------------------------------------
(* The other steps. *)

\* What one iteration of SetupSockets leaves.
LEMMA SetupTargetFacts ==
  ASSUME IInv, NEW f \in Fd, NEW g \in Fd, SetupTarget(f, g),
         NEW i, i = Len(sessions)
  PROVE  /\ sessions' \in Seq(Session) /\ Len(sessions') = i + 1
         /\ sessions'[i + 1] = [sourceAddress |-> Invalid,
                                inboundSocket |-> f, outboundSocket |-> g]
         /\ SetUp' = SetUp \cup {i} /\ i \notin SetUp
         /\ \A j \in SetUp : sessions'[j + 1] = sessions[j + 1]
  <1> DEFINE new == [sourceAddress |-> Invalid, inboundSocket |-> f, outboundSocket |-> g]
  <1>1. sessions' = Append(sessions, new)
    BY DEF SetupTarget
  <1>2. sessions \in Seq(Session) /\ new \in Session /\ i \in Nat
    BY DEF IInv, TypeOK, Session
  <1> HIDE DEF new
  <1>3. /\ sessions' \in Seq(Session) /\ Len(sessions') = i + 1 /\ sessions'[i + 1] = new
        /\ \A k \in 1 .. i : sessions'[k] = sessions[k]
    BY <1>1, <1>2
  <1>4. SetUp = 0 .. i - 1 /\ SetUp' = 0 .. i
    BY <1>2, <1>3 DEF SetUp
  <1>5. SetUp' = SetUp \cup {i} /\ i \notin SetUp
    BY <1>2, <1>4
  <1>6. \A j \in SetUp : sessions'[j + 1] = sessions[j + 1]
    BY <1>2, <1>3, <1>4
  <1> QED BY <1>3, <1>5, <1>6 DEF new

LEMMA SetupTargetStep ==
  ASSUME IInv, NEW f \in Fd, NEW g \in Fd, SetupTarget(f, g)
  PROVE  IInv'
  <1> SUFFICES ASSUME NEW i, i = Len(sessions) PROVE IInv'
    OBVIOUS
  <1>1. /\ i \in Target /\ f # g /\ bound[f] = Closed /\ bound[g] = Closed
        /\ inbound[i] \in Local \ InUse /\ outbound[i] \in Local \ InUse
        /\ inbound[i] # outbound[i]
        /\ bound' = [bound EXCEPT ![f] = inbound[i], ![g] = outbound[i]]
        /\ fdIndex' = [fdIndex EXCEPT ![f] = i, ![g] = i]
        /\ sent' = NoPacket
        /\ UNCHANGED <<phase, events, rxq>>
    <2>1. i \in Target
      BY DEF SetupTarget
    <2>2. inbound[i] \in Local /\ outbound[i] \in Local
      BY <2>1, ConfigAssumption
    <2> QED BY <2>1, <2>2 DEF SetupTarget, EnterSockets
  <1>2. /\ sessions' \in Seq(Session) /\ Len(sessions') = i + 1
        /\ SetUp' = SetUp \cup {i} /\ i \notin SetUp
    BY SetupTargetFacts
  <1>3. /\ sessions'[i + 1].inboundSocket = f /\ sessions'[i + 1].outboundSocket = g
        /\ \A j \in SetUp : sessions'[j + 1] = sessions[j + 1]
    <2>1. sessions'[i + 1] = [sourceAddress |-> Invalid,
                              inboundSocket |-> f, outboundSocket |-> g]
      BY SetupTargetFacts
    <2>2. \A j \in SetUp : sessions'[j + 1] = sessions[j + 1]
      BY SetupTargetFacts
    <2> QED BY <2>1, <2>2
  <1>4. /\ fdIndex \in [Fd -> Target \cup {NoTarget}]
        /\ bound \in [Fd -> Local \cup {Closed}]
        /\ inbound[i] # Closed /\ outbound[i] # Closed /\ i # NoTarget
    BY <1>1, SentinelAssumption DEF IInv, TypeOK
  <1>5. TypeOK'
    <2>1. i + 1 <= targetCount
      BY <1>1, CountAssumption DEF Target
    <2>2. bound' \in [Fd -> Local \cup {Closed}] /\ fdIndex' \in [Fd -> Target \cup {NoTarget}]
      BY <1>1, <1>4
    <2> QED BY <1>1, <1>2, <2>1, <2>2 DEF IInv, TypeOK
  <1>6. /\ fdIndex'[f] = i /\ fdIndex'[g] = i
        /\ bound'[f] = inbound[i] /\ bound'[g] = outbound[i]
        /\ \A h \in Fd \ {f, g} : fdIndex'[h] = fdIndex[h] /\ bound'[h] = bound[h]
    BY <1>1, <1>4
  <1>7. \A j \in SetUp : /\ sessions[j + 1].inboundSocket \in Fd \ {f, g}
                         /\ sessions[j + 1].outboundSocket \in Fd \ {f, g}
    <2>1. \A j \in SetUp : sessions[j + 1] \in Session /\ j \in Target
      BY SetUpFacts DEF IInv, At
    <2>2. \A j \in SetUp : /\ fdIndex[sessions[j + 1].inboundSocket] = j
                           /\ fdIndex[sessions[j + 1].outboundSocket] = j
      BY DEF IInv, SocketsAgree, At
    <2>3. fdIndex[f] = NoTarget /\ fdIndex[g] = NoTarget /\ NoTarget \notin Target
      BY <1>1, SentinelAssumption DEF IInv, SocketsAgree
    <2> QED BY <2>1, <2>2, <2>3 DEF Session
  <1>8. \A j \in SetUp \cup {i} :
          LET s == sessions'[j + 1]
          IN  /\ fdIndex'[s.inboundSocket] = j /\ bound'[s.inboundSocket] = inbound[j]
              /\ fdIndex'[s.outboundSocket] = j /\ bound'[s.outboundSocket] = outbound[j]
              /\ s.inboundSocket # s.outboundSocket
    <2>1. \A j \in SetUp :
            LET s == sessions[j + 1]
            IN  /\ fdIndex[s.inboundSocket] = j /\ bound[s.inboundSocket] = inbound[j]
                /\ fdIndex[s.outboundSocket] = j /\ bound[s.outboundSocket] = outbound[j]
                /\ s.inboundSocket # s.outboundSocket
      BY DEF IInv, SocketsAgree, At
    <2>2. \A j \in SetUp :
            LET s == sessions'[j + 1]
            IN  /\ fdIndex'[s.inboundSocket] = j /\ bound'[s.inboundSocket] = inbound[j]
                /\ fdIndex'[s.outboundSocket] = j /\ bound'[s.outboundSocket] = outbound[j]
                /\ s.inboundSocket # s.outboundSocket
      BY <1>3, <1>6, <1>7, <2>1
    <2> QED BY <1>1, <1>3, <1>6, <2>2
  <1>9. \A h \in Fd : fdIndex'[h] # NoTarget =>
          /\ fdIndex'[h] \in SetUp \cup {i}
          /\ h \in {sessions'[fdIndex'[h] + 1].inboundSocket,
                    sessions'[fdIndex'[h] + 1].outboundSocket}
    <2>1. \A h \in Fd : fdIndex[h] # NoTarget =>
            /\ fdIndex[h] \in SetUp
            /\ h \in {sessions[fdIndex[h] + 1].inboundSocket,
                      sessions[fdIndex[h] + 1].outboundSocket}
      BY DEF IInv, SocketsAgree, At
    <2> QED BY <1>3, <1>6, <2>1
  <1>10. \A h \in Fd : bound'[h] = Closed <=> fdIndex'[h] = NoTarget
    BY <1>4, <1>6 DEF IInv, SocketsAgree
  <1>11. \A h, k \in Fd : bound'[h] = bound'[k] /\ bound'[h] # Closed => h = k
    BY <1>1, <1>4, <1>6 DEF IInv, SocketsAgree, InUse
  <1>12. /\ \A h \in Fd : bound'[h] = Closed => rxq'[h] = <<>>
         /\ \A h \in events' : rxq'[h] # <<>>
    BY <1>1, <1>4, <1>6 DEF IInv, SocketsAgree
  <1>13. SocketsAgree'
    BY <1>2, <1>8, <1>9, <1>10, <1>11, <1>12 DEF SocketsAgree, At
  <1> QED BY <1>5, <1>13 DEF IInv

LEMMA FailsStep == IInv /\ Fails => IInv'
  <1> SUFFICES ASSUME IInv, Fails PROVE IInv'
    OBVIOUS
  <1>1. TypeOK'
    BY CountAssumption DEF Fails, TypeOK
  <1>2. SetUp' = {}
    BY DEF Fails, SetUp
  <1>3. SocketsAgree'
    BY <1>2 DEF Fails, SocketsAgree
  <1> QED BY <1>1, <1>3 DEF IInv

LEMMA EpollWaitReturnsStep == IInv /\ EpollWaitReturns => IInv'
  <1> SUFFICES ASSUME IInv, EpollWaitReturns PROVE IInv'
    OBVIOUS
  <1>1. UNCHANGED <<phase, sessions, fdIndex, bound, rxq>> /\ sent' = NoPacket
    BY DEF EpollWaitReturns, context, kernel
  <1>2. events' \subseteq Ready
    BY DEF EpollWaitReturns
  <1>3. TypeOK'
    BY <1>1, <1>2 DEF IInv, TypeOK, Ready
  <1>4. SocketsAgree'
    BY <1>1, <1>2 DEF IInv, SocketsAgree, Ready, SetUp, At
  <1> QED BY <1>3, <1>4 DEF IInv

LEMMA ArriveStep ==
  ASSUME IInv, NEW f \in Fd, NEW from \in Address, Arrive(f, from)
  PROVE  IInv'
  <1>1. /\ UNCHANGED <<phase, sessions, fdIndex, events, bound>> /\ sent' = NoPacket
        /\ bound[f] # Closed /\ rxq' = [rxq EXCEPT ![f] = Append(@, from)]
    BY DEF Arrive, context
  <1>2. rxq \in [Fd -> Seq(Address)]
    BY DEF IInv, TypeOK
  <1>3. Append(rxq[f], from) \in Seq(Address) /\ Append(rxq[f], from) # <<>>
    BY <1>2
  <1>4. TypeOK'
    BY <1>1, <1>2, <1>3 DEF IInv, TypeOK
  <1>5. /\ \A h \in Fd : bound[h] = Closed => rxq'[h] = <<>>
        /\ \A h \in events : rxq'[h] # <<>>
    BY <1>1, <1>2, <1>3 DEF IInv, SocketsAgree, TypeOK
  <1>6. SocketsAgree'
    BY <1>1, <1>5 DEF IInv, SocketsAgree, SetUp, At
  <1> QED BY <1>4, <1>6 DEF IInv

LEMMA InvInit == Init => IInv
  <1> SUFFICES ASSUME Init PROVE IInv
    OBVIOUS
  <1>1. TypeOK
    BY CountAssumption DEF Init, TypeOK
  <1>2. SetUp = {}
    BY DEF Init, SetUp
  <1>3. SocketsAgree
    BY <1>2 DEF Init, SocketsAgree
  <1> QED BY <1>1, <1>3 DEF IInv

LEMMA InvNext == IInv /\ [Next]_vars => IInv'
  <1> SUFFICES ASSUME IInv, [Next]_vars PROVE IInv'
    OBVIOUS
  <1>1. CASE \E f, g \in Fd : SetupTarget(f, g)
    BY <1>1, SetupTargetStep
  <1>2. CASE SetupDone
    BY <1>2 DEF SetupDone, context, kernel, IInv, TypeOK, SocketsAgree, SetUp, At
  <1>3. CASE EpollWaitReturns
    BY <1>3, EpollWaitReturnsStep
  <1>4. CASE \E f \in Fd : Discard(f)
    BY <1>4, DiscardStep
  <1>5. CASE \E f \in Fd, result \in SendResult : ForwardToDestination(f, result)
    BY <1>5, ForwardToDestinationStep
  <1>6. CASE \E f \in Fd, result \in SendResult : ForwardToSource(f, result)
    BY <1>6, ForwardToSourceStep
  <1>7. CASE Fails
    BY <1>7, FailsStep
  <1>8. CASE \E f \in Fd, from \in Address : Arrive(f, from)
    BY <1>8, ArriveStep
  <1>9. CASE UNCHANGED vars
    BY <1>9 DEF vars, IInv, TypeOK, SocketsAgree, SetUp, At
  <1> QED
    BY <1>1, <1>2, <1>3, <1>4, <1>5, <1>6, <1>7, <1>8, <1>9
       DEF Next, Worker, HandleEvent, ReceiveUnusable, DropFromPeer, Terminated

\* IInv holds in every state.
THEOREM Invariance == Spec => []IInv
  BY InvInit, InvNext, PTL DEF Spec

\* TypeOK: in particular the index that the map yields is one of context.sessions.
THEOREM TypeCorrect == Spec => []TypeOK
  BY Invariance, PTL DEF IInv

\* SocketsAgree: a descriptor of a batch is always one of the two sockets of the
\* session that fileDescriptorToSessionIndex names (UdpForwardWorker.cc:124-134).
THEOREM SocketsAreMapped == Spec => []SocketsAgree
  BY Invariance, PTL DEF IInv

-----------------------------------------------------------------------------
(* What reaches a source. *)

LEMMA SourceHears ==
  ASSUME IInv, NEW f \in Fd, NEW result \in SendResult, ForwardToSource(f, result),
         sent' # NoPacket
  PROVE  LET g == At(sent'.client).outboundSocket
         IN  /\ g \in events
             /\ Head(rxq[g]) = destination[sent'.client]
             /\ rxq'[g] = Tail(rxq[g])
  <1>1. sent' = ToClient(fdIndex[f], At(fdIndex[f]).sourceAddress, bound[f])
    BY DEF ForwardToSource
  <1>2. sent'.client = fdIndex[f]
    BY <1>1 DEF ToClient
  <1>3. /\ f = At(fdIndex[f]).outboundSocket /\ f \in events /\ Receive(f)
        /\ Head(rxq[f]) = destination[fdIndex[f]]
    BY DEF ForwardToSource, MayReachSource, Receive
  <1> QED BY <1>2, <1>3, ReceiveFacts

\* Only the two forwarding handlers put something on the network.
LEMMA WhoSends ==
  ASSUME IInv, Next, sent' # NoPacket
  PROVE  \/ \E f \in Fd, result \in SendResult : ForwardToDestination(f, result)
         \/ \E f \in Fd, result \in SendResult : ForwardToSource(f, result)
         \/ UNCHANGED vars
  BY DEF Next, Worker, HandleEvent, ReceiveUnusable, DropFromPeer, Discard,
         SetupTarget, SetupDone, EpollWaitReturns, Fails, Terminated, Arrive

LEMMA SourceStep ==
  ASSUME IInv, Next, sent' # NoPacket, sent'.kind = "down"
  PROVE  \/ LET g == At(sent'.client).outboundSocket
            IN  /\ g \in events
                /\ Head(rxq[g]) = destination[sent'.client]
                /\ rxq'[g] = Tail(rxq[g])
         \/ UNCHANGED vars
  <1>1. CASE \E f \in Fd, result \in SendResult : ForwardToDestination(f, result)
    <2> PICK f \in Fd, result \in SendResult : ForwardToDestination(f, result)
      BY <1>1
    <2>1. sent'.kind = "up"
      BY DEF ForwardToDestination, ToServer
    <2> QED BY <2>1
  <1>2. CASE \E f \in Fd, result \in SendResult : ForwardToSource(f, result)
    BY <1>2, SourceHears
  <1> QED BY <1>1, <1>2, WhoSends

\* OnlyDestinationsReachSources: what is sent to a source was taken, in that step,
\* from the outbound socket of that session, and its sender is the destination of
\* that session (UdpForwardWorker.cc:231-271).
THEOREM SourcesHearOnlyTheirDestination == Spec => OnlyDestinationsReachSources
  <1>1. IInv /\ [Next]_vars =>
          [(sent' # NoPacket /\ sent'.kind = "down") =>
             LET f == At(sent'.client).outboundSocket
             IN  /\ f \in events
                 /\ Head(rxq[f]) = destination[sent'.client]
                 /\ rxq'[f] = Tail(rxq[f])]_vars
    BY SourceStep
  <1> QED BY <1>1, Invariance, PTL DEF Spec, OnlyDestinationsReachSources

-----------------------------------------------------------------------------
(* UdpForward implements PortRelay. *)

\* The targets whose source is known: the abstract table has their entries.
Heard == {i \in SetUp : At(i).sourceAddress # Invalid}
EntryOf(i) == [address |-> At(i).sourceAddress, port |-> outbound[i]]

\* No two targets that are set up have the same outbound address.
LEMMA OutboundDistinct ==
  ASSUME IInv, NEW i \in SetUp, NEW j \in SetUp, outbound[i] = outbound[j]
  PROVE  i = j
  <1>1. /\ At(i).outboundSocket \in Fd /\ At(j).outboundSocket \in Fd
        /\ i \in Target /\ j \in Target
    BY SetUpFacts DEF IInv, Session
  <1>2. outbound[i] # Closed
    BY <1>1, ConfigAssumption, SentinelAssumption
  <1>3. /\ bound[At(i).outboundSocket] = outbound[i] /\ fdIndex[At(i).outboundSocket] = i
        /\ bound[At(j).outboundSocket] = outbound[j] /\ fdIndex[At(j).outboundSocket] = j
    BY DEF IInv, SocketsAgree
  <1>4. At(i).outboundSocket = At(j).outboundSocket
    BY <1>1, <1>2, <1>3 DEF IInv, SocketsAgree
  <1> QED BY <1>3, <1>4

LEMMA TableFacts ==
  ASSUME IInv
  PROVE  /\ Heard \subseteq Target
         /\ \A i \in Heard : /\ tableOfPorts[i] = EntryOf(i)
                             /\ tableOfPorts[i].address = At(i).sourceAddress
                             /\ tableOfPorts[i].port = outbound[i]
         /\ \A i \in Target \ Heard : tableOfPorts[i] = NoEntry
         /\ PR!Present = Heard
         /\ \A i \in SetUp \ Heard : outbound[i] \notin PR!PortsInUse
  <1>1. Heard \subseteq SetUp /\ SetUp \subseteq Target
    BY SetUpFacts DEF IInv, Heard
  <1>2. \A i \in Heard : tableOfPorts[i] = EntryOf(i)
    BY <1>1 DEF tableOfPorts, EntryOf, Heard
  <1>3. \A i \in Heard : /\ tableOfPorts[i].address = At(i).sourceAddress
                         /\ tableOfPorts[i].port = outbound[i]
                         /\ tableOfPorts[i] # NoEntry
    <2> SUFFICES ASSUME NEW i \in Heard
                 PROVE  /\ tableOfPorts[i].address = At(i).sourceAddress
                        /\ tableOfPorts[i].port = outbound[i]
                        /\ tableOfPorts[i] # Invalid
      BY DEF NoEntry
    <2>1. At(i).sourceAddress \in Address /\ outbound[i] \in Local
      BY <1>1, SetUpFacts, ConfigAssumption DEF IInv, Heard, Session
    <2>2. tableOfPorts[i] = [address |-> At(i).sourceAddress, port |-> outbound[i]]
      BY <1>2, Zenon DEF EntryOf
    <2>3. tableOfPorts[i] \in [address : Address, port : Local]
      BY <2>1, <2>2
    <2> QED BY <2>2, <2>3, SentinelAssumption
  <1>4. \A i \in Target \ Heard : tableOfPorts[i] = NoEntry
    BY DEF tableOfPorts, Heard
  <1>5. PR!Present = Heard
    BY <1>1, <1>3, <1>4 DEF PR!Present
  <1>6. \A i \in SetUp \ Heard : outbound[i] \notin PR!PortsInUse
    <2> SUFFICES ASSUME NEW i \in SetUp \ Heard, NEW j \in Heard, outbound[i] = outbound[j]
                 PROVE  FALSE
      BY <1>3, <1>5 DEF PR!PortsInUse
    <2> QED BY <1>1, OutboundDistinct
  <1> QED BY <1>1, <1>2, <1>3, <1>4, <1>5, <1>6

LEMMA RefineInit == Init => PR!Init
  BY DEF Init, PR!Init, tableOfPorts, SetUp, NoEntry

\* A step that relays nothing and keeps the sources.
LEMMA RefineKeep ==
  ASSUME sent' = NoPacket, Heard' = Heard, \A i \in Heard : At(i)' = At(i)
  PROVE  PR!Next
  <1>1. tableOfPorts' = [i \in Target |-> IF i \in {} THEN NoEntry ELSE tableOfPorts[i]]
    BY DEF tableOfPorts, Heard
  <1>2. PR!Forget({})
    BY <1>1 DEF PR!Forget
  <1> QED BY <1>2 DEF PR!Next

LEMMA RefineSetupTarget ==
  ASSUME IInv, NEW f \in Fd, NEW g \in Fd, SetupTarget(f, g)
  PROVE  PR!Next
  <1> SUFFICES ASSUME NEW i, i = Len(sessions) PROVE PR!Next
    OBVIOUS
  <1>1. SetUp' = SetUp \cup {i} /\ \A j \in SetUp : sessions'[j + 1] = sessions[j + 1]
    BY SetupTargetFacts
  <1>2. sessions'[i + 1].sourceAddress = Invalid
    <2>1. sessions'[i + 1] = [sourceAddress |-> Invalid,
                              inboundSocket |-> f, outboundSocket |-> g]
      BY SetupTargetFacts
    <2> QED BY <2>1
  <1>3. Heard' = Heard
    BY <1>1, <1>2 DEF Heard, At
  <1>4. \A j \in Heard : At(j)' = At(j)
    BY <1>1 DEF Heard, At
  <1>5. sent' = NoPacket
    BY DEF SetupTarget
  <1> QED BY <1>3, <1>4, <1>5, RefineKeep

LEMMA RefineHear ==
  ASSUME IInv, NEW f \in Fd, NEW result \in SendResult, ForwardToDestination(f, result)
  PROVE  PR!Next
  <1> SUFFICES ASSUME NEW i, i = fdIndex[f], NEW from, from = Head(rxq[f]) PROVE PR!Next
    OBVIOUS
  <1>1. i \in SetUp /\ i \in Target /\ from \in Address /\ i \in Int
    BY ReceiveFacts, OwnerFacts, SetUpFacts DEF ForwardToDestination, IInv
  <1>2. sessions \in Seq(Session) /\ i + 1 \in 1 .. Len(sessions) /\ SetUp' = SetUp
        /\ sessions' = [sessions EXCEPT ![i + 1].sourceAddress = from]
    BY <1>1, SetUpFacts DEF IInv, TypeOK, ForwardToDestination, NoteSource, SetUp
  <1>3. /\ At(i)'.sourceAddress = from
        /\ \A j \in SetUp : j # i => At(j)' = At(j)
    BY <1>1, <1>2, SetUpFacts DEF At, IInv, Session
  <1>4. from # Invalid
    BY <1>1, SentinelAssumption
  <1>5. tableOfPorts' = [tableOfPorts EXCEPT ![i] = [address |-> from, port |-> outbound[i]]]
    BY <1>1, <1>2, <1>3, <1>4 DEF tableOfPorts
  <1>6. IF i \in PR!Present THEN outbound[i] = tableOfPorts[i].port
                            ELSE outbound[i] \notin PR!PortsInUse
    <2>1. CASE i \in Heard
      BY <2>1, TableFacts, Zenon
    <2>2. CASE i \notin Heard
      BY <1>1, <2>2, TableFacts
    <2> QED BY <2>1, <2>2
  <1>7. bound[At(i).outboundSocket] = outbound[i]
    BY <1>1 DEF IInv, SocketsAgree
  <1>8. sent' \in {NoPacket, PR!ToServer(i, from, outbound[i])}
    BY <1>7 DEF ForwardToDestination, ToServer, PR!ToServer
  <1>9. PR!Hear(i, from, outbound[i])
    BY <1>5, <1>6, <1>8 DEF PR!Hear
  <1>10. outbound[i] \in Local
    BY <1>1, ConfigAssumption
  <1> QED BY <1>1, <1>9, <1>10 DEF PR!Next

LEMMA RefineAnswer ==
  ASSUME IInv, NEW f \in Fd, NEW result \in SendResult, ForwardToSource(f, result)
  PROVE  PR!Next
  <1> SUFFICES ASSUME NEW i, i = fdIndex[f] PROVE PR!Next
    OBVIOUS
  <1>1. i \in SetUp /\ i \in Target
    BY ReceiveFacts, OwnerFacts, SetUpFacts DEF ForwardToSource, IInv
  <1>2. i \in Heard /\ bound[f] = outbound[i]
    BY <1>1 DEF ForwardToSource, MayReachSource, Heard, IInv, SocketsAgree
  <1>3. Heard' = Heard /\ \A j \in Heard : At(j)' = At(j)
    BY DEF ForwardToSource, context, Heard, SetUp, At
  <1>4. UNCHANGED tableOfPorts
    BY DEF ForwardToSource, context, tableOfPorts, SetUp, At
  <1>5. CASE result = "ok"
    <2>1. sent' = PR!ToClient(i, tableOfPorts[i].address, tableOfPorts[i].port)
      <3>1. tableOfPorts[i].address = At(i).sourceAddress /\ tableOfPorts[i].port = outbound[i]
        BY <1>2, TableFacts, Zenon
      <3>2. sent' = ToClient(i, At(i).sourceAddress, bound[f])
        BY <1>5 DEF ForwardToSource
      <3> QED BY <1>2, <3>1, <3>2 DEF ToClient, PR!ToClient
    <2>2. PR!Answer(i)
      BY <1>2, <1>4, <2>1, TableFacts DEF PR!Answer
    <2> QED BY <1>1, <2>2 DEF PR!Next
  <1>6. CASE result # "ok"
    <2>1. sent' = NoPacket
      BY <1>6 DEF ForwardToSource
    <2> QED BY <1>3, <2>1, RefineKeep
  <1> QED BY <1>5, <1>6

LEMMA RefineStep == IInv /\ [Next]_vars => [PR!Next]_(PR!vars)
  <1> SUFFICES ASSUME IInv, [Next]_vars PROVE [PR!Next]_(PR!vars)
    OBVIOUS
  <1>1. CASE UNCHANGED vars
    BY <1>1 DEF vars, PR!vars, tableOfPorts, SetUp, At
  <1>2. CASE \E f, g \in Fd : SetupTarget(f, g)
    BY <1>2, RefineSetupTarget
  <1>3. CASE \E f \in Fd, result \in SendResult : ForwardToDestination(f, result)
    BY <1>3, RefineHear
  <1>4. CASE \E f \in Fd, result \in SendResult : ForwardToSource(f, result)
    BY <1>4, RefineAnswer
  <1>5. CASE Fails
    <2>1. tableOfPorts' = [i \in Target |-> IF i \in Target THEN NoEntry ELSE tableOfPorts[i]]
      BY <1>5 DEF Fails, tableOfPorts, SetUp
    <2>2. PR!Forget(Target)
      BY <1>5, <2>1 DEF Fails, PR!Forget
    <2> QED BY <2>2 DEF PR!Next
  <1>6. CASE sent' = NoPacket /\ UNCHANGED sessions
    <2>1. Heard' = Heard /\ \A i \in Heard : At(i)' = At(i)
      BY <1>6 DEF Heard, SetUp, At
    <2> QED BY <1>6, <2>1, RefineKeep
  <1> QED
    BY <1>1, <1>2, <1>3, <1>4, <1>5, <1>6
       DEF Next, Worker, HandleEvent, ReceiveUnusable, DropFromPeer, Discard, Terminated,
           SetupDone, EpollWaitReturns, Arrive, context

\* The forwarder implements PortRelay: what the destination answers goes to the
\* source last heard on that target, and no two targets that are set up share an
\* outbound address (UdpForwardWorker.cc:157-211).
THEOREM ForwarderImplementsPortRelay == Spec => ImplementsPortRelay
  BY RefineInit, RefineStep, Invariance, PTL DEF Spec, ImplementsPortRelay, PR!Spec

=============================================================================
