-------------------------- MODULE WgcfRelayProofs --------------------------
(***************************************************************************)
(* Proofs about WgcfRelay, for every set of clients, addresses,            *)
(* descriptors and ports, every timeout and every clock.                   *)
(*                                                                         *)
(* Taking a datagram is typed only if the socket holds one, and a socket   *)
(* of the batch holds one only because sockets are closed between batches, *)
(* so the three invariants are inductive together, given that no batch is  *)
(* pending when the pass over the sessions runs.                           *)
(***************************************************************************)
EXTENDS WgcfRelay, TLAPS

IInv == TypeOK /\ SessionsAndSocketsAgree /\ EventsAreLive

\* Between the return of epoll_wait and the pass there are no events.
PassIsAlone == phase = "idle" => events = {}

-----------------------------------------------------------------------------
(* Operators. *)

\* A counter stays in its range: it wraps.
LEMMA IncType == \A n \in Counter : Inc(n) \in Counter
  BY CounterAssumption DEF Inc, Counter

\* Relaying a datagram to the server keeps the session's socket and port and
\* records the client's address.
LEMMA AfterTxFacts ==
  ASSUME NEW s \in Session, NEW from \in Address, NEW result, now \in Time
  PROVE  /\ AfterTx(s, from, result) \in Session
         /\ AfterTx(s, from, result).outboundSocket = s.outboundSocket
         /\ AfterTx(s, from, result).outboundPort = s.outboundPort
         /\ AfterTx(s, from, result).sourceAddress = from
  <1>1. Inc(s.totalTx) \in Counter /\ Inc(s.droppedTx) \in Counter
    BY IncType DEF Session
  <1> QED BY <1>1 DEF Session, AfterTx

\* Relaying a datagram to the client keeps socket, port and address.
LEMMA AfterRxFacts ==
  ASSUME NEW s \in Session, NEW result, now \in Time
  PROVE  /\ AfterRx(s, result) \in Session
         /\ AfterRx(s, result).outboundSocket = s.outboundSocket
         /\ AfterRx(s, result).outboundPort = s.outboundPort
         /\ AfterRx(s, result).sourceAddress = s.sourceAddress
  <1>1. Inc(s.totalRx) \in Counter /\ Inc(s.droppedRx) \in Counter
    BY IncType DEF Session
  <1> QED BY <1>1 DEF Session, AfterRx

\* So does the report of the pass over the table.
LEMMA ReportedFacts ==
  ASSUME NEW s \in Session
  PROVE  /\ Reported(s) \in Session
         /\ Reported(s).outboundSocket = s.outboundSocket
         /\ Reported(s).outboundPort = s.outboundPort
         /\ Reported(s).sourceAddress = s.sourceAddress
  <1>1. 0 \in Counter
    BY CounterAssumption DEF Counter
  <1>2. CASE s.droppedRx # 0 \/ s.droppedTx # 0
    <2>1. Reported(s) = [s EXCEPT !.droppedRx = 0, !.droppedTx = 0,
                                  !.totalRx = 0, !.totalTx = 0]
      BY <1>2 DEF Reported
    <2> QED BY <1>1, <2>1 DEF Session
  <1>3. CASE ~(s.droppedRx # 0 \/ s.droppedTx # 0)
    BY <1>3 DEF Reported
  <1> QED BY <1>2, <1>3

\* A new session is a session.
LEMMA NewSessionFacts ==
  ASSUME NEW f \in Fd, NEW p \in Port, NEW from \in Address, now \in Time
  PROVE  /\ NewSession(f, p, from) \in Session
         /\ NewSession(f, p, from).outboundSocket = f
         /\ NewSession(f, p, from).outboundPort = p
  BY CounterAssumption DEF Session, NewSession, Counter

-----------------------------------------------------------------------------
(* Steps. *)

\* A datagram taken from the batch is one of its socket, and the other queues
\* stay as they are.
LEMMA ReceiveFacts ==
  ASSUME IInv, NEW s \in Socket, Receive(s)
  PROVE  /\ rxq[s] # <<>>
         /\ QueuesOK'
         /\ events' \subseteq events /\ s \notin events'
         /\ \A q \in Socket \ {s} : rxq'[q] = rxq[q]
         /\ s = inboundSocket => Head(rxq[s]) \in ClientDatagram
         /\ s \in Fd => Head(rxq[s]) \in ServerDatagram
  <1>1. rxq[s] # <<>> /\ events' \subseteq events /\ s \notin events'
    BY DEF IInv, EventsAreLive, Receive
  <1>2. rxq' = [rxq EXCEPT ![s] = Tail(rxq[s])]
    BY DEF Receive
  <1>3. rxq \in [Socket -> Seq(ClientDatagram \cup ServerDatagram)]
    BY DEF IInv, TypeOK, QueuesOK
  <1>4. \A q \in Socket \ {s} : rxq'[q] = rxq[q]
    BY <1>2, <1>3
  <1>5. rxq'[s] = Tail(rxq[s])
    BY <1>2, <1>3
  <1>6. CASE s = inboundSocket
    <2>1. rxq[s] \in Seq(ClientDatagram)
      BY <1>6 DEF IInv, TypeOK, QueuesOK
    <2>2. Tail(rxq[s]) \in Seq(ClientDatagram) /\ Head(rxq[s]) \in ClientDatagram
      BY <1>1, <2>1
    <2>3. Tail(rxq[s]) \in Seq(ClientDatagram \cup ServerDatagram)
      BY <1>1, <1>3
    <2>4. \A f \in Fd : rxq'[f] = rxq[f]
      BY <1>4, <1>6, SocketAssumption DEF Socket
    <2>5. QueuesOK'
      BY <1>2, <1>3, <1>5, <1>6, <2>2, <2>3, <2>4 DEF IInv, TypeOK, QueuesOK
    <2> QED BY <1>1, <1>4, <1>6, <2>2, <2>5, SocketAssumption
  <1>7. CASE s \in Fd
    <2>1. rxq[s] \in Seq(ServerDatagram)
      BY <1>7 DEF IInv, TypeOK, QueuesOK
    <2>2. Tail(rxq[s]) \in Seq(ServerDatagram) /\ Head(rxq[s]) \in ServerDatagram
      BY <1>1, <2>1
    <2>3. Tail(rxq[s]) \in Seq(ClientDatagram \cup ServerDatagram)
      BY <1>1, <1>3
    <2>4. rxq'[inboundSocket] = rxq[inboundSocket]
      BY <1>4, <1>7, SocketAssumption DEF Socket
    <2>5. \A f \in Fd : rxq'[f] \in Seq(ServerDatagram)
      BY <1>4, <1>5, <2>2 DEF IInv, TypeOK, QueuesOK, Socket
    <2>6. QueuesOK'
      BY <1>2, <1>3, <2>3, <2>4, <2>5 DEF IInv, TypeOK, QueuesOK
    <2> QED BY <1>1, <1>4, <1>7, <2>2, <2>6, SocketAssumption
  <1> QED BY <1>6, <1>7 DEF Socket

\* Taking a datagram empties no closed socket's queue and leaves the rest of
\* the batch alive, as long as no socket is closed.
LEMMA ReceiveKeepsQueues ==
  ASSUME IInv, NEW s \in Socket, Receive(s),
         \A f \in Fd : port[f] # Closed => port'[f] # Closed
  PROVE  /\ \A f \in Fd : port'[f] = Closed => rxq'[f] = <<>>
         /\ EventsAreLive'
  <1>1. \A f \in Fd : port[f] = Closed => rxq[f] = <<>>
    BY DEF IInv, SessionsAndSocketsAgree
  <1>2. \A q \in events : rxq[q] # <<>> /\ (q \in Fd => port[q] # Closed)
    BY DEF IInv, EventsAreLive
  <1>3. s \in events /\ events \subseteq Socket
    BY DEF IInv, TypeOK, Receive
  <1>4. \A q \in Socket \ {s} : rxq'[q] = rxq[q]
    BY ReceiveFacts
  <1>5. events' \subseteq events /\ s \notin events'
    BY ReceiveFacts
  <1>6. \A f \in Fd : port'[f] = Closed => rxq'[f] = <<>>
    BY <1>1, <1>2, <1>3, <1>4 DEF Socket
  <1>7. EventsAreLive'
    BY <1>2, <1>3, <1>4, <1>5 DEF EventsAreLive, Socket
  <1> QED BY <1>6, <1>7

LEMMA DiscardStep ==
  ASSUME IInv, NEW s \in Socket, Discard(s)
  PROVE  IInv'
  <1> USE DEF Discard
  <1>1. UNCHANGED <<phase, sessions, fdMap, port, now>> /\ sent' = NoPacket
    BY DEF table
  <1>2. Receive(s)
    OBVIOUS
  <1>3. QueuesOK' /\ events' \subseteq events
    BY <1>2, ReceiveFacts
  <1>4. TypeOK'
    BY <1>1, <1>3 DEF IInv, TypeOK
  <1>5. EventsAreLive' /\ \A f \in Fd : port'[f] = Closed => rxq'[f] = <<>>
    BY <1>1, <1>2, ReceiveKeepsQueues
  <1>6. SessionsAndSocketsAgree'
    BY <1>1, <1>5 DEF IInv, SessionsAndSocketsAgree, Live
  <1> QED BY <1>4, <1>5, <1>6 DEF IInv

\* A step that changes one live session and keeps its socket and port keeps the
\* agreement: used for both directions of relaying.
LEMMA SessionUpdateStep ==
  ASSUME IInv, NEW s \in Socket, Receive(s), NEW c \in Live, NEW new \in Session,
         new.outboundSocket = sessions[c].outboundSocket,
         new.outboundPort = sessions[c].outboundPort,
         sessions' = [sessions EXCEPT ![c] = new],
         UNCHANGED <<phase, fdMap, port, now>>,
         sent' \in Relayed \cup {NoPacket}
  PROVE  IInv'
  <1>1. QueuesOK' /\ events' \subseteq events
    BY ReceiveFacts
  <1>2. sessions \in [ClientId -> Session \cup {NoSession}] /\ c \in ClientId
    BY DEF IInv, TypeOK, Live
  <1>3. TypeOK'
    BY <1>1, <1>2 DEF IInv, TypeOK
  <1>4. EventsAreLive' /\ \A f \in Fd : port'[f] = Closed => rxq'[f] = <<>>
    BY ReceiveKeepsQueues
  <1>5. Live' = Live
    BY <1>2, SentinelAssumption DEF Live
  <1>6. \A d \in Live : /\ sessions'[d].outboundSocket = sessions[d].outboundSocket
                         /\ sessions'[d].outboundPort = sessions[d].outboundPort
    BY <1>2 DEF Live
  <1>7. SessionsAndSocketsAgree'
    BY <1>4, <1>5, <1>6 DEF IInv, SessionsAndSocketsAgree
  <1> QED BY <1>3, <1>4, <1>7 DEF IInv

LEMMA ReceiveFromKnownClientStep ==
  ASSUME IInv, NEW result \in SendResult, ReceiveFromKnownClient(result)
  PROVE  IInv'
  <1> DEFINE d == Head(rxq[inboundSocket])
             new == AfterTx(sessions[d.id], d.from, result)
  <1>1. inboundSocket \in Socket /\ Receive(inboundSocket)
    BY DEF ReceiveFromKnownClient, Socket
  <1>2. d \in ClientDatagram /\ d.id \in Live
    BY <1>1, ReceiveFacts DEF ReceiveFromKnownClient
  <1>3. sessions[d.id] \in Session /\ d.from \in Address /\ now \in Time /\ d.id \in ClientId
    BY <1>2 DEF IInv, TypeOK, Live, ClientDatagram
  <1>4. /\ new \in Session
        /\ new.outboundSocket = sessions[d.id].outboundSocket
        /\ new.outboundPort = sessions[d.id].outboundPort
    BY <1>3, AfterTxFacts
  <1>5. port[sessions[d.id].outboundSocket] \in Port
    BY <1>2, <1>3 DEF IInv, SessionsAndSocketsAgree, Session
  <1>6. sent' \in Relayed \cup {NoPacket}
    BY <1>3, <1>5 DEF ReceiveFromKnownClient, Relayed, ToServer
  <1>7. sessions' = [sessions EXCEPT ![d.id] = new] /\ UNCHANGED <<phase, fdMap, port, now>>
    BY DEF ReceiveFromKnownClient
  <1> HIDE DEF d, new
  <1> QED BY <1>1, <1>2, <1>4, <1>6, <1>7, SessionUpdateStep

LEMMA ReceiveFromServerStep ==
  ASSUME IInv, NEW f \in Fd, NEW result \in SendResult, ReceiveFromServer(f, result)
  PROVE  IInv'
  <1> DEFINE c == fdMap[f]
             new == AfterRx(sessions[c], result)
  <1>1. f \in Socket /\ Receive(f)
    BY DEF ReceiveFromServer, Socket
  <1>2. c \in Live
    BY DEF ReceiveFromServer, FromServer
  <1>3. sessions[c] \in Session /\ now \in Time /\ c \in ClientId
    BY <1>2 DEF IInv, TypeOK, Live
  <1>4. /\ new \in Session
        /\ new.outboundSocket = sessions[c].outboundSocket
        /\ new.outboundPort = sessions[c].outboundPort
    BY <1>3, AfterRxFacts
  <1>5. port[f] \in Port
    <2>1. port[f] # Closed
      BY <1>1 DEF IInv, EventsAreLive, Receive
    <2> QED BY <2>1 DEF IInv, TypeOK
  <1>6. sent' \in Relayed \cup {NoPacket}
    BY <1>3, <1>5 DEF ReceiveFromServer, Relayed, ToClient, Session
  <1>7. sessions' = [sessions EXCEPT ![c] = new] /\ UNCHANGED <<phase, fdMap, port, now>>
    BY DEF ReceiveFromServer
  <1> HIDE DEF c, new
  <1> QED BY <1>1, <1>2, <1>4, <1>6, <1>7, SessionUpdateStep

LEMMA ReceiveFromNewClientStep ==
  ASSUME IInv, NEW f \in Fd, NEW p \in Port, NEW result \in SendResult,
         ReceiveFromNewClient(f, p, result)
  PROVE  IInv'
  <1> DEFINE d == Head(rxq[inboundSocket])
             new == AfterTx(NewSession(f, p, d.from), d.from, result)
  <1>1. inboundSocket \in Socket /\ Receive(inboundSocket)
    BY DEF ReceiveFromNewClient, Socket
  <1>2. d \in ClientDatagram /\ d.id \in ClientId /\ d.id \notin Live
    BY <1>1, ReceiveFacts DEF ReceiveFromNewClient
  <1>3. d.from \in Address /\ now \in Time
    BY <1>2 DEF IInv, TypeOK, ClientDatagram
  <1>4. new \in Session /\ new.outboundSocket = f /\ new.outboundPort = p
    BY <1>3, NewSessionFacts, AfterTxFacts
  <1>5. /\ port[f] = Closed /\ p \notin PortsInUse
        /\ port' = [port EXCEPT ![f] = p]
    BY DEF ReceiveFromNewClient, NewOutboundUdpSocket
  <1>6. /\ sessions \in [ClientId -> Session \cup {NoSession}]
        /\ fdMap \in [Fd -> ClientId \cup {NoId}]
        /\ port \in [Fd -> Port \cup {Closed}]
    BY DEF IInv, TypeOK
  <1>7. fdMap[f] = NoId
    BY <1>5 DEF IInv, SessionsAndSocketsAgree
  <1>8. /\ sessions' = [sessions EXCEPT ![d.id] = new]
        /\ fdMap' = [fdMap EXCEPT ![f] = d.id]
        /\ UNCHANGED <<phase, now>>
    BY <1>7 DEF ReceiveFromNewClient
  <1>9. sent' \in Relayed \cup {NoPacket}
    BY <1>2, <1>3 DEF ReceiveFromNewClient, Relayed, ToServer
  <1> HIDE DEF d, new
  <1>10. TypeOK'
    <2>1. QueuesOK' /\ events' \subseteq events
      BY <1>1, ReceiveFacts
    <2> QED BY <1>2, <1>4, <1>5, <1>6, <1>8, <1>9, <2>1 DEF IInv, TypeOK
  <1>11. EventsAreLive' /\ \A g \in Fd : port'[g] = Closed => rxq'[g] = <<>>
    <2>1. \A g \in Fd : port[g] # Closed => port'[g] # Closed
      BY <1>5, <1>6
    <2> QED BY <1>1, <2>1, ReceiveKeepsQueues
  <1>12. Live' = Live \cup {d.id}
    BY <1>2, <1>4, <1>6, <1>8, SentinelAssumption DEF Live
  <1>13. \A c \in Live : /\ c # d.id /\ sessions'[c] = sessions[c]
                          /\ sessions[c].outboundSocket \in Fd \ {f}
    BY <1>2, <1>6, <1>7, <1>8, SocketAssumption
       DEF Live, IInv, SessionsAndSocketsAgree, Session
  <1>14. sessions'[d.id] = new
    BY <1>2, <1>6, <1>8
  <1>15. /\ port'[f] = p /\ \A g \in Fd \ {f} : port'[g] = port[g]
         /\ fdMap'[f] = d.id /\ \A g \in Fd \ {f} : fdMap'[g] = fdMap[g]
    BY <1>5, <1>6, <1>8
  <1>16. SessionsAndSocketsAgree'
    <2>1. \A c \in Live' : fdMap'[sessions'[c].outboundSocket] = c
      BY <1>4, <1>12, <1>13, <1>14, <1>15 DEF IInv, SessionsAndSocketsAgree
    <2>2. \A g \in Fd : fdMap'[g] # NoId => /\ fdMap'[g] \in Live'
                                            /\ sessions'[fdMap'[g]].outboundSocket = g
      BY <1>4, <1>12, <1>13, <1>14, <1>15 DEF IInv, SessionsAndSocketsAgree
    <2>3. \A g \in Fd : port'[g] = Closed <=> fdMap'[g] = NoId
      BY <1>2, <1>15, SocketAssumption DEF IInv, SessionsAndSocketsAgree
    <2>4. \A c \in Live' : port'[sessions'[c].outboundSocket] = sessions'[c].outboundPort
      BY <1>4, <1>12, <1>13, <1>14, <1>15 DEF IInv, SessionsAndSocketsAgree
    <2>5. \A g, h \in Fd : port'[g] = port'[h] /\ port'[g] # Closed => g = h
      <3>1. \A g \in Fd : port[g] # p
        BY <1>5, SocketAssumption DEF PortsInUse
      <3> QED BY <1>15, <3>1 DEF IInv, SessionsAndSocketsAgree
    <2> QED BY <1>11, <2>1, <2>2, <2>3, <2>4, <2>5 DEF SessionsAndSocketsAgree
  <1> QED BY <1>10, <1>11, <1>16 DEF IInv

LEMMA EpollWaitReturnsStep ==
  ASSUME IInv, EpollWaitReturns
  PROVE  IInv'
  <1>1. PICK batch \in SUBSET Ready : events' = batch
    BY DEF EpollWaitReturns
  <1>2. UNCHANGED <<phase, sessions, fdMap, port, rxq, now>> /\ sent' = NoPacket
    BY DEF EpollWaitReturns, table, kernel
  <1>3. TypeOK'
    BY <1>1, <1>2 DEF IInv, TypeOK, QueuesOK, Ready
  <1>4. SessionsAndSocketsAgree'
    BY <1>2 DEF IInv, SessionsAndSocketsAgree, Live
  <1>5. EventsAreLive'
    BY <1>1, <1>2 DEF IInv, SessionsAndSocketsAgree, EventsAreLive, Ready
  <1> QED BY <1>3, <1>4, <1>5 DEF IInv

LEMMA SweepSessionsStep ==
  ASSUME IInv, PassIsAlone, SweepSessions
  PROVE  IInv'
  <1>1. /\ sessions \in [ClientId -> Session \cup {NoSession}]
        /\ fdMap \in [Fd -> ClientId \cup {NoId}]
        /\ port \in [Fd -> Port \cup {Closed}]
        /\ QueuesOK
    BY DEF IInv, TypeOK
  <1>2. /\ events = {} /\ UNCHANGED <<events, now>> /\ sent' = NoPacket
        /\ phase' = "running" /\ Sweep
    BY DEF SweepSessions, PassIsAlone
  <1>3. \A c \in Live : sessions[c] \in Session /\ c \in ClientId
    BY <1>1 DEF Live
  <1>4. /\ \A c \in Live \ ExpiredIds : sessions'[c] = Reported(sessions[c])
        /\ \A c \in ClientId \ (Live \ ExpiredIds) : sessions'[c] = NoSession
        /\ Live \subseteq ClientId
    BY <1>2 DEF Sweep, Live
  <1>5. Live' = Live \ ExpiredIds
    BY <1>3, <1>4, ReportedFacts, SentinelAssumption DEF Live
  <1>6. \A f \in Fd : f \in ReleasedSockets <=> fdMap[f] \in ExpiredIds
    BY SocketAssumption DEF ReleasedSockets, ExpiredIds, Live, IInv, SessionsAndSocketsAgree
  <1>7. \A f \in Fd : IF f \in ReleasedSockets
                     THEN fdMap'[f] = NoId /\ port'[f] = Closed /\ rxq'[f] = <<>>
                     ELSE fdMap'[f] = fdMap[f] /\ port'[f] = port[f] /\ rxq'[f] = rxq[f]
    BY <1>2 DEF Sweep, Socket
  <1>8. TypeOK'
    <2>1. sessions' \in [ClientId -> Session \cup {NoSession}]
      <3>1. \A c \in ClientId : sessions'[c] \in Session \cup {NoSession}
        BY <1>3, <1>4, ReportedFacts
      <3> QED BY <1>2, <3>1 DEF Sweep
    <2>2. fdMap' \in [Fd -> ClientId \cup {NoId}] /\ port' \in [Fd -> Port \cup {Closed}]
      BY <1>1, <1>2 DEF Sweep
    <2>3. QueuesOK'
      <3>1. ReleasedSockets \subseteq Fd
        BY <1>3 DEF ReleasedSockets, ExpiredIds, Session
      <3>2. rxq'[inboundSocket] = rxq[inboundSocket]
        BY <1>2, <3>1, SocketAssumption DEF Sweep, Socket
      <3>3. rxq' \in [Socket -> Seq(ClientDatagram \cup ServerDatagram)]
        <4>1. <<>> \in Seq(ClientDatagram \cup ServerDatagram)
          OBVIOUS
        <4> QED BY <1>1, <1>2, <4>1 DEF Sweep, QueuesOK
      <3>4. \A f \in Fd : rxq'[f] \in Seq(ServerDatagram)
        <4>1. <<>> \in Seq(ServerDatagram)
          OBVIOUS
        <4> QED BY <1>1, <1>7, <4>1 DEF QueuesOK
      <3> QED BY <1>1, <3>2, <3>3, <3>4 DEF QueuesOK
    <2> QED BY <1>2, <2>1, <2>2, <2>3 DEF IInv, TypeOK
  <1>9. EventsAreLive'
    BY <1>2 DEF EventsAreLive
  <1>10. \A c \in Live' : /\ sessions[c].outboundSocket \in Fd \ ReleasedSockets
                          /\ sessions'[c].outboundSocket = sessions[c].outboundSocket
                          /\ sessions'[c].outboundPort = sessions[c].outboundPort
    <2>1. \A c \in Live : sessions[c].outboundSocket \in Fd
      BY <1>3 DEF Session
    <2>2. \A c \in Live : fdMap[sessions[c].outboundSocket] = c
      BY DEF IInv, SessionsAndSocketsAgree
    <2> QED BY <1>3, <1>4, <1>5, <1>6, <2>1, <2>2, ReportedFacts
  <1>11. SessionsAndSocketsAgree'
    <2>1. \A c \in Live' : fdMap'[sessions'[c].outboundSocket] = c
      BY <1>5, <1>7, <1>10 DEF IInv, SessionsAndSocketsAgree
    <2>2. \A f \in Fd : fdMap'[f] # NoId => /\ fdMap'[f] \in Live'
                                            /\ sessions'[fdMap'[f]].outboundSocket = f
      BY <1>5, <1>6, <1>7, <1>10 DEF IInv, SessionsAndSocketsAgree
    <2>3. \A f \in Fd : port'[f] = Closed <=> fdMap'[f] = NoId
      BY <1>7 DEF IInv, SessionsAndSocketsAgree
    <2>4. \A c \in Live' : port'[sessions'[c].outboundSocket] = sessions'[c].outboundPort
      BY <1>5, <1>7, <1>10 DEF IInv, SessionsAndSocketsAgree
    <2>5. \A f, g \in Fd : port'[f] = port'[g] /\ port'[f] # Closed => f = g
      BY <1>7 DEF IInv, SessionsAndSocketsAgree
    <2>6. \A f \in Fd : port'[f] = Closed => rxq'[f] = <<>>
      BY <1>7 DEF IInv, SessionsAndSocketsAgree
    <2> QED BY <2>1, <2>2, <2>3, <2>4, <2>5, <2>6 DEF SessionsAndSocketsAgree
  <1> QED BY <1>8, <1>9, <1>11 DEF IInv

LEMMA RunWorkerFailsStep ==
  ASSUME IInv, RunWorkerFails
  PROVE  IInv'
  <1>1. /\ phase' = "exited" /\ events' = {} /\ sent' = NoPacket /\ now' = now
        /\ sessions' = [c \in ClientId |-> NoSession]
        /\ fdMap' = [f \in Fd |-> NoId]
        /\ port' = [f \in Fd |-> Closed]
        /\ rxq' = [q \in Socket |-> <<>>]
    BY DEF RunWorkerFails
  <1>2. Live' = {}
    BY <1>1 DEF Live
  <1>3. QueuesOK'
    <2>1. /\ <<>> \in Seq(ClientDatagram) /\ <<>> \in Seq(ServerDatagram)
          /\ <<>> \in Seq(ClientDatagram \cup ServerDatagram)
      OBVIOUS
    <2> QED BY <1>1, <2>1 DEF QueuesOK, Socket
  <1>4. TypeOK'
    BY <1>1, <1>3 DEF IInv, TypeOK
  <1>5. SessionsAndSocketsAgree'
    BY <1>1, <1>2 DEF SessionsAndSocketsAgree, Socket
  <1>6. EventsAreLive'
    BY <1>1 DEF EventsAreLive
  <1> QED BY <1>4, <1>5, <1>6 DEF IInv

LEMMA DeliverStep ==
  ASSUME IInv, NEW s \in Socket, NEW d, Deliver(s, d),
         \/ s = inboundSocket /\ d \in ClientDatagram
         \/ s \in Fd /\ port[s] # Closed /\ d \in ServerDatagram
  PROVE  IInv'
  <1>1. /\ rxq' = [rxq EXCEPT ![s] = Append(rxq[s], d)] /\ sent' = NoPacket
        /\ UNCHANGED <<phase, sessions, fdMap, events, port, now>>
    BY DEF Deliver, table
  <1>2. QueuesOK
    BY DEF IInv, TypeOK
  <1>3. \A q \in Socket \ {s} : rxq'[q] = rxq[q]
    BY <1>1, <1>2 DEF QueuesOK
  <1>4. rxq'[s] = Append(rxq[s], d) /\ rxq'[s] # <<>>
    <2>1. rxq[s] \in Seq(ClientDatagram \cup ServerDatagram)
      BY <1>2 DEF QueuesOK
    <2>2. d \in ClientDatagram \cup ServerDatagram
      OBVIOUS
    <2>3. Append(rxq[s], d) # <<>>
      BY <2>1, <2>2
    <2> QED BY <1>1, <1>2, <2>3 DEF QueuesOK
  <1>5. QueuesOK'
    <2>1. rxq' \in [Socket -> Seq(ClientDatagram \cup ServerDatagram)]
      <3>1. Append(rxq[s], d) \in Seq(ClientDatagram \cup ServerDatagram)
        BY <1>2 DEF QueuesOK
      <3> QED BY <1>1, <1>2, <3>1 DEF QueuesOK
    <2>2. rxq'[inboundSocket] \in Seq(ClientDatagram)
      <3>1. CASE s = inboundSocket
        <4>1. rxq[s] \in Seq(ClientDatagram) /\ d \in ClientDatagram
          BY <1>2, <3>1, SocketAssumption DEF QueuesOK
        <4> QED BY <1>4, <3>1, <4>1
      <3>2. CASE s # inboundSocket
        BY <1>2, <1>3, <3>2 DEF QueuesOK, Socket
      <3> QED BY <3>1, <3>2
    <2>3. \A f \in Fd : rxq'[f] \in Seq(ServerDatagram)
      <3> SUFFICES ASSUME NEW f \in Fd PROVE rxq'[f] \in Seq(ServerDatagram)
        OBVIOUS
      <3>1. CASE s = f
        <4>1. rxq[s] \in Seq(ServerDatagram) /\ d \in ServerDatagram
          BY <1>2, <3>1, SocketAssumption DEF QueuesOK
        <4> QED BY <1>4, <3>1, <4>1
      <3>2. CASE s # f
        BY <1>2, <1>3, <3>2 DEF QueuesOK, Socket
      <3> QED BY <3>1, <3>2
    <2> QED BY <2>1, <2>2, <2>3 DEF QueuesOK
  <1>6. TypeOK'
    BY <1>1, <1>5 DEF IInv, TypeOK
  <1>7. SessionsAndSocketsAgree'
    <2>1. \A f \in Fd : port[f] = Closed => rxq'[f] = <<>>
      BY <1>3, SocketAssumption DEF IInv, SessionsAndSocketsAgree, Socket
    <2> QED BY <1>1, <2>1 DEF IInv, SessionsAndSocketsAgree, Live
  <1>8. EventsAreLive'
    BY <1>1, <1>3, <1>4 DEF IInv, TypeOK, EventsAreLive
  <1> QED BY <1>6, <1>7, <1>8 DEF IInv

\* Steps of the clock, of SetupSockets, a return of epoll_wait without events and
\* stuttering leave tables, sockets and batch alone.
LEMMA ClockStep ==
  ASSUME IInv, SetupSockets \/ EpollWaitReturnsNone \/ Tick \/ StepClock \/ UNCHANGED vars
  PROVE  IInv'
  <1>1. UNCHANGED <<sessions, fdMap, events, port, rxq>>
    BY DEF SetupSockets, EpollWaitReturnsNone, Tick, StepClock, vars, table, kernel
  <1>2. phase' \in {"setup", "running", "idle", "exited"} /\ sent' \in Relayed \cup {NoPacket}
    BY DEF IInv, TypeOK, SetupSockets, EpollWaitReturnsNone, Tick, StepClock, vars
  <1>3. now' \in Time
    BY TimeAssumption
       DEF IInv, TypeOK, Time, SetupSockets, EpollWaitReturnsNone, Tick, StepClock, vars
  <1> QED BY <1>1, <1>2, <1>3
          DEF IInv, TypeOK, QueuesOK, SessionsAndSocketsAgree, EventsAreLive, Live

-----------------------------------------------------------------------------
(* The invariants. *)

LEMMA InvInit == Init => IInv
  <1> SUFFICES ASSUME Init PROVE IInv
    OBVIOUS
  <1>1. /\ <<>> \in Seq(ClientDatagram) /\ <<>> \in Seq(ServerDatagram)
        /\ <<>> \in Seq(ClientDatagram \cup ServerDatagram)
    OBVIOUS
  <1>2. 0 \in Time
    BY TimeAssumption DEF Time
  <1>3. TypeOK
    BY <1>1, <1>2 DEF Init, TypeOK, QueuesOK, Socket
  <1>4. SessionsAndSocketsAgree
    BY DEF Init, SessionsAndSocketsAgree, Live, Socket
  <1>5. EventsAreLive
    BY DEF Init, EventsAreLive
  <1> QED BY <1>3, <1>4, <1>5 DEF IInv

LEMMA PassInit == Init => PassIsAlone
  BY DEF Init, PassIsAlone

LEMMA PassNext == PassIsAlone /\ [Next]_vars => PassIsAlone'
  <1> SUFFICES ASSUME PassIsAlone, [Next]_vars, phase' = "idle" PROVE events' = {}
    BY DEF PassIsAlone
  <1>1. CASE EpollWaitReturnsNone
    BY <1>1 DEF EpollWaitReturnsNone, Waiting
  <1>2. CASE Arrival \/ Tick \/ StepClock \/ Terminated \/ UNCHANGED vars
    BY <1>2 DEF PassIsAlone, Arrival, DeliverToRelay, DeliverToPort, Deliver, Tick, StepClock,
       Terminated, vars
  <1>3. CASE SetupSockets \/ RunWorkerFails \/ EpollWaitReturns \/ SweepSessions \/ HandleEvent
    BY <1>3 DEF SetupSockets, RunWorkerFails, EpollWaitReturns, Waiting, SweepSessions,
       HandleEvent, HandlePacketFromClient, Receive, Discard, ReceiveUnusable,
       ReceiveWithoutClientId, ReceiveFromNewClient, ReceiveFromNewClientFails,
       ReceiveFromKnownClient, ReceiveFromServer, ReceiveUnexpected
  <1> QED BY <1>1, <1>2, <1>3 DEF Next, Untimed, Worker

LEMMA InvNext == IInv /\ PassIsAlone /\ [Next]_vars => IInv'
  <1> SUFFICES ASSUME IInv, PassIsAlone, [Next]_vars PROVE IInv'
    OBVIOUS
  <1> USE DEF Socket
  <1>1. CASE \/ SetupSockets \/ EpollWaitReturnsNone
             \/ Tick \/ StepClock \/ Terminated \/ UNCHANGED vars
    BY <1>1, ClockStep DEF Terminated
  <1>2. CASE RunWorkerFails
    BY <1>2, RunWorkerFailsStep
  <1>3. CASE EpollWaitReturns \/ SweepSessions
    BY <1>3, EpollWaitReturnsStep, SweepSessionsStep
  <1>4. CASE Arrival
    BY <1>4, DeliverStep DEF Arrival, DeliverToRelay, DeliverToPort
  <1>5. CASE HandlePacketFromClient
    <2>1. CASE \E f \in Fd, p \in Port, result \in SendResult :
                  ReceiveFromNewClient(f, p, result)
      BY <2>1, ReceiveFromNewClientStep
    <2>2. CASE ReceiveFromNewClientFails
      BY <2>2, DiscardStep DEF ReceiveFromNewClientFails
    <2>3. CASE \E result \in SendResult : ReceiveFromKnownClient(result)
      BY <2>3, ReceiveFromKnownClientStep
    <2> QED BY <1>5, <2>1, <2>2, <2>3 DEF HandlePacketFromClient
  <1>6. CASE (\E s \in Socket : ReceiveUnusable(s)) \/ ReceiveWithoutClientId
    BY <1>6, DiscardStep DEF ReceiveUnusable, ReceiveWithoutClientId
  <1>7. CASE \E f \in Fd, result \in SendResult : ReceiveFromServer(f, result)
    BY <1>7, ReceiveFromServerStep
  <1>8. CASE \E f \in Fd : ReceiveUnexpected(f)
    BY <1>8, DiscardStep DEF ReceiveUnexpected
  <1> QED BY <1>1, <1>2, <1>3, <1>4, <1>5, <1>6, <1>7, <1>8
          DEF Next, Untimed, Worker, HandleEvent

\* In every behaviour of the relay the variables keep their types, the session
\* table, the descriptor map and the kernel's sockets agree, and no event of a
\* batch names a closed or empty socket.
THEOREM Invariance == Spec => []IInv
  BY InvInit, InvNext, PassInit, PassNext, PTL DEF Spec

\* The variables keep their types (WgcfRelayContext.h:23-78).
THEOREM TypeCorrect == Spec => []TypeOK
  <1>1. IInv => TypeOK
    BY DEF IInv
  <1> QED BY <1>1, Invariance, PTL

\* No descriptor leaks, none is used after close, no port is shared
\* (WgcfRelayWorker.cc:214-241 and 314-328).
THEOREM SocketsAreOwned == Spec => []SessionsAndSocketsAgree
  <1>1. IInv => SessionsAndSocketsAgree
    BY DEF IInv
  <1> QED BY <1>1, Invariance, PTL

\* The batch of epoll_wait never goes stale (WgcfRelayWorker.cc:287-335).
THEOREM BatchStaysLive == Spec => []EventsAreLive
  <1>1. IInv => EventsAreLive
    BY DEF IInv
  <1> QED BY <1>1, Invariance, PTL

-----------------------------------------------------------------------------
(* Only the server reaches a client. *)

\* A datagram leaves for a client only in a step that takes one sent by
\* destinationAddress from the socket that the client's own session owns, and it
\* leaves from the port recorded there.  The code finds the session through the
\* descriptor map (WgcfRelayWorker.cc:371-382): that this is the client whose
\* session owns the socket is what SessionsAndSocketsAgree says.
THEOREM ClientsHearOnlyTheServer == Spec => OnlyTheServerReachesClients
  <1> DEFINE Taken == \E f \in events : /\ Head(rxq[f]).from = destinationAddress
                                        /\ sent'.client \in Live
                                        /\ sessions[sent'.client].outboundSocket = f
                                        /\ sessions[sent'.client].outboundPort = sent'.port
                                        /\ rxq'[f] = Tail(rxq[f])
             Guarded == (sent' # NoPacket /\ sent'.kind = "down") => Taken
  <1>1. IInv /\ [Next]_vars => [Guarded]_vars
    <2> SUFFICES ASSUME IInv, Next, sent' # NoPacket, sent'.kind = "down", vars' # vars
                 PROVE  Taken
      OBVIOUS
    <2>1. ~HandlePacketFromClient
      BY DEF HandlePacketFromClient, ReceiveFromNewClient, ReceiveFromNewClientFails,
             ReceiveFromKnownClient, Discard, ToServer
    <2>2. CASE \E f \in Fd, result \in SendResult : ReceiveFromServer(f, result)
      <3>1. PICK f \in Fd, result \in SendResult : ReceiveFromServer(f, result)
        BY <2>2
      <3>2. /\ f \in events /\ rxq' = [rxq EXCEPT ![f] = Tail(rxq[f])]
            /\ Head(rxq[f]).from = destinationAddress /\ fdMap[f] \in Live
        BY <3>1 DEF ReceiveFromServer, Receive, FromServer
      <3>3. rxq'[f] = Tail(rxq[f])
        BY <3>2 DEF IInv, TypeOK, QueuesOK, Socket
      <3>4. sent'.client = fdMap[f] /\ sent'.port = port[f]
        BY <3>1 DEF ReceiveFromServer, ToClient
      <3>5. sessions[fdMap[f]].outboundSocket = f
        <4>1. fdMap[f] # NoId
          BY <3>2, SocketAssumption DEF Live
        <4> QED BY <3>1, <4>1 DEF IInv, SessionsAndSocketsAgree
      <3>6. port[f] = sessions[fdMap[f]].outboundPort
        BY <3>2, <3>5 DEF IInv, SessionsAndSocketsAgree
      <3> QED BY <3>2, <3>3, <3>4, <3>5, <3>6
    <2>3. CASE sent' = NoPacket \/ UNCHANGED vars
      BY <2>3
    <2> QED
      BY <2>1, <2>2, <2>3
         DEF Next, Untimed, Worker, HandleEvent, Arrival, SetupSockets, RunWorkerFails,
             Terminated, EpollWaitReturns, EpollWaitReturnsNone, SweepSessions, ReceiveUnusable,
             ReceiveWithoutClientId, ReceiveUnexpected, Discard, DeliverToRelay,
             DeliverToPort, Deliver, Tick, StepClock
  <1> QED BY <1>1, Invariance, PTL DEF Spec, OnlyTheServerReachesClients

-----------------------------------------------------------------------------
(* WgcfRelay implements PortRelay. *)

\* The abstract table has an entry exactly for the live sessions.
LEMMA MapFacts ==
  ASSUME IInv
  PROVE  /\ Live \subseteq ClientId
         /\ \A c \in Live : /\ sessions[c] \in Session
                            /\ tableOfPorts[c] = [address |-> sessions[c].sourceAddress,
                                                  port |-> sessions[c].outboundPort]
                            /\ tableOfPorts[c].address = sessions[c].sourceAddress
                            /\ tableOfPorts[c].port = sessions[c].outboundPort
                            /\ tableOfPorts[c] # NoEntry
         /\ \A c \in ClientId \ Live : tableOfPorts[c] = NoEntry
         /\ PR!Present = Live
         /\ PR!PortsInUse \subseteq PortsInUse
  <1>1. \A c \in Live : c \in ClientId /\ sessions[c] \in Session
    BY DEF IInv, TypeOK, Live
  <1>2. \A c \in Live : tableOfPorts[c] = [address |-> sessions[c].sourceAddress,
                                           port |-> sessions[c].outboundPort]
    BY <1>1 DEF tableOfPorts, Live
  <1>3. \A c \in Live : /\ tableOfPorts[c].address = sessions[c].sourceAddress
                        /\ tableOfPorts[c].port = sessions[c].outboundPort
                        /\ tableOfPorts[c] # NoEntry
    <2> SUFFICES ASSUME NEW c \in Live
                 PROVE  /\ tableOfPorts[c].address = sessions[c].sourceAddress
                        /\ tableOfPorts[c].port = sessions[c].outboundPort
                        /\ tableOfPorts[c] # NoSession
      BY DEF NoEntry
    <2>1. sessions[c].sourceAddress \in Address /\ sessions[c].outboundPort \in Port
      BY <1>1 DEF Session
    <2>2. tableOfPorts[c] = [address |-> sessions[c].sourceAddress,
                             port |-> sessions[c].outboundPort]
      BY <1>2, Zenon
    <2>3. tableOfPorts[c] \in [address : Address, port : Port]
      BY <2>1, <2>2
    <2> QED BY <2>2, <2>3, SentinelAssumption
  <1>4. \A c \in ClientId \ Live : tableOfPorts[c] = NoEntry
    BY DEF tableOfPorts, Live
  <1>5. PR!Present = Live
    BY <1>1, <1>3, <1>4 DEF PR!Present
  <1>6. \A c \in Live : /\ sessions[c].outboundSocket \in Fd
                        /\ port[sessions[c].outboundSocket] = sessions[c].outboundPort
                        /\ sessions[c].outboundPort # Closed
    BY <1>1, SocketAssumption DEF Session, IInv, SessionsAndSocketsAgree
  <1>7. PR!PortsInUse \subseteq PortsInUse
    <2> SUFFICES ASSUME NEW c \in Live PROVE tableOfPorts[c].port \in PortsInUse
      BY <1>5 DEF PR!PortsInUse
    <2>1. tableOfPorts[c].port = sessions[c].outboundPort
      BY <1>3
    <2> QED BY <1>6, <2>1 DEF PortsInUse
  <1> QED BY <1>1, <1>2, <1>3, <1>4, <1>5, <1>7

LEMMA RefineInit == Init => PR!Init
  BY DEF Init, PR!Init, tableOfPorts, NoEntry

\* A step that keeps or deletes sessions, moves nobody and relays nothing.
LEMMA RefineQuiet ==
  ASSUME IInv, IInv', sent' = NoPacket, Live' \subseteq Live,
         \A c \in Live' : /\ sessions'[c].sourceAddress = sessions[c].sourceAddress
                          /\ sessions'[c].outboundPort = sessions[c].outboundPort
  PROVE  PR!Next
  <1>1. \A c \in Live' : tableOfPorts'[c] = tableOfPorts[c]
    <2> SUFFICES ASSUME NEW c \in Live' PROVE tableOfPorts'[c] = tableOfPorts[c]
      OBVIOUS
    <2>1. tableOfPorts'[c] = [address |-> sessions'[c].sourceAddress,
                              port |-> sessions'[c].outboundPort]
      BY DEF tableOfPorts, Live
    <2>2. tableOfPorts[c] = [address |-> sessions[c].sourceAddress,
                             port |-> sessions[c].outboundPort]
      BY DEF tableOfPorts, Live
    <2> QED BY <2>1, <2>2
  <1>2. \A c \in ClientId \ Live' : tableOfPorts'[c] = NoEntry
    BY DEF tableOfPorts, Live
  <1>3. tableOfPorts' = [c \in ClientId |->
                          IF c \in ClientId \ Live' THEN NoEntry ELSE tableOfPorts[c]]
    BY <1>1, <1>2 DEF tableOfPorts
  <1>4. PR!Forget(ClientId \ Live')
    BY <1>3 DEF PR!Forget
  <1> QED BY <1>4 DEF PR!Next

\* A client datagram is handled: the sessions of the others stay as they are.
LEMMA RefineHear ==
  ASSUME IInv, IInv', NEW c \in ClientId, NEW a \in Address, NEW p \in Port,
         NEW new \in Session, new.sourceAddress = a, new.outboundPort = p,
         sessions' = [sessions EXCEPT ![c] = new],
         IF c \in Live THEN p = sessions[c].outboundPort ELSE p \notin PortsInUse,
         sent' \in {NoPacket, ToServer(c, a, p)}
  PROVE  PR!Next
  <1>1. sessions \in [ClientId -> Session \cup {NoSession}] /\ new # NoSession
    BY SentinelAssumption DEF IInv, TypeOK
  <1>2. tableOfPorts' = [tableOfPorts EXCEPT ![c] = [address |-> a, port |-> p]]
    BY <1>1 DEF tableOfPorts
  <1>3. IF c \in PR!Present THEN p = tableOfPorts[c].port ELSE p \notin PR!PortsInUse
    <2>1. PR!Present = Live /\ PR!PortsInUse \subseteq PortsInUse
      BY MapFacts
    <2>2. CASE c \in Live
      <3>1. tableOfPorts[c].port = sessions[c].outboundPort
        BY <2>2, MapFacts, Zenon
      <3> QED BY <2>1, <2>2, <3>1
    <2>3. CASE c \notin Live
      BY <2>1, <2>3
    <2> QED BY <2>2, <2>3
  <1>4. sent' \in {NoPacket, PR!ToServer(c, a, p)}
    BY DEF ToServer, PR!ToServer
  <1>5. PR!Hear(c, a, p)
    BY <1>2, <1>3, <1>4 DEF PR!Hear
  <1> QED BY <1>5 DEF PR!Next

LEMMA RefineNewClient ==
  ASSUME IInv, IInv', NEW f \in Fd, NEW p \in Port, NEW result \in SendResult,
         ReceiveFromNewClient(f, p, result)
  PROVE  PR!Next
  <1> DEFINE d == Head(rxq[inboundSocket])
             new == AfterTx(NewSession(f, p, d.from), d.from, result)
  <1>1. inboundSocket \in Socket /\ Receive(inboundSocket)
    BY DEF ReceiveFromNewClient, Socket
  <1>2. d \in ClientDatagram /\ d.id \in ClientId /\ d.id \notin Live
    BY <1>1, ReceiveFacts DEF ReceiveFromNewClient
  <1>3. d.from \in Address /\ now \in Time
    BY <1>2 DEF IInv, TypeOK, ClientDatagram
  <1>4. new \in Session /\ new.sourceAddress = d.from /\ new.outboundPort = p
    BY <1>3, NewSessionFacts, AfterTxFacts
  <1>5. /\ sessions' = [sessions EXCEPT ![d.id] = new]
        /\ p \notin PortsInUse
        /\ sent' \in {NoPacket, ToServer(d.id, d.from, p)}
    BY DEF ReceiveFromNewClient, NewOutboundUdpSocket
  <1> HIDE DEF d, new
  <1> QED BY <1>2, <1>3, <1>4, <1>5, RefineHear

LEMMA RefineKnownClient ==
  ASSUME IInv, IInv', NEW result \in SendResult, ReceiveFromKnownClient(result)
  PROVE  PR!Next
  <1> DEFINE d == Head(rxq[inboundSocket])
             p == sessions[d.id].outboundPort
             new == AfterTx(sessions[d.id], d.from, result)
  <1>1. inboundSocket \in Socket /\ Receive(inboundSocket)
    BY DEF ReceiveFromKnownClient, Socket
  <1>2. d \in ClientDatagram /\ d.id \in Live
    BY <1>1, ReceiveFacts DEF ReceiveFromKnownClient
  <1>3. /\ d.from \in Address /\ now \in Time /\ d.id \in ClientId
        /\ sessions[d.id] \in Session /\ p \in Port
    BY <1>2 DEF IInv, TypeOK, Live, ClientDatagram, Session
  <1>4. new \in Session /\ new.sourceAddress = d.from /\ new.outboundPort = p
    BY <1>3, AfterTxFacts
  <1>5. port[sessions[d.id].outboundSocket] = p
    BY <1>2 DEF IInv, SessionsAndSocketsAgree
  <1>6. /\ sessions' = [sessions EXCEPT ![d.id] = new]
        /\ sent' \in {NoPacket, ToServer(d.id, d.from, p)}
    BY <1>5 DEF ReceiveFromKnownClient
  <1> HIDE DEF d, new, p
  <1>7. IF d.id \in Live THEN p = sessions[d.id].outboundPort ELSE p \notin PortsInUse
    BY <1>2 DEF p
  <1> QED BY <1>3, <1>4, <1>6, <1>7, RefineHear

\* A datagram of the server is handled: it goes where the table says.
LEMMA RefineFromServer ==
  ASSUME IInv, IInv', NEW f \in Fd, NEW result \in SendResult, ReceiveFromServer(f, result)
  PROVE  PR!Next
  <1> DEFINE c == fdMap[f]
             new == AfterRx(sessions[c], result)
  <1>1. c \in Live
    BY DEF ReceiveFromServer, FromServer
  <1>2. c \in ClientId /\ sessions[c] \in Session /\ now \in Time
    BY <1>1 DEF IInv, TypeOK, Live
  <1>3. /\ new \in Session /\ new.sourceAddress = sessions[c].sourceAddress
        /\ new.outboundPort = sessions[c].outboundPort
    BY <1>2, AfterRxFacts
  <1>4. sessions' = [sessions EXCEPT ![c] = new]
    BY DEF ReceiveFromServer
  <1>5. tableOfPorts' = tableOfPorts
    <2>1. sessions \in [ClientId -> Session \cup {NoSession}] /\ new # NoSession
      BY <1>3, SentinelAssumption DEF IInv, TypeOK
    <2> HIDE DEF c, new
    <2> QED BY <1>1, <1>2, <1>3, <1>4, <2>1 DEF tableOfPorts, Live
  <1>6. port[f] = sessions[c].outboundPort
    <2>1. c # NoId
      BY <1>2, SocketAssumption
    <2> QED BY <1>1, <2>1 DEF IInv, SessionsAndSocketsAgree
  <1>7. CASE result = "ok"
    <2>1. sent' = PR!ToClient(c, tableOfPorts[c].address, tableOfPorts[c].port)
      <3>1. /\ tableOfPorts[c].address = sessions[c].sourceAddress
            /\ tableOfPorts[c].port = sessions[c].outboundPort
        BY <1>1, MapFacts, Zenon
      <3>2. sent' = ToClient(c, sessions[c].sourceAddress, port[f])
        BY <1>7 DEF ReceiveFromServer
      <3> QED BY <1>6, <3>1, <3>2 DEF ToClient, PR!ToClient
    <2>2. PR!Answer(c)
      BY <1>1, <1>5, <2>1, MapFacts DEF PR!Answer
    <2> QED BY <1>2, <2>2 DEF PR!Next
  <1>8. CASE result # "ok"
    <2>1. sent' = NoPacket
      BY <1>8 DEF ReceiveFromServer
    <2>2. tableOfPorts' = [d \in ClientId |-> IF d \in {} THEN NoEntry ELSE tableOfPorts[d]]
      BY <1>5 DEF tableOfPorts
    <2>3. PR!Forget({})
      BY <2>1, <2>2 DEF PR!Forget
    <2> QED BY <2>3 DEF PR!Next
  <1> QED BY <1>7, <1>8

LEMMA RefineStep == IInv /\ IInv' /\ [Next]_vars => [PR!Next]_(PR!vars)
  <1> SUFFICES ASSUME IInv, IInv', [Next]_vars PROVE [PR!Next]_(PR!vars)
    OBVIOUS
  <1>1. CASE UNCHANGED vars
    BY <1>1 DEF vars, PR!vars, tableOfPorts
  <1>2. CASE \E f \in Fd, p \in Port, result \in SendResult : ReceiveFromNewClient(f, p, result)
    BY <1>2, RefineNewClient
  <1>3. CASE \E result \in SendResult : ReceiveFromKnownClient(result)
    BY <1>3, RefineKnownClient
  <1>4. CASE \E f \in Fd, result \in SendResult : ReceiveFromServer(f, result)
    BY <1>4, RefineFromServer
  <1>5. CASE RunWorkerFails
    <2>1. Live' = {} /\ sent' = NoPacket
      BY <1>5 DEF RunWorkerFails, Live
    <2> QED BY <2>1, RefineQuiet
  <1>6. CASE SweepSessions
    <2>1. sent' = NoPacket /\ Sweep
      BY <1>6 DEF SweepSessions
    <2>2. Live' \subseteq Live /\ \A c \in Live' : sessions'[c] = Reported(sessions[c])
      BY <2>1 DEF Sweep, Live
    <2>3. \A c \in Live' : /\ sessions'[c].sourceAddress = sessions[c].sourceAddress
                           /\ sessions'[c].outboundPort = sessions[c].outboundPort
      BY <2>2, ReportedFacts, MapFacts
    <2> QED BY <2>1, <2>2, <2>3, RefineQuiet
  <1>7. CASE sent' = NoPacket /\ UNCHANGED sessions
    BY <1>7, RefineQuiet DEF Live
  <1> QED
    BY <1>1, <1>2, <1>3, <1>4, <1>5, <1>6, <1>7
       DEF Next, Untimed, Worker, HandleEvent, HandlePacketFromClient, Arrival, SetupSockets,
           Terminated, EpollWaitReturns, EpollWaitReturnsNone, ReceiveUnusable,
           ReceiveWithoutClientId,
           ReceiveFromNewClientFails, ReceiveUnexpected, Discard, DeliverToRelay,
           DeliverToPort, Deliver, Tick, StepClock, table

\* The relay implements PortRelay: a client keeps its port while it has a
\* session, no two clients share one, and what the server sends to a port goes
\* to the address that client was last heard from (README.md:31-37).
THEOREM RelayImplementsPortRelay == Spec => ImplementsPortRelay
  BY RefineInit, RefineStep, Invariance, PTL DEF Spec, ImplementsPortRelay, PR!Spec

=============================================================================
