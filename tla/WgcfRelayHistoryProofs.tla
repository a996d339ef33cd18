------------------------ MODULE WgcfRelayHistoryProofs ------------------------
(***************************************************************************)
(* Proofs about the expiry of sessions, for every set of clients, every    *)
(* timeout and every clock: what the two stamps of a session show is       *)
(* compared with the time that has really passed.                          *)
(*                                                                         *)
(* A stamp that was taken after the last jump of the clock tells the time  *)
(* that has passed since, so the difference of line 307 is right for it in *)
(* both directions: no session in use is deleted, and none that expired is *)
(* left behind.  A jump is a setting of the clock or its wrap: the seconds *)
(* start again at 0 long before 2^64, and the difference does not.         *)
(***************************************************************************)
EXTENDS WgcfRelayHistory, WgcfRelayProofs

AgesOK == /\ txAge \in [ClientId -> 0 .. AgeCap]
          /\ rxAge \in [ClientId -> 0 .. AgeCap]

\* last lies age seconds back; ages are counted up to AgeCap.
Tells(t, last, age) == /\ last <= t
                       /\ IF age < AgeCap THEN t - last = age ELSE t - last >= age

StampsTellAges == \A c \in Live : /\ c \in txSteady => Tells(now, sessions[c].lastTx, txAge[c])
                                  /\ c \in rxSteady => Tells(now, sessions[c].lastRx, rxAge[c])

-----------------------------------------------------------------------------
(* The clock. *)

\* A stamp that tells the age shows whether the age is above Timeout.
LEMMA ShownExpiry ==
  ASSUME NEW last \in Time, now \in Time, NEW age \in 0 .. AgeCap, Tells(now, last, age)
  PROVE  Elapsed(last) > Timeout <=> age > Timeout
  BY TimeAssumption, AgeAssumption DEF Elapsed, Tells, Time

LEMMA JustStamped ==
  ASSUME NEW t \in Time
  PROVE  Tells(t, t, 0)
  BY TimeAssumption, AgeAssumption DEF Tells, Time

\* A second passes and the clock does not wrap.
LEMMA SecondPasses ==
  ASSUME NEW t \in Time, NEW last \in Time, NEW age \in 0 .. AgeCap, Tells(t, last, age)
  PROVE  Tells(t + 1, last, IF age < AgeCap THEN age + 1 ELSE age)
  BY TimeAssumption, AgeAssumption DEF Tells, Time

-----------------------------------------------------------------------------
(* Stamps and datagrams. *)

LEMMA LiveSessions ==
  ASSUME IInv
  PROVE  \A c \in Live : /\ c \in ClientId /\ sessions[c] \in Session
                         /\ sessions[c].lastTx \in Time /\ sessions[c].lastRx \in Time
  BY DEF IInv, TypeOK, Live, Session

\* What a step without Tick and without a clock that is set does to the stamps of c:
\* a stamp is renewed exactly when a datagram of c leaves in its direction.
Followed(c) ==
  /\ c \in Live => /\ sessions'[c].lastTx = IF Sent("up", c) THEN now ELSE sessions[c].lastTx
                   /\ sessions'[c].lastRx = IF Sent("down", c) THEN now ELSE sessions[c].lastRx
  /\ c \notin Live => sessions'[c].lastTx = now /\ sessions'[c].lastRx = now

\* Steps that relay nothing.
LEMMA QuietStep ==
  ASSUME sent' = NoPacket, NEW c \in Live, sessions'[c] = sessions[c]
  PROVE  Followed(c)
  BY DEF Followed, Sent

LEMMA ReportKeepsStamps ==
  ASSUME NEW s \in Session
  PROVE  Reported(s).lastTx = s.lastTx /\ Reported(s).lastRx = s.lastRx
  <1>1. CASE s.droppedRx # 0 \/ s.droppedTx # 0
    <2>1. Reported(s) = [s EXCEPT !.droppedRx = 0, !.droppedTx = 0,
                                  !.totalRx = 0, !.totalTx = 0]
      BY <1>1 DEF Reported
    <2> QED BY <2>1 DEF Session
  <1>2. CASE ~(s.droppedRx # 0 \/ s.droppedTx # 0)
    BY <1>2 DEF Reported
  <1> QED BY <1>1, <1>2

LEMMA SweepFollowed ==
  ASSUME IInv, SweepSessions, NEW c \in Live'
  PROVE  Followed(c) /\ c \in Live \ ExpiredIds
  <1>1. sent' = NoPacket
    BY DEF SweepSessions
  <1>2. sessions' = [d \in ClientId |->
                       IF d \in Live \ ExpiredIds THEN Reported(sessions[d]) ELSE NoSession]
    BY DEF SweepSessions, Sweep
  <1>3. c \in Live \ ExpiredIds /\ sessions'[c] = Reported(sessions[c])
    BY <1>2 DEF Live
  <1> QED BY <1>1, <1>3, LiveSessions, ReportKeepsStamps DEF Followed, Sent

LEMMA KnownClientFollowed ==
  ASSUME IInv, NEW result \in SendResult, ReceiveFromKnownClient(result), NEW c \in Live'
  PROVE  Followed(c)
  <1> DEFINE d == Head(rxq[inboundSocket])
             s == sessions[d.id]
             p == port[s.outboundSocket]
  <1>1. inboundSocket \in Socket /\ Receive(inboundSocket)
    BY DEF ReceiveFromKnownClient, Socket
  <1>2. d \in ClientDatagram /\ d.id \in Live
    BY <1>1, ReceiveFacts DEF ReceiveFromKnownClient
  <1>3. s \in Session /\ d.from \in Address /\ d.id \in ClientId
    BY <1>2, LiveSessions DEF ClientDatagram
  <1>4. p \in Port
    BY <1>2, <1>3 DEF IInv, SessionsAndSocketsAgree, Session
  <1>5. /\ sessions' = [sessions EXCEPT ![d.id] = AfterTx(s, d.from, result)]
        /\ sent' = IF result = "ok" THEN ToServer(d.id, d.from, p) ELSE NoPacket
    BY DEF ReceiveFromKnownClient
  <1>6. /\ AfterTx(s, d.from, result).lastTx = IF result = "ok" THEN now ELSE s.lastTx
        /\ AfterTx(s, d.from, result).lastRx = s.lastRx
    BY <1>3 DEF AfterTx, Session
  <1>7. ToServer(d.id, d.from, p) # NoPacket
    BY <1>3, <1>4, PacketAssumption DEF ToServer, Relayed
  <1>8. ~Sent("down", c) /\ (Sent("up", c) <=> result = "ok" /\ c = d.id)
    BY <1>5, <1>7 DEF Sent, ToServer
  <1> HIDE DEF d, p
  <1>9. c \in Live /\ sessions'[c] = IF c = d.id THEN AfterTx(s, d.from, result) ELSE sessions[c]
    BY <1>2, <1>3, <1>5 DEF Live, IInv, TypeOK
  <1> QED BY <1>6, <1>8, <1>9 DEF Followed

LEMMA ServerFollowed ==
  ASSUME IInv, NEW f \in Fd, NEW result \in SendResult, ReceiveFromServer(f, result),
         NEW c \in Live'
  PROVE  Followed(c)
  <1> DEFINE i == fdMap[f]
             s == sessions[i]
             packet == ToClient(i, s.sourceAddress, port[f])
  <1>1. f \in Socket /\ Receive(f) /\ i \in Live
    BY DEF ReceiveFromServer, FromServer, Socket
  <1>2. s \in Session /\ i \in ClientId
    BY <1>1, LiveSessions
  <1>3. port[f] \in Port
    <2>1. port[f] # Closed
      BY <1>1 DEF IInv, EventsAreLive, Receive
    <2> QED BY <2>1 DEF IInv, TypeOK
  <1>4. /\ sessions' = [sessions EXCEPT ![i] = AfterRx(s, result)]
        /\ sent' = IF result = "ok" THEN packet ELSE NoPacket
    BY DEF ReceiveFromServer
  <1>5. /\ AfterRx(s, result).lastRx = IF result = "ok" THEN now ELSE s.lastRx
        /\ AfterRx(s, result).lastTx = s.lastTx
    BY <1>2 DEF AfterRx, Session
  <1>6. packet # NoPacket
    BY <1>2, <1>3, PacketAssumption DEF ToClient, Relayed, Session
  <1>7. ~Sent("up", c) /\ (Sent("down", c) <=> result = "ok" /\ c = i)
    BY <1>4, <1>6 DEF Sent, ToClient
  <1> HIDE DEF i, packet
  <1>8. c \in Live /\ sessions'[c] = IF c = i THEN AfterRx(s, result) ELSE sessions[c]
    BY <1>1, <1>2, <1>4 DEF Live, IInv, TypeOK
  <1> QED BY <1>5, <1>7, <1>8 DEF Followed

LEMMA NewClientFollowed ==
  ASSUME IInv, NEW f \in Fd, NEW p \in Port, NEW result \in SendResult,
         ReceiveFromNewClient(f, p, result), NEW c \in Live'
  PROVE  Followed(c)
  <1> DEFINE d == Head(rxq[inboundSocket])
             new == AfterTx(NewSession(f, p, d.from), d.from, result)
  <1>1. inboundSocket \in Socket /\ Receive(inboundSocket)
    BY DEF ReceiveFromNewClient, Socket
  <1>2. d \in ClientDatagram /\ d.id \in ClientId /\ d.id \notin Live
    BY <1>1, ReceiveFacts DEF ReceiveFromNewClient
  <1>3. new.lastTx = now /\ new.lastRx = now
    BY DEF AfterTx, NewSession
  <1>4. /\ sessions' = [sessions EXCEPT ![d.id] = new]
        /\ sent' = IF result = "ok" THEN ToServer(d.id, d.from, p) ELSE NoPacket
    BY DEF ReceiveFromNewClient
  <1>5. c # d.id => ~Sent("up", c) /\ ~Sent("down", c)
    BY <1>4 DEF Sent, ToServer
  <1> HIDE DEF d, new
  <1>6. IF c = d.id THEN sessions'[c] = new ELSE c \in Live /\ sessions'[c] = sessions[c]
    BY <1>2, <1>4 DEF Live, IInv, TypeOK
  <1> QED BY <1>2, <1>3, <1>5, <1>6 DEF Followed

\* Sessions live while the worker runs.
DownIsEmpty == ~Up => Live = {}

LEMMA DownNext == IInv /\ DownIsEmpty /\ [Next]_vars => DownIsEmpty'
  <1> SUFFICES ASSUME IInv, DownIsEmpty, [Next]_vars, ~Up' PROVE Live' = {}
    BY DEF DownIsEmpty
  <1>1. CASE RunWorkerFails
    BY <1>1 DEF RunWorkerFails, Live
  <1>2. CASE ~Up /\ sessions' = sessions
    BY <1>2 DEF DownIsEmpty, Live
  <1>3. CASE SetupSockets \/ Terminated \/ UNCHANGED vars
    <2>1. ~Up /\ sessions' = sessions
      BY <1>3 DEF SetupSockets, Terminated, vars, table, Up
    <2> QED BY <1>2, <2>1
  <1>4. CASE Worker \/ Arrival \/ Tick \/ StepClock
    <2>1. Up'
      BY <1>4 DEF Up, Worker, HandleEvent, HandlePacketFromClient, EpollWaitReturns,
          EpollWaitReturnsNone, SweepSessions, Waiting, Receive, Discard, ReceiveUnusable, ReceiveWithoutClientId,
          ReceiveFromNewClient, ReceiveFromNewClientFails, ReceiveFromKnownClient,
          ReceiveFromServer, ReceiveUnexpected, Arrival, DeliverToRelay, DeliverToPort, Deliver,
          Tick, StepClock
    <2> QED BY <2>1
  <1> QED BY <1>1, <1>3, <1>4 DEF Next, Untimed

LEMMA StampsFollow ==
  ASSUME IInv, DownIsEmpty, Untimed, NEW c \in Live'
  PROVE  Followed(c) /\ now' = now
  <1>1. CASE \/ SetupSockets \/ Arrival \/ EpollWaitReturns \/ EpollWaitReturnsNone
             \/ ReceiveFromNewClientFails \/ ReceiveWithoutClientId
             \/ (\E s \in Socket : ReceiveUnusable(s)) \/ (\E f \in Fd : ReceiveUnexpected(f))
    <2>1. UNCHANGED <<sessions, now>> /\ sent' = NoPacket
      BY <1>1 DEF SetupSockets, Arrival, DeliverToRelay, DeliverToPort, Deliver,
          EpollWaitReturns, EpollWaitReturnsNone, ReceiveFromNewClientFails,
          ReceiveWithoutClientId, ReceiveUnusable, ReceiveUnexpected, Discard, vars, table
    <2>2. c \in Live
      BY <2>1 DEF Live
    <2> QED BY <2>1, <2>2, QuietStep
  <1>2. CASE RunWorkerFails \/ Terminated
    BY <1>2 DEF RunWorkerFails, Terminated, DownIsEmpty, Up, Live, vars
  <1>3. CASE SweepSessions
    BY <1>3, SweepFollowed DEF SweepSessions
  <1>4. CASE \E f \in Fd, p \in Port, result \in SendResult : ReceiveFromNewClient(f, p, result)
    BY <1>4, NewClientFollowed DEF ReceiveFromNewClient
  <1>5. CASE \E result \in SendResult : ReceiveFromKnownClient(result)
    BY <1>5, KnownClientFollowed DEF ReceiveFromKnownClient
  <1>6. CASE \E f \in Fd, result \in SendResult : ReceiveFromServer(f, result)
    BY <1>6, ServerFollowed DEF ReceiveFromServer
  <1> QED BY <1>1, <1>2, <1>3, <1>4, <1>5, <1>6
          DEF Untimed, Worker, HandleEvent, HandlePacketFromClient

-----------------------------------------------------------------------------
(* Ages. *)

HInv == IInv /\ PassIsAlone /\ DownIsEmpty /\ AgesOK

LEMMA HInvInit == HInit => HInv
  <1> SUFFICES ASSUME HInit PROVE HInv
    OBVIOUS
  <1>1. IInv /\ PassIsAlone
    BY InvInit, PassInit DEF HInit
  <1>2. AgesOK
    BY AgeAssumption DEF HInit, AgesOK
  <1>3. DownIsEmpty
    BY DEF HInit, Init, DownIsEmpty, Live
  <1> QED BY <1>1, <1>2, <1>3 DEF HInv

LEMMA HistoryFollows == [HNext]_allVars => [Next]_vars
  BY DEF HNext, HTick, HOther, Next, allVars

LEMMA HInvNext == HInv /\ [HNext]_allVars => HInv'
  <1> SUFFICES ASSUME HInv, [HNext]_allVars PROVE HInv'
    OBVIOUS
  <1>1. IInv' /\ PassIsAlone' /\ DownIsEmpty'
    BY HistoryFollows, InvNext, PassNext, DownNext DEF HInv
  <1>2. AgesOK'
    <2>1. CASE HTick
      BY <2>1, AgeAssumption DEF HTick, Older, HInv, AgesOK
    <2>2. CASE HOther
      BY <2>2, AgeAssumption DEF HOther, Renewed, HInv, AgesOK
    <2>3. CASE UNCHANGED allVars
      BY <2>3 DEF allVars, historyVars, HInv, AgesOK
    <2> QED BY <2>1, <2>2, <2>3 DEF HNext
  <1> QED BY <1>1, <1>2 DEF HInv

THEOREM HistoryInvariance == HSpec => []HInv
  BY HInvInit, HInvNext, PTL DEF HSpec

\* What a tick, and what another step, does to the ages and stamps of a session.
LEMMA TickAges ==
  ASSUME HInv, HTick, NEW c \in Live'
  PROVE  /\ c \in Live /\ sessions'[c] = sessions[c]
         /\ now' # 0 => now' = now + 1
         /\ now' = 0 => txSteady' = {} /\ rxSteady' = {}
         /\ now' # 0 => txSteady' = txSteady /\ rxSteady' = rxSteady
         /\ txAge'[c] = IF txAge[c] < AgeCap THEN txAge[c] + 1 ELSE txAge[c]
         /\ rxAge'[c] = IF rxAge[c] < AgeCap THEN rxAge[c] + 1 ELSE rxAge[c]
  <1>1. c \in Live /\ sessions'[c] = sessions[c]
    BY DEF HTick, Tick, table, Live
  <1>2. c \in ClientId
    BY DEF Live
  <1> QED BY <1>1, <1>2 DEF HTick, Tick, Older

\* A stamp is taken, and an age begins, with the session and with every datagram.
LEMMA OtherAges ==
  ASSUME HInv, Untimed, HOther, NEW c \in Live'
  PROVE  /\ now' = now
         /\ IF c \notin Live \/ Sent("up", c)
            THEN sessions'[c].lastTx = now /\ txAge'[c] = 0
            ELSE /\ sessions'[c].lastTx = sessions[c].lastTx /\ txAge'[c] = txAge[c]
                 /\ c \in txSteady' => c \in txSteady
         /\ IF c \notin Live \/ Sent("down", c)
            THEN sessions'[c].lastRx = now /\ rxAge'[c] = 0
            ELSE /\ sessions'[c].lastRx = sessions[c].lastRx /\ rxAge'[c] = rxAge[c]
                 /\ c \in rxSteady' => c \in rxSteady
  <1>1. Followed(c) /\ now' = now
    BY StampsFollow DEF HInv
  <1>2. c \in ClientId
    BY DEF Live
  <1>3. /\ txAge'[c] = IF c \notin Live \/ Sent("up", c) THEN 0 ELSE txAge[c]
        /\ rxAge'[c] = IF c \notin Live \/ Sent("down", c) THEN 0 ELSE rxAge[c]
    BY <1>2 DEF HOther, Renewed
  <1>4. /\ c \in txSteady' => c \notin Live \/ Sent("up", c) \/ c \in txSteady
        /\ c \in rxSteady' => c \notin Live \/ Sent("down", c) \/ c \in rxSteady
    BY <1>1 DEF HOther, Stamped
  <1> QED BY <1>1, <1>3, <1>4 DEF Followed

LEMMA AgesType ==
  ASSUME HInv
  PROVE  /\ now \in Time
         /\ \A c \in Live : /\ txAge[c] \in 0 .. AgeCap /\ rxAge[c] \in 0 .. AgeCap
                            /\ sessions[c].lastTx \in Time /\ sessions[c].lastRx \in Time
  BY LiveSessions DEF HInv, IInv, TypeOK, AgesOK

-----------------------------------------------------------------------------
(* Stamps tell the time that has passed. *)

LEMMA TellingInit == HInit => StampsTellAges
  BY DEF HInit, Init, StampsTellAges, Live

LEMMA TellingNext == HInv /\ StampsTellAges /\ [HNext]_allVars => StampsTellAges'
  <1> SUFFICES ASSUME HInv, StampsTellAges, [HNext]_allVars, NEW c \in Live'
               PROVE  /\ c \in txSteady' => Tells(now', sessions'[c].lastTx, txAge'[c])
                      /\ c \in rxSteady' => Tells(now', sessions'[c].lastRx, rxAge'[c])
    BY DEF StampsTellAges, Tells
  <1>1. CASE HTick
    <2>1. CASE now' = 0
      BY <1>1, <2>1, TickAges
    <2>2. CASE now' # 0
      <3>1. /\ c \in Live /\ sessions'[c] = sessions[c] /\ now' = now + 1
            /\ txSteady' = txSteady /\ rxSteady' = rxSteady
            /\ txAge'[c] = IF txAge[c] < AgeCap THEN txAge[c] + 1 ELSE txAge[c]
            /\ rxAge'[c] = IF rxAge[c] < AgeCap THEN rxAge[c] + 1 ELSE rxAge[c]
        BY <1>1, <2>2, TickAges
      <3> QED BY <3>1, AgesType, SecondPasses DEF StampsTellAges
    <2> QED BY <2>1, <2>2
  <1>2. CASE HOther /\ Untimed
    <2>1. now \in Time /\ Tells(now, now, 0)
      BY AgesType, JustStamped
    <2> QED BY <1>2, <2>1, OtherAges DEF StampsTellAges
  <1>3. CASE HOther /\ StepClock
    BY <1>3 DEF HOther, StepClock
  <1>4. CASE UNCHANGED allVars
    BY <1>4 DEF allVars, vars, table, historyVars, Live, StampsTellAges
  <1> QED BY <1>1, <1>2, <1>3, <1>4 DEF HNext, HOther

-----------------------------------------------------------------------------
(* Sessions in use are kept, sessions that expired go. *)

\* Relaying a datagram deletes no session.
LEMMA UpdateDeletesNothing ==
  ASSUME HInv, NEW d \in ClientId, NEW s \in Session, sessions' = [sessions EXCEPT ![d] = s],
         NEW c \in Live
  PROVE  c \in Live'
  BY SentinelAssumption DEF Live, HInv, IInv, TypeOK

LEMMA HandlersDeleteNothing ==
  ASSUME HInv, NEW c \in Live,
         \/ \E f \in Fd, p \in Port, result \in SendResult : ReceiveFromNewClient(f, p, result)
         \/ \E result \in SendResult : ReceiveFromKnownClient(result)
         \/ \E f \in Fd, result \in SendResult : ReceiveFromServer(f, result)
  PROVE  c \in Live'
  <1> DEFINE d == Head(rxq[inboundSocket])
  <1>1. IInv /\ now \in Time
    BY DEF HInv, IInv, TypeOK
  <1>2. ASSUME Receive(inboundSocket)
        PROVE  d \in ClientDatagram /\ d.from \in Address
    <2>1. inboundSocket \in Socket
      BY DEF Socket
    <2> QED BY <1>1, <1>2, <2>1, ReceiveFacts DEF ClientDatagram
  <1>3. ASSUME NEW f \in Fd, NEW p \in Port, NEW result \in SendResult,
               ReceiveFromNewClient(f, p, result)
        PROVE  c \in Live'
    <2> DEFINE new == AfterTx(NewSession(f, p, d.from), d.from, result)
    <2>1. d.id \in ClientId /\ d.from \in Address /\ sessions' = [sessions EXCEPT ![d.id] = new]
      BY <1>2, <1>3 DEF ReceiveFromNewClient
    <2>2. new \in Session
      BY <1>1, <2>1, NewSessionFacts, AfterTxFacts
    <2> QED BY <2>1, <2>2, UpdateDeletesNothing
  <1>4. ASSUME NEW result \in SendResult, ReceiveFromKnownClient(result)
        PROVE  c \in Live'
    <2> DEFINE new == AfterTx(sessions[d.id], d.from, result)
    <2>1. d.id \in Live /\ d.from \in Address /\ sessions' = [sessions EXCEPT ![d.id] = new]
      BY <1>2, <1>4 DEF ReceiveFromKnownClient
    <2>2. d.id \in ClientId /\ new \in Session
      BY <1>1, <2>1, LiveSessions, AfterTxFacts
    <2> QED BY <2>1, <2>2, UpdateDeletesNothing
  <1>5. ASSUME NEW f \in Fd, NEW result \in SendResult, ReceiveFromServer(f, result)
        PROVE  c \in Live'
    <2> DEFINE new == AfterRx(sessions[fdMap[f]], result)
    <2>1. fdMap[f] \in Live /\ sessions' = [sessions EXCEPT ![fdMap[f]] = new]
      BY <1>5 DEF ReceiveFromServer, FromServer
    <2>2. fdMap[f] \in ClientId /\ new \in Session
      BY <1>1, <2>1, LiveSessions, AfterRxFacts
    <2> QED BY <2>1, <2>2, UpdateDeletesNothing
  <1> QED BY <1>3, <1>4, <1>5

\* The pass over the table is the only step that deletes a session while the
\* program runs, and it deletes those whose stamps are too old.
LEMMA OnlyTheSweepDeletes ==
  ASSUME HInv, [HNext]_allVars, NEW c \in ClientId, Deleted(c)
  PROVE  c \in ExpiredIds
  <1>1. c \in Live /\ c \notin Live' /\ phase' = "running"
    BY DEF Deleted
  <1>2. CASE SweepSessions
    <2>1. sessions'[c] = NoSession
      BY <1>1 DEF Live
    <2>2. Reported(sessions[c]) # NoSession
      BY <1>1, LiveSessions, ReportedFacts, SentinelAssumption DEF HInv
    <2> QED BY <1>1, <1>2, <2>1, <2>2 DEF SweepSessions, Sweep
  <1>3. sessions' # sessions
    BY <1>1 DEF Live
  <1>4. ~RunWorkerFails
    BY <1>1 DEF RunWorkerFails
  <1>5. ~(\/ SetupSockets \/ Terminated \/ Arrival \/ Tick \/ StepClock
          \/ EpollWaitReturns \/ EpollWaitReturnsNone)
    BY <1>3 DEF SetupSockets, Terminated, Arrival, DeliverToRelay, DeliverToPort, Deliver,
       Tick, StepClock, EpollWaitReturns, EpollWaitReturnsNone, vars, table
  <1>6. ~(\/ ReceiveFromNewClientFails \/ ReceiveWithoutClientId
          \/ (\E s \in Socket : ReceiveUnusable(s)) \/ (\E f \in Fd : ReceiveUnexpected(f)))
    BY <1>3 DEF ReceiveFromNewClientFails, ReceiveWithoutClientId, ReceiveUnusable,
       ReceiveUnexpected, Discard, table
  <1>7. HandleEvent => /\ \/ \E f \in Fd, p \in Port, result \in SendResult :
                                ReceiveFromNewClient(f, p, result)
                          \/ \E result \in SendResult : ReceiveFromKnownClient(result)
                          \/ \E f \in Fd, result \in SendResult : ReceiveFromServer(f, result)
    BY <1>6 DEF HandleEvent, HandlePacketFromClient
  <1>8. ~HandleEvent
    BY <1>1, <1>7, HandlersDeleteNothing
  <1>9. Next
    BY <1>3, HistoryFollows DEF vars
  <1> QED BY <1>2, <1>4, <1>5, <1>8, <1>9 DEF Next, Untimed, Worker

\* No session that both directions have used within Timeout is deleted, when both
\* stamps were taken after the last jump of the clock (WgcfRelayWorker.cc:307).
THEOREM SteadySessionsAreKept == HSpec => SteadySessionsStay
  <1>1. HInv /\ StampsTellAges /\ [HNext]_allVars
          => [\A c \in txSteady \cap rxSteady : Deleted(c) => IdleOneWay(c)]_allVars
    <2> SUFFICES ASSUME HInv, StampsTellAges, [HNext]_allVars,
                        NEW c \in txSteady \cap rxSteady, Deleted(c)
                 PROVE  IdleOneWay(c)
      OBVIOUS
    <2>1. c \in Live /\ c \in ClientId
      BY DEF Deleted, Live
    <2>2. Expired(sessions[c])
      BY <2>1, OnlyTheSweepDeletes DEF ExpiredIds
    <2>3. /\ Tells(now, sessions[c].lastTx, txAge[c])
          /\ Tells(now, sessions[c].lastRx, rxAge[c])
      BY <2>1 DEF StampsTellAges
    <2> QED BY <2>1, <2>2, <2>3, AgesType, ShownExpiry DEF Expired, IdleOneWay
  <1>2. HInv /\ StampsTellAges /\ [HNext]_allVars => StampsTellAges'
    BY TellingNext
  <1> QED BY <1>1, <1>2, TellingInit, HInvInit, HInvNext, PTL DEF HSpec, SteadySessionsStay

\* The pass over the table leaves no session behind that has been idle for more than
\* Timeout in a direction whose stamp was taken after the last jump of the clock
\* (WgcfRelayWorker.cc:291-331).
THEOREM ExpiredSessionsGo == HSpec => SweepIsComplete
  <1>1. HInv /\ StampsTellAges /\ [HNext]_allVars
          => [SweepSessions => /\ \A c \in Live' \cap txSteady : txAge[c] <= Timeout
                               /\ \A c \in Live' \cap rxSteady : rxAge[c] <= Timeout]_allVars
    <2> SUFFICES ASSUME HInv, StampsTellAges, SweepSessions, NEW c \in Live'
                 PROVE  /\ c \in txSteady => txAge[c] <= Timeout
                        /\ c \in rxSteady => rxAge[c] <= Timeout
      OBVIOUS
    <2>1. c \in Live /\ ~Expired(sessions[c])
      BY SweepFollowed DEF HInv, ExpiredIds
    <2>2. /\ c \in txSteady => Tells(now, sessions[c].lastTx, txAge[c])
          /\ c \in rxSteady => Tells(now, sessions[c].lastRx, rxAge[c])
      BY <2>1 DEF StampsTellAges
    <2>3. /\ c \in txSteady => ~(txAge[c] > Timeout)
          /\ c \in rxSteady => ~(rxAge[c] > Timeout)
      BY <2>1, <2>2, AgesType, ShownExpiry DEF Expired
    <2>4. txAge[c] \in Nat /\ rxAge[c] \in Nat
      BY <2>1, AgesType, AgeAssumption
    <2> QED BY <2>3, <2>4, TimeAssumption
  <1>2. HInv /\ StampsTellAges /\ [HNext]_allVars => StampsTellAges'
    BY TellingNext
  <1> QED BY <1>1, <1>2, TellingInit, HInvInit, HInvNext, PTL DEF HSpec, SweepIsComplete
=============================================================================
