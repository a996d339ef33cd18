-------------------------- MODULE WgcfRelayHistory --------------------------
(***************************************************************************)
(* WgcfRelay with history variables that measure what the code can only    *)
(* estimate from CLOCK_REALTIME: for how many seconds each direction of a  *)
(* session has been idle.  A history variable reads the steps of WgcfRelay *)
(* and constrains none of them; a jump of the clock, because it is set or  *)
(* because the count of nanoseconds wraps, does not make a session older.  *)
(***************************************************************************)
EXTENDS WgcfRelay

CONSTANT AgeCap      \* bound: ages are counted up to here
ASSUME AgeAssumption == AgeCap \in Nat /\ Timeout < AgeCap

VARIABLES txAge,     \* seconds since the session last reached the server
          rxAge,     \* seconds since the session last reached its client
          txSteady,  \* the sessions whose lastTx was taken after the last jump
          rxSteady   \* the same of lastRx

historyVars == <<txAge, rxAge, txSteady, rxSteady>>
allVars == <<vars, historyVars>>

HInit == /\ Init
         /\ txAge = [c \in ClientId |-> 0]
         /\ rxAge = [c \in ClientId |-> 0]
         /\ txSteady = {}
         /\ rxSteady = {}

Older(age) == [c \in ClientId |->
                 IF c \in Live /\ age[c] < AgeCap THEN age[c] + 1 ELSE age[c]]

Sent(kind, c) == sent' # NoPacket /\ sent'.kind = kind /\ sent'.client = c

\* A direction is young again when the session is created, when a datagram
\* goes that way, and (so that states are shared) when the session is gone.
Renewed(age, kind) == [c \in ClientId |->
                         IF c \notin Live \/ c \notin Live' \/ Sent(kind, c)
                         THEN 0 ELSE age[c]]

\* A stamp is taken when the session is created or a datagram goes that way.
Stamped(steady, kind) == {c \in Live' : c \notin Live \/ Sent(kind, c) \/ c \in steady}

\* A tick, which may be the one that wraps the clock.
HTick == /\ Tick
         /\ txAge' = Older(txAge)
         /\ rxAge' = Older(rxAge)
         /\ txSteady' = IF now' = 0 THEN {} ELSE txSteady
         /\ rxSteady' = IF now' = 0 THEN {} ELSE rxSteady

\* The time changes here only when the clock is set.
HOther == /\ Untimed \/ StepClock
          /\ txAge' = Renewed(txAge, "up")
          /\ rxAge' = Renewed(rxAge, "down")
          /\ txSteady' = IF now' = now THEN Stamped(txSteady, "up") ELSE {}
          /\ rxSteady' = IF now' = now THEN Stamped(rxSteady, "down") ELSE {}

HNext == HTick \/ HOther

HSpec == HInit /\ [][HNext]_allVars
HFairSpec == HSpec /\ WF_allVars(Worker /\ HOther) /\ WF_allVars(HTick)

-----------------------------------------------------------------------------

\* A session ends while the program runs.
Deleted(c) == c \in Live /\ c \notin Live' /\ phase' = "running"

IdleOneWay(c) == txAge[c] > Timeout \/ rxAge[c] > Timeout
IdleBothWays(c) == txAge[c] > Timeout /\ rxAge[c] > Timeout

\* A session that both directions have used within Timeout is never deleted, by
\* the time that really passed and not by the one that the stamps show, unless the
\* clock has jumped since one of the stamps was taken (WgcfRelayWorker.cc:307).  A
\* datagram that sendto refused is no use of the session (line 268 is not reached).
SteadySessionsStay ==
    [][\A c \in txSteady \cap rxSteady : Deleted(c) => IdleOneWay(c)]_allVars

\* README.md:36 promises it without the exception.
DeletedOnlyWhenIdle == [][\A c \in ClientId : Deleted(c) => IdleOneWay(c)]_allVars

\* A pass over the table leaves no session behind that has been idle too long in a
\* direction whose stamp was taken after the clock last jumped.
SweepIsComplete ==
    [][SweepSessions => /\ \A c \in Live' \cap txSteady : txAge[c] <= Timeout
                        /\ \A c \in Live' \cap rxSteady : rxAge[c] <= Timeout]_allVars

\* README.md:36 "If a session is inactive for more than 10 minutes, the relay
\* server will delete the session": a session that still relays in one direction
\* is not inactive.
DeletedOnlyWhenInactive ==
    [][\A c \in ClientId : Deleted(c) => IdleBothWays(c)]_allVars

\* When datagrams stop arriving the relay deletes every session and closes every
\* socket it opened for one.
Quiet == Live = {} /\ \A f \in Fd : port[f] = Closed
NetworkGoesQuiet == <>[][~Arrival]_vars
QuietRelayForgetsAll == NetworkGoesQuiet => <>[]Quiet

\* README.md:36 again: a session that relays nothing any more is deleted,
\* whatever the other sessions do.
InactiveIsDeleted ==
    \A c \in ClientId :
        []<>(c \notin Live) \/ []<><<Sent("up", c) \/ Sent("down", c)>>_allVars
=============================================================================
