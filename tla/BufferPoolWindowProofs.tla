------------------------ MODULE BufferPoolWindowProofs ------------------------
(***************************************************************************)
(* Proofs about the indexes of BufferPool, for every number of threads and  *)
(* every ring size: as long as no compare-and-swap was fooled by an index  *)
(* that moved and came back, what a thread saw when it loaded both indexes *)
(* is still true when it advances one; so every slot between the indexes   *)
(* has one writer more than readers on their way, every other slot as many *)
(* of each; and wherever threads wait for a slot, one of them can go on.   *)
(***************************************************************************)
EXTENDS BufferPoolWindow, BufferPoolProofs

\* What a thread knows whose loaded index has not been advanced since.
HeadHeld(t) == HeadLoaded(pc[t]) /\ ~moved[t] =>
                   /\ index[t] = head
                   /\ pc[t] = "casHead" => head # tail
TailHeld(t) == TailLoaded(pc[t]) /\ ~moved[t] =>
                   /\ index[t] = tail
                   /\ pc[t] = "casTail" => NextIndex(tail) # head
HeldInv == ~aba => \A t \in Thread : HeadHeld(t) /\ TailHeld(t)

WInv == IInv /\ HeldInv

LEMMA NextIndexMoves == \A i \in Index : NextIndex(i) # i
  BY PoolSizeAssumption DEF NextIndex, Index

LEMMA NextIndexInjective == \A i, j \in Index : NextIndex(i) = NextIndex(j) => i = j
  BY PoolSizeAssumption DEF NextIndex, Index

\* What one step does to the history of a thread while no swap has been fooled.
LEMMA History ==
  ASSUME WNext, ~aba', NEW t \in Thread
  PROVE  /\ ~aba
         /\ Swaps(t) => ~moved[t]
         /\ HeadLoaded(pc'[t]) /\ ~moved'[t] =>
                ~HeadLoaded(pc[t]) \/ (~moved[t] /\ head' = head)
         /\ TailLoaded(pc'[t]) /\ ~moved'[t] =>
                ~TailLoaded(pc[t]) \/ (~moved[t] /\ tail' = tail)
  <1>1. ~aba /\ (Swaps(t) => ~moved[t])
    BY DEF WNext
  <1>2. moved'[t] = (/\ ~aba'
                     /\ \/ /\ HeadLoaded(pc[t]) /\ HeadLoaded(pc'[t])
                           /\ moved[t] \/ head' # head
                        \/ /\ TailLoaded(pc[t]) /\ TailLoaded(pc'[t])
                           /\ moved[t] \/ tail' # tail)
    BY DEF WNext
  <1> QED BY <1>1, <1>2

\* A step of u leaves what another thread holds, but for an index that it advances.
LEMMA OthersHeld ==
  ASSUME WInv, WNext, ~aba', NEW t \in Thread,
         pc'[t] = pc[t], index'[t] = index[t],
         head' = head \/ (head' # head /\ head' = NextIndex(head) /\ head # tail /\ tail' = tail),
         tail' = tail \/ (tail' # tail /\ tail' = NextIndex(tail) /\ NextIndex(tail) # head
                          /\ head' = head)
  PROVE  (HeadHeld(t) /\ TailHeld(t))'
  <1>0. HeadHeld(t) /\ TailHeld(t) /\ head \in Index /\ tail \in Index
    BY History DEF WInv, HeldInv, IInv, TypeOK
  <1>1. HeadHeld(t)'
    BY <1>0, History DEF HeadHeld
  <1>2. TailHeld(t)'
    BY <1>0, History, NextIndexInjective DEF TailHeld
  <1> QED BY <1>1, <1>2

\* The two steps that advance an index.
LEMMA SwapHead ==
  ASSUME WInv, WNext, ~aba', NEW u \in Thread, CasHead(u)
  PROVE  head # tail /\ head' # head /\ head' = NextIndex(head) /\ tail' = tail
  <1>1. pc[u] = "casHead" /\ pc'[u] = "claimAvailable" /\ index[u] = head
        /\ head' = NextIndex(head) /\ tail' = tail
    BY DEF CasHead, Go, WInv, IInv, TypeOK
  <1>2. ~moved[u] /\ HeadHeld(u)
    BY <1>1, History DEF Swaps, WInv, HeldInv
  <1>3. head \in Index
    BY DEF WInv, IInv, TypeOK
  <1> QED BY <1>1, <1>2, <1>3, NextIndexMoves DEF HeadHeld, HeadLoaded

LEMMA SwapTail ==
  ASSUME WInv, WNext, ~aba', NEW u \in Thread, CasTail(u)
  PROVE  NextIndex(tail) # head /\ tail' # tail /\ tail' = NextIndex(tail) /\ head' = head
  <1>1. pc[u] = "casTail" /\ pc'[u] = "claimEmpty" /\ index[u] = tail
        /\ tail' = NextIndex(tail) /\ head' = head
    BY DEF CasTail, Go, WInv, IInv, TypeOK
  <1>2. ~moved[u] /\ TailHeld(u)
    BY <1>1, History DEF Swaps, WInv, HeldInv
  <1>3. tail \in Index
    BY DEF WInv, IInv, TypeOK
  <1> QED BY <1>1, <1>2, <1>3, NextIndexMoves DEF TailHeld, TailLoaded

\* What the thread that takes a step holds after it.
LEMMA OwnHeld ==
  ASSUME WInv, WNext, ~aba', NEW u \in Thread, ObtainBuffer(u) \/ ReturnBuffer(u)
  PROVE  (HeadHeld(u) /\ TailHeld(u))'
  <1> USE DEF Go, HeadHeld, TailHeld, HeadLoaded, TailLoaded
  <1>0. TypeOK /\ HeadHeld(u) /\ TailHeld(u)
    BY History DEF WInv, HeldInv, IInv
  <1>1. CASE ObtainLoadHead(u)
    BY <1>0, <1>1 DEF ObtainLoadHead, TypeOK, ring
  <1>2. CASE ObtainFindsBuffer(u)
    BY <1>0, <1>2, History DEF ObtainFindsBuffer, TypeOK, ring
  <1>3. CASE ReturnLoadTail(u)
    BY <1>0, <1>3 DEF ReturnLoadTail, TypeOK, ring
  <1>4. CASE ReturnFindsRoom(u)
    BY <1>0, <1>4, History DEF ReturnFindsRoom, TypeOK, ring
  <1>5. CASE \/ CallObtain(u) \/ ObtainFindsEmpty(u) \/ CasHead(u) \/ CasHeadFails(u)
             \/ ClaimAvailable(u) \/ MoveOut(u) \/ SetEmpty(u)
    BY <1>0, <1>5 DEF CallObtain, ObtainFindsEmpty, CasHead, CasHeadFails, ClaimAvailable,
                      MoveOut, SetEmpty, TypeOK
  <1>6. CASE \/ \E b \in Buffer : CallReturn(u, b)
             \/ ReturnFindsFull(u) \/ CasTail(u) \/ CasTailFails(u)
             \/ ClaimEmpty(u) \/ MoveIn(u) \/ SetAvailable(u)
    BY <1>0, <1>6 DEF CallReturn, ReturnFindsFull, CasTail, CasTailFails, ClaimEmpty,
                      MoveIn, SetAvailable, TypeOK
  <1> QED BY <1>1, <1>2, <1>3, <1>4, <1>5, <1>6 DEF ObtainBuffer, ReturnBuffer

\* How a call of u changes what the other threads see.
LEMMA CallChanges ==
  ASSUME WInv, WNext, ~aba', NEW u \in Thread, ObtainBuffer(u) \/ ReturnBuffer(u)
  PROVE  /\ \A t \in Thread \ {u} : pc'[t] = pc[t] /\ index'[t] = index[t]
         /\ \/ head' = head
            \/ head' # head /\ head' = NextIndex(head) /\ head # tail /\ tail' = tail
         /\ \/ tail' = tail
            \/ tail' # tail /\ tail' = NextIndex(tail) /\ NextIndex(tail) # head /\ head' = head
  <1> USE DEF Go
  <1>0. TypeOK
    BY DEF WInv, IInv
  <1>1. \A t \in Thread \ {u} : pc'[t] = pc[t] /\ index'[t] = index[t]
    BY <1>0 DEF ObtainBuffer, ReturnBuffer, TypeOK, CallObtain, ObtainLoadHead, ObtainFindsEmpty,
        ObtainFindsBuffer, CasHead, CasHeadFails, ClaimAvailable, MoveOut, SetEmpty, CallReturn,
        ReturnLoadTail, ReturnFindsFull, ReturnFindsRoom, CasTail, CasTailFails, ClaimEmpty,
        MoveIn, SetAvailable
  <1>2. CASE CasHead(u)
    BY <1>1, <1>2, SwapHead
  <1>3. CASE CasTail(u)
    BY <1>1, <1>3, SwapTail
  <1>4. CASE ~CasHead(u) /\ ~CasTail(u)
    <2>1. head' = head /\ tail' = tail
      BY <1>4 DEF ObtainBuffer, ReturnBuffer, ring, CallObtain, ObtainLoadHead, ObtainFindsEmpty,
        ObtainFindsBuffer, CasHeadFails, ClaimAvailable, MoveOut, SetEmpty, CallReturn,
        ReturnLoadTail, ReturnFindsFull, ReturnFindsRoom, CasTailFails, ClaimEmpty,
        MoveIn, SetAvailable
    <2> QED BY <1>1, <2>1
  <1> QED BY <1>2, <1>3, <1>4

LEMMA HeldNext ==
  ASSUME WInv, WNext
  PROVE  HeldInv'
  <1> SUFFICES ASSUME ~aba', NEW t \in Thread
               PROVE  (HeadHeld(t) /\ TailHeld(t))'
    BY DEF HeldInv
  <1>1. ASSUME NEW u \in Thread, ObtainBuffer(u) \/ ReturnBuffer(u)
        PROVE  (HeadHeld(t) /\ TailHeld(t))'
    <2>1. CASE t = u
      BY <1>1, <2>1, OwnHeld
    <2>2. CASE t # u
      BY <1>1, <2>2, CallChanges, OthersHeld
    <2> QED BY <2>1, <2>2
  <1>2. ASSUME NEW b \in Buffer, DeleteBuffer(b)
        PROVE  (HeadHeld(t) /\ TailHeld(t))'
    BY <1>2, OthersHeld DEF DeleteBuffer, ring
  <1> QED BY <1>1, <1>2 DEF WNext, Next

LEMMA WInvInit == WInit => WInv
  <1> SUFFICES ASSUME WInit PROVE WInv
    OBVIOUS
  <1>1. IInv
    BY InvInit DEF WInit
  <1>2. \A t \in Thread : pc[t] = "idle"
    BY DEF WInit, Init
  <1> QED
    BY <1>1, <1>2 DEF WInv, HeldInv, HeadHeld, TailHeld, HeadLoaded, TailLoaded

LEMMA WInvNext == WInv /\ [WNext]_allVars => WInv'
  <1> SUFFICES ASSUME WInv, [WNext]_allVars PROVE WInv'
    OBVIOUS
  <1>1. IInv'
    BY InvNext DEF WInv, WNext, allVars
  <1>2. CASE WNext
    BY <1>1, <1>2, HeldNext DEF WInv
  <1>3. CASE UNCHANGED allVars
    BY <1>1, <1>3 DEF WInv, HeldInv, HeadHeld, TailHeld, allVars, vars
  <1> QED BY <1>2, <1>3

\* The invariant of the indexes holds in every state.
THEOREM WindowInvariance == WSpec => []WInv
  BY WInvInit, WInvNext, PTL DEF WSpec

\* Without ABA, head advances only over a buffer and tail only into room
\* (BufferPool.cc:39-45 and 58-64).
THEOREM ReservationsAreSound == WSpec => ReservesWhatIsThere
  <1>1. WInv /\ [WNext]_allVars =>
          [~aba' => /\ head' # head => head # tail
                    /\ tail' # tail => NextIndex(tail) # head]_allVars
    <2> SUFFICES ASSUME WInv, WNext, ~aba'
                 PROVE  /\ head' # head => head # tail
                        /\ tail' # tail => NextIndex(tail) # head
      OBVIOUS
    <2>1. CASE \E u \in Thread : ObtainBuffer(u) \/ ReturnBuffer(u)
      BY <2>1, CallChanges
    <2>2. CASE \E b \in Buffer : DeleteBuffer(b)
      BY <2>2 DEF DeleteBuffer, ring
    <2> QED BY <2>1, <2>2 DEF WNext, Next
  <1> QED BY <1>1, WindowInvariance, PTL DEF WSpec, ReservesWhatIsThere

-----------------------------------------------------------------------------
(* The window, and what is under way at each slot. *)

\* A slot in use has been claimed by a thread that will release it.
ClaimedInv ==
  \A i \in Index :
    /\ status[i] = "inUseLoading" => \E t \in Thread : pc[t] \in Loading /\ index[t] = i
    /\ status[i] = "inUseStoring" => \E t \in Thread : pc[t] \in Storing /\ index[t] = i

\* Until a swap was fooled: what writers and readers on their way will leave in a
\* slot is a buffer if it is in the window and nothing if not.
SlotsBalance == aba \/ \A i \in Index : Balance({i}) = IF InWindow(i) THEN 1 ELSE 0

LEMMA ClaimedStays ==
  ASSUME ClaimedInv, UNCHANGED <<status, pc, index>>
  PROVE  ClaimedInv'
  BY DEF ClaimedInv

LEMMA ClaimedStep ==
  ASSUME IInv, ClaimedInv, NEW t \in Thread, ObtainBuffer(t) \/ ReturnBuffer(t)
  PROVE  ClaimedInv'
  <1> USE DEF Go, Loading, Storing
  <1>0. TypeOK
    BY DEF IInv
  <1>1. CASE \/ CallObtain(t) \/ ObtainLoadHead(t) \/ ObtainFindsEmpty(t) \/ ObtainFindsBuffer(t)
             \/ CasHead(t) \/ CasHeadFails(t) \/ (\E b \in Buffer : CallReturn(t, b))
             \/ ReturnLoadTail(t) \/ ReturnFindsFull(t) \/ ReturnFindsRoom(t)
             \/ CasTail(t) \/ CasTailFails(t)
    <2>1. /\ UNCHANGED status /\ pc[t] \notin Loading \cup Storing
          /\ \A u \in Thread \ {t} : pc'[u] = pc[u] /\ index'[u] = index[u]
      BY <1>0, <1>1 DEF TypeOK, CallObtain, ObtainLoadHead, ObtainFindsEmpty, ObtainFindsBuffer,
          CasHead, CasHeadFails, CallReturn, ReturnLoadTail, ReturnFindsFull, ReturnFindsRoom,
          CasTail, CasTailFails, slots
    <2> QED BY <2>1 DEF ClaimedInv
  <1>2. CASE ClaimAvailable(t) \/ ClaimEmpty(t)
    BY <1>0, <1>2 DEF TypeOK, ClaimAvailable, ClaimEmpty, ClaimedInv, IInv, ClaimInv
  <1>3. CASE MoveOut(t) \/ MoveIn(t)
    BY <1>0, <1>3 DEF TypeOK, MoveOut, MoveIn, ClaimedInv
  <1>4. CASE SetEmpty(t) \/ SetAvailable(t)
    BY <1>0, <1>4 DEF TypeOK, SetEmpty, SetAvailable, ClaimedInv, IInv, ClaimInv
  <1> QED BY <1>1, <1>2, <1>3, <1>4 DEF ObtainBuffer, ReturnBuffer

\* Advancing head takes the slot it leaves out of the window, advancing tail the
\* one it leaves into it.
LEMMA WindowShrinks ==
  ASSUME head \in Index, tail \in Index, head # tail, head' = NextIndex(head), tail' = tail,
         NEW i \in Index
  PROVE  InWindow(head) /\ (InWindow(i)' <=> InWindow(i) /\ i # head)
  BY PoolSizeAssumption DEF InWindow, NextIndex, Index

LEMMA WindowGrows ==
  ASSUME head \in Index, tail \in Index, NextIndex(tail) # head, tail' = NextIndex(tail),
         head' = head, NEW i \in Index
  PROVE  ~InWindow(tail) /\ (InWindow(i)' <=> InWindow(i) \/ i = tail)
  BY PoolSizeAssumption DEF InWindow, NextIndex, Index

LEMMA SlotsBalanceNext ==
  ASSUME WInv, SlotsBalance, WNext
  PROVE  SlotsBalance'
  <1> SUFFICES ASSUME ~aba', NEW i \in Index
               PROVE  Balance({i})' = IF InWindow(i)' THEN 1 ELSE 0
    BY DEF SlotsBalance
  <1>1. /\ IInv /\ head \in Index /\ tail \in Index
        /\ Balance({i}) = IF InWindow(i) THEN 1 ELSE 0
    BY DEF WNext, SlotsBalance, WInv, IInv, TypeOK
  <1>2. CASE UNCHANGED ring /\ Balance({i})' = Balance({i})
    BY <1>1, <1>2 DEF ring, InWindow
  <1>3. ASSUME NEW t \in Thread, ObtainBuffer(t) \/ ReturnBuffer(t)
        PROVE  Balance({i})' = IF InWindow(i)' THEN 1 ELSE 0
    <2>0. NextIndex(head) # head /\ NextIndex(tail) # tail
      BY <1>1, NextIndexMoves
    <2>1. CASE /\ head' = NextIndex(head) /\ tail' = tail
               /\ Balance({i})' = Balance({i}) - (IF head \in {i} THEN 1 ELSE 0)
      <3>1. head # tail
        BY <1>3, <2>0, <2>1, CallChanges
      <3>2. InWindow(head) /\ (InWindow(i)' <=> InWindow(i) /\ i # head)
        BY <1>1, <2>1, <3>1, WindowShrinks
      <3> QED BY <1>1, <2>1, <3>2
    <2>2. CASE /\ tail' = NextIndex(tail) /\ head' = head
               /\ Balance({i})' = Balance({i}) + (IF tail \in {i} THEN 1 ELSE 0)
      <3>1. NextIndex(tail) # head
        BY <1>3, <2>0, <2>2, CallChanges
      <3>2. ~InWindow(tail) /\ (InWindow(i)' <=> InWindow(i) \/ i = tail)
        BY <1>1, <2>2, <3>1, WindowGrows
      <3> QED BY <1>1, <2>2, <3>2
    <2>3. {i} \in SUBSET Index
      OBVIOUS
    <2> QED BY <1>1, <1>2, <1>3, <2>1, <2>2, <2>3, BalanceStep
  <1>4. CASE \E b \in Buffer : DeleteBuffer(b)
    BY <1>2, <1>4, BalanceStays DEF DeleteBuffer, slots, ring
  <1> QED BY <1>3, <1>4 DEF WNext, Next

SlotsInv == WInv /\ ClaimedInv /\ SlotsBalance

LEMMA SlotsInit == WInit => SlotsInv
  <1> SUFFICES ASSUME WInit PROVE SlotsInv
    OBVIOUS
  <1>1. ClaimedInv
    BY DEF WInit, Init, ClaimedInv
  <1>2. ASSUME NEW i \in Index PROVE Balance({i}) = 0 /\ ~InWindow(i)
    <2>1. PuttersIn({i}) = {} /\ StoredIn({i}) = {} /\ TakersIn({i}) = {}
      BY DEF WInit, Init, PuttersIn, StoredIn, TakersIn, Filling, Storing
    <2>2. Balance({i}) = 0
      BY <2>1, FS_EmptySet DEF Balance
    <2>3. ~InWindow(i)
      BY PoolSizeAssumption DEF WInit, Init, InWindow, Index
    <2> QED BY <2>2, <2>3
  <1> QED BY <1>1, <1>2, WInvInit DEF SlotsInv, SlotsBalance

LEMMA SlotsNext == SlotsInv /\ [WNext]_allVars => SlotsInv'
  <1> SUFFICES ASSUME SlotsInv, [WNext]_allVars PROVE SlotsInv'
    OBVIOUS
  <1>1. WInv'
    BY WInvNext DEF SlotsInv
  <1>2. CASE WNext
    <2>1. ClaimedInv'
      BY <1>2, ClaimedStep, ClaimedStays
      DEF SlotsInv, WInv, WNext, Next, DeleteBuffer, slots
    <2> QED BY <1>1, <1>2, <2>1, SlotsBalanceNext DEF SlotsInv
  <1>3. CASE UNCHANGED allVars
    <2>1. ClaimedInv' /\ \A i \in Index : Balance({i})' = Balance({i})
      BY <1>3, ClaimedStays, BalanceStays DEF SlotsInv, allVars, vars, ring
    <2> QED BY <1>1, <1>3, <2>1 DEF SlotsInv, SlotsBalance, InWindow, allVars, vars
  <1> QED BY <1>2, <1>3

THEOREM SlotsInvariance == WSpec => []SlotsInv
  BY SlotsInit, SlotsNext, PTL DEF WSpec

\* Until a swap is fooled by ABA, the buffers at hand whenever no call is running are
\* those between head and tail, as their comments say (BufferPool.cc:33-34).
THEOREM IndexesMeanWhatTheySay == WSpec => []WindowIsExactUntilFooled
  <1>1. SlotsInv => WindowIsExactUntilFooled
    <2> SUFFICES ASSUME SlotsInv, ~aba, Quiescent, NEW i \in Index
                 PROVE  i \in Stored <=> InWindow(i)
      BY DEF WindowIsExactUntilFooled, WindowIsExact, Stored
    <2>1. PuttersIn({i}) = {} /\ TakersIn({i}) = {}
      BY DEF Quiescent, PuttersIn, TakersIn, Filling, Storing
    <2>2. Balance({i}) = Cardinality(StoredIn({i}))
      <3>1. Cardinality(PuttersIn({i})) = 0 /\ Cardinality(TakersIn({i})) = 0
        BY <2>1, FS_EmptySet
      <3>2. Cardinality(StoredIn({i})) \in Nat
        BY {i} \in SUBSET Index, CountsAreFinite
      <3> QED BY <3>1, <3>2 DEF Balance
    <2>3. StoredIn({i}) = IF i \in Stored THEN {i} ELSE {}
      BY DEF StoredIn, Stored
    <2>4. Cardinality(StoredIn({i})) = IF i \in Stored THEN 1 ELSE 0
      BY <2>3, FS_EmptySet, FS_Singleton
    <2> QED BY <2>2, <2>4 DEF SlotsInv, SlotsBalance
  <1> QED BY <1>1, SlotsInvariance, PTL

\* Until a swap is fooled by ABA, no thread spins on a status word that nobody will
\* change (BufferPool.cc:47 and 67): a reader waits for a slot that a writer is on its
\* way to, or one that is filled; a writer for one that is empty, or on its way to be.
THEOREM SpinsEnd == WSpec => []SpinsEndUntilFooled
  <1>1. SlotsInv => SpinsEndUntilFooled
    <2> SUFFICES ASSUME SlotsInv, ~aba, NEW t \in Thread, pc[t] \in {"claimAvailable", "claimEmpty"}
                 PROVE  \E u \in Thread : index[u] = index[t] /\ MayGoOn(u)
      BY DEF SpinsEndUntilFooled
    <2> DEFINE i == index[t]
    <2>0. i \in Index /\ status[i] \in Status
      BY DEF SlotsInv, WInv, IInv, TypeOK
    <2>1. CASE status[i] \in {"inUseLoading", "inUseStoring"}
      BY <2>0, <2>1 DEF SlotsInv, ClaimedInv, MayGoOn, Loading, Storing
    <2>2. Balance({i}) \in {0, 1}
      BY <2>0 DEF SlotsInv, SlotsBalance
    <2>2a. /\ Cardinality(PuttersIn({i})) \in Nat
          /\ Cardinality(StoredIn({i})) \in Nat
          /\ Cardinality(TakersIn({i})) \in Nat
      BY <2>0, {i} \in SUBSET Index, CountsAreFinite
    <2>3. CASE status[i] = "available" /\ pc[t] = "claimEmpty"
      <3>1. t \in PuttersIn({i}) /\ i \in StoredIn({i})
        BY <2>3 DEF PuttersIn, StoredIn, Filling
      <3>2. TakersIn({i}) # {}
        <4>1. PuttersIn({i}) # {} /\ StoredIn({i}) # {}
          BY <3>1
        <4>2. Cardinality(PuttersIn({i})) >= 1 /\ Cardinality(StoredIn({i})) >= 1
          BY <2>0, <4>1, CountsAreFinite, FS_EmptySet
        <4>3. Cardinality(TakersIn({i})) # 0
          BY <2>2, <2>2a, <4>2 DEF Balance
        <4> QED BY <4>3, FS_EmptySet
      <3> QED BY <2>3, <3>2 DEF TakersIn, MayGoOn
    <2>4. CASE status[i] = "available" /\ pc[t] = "claimAvailable"
      BY <2>4 DEF MayGoOn
    <2>5. CASE status[i] = "empty" /\ pc[t] = "claimAvailable"
      <3>1. t \in TakersIn({i}) /\ StoredIn({i}) = {}
        BY <2>5 DEF TakersIn, StoredIn
      <3>2. Cardinality(TakersIn({i})) >= 1 /\ Cardinality(StoredIn({i})) = 0
        <4>1. TakersIn({i}) # {}
          BY <3>1
        <4> QED BY <2>0, <3>1, <4>1, CountsAreFinite, FS_EmptySet
      <3>3. PuttersIn({i}) # {}
        <4>1. Cardinality(PuttersIn({i})) # 0
          BY <2>2, <2>2a, <3>2 DEF Balance
        <4> QED BY <4>1, FS_EmptySet
      <3> QED BY <2>5, <3>3 DEF PuttersIn, Filling, Storing, MayGoOn
    <2>6. CASE status[i] = "empty" /\ pc[t] = "claimEmpty"
      BY <2>6 DEF MayGoOn
    <2> QED BY <2>0, <2>1, <2>3, <2>4, <2>5, <2>6 DEF Status
  <1> QED BY <1>1, SlotsInvariance, PTL
=============================================================================
