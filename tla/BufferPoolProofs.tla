-------------------------- MODULE BufferPoolProofs --------------------------
(***************************************************************************)
(* Proofs about BufferPool, for every number of threads, every ring size   *)
(* and every interleaving, the one where an index laps the ring while a    *)
(* thread is stalled before its compare-and-swap included.                 *)
(*                                                                         *)
(* Nothing is said of head and tail: the proof rests on the status words   *)
(* alone.  A slot in use belongs to the one thread that claimed it, and    *)
(* the pointer of a slot is null exactly when its status and the place of  *)
(* that thread say so.                                                     *)
(***************************************************************************)
EXTENDS BufferPool, FiniteSetTheorems, TLAPS

Loading == {"moveOut", "setEmpty"}
Storing == {"moveIn", "setAvailable"}

\* A thread between its claim of a slot and the release of it.
ClaimInv ==
    /\ \A t \in Thread : pc[t] \in Loading => status[index[t]] = "inUseLoading"
    /\ \A t \in Thread : pc[t] \in Storing => status[index[t]] = "inUseStoring"
    /\ \A t, u \in Thread : /\ pc[t] \in Loading \cup Storing
                            /\ pc[u] \in Loading \cup Storing
                            /\ index[t] = index[u]
                            => t = u

\* Where the pointers of slots are null.
SlotInv ==
    /\ \A i \in Index : status[i] = "empty" => buffers[i] = Null
    /\ \A i \in Index : status[i] = "available" => buffers[i] # Null
    /\ \A t \in Thread : pc[t] \in {"setEmpty", "moveIn"} => buffers[index[t]] = Null
    /\ \A t \in Thread : pc[t] \in {"moveOut", "setAvailable"} => buffers[index[t]] # Null

\* When a call holds a buffer.
HandInv == \A t \in Thread :
              hand[t] # Null <=> pc[t] \in {"setEmpty"} \cup (ReturnPc \ {"setAvailable"})

IInv == TypeOK /\ ClaimInv /\ SlotInv /\ HandInv

LEMMA NextIndexType == \A i \in Index : NextIndex(i) \in Index
  BY PoolSizeAssumption DEF NextIndex, Index

LEMMA InvInit == Init => IInv
  <1> SUFFICES ASSUME Init PROVE IInv
    OBVIOUS
  <1>1. 0 \in Index
    BY PoolSizeAssumption DEF Index
  <1>2. TypeOK
    BY <1>1 DEF Init, TypeOK, Status, Pc
  <1>3. ClaimInv /\ SlotInv
    BY DEF Init, ClaimInv, SlotInv, Loading, Storing
  <1>4. HandInv
    BY DEF Init, HandInv, ReturnPc
  <1> QED BY <1>2, <1>3, <1>4 DEF IInv

\* A step that moves one thread outside the slots: neither statuses nor pointers
\* change.
LEMMA OutsideStep ==
  ASSUME IInv, TypeOK', NEW t \in Thread, UNCHANGED slots,
         \A u \in Thread \ {t} : pc'[u] = pc[u] /\ index'[u] = index[u] /\ hand'[u] = hand[u],
         pc'[t] \notin Loading \cup Storing, 
         hand'[t] # Null <=> pc'[t] \in {"setEmpty"} \cup (ReturnPc \ {"setAvailable"})
  PROVE  IInv'
  <1>1. ClaimInv'
    BY DEF IInv, ClaimInv, slots
  <1>2. SlotInv'
    BY DEF IInv, SlotInv, slots, Loading, Storing
  <1>3. HandInv'
    BY DEF IInv, HandInv
  <1> QED BY <1>1, <1>2, <1>3 DEF IInv

LEMMA ObtainStep ==
  ASSUME IInv, NEW t \in Thread, ObtainBuffer(t)
  PROVE  IInv'
  <1> USE DEF Go
  <1>0. TypeOK
    BY DEF IInv
  <1>1. CASE CallObtain(t)
    <2>1. TypeOK'
      BY <1>0, <1>1 DEF CallObtain, TypeOK, ring, slots, holders, Pc, ObtainPc
    <2> QED BY <1>0, <1>1, <2>1, OutsideStep
            DEF CallObtain, TypeOK, ring, holders, Loading, Storing, ReturnPc, HandInv, IInv
  <1>2. CASE ObtainLoadHead(t)
    <2>1. TypeOK'
      BY <1>0, <1>2 DEF ObtainLoadHead, TypeOK, ring, slots, holders, Pc, ObtainPc
    <2> QED BY <1>0, <1>2, <2>1, OutsideStep
            DEF ObtainLoadHead, TypeOK, ring, holders, Loading, Storing, ReturnPc, HandInv, IInv
  <1>3. CASE ObtainFindsEmpty(t)
    <2>1. TypeOK'
      BY <1>0, <1>3 DEF ObtainFindsEmpty, TypeOK, ring, slots, holders, Pc, ObtainPc
    <2> QED BY <1>0, <1>3, <2>1, OutsideStep
            DEF ObtainFindsEmpty, TypeOK, ring, holders, Loading, Storing, ReturnPc, HandInv, IInv
  <1>4. CASE ObtainFindsBuffer(t) \/ CasHeadFails(t)
    <2>1. TypeOK'
      BY <1>0, <1>4 DEF ObtainFindsBuffer, CasHeadFails, TypeOK, ring, slots, holders, Pc, ObtainPc
    <2> QED BY <1>0, <1>4, <2>1, OutsideStep
            DEF ObtainFindsBuffer, CasHeadFails, TypeOK, ring, holders, Loading, Storing,
                ReturnPc, HandInv, IInv
  <1>5. CASE CasHead(t)
    <2>1. TypeOK'
      BY <1>0, <1>5, NextIndexType DEF CasHead, TypeOK, ring, slots, holders, Pc, ObtainPc
    <2> QED BY <1>0, <1>5, <2>1, OutsideStep
            DEF CasHead, TypeOK, ring, holders, Loading, Storing, ReturnPc, HandInv, IInv
  <1>6. CASE ClaimAvailable(t)
    <2>1. TypeOK'
      BY <1>0, <1>6 DEF ClaimAvailable, TypeOK, ring, slots, holders, Pc, ObtainPc, Status
    <2>2. ClaimInv'
      BY <1>0, <1>6 DEF ClaimAvailable, TypeOK, IInv, ClaimInv, Loading, Storing
    <2>3. SlotInv'
      BY <1>0, <1>6 DEF ClaimAvailable, TypeOK, IInv, SlotInv, ClaimInv, Loading, Storing
    <2>4. HandInv'
      BY <1>0, <1>6 DEF ClaimAvailable, TypeOK, IInv, HandInv, ReturnPc, holders
    <2> QED BY <2>1, <2>2, <2>3, <2>4 DEF IInv
  <1>7. CASE MoveOut(t)
    <2>1. TypeOK'
      BY <1>0, <1>7 DEF MoveOut, TypeOK, ring, slots, holders, Pc, ObtainPc
    <2>2. ClaimInv'
      BY <1>0, <1>7 DEF MoveOut, TypeOK, IInv, ClaimInv, Loading, Storing
    <2>3. SlotInv'
      BY <1>0, <1>7 DEF MoveOut, TypeOK, IInv, SlotInv, ClaimInv, Loading, Storing
    <2>4. HandInv'
      BY <1>0, <1>7 DEF MoveOut, TypeOK, IInv, HandInv, SlotInv, ReturnPc
    <2> QED BY <2>1, <2>2, <2>3, <2>4 DEF IInv
  <1>8. CASE SetEmpty(t)
    <2>1. TypeOK'
      <3>1. hand[t] \in Buffer
        BY <1>0, <1>8 DEF SetEmpty, TypeOK, IInv, HandInv
      <3> QED BY <1>0, <1>8, <3>1 DEF SetEmpty, TypeOK, ring, slots, Pc, Status
    <2>2. ClaimInv'
      BY <1>0, <1>8 DEF SetEmpty, TypeOK, IInv, ClaimInv, Loading, Storing
    <2>3. SlotInv'
      BY <1>0, <1>8 DEF SetEmpty, TypeOK, IInv, SlotInv, ClaimInv, Loading, Storing
    <2>4. HandInv'
      BY <1>0, <1>8 DEF SetEmpty, TypeOK, IInv, HandInv, ReturnPc
    <2> QED BY <2>1, <2>2, <2>3, <2>4 DEF IInv
  <1> QED BY <1>1, <1>2, <1>3, <1>4, <1>5, <1>6, <1>7, <1>8 DEF ObtainBuffer

LEMMA ReturnStep ==
  ASSUME IInv, NEW t \in Thread, ReturnBuffer(t)
  PROVE  IInv'
  <1> USE DEF Go
  <1>0. TypeOK
    BY DEF IInv
  <1>1. CASE \E b \in Buffer : CallReturn(t, b)
    <2>1. PICK b \in Buffer : CallReturn(t, b)
      BY <1>1
    <2>2. TypeOK'
      BY <1>0, <2>1 DEF CallReturn, TypeOK, ring, slots, Pc, ReturnPc
    <2> QED BY <1>0, <2>1, <2>2, OutsideStep, NullAssumption
            DEF CallReturn, TypeOK, ring, Loading, Storing, ReturnPc
  <1>2. CASE ReturnLoadTail(t)
    <2>1. TypeOK'
      BY <1>0, <1>2 DEF ReturnLoadTail, TypeOK, ring, slots, holders, Pc, ReturnPc
    <2> QED BY <1>0, <1>2, <2>1, OutsideStep
            DEF ReturnLoadTail, TypeOK, ring, holders, Loading, Storing, ReturnPc, HandInv, IInv
  <1>3. CASE ReturnFindsFull(t)
    <2>1. hand[t] \in Buffer
      BY <1>0, <1>3 DEF ReturnFindsFull, TypeOK, IInv, HandInv, ReturnPc
    <2>2. TypeOK'
      BY <1>0, <1>3, <2>1 DEF ReturnFindsFull, TypeOK, ring, slots, Pc
    <2> QED BY <1>0, <1>3, <2>2, OutsideStep
            DEF ReturnFindsFull, TypeOK, ring, Loading, Storing, ReturnPc
  <1>4. CASE ReturnFindsRoom(t) \/ CasTailFails(t)
    <2>1. TypeOK'
      BY <1>0, <1>4 DEF ReturnFindsRoom, CasTailFails, TypeOK, ring, slots, holders, Pc, ReturnPc
    <2> QED BY <1>0, <1>4, <2>1, OutsideStep
            DEF ReturnFindsRoom, CasTailFails, TypeOK, ring, holders, Loading, Storing,
                ReturnPc, HandInv, IInv
  <1>5. CASE CasTail(t)
    <2>1. TypeOK'
      BY <1>0, <1>5, NextIndexType DEF CasTail, TypeOK, ring, slots, holders, Pc, ReturnPc
    <2> QED BY <1>0, <1>5, <2>1, OutsideStep
            DEF CasTail, TypeOK, ring, holders, Loading, Storing, ReturnPc, HandInv, IInv
  <1>6. CASE ClaimEmpty(t)
    <2>1. TypeOK'
      BY <1>0, <1>6 DEF ClaimEmpty, TypeOK, ring, slots, holders, Pc, ReturnPc, Status
    <2>2. ClaimInv'
      BY <1>0, <1>6 DEF ClaimEmpty, TypeOK, IInv, ClaimInv, Loading, Storing
    <2>3. SlotInv'
      BY <1>0, <1>6 DEF ClaimEmpty, TypeOK, IInv, SlotInv, ClaimInv, Loading, Storing
    <2>4. HandInv'
      BY <1>0, <1>6 DEF ClaimEmpty, TypeOK, IInv, HandInv, ReturnPc, holders
    <2> QED BY <2>1, <2>2, <2>3, <2>4 DEF IInv
  <1>7. CASE MoveIn(t)
    <2>1. TypeOK'
      BY <1>0, <1>7 DEF MoveIn, TypeOK, ring, slots, holders, Pc, ReturnPc
    <2>2. ClaimInv'
      BY <1>0, <1>7 DEF MoveIn, TypeOK, IInv, ClaimInv, Loading, Storing
    <2>3. SlotInv'
      <3>1. hand[t] # Null
        BY <1>7 DEF MoveIn, IInv, HandInv, ReturnPc
      <3> QED BY <1>0, <1>7, <3>1 DEF MoveIn, TypeOK, IInv, SlotInv, ClaimInv, Loading, Storing
    <2>4. HandInv'
      BY <1>0, <1>7 DEF MoveIn, TypeOK, IInv, HandInv, ReturnPc
    <2> QED BY <2>1, <2>2, <2>3, <2>4 DEF IInv
  <1>8. CASE SetAvailable(t)
    <2>1. TypeOK'
      BY <1>0, <1>8 DEF SetAvailable, TypeOK, ring, slots, holders, Pc, Status
    <2>2. ClaimInv'
      BY <1>0, <1>8 DEF SetAvailable, TypeOK, IInv, ClaimInv, Loading, Storing
    <2>3. SlotInv'
      BY <1>0, <1>8 DEF SetAvailable, TypeOK, IInv, SlotInv, ClaimInv, Loading, Storing
    <2>4. HandInv'
      BY <1>0, <1>8 DEF SetAvailable, TypeOK, IInv, HandInv, ReturnPc, holders
    <2> QED BY <2>1, <2>2, <2>3, <2>4 DEF IInv
  <1> QED BY <1>1, <1>2, <1>3, <1>4, <1>5, <1>6, <1>7, <1>8 DEF ReturnBuffer

LEMMA DeleteStep ==
  ASSUME IInv, NEW b \in Buffer, DeleteBuffer(b)
  PROVE  IInv'
  BY DEF DeleteBuffer, ring, slots, IInv, TypeOK, ClaimInv, SlotInv, HandInv

LEMMA InvNext == IInv /\ [Next]_vars => IInv'
  <1> SUFFICES ASSUME IInv, [Next]_vars PROVE IInv'
    OBVIOUS
  <1>1. CASE Next
    BY <1>1, ObtainStep, ReturnStep, DeleteStep DEF Next
  <1>2. CASE UNCHANGED vars
    BY <1>2 DEF vars, IInv, TypeOK, ClaimInv, SlotInv, HandInv
  <1> QED BY <1>1, <1>2

THEOREM Invariance == Spec => []IInv
  BY InvInit, InvNext, PTL DEF Spec

\* The variables of the pool keep their types (BufferPool.cc:31-34).
THEOREM TypeCorrect == Spec => []TypeOK
  <1>1. IInv => TypeOK
    BY DEF IInv
  <1> QED BY <1>1, Invariance, PTL

\* CHECK(buffers[t] == nullptr) never fires (BufferPool.cc:70).
THEOREM CheckNeverFires == Spec => []CheckHolds
  <1>1. IInv => CheckHolds
    BY DEF IInv, SlotInv, CheckHolds
  <1> QED BY <1>1, Invariance, PTL

\* No two threads access the pointer of one slot at once (BufferPool.cc:47-51
\* and 67-72).
THEOREM PointersDoNotRace == Spec => []NoDataRace
  <1>1. IInv => NoDataRace
    BY DEF IInv, ClaimInv, NoDataRace, Loading, Storing
  <1> QED BY <1>1, Invariance, PTL

-----------------------------------------------------------------------------
(* Ownership of buffers. *)

LEMMA OwnerInit == Init => OneOwner
  BY NullAssumption DEF Init, OneOwner, NoneLost, NoneShared

\* A step that moves no buffer.
LEMMA OwnerStays ==
  ASSUME IInv, OneOwner, UNCHANGED <<buffers, holders>>,
         \A t \in Thread : pc'[t] = "setEmpty" => pc[t] = "setEmpty"
  PROVE  OneOwner'
  BY DEF OneOwner, NoneLost, NoneShared, holders

LEMMA OwnerNext == IInv /\ OneOwner /\ [Next]_vars => OneOwner'
  <1> SUFFICES ASSUME IInv, OneOwner, [Next]_vars PROVE OneOwner'
    OBVIOUS
  <1> USE DEF Go
  <1>0. TypeOK
    BY DEF IInv
  <1>1. CASE UNCHANGED vars
    BY <1>1, OwnerStays DEF vars, holders
  <1>2. ASSUME NEW t \in Thread,
               \/ CallObtain(t) \/ ObtainLoadHead(t) \/ ObtainFindsBuffer(t)
               \/ CasHead(t) \/ CasHeadFails(t) \/ ClaimAvailable(t)
               \/ ReturnLoadTail(t) \/ ReturnFindsRoom(t)
               \/ CasTail(t) \/ CasTailFails(t) \/ ClaimEmpty(t) \/ SetAvailable(t)
        PROVE  OneOwner'
    <2>1. UNCHANGED <<buffers, holders>>
      BY <1>2 DEF CallObtain, ObtainLoadHead, ObtainFindsBuffer, CasHead, CasHeadFails,
                  ClaimAvailable, ReturnLoadTail, ReturnFindsRoom, CasTail, CasTailFails,
                  ClaimEmpty, SetAvailable, slots
    <2>2. \A u \in Thread : pc'[u] = "setEmpty" => pc[u] = "setEmpty"
      BY <1>0, <1>2 DEF TypeOK, CallObtain, ObtainLoadHead, ObtainFindsBuffer, CasHead,
                  CasHeadFails, ClaimAvailable, ReturnLoadTail, ReturnFindsRoom, CasTail,
                  CasTailFails, ClaimEmpty, SetAvailable
    <2> QED BY <2>1, <2>2, OwnerStays
  <1>3. ASSUME NEW t \in Thread, ObtainFindsEmpty(t)
        PROVE  OneOwner'
    <2>1. PICK b \in heap : /\ heap' = heap \ {b}
                           /\ owned' = owned \cup {b}
      BY <1>3 DEF ObtainFindsEmpty
    <2>2. UNCHANGED <<buffers, hand>> /\ pc' = [pc EXCEPT ![t] = "idle"]
      BY <1>3 DEF ObtainFindsEmpty, slots
    <2>3. b \in Buffer /\ b # Null
      BY <1>0, NullAssumption DEF TypeOK
    <2>4. NoneLost'
      BY <1>0, <2>1, <2>2 DEF TypeOK, OneOwner, NoneLost
    <2>5. NoneShared'
      BY <1>0, <2>1, <2>2, <2>3 DEF TypeOK, OneOwner, NoneShared
    <2> QED BY <1>0, <2>2, <2>4, <2>5 DEF TypeOK, OneOwner
  <1>4. ASSUME NEW t \in Thread, MoveOut(t)
        PROVE  OneOwner'
    <2>1. /\ hand' = [hand EXCEPT ![t] = buffers[index[t]]]
          /\ buffers' = [buffers EXCEPT ![index[t]] = Null]
          /\ UNCHANGED <<owned, heap>> /\ pc' = [pc EXCEPT ![t] = "setEmpty"]
          /\ pc[t] = "moveOut"
      BY <1>4 DEF MoveOut
    <2>2. hand[t] = Null /\ buffers[index[t]] # Null /\ index[t] \in Index
      BY <1>0, <2>1 DEF IInv, HandInv, SlotInv, ReturnPc, TypeOK
    <2>3. NoneLost'
      BY <1>0, <2>1, <2>2, NullAssumption DEF TypeOK, OneOwner, NoneLost
    <2>4. NoneShared'
      BY <1>0, <2>1, <2>2 DEF TypeOK, OneOwner, NoneShared
    <2> QED BY <1>0, <2>1, <2>2, <2>3, <2>4 DEF TypeOK, OneOwner
  <1>5. ASSUME NEW t \in Thread, SetEmpty(t)
        PROVE  OneOwner'
    <2>1. /\ owned' = owned \cup {hand[t]}
          /\ hand' = [hand EXCEPT ![t] = Null]
          /\ UNCHANGED <<buffers, heap>> /\ pc' = [pc EXCEPT ![t] = "idle"]
          /\ pc[t] = "setEmpty"
      BY <1>5 DEF SetEmpty
    <2>2. hand[t] \in Buffer /\ hand[t] # Null
      BY <1>0, <2>1 DEF IInv, HandInv, TypeOK
    <2>3. NoneLost'
      BY <1>0, <2>1, <2>2 DEF TypeOK, OneOwner, NoneLost
    <2>4. NoneShared'
      BY <1>0, <2>1, <2>2, NullAssumption DEF TypeOK, OneOwner, NoneShared
    <2> QED BY <1>0, <2>1, <2>3, <2>4 DEF TypeOK, OneOwner
  <1>6. ASSUME NEW t \in Thread, NEW b \in Buffer, CallReturn(t, b)
        PROVE  OneOwner'
    <2>1. /\ owned' = owned \ {b}
          /\ hand' = [hand EXCEPT ![t] = b]
          /\ UNCHANGED <<buffers, heap>> /\ pc' = [pc EXCEPT ![t] = "return"]
          /\ pc[t] = "idle" /\ b \in owned
      BY <1>6 DEF CallReturn, slots
    <2>2. hand[t] = Null /\ b # Null
      BY <1>0, <2>1, NullAssumption DEF IInv, HandInv, ReturnPc, TypeOK
    <2>3. NoneLost'
      BY <1>0, <2>1, <2>2, NullAssumption DEF TypeOK, OneOwner, NoneLost
    <2>4. NoneShared'
      BY <1>0, <2>1, <2>2 DEF TypeOK, OneOwner, NoneShared
    <2> QED BY <1>0, <2>1, <2>3, <2>4 DEF TypeOK, OneOwner
  <1>7. ASSUME NEW t \in Thread, ReturnFindsFull(t)
        PROVE  OneOwner'
    <2>1. /\ heap' = heap \cup {hand[t]} /\ hand' = [hand EXCEPT ![t] = Null]
          /\ UNCHANGED <<buffers, owned>> /\ pc' = [pc EXCEPT ![t] = "idle"]
          /\ pc[t] = "returnLoadHead"
      BY <1>7 DEF ReturnFindsFull, slots
    <2>2. hand[t] \in Buffer /\ hand[t] # Null
      BY <1>0, <2>1 DEF IInv, HandInv, ReturnPc, TypeOK
    <2>3. NoneLost'
      BY <1>0, <2>1, <2>2 DEF TypeOK, OneOwner, NoneLost
    <2>4. NoneShared'
      BY <1>0, <2>1, <2>2, NullAssumption DEF TypeOK, OneOwner, NoneShared
    <2> QED BY <1>0, <2>1, <2>3, <2>4 DEF TypeOK, OneOwner
  <1>8. ASSUME NEW t \in Thread, MoveIn(t)
        PROVE  OneOwner'
    <2>1. /\ buffers' = [buffers EXCEPT ![index[t]] = hand[t]]
          /\ hand' = [hand EXCEPT ![t] = Null]
          /\ UNCHANGED <<owned, heap>> /\ pc' = [pc EXCEPT ![t] = "setAvailable"]
          /\ pc[t] = "moveIn"
      BY <1>8 DEF MoveIn
    <2>2. /\ hand[t] \in Buffer /\ hand[t] # Null
          /\ index[t] \in Index /\ buffers[index[t]] = Null
      BY <1>0, <2>1 DEF IInv, HandInv, SlotInv, ReturnPc, TypeOK
    <2>3. NoneLost'
      BY <1>0, <2>1, <2>2, NullAssumption DEF TypeOK, OneOwner, NoneLost
    <2>4. NoneShared'
      BY <1>0, <2>1, <2>2, NullAssumption DEF TypeOK, OneOwner, NoneShared
    <2> QED BY <1>0, <2>1, <2>3, <2>4 DEF TypeOK, OneOwner
  <1>9. ASSUME NEW b \in Buffer, DeleteBuffer(b)
        PROVE  OneOwner'
    <2>1. /\ owned' = owned \ {b} /\ heap' = heap \cup {b} /\ b \in owned
          /\ UNCHANGED <<buffers, hand, pc>>
      BY <1>9 DEF DeleteBuffer, slots
    <2>2. NoneLost' /\ NoneShared'
      BY <2>1 DEF OneOwner, NoneLost, NoneShared
    <2> QED BY <2>1, <2>2 DEF OneOwner
  <1> QED
    BY <1>1, <1>2, <1>3, <1>4, <1>5, <1>6, <1>7, <1>8, <1>9 DEF Next, ObtainBuffer, ReturnBuffer

\* Each buffer has one owner: two frames never share one and none is lost, even
\* when the ring drops a buffer or an index laps it (BufferPool.cc:38-76).
THEOREM BuffersHaveOneOwner == Spec => []OneOwner
  BY OwnerInit, OwnerNext, Invariance, PTL DEF Spec

LEMMA OwnershipInit == Init => Ownership!Init
  BY DEF Init, Ownership!Init

LEMMA OwnershipNext == IInv /\ OneOwner /\ [Next]_vars => [Ownership!Next]_owned
  <1> SUFFICES ASSUME IInv, OneOwner, Next, owned' # owned
               PROVE  Ownership!Next
    BY DEF vars
  <1>1. ASSUME NEW t \in Thread, ObtainFindsEmpty(t)
        PROVE  Ownership!Next
    BY <1>1 DEF ObtainFindsEmpty, IInv, TypeOK, OneOwner, NoneShared, Ownership!Next, Ownership!Obtain
  <1>2. ASSUME NEW t \in Thread, SetEmpty(t)
        PROVE  Ownership!Next
    <2>1. hand[t] \in Buffer /\ hand[t] \notin owned
      BY <1>2 DEF SetEmpty, Go, IInv, TypeOK, HandInv, OneOwner, NoneShared
    <2> QED BY <1>2, <2>1 DEF SetEmpty, Ownership!Next, Ownership!Obtain
  <1>3. ASSUME NEW t \in Thread, NEW b \in Buffer, CallReturn(t, b)
        PROVE  Ownership!Next
    BY <1>3 DEF CallReturn, Ownership!Next, Ownership!Return
  <1>4. ASSUME NEW b \in Buffer, DeleteBuffer(b)
        PROVE  Ownership!Next
    BY <1>4 DEF DeleteBuffer, Ownership!Next, Ownership!Return
  <1> QED
    BY <1>1, <1>2, <1>3, <1>4
    DEF Next, ObtainBuffer, ReturnBuffer, holders, CallObtain, ObtainLoadHead, ObtainFindsBuffer,
        CasHead, CasHeadFails, ClaimAvailable, MoveOut, ReturnLoadTail, ReturnFindsFull,
        ReturnFindsRoom, CasTail, CasTailFails, ClaimEmpty, MoveIn, SetAvailable

\* The pool keeps the promise that EtherFrame builds on: Obtain is the end of
\* ObtainBuffer, Return the call of ReturnBuffer, all else stutters.
THEOREM PoolImplementsOwnership == Spec => ImplementsOwnership
  <1>1. Spec => [](IInv /\ OneOwner)
    BY Invariance, BuffersHaveOneOwner, PTL
  <1> QED BY <1>1, OwnershipInit, OwnershipNext, PTL DEF Spec, ImplementsOwnership, Ownership!Spec

-----------------------------------------------------------------------------
(* What the indexes count.  A slot between the swap of tail that reserves it and  *)
(* the last store of its status is as good as filled, and one whose reader has    *)
(* swapped head but not claimed the slot as good as empty.                        *)

Filling == {"claimEmpty"} \cup Storing

\* For slots I: the threads on their way to fill one, the slots that are filled,
\* the threads that will empty one.
PuttersIn(I) == {t \in Thread : pc[t] \in Filling /\ index[t] \in I}
StoredIn(I) == {i \in I : status[i] = "available"}
TakersIn(I) == {t \in Thread : pc[t] = "claimAvailable" /\ index[t] \in I}

Balance(I) == Cardinality(PuttersIn(I)) + Cardinality(StoredIn(I)) - Cardinality(TakersIn(I))

LEMMA CountsAreFinite ==
  ASSUME NEW I \in SUBSET Index
  PROVE  /\ IsFiniteSet(PuttersIn(I)) /\ Cardinality(PuttersIn(I)) \in Nat
         /\ IsFiniteSet(StoredIn(I)) /\ Cardinality(StoredIn(I)) \in Nat
         /\ IsFiniteSet(TakersIn(I)) /\ Cardinality(TakersIn(I)) \in Nat
  <1>1. IsFiniteSet(Index)
    BY PoolSizeAssumption, FS_Interval DEF Index
  <1>2. IsFiniteSet(StoredIn(I))
    BY <1>1, FS_Subset DEF StoredIn
  <1>3. IsFiniteSet(PuttersIn(I)) /\ IsFiniteSet(TakersIn(I))
    BY ThreadAssumption, FS_Subset DEF PuttersIn, TakersIn
  <1> QED BY <1>2, <1>3, FS_CardinalityType

\* How a call changes the three sets: the two swaps reserve a slot, the claim of a
\* reader empties it and the last store of a writer fills it; no other step counts.
LEMMA BalanceStep ==
  ASSUME IInv, NEW t \in Thread, ObtainBuffer(t) \/ ReturnBuffer(t), NEW I \in SUBSET Index
  PROVE  \/ UNCHANGED ring /\ Balance(I)' = Balance(I)
         \/ /\ head' = NextIndex(head) /\ tail' = tail
            /\ Balance(I)' = Balance(I) - (IF head \in I THEN 1 ELSE 0)
         \/ /\ tail' = NextIndex(tail) /\ head' = head
            /\ Balance(I)' = Balance(I) + (IF tail \in I THEN 1 ELSE 0)
  <1> USE DEF Go
  <1>0. TypeOK
    BY DEF IInv
  <1>1. CASE CasHead(t)
    <2>1. PuttersIn(I)' = PuttersIn(I) /\ StoredIn(I)' = StoredIn(I)
      BY <1>0, <1>1 DEF CasHead, TypeOK, PuttersIn, StoredIn, Filling, Storing, slots
    <2>2. TakersIn(I)' = IF head \in I THEN TakersIn(I) \cup {t} ELSE TakersIn(I)
      BY <1>0, <1>1 DEF CasHead, TypeOK, TakersIn
    <2>3. t \notin TakersIn(I)
      BY <1>1 DEF CasHead, TakersIn
    <2>4. Cardinality(TakersIn(I)') = Cardinality(TakersIn(I)) + (IF head \in I THEN 1 ELSE 0)
      <3>1. Cardinality(TakersIn(I) \cup {t}) = Cardinality(TakersIn(I)) + 1
        BY <2>3, CountsAreFinite, FS_AddElement
      <3> QED BY <2>2, <3>1, CountsAreFinite
    <2> QED BY <1>1, <2>1, <2>4, CountsAreFinite DEF CasHead, Balance
  <1>2. CASE CasTail(t)
    <2>1. TakersIn(I)' = TakersIn(I) /\ StoredIn(I)' = StoredIn(I)
      BY <1>0, <1>2 DEF CasTail, TypeOK, TakersIn, StoredIn, slots
    <2>2. PuttersIn(I)' = IF tail \in I THEN PuttersIn(I) \cup {t} ELSE PuttersIn(I)
      BY <1>0, <1>2 DEF CasTail, TypeOK, PuttersIn, Filling, Storing
    <2>3. t \notin PuttersIn(I)
      BY <1>2 DEF CasTail, PuttersIn, Filling, Storing
    <2>4. Cardinality(PuttersIn(I)') = Cardinality(PuttersIn(I)) + (IF tail \in I THEN 1 ELSE 0)
      <3>1. Cardinality(PuttersIn(I) \cup {t}) = Cardinality(PuttersIn(I)) + 1
        BY <2>3, CountsAreFinite, FS_AddElement
      <3> QED BY <2>2, <3>1, CountsAreFinite
    <2> QED BY <1>2, <2>1, <2>4, CountsAreFinite DEF CasTail, Balance
  <1>3. CASE ClaimAvailable(t)
    <2>1. PuttersIn(I)' = PuttersIn(I) /\ UNCHANGED ring
      BY <1>0, <1>3 DEF ClaimAvailable, TypeOK, PuttersIn, Filling, Storing
    <2>2. CASE index[t] \in I
      <3>1. TakersIn(I)' = TakersIn(I) \ {t} /\ t \in TakersIn(I)
        BY <1>0, <1>3, <2>2 DEF ClaimAvailable, TypeOK, TakersIn
      <3>2. StoredIn(I)' = StoredIn(I) \ {index[t]} /\ index[t] \in StoredIn(I)
        BY <1>0, <1>3, <2>2 DEF ClaimAvailable, TypeOK, StoredIn
      <3>3. Cardinality(TakersIn(I)') = Cardinality(TakersIn(I)) - 1
        BY <3>1, CountsAreFinite, FS_RemoveElement
      <3>4. Cardinality(StoredIn(I)') = Cardinality(StoredIn(I)) - 1
        <4>1. Cardinality(StoredIn(I) \ {index[t]}) = Cardinality(StoredIn(I)) - 1
          BY <3>2, CountsAreFinite, FS_RemoveElement
        <4> QED BY <3>2, <4>1
      <3> QED BY <2>1, <3>3, <3>4, CountsAreFinite DEF Balance
    <2>3. CASE index[t] \notin I
      <3>1. TakersIn(I)' = TakersIn(I) /\ StoredIn(I)' = StoredIn(I)
        BY <1>0, <1>3, <2>3 DEF ClaimAvailable, TypeOK, TakersIn, StoredIn
      <3> QED BY <2>1, <3>1 DEF Balance
    <2> QED BY <2>2, <2>3
  <1>4. CASE SetAvailable(t)
    <2>1. TakersIn(I)' = TakersIn(I) /\ UNCHANGED ring
      BY <1>0, <1>4 DEF SetAvailable, TypeOK, TakersIn
    <2>2. CASE index[t] \in I
      <3>1. PuttersIn(I)' = PuttersIn(I) \ {t} /\ t \in PuttersIn(I)
        BY <1>0, <1>4, <2>2 DEF SetAvailable, TypeOK, PuttersIn, Filling, Storing
      <3>2. StoredIn(I)' = StoredIn(I) \cup {index[t]} /\ index[t] \notin StoredIn(I)
        BY <1>0, <1>4, <2>2 DEF SetAvailable, TypeOK, StoredIn, IInv, ClaimInv, Storing
      <3>3. Cardinality(PuttersIn(I)') = Cardinality(PuttersIn(I)) - 1
        BY <3>1, CountsAreFinite, FS_RemoveElement
      <3>4. Cardinality(StoredIn(I)') = Cardinality(StoredIn(I)) + 1
        BY <3>2, CountsAreFinite, FS_AddElement
      <3> QED BY <2>1, <3>3, <3>4, CountsAreFinite DEF Balance
    <2>3. CASE index[t] \notin I
      <3>1. PuttersIn(I)' = PuttersIn(I) /\ StoredIn(I)' = StoredIn(I)
        BY <1>0, <1>4, <2>3 DEF SetAvailable, TypeOK, PuttersIn, StoredIn, Filling, Storing
      <3> QED BY <2>1, <3>1 DEF Balance
    <2> QED BY <2>2, <2>3
  <1>5. CASE ClaimEmpty(t) \/ SetEmpty(t)
    <2>1. PuttersIn(I)' = PuttersIn(I) /\ TakersIn(I)' = TakersIn(I) /\ UNCHANGED ring
      BY <1>0, <1>5 DEF ClaimEmpty, SetEmpty, TypeOK, PuttersIn, TakersIn, Filling, Storing
    <2>2. StoredIn(I)' = StoredIn(I)
      BY <1>0, <1>5 DEF ClaimEmpty, SetEmpty, TypeOK, StoredIn, IInv, ClaimInv, Loading
    <2> QED BY <2>1, <2>2 DEF Balance
  <1>6. CASE \/ CallObtain(t) \/ ObtainLoadHead(t) \/ ObtainFindsEmpty(t) \/ ObtainFindsBuffer(t)
             \/ CasHeadFails(t) \/ MoveOut(t) \/ (\E b \in Buffer : CallReturn(t, b))
             \/ ReturnLoadTail(t) \/ ReturnFindsFull(t) \/ ReturnFindsRoom(t)
             \/ CasTailFails(t) \/ MoveIn(t)
    <2>1. UNCHANGED ring /\ UNCHANGED status
      BY <1>6 DEF CallObtain, ObtainLoadHead, ObtainFindsEmpty, ObtainFindsBuffer, CasHeadFails,
          MoveOut, CallReturn, ReturnLoadTail, ReturnFindsFull, ReturnFindsRoom, CasTailFails,
          MoveIn, slots
    <2>2. PuttersIn(I)' = PuttersIn(I) /\ TakersIn(I)' = TakersIn(I)
      BY <1>0, <1>6 DEF CallObtain, ObtainLoadHead, ObtainFindsEmpty, ObtainFindsBuffer,
          CasHeadFails, MoveOut, CallReturn, ReturnLoadTail, ReturnFindsFull, ReturnFindsRoom,
          CasTailFails, MoveIn, TypeOK, PuttersIn, TakersIn, Filling, Storing
    <2> QED BY <2>1, <2>2 DEF Balance, StoredIn
  <1> QED BY <1>1, <1>2, <1>3, <1>4, <1>5, <1>6 DEF ObtainBuffer, ReturnBuffer

\* A step that is no part of a call.
LEMMA BalanceStays ==
  ASSUME NEW I, UNCHANGED <<ring, status, pc, index>>
  PROVE  UNCHANGED ring /\ Balance(I)' = Balance(I)
  BY DEF Balance, PuttersIn, StoredIn, TakersIn

-----------------------------------------------------------------------------
(* The distance of the indexes. *)

RingBalances == (tail - head - Balance(Index)) % kMaxPoolSize = 0

LEMMA OneLap ==
  ASSUME NEW n \in Int, n % kMaxPoolSize = 0
  PROVE  (n + kMaxPoolSize) % kMaxPoolSize = 0 /\ (n - kMaxPoolSize) % kMaxPoolSize = 0
  <1>1. PICK q \in Int : n = q * kMaxPoolSize
    BY PoolSizeAssumption
  <1>2. n + kMaxPoolSize = (q + 1) * kMaxPoolSize /\ n - kMaxPoolSize = (q - 1) * kMaxPoolSize
    BY <1>1, PoolSizeAssumption
  <1>3. \A p \in Int : (p * kMaxPoolSize) % kMaxPoolSize = 0
    BY PoolSizeAssumption
  <1> QED BY <1>2, <1>3

LEMMA RingInit == Init => RingBalances
  <1> SUFFICES ASSUME Init PROVE RingBalances
    OBVIOUS
  <1>1. PuttersIn(Index) = {} /\ StoredIn(Index) = {} /\ TakersIn(Index) = {}
    BY DEF Init, PuttersIn, StoredIn, TakersIn, Filling, Storing
  <1>2. Balance(Index) = 0
    BY <1>1, FS_EmptySet DEF Balance
  <1> QED BY <1>2, PoolSizeAssumption DEF Init, RingBalances

LEMMA RingNext == IInv /\ RingBalances /\ [Next]_vars => RingBalances'
  <1> SUFFICES ASSUME IInv, RingBalances, [Next]_vars PROVE RingBalances'
    OBVIOUS
  <1>1. head \in Index /\ tail \in Index /\ Balance(Index) \in Int
    BY CountsAreFinite DEF IInv, TypeOK, Balance
  <1>2. CASE UNCHANGED ring /\ Balance(Index)' = Balance(Index)
    BY <1>2 DEF RingBalances, ring
  <1>3. ASSUME NEW t \in Thread, ObtainBuffer(t) \/ ReturnBuffer(t)
        PROVE  RingBalances'
    <2>1. CASE /\ head' = NextIndex(head) /\ tail' = tail
               /\ Balance(Index)' = Balance(Index) - 1
      <3>1. LET n == tail - head - Balance(Index)
            IN  (tail - head - Balance(Index))' \in {n, n + kMaxPoolSize}
        BY <1>1, <2>1, PoolSizeAssumption DEF NextIndex, Index
      <3>2. tail - head - Balance(Index) \in Int
        BY <1>1 DEF Index
      <3> QED BY <3>1, <3>2, OneLap DEF RingBalances
    <2>2. CASE /\ tail' = NextIndex(tail) /\ head' = head
               /\ Balance(Index)' = Balance(Index) + 1
      <3>1. LET n == tail - head - Balance(Index)
            IN  (tail - head - Balance(Index))' \in {n, n - kMaxPoolSize}
        BY <1>1, <2>2, PoolSizeAssumption DEF NextIndex, Index
      <3>2. tail - head - Balance(Index) \in Int
        BY <1>1 DEF Index
      <3> QED BY <3>1, <3>2, OneLap DEF RingBalances
    <2> QED BY <1>1, <1>2, <1>3, <2>1, <2>2, BalanceStep
  <1>4. CASE (\E b \in Buffer : DeleteBuffer(b)) \/ UNCHANGED vars
    BY <1>2, <1>4, BalanceStays DEF DeleteBuffer, slots, ring, vars
  <1> QED BY <1>3, <1>4 DEF Next

\* Whenever no call is running the indexes tell how many buffers the ring holds, up
\* to a lap, whatever swaps have been fooled (BufferPool.cc:38-76).
THEOREM CountsAlwaysAgree == Spec => []CountsAgree
  <1>1. IInv /\ RingBalances => CountsAgree
    <2> SUFFICES ASSUME RingBalances, Quiescent
                 PROVE  (tail - head - Cardinality(Stored)) % kMaxPoolSize = 0
      BY DEF CountsAgree
    <2>1. PuttersIn(Index) = {} /\ TakersIn(Index) = {} /\ StoredIn(Index) = Stored
      BY DEF Quiescent, PuttersIn, TakersIn, StoredIn, Stored, Filling, Storing
    <2>2. Balance(Index) = Cardinality(Stored)
      BY <2>1, FS_EmptySet, CountsAreFinite DEF Balance
    <2> QED BY <2>2 DEF RingBalances
  <1> QED BY <1>1, RingInit, RingNext, Invariance, PTL DEF Spec
=============================================================================
