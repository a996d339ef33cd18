------------------------------ MODULE BufferPool ------------------------------
(***************************************************************************)
(* The lock-free pool of frame buffers of src/veth/BufferPool.cc: a ring of *)
(* slots, two indexes advanced by compare-and-swap and a status word that   *)
(* guards the pointer of each slot.  Every atomic access is a step of its   *)
(* own, and so is every access to a slot's pointer, which is not atomic.    *)
(*                                                                          *)
(* Steps interleave sequentially.  The acquire loads and release            *)
(* compare-and-swaps of an index order the relaxed load of the other index  *)
(* behind the one that the last advance was based on, and the status word   *)
(* orders the two accesses to a pointer.                                    *)
(***************************************************************************)
EXTENDS Integers, FiniteSets

CONSTANTS Thread,
          Buffer,          \* bound: the buffers that make_unique can return
          Null,            \* nullptr
          kMaxPoolSize     \* 1024

ASSUME PoolSizeAssumption == kMaxPoolSize \in Nat /\ kMaxPoolSize > 1
ASSUME NullAssumption == Null \notin Buffer
ASSUME ThreadAssumption == IsFiniteSet(Thread)

VARIABLES head,      \* begin: the next available buffer
          tail,      \* end: one past the last available buffer
          status,    \* [Index -> Status]
          buffers,   \* [Index -> Buffer or Null]
          pc,        \* where each thread is
          index,     \* the value of head or tail that the thread loaded
          hand,      \* the buffer that the running call of the thread holds
          owned,     \* the buffers that belong to frames, which may change threads
          heap       \* the buffers that are not allocated

ring == <<head, tail>>
slots == <<status, buffers>>
holders == <<hand, owned, heap>>
vars == <<head, tail, status, buffers, pc, index, hand, owned, heap>>

Index == 0 .. kMaxPoolSize - 1
Status == {"empty", "inUseLoading", "available", "inUseStoring"}
ObtainPc == {"obtain", "obtainLoadTail", "casHead", "claimAvailable", "moveOut", "setEmpty"}
ReturnPc == {"return", "returnLoadHead", "casTail", "claimEmpty", "moveIn", "setAvailable"}
Pc == {"idle"} \cup ObtainPc \cup ReturnPc

\* Mutant: the index runs past the ring.
NextIndexNoWrap(i) == i + 1

\* (i + 1) % kMaxPoolSize for an index i.
NextIndex(i) == IF i + 1 = kMaxPoolSize THEN 0 ELSE i + 1

Init == /\ head = 0
        /\ tail = 0
        /\ status = [i \in Index |-> "empty"]
        /\ buffers = [i \in Index |-> Null]
        /\ pc = [t \in Thread |-> "idle"]
        /\ index = [t \in Thread |-> 0]
        /\ hand = [t \in Thread |-> Null]
        /\ owned = {}
        /\ heap = Buffer

Go(t, from, to) == pc[t] = from /\ pc' = [pc EXCEPT ![t] = to]

-----------------------------------------------------------------------------
(* ObtainBuffer. *)

CallObtain(t) ==
    /\ Go(t, "idle", "obtain")
    /\ UNCHANGED <<ring, slots, index, holders>>

ObtainLoadHead(t) ==
    /\ Go(t, "obtain", "obtainLoadTail")
    /\ index' = [index EXCEPT ![t] = head]
    /\ UNCHANGED <<ring, slots, holders>>

\* The ring looks empty: the caller allocates a buffer.
ObtainFindsEmpty(t) ==
    /\ Go(t, "obtainLoadTail", "idle")
    /\ index[t] = tail
    /\ \E b \in heap : /\ heap' = heap \ {b}
                       /\ owned' = owned \cup {b}
    /\ UNCHANGED <<ring, slots, index, hand>>

\* Mutant: the ring is not checked for emptiness.
ObtainFindsAnything(t) ==
    /\ Go(t, "obtainLoadTail", "casHead")
    /\ UNCHANGED <<ring, slots, index, holders>>

ObtainFindsBuffer(t) ==
    /\ Go(t, "obtainLoadTail", "casHead")
    /\ index[t] # tail
    /\ UNCHANGED <<ring, slots, index, holders>>

CasHead(t) ==
    /\ Go(t, "casHead", "claimAvailable")
    /\ head = index[t]
    /\ head' = NextIndex(head)
    /\ UNCHANGED <<tail, slots, index, holders>>

\* compare_exchange_weak may fail even if the values are equal.
CasHeadFails(t) ==
    /\ Go(t, "casHead", "obtain")
    /\ UNCHANGED <<ring, slots, index, holders>>

\* Mutant: the thread does not wait for the slot to be filled.
ClaimWithoutWaiting(t) ==
    /\ Go(t, "claimAvailable", "moveOut")
    /\ status' = [status EXCEPT ![index[t]] = "inUseLoading"]
    /\ UNCHANGED <<ring, buffers, index, holders>>

\* The spin on the status word ends.
ClaimAvailable(t) ==
    /\ Go(t, "claimAvailable", "moveOut")
    /\ status[index[t]] = "available"
    /\ status' = [status EXCEPT ![index[t]] = "inUseLoading"]
    /\ UNCHANGED <<ring, buffers, index, holders>>

\* Mutant: the pointer is copied and stays in the slot.
CopyOut(t) ==
    /\ Go(t, "moveOut", "setEmpty")
    /\ hand' = [hand EXCEPT ![t] = buffers[index[t]]]
    /\ UNCHANGED <<ring, slots, index, owned, heap>>

MoveOut(t) ==
    /\ Go(t, "moveOut", "setEmpty")
    /\ hand' = [hand EXCEPT ![t] = buffers[index[t]]]
    /\ buffers' = [buffers EXCEPT ![index[t]] = Null]
    /\ UNCHANGED <<ring, status, index, owned, heap>>

SetEmpty(t) ==
    /\ Go(t, "setEmpty", "idle")
    /\ status' = [status EXCEPT ![index[t]] = "empty"]
    /\ owned' = owned \cup {hand[t]}
    /\ hand' = [hand EXCEPT ![t] = Null]
    /\ UNCHANGED <<ring, buffers, index, heap>>

-----------------------------------------------------------------------------
(* ReturnBuffer. *)

CallReturn(t, b) ==
    /\ Go(t, "idle", "return")
    /\ b \in owned
    /\ owned' = owned \ {b}
    /\ hand' = [hand EXCEPT ![t] = b]
    /\ UNCHANGED <<ring, slots, index, heap>>

ReturnLoadTail(t) ==
    /\ Go(t, "return", "returnLoadHead")
    /\ index' = [index EXCEPT ![t] = tail]
    /\ UNCHANGED <<ring, slots, holders>>

\* The ring looks full: the buffer is freed.
ReturnFindsFull(t) ==
    /\ Go(t, "returnLoadHead", "idle")
    /\ NextIndex(index[t]) = head
    /\ heap' = heap \cup {hand[t]}
    /\ hand' = [hand EXCEPT ![t] = Null]
    /\ UNCHANGED <<ring, slots, index, owned>>

\* Mutant: the ring may be filled up to its last slot.
ReturnFindsAnything(t) ==
    /\ Go(t, "returnLoadHead", "casTail")
    /\ UNCHANGED <<ring, slots, index, holders>>

ReturnFindsRoom(t) ==
    /\ Go(t, "returnLoadHead", "casTail")
    /\ NextIndex(index[t]) # head
    /\ UNCHANGED <<ring, slots, index, holders>>

\* Mutant: the tail is stored, not compared and swapped.
StoreTail(t) ==
    /\ Go(t, "casTail", "claimEmpty")
    /\ tail' = NextIndex(index[t])
    /\ UNCHANGED <<head, slots, index, holders>>

CasTail(t) ==
    /\ Go(t, "casTail", "claimEmpty")
    /\ tail = index[t]
    /\ tail' = NextIndex(tail)
    /\ UNCHANGED <<head, slots, index, holders>>

CasTailFails(t) ==
    /\ Go(t, "casTail", "return")
    /\ UNCHANGED <<ring, slots, index, holders>>

ClaimEmpty(t) ==
    /\ Go(t, "claimEmpty", "moveIn")
    /\ status[index[t]] = "empty"
    /\ status' = [status EXCEPT ![index[t]] = "inUseStoring"]
    /\ UNCHANGED <<ring, buffers, index, holders>>

MoveIn(t) ==
    /\ Go(t, "moveIn", "setAvailable")
    /\ buffers' = [buffers EXCEPT ![index[t]] = hand[t]]
    /\ hand' = [hand EXCEPT ![t] = Null]
    /\ UNCHANGED <<ring, status, index, owned, heap>>

SetAvailable(t) ==
    /\ Go(t, "setAvailable", "idle")
    /\ status' = [status EXCEPT ![index[t]] = "available"]
    /\ UNCHANGED <<ring, buffers, index, holders>>

-----------------------------------------------------------------------------
(* What frames do with their buffers outside the pool, see EtherFrame. *)

\* A frame that is assigned to deletes the buffer it had.
DeleteBuffer(b) ==
    /\ b \in owned
    /\ owned' = owned \ {b}
    /\ heap' = heap \cup {b}
    /\ UNCHANGED <<ring, slots, pc, index, hand>>

-----------------------------------------------------------------------------

ObtainBuffer(t) ==
    \/ CallObtain(t) \/ ObtainLoadHead(t)
    \/ ObtainFindsEmpty(t) \/ ObtainFindsBuffer(t)
    \/ CasHead(t) \/ CasHeadFails(t)
    \/ ClaimAvailable(t) \/ MoveOut(t) \/ SetEmpty(t)

ReturnBuffer(t) ==
    \/ \E b \in Buffer : CallReturn(t, b)
    \/ ReturnLoadTail(t)
    \/ ReturnFindsFull(t) \/ ReturnFindsRoom(t)
    \/ CasTail(t) \/ CasTailFails(t)
    \/ ClaimEmpty(t) \/ MoveIn(t) \/ SetAvailable(t)

Next == \/ \E t \in Thread : ObtainBuffer(t) \/ ReturnBuffer(t)
        \/ \E b \in Buffer : DeleteBuffer(b)

Spec == Init /\ [][Next]_vars

-----------------------------------------------------------------------------
(* Properties. *)

TypeOK ==
    /\ head \in Index /\ tail \in Index
    /\ status \in [Index -> Status]
    /\ buffers \in [Index -> Buffer \cup {Null}]
    /\ pc \in [Thread -> Pc]
    /\ index \in [Thread -> Index]
    /\ hand \in [Thread -> Buffer \cup {Null}]
    /\ owned \subseteq Buffer
    /\ heap \subseteq Buffer

\* CHECK(buffers[t] == nullptr) of BufferPool.cc:70 never aborts the process.
CheckHolds == \A t \in Thread : pc[t] = "moveIn" => buffers[index[t]] = Null

\* A pointer is not atomic: no two threads are about to access that of one slot.
NoDataRace ==
    \A t, u \in Thread :
        /\ pc[t] \in {"moveOut", "moveIn"}
        /\ pc[u] \in {"moveOut", "moveIn"}
        /\ index[t] = index[u]
        => t = u

\* unique_ptr: each buffer is in exactly one place, so no two frames share one,
\* none is lost, and a null pointer is never handed out as a buffer of the ring.
NoneLost ==
    \A b \in Buffer : \/ b \in heap \cup owned
                      \/ \E i \in Index : buffers[i] = b
                      \/ \E t \in Thread : hand[t] = b
NoneShared ==
    /\ heap \cap owned = {}
    /\ \A i, j \in Index : buffers[i] = buffers[j] /\ buffers[i] # Null => i = j
    /\ \A t, u \in Thread : hand[t] = hand[u] /\ hand[t] # Null => t = u
    /\ \A i \in Index, t \in Thread : buffers[i] # Null => buffers[i] # hand[t]
    /\ \A i \in Index : buffers[i] \notin heap \cup owned
    /\ \A t \in Thread : hand[t] \notin heap \cup owned
OneOwner == NoneLost /\ NoneShared /\ \A t \in Thread : pc[t] = "setEmpty" => hand[t] # Null

Quiescent == \A t \in Thread : pc[t] = "idle"
Stored == {i \in Index : status[i] = "available"}

\* When no call is running, the distance of the indexes tells how many buffers the
\* ring holds, up to a multiple of its size.
CountsAgree ==
    Quiescent => (tail - head - Cardinality(Stored)) % kMaxPoolSize = 0

\* Through the atomic steps, what frames see is BufferOwnership: a buffer that is
\* handed out is nobody's, and only its owner gives it up (BufferPool.cc:38-76).
Ownership == INSTANCE BufferOwnership
ImplementsOwnership == Ownership!Spec

\* BufferPool.cc:33-34: head "is the next available buffer", tail "points to one
\* past the last available buffer": the buffers at hand are those between them.
InWindow(i) == IF head <= tail THEN head <= i /\ i < tail ELSE head <= i \/ i < tail
WindowIsExact == Quiescent => Stored = {i \in Index : InWindow(i)}
=============================================================================
