--------------------------- MODULE BufferPoolWindow ---------------------------
(***************************************************************************)
(* BufferPool with history variables that say when a compare-and-swap was   *)
(* fooled: the index that it advances has moved since it was loaded and has *)
(* come back to the same value (ABA).  The variables read the steps of      *)
(* BufferPool and restrict none.  As long as no swap was fooled, the two    *)
(* indexes mean what their comments say and no thread waits for ever; after *)
(* one was, see WindowIsExact.                                              *)
(***************************************************************************)
EXTENDS BufferPool

VARIABLES moved,   \* [Thread -> has the loaded index been advanced since?]
          aba      \* has a compare-and-swap succeeded on an index that moved?

allVars == <<vars, moved, aba>>

WInit == /\ Init
         /\ moved = [t \in Thread |-> FALSE]
         /\ aba = FALSE

HeadLoaded(p) == p \in {"obtainLoadTail", "casHead"}
TailLoaded(p) == p \in {"returnLoadHead", "casTail"}

Swaps(t) == \/ pc[t] = "casHead" /\ pc'[t] = "claimAvailable"
            \/ pc[t] = "casTail" /\ pc'[t] = "claimEmpty"

\* Once fooled, nothing more is recorded, so that states are shared.
WNext == /\ Next
         /\ aba' = (aba \/ \E t \in Thread : moved[t] /\ Swaps(t))
         /\ moved' = [t \in Thread |->
                        /\ ~aba'
                        /\ \/ /\ HeadLoaded(pc[t]) /\ HeadLoaded(pc'[t])
                              /\ moved[t] \/ head' # head
                           \/ /\ TailLoaded(pc[t]) /\ TailLoaded(pc'[t])
                              /\ moved[t] \/ tail' # tail]

WSpec == WInit /\ [][WNext]_allVars

-----------------------------------------------------------------------------
(* Properties. *)

\* The emptiness or fullness that a thread saw is stale when it advances its index
\* (BufferPool.cc:39-45 and 58-64), and still right: unless a swap was fooled, head
\* advances only over a buffer and tail only into room.
ReservesWhatIsThere ==
    [][~aba' => /\ head' # head => head # tail
                /\ tail' # tail => NextIndex(tail) # head]_allVars

\* Unless a swap was fooled, the buffers at hand are those between head and tail.
WindowIsExactUntilFooled == aba \/ WindowIsExact

\* Unless a swap was fooled, the spin loops end (BufferPool.cc:47 and 67): where
\* threads wait for the status of a slot, one of them can go on or a thread that
\* has claimed the slot will change the status.
MayGoOn(t) == \/ pc[t] \in {"moveOut", "setEmpty", "moveIn", "setAvailable"}
              \/ pc[t] = "claimAvailable" /\ status[index[t]] = "available"
              \/ pc[t] = "claimEmpty" /\ status[index[t]] = "empty"
SpinsEndUntilFooled ==
    aba \/ \A t \in Thread :
              pc[t] \in {"claimAvailable", "claimEmpty"} =>
                  \E u \in Thread : index[u] = index[t] /\ MayGoOn(u)
=============================================================================
