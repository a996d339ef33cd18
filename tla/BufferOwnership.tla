--------------------------- MODULE BufferOwnership ---------------------------
(***************************************************************************)
(* What BufferPool promises to the frames that use it: a buffer that is    *)
(* handed out belongs to one owner until that owner gives it up, to the    *)
(* pool or to the allocator, and is handed out again only after that.      *)
(***************************************************************************)
CONSTANT Buffer
VARIABLE owned      \* the buffers that frames hold

Init == owned = {}

Obtain(b) == b \notin owned /\ owned' = owned \cup {b}

Return(b) == b \in owned /\ owned' = owned \ {b}

Next == \E b \in Buffer : Obtain(b) \/ Return(b)

Spec == Init /\ [][Next]_owned
=============================================================================
