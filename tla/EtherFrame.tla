------------------------------ MODULE EtherFrame ------------------------------
(***************************************************************************)
(* The frames of src/veth/EtherFrame.h on top of what the pool promises:   *)
(* construction, both moves, Clone, SetSize, writes through data() and     *)
(* destruction.  A frame object is its two members.  What a user wrote     *)
(* through a frame is kept in text, so that a property can tell it from    *)
(* the octets that an earlier owner left in the buffer.                    *)
(*                                                                         *)
(* A call that C++ leaves undefined is not a step: data() of a frame that  *)
(* was moved from, and Clone of it or of one whose size exceeds its buffer. *)
(***************************************************************************)
EXTENDS BufferOwnership, Integers

CONSTANTS Frame,           \* bound: the objects that may live at one time
          Null,            \* nullptr
          kMaxBufferSize,  \* 16 * 1024
          MaxSize,         \* bound: the sizes that callers give, larger ones included
          Octet,
          Unset            \* no user wrote this octet

ASSUME FrameAssumption ==
    /\ Null \notin Buffer /\ Unset \notin Octet /\ 0 \in Octet
    /\ kMaxBufferSize \in Nat \ {0} /\ MaxSize \in Nat

VARIABLES live,     \* the objects that are alive
          mData,    \* [Frame -> Buffer or Null]
          mSize,    \* [Frame -> Nat]
          content,  \* the octets in each buffer
          text      \* the octets that users wrote to each frame

members == <<live, mData, mSize>>
vars == <<owned, live, mData, mSize, content, text>>

Position == 0 .. kMaxBufferSize - 1
Zeros == [i \in Position |-> 0]
NoText == [i \in Position |-> Unset]
Minimum(m, n) == IF m < n THEN m ELSE n

FInit == /\ Init
         /\ live = {}
         /\ mData = [f \in Frame |-> Null]
         /\ mSize = [f \in Frame |-> 0]
         /\ content = [b \in Buffer |-> Zeros]
         /\ text = [f \in Frame |-> NoText]

-----------------------------------------------------------------------------
(* The two calls of BufferPool. *)

\* What ObtainBuffer may return: never null.
Fresh == Buffer \ owned

\* A buffer of the ring keeps its last octets, one of make_unique is zeroed.
Handed(b) == {content[b], Zeros}

\* ReturnBuffer ignores null; unique_ptr deletes nothing for it.
GiveUp(b) == IF b = Null THEN UNCHANGED owned ELSE Return(b)

-----------------------------------------------------------------------------
(* EtherFrame. *)

\* Mutant: the copy has no room for more than the octets that are copied.
OverlayExact(k, front, back) == [i \in 0 .. k - 1 |-> front[i]]

\* The first k octets of one function and the rest of another.
Overlay(k, front, back) == [i \in Position |-> IF i < k THEN front[i] ELSE back[i]]

Enter(f, b, n) == /\ f \notin live
                  /\ live' = live \cup {f}
                  /\ mData' = [mData EXCEPT ![f] = b]
                  /\ mSize' = [mSize EXCEPT ![f] = n]

\* EtherFrame() has size 0; EtherFrame(size) takes any.
Construct(f, n) ==
    \E b \in Fresh : /\ Obtain(b)
                     /\ Enter(f, b, n)
                     /\ \E octets \in Handed(b) : content' = [content EXCEPT ![b] = octets]
                     /\ text' = [text EXCEPT ![f] = NoText]

\* EtherFrame(data, size) takes a buffer of the caller, with what is in it, or null.
ConstructFrom(f, n) ==
    \/ /\ Enter(f, Null, n)
       /\ text' = [text EXCEPT ![f] = NoText]
       /\ UNCHANGED <<owned, content>>
    \/ \E b \in Fresh, octets \in [Position -> Octet] :
          /\ Obtain(b)
          /\ Enter(f, b, n)
          /\ content' = [content EXCEPT ![b] = octets]
          /\ text' = [text EXCEPT ![f] = octets]

\* Mutant: the octets stay behind.
CloneWithoutCopy(f, g) ==
    /\ f \in live /\ mData[f] # Null /\ mSize[f] <= kMaxBufferSize
    /\ \E b \in Fresh : /\ Obtain(b)
                        /\ Enter(g, b, mSize[f])
                        /\ text' = [text EXCEPT ![g] = Overlay(mSize[f], text[f], NoText)]
    /\ UNCHANGED content

\* g becomes a clone of f: the first mSize octets are copied.
Clone(f, g) ==
    /\ f \in live /\ mData[f] # Null /\ mSize[f] <= kMaxBufferSize
    /\ \E b \in Fresh :
          /\ Obtain(b)
          /\ Enter(g, b, mSize[f])
          /\ \E octets \in Handed(b) :
                content' = [content EXCEPT ![b] = Overlay(mSize[f], content[mData[f]], octets)]
          /\ text' = [text EXCEPT ![g] = Overlay(mSize[f], text[f], NoText)]

\* Mutant: mData is a plain pointer, which a defaulted move copies.
MovedPlain(f, g) == /\ mData' = [mData EXCEPT ![g] = mData[f]]
                    /\ mSize' = [mSize EXCEPT ![g] = mSize[f]]
                    /\ text' = [text EXCEPT ![g] = text[f], ![f] = NoText]
                    /\ UNCHANGED content

\* A defaulted move takes the pointer and copies the size, which stays behind.
Moved(f, g) == /\ mData' = [mData EXCEPT ![g] = mData[f], ![f] = Null]
               /\ mSize' = [mSize EXCEPT ![g] = mSize[f]]
               /\ text' = [text EXCEPT ![g] = text[f], ![f] = NoText]
               /\ UNCHANGED content

MoveConstruct(f, g) ==
    /\ f \in live /\ g \notin live
    /\ live' = live \cup {g}
    /\ Moved(f, g)
    /\ UNCHANGED owned

\* g = std::move(f): unique_ptr deletes the buffer of g.  Of itself it is no step.
MoveAssign(f, g) ==
    /\ f \in live /\ g \in live /\ f # g
    /\ GiveUp(mData[g])
    /\ Moved(f, g)
    /\ UNCHANGED live

SetSize(f, n) ==
    /\ f \in live
    /\ mSize' = [mSize EXCEPT ![f] = Minimum(n, kMaxBufferSize)]
    /\ UNCHANGED <<owned, live, mData, content, text>>

\* A user writes through data().
Write(f, i, v) ==
    /\ f \in live /\ mData[f] # Null
    /\ content' = [content EXCEPT ![mData[f]][i] = v]
    /\ text' = [text EXCEPT ![f][i] = v]
    /\ UNCHANGED <<owned, members>>

Destroy(f) ==
    /\ f \in live
    /\ GiveUp(mData[f])
    /\ live' = live \ {f}
    /\ mData' = [mData EXCEPT ![f] = Null]
    /\ mSize' = [mSize EXCEPT ![f] = 0]
    /\ text' = [text EXCEPT ![f] = NoText]
    /\ UNCHANGED content

FNext ==
    \E f \in Frame :
        \/ \E n \in 0 .. MaxSize : Construct(f, n) \/ ConstructFrom(f, n) \/ SetSize(f, n)
        \/ \E g \in Frame : Clone(f, g) \/ MoveConstruct(f, g) \/ MoveAssign(f, g)
        \/ \E i \in Position, v \in Octet : Write(f, i, v)
        \/ Destroy(f)

FSpec == FInit /\ [][FNext]_vars

-----------------------------------------------------------------------------
(* Properties. *)

TypeOK == /\ owned \subseteq Buffer
          /\ live \subseteq Frame
          /\ mData \in [Frame -> Buffer \cup {Null}]
          /\ mSize \in [Frame -> Nat]
          /\ content \in [Buffer -> [Position -> Octet]]
          /\ text \in [Frame -> [Position -> Octet \cup {Unset}]]

\* Through every sequence of constructions, moves, clones and destructions: the
\* buffers that are out are those that live frames hold, one frame for each, so
\* none leaks, none is returned twice and none is shared (EtherFrame.h:30-48).
OwnedByFrames ==
    /\ owned = {mData[f] : f \in live} \ {Null}
    /\ \A f, g \in Frame : mData[f] = mData[g] /\ mData[f] # Null => f = g
    /\ \A f \in Frame \ live : mData[f] = Null

\* What a user wrote to a frame is there until the user overwrites it, also after
\* moves and in clones, whatever happens to the other frames and whoever had the
\* buffer before (EtherFrame.cc:9-13, EtherFrame.h:30-32).
FramesKeepTheirText ==
    \A f \in live, i \in Position :
        text[f][i] # Unset => /\ mData[f] # Null
                              /\ content[mData[f]][i] = text[f][i]
=============================================================================
