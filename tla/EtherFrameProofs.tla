--------------------------- MODULE EtherFrameProofs ---------------------------
(***************************************************************************)
(* Proofs about EtherFrame, for any number of frames and buffers and any   *)
(* sizes.  That the buffers are shared by nobody is what keeps the octets  *)
(* of a frame: a write through one frame reaches the buffer of no other,   *)
(* and a buffer that is handed out belongs to none.                        *)
(***************************************************************************)
EXTENDS EtherFrame, TLAPS

IInv == TypeOK /\ OwnedByFrames /\ FramesKeepTheirText

LEMMA PositionIsNat == Position \subseteq Nat
  BY FrameAssumption DEF Position

LEMMA OverlayType ==
  ASSUME NEW S, NEW k \in Nat, NEW front \in [Position -> S], NEW back \in [Position -> S]
  PROVE  Overlay(k, front, back) \in [Position -> S]
  BY DEF Overlay

LEMMA ZerosType == Zeros \in [Position -> Octet] /\ NoText \in [Position -> Octet \cup {Unset}]
  BY FrameAssumption DEF Zeros, NoText

LEMMA HandedType ==
  ASSUME TypeOK, NEW b \in Buffer, NEW octets \in Handed(b)
  PROVE  octets \in [Position -> Octet]
  BY ZerosType DEF Handed, TypeOK

LEMMA InvInit == FInit => IInv
  <1> SUFFICES ASSUME FInit PROVE IInv
    OBVIOUS
  <1>1. TypeOK
    BY ZerosType DEF FInit, Init, TypeOK
  <1>2. OwnedByFrames
    BY DEF FInit, Init, OwnedByFrames
  <1>3. FramesKeepTheirText
    BY DEF FInit, FramesKeepTheirText
  <1> QED BY <1>1, <1>2, <1>3 DEF IInv

\* A new frame, empty or a clone: its buffer was nobody's.
LEMMA EnterStep ==
  ASSUME IInv, NEW f \in Frame, NEW b \in Fresh, NEW n \in Nat,
         Obtain(b), Enter(f, b, n),
         NEW octets \in [Position -> Octet], content' = [content EXCEPT ![b] = octets],
         NEW written \in [Position -> Octet \cup {Unset}], text' = [text EXCEPT ![f] = written],
         \A i \in Position : written[i] # Unset => octets[i] = written[i]
  PROVE  IInv'
  <1>0. TypeOK /\ b \in Buffer /\ b # Null /\ b \notin owned
    BY FrameAssumption DEF IInv, Fresh, TypeOK
  <1>1. \A g \in Frame : mData[g] # b
    BY <1>0 DEF IInv, OwnedByFrames
  <1>2. TypeOK'
    BY <1>0 DEF TypeOK, Obtain, Enter
  <1>3. OwnedByFrames'
    <2>1. owned' = {mData'[g] : g \in live'} \ {Null}
      BY <1>0 DEF IInv, OwnedByFrames, TypeOK, Obtain, Enter
    <2>2. \A g, h \in Frame : mData'[g] = mData'[h] /\ mData'[g] # Null => g = h
      BY <1>0, <1>1 DEF IInv, OwnedByFrames, TypeOK, Enter
    <2>3. \A g \in Frame \ live' : mData'[g] = Null
      BY <1>0 DEF IInv, OwnedByFrames, TypeOK, Enter
    <2> QED BY <2>1, <2>2, <2>3 DEF OwnedByFrames
  <1>4. FramesKeepTheirText'
    <2> SUFFICES ASSUME NEW g \in live', NEW i \in Position, text'[g][i] # Unset
                 PROVE  mData'[g] # Null /\ content'[mData'[g]][i] = text'[g][i]
      BY DEF FramesKeepTheirText
    <2>1. CASE g = f
      BY <1>0, <2>1 DEF TypeOK, Enter
    <2>2. CASE g # f
      <3>1. g \in live /\ g \in Frame /\ text'[g] = text[g] /\ mData'[g] = mData[g]
        BY <1>0, <2>2 DEF TypeOK, Enter
      <3>2. mData[g] # Null /\ content[mData[g]][i] = text[g][i]
        BY <3>1 DEF IInv, FramesKeepTheirText
      <3> QED BY <1>0, <1>1, <3>1, <3>2 DEF TypeOK
    <2> QED BY <2>1, <2>2
  <1> QED BY <1>2, <1>3, <1>4 DEF IInv

LEMMA ConstructStep ==
  ASSUME IInv, NEW f \in Frame, NEW n \in 0 .. MaxSize, Construct(f, n)
  PROVE  IInv'
  <1>1. PICK b \in Fresh : /\ Obtain(b)
                          /\ Enter(f, b, n)
                          /\ \E octets \in Handed(b) : content' = [content EXCEPT ![b] = octets]
                          /\ text' = [text EXCEPT ![f] = NoText]
    BY DEF Construct
  <1>2. PICK octets \in Handed(b) : content' = [content EXCEPT ![b] = octets]
    BY <1>1
  <1>3. octets \in [Position -> Octet]
    BY HandedType DEF IInv, Fresh
  <1>4. n \in Nat /\ \A i \in Position : NoText[i] = Unset
    BY FrameAssumption DEF NoText
  <1> QED BY <1>1, <1>2, <1>3, <1>4, ZerosType, EnterStep

\* A frame without a buffer disturbs nobody, one with a buffer of the caller is new.
LEMMA ConstructFromStep ==
  ASSUME IInv, NEW f \in Frame, NEW n \in 0 .. MaxSize, ConstructFrom(f, n)
  PROVE  IInv'
  <1>0. TypeOK /\ n \in Nat
    BY FrameAssumption DEF IInv
  <1>1. CASE /\ Enter(f, Null, n)
             /\ text' = [text EXCEPT ![f] = NoText]
             /\ UNCHANGED <<owned, content>>
    <2>0. /\ f \notin live /\ live' = live \cup {f} /\ mData[f] = Null
          /\ \A g \in Frame : mData'[g] = mData[g]
      BY <1>0, <1>1 DEF IInv, OwnedByFrames, TypeOK, Enter
    <2>1. TypeOK'
      BY <1>0, <1>1, ZerosType DEF TypeOK, Enter
    <2>2. OwnedByFrames'
      <3>1. {mData'[g] : g \in live'} \ {Null} = {mData[g] : g \in live} \ {Null}
        BY <1>0, <2>0 DEF TypeOK
      <3> QED BY <1>1, <2>0, <3>1 DEF IInv, OwnedByFrames
    <2>3. FramesKeepTheirText'
      <3> SUFFICES ASSUME NEW g \in live', NEW i \in Position, text'[g][i] # Unset
                   PROVE  mData'[g] # Null /\ content'[mData'[g]][i] = text'[g][i]
        BY DEF FramesKeepTheirText
      <3>1. g # f
        BY <1>0, <1>1 DEF TypeOK, NoText
      <3>2. g \in live /\ g \in Frame /\ text'[g] = text[g]
        BY <1>0, <1>1, <2>0, <3>1 DEF TypeOK
      <3> QED BY <1>1, <2>0, <3>2 DEF IInv, FramesKeepTheirText
    <2> QED BY <2>1, <2>2, <2>3 DEF IInv
  <1>2. CASE \E b \in Fresh, octets \in [Position -> Octet] :
                /\ Obtain(b)
                /\ Enter(f, b, n)
                /\ content' = [content EXCEPT ![b] = octets]
                /\ text' = [text EXCEPT ![f] = octets]
    <2>1. PICK b \in Fresh, octets \in [Position -> Octet] :
              /\ Obtain(b)
              /\ Enter(f, b, n)
              /\ content' = [content EXCEPT ![b] = octets]
              /\ text' = [text EXCEPT ![f] = octets]
      BY <1>2
    <2>2. octets \in [Position -> Octet \cup {Unset}]
      OBVIOUS
    <2> QED BY <1>0, <2>1, <2>2, EnterStep
  <1> QED BY <1>1, <1>2 DEF ConstructFrom

LEMMA CloneStep ==
  ASSUME IInv, NEW f \in Frame, NEW g \in Frame, Clone(f, g)
  PROVE  IInv'
  <1>0. TypeOK
    BY DEF IInv
  <1>1. PICK b \in Fresh :
            /\ Obtain(b)
            /\ Enter(g, b, mSize[f])
            /\ \E octets \in Handed(b) :
                  content' = [content EXCEPT ![b] = Overlay(mSize[f], content[mData[f]], octets)]
            /\ text' = [text EXCEPT ![g] = Overlay(mSize[f], text[f], NoText)]
    BY DEF Clone
  <1>2. PICK octets \in Handed(b) :
            content' = [content EXCEPT ![b] = Overlay(mSize[f], content[mData[f]], octets)]
    BY <1>1
  <1>3. f \in live /\ mData[f] \in Buffer /\ mSize[f] \in Nat
    BY <1>0 DEF Clone, TypeOK
  <1>4. Overlay(mSize[f], content[mData[f]], octets) \in [Position -> Octet]
    BY <1>0, <1>3, HandedType, OverlayType DEF TypeOK, Fresh
  <1>5. Overlay(mSize[f], text[f], NoText) \in [Position -> Octet \cup {Unset}]
    BY <1>0, <1>3, ZerosType, OverlayType DEF TypeOK
  <1>6. \A i \in Position :
            Overlay(mSize[f], text[f], NoText)[i] # Unset =>
                Overlay(mSize[f], content[mData[f]], octets)[i] = Overlay(mSize[f], text[f], NoText)[i]
    BY <1>3 DEF Overlay, NoText, IInv, FramesKeepTheirText
  <1> QED BY <1>1, <1>2, <1>3, <1>4, <1>5, <1>6, EnterStep

\* What both moves do to the octets.
LEMMA MovedKeepsText ==
  ASSUME IInv, NEW f \in live, NEW g \in Frame, f # g, Moved(f, g), live' = live \cup {g}
  PROVE  FramesKeepTheirText'
  <1>0. TypeOK /\ f \in Frame
    BY DEF IInv, TypeOK
  <1> SUFFICES ASSUME NEW h \in live', NEW i \in Position, text'[h][i] # Unset
               PROVE  mData'[h] # Null /\ content'[mData'[h]][i] = text'[h][i]
    BY DEF FramesKeepTheirText
  <1>1. CASE h = f
    BY <1>0, <1>1 DEF TypeOK, Moved, NoText
  <1>2. CASE h = g
    <2>1. text'[h] = text[f] /\ mData'[h] = mData[f] /\ content' = content
      BY <1>0, <1>2 DEF TypeOK, Moved
    <2> QED BY <2>1 DEF IInv, FramesKeepTheirText
  <1>3. CASE h # f /\ h # g
    <2>1. h \in live /\ text'[h] = text[h] /\ mData'[h] = mData[h] /\ content' = content
      BY <1>0, <1>3 DEF TypeOK, Moved
    <2> QED BY <2>1 DEF IInv, FramesKeepTheirText
  <1> QED BY <1>1, <1>2, <1>3

LEMMA MovedType ==
  ASSUME TypeOK, NEW f \in Frame, NEW g \in Frame, Moved(f, g),
         owned' \subseteq owned, live' \subseteq Frame
  PROVE  TypeOK'
  <1>1. mData' \in [Frame -> Buffer \cup {Null}] /\ mSize' \in [Frame -> Nat] /\ content' = content
    BY DEF TypeOK, Moved
  <1>2. text' \in [Frame -> [Position -> Octet \cup {Unset}]]
    BY ZerosType DEF TypeOK, Moved
  <1> QED BY <1>1, <1>2 DEF TypeOK

LEMMA MoveConstructStep ==
  ASSUME IInv, NEW f \in Frame, NEW g \in Frame, MoveConstruct(f, g)
  PROVE  IInv'
  <1>0. TypeOK /\ f \in live /\ g \notin live /\ f # g /\ mData[g] = Null
    BY DEF IInv, MoveConstruct, OwnedByFrames
  <1>1. live' = live \cup {g} /\ Moved(f, g) /\ owned' = owned
    BY DEF MoveConstruct
  <1>2. TypeOK'
    BY <1>0, <1>1, MovedType DEF TypeOK
  <1>3. OwnedByFrames'
    <2>1. mData' = [mData EXCEPT ![g] = mData[f], ![f] = Null]
      BY <1>1 DEF Moved
    <2>2. \A h \in Frame : mData'[h] = IF h = f THEN Null ELSE IF h = g THEN mData[f] ELSE mData[h]
      BY <1>0, <2>1 DEF TypeOK
    <2>3. owned' = {mData'[h] : h \in live'} \ {Null}
      <3>1. live \subseteq Frame /\ owned = {mData[h] : h \in live} \ {Null}
        BY <1>0 DEF IInv, OwnedByFrames, TypeOK
      <3>2. owned \subseteq {mData'[h] : h \in live'} \ {Null}
        BY <1>0, <1>1, <2>2, <3>1
      <3>3. {mData'[h] : h \in live'} \ {Null} \subseteq owned
        BY <1>0, <1>1, <2>2, <3>1
      <3> QED BY <1>1, <3>2, <3>3
    <2> QED BY <1>0, <1>1, <2>2, <2>3 DEF IInv, OwnedByFrames, TypeOK
  <1>4. FramesKeepTheirText'
    BY <1>0, <1>1, MovedKeepsText
  <1> QED BY <1>2, <1>3, <1>4 DEF IInv

LEMMA MoveAssignStep ==
  ASSUME IInv, NEW f \in Frame, NEW g \in Frame, MoveAssign(f, g)
  PROVE  IInv'
  <1>0. TypeOK /\ f \in live /\ g \in live /\ f # g
    BY DEF IInv, MoveAssign
  <1>1. live' = live \cup {g} /\ live' = live /\ Moved(f, g)
    BY <1>0 DEF MoveAssign
  <1>2. owned' = owned \ {mData[g]}
    BY <1>0, FrameAssumption DEF MoveAssign, GiveUp, Return, TypeOK
  <1>3. TypeOK'
    BY <1>0, <1>1, <1>2, MovedType DEF TypeOK
  <1>4. OwnedByFrames'
    <2>1. mData' = [mData EXCEPT ![g] = mData[f], ![f] = Null]
      BY <1>1 DEF Moved
    <2>2. owned' = {mData'[h] : h \in live'} \ {Null}
      BY <1>0, <1>1, <1>2, <2>1 DEF IInv, OwnedByFrames, TypeOK
    <2> QED BY <1>0, <1>1, <2>1, <2>2 DEF IInv, OwnedByFrames, TypeOK
  <1>5. FramesKeepTheirText'
    BY <1>0, <1>1, MovedKeepsText
  <1> QED BY <1>3, <1>4, <1>5 DEF IInv

LEMMA WriteStep ==
  ASSUME IInv, NEW f \in Frame, NEW i \in Position, NEW v \in Octet, Write(f, i, v)
  PROVE  IInv'
  <1>0. TypeOK /\ f \in live /\ mData[f] \in Buffer /\ mData[f] # Null
    BY DEF IInv, Write, TypeOK
  <1>1. /\ content' = [content EXCEPT ![mData[f]] = [content[mData[f]] EXCEPT ![i] = v]]
        /\ text' = [text EXCEPT ![f] = [text[f] EXCEPT ![i] = v]]
        /\ UNCHANGED <<owned, live, mData, mSize>>
    BY DEF Write, members
  <1>2. TypeOK'
    BY <1>0, <1>1 DEF TypeOK
  <1>3. OwnedByFrames'
    BY <1>1 DEF IInv, OwnedByFrames
  <1>4. FramesKeepTheirText'
    <2> SUFFICES ASSUME NEW g \in live, NEW j \in Position, text'[g][j] # Unset
                 PROVE  mData[g] # Null /\ content'[mData[g]][j] = text'[g][j]
      BY <1>1 DEF FramesKeepTheirText
    <2>0. g \in Frame
      BY <1>0 DEF TypeOK
    <2>1. CASE g = f
      <3>1. /\ text'[g] = [text[f] EXCEPT ![i] = v]
            /\ content'[mData[g]] = [content[mData[f]] EXCEPT ![i] = v]
        BY <1>0, <1>1, <2>1 DEF TypeOK
      <3>2. text[f] \in [Position -> Octet \cup {Unset}] /\ content[mData[f]] \in [Position -> Octet]
        BY <1>0 DEF TypeOK
      <3>3. text[f][j] # Unset => content[mData[f]][j] = text[f][j]
        BY <1>0 DEF IInv, FramesKeepTheirText
      <3> QED BY <1>0, <2>1, <3>1, <3>2, <3>3
    <2>2. CASE g # f
      <3>1. text'[g] = text[g]
        BY <1>0, <1>1, <2>0, <2>2 DEF TypeOK
      <3>2. mData[g] # Null /\ content[mData[g]][j] = text[g][j]
        BY <3>1 DEF IInv, FramesKeepTheirText
      <3>3. mData[g] # mData[f]
        BY <2>0, <2>2, <3>2 DEF IInv, OwnedByFrames
      <3>4. mData[g] \in Buffer
        BY <1>0, <2>0, <3>2 DEF TypeOK
      <3>5. content'[mData[g]] = content[mData[g]]
        BY <1>0, <1>1, <3>3, <3>4 DEF TypeOK
      <3> QED BY <3>1, <3>2, <3>5
    <2> QED BY <2>1, <2>2
  <1> QED BY <1>2, <1>3, <1>4 DEF IInv

LEMMA DestroyStep ==
  ASSUME IInv, NEW f \in Frame, Destroy(f)
  PROVE  IInv'
  <1>0. TypeOK /\ f \in live
    BY DEF IInv, Destroy
  <1>1. owned' = owned \ {mData[f]}
    BY <1>0, FrameAssumption DEF Destroy, GiveUp, Return, TypeOK
  <1>2. /\ live' = live \ {f} /\ content' = content
        /\ mData' = [mData EXCEPT ![f] = Null]
        /\ mSize' = [mSize EXCEPT ![f] = 0]
        /\ text' = [text EXCEPT ![f] = NoText]
    BY DEF Destroy
  <1>3. TypeOK'
    BY <1>0, <1>1, <1>2, ZerosType DEF TypeOK
  <1>4. OwnedByFrames'
    <2>1. owned' = {mData'[h] : h \in live'} \ {Null}
      BY <1>0, <1>1, <1>2 DEF IInv, OwnedByFrames, TypeOK
    <2> QED BY <1>0, <1>2, <2>1 DEF IInv, OwnedByFrames, TypeOK
  <1>5. FramesKeepTheirText'
    <2> SUFFICES ASSUME NEW g \in live', NEW i \in Position, text'[g][i] # Unset
                 PROVE  mData'[g] # Null /\ content'[mData'[g]][i] = text'[g][i]
      BY DEF FramesKeepTheirText
    <2>1. g \in live /\ text'[g] = text[g] /\ mData'[g] = mData[g] /\ content' = content
      BY <1>0, <1>2 DEF TypeOK
    <2> QED BY <2>1 DEF IInv, FramesKeepTheirText
  <1> QED BY <1>3, <1>4, <1>5 DEF IInv

LEMMA SetSizeStep ==
  ASSUME IInv, NEW f \in Frame, NEW n \in 0 .. MaxSize, SetSize(f, n)
  PROVE  IInv'
  <1>1. Minimum(n, kMaxBufferSize) \in Nat
    BY FrameAssumption DEF Minimum
  <1> QED BY <1>1 DEF SetSize, IInv, TypeOK, OwnedByFrames, FramesKeepTheirText

LEMMA InvNext == IInv /\ [FNext]_vars => IInv'
  <1> SUFFICES ASSUME IInv, [FNext]_vars PROVE IInv'
    OBVIOUS
  <1>1. CASE FNext
    BY <1>1, ConstructStep, ConstructFromStep, SetSizeStep, CloneStep, MoveConstructStep, MoveAssignStep,
       WriteStep, DestroyStep DEF FNext
  <1>2. CASE UNCHANGED vars
    BY <1>2 DEF vars, IInv, TypeOK, OwnedByFrames, FramesKeepTheirText
  <1> QED BY <1>1, <1>2

\* The invariant holds in every state.
THEOREM Invariance == FSpec => []IInv
  BY InvInit, InvNext, PTL DEF FSpec

\* The members of frames and the buffers keep their types (EtherFrame.h:35-36).
THEOREM TypeCorrect == FSpec => []TypeOK
  <1>1. IInv => TypeOK
    BY DEF IInv
  <1> QED BY <1>1, Invariance, PTL

\* Constructors, moves, Clone and the destructor neither leak nor share nor return
\* twice a buffer (EtherFrame.h:30-48, EtherFrame.cc:9-13).
THEOREM FramesOwnTheirBuffers == FSpec => []OwnedByFrames
  <1>1. IInv => OwnedByFrames
    BY DEF IInv
  <1> QED BY <1>1, Invariance, PTL

\* A frame keeps what its user wrote, also in clones and after moves
\* (EtherFrame.h:30-56, EtherFrame.cc:9-13).
THEOREM TextIsKept == FSpec => []FramesKeepTheirText
  <1>1. IInv => FramesKeepTheirText
    BY DEF IInv
  <1> QED BY <1>1, Invariance, PTL
=============================================================================
