-------------------------- MODULE PacketFieldsProofs --------------------------
(***************************************************************************)
(* That the swaps of Endian.h reverse every word of their width, and what  *)
(* the accessors of PacketFields make of any memory.                       *)
(***************************************************************************)
EXTENDS PacketFields, TLAPS

-----------------------------------------------------------------------------
(* Words. *)

LEMMA ReversedIsWord ==
    ASSUME NEW k \in Nat, NEW w \in Word(k)
    PROVE  Reversed(w, k) \in Word(k)
BY DEF Reversed, Word

\* The places p of the reversed word: what the terms of a swap contribute.
Part(w, k, p) == [i \in 0 .. k - 1 |-> IF i \in p THEN w[k - 1 - i] ELSE 0]

LEMMA PartsJoin ==
    ASSUME NEW k \in Nat, NEW w \in Word(k), NEW p, NEW q
    PROVE  Joined(Part(w, k, p), Part(w, k, q)) = Part(w, k, p \cup q)
<1>1. ASSUME NEW i \in 0 .. k - 1
      PROVE  (IF Part(w, k, p)[i] = 0 THEN Part(w, k, q)[i] ELSE Part(w, k, p)[i])
                = IF i \in p \cup q THEN w[k - 1 - i] ELSE 0
  BY DEF Part
<1>2. DOMAIN Part(w, k, p) = 0 .. k - 1
  BY DEF Part
<1>3. Part(w, k, p \cup q) = [i \in 0 .. k - 1 |-> IF i \in p \cup q THEN w[k - 1 - i] ELSE 0]
  BY DEF Part
<1> QED
  BY <1>1, <1>2, <1>3 DEF Joined

\* The form of the swaps: four terms, joined two and two.
LEMMA FourPartsJoin ==
    ASSUME NEW k \in Nat, NEW w \in Word(k), NEW p, NEW q, NEW r, NEW s,
           NEW a, NEW b, NEW c, NEW d,
           a = Part(w, k, p), b = Part(w, k, q),
           c = Part(w, k, r), d = Part(w, k, s)
    PROVE  Joined(Joined(a, b), Joined(c, d)) = Part(w, k, (p \cup q) \cup (r \cup s))
<1>1. Joined(a, b) = Part(w, k, p \cup q)
  BY PartsJoin
<1>2. Joined(c, d) = Part(w, k, r \cup s)
  BY PartsJoin
<1> QED
  BY <1>1, <1>2, PartsJoin

LEMMA PartsAreAll ==
    ASSUME NEW k \in Nat, NEW w \in Word(k), NEW p, 0 .. k - 1 \subseteq p
    PROVE  Part(w, k, p) = Reversed(w, k)
BY DEF Part, Reversed

\* SwapEndian16 (Endian.h) reverses every word of 16 bits.
THEOREM SwapEndian16Reverses ==
    ASSUME NEW w \in Word(2)
    PROVE  SwapEndian16(w) = Reversed(w, 2)
<1>1. ShiftRight(w, 1) = Part(w, 2, {0})
  BY DEF ShiftRight, Part, Word
<1>2. ShiftLeft(w, 1) = Part(w, 2, {1})
  BY DEF ShiftLeft, Part, Word
<1>3. 0 .. 2 - 1 \subseteq {0} \cup {1}
  OBVIOUS
<1>4. Part(w, 2, {0} \cup {1}) = Reversed(w, 2)
  BY 2 \in Nat, <1>3, PartsAreAll
<1>5. \A p, q : Joined(Part(w, 2, p), Part(w, 2, q)) = Part(w, 2, p \cup q)
  BY 2 \in Nat, PartsJoin
<1> QED
  BY <1>1, <1>2, <1>4, <1>5, Zenon DEF SwapEndian16

\* SwapEndian32 (Endian.h) reverses every word of 32 bits: the masks select the two
\* inner octets and nothing else.
THEOREM SwapEndian32Reverses ==
    ASSUME NEW w \in Word(4)
    PROVE  SwapEndian32(w) = Reversed(w, 4)
<1>1. ShiftRight(w, 3) = Part(w, 4, {0})
  BY DEF ShiftRight, Part, Word
<1>2. ShiftRight(Masked(w, {2}), 1) = Part(w, 4, {1})
  BY DEF ShiftRight, Masked, Part, Word
<1>3. ShiftLeft(Masked(w, {1}), 1) = Part(w, 4, {2})
  BY DEF ShiftLeft, Masked, Part, Word
<1>4. ShiftLeft(w, 3) = Part(w, 4, {3})
  BY DEF ShiftLeft, Part, Word
<1>5. 0 .. 4 - 1 \subseteq ({0} \cup {1}) \cup ({2} \cup {3})
  OBVIOUS
<1>6. Part(w, 4, ({0} \cup {1}) \cup ({2} \cup {3})) = Reversed(w, 4)
  BY 4 \in Nat, <1>5, PartsAreAll
<1> QED
  BY 4 \in Nat, <1>1, <1>2, <1>3, <1>4, <1>6, FourPartsJoin DEF SwapEndian32

\* SwapEndian64 (Endian.h) reverses every word of 64 bits.
THEOREM SwapEndian64Reverses ==
    ASSUME NEW w \in Word(8)
    PROVE  SwapEndian64(w) = Reversed(w, 8)
<1>1. ShiftRight(w, 7) = Part(w, 8, {0})
  BY DEF ShiftRight, Part, Word
<1>2. ShiftRight(Masked(w, {6}), 5) = Part(w, 8, {1})
  BY DEF ShiftRight, Masked, Part, Word
<1>3. ShiftRight(Masked(w, {5}), 3) = Part(w, 8, {2})
  BY DEF ShiftRight, Masked, Part, Word
<1>4. ShiftRight(Masked(w, {4}), 1) = Part(w, 8, {3})
  BY DEF ShiftRight, Masked, Part, Word
<1>5. ShiftLeft(Masked(w, {3}), 1) = Part(w, 8, {4})
  BY DEF ShiftLeft, Masked, Part, Word
<1>6. ShiftLeft(Masked(w, {2}), 3) = Part(w, 8, {5})
  BY DEF ShiftLeft, Masked, Part, Word
<1>7. ShiftLeft(Masked(w, {1}), 5) = Part(w, 8, {6})
  BY DEF ShiftLeft, Masked, Part, Word
<1>8. ShiftLeft(w, 7) = Part(w, 8, {7})
  BY DEF ShiftLeft, Part, Word
<1>9. Joined(Joined(ShiftRight(w, 7), ShiftRight(Masked(w, {6}), 5)),
             Joined(ShiftRight(Masked(w, {5}), 3), ShiftRight(Masked(w, {4}), 1)))
        = Part(w, 8, ({0} \cup {1}) \cup ({2} \cup {3}))
  BY 8 \in Nat, <1>1, <1>2, <1>3, <1>4, FourPartsJoin
<1>10. Joined(Joined(ShiftLeft(Masked(w, {3}), 1), ShiftLeft(Masked(w, {2}), 3)),
              Joined(ShiftLeft(Masked(w, {1}), 5), ShiftLeft(w, 7)))
         = Part(w, 8, ({4} \cup {5}) \cup ({6} \cup {7}))
  BY 8 \in Nat, <1>5, <1>6, <1>7, <1>8, FourPartsJoin
<1>11. 0 .. 8 - 1 \subseteq ((({0} \cup {1}) \cup ({2} \cup {3})) \cup (({4} \cup {5}) \cup ({6} \cup {7})))
  OBVIOUS
<1>12. Part(w, 8, ((({0} \cup {1}) \cup ({2} \cup {3})) \cup (({4} \cup {5}) \cup ({6} \cup {7})))) = Reversed(w, 8)
  BY 8 \in Nat, <1>11, PartsAreAll
<1>13. \A p, q : Joined(Part(w, 8, p), Part(w, 8, q)) = Part(w, 8, p \cup q)
  BY 8 \in Nat, PartsJoin
<1> QED
  BY <1>9, <1>10, <1>12, <1>13, Zenon DEF SwapEndian64

-----------------------------------------------------------------------------
(* Memory. *)

\* What every step keeps; the fields are functions of these.
MemoryOK == /\ kIsLittleEndian \in BOOLEAN
            /\ octets \in [Place -> Octet]
            /\ size \in Sizes /\ family \in Family

LEMMA MemoryInvariance == Spec => []MemoryOK
<1>1. Init => MemoryOK
  BY DEF Init, MemoryOK, Octet
<1>2. MemoryOK /\ [Next]_vars => MemoryOK'
  <2> SUFFICES ASSUME MemoryOK, [Next]_vars PROVE MemoryOK'
    OBVIOUS
  <2>1. ASSUME NEW i \in Place, NEW v \in Values, ChangeOctet(i, v) PROVE MemoryOK'
    BY <2>1, BoundsAssumption DEF MemoryOK, ChangeOctet
  <2>2. ASSUME NEW n \in Sizes, ChangeSize(n) PROVE MemoryOK'
    BY <2>2 DEF MemoryOK, ChangeSize
  <2>3. ASSUME NEW f \in Family, ChangeFamily(f) PROVE MemoryOK'
    BY <2>3 DEF MemoryOK, ChangeFamily
  <2>4. CASE UNCHANGED vars
    BY <2>4 DEF MemoryOK, vars
  <2> QED
    BY <2>1, <2>2, <2>3, <2>4 DEF Next
<1> QED
  BY <1>1, <1>2, PTL DEF Spec

LEMMA LoadIsWord ==
    ASSUME MemoryOK, NEW first \in Nat, NEW k \in Nat, first + k <= 18
    PROVE  /\ Load(octets, first, k) \in Word(k)
           /\ BigEndian(octets, first, k) \in Word(k)
           /\ LittleEndian(octets, first, k) \in Word(k)
<1>1. ASSUME NEW i \in 0 .. k - 1
      PROVE  first + i \in Place /\ first + (k - 1 - i) \in Place /\ first + k - 1 - i \in Place
  BY DEF Place
<1> QED
  BY <1>1 DEF MemoryOK, Load, BigEndian, LittleEndian, Word

LEMMA LoadIsReversed ==
    ASSUME MemoryOK, NEW first \in Nat, NEW k \in Nat, first + k <= 18
    PROVE  /\ kIsLittleEndian => /\ Load(octets, first, k) = LittleEndian(octets, first, k)
                                 /\ Reversed(Load(octets, first, k), k) = BigEndian(octets, first, k)
           /\ ~kIsLittleEndian => /\ Load(octets, first, k) = BigEndian(octets, first, k)
                                  /\ Reversed(Load(octets, first, k), k) = LittleEndian(octets, first, k)
<1>1. ASSUME NEW i \in 0 .. k - 1
      PROVE  /\ k - 1 - i \in 0 .. k - 1
             /\ first + (k - 1 - i) = first + k - 1 - i
             /\ k - 1 - (k - 1 - i) = i
             /\ first + (k - 1 - (k - 1 - i)) = first + i
  OBVIOUS
<1> QED
  BY <1>1 DEF MemoryOK, Load, BigEndian, LittleEndian, Reversed

\* The swaps read an integer of any width where it lies.
LEMMA SwapsRead ==
    ASSUME MemoryOK, NEW first \in Nat
    PROVE  /\ first + 2 <= 18 => /\ NToH16(Load(octets, first, 2)) = BigEndian(octets, first, 2)
                                 /\ LToH16(Load(octets, first, 2)) = LittleEndian(octets, first, 2)
           /\ first + 4 <= 18 => /\ NToH32(Load(octets, first, 4)) = BigEndian(octets, first, 4)
                                 /\ LToH32(Load(octets, first, 4)) = LittleEndian(octets, first, 4)
           /\ first + 8 <= 18 => /\ NToH64(Load(octets, first, 8)) = BigEndian(octets, first, 8)
                                 /\ LToH64(Load(octets, first, 8)) = LittleEndian(octets, first, 8)
<1>1. ASSUME first + 2 <= 18
      PROVE  /\ NToH16(Load(octets, first, 2)) = BigEndian(octets, first, 2)
             /\ LToH16(Load(octets, first, 2)) = LittleEndian(octets, first, 2)
  BY <1>1, LoadIsWord, LoadIsReversed, SwapEndian16Reverses DEF NToH16, LToH16
<1>2. ASSUME first + 4 <= 18
      PROVE  /\ NToH32(Load(octets, first, 4)) = BigEndian(octets, first, 4)
             /\ LToH32(Load(octets, first, 4)) = LittleEndian(octets, first, 4)
  BY <1>2, LoadIsWord, LoadIsReversed, SwapEndian32Reverses DEF NToH32, LToH32
<1>3. ASSUME first + 8 <= 18
      PROVE  /\ NToH64(Load(octets, first, 8)) = BigEndian(octets, first, 8)
             /\ LToH64(Load(octets, first, 8)) = LittleEndian(octets, first, 8)
  BY <1>3, LoadIsWord, LoadIsReversed, SwapEndian64Reverses DEF NToH64, LToH64
<1> QED
  BY <1>1, <1>2, <1>3

\* On every build the swaps of Endian.h read memory in network and in little-endian
\* order as what it says.
THEOREM SwapsAreRight == Spec => []SwapsReadMemory
<1>1. MemoryOK => SwapsReadMemory
  BY SwapsRead DEF SwapsReadMemory
<1> QED
  BY <1>1, MemoryInvariance, PTL

-----------------------------------------------------------------------------
(* Fields. *)

LEMMA NetIdOnTheWire ==
    ASSUME MemoryOK
    PROVE  NetId = [i \in 0 .. 3 |-> IF i < 3 THEN octets[6 - i] ELSE 0]
<1>1. NetId = ShiftRight(BigEndian(octets, 4, 4), 1)
  BY SwapsRead DEF NetId
<1> QED
  BY <1>1 DEF BigEndian, ShiftRight

LEMMA TagIsFound ==
    ASSUME MemoryOK
    PROVE  Load(octets, 12, 2) = NToH16(EtherType8021Q) <=> octets[12] = 129 /\ octets[13] = 0
<1>1. EtherType8021Q \in Word(2) /\ EtherType8021Q[0] = 0 /\ EtherType8021Q[1] = 129
  BY DEF EtherType8021Q, Word, Octet
<1>2. Load(octets, 12, 2) \in Word(2)
  BY LoadIsWord
<1>3. CASE kIsLittleEndian
  <2>1. NToH16(EtherType8021Q) = Reversed(EtherType8021Q, 2)
    BY <1>1, <1>3, SwapEndian16Reverses DEF NToH16
  <2>2. Load(octets, 12, 2)[0] = octets[12] /\ Load(octets, 12, 2)[1] = octets[13]
    BY <1>3 DEF Load
  <2>3. Reversed(EtherType8021Q, 2) = [i \in 0 .. 1 |-> IF i = 0 THEN 129 ELSE 0]
    BY <1>1 DEF Reversed
  <2> QED
    BY <1>2, <2>1, <2>2, <2>3 DEF Word
<1>4. CASE ~kIsLittleEndian
  <2>1. NToH16(EtherType8021Q) = EtherType8021Q
    BY <1>4 DEF NToH16
  <2>2. Load(octets, 12, 2)[0] = octets[13] /\ Load(octets, 12, 2)[1] = octets[12]
    BY <1>4 DEF Load
  <2> QED
    BY <1>1, <1>2, <2>1, <2>2 DEF Word
<1> QED
  BY <1>3, <1>4

LEMMA VlanIdOnTheWire ==
    ASSUME MemoryOK
    PROVE  VlanId = IF octets[12] = 129 /\ octets[13] = 0
                    THEN [i \in 0 .. 1 |-> IF i = 0 THEN octets[15] ELSE octets[14] % 16]
                    ELSE Zero(2)
<1>1. CASE octets[12] = 129 /\ octets[13] = 0
  <2>1. VlanTag = BigEndian(octets, 14, 2)
    BY <1>1, TagIsFound, SwapsRead DEF VlanTag
  <2> QED
    BY <1>1, <2>1 DEF VlanId, BigEndian
<1>2. CASE ~(octets[12] = 129 /\ octets[13] = 0)
  <2>1. VlanTag = Zero(2)
    BY <1>2, TagIsFound DEF VlanTag
  <2> QED
    BY <1>2, <2>1 DEF VlanId, Zero
<1> QED
  BY <1>1, <1>2

\* Network id and VLAN id are the octets of the wire that the headers give them
\* (EtherPacketStruct.h), on every build.
THEOREM FieldsAreRead == Spec => []FieldsAreOnTheWire
<1>1. MemoryOK => FieldsAreOnTheWire
  BY NetIdOnTheWire, VlanIdOnTheWire DEF FieldsAreOnTheWire
<1> QED
  BY <1>1, MemoryInvariance, PTL

\* Where EndpointId.h:18-24 draws the network id in the bits from 32 to 55, GetNetworkId
\* returns those from 24 to 55: the drawn id in its three high octets, above the high
\* octet of the stream id, which GetStreamId returns too (EndpointId.h:47-57).
THEOREM NetworkIdOverlapsStreamId ==
    ASSUME MemoryOK
    PROVE  /\ GetType = id[7]
           /\ \A i \in 0 .. 3 : GetStreamId[i] = id[i]
           /\ \A i \in 1 .. 3 : GetNetworkId[i] = id[3 + i]
           /\ GetNetworkId[0] = GetStreamId[3]
BY DEF MemoryOK, GetType, GetStreamId, GetNetworkId, Converted, ShiftRight, id, Octets

-----------------------------------------------------------------------------
(* Addresses. *)

LEMMA PortsComeBack ==
    ASSUME kIsLittleEndian \in BOOLEAN, NEW p \in Word(2)
    PROVE  PortOctets(NToH16(Load(p, 0, 2))) = p
<1>1. CASE kIsLittleEndian
  <2>1. Load(p, 0, 2) = p
    BY <1>1 DEF Load, Word
  <2>2. NToH16(p) = Reversed(p, 2)
    BY <1>1, SwapEndian16Reverses DEF NToH16
  <2>3. NToH16(Reversed(p, 2)) = Reversed(Reversed(p, 2), 2)
    BY <1>1, SwapEndian16Reverses, ReversedIsWord DEF NToH16
  <2>4. Load(Reversed(Reversed(p, 2), 2), 0, 2) = p
    BY <1>1 DEF Load, Reversed, Word
  <2> QED
    BY <2>1, <2>2, <2>3, <2>4 DEF PortOctets
<1>2. CASE ~kIsLittleEndian
  <2>1. Load(p, 0, 2) = Reversed(p, 2)
    BY <1>2 DEF Load, Reversed, Word
  <2>2. Load(Reversed(p, 2), 0, 2) = p
    BY <1>2 DEF Load, Reversed, Word
  <2> QED
    BY <1>2, <2>1, <2>2 DEF PortOctets, NToH16
<1> QED
  BY <1>1, <1>2

LEMMA OctetsAreWord ==
    ASSUME MemoryOK, NEW first \in Nat, NEW k \in Nat, first + k <= 18
    PROVE  Octets(first, k) \in Word(k)
<1>1. \A i \in 0 .. k - 1 : first + i \in Place
  BY DEF Place
<1> QED
  BY <1>1 DEF MemoryOK, Octets, Word

\* What the code keeps of a sender.
SenderIsKept ==
    /\ IsValid(Peer) <=> family \in {"AF_INET", "AF_INET6"}
    /\ IsValid(Peer) =>
          /\ Peer.port = BigEndian(octets, 16, 2)
          /\ Peer.address.mType = IF family = "AF_INET" THEN "kIpv4" ELSE "kIpv6"
          /\ GetBytes(Peer.address) = IF family = "AF_INET" THEN Octets(0, 4) ELSE Octets(0, 16)

LEMMA KeepsSender == MemoryOK => SenderIsKept
<1> SUFFICES ASSUME MemoryOK PROVE SenderIsKept
  OBVIOUS
<1>1. NToH16(Load(Octets(16, 2), 0, 2)) = BigEndian(octets, 16, 2)
  <2>1. Load(Octets(16, 2), 0, 2) = Load(octets, 16, 2)
    BY DEF Load, Octets
  <2> QED
    BY <2>1, SwapsRead
<1>2. CASE family = "AF_INET"
  <2>1. /\ Peer.port = NToH16(Load(Octets(16, 2), 0, 2))
        /\ Peer.address = Ipv4(octets, octets)
    BY <1>2 DEF Peer, Sender, SockAddr, ToSocketAddress
  <2>2. Ipv4(octets, octets).mType = "kIpv4"
    BY DEF Ipv4
  <2>3. GetBytes(Ipv4(octets, octets)) = Octets(0, 4)
    BY DEF GetBytes, Ipv4, Octets
  <2> QED
    BY <1>1, <1>2, <2>1, <2>2, <2>3 DEF SenderIsKept, IsValid
<1>3. CASE family = "AF_INET6"
  <2>1. /\ Peer.port = NToH16(Load(Octets(16, 2), 0, 2))
        /\ Peer.address = Ipv6(octets)
    BY <1>3 DEF Peer, Sender, SockAddr, ToSocketAddress
  <2>2. Ipv6(octets).mType = "kIpv6"
    BY DEF Ipv6
  <2>3. GetBytes(Ipv6(octets)) = Octets(0, 16)
    BY DEF GetBytes, Ipv6, Octets
  <2> QED
    BY <1>1, <1>3, <2>1, <2>2, <2>3 DEF SenderIsKept, IsValid
<1>4. CASE family \notin {"AF_INET", "AF_INET6"}
  <2>1. Peer.address.mType = "kNone"
    BY <1>4 DEF Peer, Sender, SockAddr, ToSocketAddress, NoAddress
  <2> QED
    BY <1>4, <2>1 DEF SenderIsKept, IsValid
<1> QED
  BY <1>2, <1>3, <1>4

\* What is sent to the kept address of a sender goes to that sender
\* (ToSocketAddress and ToLinuxSocketAddress, SocketAddressUtils.h).
THEOREM AddressesComeBack == Spec => []AnswersGoBack
<1>1. ASSUME MemoryOK PROVE AnswersGoBack
  <2>1. PortOctets(BigEndian(octets, 16, 2)) = Octets(16, 2)
    <3>1. NToH16(Load(Octets(16, 2), 0, 2)) = BigEndian(octets, 16, 2)
      <4>1. Load(Octets(16, 2), 0, 2) = Load(octets, 16, 2)
        BY DEF Load, Octets
      <4> QED
        BY <1>1, <4>1, SwapsRead
    <3> QED
      BY <1>1, <3>1, OctetsAreWord, PortsComeBack DEF MemoryOK
  <2>2. SenderIsKept
    BY <1>1, KeepsSender
  <2> QED
    BY <2>1, <2>2 DEF AnswersGoBack, SenderIsKept, ToLinuxSocketAddress
<1> QED
  BY <1>1, MemoryInvariance, PTL

-----------------------------------------------------------------------------
(* Steps. *)

\* The session id as the octets of the datagram, on little-endian builds.
SessionOnTheWire ==
    kIsLittleEndian =>
        SessionId = IF size < 32 \/ \A i \in 1 .. 3 : octets[i] = 0
                    THEN Zero(8)
                    ELSE [i \in 0 .. 7 |-> IF i < 3 THEN octets[i + 1] ELSE IF i = 4 THEN 2 ELSE 0]

LEMMA SessionIsRead == MemoryOK => SessionOnTheWire
<1> SUFFICES ASSUME MemoryOK, kIsLittleEndian
             PROVE  SessionId = IF size < 32 \/ \A i \in 1 .. 3 : octets[i] = 0
                                THEN Zero(8)
                                ELSE [i \in 0 .. 7 |-> IF i < 3 THEN octets[i + 1]
                                                       ELSE IF i = 4 THEN 2 ELSE 0]
  BY DEF SessionOnTheWire
<1> DEFINE word == ShiftRight(Load(octets, 0, 4), 1)
<1>1. word = [i \in 0 .. 3 |-> IF i < 3 THEN octets[i + 1] ELSE 0]
  BY DEF ShiftRight, Load
<1>2. word = Zero(4) <=> \A i \in 1 .. 3 : octets[i] = 0
  <2>1. ASSUME word = Zero(4), NEW i \in 1 .. 3 PROVE octets[i] = 0
    <3>1. word[i - 1] = octets[i]
      BY <1>1, <2>1
    <3> QED
      BY <2>1, <3>1 DEF Zero
  <2>2. ASSUME \A i \in 1 .. 3 : octets[i] = 0 PROVE word = Zero(4)
    BY <1>1, <2>2 DEF Zero
  <2> QED
    BY <2>1, <2>2
<1> HIDE DEF word
<1>3. [Converted(word, 8) EXCEPT ![4] = 2]
        = [i \in 0 .. 7 |-> IF i < 3 THEN octets[i + 1] ELSE IF i = 4 THEN 2 ELSE 0]
  <2>1. Converted(word, 8) = [i \in 0 .. 7 |-> IF i \in 0 .. 3 THEN word[i] ELSE 0]
    BY <1>1 DEF Converted
  <2>2. \A i \in 0 .. 3 : word[i] = IF i < 3 THEN octets[i + 1] ELSE 0
    BY <1>1
  <2>3. Converted(word, 8) = [i \in 0 .. 7 |-> IF i < 3 THEN octets[i + 1] ELSE 0]
    BY <2>1, <2>2
  <2> QED
    BY <2>3
<1>4. SessionId = IF size < 32 \/ word = Zero(4) THEN Zero(8)
                  ELSE [Converted(word, 8) EXCEPT ![4] = 2]
  BY DEF SessionId, word
<1> QED
  BY <1>2, <1>3, <1>4

\* The relay tells clients apart by the reserved field alone, and nothing behind a
\* short datagram gives it a session (GetSessionIdFromClientPacket).
THEOREM SessionsAreClients == Spec => SessionIsClientId
<1>1. ASSUME MemoryOK, MemoryOK', SessionOnTheWire, SessionOnTheWire',
             kIsLittleEndian, [Next]_vars
      PROVE  /\ SessionId' # Zero(8) <=> size' >= 32 /\ \E i \in 1 .. 3 : octets'[i] # 0
             /\ size >= 32 /\ size' >= 32 => (SessionId' # SessionId <=> Touched(1 .. 3))
  <2> DEFINE Id(o) == [i \in 0 .. 7 |-> IF i < 3 THEN o[i + 1] ELSE IF i = 4 THEN 2 ELSE 0]
             None(n, o) == n < 32 \/ \A i \in 1 .. 3 : o[i] = 0
  <2>1. kIsLittleEndian'
    BY <1>1 DEF Next, ChangeOctet, ChangeSize, ChangeFamily, vars
  <2>2. /\ SessionId = IF None(size, octets) THEN Zero(8) ELSE Id(octets)
        /\ SessionId' = IF None(size', octets') THEN Zero(8) ELSE Id(octets')
    BY <1>1, <2>1 DEF SessionOnTheWire
  <2>3. Id(octets)[4] = 2 /\ Id(octets')[4] = 2 /\ Zero(8)[4] = 0
    BY DEF Zero
  <2>4. Id(octets) = Id(octets') <=> \A i \in 1 .. 3 : octets[i] = octets'[i]
    <3>1. ASSUME Id(octets) = Id(octets'), NEW i \in 1 .. 3 PROVE octets[i] = octets'[i]
      <4>1. Id(octets)[i - 1] = octets[i] /\ Id(octets')[i - 1] = octets'[i]
        OBVIOUS
      <4> QED
        BY <3>1, <4>1
    <3>2. ASSUME \A i \in 1 .. 3 : octets[i] = octets'[i] PROVE Id(octets) = Id(octets')
      BY <3>2
    <3> QED
      BY <3>1, <3>2
  <2> HIDE DEF Id
  <2>5. size \in Int /\ size' \in Int
    BY <1>1, BoundsAssumption DEF MemoryOK
  <2> QED
    BY <2>2, <2>3, <2>4, <2>5 DEF Touched
<1>3. [][kIsLittleEndian /\ MemoryOK /\ MemoryOK' /\ SessionOnTheWire /\ SessionOnTheWire' /\ [Next]_vars =>
          /\ SessionId' # Zero(8) <=> size' >= 32 /\ \E i \in 1 .. 3 : octets'[i] # 0
          /\ size >= 32 /\ size' >= 32 => (SessionId' # SessionId <=> Touched(1 .. 3))]_vars
  BY <1>1, PTL
<1>4. Spec => []SessionOnTheWire
  BY SessionIsRead, MemoryInvariance, PTL
<1> QED
  BY <1>3, <1>4, MemoryInvariance, PTL DEF Spec, SessionIsClientId

\* An identifier has room for the address and the VLAN id side by side
\* (EtherPacketStruct.h:39-58).
THEOREM IdentifiersAreUnique ==
    ASSUME NEW m \in Word(6), NEW n \in Word(6), NEW v \in Word(2), NEW w \in Word(2)
    PROVE  AddressToIdentifier(m, v) = AddressToIdentifier(n, w) <=> m = n /\ v = w
<1>1. ASSUME AddressToIdentifier(m, v) = AddressToIdentifier(n, w)
      PROVE  m = n /\ v = w
  <2>1. ASSUME NEW i \in 0 .. 5 PROVE m[i] = n[i]
    <3>1. AddressToIdentifier(m, v)[i] = m[i] /\ AddressToIdentifier(n, w)[i] = n[i]
      BY DEF AddressToIdentifier
    <3> QED
      BY <1>1, <3>1
  <2>2. ASSUME NEW i \in 0 .. 1 PROVE v[i] = w[i]
    <3>1. AddressToIdentifier(m, v)[i + 6] = v[i] /\ AddressToIdentifier(n, w)[i + 6] = w[i]
      BY DEF AddressToIdentifier
    <3> QED
      BY <1>1, <3>1
  <2> QED
    BY <2>1, <2>2 DEF Word
<1> QED
  BY <1>1

\* What the next two theorems need of a state.
FieldsAreWords == /\ Octets(0, 6) \in Word(6) /\ Octets(6, 6) \in Word(6)
                  /\ Octets(16, 2) \in Word(2)
                  /\ VlanId \in Word(2)

LEMMA FieldsHaveWidths == MemoryOK => FieldsAreWords
<1> SUFFICES ASSUME MemoryOK PROVE FieldsAreWords
  OBVIOUS
<1>1. VlanId \in Word(2)
  <2>1. octets[15] \in Octet /\ octets[14] % 16 \in Octet
    BY DEF MemoryOK, Place, Octet
  <2> QED
    BY <2>1, VlanIdOnTheWire DEF Word, Zero, Octet
<1> QED
  BY <1>1, OctetsAreWord DEF FieldsAreWords

LEMMA OctetsChange ==
    ASSUME NEW first \in Nat, NEW k \in Nat, NEW last \in Int, last = first + k - 1
    PROVE  Octets(first, k)' = Octets(first, k) <=> ~Touched(first .. last)
<1>1. ASSUME Octets(first, k)' = Octets(first, k), NEW i \in first .. last
      PROVE  octets'[i] = octets[i]
  <2>1. i - first \in 0 .. k - 1 /\ first + (i - first) = i
    OBVIOUS
  <2>2. /\ Octets(first, k)'[i - first] = octets'[i]
        /\ Octets(first, k)[i - first] = octets[i]
    BY <2>1 DEF Octets
  <2> QED
    BY <1>1, <2>2
<1>2. ASSUME ~Touched(first .. last) PROVE Octets(first, k)' = Octets(first, k)
  <2>1. \A i \in 0 .. k - 1 : first + i \in first .. last
    OBVIOUS
  <2> QED
    BY <1>2, <2>1 DEF Octets, Touched
<1> QED
  BY <1>1, <1>2 DEF Touched

\* A destination or source identifier changes exactly when the address or the VLAN
\* does: two endpoints never share one (EtherPacketStruct.h:39-58 and 81-87).
THEOREM EndpointsAreApart == Spec => IdentifiersTellEndpointsApart
<1>1. ASSUME FieldsAreWords, FieldsAreWords'
      PROVE  /\ DestinationIdentifier' # DestinationIdentifier
                   <=> Touched(0 .. 5) \/ VlanId' # VlanId
             /\ SourceIdentifier' # SourceIdentifier
                   <=> Touched(6 .. 11) \/ VlanId' # VlanId
  <2>1. Octets(0, 6)' = Octets(0, 6) <=> ~Touched(0 .. 5)
    BY 0 \in Nat, 6 \in Nat, 5 \in Int, 5 = 0 + 6 - 1, OctetsChange
  <2>2. Octets(6, 6)' = Octets(6, 6) <=> ~Touched(6 .. 11)
    BY 6 \in Nat, 6 \in Nat, 11 \in Int, 11 = 6 + 6 - 1, OctetsChange
  <2>3. /\ DestinationIdentifier' = AddressToIdentifier(Octets(0, 6)', VlanId')
        /\ SourceIdentifier' = AddressToIdentifier(Octets(6, 6)', VlanId')
    BY DEF DestinationIdentifier, SourceIdentifier, AddressToIdentifier
  <2>4. /\ Octets(0, 6)' \in Word(6) /\ Octets(6, 6)' \in Word(6) /\ VlanId' \in Word(2)
    BY <1>1 DEF FieldsAreWords, Word, Octet
  <2>5. DestinationIdentifier' = DestinationIdentifier
          <=> Octets(0, 6)' = Octets(0, 6) /\ VlanId' = VlanId
    BY <1>1, <2>3, <2>4, IdentifiersAreUnique DEF FieldsAreWords, DestinationIdentifier
  <2>6. SourceIdentifier' = SourceIdentifier
          <=> Octets(6, 6)' = Octets(6, 6) /\ VlanId' = VlanId
    BY <1>1, <2>3, <2>4, IdentifiersAreUnique DEF FieldsAreWords, SourceIdentifier
  <2> QED
    BY <2>1, <2>2, <2>5, <2>6
<1>2. Spec => []FieldsAreWords
  BY FieldsHaveWidths, MemoryInvariance, PTL
<1>3. FieldsAreWords /\ FieldsAreWords' =>
        [/\ DestinationIdentifier' # DestinationIdentifier
               <=> Touched(0 .. 5) \/ VlanId' # VlanId
         /\ SourceIdentifier' # SourceIdentifier
               <=> Touched(6 .. 11) \/ VlanId' # VlanId]_vars
  BY <1>1
<1> QED
  BY <1>2, <1>3, PTL DEF Spec, IdentifiersTellEndpointsApart

\* Two senders are taken for one exactly when they are one: the octets of the union
\* that an IPv4 address leaves alone make no difference (INetAddress.h:100-112,
\* SocketAddressUtils.h:41-59).
THEOREM SendersAreToldApart == Spec => PeersAreSenders
<1>1. BigEndian(octets, 16, 2)' = BigEndian(octets, 16, 2) <=> ~Touched(16 .. 17)
  <2>1. /\ BigEndian(octets, 16, 2)'[0] = octets'[17] /\ BigEndian(octets, 16, 2)[0] = octets[17]
        /\ BigEndian(octets, 16, 2)'[1] = octets'[16] /\ BigEndian(octets, 16, 2)[1] = octets[16]
    BY DEF BigEndian
  <2>2. ASSUME ~Touched(16 .. 17) PROVE BigEndian(octets, 16, 2)' = BigEndian(octets, 16, 2)
    BY <2>2 DEF BigEndian, Touched
  <2> QED
    BY <2>1, <2>2 DEF Touched
<1>2. Octets(0, 4)' = Octets(0, 4) <=> ~Touched(0 .. 3)
  BY 0 \in Nat, 4 \in Nat, 3 \in Int, 3 = 0 + 4 - 1, OctetsChange
<1>3. Octets(0, 16)' = Octets(0, 16) <=> ~Touched(0 .. 15)
  BY 0 \in Nat, 16 \in Nat, 15 \in Int, 15 = 0 + 16 - 1, OctetsChange
<1>4. ASSUME SenderIsKept, SenderIsKept', IsValid(Peer), IsValid(Peer)'
      PROVE  SamePeer(Peer, Peer') <=> SameSender
  <2>1. SamePeer(Peer, Peer') <=>
           /\ Peer.address.mType = Peer'.address.mType
           /\ GetBytes(Peer.address) = GetBytes(Peer'.address)
           /\ Peer.port = Peer'.port
    BY DEF SamePeer, SameAddress
  <2>2. /\ Peer'.port = BigEndian(octets, 16, 2)'
        /\ Peer'.address.mType = IF family' = "AF_INET" THEN "kIpv4" ELSE "kIpv6"
        /\ GetBytes(Peer'.address) =
              IF family' = "AF_INET" THEN Octets(0, 4)' ELSE Octets(0, 16)'
        /\ family' \in {"AF_INET", "AF_INET6"}
    BY <1>4 DEF SenderIsKept, GetBytes, Octets
  <2>3. /\ Peer.port = BigEndian(octets, 16, 2)
        /\ Peer.address.mType = IF family = "AF_INET" THEN "kIpv4" ELSE "kIpv6"
        /\ GetBytes(Peer.address) = IF family = "AF_INET" THEN Octets(0, 4) ELSE Octets(0, 16)
        /\ family \in {"AF_INET", "AF_INET6"}
    BY <1>4 DEF SenderIsKept
  <2>4. CASE family = "AF_INET"
    <3>1. SameSender <=> family' = family /\ ~Touched(16 .. 17) /\ ~Touched(0 .. 3)
      BY <2>4 DEF SameSender
    <3> QED
      BY <1>1, <1>2, <1>3, <2>1, <2>2, <2>3, <2>4, <3>1
  <2>5. CASE family = "AF_INET6"
    <3>1. SameSender <=> family' = family /\ ~Touched(16 .. 17) /\ ~Touched(0 .. 15)
      BY <2>5 DEF SameSender
    <3> QED
      BY <1>1, <1>2, <1>3, <2>1, <2>2, <2>3, <2>5, <3>1
  <2> QED
    BY <2>3, <2>4, <2>5
<1>5. Spec => []SenderIsKept
  BY KeepsSender, MemoryInvariance, PTL
<1>6. SenderIsKept /\ SenderIsKept' =>
        [IsValid(Peer) /\ IsValid(Peer)' => (SamePeer(Peer, Peer') <=> SameSender)]_vars
  BY <1>4
<1> QED
  BY <1>5, <1>6, PTL DEF Spec, PeersAreSenders
=============================================================================
