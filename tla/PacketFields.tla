----------------------------- MODULE PacketFields -----------------------------
(***************************************************************************)
(* How the code reads what recvfrom has written: the headers of datagrams  *)
(* and frames (WireGuard client ids, VXLAN network ids, Ethernet addresses *)
(* and VLAN tags), endpoint identifiers, and the address of the sender.    *)
(*                                                                         *)
(* octets is memory that one datagram after another is received into: the  *)
(* octets behind the end of a short one are those of its predecessors.     *)
(* Every field is read from the same octets; a step changes one octet, the *)
(* size or the family, so that what a field depends on can be seen.        *)
(***************************************************************************)
EXTENDS SocketAddress, FiniteSets

CONSTANTS Values,        \* bound: values of an octet
          Sizes,         \* bound: sizes of datagrams
          MaxNonZero     \* bound: octets that are not zero at one time
ASSUME BoundsAssumption ==
    /\ Values \subseteq Octet /\ Sizes \subseteq Nat /\ MaxNonZero \in Nat

VARIABLES octets,    \* the memory
          size,      \* of the last datagram
          family     \* sa_family of its sender

vars == <<kIsLittleEndian, octets, size, family>>

Place == 0 .. 17
Family == {"AF_INET", "AF_INET6", "AF_UNIX"}

Init == /\ kIsLittleEndian \in BOOLEAN
        /\ octets = [i \in Place |-> 0]
        /\ size \in Sizes
        /\ family \in Family

\* The next datagram differs in one octet, in its size, or in its sender.
ChangeOctet(i, v) ==
    /\ octets' = [octets EXCEPT ![i] = v]
    /\ Cardinality({j \in Place : octets'[j] # 0}) <= MaxNonZero
    /\ UNCHANGED <<kIsLittleEndian, size, family>>
ChangeSize(n) == size' = n /\ UNCHANGED <<kIsLittleEndian, octets, family>>
ChangeFamily(f) == family' = f /\ UNCHANGED <<kIsLittleEndian, octets, size>>

Next == \/ \E i \in Place, v \in Values : ChangeOctet(i, v)
        \/ \E n \in Sizes : ChangeSize(n)
        \/ \E f \in Family : ChangeFamily(f)

Spec == Init /\ [][Next]_vars

Octets(first, k) == [i \in 0 .. k - 1 |-> octets[first + i]]

-----------------------------------------------------------------------------
(* WireGuardPacketHeader and GetSessionIdFromClientPacket. *)

\* Mutant: a short datagram is read like any other.
SessionIdOfAnySize ==
    LET reservedValue == ShiftRight(Load(octets, 0, 4), 1)
    IN  IF reservedValue = Zero(4)
        THEN Zero(8)
        ELSE [Converted(reservedValue, 8) EXCEPT ![4] = 2]

\* typeAndReserved >> 8, and 2 << 32 in front of it; 0 is no session.
SessionId ==
    LET reservedValue == ShiftRight(Load(octets, 0, 4), 1)
    IN  IF size < 32 \/ reservedValue = Zero(4)
        THEN Zero(8)
        ELSE [Converted(reservedValue, 8) EXCEPT ![4] = 2]

-----------------------------------------------------------------------------
(* EtherPacketStruct.h. *)

\* StreamPacketHeader::GetNetId.
NetId == ShiftRight(NToH32(Load(octets, 4, 4)), 1)

EtherType8021Q == [i \in 0 .. 1 |-> 129 * i]         \* 0x8100

\* EtherFrameHeader::GetVlanTag and GetVlanId: the tag & 0x0FFF.
VlanTag == IF Load(octets, 12, 2) = NToH16(EtherType8021Q)
           THEN NToH16(Load(octets, 14, 2))
           ELSE Zero(2)

\* Mutant: the priority bits of the tag stay in the VLAN id.
VlanIdWithPriority == VlanTag

VlanId == [VlanTag EXCEPT ![1] = @ % 16]

\* Mutant: the VLAN id is shifted over the last octet of the address.
AddressToIdentifierOverlapping(mac, vlanId) ==
    [i \in 0 .. 7 |-> IF i < 5 THEN mac[i] ELSE IF i < 7 THEN vlanId[i - 5] ELSE 0]

\* Six octets of the address, first one lowest, below the VLAN id.
AddressToIdentifier(mac, vlanId) == [i \in 0 .. 7 |-> IF i < 6 THEN mac[i] ELSE vlanId[i - 6]]

DestinationIdentifier == AddressToIdentifier(Octets(0, 6), VlanId)
SourceIdentifier == AddressToIdentifier(Octets(6, 6), VlanId)

-----------------------------------------------------------------------------
(* EndpointId.h: the octets as a 64-bit id, its lowest first. *)

id == Octets(0, 8)
GetType == id[7]
GetNetworkId == Converted(ShiftRight(id, 3), 4)
GetStreamId == Converted(id, 4)
IsNone == GetType = 0
IsTap == GetType = 1
IsStream == GetType = 2
IsShadow == GetType = 4

-----------------------------------------------------------------------------
(* The sender of a datagram, as recvfrom reports it and as the code keeps it. *)

Sender == SockAddr(family, Octets(16, 2), octets)
Peer == ToSocketAddress(Sender, octets)

-----------------------------------------------------------------------------
(* Properties. *)

\* On every build, and at every width, the swaps of Endian.h read integers that
\* lie in memory in network order or in little-endian order as what they are.
SwapsReadMemory ==
    /\ NToH16(Load(octets, 0, 2)) = BigEndian(octets, 0, 2)
    /\ NToH32(Load(octets, 0, 4)) = BigEndian(octets, 0, 4)
    /\ NToH64(Load(octets, 0, 8)) = BigEndian(octets, 0, 8)
    /\ LToH16(Load(octets, 0, 2)) = LittleEndian(octets, 0, 2)
    /\ LToH32(Load(octets, 0, 4)) = LittleEndian(octets, 0, 4)
    /\ LToH64(Load(octets, 0, 8)) = LittleEndian(octets, 0, 8)

\* On every build, the network id is the three octets of the VNI and the VLAN id
\* the low twelve bits of the tag of a frame that has one (EtherPacketStruct.h:31
\* and 67-79).
FieldsAreOnTheWire ==
    /\ NetId = [i \in 0 .. 3 |-> IF i < 3 THEN octets[6 - i] ELSE 0]
    /\ VlanId = IF octets[12] = 129 /\ octets[13] = 0
                THEN [i \in 0 .. 1 |-> IF i = 0 THEN octets[15] ELSE octets[14] % 16]
                ELSE Zero(2)

Touched(places) == \E i \in places : octets'[i] # octets[i]

\* An identifier changes exactly when the address or the VLAN does, so that two
\* endpoints never share one (EtherPacketStruct.h:39-58 and 81-87).
IdentifiersTellEndpointsApart ==
    [][/\ DestinationIdentifier' # DestinationIdentifier <=> Touched(0 .. 5) \/ VlanId' # VlanId
       /\ SourceIdentifier' # SourceIdentifier <=> Touched(6 .. 11) \/ VlanId' # VlanId]_vars

\* README.md:26: the relay tells clients apart by the reserved field.  Datagrams of
\* one client have one session whatever their type, those of two never share one,
\* and what an earlier datagram left behind a short one gives it no session.  Only
\* builds for little-endian machines do so: the word is not converted
\* (WgcfRelayWorker.cc:93-108).
SessionIsClientId ==
    [][kIsLittleEndian =>
          /\ SessionId' # Zero(8) <=> size' >= 32 /\ \E i \in 1 .. 3 : octets'[i] # 0
          /\ size >= 32 /\ size' >= 32 => (SessionId' # SessionId <=> Touched(1 .. 3))]_vars

\* The code takes two senders for one exactly when the kernel says they are:
\* octets of the union that the address does not use make no difference
\* (INetAddress.h:100-112, SocketAddressUtils.h:41-59).
SameSender == /\ family' = family
              /\ ~Touched(16 .. 17)
              /\ CASE family = "AF_INET" -> ~Touched(0 .. 3)
                   [] family = "AF_INET6" -> ~Touched(0 .. 15)
PeersAreSenders ==
    [][IsValid(Peer) /\ IsValid(Peer)' => (SamePeer(Peer, Peer') <=> SameSender)]_vars

\* What is sent to the address that was kept goes to the sender, on every build
\* (SocketAddressUtils.h:19-37).
AnswersGoBack ==
    IsValid(Peer) =>
        ToLinuxSocketAddress(Peer) =
            SockAddr(family, Octets(16, 2), IF family = "AF_INET" THEN Octets(0, 4) ELSE Octets(0, 16))
=============================================================================
