---------------------------- MODULE SocketAddress ----------------------------
(***************************************************************************)
(* src/common/INetAddress.h, INetSocketAddress.h and SocketAddressUtils.h:  *)
(* addresses as a type tag beside a union of 4 and 16 octets, and their    *)
(* conversion from and to the sockaddr of the kernel.  Texts of addresses  *)
(* are abstracted in Startup.                                              *)
(***************************************************************************)
EXTENDS OctetWords

\* A sockaddr_in or sockaddr_in6: the family, and the octets of the port and of the
\* address as they lie in memory.  The flow label and the scope of an IPv6 address
\* are left out: one conversion does not read them, the other sets them to zero.
SockAddr(family, port, addr) == [family |-> family, port |-> port, addr |-> addr]

NoAddress == [mType |-> "kNone", octets |-> Zero(16)]

\* INetAddress(span<4>) sets the first four octets of the union only, INetAddress(
\* span<16>) all of them; rest is what was there before.
Ipv4(addr, rest) ==
    [mType |-> "kIpv4", octets |-> [i \in 0 .. 15 |-> IF i < 4 THEN addr[i] ELSE rest[i]]]
Ipv6(addr) == [mType |-> "kIpv6", octets |-> [i \in 0 .. 15 |-> addr[i]]]

GetBytes(a) == CASE a.mType = "kIpv4" -> [i \in 0 .. 3 |-> a.octets[i]]
                 [] a.mType = "kIpv6" -> a.octets
                 [] OTHER -> <<>>

\* Mutant: the whole union is compared, also the octets that IPv4 leaves alone.
SameUnion(a, b) == a.mType = b.mType /\ a.octets = b.octets

\* operator== of INetAddress.
SameAddress(a, b) == a.mType = b.mType /\ GetBytes(a) = GetBytes(b)

\* operator== of INetSocketAddress.
SamePeer(p, q) == SameAddress(p.address, q.address) /\ p.port = q.port

IsValid(p) == p.address.mType \in {"kIpv4", "kIpv6"}

\* ToSocketAddress; what it refuses stays a default-constructed address.
ToSocketAddress(in, rest) ==
    LET port == NToH16(Load(in.port, 0, 2))
    IN  CASE in.family = "AF_INET"  -> [address |-> Ipv4(in.addr, rest), port |-> port]
          [] in.family = "AF_INET6" -> [address |-> Ipv6(in.addr), port |-> port]
          [] OTHER -> [address |-> NoAddress, port |-> Zero(2)]

\* htons, and the store of its result: what Load reads back.
PortOctets(port) == Load(NToH16(port), 0, 2)

\* Mutant: the port is stored as it lies in the host.
ToLinuxSocketAddressHostOrder(in) ==
    SockAddr(IF in.address.mType = "kIpv4" THEN "AF_INET" ELSE "AF_INET6",
             Load(in.port, 0, 2), GetBytes(in.address))

\* ToLinuxSocketAddress of a valid address: every other member is zero.
ToLinuxSocketAddress(in) ==
    SockAddr(IF in.address.mType = "kIpv4" THEN "AF_INET" ELSE "AF_INET6",
             PortOctets(in.port), GetBytes(in.address))
=============================================================================
