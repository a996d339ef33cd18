------------------------------ MODULE OctetWords ------------------------------
(***************************************************************************)
(* Unsigned integers of 16, 32 and 64 bits as words: functions from the    *)
(* places 0 .. k-1 to octets, place 0 least significant, so that shifts and *)
(* masks by whole octets are exact at every width.  On top of them,        *)
(* src/platform/arch/Endian.h.                                             *)
(***************************************************************************)
EXTENDS Integers

Octet == 0 .. 255

VARIABLE kIsLittleEndian     \* what the build is for; it never changes

Word(k) == [0 .. k - 1 -> Octet]
Zero(k) == [i \in 0 .. k - 1 |-> 0]

\* w >> 8 * n and w << 8 * n, in the width of w.
ShiftRight(w, n) == [i \in DOMAIN w |-> IF i + n \in DOMAIN w THEN w[i + n] ELSE 0]
ShiftLeft(w, n) == [i \in DOMAIN w |-> IF i - n \in DOMAIN w THEN w[i - n] ELSE 0]

\* w & a mask of whole octets.
Masked(w, places) == [i \in DOMAIN w |-> IF i \in places THEN w[i] ELSE 0]

\* v | w, where no place is in use in both.
Joined(v, w) == [i \in DOMAIN v |-> IF v[i] = 0 THEN w[i] ELSE v[i]]

\* Conversion to a type of k octets.
Converted(w, k) == [i \in 0 .. k - 1 |-> IF i \in DOMAIN w THEN w[i] ELSE 0]

-----------------------------------------------------------------------------
(* Endian.h. *)

SwapEndian16(w) == Joined(ShiftRight(w, 1), ShiftLeft(w, 1))

\* Mutant: one mask keeps the octet beside the one it is meant for.
SwapEndian32Slipped(w) ==
    Joined(Joined(ShiftRight(w, 3), ShiftRight(Masked(w, {2}), 1)),
           Joined(ShiftLeft(Masked(w, {0}), 1), ShiftLeft(w, 3)))

SwapEndian32(w) ==
    Joined(Joined(ShiftRight(w, 3), ShiftRight(Masked(w, {2}), 1)),
           Joined(ShiftLeft(Masked(w, {1}), 1), ShiftLeft(w, 3)))

SwapEndian64(w) ==
    Joined(Joined(Joined(ShiftRight(w, 7), ShiftRight(Masked(w, {6}), 5)),
                  Joined(ShiftRight(Masked(w, {5}), 3), ShiftRight(Masked(w, {4}), 1))),
           Joined(Joined(ShiftLeft(Masked(w, {3}), 1), ShiftLeft(Masked(w, {2}), 3)),
                  Joined(ShiftLeft(Masked(w, {1}), 5), ShiftLeft(w, 7))))

\* ntoh and hton, btoh and htob, and their counterparts for little-endian data.
NToH16(w) == IF kIsLittleEndian THEN SwapEndian16(w) ELSE w
NToH32(w) == IF kIsLittleEndian THEN SwapEndian32(w) ELSE w
NToH64(w) == IF kIsLittleEndian THEN SwapEndian64(w) ELSE w
LToH16(w) == IF kIsLittleEndian THEN w ELSE SwapEndian16(w)
LToH32(w) == IF kIsLittleEndian THEN w ELSE SwapEndian32(w)
LToH64(w) == IF kIsLittleEndian THEN w ELSE SwapEndian64(w)

\* What the machine does: the octets of memory from first on as a word of k octets.
Load(memory, first, k) ==
    [i \in 0 .. k - 1 |-> memory[first + (IF kIsLittleEndian THEN i ELSE k - 1 - i)]]

\* The same octets, the first of them most significant, as networks send them.
Reversed(w, k) == [i \in 0 .. k - 1 |-> w[k - 1 - i]]
BigEndian(memory, first, k) == [i \in 0 .. k - 1 |-> memory[first + k - 1 - i]]
LittleEndian(memory, first, k) == [i \in 0 .. k - 1 |-> memory[first + i]]
=============================================================================
