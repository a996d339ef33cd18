----------------------------- MODULE ParseNumber -----------------------------
(***************************************************************************)
(* support/text/ParseNumber.cc: integer parsers around strtol and its      *)
(* siblings.  A text is the integer it spells, Empty, or Junk when it does *)
(* not end where its number ends; the limits of the types are constants,   *)
(* so that small numbers meet them.                                        *)
(***************************************************************************)
EXTENDS Integers

CONSTANTS
    Empty, Junk,  \* the texts that spell no integer
    NoNumber,     \* the parser fails
    MaxInt16,     \* 2^15 - 1
    MaxPort,      \* 2^16 - 1
    MaxInt,       \* 2^31 - 1
    MaxUInt,      \* 2^32 - 1
    MaxLong,      \* 2^63 - 1
    MaxULong      \* 2^64 - 1

ASSUME WordAssumption == Empty \notin Int /\ Junk \notin Int /\ NoNumber \notin Int /\ Empty # Junk
ASSUME WidthAssumption ==
    /\ {MaxInt16, MaxPort, MaxInt, MaxUInt, MaxLong, MaxULong} \subseteq Nat
    /\ MaxInt16 < MaxPort /\ MaxPort < MaxInt /\ MaxInt < MaxUInt
    /\ MaxUInt < MaxLong /\ MaxULong = 2 * MaxLong + 1

Text == Int \cup {Empty, Junk}
Signed(limit) == -limit - 1 .. limit

Clamp(n, limit) == IF n > limit THEN limit ELSE IF n < -limit - 1 THEN -limit - 1 ELSE n

\* strtol and strtoll consume all of an empty text and clamp what a long cannot hold.
StrToL(text) == IF text = Empty THEN 0
                ELSE IF text = Junk THEN NoNumber
                ELSE Clamp(text, MaxLong)

\* strtoul and strtoull negate in the unsigned type what stands behind a minus sign.
StrToUL(text) == IF text = Empty THEN 0
                 ELSE IF text = Junk THEN NoNumber
                 ELSE IF text \notin -MaxULong .. MaxULong THEN MaxULong
                 ELSE IF text < 0 THEN MaxULong + 1 + text
                 ELSE text

\* The result of a wider parser, if it is in the range of the narrower type.
InRange(result, range) == IF result # NoNumber /\ result \in range THEN result ELSE NoNumber

ParseInt64(text) == StrToL(text)
ParseUInt64(text) == StrToUL(text)
ParseInt32(text) == InRange(StrToL(text), Signed(MaxInt))
ParseUInt32(text) == InRange(StrToUL(text), 0 .. MaxUInt)
ParseInt16(text) == InRange(ParseInt32(text), Signed(MaxInt16))

\* Mutant: the lower end of the range is not checked.
ParseUInt16Signed(text) == InRange(ParseInt32(text), Signed(MaxPort))

ParseUInt16(text) == InRange(ParseInt32(text), 0 .. MaxPort)
=============================================================================
