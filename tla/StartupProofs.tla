---------------------------- MODULE StartupProofs ----------------------------
(***************************************************************************)
(* Proofs about the start-up, for every command line, every file and every *)
(* way the reads split it, and about the parsers of ParseNumber it calls,  *)
(* for every text and at every width.                                      *)
(***************************************************************************)
EXTENDS Startup, SequenceTheorems, FiniteSetTheorems, TLAPS

-----------------------------------------------------------------------------
(* The parsers of ParseNumber. *)

\* What a text says when its number is asked for: nothing counts as 0.
Said(text) == IF text = Empty THEN 0 ELSE text

\* The signed parsers and ParseUInt16, which is one of them (ParseNumber.cc:32-47 and
\* 106-130), return a number exactly when it is the one the text spells and the type
\* holds it: the clamp of strtol and the narrowing lose nothing that is not refused.
THEOREM SignedParsersAreExact ==
    ASSUME NEW text \in Int \cup {Empty}
    PROVE  /\ ParseInt32(text) = InRange(Said(text), Signed(MaxInt))
           /\ ParseInt16(text) = InRange(Said(text), Signed(MaxInt16))
           /\ ParseUInt16(text) = InRange(Said(text), 0 .. MaxPort)
<1>1. Said(text) \in Int
  BY WordAssumption DEF Said
<1>2. StrToL(text) = Clamp(Said(text), MaxLong)
  BY WordAssumption, WidthAssumption DEF StrToL, Said, Clamp
<1> HIDE DEF Said
<1>3. ParseInt32(text) = InRange(Said(text), Signed(MaxInt))
  BY <1>1, <1>2, WordAssumption, WidthAssumption DEF ParseInt32, InRange, Clamp, Signed
<1>4. ParseInt16(text) = InRange(Said(text), Signed(MaxInt16))
  BY <1>1, <1>3, WordAssumption, WidthAssumption DEF ParseInt16, InRange, Signed
<1>5. ParseUInt16(text) = InRange(Said(text), 0 .. MaxPort)
  BY <1>1, <1>3, WordAssumption, WidthAssumption DEF ParseUInt16, InRange, Signed
<1> QED
  BY <1>3, <1>4, <1>5

\* The 64-bit parsers (ParseNumber.cc:13-24 and 67-78) do not look at errno: a number
\* that the type cannot hold is not refused but becomes the nearest one it holds.
THEOREM WideParserSaturates ==
    ASSUME NEW n \in Int
    PROVE  /\ ParseInt64(n) = Clamp(n, MaxLong)
           /\ n > MaxULong => ParseUInt64(n) = MaxULong
BY WordAssumption, WidthAssumption DEF ParseInt64, ParseUInt64, StrToL, StrToUL

\* A text that is not one number from its start to its end is refused by all.
THEOREM JunkIsRefused ==
    \A parse \in {ParseInt64(Junk), ParseUInt64(Junk), ParseInt32(Junk), ParseUInt32(Junk),
                  ParseInt16(Junk), ParseUInt16(Junk)} : parse = NoNumber
BY WordAssumption DEF ParseInt64, ParseUInt64, ParseInt32, ParseUInt32, ParseInt16,
                      ParseUInt16, InRange, StrToL, StrToUL

\* ParseUInt32 (ParseNumber.cc:50-65) is exact for what is not negative, and refuses a
\* negative number unless it is so large that strtoul wraps it into the range: there
\* ParseUInt32 succeeds with a number that the text does not spell.
THEOREM UnsignedParserWraps ==
    ASSUME NEW n \in Int
    PROVE  /\ n >= 0 => ParseUInt32(n) = InRange(n, 0 .. MaxUInt)
           /\ n < 0 => /\ ParseUInt32(n) # NoNumber <=>
                            n \in -MaxULong .. MaxUInt - MaxULong - 1
                       /\ ParseUInt32(n) # NoNumber => ParseUInt32(n) = MaxULong + 1 + n
<1>1. n # Empty /\ n # Junk /\ MaxUInt < MaxULong
  BY WordAssumption, WidthAssumption
<1>2. CASE n >= 0
  BY <1>1, <1>2, WordAssumption, WidthAssumption DEF ParseUInt32, InRange, StrToUL
<1>3. CASE n < 0
  BY <1>1, <1>3, WordAssumption, WidthAssumption DEF ParseUInt32, InRange, StrToUL
<1> QED
  BY <1>2, <1>3

-----------------------------------------------------------------------------
(* Lines. *)

\* What ParseUInt16 makes of a text is a port or a failure.
LEMMA ParsedIsPort ==
  ASSUME NEW text
  PROVE  ParseUInt16(text) \in (0 .. MaxPort) \cup {NoNumber}
  BY DEF ParseUInt16, InRange

\* Whatever the loop accepts names a target.
LEMMA TargetOfType ==
  ASSUME NEW text, LineIsGood(text)
  PROVE  TargetOf(text) \in Target
  <1>1. \A end \in {text.inbound, text.outbound, text.destination} : Parsed(end) \in ValidEnd
    BY ParsedIsPort DEF LineIsGood, EndIsGood, Parsed, ValidEnd
  <1> QED BY <1>1 DEF TargetOf, Target

\* A line that was read to its end names the target it spells.
LEMMA EndIsSaid ==
  ASSUME NEW end \in End, EndIsGood(end)
  PROVE  Says(Parsed(end), end)
  <1>1. end.port # Junk
    BY JunkIsRefused DEF EndIsGood
  <1>2. end.port \in Int \cup {Empty}
    BY <1>1 DEF End, Text
  <1>3. ParseUInt16(end.port) = Said(end.port)
    BY <1>2, SignedParsersAreExact DEF EndIsGood, InRange
  <1> QED BY <1>3 DEF Says, Parsed, Said

LEMMA LineIsSaid ==
  ASSUME NEW text \in Line \cup {Malformed}, LineIsGood(text)
  PROVE  SaysLine(TargetOf(text), text)
  <1>1. text \in [inbound : End, outbound : End, destination : End] /\ text # Malformed
    BY TextAssumption DEF LineIsGood
  <1>2. \A end \in {text.inbound, text.outbound, text.destination} : Says(Parsed(end), end)
    BY <1>1, EndIsSaid DEF LineIsGood
  <1> QED BY <1>1, <1>2 DEF SaysLine, TargetOf

-----------------------------------------------------------------------------
(* Sizes. *)

WrittenUpTo(k) == {j \in 1 .. k : file[j] # Blank}

LEMMA FileFacts ==
  ASSUME file \in Files
  PROVE  /\ file \in Seq(Line \cup {Blank, Malformed})
         /\ Len(file) \in 0 .. MaxLines
         /\ DOMAIN file = 1 .. Len(file)
  BY SeqDef, SizeAssumption DEF Files

LEMMA WrittenUpToFacts ==
  ASSUME NEW k \in Nat
  PROVE  IsFiniteSet(WrittenUpTo(k)) /\ Cardinality(WrittenUpTo(k)) \in Nat
  <1>1. IsFiniteSet(1 .. k) /\ WrittenUpTo(k) \in SUBSET (1 .. k)
    BY FS_Interval DEF WrittenUpTo
  <1> QED BY <1>1, FS_Subset, FS_CardinalityType

LEMMA SizeOfFirstLines ==
  ASSUME file \in Files, NEW k \in 0 .. Len(file)
  PROVE  /\ SizeOf(FirstLines(k)) = k + (LineLength - 1) * Cardinality(WrittenUpTo(k))
         /\ SizeOf(FirstLines(k)) \in Nat
  <1>1. /\ Len(FirstLines(k)) = k /\ DOMAIN FirstLines(k) = 1 .. k
        /\ \A i \in 1 .. k : FirstLines(k)[i] = file[i]
    <2>1. \A i \in 1 .. k : file[i] \in Line \cup {Blank, Malformed}
      BY FileFacts, ElementOfSeq
    <2> QED BY <2>1, SubSeqProperties DEF FirstLines
  <1>2. WrittenLines(FirstLines(k)) = WrittenUpTo(k)
    BY <1>1 DEF WrittenLines, WrittenUpTo
  <1>3. k \in Nat
    BY FileFacts
  <1>4. Cardinality(WrittenUpTo(k)) \in Nat
    BY <1>3, WrittenUpToFacts
  <1>5. SizeOf(FirstLines(k)) = k + (LineLength - 1) * Cardinality(WrittenUpTo(k))
    BY <1>1, <1>2 DEF SizeOf
  <1>6. (LineLength - 1) * Cardinality(WrittenUpTo(k)) \in Nat
    BY <1>4, SizeAssumption
  <1> QED BY <1>3, <1>5, <1>6

LEMMA SizeOfFile ==
  ASSUME file \in Files
  PROVE  /\ SizeOf(FirstLines(Len(file))) = SizeOf(file) /\ SizeOf(file) \in Nat
         /\ WrittenLines(file) = WrittenUpTo(Len(file))
  <1>1. FirstLines(Len(file)) = file
    BY FileFacts, SubSeqFull DEF FirstLines
  <1>2. Len(file) \in 0 .. Len(file)
    BY FileFacts
  <1>3. SizeOf(FirstLines(Len(file))) \in Nat
    BY <1>2, SizeOfFirstLines
  <1>4. WrittenLines(file) = WrittenUpTo(Len(file))
    BY FileFacts DEF WrittenLines, WrittenUpTo
  <1> QED BY <1>1, <1>3, <1>4

\* Every line makes the file longer, a blank one by its end only.
LEMMA LinesAddUp ==
  ASSUME file \in Files, NEW k \in 0 .. Len(file) - 1
  PROVE  /\ SizeOf(FirstLines(k)) < SizeOf(file)
         /\ file[k + 1] = Blank => SizeOf(FirstLines(k + 1)) = SizeOf(FirstLines(k)) + 1
  <1>1. Len(file) \in Nat
    BY FileFacts
  <1> DEFINE n == Len(file)
             a == Cardinality(WrittenUpTo(k))
             b == Cardinality(WrittenUpTo(n))
  <1> HIDE DEF n
  <1>2. a \in Nat /\ b \in Nat /\ a <= b
    <2>1. WrittenUpTo(k) \in SUBSET WrittenUpTo(n)
      BY <1>1 DEF WrittenUpTo, n
    <2> QED BY <1>1, <2>1, WrittenUpToFacts, FS_Subset DEF n
  <1>3. (LineLength - 1) * a <= (LineLength - 1) * b
    <2> HIDE DEF a, b
    <2> QED BY <1>2, SizeAssumption
  <1>4. SizeOf(FirstLines(k)) < SizeOf(file)
    <2>1. /\ SizeOf(FirstLines(k)) = k + (LineLength - 1) * a
          /\ SizeOf(file) = n + (LineLength - 1) * b
      BY <1>1, SizeOfFirstLines, SizeOfFile DEF n
    <2>2. (LineLength - 1) * a \in Nat /\ (LineLength - 1) * b \in Nat
      BY <1>2, SizeAssumption
    <2> HIDE DEF a, b
    <2> QED BY <1>1, <1>3, <2>1, <2>2 DEF n
  <1>5. ASSUME file[k + 1] = Blank
        PROVE  SizeOf(FirstLines(k + 1)) = SizeOf(FirstLines(k)) + 1
    <2>1. WrittenUpTo(k + 1) = WrittenUpTo(k)
      BY <1>1, <1>5 DEF WrittenUpTo
    <2>2. SizeOf(FirstLines(k + 1)) = k + 1 + (LineLength - 1) * a
      BY <1>1, <2>1, SizeOfFirstLines
    <2>3. SizeOf(FirstLines(k)) = k + (LineLength - 1) * a /\ (LineLength - 1) * a \in Nat
      BY <1>1, <1>2, SizeOfFirstLines, SizeAssumption
    <2> HIDE DEF a
    <2> QED BY <2>2, <2>3
  <1> QED BY <1>4, <1>5

-----------------------------------------------------------------------------
(* The lines that have been parsed and the targets that come from them. *)

\* The targets come from the first k lines, in order; all say what their lines say,
\* but for the last one when its line was cut.
ServedUpTo(k, from) ==
    /\ from \in [1 .. Len(targets) -> WrittenUpTo(k)]
    /\ \A i, j \in DOMAIN from : i < j => from[i] < from[j]
    /\ \A m \in WrittenUpTo(k) : \E i \in DOMAIN from : m = from[i]
    /\ \A i \in DOMAIN from : \/ i = Len(targets) /\ content < SizeOf(FirstLines(k))
                              \/ SaysLine(targets[i], file[from[i]])
Served(k) == \E from : ServedUpTo(k, from)

FromFile == phase \in {"setup", "running"} /\ Head(argv) # "wgcfrelay"

IInv ==
    /\ TypeOK
    /\ phase \in {"main", "check", "open", "read"} => line = 0 /\ targets = <<>>
    /\ phase \in {"open", "read", "parse"} \/ FromFile => file \in Files
    /\ phase \in {"read", "parse"} \/ FromFile => content <= SizeOf(file)
    /\ phase = "parse" \/ FromFile => /\ content = SizeOf(file) \/ content = max
                                      /\ line <= Len(file)
                                      /\ Served(line)
    /\ FromFile => SizeOf(FirstLines(line)) >= content

LEMMA NothingServed ==
  ASSUME file \in Files, targets = <<>>
  PROVE  Served(0)
  <1> DEFINE from == [i \in 1 .. Len(targets) |-> 0]
  <1>1. DOMAIN from = {}
    OBVIOUS
  <1>2. WrittenUpTo(0) = {}
    BY DEF WrittenUpTo
  <1>3. from \in [1 .. Len(targets) -> WrittenUpTo(0)]
    BY <1>1
  <1>4. ServedUpTo(0, from)
    BY <1>1, <1>2, <1>3 DEF ServedUpTo
  <1> QED BY <1>4 DEF Served

LEMMA InvInit == Init => IInv
  BY SizeAssumption DEF Init, IInv, TypeOK, FromFile

\* The loop stops before the end of the file.
LEMMA MoreLinesFacts ==
  ASSUME IInv, MoreLines
  PROVE  /\ file \in Files /\ line \in 0 .. Len(file) - 1
         /\ content \in Nat
         /\ Served(line) /\ Len(targets) \in Nat
         /\ content < SizeOf(FirstLines(line + 1)) => file[line + 1] # Blank
  <1>1. /\ file \in Files /\ line \in 0 .. MaxLines /\ line <= Len(file)
        /\ content \in 0 .. max /\ content <= SizeOf(file) /\ Served(line)
    BY DEF IInv, TypeOK, MoreLines
  <1>2. Len(file) \in Nat /\ line \in Nat /\ content \in Nat
    BY <1>1, FileFacts, SizeAssumption
  <1>3. line # Len(file)
    BY <1>1, <1>2, SizeOfFile DEF MoreLines
  <1>4. line \in 0 .. Len(file) - 1
    BY <1>1, <1>2, <1>3
  <1>5. SizeOf(FirstLines(line)) \in Nat
    BY <1>1, <1>4, SizeOfFirstLines
  <1>6. file[line + 1] = Blank => SizeOf(FirstLines(line + 1)) <= content
    BY <1>1, <1>2, <1>4, <1>5, LinesAddUp DEF MoreLines
  <1>7. line + 1 \in 0 .. Len(file)
    BY <1>2, <1>4
  <1>8. SizeOf(FirstLines(line + 1)) \in Nat
    BY <1>1, <1>7, SizeOfFirstLines
  <1>9. Len(targets) \in Nat
    BY DEF IInv, TypeOK
  <1> QED BY <1>1, <1>2, <1>4, <1>6, <1>8, <1>9

LEMMA LineParsed ==
  ASSUME IInv, MoreLines, line' = line + 1, UNCHANGED <<phase, argv, file, content>>,
         targets' \in Seq(Target), Served(line)'
  PROVE  IInv'
  <1>1. /\ file \in Files /\ line \in 0 .. Len(file) - 1 /\ Len(file) \in 0 .. MaxLines
    BY MoreLinesFacts, FileFacts
  <1>2. line' \in 0 .. MaxLines /\ line' <= Len(file')
    BY <1>1, SizeAssumption
  <1>3. phase = "parse" /\ phase' = "parse" /\ ~FromFile'
    BY DEF MoreLines, FromFile
  <1>4. TypeOK'
    BY <1>2, <1>3 DEF IInv, TypeOK
  <1>5. SizeOf(file)' = SizeOf(file)
    BY DEF SizeOf, WrittenLines
  <1>6. /\ file' \in Files /\ content' <= SizeOf(file)'
        /\ content' = SizeOf(file)' \/ content' = max
    BY <1>3, <1>5 DEF IInv
  <1> QED BY <1>2, <1>3, <1>4, <1>6 DEF IInv

LEMMA SkipBlankLineStep ==
  ASSUME IInv, SkipBlankLine
  PROVE  IInv'
  <1>1. /\ file \in Files /\ line \in 0 .. Len(file) - 1 /\ Len(file) \in 0 .. MaxLines
        /\ Served(line) /\ MoreLines /\ Len(targets) \in Nat
    BY MoreLinesFacts, FileFacts DEF SkipBlankLine
  <1>2. WrittenUpTo(line + 1) = WrittenUpTo(line)
    BY <1>1 DEF WrittenUpTo, SkipBlankLine
  <1>3. PICK from : ServedUpTo(line, from)
    BY <1>1 DEF Served
  <1>4. \A i \in DOMAIN from : SaysLine(targets[i], file[from[i]])
    <2>1. ~(content < SizeOf(FirstLines(line)))
      BY <1>1, SizeOfFirstLines, MoreLinesFacts DEF MoreLines
    <2> QED BY <1>3, <2>1 DEF ServedUpTo
  <1>5. ServedUpTo(line + 1, from)
    BY <1>2, <1>3, <1>4 DEF ServedUpTo
  <1>6. ServedUpTo(line, from)'
    BY <1>5 DEF SkipBlankLine, ServedUpTo, WrittenUpTo, SaysLine, Says, SizeOf, FirstLines,
       WrittenLines
  <1>7. Served(line)' /\ targets' \in Seq(Target)
    BY <1>6 DEF Served, SkipBlankLine, IInv, TypeOK
  <1> QED BY <1>1, <1>7, LineParsed DEF SkipBlankLine

LEMMA ParseLineStep ==
  ASSUME IInv, ParseLine
  PROVE  IInv'
  <1>1. /\ file \in Files /\ line \in 0 .. Len(file) - 1 /\ Len(file) \in 0 .. MaxLines
        /\ Served(line) /\ MoreLines /\ Len(targets) \in Nat /\ content \in Nat
        /\ targets \in Seq(Target)
    BY MoreLinesFacts, FileFacts DEF ParseLine, IInv, TypeOK
  <1>2. PICK text \in NextLine : LineIsGood(text) /\ targets' = Append(targets, TargetOf(text))
    BY DEF ParseLine
  <1>2a. PICK n : n = Len(targets) + 1
    OBVIOUS
  <1>3. TargetOf(text) \in Target
    BY <1>2, TargetOfType
  <1>4. /\ targets' \in Seq(Target) /\ Len(targets') = n
        /\ \A i \in 1 .. Len(targets) : targets'[i] = targets[i]
        /\ targets'[n] = TargetOf(text)
    BY <1>1, <1>2, <1>2a, <1>3, AppendProperties
  <1>5. WrittenUpTo(line + 1) = WrittenUpTo(line) \cup {line + 1}
    BY <1>1 DEF WrittenUpTo, ParseLine
  <1>6. PICK from : ServedUpTo(line, from)
    BY <1>1 DEF Served
  <1>6a. PICK from2 : from2 = [i \in 1 .. n |-> IF i = n THEN line + 1 ELSE from[i]]
    OBVIOUS
  <1>7. /\ from \in [1 .. Len(targets) -> WrittenUpTo(line)]
        /\ \A i, j \in 1 .. Len(targets) : i < j => from[i] < from[j]
        /\ \A m \in WrittenUpTo(line) : \E i \in 1 .. Len(targets) : m = from[i]
        /\ \A i \in 1 .. Len(targets) : SaysLine(targets[i], file[from[i]])
    <2>1. ~(content < SizeOf(FirstLines(line)))
      BY <1>1, SizeOfFirstLines DEF MoreLines
    <2> QED BY <1>6, <2>1 DEF ServedUpTo
  <1>8. \A m \in WrittenUpTo(line) : m \in Nat /\ m < line + 1
    BY <1>1 DEF WrittenUpTo
  <1>9. from2 \in [1 .. n -> WrittenUpTo(line + 1)]
    BY <1>1, <1>2a, <1>5, <1>6a, <1>7
  <1>10. \A i, j \in 1 .. n : i < j => from2[i] < from2[j]
    BY <1>1, <1>2a, <1>6a, <1>7, <1>8
  <1>11. \A m \in WrittenUpTo(line + 1) : \E i \in 1 .. n : m = from2[i]
    <2>1. from2[n] = line + 1 /\ n \in 1 .. n
      BY <1>1, <1>2a, <1>6a
    <2>2. \A i \in 1 .. Len(targets) : i \in 1 .. n /\ from2[i] = from[i]
      BY <1>1, <1>2a, <1>6a
    <2> QED BY <1>5, <1>7, <2>1, <2>2
  <1>12. \A i \in 1 .. Len(targets) : SaysLine(targets'[i], file[from2[i]])
    BY <1>1, <1>2a, <1>4, <1>6a, <1>7
  <1>13. \/ content < SizeOf(FirstLines(line + 1))
         \/ SaysLine(targets'[n], file[from2[n]])
    <2> SUFFICES ASSUME ~(content < SizeOf(FirstLines(line + 1)))
                 PROVE  SaysLine(TargetOf(text), file[line + 1])
      BY <1>1, <1>2a, <1>4, <1>6a
    <2>1. line + 1 \in 0 .. Len(file)
      BY <1>1
    <2>2. SizeOf(FirstLines(line + 1)) \in Nat
      BY <1>1, <2>1, SizeOfFirstLines
    <2>3. NextLine = {file[line + 1]}
      BY <1>1, <2>2 DEF NextLine, Cut
    <2>4. file[line + 1] \in Line \cup {Malformed}
      <3>1. line + 1 \in 1 .. Len(file)
        BY <1>1
      <3> QED BY <1>1, <3>1, FileFacts, ElementOfSeq DEF ParseLine
    <2> QED BY <1>2, <2>3, <2>4, LineIsSaid
  <1>14. UNCHANGED <<phase, argv, file, content>> /\ line' = line + 1
    BY DEF ParseLine
  <1>15. ServedUpTo(line, from2)'
    <2>1. /\ WrittenUpTo(line)' = WrittenUpTo(line + 1)
          /\ SizeOf(FirstLines(line))' = SizeOf(FirstLines(line + 1))
      BY <1>14 DEF WrittenUpTo, SizeOf, FirstLines, WrittenLines
    <2>2. DOMAIN from2 = 1 .. n
      BY <1>6a
    <2>3. \A i \in 1 .. n : i \in 1 .. Len(targets) \/ i = n
      BY <1>1, <1>2a
    <2>4. \A i \in 1 .. n : \/ i = n /\ content < SizeOf(FirstLines(line + 1))
                            \/ SaysLine(targets'[i], file[from2[i]])
      BY <1>12, <1>13, <2>3
    <2>5. \A i \in 1 .. n : \/ i = Len(targets') /\ content' < SizeOf(FirstLines(line))'
                            \/ SaysLine(targets[i], file[from2[i]])'
      <3>1. TAKE i \in 1 .. n
      <3>2. CASE SaysLine(targets'[i], file[from2[i]])
        BY <1>14, <3>2 DEF SaysLine, Says
      <3>3. CASE i = n /\ content < SizeOf(FirstLines(line + 1))
        BY <1>4, <1>14, <2>1, <3>3
      <3> QED BY <2>4, <3>2, <3>3
    <2>6. from2 \in [1 .. Len(targets') -> WrittenUpTo(line)']
      BY <1>4, <1>9, <2>1
    <2>7. \A m \in WrittenUpTo(line)' : \E i \in DOMAIN from2 : m = from2[i]
      BY <1>11, <2>1, <2>2
    <2> QED BY <1>10, <2>2, <2>5, <2>6, <2>7 DEF ServedUpTo
  <1> QED BY <1>1, <1>4, <1>14, <1>15, LineParsed DEF Served

\* When the loop ends, whatever was read has been parsed.
LEMMA LinesEndStep ==
  ASSUME IInv, LinesEnd
  PROVE  IInv'
  <1>1. /\ phase = "parse" /\ phase' = "setup"
        /\ UNCHANGED <<argv, file, content, line, targets>>
        /\ SizeOf(FirstLines(line)) >= content
    BY DEF LinesEnd, Go
  <1>2. /\ SizeOf(file)' = SizeOf(file)
        /\ SizeOf(FirstLines(line))' = SizeOf(FirstLines(line))
    BY <1>1 DEF SizeOf, WrittenLines, FirstLines
  <1>3. Served(line)' = Served(line)
    BY <1>1 DEF Served, ServedUpTo, WrittenUpTo, FirstLines, SizeOf, WrittenLines, SaysLine, Says
  <1> QED BY <1>1, <1>2, <1>3 DEF IInv, TypeOK

LEMMA ExitStep ==
  ASSUME IInv, Exit
  PROVE  IInv'
  BY DEF IInv, TypeOK, Exit, FromFile

\* The steps up to the parser.
LEMMA EarlyStep ==
  ASSUME IInv, StartForwarder \/ StartRelay \/ FindFile \/ OpenFile
  PROVE  IInv'
  <1>1. CASE StartForwarder
    BY <1>1 DEF StartForwarder, Go, IInv, TypeOK, FromFile
  <1>2. CASE StartRelay
    <2>1. CASE Exit
      BY <2>1, ExitStep
    <2>2. CASE phase' = "setup" /\ UNCHANGED <<argv, file, content, line, targets>>
      <3>1. Head(argv) = "wgcfrelay"
        BY <1>2 DEF StartRelay, StartsRelay
      <3> QED BY <2>2, <3>1 DEF IInv, TypeOK, FromFile
    <2> QED BY <1>2, <2>1, <2>2 DEF StartRelay
  <1>3. CASE FindFile
    <2>1. CASE Exit
      BY <2>1, ExitStep
    <2>2. CASE Exists /\ Go("check", "open") /\ UNCHANGED <<argv, file, content, line, targets>>
      BY <2>2 DEF Exists, Go, IInv, TypeOK, FromFile
    <2> QED BY <1>3, <2>1, <2>2 DEF FindFile
  <1>4. CASE OpenFile
    <2>1. file \in Files
      BY <1>4 DEF IInv, OpenFile, Go
    <2>2. SizeOf(file)' \in Nat
      BY <1>4, <2>1, SizeOfFile DEF OpenFile, SizeOf, WrittenLines
    <2> QED BY <1>4, <2>1, <2>2, SizeAssumption DEF OpenFile, Go, IInv, TypeOK, FromFile
  <1> QED BY <1>1, <1>2, <1>3, <1>4

LEMMA ReadStep ==
  ASSUME IInv, NEW n \in 1 .. BufferSize, Read(n)
  PROVE  IInv'
  <1>1. phase = "read" /\ phase' = "read" /\ UNCHANGED <<argv, file, line, targets>>
    BY DEF Read
  <1>2. SizeOf(file)' = SizeOf(file)
    BY <1>1 DEF SizeOf, WrittenLines
  <1>3. content' \in 0 .. max /\ content' <= SizeOf(file)
    BY SizeAssumption DEF Read, IInv, TypeOK
  <1> QED BY <1>1, <1>2, <1>3 DEF IInv, TypeOK, FromFile

LEMMA ReadEndsStep ==
  ASSUME IInv, ReadEnds
  PROVE  IInv'
  <1>1. /\ phase = "read" /\ phase' = "parse"
        /\ UNCHANGED <<argv, file, content, line, targets>>
        /\ content = SizeOf(file) \/ content = max
    BY DEF ReadEnds, Go
  <1>2. file \in Files /\ line = 0 /\ targets = <<>> /\ content <= SizeOf(file)
    BY <1>1 DEF IInv
  <1>3. SizeOf(file)' = SizeOf(file)
    BY <1>1 DEF SizeOf, WrittenLines
  <1>4. Served(line)'
    <2>1. Served(line)' = Served(line)
      BY <1>1 DEF Served, ServedUpTo, WrittenUpTo, FirstLines, SizeOf, WrittenLines, SaysLine, Says
    <2> QED BY <1>2, <2>1, NothingServed
  <1>5. line' <= Len(file')
    BY <1>1, <1>2, FileFacts
  <1> QED BY <1>1, <1>2, <1>3, <1>4, <1>5 DEF IInv, TypeOK, FromFile

\* The steps after the parser, and no step at all.
LEMMA LateStep ==
  ASSUME IInv, SetupSockets \/ Terminated \/ UNCHANGED vars
  PROVE  IInv'
  <1>1. /\ UNCHANGED <<argv, file, content, line, targets>>
        /\ phase' = phase \/ (phase = "setup" /\ phase' = "running")
    BY DEF SetupSockets, Go, Terminated, vars
  <1>2. /\ SizeOf(file)' = SizeOf(file)
        /\ SizeOf(FirstLines(line))' = SizeOf(FirstLines(line))
    BY <1>1 DEF SizeOf, WrittenLines, FirstLines
  <1>3. Served(line)' = Served(line)
    BY <1>1 DEF Served, ServedUpTo, WrittenUpTo, FirstLines, SizeOf, WrittenLines, SaysLine, Says
  <1>4. FromFile' => FromFile
    BY <1>1 DEF FromFile
  <1>5. TypeOK'
    BY <1>1 DEF IInv, TypeOK
  <1> QED BY <1>1, <1>2, <1>3, <1>4, <1>5 DEF IInv

LEMMA InvNext == IInv /\ [Next]_vars => IInv'
  <1> SUFFICES ASSUME IInv, [Next]_vars PROVE IInv'
    OBVIOUS
  <1>1. CASE RejectArguments \/ ReadFails \/ RejectLine \/ SetupFails \/ RunWorkerReturns
    BY <1>1, ExitStep DEF RejectArguments, ReadFails, RejectLine, SetupFails, RunWorkerReturns
  <1>2. CASE StartForwarder \/ StartRelay \/ FindFile \/ OpenFile
    BY <1>2, EarlyStep
  <1>3. CASE \E n \in 1 .. BufferSize : Read(n)
    BY <1>3, ReadStep
  <1>4. CASE ReadEnds
    BY <1>4, ReadEndsStep
  <1>5. CASE SkipBlankLine \/ ParseLine \/ LinesEnd
    BY <1>5, SkipBlankLineStep, ParseLineStep, LinesEndStep
  <1>6. CASE SetupSockets \/ Terminated \/ UNCHANGED vars
    BY <1>6, LateStep
  <1> QED BY <1>1, <1>2, <1>3, <1>4, <1>5, <1>6 DEF Next, ParseFile

THEOREM Invariance == Spec => []IInv
  BY InvInit, InvNext, PTL DEF Spec

\* What SetupSockets gets are targets: valid addresses and ports in range.
THEOREM TypeCorrect == Spec => []TypeOK
  BY Invariance, PTL DEF IInv

\* Sockets are opened for all lines of the file in their order or for none, whatever
\* the file, its size and the sizes of the reads; of a file above the limit the first
\* lines are served, the last of them perhaps cut.
THEOREM TheFileIsServed == Spec => []ServesTheFile
  <1>1. IInv => ServesTheFile
    <2> SUFFICES ASSUME IInv, phase \in {"setup", "running"}, StartsForwarder
                 PROVE  \E from \in [1 .. Len(targets) -> WrittenLines(file)] :
          /\ \A i, j \in DOMAIN from : i < j => from[i] < from[j]
          /\ \A k \in WrittenLines(file) :
                \/ \E i \in DOMAIN from : k = from[i]
                \/ SizeOf(file) > max /\ \A i \in DOMAIN from : from[i] < k
          /\ \A i \in DOMAIN from :
                i < Len(targets) \/ SizeOf(file) <= max => SaysLine(targets[i], file[from[i]])
      BY DEF ServesTheFile
    <2>1. FromFile
      BY DEF FromFile, StartsForwarder
    <2>2. /\ file \in Files /\ content <= SizeOf(file)
          /\ content = SizeOf(file) \/ content = max
          /\ line <= Len(file) /\ Served(line)
          /\ SizeOf(FirstLines(line)) >= content
          /\ line \in 0 .. MaxLines /\ content \in 0 .. max
      BY <2>1 DEF IInv, TypeOK
    <2>3. Len(file) \in Nat /\ Len(targets) \in Nat /\ line \in 0 .. Len(file)
      BY <2>2, FileFacts DEF IInv, TypeOK
    <2>4. SizeOf(file) \in Nat /\ WrittenLines(file) = WrittenUpTo(Len(file))
      BY <2>2, SizeOfFile
    <2>5. PICK from : ServedUpTo(line, from)
      BY <2>2 DEF Served
    <2>6. WrittenUpTo(line) \subseteq WrittenLines(file)
      BY <2>3, <2>4 DEF WrittenUpTo
    <2>7. from \in [1 .. Len(targets) -> WrittenLines(file)]
      BY <2>5, <2>6 DEF ServedUpTo
    <2>8. ASSUME SizeOf(file) <= max
          PROVE  line = Len(file) /\ ~(content < SizeOf(FirstLines(line)))
      <3>1. content = SizeOf(file)
        BY <2>2, <2>4, <2>8, SizeAssumption
      <3>2. SizeOf(FirstLines(line)) \in Nat
        BY <2>2, <2>3, SizeOfFirstLines
      <3>3. line = Len(file)
        <4> SUFFICES ASSUME line # Len(file) PROVE FALSE
          OBVIOUS
        <4>1. line \in 0 .. Len(file) - 1
          BY <2>3
        <4>2. SizeOf(FirstLines(line)) < SizeOf(file)
          BY <2>2, <4>1, LinesAddUp
        <4> QED BY <2>2, <2>4, <3>1, <3>2, <4>2
      <3>4. SizeOf(FirstLines(line)) = SizeOf(file)
        BY <2>2, <3>3, SizeOfFile
      <3> QED BY <2>4, <3>1, <3>3, <3>4
    <2>9. ASSUME NEW k \in WrittenLines(file)
          PROVE  \/ \E i \in DOMAIN from : k = from[i]
                 \/ SizeOf(file) > max /\ \A i \in DOMAIN from : from[i] < k
      <3>1. CASE k \in WrittenUpTo(line)
        BY <2>5, <3>1 DEF ServedUpTo
      <3>2. CASE k \notin WrittenUpTo(line)
        <4>1. k \in 1 .. Len(file) /\ k > line
          BY <2>3, <2>4, <3>2 DEF WrittenUpTo
        <4>2. SizeOf(file) > max
          BY <2>3, <2>4, <2>8, <4>1, SizeAssumption
        <4>3. \A i \in DOMAIN from : from[i] \in 1 .. line
          BY <2>5 DEF ServedUpTo, WrittenUpTo
        <4> QED BY <2>3, <4>1, <4>2, <4>3
      <3> QED BY <3>1, <3>2
    <2>10. ASSUME NEW i \in DOMAIN from, i < Len(targets) \/ SizeOf(file) <= max
           PROVE  SaysLine(targets[i], file[from[i]])
      <3>1. i \in Nat
        BY <2>5 DEF ServedUpTo
      <3> QED BY <2>3, <2>5, <2>8, <2>10, <3>1 DEF ServedUpTo
    <2>11. \A i, j \in DOMAIN from : i < j => from[i] < from[j]
      BY <2>5 DEF ServedUpTo
    <2> QED BY <2>7, <2>9, <2>10, <2>11
  <1> QED BY <1>1, Invariance, PTL
=============================================================================
