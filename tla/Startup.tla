------------------------------- MODULE Startup -------------------------------
(***************************************************************************)
(* From the command line to the sockets: main chooses an applet, the relay *)
(* reads two endpoints from its arguments, the forwarder reads a file of   *)
(* targets in pieces, parses its lines and hands the targets on.  What it  *)
(* hands on is what UdpForward and WgcfRelay assume of their constants.    *)
(*                                                                         *)
(* Texts are abstracted to what the parsers make of them: an address text  *)
(* is the address it names or Invalid, ports are texts of ParseNumber.  A  *)
(* file is a sequence of lines, one character or LineLength characters     *)
(* long with their ends.                                                   *)
(***************************************************************************)
EXTENDS ParseNumber, Sequences, FiniteSets

CONSTANTS
    Argv,         \* command lines, without the name of the program
    Path,         \* the argument that names a file
    endpointOf,   \* what the arguments listen:port and forward:port say
    Address,      \* valid addresses
    Invalid,      \* an address text that inet_pton refuses
    Blank,        \* a line without characters
    Malformed,    \* a line that does not have six fields
    NoFile,       \* there is no regular file at Path
    Line,         \* the other lines that files may have
    MaxLines,     \* bound: lines of a file
    LineLength,   \* characters of a line that is not blank, its end included
    max,          \* 1 MB: the part of a file that is read
    BufferSize,   \* 4096: what one read may return
    Base          \* 10

End == [address : Address \cup {Invalid}, port : Text]
ValidEnd == [address : Address, port : 0 .. MaxPort]
Target == [inbound : ValidEnd, outbound : ValidEnd, destination : ValidEnd]

ASSUME TextAssumption ==
    /\ Invalid \notin Address
    /\ Line \subseteq [inbound : End, outbound : End, destination : End]
    /\ \A line \in Line : line.destination.port # Empty   \* five fields: Malformed
    /\ Blank \notin Line /\ Malformed \notin Line /\ Blank # Malformed
    /\ \A a \in DOMAIN endpointOf : endpointOf[a] \in End \cup {Malformed}
ASSUME BaseAssumption == Base \in Nat /\ Base > 1
ASSUME SizeAssumption ==
    /\ MaxLines \in Nat /\ LineLength \in Nat /\ LineLength > 1
    /\ max \in Nat /\ BufferSize \in Nat \ {0}

VARIABLES phase,     \* "main", "check", "open", "read", "parse", "setup", "running", "exited"
          argv,      \* the command line
          file,      \* the lines of the file at Path, or NoFile
          content,   \* how much of the file has been read
          line,      \* how many of its lines have been parsed
          targets    \* what SetupSockets is called with

vars == <<phase, argv, file, content, line, targets>>

-----------------------------------------------------------------------------
(* Lines and arguments; ports by ParseNumber. *)

EndIsGood(end) == end.address \in Address /\ ParseUInt16(end.port) # NoNumber
Parsed(end) == [address |-> end.address, port |-> ParseUInt16(end.port)]

\* A line that is not blank: six fields, and the target they name.
LineIsGood(text) ==
    /\ text # Malformed
    /\ \A end \in {text.inbound, text.outbound, text.destination} : EndIsGood(end)
TargetOf(text) == [inbound |-> Parsed(text.inbound), outbound |-> Parsed(text.outbound),
                   destination |-> Parsed(text.destination)]

\* listen:port and forward:port; there port 0 stands for any failure.
EndpointIsGood(arg) ==
    /\ arg \in DOMAIN endpointOf
    /\ endpointOf[arg] # Malformed
    /\ EndIsGood(endpointOf[arg])
    /\ ParseUInt16(endpointOf[arg].port) # 0

-----------------------------------------------------------------------------
(* main and the applets. *)

Files == UNION {[1 .. n -> Line \cup {Blank, Malformed}] : n \in 0 .. MaxLines}

Init == /\ phase = "main"
        /\ argv \in Argv
        /\ file \in Files \cup {NoFile}
        /\ content = 0
        /\ line = 0
        /\ targets = <<>>

Go(from, to) == phase = from /\ phase' = to

Exit == phase' = "exited" /\ targets' = <<>> /\ UNCHANGED <<argv, file, content, line>>

\* The arguments after the applet, without -d.
Operands == SelectSeq(Tail(argv), LAMBDA arg : arg # "-d")

StartsForwarder == argv # <<>> /\ Head(argv) = "udpfwd" /\ Len(Operands) = 1
StartsRelay == argv # <<>> /\ Head(argv) = "wgcfrelay" /\ Len(Operands) = 2

\* No applet, an unknown applet, or not the number of arguments it expects.
RejectArguments ==
    /\ phase = "main"
    /\ ~StartsForwarder /\ ~StartsRelay
    /\ Exit

StartForwarder ==
    /\ StartsForwarder
    /\ Go("main", "check")
    /\ UNCHANGED <<argv, file, content, line, targets>>

\* RunWgcfRelay up to SetupSockets.
StartRelay ==
    /\ phase = "main"
    /\ StartsRelay
    /\ IF EndpointIsGood(Operands[1]) /\ EndpointIsGood(Operands[2])
       THEN phase' = "setup" /\ UNCHANGED <<argv, file, content, line, targets>>
       ELSE Exit

-----------------------------------------------------------------------------
(* RunUdpForwarder. *)

Exists == Operands[1] = Path /\ file # NoFile

FindFile ==
    /\ phase = "check"
    /\ IF Exists THEN Go("check", "open") /\ UNCHANGED <<argv, file, content, line, targets>>
                 ELSE Exit

\* ReadAtMostOrFail: stat and open.
OpenFile ==
    /\ Go("open", "read")
    /\ content' = 0
    /\ UNCHANGED <<argv, file, line, targets>>

\* Every line has its end, and one that is not blank more characters before it.
WrittenLines(lines) == {k \in DOMAIN lines : lines[k] # Blank}
SizeOf(lines) == Len(lines) + (LineLength - 1) * Cardinality(WrittenLines(lines))

\* read returns any part of what is there; after EINTR it is called again.
Read(n) ==
    /\ phase = "read"
    /\ n <= BufferSize
    /\ content + n <= max
    /\ content + n <= SizeOf(file)
    /\ content' = content + n
    /\ UNCHANGED <<phase, argv, file, line, targets>>

\* Mutant: a read that does not fill the buffer is taken for the last one.
EndAfterShortRead ==
    /\ Go("read", "parse")
    /\ content % BufferSize # 0 \/ content = SizeOf(file) \/ content = max
    /\ UNCHANGED <<argv, file, content, line, targets>>

\* read returns 0, or the limit is reached.
ReadEnds ==
    /\ Go("read", "parse")
    /\ content = SizeOf(file) \/ content = max
    /\ UNCHANGED <<argv, file, content, line, targets>>

\* stat, open or read fails.
ReadFails == phase \in {"open", "read"} /\ Exit

\* What is left of a line when its last characters and its end were not read: the
\* last port without its last digits, or too few fields.
Cut(text, missing) ==
    IF missing <= 0 THEN {text}
    ELSE IF text = Malformed THEN {Malformed} \cup Line
    ELSE IF text.destination.port = Junk
         THEN {Malformed, text} \cup {[text EXCEPT !.destination.port = n] : n \in 0 .. Base - 1}
    ELSE IF text.destination.port < 0 THEN {text, Malformed}
    ELSE IF text.destination.port < Base ^ missing THEN {Malformed}
    ELSE {[text EXCEPT !.destination.port = @ \div (Base ^ missing)]}

FirstLines(k) == SubSeq(file, 1, k)

\* What was read of the next line, at least its first character.
NextLine == Cut(file[line + 1], SizeOf(FirstLines(line + 1)) - 1 - content)

\* The loop over the lines goes on.
MoreLines == phase = "parse" /\ SizeOf(FirstLines(line)) < content

SkipBlankLine ==
    /\ MoreLines
    /\ file[line + 1] = Blank
    /\ line' = line + 1
    /\ UNCHANGED <<phase, argv, file, content, targets>>

ParseLine ==
    /\ MoreLines
    /\ file[line + 1] # Blank
    /\ \E text \in NextLine :
          /\ LineIsGood(text)
          /\ targets' = Append(targets, TargetOf(text))
    /\ line' = line + 1
    /\ UNCHANGED <<phase, argv, file, content>>

RejectLine ==
    /\ MoreLines
    /\ file[line + 1] # Blank
    /\ \E text \in NextLine : ~LineIsGood(text)
    /\ Exit

LinesEnd ==
    /\ Go("parse", "setup")
    /\ SizeOf(FirstLines(line)) >= content
    /\ UNCHANGED <<argv, file, content, line, targets>>

ParseFile == SkipBlankLine \/ ParseLine \/ RejectLine \/ LinesEnd

-----------------------------------------------------------------------------
(* SetupSockets and RunWorker of the applet, see UdpForward and WgcfRelay. *)

SetupSockets ==
    /\ Go("setup", "running")
    /\ UNCHANGED <<argv, file, content, line, targets>>

SetupFails == phase = "setup" /\ Exit

RunWorkerReturns == phase = "running" /\ Exit

Terminated == phase = "exited" /\ UNCHANGED vars

Next == \/ RejectArguments \/ StartForwarder \/ StartRelay
        \/ FindFile \/ OpenFile
        \/ \E n \in 1 .. BufferSize : Read(n)
        \/ ReadEnds \/ ReadFails
        \/ ParseFile
        \/ SetupSockets \/ SetupFails \/ RunWorkerReturns
        \/ Terminated

Spec == Init /\ [][Next]_vars

-----------------------------------------------------------------------------
(* Properties. *)

\* The targets are what UdpForward assumes: valid addresses, ports in range.
TypeOK == /\ phase \in {"main", "check", "open", "read", "parse", "setup", "running", "exited"}
          /\ argv \in Argv
          /\ file \in Files \cup {NoFile}
          /\ content \in 0 .. max
          /\ line \in 0 .. MaxLines
          /\ targets \in Seq(Target)

\* A parsed end says what was written: the address, and the number or, where
\* nothing was written, 0.
Says(end, written) == /\ end.address = written.address
                      /\ end.port = IF written.port = Empty THEN 0 ELSE written.port
SaysLine(target, text) == /\ text # Malformed
                          /\ Says(target.inbound, text.inbound)
                          /\ Says(target.outbound, text.outbound)
                          /\ Says(target.destination, text.destination)

\* Sockets are opened for the lines of the file, all of them and in their order,
\* or for none, however the reads split the file: one bad line and nothing starts.
\* Of a file that is longer than max the first lines are served, and only the last
\* target may be one that nobody wrote.  The target i comes from the line from[i].
ServesTheFile ==
    (phase \in {"setup", "running"} /\ StartsForwarder) =>
        \E from \in [1 .. Len(targets) -> WrittenLines(file)] :
            /\ \A i, j \in DOMAIN from : i < j => from[i] < from[j]
            /\ \A k \in WrittenLines(file) :
                  \/ \E i \in DOMAIN from : k = from[i]
                  \/ SizeOf(file) > max /\ \A i \in DOMAIN from : from[i] < k
            /\ \A i \in DOMAIN from :
                  i < Len(targets) \/ SizeOf(file) <= max => SaysLine(targets[i], file[from[i]])

\* Main.cc:32 "{} udpfwd -f [-d] path/to/config.txt", Main.cc:57 "{} udpfwd -r [-d]
\* listen:port forward:port" and README.md:60 "./udpfwd -r [::]:2408 162.159.192.1:2408":
\* a command line of these forms is not refused for its arguments.
Usage == {<<"udpfwd", "-f", Path>>, <<"udpfwd", "-f", "-d", Path>>} \cup
         {<<"udpfwd", "-r", l, f>> : l, f \in {e \in DOMAIN endpointOf : EndpointIsGood(e)}} \cup
         {<<"-r", l, f>> : l, f \in {e \in DOMAIN endpointOf : EndpointIsGood(e)}}
UsageIsAccepted == [][(phase = "main" /\ argv \in Usage) => phase' # "exited"]_vars
=============================================================================
