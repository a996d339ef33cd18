------------------------------ MODULE MCStartup ------------------------------
(* Startup with short files and with the command lines worth telling apart. *)
EXTENDS Startup, TLC

CONSTANTS a, badEndpoint, noPort, listen, forward

MCArgv == {<<>>, <<"udpfwd">>, <<"udpfwd", Path>>, <<"udpfwd", "-d", Path>>,
           <<"udpfwd", Path, "-d">>, <<"udpfwd", "-d">>, <<"udpfwd", listen>>,
           <<"wgcfrelay", listen, forward>>, <<"wgcfrelay", listen, "-d", forward>>,
           <<"wgcfrelay", listen>>, <<"wgcfrelay", badEndpoint, forward>>,
           <<"wgcfrelay", listen, noPort>>} \cup Usage

MCendpointOf == listen :> [address |-> a, port |-> 12] @@ forward :> [address |-> a, port |-> 5]
                @@ badEndpoint :> Malformed @@ noPort :> [address |-> a, port |-> Empty]

\* Ports around the ends of the range, and some whose prefix is in range.
MCports == {Empty, Junk, -1, 12, 16}
End0 == [address |-> a, port |-> 7]
MCLine == {[inbound |-> [address |-> a, port |-> p], outbound |-> End0, destination |-> End0] :
              p \in MCports}
          \cup {[inbound |-> End0, outbound |-> End0, destination |-> [address |-> a, port |-> p]] :
              p \in {Junk, 12, 15, 16, 130}}
          \cup {[inbound |-> End0, outbound |-> [address |-> Invalid, port |-> 7], destination |-> End0]}
=============================================================================
