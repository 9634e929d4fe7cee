------------------------- MODULE MCProtocolMessages -------------------------
(* Streams for checking ProtocolMessages.                                    *)
EXTENDS ProtocolMessages

CONSTANTS f1, f2, f3

\* A chunked body; a body of two bytes and a head after it; an upgrade with
\* frames; records; heads and bodies over the limits; streams that compete.
Chunked == <<"G", "T", "c", "R", "N", "R", "N", "1", "R", "N", "x", "R", "N", "0", "R", "N", "N">>
Long == <<"G", "T", "c", "N", "N", "2", "N", "x", "x", "N", "1", "N", "x", "N", "1", "N", "x", "N",
          "0", "N", "N">>
Keep == <<"x", "G", "T", "2", "N", "N", "x", "x", "H", "P", "e", "N", "N", "H", "P", "n", "N", "N">>
Upgrade == <<"G", "T", "u", "N", "N">>
Frames == <<"f", "1", "x", "f", "M", "m", "x", "K", "0", "f", "E", "1", "x", "k", "0", "f", "0">>
Records == <<"t", "v", "1", "x", "t", "v", "0", "t", "v", "0", "x", "x", "x">>

Query == [flow |-> f2, dns |-> TRUE, bytes |-> <<1, 0, 1, 7, 0, 9>>]
Loop == [flow |-> f3, dns |-> TRUE, bytes |-> <<1, 1, 3, 2>>]
Other == [flow |-> f3, dns |-> FALSE, bytes |-> <<1, 0, 0, 9>>]

Alone(s) == [streams |-> <<f1, "a">> :> s, datagrams |-> {}]
Together(s) == [streams |-> s, datagrams |-> {}]

MCScenarios ==
    { Alone(Chunked), Alone(Long), Alone(Keep), Alone(Records),
      Alone([i \in 1 .. 20 |-> IF i = 1 THEN "G" ELSE "T"]),
      Together((<<f1, "a">> :> Upgrade \o Frames) @@ (<<f1, "b">> :> SubSeq(Frames, 1, 2))),
      Together((<<f1, "a">> :> Upgrade \o <<"f", "0">>) @@ (<<f2, "a">> :> Upgrade \o <<"f", "0">>)),
      Together((<<f1, "a">> :> <<"t", "v", "0", "t">>) @@ (<<f2, "a">> :> <<"t", "v", "0">>)
               @@ (<<f3, "a">> :> <<"G", "T", "n", "N", "N">>)),
      [streams |-> <<f1, "a">> :> <<"G", "T", "n", "N", "N">>, datagrams |-> {Query, Loop, Other}] }

Outcomes(messages) == [i \in DOMAIN messages |-> messages[i].status]
InTwo(protocol, bytes, more) ==
    LET first == Push(protocol, NewState(protocol), bytes)
    IN  Outcomes(first.messages \o Push(protocol, first.state, more).messages)
InOne(protocol, bytes, more) == Outcomes(Push(protocol, NewState(protocol), bytes \o more).messages)

\* What comes after an error in its chunk is never parsed (clear_buffer): the frame at the
\* end of Frames, or a record, is found only when it begins a chunk.
ASSUME AfterAnErrorCutsMatter ==
    \A <<protocol, wrong, good>> \in {<<"websocket", <<"k", "0">>, <<"f", "0">>>>,
                                      <<"tls", <<"x", "v", "0">>, <<"t", "v", "0">>>>} :
        /\ InOne(protocol, wrong, good) = <<"ParseError">>
        /\ InTwo(protocol, wrong, good) = <<"ParseError", "Complete">>

MCDnsSamples == UNION {[1 .. n -> 0 .. 4] : n \in 0 .. 5}

=============================================================================
