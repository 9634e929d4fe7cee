----------------------------- MODULE MCPipeline -----------------------------
(* Captures for checking Pipeline: a byte is a number that grows along the   *)
(* stream of its sender, and Text is what the stream says.                   *)
EXTENDS Pipeline

CONSTANTS t1, t2, u1

Text(b) ==
    CASE b \in {2, 3, 12, 32} -> "b"
      [] b \in {5, 22} -> "0"
      [] OTHER -> "a"
MCLooks(b) == IF Text(b) = "0" THEN "null" ELSE "text"

\* Patterns "ab", "b" and b+.
MCPatterns == << [regex |-> FALSE, value |-> <<"a", "b">>], [regex |-> FALSE, value |-> <<"b">>],
                 [regex |-> TRUE, value |-> "b"] >>

MCPortGuess ==
    [f \in Flows |-> IF f = t1 THEN [name |-> "http", side |-> "B", confidence |-> 90,
                                     source |-> "Port", evidence |-> "well_known_port"]
                     ELSE Unknown]
MCPasses(bytes) ==
    CASE bytes[1] = 1 -> {"http_request"} [] bytes[1] = 11 -> {"http_response"}
      [] bytes[1] = 21 -> {"tls_record"} [] bytes[1] = 31 -> {"dns_header"} [] OTHER -> {}
MCFromServer(bytes) == FALSE
MCMessagesIn(f, bytes) ==
    CASE bytes[1] = 11 -> <<[flow |-> f, protocol |-> "http", https |-> FALSE, side |-> "B", error |-> FALSE]>>
      [] bytes[1] = 21 -> <<[flow |-> f, protocol |-> "tls", https |-> TRUE, side |-> "B", error |-> FALSE]>>
      [] OTHER -> <<>>
MCProtocol(f) == IF f \in UdpFlows THEN "udp" ELSE "tcp"
MCPorts(f) == {}

\* Bytes first .. last of a stream; the byte at sequence number zero is 1, 11, 21 or 31.
Segment(first, last, fin, rst) ==
    [start |-> (((first - 1) % 10) + 14) % Modulus, syn |-> FALSE, fin |-> fin, rst |-> rst,
     payload |-> [i \in 1 .. last - first + 1 |-> first + i - 1]]
Packet(f, d, time, seg) == [flow |-> f, dir |-> d, time |-> time, tcp |-> f \notin UdpFlows, seg |-> seg]

MCPackets ==
    {Packet(t1, "AToB", 0, Segment(1, 2, FALSE, FALSE)), Packet(t1, "AToB", 1, Segment(2, 3, FALSE, FALSE)),
     Packet(t1, "AToB", 1, Segment(3, 5, FALSE, FALSE)), Packet(t1, "AToB", 3, Segment(4, 5, TRUE, FALSE)),
     Packet(t1, "BToA", 1, Segment(11, 12, TRUE, FALSE)), Packet(t1, "BToA", 3, Segment(13, 12, TRUE, FALSE)),
     Packet(t1, "BToA", 0, Segment(11, 10, FALSE, TRUE)),
     Packet(t2, "AToB", 0, Segment(21, 22, FALSE, FALSE)), Packet(t2, "AToB", 3, Segment(23, 24, FALSE, FALSE)),
     Packet(u1, "BToA", 1, Segment(31, 32, FALSE, FALSE)), Packet(u1, "BToA", 3, Segment(32, 33, FALSE, FALSE))}
=============================================================================
