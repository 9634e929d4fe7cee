-------------------------- MODULE ServiceDetection --------------------------
(***************************************************************************)
(* What service a stream carries (src/src/protocol_detection.rs): a guess  *)
(* from the ports, a guess from a payload by the first rule it passes, and *)
(* how two guesses merge.  A payload is abstracted to the set of rules'    *)
(* tests it passes; the evidence is the name of the test.                  *)
(***************************************************************************)
EXTENDS Integers, Sequences, FiniteSetsExt

CONSTANTS
    PortGuess,      \* ProtocolDetection::from_port, for each flow
    UdpFlows,       \* the flows over UDP
    Passes(_),      \* the tests the bytes of a payload pass
    FromServer(_)   \* a DNS payload has the response flag

Unknown == [name |-> "unknown", side |-> "Unknown", confidence |-> 0, source |-> "Unknown",
            evidence |-> "none"]

Source(dir) == IF dir = "AToB" THEN "A" ELSE "B"
Destination(dir) == IF dir = "AToB" THEN "B" ELSE "A"

\* payload_rule: in order, the test, the service, its confidence, and whose
\* side it is on, by default or whatever the ports say.
PayloadRules ==
    << <<"http2_preface", "http2", 99, "destination">>,
       <<"http_websocket_upgrade", "websocket", 99, "destination">>,
       <<"http_request", "http", 98, "destination">>,
       <<"http_response", "http", 98, "source">>,
       <<"tls_record", "tls", 98, "port or destination">>,
       <<"ssh_banner", "ssh", 98, "source">>,
       <<"redis_resp", "redis", 96, "port or destination">>,
       <<"mysql_handshake", "mysql", 94, "source">>,
       <<"postgres_startup", "postgres", 92, "destination">>,
       <<"mongodb_wire", "mongodb", 90, "port or destination">>,
       <<"memcached_ascii", "memcached", 90, "port or destination">>,
       <<"dns_header", "dns", 91, "dns">>,
       <<"quic_long_header", "quic", 91, "port or destination">>,
       <<"ntp_header", "ntp", 90, "destination">>,
       <<"smtp_text", "smtp", 88, "port or source">>,
       <<"ftp_text", "ftp", 88, "port or source">> >>

UdpOnly == {"quic_long_header", "ntp_header"}

SideOf(rule, port, dir, bytes) ==
    CASE rule = "source" -> Source(dir)
      [] rule = "destination" -> Destination(dir)
      [] rule = "dns" -> IF FromServer(bytes) THEN Source(dir) ELSE Destination(dir)
      [] rule = "port or source" -> IF port.side = "Unknown" THEN Source(dir) ELSE port.side
      [] rule = "port or destination" -> IF port.side = "Unknown" THEN Destination(dir) ELSE port.side

\* merge_source: port and payload together count for more than either.
MergeSource(left, right) ==
    IF left = "Unknown" THEN right
    ELSE IF right \in {"Unknown", left} THEN left ELSE "PortAndPayload"

Compatible(left, right) == left = right \/ {left, right} = {"https", "tls"}

\* ProtocolDetection::merge
Merge(old, next) ==
    IF next.name = "unknown" THEN old
    ELSE IF old.name = "unknown" THEN next
    ELSE IF Compatible(old.name, next.name)
    THEN [name |-> IF "https" \in {old.name, next.name} THEN "https" ELSE old.name,
          side |-> IF next.side = "Unknown" THEN old.side ELSE next.side,
          confidence |-> Min({Max({old.confidence, next.confidence}) + 2, 100}),
          source |-> MergeSource(old.source, next.source), evidence |-> next.evidence]
    ELSE IF next.confidence >= old.confidence + 8 THEN next ELSE old

\* detect_payload: the first rule the payload passes, merged into the ports' guess.
Detect(flow, dir, bytes) ==
    LET port == PortGuess[flow]
        passed == {i \in DOMAIN PayloadRules :
                    /\ PayloadRules[i][1] \in Passes(bytes)
                    /\ PayloadRules[i][1] \in UdpOnly => flow \in UdpFlows}
        rule == PayloadRules[Min(passed)]
        name == IF rule[2] = "tls" /\ port.name = "https" THEN "https" ELSE rule[2]
    IN  IF passed = {} THEN Unknown
        ELSE Merge(port, [name |-> name, side |-> SideOf(rule[4], port, dir, bytes),
                          confidence |-> rule[3], source |-> "Payload", evidence |-> rule[1]])

=============================================================================
