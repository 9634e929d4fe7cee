---------------------------- MODULE FrameParsers ----------------------------
(***************************************************************************)
(* The WebSocket, TLS and DNS parsers (src/src/stream_message.rs).  The    *)
(* first two have the same shape: bytes are gathered per direction until a *)
(* whole frame, or record, is in front; DNS reads one datagram at a time.  *)
(*                                                                         *)
(* A byte is a symbol.  A frame is "f" (final) or "K" (final and control)  *)
(* or any other (an opcode or a fragment that is refused), then its length *)
(* as a digit, "M" for a masked frame of one byte, or "E" for a length     *)
(* that takes further bytes, more than a control frame may have.  A record *)
(* is "t" (a content type), "v" (a version), a length.  The four bytes of  *)
(* a mask, the two of a version and those of a length are one symbol, and  *)
(* what a frame holds is left out.                                         *)
(***************************************************************************)
EXTENDS Http1Parser

CONSTANTS MaxJumps      \* MAX_DNS_NAME_JUMPS

\* WebSocketDirectionState::default, TlsDirectionState::default
NewFrames == [buffer |-> <<>>, start |-> 0, next |-> 0, ordinal |-> 0]

Size(symbol) == IF IsDigit(symbol) THEN Number(symbol) ELSE 1

Incomplete == [result |-> "Incomplete", length |-> 0]
Invalid == [result |-> "Invalid", length |-> 0]
Whole(bytes, length) ==
    IF Len(bytes) < length THEN Incomplete ELSE [result |-> "Complete", length |-> length]

\* parse_websocket_frame
WebSocketFrame(bytes) ==
    IF Len(bytes) < 2 THEN Incomplete
    ELSE IF bytes[1] \notin {"f", "K"} THEN Invalid
    ELSE IF bytes[2] = "E"
    THEN IF Len(bytes) < 3 THEN Incomplete
         ELSE IF bytes[1] = "K" THEN Invalid
         ELSE Whole(bytes, 3 + Size(bytes[3]))
    ELSE Whole(bytes, 2 + Size(bytes[2]) + (IF bytes[2] = "M" THEN 1 ELSE 0))

\* parse_tls_record
TlsRecord(bytes) ==
    IF Len(bytes) < 3 THEN Incomplete
    ELSE IF SubSeq(bytes, 1, 2) # <<"t", "v">> THEN Invalid
    ELSE Whole(bytes, 3 + Size(bytes[3]))

\* looks_like_tls_prefix
LooksLikeTls(bytes) == bytes[1] = "t" /\ (Len(bytes) = 1 \/ bytes[2] = "v")

\* parse_error and clear_buffer
FrameError(p, protocol) ==
    LET s == p.state
    IN  [done |-> TRUE,
         messages |-> Append(p.messages, Message(protocol, "ParseError", s.ordinal, s.buffer[1],
                                                 s.start, s.start + Len(s.buffer), FALSE)),
         state |-> Clear([s EXCEPT !.ordinal = @ + 1])]

\* websocket_stream_message, tls_stream_message: the first n bytes of the buffer.
FrameMessage(s, protocol, n) ==
    Message(protocol, "Complete", s.ordinal, s.buffer[1], s.start, s.start + n, FALSE)

\* What is in front of the buffer, whole, wrong or not all there.
TakeFrame(p, protocol, frame) ==
    LET s == p.state
    IN  CASE frame.result = "Incomplete" -> [p EXCEPT !.done = TRUE]
          [] frame.result = "Invalid" -> FrameError(p, protocol)
          [] frame.result = "Complete" ->
                [p EXCEPT !.messages = Append(@, FrameMessage(s, protocol, frame.length)),
                          !.state = Drain([s EXCEPT !.ordinal = @ + 1], frame.length)]

\* One round of the loop of push.
FrameRound(p, protocol) ==
    IF p.done \/ p.state.buffer = <<>> THEN [p EXCEPT !.done = TRUE]
    ELSE TakeFrame(p, protocol, IF protocol = "tls" THEN TlsRecord(p.state.buffer)
                                ELSE WebSocketFrame(p.state.buffer))

\* WebSocketDirectionState::push, TlsDirectionState::push
PushFrames(s, bytes, protocol) ==
    LET fed == [s EXCEPT !.start = IF s.buffer = <<>> THEN s.next ELSE @,
                         !.next = @ + Len(bytes), !.buffer = @ \o bytes]
        p == [state |-> fed, messages |-> <<>>, done |-> FALSE]
    IN  IF Len(fed.buffer) > MaxBufferBytes THEN FrameError(p, protocol)
        ELSE FoldLeft(LAMBDA q, i : FrameRound(q, protocol), p, [i \in 1 .. Len(fed.buffer) |-> i])

-----------------------------------------------------------------------------
(* DNS.  A datagram is a sequence of numbers: how many questions, how many *)
(* records, and the rest.  In a name 0 is the root, 1 and 2 the lengths of *)
(* a label, Pointer a compression pointer to the place the next number     *)
(* tells, any other a form that is refused.  The fixed fields of a         *)
(* question, or of a record up to the length of its data, are one number.  *)

Pointer == 3
NoPlace == -1

\* DnsDirectionState::default
NewDns == [next |-> 0, ordinal |-> 0]

\* Mutant: pointers are followed without counting.
JumpUncounted(r, target) ==
    [r EXCEPT !.cursor = target, !.next = IF @ = NoPlace THEN r.cursor + 2 ELSE @]

\* A compression pointer: the name goes on at its target, the record after it.
Jump(r, target) ==
    [result |-> IF r.jumps + 1 > MaxJumps THEN "Error" ELSE "Running",
     cursor |-> target, jumps |-> r.jumps + 1,
     next |-> IF r.next = NoPlace THEN r.cursor + 2 ELSE r.next]

\* One round of the loop of read_dns_name.
NameRound(m, r) ==
    LET at == r.cursor + 1
        error == [r EXCEPT !.result = "Error"]
    IN  IF r.result # "Running" THEN r
        ELSE IF at > Len(m) THEN error
        ELSE IF m[at] = Pointer
        THEN IF at + 1 > Len(m) \/ m[at + 1] >= Len(m) THEN error
             ELSE Jump(r, m[at + 1])
        ELSE IF m[at] > Pointer THEN error
        ELSE IF m[at] = 0 THEN [r EXCEPT !.result = "Name", !.next = IF @ = NoPlace THEN at ELSE @]
        ELSE IF Len(m) < at + m[at] THEN error
        ELSE [r EXCEPT !.cursor = at + m[at]]

\* read_dns_name, for as many rounds as it can take when it ends.
ReadName(m, offset) ==
    FoldLeft(LAMBDA r, i : NameRound(m, r),
             [result |-> "Running", cursor |-> offset, next |-> NoPlace, jumps |-> 0],
             [i \in 1 .. (MaxJumps + 1) * (Len(m) + 1) |-> i])

\* parse_dns_question, parse_dns_record: from c.offset on, with `fixed` numbers after the name.
Entry(m, c, fixed) ==
    LET name == ReadName(m, c.offset)
        end == name.next + fixed
        data == IF fixed = 1 THEN 0 ELSE m[end]
    IN  IF c.error \/ name.result # "Name" \/ end > Len(m) \/ end + data > Len(m)
        THEN [c EXCEPT !.error = TRUE]
        ELSE [c EXCEPT !.offset = end + data]

\* parse_dns_message
DnsError(m) ==
    LET header == [offset |-> 2, error |-> Len(m) < 2]
        asked == FoldLeft(LAMBDA c, i : Entry(m, c, 1), header, [i \in 1 .. m[1] |-> i])
    IN  FoldLeft(LAMBDA c, i : Entry(m, c, 2), asked, [i \in 1 .. m[2] |-> i]).error

\* looks_like_dns_datagram
LooksLikeDns(m) == Len(m) >= 2 /\ m[1] # 0

\* dns_stream_message, dns_parse_error: the whole datagram.
DnsMessage(s, m, status) ==
    Message("dns", status, s.ordinal, m[1], s.next, s.next + Len(m), FALSE)

\* DnsDirectionState::parse_datagram: a datagram is a message whatever it holds.
ParseDatagram(s, m) ==
    [state |-> [next |-> s.next + Len(m), ordinal |-> s.ordinal + 1],
     messages |-> <<DnsMessage(s, m, IF DnsError(m) THEN "ParseError" ELSE "Complete")>>]

=============================================================================
