----------------------------- MODULE Http1Parser -----------------------------
(***************************************************************************)
(* The HTTP/1 parser of one direction of a stream                          *)
(* (src/src/stream_message.rs, Http1DirectionState): it gathers a head and *)
(* its body over as many chunks as they come in, and turns them into a     *)
(* message with its place in the stream, or into a parse error.            *)
(*                                                                         *)
(* A byte is a symbol: "G" "T" is a method, "H" "P" the start of a         *)
(* response, the symbol after them what the head says of the body ("n"     *)
(* none, "u" none with an upgrade to WebSocket, "c" chunked, a digit its   *)
(* content-length, any other an error), "R" and "N" are CR and LF, a digit *)
(* is a chunk size.  The rest of a head, its texts and its further headers *)
(* are left out.                                                           *)
(***************************************************************************)
EXTENDS Integers, SequencesExt, FiniteSetsExt

CONSTANTS
    MaxHeaderBytes,     \* max_header_bytes
    MaxBufferBytes      \* max_buffer_bytes

Signatures == {<<"G", "T">>, <<"H", "P">>}
Digits == <<"0", "1", "2">>
Number(symbol) == (CHOOSE i \in 1 .. Len(Digits) : Digits[i] = symbol) - 1
IsDigit(symbol) == symbol \in ToSet(Digits)

NoPending == [remaining |-> 0]

\* Http1DirectionState::default
NewHttp1 == [buffer |-> <<>>, start |-> 0, next |-> 0, ordinal |-> 0, pending |-> NoPending]

Drop(s, n) == SubSeq(s, n + 1, Len(s))

-----------------------------------------------------------------------------
(* Searching *)

\* Where `what` first is in `bytes`, counted from zero, or -1.
Find(bytes, what) ==
    LET at == {i \in 0 .. Len(bytes) - Len(what) : SubSeq(bytes, i + 1, i + Len(what)) = what}
    IN  IF at = {} THEN -1 ELSE Min(at)

\* A mark's place and the end after it; CR LF before a bare LF wherever it is.
Mark(at, what) == [at |-> at, end |-> at + Len(what)]
Prefer(crlf, bare) == IF crlf.at # -1 THEN crlf ELSE bare
Either(bytes, mark, bare) == Prefer(Mark(Find(bytes, mark), mark), Mark(Find(bytes, bare), bare))

\* find_header_end, find_line_end
HeaderEnd(bytes) == Either(bytes, <<"R", "N", "R", "N">>, <<"N", "N">>)
LineEnd(bytes) == Either(bytes, <<"R", "N">>, <<"N">>)

\* looks_like_http_prefix
LooksLikeHttp(bytes) ==
    /\ bytes # <<>>
    /\ \E s \in Signatures : IsPrefix(bytes, s) \/ IsPrefix(s, bytes)

\* find_http_start_from
HttpStart(bytes, from) ==
    LET at == {i \in from .. Len(bytes) - 1 : LooksLikeHttp(Drop(bytes, i))}
    IN  IF at = {} THEN -1 ELSE Min(at)

-----------------------------------------------------------------------------
(* Bodies *)

\* parse_http1_head, body_framing
Framing(head) == IF Len(head) < 3 THEN "error" ELSE head[3]

Stop(r, result) == [r EXCEPT !.result = result]

\* A chunk of no bytes is the last: a trailer follows, found by where its end is.
LastChunk(r, data, trailer) ==
    LET complete(end) == [result |-> "Complete", position |-> r.position + end]
    IN  IF IsPrefix(<<"R", "N">>, data) THEN complete(2)
        ELSE IF IsPrefix(<<"N">>, data) THEN complete(1)
        ELSE IF trailer.at = -1 THEN Stop(r, "Incomplete")
        ELSE complete(trailer.end)

\* The n bytes of a chunk and the line end after them.
WholeChunk(r, n, data) ==
    LET after == Drop(data, n)
    IN  IF Len(data) < n + 1 THEN Stop(r, "Incomplete")
        ELSE IF IsPrefix(<<"R", "N">>, after) THEN [r EXCEPT !.position = @ + n + 2]
        ELSE IF IsPrefix(<<"N">>, after) THEN [r EXCEPT !.position = @ + n + 1]
        ELSE Stop(r, "Invalid")

\* The line of a chunk's size, and what it announces.
SizeLine(r, rest, line) ==
    LET size == SubSeq(rest, 1, line.at)
        next == [r EXCEPT !.position = @ + line.end]
        data == Drop(rest, line.end)
    IN  IF line.at = -1 THEN Stop(r, "Incomplete")
        ELSE IF Len(size) # 1 \/ ~ IsDigit(size[1]) THEN Stop(r, "Invalid")
        ELSE IF Number(size[1]) = 0 THEN LastChunk(next, data, HeaderEnd(data))
        ELSE WholeChunk(next, Number(size[1]), data)

\* One round of the loop of find_chunked_body_end, from r.position on.
BodyRound(body, r) ==
    LET rest == Drop(body, r.position)
    IN  IF r.result # "Running" THEN r ELSE SizeLine(r, rest, LineEnd(rest))

\* find_chunked_body_end: each round takes a chunk, which has a byte at least.
ChunkedEnd(body) ==
    FoldLeft(LAMBDA r, i : BodyRound(body, r), [result |-> "Running", position |-> 0],
             [i \in 1 .. Len(body) + 1 |-> i])

-----------------------------------------------------------------------------
(* Http1DirectionState.  A parse is [state, messages, done]. *)

Message(protocol, status, ordinal, opens, start, end, upgrade) ==
    [protocol |-> protocol, status |-> status, ordinal |-> ordinal, opens |-> opens,
     start |-> start, end |-> end, upgrade |-> upgrade]

\* clear_buffer, drain_front
Clear(s) == [s EXCEPT !.buffer = <<>>, !.start = s.next]
\* Mutant: the buffer's place in the stream stays.
DrainInPlace(s, n) == IF n >= Len(s.buffer) THEN Clear(s) ELSE [s EXCEPT !.buffer = Drop(@, n)]
Drain(s, n) ==
    IF n >= Len(s.buffer) THEN Clear(s) ELSE [s EXCEPT !.buffer = Drop(@, n), !.start = @ + n]

\* The head at the front of the buffer and its body make a message, ...
Complete(p, end) ==
    LET s == p.state
    IN  [p EXCEPT !.messages = Append(@, Message("http1", "Complete", s.ordinal, s.buffer[1],
                                                 s.start, s.start + end, s.buffer[3] = "u")),
                  !.state = Drain([s EXCEPT !.ordinal = @ + 1], end)]

\* ... or an error, which tells of all that is in the buffer, of which `gone` goes.
Fail(p, gone) ==
    LET s == p.state
    IN  [p EXCEPT !.messages = Append(@, Message("http1", "ParseError", s.ordinal, s.buffer[1],
                                                 s.start, s.start + Len(s.buffer), FALSE)),
                  !.state = Drain([s EXCEPT !.ordinal = @ + 1], gone)]

\* Only the rest of the body is awaited.
Await(p, head, length) ==
    LET s == p.state
    IN  [p EXCEPT !.done = TRUE,
                  !.state = [Clear(s) EXCEPT !.ordinal = @ + 1, !.pending =
                    [remaining |-> head + length - Len(s.buffer), opens |-> s.buffer[1],
                     ordinal |-> s.ordinal, start |-> s.start, end |-> s.start + head + length,
                     upgrade |-> s.buffer[3] = "u"]]]

\* A chunked body, complete or not.
ParseChunked(p, head, chunked) ==
    CASE chunked.result = "Invalid" -> Fail(p, head)
      [] chunked.result = "Incomplete" -> [p EXCEPT !.done = TRUE]
      [] chunked.result = "Complete" -> Complete(p, head + chunked.position)

\* The body after a head that ends at `head`.
ParseBody(p, head, framing, body) ==
    IF IsDigit(framing)
    THEN IF Number(framing) > Len(body) THEN Await(p, head, Number(framing))
         ELSE Complete(p, head + Number(framing))
    ELSE IF framing \in {"n", "u"} THEN Complete(p, head)
    ELSE IF framing # "c" THEN Fail(p, head)
    ELSE ParseChunked(p, head, ChunkedEnd(body))

\* A buffer that begins like a head.
ParseHead(p, head) ==
    LET buffer == p.state.buffer
        full == Len(buffer) > MaxBufferBytes \/ (head.at = -1 /\ Len(buffer) > MaxHeaderBytes)
    IN  IF full THEN [Fail(p, Len(buffer)) EXCEPT !.done = TRUE]
        ELSE IF head.at = -1 THEN [p EXCEPT !.done = TRUE]
        ELSE ParseBody(p, head.end, Framing(SubSeq(buffer, 1, head.at)), Drop(buffer, head.end))

\* One round of parse_buffer.
ParseRound(p) ==
    LET s == p.state
        skipTo(at) == [p EXCEPT !.state = IF at = -1 THEN Clear(s) ELSE Drain(s, at)]
    IN  IF p.done \/ s.buffer = <<>> THEN [p EXCEPT !.done = TRUE]
        ELSE IF ~ LooksLikeHttp(s.buffer) THEN skipTo(HttpStart(s.buffer, 1))
        ELSE ParseHead(p, HeaderEnd(s.buffer))

\* parse_buffer: every round that does not stop takes something off the buffer.
ParseBuffer(s, messages) ==
    FoldLeft(LAMBDA p, i : ParseRound(p), [state |-> s, messages |-> messages, done |-> FALSE],
             [i \in 1 .. Len(s.buffer) + 1 |-> i])

\* append_input, http_input: with nothing gathered, bytes before a head are skipped.
AppendInput(s, input, at, messages) ==
    LET skip == IF s.buffer = <<>> THEN HttpStart(input, 0) ELSE 0
    IN  IF skip = -1 THEN [state |-> s, messages |-> messages]
        ELSE ParseBuffer([s EXCEPT !.buffer = @ \o Drop(input, skip),
                                   !.start = IF s.buffer = <<>> THEN at + skip ELSE @], messages)

\* Http1DirectionState::push: the awaited body first, then what follows it.
PushHttp1(old, bytes) ==
    LET s == [old EXCEPT !.next = @ + Len(bytes)]
        p == old.pending
        taken == Min({p.remaining, Len(bytes)})
        ready == Message("http1", "Complete", p.ordinal, p.opens, p.start, p.end, p.upgrade)
    IN  IF p.remaining > taken
        THEN [state |-> [s EXCEPT !.pending.remaining = @ - taken], messages |-> <<>>]
        ELSE AppendInput([s EXCEPT !.pending = NoPending], Drop(bytes, taken),
                         old.next + taken, IF p = NoPending THEN <<>> ELSE <<ready>>)

=============================================================================
