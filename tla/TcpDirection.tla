---------------------------- MODULE TcpDirection ----------------------------
(***************************************************************************)
(* One direction of a TCP flow (src/src/flow/mod.rs, TcpDirectionState):   *)
(* what a segment does to it, as operators without state, which            *)
(* TcpReassembly explores over all the ways a stream can be cut and        *)
(* Pipeline composes with the layers above.                                *)
(*                                                                         *)
(* A state is [initial, next, fin_seen, buffered, buffered_bytes], a       *)
(* segment [start, syn, fin, rst, payload].  Statistics, highest_seq,      *)
(* syn_seen and rst_seen, which no decision reads, are left out.           *)
(***************************************************************************)
EXTENDS Integers, Sequences, FiniteSets, SequencesExt

CONSTANTS
    Modulus,        \* sequence numbers are 0 .. Modulus-1
    MaxSegments,    \* max_tcp_out_of_order_segments_per_direction
    MaxBytes        \* max_tcp_buffered_bytes_per_flow, over both directions

ASSUME DirectionAssumption ==
    /\ Modulus \in Nat \ {0} /\ Modulus % 2 = 0
    /\ MaxSegments \in Nat /\ MaxBytes \in Nat

None == -1          \* Option::None

\* TcpDirectionState::default
NewDirection == [initial |-> None, next |-> None, fin_seen |-> FALSE,
                 buffered |-> <<>>, buffered_bytes |-> 0]

-----------------------------------------------------------------------------
(* Segments *)

Span(seg) == Len(seg.payload) + (IF seg.syn THEN 1 ELSE 0) + (IF seg.fin THEN 1 ELSE 0)
End(seg) == (seg.start + Span(seg)) % Modulus
PayloadStart(seg) == (seg.start + (IF seg.syn THEN 1 ELSE 0)) % Modulus

\* seq_before, seq_after: the sign of the wrapped difference.
Before(a, b) == (a - b) % Modulus >= Modulus \div 2
After(a, b) == Before(b, a)

-----------------------------------------------------------------------------
(* TcpDirectionState *)

\* A chunk of the stream for the layers above, unless it is empty.
Chunk(start, bytes) == IF bytes = <<>> THEN <<>> ELSE <<[seq |-> start, bytes |-> bytes]>>
Whole(seg) == Chunk(PayloadStart(seg), seg.payload)

\* Mutant: nothing is trimmed.
Untrimmed(payloadStart, bytes, expected) == Chunk(payloadStart, bytes)

\* The bytes from `expected` on, for a segment of which some may be released
\* already (push_trimmed_current_stream_chunk, into_stream_chunk).
Trimmed(payloadStart, bytes, expected) ==
    IF bytes = <<>> \/ ~ After((payloadStart + Len(bytes)) % Modulus, expected) THEN <<>>
    ELSE IF Before(payloadStart, expected)
    THEN Chunk(expected, SubSeq(bytes, ((expected - payloadStart) % Modulus) + 1, Len(bytes)))
    ELSE Chunk(payloadStart, bytes)

\* Mutant: a buffered segment that overlaps the stream does not join it.
JoinsExactly(s, expected) == s.start = expected

\* The first buffered segment that joins the stream is released.
Joins(s, expected) == s.start = expected \/ (Before(s.start, expected) /\ After(s.end, expected))
ConsumeOne(r) ==
    LET joining == {i \in 1 .. Len(r.state.buffered) : Joins(r.state.buffered[i], r.state.next)}
        i == CHOOSE k \in joining : \A l \in joining : k <= l
        s == r.state.buffered[i]
    IN  IF joining = {} THEN r
        ELSE [state |-> [r.state EXCEPT !.buffered = RemoveAt(@, i),
                                        !.buffered_bytes = @ - Len(s.bytes),
                                        !.next = IF After(s.end, @) THEN s.end ELSE @],
              out |-> r.out \o Trimmed(s.payload_start, s.bytes, r.state.next),
              advanced |-> r.advanced \/ After(s.end, r.state.next)]

\* consume_contiguous_buffer: each round takes one segment, or nothing is left to do.
Consume(state, out) ==
    LET after[n \in 0 .. Len(state.buffered)] ==
            IF n = 0 THEN [state |-> state, out |-> out, advanced |-> FALSE]
            ELSE ConsumeOne(after[n - 1])
    IN  after[Len(state.buffered)]

\* Buffered segments are sorted by start; a new one goes after its equals.
Place(buffered, start) ==
    LET later == {i \in 1 .. Len(buffered) : Before(start, buffered[i].start)}
    IN  IF later = {} THEN Len(buffered) + 1 ELSE CHOOSE i \in later : \A j \in later : i <= j

\* buffer_out_of_order
Buffer(state, seg, flowBytes) ==
    IF \E s \in ToSet(state.buffered) : s.start = seg.start /\ s.end = End(seg)
    THEN [state |-> state, out |-> <<>>, status |-> "Retransmission"]
    ELSE IF \/ Len(state.buffered) >= MaxSegments
            \/ flowBytes + Len(seg.payload) > MaxBytes
    THEN [state |-> state, out |-> <<>>, status |-> "OutOfOrderDropped"]
    ELSE LET held == [start |-> seg.start, end |-> End(seg),
                      payload_start |-> PayloadStart(seg), bytes |-> seg.payload]
         IN  [state |-> [state EXCEPT !.buffered = InsertAt(@, Place(@, seg.start), held),
                                      !.buffered_bytes = @ + Len(seg.payload)],
              out |-> <<>>, status |-> "OutOfOrderBuffered"]

\* The segment starts the stream, ...
First(state, seg) ==
    LET r == Consume([state EXCEPT !.initial = seg.start, !.next = End(seg)], Whole(seg))
    IN  [state |-> r.state, out |-> r.out, status |-> "Init"]

\* Mutant: a filled gap is not noticed.
ContinueUnnoticed(state, seg) ==
    LET r == Consume([state EXCEPT !.next = End(seg)], Whole(seg))
    IN  [state |-> r.state, out |-> r.out, status |-> IF seg.fin THEN "Fin" ELSE "InOrder"]

\* ... or continues it, ...
Continue(state, seg) ==
    LET r == Consume([state EXCEPT !.next = End(seg)], Whole(seg))
    IN  [state |-> r.state, out |-> r.out,
         status |-> IF r.advanced THEN "GapFilled" ELSE IF seg.fin THEN "Fin" ELSE "InOrder"]

\* Mutant: next_seq stays where it was.
OverlapInPlace(state, seg) ==
    LET r == Consume(state, Trimmed(PayloadStart(seg), seg.payload, state.next))
    IN  [state |-> r.state, out |-> r.out, status |-> "Overlap"]

\* ... or some of it does.
Overlap(state, seg) ==
    LET r == Consume([state EXCEPT !.next = End(seg)],
                     Trimmed(PayloadStart(seg), seg.payload, state.next))
    IN  [state |-> r.state, out |-> r.out, status |-> "Overlap"]

\* TcpDirectionState::observe: the new state, the chunks released and the status.
Observe(old, seg, flowBytes) ==
    LET state == [old EXCEPT !.fin_seen = @ \/ seg.fin]
        same(status) == [state |-> state, out |-> <<>>, status |-> status]
    IN  IF seg.rst THEN same("Reset")
        ELSE IF Span(seg) = 0 THEN same("NoSequence")
        ELSE IF state.next = None THEN First(state, seg)
        ELSE IF seg.start = state.next THEN Continue(state, seg)
        ELSE IF ~ Before(seg.start, state.next) THEN Buffer(state, seg, flowBytes)
        ELSE IF After(End(seg), state.next) THEN Overlap(state, seg)
        ELSE same("Retransmission")

=============================================================================
