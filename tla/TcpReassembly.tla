--------------------------- MODULE TcpReassembly ---------------------------
(***************************************************************************)
(* TCP stream reassembly of one flow (src/src/flow/mod.rs): TcpFlowState   *)
(* and its two TcpDirectionStates.  Each captured segment either extends   *)
(* the stream, and then releases buffered segments it joins up with, or is *)
(* old, or waits in a bounded out-of-order buffer.                         *)
(*                                                                         *)
(* The environment is the network: in each direction an endpoint sends one *)
(* stream (a SYN, StreamLen bytes, a FIN), cut into segments in any way,   *)
(* and the capture sees any of them at any time, out of order, repeated,   *)
(* cut differently when repeated, or never.  Sequence numbers are w-bit:   *)
(* Modulus = 2^w, and a stream is shorter than half of it.                 *)
(*                                                                         *)
(* Abstractions: a byte is its position in the stream, so what is released *)
(* shows every trimming error.  TcpDirection has what a segment does.      *)
(***************************************************************************)
EXTENDS TcpDirection

CONSTANTS
    StreamLen,      \* payload bytes in the stream of each direction
    InitialSeqs     \* sequence numbers a SYN may have

Directions == DOMAIN StreamLen

ASSUME ReassemblyAssumption ==
    /\ StreamLen \in [Directions -> Nat] /\ IsFiniteSet(Directions) /\ Directions # {}
    /\ \A d \in Directions : StreamLen[d] + 2 < Modulus \div 2
    /\ InitialSeqs \subseteq 0 .. Modulus - 1

VARIABLES
    isn,            \* the sequence number of each direction's SYN
    dirs,           \* TcpFlowState.directions
    finished,       \* TcpFlowState.finished
    last,           \* the latest TcpObservation, without the chunks
    released        \* history: all bytes in stream chunks so far, by direction

vars == <<isn, dirs, finished, last, released>>

Init ==
    /\ isn \in [Directions -> InitialSeqs]
    /\ dirs = [d \in Directions |-> NewDirection]
    /\ finished = FALSE
    /\ last = [dir |-> CHOOSE d \in Directions : TRUE, start |-> 0, end |-> 0, status |-> "NoSequence"]
    /\ released = [d \in Directions |-> <<>>]

-----------------------------------------------------------------------------
(* Segments.  Position 0 is the SYN, 1 .. StreamLen the payload, and          *)
(* StreamLen + 1 the FIN.                                                     *)

SeqAt(d, p) == (isn[d] + p) % Modulus

\* The payload bytes from position p up to, not including, q.
Payload(d, p, q) ==
    LET from == IF p = 0 THEN 1 ELSE p
        to == IF q > StreamLen[d] THEN StreamLen[d] ELSE q - 1
    IN  [i \in 1 .. to - from + 1 |-> from + i - 1]

\* What one segment from position p up to, not including, q carries.
Cut(d, p, q) ==
    [start |-> SeqAt(d, p), syn |-> p = 0 /\ q > 0, fin |-> q = StreamLen[d] + 2 /\ p < q,
     rst |-> FALSE,
     payload |-> Payload(d, p, q)]

Segments(d) ==
    LET end == StreamLen[d] + 2
    IN  UNION {{Cut(d, p, q) : q \in p .. end} : p \in 0 .. end}

-----------------------------------------------------------------------------
(* TcpFlowState::observe *)

\* Mutant: the bytes of one direction only.
FlowBytesOneWay == dirs[last.dir].buffered_bytes
\* What both directions have buffered.
FlowBytes == SumFunction([d \in Directions |-> dirs[d].buffered_bytes])

\* What the chunks of one observation release.
BytesOf(out) == FlattenSeq([i \in DOMAIN out |-> out[i].bytes])

Receive(d, seg) ==
    LET r == Observe(dirs[d], seg, FlowBytes)
    IN  /\ dirs' = [dirs EXCEPT ![d] = r.state]
        /\ last' = [dir |-> d, start |-> seg.start, end |-> End(seg), status |-> r.status]
        /\ released' = [released EXCEPT ![d] = @ \o BytesOf(r.out)]
        /\ finished' = (finished \/ seg.rst \/ \A e \in Directions : dirs'[e].fin_seen)
        /\ UNCHANGED isn

Arrive(d) == \E seg \in Segments(d) : Receive(d, seg)

\* A reset, whatever its sequence number and payload.
ArriveReset(d) == Receive(d, [Cut(d, 0, 0) EXCEPT !.rst = TRUE])

Next == \E d \in Directions : Arrive(d) \/ ArriveReset(d)

Spec == Init /\ [][Next]_vars

-----------------------------------------------------------------------------
(* Properties *)

SeqNumbers == 0 .. Modulus - 1
Statuses == {"NoSequence", "Init", "InOrder", "OutOfOrderBuffered", "OutOfOrderDropped",
             "GapFilled", "Retransmission", "Overlap", "Reset", "Fin"}
BufferedType == [start : SeqNumbers, end : SeqNumbers, payload_start : SeqNumbers, bytes : Seq(Nat)]

\* Buffered segments are in stream order and none is held twice.
BufferIsSorted ==
    \A d \in Directions : \A i, j \in 1 .. Len(dirs[d].buffered) :
        i < j => LET s == dirs[d].buffered[i]  t == dirs[d].buffered[j]
                 IN  ~ Before(t.start, s.start) /\ (s.start # t.start \/ s.end # t.end)

\* The out-of-order buffers stay within both caps, the byte cap being shared by
\* the two directions, and buffered_bytes, kept by increments, stays exact.
BuffersAreBounded ==
    LET bytes(d) == SumFunction([i \in DOMAIN dirs[d].buffered |-> Len(dirs[d].buffered[i].bytes)])
    IN  /\ SumFunction([d \in Directions |-> bytes(d)]) <= MaxBytes
        /\ \A d \in Directions :
            Len(dirs[d].buffered) <= MaxSegments /\ dirs[d].buffered_bytes = bytes(d)

\* Sequence numbers are within the modulus, records are well formed and the
\* out-of-order buffers sorted, within their caps and counted exactly.
TypeOK ==
    /\ isn \in [Directions -> InitialSeqs]
    /\ \A d \in Directions :
        /\ dirs[d].initial \in SeqNumbers \cup {None} /\ dirs[d].next \in SeqNumbers \cup {None}
        /\ dirs[d].fin_seen \in BOOLEAN
        /\ dirs[d].buffered \in Seq(BufferedType) /\ dirs[d].buffered_bytes \in Nat
    /\ finished \in BOOLEAN
    /\ last \in [dir : Directions, start : SeqNumbers, end : SeqNumbers, status : Statuses]
    /\ released \in [Directions -> Seq(Nat)]
    /\ BufferIsSorted
    /\ BuffersAreBounded

\* The stream position a sequence number of direction d stands for.
PositionOf(d, s) == CHOOSE p \in 0 .. StreamLen[d] + 2 : SeqAt(d, p) = s

\* What a direction has released is exactly the payload from where the capture
\* met the stream up to next_seq: nothing twice, nothing skipped, nothing out of
\* place, however segments overlapped and wherever sequence numbers wrapped.
ReleasedIsTheStream ==
    \A d \in Directions :
        IF dirs[d].next = None THEN released[d] = <<>>
        ELSE released[d] = Payload(d, PositionOf(d, dirs[d].initial), PositionOf(d, dirs[d].next))

\* Segment s carries the position that sequence number n stands for.
Covers(d, s, n) ==
    PositionOf(d, s.start) <= PositionOf(d, n) /\ PositionOf(d, n) < PositionOf(d, s.end)

\* Nothing that could be released waits: no buffered segment covers next_seq.
NothingReadyWaits ==
    \A d \in Directions : \A s \in ToSet(dirs[d].buffered) : ~ Covers(d, s, dirs[d].next)

\* next_seq never moves back.  It moves exactly when a segment that covers it
\* arrives, however full the buffer is, and without that nothing is released: a
\* segment cannot be held up by those that came before it.
AdvancesWhenCovered ==
    [][\A d \in Directions :
        LET from == dirs[d].next  to == dirs'[d].next
            arrived == last'.dir = d /\ last'.start # last'.end /\ last'.status # "Reset"
        IN  /\ to # from <=> arrived /\ (from = None \/ Covers(d, last', from))
            /\ from # None /\ to # from => After(to, from)
            /\ to = from => released'[d] = released[d]]_vars

\* The status, by which the stream inventory and the statistics judge a segment,
\* tells what became of it.
StatusIsTruthful ==
    [][LET d == last'.dir
           held(ds) == Len(ds[d].buffered)
       IN  /\ last'.status \in {"Init", "InOrder", "GapFilled", "Overlap", "Fin"}
                <=> dirs'[d].next # dirs[d].next
           /\ last'.status = "GapFilled" => dirs'[d].next # last'.end /\ held(dirs') < held(dirs)
           /\ last'.status \in {"InOrder", "Fin"} =>
                dirs'[d].next = last'.end /\ held(dirs') = held(dirs)
           /\ last'.status = "Fin" => dirs'[d].next = SeqAt(d, StreamLen[d] + 2)
           /\ last'.status = "OutOfOrderBuffered" <=> held(dirs') > held(dirs)]_vars

=============================================================================
