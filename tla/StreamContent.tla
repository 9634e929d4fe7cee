--------------------------- MODULE StreamContent ---------------------------
(***************************************************************************)
(* The content store (src/src/stream_content.rs): the latest bytes of each *)
(* stream, in segments with logical offsets that count what the stream has *)
(* received since the store began to keep it.  A stream over its limit     *)
(* loses its oldest bytes, and the store over its own the streams seen     *)
(* least recently.                                                         *)
(*                                                                         *)
(* The limits are as StreamContentConfig::normalized leaves them.          *)
(***************************************************************************)
EXTENDS FlowTable

CONSTANTS
    MaxContentStreams,  \* max_streams
    ContentTimeout,     \* idle_timeout_ms
    MaxTotalBytes,      \* max_total_bytes
    MaxStreamBytes,     \* max_bytes_per_stream
    MaxSegmentBytes     \* max_segment_bytes

ASSUME ContentAssumption ==
    /\ MaxContentStreams \in Nat \ {0} /\ ContentTimeout \in Nat
    /\ MaxSegmentBytes \in 1 .. MaxStreamBytes /\ MaxStreamBytes \in 1 .. MaxTotalBytes

VARIABLES
    content,            \* StreamContent.streams
    content_packets,    \* StreamContent.observed_packets, modulo SweepEvery
    stored_bytes,       \* StreamContent.stored_bytes
    content_stats,      \* StreamContent.stats
    ranges              \* the ranges of the StreamContentUpdate of the latest packet

content_vars == <<content, content_packets, stored_bytes, content_stats, ranges>>

ContentInit ==
    /\ content = <<>>
    /\ content_packets = 0
    /\ stored_bytes = 0
    /\ content_stats = [observed |-> 0, dropped |-> 0, evicted |-> 0, truncated |-> 0,
                        updates |-> 0, merged |-> 0]
    /\ ranges = <<>>

NewContent(now) ==
    [last_seen |-> now, truncated |-> FALSE,
     dirs |-> [d \in Directions |-> [next |-> 0, stored |-> 0, segments |-> <<>>]]]

LogicalEnd(s) == s.start + Len(s.bytes)
RecordBytes(r) == SumFunction([d \in Directions |-> r.dirs[d].stored])

-----------------------------------------------------------------------------
(* DirectionContent *)

\* try_merge_last: the bytes follow the last segment's by sequence number and fit.
Merges(c, seq, bytes) ==
    /\ c.segments # <<>> /\ seq # None /\ Last(c.segments).seq # None
    /\ (Last(c.segments).seq + Len(Last(c.segments).bytes)) % Modulus = seq
    /\ Len(Last(c.segments).bytes) + Len(bytes) <= MaxSegmentBytes

\* One round of append: a piece of what is left, at most a segment's worth.
AppendPiece(a, dir, now) ==
    LET c == a.dir
        take == Min({Len(a.left), MaxSegmentBytes})
        bytes == SubSeq(a.left, 1, take)
        merged == Merges(c, a.seq, bytes)
        segments ==
            IF merged
            THEN [c.segments EXCEPT ![Len(c.segments)].bytes = @ \o bytes]
            ELSE Append(c.segments, [start |-> c.next, seq |-> a.seq, at |-> now, bytes |-> bytes])
    IN  IF a.left = <<>> THEN a
        ELSE [dir |-> [next |-> c.next + take, stored |-> c.stored + take, segments |-> segments],
              ranges |-> Append(a.ranges, [dir |-> dir, start |-> c.next, end |-> c.next + take]),
              merged |-> a.merged + (IF merged THEN 1 ELSE 0),
              seq |-> IF a.seq = None THEN None ELSE (a.seq + take) % Modulus,
              left |-> SubSeq(a.left, take + 1, Len(a.left))]

\* DirectionContent::append, which takes no more rounds than there are bytes.
AppendBytes(c, dir, seq, now, bytes) ==
    FoldLeft(LAMBDA a, b : AppendPiece(a, dir, now),
             [dir |-> c, ranges |-> <<>>, merged |-> 0, seq |-> seq, left |-> bytes], bytes)

\* Mutant: bytes go, but the offset and the sequence number stay.
TrimInPlace(c, excess) ==
    [c EXCEPT !.segments[1].bytes = SubSeq(@, excess + 1, Len(@)), !.stored = @ - excess]

\* trim_oldest: the first `excess` bytes go, or all there are.
TrimOldest(c, excess) ==
    LET gone == Min({excess, c.stored})
        cut(s) == Max({0, Min({Len(s.bytes), c.segments[1].start + gone - s.start})})
        rest == [i \in DOMAIN c.segments |->
                    LET s == c.segments[i]
                    IN  [s EXCEPT !.start = @ + cut(s), !.bytes = SubSeq(@, cut(s) + 1, Len(@)),
                                  !.seq = IF @ = None THEN None ELSE (@ + cut(s)) % Modulus]]
        whole == {i \in DOMAIN rest : rest[i].bytes = <<>>}
    IN  [c EXCEPT !.segments = SubSeq(rest, Cardinality(whole) + 1, Len(rest)), !.stored = @ - gone]

-----------------------------------------------------------------------------
(* ContentRecord *)

\* oldest_direction: whose first segment was observed first, then starts first,
\* then the first of the two.
Older(r, d, e) ==
    LET s == r.dirs[d].segments[1]
        t == r.dirs[e].segments[1]
    IN  \/ s.at < t.at
        \/ s.at = t.at /\ s.start < t.start
        \/ s.at = t.at /\ s.start = t.start /\ d = "AToB"
OldestDirection(r) ==
    LET holding == {d \in Directions : r.dirs[d].segments # <<>>}
    IN  CHOOSE d \in holding : \A e \in holding \ {d} : Older(r, d, e)

TrimOnce(r) ==
    LET excess == RecordBytes(r) - MaxStreamBytes
    IN  IF excess <= 0 THEN r
        ELSE [r EXCEPT !.dirs[OldestDirection(r)] = TrimOldest(@, excess), !.truncated = TRUE]

\* trim_to_limit: the second direction has what the first has not.
TrimToLimit(r) == TrimOnce(TrimOnce(r))

\* observe_payload
StorePayload(u, dir, seq, now, bytes) ==
    LET a == AppendBytes(u.record.dirs[dir], dir, seq, now, bytes)
        r == [u.record EXCEPT !.dirs[dir] = a.dir]
        trimmed == TrimToLimit(r)
    IN  IF bytes = <<>> THEN u
        ELSE [record |-> trimmed, ranges |-> u.ranges \o a.ranges,
              observed |-> u.observed + Len(bytes), merged |-> u.merged + a.merged,
              trimmed |-> u.trimmed + RecordBytes(r) - RecordBytes(trimmed)]

\* observe_chunks
StoreChunks(u, p, chunks) ==
    FoldLeft(LAMBDA v, c : StorePayload(v, p.dir, c.seq, p.time, c.bytes), u, chunks)

\* What the packet adds: its chunks, or the datagram's payload.
Store(record, p, o) ==
    LET none == [record |-> [record EXCEPT !.last_seen = p.time], ranges |-> <<>>,
                 observed |-> 0, merged |-> 0, trimmed |-> 0]
    IN  IF p.tcp THEN StoreChunks(none, p, o.chunks)
        ELSE StorePayload(none, p.dir, None, p.time, p.seg.payload)

-----------------------------------------------------------------------------
(* StreamContent *)

FreedBytes(streams, keys) == SumFunction([k \in keys |-> RecordBytes(streams[k])])

\* enforce_global_limit: the least recently seen of the other streams go, one
\* by one, until the rest fit.  (The current one always does.)
GlobalVictims(streams, key, total) ==
    LET others == DOMAIN streams \ {key}
    IN  {v \in SUBSET others :
            /\ \A k \in v, l \in others \ v : streams[k].last_seen <= streams[l].last_seen
            /\ total - FreedBytes(streams, v) <= MaxTotalBytes
            /\ v # {} => \E k \in v :
                    /\ \A l \in v : streams[l].last_seen <= streams[k].last_seen
                    /\ total - FreedBytes(streams, v \ {k}) > MaxTotalBytes}

HasContent(p, o) == IF p.tcp THEN o.chunks # <<>> ELSE p.seg.payload # <<>>

NoContent ==
    /\ ranges' = <<>>
    /\ UNCHANGED <<content, content_packets, stored_bytes, content_stats>>

StoreContent(p, o) ==
    LET n == (content_packets + 1) % SweepEvery
        idle == Swept(content, n, p.time, ContentTimeout, SweepEvery)
        awake == Without(content, idle)
    IN  \E gone \in Evictions(awake, p.flow, p.time, ContentTimeout, MaxContentStreams) :
            LET room == Without(awake, gone)
                old == IF p.flow \in DOMAIN room THEN room[p.flow] ELSE NewContent(p.time)
                u == Store(old, p, o)
                streams == Put(room, p.flow, u.record)
                total == stored_bytes - FreedBytes(content, idle \cup gone) + u.observed - u.trimmed
            IN  \E v \in GlobalVictims(streams, p.flow, total) :
                    /\ content' = Without(streams, v)
                    /\ content_packets' = n
                    /\ stored_bytes' = total - FreedBytes(streams, v)
                    /\ ranges' = u.ranges
                    /\ content_stats' =
                        [observed |-> content_stats.observed + u.observed,
                         dropped |-> content_stats.dropped + u.trimmed
                                     + FreedBytes(content, idle \cup gone) + FreedBytes(streams, v),
                         evicted |-> content_stats.evicted + Cardinality(idle \cup gone \cup v),
                         truncated |-> content_stats.truncated
                                     + (IF u.record.truncated /\ ~ old.truncated THEN 1 ELSE 0),
                         updates |-> content_stats.updates + 1,
                         merged |-> content_stats.merged + u.merged]

\* StreamContent::observe_flow
ObserveContent(p, o) == IF HasContent(p, o) THEN StoreContent(p, o) ELSE NoContent

\* What segment s has from `start` up to `end`.
Window(s, start, end) ==
    LET from == Max({s.start, start})
        to == Min({LogicalEnd(s), end})
    IN  [start |-> from, bytes |-> SubSeq(s.bytes, from - s.start + 1, to - s.start)]

\* Another window, joined to the last one if it follows it.
Join(windows, w) ==
    IF w.bytes = <<>> THEN windows
    ELSE IF windows # <<>> /\ LogicalEnd(Last(windows)) = w.start
    THEN [windows EXCEPT ![Len(windows)].bytes = @ \o w.bytes]
    ELSE Append(windows, w)

\* direction_windows: what is kept from `start` up to `end`, contiguous pieces joined.
Windows(c, start, end) ==
    FoldLeft(LAMBDA ws, s : Join(ws, Window(s, start, end)), <<>>, c.segments)

=============================================================================
