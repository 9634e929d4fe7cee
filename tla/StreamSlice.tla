---------------------------- MODULE StreamSlice ----------------------------
(***************************************************************************)
(* A slice of a stream for a client (src/src/stream_slice.rs): the bytes   *)
(* the store still has of a requested range, and the pattern matches that  *)
(* the view remembers in them.  How the bytes are shown (raw, text, hex    *)
(* rows) is left out.                                                      *)
(***************************************************************************)
EXTENDS StreamContent, StreamView

CONSTANTS
    MaxSliceBytes,      \* max_slice_bytes
    MaxHighlights       \* max_highlights

ASSUME SliceAssumption == MaxSliceBytes \in Nat \ {0} /\ MaxHighlights \in Nat

\* The part of match m in segment i, if any.
Highlight(m, segments, i) ==
    LET s == segments[i]
    IN  [pattern |-> m.pattern, start |-> Max({m.start, s.start}), end |-> Min({m.end, LogicalEnd(s)}),
         segment |-> i]

\* sort_by_key: by start, then end, then segment, equals as the matches were.
HighlightBefore(a, b) ==
    \/ a.start < b.start
    \/ a.start = b.start /\ (a.end < b.end \/ (a.end = b.end /\ a.segment < b.segment))

\* highlights: every match of the direction, clipped to the segments, in order.
Highlights(dir, matches, segments) ==
    LET at(p) == Highlight(matches[p[1]], segments, p[2])
        shown == {p \in (DOMAIN matches) \X (DOMAIN segments) :
                    matches[p[1]].dir = dir /\ at(p).start < at(p).end}
        before(p, q) == \/ HighlightBefore(at(p), at(q))
                        \/ ~ HighlightBefore(at(q), at(p)) /\ p[1] < q[1]
    IN  [k \in 1 .. Cardinality(shown) |->
            at(CHOOSE p \in shown : Cardinality({q \in shown : before(q, p)}) = k - 1)]

\* slice, slice_with_context
Slice(streams, v, req) ==
    LET size == Min({req.max_bytes, MaxSliceBytes})
        segments == Windows(streams[req.flow].dirs[req.dir], req.start, req.start + size)
        found == Highlights(req.dir, v.streams[req.flow].matches, segments)
    IN  IF req.max_bytes = 0 THEN [error |-> "EmptyRequest"]
        ELSE IF req.flow \notin Tracked(v) THEN [error |-> "StreamNotFound"]
        ELSE IF req.flow \notin DOMAIN streams THEN [error |-> "ContentNotFound"]
        ELSE [error |-> "None", start |-> req.start, end |-> req.start + size, segments |-> segments,
              highlights |-> SubSeq(found, 1, Min({Len(found), MaxHighlights})),
              dropped |-> Max({0, Len(found) - MaxHighlights}),
              truncated |-> req.max_bytes > MaxSliceBytes]

=============================================================================
