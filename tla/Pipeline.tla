------------------------------ MODULE Pipeline ------------------------------
(***************************************************************************)
(* The single-threaded pipeline (src/src/pipeline.rs), which takes every   *)
(* packet through the flow table, the stream inventory, the content store, *)
(* the pattern engine and the parsers, and after a batch shows the events  *)
(* to its stream view and to the live API, and writes them to the sinks.   *)
(* The sharded pipeline's workers run the same components.                 *)
(*                                                                         *)
(* A client of the live API may read a slice between any two steps: the    *)
(* content is locked for one packet, the view is changed at the end of a   *)
(* batch.  Analyzers, health reports and the parsers' inner state are left *)
(* out: MessagesIn says what the parsers find in a payload.                *)
(***************************************************************************)
EXTENDS StreamInventory, PatternEngine, StreamSlice

CONSTANTS
    Packets,        \* the packets the capture may hold
    MessagesIn(_,_),\* the protocol messages the parsers find in a payload of a flow
    Modes,          \* run modes: "Dump", "Analyze"
    BatchSize,      \* batch_size
    Starts, Sizes,  \* where a slice that is asked for may start, and its length
    MaxPackets      \* bound: packets in a run

\* What the parsers may see of a packet: its payload, of TCP only the end of it that
\* is new.
VisibleOf(p) ==
    {SubSeq(p.seg.payload, i, Len(p.seg.payload)) : i \in DOMAIN p.seg.payload}
        \cup (IF p.tcp THEN {} ELSE {p.seg.payload})

ASSUME PipelineAssumption ==
    \A p \in Packets :
        /\ p.flow \in Flows /\ p.dir \in Directions /\ p.time \in Nat /\ p.tcp \in BOOLEAN
        /\ p.seg.start \in 0 .. Modulus - 1 /\ p.seg.payload \in Seq(Nat)
        /\ p.seg.syn \in BOOLEAN /\ p.seg.fin \in BOOLEAN /\ p.seg.rst \in BOOLEAN
        /\ \A bytes \in VisibleOf(p) :
            MessagesIn(p.flow, bytes) \in Seq([flow : {p.flow}, protocol : STRING, https : BOOLEAN,
                                              side : STRING, error : BOOLEAN])

ASSUME RequestAssumption == Starts \subseteq Nat /\ Sizes \subseteq Nat \ {0}

VARIABLES
    mode,           \* Pipeline.mode
    count,          \* packets read, and how many of them in this batch
    events,         \* Pipeline.events
    view,           \* Pipeline.stream_view, and the live API's copy
    stats,          \* the PipelineStats published last
    run,            \* "Running", "Completed" or "Failed"
    taken,          \* history: the bytes a content record was given, by direction
    reported,       \* history: the matches reported since the content record began
    remade,         \* history: flows whose entry was made anew since then
    restarted       \* history: flows whose content began again

driver_vars == <<mode, count, events, view, stats, run>>
history_vars == <<taken, reported, remade, restarted>>
vars == <<flow_vars, inventory_vars, content_vars, pattern_vars, driver_vars, history_vars>>

Init ==
    /\ FlowInit /\ InventoryInit /\ ContentInit /\ PatternInit
    /\ mode \in Modes
    /\ count = [read |-> 0, batch |-> 0, malformed |-> 0]
    /\ events = <<>>
    /\ view = NewView
    /\ stats = <<>>
    /\ run = "Running"
    /\ taken = [f \in Flows |-> [d \in Directions |-> <<>>]]
    /\ reported = [f \in Flows |-> <<>>]
    /\ remade = {} /\ restarted = {}

-----------------------------------------------------------------------------
(* process_packet *)

Reading == run = "Running" /\ count.batch < BatchSize /\ count.read < MaxPackets
CountPacket == count' = [count EXCEPT !.read = @ + 1, !.batch = @ + 1]

\* The bytes the packet adds to the stream, chunk by chunk.
Payloads(p, o) == IF p.tcp THEN [i \in DOMAIN o.chunks |-> o.chunks[i].bytes] ELSE <<p.seg.payload>>

MatchEvents(matches) ==
    [i \in DOMAIN matches |-> [type |-> "pattern_match", match |-> matches[i]]]

\* Parsers see a datagram or each chunk, after the patterns.
Parsed(flow, bytes) ==
    LET messages == MessagesIn(flow, bytes)
    IN  [i \in DOMAIN messages |-> [type |-> "protocol_message", message |-> messages[i]]]
MessageEvents(p, o) ==
    FoldLeft(LAMBDA found, bytes : found \o Parsed(p.flow, bytes), <<>>, Payloads(p, o))

\* observe_stream_content: what the store took in is scanned under the same lock.
ObserveAndScan(p, o) ==
    /\ ObserveContent(p, o)
    /\ IF ranges' # <<>> THEN ScanUpdate(p.flow, content', ranges')
       ELSE pattern_events' = <<>> /\ UNCHANGED <<matches_by_stream, pattern_stats>>

\* History only: did the content of the packet's flow begin (again)?
Bytes(p, o) == FlattenSeq(Payloads(p, o))
ContentBegins(p, o) ==
    \/ p.flow \notin DOMAIN content
    \/ \E d \in Directions :
        content'[p.flow].dirs[d].next
            # content[p.flow].dirs[d].next + (IF d = p.dir THEN Len(Bytes(p, o)) ELSE 0)
Remember(p, o) ==
    LET begins == ranges' # <<>> /\ ContentBegins(p, o)
        old(f) == IF f = p.flow /\ begins THEN [d \in Directions |-> <<>>] ELSE taken[f]
    IN  /\ taken' = IF ranges' = <<>> THEN taken
                    ELSE [taken EXCEPT ![p.flow] = [old(p.flow) EXCEPT ![p.dir] = @ \o Bytes(p, o)]]
        /\ reported' = [reported EXCEPT ![p.flow] =
                            (IF begins THEN <<>> ELSE @) \o pattern_events']
        /\ remade' = IF begins THEN remade \ {p.flow}
                     ELSE IF o.is_new THEN remade \cup {p.flow} ELSE remade
        /\ restarted' = IF begins /\ taken[p.flow] # [d \in Directions |-> <<>>]
                        THEN restarted \cup {p.flow} ELSE restarted

AnalyzePacket(p) ==
    /\ Reading /\ mode = "Analyze"
    /\ ObserveFlow(p)
    /\ ObserveInventory(p, observation')
    /\ ObserveAndScan(p, observation')
    /\ events' = events \o inventory_events' \o MatchEvents(pattern_events')
                        \o MessageEvents(p, observation')
    /\ Remember(p, observation')
    /\ CountPacket
    /\ UNCHANGED <<mode, view, stats, run>>

\* A packet that cannot be decoded is only counted.
MalformedPacket ==
    /\ Reading /\ mode = "Analyze"
    /\ count' = [read |-> count.read + 1, batch |-> count.batch + 1, malformed |-> count.malformed + 1]
    /\ UNCHANGED <<flow_vars, inventory_vars, content_vars, pattern_vars, history_vars>>
    /\ UNCHANGED <<mode, events, view, stats, run>>

DumpPacket(p) ==
    /\ Reading /\ mode = "Dump"
    /\ events' = Append(events, [type |-> "packet", flow |-> p.flow])
    /\ CountPacket
    /\ UNCHANGED <<flow_vars, inventory_vars, content_vars, pattern_vars, history_vars>>
    /\ UNCHANGED <<mode, view, stats, run>>

-----------------------------------------------------------------------------
(* process_batch and run_with_source *)

ViewStats(v) ==
    [tracked |-> Cardinality(Tracked(v)), favorite |-> Cardinality(v.favorites),
     hidden |-> Cardinality(v.manually_hidden), matched |-> Cardinality(v.matched),
     rules |-> Len(v.hide_rules), counts |-> v.stats]

Collected(v) ==
    [flow |-> flow_stats, active_flows |-> Cardinality(DOMAIN entries),
     inventory |-> inventory_stats, active_streams |-> Cardinality(DOMAIN records),
     content |-> content_stats, stored |-> stored_bytes, held |-> Cardinality(DOMAIN content),
     pattern |-> pattern_stats, view |-> ViewStats(v)]

\* The rest of process_batch, and the sinks: a sink that fails ends the run.
EndBatch ==
    /\ run = "Running" /\ count.batch > 0
    /\ view' = ObserveEvents(view, events)
    /\ stats' = Collected(view')
    /\ run' \in {"Running", "Failed"}
    /\ events' = <<>>
    /\ count' = [count EXCEPT !.batch = 0]
    /\ UNCHANGED <<flow_vars, inventory_vars, content_vars, pattern_vars, history_vars, mode>>

\* The source has finished, or fails with what is read of it processed.
Finish ==
    /\ run = "Running" /\ count.batch = 0
    /\ run' \in {"Completed", "Failed"}
    /\ UNCHANGED <<flow_vars, inventory_vars, content_vars, pattern_vars, history_vars>>
    /\ UNCHANGED <<mode, count, events, view, stats>>

Next ==
    \/ \E p \in Packets : AnalyzePacket(p) \/ DumpPacket(p)
    \/ MalformedPacket
    \/ EndBatch
    \/ Finish

Spec == Init /\ [][Next]_vars

-----------------------------------------------------------------------------
(* Properties *)

\* The tables stay within their limits, and the counters that are kept by
\* increments agree with what the tables hold.
TypeOK ==
    /\ DOMAIN entries \subseteq Flows /\ Cardinality(DOMAIN entries) <= MaxFlows
    /\ DOMAIN records \subseteq Flows /\ Cardinality(DOMAIN records) <= MaxStreams
    /\ DOMAIN content \subseteq Flows /\ Cardinality(DOMAIN content) <= MaxContentStreams
    /\ flow_stats.created - flow_stats.evicted = Cardinality(DOMAIN entries)
    /\ inventory_stats.created - inventory_stats.evicted = Cardinality(DOMAIN records)
    /\ stored_bytes = FreedBytes(content, DOMAIN content)
    /\ content_stats.observed - content_stats.dropped = stored_bytes
    /\ pattern_stats.matches = SumFunction(matches_by_stream)

\* The bytes of a direction the store still has.
Kept(f, d) == FlattenSeq([i \in DOMAIN content[f].dirs[d].segments |->
                            content[f].dirs[d].segments[i].bytes])
\* How many it had and has no more.
Lost(f, d) == Len(taken[f][d]) - Len(Kept(f, d))

\* Between batches a row of the view tells of its stream what the inventory
\* knows: the status exactly, the service and the kind of content unless a parser
\* knew better, and the counts up to the update intervals.
RowsShowTheStream ==
    count.batch = 0 => \A f \in DOMAIN records \cap Tracked(view) :
        LET row == view.streams[f].row
            r == records[f]
        IN  /\ row.status = r.status
            /\ row.service = r.service \/ row.service.source = "Parser"
            /\ row.kind \in {ContentKind(r)} \cup
                    {KindAfter(protocol, ContentKind(r)) : protocol \in {"http", "websocket", "dns", "tls"}}
            /\ PacketInterval # 0 => r.packets - row.packets < PacketInterval
            /\ ByteInterval # 0 => r.stream_bytes - row.stream_bytes < ByteInterval

\* Unless its flow entry was made anew meanwhile, the content of a TCP direction
\* is a piece of what the sender sent: nothing missing, repeated or out of place,
\* whatever was retransmitted, overlapped or came out of order.
ContentFollowsSender ==
    \A f \in Flows \ (remade \cup UdpFlows) : \A d \in Directions :
        \A i \in 2 .. Len(taken[f][d]) : taken[f][d][i] = taken[f][d][i - 1] + 1

\* A literal in what the store still has was reported exactly once, whichever
\* chunks and segments it was split over, and nothing is reported that was not
\* there; unless a cap was hit.
LiteralsFoundOnce ==
    pattern_stats.dropped = 0 => \A f \in DOMAIN content : \A d \in Directions :
        LET hits(i) == LiteralHits(Patterns[i].value, taken[f][d])
            report == reported[f]
            reports(i) == {k \in DOMAIN report : report[k].dir = d /\ report[k].pattern = i}
        IN  \A i \in Literals :
                /\ \A x \in hits(i) : x[1] >= Lost(f, d) => \E k \in reports(i) : report[k].start = x[1]
                /\ \A k \in reports(i) : <<report[k].start, report[k].end>> \in hits(i)
                /\ \A k, l \in reports(i) : report[k].start = report[l].start => k = l

\* What a client may ask for.
Requests(f) == [flow : {f}, dir : Directions, start : Starts, max_bytes : Sizes]

\* The end of what was taken is kept, within the stream's limit, and a slice is
\* the one contiguous piece of it that the request meets.
SlicesShowTheStream ==
    \A f \in DOMAIN content \cap Tracked(view) :
        /\ RecordBytes(content[f]) <= MaxStreamBytes
        /\ \A req \in Requests(f) :
            LET slice == Slice(content, view, req)
                whole == taken[f][req.dir]
                from == Max({Lost(f, req.dir), slice.start})
                shown == SubSeq(whole, from + 1, Min({Len(whole), slice.end}))
            IN  slice.segments = IF shown = <<>> THEN <<>>
                                 ELSE <<[start |-> from, bytes |-> shown]>>

\* The highlights of a slice lie in it and show the pattern they name, clipped to it,
\* as long as the stream's content never began again (then the view still has
\* matches of the old one).
HighlightsShowTheMatches ==
    \A f \in DOMAIN content \cap Tracked(view) : \A req \in Requests(f) :
        LET slice == Slice(content, view, req)
            whole == taken[f][req.dir]
            from == Max({Lost(f, req.dir), slice.start})
            to == Min({Len(whole), slice.end})
        IN  \A h \in ToSet(slice.highlights) :
                /\ from <= h.start /\ h.start < h.end /\ h.end <= to
                /\ f \notin restarted /\ ~ Patterns[h.pattern].regex =>
                    \E x \in LiteralHits(Patterns[h.pattern].value, whole) :
                        h.start = Max({x[1], from}) /\ h.end = Min({x[2], to})

\* A match is found once wherever it lies, and shown where it is.
MatchesFoundAndShown == LiteralsFoundOnce /\ HighlightsShowTheMatches

=============================================================================
