-------------------------- MODULE StreamInventory --------------------------
(***************************************************************************)
(* The stream inventory (src/src/stream_inventory.rs): a record of every   *)
(* stream with its status, service, kind of content and counts, which      *)
(* emits an event when a stream opens, when what it shows changes, and     *)
(* every so many packets or bytes.                                         *)
(*                                                                         *)
(* Abstractions: previews, sequence numbers, first_seen and the counts per *)
(* direction are left out, and of the counts of bytes only stream_bytes is *)
(* kept; a byte is classified by the constant Looks.                       *)
(***************************************************************************)
EXTENDS FlowTable, ServiceDetection

CONSTANTS
    MaxStreams,      \* max_streams
    StreamTimeout,   \* idle_timeout_ms
    PacketInterval,  \* update_packet_interval; zero is off
    ByteInterval,    \* update_byte_interval; zero is off
    SampleLimit,     \* CONTENT_SAMPLE_LIMIT
    Looks(_)         \* "text", "control" or "null"

ASSUME InventoryAssumption ==
    MaxStreams \in Nat \ {0} /\ StreamTimeout \in Nat /\ PacketInterval \in Nat /\ ByteInterval \in Nat

VARIABLES
    records,            \* StreamInventory.streams
    record_packets,     \* StreamInventory.observed_packets, modulo SweepEvery
    inventory_stats,    \* StreamInventory.stats
    inventory_events    \* what the latest packet emitted

inventory_vars == <<records, record_packets, inventory_stats, inventory_events>>

InventoryInit ==
    /\ records = <<>>
    /\ record_packets = 0
    /\ inventory_stats = [created |-> 0, evicted |-> 0, closed |-> 0, events |-> 0]
    /\ inventory_events = <<>>

NoSample == [text |-> 0, control |-> 0, null |-> 0]

\* StreamRecord::new
NewRecord(flow, now) ==
    [last_seen |-> now, service |-> PortGuess[flow], status |-> "Open", packets |-> 0,
     stream_bytes |-> 0, fin_seen |-> {}, samples |-> [d \in Directions |-> NoSample],
     shown_packets |-> 0, shown_bytes |-> 0]

-----------------------------------------------------------------------------
(* What kind of content a stream carries. *)

Sampled(s) == s.text + s.control + s.null

\* ContentSampler::observe
Sample(s, bytes) ==
    FoldLeft(LAMBDA t, b : [t EXCEPT ![Looks(b)] = @ + 1], s,
             SubSeq(bytes, 1, Min({Len(bytes), SampleLimit - Sampled(s)})))

\* ContentSampler::kind
SampleKind(s) ==
    IF Sampled(s) = 0 THEN "Unknown"
    ELSE IF s.null # 0 \/ (s.control * 100) \div Sampled(s) > 5 THEN "Binary"
    ELSE IF (s.text * 100) \div Sampled(s) >= 90 THEN "Text" ELSE "Mixed"

CombineKinds(a, b) ==
    IF a \in {"Unknown", b} THEN b ELSE IF b = "Unknown" THEN a ELSE "Mixed"

TextFramed == {"http", "http2", "websocket", "ssh", "smtp", "ftp", "redis", "memcached", "pop3", "imap"}

\* StreamRecord::content_kind: a text protocol is never plain binary.
ContentKind(r) ==
    LET kind == CombineKinds(SampleKind(r.samples["AToB"]), SampleKind(r.samples["BToA"]))
    IN  IF kind = "Binary" /\ r.service.name \in TextFramed THEN "Mixed" ELSE kind

-----------------------------------------------------------------------------
(* StreamRecord::observe_* *)

Fin(r, dir) ==
    [r EXCEPT !.fin_seen = @ \cup {dir},
              !.status = IF r.fin_seen \cup {dir} = Directions THEN "Closed" ELSE "Closing"]

\* observe_tcp_status: only a FIN that arrived in order counts.
ObserveStatus(r, dir, status) ==
    CASE status = "Reset" -> [r EXCEPT !.status = "Closed"]
      [] status = "Fin" -> Fin(r, dir)
      [] OTHER -> r

\* observe_payload_unit
ObservePayload(r, flow, dir, bytes) ==
    IF bytes = <<>> THEN r
    ELSE [r EXCEPT !.service = Merge(@, Detect(flow, dir, bytes)),
                   !.stream_bytes = @ + Len(bytes),
                   !.samples[dir] = Sample(@, bytes)]

ObserveChunks(r, p, chunks) ==
    FoldLeft(LAMBDA s, c : ObservePayload(s, p.flow, p.dir, c.bytes), r, chunks)

\* All that a packet changes in its record.
ObservePacket(r, p, o) ==
    LET seen == [r EXCEPT !.last_seen = p.time, !.packets = @ + 1]
    IN  IF ~ p.tcp THEN ObservePayload(seen, p.flow, p.dir, p.seg.payload)
        ELSE ObserveChunks(ObserveStatus(seen, p.dir, o.status), p, o.chunks)

\* StreamRecord::fields
Row(r) == [status |-> r.status, kind |-> ContentKind(r), service |-> r.service,
           packets |-> r.packets, stream_bytes |-> r.stream_bytes]

\* Mutant: a change of kind alone is not worth an event.
ForcesUpdateNoKind(old, new) == old.status # new.status \/ old.service # new.service

\* What makes an event due at once.
ForcesUpdate(old, new) ==
    \/ old.status # new.status
    \/ ContentKind(old) # ContentKind(new)
    \/ old.service # new.service

\* should_emit_update
ShouldEmit(old, new) ==
    \/ ForcesUpdate(old, new)
    \/ PacketInterval # 0 /\ new.packets - new.shown_packets >= PacketInterval
    \/ ByteInterval # 0 /\ new.stream_bytes - new.shown_bytes >= ByteInterval

MarkEmitted(r) == [r EXCEPT !.shown_packets = r.packets, !.shown_bytes = r.stream_bytes]

\* StreamInventory::observe_flow
ObserveInventory(p, o) ==
    LET n == (record_packets + 1) % SweepEvery
        idle == Swept(records, n, p.time, StreamTimeout, SweepEvery)
        awake == Without(records, idle)
    IN  \E gone \in Evictions(awake, p.flow, p.time, StreamTimeout, MaxStreams) :
            LET kept == Without(awake, gone)
                created == p.flow \notin DOMAIN kept
                old == IF created THEN NewRecord(p.flow, p.time) ELSE kept[p.flow]
                new == ObservePacket(old, p, o)
                emit == created \/ ShouldEmit(old, new)
                event == [type |-> IF created THEN "stream_open" ELSE "stream_update",
                          flow |-> p.flow, row |-> Row(new)]
                count(b) == IF b THEN 1 ELSE 0
            IN  /\ records' = Put(kept, p.flow, IF emit THEN MarkEmitted(new) ELSE new)
                /\ record_packets' = n
                /\ inventory_events' = IF emit THEN <<event>> ELSE <<>>
                /\ inventory_stats' =
                    [created |-> inventory_stats.created + count(created),
                     evicted |-> inventory_stats.evicted + Cardinality(idle \cup gone),
                     closed |-> inventory_stats.closed
                                + count(old.status # "Closed" /\ new.status = "Closed"),
                     events |-> inventory_stats.events + count(emit)]

=============================================================================
