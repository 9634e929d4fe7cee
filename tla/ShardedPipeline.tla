-------------------------- MODULE ShardedPipeline --------------------------
(***************************************************************************)
(* The threads of the sharded pipeline (src/src/sharded_pipeline.rs) and   *)
(* the bounded channels between them:                                      *)
(*                                                                         *)
(*   source -> coordinator -> worker shards -> stream offload workers      *)
(*                  ^              |                    |                   *)
(*                  +---- one bounded output queue -----+                   *)
(*                                                                         *)
(* A worker turns packets into TCP stream chunks and has each parsed by an *)
(* offload worker or, by the backpressure policy, itself.  The coordinator *)
(* is the only reader of the output queue: it writes events to the sinks,  *)
(* keeps the latest statistics of every thread and stops the threads, the  *)
(* shards before the offload workers.  HTTP clients reach the worker       *)
(* queues too, with content slice requests.                                *)
(*                                                                         *)
(* Abstractions: a packet is its flow and the numbers of the stream chunks *)
(* its reassembly releases; an event is the chunk it was parsed from, or   *)
(* 0 for the one that stands for all packet level events.  Timers expire   *)
(* at any moment.  Routing is a constant (see ShardCoordinator).           *)
(***************************************************************************)
EXTENDS Integers, Sequences, FiniteSets, SequencesExt

CONSTANTS
    Flows,
    WorkerCount,          \* shards are 0 .. WorkerCount-1
    OffloadCount,         \* stream_offload_worker_count
    Shard,                \* the shard each flow is routed to
    OffloadShard,         \* shard_for_flow_key over the offload workers
    Policies,             \* backpressure policies to consider
    WorkerDepth, OffloadDepth, EventDepth,   \* channel capacities
    BatchCapacity,        \* event_batch_capacity
    PlacementCapacity,    \* flows in a StreamFlowPlacementTable
    ChunksPerPacket,      \* numbers of chunks one packet may release
    Slices,               \* content slice requests HTTP clients make
    Faults,               \* which of "sink", "source", "worker", "offload" may fail
    MaxPackets, MaxSnapshots, MaxFaults      \* bounds of a behaviour

Workers == 0 .. WorkerCount - 1
Offloads == 0 .. OffloadCount - 1

ASSUME PipelineAssumption ==
    /\ WorkerCount \in Nat \ {0}
    /\ OffloadCount \in Nat
    /\ Shard \in [Flows -> Workers]
    /\ OffloadCount > 0 => OffloadShard \in [Flows -> Offloads]
    /\ Policies \subseteq {"Block", "Inline", "Drop"}
    /\ {WorkerDepth, OffloadDepth, EventDepth, BatchCapacity, PlacementCapacity} \subseteq Nat \ {0}
    /\ ChunksPerPacket \subseteq Nat
    /\ Faults \subseteq {"sink", "source", "worker", "offload"}
    /\ MaxPackets \in Nat /\ MaxSnapshots \in Nat /\ MaxFaults \in Nat

\* A flow key is two addresses, two ports and a protocol.
ASSUME FlowsAssumption == IsFiniteSet(Flows)

VARIABLES
    policy,      \* StreamOffloadConfig.backpressure_policy
    co,          \* the coordinator thread
    workerQ,     \* WorkerCommand channels
    offloadQ,    \* StreamOffloadCommand channels
    outQ,        \* the WorkerMessage channel
    wk,          \* the worker threads
    off,         \* the offload threads
    slots,       \* worker_stats_snapshots and stream_offload_stats_snapshots
    content,     \* shards whose content store reached the coordinator
    slice,       \* what became of each slice request
    routed,      \* history: chunks of each flow handed to its worker so far
    parsed,      \* history: the parser calls of each flow, in order
    written,     \* history: the chunks of each flow whose events the sinks accepted, in order
    left         \* packets, snapshots and faults this behaviour may still have

vars == <<policy, co, workerQ, offloadQ, outQ, wk, off, slots, content, slice,
          routed, parsed, written, left>>

NoStats == [submitted |-> 0, blocked |-> 0, inline |-> 0, dropped |-> 0]

Init ==
    /\ policy \in Policies
    /\ co = [pc |-> "source", draining |-> FALSE, packet |-> <<>>, index |-> 0,
             received |-> 0, failed |-> FALSE]
    /\ workerQ = [w \in Workers |-> <<>>]
    /\ offloadQ = [o \in Offloads |-> <<>>]
    /\ outQ = <<>>
    /\ wk = [w \in Workers |-> [pc |-> "recv", todo |-> <<>>, events |-> <<>>,
                                placement |-> <<>>, stats |-> NoStats]]
    /\ off = [o \in Offloads |-> [pc |-> "recv", events |-> <<>>, processed |-> 0]]
    /\ slots = [worker |-> [w \in Workers |-> NoStats], offload |-> [o \in Offloads |-> 0]]
    /\ content = {}
    /\ slice = [r \in Slices |-> "idle"]
    /\ routed = [f \in Flows |-> 0]
    /\ parsed = [f \in Flows |-> <<>>]
    /\ written = [f \in Flows |-> <<>>]
    /\ left = [packets |-> MaxPackets, snapshots |-> MaxSnapshots, faults |-> MaxFaults]

-----------------------------------------------------------------------------
(* Channels.  A thread that ends drops its receiver, which discards what is *)
(* queued, and its sender.                                                  *)

Stopped == {"done", "dead"}
WorkerLive(w) == wk[w].pc \notin Stopped
OffloadLive(o) == off[o].pc \notin Stopped
SenderAlive == \/ \E w \in Workers : WorkerLive(w)
               \/ \E o \in Offloads : OffloadLive(o)
\* Mutant: the output queue is unbounded.
OutRoomAlways == TRUE
OutRoom == Len(outQ) < EventDepth
Fault(kind) == /\ kind \in Faults /\ left.faults > 0
               /\ left' = [left EXCEPT !.faults = @ - 1]

\* Mutant: the reply channels of queued requests are kept.
AbandonNone(w) == UNCHANGED slice

\* Slice requests still queued at a worker that stops: their reply channel is
\* dropped with the queue.
Abandon(w) ==
    slice' = [r \in Slices |-> IF slice[r] = "queued" /\ Contains(workerQ[w], <<"slice", r>>)
                               THEN "disconnected" ELSE slice[r]]

-----------------------------------------------------------------------------
(* Worker shards: run_worker *)

\* StreamFlowPlacementTable is an LRU cache: most recently used entry first.
\* Mutant: where a flow was parsed before is not looked up.
PlacementUnknown(table, f) == {}
PlacementOf(table, f) == {p[2] : p \in {q \in ToSet(table) : q[1] = f}}
\* What the other entries become: a known flow leaves its place in the order, a
\* new one in a full table evicts the least recently used.
Others(table, f) ==
    LET at == {i \in 1 .. Len(table) : table[i][1] = f}
    IN  IF at # {} THEN RemoveAt(table, CHOOSE i \in at : TRUE)
        ELSE IF Len(table) < PlacementCapacity THEN table ELSE Front(table)
\* Mutant: a flow parsed here is remembered as offloaded.
TouchOffloaded(table, f, place) == <<<<f, "Offloaded">>>> \o Others(table, f)
Touch(table, f, place) == <<<<f, place>>>> \o Others(table, f)

\* After a command the batch is flushed at once if it is full.
AfterCommand(events) == IF Len(events) >= BatchCapacity THEN "flush" ELSE "recv"
\* Mutant: the other chunks of the packet are forgotten.
ChunkDoneOnly(w, events, table, stats) ==
    wk' = [wk EXCEPT ![w] = [pc |-> AfterCommand(events), todo |-> <<>>, events |-> events,
                             placement |-> table, stats |-> stats]]
\* The worker is done with the first chunk of the packet at hand.
ChunkDone(w, events, table, stats) ==
    wk' = [wk EXCEPT ![w] = [pc |-> IF Len(@.todo) > 1 THEN "chunks" ELSE AfterCommand(events),
                             todo |-> Tail(@.todo), events |-> events,
                             placement |-> table, stats |-> stats]]

WorkerPacket(w) ==
    /\ wk[w].pc = "recv" /\ workerQ[w] # <<>> /\ Head(workerQ[w])[1] = "packet"
    /\ LET packet == Head(workerQ[w])
           events == Append(wk[w].events, <<packet[2], 0>>)
       IN  wk' = [wk EXCEPT ![w].events = events,
                            ![w].todo = packet[3],
                            ![w].pc = IF packet[3] # <<>> THEN "chunks" ELSE AfterCommand(events)]
    /\ workerQ' = [workerQ EXCEPT ![w] = Tail(@)]
    /\ UNCHANGED <<policy, co, offloadQ, outQ, off, slots, content, slice, routed, parsed, written, left>>

\* The reply is lost if the client has timed out.
WorkerSlice(w) ==
    /\ wk[w].pc = "recv" /\ workerQ[w] # <<>> /\ Head(workerQ[w])[1] = "slice"
    /\ LET r == Head(workerQ[w])[2]
       IN  slice' = [slice EXCEPT ![r] = IF @ = "queued" THEN "answered" ELSE @]
    /\ wk' = [wk EXCEPT ![w].pc = AfterCommand(wk[w].events)]
    /\ workerQ' = [workerQ EXCEPT ![w] = Tail(@)]
    /\ UNCHANGED <<policy, co, offloadQ, outQ, off, slots, content, routed, parsed, written, left>>

\* Shutdown leaves the loop; what remains is the last batch and the report.
WorkerShutdown(w) ==
    /\ wk[w].pc = "recv" /\ workerQ[w] # <<>> /\ Head(workerQ[w])[1] = "shutdown"
    /\ wk' = [wk EXCEPT ![w].pc = IF wk[w].events # <<>> THEN "lastFlush" ELSE "report"]
    /\ workerQ' = [workerQ EXCEPT ![w] = Tail(@)]
    /\ UNCHANGED <<policy, co, offloadQ, outQ, off, slots, content, slice, routed, parsed, written, left>>

\* The parser and the analyzers run on this thread for the chunk.
ParseHere(w, table, stats) ==
    LET chunk == Head(wk[w].todo)
    IN  /\ ChunkDone(w, Append(wk[w].events, chunk), table, stats)
        /\ parsed' = [parsed EXCEPT ![chunk[1]] = Append(@, <<"shard", w, chunk[2]>>)]
        /\ UNCHANGED offloadQ

\* Mutant: a task that had to wait is counted as blocked only.
SubmitUnlessBlocked(w, blocked) ==
    LET f == Head(wk[w].todo)[1]
        s == wk[w].stats
    IN  /\ offloadQ' = [offloadQ EXCEPT ![OffloadShard[f]] = Append(@, <<"task", Head(wk[w].todo)>>)]
        /\ ChunkDone(w, wk[w].events, Touch(wk[w].placement, f, "Offloaded"),
                     [s EXCEPT !.submitted = @ + 1 - blocked, !.blocked = @ + blocked])
        /\ UNCHANGED parsed

Submit(w, blocked) ==
    LET f == Head(wk[w].todo)[1]
        s == wk[w].stats
    IN  /\ offloadQ' = [offloadQ EXCEPT ![OffloadShard[f]] = Append(@, <<"task", Head(wk[w].todo)>>)]
        /\ ChunkDone(w, wk[w].events, Touch(wk[w].placement, f, "Offloaded"),
                     [s EXCEPT !.submitted = @ + 1, !.blocked = @ + blocked])
        /\ UNCHANGED parsed

\* StreamOffloadHandle::dispatch: under the Inline policy a flow known to be
\* offloaded blocks instead.
Effective(place) == IF policy = "Inline" /\ "Offloaded" \in place THEN "Block" ELSE policy

\* process_tcp_stream_chunk
WorkerChunk(w) ==
    /\ wk[w].pc = "chunks"
    /\ LET f == Head(wk[w].todo)[1]
           s == wk[w].stats
           table == wk[w].placement
           place == PlacementOf(table, f)
           o == OffloadShard[f]
           effective == Effective(place)
       IN  IF OffloadCount = 0 THEN ParseHere(w, table, s)
           ELSE IF "Local" \in place
           THEN ParseHere(w, Touch(table, f, "Local"), [s EXCEPT !.inline = @ + 1])
           ELSE \/ /\ OffloadLive(o) /\ Len(offloadQ[o]) < OffloadDepth
                   /\ Submit(w, 0)
                \/ /\ ~ OffloadLive(o) \/ Len(offloadQ[o]) >= OffloadDepth
                   /\ \/ /\ effective = "Inline"
                         /\ ParseHere(w, Touch(table, f, "Local"), [s EXCEPT !.inline = @ + 1])
                      \/ /\ effective = "Drop"
                         /\ ChunkDone(w, wk[w].events,
                                      IF place = {} THEN table ELSE Touch(table, f, "Offloaded"),
                                      [s EXCEPT !.dropped = @ + 1])
                         /\ UNCHANGED <<offloadQ, parsed>>
                      \/ /\ effective = "Block"
                         /\ wk' = [wk EXCEPT ![w].pc = "blocked"]
                         /\ UNCHANGED <<offloadQ, parsed>>
    /\ UNCHANGED <<policy, co, workerQ, outQ, off, slots, content, slice, routed, written, left>>

\* The blocking send on a full offload queue goes through.
WorkerUnblock(w) ==
    /\ wk[w].pc = "blocked"
    /\ LET o == OffloadShard[Head(wk[w].todo)[1]]
       IN  OffloadLive(o) /\ Len(offloadQ[o]) < OffloadDepth
    /\ Submit(w, 1)
    /\ UNCHANGED <<policy, co, workerQ, outQ, off, slots, content, slice, routed, written, left>>

\* The thread ends without a report.
WorkerEndsEarly(w) ==
    /\ wk' = [wk EXCEPT ![w].pc = "dead"]
    /\ workerQ' = [workerQ EXCEPT ![w] = <<>>]
    /\ Abandon(w)
    /\ UNCHANGED <<policy, co, offloadQ, outQ, off, slots, content, routed, parsed, written>>

\* The offload worker it sends to is gone: dispatch, and so the thread, returns an error.
WorkerFails(w) ==
    /\ wk[w].pc = "blocked"
    /\ ~ OffloadLive(OffloadShard[Head(wk[w].todo)[1]])
    /\ WorkerEndsEarly(w)
    /\ UNCHANGED left

\* Decoding, a parser or an analyzer panics while this thread processes a packet.
WorkerPanics(w) ==
    /\ \/ wk[w].pc = "recv" /\ workerQ[w] # <<>> /\ Head(workerQ[w])[1] = "packet"
       \/ wk[w].pc = "chunks"
    /\ Fault("worker")
    /\ WorkerEndsEarly(w)

\* The flush interval has passed, or recv_timeout expired with events at hand.
WorkerFlushDue(w) ==
    /\ wk[w].pc = "recv" /\ wk[w].events # <<>>
    /\ wk' = [wk EXCEPT ![w].pc = "flush"]
    /\ UNCHANGED <<policy, co, workerQ, offloadQ, outQ, off, slots, content, slice, routed, parsed, written, left>>

\* flush_worker_events: a blocking send of the whole batch.
WorkerFlush(w) ==
    /\ wk[w].pc \in {"flush", "lastFlush"} /\ OutRoom
    /\ outQ' = Append(outQ, <<"events", wk[w].events>>)
    /\ wk' = [wk EXCEPT ![w].events = <<>>, ![w].pc = IF @ = "flush" THEN "recv" ELSE "report"]
    /\ UNCHANGED <<policy, co, workerQ, offloadQ, off, slots, content, slice, routed, parsed, written, left>>

\* try_flush_worker_stats: a snapshot that finds the queue full is discarded,
\* which changes nothing.
WorkerSnapshot(w) ==
    /\ wk[w].pc = "recv" /\ left.snapshots > 0 /\ OutRoom
    /\ outQ' = Append(outQ, <<"statsSnapshot", w, wk[w].stats>>)
    /\ left' = [left EXCEPT !.snapshots = @ - 1]
    /\ UNCHANGED <<policy, co, workerQ, offloadQ, wk, off, slots, content, slice, routed, parsed, written>>

\* The final report is a blocking send, and the thread ends.
WorkerReport(w) ==
    /\ wk[w].pc = "report" /\ OutRoom
    /\ outQ' = Append(outQ, <<"stats", w, wk[w].stats>>)
    /\ wk' = [wk EXCEPT ![w].pc = "done"]
    /\ workerQ' = [workerQ EXCEPT ![w] = <<>>]
    /\ Abandon(w)
    /\ UNCHANGED <<policy, co, offloadQ, off, slots, content, routed, parsed, written, left>>

-----------------------------------------------------------------------------
(* Stream offload workers: run_stream_offload_worker *)

OffloadTask(o) ==
    /\ off[o].pc = "recv" /\ offloadQ[o] # <<>> /\ Head(offloadQ[o])[1] = "task"
    /\ LET chunk == Head(offloadQ[o])[2]
           events == Append(off[o].events, chunk)
       IN  /\ parsed' = [parsed EXCEPT ![chunk[1]] = Append(@, <<"offload", o, chunk[2]>>)]
           /\ off' = [off EXCEPT ![o] = [pc |-> AfterCommand(events), events |-> events,
                                         processed |-> @.processed + 1]]
    /\ offloadQ' = [offloadQ EXCEPT ![o] = Tail(@)]
    /\ UNCHANGED <<policy, co, workerQ, outQ, wk, slots, content, slice, routed, written, left>>

\* Mutant: the last batch is not flushed.
OffloadShutdownAtOnce(o) ==
    /\ off[o].pc = "recv" /\ offloadQ[o] # <<>> /\ Head(offloadQ[o])[1] = "shutdown"
    /\ off' = [off EXCEPT ![o].pc = "report"]
    /\ offloadQ' = [offloadQ EXCEPT ![o] = Tail(@)]
    /\ UNCHANGED <<policy, co, workerQ, outQ, wk, slots, content, slice, routed, parsed, written, left>>

OffloadShutdown(o) ==
    /\ off[o].pc = "recv" /\ offloadQ[o] # <<>> /\ Head(offloadQ[o])[1] = "shutdown"
    /\ off' = [off EXCEPT ![o].pc = IF off[o].events # <<>> THEN "lastFlush" ELSE "report"]
    /\ offloadQ' = [offloadQ EXCEPT ![o] = Tail(@)]
    /\ UNCHANGED <<policy, co, workerQ, outQ, wk, slots, content, slice, routed, parsed, written, left>>

\* Mutant: only a full batch is flushed.
OffloadFlushNever(o) == FALSE

OffloadFlushDue(o) ==
    /\ off[o].pc = "recv" /\ off[o].events # <<>>
    /\ off' = [off EXCEPT ![o].pc = "flush"]
    /\ UNCHANGED <<policy, co, workerQ, offloadQ, outQ, wk, slots, content, slice, routed, parsed, written, left>>

OffloadFlush(o) ==
    /\ off[o].pc \in {"flush", "lastFlush"} /\ OutRoom
    /\ outQ' = Append(outQ, <<"events", off[o].events>>)
    /\ off' = [off EXCEPT ![o].events = <<>>, ![o].pc = IF @ = "flush" THEN "recv" ELSE "report"]
    /\ UNCHANGED <<policy, co, workerQ, offloadQ, wk, slots, content, slice, routed, parsed, written, left>>

OffloadSnapshot(o) ==
    /\ off[o].pc = "recv" /\ left.snapshots > 0 /\ OutRoom
    /\ outQ' = Append(outQ, <<"offloadSnapshot", o, off[o].processed>>)
    /\ left' = [left EXCEPT !.snapshots = @ - 1]
    /\ UNCHANGED <<policy, co, workerQ, offloadQ, wk, off, slots, content, slice, routed, parsed, written>>

\* Mutant: the counters are taken before they are reported.
OffloadReportEmpty(o) ==
    /\ off[o].pc = "report" /\ OutRoom
    /\ outQ' = Append(outQ, <<"offloadStats", o, 0>>)
    /\ off' = [off EXCEPT ![o].pc = "done"]
    /\ UNCHANGED <<policy, co, workerQ, offloadQ, wk, slots, content, slice, routed, parsed, written, left>>

OffloadReport(o) ==
    /\ off[o].pc = "report" /\ OutRoom
    /\ outQ' = Append(outQ, <<"offloadStats", o, off[o].processed>>)
    /\ off' = [off EXCEPT ![o].pc = "done"]
    /\ UNCHANGED <<policy, co, workerQ, offloadQ, wk, slots, content, slice, routed, parsed, written, left>>

\* A parser or an analyzer panics while this thread processes a task.
OffloadPanics(o) ==
    /\ off[o].pc = "recv" /\ offloadQ[o] # <<>> /\ Head(offloadQ[o])[1] = "task"
    /\ Fault("offload")
    /\ off' = [off EXCEPT ![o].pc = "dead"]
    /\ offloadQ' = [offloadQ EXCEPT ![o] = <<>>]
    /\ UNCHANGED <<policy, co, workerQ, outQ, wk, slots, content, slice, routed, parsed, written>>

-----------------------------------------------------------------------------
(* HTTP clients: ShardedContentSliceHandle::slice *)

\* try_send fails at once on a full queue or a stopped worker.
SliceAsk(r, w) ==
    /\ slice[r] = "idle"
    /\ \/ /\ WorkerLive(w) /\ Len(workerQ[w]) < WorkerDepth
          /\ workerQ' = [workerQ EXCEPT ![w] = Append(@, <<"slice", r>>)]
          /\ slice' = [slice EXCEPT ![r] = "queued"]
       \/ /\ WorkerLive(w) /\ Len(workerQ[w]) >= WorkerDepth
          /\ slice' = [slice EXCEPT ![r] = "queueFull"]
          /\ UNCHANGED workerQ
       \/ /\ ~ WorkerLive(w)
          /\ slice' = [slice EXCEPT ![r] = "disconnected"]
          /\ UNCHANGED workerQ
    /\ UNCHANGED <<policy, co, offloadQ, outQ, wk, off, slots, content, routed, parsed, written, left>>

\* The reply is awaited for a limited time.
SliceTimeout(r) ==
    /\ slice[r] = "queued"
    /\ slice' = [slice EXCEPT ![r] = "timeout"]
    /\ UNCHANGED <<policy, co, workerQ, offloadQ, outQ, wk, off, slots, content, routed, parsed, written, left>>

-----------------------------------------------------------------------------
(* The coordinator: run_with_source, then WorkerPool::shutdown in the stages *)
(* "shutdown", "collect", "join" for the shards and again for the offload    *)
(* workers.                                                                  *)

Running == co.pc \in {"source", "send"}
ShardStage == co.pc \in {"shutdown", "collect", "join"}

\* The source yields a packet (one of a batch).
CoordPacket(f, n) ==
    /\ co.pc = "source" /\ ~ co.draining /\ left.packets > 0
    /\ left' = [left EXCEPT !.packets = @ - 1]
    /\ co' = [co EXCEPT !.pc = "send",
                        !.packet = <<"packet", f, [i \in 1 .. n |-> <<f, routed[f] + i>>]>>]
    /\ UNCHANGED <<policy, workerQ, offloadQ, outQ, wk, off, slots, content, slice, routed, parsed, written>>

\* A batch is sent, or the source had nothing for a while: drain_available.
CoordDrainDue ==
    /\ co.pc = "source" /\ ~ co.draining /\ outQ # <<>>
    /\ co' = [co EXCEPT !.draining = TRUE]
    /\ UNCHANGED <<policy, workerQ, offloadQ, outQ, wk, off, slots, content, slice, routed, parsed, written, left>>

\* Mutant: an error of the source is taken for its end.
CoordEndSilently ==
    /\ co.pc = "source" /\ ~ co.draining
    /\ co' = [co EXCEPT !.pc = "shutdown"]
    /\ Fault("source") \/ UNCHANGED left
    /\ UNCHANGED <<policy, workerQ, offloadQ, outQ, wk, off, slots, content, slice, routed, parsed, written>>

\* The source is finished or fails.
CoordEnd ==
    /\ co.pc = "source" /\ ~ co.draining
    /\ \/ /\ co' = [co EXCEPT !.pc = "shutdown"]
          /\ UNCHANGED left
       \/ /\ Fault("source")
          /\ co' = [co EXCEPT !.pc = "shutdown", !.failed = TRUE]
    /\ UNCHANGED <<policy, workerQ, offloadQ, outQ, wk, off, slots, content, slice, routed, parsed, written>>

\* send_packet: try again after a drain while the queue is full.
CoordSend ==
    /\ co.pc = "send" /\ ~ co.draining
    /\ LET f == co.packet[2]
           w == Shard[f]
       IN  \/ /\ WorkerLive(w) /\ Len(workerQ[w]) < WorkerDepth
              /\ workerQ' = [workerQ EXCEPT ![w] = Append(@, co.packet)]
              /\ routed' = [routed EXCEPT ![f] = @ + Len(co.packet[3])]
              /\ co' = [co EXCEPT !.pc = "source", !.packet = <<>>]
           \/ /\ WorkerLive(w) /\ Len(workerQ[w]) >= WorkerDepth /\ outQ # <<>>
              /\ co' = [co EXCEPT !.draining = TRUE]
              /\ UNCHANGED <<workerQ, routed>>
           \/ /\ ~ WorkerLive(w)
              /\ co' = [co EXCEPT !.pc = "shutdown", !.packet = <<>>, !.failed = TRUE]
              /\ UNCHANGED <<workerQ, routed>>
    /\ UNCHANGED <<policy, offloadQ, outQ, wk, off, slots, content, slice, parsed, written, left>>

IsChunkOf(event, f) == event[1] = f /\ event[2] > 0
\* The chunks of a flow that a batch has events of, in the order of the batch.
ChunksOf(events, f) ==
    FlattenSeq([i \in 1 .. Len(events) |-> IF IsChunkOf(events[i], f) THEN <<events[i][2]>> ELSE <<>>])

\* write_worker_message and its variants during shutdown.  A sink error ends
\* the run at once; during shutdown it is only recorded.
Final == IF ShardStage THEN "stats" ELSE "offloadStats"
TakeMessage ==
    LET m == Head(outQ)
    IN  /\ outQ' = Tail(outQ)
        /\ \/ /\ m[1] = "events"
              /\ \/ /\ written' = [f \in Flows |-> written[f] \o ChunksOf(m[2], f)]
                    /\ UNCHANGED <<co, left>>
                 \/ /\ Fault("sink")
                    /\ co' = [co EXCEPT !.failed = TRUE, !.draining = @ /\ ~ Running,
                                        !.pc = IF Running THEN "shutdown" ELSE @,
                                        !.packet = <<>>]
                    /\ UNCHANGED written
              /\ UNCHANGED <<slots, content>>
           \/ /\ m[1] \in {"statsSnapshot", "stats"}
              /\ slots' = [slots EXCEPT !.worker[m[2]] = m[3]]
              /\ content' = IF m[1] = "stats" THEN content \cup {m[2]} ELSE content
              /\ co' = [co EXCEPT !.received = IF ~ Running /\ m[1] = Final THEN @ + 1 ELSE @]
              /\ UNCHANGED <<written, left>>
           \/ /\ m[1] \in {"offloadSnapshot", "offloadStats"}
              /\ slots' = [slots EXCEPT !.offload[m[2]] = m[3]]
              /\ co' = [co EXCEPT !.received = IF ~ Running /\ m[1] = Final THEN @ + 1 ELSE @]
              /\ UNCHANGED <<content, written, left>>

\* drain_available, drain_shutdown_available: until the queue is empty.
CoordDrain ==
    /\ co.draining /\ outQ # <<>>
    /\ TakeMessage
    /\ UNCHANGED <<policy, workerQ, offloadQ, wk, off, slice, routed, parsed>>

\* Mutant: a drain waits for messages until the channel is closed.
CoordDrainedWhenClosed ==
    /\ co.draining /\ outQ = <<>> /\ ~ SenderAlive
    /\ co' = [co EXCEPT !.draining = FALSE, !.failed = TRUE,
                        !.pc = IF Running THEN "shutdown" ELSE @]
    /\ UNCHANGED <<policy, workerQ, offloadQ, outQ, wk, off, slots, content, slice, routed, parsed, written, left>>

CoordDrained ==
    /\ co.draining /\ outQ = <<>>
    /\ co' = [co EXCEPT !.draining = FALSE,
                        !.failed = @ \/ ~ SenderAlive,
                        !.pc = IF Running /\ ~ SenderAlive THEN "shutdown" ELSE @]
    /\ UNCHANGED <<policy, workerQ, offloadQ, outQ, wk, off, slots, content, slice, routed, parsed, written, left>>

\* Mutant: the offload workers are stopped before the shards have reported.
NextTargetEarly(count, next) ==
    co' = [co EXCEPT !.index = IF @ + 1 < count THEN @ + 1 ELSE 0,
                     !.pc = IF co.index + 1 < count THEN @
                            ELSE IF next = "collect" THEN "offloadShutdown" ELSE next]

\* One target of the current stage is told to stop, or found stopped already.
NextTarget(count, next) ==
    co' = [co EXCEPT !.index = IF @ + 1 < count THEN @ + 1 ELSE 0,
                     !.pc = IF co.index + 1 < count THEN @ ELSE next]

CoordStopShard ==
    /\ co.pc = "shutdown" /\ ~ co.draining
    /\ LET w == co.index
       IN  \/ /\ WorkerLive(w) /\ Len(workerQ[w]) < WorkerDepth
              /\ workerQ' = [workerQ EXCEPT ![w] = Append(@, <<"shutdown">>)]
              /\ NextTarget(WorkerCount, "collect")
           \/ /\ WorkerLive(w) /\ Len(workerQ[w]) >= WorkerDepth /\ outQ # <<>>
              /\ co' = [co EXCEPT !.draining = TRUE]
              /\ UNCHANGED workerQ
           \/ /\ ~ WorkerLive(w)
              /\ NextTarget(WorkerCount, "collect")
              /\ UNCHANGED workerQ
    /\ UNCHANGED <<policy, offloadQ, outQ, wk, off, slots, content, slice, routed, parsed, written, left>>

CoordStopOffload ==
    /\ co.pc = "offloadShutdown" /\ ~ co.draining
    /\ LET o == co.index
       IN  \/ /\ OffloadLive(o) /\ Len(offloadQ[o]) < OffloadDepth
              /\ offloadQ' = [offloadQ EXCEPT ![o] = Append(@, <<"shutdown">>)]
              /\ NextTarget(OffloadCount, "offloadCollect")
           \/ /\ OffloadLive(o) /\ Len(offloadQ[o]) >= OffloadDepth /\ outQ # <<>>
              /\ co' = [co EXCEPT !.draining = TRUE]
              /\ UNCHANGED offloadQ
           \/ /\ ~ OffloadLive(o)
              /\ NextTarget(OffloadCount, "offloadCollect")
              /\ UNCHANGED offloadQ
    /\ UNCHANGED <<policy, workerQ, outQ, wk, off, slots, content, slice, routed, parsed, written, left>>

\* Blocking recv until every target of the stage has reported, or the output
\* channel is closed because no sender is left.
Expected == IF ShardStage THEN WorkerCount ELSE OffloadCount
CoordCollect ==
    /\ co.pc \in {"collect", "offloadCollect"}
    /\ co.received < Expected /\ outQ # <<>>
    /\ TakeMessage
    /\ UNCHANGED <<policy, workerQ, offloadQ, wk, off, slice, routed, parsed>>

\* Mutant: a closed channel does not end the wait.
CoordCollectedAll ==
    /\ co.pc \in {"collect", "offloadCollect"} /\ co.received = Expected
    /\ co' = [co EXCEPT !.pc = IF ShardStage THEN "join" ELSE "offloadJoin"]
    /\ UNCHANGED <<policy, workerQ, offloadQ, outQ, wk, off, slots, content, slice, routed, parsed, written, left>>

CoordCollected ==
    /\ co.pc \in {"collect", "offloadCollect"}
    /\ \/ co.received = Expected
       \/ co.received < Expected /\ outQ = <<>> /\ ~ SenderAlive
    /\ co' = [co EXCEPT !.failed = @ \/ co.received < Expected,
                        !.pc = IF ShardStage THEN "join" ELSE "offloadJoin"]
    /\ UNCHANGED <<policy, workerQ, offloadQ, outQ, wk, off, slots, content, slice, routed, parsed, written, left>>

\* The threads are joined; a dead one is an error.
CoordJoin ==
    /\ \/ /\ co.pc = "join"
          /\ \A w \in Workers : ~ WorkerLive(w)
          /\ co' = [co EXCEPT !.failed = @ \/ \E w \in Workers : wk[w].pc = "dead",
                              !.pc = IF OffloadCount > 0 THEN "offloadShutdown" ELSE "end",
                              !.received = 0]
       \/ /\ co.pc = "offloadJoin"
          /\ \A o \in Offloads : ~ OffloadLive(o)
          /\ co' = [co EXCEPT !.failed = @ \/ \E o \in Offloads : off[o].pc = "dead", !.pc = "end"]
    /\ UNCHANGED <<policy, workerQ, offloadQ, outQ, wk, off, slots, content, slice, routed, parsed, written, left>>

-----------------------------------------------------------------------------
WorkerThread(w) ==
    \/ WorkerPacket(w) \/ WorkerSlice(w) \/ WorkerShutdown(w)
    \/ WorkerChunk(w) \/ WorkerUnblock(w) \/ WorkerFails(w)
    \/ WorkerFlushDue(w) \/ WorkerFlush(w) \/ WorkerReport(w)

OffloadThread(o) ==
    \/ OffloadTask(o) \/ OffloadShutdown(o)
    \/ OffloadFlushDue(o) \/ OffloadFlush(o) \/ OffloadReport(o)

CoordThread ==
    \/ CoordDrainDue \/ CoordSend \/ CoordDrain \/ CoordDrained
    \/ CoordStopShard \/ CoordStopOffload
    \/ CoordCollect \/ CoordCollected \/ CoordJoin

\* The run is over; stuttering here tells a finished run from a deadlock.
Ended == co.pc = "end" /\ UNCHANGED vars

Next ==
    \/ \E w \in Workers : WorkerThread(w) \/ WorkerPanics(w) \/ WorkerSnapshot(w)
    \/ \E o \in Offloads : OffloadThread(o) \/ OffloadPanics(o) \/ OffloadSnapshot(o)
    \/ CoordThread
    \/ \E f \in Flows, n \in ChunksPerPacket : CoordPacket(f, n)
    \/ CoordEnd
    \/ \E r \in Slices : SliceTimeout(r) \/ \E w \in Workers : SliceAsk(r, w)
    \/ Ended

\* The scheduler runs every thread; sources, clients and faults owe nothing.
Fairness ==
    /\ WF_vars(CoordThread)
    /\ \A w \in Workers : WF_vars(WorkerThread(w))
    /\ \A o \in Offloads : WF_vars(OffloadThread(o))

Spec == Init /\ [][Next]_vars /\ Fairness

-----------------------------------------------------------------------------
(* Properties *)

Chunks == Flows \X (Nat \ {0})
Items == Flows \X Nat
StatsType == [submitted : Nat, blocked : Nat, inline : Nat, dropped : Nat]
WorkerPcs == {"recv", "chunks", "blocked", "flush", "lastFlush", "report"} \cup Stopped
CoordPcs == {"source", "send", "shutdown", "collect", "join",
             "offloadShutdown", "offloadCollect", "offloadJoin", "end"}

\* Control states, counters and records are well formed, every bounded channel
\* is within its capacity, and so is each placement cache.
TypeOK ==
    /\ policy \in Policies
    /\ co.pc \in CoordPcs /\ co.draining \in BOOLEAN /\ co.failed \in BOOLEAN
    /\ co.index \in Nat /\ co.received \in Nat
    /\ \A w \in Workers :
        /\ Len(workerQ[w]) <= WorkerDepth
        /\ wk[w].pc \in WorkerPcs
        /\ wk[w].todo \in Seq(Chunks) /\ wk[w].events \in Seq(Items)
        /\ Len(wk[w].placement) <= PlacementCapacity
        /\ wk[w].stats \in StatsType /\ slots.worker[w] \in StatsType
    /\ \A o \in Offloads :
        /\ Len(offloadQ[o]) <= OffloadDepth
        /\ off[o].pc \in WorkerPcs \ {"chunks", "blocked"}
        /\ off[o].events \in Seq(Items)
        /\ off[o].processed \in Nat /\ slots.offload[o] \in Nat
    /\ Len(outQ) <= EventDepth
    /\ content \subseteq Workers
    /\ routed \in [Flows -> Nat]
    /\ left \in [packets : 0 .. MaxPackets, snapshots : 0 .. MaxSnapshots, faults : 0 .. MaxFaults]

NoFault == left.faults = MaxFaults
Numbers(calls) == [i \in 1 .. Len(calls) |-> calls[i][3]]

\* The parser layer and the analyzers see the chunks of a flow in stream order,
\* whichever threads run them, and none twice (README.md:23: the assembler
\* "emits ordered stream chunks to analyzer hooks").
ChunksParsedInOrder ==
    \A f \in Flows : \A i, j \in 1 .. Len(parsed[f]) : i < j => parsed[f][i][3] < parsed[f][j][3]

\* Parser state is per thread: all chunks of a flow are parsed by one thread.
OneParserPerFlow ==
    \A f \in Flows : \A i, j \in 1 .. Len(parsed[f]) :
        parsed[f][i][1] = parsed[f][j][1] /\ parsed[f][i][2] = parsed[f][j][2]

\* Only the Drop policy loses a chunk of a run in which nothing fails: what was
\* parsed of a flow has no gap, and after the end nothing routed is missing.
NoChunkSkipped ==
    policy # "Drop" =>
        \A f \in Flows :
            /\ NoFault => \A i \in 1 .. Len(parsed[f]) : parsed[f][i][3] = i
            /\ co.pc = "end" /\ ~ co.failed => Len(parsed[f]) = routed[f]

\* Batching, the shared output queue and the draining of it under backpressure
\* neither lose, duplicate nor reorder the events of a flow's chunks: the sinks
\* have a prefix of what was parsed, and all of it when the run succeeds.
EventsReachSinksInOrder ==
    \A f \in Flows :
        /\ NoFault => IsPrefix(written[f], Numbers(parsed[f]))
        /\ co.pc = "end" /\ ~ co.failed => written[f] = Numbers(parsed[f])

\* A run that reports success has final figures that add up: every chunk was
\* submitted, run inline or dropped, the offload workers processed exactly what
\* was submitted, and the content store of every shard was handed over.
CompletedRunAddsUp ==
    co.pc = "end" /\ ~ co.failed =>
        LET figure(c) == SumFunction([w \in Workers |-> slots.worker[w][c]])
        IN  /\ content = Workers
            /\ \A w \in Workers : slots.worker[w] = wk[w].stats
            /\ SumFunction(slots.offload) = figure("submitted")
            /\ OffloadCount > 0 =>
                    figure("submitted") + figure("inline") + figure("dropped") = SumFunction(routed)

\* Success is reported only if no thread died, no batch was refused and the
\* source did not fail, and then every channel was emptied first.
SuccessMeansClean ==
    co.pc = "end" /\ ~ co.failed =>
        /\ NoFault
        /\ outQ = <<>> /\ \A w \in Workers : wk[w].pc = "done" /\ wk[w].events = <<>>
        /\ \A o \in Offloads : off[o].pc = "done" /\ off[o].events = <<>> /\ offloadQ[o] = <<>>

\* The shards are joined before an offload worker is told to stop, so no chunk
\* is ever queued behind the Shutdown command or sent to a finished worker.
OffloadStopsLast ==
    \A o \in Offloads :
        (off[o].pc = "done" \/ Contains(offloadQ[o], <<"shutdown">>)) =>
            \A w \in Workers : ~ WorkerLive(w)

\* A slice request without an outcome still sits in the queue of a running
\* worker: none is left waiting on a reply nobody can send.
PendingSliceIsQueued ==
    \A r \in Slices : slice[r] = "queued" =>
        \E w \in Workers : WorkerLive(w) /\ Contains(workerQ[w], <<"slice", r>>)

\* The figures the coordinator holds for a thread never go back, though snapshots
\* and the final report travel through a queue that may refuse a snapshot.
StatsNeverGoBack ==
    [][/\ \A w \in Workers : \A c \in DOMAIN NoStats : slots'.worker[w][c] >= slots.worker[w][c]
       /\ \A o \in Offloads : slots'.offload[o] >= slots.offload[o]]_slots

\* Whatever the coordinator has started it finishes: a packet is accepted, and
\* once the source has ended or failed the shutdown ends.  No cycle of full queues
\* (coordinator -> shard -> offload worker -> coordinator) holds it: "slow output
\* does not wedge the whole capture path" (sharded_pipeline.rs:731-732, test 2656).
CoordinatorNeverWedges == (co.pc # "source") ~> (co.pc \in {"source", "end"})

\* Live events do not wait for the source to end: what is parsed is written to
\* the sinks sooner or later (the test at sharded_pipeline.rs:2593).
LiveEventsAreWritten ==
    \A f \in Flows : \A k \in 1 .. MaxPackets :
        (Len(parsed[f]) >= k) ~> (Len(written[f]) >= k \/ ~ NoFault)

\* WorkerPool::shutdown has a branch for a worker that panicked (845-848) and one
\* for an output channel closed before all reports (831-836): when a worker has
\* died the shutdown still ends, and the run with an error.
DeadWorkerEndsRun == (~ Running /\ \E w \in Workers : wk[w].pc = "dead") ~> (co.pc = "end" /\ co.failed)

=============================================================================
