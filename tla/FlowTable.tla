----------------------------- MODULE FlowTable -----------------------------
(***************************************************************************)
(* The flow table (src/src/flow/mod.rs): finds or makes the entry of a     *)
(* packet's flow, reassembles TCP in it, and tells the layers above what   *)
(* the packet added to the stream.                                         *)
(*                                                                         *)
(* A packet is [flow, dir, time, tcp, seg]; a datagram has a seg of which  *)
(* only the payload counts.  Abstractions: of the statistics only those    *)
(* about flows and stream bytes are kept; `dropped_new_flows` never counts *)
(* because FlowTableConfig::new makes max_flows at least one.              *)
(***************************************************************************)
EXTENDS TcpDirection, IdleTable

CONSTANTS
    Flows,          \* flow keys
    Directions,     \* {"AToB", "BToA"}
    MaxFlows,       \* max_flows
    FlowTimeout,    \* idle_timeout_us
    SweepEvery      \* eviction_interval_packets, for all three tables

ASSUME FlowTableAssumption ==
    /\ MaxFlows \in Nat \ {0} /\ SweepEvery \in Nat \ {0} /\ FlowTimeout \in Nat
    /\ Directions = {"AToB", "BToA"}

VARIABLES
    entries,        \* FlowTable.entries
    entry_packets,  \* FlowTable.observed_packets, modulo SweepEvery
    flow_stats,     \* FlowTable.stats
    observation     \* the FlowObservation of the latest packet

flow_vars == <<entries, entry_packets, flow_stats, observation>>

NoObservation == [flow |-> None, dir |-> None, is_new |-> FALSE, tcp |-> FALSE, status |-> None,
                  chunks |-> <<>>]

FlowInit ==
    /\ entries = <<>>
    /\ entry_packets = 0
    /\ flow_stats = [created |-> 0, evicted |-> 0, chunks |-> 0, bytes |-> 0]
    /\ observation = NoObservation

\* FlowEntry::new
NewEntry(now) ==
    [last_seen |-> now, packets |-> 0, finished |-> FALSE,
     dirs |-> [d \in Directions |-> NewDirection]]

ChunkBytes(chunks) == FoldLeft(LAMBDA n, c : n + Len(c.bytes), 0, chunks)

\* tcp_buffered_bytes, over both directions
BufferedBytes(dirs) == SumFunction([d \in DOMAIN dirs |-> dirs[d].buffered_bytes])

\* FlowEntry::observe, TcpFlowState::observe
Seen(entry, p) ==
    LET r == Observe(entry.dirs[p.dir], p.seg, BufferedBytes(entry.dirs))
        dirs == [entry.dirs EXCEPT ![p.dir] = r.state]
        seen == [entry EXCEPT !.last_seen = p.time, !.packets = @ + 1]
    IN  IF ~ p.tcp
        THEN [entry |-> seen, status |-> None, chunks |-> <<>>]
        ELSE [entry |-> [seen EXCEPT !.dirs = dirs,
                            !.finished = @ \/ p.seg.rst \/ \A d \in Directions : dirs[d].fin_seen],
              status |-> r.status, chunks |-> r.out]

\* FlowTable::observe_with_route
ObserveFlow(p) ==
    LET n == (entry_packets + 1) % SweepEvery
        idle == Swept(entries, n, p.time, FlowTimeout, SweepEvery)
        awake == Without(entries, idle)
    IN  \E gone \in Evictions(awake, p.flow, p.time, FlowTimeout, MaxFlows) :
            LET kept == Without(awake, gone)
                is_new == p.flow \notin DOMAIN kept
                r == Seen(IF is_new THEN NewEntry(p.time) ELSE kept[p.flow], p)
            IN  /\ entries' = Put(kept, p.flow, r.entry)
                /\ entry_packets' = n
                /\ flow_stats' = [created |-> flow_stats.created + (IF is_new THEN 1 ELSE 0),
                                  evicted |-> flow_stats.evicted + Cardinality(idle \cup gone),
                                  chunks |-> flow_stats.chunks + Len(r.chunks),
                                  bytes |-> flow_stats.bytes + ChunkBytes(r.chunks)]
                /\ observation' = [flow |-> p.flow, dir |-> p.dir, is_new |-> is_new, tcp |-> p.tcp,
                                   status |-> r.status, chunks |-> r.chunks]

=============================================================================
