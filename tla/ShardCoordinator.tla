-------------------------- MODULE ShardCoordinator --------------------------
(***************************************************************************)
(* The routing half of the coordinator thread (src/src/shard.rs): it sends *)
(* every captured packet to one worker shard.  A flow is placed when its   *)
(* first packet arrives and is then pinned by the FIFO-bounded owner       *)
(* table; large UDP flows are striped over several shards; packets with no *)
(* flow key are spread by the fallback policy.  All of it is sequential:   *)
(* one action is one call of ShardCoordinator::route_packet.               *)
(*                                                                         *)
(* Abstractions: a packet is its flow key and its length; the three seeded *)
(* hashes are constants; the hash that breaks a tie between equally loaded *)
(* stripe shards is a nondeterministic choice among them.                  *)
(***************************************************************************)
EXTENDS Integers, Sequences, FiniteSets, FiniteSetsExt, Functions

CONSTANTS
    Flows,             \* canonical flow keys
    UdpFlows,          \* those whose protocol is UDP; the others are TCP
    ShardCounts,       \* the worker counts to consider
    Modes,             \* the run modes to consider
    RouteHash,         \* route_hash(key)
    SecondaryHash,     \* route_hash((SECONDARY_ROUTE_HASH_SALT, key))
    StripeHash,        \* route_hash((STRIPED_ROUTE_HASH_SALT, key, salt)), per salt
    RoundRobin,        \* fallback policy: RoundRobin if TRUE, else FirstShard
    Elephants,         \* ElephantFlowConfig.enabled
    MinPackets, MinBytes, MaxStripes,
    MaxOwners,         \* FlowOwnerTable.max_owners
    MaxTrackedFlows,   \* ShardLoadMetrics.max_tracked_flows
    Sizes,             \* packet lengths
    MaxPackets         \* bound on next_sequence: packets routed in a behaviour

Reasons == {"UnsupportedLink", "NonIp", "Malformed", "Fragmented", "UnsupportedTransport"}
Kinds == {"flow_routed", "fallback", "dump", "single_shard"}
Counters == Kinds \cup Reasons \cup {"striped"}

ASSUME CoordinatorAssumption ==
    /\ UdpFlows \subseteq Flows
    /\ ShardCounts \subseteq Nat \ {0}
    /\ Modes \subseteq {"Dump", "Analyze"}
    /\ RouteHash \in [Flows -> Nat]
    /\ SecondaryHash \in [Flows -> Nat]
    /\ StripeHash \in [Flows -> Seq(Nat)]
    /\ RoundRobin \in BOOLEAN /\ Elephants \in BOOLEAN
    /\ MinPackets \in Nat \ {0} /\ MinBytes \in Nat \ {0} /\ MaxStripes \in Nat
    /\ MaxOwners \in Nat \ {0} /\ MaxTrackedFlows \in Nat \ {0}
    /\ Sizes \subseteq Nat
    /\ MaxPackets \in Nat

VARIABLES
    mode, shardCount,  \* ShardCoordinatorConfig, fixed at start
    nextSequence,      \* ShardCoordinator.next_sequence
    owners,            \* FlowOwnerTable.owners: a function on the flows it holds
    order,             \* FlowOwnerTable.order: keys, oldest insertion first
    evictions,         \* FlowOwnerTable.evictions
    totals,            \* ShardLoadMetrics totals and per-kind counters
    load,              \* ShardLoadMetrics.shards
    flowLoads,         \* ShardLoadMetrics.flow_loads, likewise partial
    flowOrder,         \* ShardLoadMetrics.flow_order
    visited,           \* history: shards a flow was sent to since it was placed
    everVisited        \* history: shards a flow was ever sent to

config == <<mode, shardCount>>
table == <<owners, order, evictions>>
metrics == <<totals, load, flowLoads, flowOrder>>
vars == <<config, nextSequence, table, metrics, visited, everVisited>>

Shards == 0 .. shardCount - 1
NoLoad == [packets |-> 0, bytes |-> 0, count |-> [c \in Counters |-> 0]]

Init ==
    /\ mode \in Modes
    /\ shardCount \in ShardCounts
    /\ nextSequence = 0
    /\ owners = [f \in {} |-> 0] /\ order = <<>> /\ evictions = 0
    /\ totals = NoLoad
    /\ load = [s \in Shards |-> NoLoad]
    /\ flowLoads = [f \in {} |-> 0] /\ flowOrder = <<>>
    /\ visited = [f \in Flows |-> {}]
    /\ everVisited = [f \in Flows |-> {}]

-----------------------------------------------------------------------------
(* Placement *)

\* ShardTopology: masking by a power of two is the same remainder.
ShardForHash(hash) == hash % shardCount

\* ShardPlacementLoad derives Ord: bytes first, packets break the tie.
Lighter(s, t) ==
    \/ load[s].bytes < load[t].bytes
    \/ load[s].bytes = load[t].bytes /\ load[s].packets < load[t].packets

ChooseShardForNewFlow(f) ==
    LET primary == ShardForHash(RouteHash[f])
        secondary == ShardForHash(SecondaryHash[f])
    IN  IF Lighter(secondary, primary) THEN secondary ELSE primary

\* The owner and the shards of the first `salts` stripe hashes.
StripePrefix(f, owner, salts) ==
    {owner} \cup {ShardForHash(StripeHash[f][i]) : i \in {k \in DOMAIN StripeHash[f] : k <= salts}}

\* Salts are tried in turn until MaxStripes shards are found or none is left.
ElephantStripeCandidates(f, owner) ==
    IF MaxStripes = 0 \/ MaxStripes >= shardCount THEN Shards
    ELSE LET enough == {n \in 0 .. Len(StripeHash[f]) :
                            Cardinality(StripePrefix(f, owner, n)) >= MaxStripes}
         IN  StripePrefix(f, owner, IF enough = {} THEN Len(StripeHash[f]) ELSE Min(enough))

\* Any least loaded candidate: the tie hash decides which.
StripedShards(f, owner) ==
    LET candidates == ElephantStripeCandidates(f, owner)
    IN  {s \in candidates : \A t \in candidates : ~ Lighter(t, s)}

\* Mutant: TCP flows are striped too.
ShouldStripeAny(f, state) ==
    /\ Elephants /\ ~ state.striped /\ shardCount > 1
    /\ state.packets >= MinPackets \/ state.bytes >= MinBytes

ShouldStripeFlow(f, state) ==
    /\ Elephants
    /\ ~ state.striped
    /\ shardCount > 1
    /\ f \in UdpFlows
    /\ state.packets >= MinPackets \/ state.bytes >= MinBytes

-----------------------------------------------------------------------------
(* FlowOwnerTable *)

\* Mutant: room is made only once the bound is passed.
EvictedLate(queue, cap) == IF Len(queue) > cap THEN Len(queue) - cap ELSE 0

\* The oldest insertions make room for a new key.
Evicted(queue, cap) == IF Len(queue) >= cap THEN Len(queue) - cap + 1 ELSE 0
Kept(queue, cap) == SubSeq(queue, Evicted(queue, cap) + 1, Len(queue))

Remembered(f, shard) ==
    LET kept == Kept(order, MaxOwners)
    IN  [owners |-> [g \in Range(kept) \cup {f} |->
                        IF g = f THEN [owner_shard |-> shard, packets |-> 0, bytes |-> 0,
                                       striped |-> FALSE]
                        ELSE owners[g]],
         order |-> Append(kept, f),
         evictions |-> evictions + Evicted(order, MaxOwners)]

\* Mutant: a known flow is moved to the shard a new one would take.
WithEntryRebalanced(f) ==
    IF f \in DOMAIN owners
    THEN [owners |-> [owners EXCEPT ![f].owner_shard = ChooseShardForNewFlow(f)],
          order |-> order, evictions |-> evictions]
    ELSE Remembered(f, ChooseShardForNewFlow(f))

\* The table once the flow has an entry.
WithEntry(f) ==
    IF f \in DOMAIN owners THEN [owners |-> owners, order |-> order, evictions |-> evictions]
    ELSE Remembered(f, ChooseShardForNewFlow(f))

-----------------------------------------------------------------------------
(* ShardLoadMetrics::observe_route *)

\* ShardLoad::observe; `counted` are the per-kind counters the packet increments.
Observed(l, counted, size) ==
    [packets |-> l.packets + 1, bytes |-> l.bytes + size,
     count |-> [c \in Counters |-> l.count[c] + (IF c \in counted THEN 1 ELSE 0)]]

\* Mutant: striped packets are left out of the totals.
ObserveTotalsUnstriped(shard, counted, size) ==
    /\ totals' = IF "striped" \in counted THEN totals ELSE Observed(totals, counted, size)
    /\ load' = [load EXCEPT ![shard] = Observed(@, counted, size)]

ObserveTotals(shard, counted, size) ==
    /\ totals' = Observed(totals, counted, size)
    /\ load' = [load EXCEPT ![shard] = Observed(@, counted, size)]

\* FlowLoad::observe
Credit(old, shard, size, striped) ==
    [striped |-> old.striped \/ striped,
     shards |-> [old.shards EXCEPT ![shard] = [packets |-> @.packets + 1,
                                               bytes |-> @.bytes + size]]]

\* observe_flow_load: the same FIFO bound, on the flows whose load is tracked.
ObserveFlowLoad(f, shard, size, striped) ==
    LET known == f \in DOMAIN flowLoads
        old == IF known THEN flowLoads[f]
               ELSE [striped |-> FALSE, shards |-> [s \in Shards |-> [packets |-> 0, bytes |-> 0]]]
    IN  /\ flowOrder' = IF known THEN flowOrder ELSE Append(Kept(flowOrder, MaxTrackedFlows), f)
        /\ flowLoads' = [g \in Range(flowOrder') |-> IF g = f THEN Credit(old, shard, size, striped)
                                                 ELSE flowLoads[g]]

-----------------------------------------------------------------------------
(* ShardCoordinator::route_packet, one action per kind of route *)

TakeSequence ==
    /\ nextSequence < MaxPackets
    /\ nextSequence' = nextSequence + 1
    /\ UNCHANGED config

Visit(f, shard, placed) ==
    /\ visited' = [visited EXCEPT ![f] = (IF placed THEN {} ELSE @) \cup {shard}]
    /\ everVisited' = [everVisited EXCEPT ![f] = @ \cup {shard}]

\* A packet with a flow key, several shards (route_flow).
RouteFlow(f, size) ==
    /\ mode = "Analyze" /\ shardCount > 1
    /\ TakeSequence
    /\ LET t == WithEntry(f)
           owner == t.owners[f]
           striped == owner.striped \/ ShouldStripeFlow(f, owner)
           counted == {"flow_routed"} \cup (IF striped THEN {"striped"} ELSE {})
       IN  \E shard \in IF striped THEN StripedShards(f, owner.owner_shard)
                        ELSE {owner.owner_shard} :
             /\ owners' = [t.owners EXCEPT ![f].striped = striped,
                                           ![f].packets = @ + 1,
                                           ![f].bytes = @ + size]
             /\ order' = t.order
             /\ evictions' = t.evictions
             /\ ObserveTotals(shard, counted, size)
             /\ ObserveFlowLoad(f, shard, size, striped)
             /\ Visit(f, shard, f \notin DOMAIN owners)

\* A packet of which no flow key can be read (flow_route_from_raw_result).
RouteFallback(reason, size) ==
    /\ mode = "Analyze" /\ shardCount > 1
    /\ TakeSequence
    /\ ObserveTotals(IF RoundRobin THEN nextSequence % shardCount ELSE 0,
                     {"fallback", reason}, size)
    /\ UNCHANGED <<table, flowLoads, flowOrder, visited, everVisited>>

\* Dump mode, whatever the packet and the number of shards.
RouteDump(size) ==
    /\ mode = "Dump"
    /\ TakeSequence
    /\ ObserveTotals(0, {"dump"}, size)
    /\ UNCHANGED <<table, flowLoads, flowOrder, visited, everVisited>>

\* One shard: no flow key is computed.
RouteSingleShard(size) ==
    /\ mode = "Analyze" /\ shardCount <= 1
    /\ TakeSequence
    /\ ObserveTotals(0, {"single_shard"}, size)
    /\ UNCHANGED <<table, flowLoads, flowOrder, visited, everVisited>>

Next == \E size \in Sizes :
    \/ \E f \in Flows : RouteFlow(f, size)
    \/ \E reason \in Reasons : RouteFallback(reason, size)
    \/ RouteDump(size)
    \/ RouteSingleShard(size)

Spec == Init /\ [][Next]_vars

-----------------------------------------------------------------------------
(* Properties *)

\* Every variable has the type of the field it models; the owner shard of a
\* tracked flow is an existing worker.
OwnerType == [owner_shard : Shards, packets : Nat, bytes : Nat, striped : BOOLEAN]
LoadType == [packets : Nat, bytes : Nat, count : [Counters -> Nat]]
FlowLoadType == [striped : BOOLEAN, shards : [Shards -> [packets : Nat, bytes : Nat]]]
TypeOK ==
    /\ mode \in Modes /\ shardCount \in ShardCounts
    /\ nextSequence \in Nat
    /\ DOMAIN owners \subseteq Flows /\ owners \in [DOMAIN owners -> OwnerType]
    /\ order \in Seq(Flows) /\ evictions \in Nat
    /\ totals \in LoadType /\ load \in [Shards -> LoadType]
    /\ DOMAIN flowLoads \subseteq Flows /\ flowLoads \in [DOMAIN flowLoads -> FlowLoadType]
    /\ flowOrder \in Seq(Flows)
    /\ visited \in [Flows -> SUBSET Shards] /\ everVisited \in [Flows -> SUBSET Shards]

\* FlowOwnerTable keeps a map and a FIFO of its keys in two structures: they
\* always hold the same keys, each once, and never more than max_owners.
OwnersMatchOrder ==
    /\ DOMAIN owners = Range(order)
    /\ \A i, j \in 1 .. Len(order) : order[i] = order[j] => i = j
    /\ Len(order) <= MaxOwners

\* The bounded map of hot-flow loads and its FIFO hold the same keys likewise.
FlowLoadsMatchOrder ==
    /\ DOMAIN flowLoads = Range(flowOrder)
    /\ \A i, j \in 1 .. Len(flowOrder) : flowOrder[i] = flowOrder[j] => i = j
    /\ Len(flowOrder) <= MaxTrackedFlows

\* Every table the coordinator routes by is well formed: types, maps and FIFOs.
WellFormed == TypeOK /\ OwnersMatchOrder /\ FlowLoadsMatchOrder

\* While a flow keeps its entry in the owner table, every packet it sent since
\* it was placed went to one shard, its owner, unless it is a striped UDP flow:
\* this is what lets a worker keep per-flow state without sharing it.
TrackedFlowHasOneShard ==
    \A f \in DOMAIN owners :
        ~ owners[f].striped => visited[f] = {owners[f].owner_shard}

\* A flow is striped only when it is UDP and big enough, and its packets then
\* stay within the owner and at most MaxStripes shards.
StripingIsConfined ==
    \A f \in DOMAIN owners :
        owners[f].striped =>
            /\ f \in UdpFlows
            /\ owners[f].packets > MinPackets \/ owners[f].bytes >= MinBytes
            /\ MaxStripes > 0 => Cardinality(visited[f]) <= MaxStripes

\* The hot-flow loads never claim more packets or bytes of a shard than were
\* routed to it, and account for all flow packets until the first tracked flow
\* is dropped from the bounded map.
FlowLoadsWithinShards ==
    LET sent(s) == SumFunction([f \in DOMAIN flowLoads |-> flowLoads[f].shards[s].packets])
        bytes(s) == SumFunction([f \in DOMAIN flowLoads |-> flowLoads[f].shards[s].bytes])
        unseen == {f \in Flows : everVisited[f] # {}} \ DOMAIN flowLoads
    IN  \A s \in Shards :
            /\ sent(s) <= load[s].count["flow_routed"] /\ bytes(s) <= load[s].bytes
            /\ Cardinality({f \in Flows : everVisited[f] # {}}) <= MaxTrackedFlows =>
                    unseen = {} /\ sent(s) = load[s].count["flow_routed"]

\* ShardLoadMetrics counts each packet once overall and once on one shard, under
\* exactly one kind, and every fallback packet under exactly one reason; the
\* hot-flow loads agree with it.
MetricsBalance ==
    /\ totals.packets = nextSequence
    /\ totals.packets = SumFunction([s \in Shards |-> load[s].packets])
    /\ totals.bytes = SumFunction([s \in Shards |-> load[s].bytes])
    /\ \A c \in Counters : totals.count[c] = SumFunction([s \in Shards |-> load[s].count[c]])
    /\ \A l \in {totals} \cup Range(load) :
        /\ l.packets = SumFunctionOnSet(l.count, Kinds)
        /\ l.count["fallback"] = SumFunctionOnSet(l.count, Reasons)
        /\ l.count["striped"] <= l.count["flow_routed"]
    /\ FlowLoadsWithinShards

\* A flow that keeps its entry keeps its owner shard, its counts only grow and
\* it is never un-striped; only placing another flow can remove an entry.
OwnerPinned ==
    [][\A f \in DOMAIN owners :
        IF f \in DOMAIN owners'
        THEN /\ owners'[f].owner_shard = owners[f].owner_shard
             /\ owners'[f].packets >= owners[f].packets
             /\ owners'[f].bytes >= owners[f].bytes
             /\ owners[f].striped => owners'[f].striped
        ELSE DOMAIN owners' \ DOMAIN owners # {}]_vars

=============================================================================
