----------------------- MODULE ShardCoordinatorProofs -----------------------
(***************************************************************************)
(* Proofs about ShardCoordinator for any flows, hashes, shard counts and   *)
(* table bounds.  The inductive invariant is IInv: types, the agreement of *)
(* each bounded map with the FIFO of its keys, which is what makes the     *)
(* entries kept by an eviction well typed, and the pinning of flows.       *)
(* StripesFit adds where the packets of a striped flow may have gone: the  *)
(* candidates are recomputed for every packet, so it takes that they never *)
(* change to bound the shards a flow visits.                               *)
(* StripesFit adds where the packets of a striped flow may have gone: the  *)
(* candidates are recomputed for every packet, so it takes that they never *)
(* change to bound the shards a flow visits.                               *)
(* StripesFit adds where the packets of a striped flow may have gone: the  *)
(* candidates are recomputed for every packet, so it takes that they never *)
(* change to bound the shards a flow visits.                               *)
(* StripesFit adds where the packets of a striped flow may have gone: the  *)
(* candidates are recomputed for every packet, so it takes that they never *)
(* change to bound the shards a flow visits.                               *)
(* StripesFit adds where the packets of a striped flow may have gone: the  *)
(* candidates are recomputed for every packet, so it takes that they never *)
(* change to bound the shards a flow visits.                               *)
(* StripesFit adds where the packets of a striped flow may have gone: the  *)
(* candidates are recomputed for every packet, so it takes that they never *)
(* change to bound the shards a flow visits.                               *)
(* StripesFit adds where the packets of a striped flow may have gone: the  *)
(* candidates are recomputed for every packet, so it takes that they never *)
(* change to bound the shards a flow visits.                               *)
(* StripesFit adds where the packets of a striped flow may have gone: the  *)
(* candidates are recomputed for every packet, so it takes that they never *)
(* change to bound the shards a flow visits.                               *)
(* StripesFit adds where the packets of a striped flow may have gone: the  *)
(* candidates are recomputed for every packet, so it takes that they never *)
(* change to bound the shards a flow visits.                               *)
(* StripesFit adds where the packets of a striped flow may have gone: the  *)
(* candidates are recomputed for every packet, so it takes that they never *)
(* change to bound the shards a flow visits.                               *)
(* StripesFit adds where the packets of a striped flow may have gone: the  *)
(* candidates are recomputed for every packet, so it takes that they never *)
(* change to bound the shards a flow visits.                               *)
(* StripesFit adds where the packets of a striped flow may have gone: the  *)
(* candidates are recomputed for every packet, so it takes that they never *)
(* change to bound the shards a flow visits.                               *)
(* StripesFit adds where the packets of a striped flow may have gone: the  *)
(* candidates are recomputed for every packet, so it takes that they never *)
(* change to bound the shards a flow visits.                               *)
(* StripesFit adds where the packets of a striped flow may have gone: the  *)
(* candidates are recomputed for every packet, so it takes that they never *)
(* change to bound the shards a flow visits.                               *)
(* StripesFit adds where the packets of a striped flow may have gone: the  *)
(* candidates are recomputed for every packet, so it takes that they never *)
(* change to bound the shards a flow visits.                               *)
(***************************************************************************)
EXTENDS ShardCoordinator, SequenceTheorems, SumLemmas

-----------------------------------------------------------------------------
(* Lemmas about the operators of the model *)

\* Dropping the oldest keys of a bounded queue without duplicates leaves room for
\* one more, and what is left is without duplicates.
LEMMA KeptProperties ==
    ASSUME NEW S, NEW queue \in Seq(S), NEW cap \in Nat \ {0},
           \A i, j \in 1 .. Len(queue) : queue[i] = queue[j] => i = j,
           Len(queue) <= cap
    PROVE  /\ Kept(queue, cap) \in Seq(S)
           /\ Len(Kept(queue, cap)) < cap
           /\ \A i, j \in 1 .. Len(Kept(queue, cap)) :
                    Kept(queue, cap)[i] = Kept(queue, cap)[j] => i = j
           /\ Range(Kept(queue, cap)) \subseteq Range(queue)
           /\ Evicted(queue, cap) \in Nat
<1> DEFINE n == Evicted(queue, cap)
           k == Kept(queue, cap)
<1>1. Len(queue) \in Nat
  BY LenProperties
<1>2. n \in {0, 1} /\ Len(queue) - n < cap /\ n <= Len(queue)
  BY <1>1 DEF Evicted
<1>3. \A i \in n + 1 .. Len(queue) : queue[i] \in S
  BY <1>1, <1>2, ElementOfSeq
<1>4. /\ k \in Seq(S) /\ Len(k) = Len(queue) - n
      /\ \A i \in 1 .. Len(queue) - n : k[i] = queue[n + i]
  <2>1. n + 1 \in Int /\ Len(queue) \in Int
    BY <1>1, <1>2
  <2>2. /\ k \in Seq(S)
        /\ Len(k) = IF n + 1 <= Len(queue) THEN Len(queue) - (n + 1) + 1 ELSE 0
        /\ \A i \in 1 .. Len(queue) - (n + 1) + 1 : k[i] = queue[(n + 1) + i - 1]
    BY <2>1, <1>3, SubSeqProperties DEF Kept
  <2> QED
    BY <2>2, <1>1, <1>2
<1>5. \A i, j \in 1 .. Len(k) : k[i] = k[j] => i = j
  <2> SUFFICES ASSUME NEW i \in 1 .. Len(k), NEW j \in 1 .. Len(k), k[i] = k[j]
               PROVE  i = j
    OBVIOUS
  <2>1. queue[n + i] = queue[n + j] /\ n + i \in 1 .. Len(queue) /\ n + j \in 1 .. Len(queue)
    BY <1>1, <1>2, <1>4
  <2>2. n + i = n + j
    BY <2>1
  <2> QED
    BY <2>2, <1>1, <1>2, <1>4
<1>6. Range(k) \subseteq Range(queue)
  <2> SUFFICES ASSUME NEW i \in DOMAIN k
               PROVE  k[i] \in Range(queue)
    BY DEF Range
  <2>1. i \in 1 .. Len(queue) - n
    BY <1>4, LenProperties
  <2>2. k[i] = queue[n + i] /\ n + i \in 1 .. Len(queue)
    BY <2>1, <1>1, <1>2, <1>4
  <2> QED
    BY <2>2, LenProperties DEF Range
<1> QED
  BY <1>1, <1>2, <1>4, <1>5, <1>6

\* Appending a new key to a queue without duplicates keeps it so.
LEMMA AppendKey ==
    ASSUME NEW S, NEW queue \in Seq(S), NEW e \in S, e \notin Range(queue),
           \A i, j \in 1 .. Len(queue) : queue[i] = queue[j] => i = j
    PROVE  /\ Append(queue, e) \in Seq(S)
           /\ Len(Append(queue, e)) = Len(queue) + 1
           /\ Range(Append(queue, e)) = Range(queue) \cup {e}
           /\ \A i, j \in 1 .. Len(Append(queue, e)) :
                    Append(queue, e)[i] = Append(queue, e)[j] => i = j
<1> DEFINE a == Append(queue, e)
<1>1. /\ a \in Seq(S) /\ Len(a) = Len(queue) + 1
      /\ \A i \in 1 .. Len(queue) : a[i] = queue[i]
      /\ a[Len(queue) + 1] = e
  BY AppendProperties
<1>2. /\ Len(queue) \in Nat /\ DOMAIN queue = 1 .. Len(queue)
      /\ DOMAIN a = 1 .. Len(queue) + 1
  BY <1>1, LenProperties
<1>3. \A i \in 1 .. Len(queue) : queue[i] # e
  BY <1>2 DEF Range
<1>4. Range(a) = Range(queue) \cup {e}
  BY <1>1, <1>2 DEF Range
<1>5. ASSUME NEW i \in 1 .. Len(a), NEW j \in 1 .. Len(a), a[i] = a[j]
      PROVE  i = j
  BY <1>1, <1>2, <1>3, <1>5
<1> QED
  BY <1>1, <1>4, <1>5

\* A hash always selects one of the worker shards.
LEMMA HashSelectsShard ==
    ASSUME shardCount \in Nat \ {0}, NEW hash \in Nat
    PROVE  ShardForHash(hash) \in Shards
BY DEF ShardForHash, Shards

\* The two choices of a new flow are worker shards.
LEMMA NewFlowShard ==
    ASSUME shardCount \in Nat \ {0}, NEW f \in Flows
    PROVE  ChooseShardForNewFlow(f) \in Shards
BY HashSelectsShard, CoordinatorAssumption DEF ChooseShardForNewFlow

\* The shards of the first stripe hashes are worker shards.
LEMMA PrefixOfShards ==
    ASSUME shardCount \in Nat \ {0}, NEW f \in Flows, NEW owner \in Shards, NEW salts
    PROVE  StripePrefix(f, owner, salts) \subseteq Shards
<1>1. \A i \in DOMAIN StripeHash[f] : StripeHash[f][i] \in Nat
  BY CoordinatorAssumption, LenProperties, ElementOfSeq
<1> QED
  BY <1>1, HashSelectsShard DEF StripePrefix

\* Striping never leaves the worker shards.
LEMMA StripesAreShards ==
    ASSUME shardCount \in Nat \ {0}, NEW f \in Flows, NEW owner \in Shards
    PROVE  StripedShards(f, owner) \subseteq Shards
BY PrefixOfShards DEF StripedShards, ElephantStripeCandidates

\* Counting a packet keeps the counters well typed.
LEMMA ObservedType ==
    ASSUME NEW l \in LoadType, NEW counted, NEW size \in Nat
    PROVE  Observed(l, counted, size) \in LoadType
<1>1. /\ l.packets \in Nat /\ l.bytes \in Nat
      /\ \A c \in Counters : l.count[c] \in Nat
  BY DEF LoadType
<1>2. [c \in Counters |-> l.count[c] + (IF c \in counted THEN 1 ELSE 0)] \in [Counters -> Nat]
  BY <1>1
<1> QED
  BY <1>1, <1>2 DEF Observed, LoadType

\* Placing a flow keeps the table and its FIFO in agreement; the other entries
\* that stay are unchanged, and the new one is on a worker shard.
LEMMA WithEntryProperties ==
    ASSUME TypeOK, OwnersMatchOrder, NEW f \in Flows
    PROVE  LET t == WithEntry(f)
           IN  /\ f \in DOMAIN t.owners
               /\ DOMAIN t.owners \subseteq Flows
               /\ t.owners \in [DOMAIN t.owners -> OwnerType]
               /\ t.order \in Seq(Flows) /\ t.evictions \in Nat
               /\ DOMAIN t.owners = Range(t.order)
               /\ \A i, j \in 1 .. Len(t.order) : t.order[i] = t.order[j] => i = j
               /\ Len(t.order) <= MaxOwners
               /\ \A g \in DOMAIN t.owners \ {f} : g \in DOMAIN owners /\ t.owners[g] = owners[g]
               /\ f \in DOMAIN owners =>
                    t.owners[f] = owners[f] /\ DOMAIN t.owners = DOMAIN owners
               /\ f \notin DOMAIN owners => t.owners[f].striped = FALSE
<1>1. shardCount \in Nat \ {0}
  BY CoordinatorAssumption DEF TypeOK
<1>2. CASE f \in DOMAIN owners
  BY <1>2 DEF WithEntry, TypeOK, OwnersMatchOrder
<1>3. CASE f \notin DOMAIN owners
  <2> DEFINE kept == Kept(order, MaxOwners)
             new == [owner_shard |-> ChooseShardForNewFlow(f), packets |-> 0, bytes |-> 0,
                     striped |-> FALSE]
             t == Remembered(f, ChooseShardForNewFlow(f))
  <2>1. MaxOwners \in Nat \ {0} /\ order \in Seq(Flows)
    BY CoordinatorAssumption DEF TypeOK
  <2>2. /\ kept \in Seq(Flows) /\ Len(kept) < MaxOwners
        /\ \A i, j \in 1 .. Len(kept) : kept[i] = kept[j] => i = j
        /\ Range(kept) \subseteq DOMAIN owners
        /\ Evicted(order, MaxOwners) \in Nat
    BY <2>1, KeptProperties DEF OwnersMatchOrder
  <2>3. f \notin Range(kept)
    BY <1>3, <2>2
  <2>4. /\ t.order \in Seq(Flows) /\ Len(t.order) = Len(kept) + 1
        /\ Range(t.order) = Range(kept) \cup {f}
        /\ \A i, j \in 1 .. Len(t.order) : t.order[i] = t.order[j] => i = j
    <3>1. t.order = Append(kept, f)
      BY DEF Remembered
    <3> HIDE DEF kept, t
    <3> QED
      BY <2>2, <2>3, <3>1, AppendKey
  <2>5. Len(t.order) <= MaxOwners
    BY <2>1, <2>2, <2>4, LenProperties
  <2>6. t.owners = [g \in Range(kept) \cup {f} |-> IF g = f THEN new ELSE owners[g]]
    BY DEF Remembered
  <2>7. new \in OwnerType
    BY <1>1, NewFlowShard DEF OwnerType
  <2>8. \A g \in DOMAIN owners : owners[g] \in OwnerType
    BY DEF TypeOK
  <2>9. /\ DOMAIN t.owners = Range(kept) \cup {f}
        /\ t.owners \in [DOMAIN t.owners -> OwnerType]
        /\ \A g \in DOMAIN t.owners \ {f} : g \in DOMAIN owners /\ t.owners[g] = owners[g]
        /\ t.owners[f] = new
    <3> HIDE DEF t, kept, new
    <3> QED
      BY <2>2, <2>3, <2>6, <2>7, <2>8
  <2>10. t.evictions \in Nat
    BY <2>2 DEF Remembered, TypeOK
  <2>11. DOMAIN owners \subseteq Flows
    BY DEF TypeOK
  <2>12. new.striped = FALSE
    OBVIOUS
  <2>13. WithEntry(f) = t
    BY <1>3 DEF WithEntry
  <2> HIDE DEF t, kept, new
  <2> QED
    BY <1>3, <2>2, <2>4, <2>5, <2>9, <2>10, <2>11, <2>12, <2>13
<1> QED
  BY <1>2, <1>3

-----------------------------------------------------------------------------
(* The inductive invariant *)

IInv == TypeOK /\ OwnersMatchOrder /\ FlowLoadsMatchOrder /\ TrackedFlowHasOneShard

\* It holds before the first packet.
LEMMA InitIInv == Init => IInv
<1> SUFFICES ASSUME Init
             PROVE  IInv
  OBVIOUS
<1> USE DEF Init
<1>1. shardCount \in Nat \ {0} /\ Shards \subseteq Int
  BY CoordinatorAssumption DEF Shards
<1>2. NoLoad \in LoadType
  BY DEF NoLoad, LoadType
<1>3. TypeOK
  <2>1. mode \in Modes /\ shardCount \in ShardCounts /\ nextSequence \in Nat
    OBVIOUS
  <2>2. DOMAIN owners \subseteq Flows /\ owners \in [DOMAIN owners -> OwnerType]
    OBVIOUS
  <2>3. order \in Seq(Flows) /\ flowOrder \in Seq(Flows) /\ evictions \in Nat
    OBVIOUS
  <2>4. totals \in LoadType /\ load \in [Shards -> LoadType]
    BY <1>2
  <2>5. DOMAIN flowLoads \subseteq Flows /\ flowLoads \in [DOMAIN flowLoads -> FlowLoadType]
    OBVIOUS
  <2>6. visited \in [Flows -> SUBSET Shards] /\ everVisited \in [Flows -> SUBSET Shards]
    OBVIOUS
  <2> QED
    BY <2>1, <2>2, <2>3, <2>4, <2>5, <2>6 DEF TypeOK
<1>4. Range(<<>>) = {} /\ Len(<<>>) = 0
  BY DEF Range
<1>5. OwnersMatchOrder /\ FlowLoadsMatchOrder
  BY <1>4, CoordinatorAssumption DEF OwnersMatchOrder, FlowLoadsMatchOrder
<1>6. TrackedFlowHasOneShard
  BY DEF TrackedFlowHasOneShard
<1> QED
  BY <1>3, <1>5, <1>6 DEF IInv

\* Counting a packet of a worker shard keeps the load records well typed.
LEMMA ObserveTotalsType ==
    ASSUME TypeOK, UNCHANGED config, NEW shard \in Shards, NEW counted, NEW size \in Nat,
           ObserveTotals(shard, counted, size)
    PROVE  totals' \in LoadType /\ load' \in [Shards' -> LoadType]
<1>1. Shards' = Shards
  BY DEF Shards, config
<1>2. totals \in LoadType /\ load \in [Shards -> LoadType]
  BY DEF TypeOK
<1>3. totals' = Observed(totals, counted, size)
      /\ load' = [load EXCEPT ![shard] = Observed(load[shard], counted, size)]
  BY DEF ObserveTotals
<1> QED
  BY <1>1, <1>2, <1>3, ObservedType

\* Tracking the load of a flow keeps that map well typed and in agreement with its FIFO.
LEMMA ObserveFlowLoadStep ==
    ASSUME TypeOK, FlowLoadsMatchOrder, UNCHANGED config,
           NEW f \in Flows, NEW shard \in Shards, NEW size \in Nat, NEW striped \in BOOLEAN,
           ObserveFlowLoad(f, shard, size, striped)
    PROVE  /\ flowOrder' \in Seq(Flows)
           /\ DOMAIN flowLoads' \subseteq Flows
           /\ flowLoads' \in [DOMAIN flowLoads' -> FlowLoadType']
           /\ FlowLoadsMatchOrder'
<1> DEFINE known == f \in DOMAIN flowLoads
           kept == Kept(flowOrder, MaxTrackedFlows)
           old == IF known THEN flowLoads[f]
                  ELSE [striped |-> FALSE,
                        shards |-> [s \in Shards |-> [packets |-> 0, bytes |-> 0]]]
           new == Credit(old, shard, size, striped)
<1>1. /\ flowOrder' = IF known THEN flowOrder ELSE Append(kept, f)
      /\ flowLoads' = [g \in Range(flowOrder') |-> IF g = f THEN new ELSE flowLoads[g]]
  BY DEF ObserveFlowLoad
<1>2. FlowLoadType' = FlowLoadType
  BY DEF FlowLoadType, Shards, config
<1>3. MaxTrackedFlows \in Nat \ {0} /\ flowOrder \in Seq(Flows) /\ DOMAIN flowLoads \subseteq Flows
  BY CoordinatorAssumption DEF TypeOK
<1>4. \A g \in DOMAIN flowLoads : flowLoads[g] \in FlowLoadType
  BY DEF TypeOK
<1>5. old \in FlowLoadType
  BY <1>4 DEF FlowLoadType
<1>6. new \in FlowLoadType
  <2>1. /\ old.striped \in BOOLEAN
        /\ old.shards \in [Shards -> [packets : Nat, bytes : Nat]]
    BY <1>5 DEF FlowLoadType
  <2>2. old.shards[shard].packets + 1 \in Nat /\ old.shards[shard].bytes + size \in Nat
    BY <2>1
  <2> HIDE DEF old
  <2>3. new.shards \in [Shards -> [packets : Nat, bytes : Nat]]
    BY <2>1, <2>2 DEF Credit
  <2>4. new.striped \in BOOLEAN
    BY <2>1 DEF Credit
  <2> QED
    BY <2>1, <2>3, <2>4 DEF FlowLoadType, Credit
<1>7. /\ flowOrder' \in Seq(Flows) /\ Len(flowOrder') <= MaxTrackedFlows
      /\ Range(flowOrder') \subseteq DOMAIN flowLoads \cup {f}
      /\ \A i, j \in 1 .. Len(flowOrder') : flowOrder'[i] = flowOrder'[j] => i = j
  <2>1. CASE known
    BY <1>1, <1>3, <2>1 DEF FlowLoadsMatchOrder
  <2>2. CASE ~ known
    <3>1. /\ kept \in Seq(Flows) /\ Len(kept) < MaxTrackedFlows
          /\ \A i, j \in 1 .. Len(kept) : kept[i] = kept[j] => i = j
          /\ Range(kept) \subseteq DOMAIN flowLoads
      BY <1>3, KeptProperties DEF FlowLoadsMatchOrder
    <3> HIDE DEF kept
    <3>2. /\ flowOrder' \in Seq(Flows) /\ Len(flowOrder') = Len(kept) + 1
          /\ Range(flowOrder') = Range(kept) \cup {f}
          /\ \A i, j \in 1 .. Len(flowOrder') : flowOrder'[i] = flowOrder'[j] => i = j
      BY <1>1, <2>2, <3>1, AppendKey
    <3> QED
      BY <3>1, <3>2, <1>3, LenProperties
  <2> QED
    BY <2>1, <2>2
<1>8. DOMAIN flowLoads' = Range(flowOrder') /\ flowLoads' \in [DOMAIN flowLoads' -> FlowLoadType]
  <2> HIDE DEF new
  <2> QED
    BY <1>1, <1>4, <1>6, <1>7
<1> QED
  BY <1>2, <1>3, <1>7, <1>8 DEF FlowLoadsMatchOrder

\* A packet of a flow preserves the invariant.
LEMMA RouteFlowStep ==
    ASSUME IInv, NEW f \in Flows, NEW size \in Sizes, RouteFlow(f, size)
    PROVE  IInv'
<1> DEFINE t == WithEntry(f)
           owner == t.owners[f]
           striped == owner.striped \/ ShouldStripeFlow(f, owner)
           counted == {"flow_routed"} \cup (IF striped THEN {"striped"} ELSE {})
<1>1. PICK shard \in IF striped THEN StripedShards(f, owner.owner_shard) ELSE {owner.owner_shard} :
         /\ owners' = [t.owners EXCEPT ![f].striped = striped,
                                       ![f].packets = @ + 1,
                                       ![f].bytes = @ + size]
         /\ order' = t.order
         /\ evictions' = t.evictions
         /\ ObserveTotals(shard, counted, size)
         /\ ObserveFlowLoad(f, shard, size, striped)
         /\ Visit(f, shard, f \notin DOMAIN owners)
  BY DEF RouteFlow
<1>2. TypeOK /\ OwnersMatchOrder /\ FlowLoadsMatchOrder /\ TrackedFlowHasOneShard
  BY DEF IInv
<1>3. /\ UNCHANGED config /\ Shards' = Shards /\ OwnerType' = OwnerType /\ LoadType' = LoadType
      /\ nextSequence' \in Nat
  BY <1>2 DEF RouteFlow, TakeSequence, config, Shards, OwnerType, LoadType, TypeOK
<1>4. size \in Nat /\ shardCount \in Nat \ {0}
  BY <1>2, CoordinatorAssumption DEF TypeOK
<1>5. /\ f \in DOMAIN t.owners /\ DOMAIN t.owners \subseteq Flows
      /\ t.owners \in [DOMAIN t.owners -> OwnerType]
      /\ t.order \in Seq(Flows) /\ t.evictions \in Nat
      /\ DOMAIN t.owners = Range(t.order)
      /\ \A i, j \in 1 .. Len(t.order) : t.order[i] = t.order[j] => i = j
      /\ Len(t.order) <= MaxOwners
      /\ \A g \in DOMAIN t.owners \ {f} : g \in DOMAIN owners /\ t.owners[g] = owners[g]
      /\ f \in DOMAIN owners => t.owners[f] = owners[f] /\ DOMAIN t.owners = DOMAIN owners
      /\ f \notin DOMAIN owners => t.owners[f].striped = FALSE
  BY <1>2, WithEntryProperties
<1> HIDE DEF t
<1>6. owner \in OwnerType
  BY <1>5
<1>7. /\ owner.owner_shard \in Shards /\ owner.packets \in Nat /\ owner.bytes \in Nat
      /\ owner.striped \in BOOLEAN
  BY <1>6 DEF OwnerType
<1>8. striped \in BOOLEAN
  OBVIOUS
<1>9. shard \in Shards
  BY <1>1, <1>4, <1>7, StripesAreShards
<1> DEFINE entry == [owner EXCEPT !.striped = striped, !.packets = @ + 1, !.bytes = @ + size]
<1>10. entry \in OwnerType /\ entry.owner_shard = owner.owner_shard /\ entry.striped = striped
  <2> HIDE DEF striped
  <2>1. owner.packets + 1 \in Nat /\ owner.bytes + size \in Nat
    BY <1>4, <1>7
  <2> QED
    BY <1>6, <1>8, <2>1 DEF OwnerType
<1>11. owners' = [t.owners EXCEPT ![f] = entry]
  <2> HIDE DEF striped
  <2> QED
    BY <1>1, <1>5, <1>6 DEF OwnerType
<1> HIDE DEF entry
<1>12. /\ DOMAIN owners' = DOMAIN t.owners /\ owners' \in [DOMAIN owners' -> OwnerType]
       /\ owners'[f] = entry
       /\ \A g \in DOMAIN owners' \ {f} : g \in DOMAIN owners /\ owners'[g] = owners[g]
  BY <1>5, <1>10, <1>11
<1>13. totals' \in LoadType /\ load' \in [Shards -> LoadType]
  BY <1>1, <1>2, <1>3, <1>4, <1>9, ObserveTotalsType
<1>14. /\ flowOrder' \in Seq(Flows) /\ DOMAIN flowLoads' \subseteq Flows
       /\ flowLoads' \in [DOMAIN flowLoads' -> FlowLoadType'] /\ FlowLoadsMatchOrder'
  <2> HIDE DEF striped
  <2> QED
    BY <1>1, <1>2, <1>3, <1>4, <1>8, <1>9, ObserveFlowLoadStep
<1>15. /\ visited' = [visited EXCEPT ![f] = (IF f \notin DOMAIN owners THEN {} ELSE visited[f]) \cup {shard}]
       /\ everVisited' = [everVisited EXCEPT ![f] = everVisited[f] \cup {shard}]
  BY <1>1 DEF Visit
<1>16. /\ visited \in [Flows -> SUBSET Shards] /\ everVisited \in [Flows -> SUBSET Shards]
       /\ mode \in Modes /\ shardCount \in ShardCounts
  BY <1>2 DEF TypeOK
<1>17. visited' \in [Flows -> SUBSET Shards] /\ everVisited' \in [Flows -> SUBSET Shards]
  BY <1>9, <1>15, <1>16
<1>18. mode' \in Modes /\ shardCount' \in ShardCounts
  BY <1>3, <1>16 DEF config
<1>19. order' = t.order /\ evictions' = t.evictions
  BY <1>1
<1>20. TypeOK'
  BY <1>3, <1>5, <1>12, <1>13, <1>14, <1>17, <1>18, <1>19 DEF TypeOK
<1>21. OwnersMatchOrder'
  BY <1>5, <1>12, <1>19 DEF OwnersMatchOrder
<1>22. TrackedFlowHasOneShard'
  <2> SUFFICES ASSUME NEW g \in DOMAIN owners', ~ owners'[g].striped
               PROVE  visited'[g] = {owners'[g].owner_shard}
    BY DEF TrackedFlowHasOneShard
  <2>1. CASE g # f
    <3>1. g \in DOMAIN owners /\ owners'[g] = owners[g] /\ visited'[g] = visited[g]
      BY <1>5, <1>12, <1>15, <1>16, <2>1
    <3> QED
      BY <1>2, <3>1 DEF TrackedFlowHasOneShard
  <2>2. CASE g = f
    <3>1. ~ striped /\ owners'[g].owner_shard = owner.owner_shard
      BY <1>10, <1>12, <2>2
    <3>2. shard = owner.owner_shard /\ ~ owner.striped
      BY <1>1, <3>1
    <3>3. visited'[g] = (IF f \notin DOMAIN owners THEN {} ELSE visited[f]) \cup {shard}
      BY <1>15, <1>16, <2>2
    <3>4. f \in DOMAIN owners => visited[f] = {owner.owner_shard}
      BY <1>2, <1>5, <3>2 DEF TrackedFlowHasOneShard
    <3> QED
      BY <3>1, <3>2, <3>3, <3>4
  <2> QED
    BY <2>1, <2>2
<1> QED
  BY <1>14, <1>20, <1>21, <1>22 DEF IInv

\* The routes without a flow key touch the load counters only.
LEMMA UnkeyedRouteStep ==
    ASSUME IInv, UNCHANGED <<config, table, flowLoads, flowOrder, visited, everVisited>>,
           nextSequence' \in Nat,
           NEW shard \in Shards, NEW counted, NEW size \in Nat,
           ObserveTotals(shard, counted, size)
    PROVE  IInv'
<1>1. totals' \in LoadType /\ load' \in [Shards' -> LoadType]
  BY ObserveTotalsType DEF IInv
<1>2. /\ Shards' = Shards /\ OwnerType' = OwnerType /\ LoadType' = LoadType
      /\ FlowLoadType' = FlowLoadType
  BY DEF config, Shards, OwnerType, LoadType, FlowLoadType
<1>3. TypeOK'
  BY <1>1, <1>2 DEF IInv, TypeOK, config, table
<1> QED
  BY <1>3 DEF IInv, OwnersMatchOrder, FlowLoadsMatchOrder, TrackedFlowHasOneShard, table

\* Every step preserves the invariant.
LEMMA NextIInv == IInv /\ [Next]_vars => IInv'
<1> SUFFICES ASSUME IInv, [Next]_vars
             PROVE  IInv'
  OBVIOUS
<1>1. /\ shardCount \in Nat \ {0} /\ nextSequence \in Nat /\ 0 \in Shards
      /\ \A size \in Sizes : size \in Nat
  BY CoordinatorAssumption DEF IInv, TypeOK, Shards
<1>2. ASSUME NEW size \in Sizes, NEW f \in Flows, RouteFlow(f, size)
      PROVE  IInv'
  BY <1>2, RouteFlowStep
<1>3. ASSUME NEW size \in Sizes, NEW reason \in Reasons, RouteFallback(reason, size)
      PROVE  IInv'
  <2>1. /\ UNCHANGED <<config, table, flowLoads, flowOrder, visited, everVisited>>
        /\ nextSequence' \in Nat
        /\ ObserveTotals(IF RoundRobin THEN nextSequence % shardCount ELSE 0,
                         {"fallback", reason}, size)
    BY <1>1, <1>3 DEF RouteFallback, TakeSequence
  <2>2. (IF RoundRobin THEN nextSequence % shardCount ELSE 0) \in Shards
    BY <1>1 DEF Shards
  <2> QED
    BY <1>1, <2>1, <2>2, UnkeyedRouteStep
<1>4. ASSUME NEW size \in Sizes, RouteDump(size)
      PROVE  IInv'
  <2>1. /\ UNCHANGED <<config, table, flowLoads, flowOrder, visited, everVisited>>
        /\ nextSequence' \in Nat /\ ObserveTotals(0, {"dump"}, size)
    BY <1>1, <1>4 DEF RouteDump, TakeSequence
  <2> QED
    BY <1>1, <2>1, UnkeyedRouteStep
<1>5. ASSUME NEW size \in Sizes, RouteSingleShard(size)
      PROVE  IInv'
  <2>1. /\ UNCHANGED <<config, table, flowLoads, flowOrder, visited, everVisited>>
        /\ nextSequence' \in Nat /\ ObserveTotals(0, {"single_shard"}, size)
    BY <1>1, <1>5 DEF RouteSingleShard, TakeSequence
  <2> QED
    BY <1>1, <2>1, UnkeyedRouteStep
<1>6. CASE UNCHANGED vars
  BY <1>6 DEF vars, config, table, metrics, IInv, TypeOK, OwnersMatchOrder, FlowLoadsMatchOrder,
     TrackedFlowHasOneShard, Shards, OwnerType, LoadType, FlowLoadType
<1> QED
  BY <1>2, <1>3, <1>4, <1>5, <1>6 DEF Next

\* One step keeps the owner of every tracked flow, or makes room for a new flow.
LEMMA PinnedStep ==
    ASSUME IInv, [Next]_vars, NEW g \in DOMAIN owners
    PROVE  IF g \in DOMAIN owners'
           THEN /\ owners'[g].owner_shard = owners[g].owner_shard
                /\ owners'[g].packets >= owners[g].packets
                /\ owners'[g].bytes >= owners[g].bytes
                /\ owners[g].striped => owners'[g].striped
           ELSE DOMAIN owners' \ DOMAIN owners # {}
<1>1. owners[g] \in OwnerType
  BY DEF IInv, TypeOK
<1>2. /\ owners[g].packets \in Nat /\ owners[g].bytes \in Nat
      /\ \A size \in Sizes : size \in Nat
  BY <1>1, CoordinatorAssumption DEF OwnerType
<1>3. ASSUME NEW size \in Sizes, NEW f \in Flows, RouteFlow(f, size)
      PROVE  IF g \in DOMAIN owners'
             THEN /\ owners'[g].owner_shard = owners[g].owner_shard
                  /\ owners'[g].packets >= owners[g].packets
                  /\ owners'[g].bytes >= owners[g].bytes
                  /\ owners[g].striped => owners'[g].striped
             ELSE DOMAIN owners' \ DOMAIN owners # {}
  <2> DEFINE t == WithEntry(f)
             striped == t.owners[f].striped \/ ShouldStripeFlow(f, t.owners[f])
  <2>1. owners' = [t.owners EXCEPT ![f].striped = striped,
                                   ![f].packets = @ + 1,
                                   ![f].bytes = @ + size]
    BY <1>3 DEF RouteFlow
  <2>2. /\ f \in DOMAIN t.owners
        /\ t.owners \in [DOMAIN t.owners -> OwnerType]
        /\ \A h \in DOMAIN t.owners \ {f} : h \in DOMAIN owners /\ t.owners[h] = owners[h]
        /\ f \in DOMAIN owners => t.owners[f] = owners[f] /\ DOMAIN t.owners = DOMAIN owners
    BY WithEntryProperties DEF IInv
  <2> HIDE DEF t
  <2>3. DOMAIN owners' = DOMAIN t.owners
    BY <2>1, <2>2
  <2>4. CASE g \notin DOMAIN owners'
    <3>1. f \notin DOMAIN owners /\ f \in DOMAIN owners'
      BY <2>2, <2>3, <2>4
    <3> QED
      BY <2>4, <3>1
  <2>5. CASE g \in DOMAIN owners' /\ g # f
    <3>1. owners'[g] = owners[g]
      <4> HIDE DEF striped
      <4> QED
        BY <2>1, <2>2, <2>3, <2>5
    <3> QED
      BY <1>2, <2>5, <3>1
  <2>6. CASE g = f
    <3>1. t.owners[f] = owners[g] /\ f \in DOMAIN owners'
      BY <2>2, <2>3, <2>6
    <3>2. owners[g].striped => striped
      BY <3>1
    <3> HIDE DEF striped
    <3>3. /\ owners'[f].owner_shard = owners[g].owner_shard
          /\ owners'[f].packets = owners[g].packets + 1
          /\ owners'[f].bytes = owners[g].bytes + size
          /\ owners'[f].striped = striped
      BY <1>1, <2>1, <2>2, <3>1 DEF OwnerType
    <3> QED
      BY <1>2, <2>6, <3>1, <3>2, <3>3
  <2> QED
    BY <2>4, <2>5, <2>6
<1>4. CASE UNCHANGED owners
  BY <1>2, <1>4
<1>5. [Next]_vars => UNCHANGED owners \/ \E size \in Sizes, f \in Flows : RouteFlow(f, size)
  BY DEF Next, RouteFallback, RouteDump, RouteSingleShard, vars, table
<1> QED
  BY <1>3, <1>4, <1>5

-----------------------------------------------------------------------------
(* Striping *)

\* The packets of a striped flow stay among its candidates.
StripesFit ==
    \A f \in DOMAIN owners :
        owners[f].striped =>
            /\ f \in UdpFlows
            /\ owners[f].packets > MinPackets \/ owners[f].bytes >= MinBytes
            /\ visited[f] \subseteq ElephantStripeCandidates(f, owners[f].owner_shard)

\* The least of a set of numbers.
LEMMA LeastNumber ==
    ASSUME NEW S \in SUBSET Nat, S # {}
    PROVE  Min(S) \in S /\ \A n \in S : Min(S) <= n
BY LeastElement DEF Min

\* The salts tried until there are n shards find at most one shard at a time.
LEMMA PrefixGrowsByOne ==
    ASSUME NEW f \in Flows, NEW owner, NEW n \in Nat \ {0}
    PROVE  \E s : /\ StripePrefix(f, owner, n) \subseteq StripePrefix(f, owner, n - 1) \cup {s}
<1> WITNESS ShardForHash(StripeHash[f][n])
<1>1. DOMAIN StripeHash[f] \subseteq Nat
  BY CoordinatorAssumption, LenProperties
<1>2. \A k \in DOMAIN StripeHash[f] : k <= n => k <= n - 1 \/ k = n
  BY <1>1
<1> QED
  BY <1>2 DEF StripePrefix

\* A flow has no more candidates than MaxStripes, nor than there are shards.
LEMMA FewCandidates ==
    ASSUME shardCount \in Nat \ {0}, MaxStripes > 0, NEW f \in Flows, NEW owner \in Shards
    PROVE  LET c == ElephantStripeCandidates(f, owner)
           IN  IsFiniteSet(c) /\ Cardinality(c) <= MaxStripes
<1> DEFINE c == ElephantStripeCandidates(f, owner)
           size(n) == Cardinality(StripePrefix(f, owner, n))
           len == Len(StripeHash[f])
           enough == {n \in 0 .. len : size(n) >= MaxStripes}
<1>1. IsFiniteSet(Shards) /\ Cardinality(Shards) = shardCount
  BY FS_Interval DEF Shards
<1>2. \A n : /\ StripePrefix(f, owner, n) \subseteq Shards
             /\ IsFiniteSet(StripePrefix(f, owner, n)) /\ size(n) \in Nat
  <2>1. \A n : StripePrefix(f, owner, n) \subseteq Shards
    BY PrefixOfShards
  <2> QED
    BY <1>1, <2>1, FS_Subset, FS_CardinalityType
<1>3. MaxStripes \in Nat /\ len \in Nat
  BY CoordinatorAssumption, LenProperties
<1>4. CASE MaxStripes >= shardCount
  BY <1>1, <1>4 DEF ElephantStripeCandidates
<1>5. CASE MaxStripes < shardCount
  <2>1. c = StripePrefix(f, owner, IF enough = {} THEN len ELSE Min(enough))
    BY <1>3, <1>5 DEF ElephantStripeCandidates
  <2>2. CASE enough = {}
    <3>1. len \in 0 .. len /\ len \notin enough
      BY <1>3, <2>2
    <3>2. size(len) < MaxStripes
      BY <1>2, <1>3, <3>1
    <3> QED
      BY <1>2, <1>3, <2>1, <2>2, <3>2
  <2>3. CASE enough # {}
    <3> DEFINE n == Min(enough)
    <3>1. n \in enough /\ \A k \in enough : n <= k
      <4>1. enough \subseteq Nat
        BY <1>3
      <4> HIDE DEF enough
      <4> QED
        BY <2>3, <4>1, LeastNumber
    <3> HIDE DEF n
    <3>2. n \in 0 .. len /\ size(n) >= MaxStripes
      BY <3>1
    <3>3. CASE n = 0
      <4>1. StripePrefix(f, owner, 0) = {owner}
        <5>1. {k \in DOMAIN StripeHash[f] : k <= 0} = {}
          BY CoordinatorAssumption, LenProperties
        <5> QED
          BY <5>1 DEF StripePrefix
      <4>2. size(0) = 1
        BY <4>1, FS_Singleton
      <4> QED
        BY <1>2, <1>3, <2>1, <2>3, <3>2, <3>3, <4>2 DEF n
    <3>4. CASE n # 0
      <4>1. n \in Nat \ {0} /\ n - 1 \in 0 .. len /\ n - 1 < n
        BY <1>3, <3>2, <3>4
      <4>2. n - 1 \notin enough
        BY <3>1, <3>2, <4>1
      <4>3. size(n - 1) < MaxStripes
        BY <1>2, <1>3, <4>1, <4>2
      <4>4. PICK s : StripePrefix(f, owner, n) \subseteq StripePrefix(f, owner, n - 1) \cup {s}
        BY <4>1, PrefixGrowsByOne
      <4>5. /\ IsFiniteSet(StripePrefix(f, owner, n - 1) \cup {s})
            /\ Cardinality(StripePrefix(f, owner, n - 1) \cup {s}) <= size(n - 1) + 1
        BY <1>2, FS_AddElement
      <4>6. /\ Cardinality(StripePrefix(f, owner, n - 1) \cup {s}) \in Nat
            /\ size(n) <= Cardinality(StripePrefix(f, owner, n - 1) \cup {s})
        BY <4>4, <4>5, FS_Subset, FS_CardinalityType
      <4>7. size(n) <= MaxStripes
        BY <1>2, <1>3, <4>3, <4>5, <4>6
      <4> QED
        BY <1>2, <2>1, <2>3, <4>7 DEF n
    <3> QED
      BY <3>3, <3>4
  <2> QED
    BY <2>2, <2>3
<1> QED
  BY <1>3, <1>4, <1>5

\* The invariant bounds the shards of a striped flow.
LEMMA StripesFitConfines == IInv /\ StripesFit => StripingIsConfined
<1> SUFFICES ASSUME IInv, StripesFit, NEW f \in DOMAIN owners, owners[f].striped, MaxStripes > 0
             PROVE  Cardinality(visited[f]) <= MaxStripes
  BY DEF StripingIsConfined, StripesFit
<1> DEFINE c == ElephantStripeCandidates(f, owners[f].owner_shard)
<1>1. shardCount \in Nat \ {0} /\ f \in Flows /\ owners[f].owner_shard \in Shards
  BY CoordinatorAssumption DEF IInv, TypeOK, OwnerType
<1>2. IsFiniteSet(c) /\ Cardinality(c) <= MaxStripes
  BY <1>1, FewCandidates
<1>3. visited[f] \subseteq c
  BY DEF StripesFit
<1> HIDE DEF c
<1>4. Cardinality(visited[f]) <= Cardinality(c) /\ Cardinality(visited[f]) \in Nat /\ Cardinality(c) \in Nat
  BY <1>2, <1>3, FS_Subset, FS_CardinalityType
<1> QED
  BY <1>2, <1>4, CoordinatorAssumption

\* Every step keeps the packets of a striped flow among its candidates.
LEMMA NextStripesFit == IInv /\ StripesFit /\ [Next]_vars => StripesFit'
<1> SUFFICES ASSUME IInv, StripesFit, [Next]_vars
             PROVE  StripesFit'
  OBVIOUS
<1>1. shardCount' = shardCount
  BY DEF Next, RouteFlow, RouteFallback, RouteDump, RouteSingleShard, TakeSequence, vars, config
<1>2. \A g, o : ElephantStripeCandidates(g, o)' = ElephantStripeCandidates(g, o)
  BY <1>1 DEF ElephantStripeCandidates, StripePrefix, ShardForHash, Shards
<1>3. ASSUME NEW size \in Sizes, NEW f \in Flows, RouteFlow(f, size)
      PROVE  StripesFit'
  <2> DEFINE t == WithEntry(f)
             owner == t.owners[f]
             striped == owner.striped \/ ShouldStripeFlow(f, owner)
  <2>1. PICK shard \in IF striped THEN StripedShards(f, owner.owner_shard) ELSE {owner.owner_shard} :
           /\ owners' = [t.owners EXCEPT ![f].striped = striped,
                                         ![f].packets = @ + 1,
                                         ![f].bytes = @ + size]
           /\ Visit(f, shard, f \notin DOMAIN owners)
    BY <1>3 DEF RouteFlow
  <2>2. /\ f \in DOMAIN t.owners /\ t.owners \in [DOMAIN t.owners -> OwnerType]
        /\ \A g \in DOMAIN t.owners \ {f} : g \in DOMAIN owners /\ t.owners[g] = owners[g]
        /\ f \in DOMAIN owners => t.owners[f] = owners[f]
        /\ f \notin DOMAIN owners => t.owners[f].striped = FALSE
        /\ DOMAIN t.owners \subseteq Flows
    BY WithEntryProperties DEF IInv
  <2> HIDE DEF t
  <2>3. owner \in OwnerType
    BY <2>2
  <2>4. size \in Nat /\ MinPackets \in Nat /\ MinBytes \in Nat
    BY CoordinatorAssumption
  <2>5. visited \in [Flows -> SUBSET Shards]
    BY DEF IInv, TypeOK
  <2>6. visited' = [visited EXCEPT ![f] = (IF f \notin DOMAIN owners THEN {} ELSE visited[f]) \cup {shard}]
    BY <2>1 DEF Visit
  <2>7. SUFFICES ASSUME NEW g \in DOMAIN owners', owners'[g].striped
                 PROVE  /\ g \in UdpFlows
                        /\ owners'[g].packets > MinPackets \/ owners'[g].bytes >= MinBytes
                        /\ visited'[g] \subseteq ElephantStripeCandidates(g, owners'[g].owner_shard)
    BY <1>2 DEF StripesFit
  <2>8. CASE g # f
    <3>1. g \in DOMAIN owners /\ owners'[g] = owners[g] /\ visited'[g] = visited[g]
      <4> HIDE DEF striped
      <4>1. g \in DOMAIN t.owners /\ owners'[g] = t.owners[g]
        BY <2>1, <2>2, <2>8
      <4> QED
        BY <2>2, <2>5, <2>6, <2>8, <4>1
    <3> QED
      BY <2>7, <3>1 DEF StripesFit
  <2>9. CASE g = f
    <3>1. /\ owners'[f].striped = striped
          /\ owners'[f].packets = owner.packets + 1
          /\ owners'[f].bytes = owner.bytes + size
          /\ owners'[f].owner_shard = owner.owner_shard
      <4> HIDE DEF striped
      <4> QED
        BY <2>1, <2>2, <2>3 DEF OwnerType
    <3>2. owner.packets \in Nat /\ owner.bytes \in Nat
      BY <2>3 DEF OwnerType
    <3>3. striped
      BY <2>7, <2>9, <3>1
    <3>4. shard \in ElephantStripeCandidates(f, owner.owner_shard)
      BY <2>1, <3>3 DEF StripedShards
    <3>5. visited'[f] = (IF f \notin DOMAIN owners THEN {} ELSE visited[f]) \cup {shard}
      BY <2>5, <2>6
    <3>6. CASE owner.striped
      <4>1. f \in DOMAIN owners /\ owner = owners[f]
        BY <2>2, <3>6
      <4>2. /\ f \in UdpFlows
            /\ owner.packets > MinPackets \/ owner.bytes >= MinBytes
            /\ visited[f] \subseteq ElephantStripeCandidates(f, owner.owner_shard)
        BY <3>6, <4>1 DEF StripesFit
      <4> QED
        BY <2>4, <2>9, <3>1, <3>2, <3>4, <3>5, <4>2
    <3>7. CASE ~ owner.striped
      <4>1. /\ f \in UdpFlows
            /\ owner.packets >= MinPackets \/ owner.bytes >= MinBytes
        BY <3>3, <3>7 DEF ShouldStripeFlow
      <4>2. f \in DOMAIN owners => visited[f] = {owner.owner_shard}
        BY <2>2, <3>7 DEF IInv, TrackedFlowHasOneShard
      <4>3. owner.owner_shard \in ElephantStripeCandidates(f, owner.owner_shard)
        <5>1. owner.owner_shard \in Shards
          BY <2>3 DEF OwnerType
        <5> QED
          BY <5>1 DEF ElephantStripeCandidates, StripePrefix
      <4> QED
        BY <2>4, <2>9, <3>1, <3>2, <3>4, <3>5, <4>1, <4>2, <4>3
    <3> QED
      BY <3>6, <3>7
  <2> QED
    BY <2>8, <2>9
<1>4. CASE UNCHANGED <<owners, visited>>
  BY <1>2, <1>4 DEF StripesFit
<1>5. [Next]_vars => UNCHANGED <<owners, visited>> \/ \E size \in Sizes, f \in Flows : RouteFlow(f, size)
  BY DEF Next, RouteFallback, RouteDump, RouteSingleShard, vars, table
<1> QED
  BY <1>3, <1>4, <1>5

-----------------------------------------------------------------------------
(* Load metrics *)

\* A sequence without duplicates has as many members as its length.
LEMMA QueueSize ==
    ASSUME NEW S, NEW queue \in Seq(S),
           \A i, j \in 1 .. Len(queue) : queue[i] = queue[j] => i = j
    PROVE  IsFiniteSet(Range(queue)) /\ Cardinality(Range(queue)) = Len(queue)
<1>1. Len(queue) \in Nat /\ DOMAIN queue = 1 .. Len(queue)
  BY LenProperties
<1> DEFINE b == [i \in 1 .. Len(queue) |-> queue[i]]
<1>2. b \in Bijection(1 .. Len(queue), Range(queue))
  BY <1>1 DEF Bijection, Injection, IsInjective, Surjection, Range
<1>3. ExistsBijection(1 .. Len(queue), Range(queue))
  BY <1>2 DEF ExistsBijection
<1> QED
  BY <1>1, <1>3, FS_CountingElements, FS_NatBijection

\* The kinds of counters a packet increments: one kind, and a reason with a fallback.
OneKind(counted) ==
    /\ \E k \in Kinds : counted \cap Kinds = {k}
    /\ IF "fallback" \in counted THEN \E r \in Reasons : counted \cap Reasons = {r}
       ELSE counted \cap Reasons = {}
    /\ "striped" \in counted => "flow_routed" \in counted

\* One set of counters counts each packet under one kind.
Balanced(l) ==
    /\ l.packets = SumFunctionOnSet(l.count, Kinds)
    /\ l.count["fallback"] = SumFunctionOnSet(l.count, Reasons)
    /\ l.count["striped"] <= l.count["flow_routed"]

\* The totals are the sums of the loads.
LoadsBalance(sum, loads) ==
    /\ sum.packets = SumFunction([s \in DOMAIN loads |-> loads[s].packets])
    /\ sum.bytes = SumFunction([s \in DOMAIN loads |-> loads[s].bytes])
    /\ \A c \in Counters : sum.count[c] = SumFunction([s \in DOMAIN loads |-> loads[s].count[c]])

Seen(visits) == {f \in Flows : visits[f] # {}}

\* The loads of hot flows against the loads of the shards.
HotFlowsBalance(flows, loads, seen) ==
    /\ IsFiniteSet(seen) /\ DOMAIN flows \subseteq seen
    /\ \A s \in DOMAIN loads :
        LET sent == SumFunction([f \in DOMAIN flows |-> flows[f].shards[s].packets])
            bytes == SumFunction([f \in DOMAIN flows |-> flows[f].shards[s].bytes])
        IN  /\ sent <= loads[s].count["flow_routed"] /\ bytes <= loads[s].bytes
            /\ Cardinality(seen) <= MaxTrackedFlows =>
                    seen = DOMAIN flows /\ sent = loads[s].count["flow_routed"]

MInv ==
    /\ totals.packets = nextSequence
    /\ LoadsBalance(totals, load)
    /\ Balanced(totals) /\ \A s \in Shards : Balanced(load[s])
    /\ HotFlowsBalance(flowLoads, load, Seen(everVisited))

\* Incrementing one of several counters increments their sum, and others do not.
LEMMA SumCounts ==
    ASSUME NEW S, IsFiniteSet(S), NEW old, NEW new, NEW counted,
           \A c \in S : old[c] \in Nat /\ new[c] = old[c] + (IF c \in counted THEN 1 ELSE 0)
    PROVE  /\ counted \cap S = {} => SumFunctionOnSet(new, S) = SumFunctionOnSet(old, S)
           /\ \A k : counted \cap S = {k} =>
                        SumFunctionOnSet(new, S) = SumFunctionOnSet(old, S) + 1
<1>1. CASE counted \cap S = {}
  <2>1. \A c \in S : new[c] = old[c]
    BY <1>1
  <2>2. \A k : counted \cap S # {k}
    BY <1>1
  <2> QED
    BY <2>1, <2>2, SumOfSame
<1>2. ASSUME NEW k, counted \cap S = {k}
      PROVE  SumFunctionOnSet(new, S) = SumFunctionOnSet(old, S) + 1
  <2>1. k \in S /\ new[k] = old[k] + 1 /\ \A c \in S \ {k} : new[c] = old[c]
    BY <1>2
  <2>2. \A c \in S : new[c] \in Nat /\ old[c] \in Nat
    OBVIOUS
  <2>3. SumFunctionOnSet(old, S) + new[k] = SumFunctionOnSet(new, S) + old[k]
    BY <2>1, <2>2, SumChanges
  <2>4. SumFunctionOnSet(old, S) \in Nat /\ SumFunctionOnSet(new, S) \in Nat
    BY <2>2, SumIsNumber
  <2> QED
    BY <2>1, <2>2, <2>3, <2>4
<1> QED
  BY <1>1, <1>2

\* The two sets of counters are finite.
LEMMA FewCounters == IsFiniteSet(Kinds) /\ IsFiniteSet(Reasons)
<1>1. Kinds = ((({} \cup {"flow_routed"}) \cup {"fallback"}) \cup {"dump"}) \cup {"single_shard"}
  BY DEF Kinds
<1>2. Reasons = (((({} \cup {"UnsupportedLink"}) \cup {"NonIp"}) \cup {"Malformed"})
                \cup {"Fragmented"}) \cup {"UnsupportedTransport"}
  BY DEF Reasons
<1>3. \A S, x : IsFiniteSet(S) => IsFiniteSet(S \cup {x})
  BY FS_AddElement
<1>4. IsFiniteSet({})
  BY FS_EmptySet
<1> QED
  BY <1>1, <1>2, <1>3, <1>4

\* Counting a packet keeps the counters of one load in balance.
LEMMA ObservedBalanced ==
    ASSUME NEW l \in LoadType, Balanced(l), NEW counted, OneKind(counted), NEW size \in Nat
    PROVE  Balanced(Observed(l, counted, size))
<1> DEFINE o == Observed(l, counted, size)
<1>1. /\ l.packets \in Nat /\ \A c \in Counters : l.count[c] \in Nat
      /\ o.packets = l.packets + 1
      /\ \A c \in Counters : o.count[c] = l.count[c] + (IF c \in counted THEN 1 ELSE 0)
  BY DEF LoadType, Observed
<1>2. Kinds \subseteq Counters /\ Reasons \subseteq Counters
      /\ "fallback" \in Counters /\ "striped" \in Counters /\ "flow_routed" \in Counters
  BY DEF Counters, Kinds
<1> DEFINE old == l.count
           new == o.count
<1>3. \A c \in Counters : old[c] \in Nat /\ new[c] = old[c] + (IF c \in counted THEN 1 ELSE 0)
  BY <1>1
<1> HIDE DEF o, old, new
<1>4. SumFunctionOnSet(new, Kinds) = SumFunctionOnSet(old, Kinds) + 1
  <2>1. /\ IsFiniteSet(Kinds)
        /\ \A c \in Kinds : old[c] \in Nat /\ new[c] = old[c] + (IF c \in counted THEN 1 ELSE 0)
    BY <1>2, <1>3, FewCounters
  <2>2. \A k : counted \cap Kinds = {k} =>
                SumFunctionOnSet(new, Kinds) = SumFunctionOnSet(old, Kinds) + 1
    BY <2>1, SumCounts
  <2>3. \E k \in Kinds : counted \cap Kinds = {k}
    BY DEF OneKind
  <2> QED
    BY <2>2, <2>3, Zenon
<1>5. SumFunctionOnSet(new, Reasons)
        = SumFunctionOnSet(old, Reasons) + (IF "fallback" \in counted THEN 1 ELSE 0)
  <2>1. SumFunctionOnSet(old, Reasons) \in Nat
    BY <1>2, <1>3, FewCounters, SumIsNumber
  <2>2. /\ IsFiniteSet(Reasons)
        /\ \A c \in Reasons : old[c] \in Nat /\ new[c] = old[c] + (IF c \in counted THEN 1 ELSE 0)
    BY <1>2, <1>3, FewCounters
  <2>3. /\ counted \cap Reasons = {} =>
                SumFunctionOnSet(new, Reasons) = SumFunctionOnSet(old, Reasons)
        /\ \A k : counted \cap Reasons = {k} =>
                SumFunctionOnSet(new, Reasons) = SumFunctionOnSet(old, Reasons) + 1
    BY <2>2, SumCounts
  <2>4. IF "fallback" \in counted THEN \E r \in Reasons : counted \cap Reasons = {r}
        ELSE counted \cap Reasons = {}
    BY DEF OneKind
  <2> QED
    BY <2>1, <2>3, <2>4
<1>6. /\ l.packets = SumFunctionOnSet(old, Kinds)
      /\ old["fallback"] = SumFunctionOnSet(old, Reasons)
      /\ old["striped"] <= old["flow_routed"]
  BY DEF Balanced, old
<1>7. /\ o.packets = SumFunctionOnSet(new, Kinds)
      /\ new["fallback"] = SumFunctionOnSet(new, Reasons)
  BY <1>1, <1>2, <1>3, <1>4, <1>5, <1>6
<1>8. new["striped"] <= new["flow_routed"]
  BY <1>2, <1>3, <1>6 DEF OneKind
<1> QED
  BY <1>7, <1>8 DEF Balanced, o, new

\* Adding to one value of a function on a finite set adds to its sum.
LEMMA SumGrows ==
    ASSUME NEW S, IsFiniteSet(S), NEW fn, NEW hn, DOMAIN fn = S, DOMAIN hn = S,
           \A y \in S : fn[y] \in Nat, NEW x \in S, NEW d \in Nat, hn[x] = fn[x] + d,
           \A y \in S \ {x} : hn[y] = fn[y]
    PROVE  SumFunction(hn) = SumFunction(fn) + d
<1>1. \A y \in S : fn[y] \in Nat /\ hn[y] \in Nat
  OBVIOUS
<1>2. SumFunctionOnSet(fn, S) + hn[x] = SumFunctionOnSet(hn, S) + fn[x]
  BY <1>1, SumChanges
<1>3. SumFunctionOnSet(fn, S) \in Nat /\ SumFunctionOnSet(hn, S) \in Nat
  BY <1>1, SumIsNumber
<1> QED
  BY <1>1, <1>2, <1>3 DEF SumFunction

\* Counting a packet in the totals and on one shard keeps them in balance.
LEMMA ObservedLoads ==
    ASSUME NEW S, IsFiniteSet(S), NEW sum \in LoadType, NEW loads \in [S -> LoadType],
           LoadsBalance(sum, loads), NEW shard \in S, NEW counted, NEW size \in Nat
    PROVE  LoadsBalance(Observed(sum, counted, size),
                        [loads EXCEPT ![shard] = Observed(@, counted, size)])
<1> DEFINE new == [loads EXCEPT ![shard] = Observed(@, counted, size)]
           o == Observed(sum, counted, size)
           add(c) == IF c \in counted THEN 1 ELSE 0
<1>1. /\ DOMAIN new = S /\ new[shard] = Observed(loads[shard], counted, size)
      /\ \A s \in S \ {shard} : new[s] = loads[s]
  OBVIOUS
<1>2. /\ \A s \in S : /\ loads[s].packets \in Nat /\ loads[s].bytes \in Nat
                      /\ \A c \in Counters : loads[s].count[c] \in Nat
      /\ DOMAIN loads = S
  BY DEF LoadType
<1> DEFINE k == Observed(loads[shard], counted, size)
<1>3. /\ k.packets = loads[shard].packets + 1 /\ k.bytes = loads[shard].bytes + size
      /\ \A c \in Counters : k.count[c] = loads[shard].count[c] + add(c)
      /\ o.packets = sum.packets + 1 /\ o.bytes = sum.bytes + size
      /\ \A c \in Counters : o.count[c] = sum.count[c] + add(c)
  BY DEF Observed
<1>4. \A c : add(c) \in Nat
  OBVIOUS
<1> HIDE DEF new, o, k, add
<1>5. new[shard] = k
  BY <1>1 DEF k
<1>6. SumFunction([s \in S |-> new[s].packets]) = SumFunction([s \in S |-> loads[s].packets]) + 1
  <2> DEFINE fn == [s \in S |-> loads[s].packets]
             hn == [s \in S |-> new[s].packets]
  <2>1. /\ DOMAIN fn = S /\ DOMAIN hn = S /\ \A y \in S : fn[y] \in Nat
        /\ hn[shard] = fn[shard] + 1 /\ \A y \in S \ {shard} : hn[y] = fn[y]
    BY <1>1, <1>2, <1>3, <1>5
  <2> HIDE DEF fn, hn
  <2>2. SumFunction(hn) = SumFunction(fn) + 1
    BY <2>1, SumGrows
  <2> QED
    BY <2>2 DEF fn, hn
<1>7. SumFunction([s \in S |-> new[s].bytes]) = SumFunction([s \in S |-> loads[s].bytes]) + size
  <2> DEFINE fn == [s \in S |-> loads[s].bytes]
             hn == [s \in S |-> new[s].bytes]
  <2>1. /\ DOMAIN fn = S /\ DOMAIN hn = S /\ \A y \in S : fn[y] \in Nat
        /\ hn[shard] = fn[shard] + size /\ \A y \in S \ {shard} : hn[y] = fn[y]
    BY <1>1, <1>2, <1>3, <1>5
  <2> HIDE DEF fn, hn
  <2>2. SumFunction(hn) = SumFunction(fn) + size
    BY <2>1, SumGrows
  <2> QED
    BY <2>2 DEF fn, hn
<1>8. ASSUME NEW c \in Counters
      PROVE  SumFunction([s \in S |-> new[s].count[c]])
                = SumFunction([s \in S |-> loads[s].count[c]]) + add(c)
  <2> DEFINE fn == [s \in S |-> loads[s].count[c]]
             hn == [s \in S |-> new[s].count[c]]
  <2>1. /\ DOMAIN fn = S /\ DOMAIN hn = S /\ \A y \in S : fn[y] \in Nat
        /\ hn[shard] = fn[shard] + add(c) /\ \A y \in S \ {shard} : hn[y] = fn[y]
    BY <1>1, <1>2, <1>3, <1>5
  <2> HIDE DEF fn, hn
  <2>2. SumFunction(hn) = SumFunction(fn) + add(c)
    BY <1>4, <2>1, SumGrows
  <2> QED
    BY <2>2 DEF fn, hn
<1>9. /\ sum.packets = SumFunction([s \in S |-> loads[s].packets])
      /\ sum.bytes = SumFunction([s \in S |-> loads[s].bytes])
      /\ \A c \in Counters : sum.count[c] = SumFunction([s \in S |-> loads[s].count[c]])
  BY <1>2 DEF LoadsBalance
<1>10. /\ o.packets = SumFunction([s \in S |-> new[s].packets])
       /\ o.bytes = SumFunction([s \in S |-> new[s].bytes])
       /\ \A c \in Counters : o.count[c] = SumFunction([s \in S |-> new[s].count[c]])
  <2>1. o.packets = SumFunction([s \in S |-> new[s].packets])
    BY <1>3, <1>6, <1>9, Zenon
  <2>2. o.bytes = SumFunction([s \in S |-> new[s].bytes])
    BY <1>3, <1>7, <1>9, Zenon
  <2>3. ASSUME NEW c \in Counters
        PROVE  o.count[c] = SumFunction([s \in S |-> new[s].count[c]])
    BY <1>3, <1>8, <1>9, Zenon
  <2> QED
    BY <2>1, <2>2, <2>3
<1>11. LoadsBalance(o, new)
  BY <1>1, <1>10 DEF LoadsBalance
<1> QED
  BY <1>11 DEF o, new

\* The loads after a packet of f for shard: K are the flows whose load is kept.
Credited(flows, loads, newFlows, newLoads, K, f, shard, size) ==
    LET D == DOMAIN flows
        S == DOMAIN loads
    IN  /\ K \subseteq D /\ shard \in S /\ size \in Nat
        /\ DOMAIN newLoads = S /\ DOMAIN newFlows = K \cup {f}
        /\ \A g \in D : \A s \in S : /\ flows[g].shards[s].packets \in Nat
                                     /\ flows[g].shards[s].bytes \in Nat
        /\ \A s \in S : loads[s].count["flow_routed"] \in Nat /\ loads[s].bytes \in Nat
        /\ \A g \in K \ {f} : newFlows[g] = flows[g]
        /\ \A s \in S : LET hit == IF s = shard THEN 1 ELSE 0
                        IN  /\ newFlows[f].shards[s].packets
                                 = (IF f \in D THEN flows[f].shards[s].packets ELSE 0) + hit
                            /\ newFlows[f].shards[s].bytes
                                 = (IF f \in D THEN flows[f].shards[s].bytes ELSE 0) + size * hit
                            /\ newLoads[s].count["flow_routed"] = loads[s].count["flow_routed"] + hit
                            /\ newLoads[s].bytes = loads[s].bytes + size * hit
        /\ f \in D => K = D
        /\ f \notin D /\ Cardinality(D) < MaxTrackedFlows => K = D

\* new has the values of old on K, and d added to that of f.
Raised(D, K, f, d, old, new) ==
    /\ K \subseteq D /\ (f \in D => K = D) /\ d \in Nat
    /\ DOMAIN old = D /\ DOMAIN new = K \cup {f}
    /\ \A g \in D : old[g] \in Nat
    /\ \A g \in K \ {f} : new[g] = old[g]
    /\ new[f] = (IF f \in D THEN old[f] ELSE 0) + d

\* The sum over the flows whose load is kept and f grows by no more than d.
LEMMA SumRaised ==
    ASSUME NEW D, NEW K, NEW f, NEW d, NEW old, NEW new,
           Raised(D, K, f, d, old, new), IsFiniteSet(D)
    PROVE  /\ SumFunction(old) \in Nat /\ SumFunction(new) \in Nat
           /\ SumFunction(new) <= SumFunction(old) + d
           /\ K = D => SumFunction(new) = SumFunction(old) + d
<1> DEFINE U == K \cup {f}
<1> SUFFICES ASSUME K \in SUBSET D, f \in D => K = D, d \in Nat, DOMAIN old = D, DOMAIN new = U,
                    \A g \in D : old[g] \in Nat, \A g \in K \ {f} : new[g] = old[g],
                    new[f] = (IF f \in D THEN old[f] ELSE 0) + d
             PROVE  /\ SumFunction(old) \in Nat /\ SumFunction(new) \in Nat
                    /\ SumFunction(new) <= SumFunction(old) + d
                    /\ K = D => SumFunction(new) = SumFunction(old) + d
  BY DEF Raised
<1>1. U = K \cup {f}
  OBVIOUS
<1> HIDE DEF U
<1>2. IsFiniteSet(K \ {f}) /\ IsFiniteSet(U)
  <2>1. K \ {f} \in SUBSET D /\ U = (K \ {f}) \cup {f}
    BY <1>1
  <2>2. IsFiniteSet(K \ {f})
    BY <2>1, FS_Subset
  <2>3. IsFiniteSet((K \ {f}) \cup {f})
    BY <2>2, FS_AddElement
  <2> QED
    BY <2>1, <2>2, <2>3, Zenon
<1> DEFINE rest == SumFunctionOnSet(old, K \ {f})
<1>3. \A g \in U : new[g] \in Nat
  BY <1>1
<1>4. SumFunction(old) \in Nat /\ SumFunction(new) \in Nat
  BY <1>2, <1>3, SumIsNumber DEF SumFunction
<1>5. rest = SumFunctionOnSet(new, K \ {f}) /\ rest \in Nat
  <2>1. \A g \in K \ {f} : old[g] \in Nat /\ old[g] = new[g]
    OBVIOUS
  <2> QED
    BY <1>2, <2>1, SumOfSame, SumIsNumber
<1>6. SumFunction(new) = new[f] + rest
  <2>1. U \ {f} = K \ {f} /\ f \in U
    BY <1>1
  <2>2. SumFunctionOnSet(new, U) = new[f] + SumFunctionOnSet(new, U \ {f})
    BY <1>2, <1>3, <2>1, SumSplits
  <2> QED
    BY <1>5, <2>1, <2>2 DEF SumFunction
<1>7. CASE f \in D
  <2>1. K = D /\ old[f] \in Nat
    BY <1>7
  <2>2. SumFunctionOnSet(old, D) = old[f] + SumFunctionOnSet(old, D \ {f})
    BY <1>2, <1>7, SumSplits
  <2>3. SumFunction(old) = old[f] + rest
    BY <2>1, <2>2 DEF SumFunction
  <2> HIDE DEF rest
  <2>4. SumFunction(new) = SumFunction(old) + d
    BY <1>5, <1>6, <1>7, <2>1, <2>3
  <2> QED
    BY <1>4, <2>4
<1>8. CASE f \notin D
  <2>1. K \ {f} = K /\ new[f] = d
    BY <1>8
  <2>2. rest <= SumFunction(old) /\ (K = D => rest = SumFunction(old))
    <3>1. SumFunctionOnSet(old, K) <= SumFunctionOnSet(old, D)
      BY <1>2, SumOfFewer
    <3>2. rest = SumFunctionOnSet(old, K) /\ SumFunction(old) = SumFunctionOnSet(old, D)
      BY <2>1, Zenon DEF SumFunction
    <3>3. K = D => rest = SumFunction(old)
      BY <3>2, Zenon
    <3> HIDE DEF rest
    <3>4. rest <= SumFunction(old)
      BY <3>1, <3>2
    <3> QED
      BY <3>3, <3>4
  <2> HIDE DEF rest
  <2> QED
    BY <1>4, <1>5, <1>6, <2>1, <2>2
<1> QED
  BY <1>4, <1>7, <1>8

\* A packet of a flow that has a load, or gets one in place of the oldest, keeps the
\* loads of the hot flows in balance with those of the shards.
LEMMA CreditedFlows ==
    ASSUME NEW flows, NEW loads, NEW newFlows, NEW newLoads, NEW seen,
           NEW K, NEW f, NEW shard, NEW size,
           Credited(flows, loads, newFlows, newLoads, K, f, shard, size),
           HotFlowsBalance(flows, loads, seen)
    PROVE  HotFlowsBalance(newFlows, newLoads, seen \cup {f})
<1> DEFINE D == DOMAIN flows
           S == DOMAIN loads
<1> SUFFICES ASSUME K \in SUBSET D, shard \in S, size \in Nat,
                    DOMAIN newLoads = S, DOMAIN newFlows = K \cup {f},
                    \A g \in D : \A s \in S : /\ flows[g].shards[s].packets \in Nat
                                              /\ flows[g].shards[s].bytes \in Nat,
                    \A s \in S : loads[s].count["flow_routed"] \in Nat /\ loads[s].bytes \in Nat,
                    \A g \in K \ {f} : newFlows[g] = flows[g],
                    \A s \in S :
                        LET hit == IF s = shard THEN 1 ELSE 0
                        IN  /\ newFlows[f].shards[s].packets
                                 = (IF f \in D THEN flows[f].shards[s].packets ELSE 0) + hit
                            /\ newFlows[f].shards[s].bytes
                                 = (IF f \in D THEN flows[f].shards[s].bytes ELSE 0) + size * hit
                            /\ newLoads[s].count["flow_routed"] = loads[s].count["flow_routed"] + hit
                            /\ newLoads[s].bytes = loads[s].bytes + size * hit,
                    f \in D => K = D,
                    f \notin D /\ Cardinality(D) < MaxTrackedFlows => K = D
             PROVE  HotFlowsBalance(newFlows, newLoads, seen \cup {f})
  BY DEF Credited
<1>0. MaxTrackedFlows \in Nat /\ DOMAIN flows = D /\ DOMAIN loads = S
  BY CoordinatorAssumption
<1> HIDE DEF D, S
<1>1. IsFiniteSet(seen) /\ D \subseteq seen /\ Cardinality(seen) \in Nat
  BY <1>0, FS_CardinalityType DEF HotFlowsBalance
<1>2. IsFiniteSet(D) /\ IsFiniteSet(K \ {f}) /\ IsFiniteSet(K \cup {f})
  <2>1. D \in SUBSET seen /\ K \cup {f} = (K \ {f}) \cup {f} /\ K \ {f} \in SUBSET seen
    BY <1>1
  <2>2. IsFiniteSet(D) /\ IsFiniteSet(K \ {f})
    BY <1>1, <2>1, FS_Subset
  <2> QED
    BY <2>1, <2>2, FS_AddElement
<1>3. /\ IsFiniteSet(seen \cup {f}) /\ K \cup {f} \subseteq seen \cup {f}
      /\ Cardinality(seen \cup {f}) = IF f \in seen THEN Cardinality(seen) ELSE Cardinality(seen) + 1
  BY <1>1, FS_AddElement
<1>4. ASSUME Cardinality(seen \cup {f}) <= MaxTrackedFlows
      PROVE  Cardinality(seen) <= MaxTrackedFlows /\ K = D /\ seen = D
  <2>1. Cardinality(seen) <= MaxTrackedFlows
    BY <1>1, <1>3, <1>4, <1>0
  <2>2. seen = D
    BY <1>0, <2>1 DEF HotFlowsBalance
  <2>3. f \notin D => Cardinality(D) < MaxTrackedFlows
    BY <1>1, <1>3, <1>4, <1>0, <2>2
  <2> QED
    BY <1>0, <2>1, <2>2, <2>3
<1>5. ASSUME NEW s \in S
      PROVE  LET sent == SumFunction([g \in K \cup {f} |-> newFlows[g].shards[s].packets])
                 bytes == SumFunction([g \in K \cup {f} |-> newFlows[g].shards[s].bytes])
             IN  /\ sent <= newLoads[s].count["flow_routed"] /\ bytes <= newLoads[s].bytes
                 /\ Cardinality(seen \cup {f}) <= MaxTrackedFlows =>
                        seen \cup {f} = K \cup {f} /\ sent = newLoads[s].count["flow_routed"]
  <2> DEFINE hit == IF s = shard THEN 1 ELSE 0
             op == [g \in D |-> flows[g].shards[s].packets]
             np == [g \in K \cup {f} |-> newFlows[g].shards[s].packets]
             ob == [g \in D |-> flows[g].shards[s].bytes]
             nb == [g \in K \cup {f} |-> newFlows[g].shards[s].bytes]
             more == size * hit
  <2>1. hit \in Nat /\ more \in Nat
    OBVIOUS
  <2>2. Raised(D, K, f, hit, op, np)
    BY <2>1 DEF Raised
  <2>3. Raised(D, K, f, more, ob, nb)
    BY <2>1 DEF Raised
  <2>4. /\ SumFunction(op) <= loads[s].count["flow_routed"] /\ SumFunction(ob) <= loads[s].bytes
        /\ Cardinality(seen) <= MaxTrackedFlows => SumFunction(op) = loads[s].count["flow_routed"]
    BY <1>0 DEF HotFlowsBalance
  <2>5. /\ newLoads[s].count["flow_routed"] = loads[s].count["flow_routed"] + hit
        /\ newLoads[s].bytes = loads[s].bytes + more
        /\ loads[s].count["flow_routed"] \in Nat /\ loads[s].bytes \in Nat
    OBVIOUS
  <2> HIDE DEF op, np, ob, nb, hit, more
  <2>6. /\ SumFunction(op) \in Nat /\ SumFunction(np) \in Nat
        /\ SumFunction(np) <= SumFunction(op) + hit
        /\ K = D => SumFunction(np) = SumFunction(op) + hit
    BY <1>2, <2>2, SumRaised
  <2>7. /\ SumFunction(ob) \in Nat /\ SumFunction(nb) \in Nat
        /\ SumFunction(nb) <= SumFunction(ob) + more
    BY <1>2, <2>3, SumRaised
  <2>8. SumFunction(nb) <= newLoads[s].bytes
    BY <2>1, <2>4, <2>5, <2>7
  <2>9. SumFunction(np) <= newLoads[s].count["flow_routed"]
    BY <2>1, <2>4, <2>5, <2>6
  <2>10. Cardinality(seen \cup {f}) <= MaxTrackedFlows =>
            seen \cup {f} = K \cup {f} /\ SumFunction(np) = newLoads[s].count["flow_routed"]
    BY <1>4, <2>1, <2>4, <2>5, <2>6
  <2> QED
    BY <2>8, <2>9, <2>10, Zenon DEF np, nb
<1> QED
  BY <1>0, <1>3, <1>5 DEF HotFlowsBalance

\* Before the first packet all counters are 0.
LEMMA InitMInv == Init => MInv
<1> SUFFICES ASSUME Init
             PROVE  MInv
  OBVIOUS
<1>1. shardCount \in Nat \ {0} /\ IsFiniteSet(Shards) /\ DOMAIN load = Shards
  <2>1. shardCount \in Nat \ {0}
    BY CoordinatorAssumption DEF Init
  <2> QED
    BY <2>1, FS_Interval DEF Init, Shards
<1>2. /\ totals = NoLoad /\ nextSequence = 0 /\ \A s \in Shards : load[s] = NoLoad
      /\ NoLoad.packets = 0 /\ NoLoad.bytes = 0 /\ \A c \in Counters : NoLoad.count[c] = 0
  BY DEF Init, NoLoad
<1>3. /\ Kinds \subseteq Counters /\ Reasons \subseteq Counters
      /\ {"fallback", "striped", "flow_routed"} \subseteq Counters
  BY DEF Counters, Kinds
<1>4. Balanced(NoLoad)
  <2>1. SumFunctionOnSet(NoLoad.count, Kinds) = 0 /\ SumFunctionOnSet(NoLoad.count, Reasons) = 0
    BY <1>2, <1>3, FewCounters, SumOfZeros
  <2> QED
    BY <1>2, <1>3, <2>1 DEF Balanced
<1>5. LoadsBalance(totals, load)
  <2>1. ASSUME NEW fn, DOMAIN fn = Shards, \A s \in Shards : fn[s] = 0
        PROVE  SumFunction(fn) = 0
    BY <1>1, <2>1, SumOfZeros DEF SumFunction
  <2>2. SumFunction([s \in Shards |-> load[s].packets]) = 0
    <3> DEFINE fn == [s \in Shards |-> load[s].packets]
    <3>1. DOMAIN fn = Shards /\ \A s \in Shards : fn[s] = 0
      BY <1>2
    <3> HIDE DEF fn
    <3>2. SumFunction(fn) = 0
      BY <2>1, <3>1
    <3> QED
      BY <3>2 DEF fn
  <2>3. SumFunction([s \in Shards |-> load[s].bytes]) = 0
    <3> DEFINE fn == [s \in Shards |-> load[s].bytes]
    <3>1. DOMAIN fn = Shards /\ \A s \in Shards : fn[s] = 0
      BY <1>2
    <3> HIDE DEF fn
    <3>2. SumFunction(fn) = 0
      BY <2>1, <3>1
    <3> QED
      BY <3>2 DEF fn
  <2>4. ASSUME NEW c \in Counters
        PROVE  SumFunction([s \in Shards |-> load[s].count[c]]) = 0
    <3> DEFINE fn == [s \in Shards |-> load[s].count[c]]
    <3>1. DOMAIN fn = Shards /\ \A s \in Shards : fn[s] = 0
      BY <1>2
    <3> HIDE DEF fn
    <3>2. SumFunction(fn) = 0
      BY <2>1, <3>1
    <3> QED
      BY <3>2 DEF fn
  <2> QED
    BY <1>1, <1>2, <2>2, <2>3, <2>4 DEF LoadsBalance
<1>6. HotFlowsBalance(flowLoads, load, Seen(everVisited))
  <2>1. Seen(everVisited) = {} /\ DOMAIN flowLoads = {} /\ IsFiniteSet({})
    BY FS_EmptySet DEF Init, Seen
  <2>2. \A fn : DOMAIN fn = {} => SumFunction(fn) = 0
    BY SumOfNothing DEF SumFunction
  <2>3. ASSUME NEW s \in Shards
        PROVE  /\ SumFunction([f \in DOMAIN flowLoads |-> flowLoads[f].shards[s].packets]) = 0
               /\ SumFunction([f \in DOMAIN flowLoads |-> flowLoads[f].shards[s].bytes]) = 0
    BY <2>1, <2>2
  <2>4. \A s \in Shards : load[s].count["flow_routed"] = 0 /\ load[s].bytes = 0
    BY <1>2, <1>3
  <2> QED
    BY <1>1, <2>1, <2>3, <2>4 DEF HotFlowsBalance
<1> QED
  BY <1>2, <1>4, <1>5, <1>6 DEF MInv

\* Counting a packet keeps the counters of the totals and of the shards in balance.
LEMMA ObserveTotalsBalances ==
    ASSUME IInv, MInv, TakeSequence, NEW shard \in Shards, NEW size \in Nat,
           NEW counted, OneKind(counted), ObserveTotals(shard, counted, size)
    PROVE  /\ totals'.packets = nextSequence' /\ LoadsBalance(totals', load')
           /\ Balanced(totals') /\ \A s \in Shards' : Balanced(load'[s])
<1>1. /\ IsFiniteSet(Shards) /\ totals \in LoadType /\ load \in [Shards -> LoadType]
      /\ Shards' = Shards /\ nextSequence \in Nat /\ shardCount \in Nat
  <2>1. /\ totals \in LoadType /\ load \in [Shards -> LoadType] /\ shardCount \in Nat
        /\ nextSequence \in Nat
    BY CoordinatorAssumption DEF IInv, TypeOK
  <2> QED
    BY <2>1, FS_Interval DEF Shards, TakeSequence, config
<1>2. /\ totals' = Observed(totals, counted, size)
      /\ load' = [load EXCEPT ![shard] = Observed(@, counted, size)]
  BY DEF ObserveTotals
<1>3. /\ totals.packets = nextSequence /\ LoadsBalance(totals, load)
      /\ Balanced(totals) /\ \A s \in Shards : Balanced(load[s])
  BY DEF MInv
<1>4. Observed(totals, counted, size).packets = totals.packets + 1
  BY DEF Observed
<1>5. totals'.packets = nextSequence'
  BY <1>2, <1>3, <1>4 DEF TakeSequence
<1>6. LoadsBalance(totals', load')
  BY <1>1, <1>2, <1>3, ObservedLoads
<1>7. Balanced(totals')
  BY <1>1, <1>2, <1>3, ObservedBalanced
<1>8. ASSUME NEW s \in Shards
      PROVE  Balanced(load'[s])
  <2>1. CASE s = shard
    <3>1. load'[s] = Observed(load[s], counted, size)
      BY <1>1, <1>2, <2>1
    <3>2. Balanced(Observed(load[s], counted, size))
      BY <1>1, <1>3, ObservedBalanced
    <3> QED
      BY <3>1, <3>2
  <2>2. CASE s # shard
    <3>1. load'[s] = load[s]
      BY <1>1, <1>2, <2>2
    <3> QED
      BY <1>3, <3>1
  <2> QED
    BY <2>1, <2>2
<1> QED
  BY <1>1, <1>5, <1>6, <1>7, <1>8

\* A packet of a flow keeps all metrics in balance.
LEMMA RouteFlowBalances ==
    ASSUME IInv, MInv, NEW f \in Flows, NEW size \in Sizes, RouteFlow(f, size)
    PROVE  MInv'
<1> DEFINE t == WithEntry(f)
           owner == t.owners[f]
           striped == owner.striped \/ ShouldStripeFlow(f, owner)
           counted == {"flow_routed"} \cup (IF striped THEN {"striped"} ELSE {})
           known == f \in DOMAIN flowLoads
           kept == Kept(flowOrder, MaxTrackedFlows)
           old == IF known THEN flowLoads[f]
                  ELSE [striped |-> FALSE,
                        shards |-> [s \in Shards |-> [packets |-> 0, bytes |-> 0]]]
<1>1. PICK shard \in IF striped THEN StripedShards(f, owner.owner_shard) ELSE {owner.owner_shard} :
         /\ ObserveTotals(shard, counted, size)
         /\ ObserveFlowLoad(f, shard, size, striped)
         /\ Visit(f, shard, f \notin DOMAIN owners)
  BY DEF RouteFlow
<1>2. TakeSequence
  BY DEF RouteFlow
<1>3. /\ size \in Nat /\ shardCount \in Nat \ {0} /\ MaxTrackedFlows \in Nat \ {0}
      /\ flowOrder \in Seq(Flows) /\ DOMAIN flowLoads = Range(flowOrder)
      /\ \A i, j \in 1 .. Len(flowOrder) : flowOrder[i] = flowOrder[j] => i = j
      /\ Len(flowOrder) <= MaxTrackedFlows
      /\ load \in [Shards -> LoadType] /\ flowLoads \in [DOMAIN flowLoads -> FlowLoadType]
      /\ everVisited \in [Flows -> SUBSET Shards]
  BY CoordinatorAssumption DEF IInv, TypeOK, FlowLoadsMatchOrder
<1>4. owner.owner_shard \in Shards
  <2>1. f \in DOMAIN t.owners /\ t.owners \in [DOMAIN t.owners -> OwnerType]
    BY WithEntryProperties DEF IInv
  <2> HIDE DEF t
  <2> QED
    BY <2>1 DEF OwnerType
<1>5. shard \in Shards
  BY <1>1, <1>3, <1>4, StripesAreShards
<1> HIDE DEF t, owner, striped
<1>6. OneKind(counted)
  BY DEF OneKind, Kinds, Reasons
<1>7. /\ totals'.packets = nextSequence' /\ LoadsBalance(totals', load')
      /\ Balanced(totals') /\ \A s \in Shards' : Balanced(load'[s])
  BY <1>1, <1>2, <1>3, <1>5, <1>6, ObserveTotalsBalances
<1> DEFINE K == IF known THEN DOMAIN flowLoads ELSE Range(kept)
<1>8. K \subseteq DOMAIN flowLoads /\ (known => K = DOMAIN flowLoads)
  <2>1. Range(kept) \subseteq Range(flowOrder)
    BY <1>3, KeptProperties
  <2> QED
    BY <1>3, <2>1
<1>9. ~ known /\ Cardinality(DOMAIN flowLoads) < MaxTrackedFlows => K = DOMAIN flowLoads
  <2> SUFFICES ASSUME ~ known, Cardinality(DOMAIN flowLoads) < MaxTrackedFlows
               PROVE  Range(kept) = Range(flowOrder)
    BY <1>3
  <2>1. Cardinality(Range(flowOrder)) = Len(flowOrder)
    BY <1>3, QueueSize
  <2>2. Len(flowOrder) < MaxTrackedFlows /\ Len(flowOrder) \in Nat
    BY <1>3, <2>1, LenProperties
  <2>3. kept = SubSeq(flowOrder, 1, Len(flowOrder))
    BY <1>3, <2>2 DEF Kept, Evicted
  <2>4. SubSeq(flowOrder, 1, Len(flowOrder)) = flowOrder
    BY <1>3
  <2> QED
    BY <2>3, <2>4
<1>10. Range(flowOrder') = K \cup {f}
  <2>1. flowOrder' = IF known THEN flowOrder ELSE Append(kept, f)
    BY <1>1 DEF ObserveFlowLoad
  <2>2. CASE known
    BY <1>3, <2>1, <2>2
  <2>3. CASE ~ known
    <3>1. /\ kept \in Seq(Flows) /\ Range(kept) \subseteq Range(flowOrder)
          /\ \A i, j \in 1 .. Len(kept) : kept[i] = kept[j] => i = j
      BY <1>3, KeptProperties
    <3>2. f \notin Range(kept)
      BY <1>3, <2>3, <3>1
    <3> HIDE DEF kept
    <3>3. Range(Append(kept, f)) = Range(kept) \cup {f}
      BY <3>1, <3>2, AppendKey
    <3> QED
      BY <2>1, <2>3, <3>3
  <2> QED
    BY <2>2, <2>3
<1>11. flowLoads' = [g \in Range(flowOrder') |-> IF g = f THEN Credit(old, shard, size, striped)
                                                ELSE flowLoads[g]]
  BY <1>1 DEF ObserveFlowLoad
<1>12. /\ DOMAIN flowLoads' = K \cup {f} /\ flowLoads'[f] = Credit(old, shard, size, striped)
       /\ \A g \in K \ {f} : flowLoads'[g] = flowLoads[g]
  <2> HIDE DEF K, old
  <2> QED
    BY <1>10, <1>11
<1>13. \A g \in DOMAIN flowLoads : \A s \in Shards :
         flowLoads[g].shards[s].packets \in Nat /\ flowLoads[g].shards[s].bytes \in Nat
  BY <1>3 DEF FlowLoadType
<1>14. /\ DOMAIN load = Shards
       /\ \A s \in Shards : load[s].count["flow_routed"] \in Nat /\ load[s].bytes \in Nat
  <2>1. "flow_routed" \in Counters
    BY DEF Counters, Kinds
  <2> QED
    BY <1>3, <2>1 DEF LoadType
<1>15. DOMAIN load' = Shards
  BY <1>1, <1>14 DEF ObserveTotals
<1>16. ASSUME NEW s \in Shards
       PROVE  LET hit == IF s = shard THEN 1 ELSE 0
              IN  /\ flowLoads'[f].shards[s].packets
                       = (IF known THEN flowLoads[f].shards[s].packets ELSE 0) + hit
                  /\ flowLoads'[f].shards[s].bytes
                       = (IF known THEN flowLoads[f].shards[s].bytes ELSE 0) + size * hit
                  /\ load'[s].count["flow_routed"] = load[s].count["flow_routed"] + hit
                  /\ load'[s].bytes = load[s].bytes + size * hit
  <2>1. /\ DOMAIN old.shards = Shards
        /\ old.shards[s].packets = IF known THEN flowLoads[f].shards[s].packets ELSE 0
        /\ old.shards[s].bytes = IF known THEN flowLoads[f].shards[s].bytes ELSE 0
        /\ old.shards[s].packets \in Nat /\ old.shards[s].bytes \in Nat
    BY <1>3, <1>13 DEF FlowLoadType
  <2> DEFINE new == Credit(old, shard, size, striped)
  <2> HIDE DEF old
  <2>2. /\ s = shard => /\ new.shards[s].packets = old.shards[s].packets + 1
                        /\ new.shards[s].bytes = old.shards[s].bytes + size
        /\ s # shard => new.shards[s] = old.shards[s]
    BY <1>5, <2>1 DEF Credit
  <2>3. load' = [load EXCEPT ![shard] = Observed(load[shard], counted, size)]
    BY <1>1 DEF ObserveTotals
  <2>4. "flow_routed" \in Counters /\ "flow_routed" \in counted
    BY DEF Counters, Kinds
  <2>5. /\ s = shard => /\ load'[s].count["flow_routed"] = load[s].count["flow_routed"] + 1
                        /\ load'[s].bytes = load[s].bytes + size
        /\ s # shard => load'[s] = load[s]
    BY <1>5, <1>14, <2>3, <2>4 DEF Observed
  <2>6. flowLoads'[f] = new
    BY <1>12
  <2> HIDE DEF new
  <2>7. CASE s = shard
    BY <1>3, <2>1, <2>2, <2>5, <2>6, <2>7
  <2>8. CASE s # shard
    BY <1>3, <1>14, <2>1, <2>2, <2>5, <2>6, <2>8
  <2> QED
    BY <2>7, <2>8
<1>17. Seen(everVisited') = Seen(everVisited) \cup {f}
  BY <1>1, <1>3 DEF Seen, Visit
<1>18. HotFlowsBalance(flowLoads', load', Seen(everVisited) \cup {f})
  <2>1. HotFlowsBalance(flowLoads, load, Seen(everVisited))
    BY DEF MInv
  <2>2. size \in Nat
    BY <1>3
  <2> HIDE DEF K, old
  <2>3. Credited(flowLoads, load, flowLoads', load', K, f, shard, size)
    BY <1>5, <1>8, <1>9, <1>12, <1>13, <1>14, <1>15, <1>16, <2>2 DEF Credited
  <2> QED
    BY <2>1, <2>3, CreditedFlows
<1> QED
  BY <1>7, <1>17, <1>18 DEF MInv

\* A packet without a flow key keeps all metrics in balance.
LEMMA UnkeyedBalances ==
    ASSUME IInv, MInv, TakeSequence, UNCHANGED <<flowLoads, everVisited>>,
           NEW shard \in Shards, NEW size \in Nat,
           NEW counted, OneKind(counted), "flow_routed" \notin counted,
           ObserveTotals(shard, counted, size)
    PROVE  MInv'
<1>1. /\ totals'.packets = nextSequence' /\ LoadsBalance(totals', load')
      /\ Balanced(totals') /\ \A s \in Shards' : Balanced(load'[s])
  BY ObserveTotalsBalances
<1>2. /\ load \in [Shards -> LoadType] /\ "flow_routed" \in Counters
      /\ load' = [load EXCEPT ![shard] = Observed(load[shard], counted, size)]
  BY DEF IInv, TypeOK, ObserveTotals, Counters, Kinds
<1>3. /\ DOMAIN load = Shards /\ DOMAIN load' = Shards
      /\ \A s \in Shards : /\ load[s].count["flow_routed"] \in Nat /\ load[s].bytes \in Nat
                           /\ load'[s].count["flow_routed"] = load[s].count["flow_routed"]
                           /\ load[s].bytes <= load'[s].bytes /\ load'[s].bytes \in Nat
  <2>1. \A s \in Shards : load[s].count["flow_routed"] \in Nat /\ load[s].bytes \in Nat
    BY <1>2 DEF LoadType
  <2>2. \A s \in Shards : load'[s] = IF s = shard THEN Observed(load[s], counted, size) ELSE load[s]
    BY <1>2
  <2> QED
    BY <1>2, <2>1, <2>2 DEF Observed
<1>4. HotFlowsBalance(flowLoads, load, Seen(everVisited))
  BY DEF MInv
<1>5. /\ DOMAIN flowLoads \subseteq Seen(everVisited) /\ IsFiniteSet(DOMAIN flowLoads)
      /\ \A f \in DOMAIN flowLoads : \A s \in Shards : flowLoads[f].shards[s].bytes \in Nat
  <2>1. DOMAIN flowLoads \in SUBSET Seen(everVisited) /\ IsFiniteSet(Seen(everVisited))
    BY <1>4 DEF HotFlowsBalance
  <2>2. \A f \in DOMAIN flowLoads : flowLoads[f] \in FlowLoadType
    BY DEF IInv, TypeOK
  <2> QED
    BY <2>1, <2>2, FS_Subset DEF FlowLoadType
<1>6. HotFlowsBalance(flowLoads, load', Seen(everVisited))
  <2> SUFFICES ASSUME NEW s \in Shards
               PROVE  LET sent == SumFunction([f \in DOMAIN flowLoads |-> flowLoads[f].shards[s].packets])
                          bytes == SumFunction([f \in DOMAIN flowLoads |-> flowLoads[f].shards[s].bytes])
                      IN  /\ sent <= load'[s].count["flow_routed"] /\ bytes <= load'[s].bytes
                          /\ Cardinality(Seen(everVisited)) <= MaxTrackedFlows =>
                                /\ Seen(everVisited) = DOMAIN flowLoads
                                /\ sent = load'[s].count["flow_routed"]
    BY <1>3, <1>4 DEF HotFlowsBalance
  <2> DEFINE fn == [f \in DOMAIN flowLoads |-> flowLoads[f].shards[s].bytes]
             sum == SumFunction(fn)
             sent == SumFunction([f \in DOMAIN flowLoads |-> flowLoads[f].shards[s].packets])
  <2>1. sum \in Nat
    <3>1. DOMAIN fn = DOMAIN flowLoads /\ \A f \in DOMAIN flowLoads : fn[f] \in Nat
      BY <1>5
    <3> HIDE DEF fn
    <3> QED
      BY <1>5, <3>1, SumIsNumber DEF SumFunction
  <2>2. /\ sent <= load[s].count["flow_routed"] /\ sum <= load[s].bytes
        /\ Cardinality(Seen(everVisited)) <= MaxTrackedFlows =>
                Seen(everVisited) = DOMAIN flowLoads /\ sent = load[s].count["flow_routed"]
    BY <1>3, <1>4 DEF HotFlowsBalance
  <2> HIDE DEF sum, sent, fn
  <2>3. /\ sent <= load'[s].count["flow_routed"] /\ sum <= load'[s].bytes
        /\ Cardinality(Seen(everVisited)) <= MaxTrackedFlows =>
                Seen(everVisited) = DOMAIN flowLoads /\ sent = load'[s].count["flow_routed"]
    BY <1>3, <2>1, <2>2
  <2> QED
    BY <2>3 DEF sum, sent, fn
<1>7. HotFlowsBalance(flowLoads', load', Seen(everVisited'))
  BY <1>6
<1> QED
  BY <1>1, <1>7 DEF MInv

\* Every step keeps the metrics in balance.
LEMMA NextMInv == IInv /\ MInv /\ [Next]_vars => MInv'
<1> SUFFICES ASSUME IInv, MInv, [Next]_vars
             PROVE  MInv'
  OBVIOUS
<1>1. /\ shardCount \in Nat \ {0} /\ nextSequence \in Nat /\ 0 \in Shards
      /\ \A size \in Sizes : size \in Nat
  BY CoordinatorAssumption DEF IInv, TypeOK, Shards
<1>2. ASSUME NEW size \in Sizes, NEW f \in Flows, RouteFlow(f, size)
      PROVE  MInv'
  BY <1>2, RouteFlowBalances
<1>3. ASSUME NEW size \in Sizes, NEW reason \in Reasons, RouteFallback(reason, size)
      PROVE  MInv'
  <2>1. (IF RoundRobin THEN nextSequence % shardCount ELSE 0) \in Shards
    BY <1>1 DEF Shards
  <2>2. OneKind({"fallback", reason}) /\ "flow_routed" \notin {"fallback", reason}
    <3>1. reason \notin Kinds /\ reason # "striped" /\ "fallback" \notin Reasons
      BY DEF Reasons, Kinds
    <3>2. {"fallback", reason} \cap Kinds = {"fallback"} /\ "fallback" \in Kinds
      BY <3>1 DEF Kinds
    <3>3. {"fallback", reason} \cap Reasons = {reason}
      BY <3>1
    <3>4. "flow_routed" \in Kinds
      BY DEF Kinds
    <3> QED
      BY <3>1, <3>2, <3>3, <3>4 DEF OneKind
  <2> QED
    BY <1>1, <1>3, <2>1, <2>2, UnkeyedBalances DEF RouteFallback
<1>4. ASSUME NEW size \in Sizes, RouteDump(size)
      PROVE  MInv'
  <2>1. OneKind({"dump"}) /\ "flow_routed" \notin {"dump"}
    BY DEF OneKind, Kinds, Reasons
  <2> QED
    BY <1>1, <1>4, <2>1, UnkeyedBalances DEF RouteDump
<1>5. ASSUME NEW size \in Sizes, RouteSingleShard(size)
      PROVE  MInv'
  <2>1. OneKind({"single_shard"}) /\ "flow_routed" \notin {"single_shard"}
    BY DEF OneKind, Kinds, Reasons
  <2> QED
    BY <1>1, <1>5, <2>1, UnkeyedBalances DEF RouteSingleShard
<1>6. CASE UNCHANGED vars
  <2>1. /\ totals' = totals /\ load' = load /\ nextSequence' = nextSequence
        /\ flowLoads' = flowLoads /\ everVisited' = everVisited /\ Shards' = Shards
    BY <1>6 DEF vars, metrics, config, Shards
  <2> QED
    BY <2>1 DEF MInv
<1> QED
  BY <1>2, <1>3, <1>4, <1>5, <1>6 DEF Next

\* The balance of the metrics, as the runs check it.
LEMMA MInvBalances == IInv /\ MInv => MetricsBalance
<1> SUFFICES ASSUME IInv, MInv
             PROVE  MetricsBalance
  OBVIOUS
<1>1. DOMAIN load = Shards
  BY DEF IInv, TypeOK
<1>2. \A l \in {totals} \cup Range(load) : Balanced(l)
  BY <1>1 DEF MInv, Range
<1>3. FlowLoadsWithinShards
  BY <1>1 DEF MInv, HotFlowsBalance, Seen, FlowLoadsWithinShards
<1> QED
  BY <1>1, <1>2, <1>3 DEF MInv, LoadsBalance, Balanced, MetricsBalance


-----------------------------------------------------------------------------
(* Theorems *)

\* The inductive invariant holds in every behaviour of the coordinator.
THEOREM IInvHolds == Spec => []IInv
<1> QED
  BY InitIInv, NextIInv, PTL DEF Spec

\* Every field keeps its type, every owner shard is an existing worker (the
\* coordinator never indexes a worker that is not there: send_packet's error
\* "invalid worker shard index" is unreachable), and each of the two maps agrees
\* with its FIFO and stays within its limit, whatever is inserted and evicted.
THEOREM TablesWellFormed == Spec => []WellFormed
<1>1. IInv => WellFormed
  BY DEF IInv, WellFormed
<1> QED
  BY <1>1, IInvHolds, PTL

\* A tracked flow that is not striped has all packets since its placement on one shard.
THEOREM FlowsArePinned == Spec => []TrackedFlowHasOneShard
<1>1. IInv => TrackedFlowHasOneShard
  BY DEF IInv
<1> QED
  BY <1>1, IInvHolds, PTL

\* A flow never changes its worker while it is tracked, and is forgotten only when
\* another flow takes its place in the full table.
THEOREM OwnersStayPinned == Spec => OwnerPinned
<1>1. IInv /\ [Next]_vars =>
        [\A f \in DOMAIN owners :
            IF f \in DOMAIN owners'
            THEN /\ owners'[f].owner_shard = owners[f].owner_shard
                 /\ owners'[f].packets >= owners[f].packets
                 /\ owners'[f].bytes >= owners[f].bytes
                 /\ owners[f].striped => owners'[f].striped
            ELSE DOMAIN owners' \ DOMAIN owners # {}]_vars
  BY PinnedStep
<1> QED
  BY <1>1, IInvHolds, PTL DEF Spec, OwnerPinned

\* A flow is striped only when it is UDP and large, and for as long as it is tracked
\* its packets stay within MaxStripes shards, however the loads shift between them.
THEOREM StripesAreConfined == Spec => []StripingIsConfined
<1>1. Init => StripesFit
  BY DEF Init, StripesFit
<1>2. Spec => []StripesFit
  BY <1>1, IInvHolds, NextStripesFit, PTL DEF Spec
<1> QED
  BY <1>2, IInvHolds, StripesFitConfines, PTL

\* Every packet is counted once overall, once on one shard and under one kind, and
\* the bounded map of hot flows never claims more than was routed.
THEOREM MetricsAlwaysBalance == Spec => []MetricsBalance
<1>1. Spec => []MInv
  BY InitMInv, IInvHolds, NextMInv, PTL DEF Spec
<1> QED
  BY <1>1, IInvHolds, MInvBalances, PTL
=============================================================================
