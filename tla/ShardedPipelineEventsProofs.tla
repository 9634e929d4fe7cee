--------------------- MODULE ShardedPipelineEventsProofs ---------------------
(***************************************************************************)
(* Proof that the events of a flow's chunks reach the sinks in the order   *)
(* the chunks were parsed.  An event moves through three places:           *)
(*                                                                         *)
(*   batch of the thread that parsed it -> output queue -> sinks           *)
(*                                                                         *)
(* Each is in stream order and all of its chunks are behind those of the   *)
(* next place; together they have exactly the chunks that were parsed.     *)
(* The shard and the offload worker of a flow both have a batch, but by    *)
(* OneParserPerFlowHolds only one of them parses the flow.                 *)
(*                                                                         *)
(* And proof that the figures of a run that reports success add up.        *)
(* Balanced is the bookkeeping, as long as no thread has died: the tasks   *)
(* the shards submitted are those the offload workers processed and those  *)
(* still queued, and the chunks of the packets handed to the shards are    *)
(* those counted, those at hand and those that wait in a queue.  Known     *)
(* says that the last figures of a thread that has ended are held by the   *)
(* coordinator, or queued for it.  At the end the queues are empty.        *)
(***************************************************************************)
EXTENDS ShardedPipelineProofs, SumLemmas

-----------------------------------------------------------------------------
(* Sequences of numbers *)

Members(s) == {s[i] : i \in 1 .. Len(s)}
Increasing(s) == \A i, j \in 1 .. Len(s) : i < j => s[i] < s[j]

\* Putting one increasing sequence behind another.
LEMMA GlueUp ==
    ASSUME NEW S \in SUBSET Nat, NEW a \in Seq(S), NEW b \in Seq(S)
    PROVE  /\ a \o b \in Seq(S) /\ Members(a \o b) = Members(a) \cup Members(b)
           /\ Increasing(a) /\ Increasing(b) /\ Below(Members(a), Members(b)) => Increasing(a \o b)
<1> DEFINE t == a \o b
           m == Len(a)
           n == Len(b)
<1>1. /\ t \in Seq(S) /\ m \in Nat /\ n \in Nat /\ Len(t) = m + n
      /\ \A i \in 1 .. m : t[i] = a[i]
      /\ \A i \in 1 .. n : t[m + i] = b[i]
  BY Joined, LenProperties DEF Glued
<1> HIDE DEF t
<1>2. \A i \in 1 .. m + n : i \in 1 .. m \/ (~ (i <= m) /\ i - m \in 1 .. n /\ m + (i - m) = i)
  <2> HIDE DEF m, n
  <2> QED
    BY <1>1
<1>3. \A i \in 1 .. Len(t) : \/ i \in 1 .. m /\ t[i] = a[i]
                             \/ ~ (i <= m) /\ i - m \in 1 .. n /\ t[i] = b[i - m]
  BY <1>1, <1>2
<1>4. Members(t) = Members(a) \cup Members(b)
  <2>1. \A i \in 1 .. m : i \in 1 .. Len(t) /\ t[i] = a[i]
    BY <1>1
  <2>2. \A i \in 1 .. n : m + i \in 1 .. Len(t) /\ t[m + i] = b[i]
    BY <1>1
  <2>3. ASSUME NEW x \in Members(t)
        PROVE  x \in Members(a) \cup Members(b)
    <3>1. PICK i \in 1 .. Len(t) : x = t[i]
      BY DEF Members
    <3> QED
      BY <1>3, <3>1 DEF Members
  <2>4. Members(a) \subseteq Members(t) /\ Members(b) \subseteq Members(t)
    BY <2>1, <2>2 DEF Members
  <2> QED
    BY <2>3, <2>4
<1>5. ASSUME Increasing(a), Increasing(b), Below(Members(a), Members(b)),
             NEW i \in 1 .. Len(t), NEW j \in 1 .. Len(t), i < j
      PROVE  t[i] < t[j]
  <2>1. CASE i \in 1 .. m /\ j \in 1 .. m
    BY <1>1, <1>5, <2>1 DEF Increasing
  <2>2. CASE i \in 1 .. m /\ ~ (j <= m)
    <3>1. t[i] = a[i] /\ t[j] = b[j - m] /\ j - m \in 1 .. n
      BY <1>3, <2>2
    <3>2. a[i] \in Members(a) /\ b[j - m] \in Members(b)
      BY <2>2, <3>1 DEF Members
    <3> QED
      BY <1>5, <3>1, <3>2 DEF Below
  <2>3. CASE ~ (i <= m) /\ ~ (j <= m)
    <3>1. t[i] = b[i - m] /\ t[j] = b[j - m] /\ i - m \in 1 .. n /\ j - m \in 1 .. n
      BY <1>3, <2>3
    <3>2. i - m < j - m
      BY <1>1, <1>5
    <3> QED
      BY <1>5, <3>1, <3>2 DEF Increasing
  <2>4. ~ (~ (i <= m) /\ j \in 1 .. m)
    BY <1>1, <1>5
  <2> QED
    BY <1>1, <1>2, <2>1, <2>2, <2>3, <2>4
<1> QED
  BY <1>1, <1>4, <1>5 DEF t, Increasing

\* An increasing sequence is a prefix of another one if its members are the least
\* ones of the other, and the whole of it if they are all.
LEMMA PrefixOf ==
    ASSUME NEW s \in Seq(Nat), NEW t \in Seq(Nat), Increasing(s), Increasing(t),
           Members(s) \subseteq Members(t), Below(Members(s), Members(t) \ Members(s))
    PROVE  /\ Len(s) <= Len(t) /\ \A i \in 1 .. Len(s) : s[i] = t[i]
           /\ Members(s) = Members(t) => s = t
<1> DEFINE m == Len(s)
           n == Len(t)
           G == {i \in Nat : i <= m => i <= n /\ \A j \in 1 .. i : s[j] = t[j]}
<1>1. /\ m \in Nat /\ n \in Nat
      /\ \A i \in 1 .. m : s[i] \in Nat /\ s[i] \in Members(s)
      /\ \A i \in 1 .. n : t[i] \in Nat /\ t[i] \in Members(t)
  BY LenProperties, ElementOfSeq DEF Members
<1> HIDE DEF m, n
<1>2. 0 \in G
  BY <1>1
<1>3. ASSUME NEW i \in Nat, i \in G
      PROVE  i + 1 \in G
  <2> SUFFICES ASSUME i + 1 <= m
               PROVE  i + 1 <= n /\ s[i + 1] = t[i + 1]
    BY <1>1, <1>3
  <2>1. i <= n /\ \A j \in 1 .. i : s[j] = t[j]
    BY <1>1, <1>3
  <2> DEFINE k == i + 1
  <2>2. k \in 1 .. m /\ k \in Nat /\ \A j \in 1 .. m : j < k => j \in 1 .. i
    BY <1>1
  <2>3. \A j \in Nat : j \in 1 .. i => j < k
    OBVIOUS
  <2> HIDE DEF k
  <2>4. PICK j \in 1 .. n : s[k] = t[j]
    BY <1>1, <2>2 DEF Members, n
  <2>5. ~ (j < k)
    <3> SUFFICES ASSUME j < k
                 PROVE  FALSE
      OBVIOUS
    <3>1. j \in 1 .. m /\ j \in 1 .. i
      <4>1. j \in Nat /\ 1 <= j /\ k <= m /\ m \in Nat /\ k \in Nat
        BY <1>1, <2>2, <2>4
      <4>2. j \in 1 .. m
        BY <4>1
      <4> QED
        BY <2>2, <4>2
    <3>2. s[j] = s[k]
      BY <2>1, <2>4, <3>1
    <3>3. s[j] < s[k]
      BY <2>2, <3>1 DEF Increasing, m
    <3> QED
      BY <1>1, <2>2, <3>1, <3>2, <3>3
  <2>6. k \in 1 .. n
    BY <1>1, <2>2, <2>4, <2>5
  <2>7. s[k] = t[k]
    <3> SUFFICES ASSUME k < j
                 PROVE  FALSE
      BY <1>1, <2>2, <2>4, <2>5, <2>6
    <3>1. t[k] < t[j] /\ t[k] \in Members(t) /\ t[k] \in Nat /\ s[k] \in Nat /\ s[k] \in Members(s)
      BY <1>1, <2>2, <2>4, <2>6 DEF Increasing, n
    <3>2. t[k] \in Members(s)
      <4>1. t[k] \notin Members(s) => s[k] < t[k]
        BY <3>1 DEF Below
      <4> QED
        BY <2>4, <3>1, <4>1
    <3>3. PICK l \in 1 .. m : t[k] = s[l]
      BY <3>2 DEF Members, m
    <3>4. l < k
      <4>1. k < l => s[k] < s[l]
        BY <2>2, <3>3 DEF Increasing, m
      <4> QED
        BY <1>1, <2>2, <2>4, <3>1, <3>3, <4>1
    <3>5. l \in 1 .. i /\ l \in 1 .. n /\ s[l] = t[l]
      <4>1. l \in 1 .. i
        BY <2>2, <3>4
      <4>2. i \in Nat /\ i <= n /\ n \in Nat
        BY <1>1, <2>1
      <4>3. l \in 1 .. n
        BY <4>1, <4>2
      <4> QED
        BY <2>1, <4>1, <4>3
    <3>6. t[l] < t[k]
      BY <2>6, <3>4, <3>5 DEF Increasing, n
    <3> QED
      BY <3>1, <3>3, <3>5, <3>6
  <2> QED
    BY <1>1, <2>6, <2>7 DEF k
<1>4. Nat \subseteq G
  <2> HIDE DEF G
  <2> QED
    BY <1>2, <1>3, NumberInduction
<1>5. m <= n /\ \A i \in 1 .. m : s[i] = t[i]
  <2>1. m \in G
    BY <1>1, <1>4
  <2> QED
    BY <1>1, <2>1
<1>6. ASSUME Members(s) = Members(t)
      PROVE  s = t
  <2>1. m = n
    <3> SUFFICES ASSUME m < n
                 PROVE  FALSE
      BY <1>1, <1>5
    <3>1. n \in 1 .. n /\ t[n] \in Members(s)
      BY <1>1, <1>6
    <3>2. PICK l \in 1 .. m : t[n] = s[l]
      BY <3>1 DEF Members, m
    <3>3. l \in 1 .. n /\ l < n /\ s[l] = t[l]
      BY <1>1, <1>5, <3>2
    <3>4. t[l] < t[n] /\ t[l] \in Nat
      BY <1>1, <3>1, <3>3 DEF Increasing, n
    <3> QED
      BY <3>2, <3>3, <3>4
  <2> QED
    BY <1>5, <2>1, SeqEqual DEF m, n
<1> QED
  BY <1>5, <1>6 DEF m, n
-----------------------------------------------------------------------------
(* The chunks that a batch has events of *)

EventsIn(s, f) == {s[i][2] : i \in {j \in 1 .. Len(s) : IsChunkOf(s[j], f)}}
Climbs(s, f) == \A i, j \in 1 .. Len(s) :
    i < j /\ IsChunkOf(s[i], f) /\ IsChunkOf(s[j], f) => s[i][2] < s[j][2]

\* The chunks of a batch, element by element.
LEMMA InEvents ==
    \A s, f, k : k \in EventsIn(s, f) <=> \E i \in 1 .. Len(s) : IsChunkOf(s[i], f) /\ s[i][2] = k
  BY DEF EventsIn

\* An empty batch has no chunk of any flow.
LEMMA NoEvents == \A f : EventsIn(<<>>, f) = {} /\ Climbs(<<>>, f)
<1>1. Len(<<>>) = 0 /\ 1 .. 0 = {}
  OBVIOUS
<1> QED
  BY <1>1, InEvents DEF Climbs

\* What is written of a batch are the chunks of its events, in stream order if the
\* batch is.
LEMMA ChunksAre ==
    ASSUME NEW s \in Seq(Items), NEW f
    PROVE  /\ ChunksOf(s, f) \in Seq(Nat) /\ Members(ChunksOf(s, f)) = EventsIn(s, f)
           /\ Climbs(s, f) => Increasing(ChunksOf(s, f))
<1> DEFINE n == Len(s)
           one(i) == IF IsChunkOf(s[i], f) THEN <<s[i][2]>> ELSE <<>>
           ss == [i \in 1 .. n |-> one(i)]
           upTo(k) == {s[i][2] : i \in {j \in 1 .. k : IsChunkOf(s[j], f)}}
<1>1. n \in Nat /\ \A i \in 1 .. n : s[i] \in Items /\ s[i][2] \in Nat
  BY LenProperties, ElementOfSeq DEF Items
<1>2. /\ ChunksOf(s, f) = FlattenSeq(ss) /\ EventsIn(s, f) = upTo(n)
  BY DEF ChunksOf, EventsIn
<1>3. \A i \in 1 .. n : one(i) \in Seq(Nat)
  BY <1>1
<1>4. ss \in Seq(Seq(Nat)) /\ Len(ss) = n
  <2>1. ss \in [1 .. n -> Seq(Nat)]
    BY <1>3
  <2> HIDE DEF ss, n
  <2> QED
    BY <1>1, <2>1
<1>5. ASSUME NEW i \in 1 .. n
      PROVE  /\ ss[i] \in Seq(Nat) /\ Increasing(ss[i])
             /\ Members(ss[i]) = IF IsChunkOf(s[i], f) THEN {s[i][2]} ELSE {}
  <2>1. ss[i] = one(i)
    OBVIOUS
  <2>2. \A x : Members(<<x>>) = {x} /\ Increasing(<<x>>)
    BY DEF Members, Increasing
  <2>3. Members(<<>>) = {} /\ Increasing(<<>>)
    BY DEF Members, Increasing
  <2> QED
    BY <1>3, <2>1, <2>2, <2>3
<1> HIDE DEF ss, one
<1>6. CASE n = 0
  <2>1. ss = <<>> /\ FlattenSeq(ss) = <<>> /\ upTo(n) = {}
    BY <1>4, <1>6, EmptySeq DEF FlattenSeq
  <2>2. Members(<<>>) = {} /\ Increasing(<<>>)
    BY DEF Members, Increasing
  <2> QED
    BY <1>2, <2>1, <2>2, EmptySeq
<1>7. CASE n # 0
  <2>1. PICK g : IsFlat(g, ss) /\ FlattenSeq(ss) = g[n]
    <3>1. Len(ss) >= 1
      BY <1>1, <1>4, <1>7
    <3> QED
      BY <1>4, <3>1, FlattenUnfolds
  <2> DEFINE good(k) == /\ g[k] \in Seq(Nat) /\ Members(g[k]) = upTo(k)
                        /\ Climbs(s, f) => Increasing(g[k])
             G == {k \in Nat : k + 1 <= n => good(k + 1)}
  <2>2. good(1)
    <3>1. g[1] = ss[1] /\ 1 \in 1 .. n
      BY <1>1, <1>4, <1>7, <2>1 DEF IsFlat, FlatBody
    <3>2. upTo(1) = IF IsChunkOf(s[1], f) THEN {s[1][2]} ELSE {}
      OBVIOUS
    <3> QED
      BY <1>5, <3>1, <3>2
  <2>3. ASSUME NEW k \in 1 .. n, NEW l \in 1 .. n, l = k + 1, good(k)
        PROVE  good(l)
    <3>1. g[l] = g[k] \o ss[l]
      <4>1. l # 1 /\ l - 1 = k
        BY <2>3
      <4> QED
        BY <1>4, <2>1, <4>1 DEF IsFlat, FlatBody
    <3>2. upTo(l) = upTo(k) \cup Members(ss[l])
      <4>1. \A i : i \in 1 .. l <=> i \in 1 .. k \/ i = l
        BY <2>3
      <4>2. upTo(l) = upTo(k) \cup (IF IsChunkOf(s[l], f) THEN {s[l][2]} ELSE {})
        BY <4>1
      <4> QED
        BY <1>5, <4>2
    <3>3. Members(g[l]) = Members(g[k]) \cup Members(ss[l]) /\ g[l] \in Seq(Nat)
      <4>1. PICK a, b : a = g[k] /\ b = ss[l]
        OBVIOUS
      <4>2. a \in Seq(Nat) /\ b \in Seq(Nat)
        BY <1>5, <2>3, <4>1
      <4>3. Members(a \o b) = Members(a) \cup Members(b) /\ a \o b \in Seq(Nat)
        BY <4>2, GlueUp
      <4> QED
        BY <3>1, <4>1, <4>3
    <3>4. ASSUME Climbs(s, f)
          PROVE  Increasing(g[l])
      <4>1. Below(upTo(k), Members(ss[l]))
        <5>1. ASSUME NEW i \in 1 .. k, IsChunkOf(s[i], f), IsChunkOf(s[l], f)
              PROVE  s[i][2] < s[l][2]
          <6>1. i \in 1 .. n /\ i < l
            BY <1>1, <2>3
          <6> QED
            BY <3>4, <5>1, <6>1 DEF Climbs
        <5>2. ASSUME NEW a \in upTo(k), NEW b \in Members(ss[l])
              PROVE  a < b
          <6>1. IsChunkOf(s[l], f) /\ b = s[l][2]
            BY <1>5
          <6>2. PICK i \in 1 .. k : IsChunkOf(s[i], f) /\ a = s[i][2]
            OBVIOUS
          <6> QED
            BY <5>1, <6>1, <6>2
        <5> HIDE DEF upTo
        <5> QED
          BY <5>2 DEF Below
      <4> HIDE DEF upTo
      <4>2. PICK a, b : a = g[k] /\ b = ss[l]
        OBVIOUS
      <4>3. /\ a \in Seq(Nat) /\ b \in Seq(Nat) /\ Increasing(a) /\ Increasing(b)
            /\ Below(Members(a), Members(b))
        BY <1>5, <2>3, <3>4, <4>1, <4>2
      <4>4. Increasing(a \o b)
        BY <4>3, GlueUp
      <4> QED
        BY <3>1, <4>2, <4>4
    <3> QED
      BY <2>3, <3>2, <3>3, <3>4
  <2>4. 0 \in G
    BY <2>2
  <2>5. ASSUME NEW k \in Nat, k \in G
        PROVE  k + 1 \in G
    <3> SUFFICES ASSUME (k + 1) + 1 <= n
                 PROVE  good((k + 1) + 1)
      OBVIOUS
    <3> DEFINE a == k + 1
               b == a + 1
    <3>1. a \in 1 .. n /\ b \in 1 .. n /\ b = a + 1 /\ a <= n
      BY <1>1
    <3>2. good(a)
      BY <2>5, <3>1
    <3> HIDE DEF a, b, good
    <3>3. good(b)
      BY <2>3, <3>1, <3>2
    <3> QED
      BY <3>3 DEF a, b
  <2>6. Nat \subseteq G
    <3> HIDE DEF G
    <3> QED
      BY <2>4, <2>5, NumberInduction
  <2>7. good(n)
    <3> DEFINE k == n - 1
    <3>1. k \in Nat /\ k + 1 = n /\ k + 1 <= n
      BY <1>1, <1>7
    <3>2. k \in G
      BY <2>6, <3>1
    <3> HIDE DEF good, k
    <3>3. good(k + 1)
      BY <3>1, <3>2
    <3> QED
      BY <3>1, <3>3
  <2> QED
    BY <1>2, <2>1, <2>7
<1> QED
  BY <1>6, <1>7
-----------------------------------------------------------------------------
(* The invariant *)

\* What the output queue has of a flow, and in which order.
QueuedIn(q, f) == UNION {EventsIn(q[i][2], f) : i \in {j \in 1 .. Len(q) : q[j][1] = "events"}}
QueueClimbs(q, f) ==
    /\ \A i \in 1 .. Len(q) : q[i][1] = "events" => Climbs(q[i][2], f)
    /\ \A i, j \in 1 .. Len(q) : i < j /\ q[i][1] = "events" /\ q[j][1] = "events" =>
            Below(EventsIn(q[i][2], f), EventsIn(q[j][2], f))

\* Of one flow: its parser calls, the chunks written, the output queue, and the batches
\* s and t of its two threads, whose parser calls are of the kinds a and b.
Calling(calls, kind) == \E i \in 1 .. Len(calls) : calls[i][1] = kind
NumbersOf(calls) == {calls[i][3] : i \in 1 .. Len(calls)}
Flowing(calls, W, q, a, s, b, t, f) ==
    /\ W \in Seq(Nat) /\ Increasing(W)
    /\ QueueClimbs(q, f) /\ Climbs(s, f) /\ Climbs(t, f)
    /\ Below(Members(W), QueuedIn(q, f) \cup EventsIn(s, f) \cup EventsIn(t, f))
    /\ Below(QueuedIn(q, f), EventsIn(s, f) \cup EventsIn(t, f))
    /\ NumbersOf(calls) = Members(W) \cup QueuedIn(q, f) \cup EventsIn(s, f) \cup EventsIn(t, f)
    /\ EventsIn(s, f) # {} => Calling(calls, a)
    /\ EventsIn(t, f) # {} => Calling(calls, b)

ShardBatch(f) == wk[Shard[f]].events
OffloadBatch(f) == IF OffloadCount = 0 THEN <<>> ELSE off[OffloadShard[f]].events
\* A thread has events only of chunks it may parse.
Homely ==
    /\ \A w \in Workers, f \in Flows : Shard[f] # w => EventsIn(wk[w].events, f) = {}
    /\ \A o \in Offloads, f \in Flows : OffloadShard[f] # o => EventsIn(off[o].events, f) = {}
Delivered ==
    /\ written \in [Flows -> Seq(Nat)]
    /\ Homely
    /\ NoFault => \A f \in Flows :
        Flowing(parsed[f], written[f], outQ, "shard", ShardBatch(f), "offload", OffloadBatch(f), f)

-----------------------------------------------------------------------------
(* What happens to the places of a flow's events *)

\* The chunks of a flow in the output queue, element by element.
LEMMA InQueue ==
    \A q, f, k : k \in QueuedIn(q, f) <=>
        \E i \in 1 .. Len(q) : q[i][1] = "events" /\ k \in EventsIn(q[i][2], f)
  BY DEF QueuedIn

\* An event at the end of a batch adds its chunk; the batch stays in stream order if
\* that chunk is behind the others.
LEMMA BatchGrown ==
    ASSUME NEW s, NEW e, NEW t, Grown(s, e, t), NEW f
    PROVE  /\ EventsIn(t, f) = EventsIn(s, f) \cup (IF IsChunkOf(e, f) THEN {e[2]} ELSE {})
           /\ Climbs(s, f) /\ (IsChunkOf(e, f) => \A k \in EventsIn(s, f) : k < e[2]) => Climbs(t, f)
<1>1. /\ \A i \in 1 .. Len(s) : t[i] = s[i] /\ i \in 1 .. Len(t)
      /\ \A i \in 1 .. Len(t) : i \in 1 .. Len(s) \/ (i = Len(s) + 1 /\ t[i] = e)
      /\ Len(s) + 1 \in 1 .. Len(t) /\ t[Len(s) + 1] = e
      /\ \A i, j \in 1 .. Len(t) : i < j => i \in 1 .. Len(s)
  BY DEF Grown
<1>2. \A k : k \in EventsIn(t, f) <=> k \in EventsIn(s, f) \/ (IsChunkOf(e, f) /\ k = e[2])
  BY <1>1, InEvents
<1>3. ASSUME Climbs(s, f), IsChunkOf(e, f) => \A k \in EventsIn(s, f) : k < e[2],
             NEW i \in 1 .. Len(t), NEW j \in 1 .. Len(t), i < j, IsChunkOf(t[i], f), IsChunkOf(t[j], f)
      PROVE  t[i][2] < t[j][2]
  <2>1. i \in 1 .. Len(s) /\ t[i] = s[i] /\ s[i][2] \in EventsIn(s, f)
    BY <1>1, <1>3, InEvents
  <2>2. CASE j \in 1 .. Len(s)
    BY <1>1, <1>3, <2>1, <2>2 DEF Climbs
  <2>3. CASE t[j] = e
    BY <1>3, <2>1, <2>3
  <2> QED
    BY <1>1, <2>2, <2>3
<1> QED
  BY <1>2, <1>3 DEF Climbs

\* Taking a message leaves the rest in order; a batch of events that is taken is the
\* first of the flow's chunks.
LEMMA QueueDropped ==
    ASSUME NEW q, NEW t, Dropped(q, t), NEW f, QueueClimbs(q, f)
    PROVE  /\ QueueClimbs(t, f)
           /\ q[1][1] # "events" => QueuedIn(t, f) = QueuedIn(q, f)
           /\ q[1][1] = "events" =>
                /\ QueuedIn(q, f) = EventsIn(q[1][2], f) \cup QueuedIn(t, f)
                /\ Climbs(q[1][2], f) /\ Below(EventsIn(q[1][2], f), QueuedIn(t, f))
<1>1. \A i \in 1 .. Len(t) : t[i] = q[i + 1]
  BY DEF Dropped
<1>2. QueueClimbs(t, f)
  <2>1. ASSUME NEW i \in 1 .. Len(t), NEW j \in 1 .. Len(t), i < j, t[i][1] = "events", t[j][1] = "events"
        PROVE  Below(EventsIn(t[i][2], f), EventsIn(t[j][2], f))
    <3>1. /\ i + 1 \in 1 .. Len(q) /\ j + 1 \in 1 .. Len(q) /\ i + 1 < j + 1
          /\ t[i] = q[i + 1] /\ t[j] = q[j + 1]
      BY <1>1, <2>1, Shift
    <3> QED
      BY <2>1, <3>1 DEF QueueClimbs
  <2>2. \A i \in 1 .. Len(t) : t[i][1] = "events" => Climbs(t[i][2], f)
    BY <1>1, Shift DEF QueueClimbs
  <2> QED
    BY <2>1, <2>2 DEF QueueClimbs
<1>3. ASSUME NEW k \in QueuedIn(t, f)
      PROVE  /\ k \in QueuedIn(q, f)
             /\ q[1][1] = "events" => \A l \in EventsIn(q[1][2], f) : l < k
  <2>1. PICK i \in 1 .. Len(t) : t[i][1] = "events" /\ k \in EventsIn(t[i][2], f)
    BY InQueue
  <2>2. i + 1 \in 1 .. Len(q) /\ 1 \in 1 .. Len(q) /\ 1 < i + 1 /\ t[i] = q[i + 1]
    BY <1>1, Shift
  <2>3. k \in QueuedIn(q, f)
    BY <2>1, <2>2, InQueue
  <2>4. q[1][1] = "events" => Below(EventsIn(q[1][2], f), EventsIn(q[i + 1][2], f))
    BY <2>1, <2>2 DEF QueueClimbs
  <2> QED
    BY <2>1, <2>2, <2>3, <2>4 DEF Below
<1>4. ASSUME NEW k \in QueuedIn(q, f)
      PROVE  k \in QueuedIn(t, f) \/ (q[1][1] = "events" /\ k \in EventsIn(q[1][2], f))
  <2>1. PICK i \in 1 .. Len(q) : q[i][1] = "events" /\ k \in EventsIn(q[i][2], f)
    BY InQueue
  <2>2. i = 1 \/ (i - 1 \in 1 .. Len(t) /\ t[i - 1] = q[i])
    BY Shift
  <2>3. ASSUME NEW j \in 1 .. Len(t), t[j] = q[i]
        PROVE  k \in QueuedIn(t, f)
    BY <2>1, <2>3, InQueue
  <2> QED
    BY <2>1, <2>2, <2>3
<1>5. q[1][1] = "events" => Climbs(q[1][2], f) /\ EventsIn(q[1][2], f) \subseteq QueuedIn(q, f)
  BY Shift, InQueue DEF QueueClimbs
<1>6. q[1][1] # "events" => QueuedIn(t, f) = QueuedIn(q, f)
  BY <1>3, <1>4
<1> QED
  BY <1>2, <1>3, <1>4, <1>5, <1>6 DEF Below

\* Sending a message adds its chunks, in order if they are behind the others.
LEMMA QueueGrown ==
    ASSUME NEW q, NEW x, NEW t, Grown(q, x, t), NEW f, QueueClimbs(q, f),
           x[1] = "events" => Climbs(x[2], f) /\ Below(QueuedIn(q, f), EventsIn(x[2], f))
    PROVE  /\ QueueClimbs(t, f)
           /\ QueuedIn(t, f) = QueuedIn(q, f) \cup (IF x[1] = "events" THEN EventsIn(x[2], f) ELSE {})
<1>1. /\ \A i \in 1 .. Len(q) : t[i] = q[i] /\ i \in 1 .. Len(t)
      /\ \A i \in 1 .. Len(t) : i \in 1 .. Len(q) \/ (i = Len(q) + 1 /\ t[i] = x)
      /\ Len(q) + 1 \in 1 .. Len(t) /\ t[Len(q) + 1] = x
      /\ \A i, j \in 1 .. Len(t) : i < j => i \in 1 .. Len(q)
  BY DEF Grown
<1>2. \A k : k \in QueuedIn(t, f) <=> k \in QueuedIn(q, f) \/ (x[1] = "events" /\ k \in EventsIn(x[2], f))
  BY <1>1, InQueue
<1>3. ASSUME NEW i \in 1 .. Len(t), NEW j \in 1 .. Len(t), i < j, t[i][1] = "events", t[j][1] = "events"
      PROVE  Below(EventsIn(t[i][2], f), EventsIn(t[j][2], f))
  <2>1. i \in 1 .. Len(q) /\ t[i] = q[i] /\ EventsIn(t[i][2], f) \subseteq QueuedIn(q, f)
    BY <1>1, <1>3, InQueue
  <2>2. CASE j \in 1 .. Len(q)
    BY <1>1, <1>3, <2>1, <2>2 DEF QueueClimbs
  <2>3. CASE t[j] = x
    BY <1>3, <2>1, <2>3 DEF Below
  <2> QED
    BY <1>1, <2>2, <2>3
<1>4. \A i \in 1 .. Len(t) : t[i][1] = "events" => Climbs(t[i][2], f)
  BY <1>1 DEF QueueClimbs
<1>5. QueuedIn(t, f) = QueuedIn(q, f) \cup (IF x[1] = "events" THEN EventsIn(x[2], f) ELSE {})
  BY <1>2
<1> QED
  BY <1>3, <1>4, <1>5 DEF QueueClimbs

\* The two threads of a flow may change places.
LEMMA FlowSwaps ==
    ASSUME NEW calls, NEW W, NEW q, NEW a, NEW s, NEW b, NEW t, NEW f,
           Flowing(calls, W, q, a, s, b, t, f)
    PROVE  Flowing(calls, W, q, b, t, a, s, f)
<1>1. \A A, B, C : A \cup B \cup C = A \cup C \cup B
  OBVIOUS
<1> QED
  BY <1>1 DEF Flowing, Below

\* The queue moves, but not what it has of the flow.
LEMMA QueueRests ==
    ASSUME NEW q, NEW r, NEW f, QueueClimbs(q, f),
           \/ QuietQ(q, r, "events")
           \/ \E x : Grown(q, x, r) /\ x[1] = "events" /\ EventsIn(x[2], f) = {}
    PROVE  QueueClimbs(r, f) /\ QueuedIn(r, f) = QueuedIn(q, f)
<1>1. CASE r = q
  BY <1>1
<1>2. CASE Dropped(q, r) /\ q[1][1] # "events"
  BY <1>2, QueueDropped
<1>3. ASSUME NEW x, Grown(q, x, r), x[1] = "events" => EventsIn(x[2], f) = {}
      PROVE  QueueClimbs(r, f) /\ QueuedIn(r, f) = QueuedIn(q, f)
  <2>1. x[1] = "events" => Climbs(x[2], f) /\ Below(QueuedIn(q, f), EventsIn(x[2], f))
    <3>1. ASSUME x[1] = "events"
          PROVE  Climbs(x[2], f) /\ Below(QueuedIn(q, f), EventsIn(x[2], f))
      <4>1. PICK e : e = x[2]
        OBVIOUS
      <4>2. EventsIn(e, f) = {}
        BY <1>3, <3>1, <4>1
      <4>3. Climbs(e, f)
        BY <4>2, InEvents DEF Climbs
      <4>4. Below(QueuedIn(q, f), EventsIn(e, f))
        BY <4>2 DEF Below
      <4> QED
        BY <4>1, <4>3, <4>4
    <3> QED
      BY <3>1
  <2>2. /\ QueueClimbs(r, f)
        /\ QueuedIn(r, f) = QueuedIn(q, f) \cup (IF x[1] = "events" THEN EventsIn(x[2], f) ELSE {})
    BY <1>3, <2>1, QueueGrown
  <2>3. (IF x[1] = "events" THEN EventsIn(x[2], f) ELSE {}) = {}
    BY <1>3
  <2> QED
    BY <2>2, <2>3
<1> QED
  BY <1>1, <1>2, <1>3 DEF QuietQ

\* Nothing of the flow moves when the queue and the batch keep their chunks.
LEMMA FlowRests ==
    ASSUME NEW calls, NEW W, NEW q, NEW a, NEW s, NEW b, NEW t, NEW f,
           Flowing(calls, W, q, a, s, b, t, f), NEW r, NEW u,
           QueueClimbs(r, f), QueuedIn(r, f) = QueuedIn(q, f),
           EventsIn(u, f) = EventsIn(s, f), Climbs(u, f)
    PROVE  Flowing(calls, W, r, a, u, b, t, f)
  BY DEF Flowing

\* A parser call puts one chunk, behind all others of the flow, into a batch.
LEMMA FlowParses ==
    ASSUME NEW calls, NEW W, NEW q, NEW a, NEW s, NEW b, NEW t, NEW f,
           Flowing(calls, W, q, a, s, b, t, f), NEW c, NEW next, NEW u,
           Grown(calls, c, next), c[1] = a, \A k \in NumbersOf(calls) : k < c[3],
           IsChunkOf(<<f, c[3]>>, f), Grown(s, <<f, c[3]>>, u)
    PROVE  Flowing(next, W, q, a, u, b, t, f)
<1> DEFINE n == c[3]
           Q == QueuedIn(q, f)
           S == EventsIn(s, f)
           T == EventsIn(t, f)
<1>1. /\ \A i \in 1 .. Len(calls) : next[i] = calls[i] /\ i \in 1 .. Len(next)
      /\ \A i \in 1 .. Len(next) : i \in 1 .. Len(calls) \/ (i = Len(calls) + 1 /\ next[i] = c)
      /\ Len(calls) + 1 \in 1 .. Len(next) /\ next[Len(calls) + 1] = c
  BY DEF Grown
<1>2. NumbersOf(next) = NumbersOf(calls) \cup {n}
  <2>1. \A i \in 1 .. Len(calls) : next[i][3] = calls[i][3] /\ next[i][3] \in NumbersOf(next)
    BY <1>1 DEF NumbersOf
  <2>2. n \in NumbersOf(next)
    BY <1>1 DEF NumbersOf
  <2>3. NumbersOf(calls) \subseteq NumbersOf(next)
    BY <2>1 DEF NumbersOf
  <2>4. ASSUME NEW k \in NumbersOf(next)
        PROVE  k \in NumbersOf(calls) \cup {n}
    <3>1. PICK i \in 1 .. Len(next) : k = next[i][3]
      BY DEF NumbersOf
    <3> QED
      BY <1>1, <3>1 DEF NumbersOf
  <2> QED
    BY <2>2, <2>3, <2>4
<1>3. Calling(next, a) /\ (Calling(calls, b) => Calling(next, b))
  BY <1>1 DEF Calling
<1>4. NumbersOf(calls) = Members(W) \cup Q \cup S \cup T
  BY DEF Flowing
<1>5. EventsIn(u, f) = S \cup {n} /\ Climbs(u, f)
  <2>1. \A k \in S : k < n
    BY <1>4
  <2>2. PICK e : e = <<f, n>>
    OBVIOUS
  <2>3. Grown(s, e, u) /\ IsChunkOf(e, f) /\ e[2] = n /\ Climbs(s, f)
    BY <2>2 DEF Flowing
  <2> QED
    BY <2>1, <2>3, BatchGrown
<1> HIDE DEF n, Q, S, T
<1>6. /\ Below(Members(W), Q \cup S \cup T) /\ Below(Q, S \cup T) /\ \A k \in NumbersOf(calls) : k < n
      /\ W \in Seq(Nat) /\ Increasing(W) /\ QueueClimbs(q, f) /\ Climbs(t, f) /\ (T # {} => Calling(calls, b))
  BY DEF Flowing, n, Q, S, T
<1>7. Below(Members(W), Q \cup (S \cup {n}) \cup T) /\ Below(Q, (S \cup {n}) \cup T)
  BY <1>4, <1>6 DEF Below
<1>8. NumbersOf(next) = Members(W) \cup Q \cup (S \cup {n}) \cup T
  BY <1>2, <1>4
<1> QED
  BY <1>3, <1>5, <1>6, <1>7, <1>8 DEF Flowing, Q, S, T

\* Flushing moves a whole batch to the end of the queue.  The other thread of the flow
\* must not have older chunks: one of the two batches has none of this flow.
LEMMA FlowFlushes ==
    ASSUME NEW calls, NEW W, NEW q, NEW a, NEW s, NEW b, NEW t, NEW f,
           Flowing(calls, W, q, a, s, b, t, f), NEW r,
           Grown(q, <<"events", s>>, r), EventsIn(s, f) = {} \/ EventsIn(t, f) = {}
    PROVE  Flowing(calls, W, r, a, <<>>, b, t, f)
<1> DEFINE Q == QueuedIn(q, f)
           S == EventsIn(s, f)
           T == EventsIn(t, f)
<1>1. /\ QueueClimbs(q, f) /\ Climbs(s, f) /\ Climbs(t, f) /\ Below(Q, S \cup T)
      /\ Below(Members(W), Q \cup S \cup T) /\ NumbersOf(calls) = Members(W) \cup Q \cup S \cup T
      /\ W \in Seq(Nat) /\ Increasing(W) /\ (T # {} => Calling(calls, b))
  BY DEF Flowing
<1>2. QueueClimbs(r, f) /\ QueuedIn(r, f) = Q \cup S
  <2>1. PICK x : x = <<"events", s>>
    OBVIOUS
  <2>2. x[1] = "events" /\ x[2] = s /\ Grown(q, x, r) /\ Below(Q, S)
    BY <1>1, <2>1 DEF Below
  <2> QED
    BY <1>1, <2>2, QueueGrown
<1>3. EventsIn(<<>>, f) = {} /\ Climbs(<<>>, f)
  BY NoEvents
<1>4. S = {} \/ T = {}
  OBVIOUS
<1> HIDE DEF Q, S, T
<1>5. Below(Members(W), (Q \cup S) \cup {} \cup T) /\ Below(Q \cup S, {} \cup T)
  BY <1>1, <1>4 DEF Below
<1>6. NumbersOf(calls) = Members(W) \cup (Q \cup S) \cup {} \cup T
  BY <1>1
<1> QED
  BY <1>1, <1>2, <1>3, <1>5, <1>6 DEF Flowing, T

\* The sinks take the first batch of the queue.
LEMMA FlowAccepts ==
    ASSUME NEW calls, NEW W, NEW q, NEW a, NEW s, NEW b, NEW t, NEW f,
           Flowing(calls, W, q, a, s, b, t, f), NEW r,
           Dropped(q, r), q[1][1] = "events", q[1][2] \in Seq(Items)
    PROVE  Flowing(calls, W \o ChunksOf(q[1][2], f), r, a, s, b, t, f)
<1> DEFINE Q == QueuedIn(q, f)
           R == QueuedIn(r, f)
           S == EventsIn(s, f)
           T == EventsIn(t, f)
<1>1. /\ QueueClimbs(q, f) /\ Climbs(s, f) /\ Climbs(t, f) /\ Below(Q, S \cup T)
      /\ Below(Members(W), Q \cup S \cup T) /\ NumbersOf(calls) = Members(W) \cup Q \cup S \cup T
      /\ W \in Seq(Nat) /\ Increasing(W)
      /\ (S # {} => Calling(calls, a)) /\ (T # {} => Calling(calls, b))
  BY DEF Flowing
<1>2. PICK e : e = q[1][2]
  OBVIOUS
<1>3. PICK C : C = ChunksOf(e, f)
  OBVIOUS
<1>4. /\ QueueClimbs(r, f) /\ Q = EventsIn(e, f) \cup R
      /\ Climbs(e, f) /\ Below(EventsIn(e, f), R)
  BY <1>1, <1>2, QueueDropped
<1>5. e \in Seq(Items)
  BY <1>2
<1>6. C \in Seq(Nat) /\ Members(C) = EventsIn(e, f) /\ Increasing(C)
  BY <1>3, <1>4, <1>5, ChunksAre
<1> HIDE DEF Q, R, S, T
<1>7. Below(Members(W), Members(C))
  BY <1>1, <1>4, <1>6 DEF Below
<1>8. /\ W \o C \in Seq(Nat) /\ Increasing(W \o C)
      /\ Members(W \o C) = Members(W) \cup Members(C)
  BY <1>1, <1>6, <1>7, GlueUp
<1>9. PICK V : V = W \o C
  OBVIOUS
<1>10. /\ Below(Members(V), R \cup S \cup T) /\ Below(R, S \cup T)
       /\ NumbersOf(calls) = Members(V) \cup R \cup S \cup T
  <2>1. Members(V) = Members(W) \cup EventsIn(e, f)
    BY <1>6, <1>8, <1>9
  <2>2. Below(Members(V), R \cup S \cup T) /\ Below(R, S \cup T)
    BY <1>1, <1>4, <2>1 DEF Below
  <2> QED
    BY <1>1, <1>4, <2>1, <2>2
<1>11. Flowing(calls, V, r, a, s, b, t, f)
  BY <1>1, <1>4, <1>8, <1>9, <1>10 DEF Flowing, R, S, T
<1> QED
  BY <1>2, <1>3, <1>9, <1>11

-----------------------------------------------------------------------------
(* The moves of events, which are all that matters of a step *)

ShardBatchesKept(S) == \A w \in S : wk'[w].events = wk[w].events
OffloadBatchesKept(S) == \A o \in S : off'[o].events = off[o].events

\* No event moves, but other messages may come and go.
Silent ==
    /\ UNCHANGED <<parsed, written>> /\ QuietQ(outQ, outQ', "events")
    /\ ShardBatchesKept(Workers) /\ OffloadBatchesKept(Offloads)

\* A shard takes down an event of a packet, parses a chunk or sends its batch.
AtShard(w) ==
    /\ UNCHANGED written /\ ShardBatchesKept(Workers \ {w}) /\ OffloadBatchesKept(Offloads)
Notes(w) ==
    /\ AtShard(w) /\ UNCHANGED <<parsed, outQ>>
    /\ \E g : Grown(wk[w].events, <<g, 0>>, wk'[w].events)
ShardParses(w) ==
    LET chunk == wk[w].todo[1]
    IN  /\ AtShard(w) /\ UNCHANGED outQ
        /\ chunk \in Chunks /\ 1 \in 1 .. Len(wk[w].todo)
        /\ Grown(wk[w].events, chunk, wk'[w].events)
        /\ parsed' = [parsed EXCEPT ![chunk[1]] = Append(@, <<"shard", w, chunk[2]>>)]
ShardFlushes(w) ==
    /\ AtShard(w) /\ UNCHANGED parsed
    /\ Grown(outQ, <<"events", wk[w].events>>, outQ') /\ wk'[w].events = <<>>

\* An offload worker parses the chunk of a task or sends its batch.
AtOffload(o) ==
    /\ UNCHANGED written /\ ShardBatchesKept(Workers) /\ OffloadBatchesKept(Offloads \ {o})
OffloadParses(o) ==
    LET task == offloadQ[o][1]
    IN  /\ AtOffload(o) /\ UNCHANGED outQ
        /\ task[1] = "task" /\ task[2] \in Chunks /\ 1 \in 1 .. Len(offloadQ[o])
        /\ Grown(off[o].events, task[2], off'[o].events)
        /\ parsed' = [parsed EXCEPT ![task[2][1]] = Append(@, <<"offload", o, task[2][2]>>)]
OffloadFlushes(o) ==
    /\ AtOffload(o) /\ UNCHANGED parsed
    /\ Grown(outQ, <<"events", off[o].events>>, outQ') /\ off'[o].events = <<>>

\* The sinks take a batch, or refuse it.
Accepts ==
    /\ UNCHANGED parsed /\ ShardBatchesKept(Workers) /\ OffloadBatchesKept(Offloads)
    /\ Dropped(outQ, outQ') /\ outQ[1][1] = "events" /\ outQ[1][2] \in Seq(Items)
    /\ written' = [f \in Flows |-> written[f] \o ChunksOf(outQ[1][2], f)]
Refuses ==
    /\ UNCHANGED <<parsed, written>> /\ ShardBatchesKept(Workers) /\ OffloadBatchesKept(Offloads)
    /\ ~ NoFault'

\* Adding to a sequence, and a message to the output queue.
LEMMA SeqAppend ==
    ASSUME NEW S, NEW s \in Seq(S), NEW e \in S
    PROVE  Grown(s, e, Append(s, e))
  BY LenProperties, AppendProperties DEF Grown

\* Sending to the output queue puts the message at its end.
LEMMA OutGrown ==
    ASSUME TInv, OutRoom, NEW m \in Messages
    PROVE  Grown(outQ, m, Append(outQ, m))
  BY ChannelSteps, PipelineAssumption DEF TInv, OutRoom

\* A fault is counted.
LEMMA FaultShows ==
    ASSUME TInv, NEW kind, Fault(kind)
    PROVE  ~ NoFault'
<1>1. /\ left.faults \in 0 .. MaxFaults /\ MaxFaults \in Nat
      /\ DOMAIN left = {"packets", "snapshots", "faults"}
  BY PipelineAssumption DEF TInv
<1> QED
  BY <1>1 DEF NoFault, Fault

\* What a step of a shard does to the events: nothing, an event that is not of a chunk,
\* a parsed chunk, or a flush.
LEMMA ShardEventMoves ==
    ASSUME TInv, NEW w \in Workers,
           WorkerThread(w) \/ WorkerPanics(w) \/ WorkerSnapshot(w)
    PROVE  Silent \/ Notes(w) \/ ShardParses(w) \/ ShardFlushes(w)
<1>a. /\ wk \in [Workers -> WkState] /\ wk[w] \in WkState /\ wk[w] \in WkRecord
      /\ wk[w].events \in Seq(Items) /\ wk[w].todo \in Seq(Chunks) /\ wk[w].stats \in StatsType
      /\ workerQ \in [Workers -> Channel(Commands, WorkerDepth)]
  BY WorkerHas DEF TInv, WkState, WkRecord
<1>q. ASSUME UNCHANGED <<parsed, written, off>>, QuietQ(outQ, outQ', "events"),
             \A v \in Workers \ {w} : wk'[v] = wk[v], wk'[w].events = wk[w].events
      PROVE  Silent
  BY <1>q DEF Silent, ShardBatchesKept, OffloadBatchesKept
<1>u. ASSUME UNCHANGED <<parsed, written, off, outQ>>,
             \A v \in Workers \ {w} : wk'[v] = wk[v], wk'[w].events = wk[w].events
      PROVE  Silent
  BY <1>q, <1>u DEF QuietQ
<1>s. ASSUME UNCHANGED <<written, off>>, \A v \in Workers \ {w} : wk'[v] = wk[v]
      PROVE  AtShard(w)
  BY <1>s DEF AtShard, ShardBatchesKept, OffloadBatchesKept
<1>1. CASE WorkerPacket(w)
  <2> DEFINE packet == Head(workerQ[w])
             e == <<packet[2], 0>>
  <2>1. e \in Items
    BY <1>1, WorkerHas, Kinds DEF WorkerPacket, Items
  <2>2. Grown(wk[w].events, e, Append(wk[w].events, e))
    BY <1>a, <2>1, SeqAppend
  <2>3. /\ wk'[w].events = Append(wk[w].events, e) /\ \A v \in Workers \ {w} : wk'[v] = wk[v]
        /\ UNCHANGED <<parsed, outQ, written, off>>
    BY <1>1, <1>a DEF WorkerPacket, WkState, WkRecord
  <2> HIDE DEF packet
  <2> QED
    BY <1>s, <2>2, <2>3 DEF Notes
<1>2. CASE WorkerSlice(w) \/ WorkerShutdown(w) \/ WorkerFlushDue(w)
  BY <1>2, <1>a, <1>u DEF WorkerSlice, WorkerShutdown, WorkerFlushDue, WkState, WkRecord
<1>3. ASSUME NEW events, NEW table, NEW stats, ChunkDone(w, events, table, stats)
      PROVE  wk'[w].events = events /\ \A v \in Workers \ {w} : wk'[v] = wk[v]
  BY <1>3, <1>a DEF ChunkDone
<1>4. CASE WorkerChunk(w) \/ WorkerUnblock(w)
  <2>1. /\ wk[w].pc \in {"chunks", "blocked"} /\ UNCHANGED <<outQ, written, off>>
    BY <1>4 DEF WorkerChunk, WorkerUnblock
  <2>2. /\ wk[w].todo[1] = Head(wk[w].todo) /\ wk[w].todo[1] \in Chunks /\ wk[w].todo[1] \in Items
        /\ 1 \in 1 .. Len(wk[w].todo)
    <3>1. wk[w].todo # <<>> /\ Head(wk[w].todo) \in Chunks /\ Head(wk[w].todo) \in Items
      BY <1>a, <2>1, ChunkAtHand DEF WkState
    <3>2. Len(wk[w].todo) \in Nat \ {0}
      BY <2>1, ChunkAtHand
    <3> QED
      BY <1>a, <3>1, <3>2, HeadTailProperties
  <2>3. \/ \E table, stats : ParseHere(w, table, stats)
        \/ UNCHANGED parsed /\ \E table, stats : ChunkDone(w, wk[w].events, table, stats)
        \/ UNCHANGED parsed /\ wk' = [wk EXCEPT ![w].pc = "blocked"]
    BY <1>4 DEF WorkerChunk, WorkerUnblock, Submit
  <2>4. ASSUME NEW table, NEW stats, ParseHere(w, table, stats)
        PROVE  ShardParses(w)
    <3> DEFINE chunk == wk[w].todo[1]
    <3>1. /\ ChunkDone(w, Append(wk[w].events, chunk), table, stats)
          /\ parsed' = [parsed EXCEPT ![chunk[1]] = Append(@, <<"shard", w, chunk[2]>>)]
      BY <2>2, <2>4 DEF ParseHere
    <3>2. Grown(wk[w].events, chunk, Append(wk[w].events, chunk))
      BY <1>a, <2>2, SeqAppend
    <3> QED
      BY <1>3, <1>s, <2>1, <2>2, <3>1, <3>2 DEF ShardParses
  <2>5. ASSUME UNCHANGED parsed, NEW table, NEW stats, ChunkDone(w, wk[w].events, table, stats)
        PROVE  Silent
    BY <1>3, <1>u, <2>1, <2>5
  <2>6. ASSUME UNCHANGED parsed, wk' = [wk EXCEPT ![w].pc = "blocked"]
        PROVE  Silent
    BY <1>a, <1>u, <2>1, <2>6 DEF WkState, WkRecord
  <2> QED
    BY <2>3, <2>4, <2>5, <2>6
<1>5. CASE WorkerFails(w) \/ WorkerPanics(w)
  BY <1>5, <1>a, <1>u DEF WorkerFails, WorkerPanics, WorkerEndsEarly, WkState, WkRecord
<1>6. CASE WorkerFlush(w)
  <2>1. <<"events", wk[w].events>> \in Messages /\ OutRoom
    BY <1>6, <1>a DEF WorkerFlush, Messages, EventMessages
  <2>2. Grown(outQ, <<"events", wk[w].events>>, Append(outQ, <<"events", wk[w].events>>))
    BY <2>1, OutGrown
  <2>3. /\ wk'[w].events = <<>> /\ \A v \in Workers \ {w} : wk'[v] = wk[v]
        /\ UNCHANGED <<parsed, written, off>>
    BY <1>6, <1>a DEF WorkerFlush, WkState, WkRecord
  <2> QED
    BY <1>6, <1>s, <2>2, <2>3 DEF WorkerFlush, ShardFlushes
<1>7. ASSUME NEW kind \in {"stats", "statsSnapshot"}, OutRoom,
             outQ' = Append(outQ, <<kind, w, wk[w].stats>>)
      PROVE  QuietQ(outQ, outQ', "events")
  <2>1. <<kind, w, wk[w].stats>> \in Messages
    BY <1>a DEF Messages, ShardMessages
  <2>2. Grown(outQ, <<kind, w, wk[w].stats>>, outQ') /\ <<kind, w, wk[w].stats>>[1] # "events"
    BY <1>7, <2>1, OutGrown
  <2> QED
    BY <2>2 DEF QuietQ
<1>8. CASE WorkerReport(w)
  <2>1. QuietQ(outQ, outQ', "events")
    BY <1>7, <1>8 DEF WorkerReport
  <2> QED
    BY <1>8, <1>a, <1>q, <2>1 DEF WorkerReport, WkState, WkRecord
<1>9. CASE WorkerSnapshot(w)
  <2>1. QuietQ(outQ, outQ', "events")
    BY <1>7, <1>9 DEF WorkerSnapshot
  <2> QED
    BY <1>9, <1>q, <2>1 DEF WorkerSnapshot
<1> QED
  BY <1>1, <1>2, <1>4, <1>5, <1>6, <1>8, <1>9 DEF WorkerThread

\* What a step of an offload worker does to the events.
LEMMA OffloadEventMoves ==
    ASSUME TInv, NEW o \in Offloads,
           OffloadThread(o) \/ OffloadPanics(o) \/ OffloadSnapshot(o)
    PROVE  Silent \/ OffloadParses(o) \/ OffloadFlushes(o)
<1>a. /\ off \in [Offloads -> OffState] /\ off[o] \in OffState
      /\ off[o].events \in Seq(Items) /\ off[o].processed \in Nat
      /\ offloadQ[o] \in Channel(Tasks, OffloadDepth) /\ OffloadDepth \in Nat
  BY PipelineAssumption DEF TInv, OffState
<1>q. ASSUME UNCHANGED <<parsed, written, wk>>, QuietQ(outQ, outQ', "events"),
             \A p \in Offloads \ {o} : off'[p] = off[p], off'[o].events = off[o].events
      PROVE  Silent
  BY <1>q DEF Silent, ShardBatchesKept, OffloadBatchesKept
<1>u. ASSUME UNCHANGED <<parsed, written, wk, outQ>>,
             \A p \in Offloads \ {o} : off'[p] = off[p], off'[o].events = off[o].events
      PROVE  Silent
  BY <1>q, <1>u DEF QuietQ
<1>s. ASSUME UNCHANGED <<written, wk>>, \A p \in Offloads \ {o} : off'[p] = off[p]
      PROVE  AtOffload(o)
  BY <1>s DEF AtOffload, ShardBatchesKept, OffloadBatchesKept
<1>1. CASE OffloadTask(o)
  <2> DEFINE task == offloadQ[o][1]
  <2>1. /\ Head(offloadQ[o]) = task /\ task \in Tasks /\ task[1] = "task" /\ task[2] \in Chunks
        /\ 1 \in 1 .. Len(offloadQ[o])
    <3>1. offloadQ[o] # <<>> /\ Head(offloadQ[o])[1] = "task"
      BY <1>1 DEF OffloadTask
    <3>2. /\ Head(offloadQ[o]) = task /\ task \in Tasks /\ Len(offloadQ[o]) \in Nat \ {0}
      BY <1>a, <3>1, ChannelHead
    <3> QED
      BY <3>1, <3>2, Kinds
  <2>2. task[2] \in Items
    BY <2>1 DEF Chunks, Items
  <2>3. Grown(off[o].events, task[2], Append(off[o].events, task[2]))
    BY <1>a, <2>2, SeqAppend
  <2>4. /\ off'[o].events = Append(off[o].events, task[2]) /\ \A p \in Offloads \ {o} : off'[p] = off[p]
        /\ parsed' = [parsed EXCEPT ![task[2][1]] = Append(@, <<"offload", o, task[2][2]>>)]
        /\ UNCHANGED <<outQ, written, wk>>
    <3>1. /\ off' = [off EXCEPT ![o] = [pc |-> AfterCommand(Append(off[o].events, task[2])),
                                        events |-> Append(off[o].events, task[2]),
                                        processed |-> @.processed + 1]]
          /\ parsed' = [parsed EXCEPT ![task[2][1]] = Append(@, <<"offload", o, task[2][2]>>)]
          /\ UNCHANGED <<outQ, written, wk>>
      BY <1>1, <2>1 DEF OffloadTask
    <3> QED
      BY <1>a, <3>1
  <2> QED
    BY <1>s, <2>1, <2>3, <2>4 DEF OffloadParses
<1>2. CASE OffloadShutdown(o) \/ OffloadFlushDue(o) \/ OffloadPanics(o)
  BY <1>2, <1>a, <1>u DEF OffloadShutdown, OffloadFlushDue, OffloadPanics, OffState
<1>3. CASE OffloadFlush(o)
  <2>1. <<"events", off[o].events>> \in Messages /\ OutRoom
    BY <1>3, <1>a DEF OffloadFlush, Messages, EventMessages
  <2>2. Grown(outQ, <<"events", off[o].events>>, Append(outQ, <<"events", off[o].events>>))
    BY <2>1, OutGrown
  <2>3. /\ off'[o].events = <<>> /\ \A p \in Offloads \ {o} : off'[p] = off[p]
        /\ UNCHANGED <<parsed, written, wk>>
    BY <1>3, <1>a DEF OffloadFlush, OffState
  <2> QED
    BY <1>3, <1>s, <2>2, <2>3 DEF OffloadFlush, OffloadFlushes
<1>4. ASSUME NEW kind \in {"offloadStats", "offloadSnapshot"}, OutRoom,
             outQ' = Append(outQ, <<kind, o, off[o].processed>>)
      PROVE  QuietQ(outQ, outQ', "events")
  <2>1. <<kind, o, off[o].processed>> \in Messages
    BY <1>a DEF Messages, OffloadMessages
  <2>2. Grown(outQ, <<kind, o, off[o].processed>>, outQ') /\ <<kind, o, off[o].processed>>[1] # "events"
    BY <1>4, <2>1, OutGrown
  <2> QED
    BY <2>2 DEF QuietQ
<1>5. CASE OffloadReport(o)
  <2>1. QuietQ(outQ, outQ', "events")
    BY <1>4, <1>5 DEF OffloadReport
  <2> QED
    BY <1>5, <1>a, <1>q, <2>1 DEF OffloadReport, OffState
<1>6. CASE OffloadSnapshot(o)
  <2>1. QuietQ(outQ, outQ', "events")
    BY <1>4, <1>6 DEF OffloadSnapshot
  <2> QED
    BY <1>6, <1>q, <2>1 DEF OffloadSnapshot
<1> QED
  BY <1>1, <1>2, <1>3, <1>5, <1>6 DEF OffloadThread

\* What any step does to the events, those of the output worker included.
LEMMA EventMoves ==
    ASSUME TInv, [Next]_vars
    PROVE  \/ Silent \/ Accepts \/ Refuses
           \/ \E w \in Workers : Notes(w) \/ ShardParses(w) \/ ShardFlushes(w)
           \/ \E o \in Offloads : OffloadParses(o) \/ OffloadFlushes(o)
<1>u. ASSUME UNCHANGED <<wk, off, outQ, parsed, written>>
      PROVE  Silent
  BY <1>u DEF Silent, QuietQ, ShardBatchesKept, OffloadBatchesKept
<1>1. CASE UNCHANGED vars
  BY <1>1, <1>u DEF vars
<1>2. CASE \E w \in Workers : WorkerThread(w) \/ WorkerPanics(w) \/ WorkerSnapshot(w)
  BY <1>2, ShardEventMoves
<1>3. CASE \E o \in Offloads : OffloadThread(o) \/ OffloadPanics(o) \/ OffloadSnapshot(o)
  BY <1>3, OffloadEventMoves
<1>4. ASSUME TakeMessage, outQ # <<>>, UNCHANGED <<wk, off, parsed>>
      PROVE  Silent \/ Accepts \/ Refuses
  <2>1. /\ Dropped(outQ, outQ') /\ Head(outQ) = outQ[1] /\ outQ[1] \in Messages
    <3>1. outQ' = Tail(outQ) /\ outQ \in Channel(Messages, EventDepth) /\ EventDepth \in Nat
      BY <1>4, PipelineAssumption DEF TakeMessage, TInv
    <3> QED
      BY <1>4, <3>1, ChannelSteps, ChannelHead
  <2>2. \/ outQ[1][1] # "events" /\ UNCHANGED written
        \/ /\ outQ[1][1] = "events"
           /\ written' = [f \in Flows |-> written[f] \o ChunksOf(outQ[1][2], f)]
        \/ Fault("sink") /\ UNCHANGED written
    BY <1>4, <2>1 DEF TakeMessage
  <2>3. outQ[1][1] # "events" => QuietQ(outQ, outQ', "events")
    BY <2>1 DEF QuietQ
  <2>4. outQ[1][1] = "events" => outQ[1][2] \in Seq(Items)
    BY <2>1, Kinds
  <2>5. ShardBatchesKept(Workers) /\ OffloadBatchesKept(Offloads)
    BY <1>4 DEF ShardBatchesKept, OffloadBatchesKept
  <2> QED
    BY <1>4, <2>1, <2>2, <2>3, <2>4, <2>5, FaultShows DEF Silent, Accepts, Refuses
<1>5. CASE CoordThread
  <2>1. \/ UNCHANGED <<wk, off, outQ, parsed, written>>
        \/ TakeMessage /\ outQ # <<>> /\ UNCHANGED <<wk, off, parsed>>
    BY <1>5 DEF CoordThread, CoordDrainDue, CoordSend, CoordDrain, CoordDrained, CoordStopShard,
                CoordStopOffload, CoordCollect, CoordCollected, CoordJoin
  <2> QED
    BY <1>4, <1>u, <2>1
<1>6. ASSUME NEW f \in Flows, NEW n \in ChunksPerPacket, CoordPacket(f, n)
      PROVE  Silent
  BY <1>6, <1>u DEF CoordPacket
<1>7. CoordEnd => Silent
  BY <1>u DEF CoordEnd
<1>8. ASSUME NEW r \in Slices, SliceTimeout(r) \/ \E w \in Workers : SliceAsk(r, w)
      PROVE  Silent
  BY <1>8, <1>u DEF SliceTimeout, SliceAsk
<1> QED
  BY <1>1, <1>2, <1>3, <1>5, <1>6, <1>7, <1>8 DEF Next, Ended

-----------------------------------------------------------------------------
(* The invariant is inductive *)

\* A thread goes on having events only of chunks it may parse.
LEMMA HomelyKept ==
    ASSUME TInv, Sound, Homely, [Next]_vars
    PROVE  Homely'
<1> DEFINE shardHome(w) == \A f \in Flows : Shard[f] # w => EventsIn(wk'[w].events, f) = {}
           offloadHome(o) == \A f \in Flows : OffloadShard[f] # o => EventsIn(off'[o].events, f) = {}
<1>1. ASSUME NEW w \in Workers, wk'[w].events = wk[w].events
      PROVE  shardHome(w)
  BY <1>1 DEF Homely
<1>2. ASSUME NEW o \in Offloads, off'[o].events = off[o].events
      PROVE  offloadHome(o)
  BY <1>2 DEF Homely
<1>3. ASSUME NEW w \in Workers, Notes(w) \/ ShardParses(w) \/ ShardFlushes(w)
      PROVE  shardHome(w)
  <2>1. ASSUME NEW g, Grown(wk[w].events, <<g, 0>>, wk'[w].events), NEW f \in Flows, Shard[f] # w
        PROVE  EventsIn(wk'[w].events, f) = {}
    <3>1. PICK e, s, t : e = <<g, 0>> /\ s = wk[w].events /\ t = wk'[w].events
      OBVIOUS
    <3>2. Grown(s, e, t) /\ ~ IsChunkOf(e, f) /\ EventsIn(s, f) = {}
      BY <2>1, <3>1 DEF IsChunkOf, Homely
    <3>3. EventsIn(t, f) = EventsIn(s, f) \cup {}
      BY <3>2, BatchGrown
    <3> QED
      BY <3>1, <3>2, <3>3
  <2>2. ASSUME ShardParses(w), NEW f \in Flows, Shard[f] # w
        PROVE  EventsIn(wk'[w].events, f) = {}
    <3>1. PICK e, s, t : e = wk[w].todo[1] /\ s = wk[w].events /\ t = wk'[w].events
      OBVIOUS
    <3>2. Shard[e[1]] = w
      BY <2>2, <3>1 DEF ShardParses, Sound, HandSound
    <3>3. Grown(s, e, t) /\ ~ IsChunkOf(e, f) /\ EventsIn(s, f) = {}
      BY <2>2, <3>1, <3>2 DEF ShardParses, IsChunkOf, Homely
    <3>4. EventsIn(t, f) = EventsIn(s, f) \cup {}
      BY <3>3, BatchGrown
    <3> QED
      BY <3>1, <3>3, <3>4
  <2>3. ShardFlushes(w) => shardHome(w)
    BY NoEvents DEF ShardFlushes
  <2> QED
    BY <1>3, <2>1, <2>2, <2>3 DEF Notes
<1>4. ASSUME NEW o \in Offloads, OffloadParses(o) \/ OffloadFlushes(o)
      PROVE  offloadHome(o)
  <2>1. ASSUME OffloadParses(o), NEW f \in Flows, OffloadShard[f] # o
        PROVE  EventsIn(off'[o].events, f) = {}
    <3>1. PICK e, s, t : e = offloadQ[o][1][2] /\ s = off[o].events /\ t = off'[o].events
      OBVIOUS
    <3>2. OffloadShard[e[1]] = o
      BY <2>1, <3>1 DEF OffloadParses, Sound, TasksSound
    <3>3. Grown(s, e, t) /\ ~ IsChunkOf(e, f) /\ EventsIn(s, f) = {}
      BY <2>1, <3>1, <3>2 DEF OffloadParses, IsChunkOf, Homely
    <3>4. EventsIn(t, f) = EventsIn(s, f) \cup {}
      BY <3>3, BatchGrown
    <3> QED
      BY <3>1, <3>3, <3>4
  <2>2. OffloadFlushes(o) => offloadHome(o)
    BY NoEvents DEF OffloadFlushes
  <2> QED
    BY <1>4, <2>1, <2>2
<1>5. (\A w \in Workers : shardHome(w)) /\ \A o \in Offloads : offloadHome(o)
  <2>1. CASE ShardBatchesKept(Workers) /\ OffloadBatchesKept(Offloads)
    BY <1>1, <1>2, <2>1 DEF ShardBatchesKept, OffloadBatchesKept
  <2>2. ASSUME NEW w \in Workers, Notes(w) \/ ShardParses(w) \/ ShardFlushes(w)
        PROVE  (\A v \in Workers : shardHome(v)) /\ \A o \in Offloads : offloadHome(o)
    <3>1. ShardBatchesKept(Workers \ {w}) /\ OffloadBatchesKept(Offloads)
      BY <2>2 DEF Notes, ShardParses, ShardFlushes, AtShard
    <3>2. \A v \in Workers \ {w} : shardHome(v)
      BY <1>1, <3>1 DEF ShardBatchesKept
    <3>3. \A o \in Offloads : offloadHome(o)
      BY <1>2, <3>1 DEF OffloadBatchesKept
    <3> HIDE DEF shardHome, offloadHome
    <3> QED
      BY <1>3, <2>2, <3>2, <3>3
  <2>3. ASSUME NEW o \in Offloads, OffloadParses(o) \/ OffloadFlushes(o)
        PROVE  (\A v \in Workers : shardHome(v)) /\ \A p \in Offloads : offloadHome(p)
    <3>1. ShardBatchesKept(Workers) /\ OffloadBatchesKept(Offloads \ {o})
      BY <2>3 DEF OffloadParses, OffloadFlushes, AtOffload
    <3>2. \A p \in Offloads \ {o} : offloadHome(p)
      BY <1>2, <3>1 DEF OffloadBatchesKept
    <3>3. \A v \in Workers : shardHome(v)
      BY <1>1, <3>1 DEF ShardBatchesKept
    <3> HIDE DEF shardHome, offloadHome
    <3> QED
      BY <1>4, <2>3, <3>2, <3>3
  <2> HIDE DEF shardHome, offloadHome
  <2> QED
    BY <2>1, <2>2, <2>3, EventMoves DEF Silent, Accepts, Refuses
<1> QED
  BY <1>5 DEF Homely

\* Only one of the two threads of a flow has parsed any of it.
LEMMA OneBatch ==
    ASSUME Placed, NEW f \in Flows, NEW W, NEW q,
           Flowing(parsed[f], W, q, "shard", ShardBatch(f), "offload", OffloadBatch(f), f)
    PROVE  EventsIn(ShardBatch(f), f) = {} \/ EventsIn(OffloadBatch(f), f) = {}
<1>1. Here(f) \/ There(f)
  BY DEF Placed, FlowPlaced
<1>2. ~ (Calling(parsed[f], "shard") /\ Calling(parsed[f], "offload"))
  BY <1>1 DEF Here, There, Calling
<1> QED
  BY <1>2 DEF Flowing

\* A new parser call has the highest number yet.
LEMMA CallIsNext ==
    ASSUME TInv, Ordered', NEW f \in Flows, NEW c \in Calls, parsed'[f] = Append(parsed[f], c)
    PROVE  Grown(parsed[f], c, parsed'[f]) /\ \A k \in NumbersOf(parsed[f]) : k < c[3]
<1>1. PICK s, t : s = parsed[f] /\ t = parsed'[f]
  OBVIOUS
<1>2. s \in Seq(Calls) /\ t = Append(s, c)
  BY <1>1 DEF TInv
<1>3. Grown(s, c, t)
  BY <1>2, SeqAppend
<1>4. \A i, j \in 1 .. Len(t) : i < j => t[i][3] < t[j][3]
  BY <1>1 DEF Ordered, Lined
<1>5. \A i \in 1 .. Len(s) : /\ t[i] = s[i] /\ i \in 1 .. Len(t) /\ i < Len(s) + 1
                             /\ Len(s) + 1 \in 1 .. Len(t) /\ t[Len(s) + 1] = c
  BY <1>3 DEF Grown
<1>6. \A i \in 1 .. Len(s) : s[i][3] < c[3]
  BY <1>4, <1>5
<1> QED
  BY <1>1, <1>3, <1>6 DEF NumbersOf

\* The places of a flow's events stay in order as long as nothing has failed.
LEMMA FlowDelivered ==
    ASSUME TInv, Sound, Placed, Homely, Ordered', NEW f \in Flows, [Next]_vars, NoFault',
           Flowing(parsed[f], written[f], outQ, "shard", ShardBatch(f), "offload", OffloadBatch(f), f)
    PROVE  Flowing(parsed[f], written[f], outQ, "shard", ShardBatch(f), "offload", OffloadBatch(f), f)'
<1> DEFINE w == Shard[f]
           o == OffloadShard[f]
<1>a. /\ w \in Workers /\ (OffloadCount # 0 => o \in Offloads)
      /\ ShardBatch(f) = wk[w].events /\ ShardBatch(f)' = wk'[w].events
      /\ OffloadBatch(f) = IF OffloadCount = 0 THEN <<>> ELSE off[o].events
      /\ OffloadBatch(f)' = IF OffloadCount = 0 THEN <<>> ELSE off'[o].events
  BY PipelineAssumption DEF ShardBatch, OffloadBatch
<1>b. PICK s, t, u, v, q, r, W, V, calls, next :
        /\ s = ShardBatch(f) /\ t = OffloadBatch(f) /\ u = ShardBatch(f)' /\ v = OffloadBatch(f)'
        /\ q = outQ /\ r = outQ' /\ W = written[f] /\ V = written'[f]
        /\ calls = parsed[f] /\ next = parsed'[f]
  OBVIOUS
<1>c. Flowing(calls, W, q, "shard", s, "offload", t, f)
  BY <1>b
<1> HIDE DEF w, o
<1> SUFFICES Flowing(next, V, r, "shard", u, "offload", v, f)
  BY <1>b
<1>d. /\ Climbs(s, f) /\ Climbs(t, f) /\ QueueClimbs(q, f)
      /\ EventsIn(s, f) = {} \/ EventsIn(t, f) = {}
  BY <1>b, <1>c, OneBatch DEF Flowing
<1>e. QueueClimbs(r, f) /\ QueuedIn(r, f) = QueuedIn(q, f)
      => Flowing(calls, W, r, "shard", s, "offload", t, f)
  BY <1>c, <1>d, FlowRests
\* The batches of the threads that do not move stay.
<1>f. /\ \A S : ShardBatchesKept(S) /\ w \in S => u = s
      /\ \A S : OffloadBatchesKept(S) /\ (OffloadCount # 0 => o \in S) => v = t
  BY <1>a, <1>b DEF ShardBatchesKept, OffloadBatchesKept
<1>1. CASE Silent
  <2>1. u = s /\ v = t /\ next = calls /\ V = W /\ QuietQ(q, r, "events")
    BY <1>1, <1>a, <1>b, <1>f DEF Silent
  <2>2. QueueClimbs(r, f) /\ QueuedIn(r, f) = QueuedIn(q, f)
    BY <1>d, <2>1, QueueRests
  <2> QED
    BY <1>e, <2>1, <2>2
<1>2. CASE Accepts
  <2>1. /\ u = s /\ v = t /\ next = calls /\ Dropped(q, r) /\ q[1][1] = "events" /\ q[1][2] \in Seq(Items)
        /\ V = W \o ChunksOf(q[1][2], f)
    BY <1>2, <1>a, <1>b, <1>f DEF Accepts
  <2> QED
    BY <1>c, <2>1, FlowAccepts
<1>3. ~ Refuses
  BY DEF Refuses
<1>4. ASSUME NEW x \in Workers, Notes(x)
      PROVE  Flowing(next, V, r, "shard", u, "offload", v, f)
  <2>1. v = t /\ next = calls /\ V = W /\ r = q /\ (x # w => u = s)
    BY <1>4, <1>a, <1>b, <1>f DEF Notes, AtShard
  <2>2. CASE x = w
    <3>1. PICK g : Grown(s, <<g, 0>>, u)
      BY <1>4, <1>a, <1>b, <2>2 DEF Notes
    <3>2. PICK e : e = <<g, 0>>
      OBVIOUS
    <3>3. Grown(s, e, u) /\ ~ IsChunkOf(e, f)
      BY <3>1, <3>2 DEF IsChunkOf
    <3>4. EventsIn(u, f) = EventsIn(s, f) \cup {} /\ Climbs(u, f)
      BY <1>d, <3>3, BatchGrown
    <3>5. EventsIn(u, f) = EventsIn(s, f)
      BY <3>4
    <3> QED
      BY <1>c, <1>d, <2>1, <3>4, <3>5, FlowRests
  <2> QED
    BY <1>c, <2>1, <2>2
<1>5. ASSUME NEW x \in Workers, ShardParses(x)
      PROVE  Flowing(next, V, r, "shard", u, "offload", v, f)
  <2>1. PICK e : e = wk[x].todo[1]
    OBVIOUS
  <2>2. /\ v = t /\ V = W /\ r = q /\ (x # w => u = s)
        /\ Grown(wk[x].events, e, wk'[x].events) /\ e \in Chunks /\ Shard[e[1]] = x
    BY <1>5, <1>a, <1>b, <1>f, <2>1 DEF ShardParses, AtShard, Sound, HandSound
  <2>3. e[2] \in Nat \ {0} /\ e = <<e[1], e[2]>> /\ e[1] \in Flows
    BY <2>2 DEF Chunks
  <2>4. CASE e[1] = f
    <3>1. PICK c : c = <<"shard", x, e[2]>>
      OBVIOUS
    <3>2. c \in Calls /\ c[1] = "shard" /\ c[3] = e[2]
      BY <2>3, <3>1 DEF Calls
    <3>3. parsed'[f] = Append(parsed[f], c)
      BY <1>5, <2>1, <2>4, <3>1 DEF ShardParses, TInv
    <3>4. Grown(calls, c, next) /\ \A k \in NumbersOf(calls) : k < c[3]
      BY <1>b, <3>2, <3>3, CallIsNext
    <3>5. x = w /\ e = <<f, c[3]>>
      BY <2>2, <2>3, <2>4, <3>2 DEF w
    <3>6. Grown(s, <<f, c[3]>>, u) /\ IsChunkOf(<<f, c[3]>>, f)
      BY <1>a, <1>b, <2>2, <2>3, <3>2, <3>5 DEF IsChunkOf
    <3> QED
      BY <1>c, <2>2, <3>2, <3>4, <3>6, FlowParses
  <2>5. CASE e[1] # f
    <3>1. next = calls
      BY <1>5, <1>b, <2>1, <2>5 DEF ShardParses, TInv
    <3>2. EventsIn(u, f) = EventsIn(s, f) /\ Climbs(u, f)
      <4>1. CASE x = w
        <5>1. Grown(s, e, u) /\ ~ IsChunkOf(e, f)
          BY <1>a, <1>b, <2>2, <2>5, <4>1 DEF IsChunkOf
        <5>2. EventsIn(u, f) = EventsIn(s, f) \cup {} /\ Climbs(u, f)
          BY <1>d, <5>1, BatchGrown
        <5> QED
          BY <5>2
      <4> QED
        BY <1>d, <2>2, <4>1
    <3> QED
      BY <1>c, <1>d, <2>2, <3>1, <3>2, FlowRests
  <2> QED
    BY <2>4, <2>5
<1>6. ASSUME NEW x \in Workers, ShardFlushes(x)
      PROVE  Flowing(next, V, r, "shard", u, "offload", v, f)
  <2>1. PICK m : m = <<"events", wk[x].events>>
    OBVIOUS
  <2>2. /\ v = t /\ V = W /\ next = calls /\ (x # w => u = s) /\ wk'[x].events = <<>>
        /\ Grown(q, m, r) /\ m[1] = "events" /\ m[2] = wk[x].events
    BY <1>6, <1>a, <1>b, <1>f, <2>1 DEF ShardFlushes, AtShard
  <2>3. CASE x = w
    <3>1. u = <<>> /\ Grown(q, <<"events", s>>, r)
      BY <1>a, <1>b, <2>1, <2>2, <2>3
    <3> QED
      BY <1>c, <1>d, <2>2, <3>1, FlowFlushes
  <2>4. CASE x # w
    <3>1. EventsIn(m[2], f) = {}
      BY <2>2, <2>4 DEF Homely, w
    <3>2. QueueClimbs(r, f) /\ QueuedIn(r, f) = QueuedIn(q, f)
      BY <1>d, <2>2, <3>1, QueueRests
    <3> QED
      BY <1>e, <2>2, <2>4, <3>2
  <2> QED
    BY <2>3, <2>4
<1>g. Flowing(calls, W, q, "offload", t, "shard", s, f)
  BY <1>c, FlowSwaps
<1>7. ASSUME NEW x \in Offloads, OffloadParses(x)
      PROVE  Flowing(next, V, r, "shard", u, "offload", v, f)
  <2>0. OffloadCount # 0
    BY PipelineAssumption DEF Offloads
  <2>1. PICK e : e = offloadQ[x][1][2]
    OBVIOUS
  <2>2. /\ u = s /\ V = W /\ r = q /\ (x # o => v = t)
        /\ Grown(off[x].events, e, off'[x].events) /\ e \in Chunks /\ OffloadShard[e[1]] = x
    BY <1>7, <1>a, <1>b, <1>f, <2>1 DEF OffloadParses, AtOffload, Sound, TasksSound
  <2>3. e[2] \in Nat \ {0} /\ e = <<e[1], e[2]>> /\ e[1] \in Flows
    BY <2>2 DEF Chunks
  <2>4. CASE e[1] = f
    <3>1. PICK c : c = <<"offload", x, e[2]>>
      OBVIOUS
    <3>2. c \in Calls /\ c[1] = "offload" /\ c[3] = e[2]
      BY <2>3, <3>1 DEF Calls
    <3>3. parsed'[f] = Append(parsed[f], c)
      BY <1>7, <2>1, <2>4, <3>1 DEF OffloadParses, TInv
    <3>4. Grown(calls, c, next) /\ \A k \in NumbersOf(calls) : k < c[3]
      BY <1>b, <3>2, <3>3, CallIsNext
    <3>5. x = o /\ e = <<f, c[3]>>
      BY <2>2, <2>3, <2>4, <3>2 DEF o
    <3>6. Grown(t, <<f, c[3]>>, v) /\ IsChunkOf(<<f, c[3]>>, f)
      BY <1>a, <1>b, <2>0, <2>2, <2>3, <3>2, <3>5 DEF IsChunkOf
    <3>7. Flowing(next, W, q, "offload", v, "shard", s, f)
      BY <1>g, <3>2, <3>4, <3>6, FlowParses
    <3> QED
      BY <2>2, <3>7, FlowSwaps
  <2>5. CASE e[1] # f
    <3>1. next = calls
      BY <1>7, <1>b, <2>1, <2>5 DEF OffloadParses, TInv
    <3>2. EventsIn(v, f) = EventsIn(t, f) /\ Climbs(v, f)
      <4>1. CASE x = o
        <5>1. Grown(t, e, v) /\ ~ IsChunkOf(e, f)
          BY <1>a, <1>b, <2>0, <2>2, <2>5, <4>1 DEF IsChunkOf
        <5>2. EventsIn(v, f) = EventsIn(t, f) \cup {} /\ Climbs(v, f)
          BY <1>d, <5>1, BatchGrown
        <5> QED
          BY <5>2
      <4> QED
        BY <1>d, <2>2, <4>1
    <3>3. Flowing(calls, W, q, "offload", v, "shard", s, f)
      BY <1>g, <1>d, <3>2, FlowRests
    <3> QED
      BY <2>2, <3>1, <3>3, FlowSwaps
  <2> QED
    BY <2>4, <2>5
<1>8. ASSUME NEW x \in Offloads, OffloadFlushes(x)
      PROVE  Flowing(next, V, r, "shard", u, "offload", v, f)
  <2>0. OffloadCount # 0
    BY PipelineAssumption DEF Offloads
  <2>1. PICK m : m = <<"events", off[x].events>>
    OBVIOUS
  <2>2. /\ u = s /\ V = W /\ next = calls /\ (x # o => v = t) /\ off'[x].events = <<>>
        /\ Grown(q, m, r) /\ m[1] = "events" /\ m[2] = off[x].events
    BY <1>8, <1>a, <1>b, <1>f, <2>1 DEF OffloadFlushes, AtOffload
  <2>3. CASE x = o
    <3>1. v = <<>> /\ Grown(q, <<"events", t>>, r)
      BY <1>a, <1>b, <2>0, <2>1, <2>2, <2>3
    <3>2. Flowing(calls, W, r, "offload", v, "shard", s, f)
      BY <1>g, <1>d, <3>1, FlowFlushes
    <3> QED
      BY <2>2, <3>2, FlowSwaps
  <2>4. CASE x # o
    <3>1. EventsIn(m[2], f) = {}
      BY <2>2, <2>4 DEF Homely, o
    <3>2. QueueClimbs(r, f) /\ QueuedIn(r, f) = QueuedIn(q, f)
      BY <1>d, <2>2, <3>1, QueueRests
    <3> QED
      BY <1>e, <2>2, <2>4, <3>2
  <2> QED
    BY <2>3, <2>4
<1> QED
  BY <1>1, <1>2, <1>3, <1>4, <1>5, <1>6, <1>7, <1>8, EventMoves

\* What is written of a flow is a sequence of chunk numbers, failures or not.
LEMMA WrittenTyped ==
    ASSUME TInv, written \in [Flows -> Seq(Nat)], [Next]_vars
    PROVE  written' \in [Flows -> Seq(Nat)]
<1>1. CASE UNCHANGED written
  BY <1>1
<1>2. CASE Accepts
  <2>1. PICK e : e = outQ[1][2]
    OBVIOUS
  <2>2. e \in Seq(Items) /\ written' = [f \in Flows |-> written[f] \o ChunksOf(e, f)]
    BY <1>2, <2>1 DEF Accepts
  <2>3. ASSUME NEW f \in Flows
        PROVE  written[f] \o ChunksOf(e, f) \in Seq(Nat)
    <3>1. PICK W, C : W = written[f] /\ C = ChunksOf(e, f)
      OBVIOUS
    <3>2. W \in Seq(Nat) /\ C \in Seq(Nat)
      BY <2>2, <3>1, ChunksAre
    <3>3. W \o C \in Seq(Nat)
      BY <3>2, ConcatProperties
    <3> QED
      BY <3>1, <3>3
  <2> QED
    BY <2>2, <2>3
<1> QED
  BY <1>1, <1>2, EventMoves
     DEF Silent, Refuses, Notes, ShardParses, ShardFlushes, AtShard, OffloadParses, OffloadFlushes, AtOffload

-----------------------------------------------------------------------------
(* The theorem *)

AllDelivered == AllLined /\ Delivered

\* The invariant is inductive.
LEMMA NextDelivered ==
    ASSUME Fits, AllDelivered, [Next]_vars
    PROVE  AllDelivered'
<1>1. AllLined'
  BY NextLined DEF AllDelivered
<1>2. TInv /\ TInv' /\ Sound /\ Placed /\ Ordered'
  BY <1>1 DEF AllDelivered, AllLined, Ordered
<1>3. written' \in [Flows -> Seq(Nat)] /\ Homely'
  BY <1>2, WrittenTyped, HomelyKept DEF AllDelivered, Delivered
<1>4. NoFault' => NoFault
  <2>1. /\ left.faults \in 0 .. MaxFaults /\ left'.faults \in 0 .. MaxFaults /\ MaxFaults \in Nat
    BY <1>2, PipelineAssumption DEF TInv
  <2> QED
    BY <1>2, <2>1, FaultsCountDown DEF NoFault
<1>5. ASSUME NoFault', NEW f \in Flows
      PROVE  Flowing(parsed[f], written[f], outQ, "shard", ShardBatch(f), "offload", OffloadBatch(f), f)'
  <2>1. Flowing(parsed[f], written[f], outQ, "shard", ShardBatch(f), "offload", OffloadBatch(f), f) /\ Homely
    BY <1>4, <1>5 DEF AllDelivered, Delivered
  <2> QED
    BY <1>2, <1>5, <2>1, FlowDelivered
<1> QED
  BY <1>1, <1>3, <1>5 DEF AllDelivered, Delivered

\* Nothing is parsed at the start.
LEMMA InitDelivered == Init => Delivered
<1> SUFFICES ASSUME Init
             PROVE  Delivered
  OBVIOUS
<1>1. /\ outQ = <<>> /\ parsed = [f \in Flows |-> <<>>] /\ written = [f \in Flows |-> <<>>]
      /\ \A w \in Workers : wk[w].events = <<>>
      /\ \A o \in Offloads : off[o].events = <<>>
  BY DEF Init
<1>2. Homely
  BY <1>1, NoEvents DEF Homely
<1>3. ASSUME NEW f \in Flows
      PROVE  Flowing(parsed[f], written[f], outQ, "shard", ShardBatch(f), "offload", OffloadBatch(f), f)
  <2>1. ShardBatch(f) = <<>> /\ OffloadBatch(f) = <<>>
    BY <1>1, PipelineAssumption DEF ShardBatch, OffloadBatch
  <2>2. Len(<<>>) = 0 /\ 1 .. 0 = {}
    OBVIOUS
  <2>3. /\ Members(<<>>) = {} /\ Increasing(<<>>) /\ NumbersOf(<<>>) = {}
        /\ QueuedIn(<<>>, f) = {} /\ QueueClimbs(<<>>, f)
    BY <2>2, InQueue DEF Members, Increasing, NumbersOf, QueueClimbs
  <2>4. Flowing(<<>>, <<>>, <<>>, "shard", <<>>, "offload", <<>>, f)
    BY <2>3, NoEvents, EmptySeq DEF Flowing, Below
  <2> QED
    BY <1>1, <2>1, <2>4
<1>4. written \in [Flows -> Seq(Nat)]
  BY <1>1, EmptySeq
<1> QED
  BY <1>2, <1>3, <1>4 DEF Delivered

\* The chunks written of a flow are the first ones that were parsed, in that order,
\* and all of them when nothing is left in a batch or in the queue.
LEMMA WrittenIsPrefix ==
    ASSUME AllDelivered, NoFault, NEW f \in Flows
    PROVE  /\ IsPrefix(written[f], Numbers(parsed[f]))
           /\ (outQ = <<>> /\ ShardBatch(f) = <<>> /\ OffloadBatch(f) = <<>>)
                => written[f] = Numbers(parsed[f])
<1>1. PICK W, calls, q, s, t : W = written[f] /\ calls = parsed[f] /\ q = outQ
                               /\ s = ShardBatch(f) /\ t = OffloadBatch(f)
  OBVIOUS
<1>2. PICK N : N = Numbers(calls)
  OBVIOUS
<1>3. calls \in Seq(Calls) /\ Flowing(calls, W, q, "shard", s, "offload", t, f)
  BY <1>1 DEF AllDelivered, AllLined, TInv, Delivered
<1>4. N \in Seq(Nat) /\ Len(N) = Len(calls) /\ \A i \in 1 .. Len(N) : N[i] = calls[i][3]
  <2>1. Len(calls) \in Nat /\ \A i \in 1 .. Len(calls) : calls[i][3] \in Nat
    BY <1>3, LenProperties, ElementOfSeq DEF Calls
  <2>2. N \in [1 .. Len(calls) -> Nat] /\ \A i \in 1 .. Len(calls) : N[i] = calls[i][3]
    BY <1>2, <2>1 DEF Numbers
  <2>3. PICK n : n = Len(calls)
    OBVIOUS
  <2>4. n \in Nat /\ N \in [1 .. n -> Nat]
    BY <2>1, <2>2, <2>3
  <2>5. N \in Seq(Nat) /\ Len(N) = n
    BY <2>4
  <2> QED
    BY <2>2, <2>3, <2>5
<1>5. Increasing(N) /\ Members(N) = NumbersOf(calls)
  <2>1. \A i, j \in 1 .. Len(calls) : i < j => calls[i][3] < calls[j][3]
    BY <1>1 DEF AllDelivered, AllLined, Ordered, Lined
  <2> QED
    BY <1>4, <2>1 DEF Increasing, Members, NumbersOf
<1>6. /\ W \in Seq(Nat) /\ Increasing(W) /\ Members(W) \subseteq Members(N)
      /\ Below(Members(W), Members(N) \ Members(W))
  BY <1>3, <1>5 DEF Flowing, Below
<1>7. /\ Len(W) <= Len(N) /\ \A i \in 1 .. Len(W) : W[i] = N[i]
      /\ Members(W) = Members(N) => W = N
  BY <1>4, <1>5, <1>6, PrefixOf
<1>8. IsPrefix(W, N)
  <2>1. PICK n : n = Len(W)
    OBVIOUS
  <2>2. n \in Nat /\ n <= Len(N) /\ Len(N) \in Nat /\ 1 \in 1 .. Len(W) + 1 /\ 1 \in 1 .. Len(N) + 1
        /\ n \in 0 .. Len(W) /\ n \in 0 .. Len(N) /\ 1 <= n + 1
    BY <1>4, <1>6, <1>7, <2>1, LenProperties
  <2>3. PICK a, b : a = SubSeq(W, 1, n) /\ b = SubSeq(N, 1, n)
    OBVIOUS
  <2>4. /\ a \in Seq(Nat) /\ Len(a) = n - 1 + 1 /\ \A i \in 1 .. n - 1 + 1 : a[i] = W[1 + i - 1]
        /\ b \in Seq(Nat) /\ Len(b) = n - 1 + 1 /\ \A i \in 1 .. n - 1 + 1 : b[i] = N[1 + i - 1]
    <3>1. \A S, x : x \in Seq(S) /\ 1 \in 1 .. Len(x) + 1 /\ n \in 0 .. Len(x) /\ 1 <= n + 1 =>
                /\ SubSeq(x, 1, n) \in Seq(S) /\ Len(SubSeq(x, 1, n)) = n - 1 + 1
                /\ \A i \in 1 .. n - 1 + 1 : SubSeq(x, 1, n)[i] = x[1 + i - 1]
      BY Part
    <3>2. /\ SubSeq(W, 1, n) \in Seq(Nat) /\ Len(SubSeq(W, 1, n)) = n - 1 + 1
          /\ \A i \in 1 .. n - 1 + 1 : SubSeq(W, 1, n)[i] = W[1 + i - 1]
      BY <1>6, <2>2, <3>1
    <3>3. /\ SubSeq(N, 1, n) \in Seq(Nat) /\ Len(SubSeq(N, 1, n)) = n - 1 + 1
          /\ \A i \in 1 .. n - 1 + 1 : SubSeq(N, 1, n)[i] = N[1 + i - 1]
      BY <1>4, <2>2, <3>1
    <3> QED
      BY <2>3, <3>2, <3>3
  <2>5. Len(a) = n /\ Len(b) = n /\ \A i \in 1 .. n : a[i] = W[i] /\ b[i] = N[i]
    <3>1. n - 1 + 1 = n
      BY <2>2
    <3>2. Len(a) = n /\ Len(b) = n
      BY <2>4, <3>1
    <3>3. \A i \in 1 .. n : 1 + i - 1 = i
      OBVIOUS
    <3>4. \A i \in 1 .. n : a[i] = W[i] /\ b[i] = N[i]
      BY <2>4, <3>1, <3>3
    <3> QED
      BY <3>2, <3>4
  <2>6. a = b
    BY <1>7, <2>1, <2>4, <2>5, SeqEqual
  <2> QED
    BY <1>7, <2>1, <2>3, <2>6 DEF IsPrefix
<1>9. ASSUME q = <<>>, s = <<>>, t = <<>>
      PROVE  W = N
  <2>1. QueuedIn(<<>>, f) = {}
    <3>1. Len(<<>>) = 0 /\ 1 .. 0 = {}
      OBVIOUS
    <3> QED
      BY <3>1, InQueue
  <2> QED
    BY <1>3, <1>5, <1>7, <1>9, <2>1, NoEvents DEF Flowing
<1> QED
  BY <1>1, <1>2, <1>8, <1>9

\* The sinks have the events of the first chunks of each flow, in the order the chunks
\* were parsed, as long as nothing fails, and of all of them at the end of a run that
\* reports success: batches leave a thread in order, the queue keeps the order, a
\* flow's events come from one thread, and every batch is flushed before the report.
THEOREM EventsReachSinksInOrderHolds ==
    ASSUME Fits
    PROVE  Spec => []EventsReachSinksInOrder
<1>1. Init => AllDelivered
  BY InitTyped, InitStaged, InitLined, InitDelivered DEF AllDelivered, AllLined
<1>2. AllDelivered /\ [Next]_vars => AllDelivered'
  BY NextDelivered
<1>3. AllDelivered /\ SuccessMeansClean => EventsReachSinksInOrder
  <2> SUFFICES ASSUME AllDelivered, SuccessMeansClean, NEW f \in Flows
               PROVE  /\ NoFault => IsPrefix(written[f], Numbers(parsed[f]))
                      /\ co.pc = "end" /\ ~ co.failed => written[f] = Numbers(parsed[f])
    BY DEF EventsReachSinksInOrder
  <2>1. ASSUME co.pc = "end", ~ co.failed
        PROVE  NoFault /\ outQ = <<>> /\ ShardBatch(f) = <<>> /\ OffloadBatch(f) = <<>>
    BY <2>1, PipelineAssumption DEF SuccessMeansClean, ShardBatch, OffloadBatch
  <2> QED
    BY <2>1, WrittenIsPrefix
<1> QED
  BY <1>1, <1>2, <1>3, SuccessMeansCleanHolds, PTL DEF Spec


-----------------------------------------------------------------------------
(* The final figures *)

\* The last figures of a thread that has reported are held by the coordinator, with the
\* shard's content, or in the report that is on its way.
ShardKnown(w) == w \in content /\ slots.worker[w] = wk[w].stats
ShardOwed(w) == \E i \in 1 .. Len(outQ) : Report(i, "stats", w) /\ outQ[i][3] = wk[w].stats
OffloadKnown(o) == slots.offload[o] = off[o].processed
OffloadOwed(o) == \E i \in 1 .. Len(outQ) : Report(i, "offloadStats", o) /\ outQ[i][3] = off[o].processed
Known ==
    /\ \A w \in Workers : wk[w].pc = "done" => ShardKnown(w) \/ ShardOwed(w)
    /\ \A o \in Offloads : off[o].pc = "done" => OffloadKnown(o) \/ OffloadOwed(o)

\* Two figures of which none is ahead of the other are the same.
LEMMA SameFigures ==
    ASSUME NEW s \in StatsType, NEW t \in StatsType, AtMost(s, t), AtMost(t, s)
    PROVE  s = t
<1>1. \A c \in Counters : s[c] \in Nat /\ t[c] \in Nat
  BY DEF StatsType, Counters
<1>2. \A c \in Counters : s[c] = t[c]
  BY <1>1 DEF AtMost
<1> QED
  BY <1>2 DEF StatsType, Counters

\* A report stays in the queue when a message is added.
LEMMA OwedStays ==
    ASSUME TInv, \/ outQ' = outQ
                 \/ \E m \in Messages : OutRoom /\ outQ' = Append(outQ, m)
    PROVE  \A i \in 1 .. Len(outQ) : i \in 1 .. Len(outQ') /\ outQ'[i] = outQ[i]
<1>1. CASE outQ' = outQ
  BY <1>1
<1>2. ASSUME NEW m \in Messages, OutRoom, outQ' = Append(outQ, m)
      PROVE  \A i \in 1 .. Len(outQ) : i \in 1 .. Len(outQ') /\ outQ'[i] = outQ[i]
  <2>1. Grown(outQ, m, Append(outQ, m))
    BY <1>2, OutGrown
  <2> QED
    BY <2>1, <1>2 DEF Grown
<1> QED
  BY <1>1, <1>2

\* A shard that is done does nothing; one that gets done has just sent its report.
LEMMA WorkerKnown ==
    ASSUME TInv, TInv', Known, NEW w \in Workers, WorkerEffect(w), UNCHANGED content,
           wk'[w].pc = "done" => wk'[w].stats = wk[w].stats
    PROVE  Known'
<1>1. /\ UNCHANGED <<off, slots>> /\ \A v \in Workers \ {w} : wk'[v] = wk[v]
      /\ wk[w].pc # "done"
      /\ \/ outQ' = outQ /\ wk'[w].pc # "done"
         \/ \E m \in Messages :
            /\ OutRoom /\ outQ' = Append(outQ, m)
            /\ \/ wk'[w].pc # "done"
               \/ m = <<"stats", w, wk[w].stats>> /\ wk'[w].pc = "done"
  BY DEF WorkerEffect, WorkerLive, Stopped
<1>2. \A i \in 1 .. Len(outQ) : i \in 1 .. Len(outQ') /\ outQ'[i] = outQ[i]
  BY <1>1, OwedStays
<1>3. ASSUME NEW o \in Offloads, off'[o].pc = "done"
      PROVE  OffloadKnown(o)' \/ OffloadOwed(o)'
  BY <1>1, <1>2, <1>3 DEF Known, OffloadKnown, OffloadOwed, Report
<1>4. ASSUME NEW v \in Workers \ {w}, wk'[v].pc = "done"
      PROVE  ShardKnown(v)' \/ ShardOwed(v)'
  BY <1>1, <1>2, <1>4 DEF Known, ShardKnown, ShardOwed, Report
<1>5. ASSUME wk'[w].pc = "done"
      PROVE  ShardOwed(w)'
  <2>1. PICK m \in Messages : OutRoom /\ outQ' = Append(outQ, m) /\ m = <<"stats", w, wk[w].stats>>
    BY <1>1, <1>5
  <2>2. Grown(outQ, m, Append(outQ, m))
    BY <2>1, OutGrown
  <2>3. Len(outQ) + 1 \in 1 .. Len(outQ') /\ outQ'[Len(outQ) + 1] = m
    BY <2>1, <2>2 DEF Grown
  <2>4. m[1] = "stats" /\ m[2] = w /\ m[3] = wk'[w].stats
    BY <2>1, <1>5
  <2> QED
    BY <2>3, <2>4 DEF ShardOwed, Report
<1> QED
  BY <1>3, <1>4, <1>5 DEF Known

\* An offload worker that is done does nothing; one that gets done has just sent its
\* report.
LEMMA OffloadKnownStays ==
    ASSUME TInv, TInv', Known, NEW o \in Offloads, OffloadEffect(o), UNCHANGED content,
           off'[o].pc = "done" => off'[o].processed = off[o].processed
    PROVE  Known'
<1>1. /\ UNCHANGED <<wk, slots>> /\ \A p \in Offloads \ {o} : off'[p] = off[p]
      /\ off[o].pc # "done"
      /\ \/ outQ' = outQ /\ off'[o].pc # "done"
         \/ \E m \in Messages :
            /\ OutRoom /\ outQ' = Append(outQ, m)
            /\ \/ off'[o].pc # "done"
               \/ m = <<"offloadStats", o, off[o].processed>> /\ off'[o].pc = "done"
  BY DEF OffloadEffect, OffloadLive, Stopped
<1>2. \A i \in 1 .. Len(outQ) : i \in 1 .. Len(outQ') /\ outQ'[i] = outQ[i]
  BY <1>1, OwedStays
<1>3. ASSUME NEW w \in Workers, wk'[w].pc = "done"
      PROVE  ShardKnown(w)' \/ ShardOwed(w)'
  BY <1>1, <1>2, <1>3 DEF Known, ShardKnown, ShardOwed, Report
<1>4. ASSUME NEW p \in Offloads \ {o}, off'[p].pc = "done"
      PROVE  OffloadKnown(p)' \/ OffloadOwed(p)'
  BY <1>1, <1>2, <1>4 DEF Known, OffloadKnown, OffloadOwed, Report
<1>5. ASSUME off'[o].pc = "done"
      PROVE  OffloadOwed(o)'
  <2>1. PICK m \in Messages : OutRoom /\ outQ' = Append(outQ, m) /\ m = <<"offloadStats", o, off[o].processed>>
    BY <1>1, <1>5
  <2>2. Grown(outQ, m, Append(outQ, m))
    BY <2>1, OutGrown
  <2>3. Len(outQ) + 1 \in 1 .. Len(outQ') /\ outQ'[Len(outQ) + 1] = m
    BY <2>1, <2>2 DEF Grown
  <2>4. m[1] = "offloadStats" /\ m[2] = o /\ m[3] = off'[o].processed
    BY <2>1, <1>5
  <2> QED
    BY <2>3, <2>4 DEF OffloadOwed, Report
<1> QED
  BY <1>3, <1>4, <1>5 DEF Known

\* What the coordinator takes from the queue it holds; figures taken after the last
\* ones are not older, and there are no newer.
LEMMA CoordKnown ==
    ASSUME TInv, TInv', Known, Counted, Counted', CoordTakes, wk' = wk, off' = off,
           content \subseteq content',
           outQ # <<>> /\ outQ' = Tail(outQ) /\ Head(outQ)[1] = "stats" => Head(outQ)[2] \in content',
           /\ \A w \in Workers : AtMost(slots.worker[w], slots'.worker[w])
           /\ \A o \in Offloads : slots.offload[o] <= slots'.offload[o]
    PROVE  Known'
<1>a. /\ \A w \in Workers : /\ wk[w].stats \in StatsType /\ slots.worker[w] \in StatsType
                            /\ slots'.worker[w] \in StatsType
      /\ \A o \in Offloads : off[o].processed \in Nat /\ slots.offload[o] \in Nat /\ slots'.offload[o] \in Nat
  BY DEF TInv, WkState, WkRecord, OffState
<1>b. slots \in [worker : [Workers -> StatsType], offload : [Offloads -> Nat]]
  BY DEF TInv
<1>1. ASSUME NEW w \in Workers, ShardKnown(w)
      PROVE  ShardKnown(w)'
  <2>1. AtMost(wk[w].stats, slots'.worker[w]) /\ AtMost(slots'.worker[w], wk[w].stats)
    BY <1>1 DEF ShardKnown, Counted
  <2> QED
    BY <2>1, <1>a, <1>1, SameFigures DEF ShardKnown
<1>2. ASSUME NEW o \in Offloads, OffloadKnown(o)
      PROVE  OffloadKnown(o)'
  <2>1. off[o].processed <= slots'.offload[o] /\ slots'.offload[o] <= off[o].processed
    BY <1>2 DEF OffloadKnown, Counted
  <2> QED
    BY <2>1, <1>a DEF OffloadKnown
<1>3. CASE outQ' = outQ
  <2>1. \A w \in Workers : ShardOwed(w) => ShardOwed(w)'
    BY <1>3 DEF ShardOwed, Report
  <2>2. \A o \in Offloads : OffloadOwed(o) => OffloadOwed(o)'
    BY <1>3 DEF OffloadOwed, Report
  <2> QED
    BY <1>1, <1>2, <2>1, <2>2 DEF Known
<1>4. CASE outQ # <<>> /\ outQ' = Tail(outQ)
  <2>1. /\ Head(outQ) \in Messages /\ Head(outQ) = outQ[1] /\ Len(outQ) \in Nat \ {0}
        /\ Len(outQ') = Len(outQ) - 1 /\ \A i \in 1 .. Len(outQ) - 1 : outQ'[i] = outQ[i + 1]
    BY <1>4, FiguresTyped, ChannelHead
  <2>2. \A i \in 1 .. Len(outQ) : i = 1 \/ (i - 1 \in 1 .. Len(outQ') /\ outQ'[i - 1] = outQ[i])
    <3>1. \A i \in 1 .. Len(outQ) : i = 1 \/ (i - 1 \in 1 .. Len(outQ) - 1 /\ (i - 1) + 1 = i)
      BY <2>1
    <3> QED
      BY <2>1, <3>1
  <2>3. ASSUME NEW w \in Workers, ShardOwed(w)
        PROVE  ShardKnown(w)' \/ ShardOwed(w)'
    <3>1. PICK i \in 1 .. Len(outQ) : outQ[i][1] = "stats" /\ outQ[i][2] = w /\ outQ[i][3] = wk[w].stats
      BY <2>3 DEF ShardOwed, Report
    <3>2. CASE i = 1
      <4>1. /\ Head(outQ)[1] = "stats" /\ Head(outQ)[2] = w /\ Head(outQ)[3] = wk[w].stats
        BY <2>1, <3>1, <3>2
      <4>2. slots' = [slots EXCEPT !.worker[w] = wk[w].stats] \/ (outQ' = outQ)
        BY <4>1, <1>4 DEF CoordTakes
      <4>3. outQ' # outQ
        BY <2>1
      <4>4. slots'.worker[w] = wk[w].stats
        BY <4>2, <4>3, <1>b
      <4>5. w \in content'
        BY <4>1, <1>4
      <4> QED
        BY <4>4, <4>5 DEF ShardKnown
    <3>3. CASE i # 1
      BY <3>1, <3>3, <2>2 DEF ShardOwed, Report
    <3> QED
      BY <3>2, <3>3
  <2>4. ASSUME NEW o \in Offloads, OffloadOwed(o)
        PROVE  OffloadKnown(o)' \/ OffloadOwed(o)'
    <3>1. PICK i \in 1 .. Len(outQ) : /\ outQ[i][1] = "offloadStats" /\ outQ[i][2] = o
                                      /\ outQ[i][3] = off[o].processed
      BY <2>4 DEF OffloadOwed, Report
    <3>2. CASE i = 1
      <4>1. Head(outQ)[1] = "offloadStats" /\ Head(outQ)[2] = o /\ Head(outQ)[3] = off[o].processed
        BY <2>1, <3>1, <3>2
      <4>2. slots' = [slots EXCEPT !.offload[o] = off[o].processed] \/ (outQ' = outQ)
        BY <4>1, <1>4 DEF CoordTakes
      <4>3. outQ' # outQ
        BY <2>1
      <4>4. slots'.offload[o] = off[o].processed
        BY <4>2, <4>3, <1>b
      <4> QED
        BY <4>4 DEF OffloadKnown
    <3>3. CASE i # 1
      BY <3>1, <3>3, <2>2 DEF OffloadOwed, Report
    <3> QED
      BY <3>2, <3>3
  <2> QED
    BY <1>1, <1>2, <2>3, <2>4 DEF Known
<1> QED
  BY <1>3, <1>4 DEF CoordTakes

\* What the coordinator takes of a content store with a report.
LEMMA ContentTaken ==
    ASSUME \/ CoordThread \/ CoordEnd
           \/ \E f \in Flows, n \in ChunksPerPacket : CoordPacket(f, n)
    PROVE  /\ content \subseteq content'
           /\ outQ' = outQ \/ (Head(outQ)[1] = "stats" => Head(outQ)[2] \in content')
<1>1. ASSUME TakeMessage
      PROVE  /\ content \subseteq content'
             /\ Head(outQ)[1] = "stats" => Head(outQ)[2] \in content'
  BY <1>1 DEF TakeMessage
<1> QED
  BY <1>1 DEF CoordThread, CoordDrainDue, CoordSend, CoordDrain, CoordDrained, CoordStopShard,
         CoordStopOffload, CoordCollect, CoordCollected, CoordJoin, CoordEnd, CoordPacket

\* The report is the last a thread does, and changes no counter.
LEMMA LastFigures ==
    /\ \A w \in Workers : TInv /\ (WorkerThread(w) \/ WorkerPanics(w) \/ WorkerSnapshot(w)) =>
            content' = content /\ (wk'[w].pc = "done" => wk'[w].stats = wk[w].stats)
    /\ \A o \in Offloads : TInv /\ (OffloadThread(o) \/ OffloadPanics(o) \/ OffloadSnapshot(o)) =>
            content' = content /\ (off'[o].pc = "done" => off'[o].processed = off[o].processed)
<1>1. ASSUME TInv, NEW w \in Workers, WorkerThread(w) \/ WorkerPanics(w) \/ WorkerSnapshot(w)
      PROVE  content' = content /\ (wk'[w].pc = "done" => wk'[w].stats = wk[w].stats)
  <2>1. content' = content
    BY <1>1 DEF WorkerThread, WorkerPacket, WorkerSlice, WorkerShutdown, WorkerChunk, WorkerUnblock, WorkerFails,
                WorkerPanics, WorkerEndsEarly, WorkerFlushDue, WorkerFlush, WorkerReport, WorkerSnapshot
  <2>2. Quiet \/ Unpacks(w) \/ ParsesHere(w) \/ Submits(w) \/ Drops(w)
    BY <1>1, WorkerMoves
  <2>3. ASSUME wk'[w].pc = "done"
        PROVE  wk'[w].stats = wk[w].stats
    BY <1>1, <2>2, <2>3, PipelineAssumption
       DEF Quiet, QuietShard, Unpacks, ParsesHere, Submits, Drops, Passes
  <2> QED
    BY <2>1, <2>3
<1>2. ASSUME TInv, NEW o \in Offloads, OffloadThread(o) \/ OffloadPanics(o) \/ OffloadSnapshot(o)
      PROVE  content' = content /\ (off'[o].pc = "done" => off'[o].processed = off[o].processed)
  <2>1. content' = content
    BY <1>2 DEF OffloadThread, OffloadTask, OffloadShutdown, OffloadFlushDue, OffloadFlush, OffloadReport,
                OffloadPanics, OffloadSnapshot
  <2>2. Quiet \/ ParsesTask(o)
    BY <1>2, OffloadMoves
  <2> QED
    BY <2>1, <2>2 DEF Quiet, QuietOffload, ParsesTask, OffloadLive, Stopped
<1> QED
  BY <1>1, <1>2

\* Known is kept by every step.
LEMMA NextKnown == TInv /\ TInv' /\ Counted /\ Known /\ [Next]_vars => Known'
<1> SUFFICES ASSUME TInv, TInv', Counted, Known, [Next]_vars
             PROVE  Known'
  OBVIOUS
<1>c. /\ Counted'
      /\ \A w \in Workers : AtMost(slots.worker[w], slots'.worker[w])
      /\ \A o \in Offloads : slots.offload[o] <= slots'.offload[o]
  BY NextCounted
<1>1. ASSUME NEW w \in Workers, WorkerThread(w) \/ WorkerPanics(w) \/ WorkerSnapshot(w)
      PROVE  Known'
  BY <1>1, WorkerSteps, LastFigures, WorkerKnown
<1>2. ASSUME NEW o \in Offloads, OffloadThread(o) \/ OffloadPanics(o) \/ OffloadSnapshot(o)
      PROVE  Known'
  BY <1>2, OffloadSteps, LastFigures, OffloadKnownStays
<1>3. CASE \/ CoordThread \/ CoordEnd
           \/ \E f \in Flows, n \in ChunksPerPacket : CoordPacket(f, n)
  <2>1. wk' = wk /\ off' = off /\ CoordTakes
    BY <1>3, CoordSteps, CoordTakeSteps DEF CoordEffect
  <2>2. outQ # <<>> /\ outQ' = Tail(outQ) => outQ' # outQ
    BY FiguresTyped, ChannelHead
  <2> QED
    BY <1>3, <1>c, <2>1, <2>2, ContentTaken, CoordKnown
<1>4. ASSUME UNCHANGED <<wk, off, outQ, slots, content>>
      PROVE  Known'
  BY <1>4 DEF Known, ShardKnown, ShardOwed, OffloadKnown, OffloadOwed, Report
<1>5. ASSUME NEW r \in Slices, SliceTimeout(r) \/ \E w \in Workers : SliceAsk(r, w)
      PROVE  Known'
  BY <1>5, <1>4 DEF SliceTimeout, SliceAsk
<1> QED
  BY <1>1, <1>2, <1>3, <1>4, <1>5 DEF Next, Ended, vars

-----------------------------------------------------------------------------
(* Nothing is left with a shard that leaves *)

\* A shard has chunks at hand only while it is at them, and takes its packets before
\* the command to leave.
Rested == TakenFirst /\ \A w \in Workers : wk[w].pc \notin Holding => wk[w].todo = <<>>

\* Of one shard.
RestedAt(pc, todo, q) ==
    /\ pc \notin Holding => todo = <<>>
    /\ pc \in Leaving => \A i \in 1 .. Len(q) : q[i][1] # "packet"
    /\ pc = "done" => q = <<>>
    /\ \A i, j \in 1 .. Len(q) : i < j /\ q[i] = <<"shutdown">> => q[j][1] # "packet"

\* Rested says so of every shard.
LEMMA RestedMeans == Rested <=> \A w \in Workers : RestedAt(wk[w].pc, wk[w].todo, workerQ[w])
  BY DEF Rested, TakenFirst, RestedAt

\* Rested is kept by every step: packets go to a shard only before it is told to leave.
LEMMA NextRested ==
    ASSUME TInv, TInv', Staged, Rested, [Next]_vars
    PROVE  Rested'
<1> DEFINE At(w) == RestedAt(wk[w].pc, wk[w].todo, workerQ[w])
<1>0. ASSUME \A w \in Workers : At(w)'
      PROVE  Rested'
  BY <1>0 DEF Rested, TakenFirst, RestedAt
<1>a. \A w \in Workers : At(w)
  BY RestedMeans
<1>b. \A w \in Workers : wk'[w] = wk[w] /\ workerQ'[w] = workerQ[w] => At(w)'
  BY <1>a
<1>1. ASSUME Quiet, NEW w \in Workers
      PROVE  At(w)'
  <2> DEFINE q == workerQ[w]
             t == workerQ'[w]
  <2>1. /\ At(w) /\ wk'[w].todo = wk[w].todo
        /\ wk[w].pc \in Holding => wk'[w].pc \in Holding
        /\ wk'[w].pc \in Leaving => wk[w].pc \in Leaving \/ (Dropped(q, t) /\ q[1] = <<"shutdown">>)
        /\ wk'[w].pc = "done" => t = <<>> \/ (wk[w].pc = "done" /\ t = q)
        /\ QuietQ(q, t, "packet") \/ t = <<>>
    BY <1>1, <1>a DEF Quiet, QuietShard
  <2>2. CASE t = <<>>
    <3>1. Len(<<>>) = 0 /\ 1 .. 0 = {}
      OBVIOUS
    <3> QED
      BY <2>1, <2>2, <3>1 DEF RestedAt
  <2>3. CASE QuietQ(q, t, "packet")
    <3>1. /\ \A i, j \in 1 .. Len(t) : i < j /\ t[i] = <<"shutdown">> => t[j][1] # "packet"
          /\ (\A i \in 1 .. Len(q) : q[i][1] # "packet") => \A i \in 1 .. Len(t) : t[i][1] # "packet"
          /\ Dropped(q, t) /\ q[1] = <<"shutdown">> => \A i \in 1 .. Len(t) : t[i][1] # "packet"
      BY <2>1, <2>3, TakenMoves DEF RestedAt
    <3> QED
      BY <2>1, <3>1 DEF RestedAt
  <2> QED
    BY <2>1, <2>2, <2>3
<1>2. ASSUME NEW w \in Workers, Unpacks(w)
      PROVE  At(w)' /\ \A v \in Workers \ {w} : At(v)'
  <2>1. /\ Dropped(workerQ[w], workerQ'[w])
        /\ wk'[w].pc = "chunks" \/ (wk'[w].pc \in {"flush", "recv"} /\ wk'[w].todo = <<>>)
    BY <1>2 DEF Unpacks
  <2>2. \A i, j \in 1 .. Len(workerQ'[w]) :
            i < j /\ workerQ'[w][i] = <<"shutdown">> => workerQ'[w][j][1] # "packet"
    <3>1. \A i, j \in 1 .. Len(workerQ[w]) : i < j /\ workerQ[w][i] = <<"shutdown">> => workerQ[w][j][1] # "packet"
      BY <1>a DEF RestedAt
    <3> QED
      BY <2>1, <3>1, TakenMoves
  <2>3. At(w)'
    BY <2>1, <2>2 DEF RestedAt, Holding, Leaving
  <2> QED
    BY <2>3, <1>2, <1>b DEF Unpacks
<1>3. ASSUME NEW w \in Workers, NEW table, Passes(w, table)
      PROVE  At(w)' /\ \A v \in Workers \ {w} : At(v)'
  <2>1. /\ workerQ' = workerQ
        /\ wk'[w].pc = "chunks" \/ (wk'[w].pc \in {"flush", "recv"} /\ wk'[w].todo = <<>>)
    BY <1>3 DEF Passes
  <2>2. At(w)'
    BY <2>1, <1>a DEF RestedAt, Holding, Leaving
  <2> QED
    BY <2>1, <2>2, <1>3, <1>b DEF Passes
<1>4. ASSUME Sends
      PROVE  \A w \in Workers : At(w)'
  <2>1. PICK w \in Workers : /\ WorkerLive(w) /\ Grown(workerQ[w], co.packet, workerQ'[w]) /\ wk' = wk
                             /\ \A v \in Workers \ {w} : workerQ'[v] = workerQ[v]
    <3>1. co.packet \in Packets
      BY <1>4 DEF Sends, TInv, CoState, CoRecord
    <3>2. Shard[co.packet[2]] \in Workers
      BY <3>1, PipelineAssumption DEF Packets
    <3> QED
      BY <1>4, <3>2 DEF Sends
  <2>2. wk[w].pc \notin Leaving /\ \A i \in 1 .. Len(workerQ[w]) : workerQ[w][i] # <<"shutdown">>
    BY <1>4 DEF Sends, Staged, Running, Contains
  <2>3. \A i, j \in 1 .. Len(workerQ'[w]) : i < j => workerQ'[w][i] # <<"shutdown">>
    <3>1. \A i, j \in 1 .. Len(workerQ'[w]) : i < j => i \in 1 .. Len(workerQ[w])
      BY <2>1 DEF Grown
    <3> QED
      BY <2>1, <2>2, <3>1 DEF Grown
  <2>4. At(w)'
    BY <1>a, <2>1, <2>2, <2>3 DEF RestedAt, Leaving
  <2> QED
    BY <2>1, <2>4, <1>b
<1>5. ASSUME wk' = wk, workerQ' = workerQ
      PROVE  \A w \in Workers : At(w)'
  BY <1>5, <1>b
<1> HIDE DEF At
<1>6. CASE \E w \in Workers : Unpacks(w) \/ ParsesHere(w) \/ Submits(w) \/ Drops(w)
  <2>1. PICK w \in Workers : Unpacks(w) \/ \E table : Passes(w, table)
    BY <1>6 DEF ParsesHere, Submits, Drops
  <2> QED
    BY <2>1, <1>0, <1>2, <1>3
<1>7. CASE (\E o \in Offloads : ParsesTask(o)) \/ \E f \in Flows, n \in ChunksPerPacket : Gets(f, n)
  BY <1>7, <1>0, <1>5 DEF ParsesTask, Gets
<1> QED
  BY <1>0, <1>1, <1>4, <1>6, <1>7, StepMoves

-----------------------------------------------------------------------------
(* Chunks waiting in a queue *)

\* How many chunks the packets of a queue have, and how many tasks are in one.
Loads(q) == [i \in 1 .. Len(q) |-> IF q[i][1] = "packet" THEN Len(q[i][3]) ELSE 0]
Backlog(q) == SumFunctionOnSet(Loads(q), 1 .. Len(q))
TaskMarks(q) == [i \in 1 .. Len(q) |-> IF q[i][1] = "task" THEN 1 ELSE 0]
Undone(q) == SumFunctionOnSet(TaskMarks(q), 1 .. Len(q))

\* A sum over a queue loses the weight of what is taken.
LEMMA TallyTaken ==
    ASSUME NEW q, NEW t, Dropped(q, t), NEW fq, NEW ft,
           \A i \in 1 .. Len(q) : fq[i] \in Nat, \A i \in 1 .. Len(t) : ft[i] = fq[i + 1]
    PROVE  SumFunctionOnSet(fq, 1 .. Len(q)) = fq[1] + SumFunctionOnSet(ft, 1 .. Len(t))
<1>1. PICK n \in Nat : Len(t) = n /\ Len(q) = n + 1
  BY DEF Dropped
<1> QED
  BY <1>1, TallyFirst

\* It gets the weight of what is added.
LEMMA TallyAdded ==
    ASSUME NEW q, NEW x, NEW t, Grown(q, x, t), NEW fq, NEW ft,
           \A i \in 1 .. Len(t) : ft[i] \in Nat, \A i \in 1 .. Len(q) : fq[i] = ft[i]
    PROVE  SumFunctionOnSet(ft, 1 .. Len(t)) = SumFunctionOnSet(fq, 1 .. Len(q)) + ft[Len(t)]
<1>1. PICK n \in Nat : Len(q) = n /\ Len(t) = n + 1
  BY DEF Grown
<1> QED
  BY <1>1, TallyGrown

\* The backlog of a queue of commands changes with the packets taken and added only.
LEMMA BacklogGoes ==
    ASSUME NEW q \in Channel(Commands, WorkerDepth), NEW t \in Channel(Commands, WorkerDepth)
    PROVE  /\ Backlog(q) \in Nat
           /\ Dropped(q, t) => Backlog(q) = (IF q[1][1] = "packet" THEN Len(q[1][3]) ELSE 0) + Backlog(t)
           /\ \A x : Grown(q, x, t) => Backlog(t) = Backlog(q) + (IF x[1] = "packet" THEN Len(x[3]) ELSE 0)
           /\ QuietQ(q, t, "packet") => Backlog(t) = Backlog(q)
           /\ (\A i \in 1 .. Len(q) : q[i][1] # "packet") => Backlog(q) = 0
<1>1. ASSUME NEW s \in Channel(Commands, WorkerDepth)
      PROVE  Len(s) \in Nat /\ IsFiniteSet(1 .. Len(s)) /\ \A i \in 1 .. Len(s) : Loads(s)[i] \in Nat
  <2>1. s \in Seq(Commands) /\ Len(s) \in Nat
    BY LenProperties DEF Channel
  <2>2. \A i \in 1 .. Len(s) : s[i] \in Commands
    BY <2>1, ElementOfSeq
  <2>3. \A i \in 1 .. Len(s) : s[i][1] = "packet" => Len(s[i][3]) \in Nat
    BY <2>2, Kinds, LenProperties
  <2> QED
    BY <2>1, <2>3, FS_Interval DEF Loads
<1>2. Backlog(q) \in Nat /\ Backlog(t) \in Nat
  BY <1>1, SumIsNumber DEF Backlog
<1>a. (\A i \in 1 .. Len(q) : Loads(q)[i] \in Nat) /\ \A i \in 1 .. Len(t) : Loads(t)[i] \in Nat
  BY <1>1
<1>3. ASSUME Dropped(q, t)
      PROVE  Backlog(q) = (IF q[1][1] = "packet" THEN Len(q[1][3]) ELSE 0) + Backlog(t)
  <2>1. \A i \in 1 .. Len(t) : Loads(t)[i] = Loads(q)[i + 1]
    <3>1. \A i \in 1 .. Len(t) : t[i] = q[i + 1] /\ i + 1 \in 1 .. Len(q)
      BY <1>3, Shift DEF Dropped
    <3> QED
      BY <3>1 DEF Loads
  <2>2. Backlog(q) = Loads(q)[1] + Backlog(t)
    <3> DEFINE fq == Loads(q)
               ft == Loads(t)
    <3>1. /\ \A i \in 1 .. Len(q) : fq[i] \in Nat
          /\ \A j \in 1 .. Len(t) : ft[j] \in Nat
          /\ \A i \in 1 .. Len(t) : ft[i] = fq[i + 1]
      BY <1>a, <2>1
    <3> HIDE DEF fq, ft
    <3>2. SumFunctionOnSet(fq, 1 .. Len(q)) = fq[1] + SumFunctionOnSet(ft, 1 .. Len(t))
      BY <1>3, <3>1, TallyTaken
    <3> QED
      BY <3>2 DEF Backlog, fq, ft
  <2>3. 1 \in 1 .. Len(q)
    BY <1>3, Shift
  <2> QED
    BY <2>2, <2>3 DEF Loads
<1>4. ASSUME NEW x, Grown(q, x, t)
      PROVE  Backlog(t) = Backlog(q) + (IF x[1] = "packet" THEN Len(x[3]) ELSE 0)
  <2>1. /\ \A i \in 1 .. Len(q) : t[i] = q[i] /\ i \in 1 .. Len(t)
        /\ Len(t) \in 1 .. Len(t) /\ t[Len(t)] = x
    BY <1>4 DEF Grown
  <2>2. \A i \in 1 .. Len(q) : Loads(t)[i] = Loads(q)[i]
    BY <2>1 DEF Loads
  <2>3. Backlog(t) = Backlog(q) + Loads(t)[Len(t)]
    <3> DEFINE fq == Loads(q)
               ft == Loads(t)
    <3>1. /\ \A i \in 1 .. Len(q) : fq[i] \in Nat
          /\ \A j \in 1 .. Len(t) : ft[j] \in Nat
          /\ \A i \in 1 .. Len(q) : fq[i] = ft[i]
      BY <1>a, <2>2
    <3> HIDE DEF fq, ft
    <3>2. SumFunctionOnSet(ft, 1 .. Len(t)) = SumFunctionOnSet(fq, 1 .. Len(q)) + ft[Len(t)]
      BY <1>4, <3>1, TallyAdded
    <3> QED
      BY <3>2 DEF Backlog, fq, ft
  <2> QED
    BY <2>1, <2>3 DEF Loads
<1>5. QuietQ(q, t, "packet") => Backlog(t) = Backlog(q)
  BY <1>2, <1>3, <1>4 DEF QuietQ
<1>6. (\A i \in 1 .. Len(q) : q[i][1] # "packet") => Backlog(q) = 0
  BY <1>1, SumOfZeros DEF Backlog, Loads
<1> QED
  BY <1>2, <1>3, <1>4, <1>5, <1>6

\* The tasks of a queue change with the tasks taken and added only.
LEMMA UndoneGoes ==
    ASSUME NEW q, NEW t, Len(q) \in Nat, Len(t) \in Nat
    PROVE  /\ Undone(q) \in Nat
           /\ Dropped(q, t) => Undone(q) = (IF q[1][1] = "task" THEN 1 ELSE 0) + Undone(t)
           /\ \A x : Grown(q, x, t) => Undone(t) = Undone(q) + (IF x[1] = "task" THEN 1 ELSE 0)
           /\ QuietQ(q, t, "task") => Undone(t) = Undone(q)
<1> DEFINE fq == TaskMarks(q)
           ft == TaskMarks(t)
<1>1. /\ IsFiniteSet(1 .. Len(q)) /\ IsFiniteSet(1 .. Len(t))
      /\ \A i \in 1 .. Len(q) : fq[i] = (IF q[i][1] = "task" THEN 1 ELSE 0) /\ fq[i] \in Nat
      /\ \A i \in 1 .. Len(t) : ft[i] = (IF t[i][1] = "task" THEN 1 ELSE 0) /\ ft[i] \in Nat
  BY FS_Interval DEF TaskMarks
<1>2. Undone(q) = SumFunctionOnSet(fq, 1 .. Len(q)) /\ Undone(t) = SumFunctionOnSet(ft, 1 .. Len(t))
  BY DEF Undone
<1> HIDE DEF fq, ft
<1>3. Undone(q) \in Nat /\ Undone(t) \in Nat
  BY <1>1, <1>2, SumIsNumber
<1>4. ASSUME Dropped(q, t)
      PROVE  Undone(q) = (IF q[1][1] = "task" THEN 1 ELSE 0) + Undone(t)
  <2>1. \A i \in 1 .. Len(t) : t[i] = q[i + 1] /\ i + 1 \in 1 .. Len(q)
    BY <1>4, Shift DEF Dropped
  <2>2. \A i \in 1 .. Len(t) : ft[i] = fq[i + 1]
    BY <1>1, <2>1
  <2>3. SumFunctionOnSet(fq, 1 .. Len(q)) = fq[1] + SumFunctionOnSet(ft, 1 .. Len(t))
    BY <1>1, <1>4, <2>2, TallyTaken
  <2>4. 1 \in 1 .. Len(q)
    BY <1>4, Shift
  <2> QED
    BY <1>1, <1>2, <2>3, <2>4
<1>5. ASSUME NEW x, Grown(q, x, t)
      PROVE  Undone(t) = Undone(q) + (IF x[1] = "task" THEN 1 ELSE 0)
  <2>1. /\ \A i \in 1 .. Len(q) : t[i] = q[i] /\ i \in 1 .. Len(t)
        /\ Len(t) \in 1 .. Len(t) /\ t[Len(t)] = x
    BY <1>5 DEF Grown
  <2>2. \A i \in 1 .. Len(q) : fq[i] = ft[i]
    BY <1>1, <2>1
  <2>3. SumFunctionOnSet(ft, 1 .. Len(t)) = SumFunctionOnSet(fq, 1 .. Len(q)) + ft[Len(t)]
    BY <1>1, <1>5, <2>2, TallyAdded
  <2> QED
    BY <1>1, <1>2, <2>1, <2>3
<1>6. QuietQ(q, t, "task") => Undone(t) = Undone(q)
  BY <1>3, <1>4, <1>5 DEF QuietQ
<1> QED
  BY <1>3, <1>4, <1>5, <1>6

-----------------------------------------------------------------------------
(* The figures add up *)

\* The chunks a shard was given: those it is done with, by what it counted them as,
\* those at hand and those that wait in its queue.
Handled(s, todo, q) == s.submitted + s.inline + s.dropped + Len(todo) + Backlog(q)
Given == [w \in Workers |-> Handled(wk[w].stats, wk[w].todo, workerQ[w])]
Submitted == [w \in Workers |-> wk[w].stats.submitted]
Taken == [o \in Offloads |-> off[o].processed + Undone(offloadQ[o])]
Balanced ==
    NoDead => /\ SumFunction(Submitted) = SumFunction(Taken)
              /\ OffloadCount > 0 => SumFunction(Given) = SumFunction(routed)

\* Counting the chunk at hand changes nothing in what the shard was given.
LEMMA HandledGoes ==
    ASSUME NEW s \in StatsType, NEW todo \in Seq(Chunks), NEW q \in Channel(Commands, WorkerDepth)
    PROVE  /\ Handled(s, todo, q) \in Nat
           /\ \A t \in StatsType, rest \in Seq(Chunks), kind \in Fates :
                CountedAs(s, t, kind) /\ Dropped(todo, rest) => Handled(t, rest, q) = Handled(s, todo, q)
<1>1. /\ s.submitted \in Nat /\ s.inline \in Nat /\ s.dropped \in Nat
      /\ Len(todo) \in Nat /\ Backlog(q) \in Nat
  BY BacklogGoes, LenProperties DEF StatsType
<1>2. ASSUME NEW t \in StatsType, NEW rest \in Seq(Chunks), NEW kind \in Fates,
             CountedAs(s, t, kind), Dropped(todo, rest)
      PROVE  Handled(t, rest, q) = Handled(s, todo, q)
  <2>1. Len(rest) = Len(todo) - 1
    BY <1>2 DEF Dropped
  <2>2. /\ t.submitted = s.submitted + (IF "submitted" = kind THEN 1 ELSE 0)
        /\ t.inline = s.inline + (IF "inline" = kind THEN 1 ELSE 0)
        /\ t.dropped = s.dropped + (IF "dropped" = kind THEN 1 ELSE 0)
    BY <1>2 DEF CountedAs, Fates
  <2>3. t.submitted + t.inline + t.dropped = s.submitted + s.inline + s.dropped + 1
    BY <1>1, <1>2, <2>2 DEF Fates
  <2>4. t.submitted \in Nat /\ t.inline \in Nat /\ t.dropped \in Nat
    BY DEF StatsType
  <2> QED
    BY <1>1, <2>1, <2>3, <2>4 DEF Handled
<1> QED
  BY <1>1, <1>2 DEF Handled

\* What a step does to these figures: nothing, or it counts a task that is queued, or a
\* packet that is.
FiguresStay ==
    /\ Submitted' = Submitted /\ Taken' = Taken /\ routed' = routed
    /\ OffloadCount > 0 => Given' = Given
CountsTask(w, o) ==
    /\ Submitted'[w] = Submitted[w] + 1 /\ \A v \in Workers \ {w} : Submitted'[v] = Submitted[v]
    /\ Taken'[o] = Taken[o] + 1 /\ \A p \in Offloads \ {o} : Taken'[p] = Taken[p]
    /\ Given' = Given /\ routed' = routed
CountsPacket(w, f, n) ==
    /\ Submitted' = Submitted /\ Taken' = Taken
    /\ Given'[w] = Given[w] + n /\ \A v \in Workers \ {w} : Given'[v] = Given[v]
    /\ routed'[f] = routed[f] + n /\ \A g \in Flows \ {f} : routed'[g] = routed[g]

\* The figures are numbers, before and after a step.
LEMMA FigureTypes ==
    ASSUME TInv, TInv'
    PROVE  /\ \A w \in Workers :
                /\ wk[w].stats \in StatsType /\ wk'[w].stats \in StatsType
                /\ wk[w].todo \in Seq(Chunks) /\ wk'[w].todo \in Seq(Chunks)
                /\ workerQ[w] \in Channel(Commands, WorkerDepth) /\ workerQ'[w] \in Channel(Commands, WorkerDepth)
                /\ Given[w] = Handled(wk[w].stats, wk[w].todo, workerQ[w]) /\ Given[w] \in Nat
                /\ Given'[w] = Handled(wk'[w].stats, wk'[w].todo, workerQ'[w]) /\ Given'[w] \in Nat
                /\ Submitted[w] = wk[w].stats.submitted /\ Submitted[w] \in Nat
                /\ Submitted'[w] = wk'[w].stats.submitted /\ Submitted'[w] \in Nat
           /\ \A o \in Offloads :
                /\ off[o].processed \in Nat /\ off'[o].processed \in Nat
                /\ Len(offloadQ[o]) \in Nat /\ Len(offloadQ'[o]) \in Nat
                /\ Taken[o] = off[o].processed + Undone(offloadQ[o]) /\ Taken[o] \in Nat
                /\ Taken'[o] = off'[o].processed + Undone(offloadQ'[o]) /\ Taken'[o] \in Nat
           /\ routed \in [Flows -> Nat] /\ routed' \in [Flows -> Nat]
<1>1. ASSUME NEW w \in Workers
      PROVE  /\ wk[w].stats \in StatsType /\ wk'[w].stats \in StatsType
             /\ wk[w].todo \in Seq(Chunks) /\ wk'[w].todo \in Seq(Chunks)
             /\ workerQ[w] \in Channel(Commands, WorkerDepth) /\ workerQ'[w] \in Channel(Commands, WorkerDepth)
  BY DEF TInv, WkState, WkRecord
<1>2. ASSUME NEW w \in Workers
      PROVE  /\ Given[w] = Handled(wk[w].stats, wk[w].todo, workerQ[w]) /\ Given[w] \in Nat
             /\ Given'[w] = Handled(wk'[w].stats, wk'[w].todo, workerQ'[w]) /\ Given'[w] \in Nat
  <2>1. /\ Given[w] = Handled(wk[w].stats, wk[w].todo, workerQ[w])
        /\ Given'[w] = Handled(wk'[w].stats, wk'[w].todo, workerQ'[w])
    BY DEF Given
  <2> QED
    BY <1>1, <2>1, HandledGoes
<1>3. ASSUME NEW w \in Workers
      PROVE  /\ Submitted[w] = wk[w].stats.submitted /\ Submitted[w] \in Nat
             /\ Submitted'[w] = wk'[w].stats.submitted /\ Submitted'[w] \in Nat
  BY <1>1 DEF Submitted, StatsType
<1>4. ASSUME NEW o \in Offloads
      PROVE  /\ off[o].processed \in Nat /\ off'[o].processed \in Nat
             /\ Len(offloadQ[o]) \in Nat /\ Len(offloadQ'[o]) \in Nat
             /\ Taken[o] = off[o].processed + Undone(offloadQ[o]) /\ Taken[o] \in Nat
             /\ Taken'[o] = off'[o].processed + Undone(offloadQ'[o]) /\ Taken'[o] \in Nat
  <2>1. /\ off[o].processed \in Nat /\ off'[o].processed \in Nat
        /\ offloadQ[o] \in Seq(Tasks) /\ offloadQ'[o] \in Seq(Tasks)
    BY DEF TInv, OffState, Channel
  <2>2. Len(offloadQ[o]) \in Nat /\ Len(offloadQ'[o]) \in Nat
    BY <2>1, LenProperties
  <2>3. Undone(offloadQ[o]) \in Nat /\ Undone(offloadQ'[o]) \in Nat
    BY <2>2, UndoneGoes
  <2> QED
    BY <2>1, <2>2, <2>3 DEF Taken
<1> QED
  BY <1>1, <1>2, <1>3, <1>4 DEF TInv

\* A step that moves no chunk, or takes a packet.
LEMMA StayFigures ==
    ASSUME TInv, TInv', Rested, NoDead',
           \/ Quiet
           \/ \E w \in Workers : Unpacks(w)
           \/ \E f \in Flows, n \in ChunksPerPacket : Gets(f, n)
    PROVE  FiguresStay
<1>0. ASSUME \A w \in Workers : Given'[w] = Given[w] /\ Submitted'[w] = Submitted[w],
             \A o \in Offloads : Taken'[o] = Taken[o], routed' = routed
      PROVE  FiguresStay
  BY <1>0 DEF FiguresStay, Given, Submitted, Taken
<1>1. CASE Quiet
  <2>1. ASSUME NEW w \in Workers
        PROVE  Given'[w] = Given[w] /\ Submitted'[w] = Submitted[w]
    <3>1. /\ wk'[w].todo = wk[w].todo /\ wk'[w].stats = wk[w].stats
          /\ \/ QuietQ(workerQ[w], workerQ'[w], "packet")
             \/ workerQ'[w] = <<>> /\ wk[w].pc = "report"
      BY <1>1 DEF Quiet, QuietShard, NoDead
    <3>2. Backlog(workerQ'[w]) = Backlog(workerQ[w])
      <4>1. CASE QuietQ(workerQ[w], workerQ'[w], "packet")
        BY <4>1, FigureTypes, BacklogGoes
      <4>2. CASE workerQ'[w] = <<>> /\ wk[w].pc = "report"
        <5>1. \A i \in 1 .. Len(workerQ[w]) : workerQ[w][i][1] # "packet"
          BY <4>2 DEF Rested, TakenFirst, Leaving
        <5>2. Len(<<>>) = 0 /\ 1 .. 0 = {}
          OBVIOUS
        <5>3. \A i \in 1 .. Len(workerQ'[w]) : workerQ'[w][i][1] # "packet"
          BY <4>2, <5>2
        <5> QED
          BY <5>1, <5>3, FigureTypes, BacklogGoes
      <4> QED
        BY <3>1, <4>1, <4>2
    <3> QED
      BY <3>1, <3>2, FigureTypes DEF Handled
  <2>2. ASSUME NEW o \in Offloads
        PROVE  Taken'[o] = Taken[o]
    <3>1. off'[o].processed = off[o].processed /\ QuietQ(offloadQ[o], offloadQ'[o], "task")
      BY <1>1 DEF Quiet, QuietOffload, NoDead
    <3>2. Undone(offloadQ'[o]) = Undone(offloadQ[o])
      BY <3>1, FigureTypes, UndoneGoes
    <3> QED
      BY <3>1, <3>2, FigureTypes
  <2> QED
    BY <1>0, <1>1, <2>1, <2>2 DEF Quiet
<1>2. ASSUME NEW w \in Workers, Unpacks(w)
      PROVE  FiguresStay
  <2>1. /\ wk[w].todo = <<>> /\ wk'[w].todo = workerQ[w][1][3] /\ wk'[w].stats = wk[w].stats
        /\ Dropped(workerQ[w], workerQ'[w]) /\ workerQ[w][1][1] = "packet"
    BY <1>2 DEF Unpacks, Rested, Holding
  <2>2. Backlog(workerQ[w]) = Len(wk'[w].todo) + Backlog(workerQ'[w])
    BY <2>1, FigureTypes, BacklogGoes
  <2>3. Given'[w] = Given[w] /\ Submitted'[w] = Submitted[w]
    <3>1. Backlog(workerQ[w]) \in Nat /\ Backlog(workerQ'[w]) \in Nat
      BY FigureTypes, BacklogGoes
    <3>3. Len(wk'[w].todo) \in Nat
      BY FigureTypes, LenProperties
    <3>4. Len(wk[w].todo) = 0
      BY <2>1, EmptySeq
    <3>2. /\ wk[w].stats.submitted \in Nat /\ wk[w].stats.inline \in Nat /\ wk[w].stats.dropped \in Nat
      BY FigureTypes DEF StatsType
    <3>5. /\ Given[w] = wk[w].stats.submitted + wk[w].stats.inline + wk[w].stats.dropped
                          + Len(wk[w].todo) + Backlog(workerQ[w])
          /\ Given'[w] = wk[w].stats.submitted + wk[w].stats.inline + wk[w].stats.dropped
                           + Len(wk'[w].todo) + Backlog(workerQ'[w])
      BY <2>1, FigureTypes DEF Handled
    <3>6. Given'[w] = Given[w]
      <4> DEFINE a == wk[w].stats.submitted
                 b == wk[w].stats.inline
                 c == wk[w].stats.dropped
                 m == Len(wk[w].todo)
                 n == Len(wk'[w].todo)
                 k == Backlog(workerQ[w])
                 l == Backlog(workerQ'[w])
      <4>1. /\ a \in Nat /\ b \in Nat /\ c \in Nat /\ m = 0 /\ n \in Nat /\ k \in Nat /\ l \in Nat
            /\ k = n + l /\ Given[w] = a + b + c + m + k /\ Given'[w] = a + b + c + n + l
        BY <2>2, <3>1, <3>2, <3>3, <3>4, <3>5
      <4> HIDE DEF a, b, c, m, n, k, l
      <4> QED
        BY <4>1
    <3> QED
      BY <2>1, <3>6, FigureTypes
  <2>4. /\ \A v \in Workers \ {w} : wk'[v] = wk[v] /\ workerQ'[v] = workerQ[v]
        /\ offloadQ' = offloadQ /\ off' = off /\ routed' = routed
    BY <1>2 DEF Unpacks
  <2>5. /\ \A v \in Workers \ {w} : Given'[v] = Given[v] /\ Submitted'[v] = Submitted[v]
        /\ \A o \in Offloads : Taken'[o] = Taken[o]
    BY <2>4, FigureTypes
  <2> QED
    BY <1>0, <2>3, <2>4, <2>5
<1>3. ASSUME NEW f \in Flows, NEW n \in ChunksPerPacket, Gets(f, n)
      PROVE  FiguresStay
  BY <1>3 DEF Gets, FiguresStay, Given, Submitted, Taken
<1> QED
  BY <1>1, <1>2, <1>3

\* A shard that is done with a chunk counted it; a task it queued is owed.
LEMMA PassFigures ==
    ASSUME TInv, TInv', NEW w \in Workers, ParsesHere(w) \/ Drops(w) \/ Submits(w)
    PROVE  FiguresStay \/ \E o \in Offloads : OffloadCount > 0 /\ CountsTask(w, o)
<1>1. PICK table : Passes(w, table)
  BY DEF ParsesHere, Drops, Submits
<1>2. /\ \A v \in Workers \ {w} : wk'[v] = wk[v] /\ workerQ'[v] = workerQ[v]
      /\ Dropped(wk[w].todo, wk'[w].todo) /\ workerQ'[w] = workerQ[w]
      /\ off' = off /\ routed' = routed
  BY <1>1 DEF Passes
<1>3. \A v \in Workers \ {w} : Given'[v] = Given[v] /\ Submitted'[v] = Submitted[v]
  BY <1>2, FigureTypes
<1>4. ASSUME NEW kind \in Fates, CountedAs(wk[w].stats, wk'[w].stats, kind)
      PROVE  Given' = Given
  <2>1. Given'[w] = Given[w]
    BY <1>2, <1>4, FigureTypes, HandledGoes
  <2> QED
    BY <2>1, <1>3 DEF Given
<1>5. ASSUME offloadQ' = offloadQ
      PROVE  Taken' = Taken
  BY <1>2, <1>5 DEF Taken
<1>6. CASE ParsesHere(w) \/ Drops(w)
  <2>1. /\ offloadQ' = offloadQ
        /\ wk'[w].stats = wk[w].stats \/ \E kind \in {"inline", "dropped"} : CountedAs(wk[w].stats, wk'[w].stats, kind)
        /\ OffloadCount > 0 => \E kind \in Fates : CountedAs(wk[w].stats, wk'[w].stats, kind)
    <3>1. OffloadCount > 0 => OffloadCount # 0
      BY PipelineAssumption
    <3> QED
      BY <1>6, <3>1 DEF ParsesHere, Drops, Fates
  <2>2. Submitted'[w] = Submitted[w]
    <3>1. ASSUME NEW kind \in {"inline", "dropped"}, CountedAs(wk[w].stats, wk'[w].stats, kind)
          PROVE  wk'[w].stats.submitted = wk[w].stats.submitted
      BY <3>1, FigureTypes DEF CountedAs, Fates, StatsType
    <3> QED
      BY <2>1, <3>1, FigureTypes
  <2>3. Submitted' = Submitted
    BY <2>2, <1>3 DEF Submitted
  <2> QED
    BY <1>2, <1>4, <1>5, <2>1, <2>3 DEF FiguresStay
<1>7. CASE Submits(w)
  <2>1. PICK o \in Offloads : /\ OffloadCount > 0
                              /\ Grown(offloadQ[o], <<"task", wk[w].todo[1]>>, offloadQ'[o])
                              /\ \A p \in Offloads \ {o} : offloadQ'[p] = offloadQ[p]
    <3>1. wk[w].todo[1] \in Chunks
      <4>1. wk[w].todo \in Seq(Chunks) /\ 1 \in 1 .. Len(wk[w].todo)
        BY <1>2, FigureTypes, Shift
      <4> QED
        BY <4>1, ElementOfSeq
    <3>2. OffloadCount > 0 /\ OffloadShard[wk[w].todo[1][1]] \in Offloads
      BY <1>7, <3>1, PipelineAssumption DEF Submits, Chunks
    <3> QED
      BY <1>7, <3>2 DEF Submits
  <2>2. CountedAs(wk[w].stats, wk'[w].stats, "submitted") /\ "submitted" \in Fates
    BY <1>7 DEF Submits, Fates
  <2>3. Submitted'[w] = Submitted[w] + 1
    BY <2>2, FigureTypes DEF CountedAs, StatsType
  <2>4. Taken'[o] = Taken[o] + 1
    <3>1. Undone(offloadQ'[o]) = Undone(offloadQ[o]) + 1
      <4>1. PICK task : Grown(offloadQ[o], task, offloadQ'[o]) /\ task[1] = "task"
        BY <2>1
      <4>2. Len(offloadQ[o]) \in Nat /\ Len(offloadQ'[o]) \in Nat
        BY FigureTypes
      <4> QED
        BY <4>1, <4>2, UndoneGoes
    <3>2. Undone(offloadQ[o]) \in Nat
      BY FigureTypes, UndoneGoes
    <3> QED
      BY <1>2, <3>1, <3>2, FigureTypes
  <2>5. \A p \in Offloads \ {o} : Taken'[p] = Taken[p]
    BY <1>2, <2>1, FigureTypes
  <2>6. Given' = Given
    BY <1>4, <2>2
  <2> QED
    BY <1>2, <1>3, <2>1, <2>3, <2>4, <2>5, <2>6 DEF CountsTask
<1> QED
  BY <1>6, <1>7

\* A task that is taken is processed.
LEMMA TaskFigures ==
    ASSUME TInv, TInv', NEW o \in Offloads, ParsesTask(o)
    PROVE  FiguresStay
<1>1. /\ offloadQ[o][1][1] = "task" /\ Dropped(offloadQ[o], offloadQ'[o])
      /\ \A p \in Offloads \ {o} : offloadQ'[p] = offloadQ[p] /\ off'[p] = off[p]
      /\ off'[o].processed = off[o].processed + 1
      /\ wk' = wk /\ workerQ' = workerQ /\ routed' = routed
  BY DEF ParsesTask
<1>2. Taken'[o] = Taken[o]
  <2>1. Undone(offloadQ[o]) = 1 + Undone(offloadQ'[o])
    BY <1>1, FigureTypes, UndoneGoes
  <2>2. Undone(offloadQ'[o]) \in Nat
    BY FigureTypes, UndoneGoes
  <2> QED
    BY <1>1, <2>1, <2>2, FigureTypes
<1>3. \A p \in Offloads \ {o} : Taken'[p] = Taken[p]
  BY <1>1, FigureTypes
<1>4. Taken' = Taken
  BY <1>2, <1>3 DEF Taken
<1> QED
  BY <1>1, <1>4 DEF FiguresStay, Given, Submitted

\* A packet handed to a shard is in its queue.
LEMMA SendFigures ==
    ASSUME TInv, TInv', Sends
    PROVE  \E w \in Workers, f \in Flows, n \in Nat : CountsPacket(w, f, n)
<1>1. co.packet \in Packets
  BY DEF Sends, TInv, CoState, CoRecord
<1>2. PICK f \in Flows : co.packet[2] = f
  BY <1>1 DEF Packets
<1>3. PICK n \in Nat : Len(co.packet[3]) = n
  BY <1>1, LenProperties DEF Packets
<1>4. PICK w \in Workers : /\ Shard[f] = w /\ Grown(workerQ[w], co.packet, workerQ'[w])
                           /\ \A v \in Workers \ {w} : workerQ'[v] = workerQ[v]
  <2>1. Shard[f] \in Workers
    BY PipelineAssumption
  <2> QED
    BY <2>1, <1>2 DEF Sends
<1>5. /\ wk' = wk /\ off' = off /\ offloadQ' = offloadQ
      /\ routed' = [routed EXCEPT ![f] = routed[f] + n]
  BY <1>2, <1>3 DEF Sends
<1>6. Given'[w] = Given[w] + n
  <2>1. Backlog(workerQ'[w]) = Backlog(workerQ[w]) + n
    <3>1. co.packet[1] = "packet"
      BY <1>1 DEF Packets
    <3> QED
      BY <1>3, <1>4, <3>1, FigureTypes, BacklogGoes
  <2>2. Backlog(workerQ[w]) \in Nat /\ Len(wk[w].todo) \in Nat
    BY FigureTypes, BacklogGoes, LenProperties
  <2>3. wk[w].stats.submitted \in Nat /\ wk[w].stats.inline \in Nat /\ wk[w].stats.dropped \in Nat
    BY FigureTypes DEF StatsType
  <2>4. /\ Given[w] = wk[w].stats.submitted + wk[w].stats.inline + wk[w].stats.dropped
                        + Len(wk[w].todo) + Backlog(workerQ[w])
        /\ Given'[w] = wk[w].stats.submitted + wk[w].stats.inline + wk[w].stats.dropped
                         + Len(wk[w].todo) + Backlog(workerQ'[w])
    BY <1>5, FigureTypes DEF Handled
  <2> DEFINE a == wk[w].stats.submitted
             b == wk[w].stats.inline
             c == wk[w].stats.dropped
             m == Len(wk[w].todo)
             k == Backlog(workerQ[w])
             l == Backlog(workerQ'[w])
  <2>5. /\ a \in Nat /\ b \in Nat /\ c \in Nat /\ m \in Nat /\ k \in Nat
        /\ l = k + n /\ Given[w] = a + b + c + m + k /\ Given'[w] = a + b + c + m + l
    BY <2>1, <2>2, <2>3, <2>4
  <2> HIDE DEF a, b, c, m, k, l
  <2> QED
    BY <2>5
<1>7. \A v \in Workers \ {w} : Given'[v] = Given[v]
  BY <1>4, <1>5, FigureTypes
<1>8. routed'[f] = routed[f] + n /\ \A g \in Flows \ {f} : routed'[g] = routed[g]
  BY <1>5, FigureTypes
<1>9. Submitted' = Submitted /\ Taken' = Taken
  BY <1>5 DEF Submitted, Taken
<1> QED
  BY <1>6, <1>7, <1>8, <1>9 DEF CountsPacket

\* The sums are over finite sets.
LEMMA FinitelyMany == IsFiniteSet(Workers) /\ IsFiniteSet(Offloads) /\ IsFiniteSet(Flows)
<1>1. WorkerCount - 1 \in Int /\ OffloadCount - 1 \in Int
  BY PipelineAssumption
<1> QED
  BY <1>1, FlowsAssumption, FS_Interval DEF Workers, Offloads

\* The figures stay balanced: what is added on one side is added on the other.
LEMMA NextBalanced ==
    ASSUME TInv, TInv', Rested, Balanced, NoDead' => NoDead, [Next]_vars
    PROVE  Balanced'
<1> SUFFICES ASSUME NoDead'
             PROVE  /\ SumFunction(Submitted') = SumFunction(Taken')
                    /\ OffloadCount > 0 => SumFunction(Given') = SumFunction(routed')
  BY DEF Balanced
<1>0. NoDead
  OBVIOUS
<1>1. /\ SumFunction(Submitted) = SumFunction(Taken)
      /\ OffloadCount > 0 => SumFunction(Given) = SumFunction(routed)
  BY <1>0 DEF Balanced
<1>2. IsFiniteSet(Workers) /\ IsFiniteSet(Offloads) /\ IsFiniteSet(Flows)
  BY FinitelyMany
<1>3. /\ \A fn : DOMAIN fn = Workers => SumFunction(fn) = SumFunctionOnSet(fn, Workers)
      /\ \A fn : DOMAIN fn = Offloads => SumFunction(fn) = SumFunctionOnSet(fn, Offloads)
      /\ \A fn : DOMAIN fn = Flows => SumFunction(fn) = SumFunctionOnSet(fn, Flows)
  BY DEF SumFunction
<1>4. /\ DOMAIN Submitted = Workers /\ DOMAIN Submitted' = Workers
      /\ DOMAIN Given = Workers /\ DOMAIN Given' = Workers
      /\ DOMAIN Taken = Offloads /\ DOMAIN Taken' = Offloads
      /\ DOMAIN routed = Flows /\ DOMAIN routed' = Flows
  BY DEF Submitted, Given, Taken, TInv
<1>5. /\ \A w \in Workers : /\ Submitted[w] \in Nat /\ Submitted'[w] \in Nat
                            /\ Given[w] \in Nat /\ Given'[w] \in Nat
      /\ \A o \in Offloads : Taken[o] \in Nat /\ Taken'[o] \in Nat
      /\ \A f \in Flows : routed[f] \in Nat /\ routed'[f] \in Nat
  BY FigureTypes
<1>6. CASE FiguresStay
  BY <1>1, <1>6 DEF FiguresStay
<1>7. ASSUME NEW w \in Workers, NEW o \in Offloads, OffloadCount > 0, CountsTask(w, o)
      PROVE  /\ SumFunction(Submitted') = SumFunction(Taken')
             /\ SumFunction(Given') = SumFunction(routed')
  <2> DEFINE a == SumFunctionOnSet(Submitted, Workers)
             b == SumFunctionOnSet(Submitted', Workers)
             c == SumFunctionOnSet(Taken, Offloads)
             d == SumFunctionOnSet(Taken', Offloads)
  <2>1. a + Submitted'[w] = b + Submitted[w]
    BY <1>2, <1>5, <1>7, SumChanges DEF CountsTask
  <2>2. c + Taken'[o] = d + Taken[o]
    BY <1>2, <1>5, <1>7, SumChanges DEF CountsTask
  <2>3. a \in Nat /\ b \in Nat /\ c \in Nat /\ d \in Nat
    BY <1>2, <1>5, SumIsNumber
  <2>4. a = c
    BY <1>1, <1>3, <1>4
  <2>5. Submitted'[w] = Submitted[w] + 1 /\ Taken'[o] = Taken[o] + 1
    BY <1>7 DEF CountsTask
  <2>6. SumFunction(Submitted') = b /\ SumFunction(Taken') = d
    BY <1>3, <1>4
  <2> HIDE DEF a, b, c, d
  <2>7. b = d
    BY <1>5, <2>1, <2>2, <2>3, <2>4, <2>5
  <2> QED
    BY <1>1, <1>7, <2>6, <2>7 DEF CountsTask
<1>8. ASSUME NEW w \in Workers, NEW f \in Flows, NEW n \in Nat, CountsPacket(w, f, n)
      PROVE  /\ SumFunction(Submitted') = SumFunction(Taken')
             /\ OffloadCount > 0 => SumFunction(Given') = SumFunction(routed')
  <2> DEFINE a == SumFunctionOnSet(Given, Workers)
             b == SumFunctionOnSet(Given', Workers)
             c == SumFunctionOnSet(routed, Flows)
             d == SumFunctionOnSet(routed', Flows)
  <2>1. a + Given'[w] = b + Given[w]
    BY <1>2, <1>5, <1>8, SumChanges DEF CountsPacket
  <2>2. c + routed'[f] = d + routed[f]
    BY <1>2, <1>5, <1>8, SumChanges DEF CountsPacket
  <2>3. a \in Nat /\ b \in Nat /\ c \in Nat /\ d \in Nat
    BY <1>2, <1>5, SumIsNumber
  <2>4. OffloadCount > 0 => a = c
    BY <1>1, <1>3, <1>4
  <2>5. Given'[w] = Given[w] + n /\ routed'[f] = routed[f] + n
    BY <1>8 DEF CountsPacket
  <2>6. SumFunction(Given') = b /\ SumFunction(routed') = d
    BY <1>3, <1>4
  <2> HIDE DEF a, b, c, d
  <2>7. OffloadCount > 0 => b = d
    BY <1>5, <2>1, <2>2, <2>3, <2>4, <2>5
  <2> QED
    BY <1>1, <1>8, <2>6, <2>7 DEF CountsPacket
<1>9. \/ FiguresStay
      \/ \E w \in Workers, o \in Offloads : OffloadCount > 0 /\ CountsTask(w, o)
      \/ \E w \in Workers, f \in Flows, n \in Nat : CountsPacket(w, f, n)
  BY StepMoves, StayFigures, PassFigures, TaskFigures, SendFigures
<1> QED
  BY <1>6, <1>7, <1>8, <1>9

-----------------------------------------------------------------------------
(* The theorem *)

\* The inductive invariant of the figures.
AllFigures == TInv /\ Staged /\ Counted /\ Known /\ Rested /\ (NoFault => NoDead) /\ Balanced

\* At the start nothing is routed, and nothing counted.
LEMMA InitFigures == Init => Counted /\ Known /\ Rested /\ NoDead /\ Balanced
<1> SUFFICES ASSUME Init
             PROVE  Counted /\ Known /\ Rested /\ NoDead /\ Balanced
  OBVIOUS
<1>1. /\ outQ = <<>> /\ routed = [f \in Flows |-> 0]
      /\ slots = [worker |-> [w \in Workers |-> NoStats], offload |-> [o \in Offloads |-> 0]]
      /\ \A w \in Workers : /\ wk[w].pc = "recv" /\ wk[w].todo = <<>> /\ wk[w].stats = NoStats
                            /\ workerQ[w] = <<>>
      /\ \A o \in Offloads : off[o].pc = "recv" /\ off[o].processed = 0 /\ offloadQ[o] = <<>>
  BY DEF Init
<1>2. Len(<<>>) = 0 /\ 1 .. 0 = {}
  OBVIOUS
<1>3. Counted
  BY <1>1, <1>2 DEF Counted, AtMost, NoStats, Counters
<1>4. Known /\ NoDead
  BY <1>1 DEF Known, NoDead
<1>5. Rested
  BY <1>1, <1>2 DEF Rested, TakenFirst, Leaving
<1>6. Balanced
  <2>1. Backlog(<<>>) = 0 /\ Undone(<<>>) = 0
    BY <1>2, SumOfNothing DEF Backlog, Undone
  <2>2. /\ \A w \in Workers : Submitted[w] = 0 /\ Given[w] = 0
        /\ \A o \in Offloads : Taken[o] = 0
        /\ \A f \in Flows : routed[f] = 0
    <3>1. \A w \in Workers : Submitted[w] = 0
      BY <1>1 DEF Submitted, NoStats
    <3>2. \A w \in Workers : Given[w] = 0
      <4>1. NoStats.submitted = 0 /\ NoStats.inline = 0 /\ NoStats.dropped = 0
        BY DEF NoStats
      <4>2. Handled(NoStats, <<>>, <<>>) = 0
        BY <1>2, <2>1, <4>1 DEF Handled
      <4> QED
        BY <1>1, <4>2 DEF Given
    <3>3. \A o \in Offloads : Taken[o] = 0
      BY <1>1, <2>1 DEF Taken
    <3> QED
      BY <1>1, <3>1, <3>2, <3>3
  <2>3. IsFiniteSet(Workers) /\ IsFiniteSet(Offloads) /\ IsFiniteSet(Flows)
    BY FinitelyMany
  <2>4. /\ DOMAIN Submitted = Workers /\ DOMAIN Given = Workers
        /\ DOMAIN Taken = Offloads /\ DOMAIN routed = Flows
    BY <1>1 DEF Submitted, Given, Taken
  <2>5. /\ SumFunctionOnSet(Submitted, Workers) = 0 /\ SumFunctionOnSet(Given, Workers) = 0
        /\ SumFunctionOnSet(Taken, Offloads) = 0 /\ SumFunctionOnSet(routed, Flows) = 0
    BY <2>2, <2>3, SumOfZeros
  <2> QED
    BY <2>4, <2>5 DEF Balanced, SumFunction
<1> QED
  BY <1>3, <1>4, <1>5, <1>6

\* The invariant is inductive.
LEMMA NextFigures ==
    ASSUME AllFigures, [Next]_vars
    PROVE  AllFigures'
<1>1. TInv' /\ Staged'
  BY NextTyped, NextStaged DEF AllFigures
<1>2. Counted' /\ Known'
  BY <1>1, NextCounted, NextKnown DEF AllFigures
<1>3. Rested'
  BY <1>1, NextRested DEF AllFigures
<1>4. (NoFault' => NoDead') /\ (NoDead' => NoDead)
  BY <1>1, NextDead DEF AllFigures
<1>5. Balanced'
  BY <1>1, <1>4, NextBalanced DEF AllFigures
<1> QED
  BY <1>1, <1>2, <1>3, <1>4, <1>5 DEF AllFigures

\* When a run reports success the coordinator has the content store and the last
\* figures of every shard, the offload workers processed as many tasks as the shards
\* submitted, and every chunk of a packet that was handed to a shard is counted, as
\* submitted, parsed inline or dropped: the report is the last message of a thread,
\* which sends it with nothing at hand and nothing in its queue.
THEOREM CompletedRunAddsUpHolds == Spec => []CompletedRunAddsUp
<1>1. Init => AllFigures
  BY InitTyped, InitStaged, InitFigures DEF AllFigures
<1>2. AllFigures /\ [Next]_vars => AllFigures'
  BY NextFigures
<1>3. ASSUME AllFigures, SuccessMeansClean, co.pc = "end", ~ co.failed
      PROVE  LET figure(c) == SumFunction([w \in Workers |-> slots.worker[w][c]])
             IN  /\ content = Workers
                 /\ \A w \in Workers : slots.worker[w] = wk[w].stats
                 /\ SumFunction(slots.offload) = figure("submitted")
                 /\ OffloadCount > 0 =>
                        figure("submitted") + figure("inline") + figure("dropped") = SumFunction(routed)
  <2>1. /\ NoDead /\ outQ = <<>>
        /\ \A w \in Workers : wk[w].pc = "done"
        /\ \A o \in Offloads : off[o].pc = "done" /\ offloadQ[o] = <<>>
    BY <1>3 DEF AllFigures, SuccessMeansClean
  <2>2. Len(<<>>) = 0 /\ 1 .. 0 = {}
    OBVIOUS
  <2>3. /\ \A w \in Workers : w \in content /\ slots.worker[w] = wk[w].stats
        /\ \A o \in Offloads : slots.offload[o] = off[o].processed
    BY <1>3, <2>1, <2>2 DEF AllFigures, Known, ShardKnown, ShardOwed, OffloadKnown, OffloadOwed
  <2>4. content = Workers
    BY <1>3, <2>3 DEF AllFigures, TInv
  <2>5. /\ SumFunction(Submitted) = SumFunction(Taken)
        /\ OffloadCount > 0 => SumFunction(Given) = SumFunction(routed)
    BY <1>3, <2>1 DEF AllFigures, Balanced
  <2>6. Backlog(<<>>) = 0 /\ Undone(<<>>) = 0
    BY <2>2, SumOfNothing DEF Backlog, Undone
  <2> DEFINE counts(c) == [w \in Workers |-> slots.worker[w][c]]
  <2>7. counts("submitted") = Submitted
    BY <2>3 DEF Submitted
  <2>8. slots.offload = Taken
    <3>1. slots.offload \in [Offloads -> Nat] /\ \A o \in Offloads : off[o].processed \in Nat
      BY <1>3 DEF AllFigures, TInv, OffState
    <3>2. \A o \in Offloads : Taken[o] = slots.offload[o]
      BY <2>1, <2>3, <2>6, <3>1 DEF Taken
    <3> QED
      BY <3>1, <3>2 DEF Taken
  <2>9. SumFunction(counts("submitted")) + SumFunction(counts("inline")) + SumFunction(counts("dropped"))
            = SumFunction(Given)
    <3> DEFINE a == counts("submitted")
               b == counts("inline")
               c == counts("dropped")
               d == [w \in Workers |-> a[w] + b[w]]
    <3>1. ASSUME NEW w \in Workers
          PROVE  /\ a[w] = wk[w].stats.submitted /\ b[w] = wk[w].stats.inline /\ c[w] = wk[w].stats.dropped
                 /\ a[w] \in Nat /\ b[w] \in Nat /\ c[w] \in Nat /\ d[w] = a[w] + b[w]
                 /\ Given[w] = a[w] + b[w] + c[w]
      <4>1. wk[w].stats \in StatsType
        BY <1>3 DEF AllFigures, TInv, WkState, WkRecord
      <4>2. wk[w].todo = <<>> /\ workerQ[w] = <<>>
        BY <1>3, <2>1 DEF AllFigures, Rested, TakenFirst, Holding
      <4>3. /\ a[w] = wk[w].stats.submitted /\ b[w] = wk[w].stats.inline /\ c[w] = wk[w].stats.dropped
            /\ a[w] \in Nat /\ b[w] \in Nat /\ c[w] \in Nat /\ d[w] = a[w] + b[w]
        BY <2>3, <4>1 DEF StatsType
      <4>4. Given[w] = wk[w].stats.submitted + wk[w].stats.inline + wk[w].stats.dropped + 0 + 0
        BY <2>2, <2>6, <4>2 DEF Given, Handled
      <4> HIDE DEF a, b, c, d
      <4> QED
        BY <4>3, <4>4
    <3>2. DOMAIN a = Workers /\ DOMAIN b = Workers /\ DOMAIN c = Workers /\ DOMAIN Given = Workers
      BY DEF Given
    <3> HIDE DEF a, b, c, d
    <3>3. SumFunctionOnSet(d, Workers) = SumFunctionOnSet(a, Workers) + SumFunctionOnSet(b, Workers)
      BY <3>1, FinitelyMany, SumAdds
    <3>4. SumFunctionOnSet(Given, Workers) = SumFunctionOnSet(d, Workers) + SumFunctionOnSet(c, Workers)
      <4>1. \A w \in Workers : d[w] \in Nat /\ c[w] \in Nat /\ Given[w] = d[w] + c[w]
        BY <3>1
      <4> QED
        BY <4>1, FinitelyMany, SumAdds
    <3> QED
      BY <3>2, <3>3, <3>4 DEF SumFunction, a, b, c
  <2> QED
    BY <2>3, <2>4, <2>5, <2>7, <2>8, <2>9
<1>4. AllFigures /\ SuccessMeansClean => CompletedRunAddsUp
  BY <1>3 DEF CompletedRunAddsUp
<1> QED
  BY <1>1, <1>2, <1>4, SuccessMeansCleanHolds, PTL DEF Spec
=============================================================================
