----------------------- MODULE ShardedPipelineProofs -----------------------
(***************************************************************************)
(* Proofs about ShardedPipeline for any flows, thread counts, capacities,  *)
(* policies and faults.  The inductive invariant comes in layers:          *)
(*                                                                         *)
(*   TInv      what the threads hold and what each channel carries;        *)
(*   Staged    how far a thread can be for each stage of the shutdown;     *)
(*   Blamed    every fault is an error of the run by its end;              *)
(*   Reported  which final reports are taken, and who owes the messages    *)
(*             that still are in the output queue;                         *)
(*   Counted   how old the figures are that the coordinator holds, and     *)
(*             those on their way to it.                                   *)
(*                                                                         *)
(* Between the actions and the layers stand WorkerEffect, OffloadEffect    *)
(* and CoordEffect: what any step of a thread does to the state it shares. *)
(*                                                                         *)
(* The last part proves that the shards, the offload workers and the       *)
(* placement of flows keep the chunks of a flow in order, with one parser  *)
(* and without gaps.                                                       *)
(*                                                                         *)
(* A chunk moves through four places, each of them in stream order and all *)
(* of its numbers behind those of the next place:                          *)
(*                                                                         *)
(*   waiting in a packet -> at hand at the shard -> task -> parsed         *)
(*                                   |                       ^             *)
(*                                   +----- parsed here -----+             *)
(*                                                                         *)
(* Lined says so of one flow, Covered that no number is in none of them,   *)
(* and Placed which thread parses the flow.                                *)
(***************************************************************************)
EXTENDS ShardedPipeline, SequenceTheorems, FiniteSetTheorems, TLAPS

-----------------------------------------------------------------------------
(* Types of what the threads exchange *)

Places == {"Local", "Offloaded"}
Packets == {"packet"} \X Flows \X Seq(Chunks)
SliceCommands == {"slice"} \X Slices
Commands == Packets \cup SliceCommands \cup {<<"shutdown">>}
TaskCommands == {"task"} \X Chunks
Tasks == TaskCommands \cup {<<"shutdown">>}
Calls == ({"shard"} \X Workers \X (Nat \ {0})) \cup ({"offload"} \X Offloads \X (Nat \ {0}))

EventMessages == {"events"} \X Seq(Items)
ShardMessages == {"statsSnapshot", "stats"} \X Workers \X StatsType
OffloadMessages == {"offloadSnapshot", "offloadStats"} \X Offloads \X Nat
Messages == EventMessages \cup ShardMessages \cup OffloadMessages

Outcomes == {"idle", "queued", "answered", "queueFull", "disconnected", "timeout"}
\* A channel of limited capacity.
Channel(S, depth) == {q \in Seq(S) : Len(q) <= depth}

\* A thread or stage has what its next step takes: chunks at hand, a packet to
\* send, a target to stop.
CoRecord == [pc : CoordPcs, draining : BOOLEAN, packet : Packets \cup {<<>>},
             index : Nat, received : Nat, failed : BOOLEAN]
CoState ==
    {c \in CoRecord :
        /\ c.pc = "send" => c.packet # <<>>
        /\ c.pc = "shutdown" => c.index < WorkerCount
        /\ c.pc = "offloadShutdown" => c.index < OffloadCount
        /\ c.pc \notin {"shutdown", "offloadShutdown"} => c.index = 0
        /\ c.draining => c.pc \in {"source", "send", "shutdown", "offloadShutdown"}}
WkRecord == [pc : WorkerPcs, todo : Seq(Chunks), events : Seq(Items),
             placement : Channel(Flows \X Places, PlacementCapacity), stats : StatsType]
WkState ==
    {x \in WkRecord :
        /\ x.pc \in {"chunks", "blocked"} => x.todo # <<>>
        /\ x.pc = "blocked" => OffloadCount > 0}
OffState == [pc : WorkerPcs \ {"chunks", "blocked"}, events : Seq(Items), processed : Nat]

TInv ==
    /\ policy \in Policies
    /\ co \in CoState
    /\ workerQ \in [Workers -> Channel(Commands, WorkerDepth)]
    /\ offloadQ \in [Offloads -> Channel(Tasks, OffloadDepth)]
    /\ outQ \in Channel(Messages, EventDepth)
    /\ wk \in [Workers -> WkState]
    /\ off \in [Offloads -> OffState]
    /\ slots \in [worker : [Workers -> StatsType], offload : [Offloads -> Nat]]
    /\ content \subseteq Workers
    /\ slice \in [Slices -> Outcomes]
    /\ routed \in [Flows -> Nat]
    /\ parsed \in [Flows -> Seq(Calls)]
    /\ left \in [packets : 0 .. MaxPackets, snapshots : 0 .. MaxSnapshots, faults : 0 .. MaxFaults]

\* The kind at the head of a command, a task or a message tells what it carries.
LEMMA Kinds ==
    /\ \A c \in Commands :
        /\ c[1] = "packet" => c[2] \in Flows /\ c[3] \in Seq(Chunks)
        /\ c[1] = "slice" => c[2] \in Slices
        /\ c[1] = "shutdown" => c = <<"shutdown">>
    /\ \A t \in Tasks :
        /\ t[1] = "task" => t[2] \in Chunks
        /\ t[1] = "shutdown" => t = <<"shutdown">>
    /\ \A m \in Messages :
        /\ m[1] = "events" => m[2] \in Seq(Items)
        /\ m[1] \in {"statsSnapshot", "stats"} => m[2] \in Workers /\ m[3] \in StatsType
        /\ m[1] \in {"offloadSnapshot", "offloadStats"} => m[2] \in Offloads /\ m[3] \in Nat
  BY DEF Commands, Packets, SliceCommands, Tasks, TaskCommands,
         Messages, EventMessages, ShardMessages, OffloadMessages

\* Taking the first element of a channel, and adding one where there is room.
LEMMA ChannelHead ==
    ASSUME NEW S, NEW depth \in Nat, NEW q \in Channel(S, depth), q # <<>>
    PROVE  /\ Head(q) \in S /\ Head(q) = q[1]
           /\ Tail(q) \in Channel(S, depth) /\ Len(Tail(q)) = Len(q) - 1
           /\ \A i \in 1 .. Len(Tail(q)) : Tail(q)[i] = q[i + 1]
           /\ Len(q) \in Nat \ {0}
  BY HeadTailProperties, LenProperties, EmptySeq DEF Channel

\* Adding an element to a channel with room for it.
LEMMA ChannelAppend ==
    ASSUME NEW S, NEW depth \in Nat, NEW q \in Channel(S, depth), Len(q) < depth, NEW x \in S
    PROVE  /\ Append(q, x) \in Channel(S, depth) /\ Len(Append(q, x)) = Len(q) + 1
           /\ \A i \in 1 .. Len(q) : Append(q, x)[i] = q[i]
           /\ Append(q, x)[Len(q) + 1] = x
           /\ Len(q) \in Nat
  BY AppendProperties, LenProperties DEF Channel

\* The empty channel.
LEMMA ChannelEmpty ==
    ASSUME NEW S, NEW depth \in Nat
    PROVE  <<>> \in Channel(S, depth) /\ Len(<<>>) = 0
  BY EmptySeq DEF Channel

\* Whether a flow is known or new, using its entry keeps the placement table
\* within its capacity, with the new placement first.
LEMMA TouchProperties ==
    ASSUME NEW table \in Channel(Flows \X Places, PlacementCapacity),
           NEW f \in Flows, NEW place \in Places
    PROVE  Touch(table, f, place) \in Channel(Flows \X Places, PlacementCapacity)
<1> DEFINE S == Flows \X Places
           n == Len(table)
           at == {i \in 1 .. n : table[i][1] = f}
<1>1. /\ n \in Nat /\ n <= PlacementCapacity /\ PlacementCapacity \in Nat \ {0}
      /\ table \in Seq(S)
  BY LenProperties, PipelineAssumption DEF Channel
<1>2. \A i \in 1 .. n : table[i] \in S
  BY <1>1, ElementOfSeq
<1>3. ASSUME NEW lo \in 1 .. n + 1, NEW hi \in 0 .. n
      PROVE  /\ SubSeq(table, lo, hi) \in Seq(S)
             /\ Len(SubSeq(table, lo, hi)) = IF lo <= hi THEN hi - lo + 1 ELSE 0
  <2>1. \A i \in lo .. hi : table[i] \in S
    BY <1>1, <1>2
  <2> QED
    BY <2>1, <1>1, SubSeqProperties
<1>4. Others(table, f) \in Seq(S) /\ Len(Others(table, f)) <= PlacementCapacity - 1
  <2>1. CASE at # {}
    <3> DEFINE i == CHOOSE x \in at : TRUE
    <3>1. i \in 1 .. n
      BY <2>1
    <3> HIDE DEF i
    <3>2. /\ SubSeq(table, 1, i - 1) \in Seq(S) /\ Len(SubSeq(table, 1, i - 1)) = i - 1
          /\ SubSeq(table, i + 1, n) \in Seq(S) /\ Len(SubSeq(table, i + 1, n)) = n - i
      <4>1. i - 1 \in 0 .. n /\ i + 1 \in 1 .. n + 1 /\ 1 \in 1 .. n + 1 /\ n \in 0 .. n
        BY <3>1, <1>1
      <4> QED
        BY <4>1, <1>3, <3>1, <1>1
    <3>3. /\ RemoveAt(table, i) \in Seq(S)
          /\ Len(RemoveAt(table, i)) = n - 1
      <4> DEFINE a == SubSeq(table, 1, i - 1)
                 b == SubSeq(table, i + 1, n)
      <4>1. RemoveAt(table, i) = a \o b
        BY DEF RemoveAt
      <4>2. a \in Seq(S) /\ b \in Seq(S) /\ Len(a) = i - 1 /\ Len(b) = n - i
        BY <3>2
      <4> HIDE DEF a, b, S
      <4>3. a \o b \in Seq(S) /\ Len(a \o b) = Len(a) + Len(b)
        BY <4>2, ConcatProperties
      <4> QED
        BY <4>1, <4>2, <4>3, <3>1, <1>1
    <3>4. Others(table, f) = RemoveAt(table, i)
      BY <2>1 DEF Others, i
    <3> QED
      BY <3>3, <3>4, <1>1
  <2>2. CASE at = {} /\ n < PlacementCapacity
    BY <2>2, <1>1 DEF Others
  <2>3. CASE at = {} /\ ~ (n < PlacementCapacity)
    <3>1. 1 \in 1 .. n + 1 /\ n - 1 \in 0 .. n
      BY <2>3, <1>1
    <3> DEFINE front == SubSeq(table, 1, n - 1)
    <3>2. front \in Seq(S) /\ Len(front) = IF 1 <= n - 1 THEN n - 1 - 1 + 1 ELSE 0
      BY <3>1, <1>3
    <3>3. Front(table) = front
      BY DEF Front
    <3> HIDE DEF front
    <3> QED
      BY <3>2, <3>3, <2>3, <1>1 DEF Others
  <2> QED
    BY <2>1, <2>2, <2>3
<1>5. <<<<f, place>>>> \in Seq(S) /\ Len(<<<<f, place>>>>) = 1
  OBVIOUS
<1> QED
  BY <1>1, <1>4, <1>5, ConcatProperties DEF Touch, Channel

\* What a shard thread takes next is well typed.
LEMMA WorkerHas ==
    ASSUME TInv, NEW w \in Workers
    PROVE  /\ wk[w] \in WkState /\ workerQ[w] \in Channel(Commands, WorkerDepth)
           /\ workerQ[w] # <<>> =>
                /\ Head(workerQ[w]) \in Commands
                /\ Tail(workerQ[w]) \in Channel(Commands, WorkerDepth)
           /\ WorkerDepth \in Nat \ {0}
  BY ChannelHead, PipelineAssumption DEF TInv

\* The chunk at hand, and the worker state once it is done.
LEMMA ChunkAtHand ==
    ASSUME TInv, NEW w \in Workers, wk[w].pc \in {"chunks", "blocked"}
    PROVE  /\ Head(wk[w].todo) \in Chunks /\ Head(wk[w].todo) \in Items
           /\ Head(wk[w].todo)[1] \in Flows /\ Head(wk[w].todo)[2] \in Nat \ {0}
           /\ Tail(wk[w].todo) \in Seq(Chunks)
           /\ Len(Tail(wk[w].todo)) = Len(wk[w].todo) - 1 /\ Len(wk[w].todo) \in Nat \ {0}
           /\ OffloadCount > 0 => OffloadShard[Head(wk[w].todo)[1]] \in Offloads
<1>1. wk[w].todo \in Seq(Chunks) /\ wk[w].todo # <<>>
  BY WorkerHas DEF WkState, WkRecord
<1>2. /\ Head(wk[w].todo) \in Chunks /\ Tail(wk[w].todo) \in Seq(Chunks)
      /\ Len(Tail(wk[w].todo)) = Len(wk[w].todo) - 1 /\ Len(wk[w].todo) \in Nat \ {0}
  BY <1>1, HeadTailProperties, EmptySeq
<1> QED
  BY <1>2, PipelineAssumption DEF Chunks, Items

\* A shard that is done with a chunk is in a proper state.
LEMMA ChunkDoneTyped ==
    ASSUME TInv, NEW w \in Workers, wk[w].pc \in {"chunks", "blocked"},
           NEW events \in Seq(Items), NEW stats \in StatsType,
           NEW table \in Channel(Flows \X Places, PlacementCapacity),
           ChunkDone(w, events, table, stats)
    PROVE  wk' \in [Workers -> WkState]
<1> DEFINE next == [pc |-> IF Len(wk[w].todo) > 1 THEN "chunks" ELSE AfterCommand(events),
                    todo |-> Tail(wk[w].todo), events |-> events,
                    placement |-> table, stats |-> stats]
<1>1. wk' = [wk EXCEPT ![w] = next]
  BY DEF ChunkDone
<1>2. next \in WkState
  <2>1. Len(wk[w].todo) > 1 => Tail(wk[w].todo) # <<>>
    <3> DEFINE t == Tail(wk[w].todo)
    <3>1. t \in Seq(Chunks) /\ Len(t) = Len(wk[w].todo) - 1 /\ Len(wk[w].todo) \in Nat
      BY ChunkAtHand
    <3> HIDE DEF t
    <3>2. Len(wk[w].todo) > 1 => t # <<>>
      BY <3>1
    <3> QED
      BY <3>2 DEF t
  <2> QED
    BY <2>1, ChunkAtHand DEF WkState, WkRecord, WorkerPcs, AfterCommand
<1> QED
  BY <1>1, <1>2 DEF TInv

\* The chunk goes to a parser: this thread's, or that of an offload worker.
LEMMA ParseHereTyped ==
    ASSUME TInv, NEW w \in Workers, wk[w].pc \in {"chunks", "blocked"},
           NEW stats \in StatsType, NEW table \in Channel(Flows \X Places, PlacementCapacity),
           ParseHere(w, table, stats)
    PROVE  wk' \in [Workers -> WkState] /\ parsed' \in [Flows -> Seq(Calls)] /\ offloadQ' = offloadQ
<1>1. Append(wk[w].events, Head(wk[w].todo)) \in Seq(Items)
  BY WorkerHas, ChunkAtHand, AppendProperties DEF WkState, WkRecord
<1>2. wk' \in [Workers -> WkState]
  BY <1>1, ChunkDoneTyped DEF ParseHere
<1>3. <<"shard", w, Head(wk[w].todo)[2]>> \in Calls
  BY ChunkAtHand DEF Calls
<1>4. parsed' \in [Flows -> Seq(Calls)]
  BY <1>3, ChunkAtHand, AppendProperties DEF ParseHere, TInv
<1> QED
  BY <1>2, <1>4 DEF ParseHere

\* So is one that has submitted a chunk, and the queue it submitted to.
LEMMA SubmitTyped ==
    ASSUME TInv, NEW w \in Workers, wk[w].pc \in {"chunks", "blocked"}, OffloadCount > 0,
           NEW blocked \in {0, 1}, Submit(w, blocked),
           Len(offloadQ[OffloadShard[Head(wk[w].todo)[1]]]) < OffloadDepth
    PROVE  /\ wk' \in [Workers -> WkState] /\ parsed' = parsed
           /\ offloadQ' \in [Offloads -> Channel(Tasks, OffloadDepth)]
<1> DEFINE f == Head(wk[w].todo)[1]
           o == OffloadShard[f]
           s == wk[w].stats
           stats == [s EXCEPT !.submitted = @ + 1, !.blocked = @ + blocked]
           table == Touch(wk[w].placement, f, "Offloaded")
<1>1. stats \in StatsType /\ wk[w].events \in Seq(Items)
  <2>1. s \in StatsType /\ wk[w].events \in Seq(Items)
    BY WorkerHas DEF WkState, WkRecord
  <2> HIDE DEF s
  <2>2. /\ s.submitted + 1 \in Nat /\ s.blocked + blocked \in Nat
        /\ stats = [s EXCEPT !.submitted = s.submitted + 1, !.blocked = s.blocked + blocked]
    BY <2>1 DEF StatsType
  <2> QED
    BY <2>1, <2>2 DEF StatsType
<1>2. table \in Channel(Flows \X Places, PlacementCapacity)
  BY WorkerHas, ChunkAtHand, TouchProperties DEF WkState, WkRecord, Places
<1>3. ChunkDone(w, wk[w].events, table, stats)
  BY DEF Submit
<1>4. wk' \in [Workers -> WkState]
  <2> HIDE DEF stats, table
  <2> QED
    BY <1>1, <1>2, <1>3, ChunkDoneTyped
<1>5. <<"task", Head(wk[w].todo)>> \in Tasks
  BY ChunkAtHand DEF Tasks, TaskCommands
<1>6. o \in Offloads /\ OffloadDepth \in Nat /\ offloadQ[o] \in Channel(Tasks, OffloadDepth)
  BY ChunkAtHand, PipelineAssumption DEF TInv
<1>7. Append(offloadQ[o], <<"task", Head(wk[w].todo)>>) \in Channel(Tasks, OffloadDepth)
  BY <1>5, <1>6, ChannelAppend
<1>8. offloadQ' \in [Offloads -> Channel(Tasks, OffloadDepth)]
  BY <1>6, <1>7 DEF Submit, TInv
<1> QED
  BY <1>4, <1>8 DEF Submit

\* A message is put into the output queue only where there is room.
LEMMA OutAppend ==
    ASSUME TInv, OutRoom, NEW m \in Messages
    PROVE  Append(outQ, m) \in Channel(Messages, EventDepth)
  BY ChannelAppend, PipelineAssumption DEF TInv, OutRoom

\* The bounds of a behaviour only count down.
LEMMA LeftTyped ==
    ASSUME TInv,
           \/ left.faults > 0 /\ left' = [left EXCEPT !.faults = @ - 1]
           \/ left.snapshots > 0 /\ left' = [left EXCEPT !.snapshots = @ - 1]
           \/ left.packets > 0 /\ left' = [left EXCEPT !.packets = @ - 1]
    PROVE  left' \in [packets : 0 .. MaxPackets, snapshots : 0 .. MaxSnapshots, faults : 0 .. MaxFaults]
<1> DEFINE L == [packets : 0 .. MaxPackets, snapshots : 0 .. MaxSnapshots, faults : 0 .. MaxFaults]
<1>1. left \in L /\ MaxPackets \in Nat /\ MaxSnapshots \in Nat /\ MaxFaults \in Nat
  BY PipelineAssumption DEF TInv
<1>2. CASE left.faults > 0 /\ left' = [left EXCEPT !.faults = @ - 1]
  BY <1>1, <1>2
<1>3. CASE left.snapshots > 0 /\ left' = [left EXCEPT !.snapshots = @ - 1]
  BY <1>1, <1>3
<1>4. CASE left.packets > 0 /\ left' = [left EXCEPT !.packets = @ - 1]
  BY <1>1, <1>4
<1> QED
  BY <1>2, <1>3, <1>4

\* The steps of a shard thread keep the types.
LEMMA WorkerTyped ==
    ASSUME TInv, NEW w \in Workers,
           WorkerThread(w) \/ WorkerPanics(w) \/ WorkerSnapshot(w)
    PROVE  TInv'
<1>a. /\ wk \in [Workers -> WkState] /\ wk[w] \in WkState
      /\ workerQ \in [Workers -> Channel(Commands, WorkerDepth)]
      /\ <<>> \in Channel(Commands, WorkerDepth)
  BY WorkerHas, ChannelEmpty DEF TInv
<1>b. ASSUME Abandon(w)
      PROVE  slice' \in [Slices -> Outcomes]
  BY <1>b DEF Abandon, TInv, Outcomes
<1>1. CASE WorkerPacket(w)
  <2>1. workerQ' \in [Workers -> Channel(Commands, WorkerDepth)]
    BY <1>1, <1>a, WorkerHas DEF WorkerPacket
  <2>2. /\ Head(workerQ[w])[2] \in Flows /\ Head(workerQ[w])[3] \in Seq(Chunks)
        /\ Append(wk[w].events, <<Head(workerQ[w])[2], 0>>) \in Seq(Items)
    BY <1>1, <1>a, WorkerHas, Kinds, AppendProperties DEF WorkerPacket, WkState, WkRecord, Items
  <2>3. wk' \in [Workers -> WkState]
    BY <1>1, <1>a, <2>2 DEF WorkerPacket, AfterCommand, WkState, WkRecord, WorkerPcs
  <2> QED
    BY <1>1, <2>1, <2>3 DEF TInv, WorkerPacket
<1>2. CASE WorkerSlice(w)
  <2>1. workerQ' \in [Workers -> Channel(Commands, WorkerDepth)]
    BY <1>2, <1>a, WorkerHas DEF WorkerSlice
  <2>2. wk' \in [Workers -> WkState]
    BY <1>2, <1>a DEF WorkerSlice, AfterCommand, WkState, WkRecord, WorkerPcs
  <2>3. slice' \in [Slices -> Outcomes]
    BY <1>2 DEF WorkerSlice, TInv, Outcomes
  <2> QED
    BY <1>2, <2>1, <2>2, <2>3 DEF TInv, WorkerSlice
<1>3. CASE WorkerShutdown(w)
  <2>1. workerQ' \in [Workers -> Channel(Commands, WorkerDepth)]
    BY <1>3, <1>a, WorkerHas DEF WorkerShutdown
  <2>2. wk' \in [Workers -> WkState]
    BY <1>3, <1>a DEF WorkerShutdown, WkState, WkRecord, WorkerPcs
  <2> QED
    BY <1>3, <2>1, <2>2 DEF TInv, WorkerShutdown
<1>4. CASE WorkerChunk(w)
  <2> DEFINE f == Head(wk[w].todo)[1]
             s == wk[w].stats
             table == wk[w].placement
             o == OffloadShard[f]
             place == PlacementOf(table, f)
             inline == [s EXCEPT !.inline = @ + 1]
             dropped == [s EXCEPT !.dropped = @ + 1]
  <2>1. wk[w].pc = "chunks" /\ f \in Flows
    BY <1>4, ChunkAtHand DEF WorkerChunk
  <2>2. /\ s \in StatsType /\ inline \in StatsType /\ dropped \in StatsType
        /\ wk[w].events \in Seq(Items)
    <3>1. s \in StatsType /\ wk[w].events \in Seq(Items)
      BY <1>a DEF WkState, WkRecord
    <3> HIDE DEF s
    <3> QED
      BY <3>1 DEF StatsType
  <2>3. /\ table \in Channel(Flows \X Places, PlacementCapacity)
        /\ Touch(table, f, "Local") \in Channel(Flows \X Places, PlacementCapacity)
        /\ Touch(table, f, "Offloaded") \in Channel(Flows \X Places, PlacementCapacity)
    BY <1>a, <2>1, TouchProperties DEF WkState, WkRecord, Places
  <2>4. \/ ParseHere(w, table, s) \/ ParseHere(w, Touch(table, f, "Local"), inline)
        \/ OffloadCount > 0 /\ Len(offloadQ[o]) < OffloadDepth /\ Submit(w, 0)
        \/ /\ ChunkDone(w, wk[w].events, IF place = {} THEN table ELSE Touch(table, f, "Offloaded"), dropped)
           /\ UNCHANGED <<offloadQ, parsed>>
        \/ /\ OffloadCount > 0 /\ wk' = [wk EXCEPT ![w].pc = "blocked"]
           /\ UNCHANGED <<offloadQ, parsed>>
    BY <1>4, PipelineAssumption DEF WorkerChunk
  <2>5. /\ wk' \in [Workers -> WkState] /\ parsed' \in [Flows -> Seq(Calls)]
        /\ offloadQ' \in [Offloads -> Channel(Tasks, OffloadDepth)]
    <3>1. CASE ParseHere(w, table, s) \/ ParseHere(w, Touch(table, f, "Local"), inline)
      <4> HIDE DEF inline, table, s, f
      <4>1. wk' \in [Workers -> WkState] /\ parsed' \in [Flows -> Seq(Calls)] /\ offloadQ' = offloadQ
        BY <3>1, <2>1, <2>2, <2>3, ParseHereTyped
      <4> QED
        BY <4>1 DEF TInv
    <3>2. CASE OffloadCount > 0 /\ Len(offloadQ[o]) < OffloadDepth /\ Submit(w, 0)
      BY <3>2, <2>1, SubmitTyped DEF TInv
    <3>3. CASE /\ ChunkDone(w, wk[w].events, IF place = {} THEN table ELSE Touch(table, f, "Offloaded"), dropped)
               /\ UNCHANGED <<offloadQ, parsed>>
      <4> DEFINE t == IF place = {} THEN table ELSE Touch(table, f, "Offloaded")
      <4>1. t \in Channel(Flows \X Places, PlacementCapacity)
        BY <2>3
      <4> HIDE DEF t, dropped
      <4>2. ChunkDone(w, wk[w].events, t, dropped)
        BY <3>3 DEF t
      <4>3. wk' \in [Workers -> WkState]
        BY <4>1, <4>2, <2>1, <2>2, ChunkDoneTyped
      <4> QED
        BY <3>3, <4>3 DEF TInv
    <3>4. CASE /\ OffloadCount > 0 /\ wk' = [wk EXCEPT ![w].pc = "blocked"]
               /\ UNCHANGED <<offloadQ, parsed>>
      BY <3>4, <2>1, <1>a DEF TInv, WkState, WkRecord, WorkerPcs
    <3> QED
      BY <2>4, <3>1, <3>2, <3>3, <3>4
  <2> QED
    BY <1>4, <2>5 DEF TInv, WorkerChunk
<1>5. CASE WorkerUnblock(w)
  <2>1. OffloadCount > 0 /\ wk[w].pc = "blocked"
    BY <1>5, <1>a DEF WorkerUnblock, WkState
  <2>2. /\ wk' \in [Workers -> WkState] /\ parsed' = parsed
        /\ offloadQ' \in [Offloads -> Channel(Tasks, OffloadDepth)]
    BY <1>5, <2>1, SubmitTyped DEF WorkerUnblock
  <2> QED
    BY <1>5, <2>2 DEF TInv, WorkerUnblock
<1>6. CASE WorkerFails(w)
  <2>1. wk' \in [Workers -> WkState] /\ workerQ' \in [Workers -> Channel(Commands, WorkerDepth)]
    BY <1>6, <1>a DEF WorkerFails, WorkerEndsEarly, WkState, WkRecord, WorkerPcs, Stopped
  <2> QED
    BY <1>6, <2>1, <1>b DEF TInv, WorkerFails, WorkerEndsEarly
<1>7. CASE WorkerFlushDue(w)
  <2>1. wk' \in [Workers -> WkState]
    BY <1>7, <1>a DEF WorkerFlushDue, WkState, WkRecord, WorkerPcs
  <2> QED
    BY <1>7, <2>1 DEF TInv, WorkerFlushDue
<1>8. CASE WorkerFlush(w)
  <2>1. wk' \in [Workers -> WkState]
    BY <1>8, <1>a, EmptySeq DEF WorkerFlush, WkState, WkRecord, WorkerPcs
  <2>2. outQ' \in Channel(Messages, EventDepth)
    BY <1>8, <1>a, OutAppend DEF WorkerFlush, WkState, WkRecord, Messages, EventMessages
  <2> QED
    BY <1>8, <2>1, <2>2 DEF TInv, WorkerFlush
<1>9. CASE WorkerReport(w)
  <2>1. wk' \in [Workers -> WkState] /\ workerQ' \in [Workers -> Channel(Commands, WorkerDepth)]
    BY <1>9, <1>a DEF WorkerReport, WkState, WkRecord, WorkerPcs, Stopped
  <2>2. outQ' \in Channel(Messages, EventDepth)
    BY <1>9, <1>a, OutAppend DEF WorkerReport, WkState, WkRecord, Messages, ShardMessages
  <2> QED
    BY <1>9, <2>1, <2>2, <1>b DEF TInv, WorkerReport
<1>10. CASE WorkerPanics(w)
  <2>1. wk' \in [Workers -> WkState] /\ workerQ' \in [Workers -> Channel(Commands, WorkerDepth)]
    BY <1>10, <1>a DEF WorkerPanics, WorkerEndsEarly, WkState, WkRecord, WorkerPcs, Stopped
  <2>2. left' \in [packets : 0 .. MaxPackets, snapshots : 0 .. MaxSnapshots, faults : 0 .. MaxFaults]
    BY <1>10, LeftTyped DEF WorkerPanics, Fault
  <2> QED
    BY <1>10, <2>1, <2>2, <1>b DEF TInv, WorkerPanics, WorkerEndsEarly
<1>11. CASE WorkerSnapshot(w)
  <2>1. outQ' \in Channel(Messages, EventDepth)
    BY <1>11, <1>a, OutAppend DEF WorkerSnapshot, WkState, WkRecord, Messages, ShardMessages
  <2>2. left' \in [packets : 0 .. MaxPackets, snapshots : 0 .. MaxSnapshots, faults : 0 .. MaxFaults]
    BY <1>11, LeftTyped DEF WorkerSnapshot
  <2> QED
    BY <1>11, <2>1, <2>2 DEF TInv, WorkerSnapshot
<1> QED
  BY <1>1, <1>2, <1>3, <1>4, <1>5, <1>6, <1>7, <1>8, <1>9, <1>10, <1>11 DEF WorkerThread

\* The steps of an offload worker keep the types.
LEMMA OffloadTyped ==
    ASSUME TInv, NEW o \in Offloads,
           OffloadThread(o) \/ OffloadPanics(o) \/ OffloadSnapshot(o)
    PROVE  TInv'
<1>a. /\ off \in [Offloads -> OffState] /\ off[o] \in OffState
      /\ offloadQ \in [Offloads -> Channel(Tasks, OffloadDepth)]
      /\ OffloadDepth \in Nat
      /\ <<>> \in Channel(Tasks, OffloadDepth)
      /\ offloadQ[o] # <<>> => /\ Head(offloadQ[o]) \in Tasks
                              /\ Tail(offloadQ[o]) \in Channel(Tasks, OffloadDepth)
  BY ChannelHead, ChannelEmpty, PipelineAssumption DEF TInv
<1>1. CASE OffloadTask(o)
  <2> DEFINE chunk == Head(offloadQ[o])[2]
             events == Append(off[o].events, chunk)
  <2>1. chunk \in Chunks
    BY <1>1, <1>a, Kinds DEF OffloadTask
  <2>2. events \in Seq(Items)
    BY <2>1, <1>a, AppendProperties DEF OffState, Chunks, Items
  <2>3. chunk[1] \in Flows /\ <<"offload", o, chunk[2]>> \in Calls
    BY <2>1 DEF Chunks, Calls
  <2>4. parsed' \in [Flows -> Seq(Calls)]
    BY <1>1, <2>3, AppendProperties DEF OffloadTask, TInv
  <2>5. off' \in [Offloads -> OffState]
    <3>1. off' = [off EXCEPT ![o] = [pc |-> AfterCommand(events), events |-> events,
                                     processed |-> off[o].processed + 1]]
      BY <1>1 DEF OffloadTask
    <3> HIDE DEF events
    <3> QED
      BY <3>1, <2>2, <1>a DEF OffState, AfterCommand, WorkerPcs
  <2>6. offloadQ' \in [Offloads -> Channel(Tasks, OffloadDepth)]
    BY <1>1, <1>a DEF OffloadTask
  <2> QED
    BY <1>1, <2>4, <2>5, <2>6 DEF TInv, OffloadTask
<1>2. CASE OffloadShutdown(o)
  <2>1. off' \in [Offloads -> OffState] /\ offloadQ' \in [Offloads -> Channel(Tasks, OffloadDepth)]
    BY <1>2, <1>a DEF OffloadShutdown, OffState, WorkerPcs
  <2> QED
    BY <1>2, <2>1 DEF TInv, OffloadShutdown
<1>3. CASE OffloadFlushDue(o)
  <2>1. off' \in [Offloads -> OffState]
    BY <1>3, <1>a DEF OffloadFlushDue, OffState, WorkerPcs
  <2> QED
    BY <1>3, <2>1 DEF TInv, OffloadFlushDue
<1>4. CASE OffloadFlush(o)
  <2>1. off' \in [Offloads -> OffState]
    BY <1>4, <1>a, EmptySeq DEF OffloadFlush, OffState, WorkerPcs
  <2>2. outQ' \in Channel(Messages, EventDepth)
    BY <1>4, <1>a, OutAppend DEF OffloadFlush, OffState, Messages, EventMessages
  <2> QED
    BY <1>4, <2>1, <2>2 DEF TInv, OffloadFlush
<1>5. CASE OffloadReport(o)
  <2>1. off' \in [Offloads -> OffState]
    BY <1>5, <1>a DEF OffloadReport, OffState, WorkerPcs, Stopped
  <2>2. outQ' \in Channel(Messages, EventDepth)
    BY <1>5, <1>a, OutAppend DEF OffloadReport, OffState, Messages, OffloadMessages
  <2> QED
    BY <1>5, <2>1, <2>2 DEF TInv, OffloadReport
<1>6. CASE OffloadPanics(o)
  <2>1. off' \in [Offloads -> OffState] /\ offloadQ' \in [Offloads -> Channel(Tasks, OffloadDepth)]
    BY <1>6, <1>a DEF OffloadPanics, OffState, WorkerPcs, Stopped
  <2>2. left' \in [packets : 0 .. MaxPackets, snapshots : 0 .. MaxSnapshots, faults : 0 .. MaxFaults]
    BY <1>6, LeftTyped DEF OffloadPanics, Fault
  <2> QED
    BY <1>6, <2>1, <2>2 DEF TInv, OffloadPanics
<1>7. CASE OffloadSnapshot(o)
  <2>1. outQ' \in Channel(Messages, EventDepth)
    BY <1>7, <1>a, OutAppend DEF OffloadSnapshot, OffState, Messages, OffloadMessages
  <2>2. left' \in [packets : 0 .. MaxPackets, snapshots : 0 .. MaxSnapshots, faults : 0 .. MaxFaults]
    BY <1>7, LeftTyped DEF OffloadSnapshot
  <2> QED
    BY <1>7, <2>1, <2>2 DEF TInv, OffloadSnapshot
<1> QED
  BY <1>1, <1>2, <1>3, <1>4, <1>5, <1>6, <1>7 DEF OffloadThread

\* The steps of an HTTP client keep the types.
LEMMA ClientTyped ==
    ASSUME TInv, NEW r \in Slices, SliceTimeout(r) \/ \E w \in Workers : SliceAsk(r, w)
    PROVE  TInv'
<1>1. CASE SliceTimeout(r)
  BY <1>1 DEF SliceTimeout, TInv, Outcomes
<1>2. ASSUME NEW w \in Workers, SliceAsk(r, w)
      PROVE  TInv'
  <2>1. slice' \in [Slices -> Outcomes]
    BY <1>2 DEF SliceAsk, TInv, Outcomes
  <2>2. <<"slice", r>> \in Commands
    BY DEF Commands, SliceCommands
  <2>3. workerQ' \in [Workers -> Channel(Commands, WorkerDepth)]
    <3>1. Len(workerQ[w]) < WorkerDepth =>
              Append(workerQ[w], <<"slice", r>>) \in Channel(Commands, WorkerDepth)
      BY <2>2, WorkerHas, ChannelAppend
    <3>2. \/ /\ Len(workerQ[w]) < WorkerDepth
             /\ workerQ' = [workerQ EXCEPT ![w] = Append(workerQ[w], <<"slice", r>>)]
          \/ workerQ' = workerQ
      BY <1>2 DEF SliceAsk
    <3> QED
      BY <3>1, <3>2 DEF TInv
  <2> QED
    BY <1>2, <2>1, <2>3 DEF SliceAsk, TInv
<1> QED
  BY <1>1, <1>2

\* Taking a message off the output queue keeps the types.
LEMMA TakeTyped ==
    ASSUME TInv, outQ # <<>>, TakeMessage,
           \/ co.draining
           \/ co.pc \in {"collect", "offloadCollect"}
    PROVE  /\ outQ' \in Channel(Messages, EventDepth)
           /\ co' \in CoState
           /\ slots' \in [worker : [Workers -> StatsType], offload : [Offloads -> Nat]]
           /\ content' \subseteq Workers
           /\ left' \in [packets : 0 .. MaxPackets, snapshots : 0 .. MaxSnapshots, faults : 0 .. MaxFaults]
<1> DEFINE m == Head(outQ)
<1>1. m \in Messages /\ outQ' \in Channel(Messages, EventDepth)
  BY ChannelHead, PipelineAssumption DEF TInv, TakeMessage
<1>2. co \in CoState
  BY DEF TInv
<1>3. CASE m[1] = "events"
  <2>1. UNCHANGED <<slots, content>>
    BY <1>3 DEF TakeMessage
  <2>2. \/ UNCHANGED <<co, left>>
        \/ /\ left.faults > 0 /\ left' = [left EXCEPT !.faults = @ - 1]
           /\ co' = [co EXCEPT !.failed = TRUE, !.draining = @ /\ ~ Running,
                               !.pc = IF Running THEN "shutdown" ELSE @,
                               !.packet = <<>>]
    BY <1>3 DEF TakeMessage, Fault
  <2>3. left' \in [packets : 0 .. MaxPackets, snapshots : 0 .. MaxSnapshots, faults : 0 .. MaxFaults]
    BY <2>2, LeftTyped DEF TInv
  <2>4. co' \in CoState
    <3> SUFFICES ASSUME co' = [co EXCEPT !.failed = TRUE, !.draining = @ /\ ~ Running,
                                         !.pc = IF Running THEN "shutdown" ELSE @,
                                         !.packet = <<>>]
                 PROVE  co' \in CoState
      BY <1>2, <2>2
    <3>1. CASE Running
      <4>1. co' = [co EXCEPT !.failed = TRUE, !.draining = FALSE, !.pc = "shutdown", !.packet = <<>>]
        BY <3>1
      <4>2. co.index = 0
        BY <3>1, <1>2 DEF CoState, Running
      <4>3. /\ co' \in CoRecord
            /\ co'.pc = "shutdown" /\ co'.index = 0 /\ co'.draining = FALSE
        BY <4>1, <4>2, <1>2 DEF CoState, CoRecord, CoordPcs
      <4>4. 0 < WorkerCount
        BY PipelineAssumption
      <4> QED
        BY <4>3, <4>4 DEF CoState
    <3>2. CASE ~ Running
      <4>0. (co.draining /\ ~ Running) = co.draining
        BY <3>2, <1>2 DEF CoState, CoRecord
      <4>1. co' = [co EXCEPT !.failed = TRUE, !.draining = co.draining, !.packet = <<>>]
        BY <3>2, <4>0
      <4>2. co.pc # "send"
        BY <3>2 DEF Running
      <4> QED
        BY <4>1, <4>2, <1>2 DEF CoState, CoRecord, CoordPcs
    <3> QED
      BY <3>1, <3>2
  <2> QED
    BY <1>1, <2>1, <2>3, <2>4 DEF TInv
<1>4. CASE m[1] # "events"
  <2>1. left' = left
    BY <1>4 DEF TakeMessage
  <2>2. co' \in CoState
    <3>1. PICK n \in {co.received, co.received + 1} : co' = [co EXCEPT !.received = n]
      <4>1. co' = [co EXCEPT !.received = IF ~ Running /\ m[1] = Final THEN co.received + 1
                                                                     ELSE co.received]
        BY <1>4 DEF TakeMessage
      <4> QED
        BY <4>1
    <3>2. n \in Nat
      BY <3>1, <1>2 DEF CoState, CoRecord
    <3> QED
      BY <3>1, <3>2, <1>2 DEF CoState, CoRecord
  <2>3. CASE m[1] \in {"statsSnapshot", "stats"}
    <3>1. m[2] \in Workers /\ m[3] \in StatsType
      BY <1>1, <2>3, Kinds
    <3>2. slots' = [slots EXCEPT !.worker[m[2]] = m[3]] /\ content' \subseteq content \cup {m[2]}
      BY <2>3 DEF TakeMessage
    <3> QED
      BY <3>1, <3>2, <1>1, <2>1, <2>2 DEF TInv
  <2>4. CASE m[1] \in {"offloadSnapshot", "offloadStats"}
    <3>1. m[2] \in Offloads /\ m[3] \in Nat
      BY <1>1, <2>4, Kinds
    <3>2. slots' = [slots EXCEPT !.offload[m[2]] = m[3]] /\ content' = content
      BY <2>4 DEF TakeMessage
    <3> QED
      BY <3>1, <3>2, <1>1, <2>1, <2>2 DEF TInv
  <2> QED
    BY <1>4, <2>3, <2>4 DEF TakeMessage
<1> QED
  BY <1>3, <1>4

\* Moving on to the next target of a stage, or to the next stage.
LEMMA NextTargetTyped ==
    ASSUME TInv, NEW count \in Nat, co.index < count, ~ co.draining,
           NEW next \in {"collect", "offloadCollect"}, NextTarget(count, next),
           \/ co.pc = "shutdown" /\ count = WorkerCount
           \/ co.pc = "offloadShutdown" /\ count = OffloadCount
    PROVE  co' \in CoState
<1>1. co \in CoRecord /\ co.index \in Nat
  BY DEF TInv, CoState, CoRecord
<1>2. CASE co.index + 1 < count
  <2>1. co' = [co EXCEPT !.index = co.index + 1, !.pc = co.pc]
    BY <1>2 DEF NextTarget
  <2>2. /\ co' \in CoRecord /\ co'.pc = co.pc /\ co'.index = co.index + 1
        /\ co'.draining = co.draining
    <3>1. co.index + 1 \in Nat
      BY <1>1
    <3> DEFINE n == co.index + 1
    <3> HIDE DEF n
    <3>2. co' = [co EXCEPT !.index = n, !.pc = co.pc] /\ n \in Nat
      BY <2>1, <3>1 DEF n
    <3>3. /\ co' \in CoRecord /\ co'.pc = co.pc /\ co'.index = n
          /\ co'.draining = co.draining
      BY <3>2, <1>1 DEF CoRecord
    <3> QED
      BY <3>3 DEF n
  <2> QED
    BY <2>2, <1>1, <1>2 DEF CoState
<1>3. CASE ~ (co.index + 1 < count)
  <2>1. co' = [co EXCEPT !.index = 0, !.pc = next]
    BY <1>3 DEF NextTarget
  <2> QED
    BY <2>1, <1>1 DEF CoState, CoRecord, CoordPcs
<1> QED
  BY <1>2, <1>3

\* The steps of the coordinator and of the source keep the types.
LEMMA CoordTyped ==
    ASSUME TInv,
           \/ CoordThread \/ CoordEnd
           \/ \E f \in Flows, n \in ChunksPerPacket : CoordPacket(f, n)
    PROVE  TInv'
<1>a. co \in CoState /\ co \in CoRecord /\ WorkerCount \in Nat \ {0} /\ OffloadCount \in Nat
  BY PipelineAssumption DEF TInv, CoState
<1>1. ASSUME NEW f \in Flows, NEW n \in ChunksPerPacket, CoordPacket(f, n)
      PROVE  TInv'
  <2> DEFINE chunks == [i \in 1 .. n |-> <<f, routed[f] + i>>]
  <2>1. n \in Nat /\ routed[f] \in Nat
    BY PipelineAssumption DEF TInv
  <2>2. chunks \in Seq(Chunks)
    <3>1. \A i \in 1 .. n : <<f, routed[f] + i>> \in Chunks
      BY <2>1 DEF Chunks
    <3> QED
      BY <2>1, <3>1, IsASeq
  <2>3. <<"packet", f, chunks>> \in Packets /\ <<"packet", f, chunks>> # <<>>
    <3> HIDE DEF chunks
    <3> QED
      BY <2>2 DEF Packets
  <2>4. co' \in CoState
    <3>1. co' = [co EXCEPT !.pc = "send", !.packet = <<"packet", f, chunks>>] /\ co.pc = "source"
      BY <1>1 DEF CoordPacket
    <3> HIDE DEF chunks
    <3> QED
      BY <3>1, <2>3, <1>a DEF CoState, CoRecord, CoordPcs
  <2>5. left' \in [packets : 0 .. MaxPackets, snapshots : 0 .. MaxSnapshots, faults : 0 .. MaxFaults]
    BY <1>1, LeftTyped DEF CoordPacket
  <2> QED
    BY <1>1, <2>4, <2>5 DEF TInv, CoordPacket
<1>2. CASE CoordDrainDue
  <2>1. co' \in CoState
    BY <1>2, <1>a DEF CoordDrainDue, CoState, CoRecord
  <2> QED
    BY <1>2, <2>1 DEF TInv, CoordDrainDue
<1>3. CASE CoordEnd
  <2>1. co' \in CoState
    <3>1. co' = [co EXCEPT !.pc = "shutdown"] \/ co' = [co EXCEPT !.pc = "shutdown", !.failed = TRUE]
      BY <1>3 DEF CoordEnd
    <3>2. /\ co' \in CoRecord /\ co'.pc = "shutdown" /\ co'.index = co.index
          /\ co'.draining = co.draining
      BY <3>1, <1>a DEF CoRecord, CoordPcs
    <3>3. co.pc = "source" /\ co.index = 0
      BY <1>3, <1>a DEF CoordEnd, CoState
    <3> QED
      BY <3>2, <3>3, <1>a DEF CoState
  <2>2. left' \in [packets : 0 .. MaxPackets, snapshots : 0 .. MaxSnapshots, faults : 0 .. MaxFaults]
    BY <1>3, LeftTyped DEF CoordEnd, Fault, TInv
  <2> QED
    BY <1>3, <2>1, <2>2 DEF TInv, CoordEnd
<1>4. CASE CoordSend
  <2> DEFINE f == co.packet[2]
             w == Shard[f]
  <2>1. co.packet \in Packets /\ co.pc = "send"
    BY <1>4, <1>a DEF CoordSend, CoState, CoRecord
  <2>2. f \in Flows /\ w \in Workers /\ co.packet \in Commands /\ co.packet[3] \in Seq(Chunks)
    BY <2>1, PipelineAssumption DEF Packets, Commands
  <2>3. co' \in CoState
    <3>1. \/ co' = [co EXCEPT !.pc = "source", !.packet = <<>>]
          \/ co' = [co EXCEPT !.draining = TRUE]
          \/ co' = [co EXCEPT !.pc = "shutdown", !.packet = <<>>, !.failed = TRUE]
      BY <1>4 DEF CoordSend
    <3>2. /\ co' \in CoRecord /\ co'.pc \in {"source", "send", "shutdown"} /\ co'.index = co.index
          /\ co'.pc = "send" => co'.packet = co.packet
      BY <3>1, <2>1, <1>a DEF CoRecord, CoordPcs
    <3>3. co.packet # <<>> /\ co.index = 0
      BY <2>1, <1>a DEF CoState
    <3> QED
      BY <3>2, <3>3, <1>a DEF CoState
  <2>4. workerQ' \in [Workers -> Channel(Commands, WorkerDepth)]
    <3>1. Len(workerQ[w]) < WorkerDepth => Append(workerQ[w], co.packet) \in Channel(Commands, WorkerDepth)
      BY <2>2, WorkerHas, ChannelAppend
    <3>2. \/ Len(workerQ[w]) < WorkerDepth /\ workerQ' = [workerQ EXCEPT ![w] = Append(workerQ[w], co.packet)]
          \/ workerQ' = workerQ
      BY <1>4 DEF CoordSend
    <3> QED
      BY <3>1, <3>2 DEF TInv
  <2>5. routed' \in [Flows -> Nat]
    <3>1. Len(co.packet[3]) \in Nat
      BY <2>2, LenProperties
    <3>2. \/ routed' = [routed EXCEPT ![f] = routed[f] + Len(co.packet[3])]
          \/ routed' = routed
      BY <1>4 DEF CoordSend
    <3>3. routed \in [Flows -> Nat] /\ f \in Flows
      BY <2>2 DEF TInv
    <3>4. routed[f] + Len(co.packet[3]) \in Nat
      BY <3>1, <3>3
    <3> QED
      BY <3>2, <3>3, <3>4
  <2> QED
    BY <1>4, <2>3, <2>4, <2>5 DEF TInv, CoordSend
<1>5. CASE CoordDrain
  BY <1>5, TakeTyped DEF TInv, CoordDrain
<1>6. CASE CoordDrained
  <2>1. co' \in CoState
    <3>1. co'.failed \in BOOLEAN /\ co'.draining = FALSE
      BY <1>6, <1>a DEF CoordDrained, CoRecord
    <3>2. /\ co'.pc \in {"shutdown", co.pc} /\ co' = [co EXCEPT !.draining = FALSE, !.failed = co'.failed, !.pc = co'.pc]
          /\ co'.pc # co.pc => Running
      BY <1>6, <1>a DEF CoordDrained, CoRecord
    <3>3. /\ co' \in CoRecord /\ co'.index = co.index /\ co'.packet = co.packet
          /\ co'.pc = "shutdown" \/ co'.pc = co.pc
      BY <3>1, <3>2, <1>a DEF CoRecord, CoordPcs
    <3>4. Running => co.index = 0 /\ 0 < WorkerCount
      BY <1>a DEF CoState, Running
    <3> QED
      BY <3>1, <3>2, <3>3, <3>4, <1>a DEF CoState
  <2> QED
    BY <1>6, <2>1 DEF TInv, CoordDrained
<1>7. CASE CoordStopShard
  <2> DEFINE w == co.index
  <2>1. w \in Workers /\ co.pc = "shutdown" /\ ~ co.draining /\ w < WorkerCount
    BY <1>7, <1>a DEF CoordStopShard, CoState, CoRecord, Workers
  <2>2. co' \in CoState
    <3>1. CASE co' = [co EXCEPT !.draining = TRUE]
      BY <3>1, <2>1, <1>a DEF CoState, CoRecord
    <3>2. CASE NextTarget(WorkerCount, "collect")
      BY <3>2, <2>1, <1>a, NextTargetTyped
    <3> QED
      BY <1>7, <3>1, <3>2 DEF CoordStopShard
  <2>3. workerQ' \in [Workers -> Channel(Commands, WorkerDepth)]
    <3>1. <<"shutdown">> \in Commands
      BY DEF Commands
    <3>2. Len(workerQ[w]) < WorkerDepth => Append(workerQ[w], <<"shutdown">>) \in Channel(Commands, WorkerDepth)
      BY <3>1, <2>1, WorkerHas, ChannelAppend
    <3>3. \/ Len(workerQ[w]) < WorkerDepth /\ workerQ' = [workerQ EXCEPT ![w] = Append(workerQ[w], <<"shutdown">>)]
          \/ workerQ' = workerQ
      BY <1>7 DEF CoordStopShard
    <3> QED
      BY <3>2, <3>3 DEF TInv
  <2> QED
    BY <1>7, <2>2, <2>3 DEF TInv, CoordStopShard
<1>8. CASE CoordStopOffload
  <2> DEFINE o == co.index
  <2>1. o \in Offloads /\ co.pc = "offloadShutdown" /\ ~ co.draining /\ o < OffloadCount
    BY <1>8, <1>a DEF CoordStopOffload, CoState, CoRecord, Offloads
  <2>2. co' \in CoState
    <3>1. CASE co' = [co EXCEPT !.draining = TRUE]
      BY <3>1, <2>1, <1>a DEF CoState, CoRecord
    <3>2. CASE NextTarget(OffloadCount, "offloadCollect")
      BY <3>2, <2>1, <1>a, NextTargetTyped
    <3> QED
      BY <1>8, <3>1, <3>2 DEF CoordStopOffload
  <2>3. offloadQ' \in [Offloads -> Channel(Tasks, OffloadDepth)]
    <3>1. <<"shutdown">> \in Tasks /\ OffloadDepth \in Nat /\ offloadQ[o] \in Channel(Tasks, OffloadDepth)
      BY <2>1, PipelineAssumption DEF Tasks, TInv
    <3>2. Len(offloadQ[o]) < OffloadDepth => Append(offloadQ[o], <<"shutdown">>) \in Channel(Tasks, OffloadDepth)
      BY <3>1, ChannelAppend
    <3>3. \/ Len(offloadQ[o]) < OffloadDepth /\ offloadQ' = [offloadQ EXCEPT ![o] = Append(offloadQ[o], <<"shutdown">>)]
          \/ offloadQ' = offloadQ
      BY <1>8 DEF CoordStopOffload
    <3> QED
      BY <3>2, <3>3 DEF TInv
  <2>4. UNCHANGED <<policy, workerQ, outQ, wk, off, slots, content, slice, routed, parsed, left>>
    BY <1>8 DEF CoordStopOffload
  <2> QED
    BY <2>2, <2>3, <2>4 DEF TInv
<1>9. CASE CoordCollect
  BY <1>9, TakeTyped DEF TInv, CoordCollect
<1>10. CASE CoordCollected
  <2>1. co' \in CoState
    BY <1>10, <1>a DEF CoordCollected, CoState, CoRecord, CoordPcs
  <2> QED
    BY <1>10, <2>1 DEF TInv, CoordCollected
<1>11. CASE CoordJoin
  <2>1. co' \in CoState
    <3>1. co.pc \in {"join", "offloadJoin"} /\ ~ co.draining /\ co.index = 0
      BY <1>11, <1>a DEF CoordJoin, CoState, CoRecord
    <3>2. CASE co.pc = "join"
      <4>1. PICK b \in BOOLEAN :
              co' = [co EXCEPT !.failed = b, !.pc = IF OffloadCount > 0 THEN "offloadShutdown" ELSE "end",
                               !.received = 0]
        BY <1>11, <1>a, <3>2 DEF CoordJoin, CoRecord
      <4> QED
        BY <4>1, <3>1, <3>2, <1>a, PipelineAssumption DEF CoState, CoRecord, CoordPcs
    <3>3. CASE co.pc = "offloadJoin"
      <4>1. PICK b \in BOOLEAN : co' = [co EXCEPT !.failed = b, !.pc = "end"]
        BY <1>11, <1>a, <3>3 DEF CoordJoin, CoRecord
      <4> QED
        BY <4>1, <3>1, <3>3, <1>a DEF CoState, CoRecord, CoordPcs
    <3> QED
      BY <3>1, <3>2, <3>3
  <2> QED
    BY <1>11, <2>1 DEF TInv, CoordJoin
<1> QED
  BY <1>1, <1>2, <1>3, <1>4, <1>5, <1>6, <1>7, <1>8, <1>9, <1>10, <1>11 DEF CoordThread

\* The types are an inductive invariant.
LEMMA InitTyped == Init => TInv
<1> SUFFICES ASSUME Init PROVE TInv
  OBVIOUS
<1>1. /\ <<>> \in Channel(Commands, WorkerDepth) /\ <<>> \in Channel(Tasks, OffloadDepth)
      /\ <<>> \in Channel(Messages, EventDepth)
      /\ <<>> \in Channel(Flows \X Places, PlacementCapacity)
      /\ \A S : <<>> \in Seq(S)
  BY ChannelEmpty, EmptySeq, PipelineAssumption
<1>2. NoStats \in StatsType
  BY DEF NoStats, StatsType
<1>3. wk \in [Workers -> WkState] /\ off \in [Offloads -> OffState]
  BY <1>1, <1>2 DEF Init, WkState, WkRecord, OffState, WorkerPcs
<1>4. co \in CoState
  BY DEF Init, CoState, CoRecord, CoordPcs
<1> QED
  BY <1>1, <1>2, <1>3, <1>4, PipelineAssumption DEF Init, TInv, Outcomes

\* Every step keeps the types.
LEMMA NextTyped == TInv /\ [Next]_vars => TInv'
<1> SUFFICES ASSUME TInv, [Next]_vars PROVE TInv'
  OBVIOUS
<1>1. CASE UNCHANGED vars
  BY <1>1 DEF vars, TInv
<1>2. ASSUME NEW w \in Workers, WorkerThread(w) \/ WorkerPanics(w) \/ WorkerSnapshot(w)
      PROVE  TInv'
  BY <1>2, WorkerTyped
<1>3. ASSUME NEW o \in Offloads, OffloadThread(o) \/ OffloadPanics(o) \/ OffloadSnapshot(o)
      PROVE  TInv'
  BY <1>3, OffloadTyped
<1>4. ASSUME NEW r \in Slices, SliceTimeout(r) \/ \E w \in Workers : SliceAsk(r, w)
      PROVE  TInv'
  BY <1>4, ClientTyped
<1> QED
  BY <1>1, <1>2, <1>3, <1>4, CoordTyped DEF Next, Ended

\* No run of the threads leaves a control state, a counter or a record malformed, a
\* channel beyond its capacity, or a placement table beyond its limit.
THEOREM TypeCorrect == Spec => []TypeOK
<1>1. TInv => TypeOK
  BY DEF TInv, TypeOK, Channel, CoState, CoRecord, WkState, WkRecord, OffState
<1> QED
  BY InitTyped, NextTyped, <1>1, PTL DEF Spec

-----------------------------------------------------------------------------
(* What a step can do to the rest of the pipeline, thread by thread *)

Past == {"offloadShutdown", "offloadCollect", "offloadJoin", "end"}
Leaving == {"lastFlush", "report", "done"}

\* A live shard thread takes commands from its own queue, adds tasks to the queues
\* of live offload workers and messages to the output queue; it starts to leave
\* when it is told to, and its report is its last message.
WorkerEffect(w) ==
    /\ WorkerLive(w)
    /\ UNCHANGED <<co, off, slots>>
    /\ \A v \in Workers \ {w} : wk'[v] = wk[v] /\ workerQ'[v] = workerQ[v]
    /\ \/ workerQ'[w] = workerQ[w] /\ slice' = slice /\ wk'[w].pc \notin Stopped
       \/ /\ workerQ[w] # <<>> /\ workerQ'[w] = Tail(workerQ[w]) /\ wk'[w].pc \notin Stopped
          /\ \/ Head(workerQ[w])[1] # "slice" /\ slice' = slice
             \/ /\ Head(workerQ[w])[1] = "slice"
                /\ slice' = [slice EXCEPT ![Head(workerQ[w])[2]] = IF @ = "queued" THEN "answered" ELSE @]
       \/ workerQ'[w] = <<>> /\ Abandon(w) /\ wk'[w].pc \in Stopped
    /\ \/ offloadQ' = offloadQ
       \/ \E o \in Offloads, c \in Chunks :
            /\ OffloadLive(o) /\ Len(offloadQ[o]) < OffloadDepth
            /\ offloadQ' = [offloadQ EXCEPT ![o] = Append(offloadQ[o], <<"task", c>>)]
    /\ wk'[w].pc \in Leaving => \/ wk[w].pc \in Leaving
                                \/ workerQ[w] # <<>> /\ Head(workerQ[w]) = <<"shutdown">>
    /\ wk'[w].pc \in {"report", "done"} => \/ wk'[w].events = <<>>
                                           \/ wk[w].pc = "report" /\ wk'[w].events = wk[w].events
    /\ \/ outQ' = outQ /\ wk'[w].pc # "done"
       \/ \E m \in Messages :
            /\ OutRoom /\ outQ' = Append(outQ, m)
            /\ \/ m[1] = "events" /\ wk'[w].pc # "done"
               \/ m = <<"statsSnapshot", w, wk[w].stats>> /\ wk'[w].pc # "done"
               \/ m = <<"stats", w, wk[w].stats>> /\ wk'[w].pc = "done"
    /\ left'.faults = left.faults \/ wk'[w].pc = "dead"

\* Every step of a shard has such an effect.
LEMMA WorkerSteps ==
    ASSUME TInv, NEW w \in Workers,
           WorkerThread(w) \/ WorkerPanics(w) \/ WorkerSnapshot(w)
    PROVE  WorkerEffect(w)
<1>a. /\ wk \in [Workers -> WkState] /\ wk[w] \in WkState
      /\ workerQ \in [Workers -> Channel(Commands, WorkerDepth)]
      /\ workerQ[w] # <<>> /\ Head(workerQ[w])[1] = "shutdown" => Head(workerQ[w]) = <<"shutdown">>
  BY WorkerHas, Kinds DEF TInv
<1> USE DEF WorkerEffect, WorkerLive, Stopped, Leaving
<1>1. CASE WorkerPacket(w)
  BY <1>1, <1>a DEF WorkerPacket, AfterCommand, WkState, WkRecord
<1>2. CASE WorkerSlice(w)
  BY <1>2, <1>a DEF WorkerSlice, AfterCommand, WkState, WkRecord
<1>3. CASE WorkerShutdown(w)
  BY <1>3, <1>a DEF WorkerShutdown, WkState, WkRecord
<1>4. CASE WorkerChunk(w)
  <2>1. wk[w].pc = "chunks" /\ Head(wk[w].todo) \in Chunks
    BY <1>4, ChunkAtHand DEF WorkerChunk
  <2>2. wk'[w].pc \in {"chunks", "flush", "recv", "blocked"} /\ \A v \in Workers \ {w} : wk'[v] = wk[v]
    <3>1. \/ wk' = [wk EXCEPT ![w].pc = "blocked"]
          \/ \E events, table, stats : ChunkDone(w, events, table, stats)
      BY <1>4 DEF WorkerChunk, ParseHere, Submit
    <3>2. ASSUME NEW events, NEW table, NEW stats, ChunkDone(w, events, table, stats)
          PROVE  wk'[w].pc \in {"chunks", "flush", "recv"} /\ \A v \in Workers \ {w} : wk'[v] = wk[v]
      BY <3>2, <1>a DEF ChunkDone, AfterCommand
    <3> QED
      BY <3>1, <3>2, <1>a DEF WkState, WkRecord
  <2>3. \/ offloadQ' = offloadQ
        \/ \E o \in Offloads, c \in Chunks :
            /\ OffloadLive(o) /\ Len(offloadQ[o]) < OffloadDepth
            /\ offloadQ' = [offloadQ EXCEPT ![o] = Append(offloadQ[o], <<"task", c>>)]
    <3> DEFINE chunk == Head(wk[w].todo)
               target == OffloadShard[chunk[1]]
    <3>1. \/ offloadQ' = offloadQ
          \/ /\ OffloadCount # 0 /\ OffloadLive(target) /\ Len(offloadQ[target]) < OffloadDepth
             /\ offloadQ' = [offloadQ EXCEPT ![target] = Append(offloadQ[target], <<"task", chunk>>)]
      BY <1>4 DEF WorkerChunk, ParseHere, Submit
    <3>2. OffloadCount # 0 => target \in Offloads
      BY <2>1, ChunkAtHand, PipelineAssumption
    <3> HIDE DEF target, chunk
    <3> QED
      BY <3>1, <3>2, <2>1 DEF chunk
  <2> QED
    BY <1>4, <2>1, <2>2, <2>3 DEF WorkerChunk
<1>5. CASE WorkerUnblock(w)
  <2>1. wk[w].pc = "blocked" /\ Head(wk[w].todo) \in Chunks /\ OffloadCount > 0
    BY <1>5, <1>a, ChunkAtHand DEF WorkerUnblock, WkState
  <2>2. wk'[w].pc \in {"chunks", "flush", "recv"} /\ \A v \in Workers \ {w} : wk'[v] = wk[v]
    BY <1>5, <1>a DEF WorkerUnblock, Submit, ChunkDone, AfterCommand
  <2>3. \E o \in Offloads, c \in Chunks :
            /\ OffloadLive(o) /\ Len(offloadQ[o]) < OffloadDepth
            /\ offloadQ' = [offloadQ EXCEPT ![o] = Append(offloadQ[o], <<"task", c>>)]
    BY <1>5, <2>1, ChunkAtHand DEF WorkerUnblock, Submit
  <2> QED
    BY <1>5, <2>1, <2>2, <2>3 DEF WorkerUnblock
<1>6. CASE WorkerFails(w)
  BY <1>6, <1>a DEF WorkerFails, WorkerEndsEarly, WkState, WkRecord
<1>7. CASE WorkerFlushDue(w)
  BY <1>7, <1>a DEF WorkerFlushDue, WkState, WkRecord
<1>8. CASE WorkerFlush(w)
  <2>1. <<"events", wk[w].events>> \in Messages
    BY <1>a DEF WkState, WkRecord, Messages, EventMessages
  <2> QED
    BY <1>8, <1>a, <2>1 DEF WorkerFlush, WkState, WkRecord
<1>9. CASE WorkerReport(w)
  <2>1. <<"stats", w, wk[w].stats>> \in Messages
    BY <1>a DEF WkState, WkRecord, Messages, ShardMessages
  <2> QED
    BY <1>9, <1>a, <2>1 DEF WorkerReport, WkState, WkRecord
<1>10. CASE WorkerPanics(w)
  BY <1>10, <1>a DEF WorkerPanics, WorkerEndsEarly, WkState, WkRecord
<1>11. CASE WorkerSnapshot(w)
  <2>1. <<"statsSnapshot", w, wk[w].stats>> \in Messages
    BY <1>a DEF WkState, WkRecord, Messages, ShardMessages
  <2>2. left'.faults = left.faults
    BY <1>11 DEF WorkerSnapshot, TInv
  <2> QED
    BY <1>11, <1>a, <2>1, <2>2 DEF WorkerSnapshot
<1> QED
  BY <1>1, <1>2, <1>3, <1>4, <1>5, <1>6, <1>7, <1>8, <1>9, <1>10, <1>11 DEF WorkerThread

\* Likewise for an offload worker and its tasks.
OffloadEffect(o) ==
    /\ OffloadLive(o)
    /\ UNCHANGED <<co, wk, workerQ, slots>>
    /\ \A p \in Offloads \ {o} : off'[p] = off[p] /\ offloadQ'[p] = offloadQ[p]
    /\ \/ offloadQ[o] # <<>> /\ offloadQ'[o] = Tail(offloadQ[o])
       \/ offloadQ'[o] = offloadQ[o]
       \/ offloadQ'[o] = <<>> /\ off'[o].pc = "dead"
    /\ off'[o].pc \in Leaving => \/ off[o].pc \in Leaving /\ offloadQ'[o] = offloadQ[o]
                                 \/ /\ offloadQ[o] # <<>> /\ offloadQ'[o] = Tail(offloadQ[o])
                                    /\ Head(offloadQ[o]) = <<"shutdown">>
    /\ off'[o].pc \in {"report", "done"} => \/ off'[o].events = <<>>
                                            \/ off[o].pc = "report" /\ off'[o].events = off[o].events
    /\ \/ outQ' = outQ /\ off'[o].pc # "done"
       \/ \E m \in Messages :
            /\ OutRoom /\ outQ' = Append(outQ, m)
            /\ \/ m[1] = "events" /\ off'[o].pc # "done"
               \/ m = <<"offloadSnapshot", o, off[o].processed>> /\ off'[o].pc # "done"
               \/ m = <<"offloadStats", o, off[o].processed>> /\ off'[o].pc = "done"
    /\ left'.faults = left.faults \/ off'[o].pc = "dead"

\* Every step of an offload worker has such an effect.
LEMMA OffloadSteps ==
    ASSUME TInv, NEW o \in Offloads,
           OffloadThread(o) \/ OffloadPanics(o) \/ OffloadSnapshot(o)
    PROVE  OffloadEffect(o)
<1>a. /\ off \in [Offloads -> OffState] /\ off[o] \in OffState
      /\ offloadQ \in [Offloads -> Channel(Tasks, OffloadDepth)]
      /\ offloadQ[o] # <<>> /\ Head(offloadQ[o])[1] = "shutdown" => Head(offloadQ[o]) = <<"shutdown">>
  BY ChannelHead, Kinds, PipelineAssumption DEF TInv
<1> USE DEF OffloadEffect, OffloadLive, Stopped, Leaving
<1>1. CASE OffloadTask(o)
  BY <1>1, <1>a DEF OffloadTask, AfterCommand, OffState
<1>2. CASE OffloadShutdown(o)
  BY <1>2, <1>a DEF OffloadShutdown, OffState
<1>3. CASE OffloadFlushDue(o)
  BY <1>3, <1>a DEF OffloadFlushDue, OffState
<1>4. CASE OffloadFlush(o)
  <2>1. <<"events", off[o].events>> \in Messages
    BY <1>a DEF OffState, Messages, EventMessages
  <2> QED
    BY <1>4, <1>a, <2>1 DEF OffloadFlush, OffState
<1>5. CASE OffloadReport(o)
  <2>1. <<"offloadStats", o, off[o].processed>> \in Messages
    BY <1>a DEF OffState, Messages, OffloadMessages
  <2> QED
    BY <1>5, <1>a, <2>1 DEF OffloadReport, OffState
<1>6. CASE OffloadPanics(o)
  BY <1>6, <1>a DEF OffloadPanics, OffState
<1>7. CASE OffloadSnapshot(o)
  <2>1. <<"offloadSnapshot", o, off[o].processed>> \in Messages
    BY <1>a DEF OffState, Messages, OffloadMessages
  <2>2. left'.faults = left.faults
    BY <1>7 DEF OffloadSnapshot, TInv
  <2> QED
    BY <1>7, <1>a, <2>1, <2>2 DEF OffloadSnapshot
<1> QED
  BY <1>1, <1>2, <1>3, <1>4, <1>5, <1>6, <1>7 DEF OffloadThread

\* The coordinator only adds to the queues of live threads, a Shutdown only in its
\* stage; it does not turn back, it goes on to the offload workers when no shard is
\* live and ends when no thread is, and keeps an error it has met.
CoordEffect ==
    /\ UNCHANGED <<wk, off>>
    /\ \/ workerQ' = workerQ
       \/ \E w \in Workers, c \in Commands :
            /\ WorkerLive(w) /\ Len(workerQ[w]) < WorkerDepth
            /\ workerQ' = [workerQ EXCEPT ![w] = Append(workerQ[w], c)]
            /\ c = <<"shutdown">> => ~ Running'
    /\ \/ /\ offloadQ' = offloadQ
          /\ co.pc = "offloadShutdown" => co.index <= co'.index \/ co'.pc # "offloadShutdown"
       \/ /\ co.pc = "offloadShutdown" /\ co.index \in Offloads
          /\ OffloadLive(co.index) /\ Len(offloadQ[co.index]) < OffloadDepth
          /\ offloadQ' = [offloadQ EXCEPT ![co.index] = Append(offloadQ[co.index], <<"shutdown">>)]
          /\ co'.pc # "offloadShutdown" \/ co'.index = co.index + 1
    /\ Running' => Running
    /\ co.pc \in Past => co'.pc \in Past
    /\ co'.pc \in Past => \/ co.pc \in Past
                          \/ \A w \in Workers : ~ WorkerLive(w) /\ (wk[w].pc = "dead" => co'.failed)
    /\ co'.pc = "offloadShutdown" => co.pc \in {"join", "offloadShutdown"}
    /\ co'.pc = "end" => \/ co.pc = "end"
                         \/ \A o \in Offloads : ~ OffloadLive(o) /\ (off[o].pc = "dead" => co'.failed)
    /\ co.failed => co'.failed
    /\ left'.faults = left.faults \/ co'.failed

\* Every step of the coordinator has such an effect.
LEMMA CoordSteps ==
    ASSUME TInv,
           \/ CoordThread \/ CoordEnd
           \/ \E f \in Flows, n \in ChunksPerPacket : CoordPacket(f, n)
    PROVE  CoordEffect
<1>a. co \in CoState /\ co \in CoRecord /\ WorkerCount \in Nat \ {0} /\ OffloadCount \in Nat
      /\ co.index \in Nat
  BY PipelineAssumption DEF TInv, CoState, CoRecord
<1> USE DEF CoordEffect, Past, Running
<1>1. ASSUME NEW f \in Flows, NEW n \in ChunksPerPacket, CoordPacket(f, n)
      PROVE  CoordEffect
  <2>1. left'.faults = left.faults
    BY <1>1 DEF CoordPacket, TInv
  <2>2. PICK x : co' = [co EXCEPT !.pc = "send", !.packet = x]
    BY <1>1 DEF CoordPacket
  <2> QED
    BY <1>1, <1>a, <2>1, <2>2 DEF CoordPacket, CoRecord
<1>2. CASE CoordDrainDue
  BY <1>2, <1>a DEF CoordDrainDue, CoRecord
<1>3. CASE CoordEnd
  BY <1>3, <1>a DEF CoordEnd, CoRecord
<1>4. CASE CoordSend
  <2> DEFINE w == Shard[co.packet[2]]
  <2>1. co.packet \in Packets /\ co.pc = "send"
    BY <1>4, <1>a DEF CoordSend, CoState, CoRecord
  <2>2. w \in Workers /\ co.packet \in Commands /\ co.packet # <<"shutdown">>
    BY <2>1, PipelineAssumption DEF Packets, Commands
  <2>3. \/ workerQ' = workerQ
        \/ /\ WorkerLive(w) /\ Len(workerQ[w]) < WorkerDepth
           /\ workerQ' = [workerQ EXCEPT ![w] = Append(workerQ[w], co.packet)]
    BY <1>4 DEF CoordSend
  <2>4. co'.pc \in {"source", "send", "shutdown"} /\ (co.failed => co'.failed)
    <3>1. \/ co' = [co EXCEPT !.pc = "source", !.packet = <<>>]
          \/ co' = [co EXCEPT !.draining = TRUE]
          \/ co' = [co EXCEPT !.pc = "shutdown", !.packet = <<>>, !.failed = TRUE]
      BY <1>4 DEF CoordSend
    <3> QED
      BY <3>1, <1>a, <2>1 DEF CoRecord
  <2> HIDE DEF w
  <2>5. \/ workerQ' = workerQ
        \/ \E v \in Workers, c \in Commands :
            /\ WorkerLive(v) /\ Len(workerQ[v]) < WorkerDepth
            /\ workerQ' = [workerQ EXCEPT ![v] = Append(workerQ[v], c)]
            /\ c # <<"shutdown">>
    BY <2>2, <2>3
  <2>6. UNCHANGED <<wk, off, offloadQ, left>>
    BY <1>4 DEF CoordSend
  <2> QED
    BY <2>1, <2>4, <2>5, <2>6
<1>5. ASSUME TakeMessage, UNCHANGED <<workerQ, offloadQ, wk, off>>
      PROVE  CoordEffect
  <2>1. \/ co' = co /\ left' = left
        \/ co' = [co EXCEPT !.failed = TRUE, !.draining = @ /\ ~ Running,
                            !.pc = IF Running THEN "shutdown" ELSE @, !.packet = <<>>]
        \/ left' = left /\ \E n : co' = [co EXCEPT !.received = n]
    <3>1. CASE Head(outQ)[1] = "events"
      BY <3>1, <1>5 DEF TakeMessage
    <3>2. CASE Head(outQ)[1] # "events"
      <4>1. /\ left' = left
            /\ co' = [co EXCEPT !.received =
                        IF ~ Running /\ Head(outQ)[1] = Final THEN @ + 1 ELSE @]
        BY <3>2, <1>5 DEF TakeMessage
      <4> QED
        BY <4>1
    <3> QED
      BY <3>1, <3>2
  <2>2. /\ co.failed => co'.failed
        /\ co'.index = co.index
        /\ co'.pc = co.pc \/ (co'.pc = "shutdown" /\ Running)
        /\ left'.faults = left.faults \/ co'.failed
    BY <2>1, <1>a DEF CoRecord
  <2> QED
    BY <1>5, <2>2, <1>a
<1>6. CASE CoordDrained
  BY <1>6, <1>a DEF CoordDrained, CoRecord
<1>7. CASE CoordStopShard
  <2> DEFINE w == co.index
  <2>1. w \in Workers /\ co.pc = "shutdown" /\ <<"shutdown">> \in Commands
    BY <1>7, <1>a DEF CoordStopShard, CoState, CoRecord, Workers, Commands
  <2>2. \/ workerQ' = workerQ
        \/ /\ WorkerLive(w) /\ Len(workerQ[w]) < WorkerDepth
           /\ workerQ' = [workerQ EXCEPT ![w] = Append(workerQ[w], <<"shutdown">>)]
    BY <1>7 DEF CoordStopShard
  <2>3. co'.pc \in {"shutdown", "collect"} /\ (co.failed => co'.failed)
    BY <1>7, <2>1, <1>a DEF CoordStopShard, NextTarget, CoRecord
  <2>4. \/ workerQ' = workerQ
        \/ \E v \in Workers, c \in Commands :
            /\ WorkerLive(v) /\ Len(workerQ[v]) < WorkerDepth
            /\ workerQ' = [workerQ EXCEPT ![v] = Append(workerQ[v], c)]
    BY <2>1, <2>2
  <2>5. UNCHANGED <<wk, off, offloadQ, left>>
    BY <1>7 DEF CoordStopShard
  <2> QED
    BY <2>1, <2>3, <2>4, <2>5
<1>8. CASE CoordStopOffload
  <2>1. co.index \in Offloads /\ co.pc = "offloadShutdown"
    BY <1>8, <1>a DEF CoordStopOffload, CoState, CoRecord, Offloads
  <2>2. \/ co' = [co EXCEPT !.draining = TRUE]
        \/ co' = [co EXCEPT !.index = co.index + 1]
        \/ co' = [co EXCEPT !.index = 0, !.pc = "offloadCollect"]
    <3>1. ASSUME NextTarget(OffloadCount, "offloadCollect")
          PROVE  \/ co' = [co EXCEPT !.index = co.index + 1]
                 \/ co' = [co EXCEPT !.index = 0, !.pc = "offloadCollect"]
      <4>1. CASE co.index + 1 < OffloadCount
        <5>1. co' = [co EXCEPT !.index = co.index + 1, !.pc = co.pc]
          BY <3>1, <4>1 DEF NextTarget
        <5> QED
          BY <5>1, <1>a DEF CoRecord
      <4>2. CASE ~ (co.index + 1 < OffloadCount)
        BY <3>1, <4>2 DEF NextTarget
      <4> QED
        BY <4>1, <4>2
    <3> QED
      BY <1>8, <3>1 DEF CoordStopOffload
  <2>3. /\ co'.pc \in {"offloadShutdown", "offloadCollect"} /\ (co.failed => co'.failed)
        /\ co'.pc = "offloadShutdown" => co'.index \in {co.index, co.index + 1}
    BY <2>1, <2>2, <1>a DEF CoRecord
  <2>4. \/ offloadQ' = offloadQ
        \/ /\ OffloadLive(co.index) /\ Len(offloadQ[co.index]) < OffloadDepth
           /\ offloadQ' = [offloadQ EXCEPT ![co.index] = Append(offloadQ[co.index], <<"shutdown">>)]
           /\ co'.pc # "offloadShutdown" \/ co'.index = co.index + 1
    <3>1. \/ offloadQ' = offloadQ
          \/ /\ OffloadLive(co.index) /\ Len(offloadQ[co.index]) < OffloadDepth
             /\ offloadQ' = [offloadQ EXCEPT ![co.index] = Append(offloadQ[co.index], <<"shutdown">>)]
             /\ NextTarget(OffloadCount, "offloadCollect")
      BY <1>8 DEF CoordStopOffload
    <3>2. NextTarget(OffloadCount, "offloadCollect") =>
              co'.pc # "offloadShutdown" \/ co'.index = co.index + 1
      BY <1>a DEF NextTarget, CoRecord
    <3> QED
      BY <3>1, <3>2
  <2>5. UNCHANGED <<wk, off, workerQ, left>>
    BY <1>8 DEF CoordStopOffload
  <2> QED
    BY <2>1, <2>3, <2>4, <2>5, <1>a
<1>9. CASE CoordDrain \/ CoordCollect
  BY <1>9, <1>5 DEF CoordDrain, CoordCollect
<1>10. CASE CoordCollected
  BY <1>10, <1>a DEF CoordCollected, CoRecord, ShardStage
<1>11. CASE CoordJoin
  <2>1. OffloadCount = 0 => Offloads = {}
    BY DEF Offloads
  <2>2. CASE co.pc = "join"
    <3>1. /\ co' = [co EXCEPT !.failed = @ \/ \E w \in Workers : wk[w].pc = "dead",
                             !.pc = IF OffloadCount > 0 THEN "offloadShutdown" ELSE "end",
                             !.received = 0]
          /\ \A w \in Workers : ~ WorkerLive(w)
      BY <1>11, <2>2 DEF CoordJoin
    <3>2. /\ co'.pc = IF OffloadCount > 0 THEN "offloadShutdown" ELSE "end"
          /\ co.failed \/ (\E w \in Workers : wk[w].pc = "dead") => co'.failed
      BY <3>1, <1>a DEF CoRecord
    <3> QED
      BY <1>11, <2>1, <2>2, <3>1, <3>2, <1>a DEF CoordJoin
  <2>3. CASE co.pc = "offloadJoin"
    <3>1. /\ co' = [co EXCEPT !.failed = @ \/ \E o \in Offloads : off[o].pc = "dead", !.pc = "end"]
          /\ \A o \in Offloads : ~ OffloadLive(o)
      BY <1>11, <2>3 DEF CoordJoin
    <3>2. /\ co'.pc = "end"
          /\ co.failed \/ (\E o \in Offloads : off[o].pc = "dead") => co'.failed
      BY <3>1, <1>a DEF CoRecord
    <3> QED
      BY <1>11, <2>3, <3>1, <3>2 DEF CoordJoin
  <2> QED
    BY <1>11, <2>2, <2>3 DEF CoordJoin
<1> QED
  BY <1>1, <1>2, <1>3, <1>4, <1>6, <1>7, <1>8, <1>9, <1>10, <1>11 DEF CoordThread

-----------------------------------------------------------------------------
(* The stages of the shutdown *)

\* The threads stop in order: the shards before the coordinator goes on to the
\* offload workers, and those before the end; nobody starts to leave untold, and
\* the command to leave is the last one of a queue.
Staged ==
    /\ co.pc \in Past => \A w \in Workers : ~ WorkerLive(w)
    /\ co.pc = "end" => \A o \in Offloads : ~ OffloadLive(o)
    /\ \A w \in Workers :
        (wk[w].pc \in Leaving \/ Contains(workerQ[w], <<"shutdown">>)) => ~ Running
    /\ \A o \in Offloads :
        /\ (off[o].pc \in Leaving \/ Contains(offloadQ[o], <<"shutdown">>)) =>
                co.pc \in Past /\ (co.pc = "offloadShutdown" => o < co.index)
        /\ off[o].pc \in Leaving => offloadQ[o] = <<>>
        /\ \A i \in 1 .. Len(offloadQ[o]) :
                offloadQ[o][i] = <<"shutdown">> => i = Len(offloadQ[o])
    /\ \A w \in Workers : wk[w].pc \in {"report", "done"} => wk[w].events = <<>>
    /\ \A o \in Offloads : off[o].pc \in {"report", "done"} => off[o].events = <<>>

\* Every fault is, or will be, an error of the run: it is recorded at once, or
\* it has killed a thread, and a dead thread is found when it is joined.
Blamed ==
    /\ ~ NoFault => \/ co.failed
                    \/ \E w \in Workers : wk[w].pc = "dead"
                    \/ \E o \in Offloads : off[o].pc = "dead"
    /\ co.pc \in Past /\ (\E w \in Workers : wk[w].pc = "dead") => co.failed
    /\ co.pc = "end" /\ (\E o \in Offloads : off[o].pc = "dead") => co.failed

\* What a channel contains after its first element is taken and after one is added.
LEMMA ContainsSteps ==
    ASSUME NEW S, NEW depth \in Nat, NEW q \in Channel(S, depth), NEW e
    PROVE  /\ q # <<>> => /\ Contains(Tail(q), e) => Contains(q, e)
                          /\ Contains(q, e) => Head(q) = e \/ Contains(Tail(q), e)
                          /\ Head(q) = e => Contains(q, e)
           /\ \A x \in S : Len(q) < depth => (Contains(Append(q, x), e) <=> Contains(q, e) \/ x = e)
           /\ ~ Contains(<<>>, e)
<1>1. CASE q # <<>>
  <2> DEFINE t == Tail(q)
  <2>1. /\ Head(q) = q[1] /\ Len(t) = Len(q) - 1 /\ Len(q) \in Nat \ {0}
        /\ \A i \in 1 .. Len(t) : t[i] = q[i + 1]
    BY <1>1, ChannelHead
  <2> HIDE DEF t
  <2>2. Contains(t, e) => Contains(q, e)
    BY <2>1 DEF Contains
  <2>3. Contains(q, e) => Head(q) = e \/ Contains(t, e)
    <3> SUFFICES ASSUME NEW i \in 1 .. Len(q), q[i] = e, i # 1
                 PROVE  Contains(t, e)
      BY <2>1 DEF Contains
    <3>1. i - 1 \in 1 .. Len(t) /\ t[i - 1] = q[(i - 1) + 1]
      BY <2>1
    <3> QED
      BY <3>1 DEF Contains
  <2> QED
    BY <2>1, <2>2, <2>3 DEF t, Contains
<1>2. ASSUME NEW x \in S, Len(q) < depth
      PROVE  Contains(Append(q, x), e) <=> Contains(q, e) \/ x = e
  <2> DEFINE t == Append(q, x)
  <2>1. /\ Len(t) = Len(q) + 1 /\ Len(q) \in Nat /\ t[Len(q) + 1] = x
        /\ \A i \in 1 .. Len(q) : t[i] = q[i]
    BY <1>2, ChannelAppend
  <2> HIDE DEF t
  <2>2. Contains(t, e) <=> Contains(q, e) \/ x = e
    BY <2>1 DEF Contains
  <2> QED
    BY <2>2 DEF t
<1>3. ~ Contains(<<>>, e)
  BY DEF Contains
<1> QED
  BY <1>1, <1>2, <1>3

\* The steps of the shards keep the stages.
LEMMA WorkerStaged ==
    ASSUME TInv, TInv', Staged, NEW w \in Workers, WorkerEffect(w)
    PROVE  Staged'
<1>1. co.pc \notin Past /\ co' = co /\ off' = off
  BY DEF Staged, WorkerEffect, WorkerLive, Past
<1>2. \A o \in Offloads : off[o].pc \notin Leaving /\ ~ Contains(offloadQ[o], <<"shutdown">>)
  BY <1>1 DEF Staged
<1>3. \A v \in Workers :
        (wk'[v].pc \in Leaving \/ Contains(workerQ'[v], <<"shutdown">>)) => ~ Running
  <2> SUFFICES ASSUME wk'[w].pc \in Leaving \/ Contains(workerQ'[w], <<"shutdown">>)
               PROVE  ~ Running
    BY DEF Staged, WorkerEffect
  <2>1. /\ workerQ[w] \in Channel(Commands, WorkerDepth) /\ WorkerDepth \in Nat
    BY WorkerHas
  <2>2. Contains(workerQ'[w], <<"shutdown">>) => Contains(workerQ[w], <<"shutdown">>)
    BY <2>1, ContainsSteps DEF WorkerEffect
  <2>3. wk'[w].pc \in Leaving => wk[w].pc \in Leaving \/ Contains(workerQ[w], <<"shutdown">>)
    BY <2>1, ContainsSteps DEF WorkerEffect
  <2> QED
    BY <2>2, <2>3 DEF Staged
<1>4. \A o \in Offloads : ~ Contains(offloadQ'[o], <<"shutdown">>)
  <2> SUFFICES ASSUME NEW o \in Offloads, NEW c \in Chunks, Len(offloadQ[o]) < OffloadDepth,
                      offloadQ' = [offloadQ EXCEPT ![o] = Append(offloadQ[o], <<"task", c>>)]
               PROVE  ~ Contains(offloadQ'[o], <<"shutdown">>)
    BY <1>2 DEF WorkerEffect, TInv
  <2>1. offloadQ[o] \in Channel(Tasks, OffloadDepth) /\ OffloadDepth \in Nat
        /\ <<"task", c>> \in Tasks /\ <<"task", c>> # <<"shutdown">>
    BY PipelineAssumption DEF TInv, Tasks, TaskCommands
  <2>2. ~ Contains(Append(offloadQ[o], <<"task", c>>), <<"shutdown">>)
    BY <1>2, <2>1, ContainsSteps
  <2> QED
    BY <2>2 DEF TInv
<1>5. \A o \in Offloads : \A i \in 1 .. Len(offloadQ'[o]) : offloadQ'[o][i] # <<"shutdown">>
  BY <1>4 DEF Contains
<1>6. \A v \in Workers : wk'[v].pc \in {"report", "done"} => wk'[v].events = <<>>
  BY DEF Staged, WorkerEffect
<1> QED
  BY <1>1, <1>2, <1>3, <1>4, <1>5, <1>6 DEF Staged, Running, Past

\* The steps of the offload workers keep the stages.
LEMMA OffloadStaged ==
    ASSUME TInv, TInv', Staged, NEW o \in Offloads, OffloadEffect(o)
    PROVE  Staged'
<1> DEFINE q == offloadQ[o]
<1>1. q \in Channel(Tasks, OffloadDepth) /\ OffloadDepth \in Nat
  BY PipelineAssumption DEF TInv
<1>2. Contains(offloadQ'[o], <<"shutdown">>) => Contains(q, <<"shutdown">>)
  BY <1>1, ContainsSteps DEF OffloadEffect
<1>3. off'[o].pc \in Leaving => off[o].pc \in Leaving \/ Contains(q, <<"shutdown">>)
  BY <1>1, ContainsSteps DEF OffloadEffect
<1>4. off'[o].pc \in Leaving => offloadQ'[o] = <<>>
  <2>1. CASE off[o].pc \in Leaving /\ offloadQ'[o] = offloadQ[o]
    BY <2>1 DEF Staged
  <2>2. CASE q # <<>> /\ offloadQ'[o] = Tail(q) /\ Head(q) = <<"shutdown">>
    <3>1. Head(q) = q[1] /\ Len(q) \in Nat \ {0} /\ Len(Tail(q)) = Len(q) - 1
          /\ Tail(q) \in Channel(Tasks, OffloadDepth)
      BY <2>2, <1>1, ChannelHead
    <3>2. 1 = Len(q)
      <4>1. \A i \in 1 .. Len(q) : q[i] = <<"shutdown">> => i = Len(q)
        BY DEF Staged
      <4>2. q[1] = <<"shutdown">> /\ Len(q) \in Nat \ {0}
        BY <3>1, <2>2
      <4> HIDE DEF q
      <4> QED
        BY <4>1, <4>2
    <3> DEFINE t == Tail(q)
    <3>3. t \in Seq(Tasks) /\ Len(t) = 0
      BY <3>1, <3>2 DEF Channel
    <3> HIDE DEF t
    <3>4. t = <<>>
      BY <3>3, EmptySeq
    <3> QED
      BY <3>4, <2>2 DEF t
  <2> QED
    BY <2>1, <2>2 DEF OffloadEffect
<1>5. \A i \in 1 .. Len(offloadQ'[o]) :
        offloadQ'[o][i] = <<"shutdown">> => i = Len(offloadQ'[o])
  <2>1. CASE q # <<>> /\ offloadQ'[o] = Tail(q)
    <3> DEFINE t == Tail(q)
    <3>1. /\ Len(t) = Len(q) - 1 /\ Len(q) \in Nat \ {0}
          /\ \A i \in 1 .. Len(t) : t[i] = q[i + 1]
      BY <2>1, <1>1, ChannelHead
    <3>2. \A i \in 1 .. Len(q) : q[i] = <<"shutdown">> => i = Len(q)
      BY DEF Staged
    <3> HIDE DEF t, q
    <3>3. \A i \in 1 .. Len(t) : t[i] = <<"shutdown">> => i = Len(t)
      <4> SUFFICES ASSUME NEW i \in 1 .. Len(t), t[i] = <<"shutdown">>
                   PROVE  i = Len(t)
        OBVIOUS
      <4>1. i + 1 \in 1 .. Len(q) /\ q[i + 1] = <<"shutdown">>
        BY <3>1
      <4> QED
        BY <4>1, <3>1, <3>2
    <3> QED
      BY <3>3, <2>1 DEF t, q
  <2>2. CASE offloadQ'[o] = offloadQ[o]
    BY <2>2 DEF Staged
  <2>3. CASE offloadQ'[o] = <<>>
    BY <2>3
  <2> QED
    BY <2>1, <2>2, <2>3 DEF OffloadEffect
<1>6. off'[o].pc \in {"report", "done"} => off'[o].events = <<>>
  BY DEF Staged, OffloadEffect
<1>7. co.pc # "end"
  BY DEF OffloadEffect, Staged
<1>8. UNCHANGED <<co, wk, workerQ>> /\ \A p \in Offloads \ {o} : off'[p] = off[p] /\ offloadQ'[p] = offloadQ[p]
  BY DEF OffloadEffect
<1> QED
  BY <1>2, <1>3, <1>4, <1>5, <1>6, <1>7, <1>8 DEF Staged, Running, WorkerLive, OffloadLive

\* The steps of the coordinator keep the stages.
LEMMA CoordStaged ==
    ASSUME TInv, TInv', Staged, CoordEffect
    PROVE  Staged'
<1> USE DEF CoordEffect
<1>1. wk' = wk /\ off' = off /\ co.index \in Nat /\ co'.index \in Nat
  BY DEF TInv, CoState, CoRecord
<1>2. co'.pc \in Past => \A w \in Workers : ~ WorkerLive(w)
  BY DEF Staged
<1>3. co'.pc = "end" => \A o \in Offloads : ~ OffloadLive(o)
  BY DEF Staged
<1>4. ASSUME NEW v \in Workers, wk[v].pc \in Leaving \/ Contains(workerQ'[v], <<"shutdown">>)
      PROVE  ~ Running'
  <2>1. CASE wk[v].pc \in Leaving \/ Contains(workerQ[v], <<"shutdown">>)
    BY <2>1 DEF Staged
  <2>2. CASE ~ Contains(workerQ[v], <<"shutdown">>) /\ Contains(workerQ'[v], <<"shutdown">>)
    <3>1. PICK w \in Workers, c \in Commands :
            /\ Len(workerQ[w]) < WorkerDepth
            /\ workerQ' = [workerQ EXCEPT ![w] = Append(workerQ[w], c)]
            /\ c = <<"shutdown">> => ~ Running'
      BY <2>2
    <3>2. v = w
      BY <2>2, <3>1
    <3>3. workerQ'[w] = Append(workerQ[w], c)
      BY <3>1 DEF TInv
    <3>4. c = <<"shutdown">>
      BY <2>2, <3>1, <3>2, <3>3, WorkerHas, ContainsSteps
    <3> QED
      BY <3>1, <3>4
  <2> QED
    BY <1>4, <2>1, <2>2
<1>5. ASSUME NEW o \in Offloads
      PROVE  /\ (off[o].pc \in Leaving \/ Contains(offloadQ'[o], <<"shutdown">>)) =>
                    co'.pc \in Past /\ (co'.pc = "offloadShutdown" => o < co'.index)
             /\ off[o].pc \in Leaving => offloadQ'[o] = <<>>
             /\ \A i \in 1 .. Len(offloadQ'[o]) :
                    offloadQ'[o][i] = <<"shutdown">> => i = Len(offloadQ'[o])
  <2>0. o \in Nat
    BY DEF Offloads
  <2>1. CASE offloadQ'[o] = offloadQ[o]
    <3>1. (off[o].pc \in Leaving \/ Contains(offloadQ[o], <<"shutdown">>)) =>
            co.pc \in Past /\ (co.pc = "offloadShutdown" => o < co.index)
      BY DEF Staged
    <3>2. co.pc \in Past /\ (co.pc = "offloadShutdown" => o < co.index) =>
            co'.pc \in Past /\ (co'.pc = "offloadShutdown" => o < co'.index)
      BY <1>1, <2>0 DEF Past
    <3> QED
      BY <2>1, <3>1, <3>2 DEF Staged
  <2>2. CASE offloadQ'[o] # offloadQ[o]
    <3>1. /\ co.pc = "offloadShutdown" /\ co.index = o
          /\ OffloadLive(o) /\ Len(offloadQ[o]) < OffloadDepth
          /\ offloadQ'[o] = Append(offloadQ[o], <<"shutdown">>)
          /\ co'.pc # "offloadShutdown" \/ co'.index = co.index + 1
      BY <2>2 DEF TInv
    <3>2. off[o].pc \notin Leaving /\ ~ Contains(offloadQ[o], <<"shutdown">>)
      BY <3>1, <2>0 DEF Staged
    <3> DEFINE q == offloadQ[o]
               t == Append(q, <<"shutdown">>)
    <3>3. /\ Len(t) = Len(q) + 1 /\ Len(q) \in Nat
          /\ \A i \in 1 .. Len(q) : t[i] = q[i]
      <4>1. <<"shutdown">> \in Tasks /\ OffloadDepth \in Nat /\ q \in Channel(Tasks, OffloadDepth)
        BY PipelineAssumption DEF TInv, Tasks
      <4> QED
        BY <4>1, <3>1, ChannelAppend
    <3>4. \A i \in 1 .. Len(q) : q[i] # <<"shutdown">>
      BY <3>2 DEF Contains
    <3> HIDE DEF t, q
    <3>5. \A i \in 1 .. Len(t) : t[i] = <<"shutdown">> => i = Len(t)
      BY <3>3, <3>4
    <3>6. co'.pc \in Past /\ (co'.pc = "offloadShutdown" => o < co'.index)
      BY <3>1, <1>1, <2>0 DEF Past
    <3> QED
      BY <3>1, <3>2, <3>5, <3>6 DEF t, q
  <2> QED
    BY <2>1, <2>2
<1> QED
  BY <1>1, <1>2, <1>3, <1>4, <1>5 DEF Staged, WorkerLive, OffloadLive

\* The stages are an invariant.
LEMMA NextStaged == TInv /\ TInv' /\ Staged /\ [Next]_vars => Staged'
<1> SUFFICES ASSUME TInv, TInv', Staged, [Next]_vars PROVE Staged'
  OBVIOUS
<1>1. ASSUME NEW w \in Workers, WorkerThread(w) \/ WorkerPanics(w) \/ WorkerSnapshot(w)
      PROVE  Staged'
  BY <1>1, WorkerSteps, WorkerStaged
<1>2. ASSUME NEW o \in Offloads, OffloadThread(o) \/ OffloadPanics(o) \/ OffloadSnapshot(o)
      PROVE  Staged'
  BY <1>2, OffloadSteps, OffloadStaged
<1>3. CASE \/ CoordThread \/ CoordEnd
           \/ \E f \in Flows, n \in ChunksPerPacket : CoordPacket(f, n)
  BY <1>3, CoordSteps, CoordStaged
<1>4. CASE UNCHANGED vars
  BY <1>4 DEF vars, Staged, WorkerLive, OffloadLive, Running
<1>5. ASSUME NEW r \in Slices, SliceTimeout(r) \/ \E w \in Workers : SliceAsk(r, w)
      PROVE  Staged'
  <2>1. UNCHANGED <<co, wk, off, offloadQ>>
    BY <1>5 DEF SliceTimeout, SliceAsk
  <2>2. \A v \in Workers : Contains(workerQ'[v], <<"shutdown">>) => Contains(workerQ[v], <<"shutdown">>)
    <3> SUFFICES ASSUME NEW w \in Workers, Len(workerQ[w]) < WorkerDepth,
                        workerQ' = [workerQ EXCEPT ![w] = Append(workerQ[w], <<"slice", r>>)]
                 PROVE  Contains(workerQ'[w], <<"shutdown">>) => Contains(workerQ[w], <<"shutdown">>)
      BY <1>5 DEF SliceTimeout, SliceAsk, TInv
    <3>1. <<"slice", r>> \in Commands /\ <<"slice", r>> # <<"shutdown">>
      BY DEF Commands, SliceCommands
    <3>2. workerQ'[w] = Append(workerQ[w], <<"slice", r>>)
      BY DEF TInv
    <3> QED
      BY <3>1, <3>2, WorkerHas, ContainsSteps
  <2> QED
    BY <2>1, <2>2 DEF Staged, WorkerLive, OffloadLive, Running
<1> QED
  BY <1>1, <1>2, <1>3, <1>4, <1>5 DEF Next, Ended

\* At the start nobody is told to leave.
LEMMA InitStaged == Init => Staged
<1> SUFFICES ASSUME Init PROVE Staged
  OBVIOUS
<1>1. \A e : ~ Contains(<<>>, e)
  BY DEF Contains
<1> QED
  BY <1>1 DEF Init, Staged, Running, Past, Leaving

\* The shards are joined before an offload worker is told to stop: no chunk is ever
\* queued behind a Shutdown command or sent to a worker that has finished.
THEOREM OffloadStopsLastHolds == Spec => []OffloadStopsLast
<1>1. Staged => OffloadStopsLast
  BY DEF Staged, OffloadStopsLast, Leaving
<1> QED
  BY InitTyped, NextTyped, InitStaged, NextStaged, <1>1, PTL DEF Spec

-----------------------------------------------------------------------------
(* Slice requests *)

\* No step of a shard leaves a request pending that nobody will answer: what it
\* takes off its queue it answers, and what is queued when it stops it disconnects.
LEMMA WorkerPending ==
    ASSUME TInv, TInv', PendingSliceIsQueued, NEW w \in Workers, WorkerEffect(w)
    PROVE  PendingSliceIsQueued'
<1> SUFFICES ASSUME NEW r \in Slices, slice'[r] = "queued"
             PROVE  \E v \in Workers : WorkerLive(v)' /\ Contains(workerQ'[v], <<"slice", r>>)
  BY DEF PendingSliceIsQueued
<1>1. slice[r] = "queued"
  BY DEF WorkerEffect, Abandon, TInv
<1>2. PICK v \in Workers : WorkerLive(v) /\ Contains(workerQ[v], <<"slice", r>>)
  BY <1>1 DEF PendingSliceIsQueued
<1>3. CASE v # w
  BY <1>2, <1>3 DEF WorkerEffect, WorkerLive
<1>4. CASE v = w
  <2> DEFINE q == workerQ[w]
  <2>1. q \in Channel(Commands, WorkerDepth) /\ WorkerDepth \in Nat
    BY WorkerHas
  <2>2. CASE workerQ'[w] = q /\ wk'[w].pc \notin Stopped
    BY <1>2, <1>4, <2>2 DEF WorkerLive
  <2>3. ~ Abandon(w)
    BY <1>1, <1>2, <1>4 DEF Abandon, TInv
  <2>4. CASE /\ q # <<>> /\ workerQ'[w] = Tail(q) /\ wk'[w].pc \notin Stopped
             /\ \/ Head(q)[1] # "slice"
                \/ slice' = [slice EXCEPT ![Head(q)[2]] = IF @ = "queued" THEN "answered" ELSE @]
    <3>1. Head(q) # <<"slice", r>>
      <4> SUFFICES ASSUME Head(q) = <<"slice", r>>
                   PROVE  FALSE
        OBVIOUS
      <4>1. slice' = [slice EXCEPT ![r] = IF slice[r] = "queued" THEN "answered" ELSE slice[r]]
        BY <2>4
      <4> QED
        BY <4>1, <1>1 DEF TInv
    <3>2. Contains(Tail(q), <<"slice", r>>)
      BY <1>2, <1>4, <2>1, <2>4, <3>1, ContainsSteps
    <3> QED
      BY <3>2, <2>4 DEF WorkerLive
  <2> QED
    BY <2>2, <2>4, <2>3 DEF WorkerEffect
<1> QED
  BY <1>3, <1>4

\* Nor does a step of another thread or of a client.
LEMMA OtherPending ==
    ASSUME TInv, TInv', PendingSliceIsQueued, wk' = wk, slice' = slice,
           \/ workerQ' = workerQ
           \/ \E w \in Workers, c \in Commands :
                 /\ Len(workerQ[w]) < WorkerDepth
                 /\ workerQ' = [workerQ EXCEPT ![w] = Append(workerQ[w], c)]
    PROVE  PendingSliceIsQueued'
<1>1. ASSUME NEW v \in Workers, NEW e, Contains(workerQ[v], e)
      PROVE  Contains(workerQ'[v], e)
  <2> SUFFICES ASSUME NEW w \in Workers, NEW c \in Commands, Len(workerQ[w]) < WorkerDepth,
                      workerQ' = [workerQ EXCEPT ![w] = Append(workerQ[w], c)], v = w
               PROVE  Contains(workerQ'[w], e)
    BY <1>1 DEF TInv
  <2>1. workerQ'[w] = Append(workerQ[w], c)
    BY DEF TInv
  <2> QED
    BY <1>1, <2>1, WorkerHas, ContainsSteps
<1> QED
  BY <1>1 DEF PendingSliceIsQueued, WorkerLive

\* A client queues its request at a running worker, or gets an outcome at once.
LEMMA ClientPending ==
    ASSUME TInv, TInv', PendingSliceIsQueued, NEW r \in Slices,
           SliceTimeout(r) \/ \E w \in Workers : SliceAsk(r, w)
    PROVE  PendingSliceIsQueued'
<1>1. wk' = wk
  BY DEF SliceTimeout, SliceAsk
<1>2. CASE /\ workerQ' = workerQ
           /\ \E x \in Outcomes \ {"queued"} : slice' = [slice EXCEPT ![r] = x]
  BY <1>1, <1>2 DEF PendingSliceIsQueued, TInv, WorkerLive
<1>3. ASSUME NEW w \in Workers, WorkerLive(w), Len(workerQ[w]) < WorkerDepth,
             workerQ' = [workerQ EXCEPT ![w] = Append(@, <<"slice", r>>)],
             slice' = [slice EXCEPT ![r] = "queued"]
      PROVE  PendingSliceIsQueued'
  <2> SUFFICES ASSUME NEW s \in Slices, slice'[s] = "queued"
               PROVE  \E v \in Workers : WorkerLive(v)' /\ Contains(workerQ'[v], <<"slice", s>>)
    BY DEF PendingSliceIsQueued
  <2>1. \A e : Contains(workerQ[w], e) \/ e = <<"slice", r>> => Contains(workerQ'[w], e)
    <3>1. <<"slice", r>> \in Commands
      BY DEF Commands, SliceCommands
    <3>2. workerQ'[w] = Append(workerQ[w], <<"slice", r>>)
      BY <1>3 DEF TInv
    <3> QED
      BY <1>3, <3>1, <3>2, WorkerHas, ContainsSteps
  <2>2. CASE s = r
    BY <2>1, <2>2, <1>1, <1>3 DEF WorkerLive
  <2>3. CASE s # r
    <3>1. PICK v \in Workers : WorkerLive(v) /\ Contains(workerQ[v], <<"slice", s>>)
      BY <1>3, <2>3 DEF PendingSliceIsQueued, TInv
    <3>2. Contains(workerQ'[v], <<"slice", s>>)
      BY <3>1, <2>1, <1>3 DEF TInv
    <3> QED
      BY <3>1, <3>2, <1>1 DEF WorkerLive
  <2> QED
    BY <2>2, <2>3
<1> QED
  BY <1>2, <1>3 DEF SliceTimeout, SliceAsk, Outcomes

\* Every step leaves a pending request in the queue of a running worker.
LEMMA NextPending == TInv /\ TInv' /\ PendingSliceIsQueued /\ [Next]_vars => PendingSliceIsQueued'
<1> SUFFICES ASSUME TInv, TInv', PendingSliceIsQueued, [Next]_vars PROVE PendingSliceIsQueued'
  OBVIOUS
<1>1. ASSUME NEW w \in Workers, WorkerThread(w) \/ WorkerPanics(w) \/ WorkerSnapshot(w)
      PROVE  PendingSliceIsQueued'
  BY <1>1, WorkerSteps, WorkerPending
<1>2. ASSUME NEW o \in Offloads, OffloadThread(o) \/ OffloadPanics(o) \/ OffloadSnapshot(o)
      PROVE  PendingSliceIsQueued'
  <2>1. UNCHANGED <<wk, workerQ, slice>>
    BY <1>2 DEF OffloadThread, OffloadTask, OffloadShutdown, OffloadFlushDue, OffloadFlush,
                OffloadReport, OffloadPanics, OffloadSnapshot
  <2> QED
    BY <2>1, OtherPending
<1>3. CASE \/ CoordThread \/ CoordEnd
           \/ \E f \in Flows, n \in ChunksPerPacket : CoordPacket(f, n)
  <2>1. slice' = slice
    BY <1>3 DEF CoordThread, CoordDrainDue, CoordSend, CoordDrain, CoordDrained, CoordStopShard,
                CoordStopOffload, CoordCollect, CoordCollected, CoordJoin, CoordEnd, CoordPacket
  <2>2. CoordEffect
    BY <1>3, CoordSteps
  <2> QED
    BY <2>1, <2>2, OtherPending DEF CoordEffect
<1>4. CASE UNCHANGED vars
  BY <1>4, OtherPending DEF vars
<1>5. ASSUME NEW r \in Slices, SliceTimeout(r) \/ \E w \in Workers : SliceAsk(r, w)
      PROVE  PendingSliceIsQueued'
  BY <1>5, ClientPending
<1> QED
  BY <1>1, <1>2, <1>3, <1>4, <1>5 DEF Next, Ended

\* A slice request without an outcome sits in the queue of a running shard, whatever
\* order shards, clients and faults come in: no client waits on a dropped reply.
THEOREM PendingSliceIsQueuedHolds == Spec => []PendingSliceIsQueued
<1>1. Init => PendingSliceIsQueued
  BY DEF Init, PendingSliceIsQueued
<1> QED
  BY InitTyped, NextTyped, NextPending, <1>1, PTL DEF Spec

-----------------------------------------------------------------------------
(* Faults *)

\* Whoever takes a step, a fault of it is recorded or leaves a dead thread, which
\* nobody revives, and no join or end passes over a dead thread.
LEMMA NextBlamed == TInv /\ TInv' /\ Staged /\ Blamed /\ [Next]_vars => Blamed'
<1> SUFFICES ASSUME TInv, TInv', Staged, Blamed, [Next]_vars PROVE Blamed'
  OBVIOUS
<1> USE DEF Blamed, NoFault, Past
<1>1. ASSUME NEW w \in Workers, WorkerThread(w) \/ WorkerPanics(w) \/ WorkerSnapshot(w)
      PROVE  Blamed'
  <2>1. WorkerEffect(w)
    BY <1>1, WorkerSteps
  <2>2. \A v \in Workers : wk[v].pc = "dead" => wk'[v].pc = "dead"
    BY <2>1 DEF WorkerEffect, WorkerLive, Stopped
  <2>3. co.pc \notin Past
    BY <2>1 DEF WorkerEffect, Staged
  <2> QED
    BY <2>1, <2>2, <2>3 DEF WorkerEffect
<1>2. ASSUME NEW o \in Offloads, OffloadThread(o) \/ OffloadPanics(o) \/ OffloadSnapshot(o)
      PROVE  Blamed'
  <2>1. OffloadEffect(o)
    BY <1>2, OffloadSteps
  <2>2. \A p \in Offloads : off[p].pc = "dead" => off'[p].pc = "dead"
    BY <2>1 DEF OffloadEffect, OffloadLive, Stopped
  <2>3. co.pc # "end"
    BY <2>1 DEF OffloadEffect, Staged
  <2> QED
    BY <2>1, <2>2, <2>3 DEF OffloadEffect
<1>3. CASE \/ CoordThread \/ CoordEnd
           \/ \E f \in Flows, n \in ChunksPerPacket : CoordPacket(f, n)
  <2>1. CoordEffect
    BY <1>3, CoordSteps
  <2> QED
    BY <2>1 DEF CoordEffect
<1>4. CASE UNCHANGED vars
  BY <1>4 DEF vars
<1>5. ASSUME NEW r \in Slices, SliceTimeout(r) \/ \E w \in Workers : SliceAsk(r, w)
      PROVE  Blamed'
  BY <1>5 DEF SliceTimeout, SliceAsk
<1> QED
  BY <1>1, <1>2, <1>3, <1>4, <1>5 DEF Next, Ended

-----------------------------------------------------------------------------
(* Reports *)

Report(i, kind, t) == outQ[i][1] = kind /\ outQ[i][2] = t
ShardTaken == {w \in Workers : wk[w].pc = "done" /\ \A i \in 1 .. Len(outQ) : ~ Report(i, "stats", w)}
OffloadTaken == {o \in Offloads : off[o].pc = "done" /\ \A i \in 1 .. Len(outQ) : ~ Report(i, "offloadStats", o)}

\* The coordinator counts the reports it has taken; a thread reports once, as its
\* last message, so whatever is queued comes from a thread that has not reported
\* or whose report is queued behind it.
Reported ==
    /\ \A w \in Workers : \A i \in 1 .. Len(outQ) :
        Report(i, "stats", w) => /\ wk[w].pc = "done"
                                 /\ \A j \in 1 .. Len(outQ) : Report(j, "stats", w) => i = j
    /\ \A o \in Offloads : \A i \in 1 .. Len(outQ) :
        Report(i, "offloadStats", o) => /\ off[o].pc = "done"
                                        /\ \A j \in 1 .. Len(outQ) : Report(j, "offloadStats", o) => i = j
    /\ \A i \in 1 .. Len(outQ) :
        \/ \E w \in Workers : \/ wk[w].pc # "done"
                              \/ \E j \in i .. Len(outQ) : Report(j, "stats", w)
        \/ \E o \in Offloads : \/ off[o].pc # "done"
                               \/ \E j \in i .. Len(outQ) : Report(j, "offloadStats", o)
    /\ co.received = IF Running \/ ShardStage THEN Cardinality(ShardTaken)
                     ELSE IF co.pc = "end" THEN co.received
                     ELSE Cardinality(OffloadTaken)
    /\ co.pc \in Past \cup {"join"} => co.failed \/ ShardTaken = Workers
    /\ co.pc \in {"offloadJoin", "end"} => co.failed \/ OffloadTaken = Offloads

\* A step of a shard adds at most one message, and its own report last.
LEMMA WorkerReported ==
    ASSUME TInv, TInv', Staged, Reported, NEW w \in Workers, WorkerEffect(w)
    PROVE  Reported'
<1>1. /\ co.pc \notin Past /\ wk[w].pc # "done" /\ UNCHANGED <<co, off>>
      /\ \A v \in Workers \ {w} : wk'[v] = wk[v]
  BY DEF WorkerEffect, WorkerLive, Stopped, Staged
<1>2. outQ \in Channel(Messages, EventDepth) /\ EventDepth \in Nat
  BY PipelineAssumption DEF TInv
<1>a. PICK n \in Nat : Len(outQ) = n
  BY <1>2, LenProperties DEF Channel
<1>3. CASE outQ' = outQ /\ wk'[w].pc # "done"
  <2>1. ShardTaken' = ShardTaken /\ OffloadTaken' = OffloadTaken
    BY <1>1, <1>3 DEF ShardTaken, OffloadTaken, Report
  <2> QED
    BY <1>1, <1>3, <2>1 DEF Reported, Report, Running, ShardStage
<1>4. ASSUME NEW m \in Messages, OutRoom, outQ' = Append(outQ, m),
             \/ m[1] \notin {"stats", "offloadStats"} /\ wk'[w].pc # "done"
             \/ m[1] = "stats" /\ m[2] = w /\ wk'[w].pc = "done"
      PROVE  Reported'
  <2>1. /\ Len(outQ') = n + 1 /\ outQ'[n + 1] = m
        /\ \A i \in 1 .. n : outQ'[i] = outQ[i]
    BY <1>2, <1>a, <1>4, ChannelAppend DEF OutRoom
  <2>a. 1 .. Len(outQ') = (1 .. n) \cup {n + 1} /\ n + 1 \notin 1 .. n
    BY <2>1, <1>a
  <2>2. ShardTaken' = ShardTaken /\ OffloadTaken' = OffloadTaken
    <3>1. ASSUME NEW v \in Workers
          PROVE  v \in ShardTaken' <=> v \in ShardTaken
      <4>1. CASE v = w
        BY <4>1, <1>1, <1>4, <2>1, <2>a, <1>a DEF ShardTaken, Report
      <4>2. CASE v # w
        BY <4>2, <1>1, <1>4, <2>1, <2>a, <1>a DEF ShardTaken, Report
      <4> QED
        BY <4>1, <4>2
    <3>2. ASSUME NEW o \in Offloads
          PROVE  o \in OffloadTaken' <=> o \in OffloadTaken
      BY <1>1, <1>4, <2>1, <2>a, <1>a DEF OffloadTaken, Report
    <3> QED
      BY <3>1, <3>2 DEF ShardTaken, OffloadTaken
  <2>3. ASSUME NEW v \in Workers, NEW i \in 1 .. Len(outQ'), Report(i, "stats", v)'
        PROVE  wk'[v].pc = "done" /\ \A j \in 1 .. Len(outQ') : Report(j, "stats", v)' => i = j
    <3>1. \A k \in 1 .. n : Report(k, "stats", v) => v # w
      BY <1>1, <1>a DEF Reported
    <3>2. CASE v = w
      BY <3>1, <3>2, <2>3, <1>4, <2>1, <2>a DEF Report
    <3>3. CASE v # w
      BY <3>3, <2>3, <1>1, <1>4, <2>1, <2>a, <1>a DEF Report, Reported
    <3> QED
      BY <3>2, <3>3
  <2>4. ASSUME NEW o \in Offloads, NEW i \in 1 .. Len(outQ'), Report(i, "offloadStats", o)'
        PROVE  /\ off'[o].pc = "done"
               /\ \A j \in 1 .. Len(outQ') : Report(j, "offloadStats", o)' => i = j
    BY <2>4, <1>1, <1>4, <2>1, <2>a, <1>a DEF Report, Reported
  <2>5. ASSUME NEW i \in 1 .. Len(outQ')
        PROVE  \/ \E v \in Workers : \/ wk'[v].pc # "done"
                                     \/ \E j \in i .. Len(outQ') : Report(j, "stats", v)'
               \/ \E o \in Offloads : \/ off'[o].pc # "done"
                                      \/ \E j \in i .. Len(outQ') : Report(j, "offloadStats", o)'
    <3>1. CASE wk'[w].pc # "done"
      BY <3>1
    <3>2. CASE wk'[w].pc = "done"
      <4>1. n + 1 \in i .. Len(outQ') /\ Report(n + 1, "stats", w)'
        BY <3>2, <1>4, <2>1, <1>a DEF Report
      <4> QED
        BY <4>1
    <3> QED
      BY <3>1, <3>2
  <2>6. ShardTaken # Workers
    BY <1>1 DEF ShardTaken
  <2> QED
    BY <2>2, <2>3, <2>4, <2>5, <2>6, <1>1 DEF Reported, Running, ShardStage, Past
<1> QED
  BY <1>3, <1>4 DEF WorkerEffect

\* Likewise a step of an offload worker.
LEMMA OffloadReported ==
    ASSUME TInv, TInv', Staged, Reported, NEW o \in Offloads, OffloadEffect(o)
    PROVE  Reported'
<1>1. /\ co.pc # "end" /\ off[o].pc # "done" /\ UNCHANGED <<co, wk>>
      /\ \A p \in Offloads \ {o} : off'[p] = off[p]
  BY DEF OffloadEffect, OffloadLive, Stopped, Staged
<1>2. outQ \in Channel(Messages, EventDepth) /\ EventDepth \in Nat
  BY PipelineAssumption DEF TInv
<1>a. PICK n \in Nat : Len(outQ) = n
  BY <1>2, LenProperties DEF Channel
<1>3. CASE outQ' = outQ /\ off'[o].pc # "done"
  <2>1. ShardTaken' = ShardTaken /\ OffloadTaken' = OffloadTaken
    BY <1>1, <1>3 DEF ShardTaken, OffloadTaken, Report
  <2> QED
    BY <1>1, <1>3, <2>1 DEF Reported, Report, Running, ShardStage
<1>4. ASSUME NEW m \in Messages, OutRoom, outQ' = Append(outQ, m),
             \/ m[1] \notin {"stats", "offloadStats"} /\ off'[o].pc # "done"
             \/ m[1] = "offloadStats" /\ m[2] = o /\ off'[o].pc = "done"
      PROVE  Reported'
  <2>1. /\ Len(outQ') = n + 1 /\ outQ'[n + 1] = m
        /\ \A i \in 1 .. n : outQ'[i] = outQ[i]
    BY <1>2, <1>a, <1>4, ChannelAppend DEF OutRoom
  <2>a. 1 .. Len(outQ') = (1 .. n) \cup {n + 1} /\ n + 1 \notin 1 .. n
    BY <2>1, <1>a
  <2>2. ShardTaken' = ShardTaken /\ OffloadTaken' = OffloadTaken
    <3>1. ASSUME NEW p \in Offloads
          PROVE  p \in OffloadTaken' <=> p \in OffloadTaken
      <4>1. CASE p = o
        BY <4>1, <1>1, <1>4, <2>1, <2>a, <1>a DEF OffloadTaken, Report
      <4>2. CASE p # o
        BY <4>2, <1>1, <1>4, <2>1, <2>a, <1>a DEF OffloadTaken, Report
      <4> QED
        BY <4>1, <4>2
    <3>2. ASSUME NEW w \in Workers
          PROVE  w \in ShardTaken' <=> w \in ShardTaken
      BY <1>1, <1>4, <2>1, <2>a, <1>a DEF ShardTaken, Report
    <3> QED
      BY <3>1, <3>2 DEF ShardTaken, OffloadTaken
  <2>3. ASSUME NEW p \in Offloads, NEW i \in 1 .. Len(outQ'), Report(i, "offloadStats", p)'
        PROVE  /\ off'[p].pc = "done"
               /\ \A j \in 1 .. Len(outQ') : Report(j, "offloadStats", p)' => i = j
    <3>1. \A k \in 1 .. n : Report(k, "offloadStats", p) => p # o
      BY <1>1, <1>a DEF Reported
    <3>2. CASE p = o
      BY <3>1, <3>2, <2>3, <1>4, <2>1, <2>a DEF Report
    <3>3. CASE p # o
      BY <3>3, <2>3, <1>1, <1>4, <2>1, <2>a, <1>a DEF Report, Reported
    <3> QED
      BY <3>2, <3>3
  <2>4. ASSUME NEW w \in Workers, NEW i \in 1 .. Len(outQ'), Report(i, "stats", w)'
        PROVE  wk'[w].pc = "done" /\ \A j \in 1 .. Len(outQ') : Report(j, "stats", w)' => i = j
    BY <2>4, <1>1, <1>4, <2>1, <2>a, <1>a DEF Report, Reported
  <2>5. ASSUME NEW i \in 1 .. Len(outQ')
        PROVE  \/ \E v \in Workers : \/ wk'[v].pc # "done"
                                     \/ \E j \in i .. Len(outQ') : Report(j, "stats", v)'
               \/ \E p \in Offloads : \/ off'[p].pc # "done"
                                      \/ \E j \in i .. Len(outQ') : Report(j, "offloadStats", p)'
    <3>1. CASE off'[o].pc # "done"
      BY <3>1
    <3>2. CASE off'[o].pc = "done"
      <4>1. n + 1 \in i .. Len(outQ') /\ Report(n + 1, "offloadStats", o)'
        BY <3>2, <1>4, <2>1, <1>a DEF Report
      <4> QED
        BY <4>1
    <3> QED
      BY <3>1, <3>2
  <2>6. OffloadTaken # Offloads
    BY <1>1 DEF OffloadTaken
  <2> QED
    BY <2>2, <2>3, <2>4, <2>5, <2>6, <1>1 DEF Reported, Running, ShardStage, Past
<1> QED
  BY <1>3, <1>4 DEF OffloadEffect

\* What the coordinator does about the reports: it goes on to a join when it has
\* counted them all or records an error, starts to count anew after the shards are
\* joined, and counts the reports it takes off the queue.
CoordCounts ==
    \/ /\ outQ' = outQ /\ co'.received = co.received
       /\ \/ co'.pc = co.pc /\ co.pc # "join"
          \/ /\ co.pc \in {"source", "send", "shutdown"}
             /\ co'.pc \in {"source", "send", "shutdown", "collect"}
          \/ co.pc = "offloadShutdown" /\ co'.pc = "offloadCollect"
          \/ /\ co.pc = "collect" /\ co'.pc = "join"
             /\ co'.failed \/ co.received = WorkerCount
          \/ /\ co.pc = "offloadCollect" /\ co'.pc = "offloadJoin"
             /\ co'.failed \/ co.received = OffloadCount
          \/ co.pc = "offloadJoin" /\ co'.pc = "end"
    \/ /\ outQ' = outQ /\ co'.received = 0 /\ co.pc = "join"
       /\ co'.pc = IF OffloadCount > 0 THEN "offloadShutdown" ELSE "end"
    \/ /\ outQ # <<>> /\ outQ' = Tail(outQ)
       /\ co.pc \notin {"join", "offloadJoin", "end"}
       /\ co'.pc = co.pc \/ (Running /\ co'.pc = "shutdown")
       /\ co'.received = IF ~ Running /\ Head(outQ)[1] = Final THEN co.received + 1 ELSE co.received

\* Every step of the coordinator counts the reports it takes.
LEMMA CoordCountSteps ==
    ASSUME TInv,
           \/ CoordThread \/ CoordEnd
           \/ \E f \in Flows, n \in ChunksPerPacket : CoordPacket(f, n)
    PROVE  CoordCounts
<1>a. co \in CoState /\ co \in CoRecord
  BY DEF TInv, CoState
<1> USE DEF CoordCounts
<1>1. ASSUME NEW f \in Flows, NEW n \in ChunksPerPacket, CoordPacket(f, n)
      PROVE  CoordCounts
  <2>1. PICK x : co' = [co EXCEPT !.pc = "send", !.packet = x]
    BY <1>1 DEF CoordPacket
  <2> QED
    BY <1>1, <1>a, <2>1 DEF CoordPacket, CoRecord
<1>2. CASE CoordDrainDue
  BY <1>2, <1>a DEF CoordDrainDue, CoRecord
<1>3. CASE CoordEnd
  BY <1>3, <1>a DEF CoordEnd, CoRecord
<1>4. CASE CoordSend
  BY <1>4, <1>a DEF CoordSend, CoRecord
<1>5. ASSUME TakeMessage, outQ # <<>>, co.pc \notin {"join", "offloadJoin", "end"}
      PROVE  CoordCounts
  <2>1. CASE Head(outQ)[1] = "events"
    <3>1. \/ co' = co
          \/ co' = [co EXCEPT !.failed = TRUE, !.draining = @ /\ ~ Running,
                              !.pc = IF Running THEN "shutdown" ELSE @, !.packet = <<>>]
      BY <2>1, <1>5 DEF TakeMessage
    <3>2. co'.pc = co.pc \/ (Running /\ co'.pc = "shutdown")
      BY <3>1, <1>a DEF CoRecord
    <3>3. co'.received = co.received /\ Final # "events"
      BY <3>1, <1>a DEF CoRecord, Final
    <3> QED
      BY <1>5, <2>1, <3>2, <3>3 DEF TakeMessage
  <2>2. CASE Head(outQ)[1] # "events"
    <3>1. co' = [co EXCEPT !.received =
                    IF ~ Running /\ Head(outQ)[1] = Final THEN @ + 1 ELSE @]
      BY <2>2, <1>5 DEF TakeMessage
    <3>2. co'.pc = co.pc
          /\ co'.received = IF ~ Running /\ Head(outQ)[1] = Final THEN co.received + 1 ELSE co.received
      BY <3>1, <1>a DEF CoRecord
    <3> QED
      BY <1>5, <3>2 DEF TakeMessage
  <2> QED
    BY <2>1, <2>2
<1>6. CASE CoordDrained
  BY <1>6, <1>a DEF CoordDrained, CoRecord, CoState, Running
<1>7. CASE CoordStopShard
  BY <1>7, <1>a DEF CoordStopShard, NextTarget, CoRecord
<1>8. CASE CoordStopOffload
  BY <1>8, <1>a DEF CoordStopOffload, NextTarget, CoRecord
<1>9. CASE CoordDrain
  BY <1>9, <1>5, <1>a DEF CoordDrain, CoState
<1>10. CASE CoordCollect
  BY <1>10, <1>5 DEF CoordCollect
<1>11. CASE CoordCollected
  <2>1. /\ co'.received = co.received
        /\ co'.pc = IF ShardStage THEN "join" ELSE "offloadJoin"
        /\ co'.failed = (co.failed \/ co.received < Expected)
        /\ co.received = Expected \/ co.received < Expected
        /\ outQ' = outQ
    BY <1>11, <1>a DEF CoordCollected, CoRecord
  <2> QED
    BY <2>1, <1>11 DEF CoordCollected, ShardStage, Expected
<1>12. CASE CoordJoin
  BY <1>12, <1>a DEF CoordJoin, CoRecord
<1> QED
  BY <1>1, <1>2, <1>3, <1>4, <1>6, <1>7, <1>8, <1>9, <1>10, <1>11, <1>12 DEF CoordThread

\* The threads are finitely many: when as many reports are counted as there are
\* threads, every thread has reported.
LEMMA Counting ==
    /\ \A T \in SUBSET Workers : IsFiniteSet(T) /\ (Cardinality(T) = WorkerCount => T = Workers)
    /\ \A T \in SUBSET Offloads : IsFiniteSet(T) /\ (Cardinality(T) = OffloadCount => T = Offloads)
<1>1. WorkerCount \in Nat \ {0} /\ OffloadCount \in Nat
  BY PipelineAssumption
<1>2. ASSUME NEW n \in Nat, NEW T \in SUBSET (0 .. n - 1)
      PROVE  IsFiniteSet(T) /\ (Cardinality(T) = n => T = 0 .. n - 1)
  <2>1. IsFiniteSet(0 .. n - 1) /\ Cardinality(0 .. n - 1) = IF 0 > n - 1 THEN 0 ELSE n - 1 - 0 + 1
    BY FS_Interval
  <2>2. Cardinality(0 .. n - 1) = n
    BY <2>1
  <2> QED
    BY <2>1, <2>2, FS_Subset
<1> QED
  BY <1>1, <1>2 DEF Workers, Offloads

\* The count of reports is kept by the coordinator.
LEMMA CoordReported ==
    ASSUME TInv, TInv', Staged, Reported, CoordEffect, CoordCounts
    PROVE  Reported'
<1>a. wk' = wk /\ off' = off /\ (co.failed => co'.failed)
  BY DEF CoordEffect
<1>b. co.received \in Nat /\ co.pc \in CoordPcs
  BY DEF TInv, CoState, CoRecord
<1>c. ShardTaken \in SUBSET Workers /\ OffloadTaken \in SUBSET Offloads
  BY DEF ShardTaken, OffloadTaken
<1>1. CASE outQ' = outQ
  <2>1. ShardTaken' = ShardTaken /\ OffloadTaken' = OffloadTaken
    BY <1>1, <1>a DEF ShardTaken, OffloadTaken, Report
  <2>2. /\ \A w \in Workers : \A i \in 1 .. Len(outQ') :
            Report(i, "stats", w)' => /\ wk'[w].pc = "done"
                                      /\ \A j \in 1 .. Len(outQ') : Report(j, "stats", w)' => i = j
        /\ \A o \in Offloads : \A i \in 1 .. Len(outQ') :
            Report(i, "offloadStats", o)' => /\ off'[o].pc = "done"
                                             /\ \A j \in 1 .. Len(outQ') : Report(j, "offloadStats", o)' => i = j
        /\ \A i \in 1 .. Len(outQ') :
            \/ \E w \in Workers : \/ wk'[w].pc # "done"
                                  \/ \E j \in i .. Len(outQ') : Report(j, "stats", w)'
            \/ \E o \in Offloads : \/ off'[o].pc # "done"
                                   \/ \E j \in i .. Len(outQ') : Report(j, "offloadStats", o)'
    BY <1>1, <1>a DEF Reported, Report
  <2>3. CASE co'.received = co.received /\ co.pc # "join"
    <3>1. co.pc = "collect" /\ co.received = WorkerCount => ShardTaken = Workers
      BY <1>c, Counting DEF Reported, ShardStage
    <3>2. co.pc = "offloadCollect" /\ co.received = OffloadCount => OffloadTaken = Offloads
      BY <1>c, Counting DEF Reported, ShardStage, Running
    <3> QED
      BY <2>1, <2>2, <2>3, <3>1, <3>2, <1>1, <1>a DEF CoordCounts, Reported, Running, ShardStage, Past
  <2>4. CASE co.pc = "join"
    <3>1. OffloadTaken = {}
      BY <2>4 DEF OffloadTaken, Staged, Leaving, Past
    <3>2. Cardinality(OffloadTaken) = 0 /\ (OffloadCount = 0 => Offloads = {})
      BY <3>1, FS_EmptySet DEF Offloads
    <3>3. OffloadCount \in Nat
      BY PipelineAssumption
    <3> QED
      BY <2>1, <2>2, <2>4, <3>1, <3>2, <3>3, <1>1, <1>a
      DEF CoordCounts, Reported, Running, ShardStage, Past
  <2> QED
    BY <2>3, <2>4, <1>1 DEF CoordCounts
<1>2. CASE /\ outQ # <<>> /\ outQ' = Tail(outQ)
           /\ co.pc \notin {"join", "offloadJoin", "end"}
           /\ co'.pc = co.pc \/ (Running /\ co'.pc = "shutdown")
           /\ co'.received = IF ~ Running /\ Head(outQ)[1] = Final THEN co.received + 1 ELSE co.received
  <2>1. outQ \in Channel(Messages, EventDepth) /\ EventDepth \in Nat
    BY PipelineAssumption DEF TInv
  <2>2. PICK n \in Nat \ {0} : Len(outQ) = n
    BY <2>1, <1>2, ChannelHead
  <2>3. /\ Head(outQ) \in Messages /\ Head(outQ) = outQ[1]
        /\ Len(outQ') = n - 1 /\ \A i \in 1 .. n - 1 : outQ'[i] = outQ[i + 1]
    BY <2>1, <2>2, <1>2, ChannelHead
  <2>4. \A kind, thread : \A i \in 1 .. n - 1 : Report(i, kind, thread)' <=> Report(i + 1, kind, thread)
    BY <2>3 DEF Report
  <2>5. ASSUME NEW kind, NEW thread
        PROVE  (\A i \in 1 .. n - 1 : ~ Report(i, kind, thread)') <=> \A i \in 2 .. n : ~ Report(i, kind, thread)
    <3>1. ASSUME NEW i \in 2 .. n
          PROVE  i - 1 \in 1 .. n - 1 /\ (i - 1) + 1 = i
      OBVIOUS
    <3>2. \A i \in 1 .. n - 1 : i + 1 \in 2 .. n
      OBVIOUS
    <3>3. \A i \in 2 .. n : Report(i - 1, kind, thread)' <=> Report(i, kind, thread)
      BY <3>1, <2>4
    <3> QED
      BY <3>1, <3>2, <3>3, <2>4
  <2>6. /\ \A w \in Workers : \A i \in 1 .. Len(outQ') :
            Report(i, "stats", w)' => /\ wk'[w].pc = "done"
                                      /\ \A j \in 1 .. Len(outQ') : Report(j, "stats", w)' => i = j
        /\ \A o \in Offloads : \A i \in 1 .. Len(outQ') :
            Report(i, "offloadStats", o)' => /\ off'[o].pc = "done"
                                             /\ \A j \in 1 .. Len(outQ') : Report(j, "offloadStats", o)' => i = j
    <3>1. \A i \in 1 .. n - 1 : i + 1 \in 1 .. n
      OBVIOUS
    <3>2. \A i, j \in 1 .. n - 1 : i + 1 = j + 1 => i = j
      OBVIOUS
    <3>3. ASSUME NEW w \in Workers, NEW i \in 1 .. n - 1, Report(i, "stats", w)'
          PROVE  wk[w].pc = "done" /\ \A j \in 1 .. n - 1 : Report(j, "stats", w)' => i = j
      <4>1. i + 1 \in 1 .. n /\ Report(i + 1, "stats", w)
        BY <3>1, <3>3, <2>4
      <4>2. wk[w].pc = "done" /\ \A j \in 1 .. n : Report(j, "stats", w) => i + 1 = j
        BY <4>1, <2>2 DEF Reported
      <4> QED
        BY <4>2, <3>1, <3>2, <2>4
    <3>4. ASSUME NEW o \in Offloads, NEW i \in 1 .. n - 1, Report(i, "offloadStats", o)'
          PROVE  off[o].pc = "done" /\ \A j \in 1 .. n - 1 : Report(j, "offloadStats", o)' => i = j
      <4>1. i + 1 \in 1 .. n /\ Report(i + 1, "offloadStats", o)
        BY <3>1, <3>4, <2>4
      <4>2. off[o].pc = "done" /\ \A j \in 1 .. n : Report(j, "offloadStats", o) => i + 1 = j
        BY <4>1, <2>2 DEF Reported
      <4> QED
        BY <4>2, <3>1, <3>2, <2>4
    <3> QED
      BY <3>3, <3>4, <2>3, <1>a
  <2>7. ASSUME NEW i \in 1 .. Len(outQ')
        PROVE  \/ \E w \in Workers : \/ wk'[w].pc # "done"
                                     \/ \E j \in i .. Len(outQ') : Report(j, "stats", w)'
               \/ \E o \in Offloads : \/ off'[o].pc # "done"
                                      \/ \E j \in i .. Len(outQ') : Report(j, "offloadStats", o)'
    <3>1. i \in 1 .. n - 1 /\ i + 1 \in 1 .. n
      BY <2>3
    <3>2. \/ \E w \in Workers : \/ wk[w].pc # "done"
                                \/ \E j \in i + 1 .. n : Report(j, "stats", w)
          \/ \E o \in Offloads : \/ off[o].pc # "done"
                                 \/ \E j \in i + 1 .. n : Report(j, "offloadStats", o)
      BY <3>1, <2>2 DEF Reported
    <3>3. ASSUME NEW kind, NEW thread, NEW j \in i + 1 .. n, Report(j, kind, thread)
          PROVE  \E k \in i .. Len(outQ') : Report(k, kind, thread)'
      <4>1. j - 1 \in i .. n - 1 /\ j - 1 \in 1 .. n - 1 /\ (j - 1) + 1 = j
        BY <3>1
      <4>2. Report(j - 1, kind, thread)'
        BY <4>1, <3>3, <2>4
      <4> QED
        BY <4>1, <4>2, <2>3
    <3> QED
      BY <3>2, <3>3, <1>a
  <2>8. /\ \A w \in Workers : w \in ShardTaken' <=> /\ wk[w].pc = "done"
                                                    /\ \A i \in 2 .. n : ~ Report(i, "stats", w)
        /\ \A o \in Offloads : o \in OffloadTaken' <=> /\ off[o].pc = "done"
                                                       /\ \A i \in 2 .. n : ~ Report(i, "offloadStats", o)
    <3>1. Len(outQ)' = n - 1
      BY <2>3
    <3>2. ASSUME NEW w \in Workers
          PROVE  w \in ShardTaken' <=> wk[w].pc = "done" /\ \A i \in 1 .. n - 1 : ~ Report(i, "stats", w)'
      BY <3>1, <1>a DEF ShardTaken
    <3>3. ASSUME NEW o \in Offloads
          PROVE  o \in OffloadTaken' <=> off[o].pc = "done" /\ \A i \in 1 .. n - 1 : ~ Report(i, "offloadStats", o)'
      BY <3>1, <1>a DEF OffloadTaken
    <3> QED
      BY <3>2, <3>3, <2>5
  <2>9. /\ \A w \in Workers : w \in ShardTaken <=> /\ wk[w].pc = "done" /\ ~ Report(1, "stats", w)
                                                   /\ \A i \in 2 .. n : ~ Report(i, "stats", w)
        /\ \A o \in Offloads : o \in OffloadTaken <=> /\ off[o].pc = "done" /\ ~ Report(1, "offloadStats", o)
                                                      /\ \A i \in 2 .. n : ~ Report(i, "offloadStats", o)
    <3>1. 1 .. n = {1} \cup 2 .. n
      OBVIOUS
    <3> QED
      BY <3>1, <2>2 DEF ShardTaken, OffloadTaken
  <2>10. CASE Head(outQ)[1] = "stats"
    <3>1. PICK w \in Workers : Report(1, "stats", w)
      BY <2>10, <2>3, Kinds DEF Report
    <3>2. wk[w].pc = "done" /\ \A j \in 1 .. n : Report(j, "stats", w) => j = 1
      BY <3>1, <2>2 DEF Reported
    <3>3. ~ Running
      BY <3>2 DEF Staged, Leaving
    <3>4. ShardTaken' = ShardTaken \cup {w} /\ w \notin ShardTaken
      <4>1. \A v \in Workers : Report(1, "stats", v) <=> v = w
        BY <3>1 DEF Report
      <4>2. w \in ShardTaken'
        BY <3>2, <2>8
      <4>3. ShardTaken' \in SUBSET Workers
        BY DEF ShardTaken
      <4> QED
        BY <4>1, <4>2, <4>3, <2>8, <2>9, <1>c
    <3>5. OffloadTaken' = OffloadTaken
      <4>1. \A o \in Offloads : ~ Report(1, "offloadStats", o)
        BY <2>10, <2>3 DEF Report
      <4>2. OffloadTaken' \in SUBSET Offloads
        BY DEF OffloadTaken
      <4> QED
        BY <4>1, <4>2, <2>8, <2>9, <1>c
    <3>6. Cardinality(ShardTaken') = Cardinality(ShardTaken) + 1
      BY <3>4, <1>c, Counting, FS_AddElement
    <3>7. ShardTaken = Workers => ShardTaken' = Workers
      BY <3>4
    <3>8. co'.received = IF ShardStage THEN co.received + 1 ELSE co.received
      BY <1>2, <2>10, <3>3 DEF Final
    <3> QED
      BY <2>6, <2>7, <3>3, <3>5, <3>6, <3>7, <3>8, <1>2, <1>a DEF Reported, Running, ShardStage, Past
  <2>11. CASE Head(outQ)[1] = "offloadStats"
    <3>1. PICK o \in Offloads : Report(1, "offloadStats", o)
      BY <2>11, <2>3, Kinds DEF Report
    <3>2. off[o].pc = "done" /\ \A j \in 1 .. n : Report(j, "offloadStats", o) => j = 1
      BY <3>1, <2>2 DEF Reported
    <3>3. co.pc \in Past /\ ~ Running /\ ~ ShardStage
      BY <3>2 DEF Staged, Leaving, Past, Running, ShardStage
    <3>4. OffloadTaken' = OffloadTaken \cup {o} /\ o \notin OffloadTaken
      <4>1. \A p \in Offloads : Report(1, "offloadStats", p) <=> p = o
        BY <3>1 DEF Report
      <4>2. o \in OffloadTaken'
        BY <3>2, <2>8
      <4>3. OffloadTaken' \in SUBSET Offloads
        BY DEF OffloadTaken
      <4> QED
        BY <4>1, <4>2, <4>3, <2>8, <2>9, <1>c
    <3>5. ShardTaken' = ShardTaken
      <4>1. \A w \in Workers : ~ Report(1, "stats", w)
        BY <2>11, <2>3 DEF Report
      <4>2. ShardTaken' \in SUBSET Workers
        BY DEF ShardTaken
      <4> QED
        BY <4>1, <4>2, <2>8, <2>9, <1>c
    <3>6. Cardinality(OffloadTaken') = Cardinality(OffloadTaken) + 1
      BY <3>4, <1>c, Counting, FS_AddElement
    <3>7. OffloadTaken = Offloads => OffloadTaken' = Offloads
      BY <3>4
    <3>8. co'.received = co.received + 1 /\ co'.pc = co.pc
      BY <1>2, <2>11, <3>3 DEF Final
    <3> QED
      BY <2>6, <2>7, <3>3, <3>5, <3>6, <3>7, <3>8, <1>2, <1>a DEF Reported, Running, ShardStage, Past
  <2>12. CASE Head(outQ)[1] \notin {"stats", "offloadStats"}
    <3>1. ShardTaken' = ShardTaken /\ OffloadTaken' = OffloadTaken
      <4>1. \A thread : ~ Report(1, "stats", thread) /\ ~ Report(1, "offloadStats", thread)
        BY <2>12, <2>3 DEF Report
      <4>2. ShardTaken' \in SUBSET Workers /\ OffloadTaken' \in SUBSET Offloads
        BY DEF ShardTaken, OffloadTaken
      <4> QED
        BY <4>1, <4>2, <2>8, <2>9, <1>c
    <3>2. co'.received = co.received
      BY <1>2, <2>12 DEF Final
    <3> QED
      BY <2>6, <2>7, <3>1, <3>2, <1>2, <1>a DEF Reported, Running, ShardStage, Past
  <2> QED
    BY <2>10, <2>11, <2>12
<1> QED
  BY <1>1, <1>2 DEF CoordCounts

\* The count of reports is kept by every step.
LEMMA NextReported == TInv /\ TInv' /\ Staged /\ Reported /\ [Next]_vars => Reported'
<1> SUFFICES ASSUME TInv, TInv', Staged, Reported, [Next]_vars PROVE Reported'
  OBVIOUS
<1>1. ASSUME UNCHANGED <<co, wk, off, outQ>>
      PROVE  Reported'
  <2>1. ShardTaken' = ShardTaken /\ OffloadTaken' = OffloadTaken
    BY <1>1 DEF ShardTaken, OffloadTaken, Report
  <2> QED
    BY <1>1, <2>1 DEF Reported, Report, Running, ShardStage
<1>2. ASSUME NEW w \in Workers, WorkerThread(w) \/ WorkerPanics(w) \/ WorkerSnapshot(w)
      PROVE  Reported'
  BY <1>2, WorkerSteps, WorkerReported
<1>3. ASSUME NEW o \in Offloads, OffloadThread(o) \/ OffloadPanics(o) \/ OffloadSnapshot(o)
      PROVE  Reported'
  BY <1>3, OffloadSteps, OffloadReported
<1>4. CASE \/ CoordThread \/ CoordEnd
           \/ \E f \in Flows, n \in ChunksPerPacket : CoordPacket(f, n)
  BY <1>4, CoordSteps, CoordCountSteps, CoordReported
<1>5. CASE UNCHANGED vars
  BY <1>1, <1>5 DEF vars
<1>6. ASSUME NEW r \in Slices, SliceTimeout(r) \/ \E w \in Workers : SliceAsk(r, w)
      PROVE  Reported'
  BY <1>1, <1>6 DEF SliceTimeout, SliceAsk
<1> QED
  BY <1>2, <1>3, <1>4, <1>5, <1>6 DEF Next, Ended

\* At the start nothing is reported, and nothing has failed.
LEMMA InitReported == Init => Reported /\ Blamed
<1> SUFFICES ASSUME Init PROVE Reported /\ Blamed
  OBVIOUS
<1>1. ShardTaken = {} /\ Cardinality({}) = 0 /\ co.received = 0 /\ co.pc = "source"
  BY FS_EmptySet DEF Init, ShardTaken
<1> QED
  BY <1>1 DEF Init, Reported, Blamed, Running, Past, NoFault

\* A run reports success only if nothing failed, and when it does every thread has
\* ended by itself with its batches flushed and no message is left unread.
THEOREM SuccessMeansCleanHolds == Spec => []SuccessMeansClean
<1>1. ASSUME TInv, Staged, Blamed, Reported, co.pc = "end", ~ co.failed
      PROVE  /\ NoFault
             /\ outQ = <<>> /\ \A w \in Workers : wk[w].pc = "done" /\ wk[w].events = <<>>
             /\ \A o \in Offloads : off[o].pc = "done" /\ off[o].events = <<>> /\ offloadQ[o] = <<>>
  <2>1. \A w \in Workers : wk[w].pc = "done" /\ wk[w].events = <<>>
    BY <1>1 DEF Staged, Blamed, Past, WorkerLive, Stopped
  <2>2. \A o \in Offloads : off[o].pc = "done" /\ off[o].events = <<>> /\ offloadQ[o] = <<>>
    BY <1>1 DEF Staged, Blamed, OffloadLive, Stopped, Leaving
  <2>3. NoFault
    BY <1>1, <2>1, <2>2 DEF Blamed
  <2>4. ASSUME outQ # <<>>
        PROVE  FALSE
    <3>1. 1 \in 1 .. Len(outQ)
      BY <1>1, <2>4, ChannelHead, PipelineAssumption DEF TInv
    <3>2. ShardTaken = Workers /\ OffloadTaken = Offloads
      BY <1>1 DEF Reported, Past
    <3> QED
      BY <3>1, <3>2, <2>1, <2>2, <1>1 DEF Reported, ShardTaken, OffloadTaken
  <2> QED
    BY <2>1, <2>2, <2>3, <2>4
<1>2. TInv /\ Staged /\ Blamed /\ Reported => SuccessMeansClean
  BY <1>1 DEF SuccessMeansClean
<1> QED
  BY InitTyped, NextTyped, InitStaged, NextStaged, NextBlamed, InitReported, NextReported, <1>2,
     PTL DEF Spec

-----------------------------------------------------------------------------
(* Figures *)

Counters == {"submitted", "blocked", "inline", "dropped"}
AtMost(s, t) == \A c \in Counters : s[c] <= t[c]
ShardFigures(i, w) == outQ[i][1] \in {"statsSnapshot", "stats"} /\ outQ[i][2] = w
OffloadFigures(i, o) == outQ[i][1] \in {"offloadSnapshot", "offloadStats"} /\ outQ[i][2] = o

\* What the coordinator holds, what is queued in the order of the queue, and what
\* the thread has counted by now do not decrease.
Counted ==
    /\ \A w \in Workers :
        /\ AtMost(slots.worker[w], wk[w].stats)
        /\ \A i \in 1 .. Len(outQ) : ShardFigures(i, w) =>
            /\ AtMost(slots.worker[w], outQ[i][3]) /\ AtMost(outQ[i][3], wk[w].stats)
            /\ \A j \in i .. Len(outQ) : ShardFigures(j, w) => AtMost(outQ[i][3], outQ[j][3])
    /\ \A o \in Offloads :
        /\ slots.offload[o] <= off[o].processed
        /\ \A i \in 1 .. Len(outQ) : OffloadFigures(i, o) =>
            /\ slots.offload[o] <= outQ[i][3] /\ outQ[i][3] <= off[o].processed
            /\ \A j \in i .. Len(outQ) : OffloadFigures(j, o) => outQ[i][3] <= outQ[j][3]

\* AtMost is an order, and the counters start as numbers.
LEMMA AtMostOrder ==
    /\ \A s \in StatsType : AtMost(s, s)
    /\ \A s, t, u \in StatsType : AtMost(s, t) /\ AtMost(t, u) => AtMost(s, u)
    /\ NoStats \in StatsType /\ DOMAIN NoStats = Counters
<1>1. \A s \in StatsType, c \in Counters : s[c] \in Nat
  BY DEF StatsType, Counters
<1> QED
  BY <1>1 DEF AtMost, NoStats, StatsType, Counters

\* A step of a thread only adds to its counters.
LEMMA ShardCounts ==
    ASSUME TInv, NEW w \in Workers, WorkerThread(w) \/ WorkerPanics(w) \/ WorkerSnapshot(w)
    PROVE  AtMost(wk[w].stats, wk'[w].stats)
<1> DEFINE s == wk[w].stats
<1>a. /\ wk \in [Workers -> WkState] /\ wk[w] \in WkState /\ s \in StatsType
      /\ AtMost(s, s)
  BY WorkerHas, AtMostOrder DEF TInv, WkState, WkRecord
<1>1. ASSUME NEW events, NEW table, NEW stats, ChunkDone(w, events, table, stats), AtMost(s, stats)
      PROVE  AtMost(s, wk'[w].stats)
  BY <1>1, <1>a DEF ChunkDone
<1>2. /\ AtMost(s, [s EXCEPT !.inline = @ + 1]) /\ AtMost(s, [s EXCEPT !.dropped = @ + 1])
      /\ AtMost(s, [s EXCEPT !.submitted = @ + 1, !.blocked = @ + 0])
      /\ AtMost(s, [s EXCEPT !.submitted = @ + 1, !.blocked = @ + 1])
  <2> HIDE DEF s
  <2> QED
    BY <1>a DEF AtMost, Counters, StatsType
<1>3. CASE WorkerChunk(w)
  <2>1. \/ wk' = [wk EXCEPT ![w].pc = "blocked"]
        \/ \E events, table, stats :
            /\ ChunkDone(w, events, table, stats)
            /\ \/ stats = s \/ stats = [s EXCEPT !.inline = @ + 1] \/ stats = [s EXCEPT !.dropped = @ + 1]
               \/ stats = [s EXCEPT !.submitted = @ + 1, !.blocked = @ + 0]
    BY <1>3, Zenon DEF WorkerChunk, ParseHere, Submit
  <2>2. wk' = [wk EXCEPT ![w].pc = "blocked"] => wk'[w].stats = s
    BY <1>a DEF WkState, WkRecord
  <2> QED
    BY <2>1, <2>2, <1>1, <1>2, <1>a, Zenon
<1>4. CASE WorkerUnblock(w)
  <2>1. \E events, table, stats :
            /\ ChunkDone(w, events, table, stats)
            /\ stats = [s EXCEPT !.submitted = @ + 1, !.blocked = @ + 1]
    BY <1>4, Zenon DEF WorkerUnblock, Submit
  <2> QED
    BY <2>1, <1>1, <1>2, Zenon
<1>5. CASE ~ WorkerChunk(w) /\ ~ WorkerUnblock(w)
  <2>1. wk'[w].stats = s
    BY <1>5, <1>a DEF WorkerThread, WorkerPacket, WorkerSlice, WorkerShutdown, WorkerFails, WorkerEndsEarly,
       WorkerFlushDue, WorkerFlush, WorkerReport, WorkerPanics, WorkerSnapshot, WkState, WkRecord
  <2> QED
    BY <2>1, <1>a
<1> QED
  BY <1>3, <1>4, <1>5

\* The counter of an offload worker does not go back.
LEMMA OffloadCounts ==
    ASSUME TInv, NEW o \in Offloads, OffloadThread(o) \/ OffloadPanics(o) \/ OffloadSnapshot(o)
    PROVE  off[o].processed <= off'[o].processed
<1>1. off \in [Offloads -> OffState] /\ off[o].processed \in Nat
  BY DEF TInv, OffState
<1>2. CASE OffloadTask(o)
  BY <1>1, <1>2 DEF OffloadTask
<1>3. CASE ~ OffloadTask(o)
  <2>1. off'[o].processed = off[o].processed
    BY <1>1, <1>3 DEF OffloadThread, OffloadShutdown, OffloadFlushDue, OffloadFlush, OffloadReport,
                      OffloadPanics, OffloadSnapshot, OffState
  <2> QED
    BY <2>1, <1>1
<1> QED
  BY <1>2, <1>3

\* The figures the coordinator, the queue and the threads have are of their types.
LEMMA FiguresTyped ==
    ASSUME TInv
    PROVE  /\ outQ \in Channel(Messages, EventDepth) /\ EventDepth \in Nat \ {0}
           /\ \A w \in Workers :
                /\ wk[w].stats \in StatsType /\ slots.worker[w] \in StatsType
                /\ \A i \in 1 .. Len(outQ) : ShardFigures(i, w) => outQ[i][3] \in StatsType
           /\ \A o \in Offloads :
                /\ off[o].processed \in Nat /\ slots.offload[o] \in Nat
                /\ \A i \in 1 .. Len(outQ) : OffloadFigures(i, o) => outQ[i][3] \in Nat
<1>1. outQ \in Channel(Messages, EventDepth) /\ EventDepth \in Nat \ {0}
  BY PipelineAssumption DEF TInv
<1>2. \A i \in 1 .. Len(outQ) : outQ[i] \in Messages
  BY <1>1, ElementOfSeq DEF Channel
<1> QED
  BY <1>1, <1>2, Kinds DEF TInv, ShardFigures, OffloadFigures, WkState, WkRecord, OffState

\* What a thread sends are its own figures of this moment.
LEMMA WorkerCounted ==
    ASSUME TInv, TInv', Counted, NEW w \in Workers, WorkerEffect(w),
           AtMost(wk[w].stats, wk'[w].stats)
    PROVE  Counted'
<1>1. /\ slots' = slots /\ off' = off /\ \A v \in Workers : AtMost(wk[v].stats, wk'[v].stats)
  BY AtMostOrder, FiguresTyped DEF WorkerEffect
<1>2. PICK n \in Nat : Len(outQ) = n
  BY FiguresTyped, LenProperties DEF Channel
<1>3. CASE outQ' = outQ
  <2>1. ASSUME NEW v \in Workers, NEW s \in StatsType, AtMost(s, wk[v].stats)
        PROVE  AtMost(s, wk'[v].stats)
    <3>1. wk'[v].stats \in StatsType
      BY DEF TInv, WkState, WkRecord
    <3> QED
      BY <2>1, <3>1, <1>1, FiguresTyped, AtMostOrder
  <2>2. \A v : \A i \in 1 .. Len(outQ) :
            (ShardFigures(i, v)' <=> ShardFigures(i, v)) /\ (OffloadFigures(i, v)' <=> OffloadFigures(i, v))
    BY <1>3 DEF ShardFigures, OffloadFigures
  <2> QED
    BY <1>1, <1>3, <2>1, <2>2, FiguresTyped DEF Counted
<1>4. ASSUME NEW m \in Messages, OutRoom, outQ' = Append(outQ, m),
             \/ m[1] \notin {"statsSnapshot", "stats", "offloadSnapshot", "offloadStats"}
             \/ m[1] \in {"statsSnapshot", "stats"} /\ m[2] = w /\ m[3] = wk[w].stats
      PROVE  Counted'
  <2>1. /\ Len(outQ') = n + 1 /\ outQ'[n + 1] = m
        /\ \A i \in 1 .. n : outQ'[i] = outQ[i]
    BY <1>2, <1>4, FiguresTyped, ChannelAppend DEF OutRoom
  <2>2. 1 .. n + 1 = (1 .. n) \cup {n + 1} /\ n + 1 \notin 1 .. n
        /\ \A i \in 1 .. n : i .. n + 1 = (i .. n) \cup {n + 1}
        /\ (n + 1) .. (n + 1) = {n + 1}
    BY <1>2
  <2>3. ASSUME NEW v \in Workers
        PROVE  /\ AtMost(slots.worker[v], wk'[v].stats)
               /\ \A i \in 1 .. n : ShardFigures(i, v) =>
                    AtMost(slots.worker[v], outQ[i][3]) /\ AtMost(outQ[i][3], wk'[v].stats)
    <3>1. wk'[v].stats \in StatsType
      BY DEF TInv, WkState, WkRecord
    <3> QED
      BY <3>1, <1>1, <1>2, FiguresTyped, AtMostOrder DEF Counted
  <2>4. /\ \A v \in Workers : \A i \in 1 .. n : ShardFigures(i, v)' <=> ShardFigures(i, v)
        /\ \A o \in Offloads : \A i \in 1 .. n : OffloadFigures(i, o)' <=> OffloadFigures(i, o)
        /\ \A v \in Workers : ShardFigures(n + 1, v)' => v = w /\ m[3] = wk[w].stats
        /\ \A o \in Offloads : ~ OffloadFigures(n + 1, o)'
    BY <1>4, <2>1 DEF ShardFigures, OffloadFigures
  <2>5. ASSUME NEW v \in Workers, NEW i \in 1 .. n + 1, ShardFigures(i, v)'
        PROVE  /\ AtMost(slots.worker[v], outQ'[i][3]) /\ AtMost(outQ'[i][3], wk'[v].stats)
               /\ \A j \in i .. n + 1 : ShardFigures(j, v)' => AtMost(outQ'[i][3], outQ'[j][3])
    <3>1. CASE i = n + 1
      BY <3>1, <2>1, <2>2, <2>4, <2>5, <1>1, FiguresTyped, AtMostOrder DEF Counted
    <3>2. CASE i \in 1 .. n
      <4>1. ShardFigures(i, v) /\ outQ'[i] = outQ[i]
        BY <3>2, <2>1, <2>4, <2>5
      <4>2. \A j \in i .. n : ShardFigures(j, v)' => AtMost(outQ[i][3], outQ'[j][3])
        <5>1. \A j \in i .. n : j \in 1 .. n
          BY <3>2
        <5> QED
          BY <3>2, <4>1, <5>1, <2>1, <2>4, <1>2 DEF Counted
      <4>3. ShardFigures(n + 1, v)' => AtMost(outQ[i][3], outQ'[n + 1][3])
        BY <3>2, <4>1, <2>1, <2>4, <1>2 DEF Counted
      <4> QED
        BY <3>2, <4>1, <4>2, <4>3, <2>2, <2>3
    <3> QED
      BY <3>1, <3>2, <2>2
  <2>6. ASSUME NEW o \in Offloads, NEW i \in 1 .. n + 1, OffloadFigures(i, o)'
        PROVE  /\ slots.offload[o] <= outQ'[i][3] /\ outQ'[i][3] <= off[o].processed
               /\ \A j \in i .. n + 1 : OffloadFigures(j, o)' => outQ'[i][3] <= outQ'[j][3]
    <3>1. i \in 1 .. n /\ OffloadFigures(i, o) /\ outQ'[i] = outQ[i]
      BY <2>1, <2>2, <2>4, <2>6
    <3>2. \A j \in i .. n : j \in 1 .. n
      BY <3>1
    <3>3. \A j \in i .. n : OffloadFigures(j, o)' => outQ[i][3] <= outQ'[j][3]
      BY <3>1, <3>2, <2>1, <2>4, <1>2 DEF Counted
    <3> QED
      BY <3>1, <3>3, <2>2, <2>4, <1>2 DEF Counted
  <2> QED
    BY <1>1, <2>1, <2>3, <2>5, <2>6 DEF Counted
<1> QED
  BY <1>3, <1>4 DEF WorkerEffect

\* The figures stay in order when an offload worker counts or reports.
LEMMA OffloadCounted ==
    ASSUME TInv, TInv', Counted, NEW o \in Offloads, OffloadEffect(o),
           off[o].processed <= off'[o].processed
    PROVE  Counted'
<1>1. /\ slots' = slots /\ wk' = wk /\ \A p \in Offloads : off[p].processed <= off'[p].processed
      /\ \A p \in Offloads : off'[p].processed \in Nat
  <2>1. \A p \in Offloads : off[p].processed \in Nat /\ off'[p].processed \in Nat
    BY DEF TInv, OffState
  <2> QED
    BY <2>1 DEF OffloadEffect
<1>2. PICK n \in Nat : Len(outQ) = n
  BY FiguresTyped, LenProperties DEF Channel
<1>3. CASE outQ' = outQ
  <2>1. ASSUME NEW p \in Offloads, NEW k \in Nat, k <= off[p].processed
        PROVE  k <= off'[p].processed
    BY <2>1, <1>1, FiguresTyped
  <2>2. \A v : \A i \in 1 .. Len(outQ) :
            (ShardFigures(i, v)' <=> ShardFigures(i, v)) /\ (OffloadFigures(i, v)' <=> OffloadFigures(i, v))
    BY <1>3 DEF ShardFigures, OffloadFigures
  <2>3. ASSUME NEW v \in Workers
        PROVE  /\ AtMost(slots'.worker[v], wk'[v].stats)
               /\ \A i \in 1 .. Len(outQ') : ShardFigures(i, v)' =>
                    /\ AtMost(slots'.worker[v], outQ'[i][3]) /\ AtMost(outQ'[i][3], wk'[v].stats)
                    /\ \A j \in i .. Len(outQ') : ShardFigures(j, v)' => AtMost(outQ'[i][3], outQ'[j][3])
    <3>1. \A i \in 1 .. Len(outQ') : ShardFigures(i, v)' <=> ShardFigures(i, v)
      BY <1>3, <2>2
    <3>2. \A i \in 1 .. Len(outQ') : \A j \in i .. Len(outQ') : j \in 1 .. Len(outQ')
      BY <1>2, <1>3
    <3>3. outQ' = outQ /\ slots' = slots /\ wk' = wk
      BY <1>1, <1>3
    <3> QED
      BY <3>1, <3>2, <3>3 DEF Counted
  <2>4. ASSUME NEW p \in Offloads
        PROVE  /\ slots'.offload[p] <= off'[p].processed
               /\ \A i \in 1 .. Len(outQ') : OffloadFigures(i, p)' =>
                    /\ slots'.offload[p] <= outQ'[i][3] /\ outQ'[i][3] <= off'[p].processed
                    /\ \A j \in i .. Len(outQ') : OffloadFigures(j, p)' => outQ'[i][3] <= outQ'[j][3]
    <3>1. \A i \in 1 .. Len(outQ') : OffloadFigures(i, p)' <=> OffloadFigures(i, p)
      BY <1>3, <2>2
    <3>2. \A i \in 1 .. Len(outQ') : \A j \in i .. Len(outQ') : j \in 1 .. Len(outQ')
      BY <1>2, <1>3
    <3>3. outQ' = outQ /\ slots' = slots
      BY <1>1, <1>3
    <3>4. \A i \in 1 .. Len(outQ) : OffloadFigures(i, p) => outQ[i][3] \in Nat
      BY FiguresTyped
    <3>5. slots.offload[p] \in Nat
      BY FiguresTyped
    <3> QED
      BY <3>1, <3>2, <3>3, <3>4, <3>5, <2>1 DEF Counted
  <2> QED
    BY <2>3, <2>4 DEF Counted
<1>4. ASSUME NEW m \in Messages, OutRoom, outQ' = Append(outQ, m),
             \/ m[1] \notin {"statsSnapshot", "stats", "offloadSnapshot", "offloadStats"}
             \/ m[1] \in {"offloadSnapshot", "offloadStats"} /\ m[2] = o /\ m[3] = off[o].processed
      PROVE  Counted'
  <2>1. /\ Len(outQ') = n + 1 /\ outQ'[n + 1] = m
        /\ \A i \in 1 .. n : outQ'[i] = outQ[i]
    BY <1>2, <1>4, FiguresTyped, ChannelAppend DEF OutRoom
  <2>2. 1 .. n + 1 = (1 .. n) \cup {n + 1} /\ n + 1 \notin 1 .. n
        /\ \A i \in 1 .. n : i .. n + 1 = (i .. n) \cup {n + 1}
        /\ (n + 1) .. (n + 1) = {n + 1}
    BY <1>2
  <2>3. ASSUME NEW p \in Offloads
        PROVE  /\ slots.offload[p] <= off'[p].processed
               /\ \A i \in 1 .. n : OffloadFigures(i, p) =>
                    slots.offload[p] <= outQ[i][3] /\ outQ[i][3] <= off'[p].processed
    BY <1>1, <1>2, FiguresTyped DEF Counted
  <2>4. /\ \A w \in Workers : \A i \in 1 .. n : ShardFigures(i, w)' <=> ShardFigures(i, w)
        /\ \A p \in Offloads : \A i \in 1 .. n : OffloadFigures(i, p)' <=> OffloadFigures(i, p)
        /\ \A p \in Offloads : OffloadFigures(n + 1, p)' => p = o /\ m[3] = off[o].processed
        /\ \A w \in Workers : ~ ShardFigures(n + 1, w)'
    BY <1>4, <2>1 DEF ShardFigures, OffloadFigures
  <2>5. ASSUME NEW p \in Offloads, NEW i \in 1 .. n + 1, OffloadFigures(i, p)'
        PROVE  /\ slots.offload[p] <= outQ'[i][3] /\ outQ'[i][3] <= off'[p].processed
               /\ \A j \in i .. n + 1 : OffloadFigures(j, p)' => outQ'[i][3] <= outQ'[j][3]
    <3>1. CASE i = n + 1
      BY <3>1, <2>1, <2>2, <2>4, <2>5, <1>1, FiguresTyped DEF Counted
    <3>2. CASE i \in 1 .. n
      <4>1. OffloadFigures(i, p) /\ outQ'[i] = outQ[i]
        BY <3>2, <2>1, <2>4, <2>5
      <4>2. \A j \in i .. n : OffloadFigures(j, p)' => outQ[i][3] <= outQ'[j][3]
        <5>1. \A j \in i .. n : j \in 1 .. n
          BY <3>2
        <5> QED
          BY <3>2, <4>1, <5>1, <2>1, <2>4, <1>2 DEF Counted
      <4>3. OffloadFigures(n + 1, p)' => outQ[i][3] <= outQ'[n + 1][3]
        BY <3>2, <4>1, <2>1, <2>4, <1>2 DEF Counted
      <4> QED
        BY <3>2, <4>1, <4>2, <4>3, <2>2, <2>3
    <3> QED
      BY <3>1, <3>2, <2>2
  <2>6. ASSUME NEW w \in Workers, NEW i \in 1 .. n + 1, ShardFigures(i, w)'
        PROVE  /\ AtMost(slots.worker[w], outQ'[i][3]) /\ AtMost(outQ'[i][3], wk[w].stats)
               /\ \A j \in i .. n + 1 : ShardFigures(j, w)' => AtMost(outQ'[i][3], outQ'[j][3])
    <3>1. i \in 1 .. n /\ ShardFigures(i, w) /\ outQ'[i] = outQ[i]
      BY <2>1, <2>2, <2>4, <2>6
    <3>2. \A j \in i .. n : j \in 1 .. n
      BY <3>1
    <3>3. \A j \in i .. n : ShardFigures(j, w)' => AtMost(outQ[i][3], outQ'[j][3])
      BY <3>1, <3>2, <2>1, <2>4, <1>2 DEF Counted
    <3> QED
      BY <3>1, <3>3, <2>2, <2>4, <1>2 DEF Counted
  <2> QED
    BY <1>1, <2>1, <2>3, <2>5, <2>6 DEF Counted
<1> QED
  BY <1>3, <1>4 DEF OffloadEffect

\* The coordinator puts the figures of the message at the head where they belong.
CoordTakes ==
    \/ outQ' = outQ /\ slots' = slots
    \/ /\ outQ # <<>> /\ outQ' = Tail(outQ)
       /\ \/ Head(outQ)[1] = "events" /\ slots' = slots
          \/ /\ Head(outQ)[1] \in {"statsSnapshot", "stats"}
             /\ slots' = [slots EXCEPT !.worker[Head(outQ)[2]] = Head(outQ)[3]]
          \/ /\ Head(outQ)[1] \in {"offloadSnapshot", "offloadStats"}
             /\ slots' = [slots EXCEPT !.offload[Head(outQ)[2]] = Head(outQ)[3]]

\* Every step of the coordinator takes at most one message.
LEMMA CoordTakeSteps ==
    ASSUME \/ CoordThread \/ CoordEnd
           \/ \E f \in Flows, n \in ChunksPerPacket : CoordPacket(f, n)
    PROVE  CoordTakes
  BY DEF CoordTakes, CoordThread, CoordDrainDue, CoordSend, CoordDrain, CoordDrained, CoordStopShard,
         CoordStopOffload, CoordCollect, CoordCollected, CoordJoin, CoordEnd, CoordPacket, TakeMessage

\* The figures stay in order when the coordinator takes a message.
LEMMA CoordCounted ==
    ASSUME TInv, TInv', Counted, CoordTakes, wk' = wk, off' = off
    PROVE  /\ Counted'
           /\ \A w \in Workers : AtMost(slots.worker[w], slots'.worker[w])
           /\ \A o \in Offloads : slots.offload[o] <= slots'.offload[o]
<1>1. CASE outQ' = outQ /\ slots' = slots
  BY <1>1, FiguresTyped, AtMostOrder DEF Counted, ShardFigures, OffloadFigures
<1>2. CASE outQ # <<>> /\ outQ' = Tail(outQ)
  <2>1. PICK n \in Nat \ {0} : Len(outQ) = n
    BY <1>2, FiguresTyped, ChannelHead
  <2>2. /\ Head(outQ) \in Messages /\ Head(outQ) = outQ[1]
        /\ Len(outQ') = n - 1 /\ \A i \in 1 .. n - 1 : outQ'[i] = outQ[i + 1]
    BY <2>1, <1>2, FiguresTyped, ChannelHead
  <2>3. \A thread : \A i \in 1 .. n - 1 :
            /\ i + 1 \in 1 .. n /\ \A j \in i .. n - 1 : j + 1 \in i + 1 .. n /\ j \in 1 .. n - 1
            /\ ShardFigures(i, thread)' <=> ShardFigures(i + 1, thread)
            /\ OffloadFigures(i, thread)' <=> OffloadFigures(i + 1, thread)
    BY <2>2 DEF ShardFigures, OffloadFigures
  <2>4. \A i \in 1 .. n - 1 : i + 1 \in 1 .. n /\ 1 \in 1 .. n
    OBVIOUS
  <2>5. ASSUME NEW w \in Workers
        PROVE  /\ AtMost(slots'.worker[w], wk[w].stats) /\ AtMost(slots.worker[w], slots'.worker[w])
               /\ \A i \in 1 .. n - 1 : ShardFigures(i + 1, w) => AtMost(slots'.worker[w], outQ[i + 1][3])
    <3>1. CASE slots'.worker[w] = slots.worker[w]
      BY <3>1, <2>1, <2>4, FiguresTyped, AtMostOrder DEF Counted
    <3>2. CASE ShardFigures(1, w) /\ slots'.worker[w] = outQ[1][3]
      <4>1. 1 \in 1 .. n /\ \A i \in 1 .. n - 1 : i + 1 \in 1 .. n
        OBVIOUS
      <4> QED
        BY <3>2, <4>1, <2>1 DEF Counted
    <3>3. \/ slots'.worker[w] = slots.worker[w]
          \/ ShardFigures(1, w) /\ slots'.worker[w] = outQ[1][3]
      <4>1. slots \in [worker : [Workers -> StatsType], offload : [Offloads -> Nat]]
        BY DEF TInv
      <4>2. CASE Head(outQ)[1] \in {"statsSnapshot", "stats"}
        <5>1. slots' = [slots EXCEPT !.worker[Head(outQ)[2]] = Head(outQ)[3]] \/ slots' = slots
          BY <4>2 DEF CoordTakes
        <5> QED
          BY <5>1, <4>1, <4>2, <2>2 DEF ShardFigures
      <4>3. CASE Head(outQ)[1] \notin {"statsSnapshot", "stats"}
        <5>1. slots' = [slots EXCEPT !.offload[Head(outQ)[2]] = Head(outQ)[3]] \/ slots' = slots
          BY <4>3 DEF CoordTakes
        <5> QED
          BY <5>1, <4>1
      <4> QED
        BY <4>2, <4>3
    <3> QED
      BY <3>1, <3>2, <3>3
  <2>6. ASSUME NEW o \in Offloads
        PROVE  /\ slots'.offload[o] <= off[o].processed /\ slots.offload[o] <= slots'.offload[o]
               /\ \A i \in 1 .. n - 1 : OffloadFigures(i + 1, o) => slots'.offload[o] <= outQ[i + 1][3]
    <3>1. CASE slots'.offload[o] = slots.offload[o]
      BY <3>1, <2>1, <2>4, FiguresTyped DEF Counted
    <3>2. CASE OffloadFigures(1, o) /\ slots'.offload[o] = outQ[1][3]
      <4>1. 1 \in 1 .. n /\ \A i \in 1 .. n - 1 : i + 1 \in 1 .. n
        OBVIOUS
      <4> QED
        BY <3>2, <4>1, <2>1 DEF Counted
    <3>3. \/ slots'.offload[o] = slots.offload[o]
          \/ OffloadFigures(1, o) /\ slots'.offload[o] = outQ[1][3]
      <4>1. slots \in [worker : [Workers -> StatsType], offload : [Offloads -> Nat]]
        BY DEF TInv
      <4>2. CASE Head(outQ)[1] \in {"offloadSnapshot", "offloadStats"}
        <5>1. slots' = [slots EXCEPT !.offload[Head(outQ)[2]] = Head(outQ)[3]] \/ slots' = slots
          BY <4>2 DEF CoordTakes
        <5> QED
          BY <5>1, <4>1, <4>2, <2>2 DEF OffloadFigures
      <4>3. CASE Head(outQ)[1] \notin {"offloadSnapshot", "offloadStats"}
        <5>1. slots' = [slots EXCEPT !.worker[Head(outQ)[2]] = Head(outQ)[3]] \/ slots' = slots
          BY <4>3 DEF CoordTakes
        <5> QED
          BY <5>1, <4>1
      <4> QED
        BY <4>2, <4>3
    <3> QED
      BY <3>1, <3>2, <3>3
  <2>7. /\ \A w \in Workers : \A i, j \in 1 .. n : i <= j /\ ShardFigures(i, w) /\ ShardFigures(j, w)
                => AtMost(outQ[i][3], outQ[j][3]) /\ AtMost(outQ[i][3], wk[w].stats)
        /\ \A o \in Offloads : \A i, j \in 1 .. n : i <= j /\ OffloadFigures(i, o) /\ OffloadFigures(j, o)
                => outQ[i][3] <= outQ[j][3] /\ outQ[i][3] <= off[o].processed
    <3>1. \A i, j \in 1 .. n : i <= j => j \in i .. n
      OBVIOUS
    <3> QED
      BY <3>1, <2>1 DEF Counted
  <2>8. \A i \in 1 .. n - 1 : \A j \in i .. n - 1 :
            i + 1 \in 1 .. n /\ j + 1 \in 1 .. n /\ i + 1 <= j + 1 /\ j \in 1 .. n - 1 /\ i <= i
    OBVIOUS
  <2>9. ASSUME NEW w \in Workers, NEW i \in 1 .. n - 1, ShardFigures(i, w)'
        PROVE  /\ AtMost(slots'.worker[w], outQ'[i][3]) /\ AtMost(outQ'[i][3], wk[w].stats)
               /\ \A j \in i .. n - 1 : ShardFigures(j, w)' => AtMost(outQ'[i][3], outQ'[j][3])
    <3>1. ShardFigures(i + 1, w) /\ outQ'[i] = outQ[i + 1] /\ i + 1 \in 1 .. n
      BY <2>2, <2>3, <2>9
    <3>2. ASSUME NEW j \in i .. n - 1, ShardFigures(j, w)'
          PROVE  AtMost(outQ'[i][3], outQ'[j][3])
      BY <3>1, <3>2, <2>2, <2>3, <2>7, <2>8
    <3> QED
      BY <3>1, <3>2, <2>5, <2>7
  <2>10. ASSUME NEW o \in Offloads, NEW i \in 1 .. n - 1, OffloadFigures(i, o)'
         PROVE  /\ slots'.offload[o] <= outQ'[i][3] /\ outQ'[i][3] <= off[o].processed
                /\ \A j \in i .. n - 1 : OffloadFigures(j, o)' => outQ'[i][3] <= outQ'[j][3]
    <3>1. OffloadFigures(i + 1, o) /\ outQ'[i] = outQ[i + 1] /\ i + 1 \in 1 .. n
      BY <2>2, <2>3, <2>10
    <3>2. ASSUME NEW j \in i .. n - 1, OffloadFigures(j, o)'
          PROVE  outQ'[i][3] <= outQ'[j][3]
      BY <3>1, <3>2, <2>2, <2>3, <2>7, <2>8
    <3> QED
      BY <3>1, <3>2, <2>6, <2>7
  <2> QED
    BY <2>2, <2>5, <2>6, <2>9, <2>10 DEF Counted
<1> QED
  BY <1>1, <1>2 DEF CoordTakes

\* The figures stay in order with every step.
LEMMA NextCounted ==
    ASSUME TInv, TInv', Counted, [Next]_vars
    PROVE  /\ Counted'
           /\ \A w \in Workers : AtMost(slots.worker[w], slots'.worker[w])
           /\ \A o \in Offloads : slots.offload[o] <= slots'.offload[o]
<1> DEFINE Goal == /\ Counted'
                   /\ \A w \in Workers : AtMost(slots.worker[w], slots'.worker[w])
                   /\ \A o \in Offloads : slots.offload[o] <= slots'.offload[o]
<1>a. slots' = slots /\ Counted' => Goal
  BY FiguresTyped, AtMostOrder
<1>1. ASSUME NEW w \in Workers, WorkerThread(w) \/ WorkerPanics(w) \/ WorkerSnapshot(w)
      PROVE  Goal
  BY <1>1, <1>a, WorkerSteps, ShardCounts, WorkerCounted DEF WorkerEffect
<1>2. ASSUME NEW o \in Offloads, OffloadThread(o) \/ OffloadPanics(o) \/ OffloadSnapshot(o)
      PROVE  Goal
  BY <1>2, <1>a, OffloadSteps, OffloadCounts, OffloadCounted DEF OffloadEffect
<1>3. CASE \/ CoordThread \/ CoordEnd
           \/ \E f \in Flows, n \in ChunksPerPacket : CoordPacket(f, n)
  BY <1>3, CoordSteps, CoordTakeSteps, CoordCounted DEF CoordEffect
<1>4. CASE UNCHANGED vars
  BY <1>4, CoordCounted DEF vars, CoordTakes
<1>5. ASSUME NEW r \in Slices, SliceTimeout(r) \/ \E w \in Workers : SliceAsk(r, w)
      PROVE  Goal
  BY <1>5, CoordCounted DEF SliceTimeout, SliceAsk, CoordTakes
<1> QED
  BY <1>1, <1>2, <1>3, <1>4, <1>5 DEF Next, Ended

\* The figures the coordinator serves of a thread never go back, though snapshots
\* and the final report travel through a queue that may refuse a snapshot.
THEOREM StatsNeverGoBackHolds == Spec => StatsNeverGoBack
<1>1. Init => Counted
  BY AtMostOrder DEF Init, Counted
<1>2. TInv /\ TInv' /\ Counted /\ [Next]_vars => Counted'
  BY NextCounted
<1>3. ASSUME TInv, TInv', Counted, [Next]_vars
      PROVE  /\ \A w \in Workers : \A c \in DOMAIN NoStats : slots'.worker[w][c] >= slots.worker[w][c]
             /\ \A o \in Offloads : slots'.offload[o] >= slots.offload[o]
  <2>1. \A s \in StatsType, c \in Counters : s[c] \in Nat
    BY DEF StatsType, Counters
  <2>2. /\ \A w \in Workers : slots.worker[w] \in StatsType /\ slots'.worker[w] \in StatsType
        /\ \A o \in Offloads : slots.offload[o] \in Nat /\ slots'.offload[o] \in Nat
    BY <1>3 DEF TInv
  <2> QED
    BY <1>3, <2>1, <2>2, NextCounted, AtMostOrder DEF AtMost
<1>4. TInv /\ TInv' /\ Counted /\ [Next]_vars =>
        [/\ \A w \in Workers : \A c \in DOMAIN NoStats : slots'.worker[w][c] >= slots.worker[w][c]
         /\ \A o \in Offloads : slots'.offload[o] >= slots.offload[o]]_slots
  BY <1>3
<1> QED
  BY InitTyped, NextTyped, <1>1, <1>2, <1>4, PTL DEF Spec, StatsNeverGoBack

-----------------------------------------------------------------------------
(* The order of the chunks of a flow *)

\* Under the Inline policy a shard knows where it parsed a flow only as long as the
\* placement table holds it.  The code bounds the table by the capacity of the flow
\* table (flow_config.max_flows, sharded_pipeline.rs:1334); the theorems are about
\* runs whose shards have no more flows than that.
Fits ==
    "Inline" \in Policies /\ OffloadCount > 0 =>
        \A w \in Workers : LET mine == {f \in Flows : Shard[f] = w}
                           IN  IsFiniteSet(mine) /\ Cardinality(mine) <= PlacementCapacity

-----------------------------------------------------------------------------
(* Where the chunks of a flow are, as sets of numbers *)

ChunksIn(s, f) == {s[i][2] : i \in {j \in 1 .. Len(s) : s[j][1] = f}}
TasksIn(q, f) == {q[i][2][2] : i \in {j \in 1 .. Len(q) : q[j][1] = "task" /\ q[j][2][1] = f}}
PacketsIn(q, f) == UNION {ChunksIn(q[i][3], f) : i \in {j \in 1 .. Len(q) : q[j][1] = "packet"}}

AtHand(f) == ChunksIn(wk[Shard[f]].todo, f)
Tasked(f) == IF OffloadCount = 0 THEN {} ELSE TasksIn(offloadQ[OffloadShard[f]], f)
Waiting(f) == PacketsIn(workerQ[Shard[f]], f)

\* Stream order within a sequence of chunks, a task queue and a packet queue, each of
\* chunks that belong there.
Rising(s) == \A i, j \in 1 .. Len(s) : i < j /\ s[i][1] = s[j][1] => s[i][2] < s[j][2]
HandSound(s, w) == Rising(s) /\ \A i \in 1 .. Len(s) : Shard[s[i][1]] = w
TasksSound(q, o) ==
    /\ \A i \in 1 .. Len(q) : q[i][1] = "task" => OffloadShard[q[i][2][1]] = o
    /\ \A i, j \in 1 .. Len(q) :
        i < j /\ q[i][1] = "task" /\ q[j][1] = "task" /\ q[i][2][1] = q[j][2][1] => q[i][2][2] < q[j][2][2]
PacketsSound(q, w) ==
    /\ \A i \in 1 .. Len(q) : q[i][1] = "packet" => HandSound(q[i][3], w)
    /\ \A i, j \in 1 .. Len(q) : i < j /\ q[i][1] = "packet" /\ q[j][1] = "packet" =>
        \A f \in Flows : \A k \in ChunksIn(q[i][3], f), l \in ChunksIn(q[j][3], f) : k < l

Below(A, B) == \A a \in A, b \in B : a < b
\* Of one flow: its parser calls, task numbers, numbers at hand, numbers waiting,
\* and how many chunks of it were routed.
Lined(calls, T, H, W, r) ==
    /\ \A i, j \in 1 .. Len(calls) : i < j => calls[i][3] < calls[j][3]
    /\ \A i \in 1 .. Len(calls) : calls[i][3] \in 1 .. r /\ \A k \in T \cup H \cup W : calls[i][3] < k
    /\ Below(T, H \cup W) /\ Below(H, W)
    /\ T \cup H \cup W \subseteq 1 .. r
Covered(calls, T, H, W, r) ==
    /\ \A i \in 1 .. Len(calls) : calls[i][3] = i
    /\ \A k \in 1 .. r : k \in (1 .. Len(calls)) \cup T \cup H \cup W

-----------------------------------------------------------------------------
(* The invariants *)

\* Where a shard may have chunks of a packet at hand.
Holding == {"chunks", "blocked", "dead"}
Sound ==
    /\ \A w \in Workers :
        /\ HandSound(wk[w].todo, w) /\ PacketsSound(workerQ[w], w)
        /\ wk[w].pc \notin Holding => wk[w].todo = <<>>
    /\ \A o \in Offloads : TasksSound(offloadQ[o], o)
    /\ co.pc = "send" =>
        \A i \in 1 .. Len(co.packet[3]) : co.packet[3][i] = <<co.packet[2], routed[co.packet[2]] + i>>
Ordered == Sound /\ \A f \in Flows : Lined(parsed[f], Tasked(f), AtHand(f), Waiting(f), routed[f])

Single(table) == \A i, j \in 1 .. Len(table) : table[i][1] = table[j][1] => i = j
Place(f) == PlacementOf(wk[Shard[f]].placement, f)
Here(f) == \A i \in 1 .. Len(parsed[f]) : parsed[f][i][1] = "shard" /\ parsed[f][i][2] = Shard[f]
There(f) == \A i \in 1 .. Len(parsed[f]) : parsed[f][i][1] = "offload" /\ parsed[f][i][2] = OffloadShard[f]
Owned(table, w) == \A i \in 1 .. Len(table) : Shard[table[i][1]] = w
TablePlaced(w) ==
    /\ Single(wk[w].placement) /\ Owned(wk[w].placement, w)
    /\ wk[w].pc = "blocked" => "Local" \notin PlacementOf(wk[w].placement, wk[w].todo[1][1])
FlowPlaced(f) ==
    IF OffloadCount = 0 THEN Here(f)
    ELSE /\ IF "Local" \in Place(f) THEN Here(f) /\ Tasked(f) = {} /\ policy = "Inline" ELSE There(f)
         /\ policy = "Inline" /\ Place(f) = {} => parsed[f] = <<>> /\ Tasked(f) = {}
Placed == (\A w \in Workers : TablePlaced(w)) /\ \A f \in Flows : FlowPlaced(f)

\* Nobody loses a chunk unless a thread dies: a shard leaves its loop only when its
\* packets are done, which are all ahead of the Shutdown command.
NoDead == (\A w \in Workers : wk[w].pc # "dead") /\ \A o \in Offloads : off[o].pc # "dead"
TakenFirst ==
    \A w \in Workers :
        /\ wk[w].pc \in Leaving => \A i \in 1 .. Len(workerQ[w]) : workerQ[w][i][1] # "packet"
        /\ wk[w].pc = "done" => workerQ[w] = <<>>
        /\ \A i, j \in 1 .. Len(workerQ[w]) :
            i < j /\ workerQ[w][i] = <<"shutdown">> => workerQ[w][j][1] # "packet"
Gapless ==
    /\ NoFault => NoDead
    /\ TakenFirst
    /\ policy # "Drop" /\ NoDead =>
        \A f \in Flows : Covered(parsed[f], Tasked(f), AtHand(f), Waiting(f), routed[f])

-----------------------------------------------------------------------------
(* Queues: what taking the first element and adding one does to the numbers *)

Dropped(q, t) == /\ Len(q) \in Nat \ {0} /\ Len(t) = Len(q) - 1
                 /\ \A i \in 1 .. Len(t) : t[i] = q[i + 1]
Grown(q, x, t) == /\ Len(q) \in Nat /\ Len(t) = Len(q) + 1 /\ t[Len(q) + 1] = x
                  /\ \A i \in 1 .. Len(q) : t[i] = q[i]

\* The sets of numbers, by their members.
LEMMA InSets ==
    /\ \A s, f, k : k \in ChunksIn(s, f) <=> \E i \in 1 .. Len(s) : s[i][1] = f /\ s[i][2] = k
    /\ \A q, f, k : k \in TasksIn(q, f) <=>
            \E i \in 1 .. Len(q) : q[i][1] = "task" /\ q[i][2][1] = f /\ q[i][2][2] = k
    /\ \A q, f, k : k \in PacketsIn(q, f) <=>
            \E i \in 1 .. Len(q) : q[i][1] = "packet" /\ k \in ChunksIn(q[i][3], f)
  BY DEF ChunksIn, TasksIn, PacketsIn

\* Positions after the first element was taken.
LEMMA Shift ==
    ASSUME NEW q, NEW t, Dropped(q, t)
    PROVE  /\ 1 \in 1 .. Len(q) /\ \A i \in 1 .. Len(t) : i + 1 \in 1 .. Len(q) /\ 1 < i + 1
           /\ \A i \in 1 .. Len(q) : i = 1 \/ (i - 1 \in 1 .. Len(t) /\ t[i - 1] = q[i])
           /\ \A i, j \in 1 .. Len(t) : i < j => i + 1 < j + 1
  BY DEF Dropped

\* What is left at hand without the first chunk.
LEMMA HandDropped ==
    ASSUME NEW w \in Workers, NEW s, NEW t, Dropped(s, t), HandSound(s, w)
    PROVE  /\ HandSound(t, w) /\ Shard[s[1][1]] = w
           /\ \A f : \A k \in ChunksIn(t, f) : k \in ChunksIn(s, f) /\ (f = s[1][1] => s[1][2] < k)
           /\ \A f : \A k \in ChunksIn(s, f) : k \in ChunksIn(t, f) \/ (f = s[1][1] /\ k = s[1][2])
           /\ s[1][2] \in ChunksIn(s, s[1][1])
<1>1. \A i \in 1 .. Len(t) : t[i] = s[i + 1]
  BY DEF Dropped
<1>2. Rising(t)
  <2> SUFFICES ASSUME NEW i \in 1 .. Len(t), NEW j \in 1 .. Len(t), i < j, t[i][1] = t[j][1]
               PROVE  t[i][2] < t[j][2]
    BY DEF Rising
  <2>1. /\ i + 1 \in 1 .. Len(s) /\ j + 1 \in 1 .. Len(s) /\ i + 1 < j + 1
        /\ t[i] = s[i + 1] /\ t[j] = s[j + 1]
    BY <1>1, Shift
  <2> QED
    BY <2>1 DEF HandSound, Rising
<1>5. HandSound(t, w) /\ Shard[s[1][1]] = w
  BY <1>1, <1>2, Shift DEF HandSound
<1>3. ASSUME NEW f, NEW k \in ChunksIn(t, f)
      PROVE  k \in ChunksIn(s, f) /\ (f = s[1][1] => s[1][2] < k)
  <2>1. PICK i \in 1 .. Len(t) : t[i][1] = f /\ t[i][2] = k
    BY InSets
  <2> QED
    BY <2>1, <1>1, Shift, InSets DEF HandSound, Rising
<1>4. ASSUME NEW f, NEW k \in ChunksIn(s, f)
      PROVE  k \in ChunksIn(t, f) \/ (f = s[1][1] /\ k = s[1][2])
  <2>1. PICK i \in 1 .. Len(s) : s[i][1] = f /\ s[i][2] = k
    BY InSets
  <2>2. CASE i = 1
    BY <2>1, <2>2
  <2>3. CASE i # 1
    <3>1. i - 1 \in 1 .. Len(t) /\ t[i - 1] = s[i]
      BY <2>3, Shift
    <3> QED
      BY <2>1, <3>1, InSets
  <2> QED
    BY <2>2, <2>3
<1> QED
  BY <1>3, <1>4, <1>5, Shift, InSets

\* What is left of a task queue without the first task.
LEMMA TasksDropped ==
    ASSUME NEW o \in Offloads, NEW q, NEW t, Dropped(q, t), TasksSound(q, o)
    PROVE  /\ TasksSound(t, o)
           /\ \A f : TasksIn(t, f) \subseteq TasksIn(q, f)
           /\ q[1][1] # "task" => \A f : TasksIn(t, f) = TasksIn(q, f)
           /\ q[1][1] = "task" =>
                /\ OffloadShard[q[1][2][1]] = o
                /\ \A f : \A k \in TasksIn(t, f) : f = q[1][2][1] => q[1][2][2] < k
                /\ \A f : \A k \in TasksIn(q, f) : k \in TasksIn(t, f) \/ (f = q[1][2][1] /\ k = q[1][2][2])
                /\ q[1][2][2] \in TasksIn(q, q[1][2][1])
<1>1. \A i \in 1 .. Len(t) : t[i] = q[i + 1]
  BY DEF Dropped
<1>2. TasksSound(t, o)
  <2>1. ASSUME NEW i \in 1 .. Len(t), NEW j \in 1 .. Len(t), i < j,
               t[i][1] = "task", t[j][1] = "task", t[i][2][1] = t[j][2][1]
        PROVE  t[i][2][2] < t[j][2][2]
    <3>1. /\ i + 1 \in 1 .. Len(q) /\ j + 1 \in 1 .. Len(q) /\ i + 1 < j + 1
          /\ t[i] = q[i + 1] /\ t[j] = q[j + 1]
      BY <1>1, <2>1, Shift
    <3> QED
      BY <2>1, <3>1 DEF TasksSound
  <2>2. \A i \in 1 .. Len(t) : t[i][1] = "task" => OffloadShard[t[i][2][1]] = o
    BY <1>1, Shift DEF TasksSound
  <2> QED
    BY <2>1, <2>2 DEF TasksSound
<1>3. ASSUME NEW f, NEW k \in TasksIn(t, f)
      PROVE  k \in TasksIn(q, f) /\ (q[1][1] = "task" /\ f = q[1][2][1] => q[1][2][2] < k)
  <2>1. PICK i \in 1 .. Len(t) : t[i][1] = "task" /\ t[i][2][1] = f /\ t[i][2][2] = k
    BY InSets
  <2> QED
    BY <2>1, <1>1, Shift, InSets DEF TasksSound
<1>4. ASSUME NEW f, NEW k \in TasksIn(q, f)
      PROVE  k \in TasksIn(t, f) \/ (q[1][1] = "task" /\ f = q[1][2][1] /\ k = q[1][2][2])
  <2>1. PICK i \in 1 .. Len(q) : q[i][1] = "task" /\ q[i][2][1] = f /\ q[i][2][2] = k
    BY InSets
  <2> QED
    BY <2>1, Shift, InSets
<1>5. q[1][1] = "task" => OffloadShard[q[1][2][1]] = o /\ q[1][2][2] \in TasksIn(q, q[1][2][1])
  BY Shift, InSets DEF TasksSound
<1>6. q[1][1] # "task" => \A f : TasksIn(t, f) = TasksIn(q, f)
  <2> SUFFICES ASSUME q[1][1] # "task", NEW f
               PROVE  TasksIn(t, f) = TasksIn(q, f)
    OBVIOUS
  <2>1. TasksIn(t, f) \subseteq TasksIn(q, f) /\ TasksIn(q, f) \subseteq TasksIn(t, f)
    BY <1>3, <1>4
  <2> QED
    BY <2>1
<1> QED
  BY <1>2, <1>3, <1>4, <1>5, <1>6

\* A task queue with one more task, which is behind all tasks of its flow.
LEMMA TasksGrown ==
    ASSUME NEW o \in Offloads, NEW q, NEW x, NEW t, Grown(q, x, t), TasksSound(q, o),
           x[1] = "task" => /\ OffloadShard[x[2][1]] = o
                            /\ \A k \in TasksIn(q, x[2][1]) : k < x[2][2]
    PROVE  /\ TasksSound(t, o)
           /\ x[1] # "task" => \A f : TasksIn(t, f) = TasksIn(q, f)
           /\ x[1] = "task" =>
                \A f : TasksIn(t, f) = IF f = x[2][1] THEN TasksIn(q, f) \cup {x[2][2]} ELSE TasksIn(q, f)
<1>1. /\ \A i \in 1 .. Len(q) : t[i] = q[i] /\ i \in 1 .. Len(t)
      /\ \A i \in 1 .. Len(t) : i \in 1 .. Len(q) \/ (i = Len(q) + 1 /\ t[i] = x)
      /\ Len(q) + 1 \in 1 .. Len(t) /\ t[Len(q) + 1] = x
      /\ \A i, j \in 1 .. Len(t) : i < j => i \in 1 .. Len(q)
  BY DEF Grown
<1>2. \A f, k : k \in TasksIn(t, f) <=> k \in TasksIn(q, f) \/ (x[1] = "task" /\ x[2][1] = f /\ x[2][2] = k)
  BY <1>1, InSets
<1>3. \A f : \A i \in 1 .. Len(q) : q[i][1] = "task" => q[i][2][2] \in TasksIn(q, q[i][2][1])
  BY InSets
<1>4. TasksSound(t, o)
  <2>1. ASSUME NEW i \in 1 .. Len(t), NEW j \in 1 .. Len(t), i < j,
               t[i][1] = "task", t[j][1] = "task", t[i][2][1] = t[j][2][1]
        PROVE  t[i][2][2] < t[j][2][2]
    <3>1. i \in 1 .. Len(q) /\ t[i] = q[i] /\ t[i][2][2] \in TasksIn(q, t[i][2][1])
      BY <1>1, <1>3, <2>1
    <3>2. CASE j \in 1 .. Len(q)
      BY <1>1, <2>1, <3>1, <3>2 DEF TasksSound
    <3>3. CASE t[j] = x
      BY <2>1, <3>1, <3>3
    <3> QED
      BY <1>1, <3>2, <3>3
  <2>2. \A i \in 1 .. Len(t) : t[i][1] = "task" => OffloadShard[t[i][2][1]] = o
    BY <1>1 DEF TasksSound
  <2> QED
    BY <2>1, <2>2 DEF TasksSound
<1>5. x[1] # "task" => \A f : TasksIn(t, f) = TasksIn(q, f)
  <2> SUFFICES ASSUME x[1] # "task", NEW f
               PROVE  TasksIn(t, f) = TasksIn(q, f)
    OBVIOUS
  <2>1. TasksIn(t, f) \subseteq TasksIn(q, f) /\ TasksIn(q, f) \subseteq TasksIn(t, f)
    BY <1>2
  <2> QED
    BY <2>1
<1>6. x[1] = "task" =>
        \A f : TasksIn(t, f) = IF f = x[2][1] THEN TasksIn(q, f) \cup {x[2][2]} ELSE TasksIn(q, f)
  BY <1>2
<1> QED
  BY <1>4, <1>5, <1>6

\* What is left of a packet queue without the first command.
LEMMA PacketsDropped ==
    ASSUME NEW w \in Workers, NEW q, NEW t, Dropped(q, t), PacketsSound(q, w)
    PROVE  /\ PacketsSound(t, w)
           /\ \A f : PacketsIn(t, f) \subseteq PacketsIn(q, f)
           /\ q[1][1] # "packet" => \A f : PacketsIn(t, f) = PacketsIn(q, f)
           /\ q[1][1] = "packet" =>
                /\ HandSound(q[1][3], w)
                /\ \A f \in Flows : Below(ChunksIn(q[1][3], f), PacketsIn(t, f))
                /\ \A f : PacketsIn(q, f) = ChunksIn(q[1][3], f) \cup PacketsIn(t, f)
<1>1. \A i \in 1 .. Len(t) : t[i] = q[i + 1]
  BY DEF Dropped
<1>2. PacketsSound(t, w)
  <2>1. ASSUME NEW i \in 1 .. Len(t), NEW j \in 1 .. Len(t), i < j, t[i][1] = "packet", t[j][1] = "packet"
        PROVE  \A f \in Flows : \A k \in ChunksIn(t[i][3], f), l \in ChunksIn(t[j][3], f) : k < l
    <3>1. /\ i + 1 \in 1 .. Len(q) /\ j + 1 \in 1 .. Len(q) /\ i + 1 < j + 1
          /\ t[i] = q[i + 1] /\ t[j] = q[j + 1]
      BY <1>1, <2>1, Shift
    <3> QED
      BY <2>1, <3>1 DEF PacketsSound
  <2>2. \A i \in 1 .. Len(t) : t[i][1] = "packet" => HandSound(t[i][3], w)
    BY <1>1, Shift DEF PacketsSound
  <2> QED
    BY <2>1, <2>2 DEF PacketsSound
<1>3. ASSUME NEW f, NEW k \in PacketsIn(t, f)
      PROVE  /\ k \in PacketsIn(q, f)
             /\ q[1][1] = "packet" /\ f \in Flows => \A l \in ChunksIn(q[1][3], f) : l < k
  <2>1. PICK i \in 1 .. Len(t) : t[i][1] = "packet" /\ k \in ChunksIn(t[i][3], f)
    BY InSets
  <2>2. i + 1 \in 1 .. Len(q) /\ 1 \in 1 .. Len(q) /\ 1 < i + 1 /\ t[i] = q[i + 1]
    BY <1>1, Shift
  <2> QED
    BY <2>1, <2>2, InSets DEF PacketsSound
<1>4. ASSUME NEW f, NEW k \in PacketsIn(q, f)
      PROVE  k \in PacketsIn(t, f) \/ (q[1][1] = "packet" /\ k \in ChunksIn(q[1][3], f))
  <2>1. PICK i \in 1 .. Len(q) : q[i][1] = "packet" /\ k \in ChunksIn(q[i][3], f)
    BY InSets
  <2>2. i = 1 \/ (i - 1 \in 1 .. Len(t) /\ t[i - 1] = q[i])
    BY Shift
  <2>3. ASSUME NEW j \in 1 .. Len(t), t[j] = q[i]
        PROVE  k \in PacketsIn(t, f)
    <3>1. t[j][1] = "packet" /\ k \in ChunksIn(t[j][3], f)
      BY <2>1, <2>3
    <3> QED
      BY <3>1, InSets
  <2> QED
    BY <2>1, <2>2, <2>3
<1>5. q[1][1] = "packet" => /\ HandSound(q[1][3], w)
                            /\ \A f : \A k \in ChunksIn(q[1][3], f) : k \in PacketsIn(q, f)
  BY Shift, InSets DEF PacketsSound
<1>6. q[1][1] # "packet" => \A f : PacketsIn(t, f) = PacketsIn(q, f)
  <2> SUFFICES ASSUME q[1][1] # "packet", NEW f
               PROVE  PacketsIn(t, f) = PacketsIn(q, f)
    OBVIOUS
  <2>1. PacketsIn(t, f) \subseteq PacketsIn(q, f) /\ PacketsIn(q, f) \subseteq PacketsIn(t, f)
    BY <1>3, <1>4
  <2> QED
    BY <2>1
<1>7. q[1][1] = "packet" => \A f : PacketsIn(q, f) = ChunksIn(q[1][3], f) \cup PacketsIn(t, f)
  BY <1>3, <1>4, <1>5
<1>8. q[1][1] = "packet" => \A f \in Flows : Below(ChunksIn(q[1][3], f), PacketsIn(t, f))
  BY <1>3 DEF Below
<1> QED
  BY <1>2, <1>3, <1>5, <1>6, <1>7, <1>8

\* A packet queue with one more packet, which is behind all packets of its flow.
LEMMA PacketsGrown ==
    ASSUME NEW w \in Workers, NEW q, NEW x, NEW t, Grown(q, x, t), PacketsSound(q, w),
           x[1] = "packet" => /\ HandSound(x[3], w)
                              /\ \A f \in Flows : Below(PacketsIn(q, f), ChunksIn(x[3], f))
    PROVE  /\ PacketsSound(t, w)
           /\ \A f : PacketsIn(t, f) = IF x[1] = "packet" THEN PacketsIn(q, f) \cup ChunksIn(x[3], f)
                                       ELSE PacketsIn(q, f)
<1>1. /\ \A i \in 1 .. Len(q) : t[i] = q[i] /\ i \in 1 .. Len(t)
      /\ \A i \in 1 .. Len(t) : i \in 1 .. Len(q) \/ (i = Len(q) + 1 /\ t[i] = x)
      /\ Len(q) + 1 \in 1 .. Len(t) /\ t[Len(q) + 1] = x
      /\ \A i, j \in 1 .. Len(t) : i < j => i \in 1 .. Len(q)
  BY DEF Grown
<1>2. \A f, k : k \in PacketsIn(t, f) <=> k \in PacketsIn(q, f) \/ (x[1] = "packet" /\ k \in ChunksIn(x[3], f))
  BY <1>1, InSets
<1>3. \A f : \A i \in 1 .. Len(q) : q[i][1] = "packet" => ChunksIn(q[i][3], f) \subseteq PacketsIn(q, f)
  BY InSets
<1>4. PacketsSound(t, w)
  BY <1>1, <1>3 DEF PacketsSound, Below
<1> QED
  BY <1>2, <1>4

\* Empty queues hold nothing.
LEMMA EmptySound ==
    /\ \A w \in Workers : HandSound(<<>>, w) /\ PacketsSound(<<>>, w)
    /\ \A o \in Offloads : TasksSound(<<>>, o)
    /\ \A f : ChunksIn(<<>>, f) = {} /\ TasksIn(<<>>, f) = {} /\ PacketsIn(<<>>, f) = {}
<1>1. Len(<<>>) = 0 /\ 1 .. 0 = {}
  OBVIOUS
<1> QED
  BY <1>1, InSets DEF HandSound, Rising, PacketsSound, TasksSound

\* The steps that channels take are of these kinds.
LEMMA ChannelSteps ==
    ASSUME NEW S, NEW depth \in Nat, NEW q \in Channel(S, depth)
    PROVE  /\ q # <<>> => Dropped(q, Tail(q)) /\ Head(q) = q[1]
           /\ \A x \in S : Len(q) < depth => Grown(q, x, Append(q, x))
<1>1. ASSUME q # <<>>
      PROVE  Dropped(q, Tail(q)) /\ Head(q) = q[1]
  BY <1>1, ChannelHead DEF Dropped
<1>2. ASSUME NEW x \in S, Len(q) < depth
      PROVE  Grown(q, x, Append(q, x))
  BY <1>2, ChannelAppend DEF Grown
<1> QED
  BY <1>1, <1>2

-----------------------------------------------------------------------------
(* The moves of chunks, and of the counters, which are all that matters of a step *)

\* Each chunk a shard is done with is counted once, as submitted, inline or dropped.
Fates == {"submitted", "inline", "dropped"}
CountedAs(s, t, kind) == \A c \in Fates : t[c] = s[c] + (IF c = kind THEN 1 ELSE 0)

\* How the counters are changed in the code.
LEMMA CountersGo ==
    ASSUME NEW s \in StatsType
    PROVE  /\ CountedAs(s, [s EXCEPT !.inline = @ + 1], "inline")
           /\ CountedAs(s, [s EXCEPT !.dropped = @ + 1], "dropped")
           /\ \A n : CountedAs(s, [s EXCEPT !.submitted = @ + 1, !.blocked = @ + n], "submitted")
  BY DEF CountedAs, Fates, StatsType

QuietQ(q, t, kind) ==
    \/ t = q
    \/ Dropped(q, t) /\ q[1][1] # kind
    \/ \E x : Grown(q, x, t) /\ x[1] # kind

\* Of one shard and of one offload worker: no chunk moves, but the queue of a thread
\* that ends is discarded, and Shutdown is what makes a shard leave.
QuietShard(w) ==
    /\ wk'[w].todo = wk[w].todo /\ wk'[w].placement = wk[w].placement /\ wk'[w].stats = wk[w].stats
    /\ wk[w].pc \in Holding => wk'[w].pc \in Holding
    /\ wk[w].pc = "dead" => wk'[w].pc = "dead"
    /\ wk'[w].pc = "blocked" =>
            wk[w].pc = "blocked" \/ "Local" \notin PlacementOf(wk[w].placement, wk[w].todo[1][1])
    /\ wk'[w].pc \in Leaving =>
            \/ wk[w].pc \in Leaving
            \/ Dropped(workerQ[w], workerQ'[w]) /\ workerQ[w][1] = <<"shutdown">>
    /\ wk'[w].pc = "done" => workerQ'[w] = <<>> \/ (wk[w].pc = "done" /\ workerQ'[w] = workerQ[w])
    /\ \/ QuietQ(workerQ[w], workerQ'[w], "packet")
       \/ workerQ'[w] = <<>> /\ (wk'[w].pc = "dead" \/ wk[w].pc = "report")
QuietOffload(o) ==
    /\ off[o].pc = "dead" => off'[o].pc = "dead"
    /\ off'[o].processed = off[o].processed
    /\ QuietQ(offloadQ[o], offloadQ'[o], "task") \/ (offloadQ'[o] = <<>> /\ off'[o].pc = "dead")
Quiet ==
    /\ UNCHANGED <<policy, parsed, routed>>
    /\ \A w \in Workers : QuietShard(w)
    /\ \A o \in Offloads : QuietOffload(o)
    /\ co'.pc = "send" => co.pc = "send" /\ co'.packet = co.packet

\* A shard takes a packet.
Unpacks(w) ==
    /\ wk[w].pc = "recv" /\ workerQ[w][1][1] = "packet"
    /\ Dropped(workerQ[w], workerQ'[w]) /\ wk'[w].todo = workerQ[w][1][3]
    /\ wk'[w].placement = wk[w].placement /\ wk'[w].stats = wk[w].stats
    /\ wk'[w].pc = "chunks" \/ (wk'[w].pc \in {"flush", "recv"} /\ wk'[w].todo = <<>>)
    /\ \A v \in Workers \ {w} : wk'[v] = wk[v] /\ workerQ'[v] = workerQ[v]
    /\ UNCHANGED <<policy, co, offloadQ, off, parsed, routed>>

\* A shard is done with the chunk at hand, the first of todo.
Passes(w, table) ==
    /\ wk[w].pc \in {"chunks", "blocked"}
    /\ Dropped(wk[w].todo, wk'[w].todo) /\ wk'[w].placement = table
    /\ wk'[w].pc = "chunks" \/ (wk'[w].pc \in {"flush", "recv"} /\ wk'[w].todo = <<>>)
    /\ \A v \in Workers \ {w} : wk'[v] = wk[v]
    /\ UNCHANGED <<policy, co, workerQ, off, routed>>

ParsesHere(w) ==
    LET f == wk[w].todo[1][1]
        place == PlacementOf(wk[w].placement, f)
    IN  /\ IF OffloadCount = 0 THEN Passes(w, wk[w].placement) /\ wk'[w].stats = wk[w].stats
           ELSE /\ Passes(w, Touch(wk[w].placement, f, "Local"))
                /\ CountedAs(wk[w].stats, wk'[w].stats, "inline")
                /\ "Local" \in place \/ (policy = "Inline" /\ "Offloaded" \notin place)
        /\ parsed' = [parsed EXCEPT ![f] = Append(@, <<"shard", w, wk[w].todo[1][2]>>)]
        /\ UNCHANGED offloadQ

Submits(w) ==
    LET f == wk[w].todo[1][1]
        o == OffloadShard[f]
    IN  /\ OffloadCount > 0 /\ Passes(w, Touch(wk[w].placement, f, "Offloaded"))
        /\ CountedAs(wk[w].stats, wk'[w].stats, "submitted")
        /\ wk[w].pc = "blocked" \/ "Local" \notin PlacementOf(wk[w].placement, f)
        /\ Grown(offloadQ[o], <<"task", wk[w].todo[1]>>, offloadQ'[o])
        /\ \A p \in Offloads \ {o} : offloadQ'[p] = offloadQ[p]
        /\ UNCHANGED parsed

Drops(w) ==
    LET f == wk[w].todo[1][1]
    IN  /\ OffloadCount > 0 /\ policy = "Drop"
        /\ \/ Passes(w, wk[w].placement)
           \/ Passes(w, Touch(wk[w].placement, f, "Offloaded"))
        /\ "Local" \notin PlacementOf(wk[w].placement, f)
        /\ CountedAs(wk[w].stats, wk'[w].stats, "dropped")
        /\ UNCHANGED <<offloadQ, parsed>>

\* An offload worker takes a task and parses its chunk.
ParsesTask(o) ==
    LET chunk == offloadQ[o][1][2]
    IN  /\ offloadQ[o][1][1] = "task" /\ Dropped(offloadQ[o], offloadQ'[o])
        /\ parsed' = [parsed EXCEPT ![chunk[1]] = Append(@, <<"offload", o, chunk[2]>>)]
        /\ \A p \in Offloads \ {o} : offloadQ'[p] = offloadQ[p]
        /\ UNCHANGED <<policy, co, wk, workerQ, routed>>
        /\ off'[o].processed = off[o].processed + 1
        /\ OffloadLive(o) /\ OffloadLive(o)' /\ \A p \in Offloads \ {o} : off'[p] = off[p]

\* The coordinator takes a packet from the source, and puts it into the queue of its shard.
Gets(f, n) ==
    /\ co'.pc = "send" /\ co'.packet = <<"packet", f, [i \in 1 .. n |-> <<f, routed[f] + i>>]>>
    /\ UNCHANGED <<policy, wk, workerQ, off, offloadQ, parsed, routed>>
Sends ==
    LET f == co.packet[2]
        w == Shard[f]
    IN  /\ co.pc = "send" /\ co'.pc = "source"
        /\ WorkerLive(w) /\ Grown(workerQ[w], co.packet, workerQ'[w])
        /\ \A v \in Workers \ {w} : workerQ'[v] = workerQ[v]
        /\ routed' = [routed EXCEPT ![f] = routed[f] + Len(co.packet[3])]
        /\ UNCHANGED <<policy, wk, off, offloadQ, parsed>>

\* What a shard is done with leaves its todo.
LEMMA ChunkPasses ==
    ASSUME TInv, NEW w \in Workers, wk[w].pc \in {"chunks", "blocked"},
           NEW events, NEW table, NEW stats, ChunkDone(w, events, table, stats),
           UNCHANGED <<policy, co, workerQ, off, routed>>
    PROVE  Passes(w, table) /\ wk'[w].stats = stats
<1> DEFINE s == wk[w].todo
<1>1. /\ s \in Seq(Chunks) /\ s # <<>> /\ Len(s) \in Nat \ {0}
      /\ Dropped(s, Tail(s)) /\ Len(Tail(s)) = Len(s) - 1 /\ Tail(s) \in Seq(Chunks)
  <2>1. s \in Seq(Chunks) /\ s # <<>>
    BY WorkerHas DEF WkState, WkRecord
  <2>2. s \in Channel(Chunks, Len(s)) /\ Len(s) \in Nat
    BY <2>1, LenProperties DEF Channel
  <2> HIDE DEF s
  <2> QED
    BY <2>1, <2>2, ChannelSteps, ChannelHead DEF Channel
<1>2. wk' = [wk EXCEPT ![w] = [pc |-> IF Len(s) > 1 THEN "chunks" ELSE AfterCommand(events),
                               todo |-> Tail(s), events |-> events, placement |-> table, stats |-> stats]]
  BY DEF ChunkDone
<1>3. /\ wk'[w].todo = Tail(s) /\ wk'[w].placement = table /\ wk'[w].stats = stats
      /\ wk'[w].pc = IF Len(s) > 1 THEN "chunks" ELSE AfterCommand(events)
      /\ \A v \in Workers \ {w} : wk'[v] = wk[v]
  BY <1>2 DEF TInv
<1>4. ~ (Len(s) > 1) => Tail(s) = <<>>
  <2> DEFINE t == Tail(s)
  <2>1. t \in Seq(Chunks) /\ Len(t) = Len(s) - 1 /\ Len(s) \in Nat \ {0}
    BY <1>1
  <2> HIDE DEF s, t
  <2>2. ~ (Len(s) > 1) => t = <<>>
    BY <2>1, EmptySeq
  <2> QED
    BY <2>2 DEF t
<1> QED
  BY <1>1, <1>3, <1>4 DEF Passes, AfterCommand

\* process_tcp_stream_chunk parses the chunk, submits it, drops it or blocks.
LEMMA ChunkMoves ==
    ASSUME TInv, NEW w \in Workers, WorkerChunk(w) \/ WorkerUnblock(w)
    PROVE  ParsesHere(w) \/ Submits(w) \/ Drops(w) \/ Quiet
<1> DEFINE f == Head(wk[w].todo)[1]
           table == wk[w].placement
           o == OffloadShard[f]
<1>a. /\ wk[w].pc \in {"chunks", "blocked"}
      /\ wk[w].pc = "blocked" => OffloadCount > 0
      /\ UNCHANGED <<policy, co, workerQ, off, routed>>
      /\ WorkerUnblock(w) => wk[w].pc = "blocked"
  BY WorkerHas DEF WorkerChunk, WorkerUnblock, WkState
<1>b. /\ Head(wk[w].todo) = wk[w].todo[1] /\ Head(wk[w].todo) \in Chunks
      /\ OffloadCount > 0 => o \in Offloads
  <2>1. wk[w].todo \in Seq(Chunks) /\ wk[w].todo # <<>>
    BY <1>a, WorkerHas DEF WkState, WkRecord
  <2> QED
    BY <2>1, <1>a, ChunkAtHand, HeadTailProperties
<1>c. wk[w].stats \in StatsType
  BY WorkerHas DEF WkState, WkRecord
<1>1. ASSUME NEW stats, NEW next, ParseHere(w, next, stats),
             IF OffloadCount = 0 THEN next = table /\ stats = wk[w].stats
             ELSE /\ next = Touch(table, f, "Local") /\ CountedAs(wk[w].stats, stats, "inline")
                  /\ \/ "Local" \in PlacementOf(table, f)
                     \/ policy = "Inline" /\ "Offloaded" \notin PlacementOf(table, f)
      PROVE  ParsesHere(w)
  <2>1. Passes(w, next) /\ wk'[w].stats = stats
    BY <1>1, <1>a, ChunkPasses DEF ParseHere
  <2> QED
    BY <2>1, <1>1, <1>b DEF ParseHere, ParsesHere
<1>2. ASSUME NEW blocked, Submit(w, blocked), OffloadCount > 0, Len(offloadQ[o]) < OffloadDepth,
             wk[w].pc = "blocked" \/ "Local" \notin PlacementOf(table, f)
      PROVE  Submits(w)
  <2>1. Passes(w, Touch(table, f, "Offloaded")) /\ CountedAs(wk[w].stats, wk'[w].stats, "submitted")
    BY <1>2, <1>a, <1>c, ChunkPasses, CountersGo DEF Submit
  <2>2. <<"task", Head(wk[w].todo)>> \in Tasks /\ offloadQ[o] \in Channel(Tasks, OffloadDepth) /\ OffloadDepth \in Nat
    BY <1>b, <1>2, PipelineAssumption DEF Tasks, TaskCommands, TInv
  <2>3. offloadQ' = [offloadQ EXCEPT ![o] = Append(offloadQ[o], <<"task", Head(wk[w].todo)>>)]
    BY <1>2 DEF Submit
  <2>4. Grown(offloadQ[o], <<"task", Head(wk[w].todo)>>, Append(offloadQ[o], <<"task", Head(wk[w].todo)>>))
    BY <2>2, <1>2, ChannelSteps
  <2>5. /\ offloadQ'[o] = Append(offloadQ[o], <<"task", Head(wk[w].todo)>>)
        /\ \A p \in Offloads \ {o} : offloadQ'[p] = offloadQ[p]
    BY <2>3, <1>b, <1>2 DEF TInv
  <2> QED
    BY <2>1, <2>4, <2>5, <1>2, <1>b DEF Submit, Submits
<1>3. ASSUME NEW stats, NEW next, ChunkDone(w, wk[w].events, next, stats), policy = "Drop", OffloadCount > 0,
             CountedAs(wk[w].stats, stats, "dropped"),
             "Local" \notin PlacementOf(table, f), UNCHANGED <<offloadQ, parsed>>,
             next \in {table, Touch(table, f, "Offloaded")}
      PROVE  Drops(w)
  <2>1. Passes(w, next) /\ wk'[w].stats = stats
    BY <1>3, <1>a, ChunkPasses
  <2> QED
    BY <2>1, <1>3, <1>b DEF Drops
<1>4. ASSUME wk' = [wk EXCEPT ![w].pc = "blocked"], UNCHANGED <<offloadQ, parsed>>,
             "Local" \notin PlacementOf(table, f)
      PROVE  Quiet
  <2>1. /\ wk'[w].pc = "blocked" /\ wk'[w].todo = wk[w].todo /\ wk'[w].placement = wk[w].placement
        /\ wk'[w].stats = wk[w].stats
        /\ \A v \in Workers \ {w} : wk'[v] = wk[v]
    BY <1>4, WorkerHas DEF TInv, WkState, WkRecord
  <2> QED
    BY <2>1, <1>4, <1>a DEF Quiet, QuietShard, QuietOffload, QuietQ, Holding, Leaving
<1>5. CASE WorkerUnblock(w)
  <2>1. /\ Submit(w, 1) /\ Len(offloadQ[o]) < OffloadDepth
        /\ wk[w].pc = "blocked" /\ OffloadCount > 0
    BY <1>5, <1>a DEF WorkerUnblock
  <2> QED
    BY <2>1, <1>2
<1>6. CASE WorkerChunk(w)
  <2>1. CASE OffloadCount = 0
    <3>1. ParseHere(w, table, wk[w].stats)
      BY <2>1, <1>6, Zenon DEF WorkerChunk
    <3> QED
      BY <3>1, <2>1, <1>1
  <2>2. CASE OffloadCount # 0 /\ "Local" \in PlacementOf(table, f)
    <3>1. ParseHere(w, Touch(table, f, "Local"), [wk[w].stats EXCEPT !.inline = @ + 1])
      BY <2>2, <1>6, Zenon DEF WorkerChunk
    <3> QED
      BY <3>1, <2>2, <1>1, <1>c, CountersGo
  <2>3. CASE OffloadCount # 0 /\ "Local" \notin PlacementOf(table, f)
    <3>1. OffloadCount > 0
      BY <2>3, PipelineAssumption
    <3>2. \/ Len(offloadQ[o]) < OffloadDepth /\ Submit(w, 0)
          \/ /\ Effective(PlacementOf(table, f)) = "Inline"
             /\ ParseHere(w, Touch(table, f, "Local"), [wk[w].stats EXCEPT !.inline = @ + 1])
          \/ /\ Effective(PlacementOf(table, f)) = "Drop" /\ UNCHANGED <<offloadQ, parsed>>
             /\ ChunkDone(w, wk[w].events,
                          IF PlacementOf(table, f) = {} THEN table ELSE Touch(table, f, "Offloaded"),
                          [wk[w].stats EXCEPT !.dropped = @ + 1])
          \/ wk' = [wk EXCEPT ![w].pc = "blocked"] /\ UNCHANGED <<offloadQ, parsed>>
      BY <2>3, <1>6, Zenon DEF WorkerChunk
    <3>3. /\ Effective(PlacementOf(table, f)) = "Inline" =>
                policy = "Inline" /\ "Offloaded" \notin PlacementOf(table, f)
          /\ Effective(PlacementOf(table, f)) = "Drop" => policy = "Drop"
      BY DEF Effective
    <3>4. CASE Len(offloadQ[o]) < OffloadDepth /\ Submit(w, 0)
      BY <3>1, <3>4, <2>3, <1>2
    <3>5. CASE /\ Effective(PlacementOf(table, f)) = "Inline"
               /\ ParseHere(w, Touch(table, f, "Local"), [wk[w].stats EXCEPT !.inline = @ + 1])
      BY <3>1, <3>3, <3>5, <2>3, <1>1, <1>c, CountersGo
    <3>6. CASE /\ Effective(PlacementOf(table, f)) = "Drop" /\ UNCHANGED <<offloadQ, parsed>>
               /\ ChunkDone(w, wk[w].events,
                            IF PlacementOf(table, f) = {} THEN table ELSE Touch(table, f, "Offloaded"),
                            [wk[w].stats EXCEPT !.dropped = @ + 1])
      BY <3>1, <3>3, <3>6, <2>3, <1>3, <1>c, CountersGo
    <3> QED
      BY <3>2, <3>4, <3>5, <3>6, <2>3, <1>4
  <2> QED
    BY <2>1, <2>2, <2>3
<1> QED
  BY <1>5, <1>6

\* Threads and queues that a step leaves alone.
LEMMA Unmoved ==
    /\ \A w \in Workers : wk'[w] = wk[w] /\ workerQ'[w] = workerQ[w] => QuietShard(w)
    /\ \A o \in Offloads : off'[o] = off[o] /\ offloadQ'[o] = offloadQ[o] => QuietOffload(o)
  BY DEF QuietShard, QuietOffload, QuietQ, Holding, Leaving

\* What a step of a shard does with chunks.
LEMMA WorkerMoves ==
    ASSUME TInv, NEW w \in Workers,
           WorkerThread(w) \/ WorkerPanics(w) \/ WorkerSnapshot(w)
    PROVE  Quiet \/ Unpacks(w) \/ ParsesHere(w) \/ Submits(w) \/ Drops(w)
<1>a. /\ wk \in [Workers -> WkState] /\ wk[w] \in WkState /\ wk[w] \in WkRecord
      /\ workerQ \in [Workers -> Channel(Commands, WorkerDepth)]
  BY WorkerHas DEF TInv, WkState
<1>b. workerQ[w] # <<>> => /\ Dropped(workerQ[w], Tail(workerQ[w])) /\ Head(workerQ[w]) = workerQ[w][1]
                           /\ workerQ[w][1] \in Commands
  BY <1>a, WorkerHas, ChannelSteps
<1>c. \A c \in Commands : c[1] = "shutdown" => c = <<"shutdown">>
  BY Kinds
<1>q. ASSUME UNCHANGED <<policy, co, off, offloadQ, parsed, routed>>,
             \A v \in Workers \ {w} : wk'[v] = wk[v] /\ workerQ'[v] = workerQ[v],
             QuietShard(w)
      PROVE  Quiet
  <2>1. \A v \in Workers : QuietShard(v)
    BY <1>q, Unmoved
  <2>2. \A o \in Offloads : QuietOffload(o)
    BY <1>q, Unmoved
  <2> QED
    BY <1>q, <2>1, <2>2 DEF Quiet
<1>1. CASE WorkerPacket(w)
  <2>1. /\ wk[w].pc = "recv" /\ workerQ[w] # <<>> /\ workerQ[w][1][1] = "packet"
        /\ workerQ' = [workerQ EXCEPT ![w] = Tail(workerQ[w])]
    BY <1>1, <1>b DEF WorkerPacket
  <2>2. PICK events : wk' = [wk EXCEPT ![w].events = events,
                            ![w].todo = workerQ[w][1][3],
                            ![w].pc = IF workerQ[w][1][3] # <<>> THEN "chunks" ELSE AfterCommand(events)]
    BY <1>1, <1>b, <2>1 DEF WorkerPacket
  <2>3. /\ wk'[w].todo = workerQ[w][1][3] /\ wk'[w].placement = wk[w].placement /\ wk'[w].stats = wk[w].stats
        /\ wk'[w].pc = IF workerQ[w][1][3] # <<>> THEN "chunks" ELSE AfterCommand(events)
        /\ \A v \in Workers \ {w} : wk'[v] = wk[v]
    BY <2>2, <1>a DEF WkRecord
  <2>4. /\ workerQ'[w] = Tail(workerQ[w]) /\ \A v \in Workers \ {w} : workerQ'[v] = workerQ[v]
    BY <2>1, <1>a
  <2>5. wk'[w].pc = "chunks" \/ (wk'[w].pc \in {"flush", "recv"} /\ wk'[w].todo = <<>>)
    BY <2>3 DEF AfterCommand
  <2>6. UNCHANGED <<policy, co, offloadQ, off, parsed, routed>>
    BY <1>1 DEF WorkerPacket
  <2> QED
    BY <2>1, <2>3, <2>4, <2>5, <2>6, <1>b DEF Unpacks
<1>2. CASE WorkerSlice(w) \/ WorkerShutdown(w)
  <2>1. /\ wk[w].pc = "recv" /\ workerQ[w] # <<>> /\ workerQ[w][1][1] \in {"slice", "shutdown"}
        /\ workerQ' = [workerQ EXCEPT ![w] = Tail(workerQ[w])]
    BY <1>2, <1>b DEF WorkerSlice, WorkerShutdown
  <2>2. PICK pc : /\ wk' = [wk EXCEPT ![w].pc = pc]
                  /\ \/ pc \in {"flush", "recv"}
                     \/ pc \in {"lastFlush", "report"} /\ workerQ[w][1] = <<"shutdown">>
    BY <1>2, <1>b, <1>c, <2>1 DEF WorkerSlice, WorkerShutdown, AfterCommand
  <2>3. /\ wk'[w].todo = wk[w].todo /\ wk'[w].placement = wk[w].placement /\ wk'[w].pc = pc
        /\ wk'[w].stats = wk[w].stats
        /\ \A v \in Workers \ {w} : wk'[v] = wk[v]
    BY <2>2, <1>a DEF WkRecord
  <2>4. /\ workerQ'[w] = Tail(workerQ[w]) /\ \A v \in Workers \ {w} : workerQ'[v] = workerQ[v]
    BY <2>1, <1>a
  <2>5. QuietShard(w)
    BY <2>1, <2>2, <2>3, <2>4, <1>b DEF QuietShard, QuietQ, Holding, Leaving
  <2> QED
    BY <1>q, <2>3, <2>4, <2>5, <1>2 DEF WorkerSlice, WorkerShutdown
<1>3. CASE WorkerChunk(w) \/ WorkerUnblock(w)
  BY <1>3, ChunkMoves
<1>4. CASE WorkerFails(w) \/ WorkerPanics(w)
  <2>1. wk[w].pc \in {"recv", "chunks", "blocked"} /\ WorkerEndsEarly(w)
    BY <1>4 DEF WorkerFails, WorkerPanics
  <2>2. /\ wk'[w].todo = wk[w].todo /\ wk'[w].placement = wk[w].placement /\ wk'[w].pc = "dead"
        /\ wk'[w].stats = wk[w].stats
        /\ \A v \in Workers \ {w} : wk'[v] = wk[v]
        /\ workerQ'[w] = <<>> /\ \A v \in Workers \ {w} : workerQ'[v] = workerQ[v]
    BY <2>1, <1>a DEF WkRecord, WorkerEndsEarly
  <2>3. QuietShard(w)
    BY <2>1, <2>2 DEF QuietShard, Holding, Leaving
  <2> QED
    BY <1>q, <2>1, <2>2, <2>3 DEF WorkerEndsEarly
<1>5. CASE WorkerFlushDue(w) \/ WorkerFlush(w) \/ WorkerSnapshot(w)
  <2>1. /\ wk'[w].todo = wk[w].todo /\ wk'[w].placement = wk[w].placement /\ wk'[w].stats = wk[w].stats
        /\ \/ wk[w].pc \in {"flush", "recv"} /\ wk'[w].pc \in {"flush", "recv"}
           \/ wk[w].pc = "lastFlush" /\ wk'[w].pc = "report"
        /\ \A v \in Workers \ {w} : wk'[v] = wk[v]
        /\ workerQ' = workerQ
    BY <1>5, <1>a DEF WorkerFlushDue, WorkerFlush, WorkerSnapshot, WkRecord
  <2>2. QuietShard(w)
    BY <2>1 DEF QuietShard, QuietQ, Holding, Leaving
  <2> QED
    BY <1>q, <2>1, <2>2, <1>5 DEF WorkerFlushDue, WorkerFlush, WorkerSnapshot
<1>6. CASE WorkerReport(w)
  <2>1. /\ wk'[w].todo = wk[w].todo /\ wk'[w].placement = wk[w].placement /\ wk'[w].stats = wk[w].stats
        /\ wk[w].pc = "report" /\ wk'[w].pc = "done"
        /\ \A v \in Workers \ {w} : wk'[v] = wk[v] /\ workerQ'[v] = workerQ[v]
        /\ workerQ'[w] = <<>>
    BY <1>6, <1>a DEF WorkerReport, WkRecord
  <2>2. QuietShard(w)
    BY <2>1 DEF QuietShard, QuietQ, Holding, Leaving
  <2> QED
    BY <1>q, <2>1, <2>2, <1>6 DEF WorkerReport
<1> QED
  BY <1>1, <1>2, <1>3, <1>4, <1>5, <1>6 DEF WorkerThread

\* What a step of an offload worker does with chunks.
LEMMA OffloadMoves ==
    ASSUME TInv, NEW o \in Offloads,
           OffloadThread(o) \/ OffloadPanics(o) \/ OffloadSnapshot(o)
    PROVE  Quiet \/ ParsesTask(o)
<1>a. /\ off \in [Offloads -> OffState] /\ off[o] \in OffState
      /\ offloadQ \in [Offloads -> Channel(Tasks, OffloadDepth)]
      /\ OffloadDepth \in Nat
  BY PipelineAssumption DEF TInv
<1>b. offloadQ[o] # <<>> => Dropped(offloadQ[o], Tail(offloadQ[o])) /\ Head(offloadQ[o]) = offloadQ[o][1]
  BY <1>a, ChannelSteps
<1>q. ASSUME UNCHANGED <<policy, co, wk, workerQ, parsed, routed>>,
             \A p \in Offloads \ {o} : off'[p] = off[p] /\ offloadQ'[p] = offloadQ[p],
             QuietOffload(o)
      PROVE  Quiet
  <2>1. \A v \in Workers : QuietShard(v)
    BY <1>q, Unmoved
  <2>2. \A p \in Offloads : QuietOffload(p)
    BY <1>q, Unmoved
  <2> QED
    BY <1>q, <2>1, <2>2 DEF Quiet
<1>1. CASE OffloadTask(o)
  <2>1. /\ off[o].pc = "recv" /\ offloadQ[o] # <<>> /\ offloadQ[o][1][1] = "task"
        /\ offloadQ' = [offloadQ EXCEPT ![o] = Tail(offloadQ[o])]
        /\ parsed' = [parsed EXCEPT ![offloadQ[o][1][2][1]] = Append(@, <<"offload", o, offloadQ[o][1][2][2]>>)]
    BY <1>1, <1>b DEF OffloadTask
  <2>2. PICK events : off' = [off EXCEPT ![o] = [pc |-> AfterCommand(events), events |-> events,
                                                processed |-> off[o].processed + 1]]
    BY <1>1, <1>a DEF OffloadTask
  <2>3. /\ off'[o].pc \in {"flush", "recv"} /\ off'[o].processed = off[o].processed + 1
        /\ \A p \in Offloads \ {o} : off'[p] = off[p]
    BY <2>2, <1>a DEF AfterCommand
  <2>4. /\ offloadQ'[o] = Tail(offloadQ[o]) /\ \A p \in Offloads \ {o} : offloadQ'[p] = offloadQ[p]
    BY <2>1, <1>a
  <2> QED
    BY <1>1, <2>1, <2>3, <2>4, <1>b DEF OffloadTask, ParsesTask, OffloadLive, Stopped
<1>2. CASE OffloadShutdown(o)
  <2>1. /\ off[o].pc = "recv" /\ offloadQ[o] # <<>> /\ offloadQ[o][1][1] = "shutdown"
        /\ offloadQ' = [offloadQ EXCEPT ![o] = Tail(offloadQ[o])]
    BY <1>2, <1>b DEF OffloadShutdown
  <2>2. /\ off'[o].processed = off[o].processed /\ \A p \in Offloads \ {o} : off'[p] = off[p]
        /\ offloadQ'[o] = Tail(offloadQ[o]) /\ \A p \in Offloads \ {o} : offloadQ'[p] = offloadQ[p]
    BY <1>2, <2>1, <1>a DEF OffloadShutdown, OffState
  <2>3. QuietOffload(o)
    BY <2>1, <2>2, <1>b DEF QuietOffload, QuietQ
  <2> QED
    BY <1>q, <2>2, <2>3, <1>2 DEF OffloadShutdown
<1>3. CASE OffloadFlushDue(o) \/ OffloadFlush(o) \/ OffloadReport(o) \/ OffloadSnapshot(o)
  <2>1. /\ off[o].pc # "dead" /\ offloadQ' = offloadQ /\ \A p \in Offloads \ {o} : off'[p] = off[p]
        /\ off'[o].processed = off[o].processed
    BY <1>3, <1>a DEF OffloadFlushDue, OffloadFlush, OffloadReport, OffloadSnapshot, OffState
  <2>2. QuietOffload(o)
    BY <2>1 DEF QuietOffload, QuietQ
  <2> QED
    BY <1>q, <2>1, <2>2, <1>3 DEF OffloadFlushDue, OffloadFlush, OffloadReport, OffloadSnapshot
<1>4. CASE OffloadPanics(o)
  <2>1. /\ off'[o].pc = "dead" /\ off'[o].processed = off[o].processed /\ \A p \in Offloads \ {o} : off'[p] = off[p]
        /\ offloadQ'[o] = <<>> /\ \A p \in Offloads \ {o} : offloadQ'[p] = offloadQ[p]
    BY <1>4, <1>a DEF OffloadPanics, OffState
  <2>2. QuietOffload(o)
    BY <2>1 DEF QuietOffload
  <2> QED
    BY <1>q, <2>1, <2>2, <1>4 DEF OffloadPanics
<1> QED
  BY <1>1, <1>2, <1>3, <1>4 DEF OffloadThread

\* What a step of the coordinator does with chunks: it sends a packet, or nothing.
LEMMA CoordMoves ==
    ASSUME TInv, CoordThread \/ CoordEnd
    PROVE  Quiet \/ Sends
<1>a. co \in CoState /\ co \in CoRecord /\ UNCHANGED <<policy, wk, off>>
  <2>1. co \in CoState
    BY DEF TInv
  <2>2. CoordEffect
    BY CoordSteps
  <2>3. policy' = policy
    BY DEF CoordThread, CoordEnd, CoordDrainDue, CoordSend, CoordDrain, CoordDrained, CoordStopShard,
           CoordStopOffload, CoordCollect, CoordCollected, CoordJoin
  <2> QED
    BY <2>1, <2>2, <2>3 DEF CoState, CoordEffect
<1>q. ASSUME UNCHANGED <<parsed, routed>>,
             \A w \in Workers : QuietQ(workerQ[w], workerQ'[w], "packet")
                /\ (wk[w].pc = "done" => workerQ'[w] = workerQ[w]),
             \A o \in Offloads : QuietQ(offloadQ[o], offloadQ'[o], "task"),
             co'.pc = "send" => co.pc = "send" /\ co'.packet = co.packet
      PROVE  Quiet
  BY <1>q, <1>a DEF Quiet, QuietShard, QuietOffload, Holding, Leaving
<1>u. ASSUME UNCHANGED <<parsed, routed, workerQ, offloadQ>>,
             co'.pc = "send" => co.pc = "send" /\ co'.packet = co.packet
      PROVE  Quiet
  BY <1>q, <1>u DEF QuietQ
<1>1. CASE CoordDrainDue \/ CoordDrained \/ CoordCollected \/ CoordJoin \/ CoordEnd
  <2>1. UNCHANGED <<parsed, routed, workerQ, offloadQ>>
    BY <1>1 DEF CoordDrainDue, CoordDrained, CoordCollected, CoordJoin, CoordEnd
  <2>2. co'.pc = "send" => co.pc = "send" /\ co'.packet = co.packet
    BY <1>1, <1>a DEF CoordDrainDue, CoordDrained, CoordCollected, CoordJoin, CoordEnd, CoRecord, ShardStage, Running
  <2> QED
    BY <1>u, <2>1, <2>2
<1>2. CASE CoordDrain \/ CoordCollect
  <2>1. UNCHANGED <<parsed, routed, workerQ, offloadQ>> /\ TakeMessage
    BY <1>2 DEF CoordDrain, CoordCollect
  <2>2. \/ co' = co
        \/ co' = [co EXCEPT !.failed = TRUE, !.draining = @ /\ ~ Running,
                            !.pc = IF Running THEN "shutdown" ELSE @, !.packet = <<>>]
        \/ \E n : co' = [co EXCEPT !.received = n]
    <3>1. CASE Head(outQ)[1] = "events"
      BY <3>1, <2>1 DEF TakeMessage
    <3>2. CASE Head(outQ)[1] # "events"
      <4>1. co' = [co EXCEPT !.received = IF ~ Running /\ Head(outQ)[1] = Final THEN @ + 1 ELSE @]
        BY <3>2, <2>1 DEF TakeMessage
      <4> QED
        BY <4>1
    <3> QED
      BY <3>1, <3>2
  <2>3. co'.pc = "send" => co.pc = "send" /\ co'.packet = co.packet
    BY <2>2, <1>a DEF CoRecord, Running
  <2> QED
    BY <1>u, <2>1, <2>3
<1>3. CASE CoordSend
  <2> DEFINE w == Shard[co.packet[2]]
  <2>1. co.packet \in Packets /\ co.pc = "send"
    BY <1>3, <1>a DEF CoordSend, CoState, CoRecord
  <2>2. /\ w \in Workers /\ co.packet \in Commands /\ workerQ[w] \in Channel(Commands, WorkerDepth)
        /\ WorkerDepth \in Nat
    BY <2>1, PipelineAssumption DEF Packets, Commands, TInv
  <2>3. CASE /\ WorkerLive(w) /\ Len(workerQ[w]) < WorkerDepth
             /\ workerQ' = [workerQ EXCEPT ![w] = Append(@, co.packet)]
             /\ routed' = [routed EXCEPT ![co.packet[2]] = @ + Len(co.packet[3])]
             /\ co' = [co EXCEPT !.pc = "source", !.packet = <<>>]
    <3>1. /\ workerQ'[w] = Append(workerQ[w], co.packet)
          /\ \A v \in Workers \ {w} : workerQ'[v] = workerQ[v]
      BY <2>3, <2>2 DEF TInv
    <3>2. Grown(workerQ[w], co.packet, workerQ'[w])
      BY <3>1, <2>2, <2>3, ChannelSteps
    <3>3. co'.pc = "source"
      BY <2>3, <1>a DEF CoRecord
    <3> QED
      BY <1>3, <1>a, <2>1, <2>3, <3>1, <3>2, <3>3 DEF CoordSend, Sends
  <2>4. CASE co' = [co EXCEPT !.draining = TRUE] /\ UNCHANGED <<workerQ, routed>>
    <3>1. co'.pc = co.pc /\ co'.packet = co.packet
      BY <2>4, <1>a DEF CoRecord
    <3> QED
      BY <1>3, <1>u, <2>4, <3>1 DEF CoordSend
  <2>5. CASE co' = [co EXCEPT !.pc = "shutdown", !.packet = <<>>, !.failed = TRUE] /\ UNCHANGED <<workerQ, routed>>
    <3>1. co'.pc # "send"
      BY <2>5, <1>a DEF CoRecord
    <3> QED
      BY <1>3, <1>u, <2>5, <3>1 DEF CoordSend
  <2> QED
    BY <1>3, <2>3, <2>4, <2>5 DEF CoordSend
<1>4. CASE CoordStopShard
  <2> DEFINE w == co.index
  <2>1. /\ w \in Workers /\ co.pc = "shutdown" /\ <<"shutdown">> \in Commands
        /\ workerQ[w] \in Channel(Commands, WorkerDepth) /\ WorkerDepth \in Nat
    <3>1. w \in Workers /\ co.pc = "shutdown" /\ <<"shutdown">> \in Commands
      BY <1>4, <1>a, PipelineAssumption DEF CoordStopShard, CoState, CoRecord, Workers, Commands
    <3> QED
      BY <3>1, PipelineAssumption DEF TInv
  <2>2. \/ workerQ' = workerQ
        \/ /\ WorkerLive(w) /\ Len(workerQ[w]) < WorkerDepth
           /\ workerQ' = [workerQ EXCEPT ![w] = Append(workerQ[w], <<"shutdown">>)]
    BY <1>4 DEF CoordStopShard
  <2>3. co'.pc # "send"
    BY <1>4, <2>1, <1>a DEF CoordStopShard, NextTarget, CoRecord
  <2>4. \A v \in Workers : QuietQ(workerQ[v], workerQ'[v], "packet")
                /\ (wk[v].pc = "done" => workerQ'[v] = workerQ[v])
    <3>1. CASE workerQ' = workerQ
      BY <3>1 DEF QuietQ
    <3>2. CASE /\ WorkerLive(w) /\ Len(workerQ[w]) < WorkerDepth
               /\ workerQ' = [workerQ EXCEPT ![w] = Append(workerQ[w], <<"shutdown">>)]
      <4>1. /\ workerQ'[w] = Append(workerQ[w], <<"shutdown">>)
            /\ \A v \in Workers \ {w} : workerQ'[v] = workerQ[v]
        BY <3>2, <2>1 DEF TInv
      <4>2. Grown(workerQ[w], <<"shutdown">>, workerQ'[w]) /\ wk[w].pc # "done"
        BY <4>1, <2>1, <3>2, ChannelSteps DEF WorkerLive, Stopped
      <4>3. \E x : Grown(workerQ[w], x, workerQ'[w]) /\ x[1] # "packet"
        <5>1. <<"shutdown">>[1] # "packet"
          OBVIOUS
        <5> QED
          BY <4>2, <5>1
      <4> QED
        BY <4>1, <4>2, <4>3 DEF QuietQ
    <3> QED
      BY <2>2, <3>1, <3>2
  <2>5. UNCHANGED <<parsed, routed, offloadQ>>
    BY <1>4 DEF CoordStopShard
  <2> QED
    BY <1>q, <2>3, <2>4, <2>5 DEF QuietQ
<1>5. CASE CoordStopOffload
  <2> DEFINE o == co.index
  <2>1. /\ o \in Offloads /\ co.pc = "offloadShutdown" /\ <<"shutdown">> \in Tasks
        /\ offloadQ[o] \in Channel(Tasks, OffloadDepth) /\ OffloadDepth \in Nat
    <3>1. o \in Offloads /\ co.pc = "offloadShutdown" /\ <<"shutdown">> \in Tasks
      BY <1>5, <1>a, PipelineAssumption DEF CoordStopOffload, CoState, CoRecord, Offloads, Tasks
    <3> QED
      BY <3>1, PipelineAssumption DEF TInv
  <2>2. \/ offloadQ' = offloadQ
        \/ /\ Len(offloadQ[o]) < OffloadDepth
           /\ offloadQ' = [offloadQ EXCEPT ![o] = Append(offloadQ[o], <<"shutdown">>)]
    BY <1>5 DEF CoordStopOffload
  <2>3. co'.pc # "send"
    BY <1>5, <2>1, <1>a DEF CoordStopOffload, NextTarget, CoRecord
  <2>4. \A p \in Offloads : QuietQ(offloadQ[p], offloadQ'[p], "task")
    <3>1. CASE offloadQ' = offloadQ
      BY <3>1 DEF QuietQ
    <3>2. CASE /\ Len(offloadQ[o]) < OffloadDepth
               /\ offloadQ' = [offloadQ EXCEPT ![o] = Append(offloadQ[o], <<"shutdown">>)]
      <4>1. /\ offloadQ'[o] = Append(offloadQ[o], <<"shutdown">>)
            /\ \A p \in Offloads \ {o} : offloadQ'[p] = offloadQ[p]
        BY <3>2, <2>1 DEF TInv
      <4>2. Grown(offloadQ[o], <<"shutdown">>, offloadQ'[o])
        BY <4>1, <2>1, <3>2, ChannelSteps
      <4>3. \E x : Grown(offloadQ[o], x, offloadQ'[o]) /\ x[1] # "task"
        <5>1. <<"shutdown">>[1] # "task"
          OBVIOUS
        <5> QED
          BY <4>2, <5>1
      <4> QED
        BY <4>1, <4>3 DEF QuietQ
    <3> QED
      BY <2>2, <3>1, <3>2
  <2>5. UNCHANGED <<parsed, routed, workerQ>>
    BY <1>5 DEF CoordStopOffload
  <2> QED
    BY <1>q, <2>3, <2>4, <2>5 DEF QuietQ
<1> QED
  BY <1>1, <1>2, <1>3, <1>4, <1>5 DEF CoordThread

\* Whatever a step does, it is one of these moves.
LEMMA StepMoves ==
    ASSUME TInv, [Next]_vars
    PROVE  \/ Quiet
           \/ \E w \in Workers : Unpacks(w) \/ ParsesHere(w) \/ Submits(w) \/ Drops(w)
           \/ \E o \in Offloads : ParsesTask(o)
           \/ \E f \in Flows, n \in ChunksPerPacket : Gets(f, n)
           \/ Sends
<1>u. ASSUME UNCHANGED <<policy, co, wk, workerQ, off, offloadQ, parsed, routed>>
      PROVE  Quiet
  BY <1>u, Unmoved DEF Quiet
<1>1. CASE UNCHANGED vars
  BY <1>1, <1>u DEF vars
<1>2. CASE \E w \in Workers : WorkerThread(w) \/ WorkerPanics(w) \/ WorkerSnapshot(w)
  BY <1>2, WorkerMoves
<1>3. CASE \E o \in Offloads : OffloadThread(o) \/ OffloadPanics(o) \/ OffloadSnapshot(o)
  BY <1>3, OffloadMoves
<1>4. CASE CoordThread \/ CoordEnd
  BY <1>4, CoordMoves
<1>5. ASSUME NEW f \in Flows, NEW n \in ChunksPerPacket, CoordPacket(f, n)
      PROVE  Gets(f, n)
  BY <1>5 DEF CoordPacket, Gets, TInv, CoState, CoRecord
<1>6. ASSUME NEW r \in Slices, SliceTimeout(r)
      PROVE  Quiet
  BY <1>6, <1>u DEF SliceTimeout
<1>7. ASSUME NEW r \in Slices, NEW w \in Workers, SliceAsk(r, w)
      PROVE  Quiet
  <2>1. UNCHANGED <<policy, co, wk, off, offloadQ, parsed, routed>>
    BY <1>7 DEF SliceAsk
  <2>2. \/ workerQ' = workerQ
        \/ /\ WorkerLive(w) /\ Len(workerQ[w]) < WorkerDepth
           /\ workerQ' = [workerQ EXCEPT ![w] = Append(workerQ[w], <<"slice", r>>)]
    BY <1>7 DEF SliceAsk
  <2>3. CASE /\ WorkerLive(w) /\ Len(workerQ[w]) < WorkerDepth
             /\ workerQ' = [workerQ EXCEPT ![w] = Append(workerQ[w], <<"slice", r>>)]
    <3>1. /\ workerQ'[w] = Append(workerQ[w], <<"slice", r>>)
          /\ \A v \in Workers \ {w} : workerQ'[v] = workerQ[v]
      BY <2>3 DEF TInv
    <3>2. /\ <<"slice", r>> \in Commands /\ workerQ[w] \in Channel(Commands, WorkerDepth) /\ WorkerDepth \in Nat
      BY PipelineAssumption DEF Commands, SliceCommands, TInv
    <3>3. Grown(workerQ[w], <<"slice", r>>, workerQ'[w])
      BY <3>1, <3>2, <2>3, ChannelSteps
    <3>4. QuietQ(workerQ[w], workerQ'[w], "packet")
      <4>1. <<"slice", r>>[1] # "packet"
        OBVIOUS
      <4> QED
        BY <4>1, <3>3 DEF QuietQ
    <3>5. QuietShard(w)
      BY <2>1, <2>3, <3>4 DEF QuietShard, Holding, Leaving, WorkerLive, Stopped
    <3> QED
      BY <2>1, <3>1, <3>5, Unmoved DEF Quiet
  <2> QED
    BY <1>u, <2>1, <2>2, <2>3
<1> QED
  BY <1>1, <1>2, <1>3, <1>4, <1>5, <1>6, <1>7 DEF Next, Ended

-----------------------------------------------------------------------------
(* What a move does to the chunks of one flow *)

All(f) == Tasked(f) \cup AtHand(f) \cup Waiting(f)

\* They go to another place, or are lost by the Drop policy or with a thread.
FlowMoved(f) ==
    /\ parsed'[f] = parsed[f] /\ routed'[f] = routed[f]
    /\ All(f)' \subseteq All(f)
    /\ Below(Tasked(f)', AtHand(f)' \cup Waiting(f)') /\ Below(AtHand(f)', Waiting(f)')
    /\ policy # "Drop" /\ NoDead' => All(f) \subseteq All(f)'
\* The first of them is parsed.
FlowParsed(f) == \E c :
    /\ Grown(parsed[f], c, parsed'[f]) /\ routed'[f] = routed[f]
    /\ c[3] \in Tasked(f) \cup AtHand(f)
    /\ Tasked(f)' \subseteq Tasked(f) /\ AtHand(f)' \subseteq AtHand(f) /\ Waiting(f)' \subseteq Waiting(f)
    /\ \A k \in All(f)' : c[3] < k
    /\ All(f) \subseteq All(f)' \cup {c[3]}
\* A packet brings the next ones.
FlowSent(f) == \E n \in Nat :
    /\ parsed'[f] = parsed[f] /\ routed'[f] = routed[f] + n
    /\ Tasked(f)' = Tasked(f) /\ AtHand(f)' = AtHand(f)
    /\ Waiting(f)' = Waiting(f) \cup ((routed[f] + 1) .. (routed[f] + n))

\* The moves keep the chunks of a flow in line.
LEMMA LinedMoves ==
    ASSUME NEW f \in Flows, routed[f] \in Nat,
           Lined(parsed[f], Tasked(f), AtHand(f), Waiting(f), routed[f]),
           FlowMoved(f) \/ FlowParsed(f) \/ FlowSent(f)
    PROVE  Lined(parsed[f], Tasked(f), AtHand(f), Waiting(f), routed[f])'
<1> DEFINE A == Tasked(f)    B == AtHand(f)    C == Waiting(f)    p == parsed[f]   r == routed[f]
           A2 == Tasked(f)'  B2 == AtHand(f)'  C2 == Waiting(f)'  p2 == parsed'[f] r2 == routed'[f]
<1> SUFFICES Lined(p2, A2, B2, C2, r2)
  BY DEF Lined, Below
<1> USE DEF All
<1>1. CASE FlowMoved(f)
  <2>1. /\ p2 = p /\ r2 = r /\ A2 \cup B2 \cup C2 \subseteq A \cup B \cup C
        /\ Below(A2, B2 \cup C2) /\ Below(B2, C2) /\ Lined(p, A, B, C, r)
    BY <1>1 DEF FlowMoved
  <2> HIDE DEF A, B, C, A2, B2, C2, p, p2, r, r2
  <2> QED
    BY <2>1 DEF Lined
<1>2. CASE FlowParsed(f)
  <2>1. PICK c : /\ Grown(p, c, p2) /\ r2 = r /\ c[3] \in A \cup B
                 /\ A2 \subseteq A /\ B2 \subseteq B /\ C2 \subseteq C
                 /\ \A k \in A2 \cup B2 \cup C2 : c[3] < k
    BY <1>2 DEF FlowParsed
  <2>2. Lined(p, A, B, C, r)
    OBVIOUS
  <2> HIDE DEF A, B, C, A2, B2, C2, p, p2, r, r2
  <2>3. /\ \A i \in 1 .. Len(p) : p2[i] = p[i]
        /\ \A i \in 1 .. Len(p2) : i \in 1 .. Len(p) \/ (i = Len(p) + 1 /\ p2[i] = c)
        /\ \A i, j \in 1 .. Len(p2) : i < j => i \in 1 .. Len(p)
    BY <2>1 DEF Grown
  <2>4. \A i, j \in 1 .. Len(p2) : i < j => p2[i][3] < p2[j][3]
    BY <2>1, <2>2, <2>3 DEF Lined
  <2>5. \A i \in 1 .. Len(p2) : p2[i][3] \in 1 .. r /\ \A k \in A2 \cup B2 \cup C2 : p2[i][3] < k
    BY <2>1, <2>2, <2>3 DEF Lined
  <2>6. /\ Below(A2, B2 \cup C2) /\ Below(B2, C2) /\ A2 \cup B2 \cup C2 \subseteq 1 .. r
    BY <2>1, <2>2 DEF Lined, Below
  <2> QED
    BY <2>1, <2>4, <2>5, <2>6 DEF Lined
<1>3. CASE FlowSent(f)
  <2>1. PICK n \in Nat : /\ p2 = p /\ r2 = r + n /\ A2 = A /\ B2 = B /\ C2 = C \cup ((r + 1) .. (r + n))
    BY <1>3 DEF FlowSent
  <2>2. Lined(p, A, B, C, r) /\ r \in Nat
    OBVIOUS
  <2> HIDE DEF A, B, C, A2, B2, C2, p, p2, r, r2
  <2>3. /\ \A k \in C2 : k \in C \/ (k \in Int /\ k > r /\ k <= r + n)
        /\ \A k \in A \cup B \cup C : k \in Nat /\ k >= 1 /\ k <= r
        /\ \A i \in 1 .. Len(p) : p[i][3] \in Nat /\ p[i][3] >= 1 /\ p[i][3] <= r
    BY <2>1, <2>2 DEF Lined
  <2>4. Below(A2, B2 \cup C2) /\ Below(B2, C2)
    BY <2>1, <2>2, <2>3 DEF Lined, Below
  <2>5. A2 \cup B2 \cup C2 \subseteq 1 .. r2
    BY <2>1, <2>2, <2>3
  <2>6. \A i \in 1 .. Len(p2) : p2[i][3] \in 1 .. r2 /\ \A k \in A2 \cup B2 \cup C2 : p2[i][3] < k
    BY <2>1, <2>2, <2>3 DEF Lined
  <2> QED
    BY <2>1, <2>2, <2>4, <2>5, <2>6 DEF Lined
<1> QED
  BY <1>1, <1>2, <1>3

\* The moves skip no number.
LEMMA CoveredMoves ==
    ASSUME NEW f \in Flows, routed[f] \in Nat, policy # "Drop", NoDead',
           Lined(parsed[f], Tasked(f), AtHand(f), Waiting(f), routed[f]),
           Covered(parsed[f], Tasked(f), AtHand(f), Waiting(f), routed[f]),
           FlowMoved(f) \/ FlowParsed(f) \/ FlowSent(f)
    PROVE  Covered(parsed[f], Tasked(f), AtHand(f), Waiting(f), routed[f])'
<1> DEFINE A == Tasked(f)    B == AtHand(f)    C == Waiting(f)    p == parsed[f]   r == routed[f]
           A2 == Tasked(f)'  B2 == AtHand(f)'  C2 == Waiting(f)'  p2 == parsed'[f] r2 == routed'[f]
<1> SUFFICES Covered(p2, A2, B2, C2, r2)
  BY DEF Covered
<1> USE DEF All
<1>1. CASE FlowMoved(f)
  <2>1. /\ p2 = p /\ r2 = r /\ A \cup B \cup C \subseteq A2 \cup B2 \cup C2 /\ Covered(p, A, B, C, r)
    BY <1>1 DEF FlowMoved
  <2> HIDE DEF A, B, C, A2, B2, C2, p, p2, r, r2
  <2> QED
    BY <2>1 DEF Covered
<1>2. CASE FlowParsed(f)
  <2>1. PICK c : /\ Grown(p, c, p2) /\ r2 = r /\ c[3] \in A \cup B
                 /\ \A k \in A2 \cup B2 \cup C2 : c[3] < k
                 /\ A \cup B \cup C \subseteq A2 \cup B2 \cup C2 \cup {c[3]}
    BY <1>2 DEF FlowParsed
  <2>2. Lined(p, A, B, C, r) /\ Covered(p, A, B, C, r) /\ r \in Nat
    OBVIOUS
  <2> HIDE DEF A, B, C, A2, B2, C2, p, p2, r, r2
  <2> DEFINE n == Len(p)
  <2>3. n \in Nat /\ Len(p2) = n + 1 /\ p2[n + 1] = c /\ \A i \in 1 .. n : p2[i] = p[i]
    BY <2>1 DEF Grown
  <2> HIDE DEF n
  <2>4. c[3] \in 1 .. r /\ \A i \in 1 .. n : p[i][3] = i /\ i < c[3]
    BY <2>1, <2>2 DEF Lined, Covered, n
  <2>5. c[3] >= n + 1
    <3>1. n = 0 \/ n \in 1 .. n
      BY <2>3
    <3> QED
      BY <2>3, <2>4, <3>1
  <2>6. n + 1 \in 1 .. r
    BY <2>3, <2>4, <2>5, <2>2
  <2>7. n + 1 \in A \cup B \cup C
    BY <2>2, <2>3, <2>6 DEF Covered, n
  <2>8. c[3] = n + 1
    <3>1. n + 1 = c[3] \/ c[3] < n + 1
      BY <2>1, <2>7
    <3> QED
      BY <2>3, <2>4, <2>5, <3>1
  <2>9. \A i \in 1 .. Len(p2) : p2[i][3] = i
    BY <2>3, <2>4, <2>8
  <2>10. \A k \in 1 .. r2 : k \in (1 .. Len(p2)) \cup A2 \cup B2 \cup C2
    <3> SUFFICES ASSUME NEW k \in 1 .. r
                 PROVE  k \in (1 .. (n + 1)) \cup A2 \cup B2 \cup C2
      BY <2>1, <2>3
    <3>1. k \in (1 .. n) \cup A \cup B \cup C
      BY <2>2 DEF Covered, n
    <3> QED
      BY <3>1, <2>1, <2>3, <2>8
  <2> QED
    BY <2>9, <2>10 DEF Covered
<1>3. CASE FlowSent(f)
  <2>1. PICK n \in Nat : /\ p2 = p /\ r2 = r + n /\ A2 = A /\ B2 = B /\ C2 = C \cup ((r + 1) .. (r + n))
    BY <1>3 DEF FlowSent
  <2>2. Covered(p, A, B, C, r) /\ r \in Nat
    OBVIOUS
  <2> HIDE DEF A, B, C, A2, B2, C2, p, p2, r, r2
  <2>3. \A k \in 1 .. r2 : k \in 1 .. r \/ k \in (r + 1) .. (r + n)
    BY <2>1, <2>2
  <2> QED
    BY <2>1, <2>2, <2>3 DEF Covered
<1> QED
  BY <1>1, <1>2, <1>3

-----------------------------------------------------------------------------
(* Every move keeps the queues sound and moves the chunks of a flow so *)

\* Commands that are no packets or tasks change no numbers.
LEMMA QuietQueues ==
    /\ \A w \in Workers : \A q, t : PacketsSound(q, w) /\ QuietQ(q, t, "packet") =>
            PacketsSound(t, w) /\ \A f : PacketsIn(t, f) = PacketsIn(q, f)
    /\ \A o \in Offloads : \A q, t : TasksSound(q, o) /\ QuietQ(q, t, "task") =>
            TasksSound(t, o) /\ \A f : TasksIn(t, f) = TasksIn(q, f)
<1>1. ASSUME NEW w \in Workers, NEW q, NEW t, PacketsSound(q, w), QuietQ(q, t, "packet")
      PROVE  PacketsSound(t, w) /\ \A f : PacketsIn(t, f) = PacketsIn(q, f)
  <2>1. CASE Dropped(q, t) /\ q[1][1] # "packet"
    BY <2>1, <1>1, PacketsDropped
  <2>2. ASSUME NEW x, Grown(q, x, t), x[1] # "packet"
        PROVE  PacketsSound(t, w) /\ \A f : PacketsIn(t, f) = PacketsIn(q, f)
    BY <2>2, <1>1, PacketsGrown
  <2> QED
    BY <1>1, <2>1, <2>2 DEF QuietQ
<1>2. ASSUME NEW o \in Offloads, NEW q, NEW t, TasksSound(q, o), QuietQ(q, t, "task")
      PROVE  TasksSound(t, o) /\ \A f : TasksIn(t, f) = TasksIn(q, f)
  <2>1. CASE Dropped(q, t) /\ q[1][1] # "task"
    BY <2>1, <1>2, TasksDropped
  <2>2. ASSUME NEW x, Grown(q, x, t), x[1] # "task"
        PROVE  TasksSound(t, o) /\ \A f : TasksIn(t, f) = TasksIn(q, f)
    BY <2>2, <1>2, TasksGrown
  <2> QED
    BY <1>2, <2>1, <2>2 DEF QuietQ
<1> QED
  BY <1>1, <1>2

\* A flow whose chunks stay where they are, or get lost.
LEMMA Kept ==
    ASSUME NEW f \in Flows, Lined(parsed[f], Tasked(f), AtHand(f), Waiting(f), routed[f]),
           parsed'[f] = parsed[f], routed'[f] = routed[f],
           Tasked(f)' \subseteq Tasked(f), AtHand(f)' \subseteq AtHand(f), Waiting(f)' \subseteq Waiting(f),
           policy # "Drop" /\ NoDead' =>
                Tasked(f)' = Tasked(f) /\ AtHand(f)' = AtHand(f) /\ Waiting(f)' = Waiting(f)
    PROVE  FlowMoved(f)
  BY DEF FlowMoved, Lined, Below, All

\* How TakenFirst carries over when a queue loses its head, or gets something else
\* than a packet.
LEMMA TakenMoves ==
    ASSUME NEW q, NEW t, QuietQ(q, t, "packet") \/ Dropped(q, t),
           \A i, j \in 1 .. Len(q) : i < j /\ q[i] = <<"shutdown">> => q[j][1] # "packet"
    PROVE  /\ \A i, j \in 1 .. Len(t) : i < j /\ t[i] = <<"shutdown">> => t[j][1] # "packet"
           /\ (\A i \in 1 .. Len(q) : q[i][1] # "packet") => \A i \in 1 .. Len(t) : t[i][1] # "packet"
           /\ Dropped(q, t) /\ q[1] = <<"shutdown">> => \A i \in 1 .. Len(t) : t[i][1] # "packet"
<1>1. CASE t = q
  BY <1>1 DEF Dropped
<1>2. CASE Dropped(q, t)
  <2>1. \A i \in 1 .. Len(t) : t[i] = q[i + 1]
    BY <1>2 DEF Dropped
  <2>2. \A i, j \in 1 .. Len(t) : i < j /\ t[i] = <<"shutdown">> => t[j][1] # "packet"
    <3> SUFFICES ASSUME NEW i \in 1 .. Len(t), NEW j \in 1 .. Len(t), i < j, t[i] = <<"shutdown">>
                 PROVE  t[j][1] # "packet"
      OBVIOUS
    <3>1. /\ i + 1 \in 1 .. Len(q) /\ j + 1 \in 1 .. Len(q) /\ i + 1 < j + 1
          /\ t[i] = q[i + 1] /\ t[j] = q[j + 1]
      BY <1>2, <2>1, Shift
    <3> QED
      BY <3>1
  <2>3. (\A i \in 1 .. Len(q) : q[i][1] # "packet") => \A i \in 1 .. Len(t) : t[i][1] # "packet"
    BY <1>2, <2>1, Shift
  <2>4. q[1] = <<"shutdown">> => \A i \in 1 .. Len(t) : t[i][1] # "packet"
    <3>1. \A i \in 1 .. Len(t) : 1 \in 1 .. Len(q) /\ i + 1 \in 1 .. Len(q) /\ 1 < i + 1 /\ t[i] = q[i + 1]
      BY <1>2, <2>1, Shift
    <3> QED
      BY <3>1
  <2> QED
    BY <2>2, <2>3, <2>4
<1>3. ASSUME NEW x, Grown(q, x, t), x[1] # "packet"
      PROVE  /\ \A i, j \in 1 .. Len(t) : i < j /\ t[i] = <<"shutdown">> => t[j][1] # "packet"
             /\ (\A i \in 1 .. Len(q) : q[i][1] # "packet") => \A i \in 1 .. Len(t) : t[i][1] # "packet"
             /\ ~ Dropped(q, t)
  BY <1>3 DEF Grown, Dropped
<1> QED
  BY <1>1, <1>2, <1>3 DEF QuietQ

\* A quiet step leaves all chunks where they are, or loses those of a thread that dies.
LEMMA MoveQuiet ==
    ASSUME Ordered, TakenFirst, Quiet
    PROVE  Sound' /\ TakenFirst' /\ \A f \in Flows : FlowMoved(f)
<1>1. ASSUME NEW w \in Workers
      PROVE  /\ HandSound(wk'[w].todo, w) /\ PacketsSound(workerQ'[w], w)
             /\ wk'[w].pc \notin Holding => wk'[w].todo = <<>>
             /\ \A f : ChunksIn(wk'[w].todo, f) = ChunksIn(wk[w].todo, f)
             /\ \A f : PacketsIn(workerQ'[w], f) \subseteq PacketsIn(workerQ[w], f)
             /\ wk'[w].pc # "dead" => \A f : PacketsIn(workerQ'[w], f) = PacketsIn(workerQ[w], f)
  <2>1. QuietShard(w) /\ HandSound(wk[w].todo, w) /\ PacketsSound(workerQ[w], w)
    BY DEF Quiet, Ordered, Sound
  <2>2. wk'[w].todo = wk[w].todo /\ (wk'[w].pc \notin Holding => wk'[w].todo = <<>>)
    BY <2>1 DEF QuietShard, Ordered, Sound
  <2>3. CASE QuietQ(workerQ[w], workerQ'[w], "packet")
    BY <2>1, <2>2, <2>3, QuietQueues
  <2>4. CASE workerQ'[w] = <<>> /\ (wk'[w].pc = "dead" \/ wk[w].pc = "report")
    <3>1. wk[w].pc = "report" => \A f : PacketsIn(workerQ[w], f) = {}
      <4> SUFFICES ASSUME wk[w].pc = "report", NEW f, NEW k \in PacketsIn(workerQ[w], f)
                   PROVE  FALSE
        OBVIOUS
      <4> QED
        BY InSets DEF TakenFirst, Leaving
    <3> QED
      BY <2>1, <2>2, <2>4, <3>1, EmptySound
  <2> QED
    BY <2>1, <2>3, <2>4 DEF QuietShard
<1>2. ASSUME NEW o \in Offloads
      PROVE  /\ TasksSound(offloadQ'[o], o)
             /\ \A f : TasksIn(offloadQ'[o], f) \subseteq TasksIn(offloadQ[o], f)
             /\ off'[o].pc # "dead" => \A f : TasksIn(offloadQ'[o], f) = TasksIn(offloadQ[o], f)
  <2>1. QuietOffload(o) /\ TasksSound(offloadQ[o], o)
    BY DEF Quiet, Ordered, Sound
  <2> QED
    BY <2>1, QuietQueues, EmptySound DEF QuietOffload
<1>3. Sound'
  <2>1. co'.pc = "send" =>
           \A i \in 1 .. Len(co'.packet[3]) : co'.packet[3][i] = <<co'.packet[2], routed'[co'.packet[2]] + i>>
    BY DEF Quiet, Ordered, Sound
  <2> QED
    BY <1>1, <1>2, <2>1 DEF Sound
<1>4. ASSUME NEW f \in Flows
      PROVE  FlowMoved(f)
  <2>1. Shard[f] \in Workers /\ (OffloadCount # 0 => OffloadShard[f] \in Offloads)
    BY PipelineAssumption
  <2>2. Lined(parsed[f], Tasked(f), AtHand(f), Waiting(f), routed[f])
    BY DEF Ordered
  <2>3. parsed'[f] = parsed[f] /\ routed'[f] = routed[f]
    BY DEF Quiet
  <2>4. AtHand(f)' = AtHand(f) /\ Waiting(f)' \subseteq Waiting(f) /\ (NoDead' => Waiting(f)' = Waiting(f))
    BY <2>1, <1>1 DEF AtHand, Waiting, NoDead
  <2>5. Tasked(f)' \subseteq Tasked(f) /\ (NoDead' => Tasked(f)' = Tasked(f))
    BY <2>1, <1>2 DEF Tasked, NoDead
  <2> QED
    BY <2>2, <2>3, <2>4, <2>5, Kept
<1>5. ASSUME NEW w \in Workers
      PROVE  /\ wk'[w].pc \in Leaving => \A i \in 1 .. Len(workerQ'[w]) : workerQ'[w][i][1] # "packet"
             /\ wk'[w].pc = "done" => workerQ'[w] = <<>>
             /\ \A i, j \in 1 .. Len(workerQ'[w]) :
                    i < j /\ workerQ'[w][i] = <<"shutdown">> => workerQ'[w][j][1] # "packet"
  <2>1. QuietShard(w)
    BY DEF Quiet
  <2>2. Len(<<>>) = 0 /\ 1 .. 0 = {}
    OBVIOUS
  <2>3. CASE workerQ'[w] = <<>>
    BY <2>2, <2>3
  <2>4. CASE QuietQ(workerQ[w], workerQ'[w], "packet")
    <3> DEFINE q == workerQ[w]
               t == workerQ'[w]
    <3>1. /\ QuietQ(q, t, "packet")
          /\ \A i, j \in 1 .. Len(q) : i < j /\ q[i] = <<"shutdown">> => q[j][1] # "packet"
      BY <2>4 DEF TakenFirst
    <3>2. /\ wk[w].pc \in Leaving => \A i \in 1 .. Len(q) : q[i][1] # "packet"
          /\ wk'[w].pc \in Leaving => wk[w].pc \in Leaving \/ (Dropped(q, t) /\ q[1] = <<"shutdown">>)
          /\ wk'[w].pc = "done" => t = <<>> \/ (q = <<>> /\ t = q)
      BY <2>1 DEF QuietShard, TakenFirst
    <3> HIDE DEF q, t
    <3>3. /\ \A i, j \in 1 .. Len(t) : i < j /\ t[i] = <<"shutdown">> => t[j][1] # "packet"
          /\ (\A i \in 1 .. Len(q) : q[i][1] # "packet") => \A i \in 1 .. Len(t) : t[i][1] # "packet"
          /\ Dropped(q, t) /\ q[1] = <<"shutdown">> => \A i \in 1 .. Len(t) : t[i][1] # "packet"
      BY <3>1, TakenMoves
    <3> QED
      BY <3>2, <3>3 DEF t
  <2> QED
    BY <2>1, <2>3, <2>4 DEF QuietShard
<1> QED
  BY <1>3, <1>4, <1>5 DEF TakenFirst

\* The chunks of a packet go from waiting to at hand.
LEMMA MoveUnpacks ==
    ASSUME Ordered, TakenFirst, NEW w \in Workers, Unpacks(w)
    PROVE  Sound' /\ TakenFirst' /\ \A f \in Flows : FlowMoved(f)
<1> DEFINE q == workerQ[w]
           t == workerQ'[w]
<1>1. /\ HandSound(wk'[w].todo, w) /\ PacketsSound(t, w)
      /\ wk'[w].pc \notin Holding => wk'[w].todo = <<>>
      /\ wk'[w].todo = q[1][3] /\ wk[w].todo = <<>>
      /\ \A f \in Flows : Below(ChunksIn(q[1][3], f), PacketsIn(t, f))
      /\ \A f : PacketsIn(q, f) = ChunksIn(q[1][3], f) \cup PacketsIn(t, f)
  <2>1. /\ Dropped(q, t) /\ q[1][1] = "packet" /\ PacketsSound(q, w)
        /\ wk'[w].todo = q[1][3] /\ wk[w].todo = <<>>
        /\ wk'[w].pc \notin Holding => wk'[w].todo = <<>>
    BY DEF Unpacks, Ordered, Sound, Holding
  <2> HIDE DEF q, t
  <2> QED
    BY <2>1, PacketsDropped
<1>2. \A v \in Workers \ {w} : wk'[v] = wk[v] /\ workerQ'[v] = workerQ[v]
  BY DEF Unpacks
<1>3. UNCHANGED <<policy, co, offloadQ, off, parsed, routed>>
  BY DEF Unpacks
<1>4. Sound'
  BY <1>1, <1>2, <1>3 DEF Sound, Ordered
<1>5. ASSUME NEW f \in Flows
      PROVE  FlowMoved(f)
  <2>1. Lined(parsed[f], Tasked(f), AtHand(f), Waiting(f), routed[f])
    BY DEF Ordered
  <2>2. Tasked(f)' = Tasked(f) /\ parsed'[f] = parsed[f] /\ routed'[f] = routed[f]
    BY <1>3 DEF Tasked
  <2>3. CASE Shard[f] = w
    <3>1. /\ AtHand(f) = {} /\ Waiting(f) = AtHand(f)' \cup Waiting(f)' /\ Below(AtHand(f)', Waiting(f)')
      BY <1>1, <2>3, EmptySound DEF AtHand, Waiting
    <3> QED
      BY <2>1, <2>2, <3>1 DEF FlowMoved, All, Lined
  <2>4. CASE Shard[f] # w
    <3>1. AtHand(f)' = AtHand(f) /\ Waiting(f)' = Waiting(f)
      BY <1>2, <2>4, PipelineAssumption DEF AtHand, Waiting
    <3> QED
      BY <2>1, <2>2, <3>1, Kept
  <2> QED
    BY <2>3, <2>4
<1>6. TakenFirst'
  <2>1. Dropped(q, t) /\ wk'[w].pc \notin Leaving
    BY DEF Unpacks, Leaving
  <2>2. \A i, j \in 1 .. Len(t) : i < j /\ t[i] = <<"shutdown">> => t[j][1] # "packet"
    <3>1. \A i, j \in 1 .. Len(q) : i < j /\ q[i] = <<"shutdown">> => q[j][1] # "packet"
      BY DEF TakenFirst
    <3> HIDE DEF q, t
    <3> QED
      BY <2>1, <3>1, TakenMoves
  <2> QED
    BY <2>1, <2>2, <1>2 DEF TakenFirst, Leaving
<1> QED
  BY <1>4, <1>5, <1>6

\* A shard that is done with its chunk: what its other chunks become.
LEMMA MovePasses ==
    ASSUME TInv, Ordered, TakenFirst, NEW w \in Workers, NEW table, Passes(w, table),
           NEW c, c = wk[w].todo[1]
    PROVE  /\ c \in Chunks /\ c[1] \in Flows /\ Shard[c[1]] = w /\ c[2] \in AtHand(c[1])
           /\ \A v \in Workers : /\ HandSound(wk'[v].todo, v) /\ PacketsSound(workerQ'[v], v)
                                 /\ wk'[v].pc \notin Holding => wk'[v].todo = <<>>
           /\ TakenFirst'
           /\ \A f \in Flows : /\ AtHand(f)' \subseteq AtHand(f) /\ Waiting(f)' = Waiting(f)
                               /\ routed'[f] = routed[f]
                               /\ f # c[1] => AtHand(f)' = AtHand(f)
           /\ \A k \in AtHand(c[1])' : c[2] < k
           /\ AtHand(c[1]) \subseteq AtHand(c[1])' \cup {c[2]}
<1> DEFINE s == wk[w].todo
           t == wk'[w].todo
<1>c. c = s[1]
  OBVIOUS
<1>1. /\ Dropped(s, t) /\ HandSound(s, w) /\ (wk'[w].pc \notin Holding => t = <<>>) /\ wk'[w].pc \notin Leaving
      /\ \A v \in Workers \ {w} : wk'[v] = wk[v]
      /\ UNCHANGED <<workerQ, routed>>
  BY DEF Passes, Ordered, Sound, Holding, Leaving
<1>2. c \in Chunks /\ c[1] \in Flows
  <2>1. s \in Seq(Chunks) /\ 1 \in 1 .. Len(s)
    BY <1>1, WorkerHas DEF Dropped, WkState, WkRecord
  <2>2. c \in Chunks
    BY <1>c, <2>1, ElementOfSeq
  <2> QED
    BY <2>2 DEF Chunks
<1>3. /\ HandSound(t, w) /\ Shard[c[1]] = w
      /\ \A f : \A k \in ChunksIn(t, f) : k \in ChunksIn(s, f) /\ (f = c[1] => c[2] < k)
      /\ \A f : \A k \in ChunksIn(s, f) : k \in ChunksIn(t, f) \/ (f = c[1] /\ k = c[2])
      /\ c[2] \in ChunksIn(s, c[1])
  <2> HIDE DEF s, t
  <2> QED
    BY <1>1, <1>c, HandDropped
<1>4. \A v \in Workers : /\ HandSound(wk'[v].todo, v) /\ PacketsSound(workerQ'[v], v)
                         /\ wk'[v].pc \notin Holding => wk'[v].todo = <<>>
  BY <1>1, <1>3 DEF Ordered, Sound
<1>5. TakenFirst'
  BY <1>1 DEF TakenFirst, Leaving
<1>6. ASSUME NEW f \in Flows
      PROVE  /\ AtHand(f)' \subseteq AtHand(f) /\ Waiting(f)' = Waiting(f)
             /\ routed'[f] = routed[f]
             /\ f # c[1] => AtHand(f)' = AtHand(f)
  <2>1. CASE Shard[f] = w
    <3>1. AtHand(f) = ChunksIn(s, f) /\ AtHand(f)' = ChunksIn(t, f)
      BY <2>1 DEF AtHand
    <3>2. AtHand(f)' \subseteq AtHand(f) /\ (f # c[1] => AtHand(f) \subseteq AtHand(f)')
      <4> HIDE DEF s, t
      <4> QED
        BY <3>1, <1>3
    <3> QED
      BY <3>2, <1>1 DEF Waiting
  <2>2. CASE Shard[f] # w
    BY <2>2, <1>1, PipelineAssumption DEF AtHand, Waiting
  <2> QED
    BY <2>1, <2>2
<1>7. AtHand(c[1]) = ChunksIn(s, c[1]) /\ AtHand(c[1])' = ChunksIn(t, c[1])
  BY <1>3 DEF AtHand
<1>8. /\ c[2] \in AtHand(c[1]) /\ \A k \in AtHand(c[1])' : c[2] < k
      /\ AtHand(c[1]) \subseteq AtHand(c[1])' \cup {c[2]}
  <2> HIDE DEF s, t
  <2> QED
    BY <1>3, <1>7
<1> QED
  BY <1>2, <1>3, <1>4, <1>5, <1>6, <1>8

\* A chunk parsed by the shard goes from at hand to parsed: the flow has no task.
LEMMA MoveParsesHere ==
    ASSUME TInv, Ordered, Placed, TakenFirst, NEW w \in Workers, ParsesHere(w)
    PROVE  Sound' /\ TakenFirst' /\ \A f \in Flows : FlowMoved(f) \/ FlowParsed(f)
<1>c. PICK c : c = wk[w].todo[1]
  OBVIOUS
<1> DEFINE call == <<"shard", w, c[2]>>
<1>1. /\ \E table : Passes(w, table)
      /\ parsed' = [parsed EXCEPT ![c[1]] = Append(@, call)]
      /\ offloadQ' = offloadQ /\ policy' = policy /\ co' = co /\ routed' = routed
  BY <1>c DEF ParsesHere, Passes
<1>2. /\ c \in Chunks /\ c[1] \in Flows /\ Shard[c[1]] = w /\ c[2] \in AtHand(c[1])
      /\ \A v \in Workers : /\ HandSound(wk'[v].todo, v) /\ PacketsSound(workerQ'[v], v)
                            /\ wk'[v].pc \notin Holding => wk'[v].todo = <<>>
      /\ TakenFirst'
      /\ \A f \in Flows : /\ AtHand(f)' \subseteq AtHand(f) /\ Waiting(f)' = Waiting(f)
                          /\ routed'[f] = routed[f]
                          /\ f # c[1] => AtHand(f)' = AtHand(f)
      /\ \A k \in AtHand(c[1])' : c[2] < k
      /\ AtHand(c[1]) \subseteq AtHand(c[1])' \cup {c[2]}
  BY <1>1, <1>c, MovePasses
<1>3. \A f \in Flows : Tasked(f)' = Tasked(f)
  BY <1>1 DEF Tasked
<1>4. Sound'
  BY <1>1, <1>2 DEF Sound, Ordered
<1>5. Tasked(c[1]) = {}
  <2>1. CASE OffloadCount = 0
    BY <2>1 DEF Tasked
  <2>2. CASE OffloadCount # 0
    <3>1. "Local" \in Place(c[1]) \/ (policy = "Inline" /\ "Offloaded" \notin Place(c[1]))
      BY <2>2, <1>2, <1>c DEF ParsesHere, Place
    <3>2. "Local" \in Place(c[1]) \/ Place(c[1]) = {} \/ "Offloaded" \in Place(c[1])
      <4>1. wk[w].placement \in Seq(Flows \X Places)
        BY WorkerHas DEF WkState, WkRecord, Channel
      <4>2. \A x \in ToSet(wk[w].placement) : x[2] \in Places
        BY <4>1, ElementOfSeq DEF ToSet
      <4> QED
        BY <4>2, <1>2 DEF Place, PlacementOf, Places
    <3> QED
      BY <2>2, <3>1, <3>2, <1>2 DEF Placed, FlowPlaced
  <2> QED
    BY <2>1, <2>2
<1>6. ASSUME NEW f \in Flows, f # c[1]
      PROVE  FlowMoved(f)
  <2>1. parsed'[f] = parsed[f]
    BY <1>1, <1>6 DEF TInv
  <2> QED
    BY <2>1, <1>2, <1>3, <1>6, Kept DEF Ordered
<1>7. FlowParsed(c[1])
  <2> DEFINE f == c[1]
  <2>1. Grown(parsed[f], call, parsed'[f])
    <3>1. parsed'[f] = Append(parsed[f], call) /\ parsed[f] \in Seq(Calls)
      BY <1>1, <1>2 DEF TInv
    <3>2. call \in Calls
      BY <1>2 DEF Calls, Chunks
    <3> HIDE DEF f, call
    <3> QED
      BY <3>1, <3>2, AppendProperties, LenProperties DEF Grown
  <2>2. Lined(parsed[f], Tasked(f), AtHand(f), Waiting(f), routed[f])
    BY <1>2 DEF Ordered
  <2>3. call[3] = c[2]
    OBVIOUS
  <2>4. \A k \in Waiting(f) : c[2] < k
    BY <2>2, <1>2 DEF Lined, Below
  <2> HIDE DEF call, f
  <2>5. /\ f \in Flows /\ call[3] \in Tasked(f) \cup AtHand(f)
        /\ routed'[f] = routed[f]
        /\ Tasked(f)' \subseteq Tasked(f) /\ AtHand(f)' \subseteq AtHand(f) /\ Waiting(f)' \subseteq Waiting(f)
        /\ \A k \in All(f)' : call[3] < k
        /\ All(f) \subseteq All(f)' \cup {call[3]}
    BY <1>2, <1>3, <1>5, <2>3, <2>4 DEF All, f
  <2> QED
    BY <2>1, <2>5 DEF FlowParsed, f
<1> QED
  BY <1>2, <1>4, <1>6, <1>7

\* A submitted chunk goes from at hand to the tasks.
LEMMA MoveSubmits ==
    ASSUME TInv, Ordered, TakenFirst, NEW w \in Workers, Submits(w)
    PROVE  Sound' /\ TakenFirst' /\ \A f \in Flows : FlowMoved(f)
<1>c. PICK c : c = wk[w].todo[1]
  OBVIOUS
<1>1. /\ \E table : Passes(w, table)
      /\ OffloadCount > 0 /\ parsed' = parsed /\ co' = co /\ routed' = routed
  BY <1>c DEF Submits, Passes
<1>2. /\ c \in Chunks /\ c[1] \in Flows /\ Shard[c[1]] = w /\ c[2] \in AtHand(c[1])
      /\ \A v \in Workers : /\ HandSound(wk'[v].todo, v) /\ PacketsSound(workerQ'[v], v)
                            /\ wk'[v].pc \notin Holding => wk'[v].todo = <<>>
      /\ TakenFirst'
      /\ \A f \in Flows : /\ AtHand(f)' \subseteq AtHand(f) /\ Waiting(f)' = Waiting(f)
                          /\ routed'[f] = routed[f]
                          /\ f # c[1] => AtHand(f)' = AtHand(f)
      /\ \A k \in AtHand(c[1])' : c[2] < k
      /\ AtHand(c[1]) \subseteq AtHand(c[1])' \cup {c[2]}
  BY <1>1, <1>c, MovePasses
<1> DEFINE o == OffloadShard[c[1]]
           task == <<"task", c>>
<1>3. /\ o \in Offloads /\ Grown(offloadQ[o], task, offloadQ'[o])
      /\ \A p \in Offloads \ {o} : offloadQ'[p] = offloadQ[p]
  BY <1>1, <1>2, <1>c, PipelineAssumption DEF Submits
<1>4. /\ TasksSound(offloadQ[o], o) /\ Tasked(c[1]) = TasksIn(offloadQ[o], c[1])
      /\ \A f \in Flows : Tasked(f) = TasksIn(offloadQ[OffloadShard[f]], f)
      /\ \A f \in Flows : Tasked(f)' = TasksIn(offloadQ'[OffloadShard[f]], f)
      /\ \A f \in Flows : OffloadShard[f] \in Offloads
  BY <1>1, <1>2, <1>3, PipelineAssumption DEF Tasked, Ordered, Sound
<1>5. \A k \in Tasked(c[1]) : k < c[2]
  BY <1>2 DEF Ordered, Lined, Below
<1>6. /\ TasksSound(offloadQ'[o], o)
      /\ \A f : TasksIn(offloadQ'[o], f) = IF f = c[1] THEN TasksIn(offloadQ[o], f) \cup {c[2]}
                                           ELSE TasksIn(offloadQ[o], f)
  <2>1. task[1] = "task" /\ task[2] = c
    OBVIOUS
  <2> HIDE DEF task
  <2>2. OffloadShard[task[2][1]] = o /\ \A k \in TasksIn(offloadQ[o], task[2][1]) : k < task[2][2]
    BY <2>1, <1>4, <1>5
  <2>3. Grown(offloadQ[o], task, offloadQ'[o]) /\ TasksSound(offloadQ[o], o) /\ o \in Offloads
    BY <1>1, <1>2, <1>3, <1>4
  <2> HIDE DEF o
  <2>4. /\ TasksSound(offloadQ'[o], o)
        /\ \A f : TasksIn(offloadQ'[o], f) =
                IF f = task[2][1] THEN TasksIn(offloadQ[o], f) \cup {task[2][2]} ELSE TasksIn(offloadQ[o], f)
    BY <2>1, <2>2, <2>3, TasksGrown
  <2> QED
    BY <2>1, <2>4
<1>7. Sound'
  BY <1>1, <1>2, <1>3, <1>6 DEF Sound, Ordered
<1>8. ASSUME NEW f \in Flows, f # c[1]
      PROVE  FlowMoved(f)
  <2>1. Tasked(f)' = Tasked(f)
    <3>1. /\ Tasked(f) = TasksIn(offloadQ[OffloadShard[f]], f) /\ OffloadShard[f] \in Offloads
          /\ Tasked(f)' = TasksIn(offloadQ'[OffloadShard[f]], f)
      BY <1>4
    <3>2. CASE OffloadShard[f] = o
      <4>1. TasksIn(offloadQ'[o], f) = TasksIn(offloadQ[o], f)
        BY <1>6, <1>8
      <4> QED
        BY <3>1, <3>2, <4>1
    <3>3. CASE OffloadShard[f] # o
      BY <1>3, <3>1, <3>3
    <3> QED
      BY <3>2, <3>3
  <2> QED
    BY <2>1, <1>1, <1>2, <1>8, Kept DEF Ordered
<1>9. FlowMoved(c[1])
  <2>1. Tasked(c[1])' = Tasked(c[1]) \cup {c[2]}
    BY <1>2, <1>4, <1>6
  <2>2. Lined(parsed[c[1]], Tasked(c[1]), AtHand(c[1]), Waiting(c[1]), routed[c[1]])
    BY <1>2 DEF Ordered
  <2>3. parsed'[c[1]] = parsed[c[1]] /\ routed'[c[1]] = routed[c[1]]
    BY <1>1
  <2>4. All(c[1])' \subseteq All(c[1]) /\ All(c[1]) \subseteq All(c[1])'
    BY <2>1, <1>2 DEF All
  <2>5. Below(Tasked(c[1])', AtHand(c[1])' \cup Waiting(c[1])') /\ Below(AtHand(c[1])', Waiting(c[1])')
    BY <2>1, <2>2, <1>2 DEF Lined, Below
  <2> QED
    BY <2>3, <2>4, <2>5 DEF FlowMoved
<1> QED
  BY <1>2, <1>7, <1>8, <1>9

\* A dropped chunk is lost, under the Drop policy only.
LEMMA MoveDrops ==
    ASSUME TInv, Ordered, TakenFirst, NEW w \in Workers, Drops(w)
    PROVE  Sound' /\ TakenFirst' /\ \A f \in Flows : FlowMoved(f)
<1>c. PICK c : c = wk[w].todo[1]
  OBVIOUS
<1>1. /\ \E table : Passes(w, table)
      /\ parsed' = parsed /\ co' = co /\ routed' = routed /\ offloadQ' = offloadQ /\ policy = "Drop"
  BY <1>c DEF Drops, Passes
<1>2. /\ \A v \in Workers : /\ HandSound(wk'[v].todo, v) /\ PacketsSound(workerQ'[v], v)
                            /\ wk'[v].pc \notin Holding => wk'[v].todo = <<>>
      /\ TakenFirst'
      /\ \A f \in Flows : AtHand(f)' \subseteq AtHand(f) /\ Waiting(f)' = Waiting(f) /\ routed'[f] = routed[f]
  BY <1>1, <1>c, MovePasses
<1>3. Sound'
  BY <1>1, <1>2 DEF Sound, Ordered
<1>4. ASSUME NEW f \in Flows
      PROVE  FlowMoved(f)
  BY <1>1, <1>2, Kept DEF Ordered, Tasked
<1> QED
  BY <1>2, <1>3, <1>4

\* A chunk parsed by an offload worker goes from the tasks to parsed.
LEMMA MoveParsesTask ==
    ASSUME TInv, Ordered, TakenFirst, NEW o \in Offloads, ParsesTask(o)
    PROVE  Sound' /\ TakenFirst' /\ \A f \in Flows : FlowMoved(f) \/ FlowParsed(f)
<1>c. PICK c : c = offloadQ[o][1][2]
  OBVIOUS
<1> DEFINE call == <<"offload", o, c[2]>>
           q == offloadQ[o]
           t == offloadQ'[o]
<1>1. /\ q[1][1] = "task" /\ q[1][2] = c /\ Dropped(q, t)
      /\ parsed' = [parsed EXCEPT ![c[1]] = Append(@, call)]
      /\ \A p \in Offloads \ {o} : offloadQ'[p] = offloadQ[p]
      /\ UNCHANGED <<policy, co, wk, workerQ, routed>>
  BY <1>c DEF ParsesTask
<1>2. c \in Chunks /\ c[1] \in Flows
  <2>1. q \in Seq(Tasks) /\ 1 \in 1 .. Len(q)
    BY <1>1 DEF Dropped, TInv, Channel
  <2>2. q[1] \in Tasks
    BY <2>1, ElementOfSeq
  <2>3. c \in Chunks
    BY <2>2, <1>1, Kinds
  <2> QED
    BY <2>3 DEF Chunks
<1>3. OffloadCount # 0 /\ \A f \in Flows : OffloadShard[f] \in Offloads
  BY PipelineAssumption DEF Offloads
<1>4. /\ TasksSound(t, o) /\ OffloadShard[c[1]] = o
      /\ \A f : TasksIn(t, f) \subseteq TasksIn(q, f)
      /\ \A f : \A k \in TasksIn(t, f) : f = c[1] => c[2] < k
      /\ \A f : \A k \in TasksIn(q, f) : k \in TasksIn(t, f) \/ (f = c[1] /\ k = c[2])
      /\ c[2] \in TasksIn(q, c[1])
  <2>1. TasksSound(q, o)
    BY DEF Ordered, Sound
  <2> HIDE DEF q, t
  <2> QED
    BY <2>1, <1>1, TasksDropped
<1>5. Sound'
  BY <1>1, <1>4 DEF Sound, Ordered
<1>6. TakenFirst'
  BY <1>1 DEF TakenFirst
<1>7. \A f \in Flows : AtHand(f)' = AtHand(f) /\ Waiting(f)' = Waiting(f) /\ routed'[f] = routed[f]
  BY <1>1 DEF AtHand, Waiting
<1>8. \A f \in Flows : /\ Tasked(f) = TasksIn(offloadQ[OffloadShard[f]], f)
                       /\ Tasked(f)' = TasksIn(offloadQ'[OffloadShard[f]], f)
  BY <1>3 DEF Tasked
<1>9. ASSUME NEW f \in Flows, f # c[1]
      PROVE  FlowMoved(f)
  <2>1. parsed'[f] = parsed[f]
    BY <1>1, <1>9 DEF TInv
  <2>2. Tasked(f)' = Tasked(f)
    <3>1. CASE OffloadShard[f] = o
      <4>1. TasksIn(q, f) \subseteq TasksIn(t, f) /\ TasksIn(t, f) \subseteq TasksIn(q, f)
        BY <1>4, <1>9
      <4>2. TasksIn(t, f) = TasksIn(q, f)
        BY <4>1
      <4>3. Tasked(f) = TasksIn(q, f) /\ Tasked(f)' = TasksIn(t, f)
        BY <3>1, <1>8
      <4> QED
        BY <4>2, <4>3
    <3>2. CASE OffloadShard[f] # o
      BY <3>2, <1>1, <1>3, <1>8
    <3> QED
      BY <3>1, <3>2
  <2> QED
    BY <2>1, <2>2, <1>7, Kept DEF Ordered
<1>10. FlowParsed(c[1])
  <2> DEFINE f == c[1]
  <2>1. Grown(parsed[f], call, parsed'[f])
    <3>1. parsed'[f] = Append(parsed[f], call) /\ parsed[f] \in Seq(Calls)
      BY <1>1, <1>2 DEF TInv
    <3>2. call \in Calls
      BY <1>2 DEF Calls, Chunks
    <3> HIDE DEF f, call
    <3> QED
      BY <3>1, <3>2, AppendProperties, LenProperties DEF Grown
  <2>2. Lined(parsed[f], Tasked(f), AtHand(f), Waiting(f), routed[f])
    BY <1>2 DEF Ordered
  <2>3. call[3] = c[2]
    OBVIOUS
  <2>4. Tasked(f) = TasksIn(q, f) /\ Tasked(f)' = TasksIn(t, f)
    BY <1>2, <1>4, <1>8
  <2> HIDE DEF call, q, t
  <2>5. \A k \in AtHand(f) \cup Waiting(f) : c[2] < k
    BY <2>2, <2>4, <1>4 DEF Lined, Below
  <2>6. /\ call[3] \in Tasked(f) \cup AtHand(f)
        /\ Tasked(f)' \subseteq Tasked(f) /\ AtHand(f)' \subseteq AtHand(f) /\ Waiting(f)' \subseteq Waiting(f)
        /\ routed'[f] = routed[f]
    BY <1>2, <1>4, <1>7, <2>3, <2>4
  <2>7. /\ \A k \in All(f)' : call[3] < k
        /\ All(f) \subseteq All(f)' \cup {call[3]}
    BY <1>2, <1>4, <1>7, <2>3, <2>4, <2>5 DEF All
  <2> HIDE DEF f
  <2> QED
    BY <2>1, <2>6, <2>7 DEF FlowParsed, f
<1> QED
  BY <1>2, <1>5, <1>6, <1>9, <1>10

\* The packet of the source carries the next numbers of its flow.
LEMMA MoveGets ==
    ASSUME TInv, Ordered, TakenFirst, NEW g \in Flows, NEW n \in ChunksPerPacket, Gets(g, n)
    PROVE  Sound' /\ TakenFirst' /\ \A f \in Flows : FlowMoved(f)
<1>1. UNCHANGED <<wk, workerQ, off, offloadQ, parsed, routed>>
  BY DEF Gets
<1>2. Sound'
  <2> DEFINE chunks == [i \in 1 .. n |-> <<g, routed[g] + i>>]
  <2>1. n \in Nat /\ Len(chunks) = n
    BY PipelineAssumption
  <2>2. co'.packet = <<"packet", g, chunks>>
    BY DEF Gets
  <2>3. \A i \in 1 .. Len(co'.packet[3]) : co'.packet[3][i] = <<co'.packet[2], routed'[co'.packet[2]] + i>>
    BY <1>1, <2>1, <2>2
  <2> QED
    BY <1>1, <2>3 DEF Sound, Ordered
<1>3. TakenFirst'
  BY <1>1 DEF TakenFirst
<1>4. \A f \in Flows : FlowMoved(f)
  BY <1>1, Kept DEF Ordered, Tasked, AtHand, Waiting
<1> QED
  BY <1>2, <1>3, <1>4

\* The packet is put behind all that waits of its flow.
LEMMA MoveSends ==
    ASSUME TInv, Staged, Ordered, TakenFirst, Sends
    PROVE  Sound' /\ TakenFirst' /\ \A f \in Flows : FlowMoved(f) \/ FlowSent(f)
<1>c. PICK p, g : p = co.packet /\ g = co.packet[2]
  OBVIOUS
<1> DEFINE w == Shard[g]
           q == workerQ[w]
           t == workerQ'[w]
           n == Len(p[3])
<1>1. /\ p[1] = "packet" /\ p[2] = g /\ g \in Flows /\ w \in Workers /\ n \in Nat
      /\ \A i \in 1 .. n : p[3][i] = <<g, routed[g] + i>>
  <2>1. co.packet \in Packets /\ co.pc = "send"
    BY DEF Sends, TInv, CoState, CoRecord
  <2>2. p[1] = "packet" /\ g \in Flows /\ p[3] \in Seq(Chunks)
    BY <1>c, <2>1 DEF Packets
  <2> QED
    BY <1>c, <2>1, <2>2, LenProperties, PipelineAssumption DEF Ordered, Sound
<1>2. /\ Grown(q, p, t) /\ \A v \in Workers \ {w} : workerQ'[v] = workerQ[v]
      /\ routed' = [routed EXCEPT ![g] = routed[g] + n]
      /\ UNCHANGED <<policy, wk, off, offloadQ, parsed>>
      /\ WorkerLive(w) /\ co.pc = "send" /\ co'.pc # "send"
  BY <1>c DEF Sends
<1>3. routed[g] \in Nat /\ routed'[g] = routed[g] + n /\ \A f \in Flows \ {g} : routed'[f] = routed[f]
  BY <1>1, <1>2 DEF TInv
<1>4. \A f : ChunksIn(p[3], f) = IF f = g THEN (routed[g] + 1) .. (routed[g] + n) ELSE {}
  <2> SUFFICES ASSUME NEW f
               PROVE  ChunksIn(p[3], f) = IF f = g THEN (routed[g] + 1) .. (routed[g] + n) ELSE {}
    OBVIOUS
  <2>1. \A i \in 1 .. n : p[3][i][1] = g /\ p[3][i][2] = routed[g] + i
    BY <1>1
  <2>2. \A k : k \in ChunksIn(p[3], f) <=> \E i \in 1 .. n : p[3][i][1] = f /\ p[3][i][2] = k
    BY InSets
  <2> DEFINE r == routed[g]
  <2>3. r \in Nat /\ n \in Nat
    BY <1>1, <1>3
  <2> HIDE DEF n, r
  <2>4. \A k \in (r + 1) .. (r + n) : k - r \in 1 .. n /\ r + (k - r) = k
    BY <2>3
  <2>5. \A i \in 1 .. n : r + i \in (r + 1) .. (r + n)
    BY <2>3
  <2>6. \A k : k \in ChunksIn(p[3], f) <=> f = g /\ \E i \in 1 .. n : r + i = k
    BY <2>1, <2>2 DEF r
  <2>7. \A k : (\E i \in 1 .. n : r + i = k) <=> k \in (r + 1) .. (r + n)
    BY <2>4, <2>5
  <2> QED
    BY <2>6, <2>7 DEF r
<1>5. HandSound(p[3], w)
  <2>1. \A i \in 1 .. n : p[3][i][1] = g /\ p[3][i][2] = routed[g] + i
    BY <1>1
  <2> QED
    BY <1>1, <1>3, <2>1 DEF HandSound, Rising
<1>6. /\ PacketsSound(q, w) /\ \A f \in Flows : Below(PacketsIn(q, f), ChunksIn(p[3], f))
  <2>1. PacketsSound(q, w) /\ Waiting(g) = PacketsIn(q, g)
    BY <1>1 DEF Ordered, Sound, Waiting
  <2>2. Waiting(g) \subseteq 1 .. routed[g]
    BY <1>1 DEF Ordered, Lined
  <2>3. Below(PacketsIn(q, g), ChunksIn(p[3], g))
    BY <2>1, <2>2, <1>1, <1>3, <1>4 DEF Below
  <2>4. \A f \in Flows \ {g} : Below(PacketsIn(q, f), ChunksIn(p[3], f))
    BY <1>4 DEF Below
  <2> QED
    BY <2>1, <2>3, <2>4
<1>7. /\ PacketsSound(t, w) /\ \A f : PacketsIn(t, f) = PacketsIn(q, f) \cup ChunksIn(p[3], f)
  <2> HIDE DEF q, t, n, w
  <2> QED
    BY <1>1, <1>2, <1>5, <1>6, PacketsGrown
<1>8. Sound'
  BY <1>1, <1>2, <1>7 DEF Sound, Ordered
<1>9. TakenFirst'
  <2>1. wk[w].pc \notin Leaving /\ \A i \in 1 .. Len(q) : q[i] # <<"shutdown">>
    <3>1. Running
      BY <1>2 DEF Running
    <3> QED
      BY <1>1, <3>1 DEF Staged, Contains
  <2>2. \A i, j \in 1 .. Len(t) : i < j => i \in 1 .. Len(q) /\ t[i] = q[i]
    BY <1>2 DEF Grown
  <2>3. \A i, j \in 1 .. Len(t) : i < j /\ t[i] = <<"shutdown">> => t[j][1] # "packet"
    BY <2>1, <2>2
  <2> QED
    BY <1>2, <2>1, <2>3 DEF TakenFirst, Leaving
<1>10. ASSUME NEW f \in Flows, f # g
       PROVE  FlowMoved(f)
  <2>1. Waiting(f)' = Waiting(f)
    BY <1>2, <1>4, <1>7, <1>10, PipelineAssumption DEF Waiting
  <2> QED
    BY <2>1, <1>2, <1>3, <1>10, Kept DEF Ordered, Tasked, AtHand
<1>11. FlowSent(g)
  <2>1. Waiting(g)' = Waiting(g) \cup ((routed[g] + 1) .. (routed[g] + n))
    BY <1>4, <1>7 DEF Waiting
  <2>2. Tasked(g)' = Tasked(g) /\ AtHand(g)' = AtHand(g) /\ parsed'[g] = parsed[g]
    BY <1>2 DEF Tasked, AtHand
  <2> HIDE DEF n
  <2> QED
    BY <1>1, <1>3, <2>1, <2>2 DEF FlowSent
<1> QED
  BY <1>1, <1>8, <1>9, <1>10, <1>11

\* So the steps of the pipeline keep the queues sound and the chunks lined up.
LEMMA NextMoved ==
    ASSUME TInv, Staged, Ordered, Placed, TakenFirst, [Next]_vars
    PROVE  Sound' /\ TakenFirst' /\ \A f \in Flows : FlowMoved(f) \/ FlowParsed(f) \/ FlowSent(f)
  BY StepMoves, MoveQuiet, MoveUnpacks, MoveParsesHere, MoveSubmits, MoveDrops, MoveParsesTask, MoveGets, MoveSends

\* The order of the chunks is kept by every step.
LEMMA NextOrdered ==
    ASSUME TInv, Staged, Ordered, Placed, TakenFirst, [Next]_vars
    PROVE  Ordered' /\ TakenFirst'
<1>1. Sound' /\ TakenFirst' /\ \A f \in Flows : FlowMoved(f) \/ FlowParsed(f) \/ FlowSent(f)
  BY NextMoved
<1>2. ASSUME NEW f \in Flows
      PROVE  Lined(parsed[f], Tasked(f), AtHand(f), Waiting(f), routed[f])'
  <2>1. routed[f] \in Nat /\ Lined(parsed[f], Tasked(f), AtHand(f), Waiting(f), routed[f])
    BY DEF TInv, Ordered
  <2> QED
    BY <1>1, <2>1, LinedMoves
<1> QED
  BY <1>1, <1>2 DEF Ordered

-----------------------------------------------------------------------------
(* Where a flow is parsed: the placement table *)

Glued(a, b, t) ==
    /\ Len(t) = Len(a) + Len(b)
    /\ \A i \in 1 .. Len(a) : t[i] = a[i]
    /\ \A i \in 1 .. Len(b) : t[Len(a) + i] = b[i]
\* Two sequences put together, and the first part of one.
LEMMA Joined ==
    ASSUME NEW S, NEW a \in Seq(S), NEW b \in Seq(S)
    PROVE  a \o b \in Seq(S) /\ Glued(a, b, a \o b)
<1> DEFINE t == a \o b
<1>1. /\ Len(a) \in Nat /\ Len(b) \in Nat /\ t \in Seq(S) /\ Len(t) = Len(a) + Len(b)
      /\ \A i \in 1 .. Len(a) + Len(b) : t[i] = IF i <= Len(a) THEN a[i] ELSE b[i - Len(a)]
  BY ConcatProperties, LenProperties
<1> DEFINE m == Len(a)
           n == Len(b)
<1>2. /\ m \in Nat /\ n \in Nat /\ t \in Seq(S) /\ Len(t) = m + n
      /\ \A i \in 1 .. m + n : t[i] = IF i <= m THEN a[i] ELSE b[i - m]
  BY <1>1
<1> HIDE DEF m, n, t
<1>3. \A i \in 1 .. n : m + i \in 1 .. m + n /\ ~ (m + i <= m) /\ (m + i) - m = i
  BY <1>2
<1>4. \A i \in 1 .. n : t[m + i] = b[i]
  BY <1>2, <1>3
<1>5. \A i \in 1 .. m : t[i] = a[i]
  BY <1>2
<1> QED
  BY <1>2, <1>4, <1>5 DEF m, n, t, Glued

\* The elements of a part of a sequence.
LEMMA Part ==
    ASSUME NEW S, NEW s \in Seq(S), NEW lo \in 1 .. Len(s) + 1, NEW hi \in 0 .. Len(s), lo <= hi + 1
    PROVE  /\ SubSeq(s, lo, hi) \in Seq(S) /\ Len(SubSeq(s, lo, hi)) = hi - lo + 1
           /\ \A i \in 1 .. hi - lo + 1 : SubSeq(s, lo, hi)[i] = s[lo + i - 1]
<1>1. Len(s) \in Nat /\ \A i \in lo .. hi : s[i] \in S
  BY ElementOfSeq, LenProperties
<1> DEFINE t == SubSeq(s, lo, hi)
<1>2. /\ t \in Seq(S) /\ Len(t) = IF lo <= hi THEN hi - lo + 1 ELSE 0
      /\ \A i \in 1 .. hi - lo + 1 : t[i] = s[lo + i - 1]
  BY <1>1, SubSeqProperties
<1> HIDE DEF t
<1>3. Len(t) = hi - lo + 1
  BY <1>1, <1>2
<1> QED
  BY <1>2, <1>3 DEF t

\* What the other entries of the table become: one of them may be missing.
LEMMA OthersAre ==
    ASSUME NEW table \in Channel(Flows \X Places, PlacementCapacity), NEW f
    PROVE  \E k \in 1 .. Len(table) + 1 :
            /\ Others(table, f) \in Seq(Flows \X Places)
            /\ Len(Others(table, f)) = IF k <= Len(table) THEN Len(table) - 1 ELSE Len(table)
            /\ \A i \in 1 .. Len(Others(table, f)) :
                    Others(table, f)[i] = IF i < k THEN table[i] ELSE table[i + 1]
            /\ \/ k <= Len(table) /\ table[k][1] = f
               \/ /\ \A i \in 1 .. Len(table) : table[i][1] # f
                  /\ k = Len(table) + 1 \/ Len(table) >= PlacementCapacity
<1> DEFINE S == Flows \X Places
           n == Len(table)
           at == {i \in 1 .. n : table[i][1] = f}
<1>1. /\ n \in Nat /\ n <= PlacementCapacity /\ PlacementCapacity \in Nat \ {0}
      /\ table \in Seq(S)
  BY LenProperties, PipelineAssumption DEF Channel
<1>2. \A i \in 1 .. n : table[i] \in S
  BY <1>1, ElementOfSeq
<1>4. CASE at # {}
  <2> DEFINE k == CHOOSE x \in at : TRUE
             a == SubSeq(table, 1, k - 1)
             b == SubSeq(table, k + 1, n)
  <2>1. k \in 1 .. n /\ table[k][1] = f
    BY <1>4
  <2>2. Others(table, f) = a \o b
    BY <1>4 DEF Others, RemoveAt
  <2> HIDE DEF k
  <2>3. /\ a \in Seq(S) /\ Len(a) = k - 1 /\ \A i \in 1 .. k - 1 : a[i] = table[i]
        /\ b \in Seq(S) /\ Len(b) = n - k /\ \A i \in 1 .. n - k : b[i] = table[k + i]
    <3>1. /\ k - 1 \in 0 .. n /\ k + 1 \in 1 .. n + 1 /\ 1 \in 1 .. n + 1 /\ n \in 0 .. n
          /\ 1 <= (k - 1) + 1 /\ k + 1 <= n + 1
          /\ (k - 1) - 1 + 1 = k - 1 /\ n - (k + 1) + 1 = n - k
          /\ \A i \in 1 .. k - 1 : 1 + i - 1 = i
          /\ \A i \in 1 .. n - k : (k + 1) + i - 1 = k + i
      BY <2>1, <1>1
    <3>2. /\ a \in Seq(S) /\ Len(a) = (k - 1) - 1 + 1
          /\ \A i \in 1 .. (k - 1) - 1 + 1 : a[i] = table[1 + i - 1]
      BY <3>1, <1>1, Part
    <3>3. /\ b \in Seq(S) /\ Len(b) = n - (k + 1) + 1
          /\ \A i \in 1 .. n - (k + 1) + 1 : b[i] = table[(k + 1) + i - 1]
      BY <3>1, <1>1, Part
    <3> HIDE DEF a, b, S, n
    <3> QED
      BY <3>1, <3>2, <3>3
  <2> DEFINE o == a \o b
  <2>4. Others(table, f) = o
    BY <2>2
  <2> HIDE DEF a, b, S, n
  <2>5. /\ o \in Seq(S) /\ Len(o) = (k - 1) + (n - k)
        /\ \A i \in 1 .. k - 1 : o[i] = table[i]
        /\ \A i \in 1 .. n - k : o[(k - 1) + i] = table[k + i]
    <3>1. /\ o \in Seq(S) /\ Len(o) = Len(a) + Len(b)
          /\ \A i \in 1 .. Len(a) : o[i] = a[i]
          /\ \A i \in 1 .. Len(b) : o[Len(a) + i] = b[i]
      <4>1. a \in Seq(S) /\ b \in Seq(S)
        BY <2>3
      <4>2. o \in Seq(S) /\ Glued(a, b, o)
        BY <4>1, Joined
      <4> HIDE DEF o
      <4> QED
        BY <4>2 DEF Glued
    <3> HIDE DEF o
    <3> QED
      BY <3>1, <2>3
  <2> HIDE DEF o
  <2>6. ASSUME NEW i \in 1 .. n - 1
        PROVE  o[i] = IF i < k THEN table[i] ELSE table[i + 1]
    <3>1. CASE i < k
      <4>1. i \in 1 .. k - 1
        BY <3>1, <2>1, <1>1
      <4> QED
        BY <3>1, <4>1, <2>5
    <3>2. CASE ~ (i < k)
      <4>1. /\ i - (k - 1) \in 1 .. n - k /\ (k - 1) + (i - (k - 1)) = i
            /\ k + (i - (k - 1)) = i + 1
        BY <3>2, <2>1, <1>1
      <4> QED
        BY <3>2, <4>1, <2>5
    <3> QED
      BY <3>1, <3>2
  <2>8. Len(o) = n - 1
    BY <2>1, <2>5, <1>1
  <2> HIDE DEF n
  <2>7. k \in 1 .. n + 1 /\ k <= n
    BY <2>1, <1>1
  <2> QED
    BY <2>1, <2>4, <2>5, <2>6, <2>7, <2>8 DEF S, n
<1>5. CASE at = {} /\ n < PlacementCapacity
  <2>1. Others(table, f) = table
    BY <1>5 DEF Others
  <2>2. \A i \in 1 .. n : table[i][1] # f
    BY <1>5
  <2>3. n + 1 \in 1 .. n + 1 /\ ~ (n + 1 <= n) /\ \A i \in 1 .. n : i < n + 1
    BY <1>1
  <2> HIDE DEF n, S
  <2> QED
    BY <2>1, <2>2, <2>3, <1>1 DEF n, S
<1>6. CASE at = {} /\ ~ (n < PlacementCapacity)
  <2> DEFINE o == SubSeq(table, 1, n - 1)
  <2>1. Others(table, f) = o
    BY <1>6 DEF Others, Front
  <2>2. \A i \in 1 .. n : table[i][1] # f
    BY <1>6
  <2>3. /\ o \in Seq(S) /\ Len(o) = n - 1 /\ \A i \in 1 .. n - 1 : o[i] = table[i]
    <3>1. /\ 1 \in 1 .. n + 1 /\ n - 1 \in 0 .. n /\ 1 <= (n - 1) + 1
          /\ (n - 1) - 1 + 1 = n - 1 /\ \A i \in 1 .. n - 1 : 1 + i - 1 = i
      BY <1>6, <1>1
    <3>2. /\ o \in Seq(S) /\ Len(o) = (n - 1) - 1 + 1
          /\ \A i \in 1 .. (n - 1) - 1 + 1 : o[i] = table[1 + i - 1]
      BY <3>1, <1>1, Part
    <3> HIDE DEF o, S, n
    <3> QED
      BY <3>1, <3>2
  <2>4. n \in 1 .. n + 1 /\ n <= n /\ n >= PlacementCapacity
    BY <1>6, <1>1
  <2> HIDE DEF o
  <2>5. \A i \in 1 .. Len(o) : o[i] = IF i < n THEN table[i] ELSE table[i + 1]
    BY <2>3, <1>1
  <2> HIDE DEF n, S
  <2> QED
    BY <2>1, <2>2, <2>3, <2>4, <2>5 DEF n, S
<1> QED
  BY <1>4, <1>5, <1>6

\* After a flow is used it has the new place and the others have theirs, unless one of
\* them had to leave the table.
LEMMA TouchPlaces ==
    ASSUME NEW table \in Channel(Flows \X Places, PlacementCapacity), NEW f \in Flows, NEW place \in Places,
           NEW w \in Workers, Single(table), Owned(table, w), Shard[f] = w
    PROVE  LET t == Touch(table, f, place)
           IN  /\ Single(t) /\ Owned(t, w) /\ PlacementOf(t, f) = {place}
               /\ \A g : g # f => PlacementOf(t, g) \subseteq PlacementOf(table, g)
               /\ (\E i \in 1 .. Len(table) : table[i][1] = f) \/ Len(table) < PlacementCapacity =>
                    \A g : g # f => PlacementOf(t, g) = PlacementOf(table, g)
<1> DEFINE n == Len(table)
           o == Others(table, f)
           m == Len(o)
           t == Touch(table, f, place)
<1>1. PICK k \in 1 .. n + 1 :
            /\ o \in Seq(Flows \X Places)
            /\ m = IF k <= n THEN n - 1 ELSE n
            /\ \A i \in 1 .. m : o[i] = IF i < k THEN table[i] ELSE table[i + 1]
            /\ \/ k <= n /\ table[k][1] = f
               \/ /\ \A i \in 1 .. n : table[i][1] # f
                  /\ k = n + 1 \/ n >= PlacementCapacity
  BY OthersAre
<1>2. n \in Nat /\ m \in Nat /\ PlacementCapacity \in Nat
  BY <1>1, LenProperties, PipelineAssumption DEF Channel
<1>3. /\ t \in Seq(Flows \X Places) /\ Len(t) = m + 1 /\ t[1] = <<f, place>>
      /\ \A i \in 1 .. m : t[i + 1] = o[i]
  <2> DEFINE a == <<<<f, place>>>>
             S == Flows \X Places
  <2>1. a \in Seq(S) /\ Len(a) = 1 /\ a[1] = <<f, place>> /\ o \in Seq(S) /\ t = a \o o
    BY <1>1 DEF Touch
  <2> HIDE DEF a, o, S, t, m
  <2>2. /\ t \in Seq(S) /\ Len(t) = 1 + Len(o) /\ 1 \in 1 .. Len(a)
        /\ \A i \in 1 .. Len(a) : t[i] = a[i]
        /\ \A i \in 1 .. Len(o) : t[1 + i] = o[i]
    <3>1. /\ t \in Seq(S) /\ Len(t) = Len(a) + Len(o)
          /\ \A i \in 1 .. Len(a) : t[i] = a[i]
          /\ \A i \in 1 .. Len(o) : t[Len(a) + i] = o[i]
      <4>1. a \in Seq(S) /\ o \in Seq(S) /\ t = a \o o
        BY <2>1
      <4>2. t \in Seq(S) /\ Glued(a, o, t)
        BY <4>1, Joined
      <4> QED
        BY <4>2 DEF Glued
    <3> QED
      BY <2>1, <3>1
  <2>3. \A i \in 1 .. m : i + 1 = 1 + i
    BY <1>2
  <2> QED
    BY <2>1, <2>2, <2>3, <1>2 DEF S, m
<1> HIDE DEF o, t, m, n
<1>4. \A i \in 1 .. m : \E j \in 1 .. n : o[i] = table[j] /\ j = (IF i < k THEN i ELSE i + 1)
  BY <1>1, <1>2
<1>5. \A i \in 1 .. m : o[i][1] # f
  <2> SUFFICES ASSUME NEW i \in 1 .. m, o[i][1] = f
               PROVE  FALSE
    OBVIOUS
  <2>1. PICK j \in 1 .. n : o[i] = table[j] /\ j = (IF i < k THEN i ELSE i + 1)
    BY <1>4
  <2>2. k <= n /\ table[k][1] = f /\ k \in 1 .. n
    BY <1>1, <1>2, <2>1
  <2>3. j = k
    BY <2>1, <2>2 DEF Single, n
  <2> QED
    BY <2>1, <2>3, <1>2
<1>6. \A i, j \in 1 .. m : o[i][1] = o[j][1] => i = j
  <2> SUFFICES ASSUME NEW i \in 1 .. m, NEW j \in 1 .. m, o[i][1] = o[j][1]
               PROVE  i = j
    OBVIOUS
  <2>1. PICK x \in 1 .. n : o[i] = table[x] /\ x = (IF i < k THEN i ELSE i + 1)
    BY <1>4
  <2>2. PICK y \in 1 .. n : o[j] = table[y] /\ y = (IF j < k THEN j ELSE j + 1)
    BY <1>4
  <2>3. x = y
    BY <2>1, <2>2 DEF Single, n
  <2> QED
    BY <2>1, <2>2, <2>3, <1>2
<1>7. \A i \in 1 .. Len(t) : i = 1 \/ (i - 1 \in 1 .. m /\ t[i] = o[i - 1])
  <2> SUFFICES ASSUME NEW i \in 1 .. Len(t), i # 1
               PROVE  i - 1 \in 1 .. m /\ t[i] = o[i - 1]
    OBVIOUS
  <2>1. i - 1 \in 1 .. m /\ (i - 1) + 1 = i
    BY <1>2, <1>3
  <2> QED
    BY <2>1, <1>3
<1>8. Single(t)
  <2> SUFFICES ASSUME NEW i \in 1 .. Len(t), NEW j \in 1 .. Len(t), t[i][1] = t[j][1]
               PROVE  i = j
    BY DEF Single
  <2>1. CASE i = 1 \/ j = 1
    BY <2>1, <1>3, <1>5, <1>7
  <2>2. CASE i # 1 /\ j # 1
    <3>1. /\ i - 1 \in 1 .. m /\ t[i] = o[i - 1]
          /\ j - 1 \in 1 .. m /\ t[j] = o[j - 1]
      BY <2>2, <1>7
    <3>2. i - 1 = j - 1
      BY <3>1, <1>6
    <3> QED
      BY <3>2, <1>2, <1>3
  <2> QED
    BY <2>1, <2>2
<1>9. Owned(t, w)
  <2> SUFFICES ASSUME NEW i \in 1 .. Len(t)
               PROVE  Shard[t[i][1]] = w
    BY DEF Owned
  <2>1. CASE i = 1
    BY <2>1, <1>3
  <2>2. CASE i # 1
    <3>1. i - 1 \in 1 .. m /\ t[i] = o[i - 1]
      BY <2>2, <1>7
    <3>2. PICK j \in 1 .. n : o[i - 1] = table[j]
      BY <3>1, <1>4
    <3>3. Shard[table[j][1]] = w
      BY DEF Owned, n
    <3> QED
      BY <3>1, <3>2, <3>3
  <2> QED
    BY <2>1, <2>2
<1>10. \A s : \A g, p : p \in PlacementOf(s, g) <=> \E i \in 1 .. Len(s) : s[i][1] = g /\ s[i][2] = p
  BY DEF PlacementOf, ToSet
<1>11. PlacementOf(t, f) = {place}
  <2>1. 1 \in 1 .. Len(t) /\ t[1][1] = f /\ t[1][2] = place
    BY <1>2, <1>3
  <2>2. \A i \in 1 .. Len(t) : t[i][1] = f => i = 1
    BY <1>5, <1>7
  <2>3. \A p : p \in PlacementOf(t, f) <=> p = place
    BY <2>1, <2>2, <1>10
  <2> QED
    BY <2>3
<1>12. ASSUME NEW g, g # f
       PROVE  PlacementOf(t, g) \subseteq PlacementOf(table, g)
  <2> SUFFICES ASSUME NEW p \in PlacementOf(t, g)
               PROVE  p \in PlacementOf(table, g)
    OBVIOUS
  <2>1. PICK i \in 1 .. Len(t) : t[i][1] = g /\ t[i][2] = p
    BY <1>10
  <2>2. i - 1 \in 1 .. m /\ t[i] = o[i - 1]
    BY <2>1, <1>3, <1>7, <1>12
  <2>3. PICK j \in 1 .. n : o[i - 1] = table[j]
    BY <2>2, <1>4
  <2> QED
    BY <2>1, <2>2, <2>3, <1>10 DEF n
<1>13. ASSUME (\E i \in 1 .. n : table[i][1] = f) \/ n < PlacementCapacity, NEW g, g # f
       PROVE  PlacementOf(table, g) \subseteq PlacementOf(t, g)
  <2> SUFFICES ASSUME NEW p \in PlacementOf(table, g)
               PROVE  p \in PlacementOf(t, g)
    OBVIOUS
  <2>1. PICK j \in 1 .. n : table[j][1] = g /\ table[j][2] = p
    BY <1>10 DEF n
  <2>2. k = n + 1 \/ (k <= n /\ table[k][1] = f)
    BY <1>1, <1>2, <1>13
  <2>3. j # k
    BY <2>1, <2>2, <1>2, <1>13
  <2>4. \E i \in 1 .. m : o[i] = table[j]
    <3>1. CASE j < k
      <4>1. j \in 1 .. m /\ o[j] = table[j]
        BY <3>1, <1>1, <1>2
      <4> QED
        BY <4>1
    <3>2. CASE j > k
      <4>1. j - 1 \in 1 .. m /\ ~ (j - 1 < k) /\ (j - 1) + 1 = j
        BY <3>2, <1>1, <1>2
      <4>2. o[j - 1] = table[j]
        BY <4>1, <1>1
      <4> QED
        BY <4>1, <4>2
    <3> QED
      BY <2>3, <3>1, <3>2, <1>2
  <2>5. PICK i \in 1 .. m : o[i] = table[j]
    BY <2>4
  <2>6. i + 1 \in 1 .. Len(t) /\ t[i + 1] = table[j]
    BY <2>5, <1>2, <1>3
  <2> QED
    BY <2>1, <2>6, <1>10
<1> QED
  BY <1>8, <1>9, <1>11, <1>12, <1>13 DEF t, n

\* A flow that is not in the table of its shard finds room there.
LEMMA Room ==
    ASSUME Fits, "Inline" \in Policies, OffloadCount > 0, NEW w \in Workers,
           NEW table \in Channel(Flows \X Places, PlacementCapacity), Single(table), Owned(table, w),
           NEW f \in Flows, Shard[f] = w, \A i \in 1 .. Len(table) : table[i][1] # f
    PROVE  Len(table) < PlacementCapacity
<1> DEFINE mine == {g \in Flows : Shard[g] = w}
           n == Len(table)
           name == [i \in 1 .. n |-> table[i][1]]
<1>1. /\ n \in Nat /\ PlacementCapacity \in Nat
      /\ \A i \in 1 .. n : table[i] \in Flows \X Places
  BY LenProperties, ElementOfSeq, PipelineAssumption DEF Channel
<1>2. IsFiniteSet(mine) /\ Cardinality(mine) <= PlacementCapacity /\ f \in mine
  BY DEF Fits
<1>3. name \in [1 .. n -> mine \ {f}]
  BY <1>1 DEF Owned
<1>4. name \in Injection(1 .. n, mine \ {f})
  <2>1. \A i, j \in 1 .. n : name[i] = name[j] => i = j
    BY DEF Single
  <2> HIDE DEF name, mine, n
  <2> QED
    BY <1>3, <2>1 DEF Injection, IsInjective
<1> HIDE DEF name, mine, n
<1>5. /\ IsFiniteSet(mine \ {f}) /\ Cardinality(mine \ {f}) = Cardinality(mine) - 1
      /\ Cardinality(mine) \in Nat
  BY <1>2, FS_RemoveElement, FS_CardinalityType
<1>6. Cardinality(1 .. n) = n
  <2>1. Cardinality(1 .. n) = IF 1 > n THEN 0 ELSE n - 1 + 1
    BY <1>1, FS_Interval
  <2> QED
    BY <2>1, <1>1
<1>7. Cardinality(1 .. n) <= Cardinality(mine \ {f})
  BY <1>4, <1>5, FS_Injection
<1>8. n < PlacementCapacity
  BY <1>1, <1>2, <1>5, <1>6, <1>7
<1> QED
  BY <1>8 DEF n

\* A flow of which nothing is parsed in this step, and which keeps its place in the
\* table or, unless the policy is Inline, may lose it.
LEMMA PlaceKept ==
    ASSUME NEW f \in Flows, FlowPlaced(f), parsed'[f] = parsed[f], policy' = policy,
           Place(f)' \subseteq Place(f), policy = "Inline" => Place(f)' = Place(f),
           Tasked(f)' \subseteq Tasked(f)
    PROVE  FlowPlaced(f)'
<1>1. (Here(f) => Here(f)') /\ (There(f) => There(f)')
  BY DEF Here, There
<1>2. CASE OffloadCount = 0
  BY <1>1, <1>2 DEF FlowPlaced
<1>3. CASE OffloadCount # 0
  <2>1. Tasked(f) = {} => Tasked(f)' = {}
    OBVIOUS
  <2>2. CASE "Local" \in Place(f)
    <3>1. Here(f) /\ Tasked(f) = {} /\ policy = "Inline"
      BY <1>3, <2>2 DEF FlowPlaced
    <3>2. Here(f)' /\ Tasked(f)' = {} /\ policy' = "Inline" /\ Place(f)' = Place(f)
      BY <1>1, <2>1, <3>1
    <3> QED
      BY <1>3, <2>2, <3>2 DEF FlowPlaced
  <2>3. CASE "Local" \notin Place(f)
    <3>1. There(f)' /\ "Local" \notin Place(f)'
      BY <1>1, <1>3, <2>3 DEF FlowPlaced
    <3>2. policy' = "Inline" /\ Place(f)' = {} => parsed'[f] = <<>> /\ Tasked(f)' = {}
      BY <1>3, <2>1 DEF FlowPlaced
    <3> QED
      BY <1>3, <3>1, <3>2 DEF FlowPlaced
  <2> QED
    BY <2>2, <2>3
<1> QED
  BY <1>2, <1>3, PipelineAssumption

\* A shard that is done with a chunk remembers where, and forgets the other flows
\* only if the policy is not Inline.
LEMMA PassesPlaces ==
    ASSUME Fits, TInv, Ordered, Placed, OffloadCount > 0, NEW w \in Workers, NEW place \in Places,
           NEW c, c = wk[w].todo[1], Passes(w, Touch(wk[w].placement, c[1], place))
    PROVE  /\ c[1] \in Flows /\ Shard[c[1]] = w
           /\ \A v \in Workers : TablePlaced(v)'
           /\ Place(c[1])' = {place}
           /\ \A g \in Flows : g # c[1] =>
                Place(g)' \subseteq Place(g) /\ (policy = "Inline" => Place(g)' = Place(g))
<1> DEFINE table == wk[w].placement
           f == c[1]
           t == Touch(table, f, place)
<1>1. c[1] \in Flows /\ Shard[c[1]] = w
  <2>1. wk[w].todo \in Seq(Chunks) /\ 1 \in 1 .. Len(wk[w].todo)
    BY WorkerHas DEF Passes, Dropped, WkState, WkRecord
  <2>2. c \in Chunks
    BY <2>1, ElementOfSeq
  <2> QED
    BY <2>1, <2>2 DEF Chunks, Ordered, Sound, HandSound
<1>2. /\ wk'[w].placement = t /\ wk'[w].pc # "blocked"
      /\ \A v \in Workers \ {w} : wk'[v] = wk[v]
  BY DEF Passes
<1>3. /\ table \in Channel(Flows \X Places, PlacementCapacity)
      /\ Single(table) /\ Owned(table, w)
  BY WorkerHas DEF WkState, WkRecord, Placed, TablePlaced
<1>4. /\ Single(t) /\ Owned(t, w) /\ PlacementOf(t, f) = {place}
      /\ \A g : g # f => PlacementOf(t, g) \subseteq PlacementOf(table, g)
      /\ (\E i \in 1 .. Len(table) : table[i][1] = f) \/ Len(table) < PlacementCapacity =>
            \A g : g # f => PlacementOf(t, g) = PlacementOf(table, g)
  <2> HIDE DEF table, f
  <2> QED
    BY <1>1, <1>3, TouchPlaces DEF f
<1>5. policy = "Inline" => (\E i \in 1 .. Len(table) : table[i][1] = f) \/ Len(table) < PlacementCapacity
  <2>1. policy = "Inline" => "Inline" \in Policies
    BY DEF TInv
  <2> HIDE DEF table
  <2> QED
    BY <2>1, <1>1, <1>3, Room
<1> HIDE DEF t
<1>6. ASSUME NEW v \in Workers
      PROVE  TablePlaced(v)'
  <2>1. CASE v = w
    BY <2>1, <1>2, <1>4 DEF TablePlaced
  <2>2. CASE v # w
    BY <2>2, <1>2 DEF TablePlaced, Placed
  <2> QED
    BY <2>1, <2>2
<1>7. Place(f)' = {place}
  BY <1>1, <1>2, <1>4 DEF Place
<1>8. ASSUME NEW g \in Flows, g # f
      PROVE  Place(g)' \subseteq Place(g) /\ (policy = "Inline" => Place(g)' = Place(g))
  <2>1. Shard[g] \in Workers
    BY PipelineAssumption
  <2>2. CASE Shard[g] = w
    <3>1. Place(g) = PlacementOf(table, g) /\ Place(g)' = PlacementOf(t, g)
      BY <2>2, <1>2 DEF Place
    <3> QED
      BY <3>1, <1>4, <1>5, <1>8
  <2>3. CASE Shard[g] # w
    <3>1. Place(g)' = Place(g)
      BY <2>1, <2>3, <1>2 DEF Place
    <3> QED
      BY <3>1
  <2> QED
    BY <2>2, <2>3
<1> QED
  BY <1>1, <1>6, <1>7, <1>8

\* A shard whose table is not touched.
LEMMA PlacesStay ==
    ASSUME Placed, NEW w \in Workers, wk'[w].placement = wk[w].placement,
           wk'[w].pc = "blocked" =>
                \/ wk[w].pc = "blocked" /\ wk'[w].todo = wk[w].todo
                \/ "Local" \notin PlacementOf(wk[w].placement, wk'[w].todo[1][1])
    PROVE  TablePlaced(w)'
  BY DEF TablePlaced, Placed

\* A quiet step places nothing.
LEMMA QuietPlaced ==
    ASSUME Ordered, Placed, Quiet
    PROVE  Placed'
<1>1. ASSUME NEW w \in Workers
      PROVE  TablePlaced(w)'
  BY PlacesStay DEF Quiet, QuietShard
<1>2. ASSUME NEW f \in Flows
      PROVE  FlowPlaced(f)'
  <2>1. Place(f)' = Place(f)
    BY PipelineAssumption DEF Place, Quiet, QuietShard
  <2>2. Tasked(f)' \subseteq Tasked(f)
    <3>1. CASE OffloadCount = 0
      BY <3>1 DEF Tasked
    <3>2. CASE OffloadCount # 0
      <4> DEFINE q == offloadQ[OffloadShard[f]]
                 t == offloadQ'[OffloadShard[f]]
      <4>1. OffloadShard[f] \in Offloads
        BY <3>2, PipelineAssumption
      <4>2. (QuietQ(q, t, "task") \/ t = <<>>) /\ TasksSound(q, OffloadShard[f])
        BY <4>1 DEF Quiet, QuietOffload, Ordered, Sound
      <4>3. Tasked(f) = TasksIn(q, f) /\ Tasked(f)' = TasksIn(t, f)
        BY <3>2 DEF Tasked
      <4> HIDE DEF q, t
      <4>4. CASE QuietQ(q, t, "task")
        BY <4>1, <4>2, <4>3, <4>4, QuietQueues
      <4>5. CASE t = <<>>
        BY <4>3, <4>5, EmptySound
      <4> QED
        BY <4>2, <4>4, <4>5
    <3> QED
      BY <3>1, <3>2
  <2> QED
    BY <2>1, <2>2, PlaceKept DEF Placed, Quiet
<1> QED
  BY <1>1, <1>2 DEF Placed

\* Moves that touch neither the tables nor the tasks.
LEMMA OtherPlaced ==
    ASSUME Placed, UNCHANGED <<policy, offloadQ, parsed>>,
           \A w \in Workers : /\ wk'[w].placement = wk[w].placement
                              /\ wk'[w].pc = "blocked" => wk[w].pc = "blocked" /\ wk'[w].todo = wk[w].todo
    PROVE  Placed'
<1>1. \A w \in Workers : TablePlaced(w)'
  BY PlacesStay
<1>2. ASSUME NEW f \in Flows
      PROVE  FlowPlaced(f)'
  <2>1. Place(f)' = Place(f)
    BY PipelineAssumption DEF Place
  <2>2. Tasked(f)' = Tasked(f)
    BY DEF Tasked
  <2> QED
    BY <2>1, <2>2, PlaceKept DEF Placed
<1> QED
  BY <1>1, <1>2 DEF Placed

\* A flow parsed by its shard is remembered as Local.
LEMMA ParsesHerePlaced ==
    ASSUME Fits, TInv, Ordered, Placed, NEW w \in Workers, ParsesHere(w)
    PROVE  Placed'
<1>c. PICK c : c = wk[w].todo[1]
  OBVIOUS
<1> DEFINE call == <<"shard", w, c[2]>>
<1>1. \E table : Passes(w, table)
  BY DEF ParsesHere
<1>2. /\ c \in Chunks /\ c[1] \in Flows /\ Shard[c[1]] = w
  <2>1. wk[w].todo \in Seq(Chunks) /\ 1 \in 1 .. Len(wk[w].todo)
    BY <1>1, WorkerHas DEF Passes, Dropped, WkState, WkRecord
  <2>2. c \in Chunks
    BY <1>c, <2>1, ElementOfSeq
  <2> QED
    BY <1>c, <2>1, <2>2 DEF Chunks, Ordered, Sound, HandSound
<1>3. /\ parsed' = [parsed EXCEPT ![c[1]] = Append(@, call)]
      /\ offloadQ' = offloadQ /\ policy' = policy
  BY <1>1, <1>c DEF ParsesHere, Passes
<1>4. \A f \in Flows : f # c[1] => parsed'[f] = parsed[f]
  BY <1>3 DEF TInv
<1>5. \A f \in Flows : Tasked(f)' = Tasked(f)
  BY <1>3 DEF Tasked
<1>6. Here(c[1]) => Here(c[1])'
  <2> DEFINE calls == parsed[c[1]]
             after == parsed'[c[1]]
  <2>1. after = Append(calls, call) /\ calls \in Seq(Calls) /\ call \in Calls
    BY <1>2, <1>3 DEF TInv, Calls, Chunks
  <2> HIDE DEF calls, after
  <2>2. \A i \in 1 .. Len(after) : (i \in 1 .. Len(calls) /\ after[i] = calls[i]) \/ after[i] = call
    BY <2>1, AppendProperties, LenProperties
  <2> QED
    BY <1>2, <2>2 DEF Here, calls, after
<1>7. CASE OffloadCount = 0
  <2>1. Passes(w, wk[w].placement)
    BY <1>7 DEF ParsesHere
  <2>2. \A v \in Workers : TablePlaced(v)'
    BY <2>1, PlacesStay DEF Passes
  <2>3. \A f \in Flows : Here(f)
    BY <1>7 DEF Placed, FlowPlaced
  <2>4. \A f \in Flows : f # c[1] => Here(f)'
    BY <1>4, <2>3 DEF Here
  <2>5. \A f \in Flows : Here(f)'
    BY <1>6, <2>3, <2>4, <1>2
  <2> QED
    BY <1>7, <2>2, <2>5 DEF Placed, FlowPlaced
<1>8. CASE OffloadCount # 0
  <2>1. /\ OffloadCount > 0 /\ "Local" \in Places
        /\ Passes(w, Touch(wk[w].placement, c[1], "Local"))
        /\ "Local" \in Place(c[1]) \/ (policy = "Inline" /\ "Offloaded" \notin Place(c[1]))
    BY <1>8, <1>c, <1>2, PipelineAssumption DEF ParsesHere, Places, Place
  <2>2. /\ \A v \in Workers : TablePlaced(v)'
        /\ Place(c[1])' = {"Local"}
        /\ \A g \in Flows : g # c[1] =>
                Place(g)' \subseteq Place(g) /\ (policy = "Inline" => Place(g)' = Place(g))
    BY <1>c, <2>1, PassesPlaces
  <2>3. "Local" \in Place(c[1]) \/ Place(c[1]) = {} \/ "Offloaded" \in Place(c[1])
    <3>1. wk[w].placement \in Seq(Flows \X Places)
      BY WorkerHas DEF WkState, WkRecord, Channel
    <3>2. \A x \in ToSet(wk[w].placement) : x[2] \in Places
      BY <3>1, ElementOfSeq DEF ToSet
    <3> QED
      BY <3>2, <1>2 DEF Place, PlacementOf, Places
  <2>4. policy = "Inline" /\ Here(c[1]) /\ Tasked(c[1]) = {}
    <3>1. FlowPlaced(c[1])
      BY <1>2 DEF Placed
    <3>2. CASE "Local" \in Place(c[1])
      BY <1>8, <3>1, <3>2 DEF FlowPlaced
    <3>3. CASE "Local" \notin Place(c[1])
      <4>1. policy = "Inline" /\ parsed[c[1]] = <<>> /\ Tasked(c[1]) = {}
        BY <1>8, <2>1, <2>3, <3>1, <3>3 DEF FlowPlaced
      <4> QED
        BY <4>1 DEF Here
    <3> QED
      BY <3>2, <3>3
  <2>5. FlowPlaced(c[1])'
    <3>1. "Local" \in Place(c[1])' /\ Place(c[1])' # {} /\ Here(c[1])' /\ Tasked(c[1])' = {} /\ policy' = "Inline"
      BY <1>2, <1>3, <1>5, <1>6, <2>2, <2>4
    <3> QED
      BY <1>8, <3>1 DEF FlowPlaced
  <2>6. ASSUME NEW f \in Flows, f # c[1]
        PROVE  FlowPlaced(f)'
    BY <1>3, <1>4, <1>5, <2>2, <2>6, PlaceKept DEF Placed
  <2> QED
    BY <1>2, <2>2, <2>5, <2>6 DEF Placed
<1> QED
  BY <1>7, <1>8

\* A task adds nothing to the other flows of the queue.
LEMMA GrownForOthers ==
    ASSUME NEW q, NEW c, NEW t, Grown(q, <<"task", c>>, t), NEW f, f # c[1]
    PROVE  TasksIn(t, f) = TasksIn(q, f)
<1>1. \A i \in 1 .. Len(q) : t[i] = q[i] /\ i \in 1 .. Len(t)
  BY DEF Grown
<1>2. \A i \in 1 .. Len(t) : i \in 1 .. Len(q) \/ t[i] = <<"task", c>>
  BY DEF Grown
<1>3. \A i \in 1 .. Len(t) : t[i][1] = "task" /\ t[i][2][1] = f => i \in 1 .. Len(q)
  BY <1>2
<1>4. TasksIn(t, f) \subseteq TasksIn(q, f)
  BY <1>1, <1>3 DEF TasksIn
<1>5. TasksIn(q, f) \subseteq TasksIn(t, f)
  BY <1>1 DEF TasksIn
<1> QED
  BY <1>4, <1>5

\* A flow with a task is remembered as Offloaded.
LEMMA SubmitsPlaced ==
    ASSUME Fits, TInv, Ordered, Placed, NEW w \in Workers, Submits(w)
    PROVE  Placed'
<1>c. PICK c : c = wk[w].todo[1]
  OBVIOUS
<1>0. /\ OffloadCount > 0 /\ parsed' = parsed
      /\ Passes(w, Touch(wk[w].placement, c[1], "Offloaded"))
      /\ wk[w].pc = "blocked" \/ "Local" \notin PlacementOf(wk[w].placement, c[1])
      /\ Grown(offloadQ[OffloadShard[c[1]]], <<"task", c>>, offloadQ'[OffloadShard[c[1]]])
      /\ \A p \in Offloads \ {OffloadShard[c[1]]} : offloadQ'[p] = offloadQ[p]
  BY <1>c DEF Submits
<1>1. OffloadCount # 0 /\ "Offloaded" \in Places /\ policy' = policy
  BY <1>0, PipelineAssumption DEF Passes, Places
<1>2. /\ c[1] \in Flows /\ Shard[c[1]] = w
      /\ \A v \in Workers : TablePlaced(v)'
      /\ Place(c[1])' = {"Offloaded"}
      /\ \A g \in Flows : g # c[1] =>
                Place(g)' \subseteq Place(g) /\ (policy = "Inline" => Place(g)' = Place(g))
  BY <1>c, <1>0, <1>1, PassesPlaces
<1>3. "Local" \notin Place(c[1])
  <2>1. wk[w].pc = "blocked" => "Local" \notin PlacementOf(wk[w].placement, c[1])
    BY <1>c DEF Placed, TablePlaced
  <2> QED
    BY <2>1, <1>0, <1>1, <1>2 DEF Place
<1>4. FlowPlaced(c[1])'
  <2>1. There(c[1])
    BY <1>0, <1>1, <1>2, <1>3 DEF Placed, FlowPlaced
  <2>2. There(c[1])' /\ "Local" \notin Place(c[1])' /\ Place(c[1])' # {}
    BY <2>1, <1>0, <1>1, <1>2 DEF There
  <2> QED
    BY <1>0, <1>1, <2>2 DEF FlowPlaced
<1>5. ASSUME NEW f \in Flows, f # c[1]
      PROVE  FlowPlaced(f)'
  <2>1. Tasked(f)' = Tasked(f)
    <3> DEFINE o == OffloadShard[c[1]]
    <3>1. o \in Offloads /\ OffloadShard[f] \in Offloads
      BY <1>0, <1>1, <1>2, PipelineAssumption
    <3>2. Tasked(f) = TasksIn(offloadQ[OffloadShard[f]], f) /\ Tasked(f)' = TasksIn(offloadQ'[OffloadShard[f]], f)
      BY <1>0, <1>1 DEF Tasked
    <3>3. CASE OffloadShard[f] = o
      <4> DEFINE q == offloadQ[o]
                 t == offloadQ'[o]
      <4>1. Grown(q, <<"task", c>>, t)
        BY <1>0, <1>1
      <4> HIDE DEF q, t, o
      <4>2. TasksIn(t, f) = TasksIn(q, f)
        BY <4>1, <1>5, GrownForOthers
      <4> QED
        BY <3>2, <3>3, <4>2 DEF q, t
    <3>4. CASE OffloadShard[f] # o
      BY <3>1, <3>2, <3>4, <1>0, <1>1
    <3> QED
      BY <3>3, <3>4
  <2> QED
    BY <1>0, <1>1, <1>2, <1>5, <2>1, PlaceKept DEF Placed
<1> QED
  BY <1>2, <1>4, <1>5 DEF Placed

\* A dropped chunk changes no place of a flow.
LEMMA DropsPlaced ==
    ASSUME Fits, TInv, Ordered, Placed, NEW w \in Workers, Drops(w)
    PROVE  Placed'
<1>c. PICK c : c = wk[w].todo[1]
  OBVIOUS
<1>1. /\ OffloadCount > 0 /\ OffloadCount # 0 /\ "Offloaded" \in Places /\ policy = "Drop"
      /\ \/ Passes(w, wk[w].placement)
         \/ Passes(w, Touch(wk[w].placement, c[1], "Offloaded"))
      /\ "Local" \notin PlacementOf(wk[w].placement, c[1])
      /\ UNCHANGED <<offloadQ, parsed, policy>>
  BY <1>c, PipelineAssumption DEF Drops, Passes, Places
<1>2. CASE Passes(w, wk[w].placement)
  <2>1. \A v \in Workers : /\ wk'[v].placement = wk[v].placement
                           /\ wk'[v].pc = "blocked" => wk[v].pc = "blocked" /\ wk'[v].todo = wk[v].todo
    BY <1>2 DEF Passes
  <2> QED
    BY <2>1, <1>1, OtherPlaced
<1>3. CASE Passes(w, Touch(wk[w].placement, c[1], "Offloaded"))
  <2>1. /\ c[1] \in Flows /\ Shard[c[1]] = w
        /\ \A v \in Workers : TablePlaced(v)'
        /\ Place(c[1])' = {"Offloaded"}
        /\ \A g \in Flows : g # c[1] =>
                  Place(g)' \subseteq Place(g) /\ (policy = "Inline" => Place(g)' = Place(g))
    BY <1>c, <1>1, <1>3, PassesPlaces
  <2>2. FlowPlaced(c[1])'
    <3>1. There(c[1])
      BY <1>1, <2>1 DEF Placed, FlowPlaced, Place
    <3>2. There(c[1])' /\ "Local" \notin Place(c[1])' /\ Place(c[1])' # {}
      BY <3>1, <1>1, <2>1 DEF There
    <3> QED
      BY <1>1, <3>2 DEF FlowPlaced
  <2>3. ASSUME NEW f \in Flows, f # c[1]
        PROVE  FlowPlaced(f)'
    <3>1. Tasked(f)' = Tasked(f)
      BY <1>1 DEF Tasked
    <3> QED
      BY <1>1, <2>1, <2>3, <3>1, PlaceKept DEF Placed
  <2> QED
    BY <2>1, <2>2, <2>3 DEF Placed
<1> QED
  BY <1>1, <1>2, <1>3

\* A task is parsed by the offload worker of a flow that is not Local.
LEMMA ParsesTaskPlaced ==
    ASSUME TInv, Ordered, Placed, NEW o \in Offloads, ParsesTask(o)
    PROVE  Placed'
<1>c. PICK c : c = offloadQ[o][1][2]
  OBVIOUS
<1> DEFINE call == <<"offload", o, c[2]>>
           q == offloadQ[o]
           t == offloadQ'[o]
<1>1. /\ q[1][1] = "task" /\ q[1][2] = c /\ Dropped(q, t)
      /\ parsed' = [parsed EXCEPT ![c[1]] = Append(@, call)]
      /\ \A p \in Offloads \ {o} : offloadQ'[p] = offloadQ[p]
      /\ UNCHANGED <<policy, wk>>
  BY <1>c DEF ParsesTask
<1>2. c \in Chunks /\ c[1] \in Flows
  <2>1. q \in Seq(Tasks) /\ 1 \in 1 .. Len(q)
    BY <1>1 DEF Dropped, TInv, Channel
  <2>2. q[1] \in Tasks
    BY <2>1, ElementOfSeq
  <2>3. c \in Chunks
    BY <2>2, <1>1, Kinds
  <2> QED
    BY <2>3 DEF Chunks
<1>3. OffloadCount # 0 /\ \A f \in Flows : OffloadShard[f] \in Offloads
  BY PipelineAssumption DEF Offloads
<1>4. /\ OffloadShard[c[1]] = o /\ c[2] \in TasksIn(q, c[1])
      /\ \A f : TasksIn(t, f) \subseteq TasksIn(q, f)
  <2>1. TasksSound(q, o)
    BY DEF Ordered, Sound
  <2> HIDE DEF q, t
  <2> QED
    BY <2>1, <1>1, TasksDropped
<1>5. \A f \in Flows : /\ Tasked(f) = TasksIn(offloadQ[OffloadShard[f]], f)
                       /\ Tasked(f)' = TasksIn(offloadQ'[OffloadShard[f]], f)
  BY <1>3 DEF Tasked
<1>6. \A f \in Flows : Place(f)' = Place(f)
  BY <1>1 DEF Place
<1>7. \A w \in Workers : TablePlaced(w)'
  BY <1>1, PlacesStay
<1>8. ASSUME NEW f \in Flows, f # c[1]
      PROVE  FlowPlaced(f)'
  <2>1. parsed'[f] = parsed[f]
    BY <1>1, <1>8 DEF TInv
  <2>2. Tasked(f)' \subseteq Tasked(f)
    <3>1. CASE OffloadShard[f] = o
      BY <3>1, <1>4, <1>5
    <3>2. CASE OffloadShard[f] # o
      BY <3>2, <1>1, <1>3, <1>5
    <3> QED
      BY <3>1, <3>2
  <2> QED
    BY <2>1, <2>2, <1>1, <1>6, PlaceKept DEF Placed
<1>9. FlowPlaced(c[1])'
  <2>1. Tasked(c[1]) # {}
    BY <1>2, <1>4, <1>5
  <2>2. There(c[1]) /\ "Local" \notin Place(c[1]) /\ ~ (policy = "Inline" /\ Place(c[1]) = {})
    BY <2>1, <1>2, <1>3 DEF Placed, FlowPlaced
  <2>3. There(c[1])'
    <3> DEFINE calls == parsed[c[1]]
               after == parsed'[c[1]]
    <3>1. after = Append(calls, call) /\ calls \in Seq(Calls) /\ call \in Calls
      BY <1>1, <1>2 DEF TInv, Calls, Chunks
    <3> HIDE DEF calls, after
    <3>2. \A i \in 1 .. Len(after) : (i \in 1 .. Len(calls) /\ after[i] = calls[i]) \/ after[i] = call
      BY <3>1, AppendProperties, LenProperties
    <3>3. \A i \in 1 .. Len(calls) : calls[i][1] = "offload" /\ calls[i][2] = o
      BY <2>2, <1>4 DEF There, calls
    <3>4. call[1] = "offload" /\ call[2] = o
      OBVIOUS
    <3> QED
      BY <1>4, <3>2, <3>3, <3>4 DEF There, after
  <2>4. "Local" \notin Place(c[1])' /\ ~ (policy' = "Inline" /\ Place(c[1])' = {})
    BY <1>1, <1>2, <1>6, <2>2
  <2> QED
    BY <1>3, <2>3, <2>4 DEF FlowPlaced
<1> QED
  BY <1>2, <1>7, <1>8, <1>9 DEF Placed

\* The places of the flows are kept by every step.
LEMMA NextPlaced ==
    ASSUME Fits, TInv, Ordered, Placed, [Next]_vars
    PROVE  Placed'
<1>1. ASSUME NEW w \in Workers, Unpacks(w)
      PROVE  Placed'
  <2>1. \A v \in Workers : /\ wk'[v].placement = wk[v].placement
                           /\ wk'[v].pc = "blocked" => wk[v].pc = "blocked" /\ wk'[v].todo = wk[v].todo
    BY <1>1 DEF Unpacks
  <2> QED
    BY <1>1, <2>1, OtherPlaced DEF Unpacks
<1>2. ASSUME NEW f \in Flows, NEW n \in ChunksPerPacket, Gets(f, n)
      PROVE  Placed'
  BY <1>2, OtherPlaced DEF Gets
<1>3. CASE Sends
  BY <1>3, OtherPlaced DEF Sends
<1> QED
  BY <1>1, <1>2, <1>3, StepMoves, QuietPlaced, ParsesHerePlaced, SubmitsPlaced, DropsPlaced, ParsesTaskPlaced

-----------------------------------------------------------------------------
(* Nothing is lost in a run without faults *)

\* The faults a behaviour may still have only get fewer.
LEMMA FaultsCountDown ==
    ASSUME TInv, [Next]_vars
    PROVE  left'.faults <= left.faults
<1>1. left.faults \in Int /\ left \in [packets : 0 .. MaxPackets, snapshots : 0 .. MaxSnapshots, faults : 0 .. MaxFaults]
  BY PipelineAssumption DEF TInv
<1>2. ASSUME \/ left' = left
             \/ \E kind : Fault(kind)
             \/ left' = [left EXCEPT !.packets = @ - 1]
             \/ left' = [left EXCEPT !.snapshots = @ - 1]
      PROVE  left'.faults <= left.faults
  BY <1>1, <1>2 DEF Fault
<1>3. ASSUME NEW w \in Workers, WorkerThread(w) \/ WorkerPanics(w) \/ WorkerSnapshot(w)
      PROVE  left' = left \/ (\E kind : Fault(kind)) \/ left' = [left EXCEPT !.snapshots = @ - 1]
  BY <1>3 DEF WorkerThread, WorkerPacket, WorkerSlice, WorkerShutdown, WorkerChunk, WorkerUnblock, WorkerFails,
              WorkerFlushDue, WorkerFlush, WorkerReport, WorkerPanics, WorkerSnapshot
<1>4. ASSUME NEW o \in Offloads, OffloadThread(o) \/ OffloadPanics(o) \/ OffloadSnapshot(o)
      PROVE  left' = left \/ (\E kind : Fault(kind)) \/ left' = [left EXCEPT !.snapshots = @ - 1]
  BY <1>4 DEF OffloadThread, OffloadTask, OffloadShutdown, OffloadFlushDue, OffloadFlush, OffloadReport,
              OffloadPanics, OffloadSnapshot
<1>5. CASE CoordThread
  <2>1. TakeMessage => left' = left \/ \E kind : Fault(kind)
    BY DEF TakeMessage
  <2>2. left' = left \/ \E kind : Fault(kind)
    BY <1>5, <2>1 DEF CoordThread, CoordDrainDue, CoordSend, CoordDrain, CoordDrained, CoordStopShard,
                      CoordStopOffload, CoordCollect, CoordCollected, CoordJoin
  <2> QED
    BY <1>2, <2>2
<1>6. ASSUME NEW f \in Flows, NEW n \in ChunksPerPacket, CoordPacket(f, n)
      PROVE  left' = [left EXCEPT !.packets = @ - 1]
  BY <1>6 DEF CoordPacket
<1>7. CoordEnd => left' = left \/ \E kind : Fault(kind)
  BY DEF CoordEnd
<1>8. ASSUME NEW r \in Slices, SliceTimeout(r) \/ \E w \in Workers : SliceAsk(r, w)
      PROVE  left' = left
  BY <1>8 DEF SliceTimeout, SliceAsk
<1>9. Ended \/ UNCHANGED vars => left' = left
  BY DEF Ended, vars
<1> QED
  BY <1>2, <1>3, <1>4, <1>5, <1>6, <1>7, <1>8, <1>9 DEF Next

\* A shard dies of a panic, or because the offload worker it sends to is gone.
LEMMA DeadCause ==
    ASSUME TInv, NEW w \in Workers, wk'[w].pc = "dead",
           WorkerThread(w) \/ WorkerPanics(w) \/ WorkerSnapshot(w)
    PROVE  WorkerPanics(w) \/ WorkerFails(w)
<1>a. wk \in [Workers -> WkState] /\ wk[w] \in WkState
  BY WorkerHas DEF TInv
<1>1. ~ WorkerPacket(w)
  BY <1>a DEF WorkerPacket, AfterCommand, WkState, WkRecord
<1>2. ~ WorkerSlice(w) /\ ~ WorkerShutdown(w)
  BY <1>a DEF WorkerSlice, WorkerShutdown, AfterCommand, WkState, WkRecord
<1>3. ASSUME NEW events, NEW table, NEW stats, ChunkDone(w, events, table, stats)
      PROVE  FALSE
  BY <1>3, <1>a DEF ChunkDone, AfterCommand
<1>4. ~ WorkerChunk(w)
  <2>1. WorkerChunk(w) => \/ wk' = [wk EXCEPT ![w].pc = "blocked"]
                          \/ \E events, table, stats : ChunkDone(w, events, table, stats)
    BY DEF WorkerChunk, ParseHere, Submit
  <2> QED
    BY <2>1, <1>3, <1>a DEF WkState, WkRecord
<1>5. ~ WorkerUnblock(w)
  BY <1>3 DEF WorkerUnblock, Submit
<1>6. ~ WorkerFlushDue(w) /\ ~ WorkerFlush(w) /\ ~ WorkerReport(w)
  BY <1>a DEF WorkerFlushDue, WorkerFlush, WorkerReport, WkState, WkRecord
<1>7. ~ WorkerSnapshot(w)
  BY <1>a DEF WorkerSnapshot, TInv, WorkerEffect
<1> QED
  BY <1>1, <1>2, <1>4, <1>5, <1>6, <1>7 DEF WorkerThread

\* A thread dies of a fault only, and stays dead.
LEMMA NextDead ==
    ASSUME TInv, TInv', Staged, NoFault => NoDead, [Next]_vars
    PROVE  (NoFault' => NoDead') /\ (NoDead' => NoDead)
<1>0. /\ left.faults \in 0 .. MaxFaults /\ left'.faults \in 0 .. MaxFaults /\ MaxFaults \in Nat
      /\ DOMAIN left = {"packets", "snapshots", "faults"}
  BY PipelineAssumption DEF TInv
<1>1. NoFault' => NoFault
  BY <1>0, FaultsCountDown DEF NoFault
<1>2. ASSUME NEW kind, Fault(kind)
      PROVE  ~ NoFault'
  BY <1>0, <1>2 DEF NoFault, Fault
<1>3. ASSUME NEW w \in Workers, WorkerThread(w) \/ WorkerPanics(w) \/ WorkerSnapshot(w)
      PROVE  (NoFault' => NoDead') /\ (NoDead' => NoDead)
  <2>1. /\ WorkerLive(w) /\ off' = off
        /\ \A v \in Workers \ {w} : wk'[v] = wk[v]
    BY <1>3, WorkerSteps DEF WorkerEffect
  <2>2. NoDead' => NoDead
    BY <2>1 DEF NoDead, WorkerLive, Stopped
  <2>3. NoFault' => wk'[w].pc # "dead"
    <3> SUFFICES ASSUME NoFault', wk'[w].pc = "dead"
                 PROVE  FALSE
      OBVIOUS
    <3>1. WorkerFails(w)
      BY <1>2, <1>3, DeadCause DEF WorkerPanics
    <3>2. wk[w].pc = "blocked" /\ ~ OffloadLive(OffloadShard[Head(wk[w].todo)[1]])
      BY <3>1 DEF WorkerFails
    <3>3. PICK o \in Offloads : ~ OffloadLive(o)
      BY <3>2, WorkerHas, ChunkAtHand, PipelineAssumption DEF WkState
    <3>4. off[o].pc = "done"
      BY <1>1, <3>3 DEF OffloadLive, Stopped, NoDead
    <3> QED
      BY <2>1, <3>4 DEF Staged, Leaving
  <2> QED
    BY <1>1, <2>1, <2>2, <2>3 DEF NoDead
<1>4. ASSUME NEW o \in Offloads, OffloadThread(o) \/ OffloadPanics(o) \/ OffloadSnapshot(o)
      PROVE  (NoFault' => NoDead') /\ (NoDead' => NoDead)
  <2>1. /\ OffloadLive(o) /\ wk' = wk
        /\ \A p \in Offloads \ {o} : off'[p] = off[p]
    BY <1>4, OffloadSteps DEF OffloadEffect
  <2>2. NoDead' => NoDead
    BY <2>1 DEF NoDead, OffloadLive, Stopped
  <2>3. off'[o].pc = "dead" => OffloadPanics(o)
    <3>1. off \in [Offloads -> OffState] /\ off[o] \in OffState
      BY DEF TInv
    <3>2. off'[o].pc = "dead" => ~ OffloadTask(o)
      BY <3>1 DEF OffloadTask, AfterCommand, OffState
    <3>3. off'[o].pc = "dead" => /\ ~ OffloadShutdown(o) /\ ~ OffloadFlushDue(o) /\ ~ OffloadFlush(o)
                                 /\ ~ OffloadReport(o)
      BY <3>1 DEF OffloadShutdown, OffloadFlushDue, OffloadFlush, OffloadReport, OffState
    <3>4. off'[o].pc = "dead" => ~ OffloadSnapshot(o)
      BY <3>1 DEF OffloadSnapshot
    <3> QED
      BY <1>4, <3>2, <3>3, <3>4 DEF OffloadThread
  <2>4. NoFault' => off'[o].pc # "dead"
    BY <1>2, <2>3 DEF OffloadPanics
  <2> QED
    BY <1>1, <2>1, <2>2, <2>4 DEF NoDead
<1>5. ASSUME UNCHANGED <<wk, off>>
      PROVE  (NoFault' => NoDead') /\ (NoDead' => NoDead)
  BY <1>1, <1>5 DEF NoDead
<1>6. CASE \/ CoordThread \/ CoordEnd
           \/ \E f \in Flows, n \in ChunksPerPacket : CoordPacket(f, n)
  BY <1>5, <1>6, CoordSteps DEF CoordEffect
<1>7. ASSUME NEW r \in Slices, SliceTimeout(r) \/ \E w \in Workers : SliceAsk(r, w)
      PROVE  UNCHANGED <<wk, off>>
  BY <1>7 DEF SliceTimeout, SliceAsk
<1>8. CASE UNCHANGED vars
  BY <1>5, <1>8 DEF vars
<1> QED
  BY <1>3, <1>4, <1>5, <1>6, <1>7, <1>8 DEF Next, Ended

\* Every step keeps the numbers of each flow without a gap.
LEMMA NextGapless ==
    ASSUME TInv, TInv', Staged, Ordered, Placed, Gapless, [Next]_vars
    PROVE  Gapless'
<1>1. (NoFault' => NoDead') /\ (NoDead' => NoDead)
  BY NextDead DEF Gapless
<1>2. TakenFirst' /\ \A f \in Flows : FlowMoved(f) \/ FlowParsed(f) \/ FlowSent(f)
  BY NextMoved DEF Gapless
<1>3. policy' = policy
  BY StepMoves DEF Quiet, Unpacks, ParsesHere, Submits, Drops, Passes, ParsesTask, Gets, Sends
<1>4. ASSUME NEW f \in Flows, policy' # "Drop", NoDead'
      PROVE  Covered(parsed[f], Tasked(f), AtHand(f), Waiting(f), routed[f])'
  <2>1. /\ routed[f] \in Nat /\ policy # "Drop"
        /\ Lined(parsed[f], Tasked(f), AtHand(f), Waiting(f), routed[f])
        /\ Covered(parsed[f], Tasked(f), AtHand(f), Waiting(f), routed[f])
    BY <1>1, <1>3, <1>4 DEF TInv, Ordered, Gapless
  <2> QED
    BY <1>2, <1>4, <2>1, CoveredMoves
<1> QED
  BY <1>1, <1>2, <1>4 DEF Gapless

\* At the start there are no chunks.
LEMMA InitLined ==
    ASSUME Init
    PROVE  /\ Ordered /\ Placed /\ Gapless
<1>1. /\ \A w \in Workers : /\ wk[w].todo = <<>> /\ wk[w].placement = <<>> /\ wk[w].pc = "recv"
                            /\ workerQ[w] = <<>>
      /\ \A o \in Offloads : off[o].pc = "recv" /\ offloadQ[o] = <<>>
      /\ \A f \in Flows : parsed[f] = <<>> /\ routed[f] = 0
      /\ co.pc = "source"
  BY DEF Init
<1>2. ASSUME NEW f \in Flows
      PROVE  /\ Tasked(f) = {} /\ AtHand(f) = {} /\ Waiting(f) = {} /\ Place(f) = {}
             /\ Here(f) /\ There(f)
  <2>1. Shard[f] \in Workers /\ (OffloadCount # 0 => OffloadShard[f] \in Offloads)
    BY PipelineAssumption
  <2>2. ChunksIn(<<>>, f) = {} /\ TasksIn(<<>>, f) = {} /\ PacketsIn(<<>>, f) = {}
    BY DEF ChunksIn, TasksIn, PacketsIn
  <2>3. PlacementOf(<<>>, f) = {}
    BY DEF PlacementOf, ToSet
  <2> QED
    BY <1>1, <2>1, <2>2, <2>3 DEF Tasked, AtHand, Waiting, Place, Here, There
<1>3. Ordered
  <2>1. Sound
    BY <1>1, EmptySound DEF Sound, HandSound, Rising, PacketsSound, TasksSound
  <2>2. \A f \in Flows : Lined(parsed[f], Tasked(f), AtHand(f), Waiting(f), routed[f])
    BY <1>1, <1>2 DEF Lined, Below
  <2> QED
    BY <2>1, <2>2 DEF Ordered
<1>4. Placed
  BY <1>1, <1>2 DEF Placed, TablePlaced, FlowPlaced, Single, Owned
<1>5. Gapless
  <2>1. NoDead /\ TakenFirst
    BY <1>1 DEF NoDead, TakenFirst, Leaving
  <2>2. \A f \in Flows : Covered(parsed[f], Tasked(f), AtHand(f), Waiting(f), routed[f])
    BY <1>1, <1>2 DEF Covered
  <2> QED
    BY <2>1, <2>2 DEF Gapless
<1> QED
  BY <1>3, <1>4, <1>5

-----------------------------------------------------------------------------
(* The theorems *)

\* The inductive invariant of this module.
AllLined == TInv /\ Staged /\ Ordered /\ Placed /\ Gapless

\* The invariant is inductive.
LEMMA NextLined ==
    ASSUME Fits, AllLined, [Next]_vars
    PROVE  AllLined'
<1>1. TInv' /\ Staged'
  BY NextTyped, NextStaged DEF AllLined
<1>2. Ordered'
  BY NextOrdered DEF AllLined, Gapless
<1>3. Placed'
  BY NextPlaced DEF AllLined
<1>4. Gapless'
  BY <1>1, NextGapless DEF AllLined
<1> QED
  BY <1>1, <1>2, <1>3, <1>4 DEF AllLined

\* Every state of the pipeline has its chunks lined up, its flows placed and, while no
\* thread has died, no chunk lost but by the Drop policy.
THEOREM AlwaysLined ==
    ASSUME Fits
    PROVE  Spec => []AllLined
<1>1. Init => AllLined
  BY InitTyped, InitStaged, InitLined DEF AllLined
<1>2. AllLined /\ [Next]_vars => AllLined'
  BY NextLined
<1> QED
  BY <1>1, <1>2, PTL DEF Spec

\* The chunks of a flow are parsed in stream order and none twice, by whichever of
\* the shard and the offload worker: a task is queued before the next chunk is at
\* hand, and a shard parses a chunk itself only when the flow has no task.
THEOREM ChunksParsedInOrderHolds ==
    ASSUME Fits
    PROVE  Spec => []ChunksParsedInOrder
<1>1. AllLined => ChunksParsedInOrder
  BY DEF AllLined, Ordered, Lined, ChunksParsedInOrder
<1> QED
  BY <1>1, AlwaysLined, PTL

\* All chunks of a flow are parsed by its shard, or all by its offload worker: the
\* placement table remembers which, as long as it has room for the flows of a shard.
THEOREM OneParserPerFlowHolds ==
    ASSUME Fits
    PROVE  Spec => []OneParserPerFlow
<1>1. ASSUME Placed, NEW f \in Flows
      PROVE  Here(f) \/ There(f)
  BY <1>1 DEF Placed, FlowPlaced
<1>2. \A f \in Flows : Here(f) \/ There(f) =>
            \A i, j \in 1 .. Len(parsed[f]) :
                parsed[f][i][1] = parsed[f][j][1] /\ parsed[f][i][2] = parsed[f][j][2]
  BY DEF Here, There
<1>3. AllLined => OneParserPerFlow
  BY <1>1, <1>2 DEF AllLined, OneParserPerFlow
<1> QED
  BY <1>3, AlwaysLined, PTL

\* Unless the policy is Drop no chunk is skipped while nothing fails, and at the end
\* of a run that reports success every chunk handed to a shard has been parsed: a
\* shard leaves only when its queue has no packet, and an offload worker after it.
THEOREM NoChunkSkippedHolds ==
    ASSUME Fits
    PROVE  Spec => []NoChunkSkipped
<1>1. ASSUME AllLined, SuccessMeansClean, policy # "Drop", NEW f \in Flows
      PROVE  /\ NoFault => \A i \in 1 .. Len(parsed[f]) : parsed[f][i][3] = i
             /\ co.pc = "end" /\ ~ co.failed => Len(parsed[f]) = routed[f]
  <2>1. /\ NoFault => Covered(parsed[f], Tasked(f), AtHand(f), Waiting(f), routed[f])
        /\ Lined(parsed[f], Tasked(f), AtHand(f), Waiting(f), routed[f])
    BY <1>1 DEF AllLined, Gapless, Ordered
  <2>2. ASSUME co.pc = "end", ~ co.failed
        PROVE  Len(parsed[f]) = routed[f]
    <3>1. /\ NoFault /\ \A w \in Workers : wk[w].pc = "done"
          /\ \A o \in Offloads : offloadQ[o] = <<>>
      BY <1>1, <2>2 DEF SuccessMeansClean
    <3>2. Tasked(f) = {} /\ AtHand(f) = {} /\ Waiting(f) = {}
      <4>1. Shard[f] \in Workers /\ (OffloadCount # 0 => OffloadShard[f] \in Offloads)
        BY PipelineAssumption
      <4>2. wk[Shard[f]].todo = <<>> /\ workerQ[Shard[f]] = <<>>
        BY <1>1, <3>1, <4>1 DEF AllLined, Ordered, Sound, Holding, Gapless, TakenFirst
      <4>3. ChunksIn(<<>>, f) = {} /\ TasksIn(<<>>, f) = {} /\ PacketsIn(<<>>, f) = {}
        BY DEF ChunksIn, TasksIn, PacketsIn
      <4> QED
        BY <3>1, <4>1, <4>2, <4>3 DEF Tasked, AtHand, Waiting
    <3>3. Len(parsed[f]) \in Nat /\ routed[f] \in Nat
      BY <1>1, LenProperties DEF AllLined, TInv
    <3>4. /\ \A i \in 1 .. Len(parsed[f]) : i \in 1 .. routed[f]
          /\ \A k \in 1 .. routed[f] : k \in 1 .. Len(parsed[f])
      BY <2>1, <3>1, <3>2 DEF Covered, Lined
    <3> DEFINE n == Len(parsed[f])    r == routed[f]
    <3> HIDE DEF n, r
    <3>5. n = r
      <4>1. n \in Nat /\ r \in Nat
        BY <3>3 DEF n, r
      <4>2. (\A i \in 1 .. n : i \in 1 .. r) /\ \A k \in 1 .. r : k \in 1 .. n
        BY <3>4 DEF n, r
      <4>3. n > 0 => n <= r
        BY <4>1, <4>2
      <4>4. r > 0 => r <= n
        BY <4>1, <4>2
      <4> QED
        BY <4>1, <4>3, <4>4
    <3> QED
      BY <3>5 DEF n, r
  <2> QED
    BY <2>1, <2>2 DEF Covered
<1>2. AllLined /\ SuccessMeansClean => NoChunkSkipped
  BY <1>1 DEF NoChunkSkipped
<1> QED
  BY <1>2, AlwaysLined, SuccessMeansCleanHolds, PTL
=============================================================================
