--------------------------- MODULE LiveApiProofs ---------------------------
(***************************************************************************)
(* Proofs about LiveApi for any threads, streams, capacity and response    *)
(* limit: the log is a window on everything published, with it the live    *)
(* API implements DeltaFeed, and front ends that have read the log to its  *)
(* end show the rows of the core.                                          *)
(***************************************************************************)
EXTENDS LiveApi, SumLemmas, SequenceTheorems, FiniteSetTheorems, TLAPS

-----------------------------------------------------------------------------
(* The log *)

Entries == [cursor : Nat, payload : Payloads]
Logs == [entries : Seq(Entries), next_cursor : Nat, dropped_before : Nat]

\* WindowIsTheTail for a given log and history.
IsTail(lg, all) ==
    /\ Len(lg.entries) <= Capacity
    /\ lg.dropped_before + Len(lg.entries) = Len(all)
    /\ lg.next_cursor = Len(all) + 1
    /\ \A i \in 1 .. Len(lg.entries) :
        lg.entries[i] = [cursor |-> lg.dropped_before + i, payload |-> all[lg.dropped_before + i]]

\* Pushing keeps the log the end of the history.
LEMMA PushKeepsTail ==
    ASSUME NEW lg \in Logs, NEW all \in Seq(Payloads), NEW new \in Seq(Payloads),
           IsTail(lg, all)
    PROVE  Push(lg, new) \in Logs /\ IsTail(Push(lg, new), all \o new)
<1> DEFINE added == [i \in 1 .. Len(new) |-> [cursor |-> lg.next_cursor + i - 1, payload |-> new[i]]]
           both == lg.entries \o added
           excess == IF Len(both) > Capacity THEN Len(both) - Capacity ELSE 0
           n == Len(lg.entries)
           drop == lg.dropped_before
<1>1. /\ n \in Nat /\ Len(new) \in Nat /\ Len(all) \in Nat /\ Capacity \in Nat \ {0}
      /\ lg.entries \in Seq(Entries) /\ lg.next_cursor \in Nat /\ drop \in Nat
  BY LiveApiAssumption, LenProperties DEF Logs
<1>2. /\ n <= Capacity /\ drop + n = Len(all) /\ lg.next_cursor = Len(all) + 1
      /\ \A i \in 1 .. n : lg.entries[i] = [cursor |-> drop + i, payload |-> all[drop + i]]
  BY DEF IsTail
<1> HIDE DEF n, drop
<1>3. \A i \in 1 .. Len(new) : new[i] \in Payloads
  BY ElementOfSeq
<1>4. added \in Seq(Entries) /\ Len(added) = Len(new)
      /\ \A i \in 1 .. Len(new) : added[i] = [cursor |-> Len(all) + i, payload |-> new[i]]
  <2>1. \A i \in 1 .. Len(new) : added[i] \in Entries /\ lg.next_cursor + i - 1 = Len(all) + i
    BY <1>1, <1>2, <1>3 DEF Entries
  <2>2. added \in [1 .. Len(new) -> Entries]
    BY <2>1
  <2>3. added \in Seq(Entries)
    BY <2>2, <1>1, SeqDef, Zenon
  <2>4. Len(added) = Len(new)
    BY <2>2, <1>1
  <2> QED
    BY <2>1, <2>3, <2>4
<1> HIDE DEF added
<1>5. /\ both \in Seq(Entries) /\ Len(both) = n + Len(new)
      /\ \A i \in 1 .. n + Len(new) : both[i] = IF i <= n THEN lg.entries[i] ELSE added[i - n]
  <2>1. /\ lg.entries \o added \in Seq(Entries)
        /\ Len(lg.entries \o added) = Len(lg.entries) + Len(added)
        /\ \A i \in 1 .. Len(lg.entries) + Len(added) : (lg.entries \o added)[i] =
                IF i <= Len(lg.entries) THEN lg.entries[i] ELSE added[i - Len(lg.entries)]
    BY <1>1, <1>4, ConcatProperties
  <2> QED
    BY <2>1, <1>4 DEF n
<1>6. /\ all \o new \in Seq(Payloads) /\ Len(all \o new) = Len(all) + Len(new)
      /\ \A i \in 1 .. Len(all) + Len(new) :
            (all \o new)[i] = IF i <= Len(all) THEN all[i] ELSE new[i - Len(all)]
  BY <1>1, ConcatProperties
<1>7. \A i \in 1 .. n + Len(new) : both[i] = [cursor |-> drop + i, payload |-> (all \o new)[drop + i]]
  <2> SUFFICES ASSUME NEW i \in 1 .. n + Len(new)
               PROVE  both[i] = [cursor |-> drop + i, payload |-> (all \o new)[drop + i]]
    OBVIOUS
  <2>1. drop + i \in 1 .. Len(all) + Len(new)
    BY <1>1, <1>2
  <2>2. CASE i <= n
    <3>1. drop + i <= Len(all) /\ i \in 1 .. n
      BY <2>2, <1>1, <1>2
    <3> QED
      BY <3>1, <2>1, <2>2, <1>2, <1>5, <1>6
  <2>3. CASE ~ (i <= n)
    <3>1. /\ ~ (drop + i <= Len(all)) /\ i - n \in 1 .. Len(new)
          /\ drop + i - Len(all) = i - n /\ Len(all) + (i - n) = drop + i
      <4> DEFINE m == Len(new)
                 a == Len(all)
      <4>1. m \in Nat /\ a \in Nat /\ n \in Nat /\ drop \in Nat /\ drop + n = a
        BY <1>1, <1>2
      <4> HIDE DEF m, a
      <4>2. i \in 1 .. n + m
        BY DEF m
      <4>3. ~ (drop + i <= a) /\ i - n \in 1 .. m /\ drop + i - a = i - n /\ a + (i - n) = drop + i
        BY <4>1, <4>2, <2>3
      <4> QED
        BY <4>3 DEF m, a
    <3>2. both[i] = added[i - n] /\ (all \o new)[drop + i] = new[i - n]
      BY <3>1, <2>1, <2>3, <1>5, <1>6
    <3> QED
      BY <3>1, <3>2, <1>4
  <2> QED
    BY <2>2, <2>3
<1> HIDE DEF both
<1>8. /\ excess \in Nat /\ excess <= n + Len(new)
      /\ n + Len(new) - excess <= Capacity
      /\ excess = 0 \/ excess \in 1 .. n + Len(new)
  BY <1>1, <1>2, <1>5
<1> HIDE DEF excess
<1> DEFINE kept == SubSeq(both, excess + 1, Len(both))
<1>9. /\ kept \in Seq(Entries) /\ Len(kept) = n + Len(new) - excess
      /\ \A i \in 1 .. n + Len(new) - excess : kept[i] = both[excess + i]
  <2>1. \A i \in excess + 1 .. Len(both) : both[i] \in Entries
    BY <1>5, <1>8, ElementOfSeq
  <2>2. excess + 1 \in Int /\ Len(both) \in Int
    BY <1>1, <1>5, <1>8
  <2>3. /\ kept \in Seq(Entries)
        /\ Len(kept) = IF excess + 1 <= Len(both) THEN Len(both) - (excess + 1) + 1 ELSE 0
        /\ \A i \in 1 .. Len(both) - (excess + 1) + 1 : kept[i] = both[(excess + 1) + i - 1]
    BY <2>1, <2>2, SubSeqProperties
  <2> QED
    BY <2>3, <1>1, <1>5, <1>8
<1> HIDE DEF kept
<1> DEFINE result == Push(lg, new)
<1>10. /\ result = [entries |-> kept, next_cursor |-> lg.next_cursor + Len(new),
                    dropped_before |-> IF excess > 0 THEN both[excess].cursor ELSE drop]
  BY DEF Push, kept, excess, both, added, drop
<1>11. result.dropped_before = drop + excess
  <2>1. CASE excess = 0
    BY <2>1, <1>1, <1>10
  <2>2. CASE excess # 0
    <3>1. excess \in 1 .. n + Len(new) /\ excess > 0
      BY <2>2, <1>1, <1>8
    <3>2. both[excess] = [cursor |-> drop + excess, payload |-> (all \o new)[drop + excess]]
      BY <3>1, <1>7
    <3>3. both[excess].cursor = drop + excess
      BY <3>2
    <3> QED
      BY <3>1, <3>3, <1>10
  <2> QED
    BY <2>1, <2>2
<1>12. result \in Logs
  BY <1>1, <1>8, <1>9, <1>10, <1>11 DEF Logs
<1>13. \A i \in 1 .. Len(kept) :
        kept[i] = [cursor |-> drop + excess + i, payload |-> (all \o new)[drop + excess + i]]
  <2> SUFFICES ASSUME NEW i \in 1 .. Len(kept)
               PROVE  kept[i] = [cursor |-> drop + excess + i, payload |-> (all \o new)[drop + excess + i]]
    OBVIOUS
  <2>1. /\ i \in 1 .. n + Len(new) - excess /\ excess + i \in 1 .. n + Len(new)
        /\ drop + (excess + i) = drop + excess + i
    BY <1>1, <1>8, <1>9
  <2> QED
    BY <2>1, <1>7, <1>9
<1>14. IsTail(result, all \o new)
  <2>1. result.entries = kept /\ result.next_cursor = lg.next_cursor + Len(new)
    BY <1>10
  <2>2. Len(kept) <= Capacity
    BY <1>8, <1>9
  <2>3. result.dropped_before + Len(kept) = Len(all \o new)
    <3> DEFINE m == Len(new)
               a == Len(all)
               b == Len(all \o new)
               d == result.dropped_before
               k == Len(kept)
    <3>1. /\ m \in Nat /\ a \in Nat /\ n \in Nat /\ drop \in Nat /\ excess \in Nat
          /\ drop + n = a /\ b = a + m /\ k = n + m - excess /\ d = drop + excess
      BY <1>1, <1>2, <1>6, <1>8, <1>9, <1>11
    <3> HIDE DEF m, a, b, d, k, result
    <3>2. d + k = b
      BY <3>1
    <3> QED
      BY <3>2 DEF d, k, b
  <2>4. result.next_cursor = Len(all \o new) + 1
    BY <2>1, <1>1, <1>2, <1>6
  <2> HIDE DEF result
  <2> QED
    BY <2>1, <2>2, <2>3, <2>4, <1>11, <1>13 DEF IsTail
<1> QED
  BY <1>12, <1>14

-----------------------------------------------------------------------------
(* A response *)

\* A response carries the deltas from the client's cursor, or from the first one
\* retained, up to the cursor it tells the client to go on from.
LEMMA ResponseIsFaithful ==
    ASSUME log \in Logs, pushed \in Seq(Payloads), IsTail(log, pushed),
           NEW c \in Nat, c <= Len(pushed)
    PROVE  /\ Floor(c) \in c .. Len(pushed) /\ Floor(c) >= log.dropped_before
           /\ Response(c).next \in Floor(c) .. Len(pushed)
           /\ Response(c).taken = Feed!Numbered(Floor(c) + 1, Response(c).next)
<1> DEFINE n == Len(log.entries)
           drop == log.dropped_before
           len == Len(pushed)
           floor == Floor(c)
<1>1. /\ n \in Nat /\ drop \in Nat /\ len \in Nat /\ drop + n = len /\ c \in Nat /\ c <= len
      /\ Limit \in Nat \ {0} /\ log.entries \in Seq(Entries)
      /\ \A i \in 1 .. n : log.entries[i] = [cursor |-> drop + i, payload |-> pushed[drop + i]]
  BY LiveApiAssumption, LenProperties DEF Logs, IsTail
<1>2. DOMAIN log.entries = 1 .. n
  BY <1>1, LenProperties
<1>3. floor = IF c < drop THEN drop ELSE c
  BY DEF Floor
<1> HIDE DEF n, drop, len, floor
<1>4. floor \in c .. len /\ floor >= drop
  BY <1>1, <1>3
<1> DEFINE g == floor - drop
           m == IF n <= g + Limit THEN n ELSE g + Limit
<1>5. g \in 0 .. n /\ m \in g .. n /\ drop + g = floor /\ (m = g => g = n)
  BY <1>1, <1>4
<1> DEFINE newer == {i \in DOMAIN log.entries : log.entries[i].cursor > floor}
           chosen == {j \in newer : Cardinality({k \in newer : k <= j}) <= Limit}
<1>6. newer = g + 1 .. n
  <2>1. ASSUME NEW i \in 1 .. n
        PROVE  log.entries[i].cursor = drop + i
    <3>1. log.entries[i] = [cursor |-> drop + i, payload |-> pushed[drop + i]]
      BY <1>1
    <3> QED
      BY <3>1
  <2>2. \A i \in 1 .. n : drop + i > floor <=> i \in g + 1 .. n
    BY <1>1, <1>4
  <2>3. g + 1 .. n \subseteq 1 .. n
    BY <1>5, <1>1
  <2> QED
    BY <1>2, <2>1, <2>2, <2>3
<1>7. chosen = g + 1 .. m
  <2>1. ASSUME NEW j \in g + 1 .. n
        PROVE  Cardinality({k \in newer : k <= j}) = j - g
    <3>1. {k \in newer : k <= j} = g + 1 .. j
      BY <1>1, <1>5, <1>6
    <3>2. g + 1 \in Int /\ j \in Int /\ g + 1 <= j
      BY <1>1, <1>5
    <3>3. Cardinality(g + 1 .. j) = j - (g + 1) + 1
      BY <3>2, FS_Interval
    <3>4. g \in Int /\ j - (g + 1) + 1 = j - g
      BY <3>2, <1>5
    <3> HIDE DEF newer, g
    <3> QED
      BY <3>1, <3>3, <3>4
  <2>2. ASSUME NEW j \in g + 1 .. n
        PROVE  j - g <= Limit <=> j \in g + 1 .. m
    BY <1>1, <1>5
  <2>3. g + 1 .. m \subseteq g + 1 .. n
    BY <1>1, <1>5
  <2> HIDE DEF newer, m, g
  <2> QED
    BY <1>6, <2>1, <2>2, <2>3
<1>8. Taken(c) = {log.entries[i] : i \in g + 1 .. m}
  BY <1>7 DEF Taken, floor
<1> HIDE DEF newer, chosen, m, g
<1>9. Taken(c) = Feed!Numbered(floor + 1, drop + m)
  <2> DEFINE Delta(k) == [cursor |-> k, payload |-> pushed[k]]
  <2>1. ASSUME NEW i \in g + 1 .. m
        PROVE  log.entries[i] = Delta(drop + i) /\ drop + i \in floor + 1 .. drop + m
    <3>1. i \in 1 .. n /\ drop + i \in floor + 1 .. drop + m
      BY <1>1, <1>5
    <3> QED
      BY <3>1, <1>1
  <2>2. ASSUME NEW k \in floor + 1 .. drop + m
        PROVE  k - drop \in g + 1 .. m /\ drop + (k - drop) = k
    BY <1>1, <1>4, <1>5
  <2>3. Feed!Numbered(floor + 1, drop + m) = {Delta(k) : k \in floor + 1 .. drop + m}
    BY DEF Feed!Numbered
  <2> HIDE DEF Delta
  <2>4. ASSUME NEW k \in floor + 1 .. drop + m
        PROVE  Delta(k) \in {log.entries[i] : i \in g + 1 .. m}
    BY <2>1, <2>2
  <2>5. {log.entries[i] : i \in g + 1 .. m} \subseteq {Delta(k) : k \in floor + 1 .. drop + m}
    BY <2>1
  <2>6. {Delta(k) : k \in floor + 1 .. drop + m} \subseteq {log.entries[i] : i \in g + 1 .. m}
    BY <2>4
  <2> QED
    BY <1>8, <2>3, <2>5, <2>6
<1>10. LastCursor(Taken(c), floor) = drop + m
  <2>1. CASE m = g
    <3>1. drop + m = floor /\ floor + 1 .. drop + m = {}
      BY <2>1, <1>1, <1>5
    <3>2. Taken(c) = {}
      BY <3>1, <1>9 DEF Feed!Numbered
    <3> QED
      BY <3>1, <3>2 DEF LastCursor
  <2>2. CASE m # g
    <3>1. drop + m \in floor + 1 .. drop + m
      BY <2>2, <1>1, <1>5
    <3> DEFINE Delta(k) == [cursor |-> k, payload |-> pushed[k]]
    <3>a. Taken(c) = {Delta(k) : k \in floor + 1 .. drop + m}
      BY <1>9 DEF Feed!Numbered
    <3>b. \A k : Delta(k).cursor = k
      OBVIOUS
    <3> HIDE DEF Delta
    <3>3. \A d \in Taken(c) : d.cursor \in floor + 1 .. drop + m
      BY <3>a, <3>b
    <3>4. \A k \in floor + 1 .. drop + m : \E d \in Taken(c) : d.cursor = k
      BY <3>a, <3>b
    <3>2. Taken(c) # {} /\ {d.cursor : d \in Taken(c)} = floor + 1 .. drop + m
      BY <3>1, <3>3, <3>4
    <3>5. drop + m \in Int /\ floor \in Int
      BY <1>1, <1>4, <1>5
    <3>6. \A k \in floor + 1 .. drop + m :
            (\A d \in Taken(c) : d.cursor <= k) <=> k = drop + m
      BY <3>1, <3>3, <3>4, <3>5
    <3>7. (CHOOSE k \in floor + 1 .. drop + m : \A d \in Taken(c) : d.cursor <= k) = drop + m
      BY <3>1, <3>6
    <3> QED
      BY <3>2, <3>7 DEF LastCursor
  <2> QED
    BY <2>1, <2>2
<1>11. drop + m \in floor .. len
  BY <1>1, <1>4, <1>5
<1>12. Response(c).taken = Taken(c) /\ Response(c).next = drop + m
  BY <1>10 DEF Response, floor
<1> QED
  BY <1>4, <1>9, <1>11, <1>12 DEF floor, drop, len

-----------------------------------------------------------------------------
(* The inductive invariant *)

\* A client is never ahead of the log, nor told of a gap beyond its cursor.
CursorsInside ==
    \A c \in Clients : cursor[c] <= Len(pushed) /\ lost[c] <= cursor[c]

\* Who says that the run is complete, says it after the snapshot: the pipeline
\* before and in its call, the core, the responses; content is attached once.
SnapshotFirst ==
    /\ pc[Pipeline] = "attach" => backend = "None"
    /\ pc[Pipeline] = "complete" => backend = "Snapshot"
    /\ pc[Pipeline] = "write" /\ call[Pipeline].kind = "status" /\ call[Pipeline].run_status = "Completed"
            => backend = "Snapshot"
    /\ \A u \in Users : pc[u] = "write" => call[u].kind # "status"
    /\ core.run_status = "Completed" => backend = "Snapshot"
    /\ CompletedMeansSnapshot

IInv == TypeOK /\ WindowIsTheTail /\ CursorsInside /\ SnapshotFirst

\* The two ways to write that the log is the end of the history agree.
LEMMA WindowIsIsTail ==
    ASSUME TypeOK
    PROVE  /\ log \in Logs /\ pushed \in Seq(Payloads)
           /\ WindowIsTheTail <=> IsTail(log, pushed)
<1>1. log \in Logs /\ pushed \in Seq(Payloads)
  BY DEF TypeOK, Logs, Entries
<1>2. DOMAIN log.entries = 1 .. Len(log.entries)
  BY <1>1, LenProperties DEF Logs
<1> QED
  BY <1>1, <1>2 DEF WindowIsTheTail, IsTail

\* The threads with a role of their own, and the places they are in.
LEMMA Roles ==
    ASSUME TypeOK
    PROVE  /\ Pipeline \in Threads /\ Clients \subseteq Threads /\ Users \subseteq Threads
           /\ Pipeline \notin Clients /\ Pipeline \notin Users /\ Clients \cap Users = {}
           /\ DOMAIN pc = Threads /\ DOMAIN call = Threads /\ DOMAIN deltas = Threads
           /\ \A t \in Threads : pc[t] \in ClientPlaces <=> t \in Clients
  BY LiveApiAssumption DEF TypeOK, Threads

\* The initial states.
LEMMA InitOK == Init => IInv
<1> SUFFICES ASSUME Init PROVE IInv
  OBVIOUS
<1>1. Pipeline \notin Clients /\ Pipeline \notin Users /\ Clients \cap Users = {}
  BY LiveApiAssumption
<1>2. <<>> \in Seq(Payloads) /\ <<>> \in Seq([cursor : Nat, payload : Payloads]) /\ Len(<<>>) = 0
  BY EmptySeq
<1>3. core.view = [s \in Streams |-> NoRow] /\ core.run_status = "Running"
      /\ core \in [view : [Streams -> Rows], run_status : Statuses]
  BY DEF Init, NoRow, Rows, Statuses
<1>4. \A s \in Streams : core.view[s].favorite => Tracked(core.view, s)
  BY <1>3 DEF NoRow
<1>5. TypeOK
  BY <1>1, <1>2, <1>3, <1>4 DEF Init, TypeOK, Threads, ClientPlaces, WriterPlaces
<1>6. WindowIsTheTail
  BY <1>2, LiveApiAssumption DEF Init, WindowIsTheTail
<1>7. CursorsInside
  BY <1>2 DEF Init, CursorsInside
<1>8. SnapshotFirst
  BY <1>1, <1>3 DEF Init, SnapshotFirst, CompletedMeansSnapshot, NoReply, Threads
<1> QED
  BY <1>5, <1>6, <1>7, <1>8 DEF IInv

\* What a call does to the core and appends to the log has its type: a row is
\* only ever marked as a favorite when it is there.
LEMMA CallIsTyped ==
    ASSUME TypeOK, NEW what \in Requests
    PROVE  /\ Touched(what) \subseteq Streams
           /\ Updated(what) \in [view : [Streams -> Rows], run_status : Statuses]
           /\ \A s \in Streams : Updated(what).view[s].favorite => Tracked(Updated(what).view, s)
           /\ DeltasOf(what, Updated(what).view, Touched(what)) \in Seq(Payloads)
<1> DEFINE touched == Touched(what)
           new == Updated(what)
<1>1. /\ what.kind \in {"events", "queue", "patch", "status", "stats", "rules"}
      /\ what.kind = "events" => what.updated \in SUBSET Streams /\ what.matched \in SUBSET Streams
      /\ what.kind = "patch" => what.stream \in Streams /\ what.favorite \in BOOLEAN
      /\ what.kind = "status" => what.run_status \in Statuses
  BY DEF Requests
<1>2. touched \subseteq Streams
  BY <1>1 DEF Touched
<1>3. what.kind = "patch" => \A s \in touched : Tracked(core.view, s)
  BY <1>1 DEF Touched
<1>4. core.view \in [Streams -> Rows] /\ core.run_status \in Statuses
      /\ core \in [view : [Streams -> Rows], run_status : Statuses]
      /\ \A s \in Streams : core.view[s].favorite => Tracked(core.view, s)
  BY DEF TypeOK
<1> DEFINE row(s) == IF s \in touched THEN Changed(core.view[s], what) ELSE core.view[s]
<1>5. new = [view |-> [s \in Streams |-> row(s)],
             run_status |-> IF what.kind = "status" THEN what.run_status ELSE core.run_status]
  BY <1>4 DEF Updated
<1> HIDE DEF new, touched
<1>6. \A s \in Streams : row(s) \in Rows /\ (row(s).favorite => row(s).updates > 0)
  <2> SUFFICES ASSUME NEW s \in Streams
               PROVE  row(s) \in Rows /\ (row(s).favorite => row(s).updates > 0)
    OBVIOUS
  <2>1. core.view[s] \in Rows /\ (core.view[s].favorite => core.view[s].updates > 0)
    BY <1>4 DEF Tracked
  <2>2. CASE s \notin touched
    BY <2>1, <2>2
  <2>3. CASE s \in touched /\ what.kind = "patch"
    BY <2>1, <2>3, <1>1, <1>3 DEF Rows, Tracked, Changed
  <2>4. CASE s \in touched /\ what.kind # "patch"
    BY <2>1, <2>4 DEF Rows, Changed
  <2> QED
    BY <2>2, <2>3, <2>4
<1> HIDE DEF row
<1>7. new.view = [s \in Streams |-> row(s)] /\ new.view \in [Streams -> Rows]
      /\ new \in [view : [Streams -> Rows], run_status : Statuses]
  BY <1>1, <1>4, <1>5, <1>6
<1>8. \A s \in Streams : new.view[s].favorite => Tracked(new.view, s)
  BY <1>6, <1>7 DEF Tracked
<1>9. RowsDelta(new.view, touched) \in Seq(Payloads)
  <2>1. [kind |-> "Streams", rows |-> {[stream |-> s, row |-> new.view[s]] : s \in touched}] \in Payloads
    BY <1>2, <1>7 DEF Payloads
  <2> QED
    BY <2>1 DEF RowsDelta
<1>10. \A k \in {"Stats", "Queue", "Matches"} : <<[kind |-> k]>> \in Seq(Payloads)
  <2>1. \A k \in {"Stats", "Queue", "Matches"} : [kind |-> k] \in Payloads
    BY DEF Payloads
  <2> QED
    BY <2>1
<1>11. what.kind = "status" => <<[kind |-> "Status", run_status |-> what.run_status]>> \in Seq(Payloads)
  <2>1. what.kind = "status" => [kind |-> "Status", run_status |-> what.run_status] \in Payloads
    BY <1>1 DEF Payloads
  <2> QED
    BY <2>1
<1>12. <<>> \in Seq(Payloads)
  BY EmptySeq
<1>13. \A a, b \in Seq(Payloads) : a \o b \in Seq(Payloads)
  BY ConcatProperties
<1>14. DeltasOf(what, new.view, touched) \in Seq(Payloads)
  <2> DEFINE rowsDelta == RowsDelta(new.view, touched)
             matches == IF what.matched = {} THEN <<>> ELSE <<[kind |-> "Matches"]>>
             stats == <<[kind |-> "Stats"]>>
  <2>1. rowsDelta \in Seq(Payloads) /\ matches \in Seq(Payloads) /\ stats \in Seq(Payloads)
    BY <1>9, <1>10, <1>12
  <2>2. CASE what.kind = "events"
    <3>1. DeltasOf(what, new.view, touched) = rowsDelta \o matches \o stats
      BY <2>2 DEF DeltasOf
    <3> HIDE DEF rowsDelta, matches, stats
    <3> QED
      BY <3>1, <2>1, <1>13
  <2>3. CASE what.kind = "patch"
    <3>1. DeltasOf(what, new.view, touched) = IF touched = {} THEN <<>> ELSE rowsDelta \o stats
      BY <2>3 DEF DeltasOf
    <3> HIDE DEF rowsDelta, stats
    <3> QED
      BY <3>1, <2>1, <1>12, <1>13
  <2>4. CASE what.kind = "queue"
    BY <2>4, <1>10, <1>12 DEF DeltasOf
  <2>5. CASE what.kind = "status"
    BY <2>5, <1>11 DEF DeltasOf
  <2>6. CASE what.kind \in {"stats", "rules"}
    BY <2>6, <1>10 DEF DeltasOf
  <2> QED
    BY <1>1, <2>2, <2>3, <2>4, <2>5, <2>6
<1> QED
  BY <1>2, <1>7, <1>8, <1>14 DEF new, touched

-----------------------------------------------------------------------------
(* A step keeps the types *)

\* A thread that goes to a place of its own kind, and not to one that holds the
\* log's Mutex unless it was free, leaves the places well typed.
LEMMA GotoIsTyped ==
    ASSUME TypeOK, NEW t \in Threads, NEW place \in ClientPlaces \cup WriterPlaces, Goto(t, place),
           place \in ClientPlaces <=> t \in Clients,
           place \in {"pollCore", "againCore"} => DeltasFree
    PROVE  /\ pc' \in [Threads -> ClientPlaces \cup WriterPlaces]
           /\ \A u \in Threads : pc'[u] \in ClientPlaces <=> u \in Clients
           /\ \A u, v \in Threads :
                pc'[u] \in {"pollCore", "againCore"} /\ pc'[v] \in {"pollCore", "againCore"} => u = v
           /\ \A u \in Threads : pc'[u] = "write" => (u = t /\ place = "write") \/ pc[u] = "write"
  BY DEF TypeOK, Goto, DeltasFree

\* Making a call.
LEMMA BeginKeepsTypes == ASSUME TypeOK, Begin PROVE TypeOK'
<1>1. \A t \in Threads \ Clients, what \in Requests : Call(t, what) =>
        /\ pc' \in [Threads -> ClientPlaces \cup WriterPlaces]
        /\ \A u \in Threads : pc'[u] \in ClientPlaces <=> u \in Clients
        /\ \A u, v \in Threads :
             pc'[u] \in {"pollCore", "againCore"} /\ pc'[v] \in {"pollCore", "againCore"} => u = v
        /\ DOMAIN call' = Threads /\ \A u \in Threads : pc'[u] = "write" => call'[u] \in Requests
  <2> SUFFICES ASSUME NEW t \in Threads \ Clients, NEW what \in Requests, Call(t, what)
               PROVE  /\ pc' \in [Threads -> ClientPlaces \cup WriterPlaces]
                      /\ \A u \in Threads : pc'[u] \in ClientPlaces <=> u \in Clients
                      /\ \A u, v \in Threads :
                           pc'[u] \in {"pollCore", "againCore"} /\ pc'[v] \in {"pollCore", "againCore"} => u = v
                      /\ DOMAIN call' = Threads /\ \A u \in Threads : pc'[u] = "write" => call'[u] \in Requests
    OBVIOUS
  <2>1. "write" \in WriterPlaces /\ "write" \notin ClientPlaces
    BY DEF WriterPlaces, ClientPlaces
  <2>2. Goto(t, "write") /\ call' = [call EXCEPT ![t] = what]
    BY DEF Call
  <2>3. DOMAIN call = Threads /\ \A u \in Threads : pc[u] = "write" => call[u] \in Requests
    BY DEF TypeOK
  <2> QED
    BY <2>1, <2>2, <2>3, GotoIsTyped
<1>2. /\ \A updated, matched \in SUBSET Streams : [kind |-> "events", updated |-> updated, matched |-> matched] \in Requests
      /\ \A emit_delta \in BOOLEAN : [kind |-> "queue", emit_delta |-> emit_delta] \in Requests
      /\ \A s \in Streams, favorite \in BOOLEAN : [kind |-> "patch", stream |-> s, favorite |-> favorite] \in Requests
      /\ \A st \in Statuses : [kind |-> "status", run_status |-> st] \in Requests
      /\ [kind |-> "stats"] \in Requests /\ [kind |-> "rules"] \in Requests
  BY DEF Requests
<1>3. Pipeline \in Threads \ Clients /\ Users \subseteq Threads \ Clients
  BY Roles
<1>4. "Completed" \in Statuses /\ "Failed" \in Statuses
  BY DEF Statuses
<1>5. CASE AttachContent
  <2>1. "idle" \in WriterPlaces /\ "idle" \notin ClientPlaces
    BY DEF WriterPlaces, ClientPlaces
  <2>2. Goto(Pipeline, "idle")
    BY <1>5 DEF AttachContent
  <2> QED
    BY <1>3, <1>5, <2>1, <2>2, GotoIsTyped DEF AttachContent, TypeOK, clientVars, pipelineVars
<1>6. CASE SnapshotContent
  <2>1. "complete" \in WriterPlaces /\ "complete" \notin ClientPlaces
    BY DEF WriterPlaces, ClientPlaces
  <2>2. Goto(Pipeline, "complete")
    BY <1>6 DEF SnapshotContent
  <2> QED
    BY <1>3, <1>6, <2>1, <2>2, GotoIsTyped DEF SnapshotContent, TypeOK, clientVars, pipelineVars
<1>7. ASSUME NEW t \in Threads \ Clients, NEW what \in Requests, Call(t, what),
             UNCHANGED <<core, backend, log, deltas, clientVars, pushed>>
      PROVE  TypeOK'
  BY <1>1, <1>7 DEF TypeOK, clientVars
<1>8. CASE PublishStats
  BY <1>2, <1>3, <1>7, <1>8 DEF PublishStats
<1>9. CASE MarkCompleted
  BY <1>2, <1>3, <1>4, <1>7, <1>9 DEF MarkCompleted
<1>10. CASE MarkFailed
  BY <1>2, <1>3, <1>4, <1>7, <1>10 DEF MarkFailed
<1>11. ASSUME NEW updated \in SUBSET Streams, NEW matched \in SUBSET Streams, PublishEvents(updated, matched)
       PROVE  TypeOK'
  BY <1>2, <1>3, <1>7, <1>11 DEF PublishEvents
<1>12. ASSUME NEW emit_delta \in BOOLEAN, PublishQueue(emit_delta)
       PROVE  TypeOK'
  BY <1>2, <1>3, <1>7, <1>12 DEF PublishQueue
<1>13. ASSUME NEW u \in Users, NEW s \in Streams, NEW favorite \in BOOLEAN, EditStream(u, s, favorite)
       PROVE  TypeOK'
  BY <1>2, <1>3, <1>7, <1>13 DEF EditStream
<1>14. ASSUME NEW u \in Users, EditRules(u)
       PROVE  TypeOK'
  BY <1>2, <1>3, <1>7, <1>14 DEF EditRules
<1> QED
  BY <1>5, <1>6, <1>8, <1>9, <1>10, <1>11, <1>12, <1>13, <1>14 DEF Begin

\* Carrying a call out.
LEMMA WriteKeepsTypes ==
    ASSUME TypeOK, WindowIsTheTail, NEW t \in {Pipeline} \cup Users, Write(t)
    PROVE  TypeOK' /\ WindowIsTheTail'
<1>1. t \in Threads /\ t \notin Clients
  BY Roles
<1>2. /\ After(t) \in WriterPlaces /\ After(t) \notin ClientPlaces /\ After(t) # "write"
      /\ "append" \in WriterPlaces /\ "append" \notin ClientPlaces
      /\ "againDeltas" \in ClientPlaces
  BY DEF After, WriterPlaces, ClientPlaces
<1>3. CASE UpdateCore(t)
  <2> DEFINE next == DeltasOf(call[t], Updated(call[t]).view, Touched(call[t]))
             place == IF next = <<>> THEN After(t) ELSE "append"
  <2>1. /\ core' = Updated(call[t])
        /\ deltas' = [deltas EXCEPT ![t] = next]
        /\ call' = [call EXCEPT ![t] = IF next = <<>> THEN NoCall ELSE [kind |-> @.kind]]
        /\ Goto(t, place)
        /\ UNCHANGED <<backend, log, cursor, lost, got, reply, pushed>>
    BY <1>3 DEF UpdateCore, clientVars
  <2>2. call[t] \in Requests
    BY <1>1, <1>3 DEF UpdateCore, TypeOK
  <2>3. /\ core' \in [view : [Streams -> Rows], run_status : Statuses]
        /\ \A s \in Streams : core'.view[s].favorite => Tracked(core'.view, s)
        /\ next \in Seq(Payloads)
    BY <2>1, <2>2, CallIsTyped
  <2> HIDE DEF next
  <2>4. deltas' \in [Threads -> Seq(Payloads)]
    BY <2>1, <2>3 DEF TypeOK
  <2>5. place \in WriterPlaces /\ place \notin ClientPlaces /\ place # "write"
    BY <1>2
  <2>6. /\ pc' \in [Threads -> ClientPlaces \cup WriterPlaces]
        /\ \A u \in Threads : pc'[u] \in ClientPlaces <=> u \in Clients
        /\ \A u, v \in Threads :
             pc'[u] \in {"pollCore", "againCore"} /\ pc'[v] \in {"pollCore", "againCore"} => u = v
        /\ \A u \in Threads : pc'[u] = "write" => u # t /\ pc[u] = "write"
    <3> HIDE DEF place
    <3>0. place \in {"pollCore", "againCore"} => DeltasFree
      BY <2>5 DEF ClientPlaces
    <3>1. pc'[t] = place
      BY <1>1, <2>1 DEF Goto, TypeOK
    <3> QED
      BY <1>1, <2>1, <2>5, <3>0, <3>1, GotoIsTyped
  <2>7. DOMAIN call' = Threads /\ \A u \in Threads : pc'[u] = "write" => call'[u] \in Requests
    BY <2>1, <2>6 DEF TypeOK
  <2>8. TypeOK'
    BY <2>1, <2>3, <2>4, <2>6, <2>7 DEF TypeOK, Tracked
  <2>9. WindowIsTheTail'
    BY <2>1 DEF WindowIsTheTail
  <2> QED
    BY <2>8, <2>9
<1>4. CASE AppendDeltas(t)
  <2>1. /\ log' = Push(log, deltas[t]) /\ pushed' = pushed \o deltas[t]
        /\ deltas' = [deltas EXCEPT ![t] = <<>>]
        /\ call' = [call EXCEPT ![t] = NoCall]
        /\ pc' = [u \in Threads |-> IF u = t THEN After(t) ELSE IF pc[u] = "wait" THEN "againDeltas" ELSE pc[u]]
        /\ UNCHANGED <<core, backend, cursor, lost, got, reply>>
    BY <1>4 DEF AppendDeltas, clientVars
  <2>2. deltas[t] \in Seq(Payloads) /\ <<>> \in Seq(Payloads)
    BY <1>1, EmptySeq DEF TypeOK
  <2>3. log \in Logs /\ pushed \in Seq(Payloads) /\ IsTail(log, pushed)
    BY WindowIsIsTail
  <2>4. log' \in Logs /\ IsTail(log', pushed')
    BY <2>1, <2>2, <2>3, PushKeepsTail
  <2>5. pushed' \in Seq(Payloads)
    BY <2>1, <2>2, <2>3, ConcatProperties
  <2>6. deltas' \in [Threads -> Seq(Payloads)]
    BY <2>1, <2>2 DEF TypeOK
  <2>7. /\ pc' \in [Threads -> ClientPlaces \cup WriterPlaces]
        /\ \A u \in Threads : pc'[u] \in ClientPlaces <=> u \in Clients
    BY <1>1, <1>2, <2>1 DEF TypeOK, ClientPlaces
  <2>8. \A u \in Threads : pc'[u] \in {"write", "pollCore", "againCore"} => pc[u] = pc'[u] /\ u # t
    BY <1>1, <1>2, <2>1 DEF ClientPlaces
  <2>9. DOMAIN call' = Threads /\ \A u \in Threads : pc'[u] = "write" => call'[u] \in Requests
    BY <2>1, <2>8 DEF TypeOK
  <2>10. TypeOK'
    BY <2>1, <2>4, <2>5, <2>6, <2>7, <2>8, <2>9 DEF TypeOK, Logs, Entries
  <2>11. DOMAIN log'.entries = 1 .. Len(log'.entries)
    BY <2>4, LenProperties DEF Logs
  <2>12. WindowIsTheTail'
    BY <2>4, <2>11 DEF WindowIsTheTail, IsTail
  <2> QED
    BY <2>10, <2>12
<1> QED
  BY <1>3, <1>4 DEF Write

\* A response, and what the client keeps of it.
LEMMA AnswerIsTyped ==
    ASSUME TypeOK, WindowIsTheTail, CursorsInside, NEW c \in Clients, Answer(c, Response(cursor[c]))
    PROVE  /\ cursor' \in [Clients -> Nat] /\ lost' \in [Clients -> Nat]
           /\ DOMAIN got' = Clients /\ DOMAIN reply' = Clients
           /\ Goto(c, "reload") \/ Goto(c, "telemetry")
           /\ Response(cursor[c]).next \in Nat
<1> DEFINE response == Response(cursor[c])
<1>1. log \in Logs /\ pushed \in Seq(Payloads) /\ IsTail(log, pushed)
  BY WindowIsIsTail
<1>2. cursor[c] \in Nat /\ cursor[c] <= Len(pushed) /\ Len(pushed) \in Nat
  BY <1>1, LenProperties DEF TypeOK, CursorsInside
<1>3. Floor(cursor[c]) \in cursor[c] .. Len(pushed) /\ response.next \in Floor(cursor[c]) .. Len(pushed)
  BY <1>1, <1>2, ResponseIsFaithful
<1>4. response.next \in Nat /\ log.dropped_before \in Nat
  BY <1>1, <1>2, <1>3 DEF Logs
<1> HIDE DEF response
<1> QED
  BY <1>4 DEF Answer, TypeOK, response

\* A front end's steps.
LEMMA FrontEndKeepsTypes ==
    ASSUME TypeOK, WindowIsTheTail, CursorsInside, NEW c \in Clients, FrontEnd(c)
    PROVE  TypeOK' /\ WindowIsTheTail'
<1>1. c \in Threads
  BY Roles
<1>2. ClientPlaces = {"reload", "telemetry", "pollDeltas", "pollCore", "register", "wait",
                      "againDeltas", "againCore", "healthDeltas"}
  BY DEF ClientPlaces
<1>3. ASSUME NEW place \in ClientPlaces, Goto(c, place),
             place \in {"pollCore", "againCore"} => DeltasFree
      PROVE  /\ pc' \in [Threads -> ClientPlaces \cup WriterPlaces]
             /\ \A u \in Threads : pc'[u] \in ClientPlaces <=> u \in Clients
             /\ \A u, v \in Threads :
                  pc'[u] \in {"pollCore", "againCore"} /\ pc'[v] \in {"pollCore", "againCore"} => u = v
             /\ \A u \in Threads : pc'[u] = "write" => pc[u] = "write"
  BY <1>1, <1>2, <1>3, GotoIsTyped
<1>4. ASSUME NEW place \in ClientPlaces, Goto(c, place),
             place \in {"pollCore", "againCore"} => DeltasFree,
             UNCHANGED <<core, backend, log, call, deltas, pushed>>,
             cursor' \in [Clients -> Nat], lost' \in [Clients -> Nat],
             DOMAIN got' = Clients, DOMAIN reply' = Clients
      PROVE  TypeOK' /\ WindowIsTheTail'
  BY <1>3, <1>4 DEF TypeOK, WindowIsTheTail
<1>5. ASSUME UNCHANGED clientVars
      PROVE  /\ cursor' \in [Clients -> Nat] /\ lost' \in [Clients -> Nat]
             /\ DOMAIN got' = Clients /\ DOMAIN reply' = Clients
  BY <1>5 DEF TypeOK, clientVars
<1>6. CASE LockDeltas(c)
  BY <1>2, <1>4, <1>5, <1>6 DEF LockDeltas
<1>7. ASSUME Answer(c, Response(cursor[c])), UNCHANGED <<core, backend, log, call, deltas, pushed>>
      PROVE  TypeOK' /\ WindowIsTheTail'
  BY <1>2, <1>4, <1>7, AnswerIsTyped
<1>8. CASE FirstResponse(c)
  BY <1>2, <1>4, <1>5, <1>7, <1>8 DEF FirstResponse
<1>9. CASE SecondResponse(c)
  BY <1>7, <1>9 DEF SecondResponse
<1>10. CASE Register(c) \/ Timeout(c)
  BY <1>2, <1>4, <1>5, <1>10 DEF Register, Timeout
<1>11. CASE Reload(c)
  BY <1>2, <1>4, <1>11 DEF Reload, TypeOK
<1>12. CASE SkipHealth(c) \/ LockCore(c) \/ HealthResponse(c)
  BY <1>2, <1>4, <1>5, <1>12 DEF SkipHealth, LockCore, HealthResponse
<1> QED
  BY <1>6, <1>8, <1>9, <1>10, <1>11, <1>12 DEF FrontEnd

\* The type invariant is kept, and the log stays the end of the history.
LEMMA StepKeepsTypes ==
    ASSUME TypeOK, WindowIsTheTail, CursorsInside, [Next]_vars
    PROVE  TypeOK' /\ WindowIsTheTail'
<1>1. CASE Begin
  <2>1. UNCHANGED <<log, pushed>>
    BY <1>1 DEF Begin, AttachContent, PublishStats, SnapshotContent, MarkCompleted, MarkFailed,
                PublishEvents, PublishQueue, EditStream, EditRules
  <2> QED
    BY <1>1, <2>1, BeginKeepsTypes DEF WindowIsTheTail
<1>2. CASE \E t \in {Pipeline} \cup Users : Write(t)
  BY <1>2, WriteKeepsTypes
<1>3. CASE \E c \in Clients : FrontEnd(c)
  BY <1>3, FrontEndKeepsTypes
<1>4. CASE UNCHANGED vars
  BY <1>4 DEF vars, TypeOK, WindowIsTheTail, Tracked
<1> QED
  BY <1>1, <1>2, <1>3, <1>4 DEF Next

-----------------------------------------------------------------------------
(* A step of the live API is a step of the feed, or none *)

\* Only a response that says something changes what a client has: else a step of
\* a front end leaves the cursor, what was sent and what was reported.
LEMMA FrontEndAnswers ==
    ASSUME NEW c \in Clients, FrontEnd(c)
    PROVE  /\ pushed' = pushed
           /\ UNCHANGED <<cursor, got, lost>> \/ Answer(c, Response(cursor[c]))
  BY DEF FrontEnd, LockDeltas, FirstResponse, Register, Timeout, SecondResponse, Reload, SkipHealth,
         LockCore, HealthResponse, clientVars

\* What a response does to a client is a read of the feed.
LEMMA AnswerReads ==
    ASSUME TypeOK, WindowIsTheTail, CursorsInside, NEW c \in Clients,
           Answer(c, Response(cursor[c])), UNCHANGED pushed
    PROVE  Feed!Next /\ CursorsInside'
<1> DEFINE response == Response(cursor[c])
           floor == Floor(cursor[c])
           drop == log.dropped_before
           len == Len(pushed)
           l == IF response.missed THEN drop ELSE lost[c]
           n == response.next
<1>1. log \in Logs /\ pushed \in Seq(Payloads) /\ IsTail(log, pushed)
  BY WindowIsIsTail
<1>2. /\ cursor[c] \in Nat /\ cursor[c] <= len /\ len \in Nat /\ drop \in Nat
      /\ lost[c] \in Nat /\ lost[c] <= cursor[c]
  BY <1>1, LenProperties DEF TypeOK, CursorsInside, Logs
<1>3. /\ floor \in cursor[c] .. len /\ floor >= drop /\ n \in floor .. len
      /\ response.taken = Feed!Numbered(floor + 1, n)
  BY <1>1, <1>2, ResponseIsFaithful
<1>4. /\ l = IF cursor[c] < drop THEN drop ELSE lost[c]
      /\ floor = IF cursor[c] < drop THEN drop ELSE cursor[c]
  BY DEF Response, Floor
<1>5. /\ cursor' = [cursor EXCEPT ![c] = n]
      /\ lost' = [lost EXCEPT ![c] = l]
      /\ got' = [got EXCEPT ![c] = @ \cup response.taken]
  BY DEF Answer
<1> HIDE DEF response, floor, drop, len, n, l
<1>6. l = lost[c] \/ l > cursor[c]
  BY <1>2, <1>4
<1>7. floor = IF l > cursor[c] THEN l ELSE cursor[c]
  BY <1>2, <1>4
<1>8. l \in 0 .. len /\ n \in cursor[c] .. len /\ l <= n
  BY <1>2, <1>3, <1>4
<1>9. Feed!Read(c, l, n)
  BY <1>3, <1>5, <1>6, <1>7 DEF Feed!Read
<1>10. Feed!Next
  BY <1>8, <1>9 DEF Feed!Next, len
<1>11. CursorsInside'
  <2>1. cursor \in [Clients -> Nat] /\ lost \in [Clients -> Nat]
    BY DEF TypeOK
  <2>2. n <= len /\ l <= n
    BY <1>2, <1>8
  <2> QED
    BY <1>5, <2>1, <2>2 DEF CursorsInside, len
<1> QED
  BY <1>10, <1>11

\* Every step: clients stay within the log, and the feed sees a step or none.
LEMMA StepIsAFeedStep ==
    ASSUME TypeOK, WindowIsTheTail, CursorsInside, [Next]_vars
    PROVE  [Feed!Next]_(Feed!vars) /\ CursorsInside'
<1>1. ASSUME UNCHANGED <<pushed, cursor, got, lost>>
      PROVE  [Feed!Next]_(Feed!vars) /\ CursorsInside'
  BY <1>1 DEF Feed!vars, CursorsInside
<1>2. CASE Begin
  <2>1. UNCHANGED <<pushed, cursor, got, lost>>
    BY <1>2 DEF Begin, AttachContent, PublishStats, SnapshotContent, MarkCompleted, MarkFailed,
                PublishEvents, PublishQueue, EditStream, EditRules, clientVars
  <2> QED
    BY <1>1, <2>1
<1>3. ASSUME NEW t \in {Pipeline} \cup Users, UpdateCore(t)
      PROVE  [Feed!Next]_(Feed!vars) /\ CursorsInside'
  <2>1. UNCHANGED <<pushed, cursor, got, lost>>
    BY <1>3 DEF UpdateCore, clientVars
  <2> QED
    BY <1>1, <2>1
<1>4. ASSUME NEW t \in {Pipeline} \cup Users, AppendDeltas(t)
      PROVE  [Feed!Next]_(Feed!vars) /\ CursorsInside'
  <2> DEFINE new == deltas[t]
  <2>1. pushed' = pushed \o new /\ UNCHANGED <<cursor, got, lost>>
    BY <1>4 DEF AppendDeltas, clientVars
  <2>2. t \in Threads
    BY Roles
  <2>3. new \in Seq(Payloads) /\ pushed \in Seq(Payloads)
    BY <2>2 DEF TypeOK
  <2>4. Len(new) \in Nat /\ Len(pushed) \in Nat /\ Len(pushed') = Len(pushed) + Len(new)
    BY <2>1, <2>3, LenProperties, ConcatProperties
  <2> HIDE DEF new
  <2>5. CASE new = <<>>
    <3>1. pushed' = pushed
      BY <2>1, <2>3, <2>5, ConcatEmptySeq
    <3> QED
      BY <1>1, <2>1, <3>1
  <2>6. CASE new # <<>>
    <3>1. Len(pushed') > Len(pushed)
      <4>1. Len(new) # 0
        BY <2>3, <2>6, EmptySeq
      <4> QED
        BY <2>4, <4>1
    <3>2. SubSeq(pushed', 1, Len(pushed)) = pushed
      <4> DEFINE a == Len(pushed)
                 first == SubSeq(pushed', 1, a)
      <4>1. /\ pushed' \in Seq(Payloads)
            /\ \A i \in 1 .. Len(pushed) + Len(new) :
                  pushed'[i] = IF i <= Len(pushed) THEN pushed[i] ELSE new[i - Len(pushed)]
        BY <2>1, <2>3, ConcatProperties
      <4>2. \A i \in 1 .. a : pushed'[i] \in Payloads /\ pushed'[i] = pushed[i]
        <5>1. \A i \in 1 .. a : i \in 1 .. Len(pushed) + Len(new) /\ i <= Len(pushed)
          BY <2>4
        <5> QED
          BY <5>1, <4>1, <2>3, ElementOfSeq
      <4>3. a \in Nat /\ a \in Int /\ 1 \in Int
        BY <2>4
      <4>4. /\ first \in Seq(Payloads)
            /\ Len(first) = IF 1 <= a THEN a - 1 + 1 ELSE 0
            /\ \A i \in 1 .. a - 1 + 1 : first[i] = pushed'[1 + i - 1]
        BY <4>2, <4>3, SubSeqProperties
      <4>5. Len(first) = a /\ \A i \in 1 .. a : first[i] = pushed[i]
        BY <4>2, <4>3, <4>4
      <4> HIDE DEF first
      <4>6. first = pushed
        BY <2>3, <4>4, <4>5, SeqEqual
      <4> QED
        BY <4>6 DEF first
    <3>3. Feed!Publish
      BY <2>1, <3>1, <3>2 DEF Feed!Publish
    <3>4. CursorsInside'
      BY <2>1, <2>4 DEF CursorsInside, TypeOK
    <3> QED
      BY <3>3, <3>4 DEF Feed!Next
  <2> QED
    BY <2>5, <2>6
<1>5. ASSUME NEW c \in Clients, FrontEnd(c)
      PROVE  [Feed!Next]_(Feed!vars) /\ CursorsInside'
  BY <1>1, <1>5, FrontEndAnswers, AnswerReads
<1>6. CASE UNCHANGED vars
  BY <1>1, <1>6 DEF vars
<1> QED
  BY <1>2, <1>3, <1>4, <1>5, <1>6 DEF Next, Write

-----------------------------------------------------------------------------
(* Nothing is skipped in silence *)

\* A step of the feed keeps the promise.
LEMMA FeedStepSkipsNothing ==
    ASSUME TypeOK, CursorsInside, Feed!NothingSkippedSilently, [Feed!Next]_(Feed!vars),
           DOMAIN got = Clients
    PROVE  Feed!NothingSkippedSilently'
<1>1. /\ pushed \in Seq(Payloads) /\ Len(pushed) \in Nat
      /\ cursor \in [Clients -> Nat] /\ lost \in [Clients -> Nat]
      /\ \A c \in Clients : cursor[c] <= Len(pushed)
      /\ \A c \in Clients : \A i \in 1 .. cursor[c] :
            i > lost[c] => [cursor |-> i, payload |-> pushed[i]] \in got[c]
  BY LenProperties DEF TypeOK, CursorsInside, Feed!NothingSkippedSilently
<1>2. CASE Feed!Publish
  <2>1. /\ UNCHANGED <<cursor, lost, got>>
        /\ Len(pushed') > Len(pushed) /\ SubSeq(pushed', 1, Len(pushed)) = pushed
    BY <1>2 DEF Feed!Publish
  <2>2. \A i \in 1 .. Len(pushed) : pushed'[i] = pushed[i]
    <3> DEFINE a == Len(pushed)
               first == SubSeq(pushed', 1, a)
    <3>1. first = [i \in 1 .. a |-> pushed'[i]]
      BY <1>1
    <3>2. \A i \in 1 .. a : first[i] = pushed'[i]
      BY <3>1
    <3> QED
      BY <2>1, <3>2
  <2>3. \A c \in Clients : \A i \in 1 .. cursor[c] : i \in 1 .. Len(pushed)
    BY <1>1
  <2> QED
    BY <1>1, <2>1, <2>2, <2>3 DEF Feed!NothingSkippedSilently
<1>3. ASSUME NEW c \in Clients, NEW l \in 0 .. Len(pushed), NEW n \in cursor[c] .. Len(pushed),
             l <= n, Feed!Read(c, l, n)
      PROVE  Feed!NothingSkippedSilently'
  <2> DEFINE first == (IF l > cursor[c] THEN l ELSE cursor[c]) + 1
  <2>1. /\ l = lost[c] \/ l > cursor[c]
        /\ cursor' = [cursor EXCEPT ![c] = n]
        /\ lost' = [lost EXCEPT ![c] = l]
        /\ got' = [got EXCEPT ![c] = @ \cup Feed!Numbered(first, n)]
        /\ pushed' = pushed
    BY <1>3 DEF Feed!Read
  <2>2. SUFFICES ASSUME NEW d \in Clients, NEW i \in 1 .. cursor'[d], i > lost'[d]
                 PROVE  [cursor |-> i, payload |-> pushed[i]] \in got'[d]
    BY <2>1 DEF Feed!NothingSkippedSilently
  <2>3. CASE d # c
    BY <1>1, <2>1, <2>2, <2>3
  <2>4. CASE d = c
    <3>1. /\ i \in 1 .. n /\ i > l
          /\ got'[d] = got[c] \cup Feed!Numbered(first, n)
      BY <1>1, <2>1, <2>2, <2>4
    <3>2. CASE i <= cursor[c]
      <4>1. i \in 1 .. cursor[c] /\ i > lost[c]
        BY <1>1, <2>1, <3>1, <3>2
      <4> QED
        BY <1>1, <3>1, <4>1
    <3>3. CASE i > cursor[c]
      <4>1. i \in first .. n
        BY <1>1, <3>1, <3>3
      <4> HIDE DEF first
      <4>2. [cursor |-> i, payload |-> pushed[i]] \in Feed!Numbered(first, n)
        BY <4>1 DEF Feed!Numbered
      <4> QED
        BY <3>1, <4>2
    <3> QED
      BY <1>1, <3>1, <3>2, <3>3
  <2> QED
    BY <2>3, <2>4
<1>4. CASE UNCHANGED Feed!vars
  BY <1>4 DEF Feed!vars, Feed!NothingSkippedSilently
<1> QED
  BY <1>2, <1>3, <1>4 DEF Feed!Next

-----------------------------------------------------------------------------
(* A run is complete only after the snapshot *)

\* A step keeps the order of the snapshot and of everything that says complete.
LEMMA StepKeepsSnapshotFirst ==
    ASSUME TypeOK, SnapshotFirst, [Next]_vars
    PROVE  SnapshotFirst'
<1>1. /\ Pipeline \in Threads /\ Clients \subseteq Threads /\ Users \subseteq Threads
      /\ Pipeline \notin Clients /\ Pipeline \notin Users /\ Clients \cap Users = {}
      /\ DOMAIN pc = Threads /\ DOMAIN call = Threads /\ DOMAIN reply = Clients
  BY Roles DEF TypeOK
<1>2. CASE AttachContent
  <2>1. backend # "Snapshot" /\ backend' = "Sharded"
    BY <1>2 DEF AttachContent, SnapshotFirst
  <2>2. pc' = [pc EXCEPT ![Pipeline] = "idle"] /\ UNCHANGED <<core, call, reply>>
    BY <1>2 DEF AttachContent, Goto, clientVars
  <2> QED
    BY <1>1, <2>1, <2>2 DEF SnapshotFirst, CompletedMeansSnapshot
<1>3. CASE SnapshotContent
  BY <1>1, <1>3 DEF SnapshotContent, Goto, clientVars, SnapshotFirst, CompletedMeansSnapshot
<1>4. CASE PublishStats
  BY <1>1, <1>4 DEF PublishStats, Call, Goto, clientVars, SnapshotFirst, CompletedMeansSnapshot
<1>5. CASE MarkCompleted
  BY <1>1, <1>5 DEF MarkCompleted, Call, Goto, clientVars, SnapshotFirst, CompletedMeansSnapshot
<1>6. CASE MarkFailed
  BY <1>1, <1>6 DEF MarkFailed, Call, Goto, clientVars, SnapshotFirst, CompletedMeansSnapshot
<1>7. CASE \E updated, matched \in SUBSET Streams : PublishEvents(updated, matched)
  BY <1>1, <1>7 DEF PublishEvents, Call, Goto, clientVars, SnapshotFirst, CompletedMeansSnapshot
<1>8. CASE \E emit_delta \in BOOLEAN : PublishQueue(emit_delta)
  BY <1>1, <1>8 DEF PublishQueue, Call, Goto, clientVars, SnapshotFirst, CompletedMeansSnapshot
<1>9. CASE \E u \in Users : \/ \E s \in Streams, favorite \in BOOLEAN : EditStream(u, s, favorite)
                            \/ EditRules(u)
  BY <1>1, <1>9 DEF EditStream, EditRules, Call, Goto, clientVars, SnapshotFirst, CompletedMeansSnapshot
<1>10. ASSUME NEW t \in {Pipeline} \cup Users, UpdateCore(t)
       PROVE  SnapshotFirst'
  <2>1. /\ pc[t] = "write" /\ core' = Updated(call[t])
        /\ \E place \in {"append", "idle", "done"} : pc' = [pc EXCEPT ![t] = place]
        /\ \A u \in Threads \ {t} : call'[u] = call[u]
        /\ UNCHANGED <<backend, reply>>
    BY <1>1, <1>10 DEF UpdateCore, Goto, After, clientVars
  <2>2. core'.run_status = IF call[t].kind = "status" THEN call[t].run_status ELSE core.run_status
    BY <2>1 DEF Updated
  <2>3. core'.run_status = "Completed" => backend = "Snapshot"
    BY <1>1, <2>1, <2>2 DEF SnapshotFirst
  <2>4. \A u \in Threads : pc'[u] \in {"attach", "complete", "write"} => u # t /\ pc[u] = pc'[u]
    BY <1>1, <2>1
  <2> QED
    BY <1>1, <2>1, <2>3, <2>4 DEF SnapshotFirst, CompletedMeansSnapshot
<1>11. ASSUME NEW t \in {Pipeline} \cup Users, AppendDeltas(t)
       PROVE  SnapshotFirst'
  <2>1. /\ pc' = [u \in Threads |-> IF u = t THEN After(t) ELSE IF pc[u] = "wait" THEN "againDeltas" ELSE pc[u]]
        /\ \A u \in Threads \ {t} : call'[u] = call[u]
        /\ UNCHANGED <<core, backend, reply>>
    BY <1>1, <1>11 DEF AppendDeltas, clientVars
  <2>2. \A u \in Threads : pc'[u] \in {"attach", "complete", "write"} => u # t /\ pc[u] = pc'[u]
    BY <1>1, <2>1 DEF After
  <2> QED
    BY <1>1, <2>1, <2>2 DEF SnapshotFirst, CompletedMeansSnapshot
<1>12. ASSUME NEW c \in Clients, FrontEnd(c)
       PROVE  SnapshotFirst'
  <2>1. /\ UNCHANGED <<core, backend, call>>
        /\ pc' = pc \/ \E place \in ClientPlaces : pc' = [pc EXCEPT ![c] = place]
    BY <1>12 DEF FrontEnd, LockDeltas, FirstResponse, Register, Timeout, SecondResponse, Reload,
                 SkipHealth, LockCore, HealthResponse, Answer, Goto, ClientPlaces
  <2>2. \A t \in Threads \ Clients : pc'[t] = pc[t]
    BY <1>1, <2>1
  <2>3. \/ reply' = reply
        \/ Answer(c, Response(cursor[c]))
        \/ reply' = [reply EXCEPT ![c] = [held |-> {}, run_status |-> @.run_status]]
    BY <1>12 DEF FrontEnd, LockDeltas, FirstResponse, Register, Timeout, SecondResponse, Reload,
                 SkipHealth, LockCore, HealthResponse, clientVars
  <2>4. CompletedMeansSnapshot'
    <3>1. CASE reply' = reply
      BY <2>1, <3>1 DEF SnapshotFirst, CompletedMeansSnapshot
    <3>2. CASE Answer(c, Response(cursor[c]))
      <4>1. Response(cursor[c]).run_status = core.run_status
        BY DEF Response
      <4>2. \A d \in Clients : reply'[d].run_status = IF d = c THEN core.run_status ELSE reply[d].run_status
        BY <1>1, <3>2, <4>1 DEF Answer
      <4> QED
        BY <2>1, <4>2 DEF SnapshotFirst, CompletedMeansSnapshot
    <3>3. CASE reply' = [reply EXCEPT ![c] = [held |-> {}, run_status |-> @.run_status]]
      <4>1. \A d \in Clients : reply'[d].run_status = reply[d].run_status
        BY <1>1, <3>3
      <4> QED
        BY <2>1, <4>1 DEF SnapshotFirst, CompletedMeansSnapshot
    <3> QED
      BY <2>3, <3>1, <3>2, <3>3
  <2> QED
    BY <1>1, <2>1, <2>2, <2>4 DEF SnapshotFirst
<1>13. CASE UNCHANGED vars
  BY <1>13 DEF vars, SnapshotFirst, CompletedMeansSnapshot
<1> QED
  BY <1>2, <1>3, <1>4, <1>5, <1>6, <1>7, <1>8, <1>9, <1>10, <1>11, <1>12, <1>13 DEF Next, Begin, Write

-----------------------------------------------------------------------------
(* The rows a front end shows *)

\* The delta has a row of the stream; one of a thread's deltas has.
About(delta, s) == delta.kind = "Streams" /\ \E r \in delta.rows : r.stream = s
HasRow(some, s) == \E i \in DOMAIN some : About(some[i], s)

\* Every row of the stream in the delta is this one.
Shows(delta, s, row) == \A r \in delta.rows : r.stream = s => r.row = row

\* Nothing about the stream was published between the two cursors.
Silent(all, first, last, s) == \A i \in first .. last : ~ About(all[i], s)

\* Of the deltas between two cursors, the last about the stream has this row.
LastShows(first, last, s, row) ==
    \A i \in first .. last :
        About(pushed[i], s) /\ Silent(pushed, i + 1, last, s) => Shows(pushed[i], s, row)

\* It has, or there is none and the rows already have it.
Settles(old, first, last, s, row) ==
    LastShows(first, last, s, row) /\ (Silent(pushed, first, last, s) => old[s] = row)

\* A changed row of the stream waits to be appended to the log.
Awaited(s) == \E t \in Threads : HasRow(deltas[t], s)

\* Only a thread on its way to the log has deltas in hand.
DeltasInHand == \A t \in Threads : deltas[t] # <<>> => pc[t] = "append"

\* Rows of an unraced stream are in one hand, and are the core's.
AwaitedRowsShow ==
    \A s \in Streams \ raced : \A t \in Threads : HasRow(deltas[t], s) =>
        /\ \A u \in Threads : HasRow(deltas[u], s) => u = t
        /\ \A i \in DOMAIN deltas[t] : About(deltas[t][i], s) => Shows(deltas[t][i], s, core.view[s])

\* When none is in hand, the last that was published of it is the core's.
PushedRowsShow ==
    \A s \in Streams \ raced : ~ Awaited(s) => LastShows(1, Len(pushed), s, core.view[s])

\* A front end that has seen that one has the core's row.
ClientRowsShow ==
    \A c \in Clients : pc[c] # "reload" =>
        \A s \in Streams \ raced :
            ~ Awaited(s) /\ Silent(pushed, cursor[c] + 1, Len(pushed), s) => rows[c][s] = core.view[s]

\* A front end about to load the list holds the last deltas up to its cursor.
HeldIsTheEnd ==
    \A c \in Clients : pc[c] = "reload" =>
        \E k \in 0 .. cursor[c] : reply[c].held = Feed!Numbered(k + 1, cursor[c])

RowsInv ==
    /\ DOMAIN rows = Clients
    /\ DeltasInHand /\ AwaitedRowsShow /\ PushedRowsShow /\ ClientRowsShow /\ HeldIsTheEnd

\* A nonempty bounded set of numbers has a greatest element.
LEMMA GreatestElement ==
    ASSUME NEW S \in SUBSET Nat, S # {}, NEW n \in Nat, \A x \in S : x <= n
    PROVE  \E m \in S : \A x \in S : x <= m
<1> DEFINE bounds == {k \in Nat : \A x \in S : x <= k}
<1>1. n \in bounds
  OBVIOUS
<1>2. PICK m \in bounds : \A k \in bounds : m <= k
  <2>1. bounds \in SUBSET Nat /\ bounds # {}
    BY <1>1
  <2> HIDE DEF bounds
  <2> QED
    BY <2>1, LeastElement
<1>3. m \in S
  <2> SUFFICES ASSUME m \notin S
               PROVE  FALSE
    OBVIOUS
  <2>1. m \in Nat /\ \A x \in S : x \in Nat /\ x <= m /\ x # m
    BY <1>2
  <2>2. PICK x \in S : x \in Nat /\ x <= m /\ x # m
    BY <2>1
  <2>3. m - 1 \in Nat /\ ~ (m <= m - 1)
    BY <2>1, <2>2
  <2>4. m - 1 \in bounds
    BY <2>1, <2>3
  <2> HIDE DEF bounds
  <2> QED
    BY <2>3, <2>4, <1>2
<1> QED
  BY <1>2, <1>3

\* A client that plays the deltas between two cursors into rows has the core's row
\* of the stream, if the last of them about it has, or else the rows had.
LEMMA ReplayShows ==
    ASSUME NEW old, NEW first \in Nat, NEW b \in Nat, NEW s \in Streams, NEW row,
           Settles(old, first, b, s, row)
    PROVE  Replay(old, Feed!Numbered(first, b))[s] = row
<1> DEFINE Delta(k) == [cursor |-> k, payload |-> pushed[k]]
           taken == Feed!Numbered(first, b)
           about == {d \in taken : d.payload.kind = "Streams" /\ \E r \in d.payload.rows : r.stream = s}
           latest == CHOOSE d \in about : \A e \in about : e.cursor <= d.cursor
           numbers == {i \in first .. b : About(pushed[i], s)}
<1>1. taken = {Delta(k) : k \in first .. b}
  BY DEF Feed!Numbered
<1>2. \A k : Delta(k).cursor = k /\ Delta(k).payload = pushed[k]
  OBVIOUS
<1>3. Replay(old, taken)[s] =
        IF about = {} THEN old[s] ELSE (CHOOSE r \in latest.payload.rows : r.stream = s).row
  BY DEF Replay
<1> HIDE DEF Delta, taken
<1>4. about = {Delta(k) : k \in numbers}
  BY <1>1, <1>2 DEF About
<1> HIDE DEF about
<1>5. CASE numbers = {}
  <2>1. Silent(pushed, first, b, s)
    BY <1>5 DEF Silent
  <2>2. about = {}
    BY <1>4, <1>5
  <2> QED
    BY <1>3, <2>1, <2>2 DEF taken, Settles
<1>6. CASE numbers # {}
  <2>1. numbers \in SUBSET Nat /\ \A k \in numbers : k <= b
    OBVIOUS
  <2>2. PICK m \in numbers : \A k \in numbers : k <= m
    <3> HIDE DEF numbers
    <3> QED
      BY <1>6, <2>1, GreatestElement
  <2>3. Delta(m) \in about /\ \A e \in about : e.cursor <= Delta(m).cursor
    BY <1>2, <1>4, <2>2
  <2>4. latest \in about /\ \A e \in about : e.cursor <= latest.cursor
    BY <2>3
  <2> HIDE DEF latest
  <2>5. PICK k \in numbers : latest = Delta(k)
    BY <1>4, <2>4
  <2>6. \A j \in numbers : j <= k
    BY <1>2, <1>4, <2>4, <2>5
  <2>7. k \in first .. b /\ About(pushed[k], s)
    OBVIOUS
  <2>8. Silent(pushed, k + 1, b, s)
    <3>1. \A j \in k + 1 .. b : j \in first .. b /\ ~ (j <= k)
      BY <2>7
    <3> QED
      BY <2>6, <3>1 DEF Silent
  <2>9. Shows(pushed[k], s, row) /\ \E r \in pushed[k].rows : r.stream = s
    BY <2>7, <2>8 DEF About, LastShows, Settles
  <2>10. latest.payload = pushed[k] /\ about # {}
    BY <1>2, <2>4, <2>5
  <2>11. (CHOOSE r \in pushed[k].rows : r.stream = s).row = row
    BY <2>9 DEF Shows
  <2> QED
    BY <1>3, <2>10, <2>11 DEF taken
<1> QED
  BY <1>5, <1>6

\* The initial states.
LEMMA InitRows == Init => RowsInv
<1> SUFFICES ASSUME Init PROVE RowsInv
  OBVIOUS
<1>1. DeltasInHand /\ DOMAIN rows = Clients
  BY DEF Init, DeltasInHand
<1>2. DOMAIN <<>> = {} /\ Len(<<>>) = 0
  OBVIOUS
<1>3. \A t \in Threads : \A s : ~ HasRow(deltas[t], s)
  BY <1>2 DEF Init, HasRow
<1>4. AwaitedRowsShow /\ PushedRowsShow
  BY <1>2, <1>3 DEF Init, AwaitedRowsShow, PushedRowsShow, LastShows
<1>5. ClientRowsShow
  BY LiveApiAssumption DEF Init, ClientRowsShow, Threads
<1>6. HeldIsTheEnd
  <2>1. ASSUME NEW c \in Clients
        PROVE  0 \in 0 .. cursor[c] /\ reply[c].held = Feed!Numbered(0 + 1, cursor[c])
    BY DEF Init, NoReply, Feed!Numbered
  <2> QED
    BY <2>1 DEF HeldIsTheEnd
<1> QED
  BY <1>1, <1>4, <1>5, <1>6 DEF RowsInv

\* A step of a front end does nothing to the rows in the core, in hand or in the log.
LEMMA SharedRowsAreLeftAlone ==
    ASSUME RowsInv, UNCHANGED <<core, deltas, pushed, raced>>,
           \A t \in Threads : pc[t] = "append" => pc'[t] = "append"
    PROVE  DeltasInHand' /\ AwaitedRowsShow' /\ PushedRowsShow'
<1>1. DeltasInHand'
  BY DEF RowsInv, DeltasInHand
<1>2. AwaitedRowsShow'
  BY DEF RowsInv, AwaitedRowsShow
<1>3. PushedRowsShow'
  BY DEF RowsInv, PushedRowsShow, Awaited, LastShows
<1> QED
  BY <1>1, <1>2, <1>3

\* A step that leaves the rows, the deltas and the cursors alone.
LEMMA RowsAreLeftAlone ==
    ASSUME RowsInv, UNCHANGED <<core, deltas, pushed, raced, cursor, rows, reply>>,
           \A t \in Threads : pc[t] = "append" => pc'[t] = "append",
           \A c \in Clients : pc'[c] = "reload" <=> pc[c] = "reload"
    PROVE  RowsInv'
<1>1. ClientRowsShow'
  BY DEF RowsInv, ClientRowsShow, Awaited
<1>2. HeldIsTheEnd'
  BY DEF RowsInv, HeldIsTheEnd, Feed!Numbered
<1> QED
  BY <1>1, <1>2, SharedRowsAreLeftAlone DEF RowsInv

\* Up to a cursor after which nothing more was published of an unraced stream.
LEMMA NewestShows ==
    ASSUME RowsInv, NEW s \in Streams \ raced, ~ Awaited(s), Len(pushed) \in Nat,
           NEW b \in Nat, b <= Len(pushed), Silent(pushed, b + 1, Len(pushed), s)
    PROVE  /\ \A a \in Nat : LastShows(a + 1, b, s, core.view[s])
           /\ \A a \in Nat : Silent(pushed, a + 1, b, s) => Silent(pushed, a + 1, Len(pushed), s)
<1>1. ASSUME NEW a \in Nat, Silent(pushed, a + 1, b, s)
      PROVE  Silent(pushed, a + 1, Len(pushed), s)
  <2>1. \A i \in a + 1 .. Len(pushed) : i \in a + 1 .. b \/ i \in b + 1 .. Len(pushed)
    OBVIOUS
  <2> QED
    BY <1>1, <2>1 DEF Silent
<1>2. \A a \in Nat : \A i \in a + 1 .. b : i \in Nat /\ i \in 1 .. Len(pushed)
  OBVIOUS
<1> QED
  BY <1>1, <1>2 DEF RowsInv, PushedRowsShow, LastShows

\* Rows that are the core's as far as they go, brought up to such a cursor.
LEMMA PlayedRowsShow ==
    ASSUME RowsInv, NEW s \in Streams \ raced, ~ Awaited(s), Len(pushed) \in Nat,
           NEW n \in Nat, n <= Len(pushed), Silent(pushed, n + 1, Len(pushed), s),
           NEW c \in Clients, pc[c] # "reload", cursor[c] \in Nat
    PROVE  Replay(rows[c], Feed!Numbered(cursor[c] + 1, n))[s] = core.view[s]
<1>1. PICK old, row, first : old = rows[c] /\ row = core.view[s] /\ first = cursor[c] + 1
  OBVIOUS
<1>2. first \in Nat /\ Settles(old, first, n, s, row)
  <2>1. Silent(pushed, first, n, s) => Silent(pushed, first, Len(pushed), s)
    BY <1>1, NewestShows
  <2>2. LastShows(first, n, s, row)
    BY <1>1, NewestShows
  <2>3. Silent(pushed, first, Len(pushed), s) => old[s] = row
    BY <1>1 DEF RowsInv, ClientRowsShow
  <2> QED
    BY <1>1, <2>1, <2>2, <2>3 DEF Settles
<1>3. Replay(old, Feed!Numbered(first, n))[s] = row
  BY <1>2, ReplayShows
<1> QED
  BY <1>1, <1>3

\* A response that reports no gap: the client has the core's rows up to its cursor.
\* One that reports a gap: it holds the last deltas up to there.
LEMMA AnswerKeepsRows ==
    ASSUME TypeOK, WindowIsTheTail, CursorsInside, RowsInv, NEW c \in Clients, pc[c] # "reload",
           Answer(c, Response(cursor[c])), UNCHANGED <<core, deltas, pushed, raced>>
    PROVE  RowsInv'
<1> DEFINE response == Response(cursor[c])
           floor == Floor(cursor[c])
           drop == log.dropped_before
           len == Len(pushed)
           n == response.next
           place == IF response.missed THEN "reload" ELSE "telemetry"
<1>1. log \in Logs /\ pushed \in Seq(Payloads) /\ IsTail(log, pushed)
  BY WindowIsIsTail
<1>2. cursor[c] \in Nat /\ cursor[c] <= len /\ len \in Nat /\ drop \in Nat
  BY <1>1, LenProperties DEF TypeOK, CursorsInside, Logs
<1>3. floor \in cursor[c] .. len /\ n \in floor .. len /\ response.taken = Feed!Numbered(floor + 1, n)
  BY <1>1, <1>2, ResponseIsFaithful
<1>4. ~ response.missed => floor = cursor[c]
  BY DEF Response, Floor
<1>5. /\ cursor' = [cursor EXCEPT ![c] = n]
      /\ reply' = [reply EXCEPT ![c] = [held |-> IF response.missed THEN response.taken ELSE {},
                                        run_status |-> response.run_status]]
      /\ rows' = IF response.missed THEN rows ELSE [rows EXCEPT ![c] = Replay(@, response.taken)]
      /\ pc' = [pc EXCEPT ![c] = place]
  BY DEF Answer, Goto
<1> HIDE DEF response, floor, drop, len, n
<1>6. /\ c \in Threads /\ Clients \subseteq Threads /\ pc[c] # "append" /\ DOMAIN pc = Threads
      /\ DOMAIN cursor = Clients /\ DOMAIN reply = Clients /\ DOMAIN rows = Clients
  BY Roles DEF TypeOK, ClientPlaces, RowsInv
<1>7. DeltasInHand' /\ AwaitedRowsShow' /\ PushedRowsShow'
  BY <1>5, <1>6, SharedRowsAreLeftAlone
<1>8. \A d \in Clients \ {c} : /\ pc'[d] = pc[d] /\ cursor'[d] = cursor[d]
                               /\ rows'[d] = rows[d] /\ reply'[d] = reply[d]
  BY <1>5, <1>6
<1>9. /\ cursor'[c] = n /\ pc'[c] = place /\ DOMAIN rows' = Clients
      /\ response.missed => reply'[c].held = response.taken
      /\ ~ response.missed => rows'[c] = Replay(rows[c], response.taken)
  BY <1>5, <1>6
<1>10. ClientRowsShow'
  <2> SUFFICES ASSUME NEW d \in Clients, pc'[d] # "reload", NEW s \in Streams \ raced,
                      ~ Awaited(s), Silent(pushed, cursor'[d] + 1, len, s)
               PROVE  rows'[d][s] = core.view[s]
    BY DEF ClientRowsShow, Awaited, len
  <2>1. CASE d # c
    BY <1>8, <2>1 DEF RowsInv, ClientRowsShow, len
  <2>2. CASE d = c
    <3>1. ~ response.missed /\ floor = cursor[c] /\ Silent(pushed, n + 1, len, s)
      BY <1>4, <1>9, <2>2
    <3>2. n \in Nat /\ n <= len
      BY <1>2, <1>3
    <3>3. Replay(rows[c], Feed!Numbered(cursor[c] + 1, n))[s] = core.view[s]
      BY <1>2, <3>1, <3>2, PlayedRowsShow DEF len
    <3> QED
      BY <1>3, <1>9, <2>2, <3>1, <3>3
  <2> QED
    BY <2>1, <2>2
<1>11. HeldIsTheEnd'
  <2> SUFFICES ASSUME NEW d \in Clients, pc'[d] = "reload"
               PROVE  \E k \in 0 .. cursor'[d] : reply'[d].held = Feed!Numbered(k + 1, cursor'[d])
    BY DEF HeldIsTheEnd, Feed!Numbered
  <2>1. CASE d # c
    BY <1>8, <2>1 DEF RowsInv, HeldIsTheEnd
  <2>2. CASE d = c
    <3>1. response.missed /\ reply'[d].held = Feed!Numbered(floor + 1, n) /\ cursor'[d] = n
      BY <1>3, <1>9, <2>2
    <3>2. floor \in 0 .. n
      BY <1>2, <1>3
    <3> QED
      BY <3>1, <3>2
  <2> QED
    BY <2>1, <2>2
<1> QED
  BY <1>7, <1>9, <1>10, <1>11 DEF RowsInv

\* The list, loaded and brought up to the cursor with the deltas held meanwhile.
LEMMA ReloadKeepsRows ==
    ASSUME TypeOK, CursorsInside, RowsInv, NEW c \in Clients, Reload(c)
    PROVE  RowsInv'
<1>1. /\ pc[c] = "reload" /\ pc' = [pc EXCEPT ![c] = "telemetry"]
      /\ rows' = [rows EXCEPT ![c] = Replay(core.view, reply[c].held)]
      /\ reply' = [reply EXCEPT ![c] = [held |-> {}, run_status |-> @.run_status]]
      /\ UNCHANGED <<core, deltas, pushed, raced, cursor>>
  BY DEF Reload, Goto
<1>2. /\ c \in Threads /\ Clients \subseteq Threads /\ DOMAIN pc = Threads
      /\ DOMAIN reply = Clients /\ DOMAIN rows = Clients
      /\ pushed \in Seq(Payloads) /\ Len(pushed) \in Nat
      /\ cursor[c] \in Nat /\ cursor[c] <= Len(pushed)
  BY Roles, LenProperties DEF TypeOK, RowsInv, CursorsInside
<1>3. DeltasInHand' /\ AwaitedRowsShow' /\ PushedRowsShow'
  BY <1>1, <1>2, SharedRowsAreLeftAlone
<1>4. \A d \in Clients \ {c} : pc'[d] = pc[d] /\ rows'[d] = rows[d] /\ reply'[d] = reply[d]
  BY <1>1, <1>2
<1>5. rows'[c] = Replay(core.view, reply[c].held) /\ pc'[c] = "telemetry" /\ DOMAIN rows' = Clients
  BY <1>1, <1>2
<1>6. PICK k \in 0 .. cursor[c] : reply[c].held = Feed!Numbered(k + 1, cursor[c])
  BY <1>1 DEF RowsInv, HeldIsTheEnd
<1>7. ClientRowsShow'
  <2> SUFFICES ASSUME NEW d \in Clients, pc'[d] # "reload", NEW s \in Streams \ raced,
                      ~ Awaited(s), Silent(pushed, cursor[d] + 1, Len(pushed), s)
               PROVE  rows'[d][s] = core.view[s]
    BY <1>1 DEF ClientRowsShow, Awaited
  <2>1. CASE d # c
    BY <1>4, <2>1 DEF RowsInv, ClientRowsShow
  <2>2. CASE d = c
    <3>1. k \in Nat
      BY <1>2
    <3>2. LastShows(k + 1, cursor[c], s, core.view[s])
      BY <1>2, <2>2, <3>1, NewestShows
    <3>3. Replay(core.view, Feed!Numbered(k + 1, cursor[c]))[s] = core.view[s]
      <4>1. PICK first : first = k + 1
        OBVIOUS
      <4>2. first \in Nat /\ Settles(core.view, first, cursor[c], s, core.view[s])
        BY <3>1, <3>2, <4>1 DEF Settles
      <4>3. Replay(core.view, Feed!Numbered(first, cursor[c]))[s] = core.view[s]
        BY <1>2, <4>2, ReplayShows
      <4> QED
        BY <4>1, <4>3
    <3> QED
      BY <1>5, <1>6, <2>2, <3>3
  <2> QED
    BY <2>1, <2>2
<1>8. HeldIsTheEnd'
  BY <1>1, <1>4, <1>5 DEF RowsInv, HeldIsTheEnd, Feed!Numbered
<1> QED
  BY <1>3, <1>5, <1>7, <1>8 DEF RowsInv

\* The deltas have the rows of the changed streams, as they are in the new view,
\* and of no other; the view is the core's but for these.
Tells(next, view, touched) ==
    /\ touched \subseteq Streams
    /\ \A s \in Streams \ touched : view[s] = core.view[s]
    /\ \A s \in touched : HasRow(next, s)
    /\ \A i \in DOMAIN next : \A s :
        About(next[i], s) => s \in touched /\ Shows(next[i], s, view[s])

\* A call that changes rows puts all it changed, and no other, into its deltas, as
\* they are after the change.
LEMMA CallTellsRows ==
    ASSUME TypeOK, NEW what \in Requests, NEW next, NEW view, NEW touched,
           view = Updated(what).view, touched = Touched(what), next = DeltasOf(what, view, touched)
    PROVE  Tells(next, view, touched)
<1> DEFINE delta == [kind |-> "Streams", rows |-> {[stream |-> s, row |-> view[s]] : s \in touched}]
           Fine == {d \in Payloads : d = delta \/ d.kind # "Streams"}
           stats == <<[kind |-> "Stats"]>>
           matches == <<[kind |-> "Matches"]>>
<1>1. touched \subseteq Streams /\ next \in Seq(Payloads) /\ view \in [Streams -> Rows]
  BY CallIsTyped
<1>2. \A s \in Streams \ touched : view[s] = core.view[s]
  BY DEF Updated
<1>3. \A s : About(delta, s) => s \in touched /\ Shows(delta, s, view[s])
  <2>1. \A r \in delta.rows : r.stream \in touched /\ r.row = view[r.stream]
    OBVIOUS
  <2> HIDE DEF delta
  <2> QED
    BY <2>1 DEF About, Shows
<1>4. \A s \in touched : About(delta, s)
  <2> SUFFICES ASSUME NEW s \in touched PROVE About(delta, s)
    OBVIOUS
  <2>1. [stream |-> s, row |-> view[s]] \in delta.rows /\ delta.kind = "Streams"
    OBVIOUS
  <2> HIDE DEF delta
  <2>2. \E r \in delta.rows : r.stream = s
    BY <2>1
  <2> QED
    BY <2>1, <2>2 DEF About
<1>5. delta \in Fine
  BY <1>1 DEF Payloads
<1>6. \A k \in {"Stats", "Queue", "Matches"} : <<[kind |-> k]>> \in Seq(Fine)
  <2>1. \A k \in {"Stats", "Queue", "Matches"} : [kind |-> k] \in Fine
    BY DEF Payloads
  <2> QED
    BY <2>1
<1>7. what.kind = "status" => <<[kind |-> "Status", run_status |-> what.run_status]>> \in Seq(Fine)
  <2>1. what.kind = "status" => [kind |-> "Status", run_status |-> what.run_status] \in Fine
    BY DEF Payloads, Requests
  <2> QED
    BY <2>1
<1>8. /\ what.kind \in {"events", "queue", "patch", "status", "stats", "rules"}
      /\ touched # {} => what.kind \in {"events", "patch"}
  BY DEF Requests, Touched
<1>9. RowsDelta(view, touched) = IF touched = {} THEN <<>> ELSE <<delta>>
  BY DEF RowsDelta
<1> HIDE DEF delta, Fine, stats, matches
<1>10. <<>> \in Seq(Fine) /\ <<delta>> \in Seq(Fine) /\ stats \in Seq(Fine) /\ matches \in Seq(Fine)
  BY <1>5, <1>6, EmptySeq DEF stats, matches
<1>11. \A a, b \in Seq(Fine) : a \o b \in Seq(Fine)
  BY ConcatProperties
<1>12. \A a \in Seq(Fine) : 1 \in DOMAIN (<<delta>> \o a) /\ (<<delta>> \o a)[1] = delta
  <2> SUFFICES ASSUME NEW a \in Seq(Fine)
               PROVE  1 \in DOMAIN (<<delta>> \o a) /\ (<<delta>> \o a)[1] = delta
    OBVIOUS
  <2>1. Len(<<delta>>) = 1 /\ <<delta>>[1] = delta /\ Len(a) \in Nat
    OBVIOUS
  <2>2. /\ <<delta>> \o a \in Seq(Fine) /\ Len(<<delta>> \o a) = 1 + Len(a)
        /\ \A i \in 1 .. 1 + Len(a) : (<<delta>> \o a)[i] = IF i <= 1 THEN <<delta>>[i] ELSE a[i - 1]
    BY <1>10, <2>1, ConcatProperties
  <2>3. 1 \in 1 .. 1 + Len(a) /\ DOMAIN (<<delta>> \o a) = 1 .. 1 + Len(a)
    BY <2>1, <2>2, LenProperties
  <2> QED
    BY <2>1, <2>2, <2>3
<1>13. /\ next \in Seq(Fine)
       /\ touched # {} => \E i \in DOMAIN next : next[i] = delta
  <2> DEFINE some == IF what.matched = {} THEN <<>> ELSE matches
  <2>0. some \in Seq(Fine)
    BY <1>10
  <2>1. CASE what.kind = "events"
    <3>1. next = (RowsDelta(view, touched) \o some) \o stats
      BY <2>1 DEF DeltasOf, stats, matches
    <3> HIDE DEF some
    <3>2. CASE touched = {}
      BY <1>9, <1>10, <1>11, <2>0, <3>1, <3>2
    <3>3. CASE touched # {}
      <4>1. next = (<<delta>> \o some) \o stats
        BY <1>9, <3>1, <3>3
      <4>0. next \in Seq(Fine)
        BY <1>10, <1>11, <2>0, <4>1
      <4>2. (<<delta>> \o some) \o stats = <<delta>> \o (some \o stats)
        BY <1>10, <2>0, ConcatAssociative
      <4>3. some \o stats \in Seq(Fine)
        BY <1>10, <1>11, <2>0
      <4> QED
        BY <1>12, <4>0, <4>1, <4>2, <4>3
    <3> QED
      BY <3>2, <3>3
  <2>2. CASE what.kind = "patch"
    <3>1. next = IF touched = {} THEN <<>> ELSE <<delta>> \o stats
      BY <1>9, <2>2 DEF DeltasOf, stats
    <3> QED
      BY <1>10, <1>11, <1>12, <3>1
  <2>3. CASE what.kind = "queue"
    BY <1>6, <1>8, <1>10, <2>3 DEF DeltasOf
  <2>4. CASE what.kind = "status"
    BY <1>7, <1>8, <2>4 DEF DeltasOf
  <2>5. CASE what.kind \in {"stats", "rules"}
    BY <1>6, <1>8, <2>5 DEF DeltasOf
  <2> QED
    BY <1>8, <2>1, <2>2, <2>3, <2>4, <2>5
<1>14. \A s \in touched : HasRow(next, s)
  BY <1>4, <1>13 DEF HasRow
<1>15. \A i \in DOMAIN next : \A s : About(next[i], s) => next[i] = delta
  <2>1. \A i \in DOMAIN next : next[i] \in Fine
    BY <1>13, LenProperties, ElementOfSeq
  <2> QED
    BY <2>1 DEF Fine, About
<1> QED
  BY <1>1, <1>2, <1>3, <1>14, <1>15 DEF Tells

\* A call carried out: what it changed is in its hand, or was in another's.
LEMMA UpdateKeepsRows ==
    ASSUME TypeOK, RowsInv, NEW t \in {Pipeline} \cup Users, UpdateCore(t)
    PROVE  RowsInv'
<1>1. t \in Threads /\ t \notin Clients /\ Clients \subseteq Threads
      /\ DOMAIN pc = Threads /\ DOMAIN deltas = Threads
  BY Roles
<1>2. call[t] \in Requests /\ deltas[t] = <<>>
  BY <1>1 DEF UpdateCore, TypeOK, RowsInv, DeltasInHand
<1>3. PICK what, view, touched, next, place :
        /\ what = call[t] /\ view = Updated(what).view /\ touched = Touched(what)
        /\ next = DeltasOf(what, view, touched)
        /\ place = IF next = <<>> THEN After(t) ELSE "append"
  OBVIOUS
<1>4. /\ core'.view = view
      /\ deltas' = [deltas EXCEPT ![t] = next]
      /\ pc' = [pc EXCEPT ![t] = place]
      /\ raced' = (raced \ touched)
                    \cup {s \in touched : \E u \in Threads \ {t} : s \in RowsAwaited(u)}
      /\ UNCHANGED <<cursor, rows, reply, pushed>>
  BY <1>3 DEF UpdateCore, Goto, clientVars
<1>5. /\ touched \subseteq Streams
      /\ \A s \in Streams \ touched : view[s] = core.view[s]
      /\ \A s \in touched : HasRow(next, s)
      /\ \A i \in DOMAIN next : \A s : About(next[i], s) => s \in touched /\ Shows(next[i], s, view[s])
  <2>1. what \in Requests
    BY <1>2, <1>3
  <2>2. Tells(next, view, touched)
    BY <1>3, <2>1, CallTellsRows
  <2> QED
    BY <2>2 DEF Tells
<1>6. /\ pc'[t] = place /\ deltas'[t] = next
      /\ \A u \in Threads \ {t} : pc'[u] = pc[u] /\ deltas'[u] = deltas[u]
  BY <1>1, <1>4
<1>7. \A s : ~ HasRow(deltas[t], s)
  BY <1>2 DEF HasRow
<1>8. \A s : HasRow(next, s) => s \in touched
  BY <1>5 DEF HasRow
<1>9. ASSUME NEW s \in Streams \ raced', s \in touched
      PROVE  \A u \in Threads \ {t} : ~ HasRow(deltas'[u], s)
  <2>1. \A u \in Threads \ {t} : s \notin RowsAwaited(u)
    BY <1>4, <1>9
  <2>2. \A u \in Threads : HasRow(deltas[u], s) => s \in RowsAwaited(u)
    BY DEF HasRow, About, RowsAwaited
  <2> QED
    BY <1>6, <2>1, <2>2
<1>10. ASSUME NEW s \in Streams \ raced', s \notin touched
       PROVE  /\ s \in Streams \ raced /\ core'.view[s] = core.view[s]
              /\ \A u \in Threads : HasRow(deltas'[u], s) <=> HasRow(deltas[u], s)
              /\ Awaited(s)' <=> Awaited(s)
  <2>1. s \in Streams \ raced /\ core'.view[s] = core.view[s]
    BY <1>4, <1>5, <1>10
  <2>2. \A u \in Threads : HasRow(deltas'[u], s) <=> HasRow(deltas[u], s)
    BY <1>6, <1>7, <1>8, <1>10
  <2> QED
    BY <2>1, <2>2 DEF Awaited
<1>11. DeltasInHand'
  BY <1>3, <1>6 DEF RowsInv, DeltasInHand
<1>12. AwaitedRowsShow'
  <2> SUFFICES ASSUME NEW s \in Streams \ raced', NEW u \in Threads, HasRow(deltas'[u], s)
               PROVE  /\ \A v \in Threads : HasRow(deltas'[v], s) => v = u
                      /\ \A i \in DOMAIN deltas'[u] :
                            About(deltas'[u][i], s) => Shows(deltas'[u][i], s, core'.view[s])
    BY DEF AwaitedRowsShow
  <2>1. CASE s \in touched
    BY <1>4, <1>5, <1>6, <1>9, <2>1
  <2>2. CASE s \notin touched
    <3>1. u # t /\ deltas'[u] = deltas[u] /\ HasRow(deltas[u], s)
      BY <1>6, <1>8, <2>2
    <3> QED
      BY <1>10, <2>2, <3>1 DEF RowsInv, AwaitedRowsShow
  <2> QED
    BY <2>1, <2>2
<1>13. \A s \in touched : Awaited(s)'
  BY <1>1, <1>5, <1>6 DEF Awaited
<1>14. PushedRowsShow'
  <2> SUFFICES ASSUME NEW s \in Streams \ raced', ~ Awaited(s)'
               PROVE  LastShows(1, Len(pushed), s, core'.view[s])
    BY <1>4 DEF PushedRowsShow, LastShows
  <2> QED
    BY <1>10, <1>13 DEF RowsInv, PushedRowsShow
<1>15. ClientRowsShow'
  <2> SUFFICES ASSUME NEW c \in Clients, pc'[c] # "reload", NEW s \in Streams \ raced', ~ Awaited(s)',
                      Silent(pushed, cursor[c] + 1, Len(pushed), s)
               PROVE  rows[c][s] = core'.view[s]
    BY <1>4 DEF ClientRowsShow
  <2>1. pc[c] # "reload"
    BY <1>1, <1>6
  <2> QED
    BY <1>10, <1>13, <2>1 DEF RowsInv, ClientRowsShow
<1>16. HeldIsTheEnd'
  <2>1. \A c \in Clients : pc'[c] = pc[c]
    BY <1>1, <1>6
  <2> QED
    BY <1>4, <2>1 DEF RowsInv, HeldIsTheEnd, Feed!Numbered
<1> QED
  BY <1>4, <1>11, <1>12, <1>14, <1>15, <1>16 DEF RowsInv

\* An append: the rows in hand become the last published of their streams.
LEMMA AppendKeepsRows ==
    ASSUME TypeOK, CursorsInside, RowsInv, NEW t \in {Pipeline} \cup Users, AppendDeltas(t)
    PROVE  RowsInv'
<1>1. t \in Threads /\ t \notin Clients /\ Clients \subseteq Threads /\ DOMAIN deltas = Threads
      /\ DOMAIN pc = Threads
  BY Roles
<1>2. PICK some, len, more : some = deltas[t] /\ len = Len(pushed) /\ more = Len(some)
  OBVIOUS
<1>3. /\ pushed' = pushed \o some
      /\ deltas' = [deltas EXCEPT ![t] = <<>>]
      /\ pc' = [u \in Threads |-> IF u = t THEN After(t) ELSE IF pc[u] = "wait" THEN "againDeltas" ELSE pc[u]]
      /\ UNCHANGED <<core, cursor, rows, reply, raced>>
  BY <1>2 DEF AppendDeltas, clientVars
<1>4. pushed \in Seq(Payloads) /\ some \in Seq(Payloads) /\ len \in Nat /\ more \in Nat
      /\ DOMAIN some = 1 .. more
      /\ \A c \in Clients : cursor[c] \in Nat /\ cursor[c] <= len
  BY <1>1, <1>2, LenProperties DEF TypeOK, CursorsInside
<1>5. /\ Len(pushed') = len + more
      /\ \A i \in 1 .. len + more : pushed'[i] = IF i <= len THEN pushed[i] ELSE some[i - len]
  BY <1>2, <1>3, <1>4, ConcatProperties
<1>6. /\ \A i \in 1 .. len : pushed'[i] = pushed[i]
      /\ \A i \in 1 .. more : pushed'[len + i] = some[i] /\ len + i \in 1 .. len + more
      /\ \A i \in 1 .. len + more : i \in 1 .. len \/ (~ (i <= len) /\ i - len \in 1 .. more)
  <2>1. \A i \in 1 .. more : len + i \in 1 .. len + more /\ ~ (len + i <= len) /\ (len + i) - len = i
    BY <1>4
  <2>2. \A i \in 1 .. len : i \in 1 .. len + more /\ i <= len
    BY <1>4
  <2>3. \A i \in 1 .. len + more : i \in 1 .. len \/ (~ (i <= len) /\ i - len \in 1 .. more)
    BY <1>4
  <2> QED
    BY <1>5, <2>1, <2>2, <2>3
<1>7. /\ deltas'[t] = <<>> /\ \A u \in Threads \ {t} : deltas'[u] = deltas[u]
      /\ \A u \in Threads \ {t} : pc[u] = "append" => pc'[u] = "append"
      /\ \A c \in Clients : pc'[c] = "reload" <=> pc[c] = "reload"
  BY <1>1, <1>3
<1>8. \A s : ~ HasRow(deltas'[t], s)
  BY <1>7 DEF HasRow
<1>9. DeltasInHand'
  BY <1>7 DEF RowsInv, DeltasInHand
<1>10. AwaitedRowsShow'
  <2> SUFFICES ASSUME NEW s \in Streams \ raced, NEW u \in Threads, HasRow(deltas'[u], s)
               PROVE  /\ \A v \in Threads : HasRow(deltas'[v], s) => v = u
                      /\ \A i \in DOMAIN deltas'[u] :
                            About(deltas'[u][i], s) => Shows(deltas'[u][i], s, core.view[s])
    BY <1>3 DEF AwaitedRowsShow
  <2>1. \A v \in Threads : HasRow(deltas'[v], s) => v # t /\ deltas'[v] = deltas[v]
    BY <1>7, <1>8
  <2> QED
    BY <2>1 DEF RowsInv, AwaitedRowsShow
<1>11. ASSUME NEW s, HasRow(some, s), NEW first, first \in Nat, first <= len + 1
       PROVE  ~ Silent(pushed', first, len + more, s)
  <2>1. PICK i \in 1 .. more : About(some[i], s)
    BY <1>4, <1>11 DEF HasRow
  <2>2. len + i \in first .. len + more /\ About(pushed'[len + i], s)
    BY <1>4, <1>6, <1>11, <2>1
  <2> QED
    BY <2>2 DEF Silent
<1>12. ASSUME NEW s, ~ HasRow(some, s), NEW first, first \in Nat \ {0}
       PROVE  Silent(pushed', first, len + more, s) => Silent(pushed, first, len, s)
  <2>1. \A i \in first .. len : i \in 1 .. len /\ i \in first .. len + more
    BY <1>4, <1>12
  <2> QED
    BY <1>6, <2>1 DEF Silent
<1>13. ASSUME NEW s \in Streams \ raced, ~ Awaited(s)', ~ HasRow(some, s)
       PROVE  ~ Awaited(s)
  BY <1>2, <1>7, <1>13 DEF Awaited
<1>14. PushedRowsShow'
  <2> SUFFICES ASSUME NEW s \in Streams \ raced, ~ Awaited(s)',
                      NEW i \in 1 .. len + more, About(pushed'[i], s),
                      Silent(pushed', i + 1, len + more, s)
               PROVE  Shows(pushed'[i], s, core.view[s])
    BY <1>3, <1>5 DEF PushedRowsShow, LastShows
  <2>1. CASE HasRow(some, s)
    <3>1. ~ (i + 1 <= len + 1)
      BY <1>11, <2>1
    <3>2. i - len \in 1 .. more /\ pushed'[i] = some[i - len]
      BY <1>4, <1>5, <1>6, <3>1
    <3> QED
      BY <1>1, <1>2, <1>4, <2>1, <3>2 DEF RowsInv, AwaitedRowsShow
  <2>2. CASE ~ HasRow(some, s)
    <3>1. i \in 1 .. len
      <4> SUFFICES ASSUME ~ (i \in 1 .. len)
                   PROVE  FALSE
        OBVIOUS
      <4>1. i - len \in 1 .. more /\ pushed'[i] = some[i - len]
        BY <1>5, <1>6
      <4> QED
        BY <1>4, <2>2, <4>1 DEF HasRow
    <3>2. i + 1 \in Nat \ {0}
      OBVIOUS
    <3>3. Silent(pushed, i + 1, len, s)
      BY <1>12, <2>2, <3>2
    <3>4. LastShows(1, len, s, core.view[s])
      BY <1>2, <1>13, <2>2 DEF RowsInv, PushedRowsShow
    <3> QED
      BY <1>6, <3>1, <3>3, <3>4 DEF LastShows
  <2> QED
    BY <2>1, <2>2
<1>15. ClientRowsShow'
  <2> SUFFICES ASSUME NEW c \in Clients, pc'[c] # "reload", NEW s \in Streams \ raced, ~ Awaited(s)',
                      Silent(pushed', cursor[c] + 1, len + more, s)
               PROVE  rows[c][s] = core.view[s]
    BY <1>3, <1>5 DEF ClientRowsShow
  <2>1. cursor[c] + 1 \in Nat \ {0} /\ cursor[c] + 1 <= len + 1
    BY <1>4
  <2>2. ~ HasRow(some, s)
    BY <1>11, <2>1
  <2>3. Silent(pushed, cursor[c] + 1, len, s) /\ ~ Awaited(s) /\ pc[c] # "reload"
    BY <1>7, <1>12, <1>13, <2>1, <2>2
  <2> QED
    BY <1>2, <2>3 DEF RowsInv, ClientRowsShow
<1>16. HeldIsTheEnd'
  <2> SUFFICES ASSUME NEW c \in Clients, pc[c] = "reload"
               PROVE  \E k \in 0 .. cursor[c] : reply[c].held = Feed!Numbered(k + 1, cursor[c])'
    BY <1>3, <1>7 DEF HeldIsTheEnd, Feed!Numbered
  <2>1. PICK k \in 0 .. cursor[c] : reply[c].held = Feed!Numbered(k + 1, cursor[c])
    BY DEF RowsInv, HeldIsTheEnd
  <2>2. \A i \in k + 1 .. cursor[c] : pushed'[i] = pushed[i]
    <3>1. \A i \in k + 1 .. cursor[c] : i \in 1 .. len
      BY <1>4
    <3> QED
      BY <1>6, <3>1
  <2>3. Feed!Numbered(k + 1, cursor[c])' = Feed!Numbered(k + 1, cursor[c])
    BY <1>3, <2>2 DEF Feed!Numbered
  <2> QED
    BY <2>1, <2>3
<1> QED
  BY <1>3, <1>9, <1>10, <1>14, <1>15, <1>16 DEF RowsInv

\* Every step keeps what front ends show, hold and are owed.
LEMMA StepKeepsRows ==
    ASSUME IInv, RowsInv, [Next]_vars
    PROVE  RowsInv'
<1>1. TypeOK /\ WindowIsTheTail /\ CursorsInside
  BY DEF IInv
<1>2. /\ Pipeline \in Threads \ Clients /\ Users \subseteq Threads \ Clients /\ Clients \subseteq Threads
      /\ DOMAIN pc = Threads /\ \A c \in Clients : pc[c] # "append"
  BY <1>1, Roles DEF ClientPlaces
<1>3. CASE Begin
  <2>1. UNCHANGED <<core, deltas, pushed, raced, cursor, rows, reply>>
    BY <1>3 DEF Begin, AttachContent, PublishStats, SnapshotContent, MarkCompleted, MarkFailed,
                PublishEvents, PublishQueue, EditStream, EditRules, clientVars
  <2>2. \E t \in Threads \ Clients, place \in {"idle", "complete", "write"} :
            pc[t] # "append" /\ pc' = [pc EXCEPT ![t] = place]
    BY <1>2, <1>3 DEF Begin, AttachContent, PublishStats, SnapshotContent, MarkCompleted, MarkFailed,
                PublishEvents, PublishQueue, EditStream, EditRules, Call, Goto
  <2>3. /\ \A u \in Threads : pc[u] = "append" => pc'[u] = "append"
        /\ \A c \in Clients : pc'[c] = "reload" <=> pc[c] = "reload"
    BY <1>2, <2>2
  <2> QED
    BY <2>1, <2>3, RowsAreLeftAlone
<1>4. ASSUME NEW t \in {Pipeline} \cup Users, Write(t)
      PROVE  RowsInv'
  BY <1>1, <1>4, UpdateKeepsRows, AppendKeepsRows DEF Write
<1>5. ASSUME NEW c \in Clients, FrontEnd(c)
      PROVE  RowsInv'
  <2>1. CASE Reload(c)
    BY <1>1, <2>1, ReloadKeepsRows
  <2>2. ASSUME pc[c] # "reload", Answer(c, Response(cursor[c])), UNCHANGED <<core, deltas, pushed, raced>>
        PROVE  RowsInv'
    BY <1>1, <2>2, AnswerKeepsRows
  <2>3. ASSUME NEW place, place # "reload", pc[c] # "reload", Goto(c, place),
               UNCHANGED <<core, deltas, pushed, raced, clientVars>>
        PROVE  RowsInv'
    <3>1. /\ \A u \in Threads : pc[u] = "append" => pc'[u] = "append"
          /\ \A d \in Clients : pc'[d] = "reload" <=> pc[d] = "reload"
      BY <1>2, <2>3 DEF Goto
    <3> QED
      BY <2>3, <3>1, RowsAreLeftAlone DEF clientVars
  <2>4. CASE FirstResponse(c)
    BY <2>2, <2>3, <2>4 DEF FirstResponse
  <2>5. CASE SecondResponse(c)
    BY <2>2, <2>5 DEF SecondResponse
  <2>6. CASE LockDeltas(c)
    BY <2>3, <2>6 DEF LockDeltas
  <2>7. CASE Register(c) \/ Timeout(c) \/ SkipHealth(c) \/ LockCore(c) \/ HealthResponse(c)
    BY <2>3, <2>7 DEF Register, Timeout, SkipHealth, LockCore, HealthResponse
  <2> QED
    BY <1>5, <2>1, <2>4, <2>5, <2>6, <2>7 DEF FrontEnd
<1>6. CASE UNCHANGED vars
  BY <1>6, RowsAreLeftAlone DEF vars
<1> QED
  BY <1>3, <1>4, <1>5, <1>6 DEF Next

-----------------------------------------------------------------------------
(* The theorems *)

\* The invariant is inductive.
THEOREM Invariance == Spec => []IInv
<1>1. IInv /\ [Next]_vars => IInv'
  BY StepKeepsTypes, StepIsAFeedStep, StepKeepsSnapshotFirst DEF IInv
<1> QED
  BY InitOK, <1>1, PTL DEF Spec

\* The state of LiveApiHandle and its front ends is well typed; only a tracked
\* stream is a favorite, and one thread at a time holds the delta log.
THEOREM TypesCorrect == Spec => []TypeOK
<1>1. IInv => TypeOK
  BY DEF IInv
<1> QED
  BY Invariance, <1>1, PTL

\* LiveDeltaLog is always the end of everything published, under consecutive
\* cursors, whatever its capacity and however many deltas are pushed at once.
THEOREM WindowHolds == Spec => []WindowIsTheTail
<1>1. IInv => WindowIsTheTail
  BY DEF IInv
<1> QED
  BY Invariance, <1>1, PTL

\* A client told that the run is complete is served from the retained content.
THEOREM CompletedServesSnapshot == Spec => []CompletedMeansSnapshot
<1>1. IInv => CompletedMeansSnapshot
  BY DEF IInv, SnapshotFirst
<1> QED
  BY Invariance, <1>1, PTL

\* The bounded log with its locks and polls implements the endless feed.
THEOREM ImplementsFeed == Spec => FeedSpec
<1>1. Init => Feed!Init
  BY DEF Init, Feed!Init
<1>2. IInv /\ [Next]_vars => [Feed!Next]_(Feed!vars)
  BY StepIsAFeedStep DEF IInv
<1> QED
  BY Invariance, <1>1, <1>2, PTL DEF Spec, FeedSpec, Feed!Spec

\* So no client ever goes past a delta it did not receive without being told.
THEOREM NothingSkipped == Spec => []Feed!NothingSkippedSilently
<1>1. Init => Feed!NothingSkippedSilently
  BY DEF Init, Feed!NothingSkippedSilently
<1>2. IInv /\ Feed!NothingSkippedSilently /\ [Next]_vars => Feed!NothingSkippedSilently'
  BY StepIsAFeedStep, FeedStepSkipsNothing DEF IInv, TypeOK
<1> QED
  BY Invariance, <1>1, <1>2, PTL DEF Spec

\* Whatever is dropped from the log, missed and loaded again, a front end that has
\* read the log to its end shows the rows of the core, but for streams that two
\* overlapping calls changed.
THEOREM RowsConverge == Spec => []UnracedRowsConverge
<1>1. IInv /\ RowsInv /\ [Next]_vars => RowsInv'
  BY StepKeepsRows
<1>2. IInv /\ RowsInv => UnracedRowsConverge
  <2> SUFFICES ASSUME IInv, RowsInv, Quiet, NEW c \in Clients, UpToDate(c), NEW s \in Streams \ raced
               PROVE  rows[c][s] = core.view[s]
    BY DEF UnracedRowsConverge
  <2>1. pushed \in Seq(Payloads) /\ Len(pushed) \in Nat /\ log.next_cursor = Len(pushed) + 1
    BY LenProperties DEF IInv, TypeOK, WindowIsTheTail
  <2>2. cursor[c] = Len(pushed) /\ pc[c] # "reload"
    BY <2>1 DEF UpToDate, LatestCursor
  <2>3. Silent(pushed, cursor[c] + 1, Len(pushed), s)
    BY <2>1, <2>2 DEF Silent
  <2>4. \A t \in Threads : deltas[t] = <<>>
    BY DEF Quiet, RowsInv, DeltasInHand
  <2>5. ~ Awaited(s)
    BY <2>4 DEF Awaited, HasRow
  <2> QED
    BY <2>2, <2>3, <2>5 DEF RowsInv, ClientRowsShow
<1> QED
  BY Invariance, InitRows, <1>1, <1>2, PTL DEF Spec
=============================================================================
