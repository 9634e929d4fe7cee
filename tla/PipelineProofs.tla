--------------------------- MODULE PipelineProofs ---------------------------
(***************************************************************************)
(* Proofs about Pipeline for any packets and limits: the tables stay       *)
(* within their limits and agree with the counters kept by increments,     *)
(* between batches the rows of the view show the inventory's streams, the  *)
(* content store keeps the end of what each stream was given, which is     *)
(* what slices show, and the scan finds each literal in it once.           *)
(***************************************************************************)
EXTENDS Pipeline, SumLemmas, SequenceTheorems, TLAPS

-----------------------------------------------------------------------------
(* Folds over sequences *)

\* The messages found so far, and those in another payload.
AndParsed(found, flow, bytes) == found \o Parsed(flow, bytes)

\* The steps of all the folds of the model, told apart by k.
Step(k, x, e) ==
    CASE k.op = "piece" -> AppendPiece(x, k.dir, k.now)
      [] k.op = "store" -> StorePayload(x, k.packet.dir, e.seq, k.packet.time, e.bytes)
      [] k.op = "join" -> Join(x, Window(e, k.start, k.end))
      [] k.op = "match" -> EmitIfNew(x, Match(k.flow, k.range.dir, k.at, e), k.range)
      [] k.op = "window" -> ScanWindow(x, k.flow, k.range, e)
      [] k.op = "range" -> ScanRange(x, k.flow, k.streams, e)
      [] k.op = "record" -> ObservePayload(x, k.packet.flow, k.packet.dir, e.bytes)
      [] k.op = "parse" -> AndParsed(x, k.flow, e)
      [] OTHER -> ObserveEvent(x, e)

\* What FoldLeft computes for a set of places, given the same for smaller sets.
FoldBody(g, k, base, seq, s) ==
    IF s = {} THEN base ELSE Step(k, g[s \ {Max(s)}], seq[Max(s)])
IsFold(g, k, base, seq, S) == g = [s \in SUBSET S |-> FoldBody(g, k, base, seq, s)]

\* The recursion of a fold has a solution.
LEMMA FoldExists ==
    ASSUME NEW k, NEW base, NEW seq, NEW n \in Nat
    PROVE  \E g : IsFold(g, k, base, seq, 1 .. n)
<1> DEFINE G == {m \in Nat : \E g : IsFold(g, k, base, seq, 1 .. m)}
<1>1. 0 \in G
  <2> DEFINE h == [s \in SUBSET (1 .. 0) |-> base]
  <2>1. \A s \in SUBSET (1 .. 0) : s = {}
    OBVIOUS
  <2>2. IsFold(h, k, base, seq, 1 .. 0)
    BY <2>1 DEF IsFold, FoldBody
  <2> HIDE DEF h
  <2> QED
    BY <2>2
<1>2. ASSUME NEW m \in Nat, m \in G
      PROVE  m + 1 \in G
  <2>1. PICK g : IsFold(g, k, base, seq, 1 .. m)
    BY <1>2
  <2> DEFINE h == [s \in SUBSET (1 .. m + 1) |-> FoldBody(g, k, base, seq, s)]
  <2>2. \A s \in SUBSET (1 .. m) : h[s] = g[s]
    BY <2>1 DEF IsFold
  <2>3. ASSUME NEW s \in SUBSET (1 .. m + 1)
        PROVE  h[s] = FoldBody(h, k, base, seq, s)
    <3>1. CASE s = {}
      BY <3>1 DEF FoldBody
    <3>2. CASE s # {}
      <4>1. s \ {Max(s)} \in SUBSET (1 .. m)
        <5> DEFINE x == Max(s)
        <5>1. m + 1 \in Nat
          OBVIOUS
        <5>2. x \in s /\ \A y \in s : y <= x
          BY <3>2, <5>1, MaxIsLast
        <5> HIDE DEF x
        <5>3. x \in Nat /\ x <= m + 1
          BY <5>2
        <5>4. ASSUME NEW y \in s \ {x}
              PROVE  y \in 1 .. m
          <6>1. y \in Nat /\ y >= 1 /\ y <= x /\ y # x
            BY <5>2, <5>1
          <6> QED
            BY <6>1, <5>3
        <5>5. s \ {x} \in SUBSET (1 .. m)
          BY <5>4
        <5> QED
          BY <5>5 DEF x
      <4>2. h[s \ {Max(s)}] = g[s \ {Max(s)}]
        BY <4>1, <2>2
      <4>3. h[s] = FoldBody(g, k, base, seq, s)
        OBVIOUS
      <4> HIDE DEF h
      <4> QED
        BY <4>2, <4>3 DEF FoldBody
    <3> QED
      BY <3>1, <3>2
  <2>4. IsFold(h, k, base, seq, 1 .. m + 1)
    BY <2>3 DEF IsFold
  <2> HIDE DEF h
  <2>5. m + 1 \in Nat
    OBVIOUS
  <2> QED
    BY <2>4, <2>5, Zenon
<1>3. Nat \subseteq G
  <2> HIDE DEF G
  <2> QED
    BY <1>1, <1>2, NumberInduction
<1> QED
  BY <1>3

\* A fold goes through the sequence step by step.
Chain(h, k, base, seq, n) == h[0] = base /\ \A i \in 1 .. n : h[i] = Step(k, h[i - 1], seq[i])
LEMMA FoldSteps ==
    ASSUME NEW k, NEW base, NEW seq, NEW n \in Nat, NEW g, IsFold(g, k, base, seq, 1 .. n)
    PROVE  \E h : Chain(h, k, base, seq, n) /\ h[n] = g[1 .. n]
<1> DEFINE h == [i \in 0 .. n |-> g[1 .. i]]
<1>1. \A s \in SUBSET (1 .. n) : g[s] = FoldBody(g, k, base, seq, s)
  BY DEF IsFold
<1>2. h[0] = base
  <2>1. 1 .. 0 = {} /\ h[0] = g[1 .. 0]
    OBVIOUS
  <2> QED
    BY <2>1, <1>1 DEF FoldBody
<1>3. ASSUME NEW i \in 1 .. n
      PROVE  h[i] = Step(k, h[i - 1], seq[i])
  <2>1. Max(1 .. i) = i /\ (1 .. i) \ {i} = 1 .. i - 1
    BY MaxOfFirst
  <2>2. 1 .. i \in SUBSET (1 .. n) /\ 1 .. i # {} /\ i - 1 \in 0 .. n /\ i \in 0 .. n
    <3>1. 1 .. i \subseteq 1 .. n
      OBVIOUS
    <3>2. i \in 1 .. i
      OBVIOUS
    <3> QED
      BY <3>1, <3>2, SMTT(30)
  <2>3. g[1 .. i] = Step(k, g[1 .. i - 1], seq[i])
    BY <2>1, <2>2, <1>1 DEF FoldBody
  <2> QED
    BY <2>2, <2>3
<1>4. h[n] = g[1 .. n]
  OBVIOUS
<1> HIDE DEF h
<1> QED
  BY <1>2, <1>3, <1>4 DEF Chain

\* append takes piece by piece.
Appends(h, c, dir, seq, now, bytes, n) ==
    /\ h[0] = [dir |-> c, ranges |-> <<>>, merged |-> 0, seq |-> seq, left |-> bytes]
    /\ h[n] = AppendBytes(c, dir, seq, now, bytes)
    /\ \A i \in 1 .. n : h[i] = AppendPiece(h[i - 1], dir, now)
LEMMA PiecesInTurn ==
    ASSUME NEW c, NEW dir, NEW seq, NEW now, NEW bytes, NEW n \in Nat, DOMAIN bytes = 1 .. n
    PROVE  \E h : Appends(h, c, dir, seq, now, bytes, n)
<1> DEFINE base == [dir |-> c, ranges |-> <<>>, merged |-> 0, seq |-> seq, left |-> bytes]
           k == [op |-> "piece", dir |-> dir, now |-> now]
           solves(g) == g = [s \in SUBSET DOMAIN bytes |->
                IF s = {} THEN base ELSE AppendPiece(g[s \ {Max(s)}], dir, now)]
           g == CHOOSE g : solves(g)
<1>1. (\A x, e : Step(k, x, e) = AppendPiece(x, dir, now))
  BY DEF Step
<1> HIDE DEF k, base
<1>2. \A f : IsFold(f, k, base, bytes, 1 .. n) <=> solves(f)
  <2>1. SUBSET DOMAIN bytes = SUBSET (1 .. n)
    BY <1>1
  <2>2. \A f, s : FoldBody(f, k, base, bytes, s) =
            IF s = {} THEN base ELSE AppendPiece(f[s \ {Max(s)}], dir, now)
    BY <1>1 DEF FoldBody
  <2> QED
    BY <2>1, <2>2 DEF IsFold
<1>3. \E f : solves(f)
  <2>1. PICK f : IsFold(f, k, base, bytes, 1 .. n)
    BY FoldExists
  <2> HIDE DEF solves
  <2> QED
    BY <1>2, <2>1
<1>4. solves(g)
  <2> HIDE DEF solves
  <2> QED
    BY <1>3
<1>5. AppendBytes(c, dir, seq, now, bytes) = g[DOMAIN bytes]
  BY DEF base, AppendBytes, FoldLeft, MapThenFoldSet
<1> HIDE DEF solves, g
<1>6. IsFold(g, k, base, bytes, 1 .. n)
  BY <1>2, <1>4
<1>7. PICK h : Chain(h, k, base, bytes, n) /\ h[n] = g[1 .. n]
  BY <1>6, FoldSteps
<1> QED
  BY <1>1, <1>5, <1>7 DEF Appends, Chain, base

\* observe_chunks stores chunk by chunk.
Stores(h, u, p, chunks, n) ==
    /\ h[0] = u /\ h[n] = StoreChunks(u, p, chunks)
    /\ \A i \in 1 .. n : h[i] = StorePayload(h[i - 1], p.dir, chunks[i].seq, p.time, chunks[i].bytes)
LEMMA StoresInTurn ==
    ASSUME NEW u, NEW p, NEW chunks, NEW n \in Nat, DOMAIN chunks = 1 .. n
    PROVE  \E h : Stores(h, u, p, chunks, n)
<1> DEFINE base == u
           k == [op |-> "store", packet |-> p]
           solves(g) == g = [s \in SUBSET DOMAIN chunks |->
                IF s = {} THEN base ELSE StorePayload(g[s \ {Max(s)}], p.dir, chunks[Max(s)].seq, p.time, chunks[Max(s)].bytes)]
           g == CHOOSE g : solves(g)
<1>1. (\A x, e : Step(k, x, e) = StorePayload(x, p.dir, e.seq, p.time, e.bytes))
  BY DEF Step
<1> HIDE DEF k, base
<1>2. \A f : IsFold(f, k, base, chunks, 1 .. n) <=> solves(f)
  <2>1. SUBSET DOMAIN chunks = SUBSET (1 .. n)
    BY <1>1
  <2>2. \A f, s : FoldBody(f, k, base, chunks, s) =
            IF s = {} THEN base ELSE StorePayload(f[s \ {Max(s)}], p.dir, chunks[Max(s)].seq, p.time, chunks[Max(s)].bytes)
    BY <1>1 DEF FoldBody
  <2> QED
    BY <2>1, <2>2 DEF IsFold
<1>3. \E f : solves(f)
  <2>1. PICK f : IsFold(f, k, base, chunks, 1 .. n)
    BY FoldExists
  <2> HIDE DEF solves
  <2> QED
    BY <1>2, <2>1
<1>4. solves(g)
  <2> HIDE DEF solves
  <2> QED
    BY <1>3
<1>5. StoreChunks(u, p, chunks) = g[DOMAIN chunks]
  BY DEF base, StoreChunks, FoldLeft, MapThenFoldSet
<1> HIDE DEF solves, g
<1>6. IsFold(g, k, base, chunks, 1 .. n)
  BY <1>2, <1>4
<1>7. PICK h : Chain(h, k, base, chunks, n) /\ h[n] = g[1 .. n]
  BY <1>6, FoldSteps
<1> QED
  BY <1>1, <1>5, <1>7 DEF Stores, Chain, base

\* windows goes from segment to segment.
JoinsUp(h, c, start, end, n) ==
    /\ h[0] = <<>> /\ h[n] = Windows(c, start, end)
    /\ \A i \in 1 .. n : h[i] = Join(h[i - 1], Window(c.segments[i], start, end))
LEMMA WindowsInTurn ==
    ASSUME NEW c, NEW start, NEW end, NEW n \in Nat, DOMAIN c.segments = 1 .. n
    PROVE  \E h : JoinsUp(h, c, start, end, n)
<1> DEFINE base == <<>>
           seq == c.segments
           k == [op |-> "join", start |-> start, end |-> end]
           solves(g) == g = [s \in SUBSET DOMAIN seq |->
                IF s = {} THEN base ELSE Join(g[s \ {Max(s)}], Window(seq[Max(s)], start, end))]
           g == CHOOSE g : solves(g)
<1>1. (\A x, e : Step(k, x, e) = Join(x, Window(e, start, end))) /\ DOMAIN seq = 1 .. n
  BY DEF Step
<1> HIDE DEF k, base, seq
<1>2. \A f : IsFold(f, k, base, seq, 1 .. n) <=> solves(f)
  <2>1. SUBSET DOMAIN seq = SUBSET (1 .. n)
    BY <1>1
  <2>2. \A f, s : FoldBody(f, k, base, seq, s) =
            IF s = {} THEN base ELSE Join(f[s \ {Max(s)}], Window(seq[Max(s)], start, end))
    BY <1>1 DEF FoldBody
  <2> QED
    BY <2>1, <2>2 DEF IsFold
<1>3. \E f : solves(f)
  <2>1. PICK f : IsFold(f, k, base, seq, 1 .. n)
    BY FoldExists
  <2> HIDE DEF solves
  <2> QED
    BY <1>2, <2>1
<1>4. solves(g)
  <2> HIDE DEF solves
  <2> QED
    BY <1>3
<1>5. Windows(c, start, end) = g[DOMAIN seq]
  BY DEF base, Windows, seq, FoldLeft, MapThenFoldSet
<1> HIDE DEF solves, g
<1>6. IsFold(g, k, base, seq, 1 .. n)
  BY <1>2, <1>4
<1>7. PICK h : Chain(h, k, base, seq, n) /\ h[n] = g[1 .. n]
  BY <1>6, FoldSteps
<1> QED
  BY <1>1, <1>5, <1>7 DEF JoinsUp, Chain, base, seq

\* scan_window goes from candidate to candidate.
Emits(h, y, flow, range, w, n) ==
    /\ h[0] = y /\ h[n] = ScanWindow(y, flow, range, w)
    /\ \A i \in 1 .. n : h[i] = EmitIfNew(h[i - 1], Match(flow, range.dir, w.start, Candidates(w.bytes)[i]), range)
LEMMA MatchesInTurn ==
    ASSUME NEW y, NEW flow, NEW range, NEW w, NEW n \in Nat, DOMAIN Candidates(w.bytes) = 1 .. n
    PROVE  \E h : Emits(h, y, flow, range, w, n)
<1> DEFINE base == y
           seq == Candidates(w.bytes)
           k == [op |-> "match", flow |-> flow, range |-> range, at |-> w.start]
           solves(g) == g = [s \in SUBSET DOMAIN seq |->
                IF s = {} THEN base ELSE EmitIfNew(g[s \ {Max(s)}], Match(flow, range.dir, w.start, seq[Max(s)]), range)]
           g == CHOOSE g : solves(g)
<1>1. (\A x, e : Step(k, x, e) = EmitIfNew(x, Match(flow, range.dir, w.start, e), range)) /\ DOMAIN seq = 1 .. n
  BY DEF Step
<1> HIDE DEF k, base, seq
<1>2. \A f : IsFold(f, k, base, seq, 1 .. n) <=> solves(f)
  <2>1. SUBSET DOMAIN seq = SUBSET (1 .. n)
    BY <1>1
  <2>2. \A f, s : FoldBody(f, k, base, seq, s) =
            IF s = {} THEN base ELSE EmitIfNew(f[s \ {Max(s)}], Match(flow, range.dir, w.start, seq[Max(s)]), range)
    BY <1>1 DEF FoldBody
  <2> QED
    BY <2>1, <2>2 DEF IsFold
<1>3. \E f : solves(f)
  <2>1. PICK f : IsFold(f, k, base, seq, 1 .. n)
    BY FoldExists
  <2> HIDE DEF solves
  <2> QED
    BY <1>2, <2>1
<1>4. solves(g)
  <2> HIDE DEF solves
  <2> QED
    BY <1>3
<1>5. ScanWindow(y, flow, range, w) = g[DOMAIN seq]
  BY DEF base, ScanWindow, seq, FoldLeft, MapThenFoldSet
<1> HIDE DEF solves, g
<1>6. IsFold(g, k, base, seq, 1 .. n)
  BY <1>2, <1>4
<1>7. PICK h : Chain(h, k, base, seq, n) /\ h[n] = g[1 .. n]
  BY <1>6, FoldSteps
<1> QED
  BY <1>1, <1>5, <1>7 DEF Emits, Chain, base, seq

\* What is stored around a new range.
Around(flow, streams, range) ==
    Windows(streams[flow].dirs[range.dir], Max({0, range.start - Lookbehind}), range.end)

\* The scan of a range goes from window to window.
Scans(h, y, flow, streams, range, n) ==
    /\ h[0] = y /\ h[n] = ScanRange(y, flow, streams, range)
    /\ \A i \in 1 .. n : h[i] = ScanWindow(h[i - 1], flow, range, Around(flow, streams, range)[i])
LEMMA ScansInTurn ==
    ASSUME NEW y, NEW flow, NEW streams, NEW range, NEW n \in Nat, DOMAIN Around(flow, streams, range) = 1 .. n
    PROVE  \E h : Scans(h, y, flow, streams, range, n)
<1> DEFINE base == y
           seq == Around(flow, streams, range)
           k == [op |-> "window", flow |-> flow, range |-> range]
           solves(g) == g = [s \in SUBSET DOMAIN seq |->
                IF s = {} THEN base ELSE ScanWindow(g[s \ {Max(s)}], flow, range, seq[Max(s)])]
           g == CHOOSE g : solves(g)
<1>1. (\A x, e : Step(k, x, e) = ScanWindow(x, flow, range, e)) /\ DOMAIN seq = 1 .. n
  BY DEF Step
<1> HIDE DEF k, base, seq
<1>2. \A f : IsFold(f, k, base, seq, 1 .. n) <=> solves(f)
  <2>1. SUBSET DOMAIN seq = SUBSET (1 .. n)
    BY <1>1
  <2>2. \A f, s : FoldBody(f, k, base, seq, s) =
            IF s = {} THEN base ELSE ScanWindow(f[s \ {Max(s)}], flow, range, seq[Max(s)])
    BY <1>1 DEF FoldBody
  <2> QED
    BY <2>1, <2>2 DEF IsFold
<1>3. \E f : solves(f)
  <2>1. PICK f : IsFold(f, k, base, seq, 1 .. n)
    BY FoldExists
  <2> HIDE DEF solves
  <2> QED
    BY <1>2, <2>1
<1>4. solves(g)
  <2> HIDE DEF solves
  <2> QED
    BY <1>3
<1>5. ScanRange(y, flow, streams, range) = g[DOMAIN seq]
  BY DEF base, ScanRange, seq, Around, FoldLeft, MapThenFoldSet
<1> HIDE DEF solves, g
<1>6. IsFold(g, k, base, seq, 1 .. n)
  BY <1>2, <1>4
<1>7. PICK h : Chain(h, k, base, seq, n) /\ h[n] = g[1 .. n]
  BY <1>6, FoldSteps
<1> QED
  BY <1>1, <1>5, <1>7 DEF Scans, Chain, base, seq

\* scan_update goes from range to range.
ScansAll(h, flow, streams, new, n) ==
    /\ h[0] = [emitted |-> {}, events |-> <<>>, stats |-> pattern_stats, by_stream |-> matches_by_stream]
    /\ h[n] = Scanned(flow, streams, new)
    /\ \A i \in 1 .. n : h[i] = ScanRange(h[i - 1], flow, streams, new[i])
LEMMA RangesInTurn ==
    ASSUME NEW flow, NEW streams, NEW new, NEW n \in Nat, DOMAIN new = 1 .. n
    PROVE  \E h : ScansAll(h, flow, streams, new, n)
<1> DEFINE base == [emitted |-> {}, events |-> <<>>, stats |-> pattern_stats, by_stream |-> matches_by_stream]
           k == [op |-> "range", flow |-> flow, streams |-> streams]
           solves(g) == g = [s \in SUBSET DOMAIN new |->
                IF s = {} THEN base ELSE ScanRange(g[s \ {Max(s)}], flow, streams, new[Max(s)])]
           g == CHOOSE g : solves(g)
<1>1. (\A x, e : Step(k, x, e) = ScanRange(x, flow, streams, e))
  BY DEF Step
<1> HIDE DEF k, base
<1>2. \A f : IsFold(f, k, base, new, 1 .. n) <=> solves(f)
  <2>1. SUBSET DOMAIN new = SUBSET (1 .. n)
    BY <1>1
  <2>2. \A f, s : FoldBody(f, k, base, new, s) =
            IF s = {} THEN base ELSE ScanRange(f[s \ {Max(s)}], flow, streams, new[Max(s)])
    BY <1>1 DEF FoldBody
  <2> QED
    BY <2>1, <2>2 DEF IsFold
<1>3. \E f : solves(f)
  <2>1. PICK f : IsFold(f, k, base, new, 1 .. n)
    BY FoldExists
  <2> HIDE DEF solves
  <2> QED
    BY <1>2, <2>1
<1>4. solves(g)
  <2> HIDE DEF solves
  <2> QED
    BY <1>3
<1>5. Scanned(flow, streams, new) = g[DOMAIN new]
  BY DEF base, Scanned, FoldLeft, MapThenFoldSet
<1> HIDE DEF solves, g
<1>6. IsFold(g, k, base, new, 1 .. n)
  BY <1>2, <1>4
<1>7. PICK h : Chain(h, k, base, new, n) /\ h[n] = g[1 .. n]
  BY <1>6, FoldSteps
<1> QED
  BY <1>1, <1>5, <1>7 DEF ScansAll, Chain, base

\* The record observes chunk by chunk.
Recorded(h, r, p, chunks, n) ==
    /\ h[0] = r /\ h[n] = ObserveChunks(r, p, chunks)
    /\ \A i \in 1 .. n : h[i] = ObservePayload(h[i - 1], p.flow, p.dir, chunks[i].bytes)
LEMMA RecordInTurn ==
    ASSUME NEW r, NEW p, NEW chunks, NEW n \in Nat, DOMAIN chunks = 1 .. n
    PROVE  \E h : Recorded(h, r, p, chunks, n)
<1> DEFINE base == r
           k == [op |-> "record", packet |-> p]
           solves(g) == g = [s \in SUBSET DOMAIN chunks |->
                IF s = {} THEN base ELSE ObservePayload(g[s \ {Max(s)}], p.flow, p.dir, chunks[Max(s)].bytes)]
           g == CHOOSE g : solves(g)
<1>1. (\A x, e : Step(k, x, e) = ObservePayload(x, p.flow, p.dir, e.bytes))
  BY DEF Step
<1> HIDE DEF k, base
<1>2. \A f : IsFold(f, k, base, chunks, 1 .. n) <=> solves(f)
  <2>1. SUBSET DOMAIN chunks = SUBSET (1 .. n)
    BY <1>1
  <2>2. \A f, s : FoldBody(f, k, base, chunks, s) =
            IF s = {} THEN base ELSE ObservePayload(f[s \ {Max(s)}], p.flow, p.dir, chunks[Max(s)].bytes)
    BY <1>1 DEF FoldBody
  <2> QED
    BY <2>1, <2>2 DEF IsFold
<1>3. \E f : solves(f)
  <2>1. PICK f : IsFold(f, k, base, chunks, 1 .. n)
    BY FoldExists
  <2> HIDE DEF solves
  <2> QED
    BY <1>2, <2>1
<1>4. solves(g)
  <2> HIDE DEF solves
  <2> QED
    BY <1>3
<1>5. ObserveChunks(r, p, chunks) = g[DOMAIN chunks]
  BY DEF base, ObserveChunks, FoldLeft, MapThenFoldSet
<1> HIDE DEF solves, g
<1>6. IsFold(g, k, base, chunks, 1 .. n)
  BY <1>2, <1>4
<1>7. PICK h : Chain(h, k, base, chunks, n) /\ h[n] = g[1 .. n]
  BY <1>6, FoldSteps
<1> QED
  BY <1>1, <1>5, <1>7 DEF Chain, base, Recorded

\* The parsers see payload by payload.
Parses(h, p, o, n) ==
    /\ h[0] = <<>> /\ h[n] = MessageEvents(p, o)
    /\ \A i \in 1 .. n : h[i] = AndParsed(h[i - 1], p.flow, Payloads(p, o)[i])
LEMMA ParsesInTurn ==
    ASSUME NEW p, NEW o, NEW n \in Nat, DOMAIN Payloads(p, o) = 1 .. n
    PROVE  \E h : Parses(h, p, o, n)
<1> DEFINE base == <<>>
           seq == Payloads(p, o)
           k == [op |-> "parse", flow |-> p.flow]
           solves(g) == g = [s \in SUBSET DOMAIN seq |->
                IF s = {} THEN base ELSE AndParsed(g[s \ {Max(s)}], p.flow, seq[Max(s)])]
           g == CHOOSE g : solves(g)
<1>1. (\A x, e : Step(k, x, e) = AndParsed(x, p.flow, e)) /\ DOMAIN seq = 1 .. n
  BY DEF Step
<1> HIDE DEF k, base, seq
<1>2. \A f : IsFold(f, k, base, seq, 1 .. n) <=> solves(f)
  <2>1. SUBSET DOMAIN seq = SUBSET (1 .. n)
    BY <1>1
  <2>2. \A f, s : FoldBody(f, k, base, seq, s) =
            IF s = {} THEN base ELSE AndParsed(f[s \ {Max(s)}], p.flow, seq[Max(s)])
    BY <1>1 DEF FoldBody
  <2> QED
    BY <2>1, <2>2 DEF IsFold
<1>3. \E f : solves(f)
  <2>1. PICK f : IsFold(f, k, base, seq, 1 .. n)
    BY FoldExists
  <2> HIDE DEF solves
  <2> QED
    BY <1>2, <2>1
<1>4. solves(g)
  <2> HIDE DEF solves
  <2> QED
    BY <1>3
<1>5. MessageEvents(p, o) = g[DOMAIN seq]
  BY DEF base, MessageEvents, AndParsed, seq, FoldLeft, MapThenFoldSet
<1> HIDE DEF solves, g
<1>6. IsFold(g, k, base, seq, 1 .. n)
  BY <1>2, <1>4
<1>7. PICK h : Chain(h, k, base, seq, n) /\ h[n] = g[1 .. n]
  BY <1>6, FoldSteps
<1> QED
  BY <1>1, <1>5, <1>7 DEF Parses, Chain, base, seq

\* observe_events goes from event to event.
Observes(h, v, seq, n) ==
    /\ h[0] = v /\ h[n] = ObserveEvents(v, seq)
    /\ \A i \in 1 .. n : h[i] = ObserveEvent(h[i - 1], seq[i])
LEMMA EventsInTurn ==
    ASSUME NEW v, NEW seq, NEW n \in Nat, DOMAIN seq = 1 .. n
    PROVE  \E h : Observes(h, v, seq, n)
<1> DEFINE base == v
           k == [op |-> "event"]
           solves(g) == g = [s \in SUBSET DOMAIN seq |->
                IF s = {} THEN base ELSE ObserveEvent(g[s \ {Max(s)}], seq[Max(s)])]
           g == CHOOSE g : solves(g)
<1>1. (\A x, e : Step(k, x, e) = ObserveEvent(x, e))
  BY DEF Step
<1> HIDE DEF k, base
<1>2. \A f : IsFold(f, k, base, seq, 1 .. n) <=> solves(f)
  <2>1. SUBSET DOMAIN seq = SUBSET (1 .. n)
    BY <1>1
  <2>2. \A f, s : FoldBody(f, k, base, seq, s) =
            IF s = {} THEN base ELSE ObserveEvent(f[s \ {Max(s)}], seq[Max(s)])
    BY <1>1 DEF FoldBody
  <2> QED
    BY <2>1, <2>2 DEF IsFold
<1>3. \E f : solves(f)
  <2>1. PICK f : IsFold(f, k, base, seq, 1 .. n)
    BY FoldExists
  <2> HIDE DEF solves
  <2> QED
    BY <1>2, <2>1
<1>4. solves(g)
  <2> HIDE DEF solves
  <2> QED
    BY <1>3
<1>5. ObserveEvents(v, seq) = g[DOMAIN seq]
  BY DEF base, ObserveEvents, FoldLeft, MapThenFoldSet
<1> HIDE DEF solves, g
<1>6. IsFold(g, k, base, seq, 1 .. n)
  BY <1>2, <1>4
<1>7. PICK h : Chain(h, k, base, seq, n) /\ h[n] = g[1 .. n]
  BY <1>6, FoldSteps
<1> QED
  BY <1>1, <1>5, <1>7 DEF Observes, Chain, base

-----------------------------------------------------------------------------
(* Tables *)

\* What stays in a table.
LEMMA WithoutIs ==
    ASSUME NEW table, NEW keys
    PROVE  /\ DOMAIN Without(table, keys) = DOMAIN table \ keys
           /\ \A k \in DOMAIN table \ keys : Without(table, keys)[k] = table[k]
  BY DEF Without, Restrict

\* A sweep takes keys of the table.
LEMMA SweptIs ==
    ASSUME NEW table, NEW n, NEW now, NEW timeout, NEW every
    PROVE  Swept(table, n, now, timeout, every) \subseteq DOMAIN table
  BY DEF Swept, Expired

\* One more key.
LEMMA OneMore ==
    ASSUME NEW D, IsFiniteSet(D), NEW key
    PROVE  /\ Cardinality(D) \in Nat /\ Cardinality(D \cup {key}) \in Nat
           /\ Cardinality(D \cup {key}) <= Cardinality(D) + 1
<1>1. Cardinality(D) \in Nat
  BY FS_CardinalityType
<1>2. Cardinality(D \cup {key}) =
            IF key \in D THEN Cardinality(D) ELSE Cardinality(D) + 1
  BY FS_AddElement
<1>3. PICK n \in Nat : n = Cardinality(D)
  BY <1>1
<1>4. PICK m : m = Cardinality(D \cup {key})
  OBVIOUS
<1>5. m <= n + 1 /\ m \in Nat
  BY <1>2, <1>3, <1>4
<1> QED
  BY <1>1, <1>3, <1>4, <1>5

\* Making room takes keys of the table, spares the key that comes, and makes room
\* for it.
LEMMA EvictionsFit ==
    ASSUME NEW table, IsFiniteSet(DOMAIN table), NEW key, NEW now, NEW timeout,
           NEW max \in Nat \ {0}, Cardinality(DOMAIN table) <= max,
           NEW gone \in Evictions(table, key, now, timeout, max)
    PROVE  /\ gone \subseteq DOMAIN table
           /\ key \in DOMAIN table => gone = {}
           /\ Cardinality((DOMAIN table \ gone) \cup {key}) <= max
<1> DEFINE idle == Expired(table, now, timeout)
           rest == Without(table, idle)
<1>1. idle \subseteq DOMAIN table /\ DOMAIN rest = DOMAIN table \ idle
  BY WithoutIs DEF Expired
<1>2. CASE key \in DOMAIN table \/ Cardinality(DOMAIN table) < max
  <2>1. gone = {}
    BY <1>2 DEF Evictions
  <2>2. Cardinality(DOMAIN table) \in Nat /\ Cardinality(DOMAIN table \cup {key}) =
            IF key \in DOMAIN table THEN Cardinality(DOMAIN table)
            ELSE Cardinality(DOMAIN table) + 1
    BY FS_AddElement, FS_CardinalityType
  <2>3. (DOMAIN table \ gone) \cup {key} = DOMAIN table \cup {key}
    BY <2>1
  <2> QED
    BY <1>2, <2>1, <2>2, <2>3
<1>3. CASE ~ (key \in DOMAIN table \/ Cardinality(DOMAIN table) < max)
  <2>1. IsFiniteSet(DOMAIN rest) /\ Cardinality(DOMAIN rest) \in Nat
    BY <1>1, FS_Subset, FS_CardinalityType
  <2>2. CASE Cardinality(DOMAIN rest) < max
    <3>1. gone = idle
      BY <1>3, <2>2 DEF Evictions
    <3>2. Cardinality(DOMAIN rest \cup {key}) \in Nat
          /\ Cardinality(DOMAIN rest \cup {key}) <= Cardinality(DOMAIN rest) + 1
      <4> DEFINE D == DOMAIN rest
      <4> HIDE DEF D
      <4>1. IsFiniteSet(D) /\ Cardinality(D) \in Nat
        BY <2>1 DEF D
      <4>2. Cardinality(D \cup {key}) \in Nat /\ Cardinality(D \cup {key}) <= Cardinality(D) + 1
        BY <4>1, OneMore
      <4> QED
        BY <4>2 DEF D
    <3>3. (DOMAIN table \ gone) \cup {key} = DOMAIN rest \cup {key} /\ gone \subseteq DOMAIN table
      BY <1>1, <3>1
    <3>4. PICK n \in Nat : n = Cardinality(DOMAIN rest)
      BY <2>1
    <3>5. PICK m : m = Cardinality(DOMAIN rest \cup {key})
      OBVIOUS
    <3>6. m <= n + 1 /\ n < max
      BY <2>2, <3>2, <3>4, <3>5
    <3>7. m \in Int
      BY <3>2, <3>5
    <3>8. m <= max
      BY <3>6, <3>7
    <3> QED
      BY <1>3, <3>3, <3>5, <3>8
  <2>3. CASE ~ (Cardinality(DOMAIN rest) < max)
    <3>1. gone \in {idle \cup {k} : k \in Oldest(rest)}
      BY <1>3, <2>3 DEF Evictions
    <3>2. PICK k \in DOMAIN rest : gone = idle \cup {k}
      BY <3>1 DEF Oldest
    <3>3. DOMAIN table \ gone = DOMAIN rest \ {k} /\ gone \subseteq DOMAIN table
      BY <1>1, <3>2
    <3>4. Cardinality(DOMAIN rest) <= Cardinality(DOMAIN table)
      BY <1>1, FS_Subset
    <3>5. IsFiniteSet(DOMAIN rest \ {k})
          /\ Cardinality(DOMAIN rest \ {k}) = Cardinality(DOMAIN rest) - 1
      BY <2>1, <3>2, FS_RemoveElement
    <3>6. Cardinality((DOMAIN rest \ {k}) \cup {key}) \in Nat
          /\ Cardinality((DOMAIN rest \ {k}) \cup {key}) <= Cardinality(DOMAIN rest \ {k}) + 1
      <4> DEFINE D == DOMAIN rest \ {k}
      <4>1. IsFiniteSet(D)
        BY <3>5
      <4> HIDE DEF D
      <4>2. Cardinality(D \cup {key}) \in Nat /\ Cardinality(D \cup {key}) <= Cardinality(D) + 1
        BY <4>1, OneMore
      <4> QED
        BY <4>2 DEF D
    <3>7. Cardinality(DOMAIN table) \in Nat
      BY FS_CardinalityType
    <3> HIDE DEF rest, idle
    <3> QED
      BY <1>3, <2>1, <3>3, <3>4, <3>5, <3>6, <3>7
  <2> QED
    BY <2>2, <2>3
<1> QED
  BY <1>2, <1>3

\* A table after a packet: the size, and what that is made of.
LEMMA TableCounts ==
    ASSUME NEW D, IsFiniteSet(D), NEW gone \in SUBSET D, NEW key
    PROVE  /\ IsFiniteSet((D \ gone) \cup {key}) /\ IsFiniteSet(gone)
           /\ Cardinality(D) \in Nat /\ Cardinality(gone) \in Nat
           /\ Cardinality((D \ gone) \cup {key}) =
                Cardinality(D) - Cardinality(gone) + (IF key \in D \ gone THEN 0 ELSE 1)
<1>1. IsFiniteSet(gone) /\ IsFiniteSet(D \ gone)
  BY FS_Subset, FS_Difference
<1>2. Cardinality(D) \in Nat /\ Cardinality(gone) \in Nat /\ Cardinality(D \ gone) \in Nat
  BY <1>1, FS_CardinalityType
<1>3. Cardinality(D \ gone) = Cardinality(D) - Cardinality(gone)
  <2>1. Cardinality(D \ gone) = Cardinality(D) - Cardinality(D \cap gone)
    BY FS_Difference
  <2>2. D \cap gone = gone
    OBVIOUS
  <2> QED
    BY <2>1, <2>2
<1>4. IsFiniteSet((D \ gone) \cup {key})
      /\ Cardinality((D \ gone) \cup {key}) =
            IF key \in D \ gone THEN Cardinality(D \ gone) ELSE Cardinality(D \ gone) + 1
  BY <1>1, FS_AddElement
<1> QED
  BY <1>1, <1>2, <1>3, <1>4

\* A packet's way through a table: a sweep, room for its key, and the key's new record.
TableMoved(table, key, max, kept, next, value, freed) ==
    /\ freed \in SUBSET DOMAIN table /\ IsFiniteSet(freed)
    /\ DOMAIN kept = DOMAIN table \ freed /\ \A k \in DOMAIN kept : kept[k] = table[k]
    /\ DOMAIN next = DOMAIN kept \cup {key} /\ next[key] = value
    /\ \A k \in DOMAIN kept \ {key} : next[k] = table[k]
    /\ IsFiniteSet(DOMAIN next) /\ Cardinality(DOMAIN next) <= max
    /\ Cardinality(freed) \in Nat /\ Cardinality(DOMAIN table) \in Nat
    /\ Cardinality(DOMAIN next) = Cardinality(DOMAIN table) - Cardinality(freed)
            + (IF key \in DOMAIN kept THEN 0 ELSE 1)

LEMMA TableStep ==
    ASSUME NEW table, IsFiniteSet(DOMAIN table), NEW key, NEW now, NEW timeout,
           NEW max \in Nat \ {0}, Cardinality(DOMAIN table) <= max, NEW idle \in SUBSET DOMAIN table,
           NEW gone \in Evictions(Without(table, idle), key, now, timeout, max), NEW value
    PROVE  TableMoved(table, key, max, Without(Without(table, idle), gone),
                      Put(Without(Without(table, idle), gone), key, value), value, idle \cup gone)
<1> DEFINE D == DOMAIN table
           awake == Without(table, idle)
           kept == Without(awake, gone)
           next == Put(kept, key, value)
           g == idle \cup gone
<1>1. DOMAIN awake = D \ idle /\ \A k \in D \ idle : awake[k] = table[k]
  BY WithoutIs
<1>2. idle \subseteq D
  OBVIOUS
<1>3. DOMAIN kept = DOMAIN awake \ gone /\ \A k \in DOMAIN awake \ gone : kept[k] = awake[k]
  BY WithoutIs
<1>4. IsFiniteSet(DOMAIN awake) /\ Cardinality(DOMAIN awake) <= max
  <2> HIDE DEF awake
  <2>1. DOMAIN awake \subseteq D
    BY <1>1
  <2>2. IsFiniteSet(DOMAIN awake) /\ Cardinality(DOMAIN awake) <= Cardinality(D)
        /\ Cardinality(DOMAIN awake) \in Nat /\ Cardinality(D) \in Nat
    BY <2>1, FS_Subset, FS_CardinalityType
  <2> QED
    BY <2>2
<1>5. gone \subseteq DOMAIN awake /\ Cardinality((DOMAIN awake \ gone) \cup {key}) <= max
  BY <1>4, EvictionsFit
<1>7. g \in SUBSET D
  BY <1>1, <1>2, <1>5
<1>8. /\ IsFiniteSet((D \ g) \cup {key}) /\ IsFiniteSet(g)
      /\ Cardinality(D) \in Nat /\ Cardinality(g) \in Nat
      /\ Cardinality((D \ g) \cup {key}) =
            Cardinality(D) - Cardinality(g) + (IF key \in D \ g THEN 0 ELSE 1)
  <2>1. IsFiniteSet(D)
    OBVIOUS
  <2> HIDE DEF D, g
  <2> QED
    BY <1>7, <2>1, TableCounts
<1>9. /\ DOMAIN next = DOMAIN kept \cup {key} /\ next[key] = value
      /\ \A k \in DOMAIN kept \ {key} : next[k] = kept[k]
  <2> HIDE DEF kept
  <2> QED
    BY DEF Put
<1> HIDE DEF next, kept, awake
<1>10. DOMAIN kept = D \ g /\ \A k \in DOMAIN kept : kept[k] = table[k]
  BY <1>1, <1>3
<1>11. DOMAIN next = (DOMAIN awake \ gone) \cup {key}
       /\ DOMAIN next = (D \ g) \cup {key}
  BY <1>3, <1>9, <1>10
<1>12. Cardinality(DOMAIN next) <= max
  BY <1>5, <1>11
<1> HIDE DEF g
<1>13. /\ IsFiniteSet(DOMAIN next)
       /\ Cardinality(DOMAIN next) =
            Cardinality(D) - Cardinality(g) + (IF key \in DOMAIN kept THEN 0 ELSE 1)
  BY <1>8, <1>10, <1>11
<1>14. \A k \in DOMAIN kept \ {key} : next[k] = table[k]
  BY <1>9, <1>10
<1>15. TableMoved(table, key, max, kept, next, value, g)
  BY <1>7, <1>8, <1>9, <1>10, <1>12, <1>13, <1>14 DEF TableMoved
<1> QED
  BY <1>15 DEF g, next, kept, awake

-----------------------------------------------------------------------------
(* Reassembly: what a direction of a flow holds, and what it releases         *)

\* The payloads a flow's packets carry, and what layers above may see of them.
Carried(f) == {p.seg.payload : p \in {q \in Packets : q.flow = f}}
Shown(f) == UNION {VisibleOf(p) : p \in {q \in Packets : q.flow = f}}

Chunks(f) == [seq : Int, bytes : Shown(f) \ {<<>>}]
Held(f) == [start : Int, end : Int, payload_start : Int, bytes : Carried(f)]
Direction(f) == [initial : Int, next : Int, fin_seen : BOOLEAN, buffered : Seq(Held(f)),
                 buffered_bytes : Int]
Entry(f) == [last_seen : Nat, packets : Nat, finished : BOOLEAN, dirs : [Directions -> Direction(f)]]

Segment(f, seg) == /\ seg.start \in Int /\ seg.payload \in Carried(f)
                   /\ seg.syn \in BOOLEAN /\ seg.fin \in BOOLEAN /\ seg.rst \in BOOLEAN

LEMMA PacketIs ==
    ASSUME NEW p \in Packets
    PROVE  /\ p.flow \in Flows /\ p.dir \in Directions /\ p.time \in Nat /\ p.tcp \in BOOLEAN
           /\ p.seg.payload \in Seq(Nat) /\ p.seg.payload \in Carried(p.flow)
           /\ Segment(p.flow, p.seg)
<1>1. Modulus \in Nat
  BY DirectionAssumption
<1>2. p.seg.payload \in Carried(p.flow)
  BY DEF Carried
<1>3. p.seg.start \in 0 .. Modulus - 1
  BY PipelineAssumption
<1>4. p.seg.start \in Int
  BY <1>1, <1>3
<1>5. p.seg.syn \in BOOLEAN /\ p.seg.fin \in BOOLEAN /\ p.seg.rst \in BOOLEAN
  BY PipelineAssumption
<1>6. p.flow \in Flows /\ p.dir \in Directions /\ p.time \in Nat /\ p.tcp \in BOOLEAN
      /\ p.seg.payload \in Seq(Nat)
  BY PipelineAssumption
<1> QED
  BY <1>2, <1>4, <1>5, <1>6 DEF Segment

\* What is carried is a sequence of bytes, and every end of it may be seen.
LEMMA CarriedIs ==
    ASSUME NEW f, NEW b \in Carried(f)
    PROVE  /\ b \in Seq(Nat) /\ Len(b) \in Nat
           /\ \A k \in 1 .. Len(b) : SubSeq(b, k, Len(b)) \in Shown(f)
           /\ b # <<>> => b \in Shown(f)
<1>1. PICK p \in Packets : p.flow = f /\ b = p.seg.payload
  BY DEF Carried
<1>2. b \in Seq(Nat) /\ Len(b) \in Nat /\ DOMAIN b = 1 .. Len(b)
  BY <1>1, PacketIs, LenProperties
<1>3. ASSUME NEW k \in 1 .. Len(b)
      PROVE  SubSeq(b, k, Len(b)) \in Shown(f)
  <2>1. SubSeq(b, k, Len(b)) \in VisibleOf(p)
    BY <1>1, <1>2 DEF VisibleOf
  <2> QED
    BY <1>1, <2>1 DEF Shown
<1>4. ASSUME b # <<>>
      PROVE  b \in Shown(f)
  <2>1. 1 \in 1 .. Len(b)
    BY <1>2, <1>4, EmptySeq
  <2>2. SubSeq(b, 1, Len(b)) = b
    BY <1>2
  <2> QED
    BY <1>3, <2>1, <2>2
<1> QED
  BY <1>2, <1>3, <1>4

\* What may be seen is a sequence of bytes, and the parsers' messages in it are messages.
Messages(f) == [flow : {f}, protocol : STRING, https : BOOLEAN, side : STRING, error : BOOLEAN]
LEMMA ShownIs ==
    ASSUME NEW f, NEW b \in Shown(f)
    PROVE  b \in Seq(Nat) /\ MessagesIn(f, b) \in Seq(Messages(f))
<1>1. PICK p \in Packets : p.flow = f /\ b \in VisibleOf(p)
  BY DEF Shown
<1>2. b \in Seq(Nat)
  <2>1. p.seg.payload \in Seq(Nat) /\ Len(p.seg.payload) \in Nat
        /\ DOMAIN p.seg.payload = 1 .. Len(p.seg.payload)
    BY PacketIs, LenProperties
  <2>2. CASE b = p.seg.payload
    BY <2>1, <2>2
  <2>3. CASE b # p.seg.payload
    <3>1. PICK i \in DOMAIN p.seg.payload : b = SubSeq(p.seg.payload, i, Len(p.seg.payload))
      BY <1>1, <2>3 DEF VisibleOf
    <3>2. i \in Nat \ {0} /\ Len(p.seg.payload) \in Int
      BY <2>1
    <3> QED
      BY <2>1, <3>1, <3>2, PieceIs
  <2> QED
    BY <2>2, <2>3
<1>3. MessagesIn(f, b) \in Seq([flow : {f}, protocol : STRING, https : BOOLEAN,
                                side : STRING, error : BOOLEAN])
  BY <1>1, PipelineAssumption
<1> QED
  BY <1>2, <1>3 DEF Messages

LEMMA ChunkTyped ==
    ASSUME NEW f, NEW start \in Int, NEW bytes, bytes = <<>> \/ bytes \in Shown(f)
    PROVE  Chunk(start, bytes) \in Seq(Chunks(f))
<1>1. CASE bytes = <<>>
  BY <1>1 DEF Chunk
<1>2. CASE bytes # <<>>
  <2>1. [seq |-> start, bytes |-> bytes] \in Chunks(f)
    BY <1>2 DEF Chunks
  <2> QED
    BY <1>2, <2>1 DEF Chunk
<1> QED
  BY <1>1, <1>2

LEMMA TrimmedTyped ==
    ASSUME NEW f, NEW b \in Carried(f), NEW start \in Int, NEW expected \in Int
    PROVE  Trimmed(start, b, expected) \in Seq(Chunks(f))
<1> DEFINE k == ((expected - start) % Modulus) + 1
           end == SubSeq(b, k, Len(b))
<1>1. k \in Nat \ {0} /\ Len(b) \in Nat
  BY CarriedIs, DirectionAssumption
<1>2. Trimmed(start, b, expected) \in {<<>>, Chunk(expected, end), Chunk(start, b)}
  BY DEF Trimmed
<1>3. end = <<>> \/ end \in Shown(f)
  <2> HIDE DEF k
  <2>1. CASE k \in 1 .. Len(b)
    BY <2>1, CarriedIs
  <2>2. CASE k \notin 1 .. Len(b)
    <3>1. b \in Seq(Nat) /\ Len(b) \in Int /\ ~ (k <= Len(b))
      BY <1>1, <2>2, CarriedIs
    <3>2. SubSeq(b, k, Len(b)) \in Seq(Nat) /\ Len(SubSeq(b, k, Len(b))) = 0
      BY <1>1, <3>1, PieceIs
    <3> QED
      BY <3>2, EmptySeq
  <2> QED
    BY <2>1, <2>2
<1>4. b = <<>> \/ b \in Shown(f)
  BY CarriedIs
<1> HIDE DEF k, end
<1>5. Chunk(expected, end) \in Seq(Chunks(f)) /\ Chunk(start, b) \in Seq(Chunks(f))
  BY <1>3, <1>4, ChunkTyped
<1>6. <<>> \in Seq(Chunks(f))
  OBVIOUS
<1> QED
  BY <1>2, <1>5, <1>6, Zenon

\* Positions of a segment.
LEMMA SegmentPlaces ==
    ASSUME NEW f, NEW seg, Segment(f, seg)
    PROVE  End(seg) \in Int /\ PayloadStart(seg) \in Int /\ Whole(seg) \in Seq(Chunks(f))
<1>1. Len(seg.payload) \in Nat /\ (seg.payload = <<>> \/ seg.payload \in Shown(f))
  BY CarriedIs DEF Segment
<1>2. PayloadStart(seg) \in Int
  <2>1. Modulus \in Nat \ {0} /\ seg.start \in Int
    BY DirectionAssumption DEF Segment
  <2>2. PICK n \in Int : n = seg.start + (IF seg.syn THEN 1 ELSE 0)
    BY <2>1
  <2>3. n % Modulus \in Int
    BY <2>1
  <2> QED
    BY <2>2, <2>3 DEF PayloadStart
<1>3. End(seg) \in Int
  <2>1. Modulus \in Nat \ {0} /\ seg.start \in Int
    BY DirectionAssumption DEF Segment
  <2>2. PICK l \in Nat : l = Len(seg.payload)
    BY <1>1
  <2>3. PICK a \in Nat : a = IF seg.syn THEN 1 ELSE 0
    OBVIOUS
  <2>4. PICK b \in Nat : b = IF seg.fin THEN 1 ELSE 0
    OBVIOUS
  <2>5. PICK n \in Int : n = seg.start + (l + a + b)
    BY <2>1, <2>2
  <2>6. n % Modulus \in Int
    BY <2>1
  <2> QED
    BY <2>2, <2>3, <2>4, <2>5, <2>6, Zenon DEF End, Span
<1> QED
  BY <1>1, <1>2, <1>3, ChunkTyped DEF Whole

\* A round of consume_contiguous_buffer: the state and what is released.
Round(f, r) == r.state \in Direction(f) /\ r.out \in Seq(Chunks(f))

LEMMA OneRoundTyped ==
    ASSUME NEW f, NEW r, Round(f, r)
    PROVE  Round(f, ConsumeOne(r))
<1> DEFINE b == r.state.buffered
           joining == {i \in 1 .. Len(b) : Joins(b[i], r.state.next)}
           i == CHOOSE k \in joining : \A l \in joining : k <= l
           s == b[i]
<1>1. b \in Seq(Held(f)) /\ Len(b) \in Nat /\ r.state.next \in Int /\ r.out \in Seq(Chunks(f))
      /\ r.state \in Direction(f)
  BY LenProperties DEF Round, Direction
<1>2. CASE joining = {}
  BY <1>2 DEF ConsumeOne
<1>3. CASE joining # {}
  <2>1. i \in 1 .. Len(b)
    <3>1. joining \in SUBSET Nat
      BY <1>1
    <3>2. \E k \in joining : \A l \in joining : k <= l
      <4> HIDE DEF joining
      <4> QED
        BY <1>3, <3>1, LeastElement
    <3>3. i \in joining
      <4> HIDE DEF joining
      <4> QED
        BY <3>2
    <3> QED
      BY <3>3
  <2>2. s \in Held(f)
    <3> HIDE DEF i, b
    <3> QED
      BY <1>1, <2>1, ElementOfSeq
  <2>3. s.bytes \in Carried(f) /\ s.payload_start \in Int /\ s.end \in Int /\ Len(s.bytes) \in Nat
    <3>1. s.bytes \in Carried(f) /\ s.payload_start \in Int /\ s.end \in Int
      <4> HIDE DEF s
      <4> QED
        BY <2>2 DEF Held
    <3> QED
      BY <3>1, CarriedIs
  <2>4. RemoveAt(b, i) \in Seq(Held(f))
    <3> HIDE DEF i, b
    <3> QED
      BY <1>1, <2>1, RemoveTyped, SMTT(30)
  <2> DEFINE state == [r.state EXCEPT !.buffered = RemoveAt(@, i),
                                      !.buffered_bytes = @ - Len(s.bytes),
                                      !.next = IF After(s.end, @) THEN s.end ELSE @]
             trimmed == Trimmed(s.payload_start, s.bytes, r.state.next)
  <2>5. ConsumeOne(r) = [state |-> state, out |-> r.out \o trimmed,
                         advanced |-> r.advanced \/ After(s.end, r.state.next)]
    BY <1>3, ZenonT(30) DEF ConsumeOne
  <2>6. state \in Direction(f)
    <3> DEFINE rest == RemoveAt(b, i)
               next == IF After(s.end, r.state.next) THEN s.end ELSE r.state.next
               held == r.state.buffered_bytes - Len(s.bytes)
    <3>1. state = [r.state EXCEPT !.buffered = rest, !.buffered_bytes = held, !.next = next]
      OBVIOUS
    <3>2. rest \in Seq(Held(f)) /\ next \in Int /\ held \in Int
      <4>1. r.state.buffered_bytes \in Int
        BY <1>1 DEF Direction
      <4>2. held \in Int
        BY <2>3, <4>1, SMTT(30)
      <4>3. next \in Int
        BY <1>1, <2>3
      <4>4. rest \in Seq(Held(f))
        BY <2>4
      <4> QED
        BY <4>2, <4>3, <4>4
    <3> HIDE DEF rest, next, held, state
    <3> QED
      BY <1>1, <3>1, <3>2 DEF Direction
  <2>7. r.out \o trimmed \in Seq(Chunks(f))
    <3>1. trimmed \in Seq(Chunks(f))
      <4> HIDE DEF s
      <4> QED
        BY <1>1, <2>3, TrimmedTyped
    <3> HIDE DEF trimmed
    <3> QED
      BY <1>1, <3>1, ConcatProperties
  <2> HIDE DEF state, trimmed, s
  <2> QED
    BY <2>5, <2>6, <2>7 DEF Round
<1> QED
  BY <1>2, <1>3

RoundBody(g, r, n) == IF n = 0 THEN r ELSE ConsumeOne(g[n - 1])
IsRounds(g, r, k) == g = [n \in 0 .. k |-> RoundBody(g, r, n)]
Fresh(state, out) == [state |-> state, out |-> out, advanced |-> FALSE]

\* The recursion of Consume has a solution, and the last round is the result.
LEMMA ConsumeUnfolds ==
    ASSUME NEW state, NEW out, Len(state.buffered) \in Nat
    PROVE  \E g : /\ Consume(state, out) = g[Len(state.buffered)]
                  /\ \A n \in 0 .. Len(state.buffered) : g[n] = RoundBody(g, Fresh(state, out), n)
<1> DEFINE r == Fresh(state, out)
           k == Len(state.buffered)
           G == {n \in Nat : \E h : IsRounds(h, r, n)}
<1>1. 0 \in G
  <2> DEFINE h == [n \in 0 .. 0 |-> r]
  <2>1. IsRounds(h, r, 0)
    BY DEF IsRounds, RoundBody
  <2> HIDE DEF h
  <2> QED
    BY <2>1
<1>2. ASSUME NEW n \in Nat, n \in G
      PROVE  n + 1 \in G
  <2>1. PICK h : IsRounds(h, r, n)
    BY <1>2
  <2> DEFINE f == [j \in 0 .. n + 1 |-> RoundBody(h, r, j)]
  <2> HIDE DEF r
  <2>2. \A j \in 0 .. n : f[j] = h[j]
    BY <2>1 DEF IsRounds
  <2>3. ASSUME NEW j \in 0 .. n + 1
        PROVE  f[j] = RoundBody(f, r, j)
    <3>1. f[j] = RoundBody(h, r, j)
      OBVIOUS
    <3>2. j # 0 => j - 1 \in 0 .. n
      OBVIOUS
    <3> HIDE DEF f
    <3> QED
      BY <2>2, <3>1, <3>2 DEF RoundBody
  <2>4. IsRounds(f, r, n + 1)
    BY <2>3 DEF IsRounds
  <2> HIDE DEF f
  <2>5. n + 1 \in Nat
    OBVIOUS
  <2> QED
    BY <2>4, <2>5, Zenon
<1>3. k \in G
  <2> HIDE DEF G
  <2> QED
    BY <1>1, <1>2, NumberInduction
<1> DEFINE after == CHOOSE g : IsRounds(g, r, k)
<1>4. IsRounds(after, r, k)
  <2> HIDE DEF r, k
  <2> QED
    BY <1>3
<1>5. Consume(state, out) = after[k]
  BY DEF Consume, IsRounds, RoundBody, Fresh
<1> HIDE DEF after, r, k
<1>6. \A n \in 0 .. k : after[n] = RoundBody(after, r, n)
  BY <1>4 DEF IsRounds
<1> QED
  BY <1>5, <1>6 DEF r, k

LEMMA ConsumeTyped ==
    ASSUME NEW f, NEW state \in Direction(f), NEW out \in Seq(Chunks(f))
    PROVE  Round(f, Consume(state, out))
<1> DEFINE k == Len(state.buffered)
<1>1. k \in Nat
  BY LenProperties DEF Direction
<1>2. PICK g : /\ Consume(state, out) = g[k]
               /\ \A n \in 0 .. k : g[n] = RoundBody(g, Fresh(state, out), n)
  BY <1>1, ConsumeUnfolds
<1> HIDE DEF k
<1> DEFINE G == {n \in Nat : n <= k => Round(f, g[n])}
<1>3. 0 \in G
  <2>1. g[0] = Fresh(state, out)
    BY <1>1, <1>2 DEF RoundBody
  <2>2. Round(f, g[0])
    BY <2>1 DEF Round, Fresh
  <2> QED
    BY <2>2
<1>4. ASSUME NEW n \in Nat, n \in G
      PROVE  n + 1 \in G
  <2> SUFFICES ASSUME n + 1 <= k
               PROVE  Round(f, g[n + 1])
    OBVIOUS
  <2>1. n <= k /\ n + 1 \in 0 .. k /\ (n + 1) - 1 = n /\ n + 1 # 0
    BY <1>1
  <2>2. g[n + 1] = ConsumeOne(g[n])
    BY <1>2, <2>1 DEF RoundBody
  <2>3. Round(f, g[n])
    BY <1>4, <2>1
  <2> QED
    BY <2>2, <2>3, OneRoundTyped
<1>5. k \in G
  <2> HIDE DEF G
  <2> QED
    BY <1>1, <1>3, <1>4, NumberInduction
<1> QED
  BY <1>1, <1>2, <1>5

\* Where a segment that came too early is put.
LEMMA PlaceTyped ==
    ASSUME NEW b, Len(b) \in Nat, NEW start
    PROVE  Place(b, start) \in 1 .. Len(b) + 1
<1> DEFINE later == {i \in 1 .. Len(b) : Before(start, b[i].start)}
<1>1. CASE later = {}
  BY <1>1 DEF Place
<1>2. CASE later # {}
  <2>1. Place(b, start) = CHOOSE i \in later : \A j \in later : i <= j
    BY <1>2 DEF Place
  <2>2. later \in SUBSET Nat /\ later \subseteq 1 .. Len(b) + 1
    OBVIOUS
  <2> HIDE DEF later
  <2>3. \E k \in later : \A j \in later : k <= j
    BY <1>2, <2>2, LeastElement
  <2> QED
    BY <2>1, <2>2, <2>3
<1> QED
  BY <1>1, <1>2

\* What observe returns.
Result(f, r) == r.state \in Direction(f) /\ r.out \in Seq(Chunks(f))

LEMMA BufferTyped ==
    ASSUME NEW f, NEW state \in Direction(f), NEW seg, Segment(f, seg), NEW bytes
    PROVE  Result(f, Buffer(state, seg, bytes))
<1> DEFINE held == [start |-> seg.start, end |-> End(seg),
                    payload_start |-> PayloadStart(seg), bytes |-> seg.payload]
           b == InsertAt(state.buffered, Place(state.buffered, seg.start), held)
           n == state.buffered_bytes + Len(seg.payload)
           new == [state EXCEPT !.buffered = b, !.buffered_bytes = n]
<1>1. state.buffered \in Seq(Held(f)) /\ Len(state.buffered) \in Nat /\ state.buffered_bytes \in Int
  BY LenProperties DEF Direction
<1>2. held \in Held(f)
  <2>1. seg.start \in Int /\ End(seg) \in Int /\ PayloadStart(seg) \in Int /\ seg.payload \in Carried(f)
    BY SegmentPlaces DEF Segment
  <2> QED
    BY <2>1 DEF Held
<1>3. b \in Seq(Held(f))
  <2> HIDE DEF held
  <2>1. Place(state.buffered, seg.start) \in 1 .. Len(state.buffered) + 1
    BY <1>1, PlaceTyped
  <2> QED
    BY <1>1, <1>2, <2>1, InsertTyped
<1>4. n \in Int
  <2>1. Len(seg.payload) \in Nat
    BY CarriedIs DEF Segment
  <2> QED
    BY <1>1, <2>1
<1>5. new \in Direction(f)
  <2> HIDE DEF b, n
  <2> QED
    BY <1>3, <1>4 DEF Direction
<1>6. \E s \in {state, new} : \E word : Buffer(state, seg, bytes) = [state |-> s, out |-> <<>>, status |-> word]
  BY DEF Buffer
<1> HIDE DEF new
<1>7. <<>> \in Seq(Chunks(f))
  OBVIOUS
<1> QED
  BY <1>5, <1>6, <1>7 DEF Result

\* TcpDirectionState::observe keeps the direction's shape and releases chunks of what the
\* flow's packets carry.
LEMMA ObserveTyped ==
    ASSUME NEW f, NEW old \in Direction(f), NEW seg, Segment(f, seg), NEW bytes
    PROVE  Result(f, Observe(old, seg, bytes))
<1> DEFINE state == [old EXCEPT !.fin_seen = @ \/ seg.fin]
           same(status) == [state |-> state, out |-> <<>>, status |-> status]
<1>1. state \in Direction(f)
  <2>1. old.fin_seen \in BOOLEAN /\ seg.fin \in BOOLEAN
    BY DEF Direction, Segment
  <2>2. PICK b \in BOOLEAN : b = (old.fin_seen \/ seg.fin)
    OBVIOUS
  <2>3. state = [old EXCEPT !.fin_seen = b]
    BY <2>2
  <2> HIDE DEF state
  <2> QED
    BY <2>3 DEF Direction
<1>2. End(seg) \in Int /\ PayloadStart(seg) \in Int /\ Whole(seg) \in Seq(Chunks(f)) /\ seg.start \in Int
  BY SegmentPlaces DEF Segment
<1>3. [state EXCEPT !.next = End(seg)] \in Direction(f)
      /\ [state EXCEPT !.initial = seg.start, !.next = End(seg)] \in Direction(f)
  <2> HIDE DEF state
  <2> QED
    BY <1>1, <1>2 DEF Direction
<1>4. state.next \in Int
  <2> HIDE DEF state
  <2> QED
    BY <1>1 DEF Direction
<1> HIDE DEF state
<1>5. Result(f, First(state, seg))
  <2> DEFINE r == Consume([state EXCEPT !.initial = seg.start, !.next = End(seg)], Whole(seg))
  <2>1. Round(f, r)
    BY <1>2, <1>3, ConsumeTyped
  <2>2. First(state, seg) = [state |-> r.state, out |-> r.out, status |-> "Init"]
    BY DEF First
  <2> HIDE DEF r
  <2> QED
    BY <2>1, <2>2 DEF Round, Result
<1>6. Result(f, Continue(state, seg))
  <2> DEFINE r == Consume([state EXCEPT !.next = End(seg)], Whole(seg))
  <2>1. Round(f, r)
    BY <1>2, <1>3, ConsumeTyped
  <2>2. Continue(state, seg) =
            [state |-> r.state, out |-> r.out,
             status |-> IF r.advanced THEN "GapFilled" ELSE IF seg.fin THEN "Fin" ELSE "InOrder"]
    BY DEF Continue
  <2> HIDE DEF r
  <2> QED
    BY <2>1, <2>2 DEF Round, Result
<1>7. Result(f, Overlap(state, seg))
  <2> DEFINE trimmed == Trimmed(PayloadStart(seg), seg.payload, state.next)
             r == Consume([state EXCEPT !.next = End(seg)], trimmed)
  <2>1. trimmed \in Seq(Chunks(f))
    BY <1>2, <1>4, TrimmedTyped DEF Segment
  <2>2. Round(f, r)
    <3> HIDE DEF trimmed
    <3> QED
      BY <1>3, <2>1, ConsumeTyped
  <2>3. Overlap(state, seg) = [state |-> r.state, out |-> r.out, status |-> "Overlap"]
    BY DEF Overlap
  <2> HIDE DEF r
  <2> QED
    BY <2>2, <2>3 DEF Round, Result
<1>8. Result(f, Buffer(state, seg, bytes))
  BY <1>1, BufferTyped
<1>9. \A status : Result(f, same(status))
  BY <1>1 DEF Result
<1>10. \/ Observe(old, seg, bytes) \in {First(state, seg), Continue(state, seg), Overlap(state, seg),
                                        Buffer(state, seg, bytes)}
       \/ \E status : Observe(old, seg, bytes) = same(status)
  BY Zenon DEF Observe, state
<1> HIDE DEF same
<1> QED
  BY <1>5, <1>6, <1>7, <1>8, <1>9, <1>10

-----------------------------------------------------------------------------
(* The flow table *)

LEMMA NewEntryTyped ==
    ASSUME NEW f, NEW now \in Nat
    PROVE  NewEntry(now) \in Entry(f)
<1>1. NewDirection \in Direction(f)
  BY DEF NewDirection, Direction, None
<1>2. [d \in Directions |-> NewDirection] \in [Directions -> Direction(f)]
  BY <1>1
<1> QED
  BY <1>2 DEF NewEntry, Entry

\* What a packet makes of its entry, and the chunks it releases.
LEMMA SeenTyped ==
    ASSUME NEW p \in Packets, NEW entry \in Entry(p.flow)
    PROVE  Seen(entry, p).entry \in Entry(p.flow) /\ Seen(entry, p).chunks \in Seq(Chunks(p.flow))
<1> DEFINE r == Observe(entry.dirs[p.dir], p.seg, BufferedBytes(entry.dirs))
           dirs == [entry.dirs EXCEPT ![p.dir] = r.state]
           seen == [entry EXCEPT !.last_seen = p.time, !.packets = @ + 1]
           all == \A d \in Directions : dirs[d].fin_seen
<1>1. p.dir \in Directions /\ p.time \in Nat /\ Segment(p.flow, p.seg) /\ p.seg.rst \in BOOLEAN
  BY PacketIs DEF Segment
<1>2. entry.dirs \in [Directions -> Direction(p.flow)] /\ entry.packets \in Nat
      /\ entry.finished \in BOOLEAN
  BY DEF Entry
<1>3. Result(p.flow, r)
  <2>1. entry.dirs[p.dir] \in Direction(p.flow)
    BY <1>1, <1>2
  <2> QED
    BY <1>1, <2>1, ObserveTyped
<1>4. dirs \in [Directions -> Direction(p.flow)]
  <2> HIDE DEF r
  <2> QED
    BY <1>1, <1>2, <1>3 DEF Result
<1>5. seen \in Entry(p.flow)
  <2>1. PICK m \in Nat : m = entry.packets + 1
    BY <1>2
  <2>2. seen = [entry EXCEPT !.last_seen = p.time, !.packets = m]
    BY <2>1
  <2> HIDE DEF seen
  <2> QED
    BY <1>1, <2>2 DEF Entry
<1>6. CASE ~ p.tcp
  <2>1. Seen(entry, p) = [entry |-> seen, status |-> None, chunks |-> <<>>]
    BY <1>6 DEF Seen
  <2> HIDE DEF seen
  <2> QED
    BY <1>5, <2>1
<1>7. CASE p.tcp
  <2>1. PICK done \in BOOLEAN : done = (seen.finished \/ p.seg.rst \/ all)
    <3> HIDE DEF seen, all
    <3> QED
      OBVIOUS
  <2>2. Seen(entry, p) = [entry |-> [seen EXCEPT !.dirs = dirs,
                                        !.finished = seen.finished \/ p.seg.rst \/ all],
                          status |-> r.status, chunks |-> r.out]
    BY <1>7, Zenon DEF Seen, seen, dirs, all, r
  <2>3. [seen EXCEPT !.dirs = dirs, !.finished = done] \in Entry(p.flow)
    <3> HIDE DEF seen, dirs, all
    <3> QED
      BY <1>4, <1>5 DEF Entry
  <2> HIDE DEF seen, dirs, all, r
  <2> QED
    BY <1>3, <2>1, <2>2, <2>3 DEF Result
<1> QED
  BY <1>6, <1>7

\* The flow table between packets: its entries, its limit and its counters.
FlowTableOK ==
    /\ DOMAIN entries \subseteq Flows /\ IsFiniteSet(DOMAIN entries)
    /\ Cardinality(DOMAIN entries) <= MaxFlows
    /\ \A f \in DOMAIN entries : entries[f] \in Entry(f)
    /\ flow_stats.created \in Nat /\ flow_stats.evicted \in Nat
    /\ flow_stats.created - flow_stats.evicted = Cardinality(DOMAIN entries)

LEMMA FlowInitOK == FlowInit => FlowTableOK
<1> SUFFICES ASSUME FlowInit
             PROVE  FlowTableOK
  OBVIOUS
<1>1. DOMAIN entries = {}
  BY DEF FlowInit
<1>2. IsFiniteSet({}) /\ Cardinality({}) = 0
  BY FS_EmptySet
<1>3. flow_stats.created = 0 /\ flow_stats.evicted = 0
  BY DEF FlowInit
<1> QED
  BY <1>1, <1>2, <1>3, FlowTableAssumption DEF FlowTableOK

\* observe_with_route keeps it, and what it observes of the packet are chunks of the
\* packet's flow.
LEMMA FlowStep ==
    ASSUME FlowTableOK, NEW p \in Packets, ObserveFlow(p)
    PROVE  /\ FlowTableOK' /\ p.flow \in DOMAIN entries'
           /\ observation'.chunks \in Seq(Chunks(p.flow))
<1> DEFINE n == (entry_packets + 1) % SweepEvery
           idle == Swept(entries, n, p.time, FlowTimeout, SweepEvery)
           awake == Without(entries, idle)
<1>1. PICK gone \in Evictions(awake, p.flow, p.time, FlowTimeout, MaxFlows) :
        LET kept == Without(awake, gone)
            is_new == p.flow \notin DOMAIN kept
            r == Seen(IF is_new THEN NewEntry(p.time) ELSE kept[p.flow], p)
        IN  /\ entries' = Put(kept, p.flow, r.entry)
            /\ flow_stats' = [created |-> flow_stats.created + (IF is_new THEN 1 ELSE 0),
                              evicted |-> flow_stats.evicted + Cardinality(idle \cup gone),
                              chunks |-> flow_stats.chunks + Len(r.chunks),
                              bytes |-> flow_stats.bytes + ChunkBytes(r.chunks)]
            /\ observation' = [flow |-> p.flow, dir |-> p.dir, is_new |-> is_new, tcp |-> p.tcp,
                               status |-> r.status, chunks |-> r.chunks]
  BY Zenon DEF ObserveFlow
<1> DEFINE kept == Without(awake, gone)
           old == IF p.flow \notin DOMAIN kept THEN NewEntry(p.time) ELSE kept[p.flow]
           r == Seen(old, p)
           next == Put(kept, p.flow, r.entry)
           freed == idle \cup gone
<1>2. entries' = next /\ observation'.chunks = r.chunks
      /\ flow_stats'.created = flow_stats.created + (IF p.flow \in DOMAIN kept THEN 0 ELSE 1)
      /\ flow_stats'.evicted = flow_stats.evicted + Cardinality(freed)
  <2> HIDE DEF next
  <2>1. observation'.chunks = r.chunks
    BY <1>1
  <2>2. entries' = next
    BY <1>1, Zenon DEF next
  <2>3. flow_stats'.created = flow_stats.created + (IF p.flow \in DOMAIN kept THEN 0 ELSE 1)
        /\ flow_stats'.evicted = flow_stats.evicted + Cardinality(freed)
    BY <1>1
  <2> QED
    BY <2>1, <2>2, <2>3
<1>3. TableMoved(entries, p.flow, MaxFlows, kept, next, r.entry, freed)
  <2>1. IsFiniteSet(DOMAIN entries) /\ Cardinality(DOMAIN entries) <= MaxFlows
    BY DEF FlowTableOK
  <2>2. MaxFlows \in Nat \ {0} /\ idle \in SUBSET DOMAIN entries
    BY FlowTableAssumption, SweptIs
  <2> HIDE DEF idle, r
  <2> QED
    BY <2>1, <2>2, TableStep
<1> HIDE DEF r, old, next, kept, awake, idle, freed, n
<1>4. p.flow \in Flows /\ p.time \in Nat
  BY PacketIs
<1>5. old \in Entry(p.flow)
  BY <1>3, <1>4, NewEntryTyped DEF FlowTableOK, TableMoved, old
<1>6. r.entry \in Entry(p.flow) /\ r.chunks \in Seq(Chunks(p.flow))
  BY <1>5, SeenTyped DEF r
<1>7. flow_stats'.created \in Nat /\ flow_stats'.evicted \in Nat
      /\ flow_stats'.created - flow_stats'.evicted = Cardinality(DOMAIN next)
  <2>1. flow_stats.created \in Nat /\ flow_stats.evicted \in Nat
        /\ flow_stats.created - flow_stats.evicted = Cardinality(DOMAIN entries)
    BY DEF FlowTableOK
  <2>2. PICK d \in Nat : d = Cardinality(DOMAIN entries)
    BY <1>3 DEF TableMoved
  <2>3. PICK g \in Nat : g = Cardinality(freed)
    BY <1>3 DEF TableMoved
  <2>4. Cardinality(DOMAIN next) = d - g + (IF p.flow \in DOMAIN kept THEN 0 ELSE 1)
    BY <1>3, <2>2, <2>3 DEF TableMoved
  <2> QED
    BY <1>2, <2>1, <2>2, <2>3, <2>4
<1>8. DOMAIN next \subseteq Flows /\ \A f \in DOMAIN next : next[f] \in Entry(f)
  BY <1>3, <1>4, <1>6 DEF FlowTableOK, TableMoved
<1> QED
  BY <1>2, <1>3, <1>6, <1>7, <1>8 DEF FlowTableOK, TableMoved


-----------------------------------------------------------------------------
(* The stream inventory *)

\* A record: its counts, and how far what was emitted last is behind them.
RecordShape(r) ==
    /\ DOMAIN r = {"last_seen", "service", "status", "packets", "stream_bytes", "fin_seen", "samples",
                   "shown_packets", "shown_bytes"}
    /\ r.packets \in Nat /\ r.stream_bytes \in Nat /\ r.shown_packets \in Nat /\ r.shown_bytes \in Nat
RecordOK(r) ==
    /\ RecordShape(r)
    /\ PacketInterval # 0 => r.packets - r.shown_packets < PacketInterval
    /\ ByteInterval # 0 => r.stream_bytes - r.shown_bytes < ByteInterval

\* What a packet leaves alone in a record.
Grows(r, s) ==
    /\ RecordShape(s) /\ s.packets = r.packets
    /\ s.shown_packets = r.shown_packets /\ s.shown_bytes = r.shown_bytes

LEMMA PayloadGrows ==
    ASSUME NEW r, NEW s, Grows(r, s), NEW flow, NEW dir, NEW bytes \in Seq(Nat)
    PROVE  Grows(r, ObservePayload(s, flow, dir, bytes))
<1>1. CASE bytes = <<>>
  <2>1. ObservePayload(s, flow, dir, bytes) = s
    BY <1>1 DEF ObservePayload
  <2> QED
    BY <2>1
<1>2. CASE bytes # <<>>
  <2>1. PICK service : service = Merge(s.service, Detect(flow, dir, bytes))
    OBVIOUS
  <2>2. PICK n \in Nat : n = s.stream_bytes + Len(bytes)
    BY LenProperties DEF Grows, RecordShape
  <2>3. PICK samples : samples = [s.samples EXCEPT ![dir] = Sample(@, bytes)]
    OBVIOUS
  <2>4. ObservePayload(s, flow, dir, bytes) =
            [s EXCEPT !.service = service, !.stream_bytes = n, !.samples = samples]
    BY <1>2, <2>1, <2>2, <2>3, Zenon DEF ObservePayload
  <2> DEFINE t == [s EXCEPT !.service = service, !.stream_bytes = n, !.samples = samples]
  <2>5. Grows(r, t)
    BY DEF Grows, RecordShape
  <2> QED
    BY <2>4, <2>5
<1> QED
  BY <1>1, <1>2

LEMMA ChunksGrow ==
    ASSUME NEW r, RecordShape(r), NEW p, NEW chunks \in Seq(Chunks(p.flow))
    PROVE  Grows(r, ObserveChunks(r, p, chunks))
<1> DEFINE n == Len(chunks)
<1>1. n \in Nat /\ DOMAIN chunks = 1 .. n /\ \A i \in 1 .. n : chunks[i] \in Chunks(p.flow)
  BY LenProperties, ElementOfSeq
<1> HIDE DEF n
<1>2. PICK h : Recorded(h, r, p, chunks, n)
  BY <1>1, RecordInTurn
<1> DEFINE G == {i \in Nat : i <= n => Grows(r, h[i])}
<1>3. 0 \in G
  BY <1>2 DEF Grows, Recorded
<1>4. ASSUME NEW i \in Nat, i \in G
      PROVE  i + 1 \in G
  <2> SUFFICES ASSUME i + 1 <= n
               PROVE  Grows(r, h[i + 1])
    OBVIOUS
  <2>1. i + 1 \in 1 .. n /\ (i + 1) - 1 = i /\ i <= n
    BY <1>1
  <2>2. h[i + 1] = ObservePayload(h[i], p.flow, p.dir, chunks[i + 1].bytes)
    BY <1>2, <2>1 DEF Recorded
  <2>3. chunks[i + 1].bytes \in Seq(Nat)
    <3>1. chunks[i + 1] \in Chunks(p.flow)
      BY <1>1, <2>1
    <3>2. chunks[i + 1].bytes \in Shown(p.flow)
      BY <3>1 DEF Chunks
    <3> QED
      BY <3>2, ShownIs
  <2>4. Grows(r, h[i])
    BY <1>4, <2>1
  <2> QED
    BY <2>2, <2>3, <2>4, PayloadGrows
<1>5. n \in G
  <2> HIDE DEF G
  <2> QED
    BY <1>1, <1>3, <1>4, NumberInduction
<1> QED
  BY <1>1, <1>2, <1>5 DEF Recorded

\* All that a packet changes.
LEMMA PacketGrows ==
    ASSUME NEW r, RecordShape(r), NEW p \in Packets, NEW o, o.chunks \in Seq(Chunks(p.flow))
    PROVE  /\ RecordShape(ObservePacket(r, p, o))
           /\ ObservePacket(r, p, o).shown_packets = r.shown_packets
           /\ ObservePacket(r, p, o).shown_bytes = r.shown_bytes
<1> DEFINE seen == [r EXCEPT !.last_seen = p.time, !.packets = @ + 1]
           told == ObserveStatus(seen, p.dir, o.status)
<1>1. RecordShape(seen) /\ seen.shown_packets = r.shown_packets /\ seen.shown_bytes = r.shown_bytes
  <2>1. PICK m \in Nat : m = r.packets + 1
    BY DEF RecordShape
  <2>2. seen = [r EXCEPT !.last_seen = p.time, !.packets = m]
    BY <2>1
  <2> HIDE DEF seen
  <2> QED
    BY <2>2 DEF RecordShape
<1> HIDE DEF seen
<1>2. CASE ~ p.tcp
  <2>1. ObservePacket(r, p, o) = ObservePayload(seen, p.flow, p.dir, p.seg.payload)
    BY <1>2 DEF ObservePacket, seen
  <2>2. Grows(seen, seen) /\ p.seg.payload \in Seq(Nat)
    BY <1>1, PacketIs DEF Grows
  <2>3. Grows(seen, ObservePayload(seen, p.flow, p.dir, p.seg.payload))
    BY <2>2, PayloadGrows
  <2> QED
    BY <1>1, <2>1, <2>3 DEF Grows
<1>3. CASE p.tcp
  <2>1. ObservePacket(r, p, o) = ObserveChunks(told, p, o.chunks)
    BY <1>3 DEF ObservePacket, seen
  <2>2. RecordShape(told) /\ told.shown_packets = r.shown_packets /\ told.shown_bytes = r.shown_bytes
    <3>1. \E fins, status : told \in {seen, [seen EXCEPT !.status = "Closed"],
                                     [seen EXCEPT !.fin_seen = fins, !.status = status]}
      BY DEF ObserveStatus, Fin
    <3> HIDE DEF told
    <3> QED
      BY <1>1, <3>1 DEF RecordShape
  <2> HIDE DEF told
  <2>3. Grows(told, ObserveChunks(told, p, o.chunks))
    BY <2>2, ChunksGrow
  <2> QED
    BY <2>1, <2>2, <2>3 DEF Grows
<1> QED
  BY <1>2, <1>3

\* What the rows show of a record, and that it is not changed.
Same(r, s) == r.status = s.status /\ r.service = s.service /\ ContentKind(r) = ContentKind(s)
MarkedUp(r) == r.shown_packets = r.packets /\ r.shown_bytes = r.stream_bytes

LEMMA MarkIs ==
    ASSUME NEW r, RecordShape(r)
    PROVE  RecordOK(MarkEmitted(r)) /\ Same(r, MarkEmitted(r)) /\ MarkedUp(MarkEmitted(r))
<1> DEFINE s == MarkEmitted(r)
<1>1. /\ DOMAIN s = DOMAIN r /\ s.packets = r.packets /\ s.stream_bytes = r.stream_bytes
      /\ s.shown_packets = r.packets /\ s.shown_bytes = r.stream_bytes
      /\ s.samples = r.samples /\ s.service = r.service /\ s.status = r.status
  BY DEF RecordShape, MarkEmitted
<1> HIDE DEF s
<1>2. ContentKind(r) = ContentKind(s)
  BY <1>1 DEF ContentKind
<1>3. s.packets - s.shown_packets = 0 /\ s.stream_bytes - s.shown_bytes = 0
  BY <1>1 DEF RecordShape
<1>4. PacketInterval \in Nat /\ ByteInterval \in Nat
  BY InventoryAssumption
<1>5. RecordOK(s)
  BY <1>1, <1>3, <1>4 DEF RecordOK, RecordShape
<1> QED
  BY <1>1, <1>2, <1>5 DEF Same, MarkedUp, s

\* Without an event nothing that is shown has changed, and the intervals are not over.
LEMMA NotDue ==
    ASSUME NEW r, NEW s, RecordShape(s), ~ ShouldEmit(r, s)
    PROVE  RecordOK(s) /\ Same(r, s)
<1>1. PacketInterval \in Nat /\ ByteInterval \in Nat
  BY InventoryAssumption
<1>2. s.packets - s.shown_packets \in Int /\ s.stream_bytes - s.shown_bytes \in Int
  BY DEF RecordShape
<1>3. /\ ~ (PacketInterval # 0 /\ s.packets - s.shown_packets >= PacketInterval)
      /\ ~ (ByteInterval # 0 /\ s.stream_bytes - s.shown_bytes >= ByteInterval)
      /\ ~ ForcesUpdate(r, s)
  BY DEF ShouldEmit
<1>4. Same(r, s)
  BY <1>3 DEF ForcesUpdate, Same
<1> QED
  BY <1>1, <1>2, <1>3, <1>4 DEF RecordOK

InventoryOK ==
    /\ DOMAIN records \subseteq Flows /\ IsFiniteSet(DOMAIN records)
    /\ Cardinality(DOMAIN records) <= MaxStreams
    /\ inventory_stats.created \in Nat /\ inventory_stats.evicted \in Nat
    /\ inventory_stats.created - inventory_stats.evicted = Cardinality(DOMAIN records)
    /\ \A f \in DOMAIN records : RecordOK(records[f])

LEMMA InventoryInitOK == InventoryInit => InventoryOK
<1> SUFFICES ASSUME InventoryInit
             PROVE  InventoryOK
  OBVIOUS
<1>1. DOMAIN records = {} /\ inventory_stats.created = 0 /\ inventory_stats.evicted = 0
  BY DEF InventoryInit
<1>2. IsFiniteSet({}) /\ Cardinality({}) = 0
  BY FS_EmptySet
<1> QED
  BY <1>1, <1>2, InventoryAssumption DEF InventoryOK

\* What an event tells of a record is what an event made of it.
OneEvent(type, flow, r) == <<[type |-> type, flow |-> flow, row |-> Row(r)]>>

\* The record of the packet's flow is new or changed, the other records stay or go, and
\* an event says what is shown of the flow's record unless that has not changed.
RecordsMoved(flow) ==
    /\ flow \in DOMAIN records' /\ DOMAIN records' \subseteq DOMAIN records \cup {flow}
    /\ \A f \in DOMAIN records' \ {flow} : records'[f] = records[f]
    /\ \/ /\ inventory_events' = <<>> /\ flow \in DOMAIN records
          /\ Same(records[flow], records'[flow])
          /\ records'[flow].shown_packets = records[flow].shown_packets
          /\ records'[flow].shown_bytes = records[flow].shown_bytes
       \/ /\ MarkedUp(records'[flow])
          /\ \E type \in {"stream_open", "stream_update"} :
                inventory_events' = OneEvent(type, flow, records'[flow])

\* The record of a packet's flow before the packet and with it, and whether there is an event.
KeptRecord(kept, p) == IF p.flow \notin DOMAIN kept THEN NewRecord(p.flow, p.time) ELSE kept[p.flow]
Due(kept, p, new) == p.flow \notin DOMAIN kept \/ ShouldEmit(KeptRecord(kept, p), new)

LEMMA RecordStep ==
    ASSUME NEW kept, NEW p \in Packets, \A f \in DOMAIN kept : RecordOK(kept[f]),
           NEW o, o.chunks \in Seq(Chunks(p.flow)), NEW new, new = ObservePacket(KeptRecord(kept, p), p, o)
    PROVE  /\ RecordShape(new) /\ RecordOK(MarkEmitted(new)) /\ MarkedUp(MarkEmitted(new))
           /\ Row(MarkEmitted(new)) = Row(new)
           /\ ~ Due(kept, p, new) =>
                /\ p.flow \in DOMAIN kept /\ RecordOK(new) /\ Same(kept[p.flow], new)
                /\ new.shown_packets = kept[p.flow].shown_packets
                /\ new.shown_bytes = kept[p.flow].shown_bytes
<1> DEFINE old == KeptRecord(kept, p)
<1>1. RecordShape(old)
  <2>1. RecordShape(NewRecord(p.flow, p.time))
    BY DEF RecordShape, NewRecord
  <2> QED
    BY <2>1 DEF KeptRecord, RecordOK
<1>2. RecordShape(new) /\ new.shown_packets = old.shown_packets /\ new.shown_bytes = old.shown_bytes
  <2> HIDE DEF old
  <2>1. new = ObservePacket(old, p, o)
    BY DEF old
  <2> QED
    BY <1>1, <2>1, PacketGrows
<1>3. RecordOK(MarkEmitted(new)) /\ Same(new, MarkEmitted(new)) /\ MarkedUp(MarkEmitted(new))
  BY <1>2, MarkIs
<1>4. Row(MarkEmitted(new)) = Row(new)
  <2>1. MarkEmitted(new).packets = new.packets /\ MarkEmitted(new).stream_bytes = new.stream_bytes
    BY <1>2 DEF MarkEmitted, RecordShape
  <2> QED
    BY <1>3, <2>1 DEF Row, Same
<1>5. ASSUME ~ Due(kept, p, new)
      PROVE  p.flow \in DOMAIN kept /\ old = kept[p.flow] /\ RecordOK(new) /\ Same(old, new)
  <2>1. p.flow \in DOMAIN kept /\ ~ ShouldEmit(old, new)
    BY <1>5 DEF Due
  <2>2. old = kept[p.flow]
    BY <2>1 DEF KeptRecord
  <2> QED
    BY <1>2, <2>1, <2>2, NotDue
<1> QED
  BY <1>2, <1>3, <1>4, <1>5

\* StreamInventory::observe_flow keeps it.
LEMMA InventoryStep ==
    ASSUME InventoryOK, NEW p \in Packets, observation'.chunks \in Seq(Chunks(p.flow)),
           ObserveInventory(p, observation')
    PROVE  InventoryOK' /\ RecordsMoved(p.flow)
<1> DEFINE n == (record_packets + 1) % SweepEvery
           idle == Swept(records, n, p.time, StreamTimeout, SweepEvery)
           awake == Without(records, idle)
<1>1. PICK gone \in Evictions(awake, p.flow, p.time, StreamTimeout, MaxStreams) :
        LET kept == Without(awake, gone)
            created == p.flow \notin DOMAIN kept
            old == IF created THEN NewRecord(p.flow, p.time) ELSE kept[p.flow]
            new == ObservePacket(old, p, observation')
            emit == created \/ ShouldEmit(old, new)
            event == [type |-> IF created THEN "stream_open" ELSE "stream_update",
                      flow |-> p.flow, row |-> Row(new)]
            tally(b) == IF b THEN 1 ELSE 0
        IN  /\ records' = Put(kept, p.flow, IF emit THEN MarkEmitted(new) ELSE new)
            /\ inventory_events' = IF emit THEN <<event>> ELSE <<>>
            /\ inventory_stats' =
                [created |-> inventory_stats.created + tally(created),
                 evicted |-> inventory_stats.evicted + Cardinality(idle \cup gone),
                 closed |-> inventory_stats.closed
                            + tally(old.status # "Closed" /\ new.status = "Closed"),
                 events |-> inventory_stats.events + tally(emit)]
  BY Zenon DEF ObserveInventory
<1> DEFINE kept == Without(awake, gone)
           old == KeptRecord(kept, p)
           new == ObservePacket(old, p, observation')
           due == Due(kept, p, new)
           last == IF due THEN MarkEmitted(new) ELSE new
           next == Put(kept, p.flow, last)
           freed == idle \cup gone
           type == IF p.flow \notin DOMAIN kept THEN "stream_open" ELSE "stream_update"
<1>2. /\ records' = next
      /\ inventory_events' = IF due THEN <<[type |-> type, flow |-> p.flow, row |-> Row(new)]>> ELSE <<>>
  BY <1>1, Zenon DEF KeptRecord, Due
<1>3. /\ inventory_stats'.created = inventory_stats.created + (IF p.flow \in DOMAIN kept THEN 0 ELSE 1)
      /\ inventory_stats'.evicted = inventory_stats.evicted + Cardinality(freed)
  BY <1>1
<1>4. TableMoved(records, p.flow, MaxStreams, kept, next, last, freed)
  <2>1. IsFiniteSet(DOMAIN records) /\ Cardinality(DOMAIN records) <= MaxStreams
    BY DEF InventoryOK
  <2>2. MaxStreams \in Nat \ {0} /\ idle \in SUBSET DOMAIN records
    BY InventoryAssumption, SweptIs
  <2> HIDE DEF idle, last
  <2> QED
    BY <2>1, <2>2, TableStep
<1> HIDE DEF last, due, old, next, kept, awake, idle, freed, n
<1>5. \A f \in DOMAIN kept : RecordOK(kept[f]) /\ kept[f] = records[f]
  BY <1>4 DEF TableMoved, InventoryOK
<1>6. p.flow \in Flows
  BY PacketIs
<1>7. /\ RecordShape(new) /\ RecordOK(MarkEmitted(new)) /\ MarkedUp(MarkEmitted(new))
      /\ Row(MarkEmitted(new)) = Row(new)
      /\ ~ Due(kept, p, new) =>
            /\ p.flow \in DOMAIN kept /\ RecordOK(new) /\ Same(kept[p.flow], new)
            /\ new.shown_packets = kept[p.flow].shown_packets
            /\ new.shown_bytes = kept[p.flow].shown_bytes
  BY <1>5, RecordStep DEF old
<1> HIDE DEF new
<1>8. RecordOK(last)
  BY <1>7 DEF last, due
<1>9. /\ DOMAIN next = DOMAIN kept \cup {p.flow} /\ next[p.flow] = last
      /\ \A f \in DOMAIN kept \ {p.flow} : next[f] = records[f]
      /\ DOMAIN kept \subseteq DOMAIN records
  BY <1>4 DEF TableMoved
<1>10. inventory_stats'.created \in Nat /\ inventory_stats'.evicted \in Nat
       /\ inventory_stats'.created - inventory_stats'.evicted = Cardinality(DOMAIN next)
  <2>1. inventory_stats.created \in Nat /\ inventory_stats.evicted \in Nat
        /\ inventory_stats.created - inventory_stats.evicted = Cardinality(DOMAIN records)
    BY DEF InventoryOK
  <2>2. PICK d \in Nat : d = Cardinality(DOMAIN records)
    BY <1>4 DEF TableMoved
  <2>3. PICK g \in Nat : g = Cardinality(freed)
    BY <1>4 DEF TableMoved
  <2>4. PICK b \in {0, 1} : b = IF p.flow \in DOMAIN kept THEN 0 ELSE 1
    OBVIOUS
  <2>5. Cardinality(DOMAIN next) = d - g + b
    BY <1>4, <2>2, <2>3, <2>4 DEF TableMoved
  <2>6. PICK c \in Nat : c = inventory_stats.created
    BY <2>1
  <2>7. PICK e \in Nat : e = inventory_stats.evicted
    BY <2>1
  <2>8. inventory_stats'.created = c + b /\ inventory_stats'.evicted = e + g
    BY <1>3, <2>3, <2>4, <2>6, <2>7
  <2>9. c - e = d
    BY <2>1, <2>2, <2>6, <2>7
  <2>10. c + b \in Nat /\ e + g \in Nat /\ (c + b) - (e + g) = d - g + b
    BY <2>9
  <2> QED
    BY <2>5, <2>8, <2>10
<1>11. InventoryOK'
  <2>1. DOMAIN next \subseteq Flows /\ IsFiniteSet(DOMAIN next) /\ Cardinality(DOMAIN next) <= MaxStreams
    BY <1>4, <1>6, <1>9 DEF TableMoved, InventoryOK
  <2>2. \A f \in DOMAIN next : RecordOK(next[f])
    BY <1>5, <1>8, <1>9
  <2> QED
    BY <1>2, <1>10, <2>1, <2>2 DEF InventoryOK
<1>12. RecordsMoved(p.flow)
  <2>1. p.flow \in DOMAIN records' /\ DOMAIN records' \subseteq DOMAIN records \cup {p.flow}
        /\ \A f \in DOMAIN records' \ {p.flow} : records'[f] = records[f]
    BY <1>2, <1>9
  <2>2. CASE due
    <3>1. records'[p.flow] = MarkEmitted(new)
      BY <1>2, <1>9, <2>2 DEF last
    <3>2. inventory_events' = OneEvent(type, p.flow, records'[p.flow])
      BY <1>2, <1>7, <2>2, <3>1 DEF OneEvent
    <3>3. type \in {"stream_open", "stream_update"}
      OBVIOUS
    <3> HIDE DEF type
    <3> QED
      BY <1>7, <2>1, <3>1, <3>2, <3>3 DEF RecordsMoved
  <2>3. CASE ~ due
    <3>1. records'[p.flow] = new /\ inventory_events' = <<>>
      BY <1>2, <1>9, <2>3 DEF last
    <3>2. p.flow \in DOMAIN kept /\ kept[p.flow] = records[p.flow] /\ p.flow \in DOMAIN records
      BY <1>5, <1>7, <1>9, <2>3 DEF due
    <3>3. Same(kept[p.flow], new) /\ new.shown_packets = kept[p.flow].shown_packets
          /\ new.shown_bytes = kept[p.flow].shown_bytes
      BY <1>7, <2>3 DEF due
    <3> QED
      BY <2>1, <3>1, <3>2, <3>3, Zenon DEF RecordsMoved
  <2> QED
    BY <2>2, <2>3
<1> QED
  BY <1>11, <1>12

-----------------------------------------------------------------------------
(* The content store *)

ContentSegment == [start : Int, seq : Int, at : Nat, bytes : Seq(Nat)]
ContentDirection == [next : Nat, stored : Nat, segments : Seq(ContentSegment)]
ContentRecord == [last_seen : Nat, truncated : BOOLEAN, dirs : [Directions -> ContentDirection]]
ContentRange == [dir : Directions, start : Nat, end : Nat]

\* The smaller and the larger of two numbers.
LEMMA OfTwo ==
    ASSUME NEW a \in Int, NEW b \in Int
    PROVE  /\ Min({a, b}) \in {a, b} /\ Min({a, b}) <= a /\ Min({a, b}) <= b
           /\ Max({a, b}) \in {a, b} /\ Max({a, b}) >= a /\ Max({a, b}) >= b
<1>1. \E x \in {a, b} : \A y \in {a, b} : x <= y
  OBVIOUS
<1>2. \E x \in {a, b} : \A y \in {a, b} : x >= y
  OBVIOUS
<1>3. Min({a, b}) \in {a, b} /\ \A y \in {a, b} : Min({a, b}) <= y
  BY <1>1 DEF Min
<1>4. Max({a, b}) \in {a, b} /\ \A y \in {a, b} : Max({a, b}) >= y
  BY <1>2 DEF Max
<1> QED
  BY <1>3, <1>4

\* What append has done and has left to do.
Appending == [dir : ContentDirection, ranges : Seq(ContentRange), merged : Nat,
              seq : Int, left : Seq(Nat)]

LEMMA MergedSegments ==
    ASSUME NEW segments \in Seq(ContentSegment), segments # <<>>, NEW bytes \in Seq(Nat)
    PROVE  [segments EXCEPT ![Len(segments)].bytes = @ \o bytes] \in Seq(ContentSegment)
<1>1. Len(segments) \in 1 .. Len(segments)
  BY EmptySeq, LenProperties
<1>2. segments[Len(segments)] \in ContentSegment
  BY <1>1, ElementOfSeq
<1>3. PICK all \in Seq(Nat) : all = segments[Len(segments)].bytes \o bytes
  BY <1>2, ConcatProperties DEF ContentSegment
<1>4. PICK s \in ContentSegment : s = [segments[Len(segments)] EXCEPT !.bytes = all]
  BY <1>2 DEF ContentSegment
<1>5. [segments EXCEPT ![Len(segments)] = s] \in Seq(ContentSegment)
  BY <1>1, ExceptSeq
<1> QED
  BY <1>3, <1>4, <1>5

\* A round of append moves a piece from what is left to what is stored.
LEMMA AppendPieceTyped ==
    ASSUME NEW a \in Appending, NEW dir \in Directions, NEW now \in Nat
    PROVE  /\ AppendPiece(a, dir, now) \in Appending
           /\ AppendPiece(a, dir, now).dir.stored + Len(AppendPiece(a, dir, now).left)
                = a.dir.stored + Len(a.left)
           /\ a.left # <<>> => Len(AppendPiece(a, dir, now).left) < Len(a.left)
<1> DEFINE c == a.dir
           take == Min({Len(a.left), MaxSegmentBytes})
           bytes == SubSeq(a.left, 1, take)
           merged == Merges(c, a.seq, bytes)
           segments ==
               IF merged
               THEN [c.segments EXCEPT ![Len(c.segments)].bytes = @ \o bytes]
               ELSE Append(c.segments, [start |-> c.next, seq |-> a.seq, at |-> now, bytes |-> bytes])
           seq == IF a.seq = None THEN None ELSE (a.seq + take) % Modulus
           range == [dir |-> dir, start |-> c.next, end |-> c.next + take]
           joined == a.merged + (IF merged THEN 1 ELSE 0)
           left == SubSeq(a.left, take + 1, Len(a.left))
<1>1. CASE a.left = <<>>
  <2>1. AppendPiece(a, dir, now) = a
    BY <1>1 DEF AppendPiece
  <2> QED
    BY <1>1, <2>1
<1>2. CASE a.left # <<>>
  <2>1. PICK b : b = AppendPiece(a, dir, now)
    OBVIOUS
  <2>2. b = [dir |-> [next |-> c.next + take, stored |-> c.stored + take, segments |-> segments],
             ranges |-> Append(a.ranges, range), merged |-> joined, seq |-> seq, left |-> left]
    BY <1>2, <2>1, Zenon DEF AppendPiece
  <2>3. a.left \in Seq(Nat) /\ Len(a.left) \in Nat /\ Len(a.left) # 0
    BY <1>2, EmptySeq, LenProperties DEF Appending
  <2>4. MaxSegmentBytes \in Nat \ {0}
    BY ContentAssumption
  <2>5. take \in Nat \ {0} /\ take <= Len(a.left)
    <3>1. PICK l \in Nat \ {0} : l = Len(a.left)
      BY <2>3
    <3>2. take = Min({l, MaxSegmentBytes})
      BY <3>1
    <3>3. l \in Int /\ MaxSegmentBytes \in Int
      BY <2>4
    <3>4. Min({l, MaxSegmentBytes}) \in {l, MaxSegmentBytes} /\ Min({l, MaxSegmentBytes}) <= l
      BY <3>3, OfTwo
    <3> HIDE DEF take
    <3> QED
      BY <2>4, <3>1, <3>2, <3>4
  <2> HIDE DEF take
  <2>6. bytes \in Seq(Nat)
    BY <2>3, <2>5, PieceIs
  <2>7. left \in Seq(Nat) /\ Len(left) = Len(a.left) - take
    <3>1. PICK m \in Nat \ {0} : m = take + 1
      BY <2>5
    <3>2. PICK n \in Int : n = Len(a.left)
      BY <2>3
    <3>3. SubSeq(a.left, m, n) \in Seq(Nat)
          /\ Len(SubSeq(a.left, m, n)) = IF m <= n THEN n - m + 1 ELSE 0
      BY <2>3, <3>2, PieceIs
    <3>4. (IF m <= n THEN n - m + 1 ELSE 0) = n - take
      BY <2>5, <3>1, <3>2
    <3> QED
      BY <3>1, <3>2, <3>3, <3>4
  <2>8. c.next \in Nat /\ c.stored \in Nat /\ c.segments \in Seq(ContentSegment)
        /\ a.seq \in Int /\ a.merged \in Nat /\ a.ranges \in Seq(ContentRange)
    BY DEF Appending, ContentDirection
  <2> HIDE DEF bytes, left, c
  <2>9. segments \in Seq(ContentSegment)
    <3>1. CASE merged
      <4>1. c.segments # <<>>
        BY <3>1 DEF Merges
      <4>2. [c.segments EXCEPT ![Len(c.segments)].bytes = @ \o bytes] \in Seq(ContentSegment)
        BY <2>6, <2>8, <4>1, MergedSegments
      <4> QED
        BY <3>1, <4>2
    <3>2. CASE ~ merged
      <4>1. [start |-> c.next, seq |-> a.seq, at |-> now, bytes |-> bytes] \in ContentSegment
        BY <2>6, <2>8 DEF ContentSegment
      <4>2. Append(c.segments, [start |-> c.next, seq |-> a.seq, at |-> now, bytes |-> bytes])
                \in Seq(ContentSegment)
        BY <2>8, <4>1, AppendProperties
      <4> QED
        BY <3>2, <4>2
    <3> QED
      BY <3>1, <3>2
  <2>10. seq \in Int
    BY <2>5, <2>8, DirectionAssumption DEF None
  <2>11. Append(a.ranges, range) \in Seq(ContentRange)
    <3>1. range \in ContentRange
      BY <2>5, <2>8 DEF ContentRange
    <3> QED
      BY <2>8, <3>1, AppendProperties
  <2>12. joined \in Nat
    BY <2>8
  <2> HIDE DEF segments, seq, range, joined, merged
  <2>13. PICK m \in Nat : m = c.stored + take
    BY <2>5, <2>8
  <2>14. PICK next \in Nat : next = c.next + take
    BY <2>5, <2>8
  <2>15. b = [dir |-> [next |-> next, stored |-> m, segments |-> segments],
              ranges |-> Append(a.ranges, range), merged |-> joined, seq |-> seq, left |-> left]
    BY <2>2, <2>13, <2>14
  <2>16. b \in Appending
    BY <2>7, <2>9, <2>10, <2>11, <2>12, <2>15 DEF Appending, ContentDirection
  <2>17. b.dir.stored + Len(b.left) = a.dir.stored + Len(a.left) /\ Len(b.left) < Len(a.left)
    <3>1. b.dir.stored = m /\ Len(b.left) = Len(a.left) - take /\ a.dir.stored = c.stored
      BY <2>7, <2>15 DEF c
    <3> QED
      BY <2>3, <2>5, <2>8, <2>13, <3>1, SMTT(30)
  <2> QED
    BY <2>1, <2>16, <2>17
<1> QED
  BY <1>1, <1>2

\* append stores all the bytes.
LEMMA AppendBytesTyped ==
    ASSUME NEW c \in ContentDirection, NEW dir \in Directions, NEW seq \in Int, NEW now \in Nat,
           NEW bytes \in Seq(Nat)
    PROVE  /\ AppendBytes(c, dir, seq, now, bytes) \in Appending
           /\ AppendBytes(c, dir, seq, now, bytes).dir.stored = c.stored + Len(bytes)
<1> DEFINE n == Len(bytes)
<1>1. n \in Nat /\ DOMAIN bytes = 1 .. n
  BY LenProperties
<1> HIDE DEF n
<1>2. PICK h : Appends(h, c, dir, seq, now, bytes, n)
  BY <1>1, PiecesInTurn
<1> DEFINE Done(a, i) == /\ a \in Appending /\ a.dir.stored + Len(a.left) = c.stored + n
                         /\ Len(a.left) <= n - i
           G == {i \in Nat : i <= n => Done(h[i], i)}
<1>3. 0 \in G
  <2>1. <<>> \in Seq(ContentRange)
    OBVIOUS
  <2>2. h[0] \in Appending
    BY <1>2, <2>1 DEF Appends, Appending
  <2>3. h[0].dir = c /\ h[0].left = bytes
    BY <1>2 DEF Appends
  <2> QED
    BY <1>1, <2>2, <2>3 DEF n
<1>4. ASSUME NEW i \in Nat, i \in G
      PROVE  i + 1 \in G
  <2> SUFFICES ASSUME i + 1 <= n
               PROVE  Done(h[i + 1], i + 1)
    OBVIOUS
  <2>1. i + 1 \in 1 .. n /\ (i + 1) - 1 = i /\ i <= n
    BY <1>1
  <2>2. PICK a : a = h[i]
    OBVIOUS
  <2>3. PICK b : b = h[i + 1]
    OBVIOUS
  <2>4. b = AppendPiece(a, dir, now)
    BY <1>2, <2>1, <2>2, <2>3 DEF Appends
  <2>5. Done(a, i)
    BY <1>4, <2>1, <2>2
  <2>6. /\ b \in Appending /\ b.dir.stored + Len(b.left) = a.dir.stored + Len(a.left)
        /\ a.left # <<>> => Len(b.left) < Len(a.left)
    BY <2>4, <2>5, AppendPieceTyped
  <2>7. a.left = <<>> => b = a
    BY <2>4 DEF AppendPiece
  <2>8. Len(a.left) \in Nat /\ Len(b.left) \in Nat /\ (a.left = <<>> => Len(a.left) = 0)
    BY <2>5, <2>6, LenProperties, EmptySeq DEF Appending
  <2>9. Len(b.left) <= n - (i + 1)
    <3>1. CASE a.left = <<>>
      BY <1>1, <2>1, <2>7, <2>8, <3>1
    <3>2. CASE a.left # <<>>
      BY <1>1, <2>1, <2>5, <2>6, <2>8, <3>2
    <3> QED
      BY <3>1, <3>2
  <2> QED
    BY <2>3, <2>5, <2>6, <2>9
<1>5. Done(h[n], n)
  <2>1. n \in G
    <3> HIDE DEF G
    <3> QED
      BY <1>1, <1>3, <1>4, NumberInduction
  <2> QED
    BY <1>1, <2>1
<1>6. Len(h[n].left) = 0 /\ h[n].dir.stored \in Nat /\ c.stored \in Nat
  <2>1. h[n] \in Appending /\ Len(h[n].left) <= n - n
    BY <1>5
  <2>2. Len(h[n].left) \in Nat
    BY <2>1, LenProperties DEF Appending
  <2> QED
    BY <1>1, <2>1, <2>2 DEF Appending, ContentDirection
<1>7. h[n].dir.stored + 0 = c.stored + n
  BY <1>5, <1>6
<1> QED
  BY <1>1, <1>2, <1>5, <1>6, <1>7 DEF Appends, n

\* trim_oldest takes no more than there is.
LEMMA TrimOldestTyped ==
    ASSUME NEW c \in ContentDirection, NEW excess \in Nat
    PROVE  TrimOldest(c, excess) \in ContentDirection
<1> DEFINE gone == Min({excess, c.stored})
           cut(s) == Max({0, Min({Len(s.bytes), c.segments[1].start + gone - s.start})})
           trimmed(s) == [s EXCEPT !.start = @ + cut(s), !.bytes = SubSeq(@, cut(s) + 1, Len(@)),
                                   !.seq = IF @ = None THEN None ELSE (@ + cut(s)) % Modulus]
           rest == [i \in DOMAIN c.segments |-> trimmed(c.segments[i])]
           whole == {i \in DOMAIN rest : rest[i].bytes = <<>>}
<1>1. c.next \in Nat /\ c.stored \in Nat /\ c.segments \in Seq(ContentSegment)
  BY DEF ContentDirection
<1>2. gone \in Nat /\ gone <= c.stored
  <2>1. PICK m \in Nat : m = c.stored
    BY <1>1
  <2>2. excess \in Int /\ m \in Int
    OBVIOUS
  <2>3. Min({excess, m}) \in {excess, m} /\ Min({excess, m}) <= m
    BY <2>2, OfTwo
  <2>4. gone = Min({excess, m})
    BY <2>1
  <2> HIDE DEF gone
  <2> QED
    BY <2>1, <2>3, <2>4
<1> HIDE DEF gone
<1>3. PICK n \in Nat : n = Len(c.segments) /\ DOMAIN c.segments = 1 .. n
                       /\ \A i \in 1 .. n : c.segments[i] \in ContentSegment
  BY <1>1, LenProperties, ElementOfSeq
<1>4. ASSUME NEW i \in 1 .. n
      PROVE  trimmed(c.segments[i]) \in ContentSegment
  <2>1. PICK s \in ContentSegment : s = c.segments[i]
    BY <1>3
  <2>2. c.segments[1].start \in Int /\ s.start \in Int /\ s.bytes \in Seq(Nat) /\ s.seq \in Int
    BY <1>3, <2>1 DEF ContentSegment
  <2>3. PICK l \in Nat : l = Len(s.bytes)
    BY <2>2, LenProperties
  <2>4. PICK m \in Int : m = c.segments[1].start + gone - s.start
    BY <1>2, <2>2
  <2>5. PICK k : k = Min({l, m})
    OBVIOUS
  <2>6. k \in Int /\ k <= l
    <3>1. l \in Int
      OBVIOUS
    <3>2. Min({l, m}) \in {l, m} /\ Min({l, m}) <= l
      BY <3>1, OfTwo
    <3> QED
      BY <2>5, <3>1, <3>2
  <2>7. PICK t : t = Max({0, k})
    OBVIOUS
  <2>8. t \in Nat
    <3>1. PICK z \in Int : z = 0
      OBVIOUS
    <3>2. Max({z, k}) \in {z, k} /\ Max({z, k}) >= z
      BY <2>6, OfTwo
    <3> QED
      BY <2>6, <2>7, <3>1, <3>2
  <2>9. cut(s) = t
    BY <2>3, <2>4, <2>5, <2>7
  <2>10. PICK b \in Seq(Nat) : b = SubSeq(s.bytes, t + 1, l)
    <3>1. PICK u \in Nat \ {0} : u = t + 1
      BY <2>8
    <3>2. PICK bytes \in Seq(Nat) : bytes = s.bytes
      BY <2>2
    <3>3. l \in Int /\ l <= Len(bytes)
      BY <2>3, <3>2
    <3>4. SubSeq(bytes, u, l) \in Seq(Nat)
      BY <3>3, PieceIs
    <3> QED
      BY <3>1, <3>2, <3>4
  <2>11. PICK q \in Int : q = IF s.seq = None THEN None ELSE (s.seq + t) % Modulus
    BY <2>2, <2>8, DirectionAssumption DEF None
  <2>12. PICK start \in Int : start = s.start + t
    BY <2>2, <2>8
  <2>13. trimmed(s) = [s EXCEPT !.start = start, !.bytes = b, !.seq = q]
    <3> HIDE DEF cut
    <3> QED
      BY <2>3, <2>9, <2>10, <2>11, <2>12
  <2> HIDE DEF trimmed
  <2> QED
    BY <2>1, <2>13 DEF ContentSegment
<1> HIDE DEF cut, trimmed
<1>5. rest \in Seq(ContentSegment) /\ Len(rest) = n /\ DOMAIN rest = 1 .. n
  BY <1>3, <1>4
<1> HIDE DEF rest
<1>6. Cardinality(whole) \in Nat
  <2>1. IsFiniteSet(1 .. n) /\ whole \subseteq 1 .. n
    <3>1. 1 \in Int /\ n \in Int
      OBVIOUS
    <3>2. IsFiniteSet(1 .. n)
      BY <3>1, FS_Interval, Zenon
    <3>3. whole \subseteq 1 .. n
      BY <1>5
    <3> QED
      BY <3>2, <3>3
  <2> QED
    BY <2>1, FS_Subset, FS_CardinalityType
<1> HIDE DEF whole
<1>7. SubSeq(rest, Cardinality(whole) + 1, Len(rest)) \in Seq(ContentSegment)
  <2>1. PICK m \in Nat \ {0} : m = Cardinality(whole) + 1
    BY <1>6
  <2>2. Len(rest) \in Int /\ Len(rest) <= Len(rest)
    BY <1>5
  <2> QED
    BY <1>5, <2>1, <2>2, PieceIs
<1>8. PICK segments \in Seq(ContentSegment) : segments = SubSeq(rest, Cardinality(whole) + 1, Len(rest))
  BY <1>7, ZenonT(30)
<1>9. PICK stored \in Nat : stored = c.stored - gone
  BY <1>1, <1>2
<1>10. TrimOldest(c, excess) = [c EXCEPT !.segments = segments, !.stored = stored]
  BY <1>8, <1>9, ZenonT(30) DEF TrimOldest, gone, rest, whole, trimmed, cut
<1> QED
  BY <1>10 DEF ContentDirection

\* There are two directions.
LEMMA TwoDirections == IsFiniteSet(Directions) /\ Directions = {"AToB", "BToA"}
<1>1. IsFiniteSet({"AToB"} \cup {"BToA"})
  BY FS_Singleton, FS_Union
<1>2. Directions = {"AToB"} \cup {"BToA"}
  BY FlowTableAssumption
<1> QED
  BY <1>1, <1>2, FlowTableAssumption

\* What a record holds is a number of bytes, and changes as its directions do.
LEMMA RecordBytesIs ==
    ASSUME NEW r \in ContentRecord
    PROVE  RecordBytes(r) \in Nat
<1> DEFINE fn == [d \in Directions |-> r.dirs[d].stored]
<1>1. \A d \in Directions : fn[d] \in Nat
  BY DEF ContentRecord, ContentDirection
<1>2. RecordBytes(r) = SumFunctionOnSet(fn, Directions)
  BY DEF RecordBytes, SumFunction
<1> HIDE DEF fn
<1> QED
  BY <1>1, <1>2, TwoDirections, SumIsNumber

LEMMA RecordBytesMove ==
    ASSUME NEW r \in ContentRecord, NEW s \in ContentRecord, NEW dir \in Directions,
           \A d \in Directions \ {dir} : s.dirs[d] = r.dirs[d]
    PROVE  RecordBytes(s) + r.dirs[dir].stored = RecordBytes(r) + s.dirs[dir].stored
<1> DEFINE fn == [d \in Directions |-> r.dirs[d].stored]
           hn == [d \in Directions |-> s.dirs[d].stored]
<1>1. \A d \in Directions : fn[d] \in Nat /\ hn[d] \in Nat
  BY DEF ContentRecord, ContentDirection
<1>2. RecordBytes(r) = SumFunctionOnSet(fn, Directions) /\ RecordBytes(s) = SumFunctionOnSet(hn, Directions)
  BY DEF RecordBytes, SumFunction
<1>3. \A d \in Directions \ {dir} : fn[d] = hn[d]
  OBVIOUS
<1>4. fn[dir] = r.dirs[dir].stored /\ hn[dir] = s.dirs[dir].stored
  OBVIOUS
<1> HIDE DEF fn, hn
<1>5. SumFunctionOnSet(fn, Directions) + hn[dir] = SumFunctionOnSet(hn, Directions) + fn[dir]
  BY <1>1, <1>3, TwoDirections, SumChanges
<1> QED
  BY <1>2, <1>4, <1>5

LEMMA TrimTyped ==
    ASSUME NEW r \in ContentRecord
    PROVE  TrimToLimit(r) \in ContentRecord
<1>1. ASSUME NEW s \in ContentRecord
      PROVE  TrimOnce(s) \in ContentRecord
  <2> DEFINE excess == RecordBytes(s) - MaxStreamBytes
  <2>1. CASE excess <= 0
    BY <2>1 DEF TrimOnce
  <2>2. CASE ~ (excess <= 0)
    <3>1. excess \in Nat
      BY <2>2, RecordBytesIs, ContentAssumption
    <3> HIDE DEF excess
    <3>2. PICK d : d = OldestDirection(s)
      OBVIOUS
    <3>3. PICK dirs \in [Directions -> ContentDirection] :
            dirs = [s.dirs EXCEPT ![d] = TrimOldest(@, excess)]
      <4>1. s.dirs \in [Directions -> ContentDirection]
        BY DEF ContentRecord
      <4>2. CASE d \in Directions
        <5>1. PICK c \in ContentDirection : c = TrimOldest(s.dirs[d], excess)
          BY <3>1, <4>1, <4>2, TrimOldestTyped
        <5> QED
          BY <4>1, <5>1
      <4>3. CASE d \notin Directions
        BY <4>1, <4>3
      <4> QED
        BY <4>2, <4>3
    <3>4. TrimOnce(s) = [s EXCEPT !.dirs = dirs, !.truncated = TRUE]
      BY <2>2, <3>2, <3>3 DEF TrimOnce, excess
    <3> QED
      BY <3>4 DEF ContentRecord
  <2> QED
    BY <2>1, <2>2
<1>2. PICK s \in ContentRecord : s = TrimOnce(r)
  BY <1>1
<1>3. TrimOnce(s) \in ContentRecord
  BY <1>1
<1> QED
  BY <1>2, <1>3 DEF TrimToLimit

\* What the store has done with a packet's bytes, and what these left in the record.
Storing == [record : ContentRecord, ranges : Seq(ContentRange), observed : Nat, merged : Nat,
            trimmed : Int]
Gain(u) == RecordBytes(u.record) - u.observed + u.trimmed

LEMMA StorePayloadTyped ==
    ASSUME NEW u \in Storing, NEW dir \in Directions, NEW seq \in Int, NEW now \in Nat,
           NEW bytes \in Seq(Nat)
    PROVE  /\ StorePayload(u, dir, seq, now, bytes) \in Storing
           /\ Gain(StorePayload(u, dir, seq, now, bytes)) = Gain(u)
<1> DEFINE a == AppendBytes(u.record.dirs[dir], dir, seq, now, bytes)
           r == [u.record EXCEPT !.dirs[dir] = a.dir]
           trimmed == TrimToLimit(r)
<1>1. CASE bytes = <<>>
  BY <1>1 DEF StorePayload
<1>2. CASE bytes # <<>>
  <2>1. PICK old \in ContentRecord : old = u.record
    BY DEF Storing
  <2>2. PICK c \in ContentDirection : c = old.dirs[dir]
    BY DEF ContentRecord
  <2>3. PICK b \in Appending : b = a /\ b.dir.stored = c.stored + Len(bytes)
    BY <2>1, <2>2, AppendBytesTyped, ZenonT(40)
  <2>4. b.dir \in ContentDirection /\ b.ranges \in Seq(ContentRange) /\ b.merged \in Nat
    BY DEF Appending
  <2>5. PICK new \in ContentRecord : new = r
    <3>1. [old EXCEPT !.dirs[dir] = b.dir] \in ContentRecord
      BY <2>4 DEF ContentRecord
    <3> QED
      BY <2>1, <2>3, <3>1
  <2>6. new.dirs[dir] = b.dir /\ \A d \in Directions \ {dir} : new.dirs[d] = old.dirs[d]
    <3>1. new = [old EXCEPT !.dirs[dir] = b.dir]
      BY <2>1, <2>3, <2>5
    <3> QED
      BY <3>1 DEF ContentRecord
  <2>7. PICK cut \in ContentRecord : cut = trimmed
    BY <2>5, TrimTyped
  <2>8. PICK all \in Seq(ContentRange) : all = u.ranges \o b.ranges
    BY <2>4, ConcatProperties DEF Storing
  <2>9. PICK l \in Nat : l = Len(bytes)
    BY LenProperties
  <2>10. u.observed \in Nat /\ u.merged \in Nat /\ u.trimmed \in Int
    BY DEF Storing
  <2>11. PICK x \in Nat : x = RecordBytes(old)
    BY RecordBytesIs
  <2>12. PICK y \in Nat : y = RecordBytes(new)
    BY RecordBytesIs
  <2>13. PICK z \in Nat : z = RecordBytes(cut)
    BY RecordBytesIs
  <2>14. y = x + l
    <3>1. RecordBytes(new) + old.dirs[dir].stored = RecordBytes(old) + new.dirs[dir].stored
      BY <2>6, RecordBytesMove
    <3>2. PICK m \in Nat : m = c.stored
      BY DEF ContentDirection
    <3>3. old.dirs[dir].stored = m /\ new.dirs[dir].stored = m + l
      BY <2>2, <2>3, <2>6, <2>9, <3>2
    <3>4. y + m = x + (m + l)
      BY <2>11, <2>12, <3>1, <3>3
    <3> QED
      BY <3>4
  <2>15. PICK v : v = StorePayload(u, dir, seq, now, bytes)
    OBVIOUS
  <2>16. v = [record |-> cut, ranges |-> all, observed |-> u.observed + l,
              merged |-> u.merged + b.merged, trimmed |-> u.trimmed + y - z]
    <3>1. v = [record |-> trimmed, ranges |-> u.ranges \o a.ranges,
               observed |-> u.observed + Len(bytes), merged |-> u.merged + a.merged,
               trimmed |-> u.trimmed + RecordBytes(r) - RecordBytes(trimmed)]
      BY <1>2, <2>15, Zenon DEF StorePayload
    <3> HIDE DEF a, r, trimmed
    <3> QED
      BY <2>3, <2>5, <2>7, <2>8, <2>9, <2>12, <2>13, <3>1
  <2>17. v \in Storing
    <3>1. PICK observed \in Nat : observed = u.observed + l
      BY <2>10
    <3>2. PICK merged \in Nat : merged = u.merged + b.merged
      BY <2>4, <2>10
    <3>3. PICK gone \in Int : gone = u.trimmed + y - z
      BY <2>10
    <3>4. v = [record |-> cut, ranges |-> all, observed |-> observed, merged |-> merged,
               trimmed |-> gone]
      BY <2>16, <3>1, <3>2, <3>3
    <3> QED
      BY <3>4 DEF Storing
  <2>18. Gain(v) = Gain(u)
    <3>1. Gain(v) = z - (u.observed + l) + (u.trimmed + y - z)
      BY <2>13, <2>16 DEF Gain
    <3>2. Gain(u) = x - u.observed + u.trimmed
      BY <2>1, <2>11 DEF Gain
    <3> QED
      BY <2>10, <2>14, <3>1, <3>2
  <2> QED
    BY <2>15, <2>17, <2>18
<1> QED
  BY <1>1, <1>2

LEMMA StoreChunksTyped ==
    ASSUME NEW u \in Storing, NEW p \in Packets, NEW chunks \in Seq(Chunks(p.flow))
    PROVE  StoreChunks(u, p, chunks) \in Storing /\ Gain(StoreChunks(u, p, chunks)) = Gain(u)
<1> DEFINE n == Len(chunks)
<1>1. n \in Nat /\ DOMAIN chunks = 1 .. n /\ \A i \in 1 .. n : chunks[i] \in Chunks(p.flow)
  BY LenProperties, ElementOfSeq
<1> HIDE DEF n
<1>2. PICK h : Stores(h, u, p, chunks, n)
  BY <1>1, StoresInTurn
<1> DEFINE G == {i \in Nat : i <= n => h[i] \in Storing /\ Gain(h[i]) = Gain(u)}
<1>3. 0 \in G
  BY <1>2 DEF Stores
<1>4. ASSUME NEW i \in Nat, i \in G
      PROVE  i + 1 \in G
  <2> SUFFICES ASSUME i + 1 <= n
               PROVE  h[i + 1] \in Storing /\ Gain(h[i + 1]) = Gain(u)
    OBVIOUS
  <2>1. i + 1 \in 1 .. n /\ (i + 1) - 1 = i /\ i <= n
    BY <1>1
  <2>2. PICK v \in Storing : v = h[i] /\ Gain(v) = Gain(u)
    BY <1>4, <2>1
  <2>3. PICK seq \in Int : seq = chunks[i + 1].seq
    BY <1>1, <2>1 DEF Chunks
  <2>4. PICK bytes \in Seq(Nat) : bytes = chunks[i + 1].bytes
    <3>1. chunks[i + 1].bytes \in Shown(p.flow)
      BY <1>1, <2>1 DEF Chunks
    <3> QED
      BY <3>1, ShownIs
  <2>5. h[i + 1] = StorePayload(v, p.dir, seq, p.time, bytes)
    BY <1>2, <2>1, <2>2, <2>3, <2>4 DEF Stores
  <2>6. p.dir \in Directions /\ p.time \in Nat
    BY PacketIs
  <2>7. StorePayload(v, p.dir, seq, p.time, bytes) \in Storing
        /\ Gain(StorePayload(v, p.dir, seq, p.time, bytes)) = Gain(v)
    BY <2>6, StorePayloadTyped
  <2> QED
    BY <2>2, <2>5, <2>7
<1>5. n \in G
  <2> HIDE DEF G
  <2> QED
    BY <1>1, <1>3, <1>4, NumberInduction
<1> QED
  BY <1>1, <1>2, <1>5 DEF Stores

LEMMA StoreTyped ==
    ASSUME NEW record \in ContentRecord, NEW p \in Packets, NEW o, o.chunks \in Seq(Chunks(p.flow))
    PROVE  Store(record, p, o) \in Storing /\ Gain(Store(record, p, o)) = RecordBytes(record)
<1> DEFINE seen == [record EXCEPT !.last_seen = p.time]
           none == [record |-> seen, ranges |-> <<>>, observed |-> 0, merged |-> 0, trimmed |-> 0]
<1>1. p.dir \in Directions /\ p.time \in Nat /\ p.tcp \in BOOLEAN /\ p.seg.payload \in Seq(Nat)
  BY PacketIs
<1>2. seen \in ContentRecord /\ seen.dirs = record.dirs
  BY <1>1 DEF ContentRecord
<1>3. RecordBytes(seen) = RecordBytes(record)
  <2> HIDE DEF seen
  <2> QED
    BY <1>2 DEF RecordBytes
<1> HIDE DEF seen
<1>4. none \in Storing
  <2>1. <<>> \in Seq(ContentRange)
    OBVIOUS
  <2> QED
    BY <1>2, <2>1 DEF Storing
<1>5. Gain(none) = RecordBytes(record)
  <2>1. PICK n \in Nat : n = RecordBytes(seen)
    BY <1>2, RecordBytesIs
  <2> QED
    BY <1>3, <2>1 DEF Gain
<1>6. Store(record, p, o) = IF p.tcp THEN StoreChunks(none, p, o.chunks)
                            ELSE StorePayload(none, p.dir, None, p.time, p.seg.payload)
  BY Zenon DEF Store, seen
<1> HIDE DEF none
<1>7. CASE p.tcp
  <2>1. StoreChunks(none, p, o.chunks) \in Storing /\ Gain(StoreChunks(none, p, o.chunks)) = Gain(none)
    BY <1>4, StoreChunksTyped
  <2> QED
    BY <1>5, <1>6, <1>7, <2>1
<1>8. CASE ~ p.tcp
  <2>1. None \in Int
    BY DEF None
  <2> DEFINE u == StorePayload(none, p.dir, None, p.time, p.seg.payload)
  <2>2. u \in Storing /\ Gain(u) = Gain(none)
    BY <1>1, <1>4, <2>1, StorePayloadTyped
  <2> QED
    BY <1>5, <1>6, <1>8, <2>2
<1> QED
  BY <1>7, <1>8

\* A new record holds nothing.
LEMMA NewContentTyped ==
    ASSUME NEW now \in Nat
    PROVE  NewContent(now) \in ContentRecord /\ RecordBytes(NewContent(now)) = 0
<1> DEFINE r == NewContent(now)
<1>1. r \in ContentRecord
  <2>1. [next |-> 0, stored |-> 0, segments |-> <<>>] \in ContentDirection
    BY DEF ContentDirection
  <2> QED
    BY <2>1 DEF NewContent, ContentRecord
<1>2. \A d \in Directions : r.dirs[d].stored = 0
  BY DEF NewContent
<1> HIDE DEF r
<1> DEFINE fn == [d \in Directions |-> r.dirs[d].stored]
<1>3. \A d \in Directions : fn[d] = 0
  BY <1>2
<1>4. RecordBytes(r) = SumFunctionOnSet(fn, Directions)
  BY DEF RecordBytes, SumFunction
<1> HIDE DEF fn
<1>5. RecordBytes(r) = 0
  BY <1>3, <1>4, TwoDirections, SumOfZeros
<1> QED
  BY <1>1, <1>5 DEF r

\* A table of records.
Contents(table) == IsFiniteSet(DOMAIN table) /\ \A k \in DOMAIN table : table[k] \in ContentRecord

LEMMA FreedIs ==
    ASSUME NEW table, Contents(table), NEW S \in SUBSET DOMAIN table
    PROVE  /\ FreedBytes(table, S) \in Nat
           /\ FreedBytes(table, S) = SumFunctionOnSet([k \in DOMAIN table |-> RecordBytes(table[k])], S)
<1> DEFINE fn == [k \in S |-> RecordBytes(table[k])]
           hn == [k \in DOMAIN table |-> RecordBytes(table[k])]
<1>1. FreedBytes(table, S) = SumFunctionOnSet(fn, S)
  BY DEF FreedBytes, SumFunction
<1>2. IsFiniteSet(S) /\ \A k \in S : fn[k] \in Nat /\ fn[k] = hn[k]
  BY RecordBytesIs, FS_Subset DEF Contents
<1> HIDE DEF fn, hn
<1>3. SumFunctionOnSet(fn, S) \in Nat /\ SumFunctionOnSet(fn, S) = SumFunctionOnSet(hn, S)
  BY <1>2, SumIsNumber, SumOfSame
<1> QED
  BY <1>1, <1>3 DEF hn

\* What a table holds is what some records free and what the others hold.
Parted(table, T, left) ==
    /\ Contents(left) /\ FreedBytes(table, T) \in Nat /\ FreedBytes(left, DOMAIN left) \in Nat
    /\ FreedBytes(table, DOMAIN table) = FreedBytes(table, T) + FreedBytes(left, DOMAIN left)
LEMMA BytesLeft ==
    ASSUME NEW table, Contents(table), NEW T \in SUBSET DOMAIN table, NEW left,
           DOMAIN left = DOMAIN table \ T, \A k \in DOMAIN left : left[k] = table[k]
    PROVE  Parted(table, T, left)
<1> DEFINE D == DOMAIN table
           hn == [k \in D |-> RecordBytes(table[k])]
           ln == [k \in DOMAIN left |-> RecordBytes(left[k])]
<1>1. Contents(left)
  <2>1. IsFiniteSet(DOMAIN left)
    BY FS_Difference DEF Contents
  <2> QED
    BY <2>1 DEF Contents
<1>2. /\ FreedBytes(table, D) = SumFunctionOnSet(hn, D) /\ FreedBytes(table, T) = SumFunctionOnSet(hn, T)
      /\ FreedBytes(table, T) \in Nat
  BY FreedIs
<1>3. FreedBytes(left, DOMAIN left) = SumFunctionOnSet(ln, DOMAIN left)
      /\ FreedBytes(left, DOMAIN left) \in Nat
  BY <1>1, FreedIs
<1>4. \A k \in DOMAIN left : ln[k] = hn[k]
  OBVIOUS
<1>5. \A k \in D : hn[k] \in Nat
  BY RecordBytesIs DEF Contents
<1>6. IsFiniteSet(D) /\ T \in SUBSET D /\ DOMAIN left = D \ T /\ IsFiniteSet(DOMAIN left)
  BY <1>1 DEF Contents
<1> HIDE DEF hn, ln, D
<1>7. SumFunctionOnSet(hn, D) = SumFunctionOnSet(hn, T) + SumFunctionOnSet(hn, D \ T)
  BY <1>5, <1>6, SumOfParts
<1>8. SumFunctionOnSet(ln, DOMAIN left) = SumFunctionOnSet(hn, DOMAIN left)
  BY <1>4, <1>6, SumOfSame
<1>9. FreedBytes(table, D) = FreedBytes(table, T) + FreedBytes(left, DOMAIN left)
  BY <1>2, <1>3, <1>6, <1>7, <1>8
<1> QED
  BY <1>1, <1>2, <1>3, <1>9 DEF Parted, D

LEMMA FreedOne ==
    ASSUME NEW table, Contents(table), NEW key \in DOMAIN table
    PROVE  FreedBytes(table, {key}) = RecordBytes(table[key]) /\ RecordBytes(table[key]) \in Nat
<1> DEFINE hn == [k \in DOMAIN table |-> RecordBytes(table[k])]
<1>1. FreedBytes(table, {key}) = SumFunctionOnSet(hn, {key})
  BY FreedIs
<1>2. hn[key] = RecordBytes(table[key]) /\ hn[key] \in Nat
  BY RecordBytesIs DEF Contents
<1> HIDE DEF hn
<1>3. PICK S : S = {key}
  OBVIOUS
<1>4. IsFiniteSet(S) /\ \A x \in S : hn[x] \in Nat
  BY <1>2, <1>3, FS_Singleton
<1>5. SumFunctionOnSet(hn, S) = hn[key] + SumFunctionOnSet(hn, S \ {key})
  BY <1>3, <1>4, SumSplits
<1>6. SumFunctionOnSet(hn, S \ {key}) = 0
  <2>1. S \ {key} = {}
    BY <1>3
  <2> QED
    BY <2>1, SumOfNothing
<1> QED
  BY <1>1, <1>2, <1>3, <1>5, <1>6

\* What a table holds when a record is put into it.
PutInto(kept, key, value, next) ==
    /\ DOMAIN next = DOMAIN kept \cup {key} /\ next[key] = value
    /\ \A k \in DOMAIN kept \ {key} : next[k] = kept[k]
HeldBefore(kept, key) == IF key \in DOMAIN kept THEN RecordBytes(kept[key]) ELSE 0
Grown(kept, key, value, next) ==
    /\ Contents(next) /\ FreedBytes(next, DOMAIN next) \in Nat
    /\ FreedBytes(next, DOMAIN next)
        = FreedBytes(kept, DOMAIN kept) - HeldBefore(kept, key) + RecordBytes(value)
LEMMA BytesPut ==
    ASSUME NEW kept, Contents(kept), NEW key, NEW value \in ContentRecord, NEW next,
           PutInto(kept, key, value, next)
    PROVE  Grown(kept, key, value, next)
<1> USE DEF PutInto
<1>0. PICK old \in Nat : old = HeldBefore(kept, key)
  BY RecordBytesIs DEF HeldBefore, Contents
<1> DEFINE rest == [k \in DOMAIN kept \ {key} |-> kept[k]]
<1>1. Contents(next)
  <2>1. IsFiniteSet(DOMAIN next)
    BY FS_AddElement DEF Contents
  <2> QED
    BY <2>1 DEF Contents
<1>2. DOMAIN rest = DOMAIN next \ {key} /\ DOMAIN rest = DOMAIN kept \ {key}
      /\ \A k \in DOMAIN rest : rest[k] = next[k] /\ rest[k] = kept[k]
  OBVIOUS
<1> HIDE DEF rest
<1>3. /\ FreedBytes(next, {key}) \in Nat /\ FreedBytes(rest, DOMAIN rest) \in Nat
      /\ FreedBytes(next, DOMAIN next) = FreedBytes(next, {key}) + FreedBytes(rest, DOMAIN rest)
  <2>1. PICK T \in SUBSET DOMAIN next : T = {key}
    OBVIOUS
  <2>2. DOMAIN rest = DOMAIN next \ T /\ \A k \in DOMAIN rest : rest[k] = next[k]
    BY <1>2, <2>1
  <2>3. Parted(next, T, rest)
    BY <1>1, <2>2, BytesLeft
  <2> QED
    BY <2>1, <2>3 DEF Parted
<1>4. FreedBytes(next, {key}) = RecordBytes(value)
  BY <1>1, FreedOne
<1>5. FreedBytes(kept, DOMAIN kept) = old + FreedBytes(rest, DOMAIN rest)
  <2>1. PICK T \in SUBSET DOMAIN kept : T = {key} \cap DOMAIN kept
    OBVIOUS
  <2>2. DOMAIN rest = DOMAIN kept \ T /\ \A k \in DOMAIN rest : rest[k] = kept[k]
    BY <1>2, <2>1
  <2>3. FreedBytes(kept, DOMAIN kept) = FreedBytes(kept, T) + FreedBytes(rest, DOMAIN rest)
    <3>1. Parted(kept, T, rest)
      BY <2>2, BytesLeft
    <3> QED
      BY <3>1 DEF Parted
  <2>4. FreedBytes(kept, T) = old
    <3>1. CASE key \in DOMAIN kept
      <4>1. T = {key}
        BY <2>1, <3>1
      <4> QED
        BY <1>0, <3>1, <4>1, FreedOne DEF HeldBefore
    <3>2. CASE key \notin DOMAIN kept
      <4>1. T = {}
        BY <2>1, <3>2
      <4>2. FreedBytes(kept, T) = SumFunctionOnSet([k \in DOMAIN kept |-> RecordBytes(kept[k])], T)
        BY FreedIs
      <4>3. FreedBytes(kept, T) = 0
        BY <4>1, <4>2, SumOfNothing
      <4> QED
        BY <1>0, <3>2, <4>3 DEF HeldBefore
    <3> QED
      BY <3>1, <3>2
  <2> QED
    BY <2>3, <2>4
<1>6. PICK m \in Nat : m = RecordBytes(value)
  BY RecordBytesIs
<1>7. PICK n \in Nat : n = FreedBytes(rest, DOMAIN rest)
  BY <1>3
<1> QED
  BY <1>0, <1>1, <1>3, <1>4, <1>5, <1>6, <1>7 DEF Grown

ContentOK ==
    /\ DOMAIN content \subseteq Flows /\ Contents(content)
    /\ Cardinality(DOMAIN content) <= MaxContentStreams
    /\ content_stats.observed \in Nat /\ content_stats.dropped \in Int
    /\ stored_bytes = FreedBytes(content, DOMAIN content)
    /\ content_stats.observed - content_stats.dropped = stored_bytes

LEMMA ContentInitOK == ContentInit => ContentOK
<1> SUFFICES ASSUME ContentInit
             PROVE  ContentOK
  OBVIOUS
<1>1. DOMAIN content = {} /\ content_stats.observed = 0 /\ content_stats.dropped = 0 /\ stored_bytes = 0
  BY DEF ContentInit
<1>2. IsFiniteSet({}) /\ Cardinality({}) = 0
  BY FS_EmptySet
<1>3. Contents(content)
  BY <1>1, <1>2 DEF Contents
<1>4. FreedBytes(content, DOMAIN content) = 0
  <2>1. FreedBytes(content, DOMAIN content)
            = SumFunctionOnSet([k \in DOMAIN content |-> RecordBytes(content[k])], DOMAIN content)
    BY <1>3, FreedIs
  <2> QED
    BY <1>1, <2>1, SumOfNothing
<1>5. MaxContentStreams \in Nat
  BY ContentAssumption
<1> QED
  BY <1>1, <1>2, <1>3, <1>4, <1>5 DEF ContentOK

\* What the store made of a packet before the global limit: the streams but those
\* that `freed` have gone, the packet's with what it adds.
StoredFor(p, kept, u, streams, freed, total) ==
    /\ u = Store(IF p.flow \in DOMAIN kept THEN kept[p.flow] ELSE NewContent(p.time), p, observation')
    /\ TableMoved(content, p.flow, MaxContentStreams, kept, streams, u.record, freed)
    /\ total = stored_bytes - FreedBytes(content, freed) + u.observed - u.trimmed

LEMMA StoredIs ==
    ASSUME ContentOK, NEW p \in Packets, observation'.chunks \in Seq(Chunks(p.flow)),
           NEW kept, NEW u, NEW streams, NEW freed, NEW total,
           StoredFor(p, kept, u, streams, freed, total)
    PROVE  /\ u \in Storing /\ Contents(streams) /\ FreedBytes(content, freed) \in Nat
           /\ total = FreedBytes(streams, DOMAIN streams)
<1>1. Contents(content) /\ stored_bytes = FreedBytes(content, DOMAIN content)
  BY DEF ContentOK
<1>2. /\ freed \in SUBSET DOMAIN content /\ DOMAIN kept = DOMAIN content \ freed
      /\ \A k \in DOMAIN kept : kept[k] = content[k]
      /\ PutInto(kept, p.flow, u.record, streams)
  BY DEF StoredFor, TableMoved, PutInto
<1>3. Parted(content, freed, kept)
  BY <1>1, <1>2, BytesLeft
<1>4. Contents(kept)
  BY <1>3 DEF Parted
<1>5. PICK old : old = IF p.flow \in DOMAIN kept THEN kept[p.flow] ELSE NewContent(p.time)
  OBVIOUS
<1>6. p.time \in Nat
  BY PacketIs
<1>7. /\ old \in ContentRecord
      /\ RecordBytes(old) = HeldBefore(kept, p.flow)
  <2>1. NewContent(p.time) \in ContentRecord /\ RecordBytes(NewContent(p.time)) = 0
    BY <1>6, NewContentTyped
  <2> QED
    BY <1>4, <1>5, <2>1 DEF Contents, HeldBefore
<1>8. u \in Storing /\ Gain(u) = RecordBytes(old)
  <2>1. u = Store(old, p, observation')
    BY <1>5 DEF StoredFor
  <2> QED
    BY <1>7, <2>1, StoreTyped
<1>9. PICK record \in ContentRecord : record = u.record
  BY <1>8 DEF Storing
<1>10. PICK before \in Nat : before = RecordBytes(old)
  BY <1>7, RecordBytesIs
<1>11. /\ Contents(streams)
       /\ FreedBytes(streams, DOMAIN streams)
            = FreedBytes(kept, DOMAIN kept) - before + RecordBytes(record)
  <2>1. PutInto(kept, p.flow, record, streams)
    BY <1>2, <1>9
  <2>2. Grown(kept, p.flow, record, streams)
    BY <1>4, <2>1, BytesPut
  <2> QED
    BY <1>7, <1>10, <2>2 DEF Grown
<1>12. PICK a \in Nat : a = FreedBytes(content, freed)
  BY <1>3 DEF Parted
<1>13. PICK b \in Nat : b = FreedBytes(kept, DOMAIN kept) /\ stored_bytes = a + b
  BY <1>1, <1>3, <1>12 DEF Parted
<1>14. PICK c \in Nat : c = RecordBytes(record)
  BY RecordBytesIs
<1>15. PICK x \in Nat : x = u.observed
  BY <1>8 DEF Storing
<1>16. PICK y \in Int : y = u.trimmed
  BY <1>8 DEF Storing
<1>17. c - x + y = before
  BY <1>8, <1>9, <1>10, <1>14, <1>15, <1>16 DEF Gain
<1>18. total = a + b - a + x - y
  BY <1>12, <1>13, <1>15, <1>16 DEF StoredFor
<1>19. FreedBytes(streams, DOMAIN streams) = b - before + c
  BY <1>11, <1>13, <1>14
<1>20. total = FreedBytes(streams, DOMAIN streams)
  BY <1>17, <1>18, <1>19
<1> QED
  BY <1>8, <1>11, <1>12, <1>20

\* The record of the packet's flow is the old or a new one with the packet's bytes, the
\* other records stay or go; without bytes all stay.
RecordMoved(p, old) ==
    /\ old = NewContent(p.time) \/ (p.flow \in DOMAIN content /\ old = content[p.flow])
    /\ p.flow \in DOMAIN content' /\ DOMAIN content' \subseteq DOMAIN content \cup {p.flow}
    /\ \A f \in DOMAIN content' \ {p.flow} : content'[f] = content[f]
    /\ content'[p.flow] = Store(old, p, observation').record
    /\ ranges' = Store(old, p, observation').ranges
ContentMoved(p) ==
    IF HasContent(p, observation') THEN \E old : RecordMoved(p, old)
    ELSE ranges' = <<>> /\ content' = content

\* StreamContent::observe_flow keeps it.
LEMMA ContentStep ==
    ASSUME ContentOK, NEW p \in Packets, observation'.chunks \in Seq(Chunks(p.flow)),
           ObserveContent(p, observation')
    PROVE  /\ ContentOK' /\ ranges' \in Seq(ContentRange)
           /\ ranges' # <<>> => p.flow \in DOMAIN content'
           /\ ContentMoved(p)
<1>1. CASE ~ HasContent(p, observation')
  <2>1. /\ ranges' = <<>> /\ content' = content /\ stored_bytes' = stored_bytes
        /\ content_stats' = content_stats
    BY <1>1 DEF ObserveContent, NoContent
  <2>2. ranges' \in Seq(ContentRange)
    BY <2>1
  <2>3. ContentMoved(p)
    BY <1>1, <2>1 DEF ContentMoved
  <2> QED
    BY <2>1, <2>2, <2>3 DEF ContentOK
<1>2. CASE HasContent(p, observation')
  <2> DEFINE n == (content_packets + 1) % SweepEvery
             idle == Swept(content, n, p.time, ContentTimeout, SweepEvery)
             awake == Without(content, idle)
  <2>1. PICK gone \in Evictions(awake, p.flow, p.time, ContentTimeout, MaxContentStreams) :
          LET room == Without(awake, gone)
              old == IF p.flow \in DOMAIN room THEN room[p.flow] ELSE NewContent(p.time)
              u == Store(old, p, observation')
              streams == Put(room, p.flow, u.record)
              total == stored_bytes - FreedBytes(content, idle \cup gone) + u.observed - u.trimmed
          IN  \E v \in GlobalVictims(streams, p.flow, total) :
                  /\ content' = Without(streams, v)
                  /\ content_packets' = n
                  /\ stored_bytes' = total - FreedBytes(streams, v)
                  /\ ranges' = u.ranges
                  /\ content_stats' =
                      [observed |-> content_stats.observed + u.observed,
                       dropped |-> content_stats.dropped + u.trimmed
                                   + FreedBytes(content, idle \cup gone) + FreedBytes(streams, v),
                       evicted |-> content_stats.evicted + Cardinality(idle \cup gone \cup v),
                       truncated |-> content_stats.truncated
                                   + (IF u.record.truncated /\ ~ old.truncated THEN 1 ELSE 0),
                       updates |-> content_stats.updates + 1,
                       merged |-> content_stats.merged + u.merged]
    BY <1>2, Zenon DEF ObserveContent, StoreContent
  <2> DEFINE kept == Without(awake, gone)
             old == IF p.flow \in DOMAIN kept THEN kept[p.flow] ELSE NewContent(p.time)
             u == Store(old, p, observation')
             streams == Put(kept, p.flow, u.record)
             freed == idle \cup gone
             total == stored_bytes - FreedBytes(content, freed) + u.observed - u.trimmed
  <2>2. PICK v \in GlobalVictims(streams, p.flow, total) :
          /\ content' = Without(streams, v)
          /\ stored_bytes' = total - FreedBytes(streams, v)
          /\ ranges' = u.ranges
          /\ content_stats' =
              [observed |-> content_stats.observed + u.observed,
               dropped |-> content_stats.dropped + u.trimmed
                           + FreedBytes(content, freed) + FreedBytes(streams, v),
               evicted |-> content_stats.evicted + Cardinality(freed \cup v),
               truncated |-> content_stats.truncated
                           + (IF u.record.truncated /\ ~ old.truncated THEN 1 ELSE 0),
               updates |-> content_stats.updates + 1,
               merged |-> content_stats.merged + u.merged]
    BY <2>1, Zenon
  <2>3. TableMoved(content, p.flow, MaxContentStreams, kept, streams, u.record, freed)
    <3>1. IsFiniteSet(DOMAIN content) /\ Cardinality(DOMAIN content) <= MaxContentStreams
      BY DEF ContentOK, Contents
    <3>2. MaxContentStreams \in Nat \ {0} /\ idle \in SUBSET DOMAIN content
      BY ContentAssumption, SweptIs
    <3> HIDE DEF idle, u
    <3> QED
      BY <3>1, <3>2, TableStep
  <2>4. StoredFor(p, kept, u, streams, freed, total)
    <3> HIDE DEF streams, freed, kept
    <3> QED
      BY <2>3, Zenon DEF StoredFor
  <2>5. v \in SUBSET DOMAIN streams /\ p.flow \notin v
    <3> HIDE DEF streams, total
    <3> QED
      BY DEF GlobalVictims
  <2> HIDE DEF total, streams, u, freed, old, kept, awake, idle, n
  <2>6. u \in Storing /\ Contents(streams) /\ FreedBytes(content, freed) \in Nat
        /\ total = FreedBytes(streams, DOMAIN streams)
    BY <2>4, StoredIs
  <2>7. PICK left : left = content'
    OBVIOUS
  <2>8. DOMAIN left = DOMAIN streams \ v /\ \A k \in DOMAIN left : left[k] = streams[k]
    <3>1. left = Without(streams, v)
      BY <2>2, <2>7
    <3> QED
      BY <3>1 DEF Without, Restrict
  <2>9. Parted(streams, v, left)
    BY <2>5, <2>6, <2>8, BytesLeft
  <2>10. PICK a \in Nat : a = FreedBytes(content, freed)
    BY <2>6
  <2>11. PICK b \in Nat : b = FreedBytes(streams, v)
    BY <2>9 DEF Parted
  <2>12. PICK x \in Nat : x = u.observed
    BY <2>6 DEF Storing
  <2>13. PICK y \in Int : y = u.trimmed
    BY <2>6 DEF Storing
  <2>14. PICK t : t = total
    OBVIOUS
  <2>15. FreedBytes(left, DOMAIN left) = t - b /\ t \in Nat
    <3>1. PICK c \in Nat : c = FreedBytes(left, DOMAIN left) /\ t = b + c
      BY <2>6, <2>9, <2>11, <2>14 DEF Parted
    <3> QED
      BY <3>1
  <2>16. t = stored_bytes - a + x - y
    BY <2>10, <2>12, <2>13, <2>14 DEF total
  <2>17. stored_bytes' = t - b
    BY <2>2, <2>11, <2>14
  <2>18. content_stats'.observed = content_stats.observed + x
         /\ content_stats'.dropped = content_stats.dropped + y + a + b
    BY <2>2, <2>10, <2>11, <2>12, <2>13
  <2>19. content_stats.observed \in Nat /\ content_stats.dropped \in Int
         /\ content_stats.observed - content_stats.dropped = stored_bytes
    BY DEF ContentOK
  <2>20. content_stats'.observed \in Nat /\ content_stats'.dropped \in Int
         /\ content_stats'.observed - content_stats'.dropped = t - b
    <3>1. PICK o \in Nat : o = content_stats.observed
      BY <2>19
    <3>2. PICK d \in Int : d = content_stats.dropped
      BY <2>19
    <3>3. o - d = stored_bytes
      BY <2>19, <3>1, <3>2
    <3>4. o + x \in Nat /\ d + y + a + b \in Int /\ (o + x) - (d + y + a + b) = t - b
      BY <2>15, <2>16, <3>3
    <3>5. content_stats'.observed = o + x /\ content_stats'.dropped = d + y + a + b
      BY <2>18, <3>1, <3>2
    <3> QED
      BY <3>4, <3>5
  <2>21. DOMAIN left \subseteq Flows /\ Cardinality(DOMAIN left) <= MaxContentStreams
    <3>1. DOMAIN streams \subseteq Flows /\ Cardinality(DOMAIN streams) <= MaxContentStreams
          /\ IsFiniteSet(DOMAIN streams)
      BY <2>3, PacketIs DEF TableMoved, ContentOK
    <3>2. Cardinality(DOMAIN left) <= Cardinality(DOMAIN streams) /\ DOMAIN left \subseteq DOMAIN streams
          /\ Cardinality(DOMAIN left) \in Nat /\ Cardinality(DOMAIN streams) \in Nat
      BY <2>8, <3>1, FS_Subset, FS_CardinalityType
    <3>3. MaxContentStreams \in Nat
      BY ContentAssumption
    <3> QED
      BY <3>1, <3>2, <3>3
  <2>22. ContentOK'
    <3>1. Contents(content')
      BY <2>7, <2>9 DEF Parted
    <3> QED
      BY <2>7, <2>15, <2>17, <2>20, <2>21, <3>1 DEF ContentOK
  <2>23. ranges' \in Seq(ContentRange)
    BY <2>2, <2>6 DEF Storing
  <2>24. p.flow \in DOMAIN content'
    BY <2>3, <2>5, <2>7, <2>8 DEF TableMoved
  <2>25. RecordMoved(p, old)
    <3>1. old = NewContent(p.time) \/ (p.flow \in DOMAIN content /\ old = content[p.flow])
      <4>1. DOMAIN kept \subseteq DOMAIN content /\ \A k \in DOMAIN kept : kept[k] = content[k]
        BY <2>3 DEF TableMoved
      <4> QED
        BY <4>1 DEF old
    <3>2. DOMAIN streams = DOMAIN kept \cup {p.flow} /\ DOMAIN kept \subseteq DOMAIN content
          /\ streams[p.flow] = u.record /\ \A k \in DOMAIN kept \ {p.flow} : streams[k] = content[k]
      BY <2>3 DEF TableMoved
    <3>3. p.flow \in DOMAIN left /\ DOMAIN left \subseteq DOMAIN content \cup {p.flow}
          /\ \A k \in DOMAIN left \ {p.flow} : left[k] = content[k]
      BY <2>5, <2>8, <3>2
    <3>4. left[p.flow] = u.record
      BY <2>8, <3>2, <3>3
    <3>5. u = Store(old, p, observation')
      BY DEF u
    <3> QED
      BY <2>2, <2>7, <3>1, <3>3, <3>4, <3>5 DEF RecordMoved
  <2>26. ContentMoved(p)
    BY <1>2, <2>25 DEF ContentMoved
  <2> QED
    BY <2>22, <2>23, <2>24, <2>26
<1> QED
  BY <1>1, <1>2

-----------------------------------------------------------------------------
(* The pattern engine *)

\* What a function makes of a finite set is finite.
LEMMA ImageFinite ==
    ASSUME NEW S, IsFiniteSet(S), NEW fn
    PROVE  IsFiniteSet({fn[x] : x \in S})
<1> DEFINE T == {fn[x] : x \in S}
           f == [x \in S |-> fn[x]]
<1>1. f \in Surjection(S, T)
  BY DEF Surjection
<1> HIDE DEF T, f
<1>2. IsFiniteSet(T)
  BY <1>1, FS_Surjection
<1> QED
  BY <1>2 DEF T

\* A finite set of numbers has a largest one.
LEMMA LargestOf ==
    ASSUME NEW S \in SUBSET Int, IsFiniteSet(S), S # {}
    PROVE  Max(S) \in S /\ \A y \in S : Max(S) >= y
<1> DEFINE Has(T) == T # {} => \E x \in T : \A y \in T : x >= y
           G == {T \in SUBSET S : Has(T)}
<1>1. ASSUME NEW T \in SUBSET S, \A x \in T : T \ {x} \in G
      PROVE  T \in G
  <2> SUFFICES ASSUME T # {}
               PROVE  \E x \in T : \A y \in T : x >= y
    OBVIOUS
  <2>1. PICK z \in T : TRUE
    OBVIOUS
  <2>2. CASE T \ {z} = {}
    <3>1. \A y \in T : y = z
      BY <2>2
    <3>2. z \in Int
      OBVIOUS
    <3> QED
      BY <3>1, <3>2
  <2>3. CASE T \ {z} # {}
    <3>1. PICK x \in T \ {z} : \A y \in T \ {z} : x >= y
      BY <1>1, <2>3
    <3>2. \A y \in T : y \in Int
      OBVIOUS
    <3>3. CASE x >= z
      BY <3>1, <3>3
    <3>4. CASE ~ (x >= z)
      <4>1. \A y \in T : z >= y
        BY <3>1, <3>2, <3>4
      <4> QED
        BY <4>1
    <3> QED
      BY <3>3, <3>4
  <2> QED
    BY <2>2, <2>3
<1>2. SUBSET S \subseteq G
  <2> HIDE DEF G
  <2> QED
    BY <1>1, SubsetInduction
<1>3. \E x \in S : \A y \in S : x >= y
  <2>1. S \in G
    <3> HIDE DEF G
    <3> QED
      BY <1>2
  <2> QED
    BY <2>1
<1> QED
  BY <1>3 DEF Max

\* The lookbehind is enough for every literal.
LEMMA LookbehindIs ==
    Lookbehind \in Nat /\ \A i \in Literals : Len(Patterns[i].value) - 1 <= Lookbehind
<1> DEFINE fn == [i \in Literals |-> Len(Patterns[i].value) - 1]
           L == {fn[i] : i \in Literals}
           S == {0, RegexWindow} \cup L
<1>1. IsFiniteSet(Literals)
  <2>1. Literals \subseteq 1 .. Len(Patterns) /\ Len(Patterns) \in Int
    BY PatternAssumption DEF Literals
  <2>2. IsFiniteSet(1 .. Len(Patterns))
    <3>1. PICK n \in Int : n = Len(Patterns)
      BY <2>1
    <3>2. IsFiniteSet(1 .. n)
      BY FS_Interval
    <3> QED
      BY <3>1, <3>2
  <2> QED
    BY <2>1, <2>2, FS_Subset
<1>2. IsFiniteSet(L)
  <2> HIDE DEF fn
  <2> QED
    BY <1>1, ImageFinite
<1>3. L \subseteq Int
  <2>1. \A i \in Literals : Len(Patterns[i].value) \in Nat
    BY PatternAssumption DEF Literals
  <2>2. \A i \in Literals : fn[i] \in Int
    BY <2>1
  <2> HIDE DEF fn
  <2> QED
    BY <2>2
<1>4. L = {Len(Patterns[i].value) - 1 : i \in Literals}
  OBVIOUS
<1>5. Lookbehind = Max(S)
  BY <1>4 DEF Lookbehind
<1> HIDE DEF L
<1>6. PICK A : A = {0, RegexWindow}
  OBVIOUS
<1>7. IsFiniteSet(A) /\ RegexWindow \in Int
  <2>1. IsFiniteSet({0}) /\ IsFiniteSet({RegexWindow})
    BY FS_Singleton
  <2>2. IsFiniteSet({0} \cup {RegexWindow})
    BY <2>1, FS_Union
  <2>3. {0} \cup {RegexWindow} = A
    BY <1>6
  <2>4. RegexWindow \in Int
    BY PatternAssumption
  <2>5. IsFiniteSet(A)
    BY <2>2, <2>3, Zenon
  <2> QED
    BY <2>4, <2>5
<1>8. IsFiniteSet(A \cup L)
  BY <1>2, <1>7, FS_Union
<1>9. S = A \cup L /\ S # {} /\ S \subseteq Int
  <2>1. S = A \cup L
    BY <1>6
  <2>2. A # {} /\ A \subseteq Int
    BY <1>6, <1>7
  <2> HIDE DEF S
  <2> QED
    BY <1>3, <2>1, <2>2
<1> HIDE DEF S
<1>10. Max(S) \in S /\ \A y \in S : Max(S) >= y
  BY <1>8, <1>9, LargestOf
<1>11. 0 \in S
  BY <1>6, <1>9
<1>12. \A i \in Literals : Len(Patterns[i].value) - 1 \in S
  BY <1>4, <1>9
<1>13. PICK m \in Int : m = Max(S)
  BY <1>9, <1>10
<1>14. m >= 0
  BY <1>10, <1>11, <1>13
<1>15. \A i \in Literals : Len(Patterns[i].value) - 1 <= m
  <2> SUFFICES ASSUME NEW i \in Literals
               PROVE  Len(Patterns[i].value) - 1 <= m
    OBVIOUS
  <2>1. PICK y \in S : y = Len(Patterns[i].value) - 1
    BY <1>12
  <2>2. m >= y /\ y \in Int
    BY <1>9, <1>10, <1>13
  <2> QED
    BY <2>1, <2>2
<1> QED
  BY <1>5, <1>13, <1>14, <1>15

\* direction_windows gives pieces of bytes.
Piece == [start : Int, bytes : Seq(Nat)]

LEMMA WindowTyped ==
    ASSUME NEW s \in ContentSegment, NEW start \in Int, NEW end \in Int
    PROVE  Window(s, start, end) \in Piece
<1>1. s.start \in Int /\ s.bytes \in Seq(Nat)
  BY DEF ContentSegment
<1>2. PICK n \in Nat : n = Len(s.bytes)
  BY <1>1, LenProperties
<1>3. PICK a \in Int : a = s.start
  BY <1>1
<1>4. PICK b \in Int : b = a + n
  BY <1>2
<1>5. PICK from : from = Max({a, start})
  OBVIOUS
<1>6. PICK to : to = Min({b, end})
  OBVIOUS
<1>7. from \in Int /\ from >= a
  <2>1. Max({a, start}) \in {a, start} /\ Max({a, start}) >= a
    BY OfTwo
  <2> QED
    BY <1>5, <2>1
<1>8. to \in Int /\ to <= b
  <2>1. Min({b, end}) \in {b, end} /\ Min({b, end}) <= b
    BY OfTwo
  <2> QED
    BY <1>6, <2>1
<1>9. PICK first \in Nat \ {0} : first = from - a + 1
  BY <1>7
<1>10. PICK last \in Int : last = to - a /\ last <= n
  BY <1>2, <1>4, <1>8
<1>11. SubSeq(s.bytes, first, last) \in Seq(Nat)
  BY <1>1, <1>2, <1>10, PieceIs
<1>12. Window(s, start, end) = [start |-> from, bytes |-> SubSeq(s.bytes, first, last)]
  BY <1>2, <1>3, <1>4, <1>5, <1>6, <1>9, <1>10, Zenon DEF Window, LogicalEnd
<1> QED
  BY <1>7, <1>11, <1>12 DEF Piece

LEMMA JoinTyped ==
    ASSUME NEW windows \in Seq(Piece), NEW w \in Piece
    PROVE  Join(windows, w) \in Seq(Piece)
<1> DEFINE joined == [windows EXCEPT ![Len(windows)].bytes = @ \o w.bytes]
<1>1. CASE windows # <<>>
  <2>1. Len(windows) \in 1 .. Len(windows)
    BY <1>1, EmptySeq, LenProperties
  <2>2. windows[Len(windows)] \in Piece
    BY <2>1, ElementOfSeq
  <2>3. PICK all \in Seq(Nat) : all = windows[Len(windows)].bytes \o w.bytes
    BY <2>2, ConcatProperties DEF Piece
  <2>4. PICK s \in Piece : s = [windows[Len(windows)] EXCEPT !.bytes = all]
    BY <2>2 DEF Piece
  <2>5. [windows EXCEPT ![Len(windows)] = s] \in Seq(Piece)
    BY <2>1, ExceptSeq
  <2>6. joined \in Seq(Piece)
    BY <2>3, <2>4, <2>5
  <2> HIDE DEF joined
  <2>7. Append(windows, w) \in Seq(Piece)
    BY AppendProperties
  <2>8. Join(windows, w) \in {windows, joined, Append(windows, w)}
    BY DEF Join, joined
  <2> QED
    BY <2>6, <2>7, <2>8
<1>2. CASE windows = <<>>
  <2>1. Append(windows, w) \in Seq(Piece)
    BY AppendProperties
  <2>2. Join(windows, w) \in {windows, Append(windows, w)}
    BY <1>2 DEF Join
  <2> QED
    BY <2>1, <2>2
<1> QED
  BY <1>1, <1>2

LEMMA WindowsTyped ==
    ASSUME NEW c \in ContentDirection, NEW start \in Int, NEW end \in Int
    PROVE  Windows(c, start, end) \in Seq(Piece)
<1>1. PICK segments \in Seq(ContentSegment) : segments = c.segments
  BY DEF ContentDirection
<1>2. PICK n \in Nat : n = Len(segments) /\ DOMAIN segments = 1 .. n
  BY LenProperties
<1>3. PICK h : JoinsUp(h, c, start, end, n)
  BY <1>1, <1>2, WindowsInTurn
<1> DEFINE G == {i \in Nat : i <= n => h[i] \in Seq(Piece)}
<1>4. 0 \in G
  <2>1. h[0] = <<>>
    BY <1>3 DEF JoinsUp
  <2>2. h[0] \in Seq(Piece)
    BY <2>1, EmptySeq
  <2> QED
    BY <2>2
<1>5. ASSUME NEW i \in Nat, i \in G
      PROVE  i + 1 \in G
  <2> SUFFICES ASSUME i + 1 <= n
               PROVE  h[i + 1] \in Seq(Piece)
    OBVIOUS
  <2>1. i + 1 \in 1 .. n /\ (i + 1) - 1 = i /\ h[i] \in Seq(Piece)
    BY <1>5
  <2>2. PICK j \in 1 .. n : j = i + 1
    BY <2>1
  <2>3. h[j] = Join(h[i], Window(c.segments[j], start, end))
    <3>1. h[j] = Join(h[j - 1], Window(c.segments[j], start, end))
      BY <1>3 DEF JoinsUp
    <3> QED
      BY <2>1, <2>2, <3>1
  <2>4. segments[j] \in ContentSegment
    BY <1>2, ElementOfSeq
  <2>5. PICK w \in Piece : w = Window(segments[j], start, end)
    BY <2>4, WindowTyped
  <2>6. Join(h[i], w) \in Seq(Piece)
    BY <2>1, JoinTyped
  <2>7. w = Window(c.segments[j], start, end)
    BY <1>1, <2>5, Zenon
  <2>8. h[j] \in Seq(Piece)
    BY <2>3, <2>6, <2>7, Zenon
  <2> QED
    BY <2>2, <2>8
<1>6. n \in G
  <2> HIDE DEF G
  <2> QED
    BY <1>4, <1>5, NumberInduction
<1> QED
  BY <1>3, <1>6 DEF JoinsUp

\* What matches are found in bytes is finite.
LEMMA CandidatesIs ==
    ASSUME NEW bytes \in Seq(Nat)
    PROVE  /\ IsFiniteSet(Occurrences(bytes))
           /\ \E n \in Nat : DOMAIN Candidates(bytes) = 1 .. n
<1>1. PICK n \in Nat : n = Len(bytes)
  BY LenProperties
<1>2. IsFiniteSet(Spans(bytes))
  <2>1. PICK S : S = 0 .. n
    OBVIOUS
  <2>2. IsFiniteSet(S)
    BY <2>1, FS_Interval
  <2>3. IsFiniteSet(S \X S)
    BY <2>2, FS_Product
  <2>4. Spans(bytes) \subseteq S \X S
    BY <1>1, <2>1 DEF Spans
  <2> QED
    BY <2>3, <2>4, FS_Subset
<1>3. \A i \in DOMAIN Patterns : HitsOf(Patterns[i], bytes) \subseteq Spans(bytes)
  BY DEF HitsOf, RegexHits, LiteralHits
<1>4. \A i \in DOMAIN Patterns : IsFiniteSet(Finds(i, bytes))
  <2> SUFFICES ASSUME NEW i \in DOMAIN Patterns
               PROVE  IsFiniteSet(Finds(i, bytes))
    OBVIOUS
  <2>1. PICK S : S = HitsOf(Patterns[i], bytes)
    OBVIOUS
  <2>2. IsFiniteSet(S)
    BY <1>2, <1>3, <2>1, FS_Subset
  <2> DEFINE fn == [x \in S |-> [pattern |-> i, start |-> x[1], end |-> x[2]]]
  <2>3. Finds(i, bytes) = {fn[x] : x \in S}
    BY <2>1 DEF Finds
  <2> HIDE DEF fn
  <2>4. IsFiniteSet({fn[x] : x \in S})
    BY <2>2, ImageFinite
  <2> QED
    BY <2>3, <2>4
<1>5. IsFiniteSet(Occurrences(bytes))
  <2> DEFINE fn == [i \in DOMAIN Patterns |-> Finds(i, bytes)]
             all == {fn[i] : i \in DOMAIN Patterns}
  <2>1. IsFiniteSet(DOMAIN Patterns)
    <3>1. PICK m \in Nat : DOMAIN Patterns = 1 .. m
      BY PatternAssumption
    <3> QED
      BY <3>1, FS_Interval, SMTT(30)
  <2>2. Occurrences(bytes) = UNION all /\ \A T \in all : IsFiniteSet(T)
    BY <1>4 DEF Occurrences
  <2> HIDE DEF fn
  <2>3. IsFiniteSet(all)
    BY <2>1, ImageFinite
  <2> HIDE DEF all
  <2>4. IsFiniteSet(UNION all)
    BY <2>2, <2>3, FS_UNION
  <2> QED
    BY <2>2, <2>4
<1>6. Cardinality(Occurrences(bytes)) \in Nat
  BY <1>5, FS_CardinalityType
<1> QED
  BY <1>5, <1>6 DEF Candidates

\* Counts by key.
Tally(b) == IsFiniteSet(DOMAIN b) /\ \A k \in DOMAIN b : b[k] \in Nat
CountOf(b, key) == IF key \in DOMAIN b THEN b[key] ELSE 0
Counted(b, key, n, next) ==
    Tally(next) /\ SumFunction(b) \in Nat /\ SumFunction(next) = SumFunction(b) - CountOf(b, key) + n

LEMMA CountPut ==
    ASSUME NEW b, Tally(b), NEW key, NEW n \in Nat, NEW next, DOMAIN next = DOMAIN b \cup {key},
           next[key] = n, \A k \in DOMAIN b \ {key} : next[k] = b[k]
    PROVE  Counted(b, key, n, next)
<1>1. PICK old \in Nat : old = CountOf(b, key)
  BY DEF Tally, CountOf
<1>2. Tally(next)
  <2>1. IsFiniteSet(DOMAIN next)
    BY FS_AddElement DEF Tally
  <2> QED
    BY <2>1 DEF Tally
<1>3. PICK R : R = DOMAIN next \ {key}
  OBVIOUS
<1>4. IsFiniteSet(R) /\ R = DOMAIN b \ {key} /\ \A k \in R : next[k] = b[k] /\ b[k] \in Nat
  <2>1. R = DOMAIN b \ {key}
    BY <1>3
  <2>2. IsFiniteSet(R)
    BY <2>1, FS_Difference DEF Tally
  <2> QED
    BY <2>1, <2>2 DEF Tally
<1>5. SumFunctionOnSet(next, DOMAIN next) = n + SumFunctionOnSet(next, R)
  <2>1. key \in DOMAIN next /\ IsFiniteSet(DOMAIN next) /\ \A k \in DOMAIN next : next[k] \in Nat
    BY <1>2 DEF Tally
  <2>2. SumFunctionOnSet(next, DOMAIN next) = next[key] + SumFunctionOnSet(next, DOMAIN next \ {key})
    BY <2>1, SumSplits
  <2> QED
    BY <1>3, <2>2
<1>6. SumFunctionOnSet(next, R) = SumFunctionOnSet(b, R) /\ SumFunctionOnSet(b, R) \in Nat
  BY <1>4, SumOfSame, SumIsNumber
<1>7. SumFunctionOnSet(b, DOMAIN b) = old + SumFunctionOnSet(b, R)
  <2>1. CASE key \in DOMAIN b
    <3>1. IsFiniteSet(DOMAIN b) /\ \A k \in DOMAIN b : b[k] \in Nat
      BY DEF Tally
    <3>2. SumFunctionOnSet(b, DOMAIN b) = b[key] + SumFunctionOnSet(b, DOMAIN b \ {key})
      BY <2>1, <3>1, SumSplits
    <3> QED
      BY <1>1, <1>4, <2>1, <3>2 DEF CountOf
  <2>2. CASE key \notin DOMAIN b
    <3>1. R = DOMAIN b /\ old = 0
      BY <1>1, <1>4, <2>2 DEF CountOf
    <3> QED
      BY <1>6, <3>1
  <2> QED
    BY <2>1, <2>2
<1>8. PICK m \in Nat : m = SumFunctionOnSet(b, R)
  BY <1>6
<1>9. SumFunction(next) = n + m /\ SumFunction(b) = old + m
  BY <1>5, <1>6, <1>7, <1>8 DEF SumFunction
<1> QED
  BY <1>1, <1>2, <1>9 DEF Counted

\* What a scan has found so far agrees with its counts, within the caps.
IsSequence(s) == \E T : s \in Seq(T)
PatternStats == [matches : Nat, dropped : Nat]
Capped(figures, by_stream) ==
    /\ figures \in PatternStats /\ Tally(by_stream) /\ figures.matches = SumFunction(by_stream)
    /\ figures.matches <= MaxMatches /\ \A k \in DOMAIN by_stream : by_stream[k] <= MaxStreamMatches
Scanning(e) ==
    /\ DOMAIN e = {"emitted", "events", "stats", "by_stream"}
    /\ Capped(e.stats, e.by_stream) /\ IsSequence(e.events)

LEMMA AppendIs ==
    ASSUME NEW s, IsSequence(s), NEW x
    PROVE  IsSequence(Append(s, x))
<1>1. PICK T : s \in Seq(T)
  BY DEF IsSequence
<1>2. PICK S : S = T \cup {x}
  OBVIOUS
<1>3. s \in Seq(S)
  BY <1>1, <1>2, SeqMonotonic
<1>4. Append(s, x) \in Seq(S)
  BY <1>2, <1>3, AppendProperties
<1> QED
  BY <1>4 DEF IsSequence

LEMMA ReserveKeeps ==
    ASSUME NEW e, Scanning(e), NEW m
    PROVE  Scanning(Reserve(e, m))
<1>1. PICK flow : flow = m.flow
  OBVIOUS
<1>2. PICK before : before = e.by_stream
  OBVIOUS
<1>3. PICK old \in Nat : old = CountOf(before, flow)
  BY <1>2 DEF Scanning, Capped, Tally, CountOf
<1>4. PICK y : y = Reserve(e, m)
  OBVIOUS
<1>5. e.stats \in PatternStats /\ Tally(before) /\ e.stats.matches = SumFunction(before)
      /\ e.stats.matches <= MaxMatches
  BY <1>2 DEF Scanning, Capped
<1>6. \A k \in DOMAIN before : before[k] <= MaxStreamMatches
  BY <1>2 DEF Scanning, Capped
<1>7. PICK i \in Nat : i = e.stats.matches
  BY <1>5 DEF PatternStats
<1>8. PICK j \in Nat : j = e.stats.dropped + 1
  BY <1>5 DEF PatternStats
<1>9. PICK dropping \in PatternStats : dropping = [e.stats EXCEPT !.dropped = j] /\ dropping.matches = i
  <2>1. [e.stats EXCEPT !.dropped = j] \in PatternStats
    BY <1>5 DEF PatternStats
  <2>2. [e.stats EXCEPT !.dropped = j].matches = i
    BY <1>5, <1>7 DEF PatternStats
  <2> QED
    BY <2>1, <2>2
<1>10. PICK matching \in PatternStats : matching = [e.stats EXCEPT !.matches = i + 1] /\ matching.matches = i + 1
  <2>1. PICK n \in Nat : n = i + 1
    OBVIOUS
  <2>2. [e.stats EXCEPT !.matches = n] \in PatternStats
    BY <1>5 DEF PatternStats
  <2>3. [e.stats EXCEPT !.matches = n].matches = n
    BY <1>5 DEF PatternStats
  <2> QED
    BY <2>1, <2>2, <2>3
<1>11. DOMAIN e = {"emitted", "events", "stats", "by_stream"} /\ IsSequence(e.events)
  BY DEF Scanning
<1>12. MaxMatches \in Nat /\ MaxStreamMatches \in Nat
  BY PatternAssumption
<1>13. (IF m.flow \in DOMAIN e.by_stream THEN e.by_stream[m.flow] ELSE 0) = old
  BY <1>1, <1>2, <1>3 DEF CountOf
<1>14. CASE e.stats.matches >= MaxMatches
  <2>1. y = [e EXCEPT !.stats.dropped = @ + 1]
    BY <1>4, <1>14, Zenon DEF Reserve
  <2>2. y = [e EXCEPT !.stats = dropping]
    BY <1>8, <1>9, <1>11, <2>1
  <2>3. DOMAIN y = DOMAIN e /\ y.stats = dropping /\ y.by_stream = before /\ y.events = e.events
    BY <1>2, <1>11, <2>2
  <2>4. Capped(dropping, before)
    BY <1>5, <1>6, <1>7, <1>9 DEF Capped
  <2> QED
    BY <1>4, <1>11, <2>3, <2>4 DEF Scanning
<1>15. CASE ~ (e.stats.matches >= MaxMatches) /\ old >= MaxStreamMatches
  <2>1. y = [e EXCEPT !.by_stream = Put(@, m.flow, old), !.stats.dropped = @ + 1]
    BY <1>4, <1>13, <1>15, Zenon DEF Reserve
  <2>2. PICK next : next = Put(before, flow, old)
    OBVIOUS
  <2>3. y = [e EXCEPT !.by_stream = next, !.stats = dropping]
    BY <1>1, <1>2, <1>8, <1>9, <1>11, <2>1, <2>2
  <2>4. DOMAIN y = DOMAIN e /\ y.stats = dropping /\ y.by_stream = next /\ y.events = e.events
    BY <1>11, <2>3
  <2>5. DOMAIN next = DOMAIN before \cup {flow} /\ next[flow] = old
        /\ \A k \in DOMAIN before \ {flow} : next[k] = before[k]
    BY <2>2 DEF Put
  <2>6. Counted(before, flow, old, next)
    BY <1>5, <2>5, CountPut
  <2>7. SumFunction(next) = i
    BY <1>3, <1>5, <1>7, <2>6 DEF Counted
  <2>8. \A k \in DOMAIN next : next[k] <= MaxStreamMatches
    <3>1. old <= MaxStreamMatches
      BY <1>3, <1>6, <1>12 DEF CountOf
    <3> QED
      BY <1>6, <2>5, <3>1
  <2>9. Capped(dropping, next)
    BY <1>5, <1>7, <1>9, <2>6, <2>7, <2>8 DEF Capped, Counted
  <2> QED
    BY <1>4, <1>11, <2>4, <2>9 DEF Scanning
<1>16. CASE ~ (e.stats.matches >= MaxMatches) /\ ~ (old >= MaxStreamMatches)
  <2>1. y = [e EXCEPT !.by_stream = Put(@, m.flow, old + 1), !.stats.matches = @ + 1,
                      !.events = Append(@, m)]
    BY <1>4, <1>13, <1>16, Zenon DEF Reserve
  <2>2. PICK n \in Nat : n = old + 1
    OBVIOUS
  <2>3. PICK next : next = Put(before, flow, n)
    OBVIOUS
  <2>4. PICK all : all = Append(e.events, m) /\ IsSequence(all)
    BY <1>11, AppendIs
  <2>5. y = [e EXCEPT !.by_stream = next, !.stats = matching, !.events = all]
    BY <1>1, <1>2, <1>7, <1>10, <1>11, <2>1, <2>2, <2>3, <2>4
  <2>6. DOMAIN y = DOMAIN e /\ y.stats = matching /\ y.by_stream = next /\ y.events = all
    BY <1>11, <2>5
  <2>7. DOMAIN next = DOMAIN before \cup {flow} /\ next[flow] = n
        /\ \A k \in DOMAIN before \ {flow} : next[k] = before[k]
    BY <2>3 DEF Put
  <2>8. Counted(before, flow, n, next)
    BY <1>5, <2>7, CountPut
  <2>9. SumFunction(next) = i + 1
    BY <1>3, <1>5, <1>7, <2>2, <2>8 DEF Counted
  <2>10. \A k \in DOMAIN next : next[k] <= MaxStreamMatches
    <3>1. n <= MaxStreamMatches
      BY <1>12, <1>16, <2>2
    <3> QED
      BY <1>6, <2>7, <3>1
  <2>11. i + 1 <= MaxMatches
    BY <1>7, <1>12, <1>16
  <2>12. Capped(matching, next)
    BY <1>10, <2>8, <2>9, <2>10, <2>11 DEF Capped, Counted
  <2> QED
    BY <1>4, <1>11, <2>4, <2>6, <2>12 DEF Scanning
<1> QED
  BY <1>14, <1>15, <1>16

LEMMA EmitKeeps ==
    ASSUME NEW e, Scanning(e), NEW m, NEW range
    PROVE  Scanning(EmitIfNew(e, m, range))
<1>1. PICK y : y = [e EXCEPT !.emitted = @ \cup {m}]
  OBVIOUS
<1>2. DOMAIN y = DOMAIN e /\ y.stats = e.stats /\ y.by_stream = e.by_stream /\ y.events = e.events
  BY <1>1 DEF Scanning
<1>3. Scanning(y)
  BY <1>2 DEF Scanning
<1>4. EmitIfNew(e, m, range) \in {e, Reserve(y, m)}
  BY <1>1, Zenon DEF EmitIfNew
<1>5. Scanning(Reserve(y, m))
  BY <1>3, ReserveKeeps
<1> QED
  BY <1>4, <1>5

LEMMA WindowKeeps ==
    ASSUME NEW e, Scanning(e), NEW flow, NEW range, NEW w \in Piece
    PROVE  Scanning(ScanWindow(e, flow, range, w))
<1>1. PICK bytes \in Seq(Nat) : bytes = w.bytes
  BY DEF Piece
<1>2. PICK n \in Nat : DOMAIN Candidates(bytes) = 1 .. n
  BY CandidatesIs
<1>3. PICK h : Emits(h, e, flow, range, w, n)
  BY <1>1, <1>2, MatchesInTurn
<1> DEFINE G == {i \in Nat : i <= n => Scanning(h[i])}
<1>4. 0 \in G
  <2>1. Scanning(h[0])
    BY <1>3 DEF Emits
  <2> QED
    BY <2>1
<1>5. ASSUME NEW i \in Nat, i \in G
      PROVE  i + 1 \in G
  <2> SUFFICES ASSUME i + 1 <= n
               PROVE  Scanning(h[i + 1])
    OBVIOUS
  <2>1. i + 1 \in 1 .. n /\ (i + 1) - 1 = i /\ Scanning(h[i])
    BY <1>5
  <2>2. PICK m : h[i + 1] = EmitIfNew(h[i], m, range)
    BY <1>3, <2>1 DEF Emits
  <2>3. Scanning(EmitIfNew(h[i], m, range))
    BY <2>1, EmitKeeps
  <2> QED
    BY <2>2, <2>3
<1>6. n \in G
  <2> HIDE DEF G
  <2> QED
    BY <1>4, <1>5, NumberInduction
<1>7. Scanning(h[n])
  BY <1>6
<1> QED
  BY <1>3, <1>7 DEF Emits

LEMMA RangeKeeps ==
    ASSUME NEW e, Scanning(e), NEW flow, NEW streams, streams[flow] \in ContentRecord,
           NEW range \in ContentRange
    PROVE  Scanning(ScanRange(e, flow, streams, range))
<1>1. range.dir \in Directions /\ range.start \in Nat /\ range.end \in Nat
  BY DEF ContentRange
<1>2. PICK c \in ContentDirection : c = streams[flow].dirs[range.dir]
  BY <1>1 DEF ContentRecord
<1>3. PICK k \in Int : k = range.start - Lookbehind
  BY <1>1, LookbehindIs
<1>4. PICK z \in Int : z = 0
  OBVIOUS
<1>5. Max({z, k}) \in {z, k}
  BY OfTwo
<1>6. PICK start \in Int : start = Max({0, range.start - Lookbehind})
  BY <1>3, <1>4, <1>5
<1>7. PICK end \in Int : end = range.end
  BY <1>1
<1>8. PICK seq \in Seq(Piece) : seq = Around(flow, streams, range)
  <2>1. Windows(c, start, end) \in Seq(Piece)
    BY WindowsTyped
  <2> QED
    BY <1>2, <1>6, <1>7, <2>1, Zenon DEF Around
<1>9. PICK n \in Nat : n = Len(seq) /\ DOMAIN seq = 1 .. n
  BY LenProperties
<1>10. PICK h : Scans(h, e, flow, streams, range, n)
  BY <1>8, <1>9, ScansInTurn
<1> DEFINE G == {i \in Nat : i <= n => Scanning(h[i])}
<1>11. 0 \in G
  <2>1. Scanning(h[0])
    BY <1>10 DEF Scans
  <2> QED
    BY <2>1
<1>12. ASSUME NEW i \in Nat, i \in G
       PROVE  i + 1 \in G
  <2> SUFFICES ASSUME i + 1 <= n
               PROVE  Scanning(h[i + 1])
    OBVIOUS
  <2>1. i + 1 \in 1 .. n /\ (i + 1) - 1 = i /\ Scanning(h[i])
    BY <1>12
  <2>2. PICK w \in Piece : w = seq[i + 1]
    BY <1>9, <2>1, ElementOfSeq
  <2>3. h[i + 1] = ScanWindow(h[i], flow, range, w)
    BY <1>8, <1>10, <2>1, <2>2 DEF Scans
  <2>4. Scanning(ScanWindow(h[i], flow, range, w))
    BY <2>1, WindowKeeps
  <2> QED
    BY <2>3, <2>4
<1>13. n \in G
  <2> HIDE DEF G
  <2> QED
    BY <1>11, <1>12, NumberInduction
<1>14. Scanning(h[n])
  BY <1>13
<1> QED
  BY <1>10, <1>14 DEF Scans

PatternOK == Capped(pattern_stats, matches_by_stream)

LEMMA PatternInitOK == PatternInit => PatternOK
<1> SUFFICES ASSUME PatternInit
             PROVE  PatternOK
  OBVIOUS
<1>1. PICK b : b = matches_by_stream /\ DOMAIN b = {}
  BY DEF PatternInit
<1>2. IsFiniteSet(DOMAIN b) /\ SumFunction(b) = 0
  BY <1>1, FS_EmptySet, SumOfNothing DEF SumFunction
<1>3. Tally(b)
  BY <1>1, <1>2 DEF Tally
<1>4. pattern_stats \in PatternStats /\ pattern_stats.matches = 0
  BY DEF PatternInit, PatternStats
<1>5. 0 <= MaxMatches
  BY PatternAssumption
<1> QED
  BY <1>1, <1>2, <1>3, <1>4, <1>5 DEF PatternOK, Capped

LEMMA ScannedKeeps ==
    ASSUME PatternOK, NEW flow, NEW streams, streams[flow] \in ContentRecord,
           NEW new \in Seq(ContentRange)
    PROVE  Scanning(Scanned(flow, streams, new))
<1>1. PICK n \in Nat : n = Len(new) /\ DOMAIN new = 1 .. n
  BY LenProperties
<1>2. PICK h : ScansAll(h, flow, streams, new, n)
  BY <1>1, RangesInTurn
<1> DEFINE G == {i \in Nat : i <= n => Scanning(h[i])}
<1>3. 0 \in G
  <2>1. PICK e : e = h[0]
    OBVIOUS
  <2>2. e = [emitted |-> {}, events |-> <<>>, stats |-> pattern_stats, by_stream |-> matches_by_stream]
    BY <1>2, <2>1 DEF ScansAll
  <2>3. DOMAIN e = {"emitted", "events", "stats", "by_stream"} /\ e.stats = pattern_stats
        /\ e.by_stream = matches_by_stream /\ e.events = <<>>
    BY <2>2
  <2>4. IsSequence(e.events)
    BY <2>3, EmptySeq DEF IsSequence
  <2>5. Scanning(h[0])
    BY <2>1, <2>3, <2>4 DEF Scanning, PatternOK
  <2> QED
    BY <2>5
<1>4. ASSUME NEW i \in Nat, i \in G
      PROVE  i + 1 \in G
  <2> SUFFICES ASSUME i + 1 <= n
               PROVE  Scanning(h[i + 1])
    OBVIOUS
  <2>1. i + 1 \in 1 .. n /\ (i + 1) - 1 = i /\ Scanning(h[i])
    BY <1>4
  <2>2. PICK range \in ContentRange : range = new[i + 1]
    BY <1>1, <2>1, ElementOfSeq
  <2>3. h[i + 1] = ScanRange(h[i], flow, streams, range)
    BY <1>2, <2>1, <2>2 DEF ScansAll
  <2>4. Scanning(ScanRange(h[i], flow, streams, range))
    BY <2>1, RangeKeeps
  <2> QED
    BY <2>3, <2>4
<1>5. n \in G
  <2> HIDE DEF G
  <2> QED
    BY <1>3, <1>4, NumberInduction
<1>6. Scanning(h[n])
  BY <1>5
<1> QED
  BY <1>2, <1>6 DEF ScansAll

LEMMA PatternStep ==
    ASSUME PatternOK, NEW p, NEW o, ObserveAndScan(p, o), ContentOK',
           ranges' \in Seq(ContentRange), ranges' # <<>> => p.flow \in DOMAIN content'
    PROVE  PatternOK' /\ IsSequence(pattern_events')
<1>1. CASE ranges' # <<>>
  <2>1. PICK streams : streams = content'
    OBVIOUS
  <2>2. PICK new \in Seq(ContentRange) : new = ranges'
    OBVIOUS
  <2>3. PICK flow : flow = p.flow
    OBVIOUS
  <2>4. ScanUpdate(flow, streams, new)
    BY <1>1, <2>1, <2>2, <2>3, Zenon DEF ObserveAndScan
  <2>5. streams[flow] \in ContentRecord
    BY <1>1, <2>1, <2>3 DEF ContentOK, Contents
  <2>6. Scanning(Scanned(flow, streams, new))
    BY <2>5, ScannedKeeps
  <2>7. PICK e : e = Scanned(flow, streams, new)
    OBVIOUS
  <2>8. matches_by_stream' = e.by_stream /\ pattern_stats' = e.stats /\ pattern_events' = e.events
    BY <2>4, <2>7 DEF ScanUpdate
  <2>9. Capped(e.stats, e.by_stream) /\ IsSequence(e.events)
    BY <2>6, <2>7 DEF Scanning
  <2>10. Capped(pattern_stats', matches_by_stream')
    BY <2>8, <2>9
  <2> QED
    BY <2>8, <2>9, <2>10 DEF PatternOK
<1>2. CASE ranges' = <<>>
  <2>1. pattern_events' = <<>> /\ pattern_stats' = pattern_stats /\ matches_by_stream' = matches_by_stream
    BY <1>2 DEF ObserveAndScan
  <2>2. IsSequence(pattern_events')
    BY <2>1, EmptySeq DEF IsSequence
  <2> QED
    BY <2>1, <2>2 DEF PatternOK, Capped, Tally
<1> QED
  BY <1>1, <1>2

-----------------------------------------------------------------------------
(* Sequences of events *)

\* c is a, then b.
Follows(a, b, c) ==
    \E n, m \in Nat :
        /\ DOMAIN a = 1 .. n /\ DOMAIN b = 1 .. m /\ DOMAIN c = 1 .. n + m
        /\ \A i \in 1 .. n : c[i] = a[i]
        /\ \A i \in 1 .. m : c[n + i] = b[i]

LEMMA EmptyIs == IsSequence(<<>>)
<1>1. <<>> \in Seq({})
  BY EmptySeq
<1> QED
  BY <1>1 DEF IsSequence

LEMMA ConcatIs ==
    ASSUME NEW a, IsSequence(a), NEW b, IsSequence(b)
    PROVE  IsSequence(a \o b) /\ Follows(a, b, a \o b)
<1>1. PICK S : a \in Seq(S)
  BY DEF IsSequence
<1>2. PICK T : b \in Seq(T)
  BY DEF IsSequence
<1>3. PICK U : U = S \cup T
  OBVIOUS
<1>4. a \in Seq(U) /\ b \in Seq(U)
  BY <1>1, <1>2, <1>3, SeqMonotonic
<1>5. PICK n \in Nat : n = Len(a) /\ DOMAIN a = 1 .. n
  BY <1>4, LenProperties
<1>6. PICK m \in Nat : m = Len(b) /\ DOMAIN b = 1 .. m
  BY <1>4, LenProperties
<1>7. PICK c : c = a \o b
  OBVIOUS
<1>8. /\ c \in Seq(U) /\ Len(c) = n + m
      /\ \A i \in 1 .. n + m : c[i] = IF i <= n THEN a[i] ELSE b[i - n]
  <2>1. /\ a \o b \in Seq(U) /\ Len(a \o b) = Len(a) + Len(b)
        /\ \A i \in 1 .. Len(a) + Len(b) :
              (a \o b)[i] = IF i <= Len(a) THEN a[i] ELSE b[i - Len(a)]
    BY <1>4, ConcatProperties, Zenon
  <2> QED
    BY <1>5, <1>6, <1>7, <2>1, Zenon
<1>9. DOMAIN c = 1 .. n + m
  BY <1>8, LenProperties
<1>10. \A i \in 1 .. n : c[i] = a[i]
  BY <1>8
<1>11. \A i \in 1 .. m : c[n + i] = b[i]
  BY <1>8
<1>12. IsSequence(c)
  BY <1>8 DEF IsSequence
<1>13. Follows(a, b, c)
  BY <1>5, <1>6, <1>9, <1>10, <1>11 DEF Follows
<1> QED
  BY <1>7, <1>12, <1>13

\* The events of two sequences one after the other.
LEMMA EventsFollow ==
    ASSUME NEW v, NEW a, NEW b, NEW c, Follows(a, b, c)
    PROVE  ObserveEvents(v, c) = ObserveEvents(ObserveEvents(v, a), b)
<1>1. PICK n \in Nat, m \in Nat :
        /\ DOMAIN a = 1 .. n /\ DOMAIN b = 1 .. m /\ DOMAIN c = 1 .. n + m
        /\ \A i \in 1 .. n : c[i] = a[i]
        /\ \A i \in 1 .. m : c[n + i] = b[i]
  BY DEF Follows
<1>2. PICK l \in Nat : l = n + m
  OBVIOUS
<1>3. PICK h : Observes(h, v, c, l)
  BY <1>1, <1>2, EventsInTurn
<1>4. PICK f : Observes(f, v, a, n)
  BY <1>1, EventsInTurn
<1>5. PICK w : w = ObserveEvents(v, a)
  OBVIOUS
<1>6. PICK g : Observes(g, w, b, m)
  BY <1>1, EventsInTurn
<1> DEFINE F == {i \in Nat : i <= n => h[i] = f[i]}
           G == {i \in Nat : i <= m => h[n + i] = g[i]}
<1>7. h[n] = w
  <2>1. 0 \in F
    BY <1>3, <1>4 DEF Observes
  <2>2. ASSUME NEW i \in Nat, i \in F
        PROVE  i + 1 \in F
    <3> SUFFICES ASSUME i + 1 <= n
                 PROVE  h[i + 1] = f[i + 1]
      OBVIOUS
    <3>1. PICK j \in 1 .. n : j = i + 1 /\ j - 1 = i
      OBVIOUS
    <3>2. j \in 1 .. l
      BY <1>2
    <3>3. h[j] = ObserveEvent(h[j - 1], c[j])
      BY <1>3, <3>2 DEF Observes
    <3>4. f[j] = ObserveEvent(f[j - 1], a[j])
      BY <1>4 DEF Observes
    <3>5. h[i] = f[i] /\ c[j] = a[j]
      BY <1>1, <2>2, <3>1
    <3> QED
      BY <3>1, <3>3, <3>4, <3>5
  <2>3. n \in F
    <3> HIDE DEF F
    <3> QED
      BY <2>1, <2>2, NumberInduction
  <2>4. f[n] = w
    BY <1>4, <1>5 DEF Observes
  <2> QED
    BY <2>3, <2>4
<1>8. h[n + m] = g[m]
  <2>1. 0 \in G
    <3>1. g[0] = w
      BY <1>6 DEF Observes
    <3> QED
      BY <1>7, <3>1
  <2>2. ASSUME NEW i \in Nat, i \in G
        PROVE  i + 1 \in G
    <3> SUFFICES ASSUME i + 1 <= m
                 PROVE  h[n + (i + 1)] = g[i + 1]
      OBVIOUS
    <3>1. PICK j \in 1 .. m : j = i + 1 /\ j - 1 = i
      OBVIOUS
    <3>2. PICK k \in 1 .. l : k = n + j /\ k - 1 = n + i
      BY <1>2, <3>1
    <3>3. h[k] = ObserveEvent(h[k - 1], c[k])
      BY <1>3 DEF Observes
    <3>4. g[j] = ObserveEvent(g[j - 1], b[j])
      BY <1>6 DEF Observes
    <3>5. h[n + i] = g[i] /\ c[k] = b[j]
      BY <1>1, <2>2, <3>1, <3>2
    <3> QED
      BY <3>1, <3>2, <3>3, <3>4, <3>5
  <2>3. m \in G
    <3> HIDE DEF G
    <3> QED
      BY <2>1, <2>2, NumberInduction
  <2> QED
    BY <2>3
<1>9. h[l] = ObserveEvents(v, c) /\ g[m] = ObserveEvents(w, b)
  BY <1>3, <1>6 DEF Observes
<1> QED
  BY <1>2, <1>5, <1>8, <1>9

LEMMA NoEvents == ASSUME NEW v PROVE ObserveEvents(v, <<>>) = v
<1>1. PICK seq : seq = <<>>
  OBVIOUS
<1>2. PICK n \in Nat : n = 0
  OBVIOUS
<1>3. DOMAIN seq = 1 .. n
  BY <1>1, <1>2
<1>4. PICK h : Observes(h, v, seq, n)
  BY <1>3, EventsInTurn
<1> QED
  BY <1>1, <1>2, <1>4 DEF Observes

LEMMA EventAlone == ASSUME NEW v, NEW e PROVE ObserveEvents(v, <<e>>) = ObserveEvent(v, e)
<1>1. PICK seq : seq = <<e>>
  OBVIOUS
<1>2. PICK n \in Nat : n = 1
  OBVIOUS
<1>3. DOMAIN seq = 1 .. n /\ seq[1] = e
  BY <1>1, <1>2
<1>4. PICK h : Observes(h, v, seq, n)
  BY <1>3, EventsInTurn
<1>5. h[0] = v /\ h[1] = ObserveEvents(v, seq) /\ h[1] = ObserveEvent(h[1 - 1], seq[1])
  BY <1>2, <1>4 DEF Observes
<1> QED
  BY <1>1, <1>3, <1>5

-----------------------------------------------------------------------------
(* The rows of a view *)

RowShape(row) == DOMAIN row = {"status", "kind", "service", "packets", "stream_bytes"}
EntryShape(entry) ==
    DOMAIN entry = {"row", "matches", "match_count", "pattern_ids"} /\ RowShape(entry.row)
ViewShape(v) ==
    /\ DOMAIN v = {"streams", "order", "favorites", "manually_hidden", "matched", "pattern_index",
                   "hide_rules", "stats"}
    /\ \A f \in Tracked(v) : EntryShape(v.streams[f])

\* Some streams of v may be gone in w, the others have the same entries.
Fewer(v, w) ==
    ViewShape(w) /\ Tracked(w) \subseteq Tracked(v) /\ \A f \in Tracked(w) : w.streams[f] = v.streams[f]

LEMMA RemoveFewer ==
    ASSUME NEW v, ViewShape(v), NEW flow
    PROVE  Fewer(v, RemoveStream(v, flow))
<1>1. PICK w : w = RemoveStream(v, flow)
  OBVIOUS
<1>2. PICK left : left = Restrict(v.streams, DOMAIN v.streams \ {flow})
  OBVIOUS
<1>3. DOMAIN left = DOMAIN v.streams \ {flow} /\ \A f \in DOMAIN left : left[f] = v.streams[f]
  BY <1>2 DEF Restrict
<1>4. DOMAIN w = DOMAIN v /\ w.streams = left
  BY <1>1, <1>2 DEF RemoveStream, ViewShape
<1>5. ViewShape(w)
  BY <1>3, <1>4 DEF ViewShape, Tracked
<1> QED
  BY <1>1, <1>3, <1>4, <1>5 DEF Fewer, Tracked

LEMMA EvictFewer ==
    ASSUME NEW v, ViewShape(v)
    PROVE  Fewer(v, EvictFirst(v))
<1> DEFINE live == {i \in DOMAIN v.order : v.order[i] \in Tracked(v)}
           first == CHOOSE i \in live : \A j \in live : i <= j
<1>1. PICK w : w = EvictFirst(v)
  OBVIOUS
<1>2. CASE live = {}
  <2>1. w = [v EXCEPT !.order = <<>>]
    BY <1>1, <1>2, Zenon DEF EvictFirst
  <2>2. DOMAIN w = DOMAIN v /\ w.streams = v.streams
    BY <2>1 DEF ViewShape
  <2>3. ViewShape(w)
    BY <2>2 DEF ViewShape, Tracked
  <2> QED
    BY <1>1, <2>2, <2>3 DEF Fewer, Tracked
<1>3. CASE live # {}
  <2>1. PICK u : u = RemoveStream(v, v.order[first])
    OBVIOUS
  <2>2. PICK rest : w = [u EXCEPT !.order = rest]
    BY <1>1, <1>3, <2>1 DEF EvictFirst
  <2>3. Fewer(v, u)
    BY <2>1, RemoveFewer
  <2>4. DOMAIN w = DOMAIN u /\ w.streams = u.streams
    BY <2>2, <2>3 DEF Fewer, ViewShape
  <2>5. ViewShape(w)
    BY <2>3, <2>4 DEF Fewer, ViewShape, Tracked
  <2> QED
    BY <1>1, <2>3, <2>4, <2>5 DEF Fewer, Tracked
<1> QED
  BY <1>2, <1>3

\* upsert_stream shows the row if the stream is tracked, whose matches stay, and no other
\* stream comes in.
Upserted(v, w, flow, row) ==
    /\ ViewShape(w) /\ Tracked(w) \subseteq Tracked(v) \cup {flow}
    /\ \A f \in Tracked(w) \ {flow} : w.streams[f] = v.streams[f]
    /\ flow \in Tracked(w) =>
        /\ w.streams[flow].row = row
        /\ \/ w.streams[flow].matches = <<>>
           \/ flow \in Tracked(v) /\ w.streams[flow].matches = v.streams[flow].matches

LEMMA UpsertIs ==
    ASSUME NEW v, ViewShape(v), NEW flow, NEW row, RowShape(row)
    PROVE  Upserted(v, Upsert(v, flow, row), flow, row)
<1>1. PICK w : w = Upsert(v, flow, row)
  OBVIOUS
<1>2. CASE flow \in Tracked(v)
  <2>1. w = [v EXCEPT !.streams[flow].row = row]
    BY <1>1, <1>2, Zenon DEF Upsert
  <2>2. EntryShape(v.streams[flow])
    BY <1>2 DEF ViewShape
  <2>3. PICK entry : entry = [v.streams[flow] EXCEPT !.row = row]
    OBVIOUS
  <2>4. EntryShape(entry) /\ entry.row = row /\ entry.matches = v.streams[flow].matches
    BY <2>2, <2>3 DEF EntryShape
  <2>5. PICK streams : streams = [v.streams EXCEPT ![flow] = entry]
    OBVIOUS
  <2>6. DOMAIN w = DOMAIN v /\ w.streams = streams
    BY <2>1, <2>3, <2>5 DEF ViewShape
  <2>7. DOMAIN streams = DOMAIN v.streams /\ streams[flow] = entry
        /\ \A f \in DOMAIN streams \ {flow} : streams[f] = v.streams[f]
    BY <1>2, <2>5 DEF Tracked
  <2>8. ViewShape(w)
    BY <2>4, <2>6, <2>7 DEF ViewShape, Tracked
  <2> QED
    BY <1>1, <1>2, <2>4, <2>6, <2>7, <2>8 DEF Upserted, Tracked
<1>3. CASE flow \notin Tracked(v)
  <2>1. PICK room : room = IF Cardinality(Tracked(v)) >= MaxViewStreams THEN EvictFirst(v) ELSE v
    OBVIOUS
  <2>2. Fewer(v, room)
    <3>1. Fewer(v, v)
      BY DEF Fewer
    <3>2. Fewer(v, EvictFirst(v))
      BY EvictFewer
    <3> QED
      BY <2>1, <3>1, <3>2
  <2>3. CASE Cardinality(Tracked(room)) >= MaxViewStreams
    <3>1. w = room
      BY <1>1, <1>3, <2>1, <2>3, Zenon DEF Upsert
    <3> QED
      BY <1>1, <1>3, <2>2, <3>1 DEF Upserted, Fewer
  <2>4. CASE ~ (Cardinality(Tracked(room)) >= MaxViewStreams)
    <3>1. PICK entry : entry = [row |-> row, matches |-> <<>>, match_count |-> 0, pattern_ids |-> {}]
      OBVIOUS
    <3>2. EntryShape(entry) /\ entry.row = row /\ entry.matches = <<>>
      BY <3>1 DEF EntryShape
    <3>3. w = [room EXCEPT !.order = Append(@, flow), !.streams = Put(@, flow, entry)]
      BY <1>1, <1>3, <2>1, <2>4, <3>1, Zenon DEF Upsert
    <3>4. PICK streams : streams = Put(room.streams, flow, entry)
      OBVIOUS
    <3>5. DOMAIN streams = DOMAIN room.streams \cup {flow} /\ streams[flow] = entry
          /\ \A f \in DOMAIN streams \ {flow} : streams[f] = room.streams[f]
      BY <3>4 DEF Put
    <3>6. DOMAIN w = DOMAIN room /\ w.streams = streams
      BY <2>2, <3>3, <3>4 DEF Fewer, ViewShape
    <3>7. ViewShape(w)
      BY <2>2, <3>2, <3>5, <3>6 DEF Fewer, ViewShape, Tracked
    <3> QED
      BY <1>1, <2>2, <3>2, <3>5, <3>6, <3>7 DEF Upserted, Fewer, Tracked
  <2> QED
    BY <2>3, <2>4
<1> QED
  BY <1>2, <1>3

\* What a row tells of a record: see RowsShowTheStream.
Kinds(kind) == {kind} \cup {KindAfter(q, kind) : q \in {"http", "websocket", "dns", "tls"}}
Tells(row, r) ==
    /\ row.status = r.status
    /\ row.service = r.service \/ row.service.source = "Parser"
    /\ row.kind \in Kinds(ContentKind(r))
    /\ row.packets = r.shown_packets /\ row.stream_bytes = r.shown_bytes
RowsTell(v, table) ==
    ViewShape(v) /\ \A f \in DOMAIN table \cap Tracked(v) : Tells(v.streams[f].row, table[f])

\* What a parser tells of the kind of content may be told again.
LEMMA KindsClosed ==
    ASSUME NEW base, NEW kind \in Kinds(base), NEW q
    PROVE  KindAfter(q, kind) \in Kinds(base)
<1>1. CASE base \notin {"Unknown", "Binary"}
  <2>1. \A p : KindAfter(p, base) = base
    BY <1>1 DEF KindAfter
  <2>2. kind = base
    BY <2>1 DEF Kinds
  <2> QED
    BY <2>1, <2>2 DEF Kinds
<1>2. CASE base = "Binary"
  <2>1. KindAfter("http", base) = "Mixed"
    BY <1>2 DEF KindAfter
  <2>2. kind \in {"Binary", "Mixed"}
    BY <1>2 DEF Kinds, KindAfter
  <2>3. KindAfter(q, kind) \in {"Binary", "Mixed"}
    BY <2>2 DEF KindAfter
  <2> QED
    BY <1>2, <2>1, <2>3 DEF Kinds
<1>3. CASE base = "Unknown"
  <2>1. KindAfter("http", base) = "Text" /\ KindAfter("websocket", base) = "Mixed"
        /\ KindAfter("dns", base) = "Binary"
    BY <1>3 DEF KindAfter
  <2>2. kind \in {"Unknown", "Text", "Mixed", "Binary"}
    BY <1>3 DEF Kinds, KindAfter
  <2>3. KindAfter(q, kind) \in {"Unknown", "Text", "Mixed", "Binary"}
    BY <2>2 DEF KindAfter
  <2> QED
    BY <1>3, <2>1, <2>3 DEF Kinds
<1> QED
  BY <1>1, <1>2, <1>3

LEMMA MatchTells ==
    ASSUME NEW v, NEW table, RowsTell(v, table), NEW m
    PROVE  RowsTell(ObserveMatch(v, m), table)
<1>1. PICK w : w = ObserveMatch(v, m)
  OBVIOUS
<1>2. CASE m.flow \notin Tracked(v)
  <2>1. w = [v EXCEPT !.stats.orphan = @ + 1]
    BY <1>1, <1>2, Zenon DEF ObserveMatch
  <2>2. DOMAIN w = DOMAIN v /\ w.streams = v.streams
    BY <2>1 DEF RowsTell, ViewShape
  <2> QED
    BY <1>1, <2>2 DEF RowsTell, ViewShape, Tracked
<1>3. CASE m.flow \in Tracked(v)
  <2>1. PICK flow : flow = m.flow /\ flow \in DOMAIN v.streams
    BY <1>3 DEF Tracked
  <2>2. EntryShape(v.streams[flow])
    BY <2>1 DEF RowsTell, ViewShape, Tracked
  <2>3. PICK entry : entry = WithMatch(v.streams[flow], m)
    OBVIOUS
  <2>4. EntryShape(entry) /\ entry.row = v.streams[flow].row
    BY <2>2, <2>3 DEF EntryShape, WithMatch
  <2>5. PICK a, b, c, d :
          w = [v EXCEPT !.streams[m.flow] = entry, !.matched = a, !.pattern_index = b,
                        !.stats.stored = c, !.stats.dropped = d]
    BY <1>1, <1>3, <2>1, <2>3, ZenonT(30) DEF ObserveMatch, RowsTell, ViewShape
  <2>6. PICK streams : streams = [v.streams EXCEPT ![flow] = entry]
    OBVIOUS
  <2>7. DOMAIN w = DOMAIN v /\ w.streams = streams
    BY <2>1, <2>5, <2>6 DEF RowsTell, ViewShape
  <2>8. DOMAIN streams = DOMAIN v.streams /\ streams[flow] = entry
        /\ \A f \in DOMAIN streams \ {flow} : streams[f] = v.streams[f]
    BY <2>1, <2>6
  <2>9. ViewShape(w)
    BY <2>4, <2>7, <2>8 DEF RowsTell, ViewShape, Tracked
  <2>10. \A f \in DOMAIN streams : streams[f].row = v.streams[f].row
    BY <2>4, <2>8
  <2> QED
    BY <1>1, <2>7, <2>8, <2>9, <2>10 DEF RowsTell, Tracked
<1> QED
  BY <1>2, <1>3

LEMMA MessageTells ==
    ASSUME NEW v, NEW table, RowsTell(v, table), NEW m
    PROVE  RowsTell(ObserveMessage(v, m), table)
<1>1. PICK w : w = ObserveMessage(v, m)
  OBVIOUS
<1>2. CASE m.error \/ m.flow \notin Tracked(v)
  BY <1>2 DEF ObserveMessage
<1>3. CASE ~ (m.error \/ m.flow \notin Tracked(v))
  <2>1. PICK flow : flow = m.flow /\ flow \in DOMAIN v.streams
    BY <1>3 DEF Tracked
  <2>2. EntryShape(v.streams[flow]) /\ RowShape(v.streams[flow].row)
    BY <2>1 DEF RowsTell, ViewShape, EntryShape, Tracked
  <2>3. PICK row : row = v.streams[flow].row
    OBVIOUS
  <2>4. PICK service : service = IF ShouldReplace(row.service, ServiceOf(m)) THEN ServiceOf(m) ELSE row.service
    OBVIOUS
  <2>5. PICK kind : kind = KindAfter(m.protocol, row.kind)
    OBVIOUS
  <2>6. PICK first : first = [v.streams[flow] EXCEPT !.row = [row EXCEPT !.service = service]]
    OBVIOUS
  <2>7. /\ EntryShape(first) /\ first.row.service = service /\ first.row.kind = row.kind
        /\ first.row.status = row.status /\ first.row.packets = row.packets
        /\ first.row.stream_bytes = row.stream_bytes
    BY <2>2, <2>3, <2>6 DEF EntryShape, RowShape
  <2>8. PICK entry : entry = [first EXCEPT !.row = [first.row EXCEPT !.kind = kind]]
    OBVIOUS
  <2>9. /\ EntryShape(entry) /\ entry.row.service = service /\ entry.row.kind = kind
        /\ entry.row.status = row.status /\ entry.row.packets = row.packets
        /\ entry.row.stream_bytes = row.stream_bytes
    BY <2>7, <2>8 DEF EntryShape, RowShape
  <2>10. PICK between : between = [v.streams EXCEPT ![flow] = first]
    OBVIOUS
  <2>11. PICK streams : streams = [between EXCEPT ![flow] = entry]
    OBVIOUS
  <2>12. DOMAIN streams = DOMAIN v.streams /\ streams[flow] = entry
         /\ \A f \in DOMAIN streams \ {flow} : streams[f] = v.streams[f]
    BY <2>1, <2>10, <2>11
  <2>13. DOMAIN w = DOMAIN v /\ w.streams = streams
    <3>1. w = [v EXCEPT !.streams[flow].row.service =
                            IF ShouldReplace(@, ServiceOf(m)) THEN ServiceOf(m) ELSE @,
                        !.streams[flow].row.kind = KindAfter(m.protocol, @)]
      BY <1>1, <1>3, <2>1, Zenon DEF ObserveMessage
    <3>2. PICK told : told = ServiceOf(m)
      OBVIOUS
    <3>3. PICK u : u = [v EXCEPT !.streams[flow].row.service = IF ShouldReplace(@, told) THEN told ELSE @]
      OBVIOUS
    <3>4. w = [u EXCEPT !.streams[flow].row.kind = KindAfter(m.protocol, @)]
      BY <3>1, <3>2, <3>3, ZenonT(40)
    <3>5. DOMAIN u = DOMAIN v /\ u.streams = between
      BY <2>1, <2>2, <2>3, <2>4, <2>6, <2>10, <3>2, <3>3 DEF RowsTell, ViewShape, EntryShape, RowShape
    <3>6. between[flow] = first
      BY <2>1, <2>10
    <3>7. KindAfter(m.protocol, u.streams[flow].row.kind) = kind
      BY <2>5, <2>7, <3>5, <3>6
    <3>8. w = [u EXCEPT !.streams[flow].row.kind = kind]
      BY <3>4, <3>7
    <3>9. "streams" \in DOMAIN u
      BY <3>5 DEF RowsTell, ViewShape
    <3> QED
      BY <2>1, <2>7, <2>8, <2>10, <2>11, <3>5, <3>6, <3>8, <3>9 DEF EntryShape, RowShape
  <2>14. ViewShape(w)
    BY <2>9, <2>12, <2>13 DEF RowsTell, ViewShape, Tracked
  <2>15. ASSUME NEW r, Tells(row, r)
         PROVE  Tells(entry.row, r)
    <3>1. kind \in Kinds(ContentKind(r))
      BY <2>5, <2>15, KindsClosed DEF Tells
    <3>2. service = row.service \/ service.source = "Parser"
      BY <2>4 DEF ServiceOf
    <3> QED
      BY <2>9, <2>15, <3>1, <3>2 DEF Tells
  <2>16. \A f \in DOMAIN table \cap DOMAIN streams : Tells(streams[f].row, table[f])
    <3> SUFFICES ASSUME NEW f \in DOMAIN table \cap DOMAIN streams
                 PROVE  Tells(streams[f].row, table[f])
      OBVIOUS
    <3>1. Tells(v.streams[f].row, table[f])
      BY <2>12 DEF RowsTell, Tracked
    <3>2. CASE f = flow
      BY <2>3, <2>12, <2>15, <3>1, <3>2
    <3>3. CASE f # flow
      BY <2>12, <3>1, <3>3
    <3> QED
      BY <3>2, <3>3
  <2> QED
    BY <1>1, <2>13, <2>14, <2>16 DEF RowsTell, Tracked
<1> QED
  BY <1>2, <1>3

\* Events of some types, and those that are not the inventory's.
OfTypes(s, types) == IsSequence(s) /\ \A i \in DOMAIN s : s[i].type \in types
Soft(s) == OfTypes(s, {"pattern_match", "protocol_message", "packet"})

LEMMA SoftTells ==
    ASSUME NEW v, NEW table, RowsTell(v, table), NEW s, Soft(s)
    PROVE  RowsTell(ObserveEvents(v, s), table)
<1>1. PICK n \in Nat : DOMAIN s = 1 .. n
  <2>1. PICK T : s \in Seq(T)
    BY DEF Soft, OfTypes, IsSequence
  <2> QED
    BY <2>1, LenProperties
<1>2. PICK h : Observes(h, v, s, n)
  BY <1>1, EventsInTurn
<1> DEFINE G == {i \in Nat : i <= n => RowsTell(h[i], table)}
<1>3. 0 \in G
  <2>1. h[0] = v
    BY <1>2 DEF Observes
  <2> QED
    BY <2>1
<1>4. ASSUME NEW i \in Nat, i \in G
      PROVE  i + 1 \in G
  <2> SUFFICES ASSUME i + 1 <= n
               PROVE  RowsTell(h[i + 1], table)
    OBVIOUS
  <2>1. PICK j \in 1 .. n : j = i + 1 /\ j - 1 = i
    OBVIOUS
  <2>2. RowsTell(h[i], table)
    BY <1>4
  <2>3. h[j] = ObserveEvent(h[i], s[j])
    BY <1>2, <2>1 DEF Observes
  <2>4. s[j].type \in {"pattern_match", "protocol_message", "packet"}
    BY <1>1 DEF Soft, OfTypes
  <2>5. h[j] \in {ObserveMatch(h[i], s[j].match), ObserveMessage(h[i], s[j].message), h[i]}
    BY <2>3, <2>4 DEF ObserveEvent
  <2>6. RowsTell(ObserveMatch(h[i], s[j].match), table)
    BY <2>2, MatchTells
  <2>7. RowsTell(ObserveMessage(h[i], s[j].message), table)
    BY <2>2, MessageTells
  <2> QED
    BY <2>1, <2>2, <2>5, <2>6, <2>7
<1>5. n \in G
  <2> HIDE DEF G
  <2> QED
    BY <1>3, <1>4, NumberInduction
<1>6. RowsTell(h[n], table)
  BY <1>5
<1> QED
  BY <1>2, <1>6 DEF Observes

LEMMA RowTells ==
    ASSUME NEW r, MarkedUp(r)
    PROVE  RowShape(Row(r)) /\ Tells(Row(r), r)
<1>1. PICK row : row = Row(r)
  OBVIOUS
<1>2. /\ RowShape(row) /\ row.status = r.status /\ row.service = r.service
      /\ row.kind = ContentKind(r) /\ row.packets = r.packets /\ row.stream_bytes = r.stream_bytes
  BY <1>1 DEF Row, RowShape
<1>3. row.kind \in Kinds(ContentKind(r))
  BY <1>2 DEF Kinds
<1> QED
  BY <1>1, <1>2, <1>3 DEF Tells, MarkedUp

\* After the inventory's event the rows tell of the records after the packet.
LEMMA RecordTells ==
    ASSUME NEW v, RowsTell(v, records), NEW flow, RecordsMoved(flow)
    PROVE  RowsTell(ObserveEvents(v, inventory_events'), records') /\ IsSequence(inventory_events')
<1>1. PICK table : table = records'
  OBVIOUS
<1>2. /\ flow \in DOMAIN table /\ DOMAIN table \subseteq DOMAIN records \cup {flow}
      /\ \A f \in DOMAIN table \ {flow} : table[f] = records[f]
  BY <1>1 DEF RecordsMoved
<1>3. PICK r : r = table[flow]
  OBVIOUS
<1>4. CASE inventory_events' = <<>>
  <2>1. flow \in DOMAIN records /\ Same(records[flow], r)
        /\ r.shown_packets = records[flow].shown_packets /\ r.shown_bytes = records[flow].shown_bytes
    <3>1. \A type : inventory_events' # OneEvent(type, flow, records'[flow])
      BY <1>4 DEF OneEvent
    <3> QED
      BY <1>1, <1>3, <3>1 DEF RecordsMoved
  <2>2. ASSUME NEW row, Tells(row, records[flow])
        PROVE  Tells(row, r)
    BY <2>1, <2>2 DEF Tells, Same
  <2>3. ASSUME NEW f \in DOMAIN table \cap Tracked(v)
        PROVE  Tells(v.streams[f].row, table[f])
    <3>1. f \in DOMAIN records /\ Tells(v.streams[f].row, records[f])
      BY <1>2, <2>1 DEF RowsTell
    <3>2. CASE f = flow
      BY <1>3, <2>2, <3>1, <3>2
    <3>3. CASE f # flow
      BY <1>2, <3>1, <3>3
    <3> QED
      BY <3>2, <3>3
  <2>4. RowsTell(v, table)
    BY <2>3 DEF RowsTell
  <2>5. ObserveEvents(v, inventory_events') = v
    BY <1>4, NoEvents
  <2> QED
    BY <1>1, <1>4, <2>4, <2>5, EmptyIs
<1>5. CASE inventory_events' # <<>>
  <2>1. MarkedUp(r)
    BY <1>1, <1>3, <1>5 DEF RecordsMoved
  <2>2. PICK type \in {"stream_open", "stream_update"} : inventory_events' = OneEvent(type, flow, r)
    BY <1>1, <1>3, <1>5 DEF RecordsMoved
  <2>3. PICK row : row = Row(r)
    OBVIOUS
  <2>4. PICK e : e = [type |-> type, flow |-> flow, row |-> row]
    OBVIOUS
  <2>5. inventory_events' = <<e>>
    BY <2>2, <2>3, <2>4 DEF OneEvent
  <2>6. ObserveEvents(v, <<e>>) = ObserveEvent(v, e)
    BY EventAlone
  <2>7. ObserveEvent(v, e) = Upsert(v, flow, row)
    <3>1. e.type \in {"stream_open", "stream_update"} /\ e.flow = flow /\ e.row = row
      BY <2>4
    <3> QED
      BY <3>1 DEF ObserveEvent
  <2>8. PICK w : w = Upsert(v, flow, row)
    OBVIOUS
  <2>9. RowShape(row) /\ Tells(row, r)
    BY <2>1, <2>3, RowTells
  <2>10. Upserted(v, w, flow, row)
    <3>1. ViewShape(v)
      BY DEF RowsTell
    <3> QED
      BY <2>8, <2>9, <3>1, UpsertIs
  <2>11. ASSUME NEW f \in DOMAIN table \cap Tracked(w)
         PROVE  Tells(w.streams[f].row, table[f])
    <3>1. CASE f = flow
      BY <1>3, <2>9, <2>10, <3>1 DEF Upserted
    <3>2. CASE f # flow
      <4>1. f \in DOMAIN records \cap Tracked(v) /\ table[f] = records[f]
        BY <1>2, <2>10, <3>2 DEF Upserted
      <4>2. Tells(v.streams[f].row, records[f])
        BY <4>1 DEF RowsTell
      <4> QED
        BY <2>10, <3>2, <4>1, <4>2 DEF Upserted
    <3> QED
      BY <3>1, <3>2
  <2>12. RowsTell(w, table)
    BY <2>10, <2>11 DEF RowsTell, Upserted
  <2>13. IsSequence(<<e>>)
    <3>1. PICK T : T = {e}
      OBVIOUS
    <3>2. <<e>> \in Seq(T)
      BY <3>1
    <3> QED
      BY <3>2 DEF IsSequence
  <2> QED
    BY <1>1, <2>5, <2>6, <2>7, <2>8, <2>12, <2>13
<1> QED
  BY <1>4, <1>5

LEMMA TypesConcat ==
    ASSUME NEW types, NEW a, OfTypes(a, types), NEW b, OfTypes(b, types)
    PROVE  OfTypes(a \o b, types)
<1>1. IsSequence(a) /\ IsSequence(b)
  BY DEF OfTypes
<1>2. IsSequence(a \o b) /\ Follows(a, b, a \o b)
  BY <1>1, ConcatIs
<1>3. PICK c : c = a \o b
  OBVIOUS
<1>4. PICK n \in Nat, m \in Nat :
        /\ DOMAIN a = 1 .. n /\ DOMAIN b = 1 .. m /\ DOMAIN c = 1 .. n + m
        /\ \A i \in 1 .. n : c[i] = a[i]
        /\ \A i \in 1 .. m : c[n + i] = b[i]
  BY <1>2, <1>3 DEF Follows
<1>5. ASSUME NEW i \in 1 .. n + m
      PROVE  c[i].type \in types
  <2>1. CASE i <= n
    <3>1. i \in 1 .. n
      BY <2>1
    <3> QED
      BY <1>4, <3>1 DEF OfTypes
  <2>2. CASE ~ (i <= n)
    <3>1. PICK j \in 1 .. m : i = n + j
      BY <2>2
    <3> QED
      BY <1>4, <3>1 DEF OfTypes
  <2> QED
    BY <2>1, <2>2
<1> QED
  BY <1>2, <1>3, <1>4, <1>5 DEF OfTypes

LEMMA TypesAre ==
    ASSUME NEW types, NEW s, \E n \in Nat : DOMAIN s = 1 .. n, s = [i \in DOMAIN s |-> s[i]],
           \A i \in DOMAIN s : s[i].type \in types
    PROVE  OfTypes(s, types)
<1>1. PICK n \in Nat : DOMAIN s = 1 .. n
  OBVIOUS
<1>2. PICK T : T = {s[i] : i \in 1 .. n}
  OBVIOUS
<1>3. s \in [1 .. n -> T]
  BY <1>1, <1>2
<1>4. s \in Seq(T)
  BY <1>3, SeqDef
<1> QED
  BY <1>4 DEF OfTypes, IsSequence

LEMMA MatchEventsSoft ==
    ASSUME NEW matches, IsSequence(matches)
    PROVE  Soft(MatchEvents(matches))
<1>1. PICK n \in Nat : DOMAIN matches = 1 .. n
  <2>1. PICK T : matches \in Seq(T)
    BY DEF IsSequence
  <2> QED
    BY <2>1, LenProperties
<1>2. PICK s : s = MatchEvents(matches)
  OBVIOUS
<1>3. s = [i \in 1 .. n |-> [type |-> "pattern_match", match |-> matches[i]]]
  BY <1>1, <1>2 DEF MatchEvents
<1>4. DOMAIN s = 1 .. n /\ s = [i \in DOMAIN s |-> s[i]] /\ \A i \in DOMAIN s : s[i].type = "pattern_match"
  BY <1>3
<1>5. Soft(s)
  BY <1>4, TypesAre DEF Soft
<1> QED
  BY <1>2, <1>5

\* What the parsers tell.
Told(s) == OfTypes(s, {"protocol_message"})
LEMMA TellSoftly == ASSUME NEW s, Told(s) PROVE Soft(s)
BY DEF Told, Soft, OfTypes

LEMMA ParsedIs ==
    ASSUME NEW f, NEW b \in Shown(f)
    PROVE  Told(Parsed(f, b))
<1>1. PICK messages : messages = MessagesIn(f, b)
  OBVIOUS
<1>2. PICK n \in Nat : DOMAIN messages = 1 .. n
  BY <1>1, ShownIs, LenProperties
<1>3. PICK s : s = Parsed(f, b)
  OBVIOUS
<1>4. s = [i \in 1 .. n |-> [type |-> "protocol_message", message |-> messages[i]]]
  BY <1>1, <1>2, <1>3 DEF Parsed
<1>5. DOMAIN s = 1 .. n /\ s = [i \in DOMAIN s |-> s[i]]
      /\ \A i \in DOMAIN s : s[i].type = "protocol_message"
  BY <1>4
<1>6. Told(s)
  BY <1>5, TypesAre DEF Told
<1> QED
  BY <1>3, <1>6

LEMMA MessageEventsAre ==
    ASSUME NEW p \in Packets, NEW o, o.chunks \in Seq(Chunks(p.flow))
    PROVE  Told(MessageEvents(p, o))
<1>1. PICK seq : seq = Payloads(p, o)
  OBVIOUS
<1>2. PICK n \in Nat : DOMAIN seq = 1 .. n /\ \A i \in 1 .. n : seq[i] \in Shown(p.flow)
  <2>1. CASE p.tcp
    <3>1. PICK chunks \in Seq(Chunks(p.flow)) : chunks = o.chunks
      OBVIOUS
    <3>2. PICK n \in Nat : n = Len(chunks) /\ DOMAIN chunks = 1 .. n
      BY LenProperties
    <3>3. seq = [i \in 1 .. n |-> chunks[i].bytes]
      BY <1>1, <2>1, <3>1, <3>2 DEF Payloads
    <3>4. \A i \in 1 .. n : chunks[i] \in Chunks(p.flow)
      BY <3>2, ElementOfSeq
    <3> QED
      BY <3>3, <3>4 DEF Chunks
  <2>2. CASE ~ p.tcp
    <3>1. seq = <<p.seg.payload>>
      BY <1>1, <2>2 DEF Payloads
    <3>2. p.seg.payload \in VisibleOf(p)
      BY <2>2 DEF VisibleOf
    <3>3. p.seg.payload \in Shown(p.flow)
      <4>1. VisibleOf(p) \in {VisibleOf(q) : q \in {r \in Packets : r.flow = p.flow}}
        OBVIOUS
      <4> QED
        BY <3>2, <4>1 DEF Shown
    <3>4. PICK n \in Nat : n = 1
      OBVIOUS
    <3>5. DOMAIN seq = 1 .. n /\ \A i \in 1 .. n : seq[i] = p.seg.payload
      BY <3>1, <3>4
    <3> QED
      BY <3>3, <3>5
  <2> QED
    BY <2>1, <2>2
<1>3. PICK h : Parses(h, p, o, n)
  BY <1>1, <1>2, ParsesInTurn
<1> DEFINE G == {i \in Nat : i <= n => Told(h[i])}
<1>4. 0 \in G
  <2>1. h[0] = <<>>
    BY <1>3 DEF Parses
  <2>2. Told(<<>>)
    BY EmptyIs DEF Told, OfTypes
  <2> QED
    BY <2>1, <2>2
<1>5. ASSUME NEW i \in Nat, i \in G
      PROVE  i + 1 \in G
  <2> SUFFICES ASSUME i + 1 <= n
               PROVE  Told(h[i + 1])
    OBVIOUS
  <2>1. PICK j \in 1 .. n : j = i + 1 /\ j - 1 = i
    OBVIOUS
  <2>2. PICK b \in Shown(p.flow) : b = seq[j]
    BY <1>2
  <2>3. h[j] = AndParsed(h[i], p.flow, b)
    BY <1>1, <1>3, <2>1, <2>2 DEF Parses
  <2>4. Told(h[i])
    BY <1>5
  <2>5. Told(Parsed(p.flow, b))
    BY ParsedIs
  <2>6. Told(h[i] \o Parsed(p.flow, b))
    BY <2>4, <2>5, TypesConcat DEF Told
  <2> QED
    BY <2>1, <2>3, <2>6 DEF AndParsed
<1>6. n \in G
  <2> HIDE DEF G
  <2> QED
    BY <1>4, <1>5, NumberInduction
<1>7. Told(h[n])
  BY <1>6
<1> QED
  BY <1>3, <1>7 DEF Parses

-----------------------------------------------------------------------------
(* The pipeline *)

\* The tables and their counters.
TablesOK == FlowTableOK /\ InventoryOK /\ ContentOK /\ PatternOK

\* What is read of the batch.
BatchOK ==
    /\ count \in [read : Nat, batch : Nat, malformed : Nat]
    /\ IsSequence(events) /\ (count.batch = 0 => events = <<>>)

\* The view as it will be when it has seen the events of the batch so far.
RowsOK == RowsTell(ObserveEvents(view, events), records)

PipelineOK == TablesOK /\ BatchOK /\ RowsOK

LEMMA InitOK == Init => PipelineOK
<1> SUFFICES ASSUME Init
             PROVE  PipelineOK
  OBVIOUS
<1>1. TablesOK
  BY FlowInitOK, InventoryInitOK, ContentInitOK, PatternInitOK DEF Init, TablesOK
<1>2. BatchOK
  <2>1. count = [read |-> 0, batch |-> 0, malformed |-> 0] /\ events = <<>>
    BY DEF Init
  <2> QED
    BY <2>1, EmptyIs DEF BatchOK
<1>3. RowsOK
  <2>1. view = NewView /\ events = <<>>
    BY DEF Init
  <2>2. PICK v : v = NewView
    OBVIOUS
  <2>3. Tracked(v) = {} /\ ViewShape(v)
    BY <2>2 DEF NewView, Tracked, ViewShape
  <2>4. RowsTell(v, records)
    BY <2>3 DEF RowsTell
  <2>5. ObserveEvents(v, <<>>) = v
    BY NoEvents
  <2> QED
    BY <2>1, <2>2, <2>4, <2>5 DEF RowsOK
<1> QED
  BY <1>1, <1>2, <1>3 DEF PipelineOK

\* A packet is counted.
LEMMA OneRead ==
    ASSUME NEW c \in [read : Nat, batch : Nat, malformed : Nat],
           NEW d, d = [c EXCEPT !.read = @ + 1, !.batch = @ + 1]
    PROVE  d \in [read : Nat, batch : Nat, malformed : Nat] /\ d.batch # 0
<1>1. PICK r \in Nat : r = c.read + 1
  OBVIOUS
<1>2. PICK b \in Nat : b = c.batch + 1 /\ b # 0
  OBVIOUS
<1>3. d = [c EXCEPT !.read = r, !.batch = b]
  BY <1>1, <1>2
<1>4. d.read = r /\ d.batch = b /\ d = [read |-> r, batch |-> b, malformed |-> c.malformed]
  BY <1>3
<1> QED
  BY <1>2, <1>4

LEMMA AnalyzeKeeps ==
    ASSUME PipelineOK, NEW p \in Packets, AnalyzePacket(p)
    PROVE  PipelineOK'
<1>1. ObserveFlow(p) /\ ObserveInventory(p, observation') /\ ObserveAndScan(p, observation')
  BY DEF AnalyzePacket
<1>2. FlowTableOK' /\ observation'.chunks \in Seq(Chunks(p.flow))
  BY <1>1, FlowStep DEF PipelineOK, TablesOK
<1>3. InventoryOK' /\ RecordsMoved(p.flow)
  BY <1>1, <1>2, InventoryStep DEF PipelineOK, TablesOK
<1>4. ContentOK' /\ ranges' \in Seq(ContentRange) /\ (ranges' # <<>> => p.flow \in DOMAIN content')
  <2>1. ObserveContent(p, observation')
    BY <1>1 DEF ObserveAndScan
  <2> QED
    BY <1>2, <2>1, ContentStep DEF PipelineOK, TablesOK
<1>5. PICK o : o = observation'
  OBVIOUS
<1>6. PatternOK' /\ IsSequence(pattern_events')
  <2>1. ObserveAndScan(p, o)
    BY <1>1, <1>5
  <2> QED
    BY <1>4, <2>1, PatternStep DEF PipelineOK, TablesOK
<1>7. PICK w : w = ObserveEvents(view, events) /\ RowsTell(w, records)
  BY DEF PipelineOK, RowsOK
<1>8. PICK opened : opened = inventory_events'
  OBVIOUS
<1>9. PICK found : found = MatchEvents(pattern_events')
  OBVIOUS
<1>10. PICK told : told = MessageEvents(p, observation')
  OBVIOUS
<1>11. RowsTell(ObserveEvents(w, opened), records') /\ IsSequence(opened)
  BY <1>3, <1>7, <1>8, RecordTells
<1>12. Soft(found)
  BY <1>6, <1>9, MatchEventsSoft
<1>13. Soft(told)
  <2>1. o.chunks \in Seq(Chunks(p.flow)) /\ told = MessageEvents(p, o)
    BY <1>2, <1>5, <1>10
  <2> QED
    BY <2>1, MessageEventsAre, TellSoftly
<1>14. PICK a : a = events \o opened
  OBVIOUS
<1>15. PICK b : b = a \o found
  OBVIOUS
<1>16. PICK c : c = b \o told
  OBVIOUS
<1>17. events' = c /\ view' = view /\ count' = [count EXCEPT !.read = @ + 1, !.batch = @ + 1]
  BY <1>8, <1>9, <1>10, <1>14, <1>15, <1>16, Zenon DEF AnalyzePacket, CountPacket
<1>18. IsSequence(a) /\ Follows(events, opened, a)
  <2>1. IsSequence(events)
    BY DEF PipelineOK, BatchOK
  <2> QED
    BY <1>11, <1>14, <2>1, ConcatIs
<1>19. IsSequence(b) /\ Follows(a, found, b)
  BY <1>12, <1>15, <1>18, ConcatIs DEF Soft, OfTypes
<1>20. IsSequence(c) /\ Follows(b, told, c)
  BY <1>13, <1>16, <1>19, ConcatIs DEF Soft, OfTypes
<1>21. PICK table : table = records'
  OBVIOUS
<1>22. PICK x : x = ObserveEvents(view, a) /\ RowsTell(x, table)
  <2>1. ObserveEvents(view, a) = ObserveEvents(w, opened)
    BY <1>7, <1>18, EventsFollow
  <2> QED
    BY <1>11, <1>21, <2>1
<1>23. PICK y : y = ObserveEvents(view, b) /\ RowsTell(y, table)
  <2>1. ObserveEvents(view, b) = ObserveEvents(x, found)
    BY <1>19, <1>22, EventsFollow
  <2>2. RowsTell(ObserveEvents(x, found), table)
    BY <1>12, <1>22, SoftTells
  <2> QED
    BY <2>1, <2>2
<1>24. RowsTell(ObserveEvents(view, c), table)
  <2>1. ObserveEvents(view, c) = ObserveEvents(y, told)
    BY <1>20, <1>23, EventsFollow
  <2>2. RowsTell(ObserveEvents(y, told), table)
    BY <1>13, <1>23, SoftTells
  <2> QED
    BY <2>1, <2>2
<1>25. RowsOK'
  BY <1>17, <1>21, <1>24 DEF RowsOK
<1>26. BatchOK'
  <2>1. count \in [read : Nat, batch : Nat, malformed : Nat]
    BY DEF PipelineOK, BatchOK
  <2>2. count' \in [read : Nat, batch : Nat, malformed : Nat] /\ count'.batch # 0
    BY <1>17, <2>1, OneRead
  <2> QED
    BY <1>17, <1>20, <2>2 DEF BatchOK
<1> QED
  BY <1>2, <1>3, <1>4, <1>6, <1>25, <1>26 DEF PipelineOK, TablesOK

\* Steps that do not touch the components.
LEMMA OthersKeep ==
    ASSUME TablesOK, UNCHANGED <<flow_vars, inventory_vars, content_vars, pattern_vars>>
    PROVE  TablesOK' /\ records' = records
<1>1. FlowTableOK'
  BY DEF TablesOK, flow_vars, FlowTableOK
<1>2. InventoryOK'
  BY DEF TablesOK, inventory_vars, InventoryOK
<1>3. ContentOK'
  BY DEF TablesOK, content_vars, ContentOK
<1>4. PatternOK'
  BY DEF TablesOK, pattern_vars, PatternOK
<1> QED
  BY <1>1, <1>2, <1>3, <1>4 DEF TablesOK, inventory_vars

LEMMA NextKeeps == PipelineOK /\ [Next]_vars => PipelineOK'
<1> SUFFICES ASSUME PipelineOK, [Next]_vars
             PROVE  PipelineOK'
  OBVIOUS
<1>0. TablesOK /\ BatchOK /\ RowsOK
  BY DEF PipelineOK
<1>1. ASSUME NEW p \in Packets, AnalyzePacket(p)
      PROVE  PipelineOK'
  BY <1>1, AnalyzeKeeps
<1>2. ASSUME NEW p \in Packets, DumpPacket(p)
      PROVE  PipelineOK'
  <2>1. UNCHANGED <<flow_vars, inventory_vars, content_vars, pattern_vars>> /\ view' = view
    BY <1>2 DEF DumpPacket
  <2>2. TablesOK' /\ records' = records
    BY <1>0, <2>1, OthersKeep
  <2>3. PICK e : e = [type |-> "packet", flow |-> p.flow]
    OBVIOUS
  <2>4. events' = Append(events, e)
    BY <1>2, <2>3 DEF DumpPacket
  <2>5. PICK b : b = <<e>>
    OBVIOUS
  <2>6. Soft(b)
    <3>1. DOMAIN b = 1 .. 1 /\ b = [i \in DOMAIN b |-> b[i]] /\ \A i \in DOMAIN b : b[i].type = "packet"
      BY <2>3, <2>5
    <3>2. \E n \in Nat : DOMAIN b = 1 .. n
      BY <3>1
    <3> QED
      BY <3>1, <3>2, TypesAre DEF Soft
  <2>7. PICK c : c = events \o b
    OBVIOUS
  <2>8. events' = c
    <3>1. PICK T : events \in Seq(T)
      BY <1>0 DEF BatchOK, IsSequence
    <3>2. PICK U : U = T \cup {e}
      OBVIOUS
    <3>3. events \in Seq(U) /\ e \in U
      BY <3>1, <3>2, SeqMonotonic
    <3> QED
      BY <2>4, <2>5, <2>7, <3>3, AppendIsConcat
  <2>9. IsSequence(c) /\ Follows(events, b, c)
    BY <1>0, <2>6, <2>7, ConcatIs DEF BatchOK, Soft, OfTypes
  <2>10. PICK w : w = ObserveEvents(view, events) /\ RowsTell(w, records)
    BY <1>0 DEF RowsOK
  <2>11. RowsTell(ObserveEvents(view, c), records)
    <3>1. ObserveEvents(view, c) = ObserveEvents(w, b)
      BY <2>9, <2>10, EventsFollow
    <3> QED
      BY <2>6, <2>10, <3>1, SoftTells
  <2>12. RowsOK'
    BY <2>1, <2>2, <2>8, <2>11 DEF RowsOK
  <2>13. BatchOK'
    <3>1. count' = [count EXCEPT !.read = @ + 1, !.batch = @ + 1]
      BY <1>2 DEF DumpPacket, CountPacket
    <3>2. count' \in [read : Nat, batch : Nat, malformed : Nat] /\ count'.batch # 0
      <4>1. count \in [read : Nat, batch : Nat, malformed : Nat]
        BY <1>0 DEF BatchOK
      <4> QED
        BY <3>1, <4>1, OneRead
    <3> QED
      BY <2>8, <2>9, <3>2 DEF BatchOK
  <2> QED
    BY <2>2, <2>12, <2>13 DEF PipelineOK
<1>3. CASE MalformedPacket
  <2>1. UNCHANGED <<flow_vars, inventory_vars, content_vars, pattern_vars>> /\ view' = view /\ events' = events
    BY <1>3 DEF MalformedPacket
  <2>2. TablesOK' /\ records' = records
    BY <1>0, <2>1, OthersKeep
  <2>3. BatchOK'
    <3>1. count' = [read |-> count.read + 1, batch |-> count.batch + 1, malformed |-> count.malformed + 1]
      BY <1>3 DEF MalformedPacket
    <3>2. count' \in [read : Nat, batch : Nat, malformed : Nat] /\ count'.batch # 0
      BY <1>0, <3>1 DEF BatchOK
    <3> QED
      BY <1>0, <2>1, <3>2 DEF BatchOK
  <2>4. RowsOK'
    BY <1>0, <2>1, <2>2 DEF RowsOK
  <2> QED
    BY <2>2, <2>3, <2>4 DEF PipelineOK
<1>4. CASE EndBatch
  <2>1. UNCHANGED <<flow_vars, inventory_vars, content_vars, pattern_vars>>
        /\ view' = ObserveEvents(view, events) /\ events' = <<>> /\ count' = [count EXCEPT !.batch = 0]
    BY <1>4 DEF EndBatch
  <2>2. TablesOK' /\ records' = records
    BY <1>0, <2>1, OthersKeep
  <2>3. BatchOK'
    BY <1>0, <2>1, EmptyIs DEF BatchOK
  <2>4. PICK w : w = view'
    OBVIOUS
  <2>5. ObserveEvents(w, <<>>) = w
    BY NoEvents
  <2>6. RowsOK'
    BY <1>0, <2>1, <2>2, <2>4, <2>5 DEF RowsOK
  <2> QED
    BY <2>2, <2>3, <2>6 DEF PipelineOK
<1>5. ASSUME UNCHANGED <<flow_vars, inventory_vars, content_vars, pattern_vars>>,
             UNCHANGED <<view, events, count>>
      PROVE  PipelineOK'
  <2>1. TablesOK' /\ records' = records
    BY <1>0, <1>5, OthersKeep
  <2>2. BatchOK' /\ RowsOK'
    BY <1>0, <1>5, <2>1 DEF BatchOK, RowsOK
  <2> QED
    BY <2>1, <2>2 DEF PipelineOK
<1>6. CASE Finish
  <2>1. UNCHANGED <<flow_vars, inventory_vars, content_vars, pattern_vars>>
        /\ UNCHANGED <<view, events, count>>
    BY <1>6 DEF Finish
  <2> QED
    BY <1>5, <2>1
<1>7. CASE UNCHANGED vars
  <2>1. UNCHANGED <<flow_vars, inventory_vars, content_vars, pattern_vars>>
        /\ UNCHANGED <<view, events, count>>
    BY <1>7 DEF vars, driver_vars
  <2> QED
    BY <1>5, <2>1
<1> QED
  BY <1>1, <1>2, <1>3, <1>4, <1>6, <1>7 DEF Next

-----------------------------------------------------------------------------
(* What holds of every run *)

\* The tables stay within their limits, and the counters that the code keeps by
\* increments (streams created and evicted, bytes observed and dropped, matches)
\* agree with what the tables hold.
THEOREM TablesAndCounters == Spec => []TypeOK
<1>1. Init => PipelineOK
  BY InitOK
<1>2. PipelineOK /\ [Next]_vars => PipelineOK'
  BY NextKeeps
<1>3. PipelineOK => TypeOK
  BY DEF PipelineOK, TablesOK, FlowTableOK, InventoryOK, ContentOK, PatternOK, Capped, TypeOK
<1> QED
  BY <1>1, <1>2, <1>3, PTL DEF Spec

\* Between batches a row of the view tells of its stream what the inventory knows:
\* no event that the inventory leaves out (should_emit_update) would have changed more
\* than a count by less than its interval.
THEOREM RowsTellTheInventory == Spec => []RowsShowTheStream
<1>1. Init => PipelineOK
  BY InitOK
<1>2. PipelineOK /\ [Next]_vars => PipelineOK'
  BY NextKeeps
<1>3. PipelineOK => RowsShowTheStream
  <2> SUFFICES ASSUME PipelineOK, count.batch = 0
               PROVE  \A f \in DOMAIN records \cap Tracked(view) :
                        LET row == view.streams[f].row
                            r == records[f]
                        IN  /\ row.status = r.status
                            /\ row.service = r.service \/ row.service.source = "Parser"
                            /\ row.kind \in {ContentKind(r)} \cup
                                    {KindAfter(protocol, ContentKind(r)) :
                                        protocol \in {"http", "websocket", "dns", "tls"}}
                            /\ PacketInterval # 0 => r.packets - row.packets < PacketInterval
                            /\ ByteInterval # 0 => r.stream_bytes - row.stream_bytes < ByteInterval
    BY DEF RowsShowTheStream
  <2>1. RowsTell(view, records)
    <3>1. events = <<>>
      BY DEF PipelineOK, BatchOK
    <3>2. RowsTell(ObserveEvents(view, events), records)
      BY DEF PipelineOK, RowsOK
    <3> QED
      BY <3>1, <3>2, NoEvents
  <2> SUFFICES ASSUME NEW f \in DOMAIN records \cap Tracked(view), NEW row, row = view.streams[f].row,
                      NEW r, r = records[f]
               PROVE  /\ row.status = r.status
                      /\ row.service = r.service \/ row.service.source = "Parser"
                      /\ row.kind \in Kinds(ContentKind(r))
                      /\ PacketInterval # 0 => r.packets - row.packets < PacketInterval
                      /\ ByteInterval # 0 => r.stream_bytes - row.stream_bytes < ByteInterval
    BY DEF Kinds
  <2>2. Tells(row, r)
    BY <2>1 DEF RowsTell
  <2>3. RecordOK(r)
    BY DEF PipelineOK, TablesOK, InventoryOK
  <2> QED
    BY <2>2, <2>3 DEF Tells, RecordOK
<1> QED
  BY <1>1, <1>2, <1>3, PTL DEF Spec

-----------------------------------------------------------------------------
(* What the content store keeps of a stream *)

\* Segment s has the bytes of stream W that its offsets name.
Lays(s, W) ==
    /\ s.start \in Nat /\ s.start < LogicalEnd(s) /\ LogicalEnd(s) <= Len(W)
    /\ s.bytes = Stretch(W, s.start, LogicalEnd(s))

\* Where the first i segments end.
Edge(c, W, i) == IF i = 0 THEN Len(W) - c.stored ELSE LogicalEnd(c.segments[i])

\* A direction that was given W has the end of it, in segments without a gap.
TailOf(c, W) ==
    /\ c.next = Len(W) /\ c.stored <= Len(W)
    /\ \A i \in 1 .. Len(c.segments) :
        Lays(c.segments[i], W) /\ c.segments[i].start = Edge(c, W, i - 1)
    /\ Edge(c, W, Len(c.segments)) = Len(W)

LEMMA EdgeIs ==
    ASSUME NEW c \in ContentDirection, NEW W \in Seq(Nat), TailOf(c, W),
           NEW i \in 0 .. Len(c.segments)
    PROVE  Edge(c, W, i) \in Nat /\ Edge(c, W, i) <= Len(W)
<1>1. Len(W) \in Nat /\ c.stored \in Nat
  BY LenProperties DEF ContentDirection
<1>2. CASE i = 0
  BY <1>1, <1>2 DEF Edge, TailOf
<1>3. CASE i # 0
  <2>1. i \in 1 .. Len(c.segments)
    <3>1. Len(c.segments) \in Nat
      BY LenProperties DEF ContentDirection
    <3> QED
      BY <1>3, <3>1
  <2>2. PICK s \in ContentSegment : s = c.segments[i]
    BY <2>1, ElementOfSeq DEF ContentDirection
  <2>3. Lays(s, W)
    BY <2>1, <2>2 DEF TailOf
  <2>4. Len(s.bytes) \in Nat
    BY <2>2, LenProperties DEF ContentSegment
  <2>5. LogicalEnd(s) \in Nat /\ LogicalEnd(s) <= Len(W)
    BY <2>3, <2>4 DEF Lays, LogicalEnd
  <2> QED
    BY <1>3, <2>2, <2>5 DEF Edge
<1> QED
  BY <1>2, <1>3

\* The segments go on from edge to edge.
LEMMA SegmentIs ==
    ASSUME NEW c \in ContentDirection, NEW W \in Seq(Nat), TailOf(c, W),
           NEW i \in 1 .. Len(c.segments)
    PROVE  /\ c.segments[i] \in ContentSegment
           /\ c.segments[i].start = Edge(c, W, i - 1) /\ LogicalEnd(c.segments[i]) = Edge(c, W, i)
           /\ Edge(c, W, i - 1) < Edge(c, W, i)
           /\ c.segments[i].bytes = Stretch(W, Edge(c, W, i - 1), Edge(c, W, i))
<1>1. PICK s \in ContentSegment : s = c.segments[i]
  BY ElementOfSeq DEF ContentDirection
<1>2. Lays(s, W) /\ s.start = Edge(c, W, i - 1)
  BY <1>1 DEF TailOf
<1>3. LogicalEnd(s) = Edge(c, W, i)
  <2>1. i # 0
    OBVIOUS
  <2> QED
    BY <1>1, <2>1 DEF Edge
<1> QED
  BY <1>1, <1>2, <1>3 DEF Lays

\* New bytes after the first m segments, in one that has what was there and the new bytes.
Lengthened(c, b, V, x, m) ==
    /\ b.next = c.next + Len(x) /\ b.stored = c.stored + Len(x)
    /\ Len(b.segments) = m + 1 /\ m <= Len(c.segments)
    /\ \A i \in 1 .. m : b.segments[i] = c.segments[i]
    /\ b.segments[m + 1].start = Edge(c, V, m)
    /\ b.segments[m + 1].bytes = Stretch(V, Edge(c, V, m), Len(V)) \o x
LEMMA TailGrows ==
    ASSUME NEW c \in ContentDirection, NEW V \in Seq(Nat), TailOf(c, V), NEW x \in Seq(Nat),
           x # <<>>, NEW b \in ContentDirection, NEW m \in Nat, Lengthened(c, b, V, x, m)
    PROVE  TailOf(b, V \o x)
<1>1. PICK W : W = V \o x
  OBVIOUS
<1>2. W \in Seq(Nat) /\ Len(W) = Len(V) + Len(x)
  BY <1>1, PartOfMore
<1>3. \A p, q \in Nat : p <= q /\ q <= Len(V) => Stretch(W, p, q) = Stretch(V, p, q)
  BY <1>1, PartOfMore
<1>4. Stretch(W, Len(V), Len(V) + Len(x)) = x
  BY <1>1, PartOfMore
<1>5. PICK n \in Nat : n = Len(V)
  BY LenProperties
<1>6. PICK l \in Nat \ {0} : l = Len(x)
  BY EmptySeq
<1>7. c.next = n /\ c.stored \in Nat /\ c.stored <= n /\ Len(c.segments) \in Nat
  <2>1. c.stored \in Nat /\ c.segments \in Seq(ContentSegment)
    BY DEF ContentDirection
  <2>2. c.next = n /\ c.stored <= n
    BY <1>5 DEF TailOf
  <2> QED
    BY <2>1, <2>2, LenProperties
<1>8. /\ b.next = c.next + l /\ b.stored = c.stored + l /\ Len(b.segments) = m + 1
      /\ m <= Len(c.segments) /\ \A i \in 1 .. m : b.segments[i] = c.segments[i]
  BY <1>6 DEF Lengthened
<1>9. Edge(b, W, 0) = Edge(c, V, 0)
  <2>1. Edge(b, W, 0) = Len(W) - b.stored /\ Edge(c, V, 0) = Len(V) - c.stored
    BY DEF Edge
  <2>2. PICK k \in Nat : k = c.stored
    BY <1>7
  <2>3. Len(W) = n + l /\ b.stored = k + l /\ Len(V) = n
    BY <1>2, <1>5, <1>6, <1>8, <2>2
  <2> QED
    BY <2>1, <2>2, <2>3
<1>10. \A i \in 1 .. m : Edge(b, W, i) = Edge(c, V, i)
  <2>1. \A i \in 1 .. m : i # 0
    OBVIOUS
  <2> QED
    BY <1>8, <2>1 DEF Edge
<1>11. \A i \in 0 .. m : Edge(b, W, i) = Edge(c, V, i)
  BY <1>9, <1>10
<1>12. ASSUME NEW i \in 1 .. m
       PROVE  Lays(b.segments[i], W) /\ b.segments[i].start = Edge(b, W, i - 1)
  <2>1. i \in 1 .. Len(c.segments) /\ i - 1 \in 0 .. m
    BY <1>7, <1>8
  <2>2. PICK s \in ContentSegment : s = c.segments[i]
    BY <2>1, ElementOfSeq DEF ContentDirection
  <2>3. Lays(s, V) /\ s.start = Edge(c, V, i - 1)
    BY <2>1, <2>2 DEF TailOf
  <2>4. b.segments[i] = s /\ Edge(b, W, i - 1) = Edge(c, V, i - 1)
    BY <1>8, <1>11, <2>1, <2>2
  <2>5. PICK end \in Nat : end = LogicalEnd(s)
    <3>1. Len(s.bytes) \in Nat
      BY <2>2, LenProperties DEF ContentSegment
    <3> QED
      BY <2>3, <3>1 DEF Lays, LogicalEnd
  <2>6. s.start \in Nat /\ s.start < end /\ end <= n /\ s.bytes = Stretch(V, s.start, end)
    BY <1>5, <2>3, <2>5 DEF Lays
  <2>7. s.bytes = Stretch(W, s.start, end) /\ end <= Len(W)
    BY <1>2, <1>3, <1>5, <1>6, <2>6
  <2>8. Lays(s, W)
    BY <2>5, <2>6, <2>7 DEF Lays
  <2> QED
    BY <2>3, <2>4, <2>8
<1>13. PICK e \in Nat : e = Edge(c, V, m) /\ e <= n
  <2>1. m \in 0 .. Len(c.segments)
    BY <1>7, <1>8
  <2> QED
    BY <1>5, <2>1, EdgeIs
<1>14. PICK s : s = b.segments[m + 1]
  OBVIOUS
<1>15. s.start = e /\ s.bytes = Stretch(V, e, n) \o x
  BY <1>5, <1>13, <1>14 DEF Lengthened
<1>16. s.bytes = Stretch(W, e, n + l)
  <2>1. Stretch(V, e, n) = Stretch(W, e, n)
    BY <1>3, <1>5, <1>13
  <2>2. x = Stretch(W, n, n + l)
    BY <1>4, <1>5, <1>6
  <2>3. n + l \in Nat /\ n <= n + l /\ n + l <= Len(W)
    BY <1>2, <1>5, <1>6
  <2>4. Stretch(W, e, n) \o Stretch(W, n, n + l) = Stretch(W, e, n + l)
    <3>1. e <= n
      BY <1>13
    <3>2. n \in Nat /\ W \in Seq(Nat)
      BY <1>2, <1>5, <1>6
    <3> QED
      BY <2>3, <3>1, <3>2, PartJoins, Zenon
  <2> QED
    BY <1>15, <2>1, <2>2, <2>4
<1>17. Len(s.bytes) = n + l - e
  <2>1. PICK k \in Nat : k = n + l
    OBVIOUS
  <2>2. e <= k /\ k <= Len(W)
    BY <1>2, <1>5, <1>6, <1>13, <2>1
  <2>3. Len(Stretch(W, e, k)) = k - e
    BY <1>2, <2>2, PartIs
  <2> QED
    BY <1>16, <2>1, <2>3
<1>18. LogicalEnd(s) = n + l
  BY <1>13, <1>15, <1>17 DEF LogicalEnd
<1>19. Lays(s, W) /\ s.start = Edge(b, W, m)
  <2>1. m \in 0 .. m
    OBVIOUS
  <2>2. Edge(b, W, m) = e
    BY <1>11, <1>13, <2>1
  <2>3. n + l <= Len(W) /\ e < n + l
    BY <1>2, <1>5, <1>6, <1>13
  <2> QED
    BY <1>13, <1>15, <1>16, <1>18, <2>2, <2>3 DEF Lays
<1>20. Edge(b, W, m + 1) = Len(W)
  <2>1. m + 1 # 0
    OBVIOUS
  <2>2. Edge(b, W, m + 1) = LogicalEnd(s)
    BY <1>14, <2>1 DEF Edge
  <2> QED
    BY <1>2, <1>5, <1>6, <1>18, <2>2
<1>21. b.next = Len(W) /\ b.stored <= Len(W)
  BY <1>2, <1>5, <1>6, <1>7, <1>8
<1>22. \A i \in 1 .. m + 1 : Lays(b.segments[i], W) /\ b.segments[i].start = Edge(b, W, i - 1)
  <2> SUFFICES ASSUME NEW i \in 1 .. m + 1
               PROVE  Lays(b.segments[i], W) /\ b.segments[i].start = Edge(b, W, i - 1)
    OBVIOUS
  <2>1. CASE i \in 1 .. m
    BY <1>12, <2>1
  <2>2. CASE i = m + 1
    <3>1. i - 1 = m
      BY <2>2
    <3> QED
      BY <1>14, <1>19, <2>2, <3>1
  <2> QED
    BY <2>1, <2>2
<1> QED
  BY <1>1, <1>8, <1>20, <1>21, <1>22 DEF TailOf

\* New ranges of a direction that make up what it was given after its first `from`
\* bytes, up to its `to`-th.
Covers(rs, dir, from, to) ==
    /\ \A i \in 1 .. Len(rs) :
        /\ rs[i].dir = dir
        /\ from <= rs[i].start /\ rs[i].start < rs[i].end /\ rs[i].end <= to
    /\ \A e \in from + 1 .. to : \E i \in 1 .. Len(rs) : rs[i].start < e /\ e <= rs[i].end

\* Nothing is new at first, and more that is new is after the rest.
LEMMA CoversNothing ==
    ASSUME NEW dir, NEW from \in Nat
    PROVE  Covers(<<>>, dir, from, from)
<1>1. Len(<<>>) = 0
  BY EmptySeq
<1> QED
  BY <1>1 DEF Covers

LEMMA CoversMore ==
    ASSUME NEW rs \in Seq(ContentRange), NEW new \in Seq(ContentRange), NEW dir,
           NEW from \in Nat, NEW to \in Nat, NEW end \in Nat, from <= to, to <= end,
           Covers(rs, dir, from, to), Covers(new, dir, to, end)
    PROVE  Covers(rs \o new, dir, from, end)
<1>1. PICK all : all = rs \o new
  OBVIOUS
<1>2. PICK m \in Nat : m = Len(rs)
  BY LenProperties
<1>3. PICK n \in Nat : n = Len(new)
  BY LenProperties
<1>4. Len(all) = m + n /\ \A i \in 1 .. m + n : all[i] = IF i <= m THEN rs[i] ELSE new[i - m]
  BY <1>1, <1>2, <1>3, ConcatProperties
<1>5. ASSUME NEW i \in 1 .. m
      PROVE  rs[i].start \in Nat /\ rs[i].end \in Nat
  <2>1. rs[i] \in ContentRange
    BY <1>2, ElementOfSeq
  <2> QED
    BY <2>1 DEF ContentRange
<1>6. ASSUME NEW i \in 1 .. n
      PROVE  new[i].start \in Nat /\ new[i].end \in Nat
  <2>1. new[i] \in ContentRange
    BY <1>3, ElementOfSeq
  <2> QED
    BY <2>1 DEF ContentRange
<1>7. ASSUME NEW i \in 1 .. Len(all)
      PROVE  /\ all[i].dir = dir
             /\ from <= all[i].start /\ all[i].start < all[i].end /\ all[i].end <= end
  <2>1. CASE i <= m
    <3>1. i \in 1 .. m /\ all[i] = rs[i]
      BY <1>4, <2>1
    <3>2. rs[i].dir = dir /\ from <= rs[i].start /\ rs[i].start < rs[i].end /\ rs[i].end <= to
      BY <1>2, <3>1 DEF Covers
    <3> QED
      BY <1>5, <3>1, <3>2
  <2>2. CASE ~ (i <= m)
    <3>1. PICK j \in 1 .. n : j = i - m /\ all[i] = new[j]
      BY <1>4, <2>2
    <3>2. new[j].dir = dir /\ to <= new[j].start /\ new[j].start < new[j].end /\ new[j].end <= end
      BY <1>3 DEF Covers
    <3> QED
      BY <1>6, <3>1, <3>2
  <2> QED
    BY <2>1, <2>2
<1>8. ASSUME NEW e \in from + 1 .. end
      PROVE  \E i \in 1 .. Len(all) : all[i].start < e /\ e <= all[i].end
  <2>1. CASE e <= to
    <3>1. e \in from + 1 .. to
      BY <2>1
    <3>2. PICK i \in 1 .. m : rs[i].start < e /\ e <= rs[i].end
      BY <1>2, <3>1 DEF Covers
    <3>3. i \in 1 .. Len(all) /\ all[i] = rs[i]
      BY <1>4
    <3> QED
      BY <3>2, <3>3
  <2>2. CASE ~ (e <= to)
    <3>1. e \in to + 1 .. end
      BY <2>2
    <3>2. PICK j \in 1 .. n : new[j].start < e /\ e <= new[j].end
      BY <1>3, <3>1 DEF Covers
    <3>3. PICK i \in 1 .. Len(all) : i = m + j
      BY <1>4
    <3>4. ~ (i <= m) /\ i - m = j /\ i \in 1 .. m + n
      BY <1>4, <3>3
    <3>5. all[i] = new[j]
      BY <1>4, <3>4
    <3> QED
      BY <3>2, <3>5
  <2> QED
    BY <2>1, <2>2
<1> QED
  BY <1>1, <1>7, <1>8 DEF Covers

\* A round of append takes the first of what is left.
Took(a, b, dir, V, take) ==
    /\ TailOf(b.dir, V \o Stretch(a.left, 0, take))
    /\ b.left = Stretch(a.left, take, Len(a.left))
    /\ b.ranges = Append(a.ranges, [dir |-> dir, start |-> Len(V), end |-> Len(V) + take])
LEMMA AppendPieceLays ==
    ASSUME NEW a \in Appending, NEW dir \in Directions, NEW now \in Nat, NEW V \in Seq(Nat),
           TailOf(a.dir, V), a.left # <<>>
    PROVE  \E take \in 1 .. Len(a.left) : Took(a, AppendPiece(a, dir, now), dir, V, take)
<1> DEFINE c == a.dir
           take == Min({Len(a.left), MaxSegmentBytes})
           bytes == SubSeq(a.left, 1, take)
           merged == Merges(c, a.seq, bytes)
           segments ==
               IF merged
               THEN [c.segments EXCEPT ![Len(c.segments)].bytes = @ \o bytes]
               ELSE Append(c.segments, [start |-> c.next, seq |-> a.seq, at |-> now, bytes |-> bytes])
           seq == IF a.seq = None THEN None ELSE (a.seq + take) % Modulus
           range == [dir |-> dir, start |-> c.next, end |-> c.next + take]
           joined == a.merged + (IF merged THEN 1 ELSE 0)
           left == SubSeq(a.left, take + 1, Len(a.left))
<1>1. PICK b \in Appending : b = AppendPiece(a, dir, now)
  BY AppendPieceTyped
<1>2. b = [dir |-> [next |-> c.next + take, stored |-> c.stored + take, segments |-> segments],
           ranges |-> Append(a.ranges, range), merged |-> joined, seq |-> seq, left |-> left]
  BY <1>1, Zenon DEF AppendPiece
<1>3. a.left \in Seq(Nat) /\ Len(a.left) \in Nat \ {0}
  BY EmptySeq, LenProperties DEF Appending
<1>4. MaxSegmentBytes \in Nat \ {0}
  BY ContentAssumption
<1>5. take \in Nat \ {0} /\ take <= Len(a.left)
  <2>1. PICK l \in Nat \ {0} : l = Len(a.left)
    BY <1>3
  <2>2. take = Min({l, MaxSegmentBytes})
    BY <2>1
  <2>3. l \in Int /\ MaxSegmentBytes \in Int
    BY <1>4
  <2>4. Min({l, MaxSegmentBytes}) \in {l, MaxSegmentBytes} /\ Min({l, MaxSegmentBytes}) <= l
    BY <2>3, OfTwo
  <2> HIDE DEF take
  <2> QED
    BY <1>4, <2>1, <2>2, <2>4
<1> HIDE DEF take
<1>6. PICK x : x = bytes
  OBVIOUS
<1>7. x = Stretch(a.left, 0, take) /\ x \in Seq(Nat) /\ Len(x) = take /\ x # <<>>
  <2>1. Stretch(a.left, 0, take) \in Seq(Nat) /\ Len(Stretch(a.left, 0, take)) = take - 0
    <3>1. PICK l \in Seq(Nat) : l = a.left
      BY <1>3
    <3>2. PICK z \in Nat : z = 0
      OBVIOUS
    <3>3. PICK k \in Nat : k = take /\ z <= k /\ k <= Len(l)
      BY <1>5, <3>1, <3>2
    <3>4. Stretch(l, z, k) \in Seq(Nat) /\ Len(Stretch(l, z, k)) = k - z
      <4>1. z <= k /\ k <= Len(l)
        BY <3>3
      <4> QED
        BY <4>1, PartIs, ZenonT(40)
    <3> QED
      BY <3>1, <3>2, <3>3, <3>4
  <2>2. x = Stretch(a.left, 0, take)
    BY <1>6 DEF Stretch
  <2>3. Len(x) = take /\ x \in Seq(Nat)
    <3>1. take - 0 = take
      BY <1>5
    <3> QED
      BY <2>1, <2>2, <3>1
  <2>4. x # <<>>
    BY <1>5, <2>3, EmptySeq
  <2> QED
    BY <2>2, <2>3, <2>4
<1>8. left = Stretch(a.left, take, Len(a.left))
  BY DEF Stretch
<1>9. c \in ContentDirection
  BY DEF Appending
<1>10. c.segments \in Seq(ContentSegment)
  BY <1>9 DEF ContentDirection
<1>11. c.next = Len(V) /\ TailOf(c, V)
  BY DEF TailOf
<1>12. PICK n \in Nat : n = Len(c.segments) /\ Edge(c, V, n) = Len(V)
  BY <1>10, <1>11, LenProperties DEF TailOf
<1>13. b.dir \in ContentDirection /\ b.dir.next = c.next + Len(x) /\ b.dir.stored = c.stored + Len(x)
       /\ b.dir.segments = segments /\ b.left = left /\ b.ranges = Append(a.ranges, range)
  <2>1. b.dir \in ContentDirection
    BY <1>1 DEF Appending
  <2> HIDE DEF c, segments, left, range, bytes
  <2> QED
    BY <1>2, <1>7, <2>1
<1> HIDE DEF c
<1>14. \E m \in Nat : Lengthened(c, b.dir, V, x, m)
  <2>1. CASE merged
    <3>1. c.segments # <<>>
      BY <2>1 DEF Merges
    <3>2. n \in 1 .. n
      <4>1. n # 0
        BY <1>10, <1>12, <3>1, EmptySeq
      <4> QED
        BY <4>1
    <3>3. PICK s \in ContentSegment : s = c.segments[n]
      BY <1>10, <1>12, <3>2, ElementOfSeq
    <3>4. PICK all : all = s.bytes \o x
      OBVIOUS
    <3>5. PICK t : t = [s EXCEPT !.bytes = all]
      OBVIOUS
    <3>6. t.start = s.start /\ t.bytes = all
      BY <3>5 DEF ContentSegment
    <3>7. b.dir.segments = [c.segments EXCEPT ![n] = t]
      BY <1>6, <1>12, <1>13, <2>1, <3>3, <3>4, <3>5
    <3>8. /\ Len(b.dir.segments) = n /\ b.dir.segments[n] = t
          /\ \A i \in 1 .. n : i # n => b.dir.segments[i] = c.segments[i]
      <4>1. DOMAIN c.segments = 1 .. n
        BY <1>10, <1>12, LenProperties
      <4>2. DOMAIN b.dir.segments = 1 .. n
        BY <3>7, <4>1
      <4>3. Len(b.dir.segments) = n
        <5>1. b.dir.segments \in Seq(ContentSegment)
          BY <1>13 DEF ContentDirection
        <5> QED
          BY <4>2, <5>1, LenProperties
      <4> QED
        BY <3>2, <3>7, <4>1, <4>3
    <3>9. s.start = Edge(c, V, n - 1) /\ s.bytes = Stretch(V, Edge(c, V, n - 1), Len(V))
      <4>1. n \in 1 .. Len(c.segments)
        BY <1>12, <3>2
      <4> QED
        BY <1>9, <1>11, <1>12, <3>3, <4>1, SegmentIs
    <3>10. PICK m \in Nat : m = n - 1 /\ m + 1 = n /\ m <= n
      BY <3>2
    <3>11. \A i \in 1 .. m : b.dir.segments[i] = c.segments[i]
      BY <3>8, <3>10, SMTT(30)
    <3>12. Lengthened(c, b.dir, V, x, m)
      BY <1>12, <1>13, <3>4, <3>6, <3>8, <3>9, <3>10, <3>11 DEF Lengthened
    <3> QED
      BY <3>12
  <2>2. CASE ~ merged
    <3>1. PICK t : t = [start |-> c.next, seq |-> a.seq, at |-> now, bytes |-> x]
      OBVIOUS
    <3>2. b.dir.segments = Append(c.segments, t)
      BY <1>6, <1>13, <2>2, <3>1
    <3>3. t \in ContentSegment
      <4>1. c.next \in Int /\ a.seq \in Int
        BY <1>9 DEF ContentDirection, Appending
      <4> QED
        BY <1>7, <3>1, <4>1 DEF ContentSegment
    <3>4. /\ Len(b.dir.segments) = n + 1 /\ b.dir.segments[n + 1] = t
          /\ \A i \in 1 .. n : b.dir.segments[i] = c.segments[i]
      BY <1>10, <1>12, <3>2, <3>3, AppendProperties
    <3>5. t.start = Edge(c, V, n) /\ t.bytes = Stretch(V, Edge(c, V, n), Len(V)) \o x
      <4>1. Len(V) \in Int
        BY LenProperties
      <4>2. Stretch(V, Len(V), Len(V)) = <<>>
        <5>1. PICK l \in Int : l = Len(V) /\ l <= l
          BY <4>1
        <5>2. Stretch(V, l, l) = <<>>
          BY <5>1, PartEnds, SMTT(30)
        <5> QED
          BY <5>1, <5>2, Zenon
      <4>3. <<>> \o x = x
        BY <1>7, ConcatEmptySeq
      <4> QED
        BY <1>11, <1>12, <3>1, <4>2, <4>3
    <3>6. n <= Len(c.segments)
      BY <1>12, SMTT(30)
    <3>7. Lengthened(c, b.dir, V, x, n)
      BY <1>13, <3>4, <3>5, <3>6 DEF Lengthened
    <3> QED
      BY <3>7
  <2> QED
    BY <2>1, <2>2
<1>15. TailOf(b.dir, V \o x)
  BY <1>7, <1>9, <1>11, <1>13, <1>14, TailGrows
<1>16. Took(a, b, dir, V, take)
  BY <1>7, <1>8, <1>11, <1>13, <1>15 DEF Took
<1>17. take \in 1 .. Len(a.left)
  BY <1>3, <1>5
<1> QED
  BY <1>1, <1>16, <1>17

\* append so far: the first k bytes are stored, the rest is left.
Appended(a, W, dir, bytes, k) ==
    /\ a \in Appending /\ TailOf(a.dir, W \o Stretch(bytes, 0, k))
    /\ a.left = Stretch(bytes, k, Len(bytes))
    /\ Covers(a.ranges, dir, Len(W), Len(W) + k)

LEMMA AppendGoesOn ==
    ASSUME NEW a, NEW W \in Seq(Nat), NEW dir \in Directions, NEW bytes \in Seq(Nat),
           NEW k \in Nat, k < Len(bytes), Appended(a, W, dir, bytes, k), NEW now \in Nat
    PROVE  \E l \in Nat : /\ k < l /\ l <= Len(bytes)
                          /\ Appended(AppendPiece(a, dir, now), W, dir, bytes, l)
<1>1. PICK n \in Nat : n = Len(bytes) /\ k < n
  BY LenProperties
<1>n. k <= n /\ n <= Len(bytes) /\ k <= Len(bytes)
  BY <1>1
<1>2. PICK z \in Nat : z = 0 /\ z <= k
  OBVIOUS
<1>3. PICK y : y = Stretch(bytes, z, k)
  OBVIOUS
<1>4. y \in Seq(Nat) /\ Len(y) = k
  <2>1. Stretch(bytes, z, k) \in Seq(Nat) /\ Len(Stretch(bytes, z, k)) = k - z
    BY <1>2, <1>n, PartIs, ZenonT(40)
  <2> QED
    BY <1>2, <1>3, <2>1
<1>v. PICK V : V = W \o y
  OBVIOUS
<1>5. V \in Seq(Nat) /\ Len(V) = Len(W) + k
  <2>1. y \in Seq(Nat)
    BY <1>4
  <2>2. V \in Seq(Nat) /\ Len(V) = Len(W) + Len(y)
    BY <1>v, <2>1, PartOfMore
  <2> QED
    BY <1>4, <2>2
<1>6. /\ a \in Appending /\ TailOf(a.dir, V) /\ a.left = Stretch(bytes, k, n)
      /\ Covers(a.ranges, dir, Len(W), Len(W) + k)
  BY <1>1, <1>2, <1>3, <1>v DEF Appended
<1>7. PICK left \in Seq(Nat) : left = a.left /\ Len(left) = n - k
  <2>1. Stretch(bytes, k, n) \in Seq(Nat) /\ Len(Stretch(bytes, k, n)) = n - k
    BY <1>n, PartIs
  <2> QED
    BY <1>6, <2>1
<1>8. left # <<>>
  BY <1>1, <1>7, EmptySeq
<1>9. PICK b \in Appending : b = AppendPiece(a, dir, now)
  BY <1>6, AppendPieceTyped
<1>10. PICK take \in 1 .. n - k : Took(a, b, dir, V, take)
  <2>1. a.left # <<>>
    BY <1>7, <1>8
  <2>2. \E take \in 1 .. Len(a.left) : Took(a, b, dir, V, take)
    BY <1>5, <1>6, <1>9, <2>1, AppendPieceLays, Zenon
  <2> QED
    BY <1>7, <2>2
<1>11. PICK l \in Nat : l = k + take /\ k < l
  BY <1>1, <1>2, <1>10
<1>l. l <= n /\ k <= l /\ z <= l /\ l <= Len(bytes)
  BY <1>1, <1>2, <1>10, <1>11
<1>12. Stretch(left, 0, take) = Stretch(bytes, k, l)
  <2>1. PICK t \in Nat : t = take
    BY <1>10
  <2>2. z <= t /\ t <= n - k
    BY <1>2, <1>10, <2>1
  <2>3. Stretch(Stretch(bytes, k, n), z, t) = Stretch(bytes, k + z, k + t)
    BY <1>n, <2>2, PartOfPart
  <2>4. k + z = k /\ k + t = l
    BY <1>2, <1>11, <2>1
  <2> QED
    BY <1>2, <1>6, <1>7, <2>1, <2>3, <2>4
<1>13. b.left = Stretch(bytes, l, n)
  <2>1. PICK t \in Nat : t = take
    BY <1>10
  <2>m. n - k \in Nat
    BY <1>n
  <2>2. PICK m \in Nat : m = n - k
    BY <2>m
  <2>t. t <= m /\ m <= n - k
    BY <1>10, <2>1, <2>2
  <2>3. Stretch(Stretch(bytes, k, n), t, m) = Stretch(bytes, k + t, k + m)
    BY <1>n, <2>t, PartOfPart
  <2>4. k + t = l /\ k + m = n
    BY <1>1, <1>11, <2>1, <2>2
  <2>5. b.left = Stretch(left, take, Len(left))
    BY <1>7, <1>10 DEF Took
  <2>6. left = Stretch(bytes, k, n) /\ take = t /\ Len(left) = m
    BY <1>6, <1>7, <2>1, <2>2
  <2> QED
    BY <2>3, <2>4, <2>5, <2>6
<1>14. TailOf(b.dir, W \o Stretch(bytes, z, l))
  <2>1. TailOf(b.dir, V \o Stretch(bytes, k, l))
    BY <1>7, <1>10, <1>12 DEF Took
  <2>x. PICK x : x = Stretch(bytes, k, l)
    OBVIOUS
  <2>p. Stretch(bytes, k, l) \in Seq(Nat)
    BY <1>n, <1>l, PartIs, Zenon
  <2>2. x \in Seq(Nat)
    BY <2>p, <2>x, Zenon
  <2>y. y \in Seq(Nat)
    BY <1>4
  <2>3. (W \o y) \o x = W \o (y \o x)
    BY <2>2, <2>y, ConcatAssociative, SMTT(30)
  <2>4. Stretch(bytes, z, k) \o Stretch(bytes, k, l) = Stretch(bytes, z, l)
    BY <1>2, <1>l, PartJoins, SMTT(30)
  <2> QED
    BY <1>3, <1>v, <2>1, <2>x, <2>3, <2>4
<1>15. PICK from \in Nat : from = Len(W)
  BY LenProperties
<1>16. Covers(b.ranges, dir, from, from + l)
  <2>1. PICK rs \in Seq(ContentRange) : rs = a.ranges
    BY <1>6 DEF Appending
  <2>2. PICK to \in Nat : to = from + k
    OBVIOUS
  <2>3. PICK end \in Nat : end = from + l
    OBVIOUS
  <2>4. PICK r \in ContentRange : r = [dir |-> dir, start |-> to, end |-> end]
    BY DEF ContentRange
  <2>5. b.ranges = Append(rs, r)
    <3>1. b.ranges = Append(a.ranges, [dir |-> dir, start |-> Len(V), end |-> Len(V) + take])
      BY <1>10 DEF Took
    <3>2. Len(V) = to /\ Len(V) + take = end
      BY <1>5, <1>11, <1>15, <2>2, <2>3
    <3> QED
      BY <2>1, <2>4, <3>1, <3>2
  <2>6. b.ranges = rs \o <<r>>
    BY <2>5, AppendIsConcat
  <2>7. Covers(<<r>>, dir, to, end)
    <3>1. r.dir = dir /\ r.start = to /\ r.end = end /\ to < end
      BY <1>11, <2>2, <2>3, <2>4
    <3>2. PICK new : new = <<r>>
      OBVIOUS
    <3>3. Len(new) = 1 /\ new[1] = r
      BY <3>2
    <3>4. Covers(new, dir, to, end)
      BY <3>1, <3>3 DEF Covers
    <3> QED
      BY <3>2, <3>4
  <2>n. PICK new : new = <<r>>
    OBVIOUS
  <2>8. new \in Seq(ContentRange) /\ new = <<r>>
    BY <2>n
  <2>9. from <= to /\ to <= end /\ Covers(rs, dir, from, to)
    BY <1>6, <1>11, <1>15, <2>1, <2>2, <2>3
  <2>10. Covers(rs \o new, dir, from, end)
    BY <2>7, <2>8, <2>9, CoversMore
  <2> QED
    BY <2>3, <2>6, <2>8, <2>10
<1>17. Appended(b, W, dir, bytes, l)
  BY <1>1, <1>2, <1>9, <1>13, <1>14, <1>15, <1>16 DEF Appended
<1> QED
  BY <1>9, <1>11, <1>17, <1>l

\* append puts all the bytes after what was there.
LEMMA AppendBytesLays ==
    ASSUME NEW c \in ContentDirection, NEW W \in Seq(Nat), TailOf(c, W), NEW dir \in Directions,
           NEW seq \in Int, NEW now \in Nat, NEW bytes \in Seq(Nat)
    PROVE  /\ TailOf(AppendBytes(c, dir, seq, now, bytes).dir, W \o bytes)
           /\ Covers(AppendBytes(c, dir, seq, now, bytes).ranges, dir, Len(W), Len(W) + Len(bytes))
<1>1. PICK n \in Nat : n = Len(bytes) /\ DOMAIN bytes = 1 .. n
  BY LenProperties
<1>2. PICK h : Appends(h, c, dir, seq, now, bytes, n)
  BY <1>1, PiecesInTurn
<1> DEFINE Done(a, i) == \E k \in i .. n : Appended(a, W, dir, bytes, k)
           G == {i \in Nat : i <= n => Done(h[i], i)}
<1>3. 0 \in G
  <2>1. PICK a : a = h[0]
    OBVIOUS
  <2>2. a = [dir |-> c, ranges |-> <<>>, merged |-> 0, seq |-> seq, left |-> bytes]
    BY <1>2, <2>1 DEF Appends
  <2>3. a \in Appending
    <3>1. <<>> \in Seq(ContentRange)
      OBVIOUS
    <3> QED
      BY <2>2, <3>1 DEF Appending
  <2>4. Stretch(bytes, 0, 0) = <<>> /\ Stretch(bytes, 0, Len(bytes)) = bytes
    BY PartEnds
  <2>5. W \o <<>> = W
    BY ConcatEmptySeq
  <2>6. PICK m \in Nat : m = Len(W)
    BY LenProperties
  <2>7. Covers(<<>>, dir, m, m)
    BY CoversNothing
  <2>8. m + 0 = m
    OBVIOUS
  <2>9. TailOf(a.dir, W \o Stretch(bytes, 0, 0))
    BY <2>2, <2>4, <2>5
  <2>10. Covers(a.ranges, dir, Len(W), Len(W) + 0)
    BY <2>2, <2>6, <2>7, <2>8
  <2>11. Appended(a, W, dir, bytes, 0)
    BY <2>2, <2>3, <2>4, <2>9, <2>10 DEF Appended
  <2>12. 0 \in 0 .. n
    OBVIOUS
  <2>13. Done(a, 0)
    BY <2>11, <2>12
  <2> QED
    BY <2>1, <2>13
<1>4. ASSUME NEW i \in Nat, i \in G
      PROVE  i + 1 \in G
  <2> SUFFICES ASSUME i + 1 <= n
               PROVE  Done(h[i + 1], i + 1)
    OBVIOUS
  <2>1. i + 1 \in 1 .. n /\ (i + 1) - 1 = i /\ i <= n
    BY <1>1
  <2>2. PICK a : a = h[i]
    OBVIOUS
  <2>3. PICK b : b = h[i + 1]
    OBVIOUS
  <2>4. b = AppendPiece(a, dir, now)
    BY <1>2, <2>1, <2>2, <2>3 DEF Appends
  <2>5. PICK k \in i .. n : Appended(a, W, dir, bytes, k)
    BY <1>4, <2>1, <2>2
  <2>6. CASE k = n
    <3>1. a.left = <<>>
      <4>1. Stretch(bytes, n, n) = <<>>
        BY PartEnds
      <4> QED
        BY <1>1, <2>5, <2>6, <4>1 DEF Appended
    <3>2. b = a
      BY <2>4, <3>1 DEF AppendPiece
    <3>3. k \in i + 1 .. n
      BY <2>1, <2>6
    <3> QED
      BY <2>3, <2>5, <3>2, <3>3
  <2>7. CASE k # n
    <3>1. k \in Nat /\ k < Len(bytes)
      BY <1>1, <2>5, <2>7
    <3>2. PICK l \in Nat : k < l /\ l <= Len(bytes) /\ Appended(b, W, dir, bytes, l)
      BY <2>4, <2>5, <3>1, AppendGoesOn
    <3>3. l \in i + 1 .. n
      BY <1>1, <2>5, <3>2
    <3> QED
      BY <2>3, <3>2, <3>3
  <2> QED
    BY <2>6, <2>7
<1>5. n \in G
  <2> HIDE DEF G
  <2> QED
    BY <1>3, <1>4, NumberInduction
<1>6. Appended(h[n], W, dir, bytes, n)
  <2>1. PICK k \in n .. n : Appended(h[n], W, dir, bytes, k)
    BY <1>5
  <2>2. k = n
    OBVIOUS
  <2> QED
    BY <2>1, <2>2
<1>7. h[n] = AppendBytes(c, dir, seq, now, bytes)
  BY <1>2 DEF Appends
<1>8. Stretch(bytes, 0, n) = bytes
  BY <1>1, PartEnds
<1> QED
  BY <1>1, <1>6, <1>7, <1>8 DEF Appended

\* The edges grow from segment to segment.
LEMMA EdgesGrow ==
    ASSUME NEW c \in ContentDirection, NEW W \in Seq(Nat), TailOf(c, W),
           NEW i \in 0 .. Len(c.segments), NEW j \in i + 1 .. Len(c.segments)
    PROVE  Edge(c, W, i) < Edge(c, W, j)
<1>1. PICK n \in Nat : n = Len(c.segments)
  BY LenProperties DEF ContentDirection
<1> DEFINE G == {k \in Nat : i + 1 + k <= n => Edge(c, W, i) < Edge(c, W, i + 1 + k)}
<1>2. ASSUME NEW k \in 1 .. n
      PROVE  Edge(c, W, k - 1) < Edge(c, W, k) /\ Edge(c, W, k) \in Nat /\ Edge(c, W, k - 1) \in Nat
  <2>1. k \in 1 .. Len(c.segments) /\ k \in 0 .. Len(c.segments) /\ k - 1 \in 0 .. Len(c.segments)
    BY <1>1
  <2> QED
    BY <2>1, SegmentIs, EdgeIs
<1>3. 0 \in G
  <2> SUFFICES ASSUME i + 1 + 0 <= n
               PROVE  Edge(c, W, i) < Edge(c, W, i + 1 + 0)
    OBVIOUS
  <2>1. PICK k \in 1 .. n : k = i + 1 /\ k - 1 = i /\ i + 1 + 0 = k
    BY <1>1
  <2> QED
    BY <1>2, <2>1
<1>4. ASSUME NEW k \in Nat, k \in G
      PROVE  k + 1 \in G
  <2> SUFFICES ASSUME i + 1 + (k + 1) <= n
               PROVE  Edge(c, W, i) < Edge(c, W, i + 1 + (k + 1))
    OBVIOUS
  <2>1. PICK l \in 1 .. n : l = i + 1 + (k + 1) /\ l - 1 = i + 1 + k
    BY <1>1
  <2>2. Edge(c, W, i) < Edge(c, W, l - 1)
    BY <1>1, <1>4, <2>1
  <2>3. Edge(c, W, l - 1) < Edge(c, W, l) /\ Edge(c, W, l) \in Nat /\ Edge(c, W, l - 1) \in Nat
    BY <1>2
  <2>4. Edge(c, W, i) \in Nat
    BY EdgeIs
  <2>5. Edge(c, W, i) < Edge(c, W, l)
    BY <2>2, <2>3, <2>4
  <2> QED
    BY <2>1, <2>5
<1>5. Nat \subseteq G
  <2> HIDE DEF G
  <2> QED
    BY <1>3, <1>4, NumberInduction
<1>6. PICK k \in Nat : k = j - (i + 1) /\ i + 1 + k = j /\ j <= n
  BY <1>1
<1>7. k \in G
  BY <1>5
<1> QED
  BY <1>6, <1>7

\* Places that come before all others are the first ones.
LEMMA FirstPlaces ==
    ASSUME NEW n \in Nat, NEW S \in SUBSET (1 .. n),
           \A i \in S : \A j \in 1 .. n : j < i => j \in S
    PROVE  Cardinality(S) \in 0 .. n /\ S = 1 .. Cardinality(S)
<1>1. PICK R : R = {i \in Nat : i \in 1 .. n + 1 /\ i \notin S}
  OBVIOUS
<1>2. n + 1 \in R
  BY <1>1
<1>3. PICK m \in R : \A i \in R : m <= i
  BY <1>1, <1>2, LeastElement
<1>4. PICK k \in Nat : k = m - 1 /\ m = k + 1 /\ k <= n
  BY <1>1, <1>3
<1>5. S = 1 .. k
  <2>1. ASSUME NEW i \in S
        PROVE  i \in 1 .. k
    <3>1. i \in 1 .. n /\ m \notin S /\ m \in 1 .. n + 1
      BY <1>1, <1>3
    <3>2. ~ (m < i)
      <4> SUFFICES ASSUME m < i
                   PROVE  FALSE
        OBVIOUS
      <4>1. m \in 1 .. n
        BY <1>4, <3>1
      <4> QED
        BY <3>1, <4>1
    <3>3. m # i
      BY <3>1
    <3> QED
      BY <1>4, <3>1, <3>2, <3>3
  <2>2. ASSUME NEW i \in 1 .. k
        PROVE  i \in S
    <3>1. i \in Nat /\ i \in 1 .. n + 1 /\ ~ (m <= i)
      BY <1>4
    <3>2. i \notin R
      BY <1>3, <3>1
    <3> QED
      BY <1>1, <3>1, <3>2
  <2> QED
    BY <2>1, <2>2
<1>6. Cardinality(1 .. k) = k
  <2>1. Cardinality(1 .. k) = IF 1 > k THEN 0 ELSE k - 1 + 1
    BY FS_Interval
  <2> QED
    BY <2>1
<1> QED
  BY <1>4, <1>5, <1>6

\* trim_oldest on one segment.
Cut(s, X) == Max({0, Min({Len(s.bytes), X - s.start})})
CutDown(s, X) ==
    [s EXCEPT !.start = @ + Cut(s, X), !.bytes = SubSeq(@, Cut(s, X) + 1, Len(@)),
              !.seq = IF @ = None THEN None ELSE (@ + Cut(s, X)) % Modulus]

LEMMA CutDownIs ==
    ASSUME NEW s \in ContentSegment, NEW W \in Seq(Nat), Lays(s, W), NEW X \in Int
    PROVE  LET r == CutDown(s, X)
           IN  /\ r \in ContentSegment
               /\ LogicalEnd(s) <= X <=> r.bytes = <<>>
               /\ X < LogicalEnd(s) =>
                    Lays(r, W) /\ r.start = (IF X <= s.start THEN s.start ELSE X)
                    /\ LogicalEnd(r) = LogicalEnd(s)
<1>1. PICK r : r = CutDown(s, X)
  OBVIOUS
<1>2. s.start \in Nat /\ s.bytes \in Seq(Nat) /\ s.seq \in Int
  BY DEF ContentSegment, Lays
<1>3. PICK l \in Nat : l = Len(s.bytes)
  BY <1>2, LenProperties
<1>4. PICK e \in Nat : e = s.start
  BY <1>2
<1>5. PICK f \in Nat : f = LogicalEnd(s) /\ f = e + l
  BY <1>3, <1>4 DEF LogicalEnd
<1>6. e < f /\ f <= Len(W) /\ s.bytes = Stretch(W, e, f)
  BY <1>4, <1>5 DEF Lays
<1>7. PICK t : t = Cut(s, X)
  OBVIOUS
<1>8. t = IF X <= e THEN 0 ELSE IF f <= X THEN l ELSE X - e
  <2>1. PICK m \in Int : m = X - e
    OBVIOUS
  <2>2. PICK k : k = Min({l, m})
    OBVIOUS
  <2>3. k \in {l, m} /\ k <= l /\ k <= m
    <3>1. l \in Int
      OBVIOUS
    <3> QED
      BY <2>2, <3>1, OfTwo
  <2>4. PICK z \in Int : z = 0
    OBVIOUS
  <2>5. t = Max({z, k})
    BY <1>3, <1>4, <1>7, <2>1, <2>2, <2>4 DEF Cut
  <2>6. k \in Int
    BY <2>3
  <2>7. t \in {z, k} /\ t >= z /\ t >= k
    BY <2>5, <2>6, OfTwo
  <2> QED
    BY <1>5, <2>1, <2>3, <2>4, <2>6, <2>7
<1>9. t \in Nat /\ t <= l
  BY <1>5, <1>8
<1>10. PICK q \in Int : q = IF s.seq = None THEN None ELSE (s.seq + t) % Modulus
  BY <1>2, <1>9, DirectionAssumption DEF None
<1>11. PICK b : b = SubSeq(s.bytes, t + 1, l)
  OBVIOUS
<1>12. PICK start \in Nat : start = e + t
  BY <1>9
<1>13. r = [s EXCEPT !.start = start, !.bytes = b, !.seq = q]
  BY <1>1, <1>3, <1>4, <1>7, <1>10, <1>11, <1>12 DEF CutDown
<1>14. b \in Seq(Nat) /\ Len(b) = l - t /\ b = Stretch(W, start, f)
  <2>1. b = Stretch(s.bytes, t, l)
    BY <1>11 DEF Stretch
  <2>2. l <= f - e
    BY <1>5
  <2>3. t <= l
    BY <1>9
  <2>4. e <= f /\ f <= Len(W)
    BY <1>6
  <2>5. t \in Nat /\ e + t \in Nat
    BY <1>9
  <2>6. Stretch(Stretch(W, e, f), t, l) = Stretch(W, e + t, e + l)
    BY <2>2, <2>3, <2>4, <2>5, PartOfPart
  <2>7. b = Stretch(W, start, f)
    BY <1>5, <1>6, <1>12, <2>1, <2>6
  <2>8. start <= f
    BY <1>5, <1>9, <1>12
  <2>l. f <= Len(W)
    BY <1>6
  <2>9. Stretch(W, start, f) \in Seq(Nat) /\ Len(Stretch(W, start, f)) = f - start
    BY <2>8, <2>l, PartIs, Zenon
  <2>10. f - start = l - t
    BY <1>5, <1>9, <1>12
  <2>11. Len(b) = f - start /\ b \in Seq(Nat)
    BY <2>7, <2>9, Zenon
  <2> QED
    BY <2>7, <2>10, <2>11, Zenon
<1>15. r \in ContentSegment /\ r.start = start /\ r.bytes = b
  <2>1. r.start = start /\ r.bytes = b
    BY <1>13 DEF ContentSegment
  <2>2. s = [start |-> s.start, seq |-> s.seq, at |-> s.at, bytes |-> s.bytes] /\ s.at \in Nat
    BY DEF ContentSegment
  <2>3. r = [start |-> start, seq |-> q, at |-> s.at, bytes |-> b]
    BY <1>13, <2>2
  <2>4. b \in Seq(Nat)
    BY <1>14
  <2>5. start \in Int
    OBVIOUS
  <2>6. r \in ContentSegment
    BY <2>2, <2>3, <2>4, <2>5 DEF ContentSegment
  <2> QED
    BY <2>1, <2>6
<1>16. LogicalEnd(r) = f
  <2>1. LogicalEnd(r) = start + Len(b)
    BY <1>15 DEF LogicalEnd
  <2> QED
    BY <1>5, <1>9, <1>12, <1>14, <2>1, SMTT(30)
<1>17. f <= X <=> r.bytes = <<>>
  <2>1. b = <<>> <=> Len(b) = 0
    BY <1>14, EmptySeq
  <2>2. Len(b) = 0 <=> f <= X
    BY <1>5, <1>6, <1>8, <1>9, <1>14
  <2> QED
    BY <1>15, <2>1, <2>2
<1>18. ASSUME X < f
       PROVE  Lays(r, W) /\ r.start = IF X <= s.start THEN s.start ELSE X
  <2>1. start = IF X <= e THEN e ELSE X
    BY <1>5, <1>6, <1>8, <1>12, <1>18
  <2>2. start < f
    BY <1>5, <1>6, <1>18, <2>1
  <2>3. Lays(r, W)
    BY <1>6, <1>14, <1>15, <1>16, <2>2 DEF Lays
  <2> QED
    BY <1>4, <1>15, <2>1, <2>3
<1> QED
  BY <1>1, <1>5, <1>15, <1>16, <1>17, <1>18

\* trim_oldest leaves the end of what was kept.
LEMMA TrimOldestLays ==
    ASSUME NEW c \in ContentDirection, NEW W \in Seq(Nat), TailOf(c, W), NEW excess \in Nat
    PROVE  /\ TailOf(TrimOldest(c, excess), W)
           /\ TrimOldest(c, excess).stored =
                IF excess <= c.stored THEN c.stored - excess ELSE 0
<1> DEFINE gone == Min({excess, c.stored})
           X == c.segments[1].start + gone
           cut(s) == Max({0, Min({Len(s.bytes), c.segments[1].start + gone - s.start})})
           rest == [i \in DOMAIN c.segments |->
                    LET s == c.segments[i]
                    IN  [s EXCEPT !.start = @ + cut(s), !.bytes = SubSeq(@, cut(s) + 1, Len(@)),
                                  !.seq = IF @ = None THEN None ELSE (@ + cut(s)) % Modulus]]
           whole == {i \in DOMAIN rest : rest[i].bytes = <<>>}
<1>1. PICK t \in ContentDirection : t = TrimOldest(c, excess)
  BY TrimOldestTyped
<1>2. t = [c EXCEPT !.segments = SubSeq(rest, Cardinality(whole) + 1, Len(rest)), !.stored = @ - gone]
  BY <1>1, Zenon DEF TrimOldest
<1>3. \A i \in DOMAIN c.segments : rest[i] = CutDown(c.segments[i], X)
  <2> SUFFICES ASSUME NEW i \in DOMAIN c.segments
               PROVE  rest[i] = CutDown(c.segments[i], X)
    OBVIOUS
  <2>1. PICK s : s = c.segments[i]
    OBVIOUS
  <2>2. cut(s) = Cut(s, X)
    <3>1. PICK b : b = s.start
      OBVIOUS
    <3>2. PICK f : f = c.segments[1].start
      OBVIOUS
    <3>3. b \in Int /\ f \in Int
      <4>1. c.segments \in Seq(ContentSegment)
        BY DEF ContentDirection
      <4>2. i \in 1 .. Len(c.segments) /\ 1 \in 1 .. Len(c.segments)
        BY <4>1, LenProperties
      <4>3. c.segments[i] \in ContentSegment /\ c.segments[1] \in ContentSegment
        BY <4>1, <4>2, ElementOfSeq
      <4> QED
        BY <2>1, <3>1, <3>2, <4>3 DEF ContentSegment
    <3>4. PICK g \in Int : g = gone
      <4>1. c.stored \in Int /\ excess \in Int
        BY DEF ContentDirection
      <4> QED
        BY <4>1, OfTwo
    <3>5. f + g - b = (f + g) - b
      BY <3>3
    <3> QED
      BY <3>1, <3>2, <3>4, <3>5, Zenon DEF Cut
  <2>3. rest[i] = [s EXCEPT !.start = @ + cut(s), !.bytes = SubSeq(@, cut(s) + 1, Len(@)),
                            !.seq = IF @ = None THEN None ELSE (@ + cut(s)) % Modulus]
    BY <2>1
  <2> HIDE DEF cut, X, gone
  <2> QED
    BY <2>1, <2>2, <2>3, ZenonT(30) DEF CutDown
<1>4. DOMAIN rest = DOMAIN c.segments
  OBVIOUS
<1> HIDE DEF rest, cut
<1>5. c.segments \in Seq(ContentSegment)
  BY DEF ContentDirection
<1>6. PICK n \in Nat : n = Len(c.segments) /\ DOMAIN c.segments = 1 .. n
  BY <1>5, LenProperties
<1>7. PICK m \in Nat : m = c.stored
  BY DEF ContentDirection
<1>8. PICK l \in Nat : l = Len(W)
  BY LenProperties
<1>9. gone = (IF excess <= m THEN excess ELSE m) /\ gone \in Nat /\ gone <= m
  <2>1. excess \in Int /\ m \in Int
    OBVIOUS
  <2>2. Min({excess, m}) \in {excess, m} /\ Min({excess, m}) <= m /\ Min({excess, m}) <= excess
    BY <2>1, OfTwo
  <2>3. gone = Min({excess, m})
    BY <1>7
  <2> HIDE DEF gone
  <2> QED
    BY <2>2, <2>3
<1> HIDE DEF gone
<1>10. PICK E : E = [i \in 0 .. n |-> Edge(c, W, i)]
  OBVIOUS
<1>11. \A i \in 0 .. n : E[i] \in Nat /\ E[i] <= l
  BY <1>6, <1>8, <1>10, EdgeIs
<1>12. E[0] = l - m /\ m <= l /\ E[n] = l
  <2>1. m <= l /\ Edge(c, W, n) = l
    BY <1>6, <1>7, <1>8 DEF TailOf
  <2>2. Edge(c, W, 0) = l - m
    BY <1>7, <1>8 DEF Edge
  <2> QED
    BY <1>10, <2>1, <2>2
<1>13. \A i \in 0 .. n : \A j \in i + 1 .. n : E[i] < E[j]
  <2> SUFFICES ASSUME NEW i \in 0 .. n, NEW j \in i + 1 .. n
               PROVE  E[i] < E[j]
    OBVIOUS
  <2>1. Edge(c, W, i) < Edge(c, W, j)
    BY <1>6, EdgesGrow
  <2> QED
    BY <1>10, <2>1
<1>14. PICK x \in Nat : x = E[0] + gone /\ x <= l
  <2>1. PICK z \in Nat : z = E[0]
    BY <1>11
  <2>2. PICK g \in Nat : g = gone
    BY <1>9
  <2> QED
    BY <1>9, <1>12, <2>1, <2>2
<1>15. n # 0 => X = x
  <2> SUFFICES ASSUME n # 0
               PROVE  X = x
    OBVIOUS
  <2>1. PICK i \in 1 .. Len(c.segments) : i = 1 /\ i - 1 = 0
    BY <1>6
  <2>2. c.segments[i].start = Edge(c, W, i - 1)
    BY SegmentIs
  <2> QED
    BY <1>10, <1>14, <2>1, <2>2
<1> HIDE DEF X
<1>16. PICK r : r = rest
  OBVIOUS
<1>17. r \in Seq(ContentSegment) /\ Len(r) = n /\ DOMAIN r = 1 .. n
  <2>1. \A i \in 1 .. n : r[i] \in ContentSegment
    <3> SUFFICES ASSUME NEW i \in 1 .. n
                 PROVE  r[i] \in ContentSegment
      OBVIOUS
    <3>1. c.segments[i] \in ContentSegment
      BY <1>5, <1>6, ElementOfSeq
    <3>2. Lays(c.segments[i], W)
      BY <1>6 DEF TailOf
    <3>3. X \in Int
      BY <1>15
    <3>4. CutDown(c.segments[i], X) \in ContentSegment
      BY <3>1, <3>2, <3>3, CutDownIs
    <3> QED
      BY <1>3, <1>6, <1>16, <3>4
  <2>2. DOMAIN r = 1 .. n
    BY <1>4, <1>6, <1>16
  <2>3. r = [i \in 1 .. n |-> r[i]]
    <3>1. rest = [i \in DOMAIN rest |-> rest[i]]
      BY DEF rest
    <3> QED
      BY <1>16, <2>2, <3>1, SMTT(30)
  <2>4. r \in [1 .. n -> ContentSegment]
    BY <2>1, <2>3
  <2>5. r \in Seq(ContentSegment)
    BY <2>4, SeqDef
  <2> QED
    BY <2>2, <2>5, LenProperties
<1>18. ASSUME NEW i \in 1 .. n
       PROVE  /\ E[i] <= x <=> r[i].bytes = <<>>
              /\ x < E[i] => /\ Lays(r[i], W) /\ LogicalEnd(r[i]) = E[i]
                             /\ r[i].start = IF x <= E[i - 1] THEN E[i - 1] ELSE x
  <2>1. PICK s \in ContentSegment : s = c.segments[i]
    BY <1>5, <1>6, ElementOfSeq
  <2>2. Lays(s, W)
    BY <1>6, <2>1 DEF TailOf
  <2>3. s.start = E[i - 1] /\ LogicalEnd(s) = E[i]
    <3>1. i \in 1 .. Len(c.segments) /\ i - 1 \in 0 .. n /\ i \in 0 .. n
      BY <1>6
    <3> QED
      BY <1>10, <2>1, <3>1, SegmentIs
  <2>4. PICK q : q = CutDown(s, x)
    OBVIOUS
  <2>5. r[i] = q
    BY <1>3, <1>6, <1>15, <1>16, <2>1, <2>4
  <2>6. /\ LogicalEnd(s) <= x <=> q.bytes = <<>>
        /\ x < LogicalEnd(s) =>
             Lays(q, W) /\ q.start = (IF x <= s.start THEN s.start ELSE x)
             /\ LogicalEnd(q) = LogicalEnd(s)
    <3>1. x \in Int
      OBVIOUS
    <3> QED
      BY <2>2, <2>4, <3>1, CutDownIs
  <2> QED
    BY <2>3, <2>5, <2>6
<1>19. PICK k \in 0 .. n : Cardinality(whole) = k /\ whole = 1 .. k
  <2>1. PICK S : S = whole
    OBVIOUS
  <2>2. S \in SUBSET (1 .. n) /\ \A i \in 1 .. n : i \in S <=> E[i] <= x
    BY <1>16, <1>17, <1>18, <2>1
  <2>3. \A i \in S : \A j \in 1 .. n : j < i => j \in S
    <3> SUFFICES ASSUME NEW i \in S, NEW j \in 1 .. n, j < i
                 PROVE  j \in S
      OBVIOUS
    <3>1. i \in 1 .. n /\ E[i] <= x /\ i \in j + 1 .. n /\ j \in 0 .. n /\ i \in 0 .. n
      BY <2>2
    <3>2. E[j] < E[i] /\ E[i] \in Nat /\ E[j] \in Nat
      BY <1>11, <1>13, <3>1
    <3> QED
      BY <2>2, <3>1, <3>2
  <2>4. Cardinality(S) \in 0 .. n /\ S = 1 .. Cardinality(S)
    BY <2>2, <2>3, FirstPlaces
  <2> QED
    BY <2>1, <2>4
<1>20. E[k] <= x /\ \A i \in k + 1 .. n : x < E[i]
  <2>1. E[k] <= x
    <3>1. CASE k = 0
      <4>1. E[0] \in Nat
        BY <1>11
      <4> QED
        BY <1>9, <1>14, <3>1, <4>1
    <3>2. CASE k # 0
      <4>1. k \in 1 .. n /\ k \in whole
        BY <1>19, <3>2
      <4> QED
        BY <1>16, <1>18, <4>1
    <3> QED
      BY <3>1, <3>2
  <2>2. ASSUME NEW i \in k + 1 .. n
        PROVE  x < E[i]
    <3>1. i \in 1 .. n /\ i \notin whole /\ i \in 0 .. n
      BY <1>19
    <3>2. ~ (E[i] <= x) /\ E[i] \in Nat
      BY <1>11, <1>16, <1>17, <1>18, <3>1
    <3> QED
      BY <3>2
  <2> QED
    BY <2>1, <2>2
<1> HIDE DEF whole
<1>21. PICK segments \in Seq(ContentSegment) :
         /\ segments = t.segments /\ Len(segments) = n - k
         /\ \A j \in 1 .. n - k : segments[j] = r[k + j]
  <2>2. k <= n /\ n <= Len(r) /\ k \in Nat
    BY <1>17
  <2>3. r \in Seq(ContentSegment)
    BY <1>17
  <2>v. /\ Stretch(r, k, n) \in Seq(ContentSegment) /\ Len(Stretch(r, k, n)) = n - k
        /\ \A j \in 1 .. n - k : Stretch(r, k, n)[j] = r[k + j]
    BY <2>2, <2>3, PartIs, ZenonT(30)
  <2>1. PICK v : v = Stretch(r, k, n)
    OBVIOUS
  <2>4. v \in Seq(ContentSegment) /\ Len(v) = n - k /\ \A j \in 1 .. n - k : v[j] = r[k + j]
    BY <2>1, <2>v, Zenon
  <2>5. t.segments = v
    <3>1. t.segments = SubSeq(rest, Cardinality(whole) + 1, Len(rest))
      BY <1>2 DEF ContentDirection
    <3> QED
      BY <1>16, <1>17, <1>19, <2>1, <3>1 DEF Stretch
  <2> QED
    BY <2>4, <2>5
<1>22. t.stored = m - gone /\ t.next = c.next
  BY <1>2, <1>7 DEF ContentDirection
<1>23. Edge(t, W, 0) = x /\ \A j \in 1 .. n - k : Edge(t, W, j) = E[k + j]
  <2>1. Edge(t, W, 0) = l - (m - gone)
    BY <1>8, <1>22 DEF Edge
  <2>2. ASSUME NEW j \in 1 .. n - k
        PROVE  Edge(t, W, j) = E[k + j]
    <3>1. PICK i : i = k + j
      OBVIOUS
    <3>2. i \in 1 .. n /\ i \in k + 1 .. n /\ j # 0
      BY <3>1
    <3>3. Edge(t, W, j) = LogicalEnd(r[i])
      BY <1>21, <3>1, <3>2 DEF Edge
    <3>4. LogicalEnd(r[i]) = E[i]
      BY <1>18, <1>20, <3>2
    <3> QED
      BY <3>1, <3>3, <3>4
  <2> QED
    BY <1>9, <1>12, <1>14, <2>1, <2>2
<1>24. ASSUME NEW j \in 1 .. n - k
       PROVE  Lays(t.segments[j], W) /\ t.segments[j].start = Edge(t, W, j - 1)
  <2>1. PICK i : i = k + j
    OBVIOUS
  <2>2. i \in 1 .. n /\ i \in k + 1 .. n /\ i - 1 \in 0 .. n
    BY <2>1
  <2>3. t.segments[j] = r[i]
    BY <1>21, <2>1
  <2>4. Lays(r[i], W) /\ r[i].start = IF x <= E[i - 1] THEN E[i - 1] ELSE x
    BY <1>18, <1>20, <2>2
  <2>5. E[i - 1] \in Nat
    BY <1>11, <2>2
  <2>6. Edge(t, W, j - 1) = IF x <= E[i - 1] THEN E[i - 1] ELSE x
    <3>1. CASE j = 1
      <4>1. i - 1 = k /\ j - 1 = 0
        BY <2>1, <3>1
      <4> QED
        BY <1>20, <1>23, <2>5, <4>1
    <3>2. CASE j # 1
      <4>1. j - 1 \in 1 .. n - k /\ k + (j - 1) = i - 1 /\ i - 1 \in k + 1 .. n
        BY <2>1, <3>2
      <4>2. Edge(t, W, j - 1) = E[i - 1]
        BY <1>23, <4>1
      <4>3. x < E[i - 1]
        BY <1>20, <4>1
      <4> QED
        BY <2>5, <4>2, <4>3
    <3> QED
      BY <3>1, <3>2
  <2> QED
    BY <2>3, <2>4, <2>6
<1>25. Edge(t, W, n - k) = l
  <2>1. CASE k = n
    <3>1. n - k = 0 /\ E[n] <= x
      BY <1>20, <2>1
    <3> QED
      BY <1>12, <1>14, <1>23, <3>1
  <2>2. CASE k # n
    <3>1. n - k \in 1 .. n - k /\ k + (n - k) = n
      BY <2>2
    <3> QED
      BY <1>12, <1>23, <3>1
  <2> QED
    BY <2>1, <2>2
<1>26. t.next = l /\ t.stored <= l /\ Len(t.segments) = n - k
  <2>1. c.next = l
    BY <1>8 DEF TailOf
  <2> QED
    BY <1>9, <1>12, <1>21, <1>22, <2>1
<1>27. TailOf(t, W)
  BY <1>8, <1>24, <1>25, <1>26 DEF TailOf
<1>28. t.stored = IF excess <= m THEN m - excess ELSE 0
  BY <1>9, <1>22
<1> QED
  BY <1>1, <1>7, <1>27, <1>28


\* A record that was given T has the end of each direction of it.
RecordTail(r, T) == \A d \in Directions : T[d] \in Seq(Nat) /\ TailOf(r.dirs[d], T[d])

\* What a record holds is what its two directions do.
LEMMA RecordBytesSum ==
    ASSUME NEW r \in ContentRecord
    PROVE  RecordBytes(r) = r.dirs["AToB"].stored + r.dirs["BToA"].stored
<1>1. "AToB" \in Directions /\ "BToA" \in Directions /\ \A d \in Directions : d = "AToB" \/ d = "BToA"
  BY TwoDirections
<1>2. PICK none \in ContentRecord : none = NewContent(0) /\ RecordBytes(none) = 0
  BY NewContentTyped
<1>3. PICK empty \in ContentDirection : empty = none.dirs["AToB"] /\ empty = none.dirs["BToA"] /\ empty.stored = 0
  BY <1>1, <1>2 DEF NewContent, ContentRecord
<1>4. PICK s \in ContentRecord : s = [r EXCEPT !.dirs["AToB"] = empty]
  BY DEF ContentRecord
<1>5. s.dirs["AToB"] = empty /\ s.dirs["BToA"] = r.dirs["BToA"]
  BY <1>1, <1>4 DEF ContentRecord
<1>6. RecordBytes(s) + r.dirs["AToB"].stored = RecordBytes(r) + empty.stored
  <2>1. \A d \in Directions \ {"AToB"} : s.dirs[d] = r.dirs[d]
    BY <1>1, <1>5
  <2> QED
    BY <1>1, <1>5, <2>1, RecordBytesMove
<1>7. RecordBytes(s) + empty.stored = RecordBytes(none) + s.dirs["BToA"].stored
  <2>1. \A d \in Directions \ {"BToA"} : s.dirs[d] = none.dirs[d]
    BY <1>1, <1>3, <1>5
  <2> QED
    BY <1>1, <1>3, <2>1, RecordBytesMove
<1>8. PICK a \in Nat : a = r.dirs["AToB"].stored
  BY <1>1 DEF ContentRecord, ContentDirection
<1>9. PICK b \in Nat : b = r.dirs["BToA"].stored
  BY <1>1 DEF ContentRecord, ContentDirection
<1>10. PICK x \in Nat : x = RecordBytes(r)
  BY RecordBytesIs
<1>11. PICK y \in Nat : y = RecordBytes(s)
  BY RecordBytesIs
<1> QED
  BY <1>2, <1>3, <1>5, <1>6, <1>7, <1>8, <1>9, <1>10, <1>11

\* A direction holds bytes if and only if it has segments.
LEMMA HoldsSomething ==
    ASSUME NEW c \in ContentDirection, NEW W \in Seq(Nat), TailOf(c, W)
    PROVE  c.stored = 0 <=> c.segments = <<>>
<1>1. PICK n \in Nat : n = Len(c.segments)
  BY LenProperties DEF ContentDirection
<1>2. c.segments = <<>> <=> n = 0
  BY <1>1, EmptySeq DEF ContentDirection
<1>3. PICK l \in Nat : l = Len(W)
  BY LenProperties
<1>4. PICK m \in Nat : m = c.stored
  BY DEF ContentDirection
<1>5. Edge(c, W, 0) = l - m
  BY <1>3, <1>4 DEF Edge
<1>6. Edge(c, W, n) = l
  BY <1>1, <1>3 DEF TailOf
<1>7. CASE n = 0
  BY <1>2, <1>4, <1>5, <1>6, <1>7
<1>8. CASE n # 0
  <2>1. PICK i : i = 0
    OBVIOUS
  <2>2. i \in 0 .. Len(c.segments) /\ n \in i + 1 .. Len(c.segments)
    BY <1>1, <1>8, <2>1
  <2>3. Edge(c, W, i) < Edge(c, W, n)
    BY <2>2, EdgesGrow
  <2> QED
    BY <1>2, <1>4, <1>5, <1>6, <1>8, <2>1, <2>3
<1> QED
  BY <1>7, <1>8

\* The direction to trim is one that has segments.
LEMMA OldestIs ==
    ASSUME NEW r \in ContentRecord, \E d \in Directions : r.dirs[d].segments # <<>>
    PROVE  OldestDirection(r) \in Directions /\ r.dirs[OldestDirection(r)].segments # <<>>
<1> DEFINE holding == {d \in Directions : r.dirs[d].segments # <<>>}
<1>1. \E d \in holding : \A e \in holding \ {d} : Older(r, d, e)
  <2>1. PICK d \in holding : TRUE
    OBVIOUS
  <2>2. CASE holding = {d}
    BY <2>2
  <2>3. CASE holding # {d}
    <3>1. "AToB" \in holding /\ "BToA" \in holding /\ \A e \in holding : e = "AToB" \/ e = "BToA"
      BY <2>3, TwoDirections
    <3>2. PICK s \in ContentSegment : s = r.dirs["AToB"].segments[1]
      <4>1. PICK q \in Seq(ContentSegment) : q = r.dirs["AToB"].segments /\ q # <<>>
        BY <3>1 DEF ContentRecord, ContentDirection
      <4>2. 1 \in 1 .. Len(q)
        BY <4>1, EmptySeq, LenProperties
      <4> QED
        BY <4>1, <4>2, ElementOfSeq
    <3>3. PICK t \in ContentSegment : t = r.dirs["BToA"].segments[1]
      <4>1. PICK q \in Seq(ContentSegment) : q = r.dirs["BToA"].segments /\ q # <<>>
        BY <3>1 DEF ContentRecord, ContentDirection
      <4>2. 1 \in 1 .. Len(q)
        BY <4>1, EmptySeq, LenProperties
      <4> QED
        BY <4>1, <4>2, ElementOfSeq
    <3>4. s.at \in Int /\ t.at \in Int /\ s.start \in Int /\ t.start \in Int
      BY DEF ContentSegment
    <3>5. \/ Older(r, "AToB", "BToA")
          \/ Older(r, "BToA", "AToB")
      BY <3>2, <3>3, <3>4 DEF Older
    <3> QED
      BY <3>1, <3>5
  <2> QED
    BY <2>2, <2>3
<1>2. OldestDirection(r) = CHOOSE d \in holding : \A e \in holding \ {d} : Older(r, d, e)
  BY DEF OldestDirection
<1> HIDE DEF holding
<1>3. OldestDirection(r) \in holding
  BY <1>1, <1>2
<1> QED
  BY <1>3 DEF holding

\* One round of trimming, of a record that is over its limit.
Shortened(r, q, d, excess) ==
    /\ q \in ContentRecord /\ d \in Directions /\ r.dirs[d].segments # <<>>
    /\ \A e \in Directions \ {d} : q.dirs[e] = r.dirs[e]
    /\ q.dirs[d].stored = IF excess <= r.dirs[d].stored THEN r.dirs[d].stored - excess ELSE 0
LEMMA TrimOnceLays ==
    ASSUME NEW r \in ContentRecord, NEW T, RecordTail(r, T), NEW excess \in Nat \ {0},
           excess = RecordBytes(r) - MaxStreamBytes
    PROVE  RecordTail(TrimOnce(r), T) /\ \E d : Shortened(r, TrimOnce(r), d, excess)
<1>1. \E d \in Directions : r.dirs[d].segments # <<>>
  <2> SUFFICES ASSUME \A d \in Directions : r.dirs[d].segments = <<>>
               PROVE  FALSE
    OBVIOUS
  <2>1. \A d \in Directions : r.dirs[d].stored = 0
    <3> SUFFICES ASSUME NEW d \in Directions
                 PROVE  r.dirs[d].stored = 0
      OBVIOUS
    <3>1. r.dirs[d] \in ContentDirection /\ T[d] \in Seq(Nat) /\ TailOf(r.dirs[d], T[d])
      BY DEF ContentRecord, RecordTail
    <3> QED
      BY <3>1, HoldsSomething
  <2>2. RecordBytes(r) = 0
    BY <2>1, RecordBytesSum, TwoDirections
  <2> QED
    BY <2>2, ContentAssumption
<1>2. PICK d \in Directions : d = OldestDirection(r) /\ r.dirs[d].segments # <<>>
  BY <1>1, OldestIs
<1>3. PICK c \in ContentDirection : c = r.dirs[d]
  BY DEF ContentRecord
<1>4. PICK t \in ContentDirection : t = TrimOldest(c, excess)
  BY TrimOldestTyped
<1>5. TailOf(t, T[d]) /\ t.stored = IF excess <= c.stored THEN c.stored - excess ELSE 0
  <2>1. T[d] \in Seq(Nat) /\ TailOf(c, T[d])
    BY <1>3 DEF RecordTail
  <2>2. excess \in Nat
    OBVIOUS
  <2> QED
    BY <1>4, <2>1, <2>2, TrimOldestLays
<1>6. PICK q : q = TrimOnce(r)
  OBVIOUS
<1>7. q = [r EXCEPT !.dirs[d] = t, !.truncated = TRUE]
  <2>1. ~ (RecordBytes(r) - MaxStreamBytes <= 0)
    OBVIOUS
  <2>2. TrimOnce(r) = [r EXCEPT !.dirs[OldestDirection(r)]
                                    = TrimOldest(@, RecordBytes(r) - MaxStreamBytes), !.truncated = TRUE]
    BY <2>1 DEF TrimOnce
  <2> QED
    BY <1>2, <1>3, <1>4, <1>6, <2>2
<1>8. r.dirs \in [Directions -> ContentDirection] /\ r.last_seen \in Nat
  BY DEF ContentRecord
<1>9. PICK dirs \in [Directions -> ContentDirection] : dirs = [r.dirs EXCEPT ![d] = t]
  BY <1>8
<1>10. q = [last_seen |-> r.last_seen, truncated |-> TRUE, dirs |-> dirs]
  BY <1>7, <1>9 DEF ContentRecord
<1>11. q \in ContentRecord /\ q.dirs = dirs
  BY <1>8, <1>10 DEF ContentRecord
<1>12. q.dirs[d] = t /\ \A e \in Directions \ {d} : q.dirs[e] = r.dirs[e]
  BY <1>8, <1>9, <1>11
<1>13. RecordTail(q, T)
  BY <1>5, <1>12 DEF RecordTail
<1>14. Shortened(r, q, d, excess)
  BY <1>2, <1>3, <1>5, <1>11, <1>12 DEF Shortened
<1> QED
  BY <1>6, <1>13, <1>14

\* Two rounds bring a record within its limit.
LEMMA TrimLays ==
    ASSUME NEW r \in ContentRecord, NEW T, RecordTail(r, T)
    PROVE  RecordTail(TrimToLimit(r), T) /\ RecordBytes(TrimToLimit(r)) <= MaxStreamBytes
<1>1. PICK m \in Nat : m = MaxStreamBytes
  BY ContentAssumption
<1>2. ASSUME NEW s \in ContentRecord, RecordBytes(s) <= m
      PROVE  TrimOnce(s) = s
  <2>1. PICK x \in Nat : x = RecordBytes(s)
    BY RecordBytesIs
  <2>2. RecordBytes(s) - MaxStreamBytes <= 0
    BY <1>1, <1>2, <2>1
  <2> QED
    BY <2>2 DEF TrimOnce
<1>3. ASSUME NEW s \in ContentRecord
      PROVE  /\ RecordBytes(s) \in Nat
             /\ \A d, e \in Directions : d # e => RecordBytes(s) = s.dirs[d].stored + s.dirs[e].stored
             /\ \A d \in Directions : s.dirs[d].stored \in Nat
  <2>1. \A d \in Directions : s.dirs[d].stored \in Nat
    BY DEF ContentRecord, ContentDirection
  <2>2. \A d, e \in Directions : d # e => (d = "AToB" /\ e = "BToA") \/ (d = "BToA" /\ e = "AToB")
    BY TwoDirections
  <2>3. RecordBytes(s) = s.dirs["AToB"].stored + s.dirs["BToA"].stored
    BY RecordBytesSum
  <2>4. \A d, e \in Directions : d # e => RecordBytes(s) = s.dirs[d].stored + s.dirs[e].stored
    BY <2>1, <2>2, <2>3
  <2> QED
    BY <2>1, <2>4, RecordBytesIs
<1>4. CASE RecordBytes(r) <= m
  <2>1. TrimToLimit(r) = r
    BY <1>2, <1>4 DEF TrimToLimit
  <2> QED
    BY <1>1, <1>4, <2>1
<1>5. CASE ~ (RecordBytes(r) <= m)
  <2>1. PICK x \in Nat \ {0} : x = RecordBytes(r) - MaxStreamBytes
    BY <1>1, <1>3, <1>5
  <2>2. PICK q : q = TrimOnce(r)
    OBVIOUS
  <2>3. RecordTail(q, T) /\ \E d : Shortened(r, q, d, x)
    BY <2>1, <2>2, TrimOnceLays
  <2>4. PICK d : Shortened(r, q, d, x)
    BY <2>3
  <2>5. q \in ContentRecord /\ d \in Directions
    BY <2>4 DEF Shortened
  <2>6. PICK e \in Directions : d # e /\ q.dirs[e] = r.dirs[e]
    BY <2>4, <2>5, TwoDirections DEF Shortened
  <2>7. q.dirs[d].stored = IF x <= r.dirs[d].stored THEN r.dirs[d].stored - x ELSE 0
    BY <2>4 DEF Shortened
  <2>8. PICK a \in Nat : a = r.dirs[d].stored
    BY <1>3, <2>5
  <2>9. PICK b \in Nat : b = r.dirs[e].stored
    BY <1>3
  <2>10. a + b = m + x
    <3>1. RecordBytes(r) = a + b
      BY <1>3, <2>5, <2>6, <2>8, <2>9
    <3>2. RecordBytes(r) = m + x
      BY <1>1, <1>3, <2>1
    <3> QED
      BY <3>1, <3>2
  <2>11. RecordBytes(q) = (IF x <= a THEN a - x ELSE 0) + b
    <3>1. RecordBytes(q) = q.dirs[d].stored + q.dirs[e].stored
      BY <1>3, <2>5, <2>6
    <3> QED
      BY <2>6, <2>7, <2>8, <2>9, <3>1
  <2>12. TrimToLimit(r) = TrimOnce(q)
    BY <2>2 DEF TrimToLimit
  <2>13. CASE RecordBytes(q) <= m
    BY <1>1, <1>2, <2>3, <2>5, <2>12, <2>13
  <2>14. CASE ~ (RecordBytes(q) <= m)
    <3>1. q.dirs[d].stored = 0 /\ RecordBytes(q) = b /\ b > m
      BY <2>7, <2>8, <2>10, <2>11, <2>14
    <3>2. PICK y \in Nat \ {0} : y = RecordBytes(q) - MaxStreamBytes
      BY <1>1, <3>1
    <3>3. PICK z : z = TrimOnce(q)
      OBVIOUS
    <3>4. RecordTail(z, T) /\ \E g : Shortened(q, z, g, y)
      BY <2>3, <2>5, <3>2, <3>3, TrimOnceLays
    <3>5. PICK g : Shortened(q, z, g, y)
      BY <3>4
    <3>6. q.dirs[d].segments = <<>>
      <4>1. q.dirs[d] \in ContentDirection /\ T[d] \in Seq(Nat) /\ TailOf(q.dirs[d], T[d])
        BY <2>3, <2>5 DEF ContentRecord, RecordTail
      <4> QED
        BY <3>1, <4>1, HoldsSomething
    <3>7. g = e
      BY <2>5, <2>6, <3>5, <3>6, TwoDirections DEF Shortened
    <3>8. z \in ContentRecord /\ z.dirs[d].stored = 0
          /\ z.dirs[e].stored = IF y <= b THEN b - y ELSE 0
      BY <2>5, <2>6, <2>9, <3>1, <3>5, <3>7 DEF Shortened
    <3>9. RecordBytes(z) = z.dirs[d].stored + z.dirs[e].stored
      BY <1>3, <2>5, <2>6, <3>8
    <3>10. RecordBytes(z) = m
      BY <1>1, <3>1, <3>2, <3>8, <3>9
    <3> QED
      BY <1>1, <2>12, <3>3, <3>4, <3>10
  <2> QED
    BY <2>13, <2>14
<1> QED
  BY <1>4, <1>5

\* Nothing that was gone of record r is back in q: it keeps no more than r and what is new.
OnlyNew(r, q) ==
    \A d \in Directions : r.dirs[d].next - r.dirs[d].stored <= q.dirs[d].next - q.dirs[d].stored

LEMMA GoneIs ==
    ASSUME NEW r \in ContentRecord, NEW d \in Directions
    PROVE  r.dirs[d].next \in Nat /\ r.dirs[d].stored \in Nat
<1>1. r.dirs[d] \in ContentDirection
  BY DEF ContentRecord
<1> QED
  BY <1>1 DEF ContentDirection

LEMMA OnlyNewTwice ==
    ASSUME NEW r \in ContentRecord, NEW q \in ContentRecord, NEW s \in ContentRecord,
           OnlyNew(r, q), OnlyNew(q, s)
    PROVE  OnlyNew(r, s)
<1> SUFFICES ASSUME NEW d \in Directions
             PROVE  r.dirs[d].next - r.dirs[d].stored <= s.dirs[d].next - s.dirs[d].stored
  BY DEF OnlyNew
<1>1. PICK x \in Int : x = r.dirs[d].next - r.dirs[d].stored
  BY GoneIs
<1>2. PICK y \in Int : y = q.dirs[d].next - q.dirs[d].stored
  BY GoneIs
<1>3. PICK z \in Int : z = s.dirs[d].next - s.dirs[d].stored
  BY GoneIs
<1>4. x <= y /\ y <= z
  BY <1>1, <1>2, <1>3 DEF OnlyNew
<1> QED
  BY <1>1, <1>3, <1>4

\* Trimming only takes away.
LEMMA TrimOnlyNew ==
    ASSUME NEW r \in ContentRecord, NEW T, RecordTail(r, T)
    PROVE  OnlyNew(r, TrimToLimit(r))
<1>1. ASSUME NEW s \in ContentRecord, RecordTail(s, T)
      PROVE  TrimOnce(s) \in ContentRecord /\ RecordTail(TrimOnce(s), T) /\ OnlyNew(s, TrimOnce(s))
  <2>1. PICK excess \in Int : excess = RecordBytes(s) - MaxStreamBytes
    BY RecordBytesIs, ContentAssumption
  <2>2. CASE excess <= 0
    <3>1. TrimOnce(s) = s
      BY <2>1, <2>2 DEF TrimOnce
    <3>2. OnlyNew(s, s)
      BY GoneIs DEF OnlyNew
    <3> QED
      BY <1>1, <3>1, <3>2
  <2>3. CASE ~ (excess <= 0)
    <3>1. PICK x \in Nat \ {0} : x = RecordBytes(s) - MaxStreamBytes
      BY <2>1, <2>3
    <3>2. PICK q : q = TrimOnce(s)
      OBVIOUS
    <3>3. RecordTail(q, T) /\ \E d : Shortened(s, q, d, x)
      BY <1>1, <3>1, <3>2, TrimOnceLays
    <3>4. PICK e : Shortened(s, q, e, x)
      BY <3>3
    <3>5. q \in ContentRecord
      BY <3>4 DEF Shortened
    <3>6. ASSUME NEW d \in Directions
          PROVE  s.dirs[d].next - s.dirs[d].stored <= q.dirs[d].next - q.dirs[d].stored
      <4>1. s.dirs[d].next = Len(T[d]) /\ q.dirs[d].next = Len(T[d])
        BY <1>1, <3>3 DEF RecordTail, TailOf
      <4>2. s.dirs[d].next \in Nat /\ s.dirs[d].stored \in Nat /\ q.dirs[d].stored \in Nat
        BY <3>5, GoneIs
      <4>3. q.dirs[d].stored <= s.dirs[d].stored
        <5>1. CASE d = e
          <6>1. q.dirs[d].stored = IF x <= s.dirs[d].stored THEN s.dirs[d].stored - x ELSE 0
            BY <3>4, <5>1 DEF Shortened
          <6> QED
            BY <4>2, <6>1
        <5>2. CASE d # e
          <6>1. q.dirs[d] = s.dirs[d]
            BY <3>4, <5>2 DEF Shortened
          <6> QED
            BY <4>2, <6>1
        <5> QED
          BY <5>1, <5>2
      <4> QED
        BY <4>1, <4>2, <4>3
    <3> QED
      BY <3>2, <3>3, <3>5, <3>6 DEF OnlyNew
  <2> QED
    BY <2>2, <2>3
<1>2. PICK q \in ContentRecord : q = TrimOnce(r) /\ RecordTail(q, T) /\ OnlyNew(r, q)
  BY <1>1
<1>3. PICK s \in ContentRecord : s = TrimOnce(q) /\ OnlyNew(q, s)
  BY <1>1, <1>2
<1>4. OnlyNew(r, s)
  BY <1>2, <1>3, OnlyNewTwice
<1> QED
  BY <1>2, <1>3, <1>4 DEF TrimToLimit

\* What the directions were given, with more bytes for one of them.
Given(T, dir, bytes) == [T EXCEPT ![dir] = @ \o bytes]

\* The record, which was `old`, has the end of what its directions were given, within its
\* limit, and the new ranges are what direction dir was given after its first `from` bytes.
Holding(u, T, dir, from, old) ==
    /\ u \in Storing /\ T \in [Directions -> Seq(Nat)] /\ RecordTail(u.record, T)
    /\ RecordBytes(u.record) <= MaxStreamBytes
    /\ from <= Len(T[dir]) /\ Covers(u.ranges, dir, from, Len(T[dir]))
    /\ OnlyNew(old, u.record)

LEMMA PayloadLays ==
    ASSUME NEW u, NEW T, NEW dir \in Directions, NEW from \in Nat,
           NEW first \in ContentRecord, Holding(u, T, dir, from, first),
           NEW seq \in Int, NEW now \in Nat, NEW bytes \in Seq(Nat)
    PROVE  Holding(StorePayload(u, dir, seq, now, bytes), Given(T, dir, bytes), dir, from, first)
<1> DEFINE a == AppendBytes(u.record.dirs[dir], dir, seq, now, bytes)
           r == [u.record EXCEPT !.dirs[dir] = a.dir]
           trimmed == TrimToLimit(r)
<1>0. u \in Storing /\ T \in [Directions -> Seq(Nat)] /\ T[dir] \in Seq(Nat)
  BY DEF Holding
<1>1. CASE bytes = <<>>
  <2>1. StorePayload(u, dir, seq, now, bytes) = u
    BY <1>1 DEF StorePayload
  <2>2. T[dir] \o bytes = T[dir]
    BY <1>0, <1>1, ConcatEmptySeq
  <2>3. Given(T, dir, bytes) = T
    BY <1>0, <2>2 DEF Given
  <2> QED
    BY <2>1, <2>3
<1>2. CASE bytes # <<>>
  <2>1. PICK old \in ContentRecord : old = u.record
    BY <1>0 DEF Storing
  <2>2. PICK c \in ContentDirection : c = old.dirs[dir]
    BY DEF ContentRecord
  <2>3. PICK b \in Appending : b = a
    BY <2>1, <2>2, AppendBytesTyped
  <2>4. b.dir \in ContentDirection /\ b.ranges \in Seq(ContentRange)
    BY DEF Appending
  <2>5. PICK new \in ContentRecord : new = r
    <3>1. [old EXCEPT !.dirs[dir] = b.dir] \in ContentRecord
      BY <2>4 DEF ContentRecord
    <3> QED
      BY <2>1, <2>3, <3>1
  <2>6. new.dirs[dir] = b.dir /\ \A d \in Directions \ {dir} : new.dirs[d] = old.dirs[d]
    <3>1. new = [old EXCEPT !.dirs[dir] = b.dir]
      BY <2>1, <2>3, <2>5
    <3> QED
      BY <3>1 DEF ContentRecord
  <2>w. PICK W \in Seq(Nat) : W = T[dir]
    BY <1>0
  <2>7. TailOf(b.dir, W \o bytes) /\ Covers(b.ranges, dir, Len(W), Len(W) + Len(bytes))
    <3>1. TailOf(c, W)
      BY <2>1, <2>2, <2>w DEF Holding, RecordTail
    <3>2. b = AppendBytes(c, dir, seq, now, bytes)
      BY <2>1, <2>2, <2>3
    <3> QED
      BY <3>1, <3>2, AppendBytesLays
  <2>v. PICK V : V = W \o bytes
    OBVIOUS
  <2>8. V \in Seq(Nat) /\ Len(V) = Len(W) + Len(bytes)
    BY <2>v, PartOfMore
  <2>9. PICK S : S = Given(T, dir, bytes)
    OBVIOUS
  <2>10. S \in [Directions -> Seq(Nat)] /\ S[dir] = V /\ \A d \in Directions \ {dir} : S[d] = T[d]
    BY <1>0, <2>w, <2>v, <2>8, <2>9 DEF Given
  <2>11. RecordTail(new, S)
    <3> SUFFICES ASSUME NEW d \in Directions
                 PROVE  S[d] \in Seq(Nat) /\ TailOf(new.dirs[d], S[d])
      BY DEF RecordTail
    <3>1. CASE d = dir
      BY <2>6, <2>7, <2>v, <2>10, <3>1
    <3>2. CASE d # dir
      BY <2>1, <2>6, <2>10, <3>2 DEF Holding, RecordTail
    <3> QED
      BY <3>1, <3>2
  <2>12. PICK cut \in ContentRecord : cut = trimmed /\ RecordTail(cut, S) /\ RecordBytes(cut) <= MaxStreamBytes
    BY <2>5, <2>11, TrimTyped, TrimLays
  <2>13. PICK v \in Storing : v = StorePayload(u, dir, seq, now, bytes)
    BY <1>0, StorePayloadTyped
  <2>14. v.record = cut /\ v.ranges = u.ranges \o b.ranges
    <3>1. v = [record |-> trimmed, ranges |-> u.ranges \o a.ranges,
               observed |-> u.observed + Len(bytes), merged |-> u.merged + a.merged,
               trimmed |-> u.trimmed + RecordBytes(r) - RecordBytes(trimmed)]
      BY <1>2, <2>13, Zenon DEF StorePayload
    <3> HIDE DEF a, r, trimmed
    <3> QED
      BY <2>3, <2>12, <3>1
  <2>15. Covers(v.ranges, dir, from, Len(V)) /\ from <= Len(V)
    <3>1. PICK rs \in Seq(ContentRange) : rs = u.ranges
      BY <1>0 DEF Storing
    <3>2. PICK more \in Seq(ContentRange) : more = b.ranges
      BY <2>4
    <3>3. PICK to \in Nat : to = Len(W)
      BY LenProperties
    <3>4. PICK end \in Nat : end = Len(V)
      BY <2>8, LenProperties
    <3>5. to <= end
      <4>1. Len(bytes) \in Nat
        BY LenProperties
      <4> QED
        BY <2>8, <3>3, <3>4, <4>1
    <3>6. from <= to /\ Covers(rs, dir, from, to) /\ Covers(more, dir, to, end)
      BY <2>w, <2>7, <2>8, <3>1, <3>2, <3>3, <3>4 DEF Holding
    <3>7. Covers(rs \o more, dir, from, end)
      BY <3>5, <3>6, CoversMore
    <3> QED
      BY <2>14, <3>1, <3>2, <3>4, <3>5, <3>6, <3>7
  <2>16. OnlyNew(first, cut)
    <3>1. OnlyNew(old, new)
      <4> SUFFICES ASSUME NEW d \in Directions
                   PROVE  old.dirs[d].next - old.dirs[d].stored <= new.dirs[d].next - new.dirs[d].stored
        BY DEF OnlyNew
      <4>1. CASE d = dir
        <5>1. PICK k \in Nat, l \in Nat, m \in Nat : k = Len(W) /\ l = Len(bytes) /\ m = old.dirs[d].stored
          BY GoneIs, LenProperties
        <5>2. old.dirs[d].next = k
          BY <2>1, <2>w, <4>1, <5>1 DEF Holding, RecordTail, TailOf
        <5>3. new.dirs[d].next = k + l
          BY <2>6, <2>7, <2>v, <2>8, <4>1, <5>1 DEF TailOf
        <5>4. new.dirs[d].stored = m + l
          <6>1. AppendBytes(c, dir, seq, now, bytes).dir.stored = c.stored + Len(bytes)
            BY AppendBytesTyped
          <6> QED
            BY <2>1, <2>2, <2>3, <2>6, <4>1, <5>1, <6>1
        <5> QED
          BY <5>1, <5>2, <5>3, <5>4, SMTT(30)
      <4>2. CASE d # dir
        <5>1. new.dirs[d] = old.dirs[d]
          BY <2>6, <4>2
        <5> QED
          BY <5>1, GoneIs
      <4> QED
        BY <4>1, <4>2
    <3>2. OnlyNew(new, cut)
      BY <2>5, <2>11, <2>12, TrimOnlyNew
    <3>3. OnlyNew(first, old)
      BY <2>1 DEF Holding
    <3> QED
      BY <3>1, <3>2, <3>3, OnlyNewTwice
  <2>17. Holding(v, S, dir, from, first)
    BY <2>10, <2>12, <2>14, <2>15, <2>16 DEF Holding
  <2> QED
    BY <2>9, <2>13, <2>17
<1> QED
  BY <1>1, <1>2

\* Bytes given in two turns.
LEMMA GivenTwice ==
    ASSUME NEW T \in [Directions -> Seq(Nat)], NEW dir \in Directions,
           NEW x \in Seq(Nat), NEW y \in Seq(Nat)
    PROVE  /\ Given(T, dir, x) \in [Directions -> Seq(Nat)]
           /\ Given(Given(T, dir, x), dir, y) = Given(T, dir, x \o y)
           /\ Given(T, dir, <<>>) = T
<1>1. PICK W \in Seq(Nat) : W = T[dir]
  OBVIOUS
<1>2. PICK V \in Seq(Nat) : V = W \o x
  BY ConcatProperties
<1>3. V \o y = W \o (x \o y)
  <2>1. (W \o x) \o y = W \o (x \o y)
    BY ConcatAssociative, SMTT(30)
  <2> QED
    BY <1>2, <2>1, Zenon
<1>4. W \o <<>> = W
  BY ConcatEmptySeq
<1>5. Given(T, dir, x) = [T EXCEPT ![dir] = V]
  BY <1>1, <1>2 DEF Given
<1>6. PICK S \in [Directions -> Seq(Nat)] : S = Given(T, dir, x) /\ S[dir] = V
  BY <1>5
<1>7. PICK z : z = x \o y
  OBVIOUS
<1>8. PICK R : R = V \o y
  OBVIOUS
<1>9. Given(S, dir, y) = [S EXCEPT ![dir] = R]
  BY <1>6, <1>8 DEF Given
<1>10. Given(T, dir, z) = [T EXCEPT ![dir] = R]
  BY <1>1, <1>3, <1>7, <1>8 DEF Given
<1>11. S = [T EXCEPT ![dir] = V]
  BY <1>5, <1>6
<1>12. Given(S, dir, y) = Given(T, dir, z)
  BY <1>9, <1>10, <1>11
<1>13. Given(T, dir, <<>>) = T
  BY <1>1, <1>4 DEF Given
<1>14. Given(Given(T, dir, x), dir, y) = Given(T, dir, x \o y)
  BY <1>6, <1>7, <1>12, Zenon
<1>15. Given(T, dir, x) \in [Directions -> Seq(Nat)]
  BY <1>6, Zenon
<1> QED
  BY <1>13, <1>14, <1>15, Zenon

\* The packet's bytes are put after what its direction was given before.
LEMMA StoreLays ==
    ASSUME NEW record \in ContentRecord, NEW T \in [Directions -> Seq(Nat)], RecordTail(record, T),
           RecordBytes(record) <= MaxStreamBytes,
           NEW p \in Packets, NEW o, o.chunks \in Seq(Chunks(p.flow))
    PROVE  /\ Bytes(p, o) \in Seq(Nat)
           /\ Holding(Store(record, p, o), Given(T, p.dir, Bytes(p, o)), p.dir, Len(T[p.dir]), record)
<1> DEFINE seen == [record EXCEPT !.last_seen = p.time]
           none == [record |-> seen, ranges |-> <<>>, observed |-> 0, merged |-> 0, trimmed |-> 0]
<1>1. p.dir \in Directions /\ p.time \in Nat /\ p.tcp \in BOOLEAN /\ p.seg.payload \in Seq(Nat)
  BY PacketIs
<1>2. seen \in ContentRecord /\ seen.dirs = record.dirs
  BY <1>1 DEF ContentRecord
<1>3. RecordBytes(seen) = RecordBytes(record)
  <2> HIDE DEF seen
  <2> QED
    BY <1>2 DEF RecordBytes
<1> HIDE DEF seen
<1>4. PICK u \in Storing : u = none
  <2>1. <<>> \in Seq(ContentRange)
    OBVIOUS
  <2>2. none \in Storing
    BY <1>2, <2>1 DEF Storing
  <2> QED
    BY <2>2, Zenon
<1>5. PICK from \in Nat : from = Len(T[p.dir])
  BY <1>1, LenProperties
<1>6. Holding(u, T, p.dir, from, record)
  <2>1. RecordTail(u.record, T)
    BY <1>2, <1>4 DEF RecordTail
  <2>2. Covers(u.ranges, p.dir, from, from)
    BY <1>4, CoversNothing
  <2>3. RecordBytes(u.record) <= MaxStreamBytes
    BY <1>3, <1>4
  <2>4. OnlyNew(record, u.record)
    <3>1. u.record.dirs = record.dirs
      BY <1>2, <1>4
    <3> QED
      BY <3>1, GoneIs DEF OnlyNew
  <2> QED
    BY <1>5, <2>1, <2>2, <2>3, <2>4 DEF Holding
<1>7. Store(record, p, o) = IF p.tcp THEN StoreChunks(u, p, o.chunks)
                            ELSE StorePayload(u, p.dir, None, p.time, p.seg.payload)
  BY <1>4, Zenon DEF Store, seen
<1>8. CASE p.tcp
  <2>1. PICK chunks \in Seq(Chunks(p.flow)) : chunks = o.chunks
    OBVIOUS
  <2>2. PICK n \in Nat : n = Len(chunks) /\ DOMAIN chunks = 1 .. n
    BY LenProperties
  <2>3. PICK s : s = [i \in 1 .. n |-> chunks[i].bytes]
    OBVIOUS
  <2>4. Bytes(p, o) = FlattenSeq(s)
    BY <1>8, <2>1, <2>2, <2>3 DEF Bytes, Payloads
  <2>5. ASSUME NEW i \in 1 .. n
        PROVE  chunks[i].seq \in Int /\ s[i] \in Seq(Nat) /\ s[i] = chunks[i].bytes
    <3>1. chunks[i] \in Chunks(p.flow)
      BY <2>2, ElementOfSeq
    <3>2. chunks[i].bytes \in Shown(p.flow) /\ chunks[i].seq \in Int
      BY <3>1 DEF Chunks
    <3> QED
      BY <2>3, <3>2, ShownIs
  <2>6. s \in Seq(Seq(Nat)) /\ n = Len(s)
    <3>1. s \in [1 .. n -> Seq(Nat)]
      BY <2>3, <2>5
    <3>2. s \in Seq(Seq(Nat))
      BY <3>1, SeqDef
    <3> QED
      BY <2>3, <3>2, LenProperties
  <2>7. PICK w : Flattens(w, s, n)
    BY <2>6, FlattenInTurn
  <2>8. PICK h : Stores(h, u, p, chunks, n)
    BY <2>2, StoresInTurn
  <2> DEFINE G == {i \in Nat : i <= n => w[i] \in Seq(Nat) /\ Holding(h[i], Given(T, p.dir, w[i]), p.dir, from, record)}
  <2>9. 0 \in G
    <3>1. w[0] = <<>> /\ h[0] = u
      BY <2>7, <2>8 DEF Flattens, Stores
    <3>2. w[0] \in Seq(Nat)
      <4>1. <<>> \in Seq(Nat)
        OBVIOUS
      <4> QED
        BY <3>1, <4>1, Zenon
    <3>3. Given(T, p.dir, w[0]) = T
      BY <1>1, <3>1, <3>2, GivenTwice
    <3>4. 0 \in Nat
      OBVIOUS
    <3> QED
      BY <1>6, <3>1, <3>2, <3>3, <3>4, Zenon
  <2>10. ASSUME NEW i \in Nat, i \in G
         PROVE  i + 1 \in G
    <3> SUFFICES ASSUME i + 1 <= n
                 PROVE  w[i + 1] \in Seq(Nat) /\ Holding(h[i + 1], Given(T, p.dir, w[i + 1]), p.dir, from, record)
      OBVIOUS
    <3>1. i + 1 \in 1 .. n /\ (i + 1) - 1 = i /\ i <= n
      BY <2>2
    <3>2. PICK v : v = h[i]
      OBVIOUS
    <3>3. PICK x \in Seq(Nat) : x = w[i]
      BY <2>10, <3>1
    <3>4. Holding(v, Given(T, p.dir, x), p.dir, from, record)
      BY <2>10, <3>1, <3>2, <3>3
    <3>5. PICK seq \in Int : seq = chunks[i + 1].seq
      BY <2>5, <3>1
    <3>6. PICK bytes \in Seq(Nat) : bytes = s[i + 1] /\ bytes = chunks[i + 1].bytes
      BY <2>5, <3>1
    <3>7. h[i + 1] = StorePayload(v, p.dir, seq, p.time, bytes)
      BY <2>8, <3>1, <3>2, <3>5, <3>6 DEF Stores
    <3>8. Holding(StorePayload(v, p.dir, seq, p.time, bytes), Given(Given(T, p.dir, x), p.dir, bytes),
                  p.dir, from, record)
      <4>1. p.dir \in Directions /\ p.time \in Nat
        BY <1>1
      <4>2. Holding(v, Given(T, p.dir, x), p.dir, from, record)
        BY <3>4
      <4> QED
        BY <4>1, <4>2, PayloadLays, Zenon
    <3>9. Given(Given(T, p.dir, x), p.dir, bytes) = Given(T, p.dir, x \o bytes)
      <4>1. p.dir \in Directions
        BY <1>1
      <4> QED
        BY <4>1, GivenTwice, ZenonT(40)
    <3>10. w[i + 1] = x \o bytes
      BY <2>7, <3>1, <3>3, <3>6 DEF Flattens
    <3>11. x \o bytes \in Seq(Nat)
      BY ConcatProperties
    <3> QED
      BY <3>7, <3>8, <3>9, <3>10, <3>11
  <2>11. n \in G
    <3> HIDE DEF G
    <3> QED
      BY <2>9, <2>10, NumberInduction
  <2>12. h[n] = Store(record, p, o) /\ w[n] = Bytes(p, o)
    BY <1>7, <1>8, <2>1, <2>4, <2>7, <2>8 DEF Flattens, Stores
  <2> QED
    BY <1>5, <2>11, <2>12
<1>9. CASE ~ p.tcp
  <2>1. PICK bytes \in Seq(Nat) : bytes = p.seg.payload
    BY <1>1
  <2>2. Bytes(p, o) = bytes
    <3>1. PICK s : s = <<bytes>>
      OBVIOUS
    <3>2. s \in Seq(Seq(Nat)) /\ Len(s) = 1 /\ s[1] = bytes
      BY <3>1
    <3>3. PICK i \in Nat : i = 1 /\ i = Len(s)
      BY <3>2
    <3>4. PICK w : Flattens(w, s, i)
      BY <3>2, <3>3, FlattenInTurn
    <3>5. FlattenSeq(s) = w[1 - 1] \o s[1] /\ w[1 - 1] = <<>>
      BY <3>3, <3>4 DEF Flattens
    <3>6. FlattenSeq(s) = bytes
      BY <3>2, <3>5, ConcatEmptySeq
    <3> QED
      BY <1>9, <2>1, <3>1, <3>6 DEF Bytes, Payloads
  <2>3. None \in Int
    BY DEF None
  <2>4. Holding(StorePayload(u, p.dir, None, p.time, bytes), Given(T, p.dir, bytes), p.dir, from, record)
    BY <1>1, <1>6, <2>3, PayloadLays
  <2> QED
    BY <1>5, <1>7, <1>9, <2>1, <2>2, <2>4
<1> QED
  BY <1>8, <1>9

\* A new record was given nothing.
NothingGiven == [d \in Directions |-> <<>>]
LEMMA NothingLays ==
    ASSUME NEW now \in Nat
    PROVE  /\ NothingGiven \in [Directions -> Seq(Nat)] /\ RecordTail(NewContent(now), NothingGiven)
           /\ RecordBytes(NewContent(now)) <= MaxStreamBytes
<1>1. <<>> \in Seq(Nat) /\ Len(<<>>) = 0
  OBVIOUS
<1>2. NothingGiven \in [Directions -> Seq(Nat)]
  BY <1>1 DEF NothingGiven
<1>3. ASSUME NEW d \in Directions
      PROVE  NothingGiven[d] \in Seq(Nat) /\ TailOf(NewContent(now).dirs[d], NothingGiven[d])
  <2>1. PICK c : c = NewContent(now).dirs[d]
    OBVIOUS
  <2>2. PICK W : W = NothingGiven[d]
    OBVIOUS
  <2>3. W = <<>> /\ c = [next |-> 0, stored |-> 0, segments |-> <<>>]
    BY <2>1, <2>2 DEF NothingGiven, NewContent
  <2>4. W \in Seq(Nat) /\ Len(W) = 0
    BY <1>1, <2>3
  <2>5. c.next = 0 /\ c.stored = 0 /\ Len(c.segments) = 0
    BY <2>3
  <2>6. Edge(c, W, Len(c.segments)) = 0
    BY <2>4, <2>5 DEF Edge
  <2>7. TailOf(c, W)
    BY <2>4, <2>5, <2>6 DEF TailOf
  <2> QED
    BY <2>1, <2>2, <2>4, <2>7
<1>4. RecordTail(NewContent(now), NothingGiven)
  BY <1>3 DEF RecordTail
<1>5. RecordBytes(NewContent(now)) <= MaxStreamBytes
  BY NewContentTyped, ContentAssumption
<1> QED
  BY <1>2, <1>4, <1>5

\* A packet with content has bytes.
LEMMA BytesAre ==
    ASSUME NEW p \in Packets, NEW o, o.chunks \in Seq(Chunks(p.flow)), HasContent(p, o)
    PROVE  Bytes(p, o) \in Seq(Nat) /\ Bytes(p, o) # <<>>
<1>1. p.seg.payload \in Seq(Nat) /\ p.tcp \in BOOLEAN
  BY PacketIs
<1>2. PICK s : s = Payloads(p, o)
  OBVIOUS
<1>3. PICK n \in Nat \ {0} : n = Len(s) /\ s \in Seq(Seq(Nat)) /\ \A i \in 1 .. n : s[i] # <<>>
  <2>1. CASE p.tcp
    <3>1. PICK chunks \in Seq(Chunks(p.flow)) : chunks = o.chunks /\ chunks # <<>>
      BY <2>1 DEF HasContent
    <3>2. PICK n \in Nat \ {0} : n = Len(chunks) /\ DOMAIN chunks = 1 .. n
      BY <3>1, EmptySeq, LenProperties
    <3>3. s = [i \in 1 .. n |-> chunks[i].bytes]
      BY <1>2, <2>1, <3>1, <3>2 DEF Payloads
    <3>4. ASSUME NEW i \in 1 .. n
          PROVE  s[i] \in Seq(Nat) /\ s[i] # <<>>
      <4>1. chunks[i] \in Chunks(p.flow)
        BY <3>2, ElementOfSeq
      <4>2. chunks[i].bytes \in Shown(p.flow) /\ chunks[i].bytes # <<>>
        BY <4>1 DEF Chunks
      <4> QED
        BY <3>3, <4>2, ShownIs
    <3>5. s \in [1 .. n -> Seq(Nat)]
      BY <3>3, <3>4
    <3>6. s \in Seq(Seq(Nat))
      BY <3>5, SeqDef
    <3>7. DOMAIN s = 1 .. n
      BY <3>3
    <3>8. n = Len(s)
      <4>1. Len(s) \in Nat /\ DOMAIN s = 1 .. Len(s)
        BY <3>6, LenProperties
      <4> QED
        BY <3>7, <4>1
    <3> QED
      BY <3>4, <3>6, <3>8
  <2>2. CASE ~ p.tcp
    <3>1. PICK b \in Seq(Nat) : b = p.seg.payload /\ b # <<>>
      BY <1>1, <2>2 DEF HasContent
    <3>2. s = <<b>>
      BY <1>2, <2>2, <3>1 DEF Payloads
    <3>3. s \in Seq(Seq(Nat)) /\ Len(s) = 1 /\ s[1] = b
      BY <3>2
    <3>4. PICK n \in Nat \ {0} : n = 1
      OBVIOUS
    <3>5. \A i \in 1 .. n : i = 1
      BY <3>4
    <3> QED
      BY <3>1, <3>3, <3>4, <3>5
  <2> QED
    BY <1>1, <2>1, <2>2
<1>4. PICK w : Flattens(w, s, n)
  BY <1>3, FlattenInTurn
<1> DEFINE G == {i \in Nat : i <= n => w[i] \in Seq(Nat) /\ Len(w[i]) >= i}
<1>5. 0 \in G
  <2>1. w[0] = <<>>
    BY <1>4 DEF Flattens
  <2>2. <<>> \in Seq(Nat) /\ Len(<<>>) = 0
    OBVIOUS
  <2>3. w[0] \in Seq(Nat)
    BY <2>1, <2>2, Zenon
  <2>4. Len(w[0]) = 0
    BY <2>1, <2>2, Zenon
  <2> QED
    BY <2>3, <2>4
<1>6. ASSUME NEW i \in Nat, i \in G
      PROVE  i + 1 \in G
  <2> SUFFICES ASSUME i + 1 <= n
               PROVE  w[i + 1] \in Seq(Nat) /\ Len(w[i + 1]) >= i + 1
    OBVIOUS
  <2>1. i + 1 \in 1 .. n /\ (i + 1) - 1 = i /\ i <= n
    BY <1>3
  <2>2. PICK x \in Seq(Nat) : x = w[i] /\ Len(x) >= i
    BY <1>6, <2>1
  <2>3. PICK b \in Seq(Nat) : b = s[i + 1] /\ b # <<>>
    BY <1>3, <2>1, ElementOfSeq
  <2>4. w[i + 1] = x \o b
    BY <1>4, <2>1, <2>2, <2>3 DEF Flattens
  <2>5. x \o b \in Seq(Nat) /\ Len(x \o b) = Len(x) + Len(b)
    BY ConcatProperties
  <2>6. Len(b) \in Nat \ {0} /\ Len(x) \in Nat
    BY <2>3, EmptySeq, LenProperties
  <2>7. Len(x \o b) >= i + 1
    BY <2>2, <2>5, <2>6
  <2> QED
    BY <2>4, <2>5, <2>7
<1>7. n \in G
  <2> HIDE DEF G
  <2> QED
    BY <1>3, <1>5, <1>6, NumberInduction
<1>8. w[n] = Bytes(p, o)
  BY <1>2, <1>4 DEF Flattens, Bytes
<1>9. Bytes(p, o) \in Seq(Nat) /\ Len(Bytes(p, o)) >= n
  BY <1>7, <1>8
<1> QED
  BY <1>3, <1>9, EmptySeq

\* The store has the end of what the history says each stream was given, within the
\* stream's limit.
TakenOK ==
    /\ taken \in [Flows -> [Directions -> Seq(Nat)]]
    /\ \A f \in DOMAIN content :
        RecordTail(content[f], taken[f]) /\ RecordBytes(content[f]) <= MaxStreamBytes

\* The packet's bytes go on what its stream was given, or begin it anew.
TakenFrom(p, o) == IF ContentBegins(p, o) THEN NothingGiven ELSE taken[p.flow]
StreamTook(p, o, T, S) ==
    /\ T = TakenFrom(p, o) /\ T \in [Directions -> Seq(Nat)] /\ S = Given(T, p.dir, Bytes(p, o))
    /\ ranges' # <<>> /\ taken' = [taken EXCEPT ![p.flow] = S]
    /\ p.flow \in DOMAIN content' /\ RecordTail(content'[p.flow], S)
    /\ Covers(ranges', p.dir, Len(T[p.dir]), Len(S[p.dir]))
    /\ \/ T = NothingGiven
       \/ p.flow \in DOMAIN content /\ OnlyNew(content[p.flow], content'[p.flow])
    /\ \A f \in DOMAIN content' \ {p.flow} : f \in DOMAIN content /\ content'[f] = content[f]
LEMMA TakeStep ==
    ASSUME ContentOK, TakenOK, NEW p \in Packets, observation'.chunks \in Seq(Chunks(p.flow)),
           ContentMoved(p), Remember(p, observation')
    PROVE  /\ TakenOK'
           /\ IF HasContent(p, observation')
              THEN \E T, S : StreamTook(p, observation', T, S)
              ELSE content' = content /\ taken' = taken
<1>1. CASE ~ HasContent(p, observation')
  <2>1. ranges' = <<>> /\ content' = content
    BY <1>1 DEF ContentMoved
  <2>2. taken' = taken
    BY <2>1 DEF Remember
  <2> QED
    BY <1>1, <2>1, <2>2 DEF TakenOK
<1>2. CASE HasContent(p, observation')
  <2>1. PICK old : RecordMoved(p, old)
    BY <1>2 DEF ContentMoved
  <2>2. p.flow \in Flows /\ p.dir \in Directions /\ p.time \in Nat
    BY PacketIs
  <2>3. PICK t \in [Directions -> Seq(Nat)] : t = taken[p.flow]
    BY <2>2 DEF TakenOK
  <2>4. NothingGiven \in [Directions -> Seq(Nat)]
    BY <2>2, NothingLays
  <2>5. PICK T \in [Directions -> Seq(Nat)] :
          /\ T = (IF p.flow \in DOMAIN content /\ old = content[p.flow] THEN t ELSE NothingGiven)
          /\ old \in ContentRecord /\ RecordTail(old, T) /\ RecordBytes(old) <= MaxStreamBytes
    <3>1. CASE p.flow \in DOMAIN content /\ old = content[p.flow]
      <4>1. old \in ContentRecord
        BY <3>1 DEF ContentOK, Contents
      <4>2. RecordTail(old, t) /\ RecordBytes(old) <= MaxStreamBytes
        BY <2>3, <3>1 DEF TakenOK
      <4> QED
        BY <3>1, <4>1, <4>2
    <3>2. CASE ~ (p.flow \in DOMAIN content /\ old = content[p.flow])
      <4>1. old = NewContent(p.time)
        BY <2>1, <3>2 DEF RecordMoved
      <4> QED
        BY <2>2, <2>4, <3>2, <4>1, NothingLays, NewContentTyped
    <3> QED
      BY <3>1, <3>2
  <2>6. PICK b \in Seq(Nat) : b = Bytes(p, observation') /\ b # <<>>
    BY <1>2, BytesAre
  <2>7. PICK u : u = Store(old, p, observation')
    OBVIOUS
  <2>8. PICK S : S = Given(T, p.dir, b)
    OBVIOUS
  <2>9. Holding(u, S, p.dir, Len(T[p.dir]), old)
    BY <2>5, <2>6, <2>7, <2>8, StoreLays
  <2>10. S \in [Directions -> Seq(Nat)] /\ RecordTail(u.record, S)
         /\ RecordBytes(u.record) <= MaxStreamBytes /\ Covers(u.ranges, p.dir, Len(T[p.dir]), Len(S[p.dir]))
         /\ OnlyNew(old, u.record)
    BY <2>9 DEF Holding
  <2>11. p.flow \in DOMAIN content' /\ content'[p.flow] = u.record /\ ranges' = u.ranges
         /\ \A f \in DOMAIN content' \ {p.flow} : f \in DOMAIN content /\ content'[f] = content[f]
    BY <2>1, <2>7 DEF RecordMoved
  <2>12. S[p.dir] = T[p.dir] \o b /\ \A d \in Directions \ {p.dir} : S[d] = T[d]
    BY <2>2, <2>8 DEF Given
  <2>13. PICK W \in Seq(Nat) : W = T[p.dir]
    BY <2>2
  <2>14. PICK k \in Nat : k = Len(W)
    BY LenProperties
  <2>15. PICK l \in Nat \ {0} : l = Len(b)
    BY <2>6, EmptySeq, LenProperties
  <2>16. Len(S[p.dir]) = k + l
    <3>1. Len(W \o b) = Len(W) + Len(b)
      BY ConcatProperties
    <3> QED
      BY <2>12, <2>13, <2>14, <2>15, <3>1
  <2>17. ranges' # <<>>
    <3>1. PICK rs : rs = u.ranges
      OBVIOUS
    <3>2. Covers(rs, p.dir, k, k + l)
      BY <2>10, <2>13, <2>14, <2>16, <3>1
    <3>3. k + 1 \in k + 1 .. k + l
      OBVIOUS
    <3>4. \E i \in 1 .. Len(rs) : TRUE
      BY <3>2, <3>3 DEF Covers
    <3>5. Len(<<>>) = 0
      OBVIOUS
    <3>6. rs # <<>>
      BY <3>4, <3>5
    <3> QED
      BY <2>11, <3>1, <3>6
  <2>18. \A d \in Directions : content'[p.flow].dirs[d].next = Len(T[d]) + (IF d = p.dir THEN l ELSE 0)
    <3> SUFFICES ASSUME NEW d \in Directions
                 PROVE  content'[p.flow].dirs[d].next = Len(T[d]) + (IF d = p.dir THEN l ELSE 0)
      OBVIOUS
    <3>1. content'[p.flow].dirs[d].next = Len(S[d])
      BY <2>10, <2>11 DEF RecordTail, TailOf
    <3>2. CASE d = p.dir
      BY <2>13, <2>14, <2>16, <3>1, <3>2
    <3>3. CASE d # p.dir
      <4>1. S[d] = T[d]
        BY <2>12, <3>3
      <4>2. Len(T[d]) \in Nat
        BY LenProperties
      <4> QED
        BY <3>1, <3>3, <4>1, <4>2
    <3> QED
      BY <3>2, <3>3
  <2>19. ASSUME p.flow \in DOMAIN content, NEW d \in Directions
         PROVE  content[p.flow].dirs[d].next = Len(t[d]) /\ Len(t[d]) \in Nat
    <3>1. RecordTail(content[p.flow], t)
      BY <2>3, <2>19 DEF TakenOK
    <3> QED
      BY <3>1, LenProperties DEF RecordTail, TailOf
  <2>20. T = TakenFrom(p, observation')
    <3>1. CASE p.flow \notin DOMAIN content
      BY <2>5, <3>1 DEF TakenFrom, ContentBegins
    <3>2. CASE p.flow \in DOMAIN content
      <4>1. ContentBegins(p, observation') <=> \E d \in Directions : Len(T[d]) # Len(t[d])
        <5>1. ContentBegins(p, observation') <=>
                \E d \in Directions : content'[p.flow].dirs[d].next
                    # content[p.flow].dirs[d].next + (IF d = p.dir THEN l ELSE 0)
          BY <2>6, <2>15, <3>2 DEF ContentBegins
        <5>2. ASSUME NEW d \in Directions
              PROVE  content'[p.flow].dirs[d].next
                       # content[p.flow].dirs[d].next + (IF d = p.dir THEN l ELSE 0)
                     <=> Len(T[d]) # Len(t[d])
          <6>1. PICK x \in Nat : x = Len(T[d])
            BY LenProperties
          <6>2. PICK y \in Nat : y = Len(t[d])
            BY LenProperties
          <6>3. PICK z \in Nat : z = IF d = p.dir THEN l ELSE 0
            OBVIOUS
          <6>4. content'[p.flow].dirs[d].next = x + z /\ content[p.flow].dirs[d].next = y
            BY <2>18, <2>19, <3>2, <6>1, <6>2, <6>3
          <6>5. x + z # y + z <=> x # y
            OBVIOUS
          <6>6. content[p.flow].dirs[d].next + (IF d = p.dir THEN l ELSE 0) = y + z
            BY <6>3, <6>4
          <6>7. content'[p.flow].dirs[d].next = x + z
            BY <6>4
          <6> QED
            BY <6>1, <6>2, <6>5, <6>6, <6>7, Zenon
        <5> QED
          BY <5>1, <5>2
      <4>2. CASE T = t
        BY <2>3, <4>1, <4>2 DEF TakenFrom
      <4>3. CASE T # t
        <5>1. T = NothingGiven
          BY <2>5, <4>3
        <5>2. PICK d \in Directions : T[d] # t[d]
          BY <4>3
        <5>3. T[d] = <<>> /\ t[d] \in Seq(Nat) /\ t[d] # <<>>
          BY <5>1, <5>2 DEF NothingGiven
        <5>4. Len(T[d]) = 0 /\ Len(t[d]) # 0
          BY <5>3, EmptySeq
        <5> QED
          BY <4>1, <5>1, <5>4 DEF TakenFrom
      <4> QED
        BY <4>2, <4>3
    <3> QED
      BY <3>1, <3>2
  <2>21. taken' = [taken EXCEPT ![p.flow] = S]
    <3>1. T = (IF ranges' # <<>> /\ ContentBegins(p, observation') THEN [d \in Directions |-> <<>>]
               ELSE taken[p.flow])
      BY <2>17, <2>20 DEF TakenFrom, NothingGiven
    <3>2. taken' = [taken EXCEPT ![p.flow] = [T EXCEPT ![p.dir] = @ \o b]]
      BY <2>6, <2>17, <3>1 DEF Remember
    <3> QED
      BY <2>8, <3>2 DEF Given
  <2>22. taken' \in [Flows -> [Directions -> Seq(Nat)]] /\ taken'[p.flow] = S
         /\ \A f \in Flows \ {p.flow} : taken'[f] = taken[f]
    BY <2>2, <2>10, <2>21 DEF TakenOK
  <2>23. ASSUME NEW f \in DOMAIN content'
         PROVE  RecordTail(content'[f], taken'[f]) /\ RecordBytes(content'[f]) <= MaxStreamBytes
    <3>1. CASE f = p.flow
      BY <2>10, <2>11, <2>22, <3>1
    <3>2. CASE f # p.flow
      <4>1. f \in DOMAIN content /\ content'[f] = content[f]
        BY <2>11, <3>2
      <4>2. f \in Flows
        BY <4>1 DEF ContentOK
      <4>3. taken'[f] = taken[f]
        BY <2>22, <3>2, <4>2
      <4> QED
        BY <4>1, <4>3 DEF TakenOK
    <3> QED
      BY <3>1, <3>2
  <2>24. TakenOK'
    BY <2>22, <2>23 DEF TakenOK
  <2>25. T = NothingGiven \/ (p.flow \in DOMAIN content /\ OnlyNew(content[p.flow], content'[p.flow]))
    BY <2>5, <2>10, <2>11
  <2>26. StreamTook(p, observation', T, S)
    BY <2>6, <2>8, <2>10, <2>11, <2>17, <2>20, <2>21, <2>25 DEF StreamTook
  <2> QED
    BY <1>2, <2>24, <2>26
<1> QED
  BY <1>1, <1>2

-----------------------------------------------------------------------------
(* What a slice shows *)

LEMMA SmallerOrLarger ==
    ASSUME NEW a \in Int, NEW b \in Int
    PROVE  Min({a, b}) = (IF a <= b THEN a ELSE b) /\ Max({a, b}) = (IF a <= b THEN b ELSE a)
<1>1. PICK x : x = Min({a, b})
  OBVIOUS
<1>2. PICK y : y = Max({a, b})
  OBVIOUS
<1>3. x \in {a, b} /\ x <= a /\ x <= b /\ y \in {a, b} /\ y >= a /\ y >= b
  BY <1>1, <1>2, OfTwo
<1>4. x = (IF a <= b THEN a ELSE b) /\ y = (IF a <= b THEN b ELSE a)
  BY <1>3
<1> QED
  BY <1>1, <1>2, <1>4

\* The bytes of a stream after its a-th up to its b-th, as a slice shows them.
Piecewise(W, a, b) == IF b <= a THEN <<>> ELSE <<[start |-> a, bytes |-> Stretch(W, a, b)]>>

LEMMA PartIsFull ==
    ASSUME NEW W \in Seq(Nat), NEW a \in Nat, NEW b \in Nat, ~ (b <= a), b <= Len(W)
    PROVE  Stretch(W, a, b) # <<>>
<1>1. a <= b /\ b - a # 0
  OBVIOUS
<1>2. Stretch(W, a, b) \in Seq(Nat) /\ Len(Stretch(W, a, b)) = b - a
  BY <1>1, PartIs, Zenon
<1> QED
  BY <1>1, <1>2, EmptySeq

\* A window is the part of the stream that its segment and the request share.
LEMMA WindowIs ==
    ASSUME NEW s \in ContentSegment, NEW W \in Seq(Nat), NEW x \in Nat, NEW y \in Nat,
           x < y, y <= Len(W), s.start = x, LogicalEnd(s) = y, s.bytes = Stretch(W, x, y),
           NEW start \in Nat, NEW end \in Nat, NEW w, w = Window(s, start, end),
           NEW a \in Nat, a = (IF x <= start THEN start ELSE x),
           NEW b \in Nat, b = (IF y <= end THEN y ELSE end)
    PROVE  w.start = a /\ (IF b <= a THEN w.bytes = <<>> ELSE w.bytes = Stretch(W, a, b) /\ w.bytes # <<>>)
<1>1. Max({x, start}) = a /\ Min({y, end}) = b
  <2>1. x \in Int /\ y \in Int /\ start \in Int /\ end \in Int
    OBVIOUS
  <2> QED
    BY <2>1, SmallerOrLarger
<1>2. w = [start |-> a, bytes |-> SubSeq(s.bytes, a - x + 1, b - x)]
  BY <1>1 DEF Window
<1>3. PICK k \in Nat : k = a - x
  OBVIOUS
<1>4. PICK m \in Int : m = b - x
  OBVIOUS
<1>5. w.start = a /\ w.bytes = Stretch(s.bytes, k, m)
  BY <1>2, <1>3, <1>4 DEF Stretch
<1>6. CASE b <= a
  <2>1. m <= k /\ k \in Int
    BY <1>3, <1>4, <1>6
  <2>2. Stretch(s.bytes, k, m) = <<>>
    <3>1. s.bytes \in Seq(Nat)
      BY DEF ContentSegment
    <3> QED
      BY <2>1, <3>1, PartEnds
  <2> QED
    BY <1>5, <1>6, <2>2
<1>7. CASE ~ (b <= a)
  <2>1. m \in Nat /\ k <= m /\ m <= y - x /\ x <= y /\ x + k = a /\ x + m = b
    BY <1>3, <1>4, <1>7
  <2>2. Stretch(Stretch(W, x, y), k, m) = Stretch(W, x + k, x + m)
    BY <2>1, PartOfPart
  <2>3. w.bytes = Stretch(W, a, b)
    BY <1>5, <2>1, <2>2
  <2>4. b <= Len(W)
    <3>1. Len(W) \in Nat
      BY LenProperties
    <3> QED
      BY <3>1
  <2>6. Stretch(W, a, b) # <<>>
    BY <1>7, <2>4, PartIsFull
  <2> QED
    BY <1>5, <1>7, <2>3, <2>6
<1> QED
  BY <1>6, <1>7

\* Another window goes on from the ones before.
LEMMA JoinIs ==
    ASSUME NEW W \in Seq(Nat), NEW a \in Nat, NEW b \in Nat, NEW c \in Nat, NEW d \in Nat,
           d <= Len(W), NEW w, w.start = c,
           IF d <= c THEN w.bytes = <<>> ELSE w.bytes = Stretch(W, c, d) /\ w.bytes # <<>>,
           d <= c => Piecewise(W, a, d) = Piecewise(W, a, b),
           ~ (d <= c) => (IF b <= a THEN c = a /\ w = [start |-> c, bytes |-> Stretch(W, c, d)] ELSE c = b)
    PROVE  Join(Piecewise(W, a, b), w) = Piecewise(W, a, d)
<1>1. CASE d <= c
  BY <1>1 DEF Join
<1>2. CASE ~ (d <= c) /\ b <= a
  <2>1. Piecewise(W, a, b) = <<>>
    BY <1>2 DEF Piecewise
  <2>2. Join(<<>>, w) = <<w>>
    <3>1. w.bytes # <<>>
      BY <1>2
    <3>2. Append(<<>>, w) = <<w>>
      OBVIOUS
    <3> QED
      BY <3>1, <3>2 DEF Join
  <2>3. w = [start |-> a, bytes |-> Stretch(W, a, d)] /\ ~ (d <= a)
    BY <1>2
  <2>4. Piecewise(W, a, d) = <<w>>
    BY <2>3 DEF Piecewise
  <2> QED
    BY <2>1, <2>2, <2>4
<1>3. CASE ~ (d <= c) /\ ~ (b <= a)
  <2>1. c = b /\ w.bytes = Stretch(W, b, d) /\ w.bytes # <<>> /\ w.start = b
    BY <1>3
  <2>2. PICK x : x = Stretch(W, a, b)
    OBVIOUS
  <2>3. PICK ws : ws = <<[start |-> a, bytes |-> x]>>
    OBVIOUS
  <2>4. Piecewise(W, a, b) = ws
    BY <1>3, <2>2, <2>3 DEF Piecewise
  <2>5. Len(ws) = 1 /\ ws # <<>> /\ Last(ws) = [start |-> a, bytes |-> x]
    BY <2>3 DEF Last
  <2>6. LogicalEnd(Last(ws)) = b
    <3>1. a <= b /\ b <= Len(W)
      <4>1. Len(W) \in Nat
        BY LenProperties
      <4> QED
        BY <1>3, <2>1, <4>1
    <3>2. Len(Stretch(W, a, b)) = b - a
      BY <3>1, PartIs, ZenonT(30)
    <3>3. LogicalEnd(Last(ws)) = a + Len(x)
      BY <2>5 DEF LogicalEnd
    <3> QED
      BY <2>2, <3>2, <3>3
  <2>7. PICK y : y = x \o w.bytes
    OBVIOUS
  <2>8. y = Stretch(W, a, d)
    <3>1. a <= b /\ b <= d
      BY <1>3, <2>1
    <3>2. Stretch(W, a, b) \o Stretch(W, b, d) = Stretch(W, a, d)
      BY <3>1, PartJoins, ZenonT(40)
    <3> QED
      BY <2>1, <2>2, <2>7, <3>2
  <2>9. Join(ws, w) = [ws EXCEPT ![Len(ws)].bytes = @ \o w.bytes]
    BY <2>1, <2>5, <2>6 DEF Join
  <2>10. Join(ws, w) = [ws EXCEPT ![1].bytes = y]
    BY <2>3, <2>5, <2>7, <2>9
  <2>11. [ws EXCEPT ![1].bytes = y] = <<[start |-> a, bytes |-> y]>>
    BY <2>3
  <2>12. Piecewise(W, a, d) = <<[start |-> a, bytes |-> y]>>
    <3>1. ~ (d <= a)
      BY <1>3, <2>1
    <3> QED
      BY <2>8, <3>1 DEF Piecewise
  <2> QED
    BY <2>4, <2>10, <2>11, <2>12
<1> QED
  BY <1>1, <1>2, <1>3

\* What is shown of a direction is one piece: the part of what is kept that was asked for.
LEMMA WindowsAre ==
    ASSUME NEW c \in ContentDirection, NEW W \in Seq(Nat), TailOf(c, W),
           NEW start \in Nat, NEW end \in Nat
    PROVE  Windows(c, start, end) =
             Piecewise(W, Max({Len(W) - c.stored, start}), Min({Len(W), end}))
<1>1. c.segments \in Seq(ContentSegment)
  BY DEF ContentDirection
<1>2. PICK n \in Nat : n = Len(c.segments) /\ DOMAIN c.segments = 1 .. n
  BY <1>1, LenProperties
<1>3. PICK h : JoinsUp(h, c, start, end, n)
  BY <1>2, WindowsInTurn
<1>4. PICK l \in Nat : l = Len(W)
  BY LenProperties
<1>5. PICK E : E = [i \in 0 .. n |-> Edge(c, W, i)]
  OBVIOUS
<1>6. \A i \in 0 .. n : E[i] \in Nat /\ E[i] <= l
  BY <1>2, <1>4, <1>5, EdgeIs
<1>7. E[n] = l /\ E[0] = Len(W) - c.stored
  BY <1>2, <1>4, <1>5 DEF Edge, TailOf
<1>8. PICK lost \in Nat : lost = E[0]
  BY <1>6
<1>9. ASSUME NEW i \in 1 .. n
      PROVE  /\ c.segments[i] \in ContentSegment
             /\ c.segments[i].start = E[i - 1] /\ LogicalEnd(c.segments[i]) = E[i] /\ E[i - 1] < E[i]
             /\ c.segments[i].bytes = Stretch(W, E[i - 1], E[i])
  <2>1. i \in 1 .. Len(c.segments) /\ i - 1 \in 0 .. n /\ i \in 0 .. n
    BY <1>2
  <2>2. E[i - 1] = Edge(c, W, i - 1) /\ E[i] = Edge(c, W, i)
    BY <1>5, <2>1
  <2> QED
    BY <2>1, <2>2, SegmentIs
<1>10. PICK a \in Nat : a = IF lost <= start THEN start ELSE lost
  OBVIOUS
<1> DEFINE to(i) == IF E[i] <= end THEN E[i] ELSE end
           G == {i \in Nat : i <= n => lost <= E[i] /\ h[i] = Piecewise(W, a, to(i))}
<1>11. 0 \in G
  <2>1. h[0] = <<>>
    BY <1>3 DEF JoinsUp
  <2>2. to(0) <= a
    BY <1>8, <1>10
  <2>3. Piecewise(W, a, to(0)) = <<>>
    BY <2>2 DEF Piecewise
  <2> QED
    BY <1>8, <2>1, <2>3
<1>12. ASSUME NEW i \in Nat, i \in G
       PROVE  i + 1 \in G
  <2> SUFFICES ASSUME i + 1 <= n
               PROVE  lost <= E[i + 1] /\ h[i + 1] = Piecewise(W, a, to(i + 1))
    OBVIOUS
  <2>1. PICK j \in 1 .. n : j = i + 1 /\ j - 1 = i /\ i \in 0 .. n /\ j \in 0 .. n
    BY <1>2
  <2>2. PICK s \in ContentSegment : s = c.segments[j]
    BY <1>9
  <2>3. PICK x \in Nat : x = E[i]
    BY <1>6, <2>1
  <2>4. PICK y \in Nat : y = E[j] /\ y <= l
    BY <1>6, <2>1
  <2>5. s.start = x /\ LogicalEnd(s) = y /\ x < y /\ s.bytes = Stretch(W, x, y)
    BY <1>9, <2>1, <2>2, <2>3, <2>4
  <2>6. lost <= x /\ h[i] = Piecewise(W, a, to(i))
    BY <1>12, <2>1, <2>3
  <2>7. PICK w : w = Window(s, start, end)
    OBVIOUS
  <2>8. h[j] = Join(h[i], w)
    BY <1>3, <2>1, <2>2, <2>7 DEF JoinsUp
  <2>9. PICK p \in Nat : p = IF x <= start THEN start ELSE x
    OBVIOUS
  <2>10. PICK q \in Nat : q = IF y <= end THEN y ELSE end
    OBVIOUS
  <2>11. PICK b \in Nat : b = IF x <= end THEN x ELSE end
    OBVIOUS
  <2>12. w.start = p /\ (IF q <= p THEN w.bytes = <<>> ELSE w.bytes = Stretch(W, p, q) /\ w.bytes # <<>>)
    <3>1. y <= Len(W)
      BY <1>4, <2>4
    <3> QED
      BY <2>5, <2>7, <2>9, <2>10, <3>1, WindowIs
  <2>13. to(i) = b /\ to(j) = q
    BY <2>3, <2>4, <2>10, <2>11
  <2>14. q <= p => Piecewise(W, a, q) = Piecewise(W, a, b)
    <3> SUFFICES ASSUME q <= p
                 PROVE  Piecewise(W, a, q) = Piecewise(W, a, b)
      OBVIOUS
    <3>1. CASE end <= x
      <4>1. q = b
        BY <2>5, <2>10, <2>11, <3>1
      <4> QED
        BY <4>1
    <3>2. CASE ~ (end <= x)
      <4>1. q <= a /\ b <= a
        BY <1>10, <2>5, <2>9, <2>10, <2>11, <3>2
      <4> QED
        BY <4>1 DEF Piecewise
    <3> QED
      BY <3>1, <3>2
  <2>15. ~ (q <= p) => (IF b <= a THEN p = a /\ w = [start |-> p, bytes |-> Stretch(W, p, q)] ELSE p = b)
    <3> SUFFICES ASSUME ~ (q <= p)
                 PROVE  IF b <= a THEN p = a /\ w = [start |-> p, bytes |-> Stretch(W, p, q)] ELSE p = b
      OBVIOUS
    <3>1. b = x
      BY <2>5, <2>9, <2>10, <2>11
    <3>2. b <= a => p = a
      BY <1>10, <2>6, <2>9, <3>1
    <3>3. ~ (b <= a) => p = b
      BY <1>10, <2>6, <2>9, <3>1
    <3>4. w = [start |-> p, bytes |-> Stretch(W, p, q)]
      <4>1. w = [start |-> w.start, bytes |-> w.bytes]
        BY <2>7 DEF Window
      <4> QED
        BY <2>12, <4>1
    <3> QED
      BY <3>2, <3>3, <3>4
  <2>16. q <= Len(W)
    BY <1>4, <2>4, <2>10
  <2>17. Join(Piecewise(W, a, b), w) = Piecewise(W, a, q)
    <3> HIDE DEF to
    <3> QED
      BY <2>12, <2>14, <2>15, <2>16, JoinIs
  <2>18. lost <= y
    BY <2>5, <2>6
  <2> HIDE DEF to
  <2> QED
    BY <2>1, <2>4, <2>6, <2>8, <2>13, <2>17, <2>18
<1>13. n \in G
  <2> HIDE DEF G
  <2> QED
    BY <1>11, <1>12, NumberInduction
<1>14. Max({Len(W) - c.stored, start}) = a /\ Min({Len(W), end}) = to(n)
  <2>1. PICK x \in Int : x = Len(W) - c.stored /\ x = lost
    BY <1>7, <1>8
  <2>2. l \in Int /\ start \in Int /\ end \in Int
    OBVIOUS
  <2>3. Max({x, start}) = a
    BY <1>10, <2>1, <2>2, SmallerOrLarger
  <2>4. Min({l, end}) = to(n)
    BY <1>7, <2>2, SmallerOrLarger
  <2> QED
    BY <1>4, <2>1, <2>3, <2>4
<1> QED
  BY <1>3, <1>13, <1>14 DEF JoinsUp

\* What is kept is the end of the stream.
LEMMA KeptIs ==
    ASSUME NEW c \in ContentDirection, NEW W \in Seq(Nat), TailOf(c, W)
    PROVE  Len(FlattenSeq([i \in DOMAIN c.segments |-> c.segments[i].bytes])) = c.stored
<1>1. c.segments \in Seq(ContentSegment) /\ c.stored \in Nat
  BY DEF ContentDirection
<1>2. PICK n \in Nat : n = Len(c.segments) /\ DOMAIN c.segments = 1 .. n
  BY <1>1, LenProperties
<1>3. PICK s : s = [i \in 1 .. n |-> c.segments[i].bytes]
  OBVIOUS
<1>4. PICK E : E = [i \in 0 .. n |-> Edge(c, W, i)]
  OBVIOUS
<1>5. \A i \in 0 .. n : E[i] \in Nat
  BY <1>2, <1>4, EdgeIs
<1>6. E[n] = E[0] + c.stored
  <2>1. E[n] = Len(W) /\ E[0] = Len(W) - c.stored
    BY <1>2, <1>4 DEF Edge, TailOf
  <2>2. Len(W) \in Nat
    BY LenProperties
  <2> QED
    BY <1>1, <2>1, <2>2
<1>7. ASSUME NEW i \in 1 .. n
      PROVE  s[i] \in Seq(Nat) /\ Len(s[i]) = E[i] - E[i - 1]
  <2>1. i \in 1 .. Len(c.segments) /\ i - 1 \in 0 .. n /\ i \in 0 .. n
    BY <1>2
  <2>2. E[i - 1] = Edge(c, W, i - 1) /\ E[i] = Edge(c, W, i)
    BY <1>4, <2>1
  <2>3. PICK t \in ContentSegment : t = c.segments[i] /\ t.start = E[i - 1] /\ LogicalEnd(t) = E[i]
    BY <2>1, <2>2, SegmentIs
  <2>4. t.bytes \in Seq(Nat) /\ Len(t.bytes) \in Nat
    BY LenProperties DEF ContentSegment
  <2>5. E[i] = E[i - 1] + Len(t.bytes)
    BY <2>3 DEF LogicalEnd
  <2>6. E[i] \in Nat /\ E[i - 1] \in Nat
    BY <1>5, <2>1
  <2>7. s[i] = t.bytes
    BY <1>3, <2>3
  <2>8. Len(t.bytes) = E[i] - E[i - 1]
    <3>1. PICK k \in Nat, x \in Nat, y \in Nat : k = Len(t.bytes) /\ x = E[i] /\ y = E[i - 1]
      BY <2>4, <2>6, Zenon
    <3>2. x = y + k
      BY <2>5, <3>1
    <3>3. k = x - y
      BY <3>2
    <3> QED
      BY <3>1, <3>3
  <2> QED
    BY <2>4, <2>7, <2>8, Zenon
<1>8. s \in Seq(Seq(Nat)) /\ n = Len(s)
  <2>1. s \in [1 .. n -> Seq(Nat)]
    BY <1>3, <1>7
  <2>2. s \in Seq(Seq(Nat))
    <3>1. n \in Nat
      BY <1>2
    <3>2. [1 .. n -> Seq(Nat)] \in {[1 .. m -> Seq(Nat)] : m \in Nat}
      BY <3>1
    <3>3. s \in UNION {[1 .. m -> Seq(Nat)] : m \in Nat}
      BY <2>1, <3>2, Zenon
    <3>4. Seq(Seq(Nat)) = UNION {[1 .. m -> Seq(Nat)] : m \in Nat}
      BY SeqDef, Zenon
    <3> QED
      BY <3>3, <3>4, Zenon
  <2>3. Len(s) \in Nat /\ DOMAIN s = 1 .. Len(s)
    BY <2>2, LenProperties, Zenon
  <2>4. DOMAIN s = 1 .. n
    BY <1>3
  <2>5. n = Len(s)
    <3>1. PICK k \in Nat : k = Len(s)
      BY <2>3
    <3>2. 1 .. n = 1 .. k
      BY <2>3, <2>4, <3>1, Zenon
    <3>3. \A j : j \in 1 .. n <=> j \in 1 .. k
      BY <3>2, Zenon
    <3>4. n \in Nat
      BY <1>2
    <3>5. n \in 1 .. n \/ n = 0
      BY <3>4
    <3>6. k \in 1 .. k \/ k = 0
      BY <3>1
    <3>7. n = k
      BY <3>1, <3>3, <3>4, <3>5, <3>6
    <3> QED
      BY <3>1, <3>7, SMTT(30)
  <2> QED
    BY <2>2, <2>5
<1>9. PICK w : Flattens(w, s, n)
  BY <1>8, FlattenInTurn
<1> DEFINE G == {i \in Nat : i <= n => w[i] \in Seq(Nat) /\ E[i] = E[0] + Len(w[i])}
<1>10. 0 \in G
  <2>1. w[0] = <<>>
    BY <1>9 DEF Flattens
  <2>2. <<>> \in Seq(Nat) /\ Len(<<>>) = 0
    OBVIOUS
  <2>3. w[0] \in Seq(Nat)
    BY <2>1, <2>2, Zenon
  <2>4. Len(w[0]) = 0
    BY <2>1, <2>2, Zenon
  <2>5. E[0] \in Nat
    BY <1>5
  <2>6. E[0] = E[0] + Len(w[0])
    BY <2>4, <2>5
  <2> QED
    BY <2>3, <2>6
<1>11. ASSUME NEW i \in Nat, i \in G
       PROVE  i + 1 \in G
  <2> SUFFICES ASSUME i + 1 <= n
               PROVE  w[i + 1] \in Seq(Nat) /\ E[i + 1] = E[0] + Len(w[i + 1])
    OBVIOUS
  <2>1. PICK j \in 1 .. n : j = i + 1 /\ j - 1 = i /\ i <= n /\ i \in 0 .. n /\ j \in 0 .. n
    BY <1>2
  <2>2. PICK x \in Seq(Nat) : x = w[i] /\ E[i] = E[0] + Len(x)
    BY <1>11, <2>1
  <2>3. PICK b \in Seq(Nat) : b = s[j] /\ Len(b) = E[j] - E[i]
    BY <1>7, <2>1
  <2>4. w[j] = x \o b
    BY <1>9, <2>1, <2>2, <2>3 DEF Flattens
  <2>5. x \o b \in Seq(Nat) /\ Len(x \o b) = Len(x) + Len(b)
    BY ConcatProperties
  <2>6. Len(b) \in Nat /\ Len(x) \in Nat /\ E[0] \in Nat /\ E[i] \in Nat /\ E[j] \in Nat
    BY <1>5, <2>1, LenProperties
  <2>7. E[j] = E[0] + Len(x \o b)
    <3>1. PICK p, q, r, u, v \in Int : p = E[0] /\ q = E[i] /\ r = E[j] /\ u = Len(x) /\ v = Len(b)
      BY <2>6, SMTT(30)
    <3>2. Len(x \o b) = u + v
      BY <2>5, <3>1, Zenon
    <3>3. q = p + u /\ v = r - q
      BY <2>2, <2>3, <3>1, Zenon
    <3>4. r = p + (u + v)
      BY <3>3
    <3> QED
      BY <3>1, <3>2, <3>4, Zenon
  <2> QED
    BY <2>1, <2>4, <2>5, <2>7
<1>12. n \in G
  <2> HIDE DEF G
  <2> QED
    BY <1>10, <1>11, NumberInduction
<1>13. PICK x \in Seq(Nat) : x = w[n] /\ E[n] = E[0] + Len(x)
  BY <1>12
<1>14. Len(x) = c.stored
  <2>1. Len(x) \in Nat /\ E[0] \in Nat
    BY <1>5, LenProperties
  <2> QED
    BY <1>1, <1>6, <1>13, <2>1
<1>15. x = FlattenSeq([i \in DOMAIN c.segments |-> c.segments[i].bytes])
  BY <1>2, <1>3, <1>9, <1>13 DEF Flattens
<1> QED
  BY <1>14, <1>15

\* What has gone of a direction.
LEMMA LostIs ==
    ASSUME ContentOK, TakenOK, NEW f \in DOMAIN content, NEW d \in Directions
    PROVE  /\ content[f].dirs[d] \in ContentDirection /\ taken[f][d] \in Seq(Nat)
           /\ TailOf(content[f].dirs[d], taken[f][d])
           /\ Lost(f, d) = Len(taken[f][d]) - content[f].dirs[d].stored
<1>1. content[f] \in ContentRecord
  BY DEF ContentOK, Contents
<1>2. PICK c \in ContentDirection : c = content[f].dirs[d]
  BY <1>1 DEF ContentRecord
<1>3. RecordTail(content[f], taken[f])
  BY DEF TakenOK
<1>4. taken[f][d] \in Seq(Nat) /\ TailOf(c, taken[f][d])
  BY <1>2, <1>3 DEF RecordTail
<1>5. Len(FlattenSeq([i \in DOMAIN c.segments |-> c.segments[i].bytes])) = c.stored
  BY <1>4, KeptIs
<1>6. Lost(f, d) = Len(taken[f][d]) - c.stored
  BY <1>2, <1>5 DEF Lost, Kept
<1> QED
  BY <1>2, <1>4, <1>6

-----------------------------------------------------------------------------
(* What is kept of the streams, in every run *)

LEMMA ContentOfPacket ==
    ASSUME PipelineOK, NEW p \in Packets, AnalyzePacket(p)
    PROVE  /\ observation'.chunks \in Seq(Chunks(p.flow)) /\ ContentMoved(p)
           /\ ContentOK' /\ ranges' \in Seq(ContentRange)
<1>1. ObserveFlow(p) /\ ObserveContent(p, observation')
  BY DEF AnalyzePacket, ObserveAndScan
<1>2. observation'.chunks \in Seq(Chunks(p.flow))
  BY <1>1, FlowStep DEF PipelineOK, TablesOK
<1> QED
  BY <1>1, <1>2, ContentStep DEF PipelineOK, TablesOK

LEMMA TakenInit == Init => TakenOK
<1> SUFFICES ASSUME Init
             PROVE  TakenOK
  OBVIOUS
<1>1. taken = [f \in Flows |-> NothingGiven] /\ content = <<>>
  BY DEF Init, ContentInit, NothingGiven
<1>2. NothingGiven \in [Directions -> Seq(Nat)]
  BY NothingLays
<1>3. DOMAIN content = {}
  BY <1>1
<1> QED
  BY <1>1, <1>2, <1>3 DEF TakenOK

LEMMA TakenKeeps == PipelineOK /\ TakenOK /\ [Next]_vars => TakenOK'
<1> SUFFICES ASSUME PipelineOK, TakenOK, [Next]_vars
             PROVE  TakenOK'
  OBVIOUS
<1>1. ASSUME NEW p \in Packets, AnalyzePacket(p)
      PROVE  TakenOK'
  <2>1. Remember(p, observation')
    BY <1>1 DEF AnalyzePacket
  <2>2. ContentOK
    BY DEF PipelineOK, TablesOK
  <2> QED
    BY <1>1, <2>1, <2>2, ContentOfPacket, TakeStep
<1>2. ASSUME UNCHANGED <<content_vars, history_vars>>
      PROVE  TakenOK'
  BY <1>2 DEF content_vars, history_vars, TakenOK
<1>3. ASSUME NEW p \in Packets, DumpPacket(p)
      PROVE  UNCHANGED <<content_vars, history_vars>>
  BY <1>3 DEF DumpPacket
<1>4. MalformedPacket \/ EndBatch \/ Finish \/ UNCHANGED vars => UNCHANGED <<content_vars, history_vars>>
  BY DEF MalformedPacket, EndBatch, Finish, vars
<1> QED
  BY <1>1, <1>2, <1>3, <1>4 DEF Next

\* The end of what a stream was given is kept, within the stream's limit
\* (trim_to_limit), and a slice that a client asks for between any two steps
\* (direction_windows) is the one contiguous piece of it that the request meets.
THEOREM SlicesAreTheStream == Spec => []SlicesShowTheStream
<1>1. Init => PipelineOK /\ TakenOK
  BY InitOK, TakenInit
<1>2. PipelineOK /\ TakenOK /\ [Next]_vars => PipelineOK' /\ TakenOK'
  BY NextKeeps, TakenKeeps
<1>3. PipelineOK /\ TakenOK => SlicesShowTheStream
  <2> SUFFICES ASSUME ContentOK, TakenOK, NEW f \in DOMAIN content, f \in Tracked(view)
               PROVE  /\ RecordBytes(content[f]) <= MaxStreamBytes
                      /\ \A req \in Requests(f) :
                            LET slice == Slice(content, view, req)
                                whole == taken[f][req.dir]
                                from == Max({Lost(f, req.dir), slice.start})
                                shown == SubSeq(whole, from + 1, Min({Len(whole), slice.end}))
                            IN  slice.segments = IF shown = <<>> THEN <<>>
                                                 ELSE <<[start |-> from, bytes |-> shown]>>
    BY DEF SlicesShowTheStream, PipelineOK, TablesOK
  <2>1. RecordBytes(content[f]) <= MaxStreamBytes
    BY DEF TakenOK
  <2>2. ASSUME NEW req \in Requests(f)
        PROVE  LET slice == Slice(content, view, req)
                   whole == taken[f][req.dir]
                   from == Max({Lost(f, req.dir), slice.start})
                   shown == SubSeq(whole, from + 1, Min({Len(whole), slice.end}))
               IN  slice.segments = IF shown = <<>> THEN <<>>
                                    ELSE <<[start |-> from, bytes |-> shown]>>
    <3> DEFINE slice == Slice(content, view, req)
               whole == taken[f][req.dir]
               from == Max({Lost(f, req.dir), slice.start})
               shown == SubSeq(whole, from + 1, Min({Len(whole), slice.end}))
    <3> SUFFICES slice.segments = IF shown = <<>> THEN <<>>
                                  ELSE <<[start |-> from, bytes |-> shown]>>
      OBVIOUS
    <3>0. /\ slice = Slice(content, view, req)
          /\ whole = taken[f][req.dir]
          /\ from = Max({Lost(f, req.dir), slice.start})
          /\ shown = SubSeq(whole, from + 1, Min({Len(whole), slice.end}))
      OBVIOUS
    <3> HIDE DEF slice, whole, from, shown
    <3>1. req.flow = f /\ req.dir \in Directions /\ req.start \in Nat /\ req.max_bytes \in Nat \ {0}
      BY RequestAssumption DEF Requests
    <3>2. PICK d \in Directions : d = req.dir
      BY <3>1
    <3>3. PICK start \in Nat : start = req.start
      BY <3>1
    <3>4. PICK size \in Nat : size = Min({req.max_bytes, MaxSliceBytes})
      <4>1. req.max_bytes \in Int /\ MaxSliceBytes \in Int /\ req.max_bytes \in Nat /\ MaxSliceBytes \in Nat
        BY <3>1, SliceAssumption
      <4>2. Min({req.max_bytes, MaxSliceBytes}) \in {req.max_bytes, MaxSliceBytes}
        BY <4>1, OfTwo
      <4> QED
        BY <4>1, <4>2
    <3>5. PICK end \in Nat : end = start + size
      OBVIOUS
    <3>6. PICK c \in ContentDirection : c = content[f].dirs[d]
      BY LostIs
    <3>7. whole \in Seq(Nat) /\ TailOf(c, whole) /\ Lost(f, d) = Len(whole) - c.stored
      BY <3>0, <3>2, <3>6, LostIs
    <3>8. slice.start = start /\ slice.end = end /\ slice.segments = Windows(c, start, end)
      <4>1. req.max_bytes # 0
        BY <3>1
      <4> QED
        BY <3>0, <3>1, <3>2, <3>3, <3>4, <3>5, <3>6, <4>1 DEF Slice
    <3>9. PICK to : to = Min({Len(whole), end})
      OBVIOUS
    <3>10. from = Max({Len(whole) - c.stored, start})
      BY <3>0, <3>2, <3>7, <3>8
    <3>11. Windows(c, start, end) = Piecewise(whole, from, to)
      BY <3>7, <3>9, <3>10, WindowsAre
    <3>12. shown = Stretch(whole, from, to)
      BY <3>0, <3>8, <3>9 DEF Stretch
    <3>13. PICK l \in Nat : l = Len(whole)
      BY <3>7, LenProperties
    <3>14. PICK lost \in Nat : lost = Len(whole) - c.stored
      <4>1. c.stored \in Nat /\ c.stored <= Len(whole)
        BY <3>7 DEF ContentDirection, TailOf
      <4> QED
        BY <3>13, <4>1
    <3>15. from \in Nat /\ to \in Nat /\ to <= Len(whole)
      <4>1. lost \in Int /\ start \in Int /\ l \in Int /\ end \in Int
        OBVIOUS
      <4>2. Max({lost, start}) \in {lost, start} /\ Min({l, end}) \in {l, end} /\ Min({l, end}) <= l
        BY <4>1, OfTwo
      <4> QED
        BY <3>9, <3>10, <3>13, <3>14, <4>2
    <3>16. shown = <<>> <=> to <= from
      <4>1. to <= from => shown = <<>>
        BY <3>7, <3>12, <3>15, PartEnds
      <4>2. ~ (to <= from) => shown # <<>>
        BY <3>7, <3>12, <3>15, PartIsFull
      <4> QED
        BY <4>1, <4>2
    <3> QED
      BY <3>8, <3>11, <3>12, <3>16 DEF Piecewise
  <2> QED
    BY <2>1, <2>2
<1> QED
  BY <1>1, <1>2, <1>3, PTL DEF Spec


-----------------------------------------------------------------------------
(* What is found in a piece of bytes *)

Found == [pattern : DOMAIN Patterns, start : Nat, end : Nat]
IsRegex(m) == Patterns[m.pattern].regex

\* An occurrence is a hit of its pattern, and every hit is one.
LEMMA OccurrenceIs ==
    ASSUME NEW bytes \in Seq(Nat)
    PROVE  /\ \A m \in Occurrences(bytes) :
                /\ m \in Found /\ m.start < m.end /\ m.end <= Len(bytes)
                /\ <<m.start, m.end>> \in HitsOf(Patterns[m.pattern], bytes)
           /\ \A i \in DOMAIN Patterns : \A a, b \in Nat :
                <<a, b>> \in HitsOf(Patterns[i], bytes)
                    => [pattern |-> i, start |-> a, end |-> b] \in Occurrences(bytes)
<1>1. PICK n \in Nat : n = Len(bytes)
  BY LenProperties
<1>2. ASSUME NEW m \in Occurrences(bytes)
      PROVE  /\ m \in Found /\ m.start < m.end /\ m.end <= n
             /\ <<m.start, m.end>> \in HitsOf(Patterns[m.pattern], bytes)
  <2>1. PICK i \in DOMAIN Patterns : m \in Finds(i, bytes)
    BY <1>2 DEF Occurrences
  <2>2. PICK x \in HitsOf(Patterns[i], bytes) : m = [pattern |-> i, start |-> x[1], end |-> x[2]]
    BY <2>1 DEF Finds
  <2>3. x \in Spans(bytes)
    BY <2>2 DEF HitsOf, RegexHits, LiteralHits
  <2>4. x \in (0 .. n) \X (0 .. n) /\ x[1] < x[2]
    BY <1>1, <2>3 DEF Spans
  <2>5. PICK a \in 0 .. n, b \in 0 .. n : x = <<a, b>> /\ a < b
    BY <2>4
  <2>6. m = [pattern |-> i, start |-> a, end |-> b]
    BY <2>2, <2>5
  <2> QED
    BY <2>2, <2>5, <2>6 DEF Found
<1>3. ASSUME NEW i \in DOMAIN Patterns, NEW a \in Nat, NEW b \in Nat, <<a, b>> \in HitsOf(Patterns[i], bytes)
      PROVE  [pattern |-> i, start |-> a, end |-> b] \in Occurrences(bytes)
  <2>1. PICK x \in HitsOf(Patterns[i], bytes) : x = <<a, b>>
    BY <1>3
  <2>2. [pattern |-> i, start |-> x[1], end |-> x[2]] \in Finds(i, bytes)
    BY DEF Finds
  <2>3. x[1] = a /\ x[2] = b
    BY <2>1
  <2> QED
    BY <2>2, <2>3 DEF Occurrences
<1> QED
  BY <1>1, <1>2, <1>3

\* The order in which they are found.
LiteralBefore(a, b) ==
    \/ a.end < b.end
    \/ a.end = b.end /\ (a.start < b.start \/ (a.start = b.start /\ a.pattern < b.pattern))
RegexBefore(a, b) == a.pattern < b.pattern \/ (a.pattern = b.pattern /\ a.start < b.start)
LEMMA BeforeIs ==
    ASSUME NEW a \in Found, NEW b \in Found
    PROVE  /\ IsRegex(a) \in BOOLEAN /\ IsRegex(b) \in BOOLEAN
           /\ IsRegex(a) => (FoundBefore(a, b) <=> IsRegex(b) /\ RegexBefore(a, b))
           /\ ~ IsRegex(a) => (FoundBefore(a, b) <=> IsRegex(b) \/ LiteralBefore(a, b))
<1>1. IsRegex(a) \in BOOLEAN /\ IsRegex(b) \in BOOLEAN
  BY PatternAssumption DEF Found, IsRegex
<1>2. FoundBefore(a, b) <=>
        \/ ~ IsRegex(a) /\ IsRegex(b)
        \/ ~ IsRegex(a) /\ ~ IsRegex(b) /\ LiteralBefore(a, b)
        \/ IsRegex(a) /\ IsRegex(b) /\ RegexBefore(a, b)
  BY DEF FoundBefore, IsRegex, LiteralBefore, RegexBefore
<1>3. IsRegex(a) => (FoundBefore(a, b) <=> IsRegex(b) /\ RegexBefore(a, b))
  BY <1>2, Zenon
<1>4. ~ IsRegex(a) => (FoundBefore(a, b) <=> IsRegex(b) \/ LiteralBefore(a, b))
  <2>1. CASE IsRegex(b)
    BY <1>2, <2>1, Zenon
  <2>2. CASE ~ IsRegex(b)
    BY <1>2, <2>2, Zenon
  <2> QED
    BY <2>1, <2>2
<1> QED
  BY <1>1, <1>3, <1>4, Zenon

LEMMA FoundInOrder ==
    ASSUME NEW bytes \in Seq(Nat), NEW S, S = Occurrences(bytes),
           NEW R, R = {p \in S \X S : FoundBefore(p[1], p[2])}
    PROVE  Orders(R, S) /\ \A x, y \in S : <<x, y>> \in R <=> FoundBefore(x, y)
<1>1. \A m \in S : m \in Found
  BY OccurrenceIs
<1>2. \A m \in Found : m.pattern \in Int /\ m.start \in Int /\ m.end \in Int
  BY PatternAssumption DEF Found
<1>3. \A x, y \in S : <<x, y>> \in R <=> FoundBefore(x, y)
  OBVIOUS
<1>4. ASSUME NEW x \in S
      PROVE  ~ FoundBefore(x, x)
  <2>1. x \in Found
    BY <1>1
  <2>2. ~ LiteralBefore(x, x) /\ ~ RegexBefore(x, x)
    BY <1>2, <2>1 DEF LiteralBefore, RegexBefore
  <2> QED
    BY <2>1, <2>2, BeforeIs, Zenon
<1>5. ASSUME NEW x \in S, NEW y \in S, x # y
      PROVE  FoundBefore(x, y) \/ FoundBefore(y, x)
  <2>1. x \in Found /\ y \in Found
    BY <1>1
  <2>2. LiteralBefore(x, y) \/ LiteralBefore(y, x)
    <3>1. x = y <=> x.pattern = y.pattern /\ x.start = y.start /\ x.end = y.end
      BY <2>1 DEF Found
    <3> QED
      BY <1>2, <1>5, <2>1, <3>1 DEF LiteralBefore
  <2>3. ASSUME IsRegex(x), IsRegex(y)
        PROVE  RegexBefore(x, y) \/ RegexBefore(y, x)
    <3> SUFFICES ASSUME x.pattern = y.pattern, x.start = y.start
                 PROVE  FALSE
      BY <1>2, <2>1 DEF RegexBefore
    <3>1. x.end # y.end
      BY <1>5, <2>1 DEF Found
    <3>2. PICK i \in DOMAIN Patterns : i = x.pattern /\ i = y.pattern
      BY <2>1 DEF Found
    <3>3. PICK s \in Nat : s = x.start /\ s = y.start
      BY <2>1 DEF Found
    <3>4. PICK a \in Nat, b \in Nat : a = x.end /\ b = y.end
      BY <2>1 DEF Found
    <3>5. <<s, a>> \in RegexHits(Patterns[i].value, bytes) /\ <<s, b>> \in RegexHits(Patterns[i].value, bytes)
      <4>1. <<s, a>> \in HitsOf(Patterns[i], bytes) /\ <<s, b>> \in HitsOf(Patterns[i], bytes)
        BY <3>2, <3>3, <3>4, OccurrenceIs
      <4>2. Patterns[i].regex
        BY <2>3, <3>2 DEF IsRegex
      <4> QED
        BY <4>1, <4>2 DEF HitsOf
    <3>6. PICK is : is = [j \in Nat |-> j \in 1 .. Len(bytes) /\ Letter(bytes[j]) = Patterns[i].value]
      OBVIOUS
    <3>7. ASSUME NEW c \in Nat, <<s, c>> \in RegexHits(Patterns[i].value, bytes)
          PROVE  s < c /\ ~ is[c + 1] /\ \A j \in s + 1 .. c : is[j]
      <4>1. PICK h : h = <<s, c>> /\ h \in RegexHits(Patterns[i].value, bytes) /\ h[1] = s /\ h[2] = c
        BY <3>7
      <4>2. h[1] < h[2]
        BY <4>1 DEF RegexHits, Spans
      <4>3. ~ (h[2] + 1 \in 1 .. Len(bytes) /\ Letter(bytes[h[2] + 1]) = Patterns[i].value)
        BY <4>1 DEF RegexHits
      <4>4. \A j \in h[1] + 1 .. h[2] : j \in 1 .. Len(bytes) /\ Letter(bytes[j]) = Patterns[i].value
        BY <4>1 DEF RegexHits
      <4>5. c + 1 \in Nat /\ \A j \in s + 1 .. c : j \in Nat
        OBVIOUS
      <4> QED
        BY <3>6, <4>1, <4>2, <4>3, <4>4, <4>5
    <3>8. /\ s < a /\ ~ is[a + 1] /\ \A j \in s + 1 .. a : is[j]
          /\ s < b /\ ~ is[b + 1] /\ \A j \in s + 1 .. b : is[j]
      BY <3>5, <3>7
    <3>9. a < b \/ b < a
      BY <3>1, <3>4
    <3>10. a < b => a + 1 \in s + 1 .. b
      BY <3>8
    <3>11. b < a => b + 1 \in s + 1 .. a
      BY <3>8
    <3> QED
      BY <3>8, <3>9, <3>10, <3>11
  <2> QED
    BY <2>1, <2>2, <2>3, BeforeIs, Zenon
<1>6. ASSUME NEW x \in S, NEW y \in S, NEW z \in S, FoundBefore(x, y), FoundBefore(y, z)
      PROVE  FoundBefore(x, z)
  <2>1. x \in Found /\ y \in Found /\ z \in Found
    BY <1>1
  <2>2. LiteralBefore(x, y) /\ LiteralBefore(y, z) => LiteralBefore(x, z)
    BY <1>2, <2>1 DEF LiteralBefore
  <2>3. RegexBefore(x, y) /\ RegexBefore(y, z) => RegexBefore(x, z)
    BY <1>2, <2>1 DEF RegexBefore
  <2>4. CASE IsRegex(x)
    BY <1>6, <2>1, <2>3, <2>4, BeforeIs, Zenon
  <2>5. CASE ~ IsRegex(x)
    <3>1. CASE IsRegex(z)
      BY <2>1, <2>5, <3>1, BeforeIs, Zenon
    <3>2. CASE ~ IsRegex(z)
      <4>1. ~ IsRegex(y)
        BY <1>6, <2>1, <3>2, BeforeIs, Zenon
      <4> QED
        BY <1>6, <2>1, <2>2, <2>5, <3>2, <4>1, BeforeIs, Zenon
    <3> QED
      BY <3>1, <3>2
  <2> QED
    BY <2>4, <2>5
<1> QED
  BY <1>3, <1>4, <1>5, <1>6 DEF Orders

\* The candidates list them.
LEMMA CandidatesList ==
    ASSUME NEW bytes \in Seq(Nat)
    PROVE  Lists(Candidates(bytes), Occurrences(bytes))
<1>1. PICK S : S = Occurrences(bytes) /\ IsFiniteSet(S)
  BY CandidatesIs
<1>2. PICK R : R = {p \in S \X S : FoundBefore(p[1], p[2])}
  OBVIOUS
<1>3. Orders(R, S) /\ \A x, y \in S : <<x, y>> \in R <=> FoundBefore(x, y)
  BY <1>1, <1>2, FoundInOrder
<1>4. PICK s : s = Candidates(bytes)
  OBVIOUS
<1>5. \A x \in S : RankIn(S, R, x) = Cardinality({y \in S : FoundBefore(y, x)})
  <2> SUFFICES ASSUME NEW x \in S
               PROVE  RankIn(S, R, x) = Cardinality({y \in S : FoundBefore(y, x)})
    OBVIOUS
  <2>1. {y \in S : <<y, x>> \in R} = {y \in S : FoundBefore(y, x)}
    BY <1>3
  <2> QED
    BY <2>1 DEF RankIn
<1>6. s = [k \in 1 .. Cardinality(S) |-> CHOOSE x \in S : Cardinality({y \in S : FoundBefore(y, x)}) = k - 1]
  BY <1>1, <1>4 DEF Candidates
<1>7. ASSUME NEW k \in DOMAIN s, \E x \in S : RankIn(S, R, x) = k - 1
      PROVE  s[k] \in S /\ RankIn(S, R, s[k]) = k - 1
  <2>1. \E x \in S : Cardinality({y \in S : FoundBefore(y, x)}) = k - 1
    BY <1>5, <1>7
  <2>2. s[k] = CHOOSE x \in S : Cardinality({y \in S : FoundBefore(y, x)}) = k - 1
    BY <1>6
  <2>3. s[k] \in S /\ Cardinality({y \in S : FoundBefore(y, s[k])}) = k - 1
    BY <2>1, <2>2
  <2> QED
    BY <1>5, <2>3
<1>8. DOMAIN s = 1 .. Cardinality(S)
  BY <1>6
<1>9. Lists(s, S)
  BY <1>1, <1>3, <1>7, <1>8, ListedInOrder
<1> QED
  BY <1>1, <1>4, <1>9


-----------------------------------------------------------------------------
(* Literals in pieces of a stream *)

Letters == {Letter(b) : b \in Nat}

LEMMA SameInterval ==
    ASSUME NEW n \in Nat, NEW k \in Nat, 1 .. n = 1 .. k
    PROVE  n = k
<1>1. ~ n < k
  <2> SUFFICES ASSUME n < k
               PROVE  FALSE
    OBVIOUS
  <2>1. k \in 1 .. k /\ k \notin 1 .. n
    OBVIOUS
  <2> QED
    BY <2>1
<1>2. ~ k < n
  <2> SUFFICES ASSUME k < n
               PROVE  FALSE
    OBVIOUS
  <2>1. n \in 1 .. n /\ n \notin 1 .. k
    OBVIOUS
  <2> QED
    BY <2>1
<1> QED
  BY <1>1, <1>2

LEMMA TextOfIs ==
    ASSUME NEW W \in Seq(Nat)
    PROVE  /\ TextOf(W) \in Seq(Letters) /\ Len(TextOf(W)) = Len(W)
           /\ \A j \in 1 .. Len(W) : TextOf(W)[j] = Letter(W[j])
<1>1. PICK n \in Nat : n = Len(W) /\ DOMAIN W = 1 .. n
  BY LenProperties
<1>2. PICK s : s = TextOf(W)
  OBVIOUS
<1>3. s = [i \in 1 .. n |-> Letter(W[i])]
  BY <1>1, <1>2 DEF TextOf
<1>4. \A j \in 1 .. n : s[j] = Letter(W[j]) /\ s[j] \in Letters
  <2>1. \A j \in 1 .. n : W[j] \in Nat
    BY <1>1, ElementOfSeq
  <2> QED
    BY <1>3, <2>1 DEF Letters
<1>5. s \in [1 .. n -> Letters]
  BY <1>3, <1>4
<1>6. s \in Seq(Letters)
  <2>1. [1 .. n -> Letters] \in {[1 .. m -> Letters] : m \in Nat}
    OBVIOUS
  <2>2. s \in UNION {[1 .. m -> Letters] : m \in Nat}
    BY <1>5, <2>1, Zenon
  <2> QED
    BY <2>2, SeqDef, Zenon
<1>7. Len(s) = n
  <2>1. Len(s) \in Nat /\ DOMAIN s = 1 .. Len(s)
    BY <1>6, LenProperties
  <2>2. DOMAIN s = 1 .. n
    BY <1>3
  <2> QED
    BY <2>1, <2>2, SameInterval
<1> QED
  BY <1>1, <1>2, <1>4, <1>6, <1>7

\* The text of a piece is a piece of the text.
LEMMA TextOfPart ==
    ASSUME NEW W \in Seq(Nat), NEW a \in Nat, NEW b \in Nat, a <= b, b <= Len(W)
    PROVE  /\ TextOf(Stretch(W, a, b)) = Stretch(TextOf(W), a, b)
           /\ Stretch(W, a, b) \in Seq(Nat) /\ Len(Stretch(W, a, b)) = b - a
<1>1. /\ Stretch(W, a, b) \in Seq(Nat) /\ Len(Stretch(W, a, b)) = b - a
      /\ \A j \in 1 .. b - a : Stretch(W, a, b)[j] = W[a + j]
  BY PartIs, Zenon
<1>2. PICK V \in Seq(Nat) : V = Stretch(W, a, b) /\ Len(V) = b - a /\ \A j \in 1 .. b - a : V[j] = W[a + j]
  BY <1>1, Zenon
<1>3. TextOf(V) \in Seq(Letters) /\ Len(TextOf(V)) = b - a
      /\ \A j \in 1 .. b - a : TextOf(V)[j] = Letter(V[j])
  <2>1. TextOf(V) \in Seq(Letters) /\ Len(TextOf(V)) = Len(V)
        /\ \A j \in 1 .. Len(V) : TextOf(V)[j] = Letter(V[j])
    BY TextOfIs, Zenon
  <2> QED
    BY <1>2, <2>1
<1>4. PICK t \in Seq(Letters) : t = TextOf(W) /\ Len(t) = Len(W)
                                /\ \A j \in 1 .. Len(W) : t[j] = Letter(W[j])
  BY TextOfIs, Zenon
<1>5. b <= Len(t)
  BY <1>4
<1>6. /\ Stretch(t, a, b) \in Seq(Letters) /\ Len(Stretch(t, a, b)) = b - a
      /\ \A j \in 1 .. b - a : Stretch(t, a, b)[j] = t[a + j]
  BY <1>5, PartIs, Zenon
<1>7. PICK x : x = TextOf(V)
  OBVIOUS
<1>8. PICK y : y = Stretch(t, a, b)
  OBVIOUS
<1>9. \A j \in 1 .. b - a : x[j] = y[j]
  <2> SUFFICES ASSUME NEW j \in 1 .. b - a
               PROVE  x[j] = y[j]
    OBVIOUS
  <2>1. PICK i : i = a + j
    OBVIOUS
  <2>2. i \in 1 .. Len(W)
    <3>1. Len(W) \in Nat
      BY LenProperties
    <3> QED
      BY <2>1, <3>1
  <2>3. t[i] = Letter(W[i])
    BY <1>4, <2>2
  <2> QED
    BY <1>2, <1>3, <1>6, <1>7, <1>8, <2>1, <2>3
<1>10. x = y
  <2>1. x \in Seq(Letters) /\ y \in Seq(Letters) /\ Len(x) = Len(y) /\ \A j \in 1 .. Len(x) : x[j] = y[j]
    BY <1>3, <1>6, <1>7, <1>8, <1>9
  <2> QED
    BY <2>1, SeqEqual
<1> QED
  BY <1>1, <1>2, <1>4, <1>7, <1>8, <1>10

\* A literal is found where the text says it.
LEMMA LiteralIs ==
    ASSUME NEW W \in Seq(Nat), NEW v, NEW x \in Nat, NEW y \in Nat
    PROVE  <<x, y>> \in LiteralHits(v, W) <=> x < y /\ y <= Len(W) /\ Stretch(TextOf(W), x, y) = v
<1>1. PICK n \in Nat : n = Len(W)
  BY LenProperties
<1>2. PICK p : p = <<x, y>> /\ p[1] = x /\ p[2] = y
  <2>1. PICK p : p = <<x, y>>
    OBVIOUS
  <2>2. p[1] = x /\ p[2] = y
    BY <2>1
  <2> QED
    BY <2>1, <2>2
<1>3. p \in Spans(W) <=> x < y /\ y <= n
  <2>1. p \in (0 .. n) \X (0 .. n) <=> x <= n /\ y <= n
    BY <1>2
  <2>2. p \in Spans(W) <=> p \in (0 .. n) \X (0 .. n) /\ p[1] < p[2]
    BY <1>1 DEF Spans
  <2> QED
    BY <1>2, <2>1, <2>2
<1>4. p \in LiteralHits(v, W) <=> p \in Spans(W) /\ SubSeq(TextOf(W), p[1] + 1, p[2]) = v
  BY DEF LiteralHits
<1>5. SubSeq(TextOf(W), x + 1, y) = Stretch(TextOf(W), x, y)
  BY DEF Stretch
<1> QED
  BY <1>1, <1>2, <1>3, <1>4, <1>5

\* A literal in a piece of a stream is one in the stream.
LEMMA HitsInPart ==
    ASSUME NEW W \in Seq(Nat), NEW a \in Nat, NEW b \in Nat, a <= b, b <= Len(W),
           NEW v, NEW x \in Nat, NEW y \in Nat
    PROVE  <<x, y>> \in LiteralHits(v, Stretch(W, a, b))
             <=> y <= b - a /\ <<a + x, a + y>> \in LiteralHits(v, W)
<1>1. PICK V \in Seq(Nat) : V = Stretch(W, a, b) /\ Len(V) = b - a /\ TextOf(V) = Stretch(TextOf(W), a, b)
  <2>1. /\ TextOf(Stretch(W, a, b)) = Stretch(TextOf(W), a, b)
        /\ Stretch(W, a, b) \in Seq(Nat) /\ Len(Stretch(W, a, b)) = b - a
    BY TextOfPart, Zenon
  <2> QED
    BY <2>1, Zenon
<1>2. PICK t \in Seq(Letters) : t = TextOf(W) /\ Len(t) = Len(W)
  BY TextOfIs, Zenon
<1>3. <<x, y>> \in LiteralHits(v, V) <=> x < y /\ y <= b - a /\ Stretch(Stretch(t, a, b), x, y) = v
  <2>1. <<x, y>> \in LiteralHits(v, V) <=> x < y /\ y <= Len(V) /\ Stretch(TextOf(V), x, y) = v
    BY LiteralIs
  <2> QED
    BY <1>1, <1>2, <2>1
<1>4. a + x \in Nat /\ a + y \in Nat
  OBVIOUS
<1>5. <<a + x, a + y>> \in LiteralHits(v, W) <=> a + x < a + y /\ a + y <= Len(W) /\ Stretch(t, a + x, a + y) = v
  <2>1. <<a + x, a + y>> \in LiteralHits(v, W)
            <=> a + x < a + y /\ a + y <= Len(W) /\ Stretch(TextOf(W), a + x, a + y) = v
    BY <1>4, LiteralIs
  <2> QED
    BY <1>2, <2>1
<1>6. ASSUME x < y, y <= b - a
      PROVE  Stretch(Stretch(t, a, b), x, y) = Stretch(t, a + x, a + y)
  <2>1. b <= Len(t) /\ x <= y
    BY <1>2, <1>6
  <2> QED
    BY <1>6, <2>1, PartOfPart
<1>7. x < y <=> a + x < a + y
  OBVIOUS
<1>8. y <= b - a => a + y <= Len(W)
  <2>1. Len(W) \in Nat
    BY LenProperties
  <2> QED
    BY <2>1
<1>9. CASE x < y /\ y <= b - a
  <2>1. Stretch(Stretch(t, a, b), x, y) = Stretch(t, a + x, a + y)
    BY <1>6, <1>9
  <2> QED
    BY <1>1, <1>3, <1>5, <1>7, <1>8, <1>9, <2>1
<1>10. CASE ~ (x < y /\ y <= b - a)
  BY <1>1, <1>3, <1>5, <1>7, <1>8, <1>10
<1> QED
  BY <1>9, <1>10

\* A stream that goes on keeps its literals.
LEMMA HitsOfMore ==
    ASSUME NEW W \in Seq(Nat), NEW z \in Seq(Nat), NEW v, NEW x \in Nat, NEW y \in Nat, y <= Len(W)
    PROVE  <<x, y>> \in LiteralHits(v, W) <=> <<x, y>> \in LiteralHits(v, W \o z)
<1>1. PICK n \in Nat : n = Len(W)
  BY LenProperties
<1>2. PICK V \in Seq(Nat) : V = W \o z /\ n <= Len(V) /\ Stretch(V, 0, n) = W
  <2>1. /\ W \o z \in Seq(Nat) /\ Len(W \o z) = Len(W) + Len(z)
        /\ \A a, b \in Nat : a <= b /\ b <= Len(W) => Stretch(W \o z, a, b) = Stretch(W, a, b)
    BY PartOfMore
  <2>2. Stretch(W, 0, Len(W)) = W
    BY PartEnds
  <2>3. Len(z) \in Nat
    BY LenProperties
  <2>4. Stretch(W \o z, 0, n) = Stretch(W, 0, n)
    BY <1>1, <2>1
  <2>5. n <= Len(W \o z)
    BY <1>1, <2>1, <2>3
  <2> QED
    BY <1>1, <2>1, <2>2, <2>4, <2>5
<1>3. PICK o \in Nat : o = 0 /\ o <= n
  BY <1>1
<1>4. n <= Len(V)
  BY <1>2
<1>5. o <= n
  BY <1>3
<1>6. <<x, y>> \in LiteralHits(v, Stretch(V, o, n)) <=> y <= n - o /\ <<o + x, o + y>> \in LiteralHits(v, V)
  BY <1>4, <1>5, HitsInPart, Zenon
<1>7. o + x = x /\ o + y = y /\ y <= n - o
  BY <1>1, <1>3
<1> QED
  BY <1>2, <1>3, <1>6, <1>7

\* A literal is as long as it says.
LEMMA LiteralLength ==
    ASSUME NEW W \in Seq(Nat), NEW v, NEW x \in Nat, NEW y \in Nat, <<x, y>> \in LiteralHits(v, W)
    PROVE  x < y /\ y <= Len(W) /\ Len(v) = y - x
<1>1. x < y /\ y <= Len(W) /\ Stretch(TextOf(W), x, y) = v
  BY LiteralIs
<1>2. PICK t \in Seq(Letters) : t = TextOf(W) /\ Len(t) = Len(W)
  BY TextOfIs, Zenon
<1>3. x <= y /\ y <= Len(t)
  BY <1>1, <1>2
<1>4. Len(Stretch(t, x, y)) = y - x
  BY <1>3, PartIs, Zenon
<1> QED
  BY <1>1, <1>2, <1>4


-----------------------------------------------------------------------------
(* What a scan reports *)

\* The matches that may be reported of a flow, by direction.
Reports(flow, dir) ==
    [flow : {flow}, dir : {dir}, pattern : DOMAIN Patterns, start : Nat, end : Nat]

\* A literal that is reported is in the stream where the report says it is.
IsThere(m, W) ==
    Patterns[m.pattern].regex \/ <<m.start, m.end>> \in LiteralHits(Patterns[m.pattern].value, W)

\* A scan of direction dir of a flow, of which `stream` was given and the first `from`
\* bytes were scanned before, with `dropped` matches dropped so far.
IsTask(t) == t.dir \in Directions /\ t.stream \in Seq(Nat) /\ t.from \in Nat /\ t.dropped \in Nat

\* What it found is there and reaches behind what was scanned before; it is reported, once,
\* unless a cap was hit.
Finding(e, t) ==
    /\ Scanning(e) /\ e.events \in Seq(e.emitted)
    /\ \A m \in e.emitted :
        m \in Reports(t.flow, t.dir) /\ t.from < m.end /\ IsThere(m, t.stream)
    /\ \A i, j \in 1 .. Len(e.events) : e.events[i] = e.events[j] => i = j
    /\ t.dropped <= e.stats.dropped
    /\ e.stats.dropped = 0 => \A m \in e.emitted : \E i \in 1 .. Len(e.events) : e.events[i] = m
FindsMore(e, y, t) == Finding(y, t) /\ e.emitted \subseteq y.emitted

\* A match is reported, or counted as dropped.
LEMMA ReserveIs ==
    ASSUME NEW e, Scanning(e), NEW m
    PROVE  /\ Reserve(e, m).emitted = e.emitted
           /\ \/ /\ Reserve(e, m).events = e.events
                 /\ Reserve(e, m).stats.dropped = e.stats.dropped + 1
              \/ /\ Reserve(e, m).events = Append(e.events, m)
                 /\ Reserve(e, m).stats.dropped = e.stats.dropped
<1>1. PICK old : old = IF m.flow \in DOMAIN e.by_stream THEN e.by_stream[m.flow] ELSE 0
  OBVIOUS
<1>2. PICK y : y = Reserve(e, m)
  OBVIOUS
<1>3. DOMAIN e = {"emitted", "events", "stats", "by_stream"} /\ e.stats \in PatternStats
  BY DEF Scanning, Capped
<1>4. PICK s \in PatternStats : s = e.stats
  BY <1>3
<1>5. CASE e.stats.matches >= MaxMatches
  <2>1. y = [e EXCEPT !.stats.dropped = @ + 1]
    BY <1>2, <1>5, Zenon DEF Reserve
  <2>2. PICK q : q = [s EXCEPT !.dropped = @ + 1]
    OBVIOUS
  <2>3. y = [e EXCEPT !.stats = q]
    BY <1>3, <1>4, <2>1, <2>2
  <2>4. y.stats = q /\ y.events = e.events /\ y.emitted = e.emitted
    BY <1>3, <2>3
  <2>5. q.dropped = s.dropped + 1
    BY <2>2 DEF PatternStats
  <2> QED
    BY <1>2, <1>4, <2>4, <2>5
<1>6. CASE ~ (e.stats.matches >= MaxMatches) /\ old >= MaxStreamMatches
  <2>1. y = [e EXCEPT !.by_stream = Put(@, m.flow, old), !.stats.dropped = @ + 1]
    BY <1>1, <1>2, <1>6, Zenon DEF Reserve
  <2>2. PICK q : q = [s EXCEPT !.dropped = @ + 1]
    OBVIOUS
  <2>3. PICK next : next = Put(e.by_stream, m.flow, old)
    OBVIOUS
  <2>4. y = [e EXCEPT !.by_stream = next, !.stats = q]
    BY <1>3, <1>4, <2>1, <2>2, <2>3
  <2>5. y.stats = q /\ y.events = e.events /\ y.emitted = e.emitted
    BY <1>3, <2>4
  <2>6. q.dropped = s.dropped + 1
    BY <2>2 DEF PatternStats
  <2> QED
    BY <1>2, <1>4, <2>5, <2>6
<1>7. CASE ~ (e.stats.matches >= MaxMatches) /\ ~ (old >= MaxStreamMatches)
  <2>1. y = [e EXCEPT !.by_stream = Put(@, m.flow, old + 1), !.stats.matches = @ + 1,
                      !.events = Append(@, m)]
    BY <1>1, <1>2, <1>7, Zenon DEF Reserve
  <2>2. PICK q : q = [s EXCEPT !.matches = @ + 1]
    OBVIOUS
  <2>3. PICK next : next = Put(e.by_stream, m.flow, old + 1)
    OBVIOUS
  <2>4. PICK all : all = Append(e.events, m)
    OBVIOUS
  <2>5. y = [e EXCEPT !.by_stream = next, !.stats = q, !.events = all]
    BY <1>3, <1>4, <2>1, <2>2, <2>3, <2>4
  <2>6. y.stats = q /\ y.events = all /\ y.emitted = e.emitted
    BY <1>3, <2>5
  <2>7. q.dropped = s.dropped
    BY <2>2 DEF PatternStats
  <2> QED
    BY <1>2, <1>4, <2>4, <2>6, <2>7
<1> QED
  BY <1>5, <1>6, <1>7

\* A match that reaches into a range behind what was scanned before.
LEMMA EmitFinds ==
    ASSUME NEW e, NEW t, IsTask(t), Finding(e, t), NEW m \in Reports(t.flow, t.dir), IsThere(m, t.stream),
           NEW range \in ContentRange, t.from <= range.start
    PROVE  /\ FindsMore(e, EmitIfNew(e, m, range), t)
           /\ ReachesNew(m, range) => m \in EmitIfNew(e, m, range).emitted
<1>1. PICK y : y = EmitIfNew(e, m, range)
  OBVIOUS
<1>2. CASE ~ ReachesNew(m, range) \/ m \in e.emitted
  <2>1. y = e
    BY <1>1, <1>2 DEF EmitIfNew
  <2> QED
    BY <1>1, <1>2, <2>1 DEF FindsMore
<1>3. CASE ~ (~ ReachesNew(m, range) \/ m \in e.emitted)
  <2>1. PICK x : x = [e EXCEPT !.emitted = @ \cup {m}]
    OBVIOUS
  <2>2. x.emitted = e.emitted \cup {m} /\ x.events = e.events /\ x.stats = e.stats /\ Scanning(x)
    <3>1. DOMAIN x = DOMAIN e /\ x.stats = e.stats /\ x.by_stream = e.by_stream /\ x.events = e.events
          /\ x.emitted = e.emitted \cup {m}
      BY <2>1 DEF Finding, Scanning
    <3> QED
      BY <3>1 DEF Finding, Scanning
  <2>3. y = Reserve(x, m)
    BY <1>1, <1>3, <2>1, Zenon DEF EmitIfNew
  <2>4. PICK E : E = e.emitted
    OBVIOUS
  <2>5. PICK s \in Seq(E) : s = e.events
    BY <2>4 DEF Finding
  <2>6. PICK d \in Nat : d = e.stats.dropped
    BY DEF Finding, Scanning, Capped, PatternStats
  <2>7. /\ y.emitted = E \cup {m}
        /\ \/ y.events = s /\ y.stats.dropped = d + 1
           \/ y.events = Append(s, m) /\ y.stats.dropped = d
    BY <2>2, <2>3, <2>4, <2>5, <2>6, ReserveIs
  <2>8. Scanning(y)
    BY <2>2, <2>3, ReserveKeeps
  <2>9. t.from < m.end
    <3>1. m.end \in Nat /\ range.start \in Nat /\ t.from \in Nat /\ m.end > range.start
      BY <1>3 DEF Reports, ContentRange, IsTask, ReachesNew
    <3> QED
      BY <3>1
  <2>10. m \notin E
    BY <1>3, <2>4
  <2>11. \A l \in E \cup {m} : l \in Reports(t.flow, t.dir) /\ t.from < l.end /\ IsThere(l, t.stream)
    BY <2>4, <2>9 DEF Finding
  <2>12. PICK k \in Nat : k = Len(s) /\ \A i \in 1 .. k : s[i] \in E
    BY LenProperties, ElementOfSeq
  <2>13. s \in Seq(E \cup {m})
    BY SeqMonotonic
  <2>14. /\ \A i, j \in 1 .. k : s[i] = s[j] => i = j
         /\ t.dropped \in Nat /\ t.dropped <= d
         /\ d = 0 => \A l \in E : \E i \in 1 .. k : s[i] = l
    BY <2>4, <2>5, <2>6, <2>12 DEF Finding, IsTask
  <2>15. ASSUME y.events = s, y.stats.dropped = d + 1
         PROVE  Finding(y, t)
    BY <2>7, <2>8, <2>11, <2>12, <2>13, <2>14, <2>15 DEF Finding
  <2>16. ASSUME y.events = Append(s, m), y.stats.dropped = d
         PROVE  Finding(y, t)
    <3>1. PICK z : z = Append(s, m)
      OBVIOUS
    <3>2. z \in Seq(E \cup {m}) /\ Len(z) = k + 1 /\ z[k + 1] = m /\ \A i \in 1 .. k : z[i] = s[i]
      <4>1. z \in Seq(E \cup {m}) /\ Len(z) = Len(s) + 1 /\ z[Len(s) + 1] = m
            /\ \A i \in 1 .. Len(s) : z[i] = s[i]
        BY <2>13, <3>1, AppendProperties
      <4> QED
        BY <2>12, <4>1
    <3>3. ASSUME NEW i \in 1 .. k + 1, NEW j \in 1 .. k + 1, z[i] = z[j]
          PROVE  i = j
      <4>1. \A l \in 1 .. k + 1 : l = k + 1 \/ l \in 1 .. k
        OBVIOUS
      <4>2. CASE i = k + 1 /\ j = k + 1
        BY <4>2
      <4>3. CASE i = k + 1 /\ j \in 1 .. k
        BY <2>10, <2>12, <3>2, <3>3, <4>3
      <4>4. CASE i \in 1 .. k /\ j = k + 1
        BY <2>10, <2>12, <3>2, <3>3, <4>4
      <4>5. CASE i \in 1 .. k /\ j \in 1 .. k
        BY <2>14, <3>2, <3>3, <4>5
      <4> QED
        BY <4>1, <4>2, <4>3, <4>4, <4>5
    <3>4. ASSUME d = 0, NEW l \in E \cup {m}
          PROVE  \E i \in 1 .. k + 1 : z[i] = l
      <4>1. CASE l = m
        BY <3>2, <4>1
      <4>2. CASE l \in E
        <5>1. PICK i \in 1 .. k : s[i] = l
          BY <2>14, <3>4, <4>2
        <5> QED
          BY <3>2, <5>1
      <4> QED
        BY <4>1, <4>2
    <3>5. y.events = z
      BY <2>16, <3>1
    <3> QED
      BY <2>7, <2>8, <2>11, <2>14, <2>16, <3>2, <3>3, <3>4, <3>5 DEF Finding
  <2>17. Finding(y, t)
    BY <2>7, <2>15, <2>16
  <2> QED
    BY <1>1, <2>4, <2>7, <2>17 DEF FindsMore
<1> QED
  BY <1>2, <1>3


\* A window is a part of the stream; every match in it that reaches into the range is found.
LEMMA WindowFinds ==
    ASSUME NEW e, NEW t, IsTask(t), Finding(e, t), NEW range \in ContentRange,
           range.dir = t.dir, t.from <= range.start,
           NEW a \in Nat, NEW b \in Nat, a <= b, b <= Len(t.stream),
           NEW w, w.start = a, w.bytes = Stretch(t.stream, a, b),
           NEW y, y = ScanWindow(e, t.flow, range, w)
    PROVE  /\ FindsMore(e, y, t)
           /\ \A i \in Literals : \A x1, x2 \in Nat :
                /\ <<x1, x2>> \in LiteralHits(Patterns[i].value, t.stream)
                /\ a <= x1 /\ x2 <= b /\ x1 < range.end /\ x2 > range.start
                => [flow |-> t.flow, dir |-> t.dir, pattern |-> i, start |-> x1, end |-> x2] \in y.emitted
<1>1. PICK W \in Seq(Nat) : W = t.stream
  BY DEF IsTask
<1>2. PICK V \in Seq(Nat) : V = Stretch(W, a, b) /\ Len(V) = b - a
  <2>1. b <= Len(W)
    BY <1>1
  <2>2. Stretch(W, a, b) \in Seq(Nat) /\ Len(Stretch(W, a, b)) = b - a
    BY <2>1, TextOfPart
  <2> QED
    BY <2>2, Zenon
<1>3. V = w.bytes
  BY <1>1, <1>2
<1>4. PICK n \in Nat : DOMAIN Candidates(V) = 1 .. n
  BY CandidatesIs
<1>5. PICK C : C = Candidates(V) /\ Lists(C, Occurrences(V)) /\ DOMAIN C = 1 .. n
  BY <1>4, CandidatesList
<1>6. PICK h : Emits(h, e, t.flow, range, w, n)
  BY <1>3, <1>4, MatchesInTurn
<1>7. PICK M : M = [i \in 1 .. n |-> Match(t.flow, t.dir, a, C[i])]
  OBVIOUS
<1>8. h[0] = e /\ h[n] = y /\ \A i \in 1 .. n : h[i] = EmitIfNew(h[i - 1], M[i], range)
  <2>1. \A i \in 1 .. n : M[i] = Match(t.flow, range.dir, w.start, Candidates(w.bytes)[i])
    BY <1>3, <1>5, <1>7
  <2> QED
    BY <1>6, <2>1 DEF Emits
<1>9. \A i \in DOMAIN Patterns : \A x1, x2 \in Nat : ~ Patterns[i].regex =>
        (<<x1, x2>> \in HitsOf(Patterns[i], V)
           <=> x2 <= b - a /\ <<a + x1, a + x2>> \in LiteralHits(Patterns[i].value, W))
  <2> SUFFICES ASSUME NEW i \in DOMAIN Patterns, NEW x1 \in Nat, NEW x2 \in Nat, ~ Patterns[i].regex
               PROVE  <<x1, x2>> \in LiteralHits(Patterns[i].value, V)
                        <=> x2 <= b - a /\ <<a + x1, a + x2>> \in LiteralHits(Patterns[i].value, W)
    BY DEF HitsOf
  <2>1. PICK v : v = Patterns[i].value
    OBVIOUS
  <2>2. b <= Len(W)
    BY <1>1
  <2>3. <<x1, x2>> \in LiteralHits(v, Stretch(W, a, b)) <=> x2 <= b - a /\ <<a + x1, a + x2>> \in LiteralHits(v, W)
    BY <2>2, HitsInPart, Zenon
  <2> QED
    BY <1>2, <2>1, <2>3
<1>10. \A i \in 1 .. n : M[i] \in Reports(t.flow, t.dir) /\ IsThere(M[i], W)
  <2> SUFFICES ASSUME NEW i \in 1 .. n
               PROVE  M[i] \in Reports(t.flow, t.dir) /\ IsThere(M[i], W)
    OBVIOUS
  <2>1. PICK m : m = C[i] /\ m \in Occurrences(V)
    BY <1>5 DEF Lists
  <2>2. m \in Found /\ <<m.start, m.end>> \in HitsOf(Patterns[m.pattern], V)
    BY <2>1, OccurrenceIs
  <2>3. PICK j \in DOMAIN Patterns, x1 \in Nat, x2 \in Nat : m.pattern = j /\ m.start = x1 /\ m.end = x2
    BY <2>2 DEF Found
  <2>4. PICK r : r = [flow |-> t.flow, dir |-> t.dir, pattern |-> j, start |-> a + x1, end |-> a + x2]
    OBVIOUS
  <2>5. M[i] = r
    BY <1>7, <2>1, <2>3, <2>4 DEF Match
  <2>6. r \in Reports(t.flow, t.dir)
    BY <2>4 DEF Reports
  <2>7. Patterns[j].regex \/ <<a + x1, a + x2>> \in LiteralHits(Patterns[j].value, W)
    BY <1>9, <2>2, <2>3
  <2>8. IsThere(r, W)
    BY <2>4, <2>7 DEF IsThere
  <2> QED
    BY <2>5, <2>6, <2>8
<1> DEFINE Met(i) == \A j \in 1 .. i : ReachesNew(M[j], range) => M[j] \in h[i].emitted
           G == {i \in Nat : i <= n => FindsMore(e, h[i], t) /\ Met(i)}
<1>11. 0 \in G
  <2>1. FindsMore(e, h[0], t)
    BY <1>8 DEF FindsMore
  <2> QED
    BY <2>1
<1>12. ASSUME NEW i \in Nat, i \in G
       PROVE  i + 1 \in G
  <2> SUFFICES ASSUME i + 1 <= n
               PROVE  FindsMore(e, h[i + 1], t) /\ Met(i + 1)
    OBVIOUS
  <2>1. i + 1 \in 1 .. n /\ (i + 1) - 1 = i /\ FindsMore(e, h[i], t) /\ Met(i)
    BY <1>12
  <2>2. PICK x : x = h[i]
    OBVIOUS
  <2>3. PICK m \in Reports(t.flow, t.dir) : m = M[i + 1] /\ IsThere(m, t.stream)
    BY <1>1, <1>10, <2>1
  <2>4. PICK z : z = EmitIfNew(x, m, range)
    OBVIOUS
  <2>5. h[i + 1] = z
    BY <1>8, <2>1, <2>2, <2>3, <2>4
  <2>6. Finding(x, t) /\ e.emitted \subseteq x.emitted
    BY <2>1, <2>2 DEF FindsMore
  <2>7. FindsMore(x, z, t) /\ (ReachesNew(m, range) => m \in z.emitted)
    BY <2>3, <2>4, <2>6, EmitFinds
  <2>8. FindsMore(e, z, t) /\ x.emitted \subseteq z.emitted
    BY <2>6, <2>7 DEF FindsMore
  <2>9. ASSUME NEW j \in 1 .. i + 1, ReachesNew(M[j], range)
        PROVE  M[j] \in z.emitted
    <3>1. CASE j = i + 1
      BY <2>3, <2>7, <2>9, <3>1
    <3>2. CASE j # i + 1
      <4>1. j \in 1 .. i
        BY <3>2
      <4> QED
        BY <2>1, <2>2, <2>8, <2>9, <4>1
    <3> QED
      BY <3>1, <3>2
  <2> QED
    BY <2>5, <2>8, <2>9
<1>13. n \in G
  <2> HIDE DEF G
  <2> QED
    BY <1>11, <1>12, NumberInduction
<1>14. FindsMore(e, y, t) /\ \A j \in 1 .. n : ReachesNew(M[j], range) => M[j] \in y.emitted
  BY <1>8, <1>13
<1>15. ASSUME NEW i \in Literals, NEW x1 \in Nat, NEW x2 \in Nat,
              <<x1, x2>> \in LiteralHits(Patterns[i].value, W),
              a <= x1, x2 <= b, x1 < range.end, x2 > range.start
       PROVE  [flow |-> t.flow, dir |-> t.dir, pattern |-> i, start |-> x1, end |-> x2] \in y.emitted
  <2>1. i \in DOMAIN Patterns /\ ~ Patterns[i].regex
    BY DEF Literals
  <2>2. x1 < x2
    BY <1>15, LiteralLength
  <2>3. PICK u1 \in Nat, u2 \in Nat : a + u1 = x1 /\ a + u2 = x2 /\ u2 <= b - a
    <3>1. x1 - a \in Nat /\ x2 - a \in Nat /\ a + (x1 - a) = x1 /\ a + (x2 - a) = x2 /\ x2 - a <= b - a
      BY <1>15, <2>2
    <3> QED
      BY <3>1
  <2>4. <<u1, u2>> \in HitsOf(Patterns[i], V)
    BY <1>9, <1>15, <2>1, <2>3
  <2>5. PICK m : m = [pattern |-> i, start |-> u1, end |-> u2] /\ m \in Occurrences(V)
    BY <2>1, <2>4, OccurrenceIs
  <2>6. PICK j \in 1 .. n : C[j] = m
    BY <1>5, <2>5 DEF Lists
  <2>7. M[j] = [flow |-> t.flow, dir |-> t.dir, pattern |-> i, start |-> x1, end |-> x2]
    BY <1>7, <2>3, <2>5, <2>6, SMTT(30) DEF Match
  <2>8. ReachesNew(M[j], range)
    BY <1>15, <2>7 DEF ReachesNew
  <2> QED
    BY <1>14, <2>7, <2>8
<1> QED
  BY <1>1, <1>14, <1>15

\* What is stored before a new range is enough to find every literal that ends in it.
EndsIn(i, x1, x2, t, lost, from, to) ==
    /\ <<x1, x2>> \in LiteralHits(Patterns[i].value, t.stream)
    /\ lost <= x1 /\ from < x2 /\ x2 <= to
TheMatch(t, i, x1, x2) ==
    [flow |-> t.flow, dir |-> t.dir, pattern |-> i, start |-> x1, end |-> x2]
LEMMA RangeFinds ==
    ASSUME NEW e, NEW t, IsTask(t), Finding(e, t), NEW range \in ContentRange,
           range.dir = t.dir, t.from <= range.start, range.start < range.end, range.end <= Len(t.stream),
           NEW streams, streams[t.flow].dirs[t.dir] \in ContentDirection,
           TailOf(streams[t.flow].dirs[t.dir], t.stream),
           NEW lost, lost = Len(t.stream) - streams[t.flow].dirs[t.dir].stored,
           NEW y, y = ScanRange(e, t.flow, streams, range)
    PROVE  /\ FindsMore(e, y, t)
           /\ \A i \in Literals : \A x1, x2 \in Nat :
                EndsIn(i, x1, x2, t, lost, range.start, range.end) => TheMatch(t, i, x1, x2) \in y.emitted
<1>1. PICK W \in Seq(Nat) : W = t.stream
  BY DEF IsTask
<1>2. PICK c \in ContentDirection : c = streams[t.flow].dirs[t.dir] /\ TailOf(c, W)
  BY <1>1
<1>3. PICK start \in Nat, end \in Nat : start = range.start /\ end = range.end /\ start < end
  BY DEF ContentRange
<1>4. PICK l \in Nat : l = Len(W) /\ end <= l
  BY <1>1, <1>3, LenProperties
<1>5. PICK gone \in Nat : gone = lost
  <2>1. c.stored \in Nat /\ c.stored <= l
    BY <1>2, <1>4, ZenonT(30) DEF ContentDirection, TailOf
  <2> QED
    BY <1>1, <1>2, <1>4, <2>1, SMTT(30)
<1>6. PICK back \in Nat : back = Max({0, range.start - Lookbehind}) /\ start - Lookbehind <= back
                          /\ (back = 0 \/ back = start - Lookbehind)
  <2>1. PICK k \in Int : k = start - Lookbehind
    BY LookbehindIs
  <2>2. PICK z \in Int : z = 0
    OBVIOUS
  <2>3. Max({z, k}) = IF z <= k THEN k ELSE z
    BY SmallerOrLarger
  <2> QED
    BY <1>3, <2>1, <2>2, <2>3
<1>7. PICK a \in Nat : a = Max({Len(W) - c.stored, back}) /\ (a = gone \/ a = back)
  <2>1. Max({gone, back}) = IF gone <= back THEN back ELSE gone
    <3>1. gone \in Int /\ back \in Int
      OBVIOUS
    <3> QED
      BY <3>1, SmallerOrLarger
  <2> QED
    BY <1>1, <1>2, <1>5, <2>1
<1>8. end = Min({Len(W), end})
  <2>1. Min({l, end}) = IF l <= end THEN l ELSE end
    BY SmallerOrLarger
  <2> QED
    BY <1>4, <2>1
<1>9. Around(t.flow, streams, range) = Piecewise(W, a, end)
  <2>1. Windows(c, back, end) = Piecewise(W, Max({Len(W) - c.stored, back}), Min({Len(W), end}))
    BY <1>2, WindowsAre, SMTT(30)
  <2> QED
    BY <1>2, <1>3, <1>6, <1>7, <1>8, <2>1 DEF Around
<1>10. ASSUME NEW i \in Literals, NEW x1 \in Nat, NEW x2 \in Nat, EndsIn(i, x1, x2, t, lost, start, end)
       PROVE  a <= x1 /\ x1 < x2 /\ <<x1, x2>> \in LiteralHits(Patterns[i].value, W) /\ start < x2 /\ x2 <= end
  <2>1. <<x1, x2>> \in LiteralHits(Patterns[i].value, W) /\ gone <= x1 /\ start < x2 /\ x2 <= end
    BY <1>1, <1>5, <1>10 DEF EndsIn
  <2>2. PICK v : v = Patterns[i].value
    OBVIOUS
  <2>3. x1 < x2 /\ Len(v) = x2 - x1
    BY <2>1, <2>2, LiteralLength
  <2>4. x2 - x1 - 1 <= Lookbehind /\ Lookbehind \in Nat
    <3>1. (x2 - x1) - 1 <= Lookbehind /\ Lookbehind \in Nat
      BY <2>2, <2>3, LookbehindIs
    <3> QED
      BY <2>2, <2>3, <3>1, LookbehindIs
  <2> QED
    BY <1>6, <1>7, <2>1, <2>3, <2>4
<1>11. CASE end <= a
  <2>1. Around(t.flow, streams, range) = <<>>
    BY <1>9, <1>11 DEF Piecewise
  <2>2. DOMAIN Around(t.flow, streams, range) = 1 .. 0
    BY <2>1
  <2>3. PICK h : Scans(h, e, t.flow, streams, range, 0)
    BY <2>2, ScansInTurn
  <2>4. y = e
    BY <2>3 DEF Scans
  <2>5. \A i \in Literals : \A x1, x2 \in Nat : ~ EndsIn(i, x1, x2, t, lost, start, end)
    <3> SUFFICES ASSUME NEW i \in Literals, NEW x1 \in Nat, NEW x2 \in Nat, EndsIn(i, x1, x2, t, lost, start, end)
                 PROVE  FALSE
      OBVIOUS
    <3>1. a <= x1 /\ x1 < x2 /\ x2 <= end
      BY <1>10
    <3> QED
      BY <1>11, <3>1
  <2> QED
    BY <1>3, <2>4, <2>5 DEF FindsMore
<1>12. CASE ~ (end <= a)
  <2>1. PICK w : w = [start |-> a, bytes |-> Stretch(W, a, end)]
    OBVIOUS
  <2>2. Around(t.flow, streams, range) = <<w>>
    BY <1>9, <1>12, <2>1 DEF Piecewise
  <2>3. PICK s : s = Around(t.flow, streams, range) /\ DOMAIN s = 1 .. 1 /\ s[1] = w
    BY <2>2
  <2>4. PICK h : Scans(h, e, t.flow, streams, range, 1)
    BY <2>3, ScansInTurn
  <2>5. y = ScanWindow(e, t.flow, range, w)
    <3>1. 1 \in 1 .. 1 /\ 1 - 1 = 0
      OBVIOUS
    <3>2. h[1] = ScanWindow(h[1 - 1], t.flow, range, s[1])
      BY <2>3, <2>4, <3>1 DEF Scans
    <3> QED
      BY <2>3, <2>4, <3>1, <3>2 DEF Scans
  <2>6. a <= end /\ end <= Len(t.stream) /\ w.start = a /\ w.bytes = Stretch(t.stream, a, end)
    BY <1>1, <1>4, <1>12, <2>1
  <2>7. /\ FindsMore(e, y, t)
        /\ \A i \in Literals : \A x1, x2 \in Nat :
             /\ <<x1, x2>> \in LiteralHits(Patterns[i].value, t.stream)
             /\ a <= x1 /\ x2 <= end /\ x1 < range.end /\ x2 > range.start
             => [flow |-> t.flow, dir |-> t.dir, pattern |-> i, start |-> x1, end |-> x2] \in y.emitted
    BY <2>5, <2>6, WindowFinds
  <2>8. ASSUME NEW i \in Literals, NEW x1 \in Nat, NEW x2 \in Nat, EndsIn(i, x1, x2, t, lost, start, end)
        PROVE  TheMatch(t, i, x1, x2) \in y.emitted
    <3>1. a <= x1 /\ x1 < x2 /\ <<x1, x2>> \in LiteralHits(Patterns[i].value, W) /\ start < x2 /\ x2 <= end
      BY <1>10, <2>8
    <3>2. x1 < range.end /\ x2 > range.start
      BY <1>3, <3>1
    <3> QED
      BY <1>1, <2>7, <3>1, <3>2 DEF TheMatch
  <2> QED
    BY <1>3, <2>7, <2>8
<1> QED
  BY <1>11, <1>12


\* Every literal that ends in what is new is found.
LEMMA ScanFinds ==
    ASSUME PatternOK, NEW t, IsTask(t), t.dropped = pattern_stats.dropped,
           NEW streams, streams[t.flow].dirs[t.dir] \in ContentDirection,
           TailOf(streams[t.flow].dirs[t.dir], t.stream),
           NEW lost, lost = Len(t.stream) - streams[t.flow].dirs[t.dir].stored,
           NEW new \in Seq(ContentRange), Covers(new, t.dir, t.from, Len(t.stream)),
           NEW y, y = Scanned(t.flow, streams, new)
    PROVE  /\ Finding(y, t)
           /\ \A i \in Literals : \A x1, x2 \in Nat :
                EndsIn(i, x1, x2, t, lost, t.from, Len(t.stream)) => TheMatch(t, i, x1, x2) \in y.emitted
<1>1. PICK n \in Nat : n = Len(new) /\ DOMAIN new = 1 .. n
  BY LenProperties
<1>2. PICK h : ScansAll(h, t.flow, streams, new, n)
  BY <1>1, RangesInTurn
<1> DEFINE Met(i) == \A j \in 1 .. i : \A k \in Literals : \A x1, x2 \in Nat :
                        EndsIn(k, x1, x2, t, lost, new[j].start, new[j].end)
                            => TheMatch(t, k, x1, x2) \in h[i].emitted
           G == {i \in Nat : i <= n => Finding(h[i], t) /\ Met(i)}
<1>3. 0 \in G
  <2>1. PICK e : e = h[0]
    OBVIOUS
  <2>2. e = [emitted |-> {}, events |-> <<>>, stats |-> pattern_stats, by_stream |-> matches_by_stream]
    BY <1>2, <2>1 DEF ScansAll
  <2>3. DOMAIN e = {"emitted", "events", "stats", "by_stream"} /\ e.stats = pattern_stats
        /\ e.by_stream = matches_by_stream /\ e.events = <<>> /\ e.emitted = {}
    BY <2>2
  <2>4. <<>> \in Seq({}) /\ Len(<<>>) = 0
    BY EmptySeq
  <2>5. IsSequence(e.events)
    BY <2>3, <2>4 DEF IsSequence
  <2>6. Scanning(e)
    BY <2>3, <2>5 DEF Scanning, PatternOK
  <2>7. t.dropped <= e.stats.dropped
    BY <2>3 DEF IsTask
  <2>8. \A i, j \in 1 .. Len(e.events) : e.events[i] = e.events[j] => i = j
    BY <2>3, <2>4
  <2>9. Finding(e, t)
    BY <2>3, <2>4, <2>6, <2>7, <2>8 DEF Finding
  <2> QED
    BY <2>1, <2>9
<1>4. ASSUME NEW i \in Nat, i \in G
      PROVE  i + 1 \in G
  <2> SUFFICES ASSUME i + 1 <= n
               PROVE  Finding(h[i + 1], t) /\ Met(i + 1)
    OBVIOUS
  <2>1. i + 1 \in 1 .. n /\ (i + 1) - 1 = i /\ Finding(h[i], t) /\ Met(i)
    BY <1>4
  <2>2. PICK range \in ContentRange : range = new[i + 1]
    BY <1>1, <2>1, ElementOfSeq
  <2>3. PICK e : e = h[i]
    OBVIOUS
  <2>4. PICK z : z = ScanRange(e, t.flow, streams, range)
    OBVIOUS
  <2>5. h[i + 1] = z
    BY <1>2, <2>1, <2>2, <2>3, <2>4 DEF ScansAll
  <2>6. range.dir = t.dir /\ t.from <= range.start /\ range.start < range.end /\ range.end <= Len(t.stream)
    BY <1>1, <2>1, <2>2 DEF Covers
  <2>7. Finding(e, t)
    BY <2>1, <2>3
  <2>8. /\ FindsMore(e, z, t)
        /\ \A k \in Literals : \A x1, x2 \in Nat :
             EndsIn(k, x1, x2, t, lost, range.start, range.end) => TheMatch(t, k, x1, x2) \in z.emitted
    BY <2>4, <2>6, <2>7, RangeFinds
  <2>9. Finding(z, t) /\ e.emitted \subseteq z.emitted
    BY <2>8 DEF FindsMore
  <2>10. ASSUME NEW j \in 1 .. i + 1, NEW k \in Literals, NEW x1 \in Nat, NEW x2 \in Nat,
                EndsIn(k, x1, x2, t, lost, new[j].start, new[j].end)
         PROVE  TheMatch(t, k, x1, x2) \in z.emitted
    <3>1. CASE j = i + 1
      BY <2>2, <2>8, <2>10, <3>1
    <3>2. CASE j # i + 1
      <4>1. j \in 1 .. i
        BY <3>2
      <4>2. TheMatch(t, k, x1, x2) \in e.emitted
        BY <2>1, <2>3, <2>10, <4>1
      <4> QED
        BY <2>9, <4>2
    <3> QED
      BY <3>1, <3>2
  <2> QED
    BY <2>5, <2>9, <2>10
<1>5. n \in G
  <2> HIDE DEF G
  <2> QED
    BY <1>3, <1>4, NumberInduction
<1>6. h[n] = y
  BY <1>2 DEF ScansAll
<1>7. Finding(y, t) /\ Met(n)
  BY <1>5, <1>6
<1>8. ASSUME NEW i \in Literals, NEW x1 \in Nat, NEW x2 \in Nat,
             EndsIn(i, x1, x2, t, lost, t.from, Len(t.stream))
      PROVE  TheMatch(t, i, x1, x2) \in y.emitted
  <2>1. t.from \in Nat /\ Len(t.stream) \in Nat
    BY LenProperties DEF IsTask
  <2>2. x2 \in t.from + 1 .. Len(t.stream)
    BY <1>8, <2>1 DEF EndsIn
  <2>3. PICK j \in 1 .. n : new[j].start < x2 /\ x2 <= new[j].end
    BY <1>1, <2>2 DEF Covers
  <2>4. EndsIn(i, x1, x2, t, lost, new[j].start, new[j].end)
    BY <1>8, <2>3 DEF EndsIn
  <2> QED
    BY <1>6, <1>7, <2>4
<1> QED
  BY <1>7, <1>8

-----------------------------------------------------------------------------
(* The reports of a stream *)

ReportsOf(f) == [flow : {f}, dir : Directions, pattern : DOMAIN Patterns, start : Nat, end : Nat]

\* Reports of flow f, whose directions were given T: a literal is there, and reported once.
ReportsAre(s, f, T) ==
    /\ s \in Seq(ReportsOf(f))
    /\ \A k \in 1 .. Len(s) : IsThere(s[k], T[s[k].dir])
    /\ \A k, l \in 1 .. Len(s) :
        /\ ~ Patterns[s[k].pattern].regex /\ s[k].dir = s[l].dir
        /\ s[k].pattern = s[l].pattern /\ s[k].start = s[l].start
        => k = l

LEMMA NothingReported ==
    ASSUME NEW f, NEW T
    PROVE  ReportsAre(<<>>, f, T)
<1>1. <<>> \in Seq(ReportsOf(f)) /\ Len(<<>>) = 0
  BY EmptySeq
<1> QED
  BY <1>1 DEF ReportsAre

\* What is there stays there when more is given.
LEMMA StaysThere ==
    ASSUME NEW T \in [Directions -> Seq(Nat)], NEW dir \in Directions, NEW bytes \in Seq(Nat),
           NEW S, S = Given(T, dir, bytes), NEW f, NEW m \in ReportsOf(f)
    PROVE  /\ IsThere(m, T[m.dir]) => IsThere(m, S[m.dir])
           /\ ~ Patterns[m.pattern].regex /\ IsThere(m, T[m.dir])
                => m.end <= Len(T[m.dir]) /\ m.end = m.start + Len(Patterns[m.pattern].value)
<1>1. PICK d \in Directions, x1 \in Nat, x2 \in Nat, i \in DOMAIN Patterns :
        d = m.dir /\ x1 = m.start /\ x2 = m.end /\ i = m.pattern
  BY DEF ReportsOf
<1>2. PICK W \in Seq(Nat) : W = T[d]
  OBVIOUS
<1>3. PICK v : v = Patterns[i].value
  OBVIOUS
<1>4. S[d] = IF d = dir THEN W \o bytes ELSE W
  BY <1>2 DEF Given
<1>5. ASSUME <<x1, x2>> \in LiteralHits(v, W)
      PROVE  /\ x1 < x2 /\ x2 <= Len(W) /\ Len(v) = x2 - x1
             /\ <<x1, x2>> \in LiteralHits(v, W \o bytes)
  <2>1. x1 < x2 /\ x2 <= Len(W) /\ Len(v) = x2 - x1
    BY <1>5, LiteralLength
  <2>2. <<x1, x2>> \in LiteralHits(v, W) <=> <<x1, x2>> \in LiteralHits(v, W \o bytes)
    BY <2>1, HitsOfMore
  <2> QED
    BY <1>5, <2>1, <2>2
<1>6. IsThere(m, T[m.dir]) <=> Patterns[i].regex \/ <<x1, x2>> \in LiteralHits(v, W)
  BY <1>1, <1>2, <1>3 DEF IsThere
<1>7. IsThere(m, S[m.dir]) <=> Patterns[i].regex \/ <<x1, x2>> \in LiteralHits(v, S[d])
  BY <1>1, <1>3 DEF IsThere
<1>8. IsThere(m, T[m.dir]) => IsThere(m, S[m.dir])
  BY <1>4, <1>5, <1>6, <1>7
<1>9. ASSUME ~ Patterns[m.pattern].regex, IsThere(m, T[m.dir])
      PROVE  m.end <= Len(T[m.dir]) /\ m.end = m.start + Len(Patterns[m.pattern].value)
  <2>1. x1 < x2 /\ x2 <= Len(W) /\ Len(v) = x2 - x1
    BY <1>1, <1>5, <1>6, <1>9
  <2>2. x2 = x1 + (x2 - x1)
    OBVIOUS
  <2> QED
    BY <1>1, <1>2, <1>3, <2>1, <2>2
<1> QED
  BY <1>8, <1>9

\* The reports go on with those of what is new.
LEMMA ReportsGoOn ==
    ASSUME NEW T \in [Directions -> Seq(Nat)], NEW dir \in Directions, NEW bytes \in Seq(Nat),
           NEW S, S = Given(T, dir, bytes), NEW f, NEW s, ReportsAre(s, f, T),
           NEW z \in Seq(Reports(f, dir)),
           \A k \in 1 .. Len(z) : Len(T[dir]) < z[k].end /\ IsThere(z[k], S[dir]),
           \A k, l \in 1 .. Len(z) : z[k] = z[l] => k = l
    PROVE  ReportsAre(s \o z, f, S)
<1>1. s \in Seq(ReportsOf(f))
  BY DEF ReportsAre
<1>2. Reports(f, dir) \subseteq ReportsOf(f)
  BY DEF Reports, ReportsOf
<1>3. PICK y \in Seq(ReportsOf(f)) : y = z
  BY <1>2, SeqMonotonic
<1>4. PICK i \in Nat, j \in Nat : i = Len(s) /\ j = Len(z)
  BY <1>1, LenProperties
<1>5. PICK q : q = s \o z
  OBVIOUS
<1>6. q \in Seq(ReportsOf(f)) /\ Len(q) = i + j
      /\ \A k \in 1 .. i + j : q[k] = IF k <= i THEN s[k] ELSE z[k - i]
  BY <1>1, <1>3, <1>4, <1>5, ConcatProperties
<1>7. S \in [Directions -> Seq(Nat)]
  BY GivenTwice
<1>8. PICK from \in Nat : from = Len(T[dir])
  BY LenProperties
<1>9. \A k \in 1 .. i : s[k] \in ReportsOf(f) /\ IsThere(s[k], T[s[k].dir])
  BY <1>1, <1>4, ElementOfSeq DEF ReportsAre
<1>10. \A k \in 1 .. j : z[k] \in Reports(f, dir) /\ z[k] \in ReportsOf(f) /\ z[k].dir = dir
                         /\ from < z[k].end /\ IsThere(z[k], S[dir])
  <2> SUFFICES ASSUME NEW k \in 1 .. j
               PROVE  z[k] \in Reports(f, dir) /\ z[k].dir = dir /\ from < z[k].end /\ IsThere(z[k], S[dir])
    BY <1>2
  <2>1. z[k] \in Reports(f, dir)
    BY <1>4, ElementOfSeq
  <2> QED
    BY <1>4, <1>8, <2>1 DEF Reports
<1>11. \A k \in 1 .. i + j : (k \in 1 .. i /\ q[k] = s[k]) \/ (k - i \in 1 .. j /\ q[k] = z[k - i])
  <2> SUFFICES ASSUME NEW k \in 1 .. i + j
               PROVE  (k \in 1 .. i /\ q[k] = s[k]) \/ (k - i \in 1 .. j /\ q[k] = z[k - i])
    OBVIOUS
  <2>1. CASE k <= i
    BY <1>6, <2>1
  <2>2. CASE ~ k <= i
    BY <1>6, <2>2
  <2> QED
    BY <2>1, <2>2
<1>12. ASSUME NEW k \in 1 .. i + j
       PROVE  IsThere(q[k], S[q[k].dir])
  <2>1. CASE k \in 1 .. i /\ q[k] = s[k]
    <3>1. PICK m \in ReportsOf(f) : m = s[k] /\ IsThere(m, T[m.dir])
      BY <1>9, <2>1
    <3>2. IsThere(m, S[m.dir])
      BY <3>1, StaysThere
    <3> QED
      BY <2>1, <3>1, <3>2
  <2>2. CASE k - i \in 1 .. j /\ q[k] = z[k - i]
    BY <1>10, <2>2
  <2> QED
    BY <1>11, <2>1, <2>2
\* Old and new ones differ in where they end, new ones of a pattern in where they start.
<1>13. ASSUME NEW m \in ReportsOf(f), NEW l \in ReportsOf(f), IsThere(m, S[m.dir]), IsThere(l, S[l.dir]),
              ~ Patterns[m.pattern].regex, m.dir = l.dir, m.pattern = l.pattern, m.start = l.start
       PROVE  m = l
  <2>1. Given(S, dir, <<>>) = S /\ <<>> \in Seq(Nat)
    <3>1. <<>> \in Seq(Nat)
      OBVIOUS
    <3> QED
      BY <1>7, <3>1, GivenTwice
  <2>2. PICK e : e = <<>> /\ e \in Seq(Nat) /\ S = Given(S, dir, e)
    BY <2>1
  <2>3. m.end = m.start + Len(Patterns[m.pattern].value)
    BY <1>7, <1>13, <2>2, StaysThere
  <2>4. l.end = l.start + Len(Patterns[l.pattern].value)
    BY <1>7, <1>13, <2>2, StaysThere
  <2>5. m.end = l.end
    BY <1>13, <2>3, <2>4
  <2>6. m = [flow |-> f, dir |-> m.dir, pattern |-> m.pattern, start |-> m.start, end |-> m.end]
    BY DEF ReportsOf
  <2>7. l = [flow |-> f, dir |-> l.dir, pattern |-> l.pattern, start |-> l.start, end |-> l.end]
    BY DEF ReportsOf
  <2> QED
    BY <1>13, <2>5, <2>6, <2>7
<1>14. ASSUME NEW k \in 1 .. i, NEW l \in 1 .. j, ~ Patterns[s[k].pattern].regex, s[k].dir = dir
       PROVE  s[k] # z[l]
  <2>1. PICK m \in ReportsOf(f) : m = s[k] /\ IsThere(m, T[m.dir])
    BY <1>9
  <2>2. m.end <= Len(T[m.dir])
    BY <1>14, <2>1, StaysThere
  <2>3. m.end <= from /\ m.end \in Nat
    BY <1>8, <1>14, <2>1, <2>2 DEF ReportsOf
  <2>4. from < z[l].end
    BY <1>10
  <2> QED
    BY <2>1, <2>3, <2>4
<1>15. ASSUME NEW k \in 1 .. i + j, NEW l \in 1 .. i + j,
              ~ Patterns[q[k].pattern].regex, q[k].dir = q[l].dir,
              q[k].pattern = q[l].pattern, q[k].start = q[l].start
       PROVE  k = l
  <2>1. q[k] \in ReportsOf(f) /\ q[l] \in ReportsOf(f)
    BY <1>6, ElementOfSeq
  <2>2. q[k] = q[l]
    BY <1>12, <1>13, <1>15, <2>1
  <2>3. CASE k \in 1 .. i /\ q[k] = s[k] /\ l \in 1 .. i /\ q[l] = s[l]
    BY <1>4, <1>15, <2>3 DEF ReportsAre
  <2>4. CASE k - i \in 1 .. j /\ q[k] = z[k - i] /\ l - i \in 1 .. j /\ q[l] = z[l - i]
    <3>1. k - i = l - i
      BY <1>4, <2>2, <2>4
    <3> QED
      BY <3>1
  <2>5. CASE k \in 1 .. i /\ q[k] = s[k] /\ l - i \in 1 .. j /\ q[l] = z[l - i]
    <3>1. s[k].dir = dir
      BY <1>10, <2>2, <2>5
    <3> QED
      BY <1>14, <1>15, <2>2, <2>5, <3>1
  <2>6. CASE k - i \in 1 .. j /\ q[k] = z[k - i] /\ l \in 1 .. i /\ q[l] = s[l]
    <3>1. s[l].dir = dir
      BY <1>10, <2>2, <2>6
    <3> QED
      BY <1>14, <1>15, <2>2, <2>6, <3>1
  <2> QED
    BY <1>11, <2>3, <2>4, <2>5, <2>6
<1> QED
  BY <1>5, <1>6, <1>12, <1>15 DEF ReportsAre


-----------------------------------------------------------------------------
(* What is reported, in every run *)

\* What of a direction's stream is gone.
GoneOf(c, W) == Len(W) - c.stored
TheReport(f, d, i, x1, x2) == [flow |-> f, dir |-> d, pattern |-> i, start |-> x1, end |-> x2]

\* Literal i at x1 .. x2 of what direction d of flow f was given, which the store still has.
StillThere(f, d, i, x1, x2) ==
    /\ <<x1, x2>> \in LiteralHits(Patterns[i].value, taken[f][d])
    /\ GoneOf(content[f].dirs[d], taken[f][d]) <= x1

\* The reports of a flow are of what it was given, and every literal that the store still
\* has is among them, unless a cap was hit.
ReportedOK ==
    /\ DOMAIN reported = Flows
    /\ \A f \in Flows : ReportsAre(reported[f], f, taken[f])
    /\ pattern_stats.dropped = 0 =>
        \A f \in DOMAIN content : \A d \in Directions : \A i \in Literals : \A x1, x2 \in Nat :
            StillThere(f, d, i, x1, x2)
                => \E k \in 1 .. Len(reported[f]) : reported[f][k] = TheReport(f, d, i, x1, x2)

LEMMA ReportedInit == Init => ReportedOK
<1> SUFFICES ASSUME Init
             PROVE  ReportedOK
  OBVIOUS
<1>1. reported = [f \in Flows |-> <<>>] /\ content = <<>>
  BY DEF Init, ContentInit
<1>2. \A f \in Flows : ReportsAre(reported[f], f, taken[f])
  BY <1>1, NothingReported
<1>3. DOMAIN content = {} /\ DOMAIN reported = Flows
  BY <1>1
<1> QED
  BY <1>2, <1>3 DEF ReportedOK

\* What the engine reports for a packet.
PacketFound(p, T, S, z) ==
    /\ z \in Seq(Reports(p.flow, p.dir))
    /\ \A k \in 1 .. Len(z) : Len(T[p.dir]) < z[k].end /\ IsThere(z[k], S[p.dir])
    /\ \A k, l \in 1 .. Len(z) : z[k] = z[l] => k = l
    /\ pattern_stats.dropped <= pattern_stats'.dropped
    /\ pattern_stats'.dropped = 0 => \A i \in Literals : \A x1, x2 \in Nat :
        /\ <<x1, x2>> \in LiteralHits(Patterns[i].value, S[p.dir])
        /\ GoneOf(content'[p.flow].dirs[p.dir], S[p.dir]) <= x1 /\ Len(T[p.dir]) < x2
        => \E k \in 1 .. Len(z) : z[k] = TheReport(p.flow, p.dir, i, x1, x2)

LEMMA PacketFinds ==
    ASSUME PatternOK, ContentOK', ranges' \in Seq(ContentRange),
           NEW p \in Packets, NEW o, ObserveAndScan(p, o), NEW T, NEW S, StreamTook(p, o, T, S)
    PROVE  PacketFound(p, T, S, pattern_events')
<1>1. PICK flow : flow = p.flow
  OBVIOUS
<1>2. PICK d \in Directions : d = p.dir
  BY PacketIs
<1>3. PICK W \in Seq(Nat) : W = S[d]
  BY <1>1, <1>2 DEF StreamTook, RecordTail
<1>4. PICK from \in Nat : from = Len(T[d])
  BY <1>2, LenProperties DEF StreamTook
<1>5. PICK base \in Nat : base = pattern_stats.dropped
  BY DEF PatternOK, Capped, PatternStats
<1>6. PICK t : t = [flow |-> flow, dir |-> d, stream |-> W, from |-> from, dropped |-> base]
  OBVIOUS
<1>7. t.flow = flow /\ t.dir = d /\ t.stream = W /\ t.from = from /\ t.dropped = base /\ IsTask(t)
  BY <1>6 DEF IsTask
<1>8. PICK streams : streams = content'
  OBVIOUS
<1>9. PICK new \in Seq(ContentRange) : new = ranges'
  OBVIOUS
<1>10. PICK c \in ContentDirection : c = streams[flow].dirs[d] /\ TailOf(c, W)
  <2>1. flow \in DOMAIN content' /\ RecordTail(content'[flow], S)
    BY <1>1 DEF StreamTook
  <2>2. content'[flow] \in ContentRecord
    BY <2>1 DEF ContentOK, Contents
  <2>3. content'[flow].dirs[d] \in ContentDirection
    BY <2>2 DEF ContentRecord
  <2> QED
    BY <1>3, <1>8, <2>1, <2>3 DEF RecordTail
<1>11. Covers(new, d, from, Len(W))
  BY <1>2, <1>3, <1>4, <1>9 DEF StreamTook
<1>12. PICK y : y = Scanned(flow, streams, new)
  OBVIOUS
<1>13. pattern_stats' = y.stats /\ pattern_events' = y.events
  <2>1. ranges' # <<>>
    BY DEF StreamTook
  <2>2. ScanUpdate(flow, streams, new)
    BY <1>1, <1>8, <1>9, <2>1, Zenon DEF ObserveAndScan
  <2> QED
    BY <1>12, <2>2 DEF ScanUpdate
<1>14. PICK lost : lost = GoneOf(c, W)
  OBVIOUS
<1>15. /\ Finding(y, t)
       /\ \A i \in Literals : \A x1, x2 \in Nat :
            EndsIn(i, x1, x2, t, lost, t.from, Len(t.stream)) => TheMatch(t, i, x1, x2) \in y.emitted
  <2>1. lost = Len(t.stream) - streams[t.flow].dirs[t.dir].stored
    BY <1>7, <1>10, <1>14 DEF GoneOf
  <2>2. /\ streams[t.flow].dirs[t.dir] \in ContentDirection /\ TailOf(streams[t.flow].dirs[t.dir], t.stream)
        /\ Covers(new, t.dir, t.from, Len(t.stream)) /\ y = Scanned(t.flow, streams, new)
        /\ t.dropped = pattern_stats.dropped
    BY <1>5, <1>7, <1>10, <1>11, <1>12
  <2> QED
    BY <1>7, <2>1, <2>2, ScanFinds
<1>16. PICK E : E = y.emitted
  OBVIOUS
<1>17. PICK z \in Seq(E) : z = y.events
  BY <1>15, <1>16 DEF Finding
<1>18. /\ \A m \in E : m \in Reports(flow, d) /\ from < m.end /\ IsThere(m, W)
       /\ \A k, l \in 1 .. Len(z) : z[k] = z[l] => k = l
       /\ base <= y.stats.dropped
       /\ y.stats.dropped = 0 => \A m \in E : \E k \in 1 .. Len(z) : z[k] = m
  BY <1>7, <1>15, <1>16, <1>17 DEF Finding
<1>19. z \in Seq(Reports(flow, d))
  <2>1. E \subseteq Reports(flow, d)
    BY <1>18
  <2> QED
    BY <2>1, SeqMonotonic
<1>20. \A k \in 1 .. Len(z) : from < z[k].end /\ IsThere(z[k], W)
  BY <1>18, ElementOfSeq
<1>21. ASSUME y.stats.dropped = 0, NEW i \in Literals, NEW x1 \in Nat, NEW x2 \in Nat,
              <<x1, x2>> \in LiteralHits(Patterns[i].value, W), lost <= x1, from < x2
       PROVE  \E k \in 1 .. Len(z) : z[k] = TheReport(flow, d, i, x1, x2)
  <2>1. x2 <= Len(W)
    BY <1>21, LiteralLength
  <2>2. EndsIn(i, x1, x2, t, lost, t.from, Len(t.stream))
    BY <1>7, <1>21, <2>1 DEF EndsIn
  <2>3. TheMatch(t, i, x1, x2) = TheReport(flow, d, i, x1, x2)
    BY <1>7 DEF TheMatch, TheReport
  <2>4. TheReport(flow, d, i, x1, x2) \in E
    BY <1>15, <1>16, <2>2, <2>3
  <2> QED
    BY <1>18, <1>21, <2>4
<1>22. GoneOf(content'[p.flow].dirs[p.dir], S[p.dir]) = lost
  BY <1>1, <1>2, <1>3, <1>8, <1>10, <1>14
<1> QED
  BY <1>1, <1>2, <1>3, <1>4, <1>5, <1>13, <1>17, <1>18, <1>19, <1>20, <1>21, <1>22 DEF PacketFound

\* A stream that was given nothing has no literals.
LEMMA NothingThere ==
    ASSUME NEW d \in Directions, NEW v, NEW x1 \in Nat, NEW x2 \in Nat
    PROVE  <<x1, x2>> \notin LiteralHits(v, NothingGiven[d])
<1> SUFFICES ASSUME <<x1, x2>> \in LiteralHits(v, NothingGiven[d])
             PROVE  FALSE
  OBVIOUS
<1>1. PICK W \in Seq(Nat) : W = NothingGiven[d] /\ Len(W) = 0
  BY EmptySeq DEF NothingGiven
<1>2. x1 < x2 /\ x2 <= Len(W)
  BY <1>1, LiteralLength
<1> QED
  BY <1>1, <1>2

\* The history of the reports, when the packet has content.
LEMMA ReportedMoves ==
    ASSUME TakenOK, ReportedOK, NEW p \in Packets, NEW o, Remember(p, o), NEW T, NEW S, StreamTook(p, o, T, S),
           PacketFound(p, T, S, pattern_events')
    PROVE  \E prev : /\ ReportsAre(prev, p.flow, T)
                     /\ T = taken[p.flow] => prev = reported[p.flow] \/ T = NothingGiven
                     /\ T = taken[p.flow] \/ T = NothingGiven
                     /\ reported' = [reported EXCEPT ![p.flow] = prev \o pattern_events']
<1>1. p.flow \in Flows
  BY PacketIs
<1>2. ranges' # <<>> /\ T = TakenFrom(p, o)
  BY DEF StreamTook
<1>3. CASE ContentBegins(p, o)
  <2>1. T = NothingGiven
    BY <1>2, <1>3 DEF TakenFrom
  <2>2. reported' = [reported EXCEPT ![p.flow] = <<>> \o pattern_events']
    BY <1>2, <1>3 DEF Remember
  <2> QED
    BY <2>1, <2>2, NothingReported
<1>4. CASE ~ ContentBegins(p, o)
  <2>1. T = taken[p.flow]
    BY <1>2, <1>4 DEF TakenFrom
  <2>2. reported' = [reported EXCEPT ![p.flow] = reported[p.flow] \o pattern_events']
    BY <1>4 DEF Remember
  <2>3. ReportsAre(reported[p.flow], p.flow, T)
    BY <1>1, <2>1 DEF ReportedOK
  <2> QED
    BY <2>1, <2>2, <2>3
<1> QED
  BY <1>3, <1>4


\* What the store still has of a stream and had before its packet was reported before it.
LEMMA ReportedBefore ==
    ASSUME ContentOK, TakenOK, ReportedOK, ContentOK', NEW p \in Packets, NEW o, NEW T, NEW S, StreamTook(p, o, T, S),
           T = taken[p.flow] \/ T = NothingGiven, pattern_stats.dropped = 0,
           NEW d \in Directions, NEW i \in Literals, NEW x1 \in Nat, NEW x2 \in Nat,
           <<x1, x2>> \in LiteralHits(Patterns[i].value, T[d]),
           GoneOf(content'[p.flow].dirs[d], S[d]) <= x1
    PROVE  /\ T # NothingGiven
           /\ \E k \in 1 .. Len(reported[p.flow]) : reported[p.flow][k] = TheReport(p.flow, d, i, x1, x2)
<1>1. T # NothingGiven /\ T = taken[p.flow]
  BY NothingThere
<1>2. p.flow \in DOMAIN content /\ OnlyNew(content[p.flow], content'[p.flow])
  BY <1>1 DEF StreamTook
<1>3. content[p.flow] \in ContentRecord /\ RecordTail(content[p.flow], T)
  BY <1>1, <1>2 DEF ContentOK, Contents, TakenOK
<1>4. content'[p.flow] \in ContentRecord /\ RecordTail(content'[p.flow], S)
  BY DEF StreamTook, ContentOK, Contents
<1>5. PICK c : c = content[p.flow].dirs[d] /\ c.next = Len(T[d])
  BY <1>3 DEF RecordTail, TailOf
<1>6. PICK e : e = content'[p.flow].dirs[d] /\ e.next = Len(S[d])
  BY <1>4 DEF RecordTail, TailOf
<1>7. c.next \in Nat /\ c.stored \in Nat /\ e.next \in Nat /\ e.stored \in Nat
  BY <1>3, <1>4, <1>5, <1>6, GoneIs
<1>8. c.next - c.stored <= e.next - e.stored
  BY <1>2, <1>5, <1>6 DEF OnlyNew
<1>9. GoneOf(c, T[d]) = c.next - c.stored /\ GoneOf(e, S[d]) = e.next - e.stored
  BY <1>5, <1>6 DEF GoneOf
<1>10. GoneOf(c, T[d]) <= x1
  <2>1. e.next - e.stored <= x1
    BY <1>6, <1>9
  <2> QED
    BY <1>7, <1>8, <1>9, <2>1
<1>11. StillThere(p.flow, d, i, x1, x2)
  BY <1>1, <1>5, <1>10 DEF StillThere
<1> QED
  BY <1>1, <1>2, <1>11 DEF ReportedOK

\* A literal in a stream with its packet was in it before, or reaches into the packet.
LEMMA OldOrNew ==
    ASSUME NEW T \in [Directions -> Seq(Nat)], NEW dir \in Directions, NEW bytes \in Seq(Nat),
           NEW S, S = Given(T, dir, bytes), NEW d \in Directions, NEW v, NEW x1 \in Nat, NEW x2 \in Nat,
           <<x1, x2>> \in LiteralHits(v, S[d])
    PROVE  <<x1, x2>> \in LiteralHits(v, T[d]) \/ (d = dir /\ Len(T[d]) < x2)
<1>1. PICK W \in Seq(Nat) : W = T[d]
  OBVIOUS
<1>2. S[d] = IF d = dir THEN W \o bytes ELSE W
  BY <1>1 DEF Given
<1>3. PICK n \in Nat : n = Len(W)
  BY LenProperties
<1>4. CASE d = dir /\ x2 <= n
  <2>1. <<x1, x2>> \in LiteralHits(v, W \o bytes)
    BY <1>2, <1>4
  <2> QED
    BY <1>1, <1>3, <1>4, <2>1, HitsOfMore
<1>5. CASE d = dir /\ ~ x2 <= n
  BY <1>1, <1>3, <1>5
<1>6. CASE d # dir
  BY <1>1, <1>2, <1>6
<1> QED
  BY <1>4, <1>5, <1>6

LEMMA ReportStep ==
    ASSUME PipelineOK, TakenOK, ReportedOK, NEW p \in Packets, AnalyzePacket(p)
    PROVE  ReportedOK'
<1>1. PICK o : o = observation'
  OBVIOUS
<1>2. o.chunks \in Seq(Chunks(p.flow)) /\ ContentMoved(p) /\ ContentOK' /\ ranges' \in Seq(ContentRange)
  BY <1>1, ContentOfPacket
<1>3. Remember(p, o) /\ ObserveAndScan(p, o)
  BY <1>1 DEF AnalyzePacket
<1>4. ContentOK /\ PatternOK
  BY DEF PipelineOK, TablesOK
<1>5. /\ TakenOK'
      /\ IF HasContent(p, o) THEN \E T, S : StreamTook(p, o, T, S)
         ELSE content' = content /\ taken' = taken
  BY <1>1, <1>2, <1>3, <1>4, TakeStep
<1>6. p.flow \in Flows /\ p.dir \in Directions
  BY PacketIs
<1>7. CASE ~ HasContent(p, o)
  <2>1. ranges' = <<>>
    BY <1>1, <1>2, <1>7 DEF ContentMoved
  <2>2. content' = content /\ taken' = taken
    BY <1>5, <1>7
  <2>3. pattern_events' = <<>> /\ pattern_stats' = pattern_stats
    BY <1>3, <2>1 DEF ObserveAndScan
  <2>4. reported' = [reported EXCEPT ![p.flow] = reported[p.flow] \o <<>>]
    BY <1>3, <2>1, <2>3 DEF Remember
  <2>5. reported[p.flow] \in Seq(ReportsOf(p.flow))
    BY <1>6 DEF ReportedOK, ReportsAre
  <2>6. reported[p.flow] \o <<>> = reported[p.flow]
    BY <2>5, ConcatEmptySeq
  <2>7. DOMAIN reported' = DOMAIN reported /\ \A f \in Flows : reported'[f] = reported[f]
    BY <2>4, <2>6 DEF ReportedOK
  <2>8. DOMAIN content \subseteq Flows
    BY <1>4 DEF ContentOK
  <2> QED
    BY <2>2, <2>3, <2>7, <2>8 DEF ReportedOK, StillThere
<1>8. CASE HasContent(p, o)
  <2>1. PICK T, S : StreamTook(p, o, T, S)
    BY <1>5, <1>8
  <2>2. PICK z : z = pattern_events'
    OBVIOUS
  <2>3. PacketFound(p, T, S, z)
    BY <1>2, <1>3, <1>4, <2>1, <2>2, PacketFinds
  <2>4. PICK prev : /\ ReportsAre(prev, p.flow, T)
                    /\ T = taken[p.flow] => prev = reported[p.flow] \/ T = NothingGiven
                    /\ T = taken[p.flow] \/ T = NothingGiven
                    /\ reported' = [reported EXCEPT ![p.flow] = prev \o z]
    BY <1>3, <2>1, <2>2, <2>3, ReportedMoves
  <2>5. PICK b \in Seq(Nat) : b = Bytes(p, o)
    BY <1>2, <1>8, BytesAre
  <2>6. T \in [Directions -> Seq(Nat)] /\ S = Given(T, p.dir, b) /\ taken' = [taken EXCEPT ![p.flow] = S]
    BY <2>1, <2>5 DEF StreamTook
  <2>7. z \in Seq(Reports(p.flow, p.dir))
        /\ (\A k \in 1 .. Len(z) : Len(T[p.dir]) < z[k].end /\ IsThere(z[k], S[p.dir]))
        /\ (\A k, l \in 1 .. Len(z) : z[k] = z[l] => k = l)
    BY <2>3 DEF PacketFound
  <2>8. ReportsAre(prev \o z, p.flow, S)
    BY <1>6, <2>4, <2>6, <2>7, ReportsGoOn
  <2>9. /\ DOMAIN reported' = Flows /\ reported'[p.flow] = prev \o z
        /\ \A f \in Flows \ {p.flow} : reported'[f] = reported[f]
    BY <1>6, <2>4 DEF ReportedOK
  <2>10. taken'[p.flow] = S /\ \A f \in Flows \ {p.flow} : taken'[f] = taken[f]
    BY <1>6, <2>6 DEF TakenOK
  <2>11. ASSUME NEW f \in Flows
         PROVE  ReportsAre(reported'[f], f, taken'[f])
    <3>1. CASE f = p.flow
      BY <2>8, <2>9, <2>10, <3>1
    <3>2. CASE f # p.flow
      BY <2>9, <2>10, <2>11, <3>2 DEF ReportedOK
    <3> QED
      BY <3>1, <3>2
  <2>12. /\ pattern_stats'.dropped = 0 => pattern_stats.dropped = 0
    <3>1. pattern_stats.dropped \in Nat
      BY <1>4 DEF PatternOK, Capped, PatternStats
    <3>2. pattern_stats.dropped <= pattern_stats'.dropped
      BY <2>3 DEF PacketFound
    <3> QED
      BY <3>1, <3>2
  <2>13. ASSUME pattern_stats'.dropped = 0, NEW f \in DOMAIN content', NEW d \in Directions, NEW i \in Literals,
                NEW x1 \in Nat, NEW x2 \in Nat, StillThere(f, d, i, x1, x2)'
         PROVE  \E k \in 1 .. Len(reported'[f]) : reported'[f][k] = TheReport(f, d, i, x1, x2)
    <3>1. /\ <<x1, x2>> \in LiteralHits(Patterns[i].value, taken'[f][d])
          /\ GoneOf(content'[f].dirs[d], taken'[f][d]) <= x1
      BY <2>13 DEF StillThere
    <3>2. CASE f # p.flow
      <4>1. f \in DOMAIN content /\ content'[f] = content[f]
        BY <2>1, <3>2 DEF StreamTook
      <4>2. f \in Flows
        BY <1>4, <4>1 DEF ContentOK
      <4>3. taken'[f] = taken[f] /\ reported'[f] = reported[f]
        BY <2>9, <2>10, <3>2, <4>2
      <4>4. StillThere(f, d, i, x1, x2)
        BY <3>1, <4>1, <4>3 DEF StillThere
      <4> QED
        BY <2>12, <2>13, <4>1, <4>3, <4>4 DEF ReportedOK
    <3>3. CASE f = p.flow
      <4>1. /\ <<x1, x2>> \in LiteralHits(Patterns[i].value, S[d])
            /\ GoneOf(content'[p.flow].dirs[d], S[d]) <= x1
        BY <2>10, <3>1, <3>3
      <4>2. PICK m \in Nat, n \in Nat : m = Len(prev) /\ n = Len(z) /\ prev \in Seq(ReportsOf(p.flow))
        BY <2>4, <2>7, LenProperties DEF ReportsAre
      <4>3. PICK y \in Seq(ReportsOf(p.flow)) : y = z
        <5>1. Reports(p.flow, p.dir) \subseteq ReportsOf(p.flow)
          BY <1>6 DEF Reports, ReportsOf
        <5> QED
          BY <2>7, <5>1, SeqMonotonic
      <4>4. /\ Len(prev \o z) = m + n
            /\ \A k \in 1 .. m + n : (prev \o z)[k] = IF k <= m THEN prev[k] ELSE z[k - m]
        BY <4>2, <4>3, ConcatProperties
      <4>5. CASE <<x1, x2>> \in LiteralHits(Patterns[i].value, T[d])
        <5>1. /\ T # NothingGiven
              /\ \E k \in 1 .. Len(reported[p.flow]) : reported[p.flow][k] = TheReport(p.flow, d, i, x1, x2)
          BY <1>2, <1>4, <2>1, <2>4, <2>12, <2>13, <4>1, <4>5, ReportedBefore
        <5>2. prev = reported[p.flow]
          BY <2>4, <5>1
        <5>3. PICK k \in 1 .. m : prev[k] = TheReport(p.flow, d, i, x1, x2)
          BY <4>2, <5>1, <5>2
        <5>4. k \in 1 .. m + n /\ (prev \o z)[k] = prev[k]
          BY <4>4
        <5> QED
          BY <2>9, <3>3, <4>4, <5>3, <5>4
      <4>6. CASE d = p.dir /\ Len(T[d]) < x2
        <5>1. \E k \in 1 .. Len(z) : z[k] = TheReport(p.flow, p.dir, i, x1, x2)
          BY <2>3, <2>13, <4>1, <4>6 DEF PacketFound
        <5>2. PICK k \in 1 .. n : z[k] = TheReport(p.flow, d, i, x1, x2)
          BY <4>2, <4>6, <5>1
        <5>3. m + k \in 1 .. m + n /\ ~ (m + k <= m) /\ (m + k) - m = k
          OBVIOUS
        <5>4. (prev \o z)[m + k] = z[k]
          BY <4>4, <5>3
        <5> QED
          BY <2>9, <3>3, <4>4, <5>2, <5>3, <5>4
      <4>7. PICK v : v = Patterns[i].value
        OBVIOUS
      <4>8. <<x1, x2>> \in LiteralHits(v, S[d])
        BY <4>1, <4>7
      <4>9. <<x1, x2>> \in LiteralHits(v, T[d]) \/ (d = p.dir /\ Len(T[d]) < x2)
        <5>1. PICK U \in [Directions -> Seq(Nat)] : U = T
          BY <2>6
        <5>2. PICK V : V = S /\ V = Given(U, p.dir, b)
          BY <2>6, <5>1
        <5>3. PICK dir \in Directions : dir = p.dir
          BY <1>6
        <5>4. V = Given(U, dir, b) /\ <<x1, x2>> \in LiteralHits(v, V[d])
          BY <4>8, <5>2, <5>3
        <5>5. <<x1, x2>> \in LiteralHits(v, U[d]) \/ (d = dir /\ Len(U[d]) < x2)
          BY <5>4, OldOrNew
        <5> QED
          BY <5>1, <5>3, <5>5
      <4> QED
        BY <4>5, <4>6, <4>7, <4>9
    <3> QED
      BY <3>2, <3>3
  <2> QED
    BY <2>9, <2>11, <2>13 DEF ReportedOK
<1> QED
  BY <1>7, <1>8

LEMMA ReportedKeeps == PipelineOK /\ TakenOK /\ ReportedOK /\ [Next]_vars => ReportedOK'
<1> SUFFICES ASSUME PipelineOK, TakenOK, ReportedOK, [Next]_vars
             PROVE  ReportedOK'
  OBVIOUS
<1>1. ASSUME NEW p \in Packets, AnalyzePacket(p)
      PROVE  ReportedOK'
  BY <1>1, ReportStep
<1>2. ASSUME UNCHANGED <<content_vars, pattern_vars, history_vars>>
      PROVE  ReportedOK'
  <2>1. content' = content /\ taken' = taken /\ reported' = reported /\ pattern_stats' = pattern_stats
    BY <1>2 DEF content_vars, pattern_vars, history_vars
  <2>2. \A f, d, i, x1, x2 : StillThere(f, d, i, x1, x2)' <=> StillThere(f, d, i, x1, x2)
    BY <2>1, Zenon DEF StillThere
  <2>3. DOMAIN reported' = Flows /\ (\A f \in Flows : ReportsAre(reported'[f], f, taken'[f]))
    BY <2>1, Zenon DEF ReportedOK
  <2>4. ASSUME pattern_stats'.dropped = 0, NEW f \in DOMAIN content', NEW d \in Directions,
               NEW i \in Literals, NEW x1 \in Nat, NEW x2 \in Nat, StillThere(f, d, i, x1, x2)'
        PROVE  \E k \in 1 .. Len(reported'[f]) : reported'[f][k] = TheReport(f, d, i, x1, x2)
    <3>1. f \in DOMAIN content /\ pattern_stats.dropped = 0 /\ StillThere(f, d, i, x1, x2)
      BY <2>1, <2>2, <2>4, Zenon
    <3>2. \E k \in 1 .. Len(reported[f]) : reported[f][k] = TheReport(f, d, i, x1, x2)
      BY <3>1, Zenon DEF ReportedOK
    <3> QED
      BY <2>1, <3>2, Zenon
  <2> QED
    BY <2>3, <2>4, Zenon DEF ReportedOK
<1>3. ASSUME NEW p \in Packets, DumpPacket(p)
      PROVE  UNCHANGED <<content_vars, pattern_vars, history_vars>>
  BY <1>3 DEF DumpPacket
<1>4. MalformedPacket \/ EndBatch \/ Finish \/ UNCHANGED vars
        => UNCHANGED <<content_vars, pattern_vars, history_vars>>
  BY DEF MalformedPacket, EndBatch, Finish, vars
<1> QED
  BY <1>1, <1>2, <1>3, <1>4 DEF Next

\* So each literal is found, and once.
LEMMA FoundOnce == ContentOK /\ TakenOK /\ ReportedOK => LiteralsFoundOnce
<1> SUFFICES ASSUME ContentOK, TakenOK, ReportedOK, pattern_stats.dropped = 0,
                    NEW f \in DOMAIN content, NEW d \in Directions, NEW i \in Literals
             PROVE  LET hits == LiteralHits(Patterns[i].value, taken[f][d])
                        report == reported[f]
                        reports == {k \in DOMAIN report : report[k].dir = d /\ report[k].pattern = i}
                    IN  /\ \A x \in hits : x[1] >= Lost(f, d) => \E k \in reports : report[k].start = x[1]
                        /\ \A k \in reports : <<report[k].start, report[k].end>> \in hits
                        /\ \A k, l \in reports : report[k].start = report[l].start => k = l
  BY DEF LiteralsFoundOnce
<1>1. f \in Flows
  BY DEF ContentOK
<1>2. PICK W \in Seq(Nat) : W = taken[f][d] /\ Lost(f, d) = GoneOf(content[f].dirs[d], W)
  BY LostIs DEF GoneOf
<1>3. PICK report \in Seq(ReportsOf(f)) : report = reported[f]
  BY <1>1 DEF ReportedOK, ReportsAre
<1>4. PICK v : v = Patterns[i].value
  OBVIOUS
<1>5. PICK n \in Nat : n = Len(report) /\ DOMAIN report = 1 .. n
  BY LenProperties
<1>6. ~ Patterns[i].regex /\ i \in DOMAIN Patterns
  BY DEF Literals
<1>7. ASSUME NEW x \in LiteralHits(v, W), x[1] >= Lost(f, d)
      PROVE  \E k \in 1 .. n : report[k].dir = d /\ report[k].pattern = i /\ report[k].start = x[1]
  <2>1. x \in Spans(W)
    BY DEF LiteralHits
  <2>2. PICK x1 \in Nat, x2 \in Nat : x = <<x1, x2>>
    <3>1. PICK m \in Nat : m = Len(W)
      BY LenProperties
    <3>2. x \in (0 .. m) \X (0 .. m)
      BY <2>1, <3>1 DEF Spans
    <3>3. 0 .. m \subseteq Nat
      OBVIOUS
    <3> QED
      BY <3>2, <3>3
  <2>3. x[1] = x1
    BY <2>2
  <2>4. GoneOf(content[f].dirs[d], W) \in Int
    <3>1. content[f].dirs[d].stored \in Nat /\ Len(W) \in Nat
      BY LostIs, LenProperties DEF ContentDirection
    <3> QED
      BY <3>1 DEF GoneOf
  <2>5. GoneOf(content[f].dirs[d], W) <= x1
    BY <1>2, <1>7, <2>3, <2>4
  <2>6. StillThere(f, d, i, x1, x2)
    BY <1>2, <1>4, <1>7, <2>2, <2>5 DEF StillThere
  <2>7. PICK k \in 1 .. n : report[k] = TheReport(f, d, i, x1, x2)
    BY <1>3, <1>5, <2>6, ZenonT(40) DEF ReportedOK
  <2>8. report[k].dir = d /\ report[k].pattern = i /\ report[k].start = x1
    BY <2>7 DEF TheReport
  <2> QED
    BY <2>3, <2>8
<1>8. ASSUME NEW k \in 1 .. n, report[k].dir = d, report[k].pattern = i
      PROVE  <<report[k].start, report[k].end>> \in LiteralHits(v, W)
  <2>1. IsThere(report[k], taken[f][report[k].dir])
    BY <1>1, <1>3, <1>5 DEF ReportedOK, ReportsAre
  <2> QED
    BY <1>2, <1>4, <1>6, <1>8, <2>1 DEF IsThere
<1>9. ASSUME NEW k \in 1 .. n, NEW l \in 1 .. n, report[k].dir = d, report[l].dir = d,
             report[k].pattern = i, report[l].pattern = i, report[k].start = report[l].start
      PROVE  k = l
  BY <1>1, <1>3, <1>5, <1>6, <1>9 DEF ReportedOK, ReportsAre
<1> QED
  BY <1>2, <1>3, <1>4, <1>5, <1>7, <1>8, <1>9


-----------------------------------------------------------------------------
(* What the view remembers *)

\* The view has of each stream only matches of M, and an event brings it no others.
Remembers(v, M) ==
    ViewShape(v) /\ \A f \in Tracked(v) : f \in DOMAIN M /\ v.streams[f].matches \in Seq(M[f])
Brings(e, M) ==
    /\ e.type \in {"stream_open", "stream_update"} => e.flow \in DOMAIN M /\ RowShape(e.row)
    /\ e.type = "pattern_match" => e.match.flow \in DOMAIN M /\ e.match \in M[e.match.flow]
BringsOnly(s, M) == \A i \in DOMAIN s : Brings(s[i], M)

LEMMA UpsertRemembers ==
    ASSUME NEW M, NEW v, Remembers(v, M), NEW flow \in DOMAIN M, NEW row, RowShape(row)
    PROVE  Remembers(Upsert(v, flow, row), M)
<1>1. PICK w : w = Upsert(v, flow, row) /\ Upserted(v, w, flow, row)
  BY UpsertIs DEF Remembers
<1>2. ASSUME NEW f \in Tracked(w)
      PROVE  f \in DOMAIN M /\ w.streams[f].matches \in Seq(M[f])
  <2>1. CASE f = flow
    <3>1. \/ w.streams[flow].matches = <<>>
          \/ flow \in Tracked(v) /\ w.streams[flow].matches = v.streams[flow].matches
      BY <1>1, <1>2, <2>1 DEF Upserted
    <3>2. <<>> \in Seq(M[flow])
      BY EmptySeq
    <3> QED
      BY <2>1, <3>1, <3>2 DEF Remembers
  <2>2. CASE f # flow
    BY <1>1, <1>2, <2>2 DEF Upserted, Remembers
  <2> QED
    BY <2>1, <2>2
<1>3. ViewShape(w)
  BY <1>1 DEF Upserted
<1> QED
  BY <1>1, <1>2, <1>3 DEF Remembers

LEMMA WithMatchIs ==
    ASSUME NEW S, NEW entry, EntryShape(entry), entry.matches \in Seq(S), NEW m \in S
    PROVE  EntryShape(WithMatch(entry, m)) /\ WithMatch(entry, m).matches \in Seq(S)
<1>1. PICK s \in Seq(S) : s = entry.matches
  OBVIOUS
<1>2. PICK kept : kept = IF Len(s) >= MaxViewMatches THEN Tail(s) ELSE s
  OBVIOUS
<1>3. PICK x : x = IF MaxViewMatches = 0 THEN s ELSE Append(kept, m)
  OBVIOUS
<1>4. PICK w : w = WithMatch(entry, m)
  OBVIOUS
<1>5. DOMAIN w = DOMAIN entry /\ w.row = entry.row /\ w.matches = x
  BY <1>1, <1>2, <1>3, <1>4 DEF WithMatch, EntryShape
<1>6. EntryShape(w)
  BY <1>5 DEF EntryShape
<1>7. x \in Seq(S)
  <2>1. CASE MaxViewMatches = 0
    BY <1>3, <2>1
  <2>2. CASE MaxViewMatches # 0
    <3>1. kept \in Seq(S)
      <4>1. CASE Len(s) >= MaxViewMatches
        <5>1. s # <<>>
          BY <2>2, <4>1, EmptySeq, ViewAssumption
        <5>2. Tail(s) \in Seq(S)
          BY <5>1, HeadTailProperties
        <5> QED
          BY <1>2, <4>1, <5>2
      <4>2. CASE ~ (Len(s) >= MaxViewMatches)
        BY <1>2, <4>2
      <4> QED
        BY <4>1, <4>2
    <3>2. Append(kept, m) \in Seq(S)
      BY <3>1, AppendProperties
    <3> QED
      BY <1>3, <2>2, <3>2
  <2> QED
    BY <2>1, <2>2
<1> QED
  BY <1>4, <1>5, <1>6, <1>7

LEMMA MatchRemembers ==
    ASSUME NEW M, NEW v, Remembers(v, M), NEW m, m.flow \in DOMAIN M, m \in M[m.flow]
    PROVE  Remembers(ObserveMatch(v, m), M)
<1>1. PICK w : w = ObserveMatch(v, m)
  OBVIOUS
<1>2. CASE m.flow \notin Tracked(v)
  <2>1. w = [v EXCEPT !.stats.orphan = @ + 1]
    BY <1>1, <1>2, Zenon DEF ObserveMatch
  <2>2. DOMAIN w = DOMAIN v /\ w.streams = v.streams
    BY <2>1 DEF Remembers, ViewShape
  <2> QED
    BY <1>1, <2>2 DEF Remembers, ViewShape, Tracked
<1>3. CASE m.flow \in Tracked(v)
  <2>1. PICK flow : flow = m.flow /\ flow \in DOMAIN v.streams
    BY <1>3 DEF Tracked
  <2>2. EntryShape(v.streams[flow]) /\ v.streams[flow].matches \in Seq(M[flow])
    BY <2>1 DEF Remembers, ViewShape, Tracked
  <2>3. PICK entry : entry = WithMatch(v.streams[flow], m)
    OBVIOUS
  <2>4. EntryShape(entry) /\ entry.matches \in Seq(M[flow])
    BY <2>1, <2>2, <2>3, WithMatchIs
  <2>5. PICK a, b, c, d :
          w = [v EXCEPT !.streams[m.flow] = entry, !.matched = a, !.pattern_index = b,
                        !.stats.stored = c, !.stats.dropped = d]
    BY <1>1, <1>3, <2>1, <2>3, ZenonT(30) DEF ObserveMatch, Remembers, ViewShape
  <2>6. PICK streams : streams = [v.streams EXCEPT ![flow] = entry]
    OBVIOUS
  <2>7. DOMAIN w = DOMAIN v /\ w.streams = streams
    BY <2>1, <2>5, <2>6 DEF Remembers, ViewShape
  <2>8. DOMAIN streams = DOMAIN v.streams /\ streams[flow] = entry
        /\ \A f \in DOMAIN streams \ {flow} : streams[f] = v.streams[f]
    BY <2>1, <2>6
  <2>9. ViewShape(w)
    BY <2>4, <2>7, <2>8 DEF Remembers, ViewShape, Tracked
  <2>10. \A f \in DOMAIN streams : f \in DOMAIN M /\ streams[f].matches \in Seq(M[f])
    BY <2>4, <2>8 DEF Remembers, Tracked
  <2> QED
    BY <1>1, <2>7, <2>9, <2>10 DEF Remembers, Tracked
<1> QED
  BY <1>2, <1>3

LEMMA MessageRemembers ==
    ASSUME NEW M, NEW v, Remembers(v, M), NEW m
    PROVE  Remembers(ObserveMessage(v, m), M)
<1>1. PICK w : w = ObserveMessage(v, m)
  OBVIOUS
<1>2. CASE m.error \/ m.flow \notin Tracked(v)
  BY <1>2 DEF ObserveMessage
<1>3. CASE ~ (m.error \/ m.flow \notin Tracked(v))
  <2>1. ViewShape(w)
    <3>1. PICK table : table = [f \in {} |-> f] /\ DOMAIN table = {}
      OBVIOUS
    <3>2. RowsTell(v, table)
      BY <3>1 DEF RowsTell, Remembers
    <3>3. RowsTell(w, table)
      BY <1>1, <3>2, MessageTells
    <3> QED
      BY <3>3 DEF RowsTell
  <2>2. PICK flow : flow = m.flow /\ flow \in DOMAIN v.streams
    BY <1>3 DEF Tracked
  <2>3. EntryShape(v.streams[flow]) /\ RowShape(v.streams[flow].row)
    BY <2>2 DEF Remembers, ViewShape, EntryShape, Tracked
  <2>4. PICK service, kind :
          w = [v EXCEPT !.streams[m.flow].row.service = service, !.streams[m.flow].row.kind = kind]
    BY <1>1, <1>3, Zenon DEF ObserveMessage
  <2>5. PICK row : row = [v.streams[flow].row EXCEPT !.service = service]
    OBVIOUS
  <2>6. PICK first : first = [v.streams[flow] EXCEPT !.row = row]
    OBVIOUS
  <2>7. PICK entry : entry = [first EXCEPT !.row = [first.row EXCEPT !.kind = kind]]
    OBVIOUS
  <2>8. PICK old : old = [v.streams EXCEPT ![flow] = first]
    OBVIOUS
  <2>9. PICK streams : streams = [old EXCEPT ![flow] = entry]
    OBVIOUS
  <2>10. entry.matches = v.streams[flow].matches
    BY <2>3, <2>6, <2>7 DEF EntryShape
  <2>11. w.streams = streams
    <3>1. PICK x : x = [v EXCEPT !.streams[flow].row.service = service]
      OBVIOUS
    <3>2. x = [v EXCEPT !.streams = old]
      BY <2>2, <2>5, <2>6, <2>8, <3>1 DEF Remembers, ViewShape
    <3>3. DOMAIN x = DOMAIN v /\ x.streams = old /\ old[flow] = first
      BY <2>2, <2>8, <3>2 DEF Remembers, ViewShape
    <3>4. w = [x EXCEPT !.streams[flow].row.kind = kind]
      BY <2>2, <2>4, <3>1
    <3>5. w = [x EXCEPT !.streams = streams]
      BY <2>7, <2>9, <3>3, <3>4
    <3> QED
      BY <3>3, <3>5 DEF Remembers, ViewShape
  <2>12. DOMAIN streams = DOMAIN v.streams /\ streams[flow] = entry
         /\ \A f \in DOMAIN streams \ {flow} : streams[f] = v.streams[f]
    BY <2>2, <2>8, <2>9
  <2>13. \A f \in DOMAIN streams : f \in DOMAIN M /\ streams[f].matches \in Seq(M[f])
    BY <2>10, <2>12 DEF Remembers, Tracked
  <2> QED
    BY <1>1, <2>1, <2>11, <2>13 DEF Remembers, Tracked
<1> QED
  BY <1>2, <1>3

LEMMA EventsRemembered ==
    ASSUME NEW M, NEW v, Remembers(v, M), NEW s, IsSequence(s), BringsOnly(s, M)
    PROVE  Remembers(ObserveEvents(v, s), M)
<1>1. PICK n \in Nat : DOMAIN s = 1 .. n
  <2>1. PICK T : s \in Seq(T)
    BY DEF IsSequence
  <2> QED
    BY <2>1, LenProperties
<1>2. PICK h : Observes(h, v, s, n)
  BY <1>1, EventsInTurn
<1> DEFINE G == {i \in Nat : i <= n => Remembers(h[i], M)}
<1>3. 0 \in G
  <2>1. h[0] = v
    BY <1>2 DEF Observes
  <2> QED
    BY <2>1
<1>4. ASSUME NEW i \in Nat, i \in G
      PROVE  i + 1 \in G
  <2> SUFFICES ASSUME i + 1 <= n
               PROVE  Remembers(h[i + 1], M)
    OBVIOUS
  <2>1. PICK j \in 1 .. n : j = i + 1 /\ j - 1 = i
    OBVIOUS
  <2>2. PICK u : u = h[i] /\ Remembers(u, M)
    BY <1>4
  <2>3. PICK e : e = s[j] /\ Brings(e, M)
    BY <1>1 DEF BringsOnly
  <2>4. h[j] = ObserveEvent(u, e)
    BY <1>2, <2>1, <2>2, <2>3 DEF Observes
  <2>5. CASE e.type \in {"stream_open", "stream_update"}
    <3>1. ObserveEvent(u, e) = Upsert(u, e.flow, e.row)
      BY <2>5 DEF ObserveEvent
    <3>2. PICK flow, row : flow = e.flow /\ row = e.row /\ flow \in DOMAIN M /\ RowShape(row)
      BY <2>3, <2>5 DEF Brings
    <3>3. Remembers(Upsert(u, flow, row), M)
      BY <2>2, <3>2, UpsertRemembers
    <3> QED
      BY <2>1, <2>4, <3>1, <3>2, <3>3
  <2>6. CASE e.type = "pattern_match"
    <3>1. ObserveEvent(u, e) = ObserveMatch(u, e.match)
      BY <2>6 DEF ObserveEvent
    <3>2. PICK m : m = e.match /\ m.flow \in DOMAIN M /\ m \in M[m.flow]
      BY <2>3, <2>6 DEF Brings
    <3>3. Remembers(ObserveMatch(u, m), M)
      BY <2>2, <3>2, MatchRemembers
    <3> QED
      BY <2>1, <2>4, <3>1, <3>2, <3>3
  <2>7. CASE e.type \notin {"stream_open", "stream_update", "pattern_match"}
    <3>1. ObserveEvent(u, e) \in {ObserveMessage(u, e.message), u}
      BY <2>7 DEF ObserveEvent
    <3>2. Remembers(ObserveMessage(u, e.message), M)
      BY <2>2, MessageRemembers
    <3> QED
      BY <2>1, <2>2, <2>4, <3>1, <3>2
  <2> QED
    BY <2>5, <2>6, <2>7
<1>5. n \in G
  <2> HIDE DEF G
  <2> QED
    BY <1>3, <1>4, NumberInduction
<1>6. Remembers(h[n], M)
  BY <1>5
<1> QED
  BY <1>2, <1>6 DEF Observes

\* What is remembered may be more.
LEMMA RemembersMore ==
    ASSUME NEW M, NEW N, DOMAIN M = DOMAIN N, \A f \in DOMAIN M : M[f] \subseteq N[f]
    PROVE  /\ \A v : Remembers(v, M) => Remembers(v, N)
           /\ \A s : BringsOnly(s, M) => BringsOnly(s, N)
<1>1. ASSUME NEW v, Remembers(v, M)
      PROVE  Remembers(v, N)
  <2>1. ASSUME NEW f \in Tracked(v)
        PROVE  f \in DOMAIN N /\ v.streams[f].matches \in Seq(N[f])
    <3>1. f \in DOMAIN M /\ v.streams[f].matches \in Seq(M[f])
      BY <1>1 DEF Remembers
    <3>2. M[f] \subseteq N[f]
      BY <3>1
    <3> QED
      BY <3>1, <3>2, SeqMonotonic
  <2> QED
    BY <1>1, <2>1 DEF Remembers
<1>2. ASSUME NEW s, BringsOnly(s, M)
      PROVE  BringsOnly(s, N)
  <2>1. \A e : Brings(e, M) => Brings(e, N)
    BY DEF Brings
  <2> QED
    BY <1>2, <2>1 DEF BringsOnly
<1> QED
  BY <1>1, <1>2

LEMMA BringsBoth ==
    ASSUME NEW M, NEW a, NEW b, NEW c, Follows(a, b, c), BringsOnly(a, M), BringsOnly(b, M)
    PROVE  BringsOnly(c, M)
<1>1. PICK n \in Nat, m \in Nat :
        /\ DOMAIN a = 1 .. n /\ DOMAIN b = 1 .. m /\ DOMAIN c = 1 .. n + m
        /\ \A i \in 1 .. n : c[i] = a[i]
        /\ \A i \in 1 .. m : c[n + i] = b[i]
  BY DEF Follows
<1>2. ASSUME NEW i \in 1 .. n + m
      PROVE  Brings(c[i], M)
  <2>1. CASE i <= n
    <3>1. i \in 1 .. n
      BY <2>1
    <3> QED
      BY <1>1, <3>1 DEF BringsOnly
  <2>2. CASE ~ (i <= n)
    <3>1. PICK j \in 1 .. m : i = n + j
      BY <2>2
    <3> QED
      BY <1>1, <3>1 DEF BringsOnly
  <2> QED
    BY <2>1, <2>2
<1> QED
  BY <1>1, <1>2 DEF BringsOnly


\* The matches that a client may be shown of a flow: as long as its content never began
\* again, those of what it was given.
Trusted == [f \in Flows |-> {m \in ReportsOf(f) : f \in restarted \/ IsThere(m, taken[f][m.dir])}]
MatchesOK == Remembers(view, Trusted) /\ BringsOnly(events, Trusted)

LEMMA MatchesInit == Init => MatchesOK
<1> SUFFICES ASSUME Init
             PROVE  MatchesOK
  OBVIOUS
<1>1. view = NewView /\ events = <<>>
  BY DEF Init
<1>2. PICK v : v = NewView
  OBVIOUS
<1>3. Tracked(v) = {} /\ ViewShape(v)
  BY <1>2 DEF NewView, Tracked, ViewShape
<1>4. PICK M : M = Trusted
  OBVIOUS
<1>5. Remembers(v, M)
  BY <1>3 DEF Remembers
<1>6. BringsOnly(<<>>, M)
  BY DEF BringsOnly
<1> QED
  BY <1>1, <1>2, <1>4, <1>5, <1>6 DEF MatchesOK

\* What was trusted is trusted after a packet, and so is what the packet is reported for.
LEMMA TrustedGrow ==
    ASSUME PipelineOK, TakenOK, NEW p \in Packets, AnalyzePacket(p)
    PROVE  /\ DOMAIN Trusted' = DOMAIN Trusted /\ \A f \in DOMAIN Trusted : Trusted[f] \subseteq Trusted'[f]
           /\ pattern_events' \in Seq(Trusted'[p.flow])
<1>1. PICK o : o = observation'
  OBVIOUS
<1>2. o.chunks \in Seq(Chunks(p.flow)) /\ ContentMoved(p) /\ ContentOK' /\ ranges' \in Seq(ContentRange)
  BY <1>1, ContentOfPacket
<1>3. Remember(p, o) /\ ObserveAndScan(p, o)
  BY <1>1 DEF AnalyzePacket
<1>4. ContentOK /\ PatternOK
  BY DEF PipelineOK, TablesOK
<1>5. IF HasContent(p, o) THEN \E T, S : StreamTook(p, o, T, S) ELSE taken' = taken
  BY <1>1, <1>2, <1>3, <1>4, TakeStep
<1>6. p.flow \in Flows /\ p.dir \in Directions
  BY PacketIs
<1>7. DOMAIN Trusted = Flows /\ DOMAIN Trusted' = Flows
  BY DEF Trusted
<1>8. CASE ~ HasContent(p, o)
  <2>1. ranges' = <<>> /\ taken' = taken
    BY <1>1, <1>2, <1>5, <1>8 DEF ContentMoved
  <2>2. pattern_events' = <<>> /\ restarted' = restarted
    BY <1>3, <2>1 DEF ObserveAndScan, Remember
  <2>3. Trusted' = Trusted
    BY <2>1, <2>2 DEF Trusted
  <2>4. PICK M : M = Trusted'
    OBVIOUS
  <2>5. <<>> \in Seq(M[p.flow])
    BY EmptySeq
  <2> QED
    BY <1>7, <2>2, <2>3, <2>4, <2>5
<1>9. CASE HasContent(p, o)
  <2>1. PICK T, S : StreamTook(p, o, T, S)
    BY <1>5, <1>9
  <2>2. PICK z : z = pattern_events'
    OBVIOUS
  <2>3. PacketFound(p, T, S, z)
    BY <1>2, <1>3, <1>4, <2>1, <2>2, PacketFinds
  <2>4. PICK b \in Seq(Nat) : b = Bytes(p, o)
    BY <1>2, <1>9, BytesAre
  <2>5. T \in [Directions -> Seq(Nat)] /\ S = Given(T, p.dir, b) /\ taken' = [taken EXCEPT ![p.flow] = S]
        /\ T = TakenFrom(p, o) /\ ranges' # <<>>
    BY <2>1, <2>4 DEF StreamTook
  <2>6. taken'[p.flow] = S /\ \A f \in Flows \ {p.flow} : taken'[f] = taken[f]
    BY <1>6, <2>5 DEF TakenOK
  <2>7. /\ restarted \subseteq restarted'
        /\ p.flow \notin restarted' => T = taken[p.flow]
    <3>1. CASE ContentBegins(p, o)
      <4>1. T = NothingGiven
        BY <2>5, <3>1 DEF TakenFrom
      <4>2. restarted' = IF taken[p.flow] # NothingGiven THEN restarted \cup {p.flow} ELSE restarted
        BY <1>3, <2>5, <3>1 DEF Remember, NothingGiven
      <4> QED
        BY <4>1, <4>2
    <3>2. CASE ~ ContentBegins(p, o)
      <4>1. T = taken[p.flow]
        BY <2>5, <3>2 DEF TakenFrom
      <4>2. restarted' = restarted
        BY <1>3, <3>2 DEF Remember
      <4> QED
        BY <4>1, <4>2
    <3> QED
      BY <3>1, <3>2
  <2>8. ASSUME NEW f \in Flows
        PROVE  Trusted[f] \subseteq Trusted'[f]
    <3> SUFFICES ASSUME NEW m \in ReportsOf(f), f \in restarted \/ IsThere(m, taken[f][m.dir])
                 PROVE  f \in restarted' \/ IsThere(m, taken'[f][m.dir])
      BY DEF Trusted
    <3>1. CASE f # p.flow
      <4>1. taken'[f] = taken[f]
        BY <2>6, <3>1
      <4> QED
        BY <2>7, <4>1
    <3>2. CASE f = p.flow /\ f \notin restarted'
      <4>1. T = taken[f] /\ IsThere(m, T[m.dir])
        BY <2>7, <3>2
      <4>2. IsThere(m, S[m.dir])
        <5>1. PICK U \in [Directions -> Seq(Nat)] : U = T
          BY <2>5
        <5>2. PICK dir \in Directions : dir = p.dir
          BY <1>6
        <5>3. PICK V : V = S /\ V = Given(U, dir, b)
          BY <2>5, <5>1, <5>2
        <5>4. IsThere(m, U[m.dir])
          BY <4>1, <5>1
        <5>5. V = Given(U, dir, b)
          BY <5>3
        <5>6. IsThere(m, U[m.dir]) => IsThere(m, V[m.dir])
          BY <5>5, StaysThere
        <5>7. IsThere(m, V[m.dir])
          BY <5>4, <5>6
        <5> QED
          BY <5>3, <5>7
      <4> QED
        BY <2>6, <3>2, <4>2
    <3> QED
      BY <3>1, <3>2
  <2>9. z \in Seq(Trusted'[p.flow])
    <3>1. PICK n \in Nat : n = Len(z) /\ DOMAIN z = 1 .. n /\ z \in Seq(Reports(p.flow, p.dir))
      BY <2>3, LenProperties DEF PacketFound
    <3>2. ASSUME NEW k \in 1 .. n
          PROVE  z[k] \in Trusted'[p.flow]
      <4>1. PICK m \in Reports(p.flow, p.dir) : m = z[k] /\ IsThere(m, S[p.dir])
        BY <2>3, <3>1, ElementOfSeq DEF PacketFound
      <4>2. m.dir = p.dir /\ m \in ReportsOf(p.flow)
        BY <1>6, <4>1 DEF Reports, ReportsOf
      <4>3. IsThere(m, taken'[p.flow][m.dir])
        BY <2>6, <4>1, <4>2
      <4> QED
        BY <1>6, <4>1, <4>2, <4>3 DEF Trusted
    <3>3. PICK A : A = Trusted'[p.flow]
      OBVIOUS
    <3>4. z \in [1 .. n -> A]
      <4>1. z = [k \in 1 .. n |-> z[k]]
        <5>1. z \in [1 .. n -> Reports(p.flow, p.dir)]
          BY <3>1, LenProperties
        <5> QED
          BY <5>1
      <4> QED
        BY <3>2, <3>3, <4>1
    <3> QED
      BY <3>3, <3>4, SeqDef
  <2> QED
    BY <1>7, <2>2, <2>8, <2>9
<1> QED
  BY <1>8, <1>9

\* Events that are not matches and show no row bring nothing.
LEMMA QuietBrings ==
    ASSUME NEW M, NEW s, \A i \in DOMAIN s : s[i].type \in {"protocol_message", "packet"}
    PROVE  BringsOnly(s, M)
BY DEF BringsOnly, Brings

\* What the inventory, the engine and the parsers tell of a packet.
LEMMA InventoryBrings ==
    ASSUME NEW M, NEW flow \in DOMAIN M, RecordsMoved(flow)
    PROVE  IsSequence(inventory_events') /\ BringsOnly(inventory_events', M)
<1>1. CASE inventory_events' = <<>>
  <2>1. BringsOnly(<<>>, M)
    BY DEF BringsOnly
  <2> QED
    BY <1>1, <2>1, EmptyIs
<1>2. CASE inventory_events' # <<>>
  <2>1. PICK r : r = records'[flow]
    OBVIOUS
  <2>2. PICK type \in {"stream_open", "stream_update"} : inventory_events' = OneEvent(type, flow, r)
    BY <1>2, <2>1 DEF RecordsMoved
  <2>3. MarkedUp(r)
    BY <1>2, <2>1 DEF RecordsMoved
  <2>4. PICK row : row = Row(r) /\ RowShape(row)
    BY <2>3, RowTells
  <2>5. PICK e : e = [type |-> type, flow |-> flow, row |-> row]
    OBVIOUS
  <2>6. PICK s : s = <<e>> /\ s = inventory_events'
    BY <2>2, <2>4, <2>5 DEF OneEvent
  <2>7. e.type = type /\ e.flow = flow /\ e.row = row
    BY <2>5
  <2>8. Brings(e, M)
    BY <2>4, <2>7 DEF Brings
  <2>9. DOMAIN s = {1} /\ s[1] = e /\ s \in Seq({e})
    BY <2>6
  <2> QED
    BY <2>6, <2>8, <2>9 DEF BringsOnly, IsSequence
<1> QED
  BY <1>1, <1>2

LEMMA MatchEventsBring ==
    ASSUME NEW M, NEW flow \in DOMAIN M, NEW z \in Seq(M[flow]), \A m \in M[flow] : m.flow = flow
    PROVE  BringsOnly(MatchEvents(z), M)
<1>1. PICK n \in Nat : n = Len(z) /\ DOMAIN z = 1 .. n
  BY LenProperties
<1>2. PICK s : s = MatchEvents(z)
  OBVIOUS
<1>3. s = [i \in 1 .. n |-> [type |-> "pattern_match", match |-> z[i]]]
  BY <1>1, <1>2 DEF MatchEvents
<1>4. ASSUME NEW i \in 1 .. n
      PROVE  Brings(s[i], M)
  <2>1. PICK m \in M[flow] : m = z[i]
    BY <1>1, ElementOfSeq
  <2>2. s[i].type = "pattern_match" /\ s[i].match = m
    BY <1>3, <2>1
  <2> QED
    BY <2>1, <2>2 DEF Brings
<1>5. DOMAIN s = 1 .. n
  BY <1>3
<1> QED
  BY <1>2, <1>4, <1>5 DEF BringsOnly

LEMMA MatchesStep ==
    ASSUME PipelineOK, TakenOK, MatchesOK, NEW p \in Packets, AnalyzePacket(p)
    PROVE  MatchesOK'
<1>1. ObserveFlow(p) /\ ObserveInventory(p, observation') /\ ObserveAndScan(p, observation')
  BY DEF AnalyzePacket
<1>2. observation'.chunks \in Seq(Chunks(p.flow))
  BY <1>1, FlowStep DEF PipelineOK, TablesOK
<1>3. RecordsMoved(p.flow)
  BY <1>1, <1>2, InventoryStep DEF PipelineOK, TablesOK
<1>4. PICK M : M = Trusted'
  OBVIOUS
<1>5. /\ DOMAIN M = DOMAIN Trusted /\ \A f \in DOMAIN Trusted : Trusted[f] \subseteq M[f]
      /\ pattern_events' \in Seq(M[p.flow])
  BY <1>4, TrustedGrow
<1>6. p.flow \in DOMAIN M /\ \A m \in M[p.flow] : m.flow = p.flow
  <2>1. p.flow \in Flows /\ DOMAIN M = Flows
    BY <1>4, PacketIs DEF Trusted
  <2>2. \A m \in M[p.flow] : m \in ReportsOf(p.flow)
    BY <1>4, <2>1 DEF Trusted
  <2> QED
    BY <2>1, <2>2 DEF ReportsOf
<1>7. Remembers(view, M) /\ BringsOnly(events, M)
  <2>1. PICK N : N = Trusted
    OBVIOUS
  <2>2. Remembers(view, N) /\ BringsOnly(events, N)
    BY <2>1 DEF MatchesOK
  <2>3. DOMAIN N = DOMAIN M /\ \A f \in DOMAIN N : N[f] \subseteq M[f]
    BY <1>5, <2>1
  <2> QED
    BY <2>2, <2>3, RemembersMore
<1>8. PICK opened : opened = inventory_events'
  OBVIOUS
<1>9. PICK found : found = MatchEvents(pattern_events')
  OBVIOUS
<1>10. PICK told : told = MessageEvents(p, observation')
  OBVIOUS
<1>11. IsSequence(opened) /\ BringsOnly(opened, M)
  BY <1>3, <1>6, <1>8, InventoryBrings
<1>12. IsSequence(found) /\ BringsOnly(found, M)
  <2>1. PICK z \in Seq(M[p.flow]) : z = pattern_events'
    BY <1>5
  <2>2. IsSequence(z)
    BY DEF IsSequence
  <2>3. Soft(MatchEvents(z))
    BY <2>2, MatchEventsSoft
  <2>4. BringsOnly(MatchEvents(z), M)
    BY <1>6, MatchEventsBring
  <2> QED
    BY <1>9, <2>1, <2>3, <2>4 DEF Soft, OfTypes
<1>13. IsSequence(told) /\ BringsOnly(told, M)
  <2>1. PICK o : o = observation' /\ o.chunks \in Seq(Chunks(p.flow))
    BY <1>2
  <2>2. Told(MessageEvents(p, o))
    BY <2>1, MessageEventsAre
  <2>3. Told(told)
    BY <1>10, <2>1, <2>2
  <2> QED
    BY <2>3, QuietBrings DEF Told, OfTypes
<1>14. PICK a : a = events \o opened
  OBVIOUS
<1>15. PICK b : b = a \o found
  OBVIOUS
<1>16. PICK c : c = b \o told
  OBVIOUS
<1>17. events' = c /\ view' = view
  BY <1>8, <1>9, <1>10, <1>14, <1>15, <1>16, Zenon DEF AnalyzePacket
<1>18. IsSequence(a) /\ Follows(events, opened, a)
  <2>1. IsSequence(events)
    BY DEF PipelineOK, BatchOK
  <2> QED
    BY <1>11, <1>14, <2>1, ConcatIs
<1>19. IsSequence(b) /\ Follows(a, found, b)
  BY <1>12, <1>15, <1>18, ConcatIs
<1>20. Follows(b, told, c)
  BY <1>13, <1>16, <1>19, ConcatIs
<1>21. BringsOnly(a, M)
  BY <1>7, <1>11, <1>18, BringsBoth
<1>22. BringsOnly(b, M)
  BY <1>12, <1>19, <1>21, BringsBoth
<1>23. BringsOnly(c, M)
  BY <1>13, <1>20, <1>22, BringsBoth
<1> QED
  BY <1>4, <1>7, <1>17, <1>23 DEF MatchesOK

LEMMA MatchesKeep == PipelineOK /\ TakenOK /\ MatchesOK /\ [Next]_vars => MatchesOK'
<1> SUFFICES ASSUME PipelineOK, TakenOK, MatchesOK, [Next]_vars
             PROVE  MatchesOK'
  OBVIOUS
<1>1. ASSUME NEW p \in Packets, AnalyzePacket(p)
      PROVE  MatchesOK'
  BY <1>1, MatchesStep
<1>2. ASSUME UNCHANGED history_vars
      PROVE  Trusted' = Trusted
  BY <1>2 DEF history_vars, Trusted
<1>3. PICK M : M = Trusted /\ Remembers(view, M) /\ BringsOnly(events, M)
  BY DEF MatchesOK
<1>4. ASSUME NEW p \in Packets, DumpPacket(p)
      PROVE  MatchesOK'
  <2>1. PICK e : e = [type |-> "packet", flow |-> p.flow]
    OBVIOUS
  <2>2. PICK c : c = Append(events, e)
    OBVIOUS
  <2>3. events' = c /\ view' = view /\ Trusted' = M
    BY <1>2, <1>3, <1>4, <2>1, <2>2 DEF DumpPacket
  <2>4. BringsOnly(c, M)
    <3>1. PICK A : events \in Seq(A)
      BY DEF PipelineOK, BatchOK, IsSequence
    <3>2. PICK B : B = A \cup {e}
      OBVIOUS
    <3>3. PICK s \in Seq(B) : s = events
      BY <3>1, <3>2, SeqMonotonic
    <3>4. PICK n \in Nat : n = Len(s) /\ DOMAIN s = 1 .. n
      BY LenProperties
    <3>5. DOMAIN c = 1 .. n + 1 /\ \A i \in 1 .. n + 1 : c[i] = IF i <= n THEN s[i] ELSE e
      <4>1. c \in Seq(B) /\ Len(c) = n + 1 /\ \A i \in 1 .. n : c[i] = s[i]
        BY <2>2, <3>2, <3>3, <3>4, AppendProperties
      <4>2. c[n + 1] = e
        BY <2>2, <3>2, <3>3, <3>4, AppendProperties
      <4>3. DOMAIN c = 1 .. n + 1
        BY <4>1, LenProperties
      <4> QED
        BY <4>1, <4>2, <4>3
    <3>6. Brings(e, M)
      BY <2>1 DEF Brings
    <3>7. ASSUME NEW i \in 1 .. n + 1
          PROVE  Brings(c[i], M)
      <4>1. CASE i <= n
        <5>1. i \in 1 .. n /\ c[i] = s[i]
          BY <3>5, <4>1
        <5> QED
          BY <1>3, <3>3, <3>4, <5>1 DEF BringsOnly
      <4>2. CASE ~ (i <= n)
        BY <3>5, <3>6, <4>2
      <4> QED
        BY <4>1, <4>2
    <3> QED
      BY <3>5, <3>7 DEF BringsOnly
  <2> QED
    BY <1>3, <2>3, <2>4 DEF MatchesOK
<1>5. CASE EndBatch
  <2>1. view' = ObserveEvents(view, events) /\ events' = <<>> /\ Trusted' = M
    BY <1>2, <1>3, <1>5 DEF EndBatch
  <2>2. IsSequence(events)
    BY DEF PipelineOK, BatchOK
  <2>3. Remembers(ObserveEvents(view, events), M)
    BY <1>3, <2>2, EventsRemembered
  <2>4. BringsOnly(<<>>, M)
    BY DEF BringsOnly
  <2> QED
    BY <2>1, <2>3, <2>4 DEF MatchesOK
<1>6. ASSUME UNCHANGED <<history_vars, view, events>>
      PROVE  MatchesOK'
  BY <1>2, <1>6 DEF MatchesOK
<1>7. MalformedPacket \/ Finish \/ UNCHANGED vars => UNCHANGED <<history_vars, view, events>>
  BY DEF MalformedPacket, Finish, vars, driver_vars
<1> QED
  BY <1>1, <1>4, <1>5, <1>6, <1>7 DEF Next


-----------------------------------------------------------------------------
(* What a slice highlights *)

\* A highlight is a match of the direction, clipped to the one window a .. b of the stream.
HighlightOf(h, m, dir, a, b) ==
    /\ m.dir = dir /\ h.pattern = m.pattern /\ h.start < h.end
    /\ h.start = Max({m.start, a}) /\ h.end = Min({m.end, b})

\* A list of them.
HighlightsOf(found, matches, dir, a, b) ==
    \E n \in Nat : \E H :
        /\ found \in [1 .. n -> H]
        /\ \A h \in H : \E j \in 1 .. Len(matches) : HighlightOf(h, matches[j], dir, a, b)

\* The places that are shown: match and window.
ShownPlaces(dir, matches, segments) ==
    {p \in (DOMAIN matches) \X (DOMAIN segments) :
        matches[p[1]].dir = dir
        /\ Highlight(matches[p[1]], segments, p[2]).start < Highlight(matches[p[1]], segments, p[2]).end}
AtPlace(matches, segments, p) == Highlight(matches[p[1]], segments, p[2])
PlaceBefore(matches, segments, p, q) ==
    \/ HighlightBefore(AtPlace(matches, segments, p), AtPlace(matches, segments, q))
    \/ ~ HighlightBefore(AtPlace(matches, segments, q), AtPlace(matches, segments, p)) /\ p[1] < q[1]

\* There is one piece at most, and it goes from a to b.
OnePiece(segments, a, b) ==
    /\ DOMAIN segments \subseteq {1}
    /\ 1 \in DOMAIN segments => segments[1].start = a /\ LogicalEnd(segments[1]) = b
\* The places of the matches to be shown, and which comes before which.
ShownInOrder(S, R, dir, matches, segments) ==
    /\ S = ShownPlaces(dir, matches, segments)
    /\ R = {x \in S \X S : PlaceBefore(matches, segments, x[1], x[2])}

LEMMA PiecesAre ==
    ASSUME NEW W \in Seq(Nat), NEW a \in Nat, NEW b \in Nat, b <= Len(W),
           NEW segments, segments = Piecewise(W, a, b)
    PROVE  OnePiece(segments, a, b)
<1> USE DEF OnePiece
<1>1. CASE b <= a
  <2>1. segments = <<>>
    BY <1>1 DEF Piecewise
  <2> QED
    BY <2>1
<1>2. CASE ~ (b <= a)
  <2>1. PICK s : s = [start |-> a, bytes |-> Stretch(W, a, b)]
    OBVIOUS
  <2>2. segments = <<s>>
    BY <1>2, <2>1 DEF Piecewise
  <2>3. s.start = a /\ s.bytes = Stretch(W, a, b)
    BY <2>1
  <2>4. Len(Stretch(W, a, b)) = b - a
    <3>1. a <= b
      BY <1>2
    <3> QED
      BY <3>1, PartIs
  <2>5. LogicalEnd(s) = b
    <3>1. a + (b - a) = b
      OBVIOUS
    <3> QED
      BY <2>3, <2>4, <3>1 DEF LogicalEnd
  <2> QED
    BY <2>2, <2>3, <2>5
<1> QED
  BY <1>1, <1>2

LEMMA PlacesInOrder ==
    ASSUME NEW f, NEW matches \in Seq(ReportsOf(f)), NEW a \in Nat, NEW b \in Nat, NEW segments,
           OnePiece(segments, a, b), NEW dir, NEW S, NEW R, ShownInOrder(S, R, dir, matches, segments)
    PROVE  /\ IsFiniteSet(S) /\ Orders(R, S)
           /\ \A p, q \in S : <<p, q>> \in R <=> PlaceBefore(matches, segments, p, q)
           /\ \A p \in S : \E j \in 1 .. Len(matches) :
                HighlightOf(AtPlace(matches, segments, p), matches[j], dir, a, b)
<1> USE DEF OnePiece, ShownInOrder
<1>1. PICK n \in Nat : n = Len(matches) /\ DOMAIN matches = 1 .. n
  BY LenProperties
<1>2. IsFiniteSet(S)
  <2>1. S \subseteq (1 .. n) \X {1}
    BY <1>1 DEF ShownPlaces
  <2>2. IsFiniteSet(1 .. n) /\ IsFiniteSet({1})
    <3> HIDE DEF OnePiece, ShownInOrder
    <3>1. IsFiniteSet(1 .. n)
      BY FS_Interval
    <3>2. IsFiniteSet({1})
      BY FS_Singleton
    <3> QED
      BY <3>1, <3>2
  <2>3. IsFiniteSet((1 .. n) \X {1})
    BY <2>2, FS_Product, Zenon
  <2> QED
    BY <2>1, <2>3, FS_Subset, Zenon
<1>3. \A p, q \in S : <<p, q>> \in R <=> PlaceBefore(matches, segments, p, q)
  OBVIOUS
<1>4. ASSUME NEW p \in S
      PROVE  \E j \in 1 .. n : \E s, e \in Int : \E h :
               /\ p = <<j, 1>> /\ p[1] = j /\ h = AtPlace(matches, segments, p)
               /\ HighlightOf(h, matches[j], dir, a, b)
               /\ h.start = s /\ h.end = e /\ h.segment = 1
  <2>1. PICK j \in 1 .. n : p = <<j, 1>> /\ 1 \in DOMAIN segments
    BY <1>1 DEF ShownPlaces
  <2>2. p[1] = j /\ p[2] = 1
    BY <2>1
  <2>3. PICK m \in ReportsOf(f) : m = matches[j]
    BY <1>1, ElementOfSeq
  <2>4. m.start \in Int /\ m.end \in Int
    BY DEF ReportsOf
  <2>5. PICK s \in Int : s = Max({m.start, a})
    <3>1. a \in Int
      OBVIOUS
    <3>2. Max({m.start, a}) \in {m.start, a}
      BY <2>4, <3>1, OfTwo
    <3> QED
      BY <2>4, <3>1, <3>2
  <2>6. PICK e \in Int : e = Min({m.end, b})
    <3>1. b \in Int
      OBVIOUS
    <3>2. Min({m.end, b}) \in {m.end, b}
      BY <2>4, <3>1, OfTwo
    <3> QED
      BY <2>4, <3>1, <3>2
  <2>7. PICK h : h = Highlight(m, segments, 1)
    OBVIOUS
  <2>8. h = [pattern |-> m.pattern, start |-> s, end |-> e, segment |-> 1]
    BY <2>1, <2>5, <2>6, <2>7 DEF Highlight
  <2>9. h.pattern = m.pattern /\ h.start = s /\ h.end = e /\ h.segment = 1
    BY <2>8
  <2>10. h = AtPlace(matches, segments, p)
    BY <2>2, <2>3, <2>7 DEF AtPlace
  <2>11. m.dir = dir /\ h.start < h.end
    BY <2>2, <2>3, <2>7 DEF ShownPlaces
  <2>12. HighlightOf(h, m, dir, a, b)
    BY <2>5, <2>6, <2>9, <2>11 DEF HighlightOf
  <2> QED
    BY <2>1, <2>2, <2>3, <2>9, <2>10, <2>12
<1> DEFINE Key(p, j, s, e) ==
             p = <<j, 1>> /\ p[1] = j /\ AtPlace(matches, segments, p).start = s
             /\ AtPlace(matches, segments, p).end = e /\ AtPlace(matches, segments, p).segment = 1
<1>5. \A p \in S : \E j, s, e \in Int : Key(p, j, s, e)
  BY <1>4
<1>6. ASSUME NEW p, NEW q, NEW i \in Int, NEW j \in Int, NEW s \in Int, NEW t \in Int, NEW d \in Int, NEW e \in Int,
             Key(p, i, s, d), Key(q, j, t, e)
      PROVE  /\ PlaceBefore(matches, segments, p, q)
                  <=> s < t \/ (s = t /\ (d < e \/ (d = e /\ i < j)))
             /\ i = j => p = q
  <2>1. PICK h, l : h = AtPlace(matches, segments, p) /\ l = AtPlace(matches, segments, q)
    OBVIOUS
  <2>2. HighlightBefore(h, l) \/ (~ HighlightBefore(l, h) /\ i < j)
        <=> s < t \/ (s = t /\ (d < e \/ (d = e /\ i < j)))
    <3>1. h.start = s /\ l.start = t /\ h.end = d /\ l.end = e /\ h.segment = 1 /\ l.segment = 1
      BY <1>6, <2>1
    <3>2. HighlightBefore(h, l) <=> s < t \/ (s = t /\ d < e)
      BY <3>1 DEF HighlightBefore
    <3>3. HighlightBefore(l, h) <=> t < s \/ (s = t /\ e < d)
      BY <3>1 DEF HighlightBefore
    <3>4. (s < t \/ (s = t /\ d < e)) \/ (~ (t < s \/ (s = t /\ e < d)) /\ i < j)
          <=> s < t \/ (s = t /\ (d < e \/ (d = e /\ i < j)))
      OBVIOUS
    <3> QED
      BY <3>2, <3>3, <3>4, Zenon
  <2>3. PlaceBefore(matches, segments, p, q)
          <=> HighlightBefore(h, l) \/ (~ HighlightBefore(l, h) /\ i < j)
    BY <1>6, <2>1 DEF PlaceBefore
  <2> QED
    BY <1>6, <2>2, <2>3
<1> HIDE DEF Key
<1>7. ASSUME NEW p \in S
      PROVE  ~ PlaceBefore(matches, segments, p, p)
  <2>1. PICK j \in Int, s \in Int, e \in Int : Key(p, j, s, e)
    BY <1>5
  <2>2. PlaceBefore(matches, segments, p, p) <=> s < s \/ (s = s /\ (e < e \/ (e = e /\ j < j)))
    BY <1>6, <2>1
  <2> QED
    BY <2>2
<1>8. ASSUME NEW p \in S, NEW q \in S, p # q
      PROVE  PlaceBefore(matches, segments, p, q) \/ PlaceBefore(matches, segments, q, p)
  <2>1. PICK i \in Int, s \in Int, d \in Int : Key(p, i, s, d)
    BY <1>5
  <2>2. PICK j \in Int, t \in Int, e \in Int : Key(q, j, t, e)
    BY <1>5
  <2>3. PlaceBefore(matches, segments, p, q) <=> s < t \/ (s = t /\ (d < e \/ (d = e /\ i < j)))
    BY <1>6, <2>1, <2>2
  <2>4. PlaceBefore(matches, segments, q, p) <=> t < s \/ (t = s /\ (e < d \/ (e = d /\ j < i)))
    BY <1>6, <2>1, <2>2
  <2>5. i # j
    BY <1>6, <1>8, <2>1, <2>2
  <2> QED
    BY <2>3, <2>4, <2>5
<1>9. ASSUME NEW p \in S, NEW q \in S, NEW r \in S,
              PlaceBefore(matches, segments, p, q), PlaceBefore(matches, segments, q, r)
       PROVE  PlaceBefore(matches, segments, p, r)
  <2>1. PICK i \in Int, s \in Int, d \in Int : Key(p, i, s, d)
    BY <1>5
  <2>2. PICK j \in Int, t \in Int, e \in Int : Key(q, j, t, e)
    BY <1>5
  <2>3. PICK k \in Int, u \in Int, g \in Int : Key(r, k, u, g)
    BY <1>5
  <2>4. s < t \/ (s = t /\ (d < e \/ (d = e /\ i < j)))
    BY <1>6, <1>9, <2>1, <2>2
  <2>5. t < u \/ (t = u /\ (e < g \/ (e = g /\ j < k)))
    BY <1>6, <1>9, <2>2, <2>3
  <2>6. s < u \/ (s = u /\ (d < g \/ (d = g /\ i < k)))
    BY <2>4, <2>5
  <2> QED
    BY <1>6, <2>1, <2>3, <2>6
<1>10. Orders(R, S)
  BY <1>3, <1>7, <1>8, <1>9 DEF Orders
<1> QED
  BY <1>1, <1>2, <1>3, <1>4, <1>10

\* Each highlight of a slice is one.
LEMMA HighlightsAre ==
    ASSUME NEW f, NEW matches \in Seq(ReportsOf(f)), NEW W \in Seq(Nat), NEW a \in Nat, NEW b \in Nat, b <= Len(W),
           NEW segments, segments = Piecewise(W, a, b), NEW dir, NEW found,
           found = Highlights(dir, matches, segments)
    PROVE  HighlightsOf(found, matches, dir, a, b)
<1>1. PICK S : S = ShownPlaces(dir, matches, segments)
  OBVIOUS
<1>2. PICK R : R = {x \in S \X S : PlaceBefore(matches, segments, x[1], x[2])}
  OBVIOUS
<1>3. /\ IsFiniteSet(S) /\ Orders(R, S)
      /\ \A p, q \in S : <<p, q>> \in R <=> PlaceBefore(matches, segments, p, q)
      /\ \A p \in S : \E j \in 1 .. Len(matches) :
           HighlightOf(AtPlace(matches, segments, p), matches[j], dir, a, b)
  <2>1. OnePiece(segments, a, b)
    BY PiecesAre, SMTT(30)
  <2>2. ShownInOrder(S, R, dir, matches, segments)
    BY <1>1, <1>2, Zenon DEF ShownInOrder
  <2> QED
    BY <2>1, <2>2, PlacesInOrder, ZenonT(40)
<1>4. PICK n \in Nat : n = Cardinality(S)
  BY <1>3, FS_CardinalityType
<1> DEFINE place(k) == CHOOSE p \in S : Cardinality({q \in S : PlaceBefore(matches, segments, q, p)}) = k - 1
<1>5. found = [k \in 1 .. n |-> AtPlace(matches, segments, place(k))]
  BY <1>1, <1>4 DEF Highlights, ShownPlaces, AtPlace, PlaceBefore
<1>6. PICK c : c = [k \in 1 .. n |-> place(k)]
  OBVIOUS
<1>7. \A p \in S : RankIn(S, R, p) = Cardinality({q \in S : PlaceBefore(matches, segments, q, p)})
  <2> SUFFICES ASSUME NEW p \in S
               PROVE  RankIn(S, R, p) = Cardinality({q \in S : PlaceBefore(matches, segments, q, p)})
    OBVIOUS
  <2>1. {q \in S : <<q, p>> \in R} = {q \in S : PlaceBefore(matches, segments, q, p)}
    BY <1>3
  <2> QED
    BY <2>1 DEF RankIn
<1>8. ASSUME NEW k \in DOMAIN c, \E x \in S : RankIn(S, R, x) = k - 1
      PROVE  c[k] \in S /\ RankIn(S, R, c[k]) = k - 1
  <2>1. c[k] = place(k)
    BY <1>6
  <2>2. \E x \in S : Cardinality({q \in S : PlaceBefore(matches, segments, q, x)}) = k - 1
    BY <1>7, <1>8
  <2>3. place(k) \in S /\ Cardinality({q \in S : PlaceBefore(matches, segments, q, place(k))}) = k - 1
    BY <2>2
  <2> QED
    BY <1>7, <2>1, <2>3
<1>9. DOMAIN c = 1 .. Cardinality(S)
  BY <1>4, <1>6
<1>10. Lists(c, S)
  BY <1>3, <1>8, <1>9, ListedInOrder
<1>11. PICK H : H = {AtPlace(matches, segments, p) : p \in S}
  OBVIOUS
<1>12. ASSUME NEW k \in 1 .. n
       PROVE  AtPlace(matches, segments, place(k)) \in H
  <2>1. c[k] = place(k) /\ k \in DOMAIN c
    BY <1>6
  <2>2. place(k) \in S
    BY <1>10, <2>1 DEF Lists
  <2> HIDE DEF place
  <2> QED
    BY <1>11, <2>2
<1>13. found \in [1 .. n -> H]
  <2> HIDE DEF place
  <2> QED
    BY <1>5, <1>12
<1>14. \A h \in H : \E j \in 1 .. Len(matches) : HighlightOf(h, matches[j], dir, a, b)
  BY <1>3, <1>11
<1> QED
  BY <1>13, <1>14 DEF HighlightsOf


LEMMA HeadOf ==
    ASSUME NEW H, NEW found \in Seq(H), NEW k \in Nat, k <= Len(found), NEW h \in ToSet(SubSeq(found, 1, k))
    PROVE  h \in H
<1>1. PICK a \in Nat : a = 0 /\ a <= k
  OBVIOUS
<1>2. PICK part : part = Stretch(found, a, k) /\ part = SubSeq(found, 1, k)
  <2>1. a + 1 = 1
    BY <1>1
  <2>2. Stretch(found, a, k) = SubSeq(found, 1, k)
    BY <2>1, Zenon DEF Stretch
  <2> QED
    BY <2>2
<1>3. Stretch(found, a, k) \in Seq(H) /\ Len(Stretch(found, a, k)) = k - a
  BY <1>1, PartIs
<1>4. part \in Seq(H)
  BY <1>2, <1>3
<1>5. DOMAIN part = 1 .. Len(part) /\ h \in ToSet(part)
  BY <1>2, <1>4, LenProperties
<1>6. PICK i \in 1 .. Len(part) : h = part[i]
  BY <1>5 DEF ToSet
<1> QED
  BY <1>4, <1>6, ElementOfSeq

\* What a slice highlights is there.
LEMMA HighlightsShown == ContentOK /\ TakenOK /\ MatchesOK => HighlightsShowTheMatches
<1> SUFFICES ASSUME ContentOK, TakenOK, MatchesOK, NEW f \in DOMAIN content, f \in Tracked(view),
                    NEW req \in Requests(f), NEW h \in ToSet(Slice(content, view, req).highlights)
             PROVE  LET slice == Slice(content, view, req)
                        whole == taken[f][req.dir]
                        from == Max({Lost(f, req.dir), slice.start})
                        to == Min({Len(whole), slice.end})
                    IN  /\ from <= h.start /\ h.start < h.end /\ h.end <= to
                        /\ f \notin restarted /\ ~ Patterns[h.pattern].regex =>
                            \E x \in LiteralHits(Patterns[h.pattern].value, whole) :
                                h.start = Max({x[1], from}) /\ h.end = Min({x[2], to})
  BY DEF HighlightsShowTheMatches
<1>0. PICK slice, whole, from, to :
        /\ slice = Slice(content, view, req)
        /\ whole = taken[f][req.dir]
        /\ from = Max({Lost(f, req.dir), slice.start})
        /\ to = Min({Len(whole), slice.end})
  OBVIOUS
<1>1. req.flow = f /\ req.dir \in Directions /\ req.start \in Nat /\ req.max_bytes \in Nat \ {0}
  BY RequestAssumption DEF Requests
<1>2. PICK d \in Directions : d = req.dir
  BY <1>1
<1>3. PICK start \in Nat : start = req.start
  BY <1>1
<1>4. PICK size \in Nat : size = Min({req.max_bytes, MaxSliceBytes})
  <2>1. req.max_bytes \in Int /\ MaxSliceBytes \in Int /\ req.max_bytes \in Nat /\ MaxSliceBytes \in Nat
    BY <1>1, SliceAssumption
  <2>2. Min({req.max_bytes, MaxSliceBytes}) \in {req.max_bytes, MaxSliceBytes}
    BY <2>1, OfTwo
  <2> QED
    BY <2>1, <2>2
<1>5. PICK end \in Nat : end = start + size
  OBVIOUS
<1>6. PICK c \in ContentDirection : c = content[f].dirs[d]
  BY LostIs
<1>7. whole \in Seq(Nat) /\ TailOf(c, whole) /\ Lost(f, d) = Len(whole) - c.stored
  BY <1>0, <1>2, <1>6, LostIs
<1>8. PICK matches : matches = view.streams[f].matches
  OBVIOUS
<1>9. PICK segments : segments = Windows(c, start, end)
  OBVIOUS
<1>10. PICK found : found = Highlights(d, matches, segments)
  OBVIOUS
<1>11. PICK most : most = Min({Len(found), MaxHighlights})
  OBVIOUS
<1>12. slice.start = start /\ slice.end = end /\ slice.highlights = SubSeq(found, 1, most)
  <2>1. req.max_bytes # 0
    BY <1>1
  <2>2. PICK part : part = SubSeq(found, 1, most)
    OBVIOUS
  <2>3. PICK dropped : dropped = Max({0, Len(found) - MaxHighlights})
    OBVIOUS
  <2>4. PICK truncated : truncated = (req.max_bytes > MaxSliceBytes)
    OBVIOUS
  <2>5. PICK r : r = [error |-> "None", start |-> start, end |-> end, segments |-> segments,
                      highlights |-> part, dropped |-> dropped, truncated |-> truncated]
    OBVIOUS
  <2>6. slice = r
    BY <1>0, <1>1, <1>2, <1>3, <1>4, <1>5, <1>6, <1>8, <1>9, <1>10, <1>11, <2>1, <2>2, <2>3, <2>4, <2>5 DEF Slice
  <2>7. r.start = start /\ r.end = end /\ r.highlights = part
    BY <2>5
  <2> QED
    BY <2>2, <2>6, <2>7
<1>13. from = Max({Len(whole) - c.stored, start}) /\ to = Min({Len(whole), end})
  BY <1>0, <1>2, <1>7, <1>12
<1>14. PICK l \in Nat : l = Len(whole)
  BY <1>7, LenProperties
<1>15. PICK lost \in Nat : lost = Len(whole) - c.stored
  <2>1. c.stored \in Nat /\ c.stored <= Len(whole)
    BY <1>7 DEF ContentDirection, TailOf
  <2> QED
    BY <1>14, <2>1
<1>16. from \in Nat /\ to \in Nat /\ to <= Len(whole)
  <2>1. lost \in Int /\ start \in Int /\ l \in Int /\ end \in Int
    OBVIOUS
  <2>2. Max({lost, start}) \in {lost, start} /\ Min({l, end}) \in {l, end} /\ Min({l, end}) <= l
    BY <2>1, OfTwo
  <2> QED
    BY <1>13, <1>14, <1>15, <2>2
<1>17. segments = Piecewise(whole, from, to)
  <2>1. Windows(c, start, end) = Piecewise(whole, Max({Len(whole) - c.stored, start}), Min({Len(whole), end}))
    BY <1>7, WindowsAre
  <2> QED
    BY <1>9, <1>13, <2>1
<1>18. f \in Flows /\ matches \in Seq(Trusted[f])
  <2>1. f \in DOMAIN Trusted /\ view.streams[f].matches \in Seq(Trusted[f])
    BY DEF MatchesOK, Remembers
  <2> QED
    BY <1>8, <2>1 DEF Trusted
<1>19. \A m \in Trusted[f] : m \in ReportsOf(f) /\ (f \notin restarted => IsThere(m, taken[f][m.dir]))
  BY <1>18 DEF Trusted
<1>20. PICK s \in Seq(ReportsOf(f)) : s = matches
  <2>1. Trusted[f] \subseteq ReportsOf(f)
    BY <1>19
  <2> QED
    BY <1>18, <2>1, SeqMonotonic
<1>21. PICK n, H :
         /\ n \in Nat
         /\ found \in [1 .. n -> H]
         /\ \A g \in H : \E j \in 1 .. Len(s) : HighlightOf(g, s[j], d, from, to)
  <2>1. found = Highlights(d, s, segments)
    BY <1>10, <1>20
  <2>2. PICK a \in Nat, b \in Nat : a = from /\ b = to
    BY <1>16
  <2>3. PICK W \in Seq(Nat) : W = whole
    BY <1>7
  <2>4. b <= Len(W)
    BY <1>16, <2>2, <2>3
  <2>5. HighlightsOf(found, s, d, a, b)
    <3>1. segments = Piecewise(W, a, b)
      BY <1>17, <2>2, <2>3
    <3> QED
      BY <2>1, <2>4, <3>1, HighlightsAre, Zenon
  <2> QED
    BY <2>2, <2>5 DEF HighlightsOf
<1>22. h \in H
  <2>1. found \in Seq(H) /\ Len(found) = n
    <3>1. found \in Seq(H)
      BY <1>21, SeqDef
    <3>2. DOMAIN found = 1 .. n /\ DOMAIN found = 1 .. Len(found) /\ Len(found) \in Nat
      BY <1>21, <3>1, LenProperties
    <3> QED
      BY <1>21, <3>1, <3>2, SameInterval
  <2>2. PICK k \in Nat : k = most /\ k <= n
    <3>1. n \in Int /\ MaxHighlights \in Int /\ MaxHighlights \in Nat
      BY <1>21, SliceAssumption
    <3>2. Min({n, MaxHighlights}) \in {n, MaxHighlights} /\ Min({n, MaxHighlights}) <= n
      BY <3>1, OfTwo
    <3> QED
      BY <1>11, <2>1, <3>1, <3>2
  <2>3. h \in ToSet(SubSeq(found, 1, k))
    BY <1>0, <1>12, <2>2
  <2> QED
    BY <2>1, <2>2, <2>3, HeadOf
<1>23. PICK j \in 1 .. Len(s) : HighlightOf(h, s[j], d, from, to)
  BY <1>21, <1>22
<1>24. PICK m \in Trusted[f] : m = s[j]
  BY <1>18, <1>20, ElementOfSeq
<1>25. m \in ReportsOf(f) /\ (f \notin restarted => IsThere(m, taken[f][m.dir]))
  BY <1>19
<1>26. /\ m.dir = d /\ h.pattern = m.pattern /\ h.start < h.end
       /\ h.start = Max({m.start, from}) /\ h.end = Min({m.end, to})
  BY <1>23, <1>24 DEF HighlightOf
<1>27. from <= h.start /\ h.end <= to
  <2>1. m.start \in Int /\ m.end \in Int /\ from \in Int /\ to \in Int
    BY <1>16, <1>25 DEF ReportsOf
  <2>2. Max({m.start, from}) >= from /\ Min({m.end, to}) <= to
    BY <2>1, OfTwo
  <2>3. Max({m.start, from}) \in {m.start, from}
    BY <2>1, OfTwo
  <2> QED
    BY <1>26, <2>1, <2>2, <2>3
<1>28. ASSUME f \notin restarted, ~ Patterns[h.pattern].regex
       PROVE  \E x \in LiteralHits(Patterns[h.pattern].value, whole) :
                h.start = Max({x[1], from}) /\ h.end = Min({x[2], to})
  <2>1. PICK x : x = <<m.start, m.end>>
    OBVIOUS
  <2>2. x[1] = m.start /\ x[2] = m.end
    BY <2>1
  <2>3. IsThere(m, whole)
    BY <1>0, <1>2, <1>25, <1>26, <1>28
  <2>4. x \in LiteralHits(Patterns[h.pattern].value, whole)
    BY <1>26, <1>28, <2>1, <2>3 DEF IsThere
  <2> QED
    BY <1>26, <2>2, <2>4
<1> QED
  BY <1>0, <1>26, <1>27, <1>28

\* A literal that the store still has (PatternEngine::scan_ranges) is reported exactly
\* once, whichever chunks and segments it was split over, nothing is reported that was
\* not there, and a slice's highlights show the matches where they are.
THEOREM MatchesAreFoundAndShown == Spec => []MatchesFoundAndShown
<1>1. Init => PipelineOK /\ TakenOK /\ ReportedOK /\ MatchesOK
  BY InitOK, TakenInit, ReportedInit, MatchesInit
<1>2. PipelineOK /\ TakenOK /\ ReportedOK /\ MatchesOK /\ [Next]_vars
        => PipelineOK' /\ TakenOK' /\ ReportedOK' /\ MatchesOK'
  BY NextKeeps, TakenKeeps, ReportedKeeps, MatchesKeep
<1>3. PipelineOK /\ TakenOK /\ ReportedOK /\ MatchesOK => MatchesFoundAndShown
  BY FoundOnce, HighlightsShown DEF MatchesFoundAndShown, PipelineOK, TablesOK
<1> QED
  BY <1>1, <1>2, <1>3, PTL DEF Spec

================================================================================
