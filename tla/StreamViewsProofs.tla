-------------------------- MODULE StreamViewsProofs --------------------------
(***************************************************************************)
(* Proofs about StreamViews for any batches of events, users, profiles and *)
(* queries: what the view keeps about a stream in six places agrees, a     *)
(* walk through the pages of a query is fair however the view changes      *)
(* meanwhile, and the counts shown with a profile are those of its rows.   *)
(***************************************************************************)
EXTENDS StreamViews, SumLemmas, SequenceTheorems, TLAPS

-----------------------------------------------------------------------------
(* Folds over sequences *)

\* The steps of all the folds of the model, told apart by k.
Step(k, x, e) ==
    CASE k.op = "event" -> ObserveEvent(x, e)
      [] k.op = "rule" -> AddHideRule(x, e)
      [] k.op = "scan" -> Scan(k.view, k.query, x, e)
      [] k.op = "retain" -> Retain(k.id, x, e)
      [] k.op = "profile" -> UpsertProfile(x, e)
      [] OTHER -> Turned(k.query, x)

\* What FoldLeft computes for a set of places, given the same for smaller sets.
FoldBody(g, k, base, seq, s) ==
    IF s = {} THEN base ELSE Step(k, g[s \ {Max(s)}], seq[Max(s)])
IsFold(g, k, base, seq, S) == g = [s \in SUBSET S |-> FoldBody(g, k, base, seq, s)]

\* The recursion of a fold has a solution.
LEMMA FoldExists ==
    ASSUME NEW k, NEW base, NEW seq, NEW n \in Nat
    PROVE  \E g : IsFold(g, k, base, seq, 1 .. n)
<1> DEFINE G == {m \in Nat : \E g : IsFold(g, k, base, seq, 1 .. m)}
<1>1. 0 \in G
  <2> DEFINE h == [s \in SUBSET (1 .. 0) |-> base]
  <2>1. \A s \in SUBSET (1 .. 0) : s = {}
    OBVIOUS
  <2>2. IsFold(h, k, base, seq, 1 .. 0)
    BY <2>1 DEF IsFold, FoldBody
  <2> HIDE DEF h
  <2> QED
    BY <2>2
<1>2. ASSUME NEW m \in Nat, m \in G
      PROVE  m + 1 \in G
  <2>1. PICK g : IsFold(g, k, base, seq, 1 .. m)
    BY <1>2
  <2> DEFINE h == [s \in SUBSET (1 .. m + 1) |-> FoldBody(g, k, base, seq, s)]
  <2>2. \A s \in SUBSET (1 .. m) : h[s] = g[s]
    BY <2>1 DEF IsFold
  <2>3. ASSUME NEW s \in SUBSET (1 .. m + 1)
        PROVE  h[s] = FoldBody(h, k, base, seq, s)
    <3>1. CASE s = {}
      BY <3>1 DEF FoldBody
    <3>2. CASE s # {}
      <4>1. s \ {Max(s)} \in SUBSET (1 .. m)
        <5> DEFINE x == Max(s)
        <5>1. m + 1 \in Nat
          OBVIOUS
        <5>2. x \in s /\ \A y \in s : y <= x
          BY <3>2, <5>1, MaxIsLast
        <5> HIDE DEF x
        <5>3. x \in Nat /\ x <= m + 1
          BY <5>2
        <5>4. ASSUME NEW y \in s \ {x}
              PROVE  y \in 1 .. m
          <6>1. y \in Nat /\ y >= 1 /\ y <= x /\ y # x
            BY <5>2, <5>1
          <6> QED
            BY <6>1, <5>3
        <5>5. s \ {x} \in SUBSET (1 .. m)
          BY <5>4
        <5> QED
          BY <5>5 DEF x
      <4>2. h[s \ {Max(s)}] = g[s \ {Max(s)}]
        BY <4>1, <2>2
      <4>3. h[s] = FoldBody(g, k, base, seq, s)
        OBVIOUS
      <4> HIDE DEF h
      <4> QED
        BY <4>2, <4>3 DEF FoldBody
    <3> QED
      BY <3>1, <3>2
  <2>4. IsFold(h, k, base, seq, 1 .. m + 1)
    BY <2>3 DEF IsFold
  <2> HIDE DEF h
  <2>5. m + 1 \in Nat
    OBVIOUS
  <2> QED
    BY <2>4, <2>5, Zenon
<1>3. Nat \subseteq G
  <2> HIDE DEF G
  <2> QED
    BY <1>1, <1>2, NumberInduction
<1> QED
  BY <1>3

\* A fold goes through the sequence step by step.
Chain(h, k, base, seq, n) == h[0] = base /\ \A i \in 1 .. n : h[i] = Step(k, h[i - 1], seq[i])
LEMMA FoldSteps ==
    ASSUME NEW k, NEW base, NEW seq, NEW n \in Nat, NEW g, IsFold(g, k, base, seq, 1 .. n)
    PROVE  \E h : Chain(h, k, base, seq, n) /\ h[n] = g[1 .. n]
<1> DEFINE h == [i \in 0 .. n |-> g[1 .. i]]
<1>1. \A s \in SUBSET (1 .. n) : g[s] = FoldBody(g, k, base, seq, s)
  BY DEF IsFold
<1>2. h[0] = base
  <2>1. 1 .. 0 = {} /\ h[0] = g[1 .. 0]
    OBVIOUS
  <2> QED
    BY <2>1, <1>1 DEF FoldBody
<1>3. ASSUME NEW i \in 1 .. n
      PROVE  h[i] = Step(k, h[i - 1], seq[i])
  <2>1. Max(1 .. i) = i /\ (1 .. i) \ {i} = 1 .. i - 1
    BY MaxOfFirst
  <2>2. 1 .. i \in SUBSET (1 .. n) /\ 1 .. i # {} /\ i - 1 \in 0 .. n /\ i \in 0 .. n
    <3>1. 1 .. i \subseteq 1 .. n
      OBVIOUS
    <3>2. i \in 1 .. i
      OBVIOUS
    <3> QED
      BY <3>1, <3>2
  <2>3. g[1 .. i] = Step(k, g[1 .. i - 1], seq[i])
    BY <2>1, <2>2, <1>1 DEF FoldBody
  <2> QED
    BY <2>2, <2>3
<1>4. h[n] = g[1 .. n]
  OBVIOUS
<1> HIDE DEF h
<1> QED
  BY <1>2, <1>3, <1>4 DEF Chain

\* observe_events goes from event to event.
LEMMA EventsInTurn ==
    ASSUME NEW v, NEW seq, NEW n \in Nat, DOMAIN seq = 1 .. n
    PROVE  \E h : /\ h[0] = v /\ h[n] = ObserveEvents(v, seq)
                  /\ \A i \in 1 .. n : h[i] = ObserveEvent(h[i - 1], seq[i])
<1> DEFINE k == [op |-> "event"]
           solves(g) == g = [s \in SUBSET DOMAIN seq |->
                IF s = {} THEN v ELSE ObserveEvent(g[s \ {Max(s)}], seq[Max(s)])]
           g == CHOOSE g : solves(g)
<1>1. \A x, e : Step(k, x, e) = ObserveEvent(x, e)
  BY DEF Step
<1> HIDE DEF k
<1>2. \A f : IsFold(f, k, v, seq, 1 .. n) <=> solves(f)
  BY <1>1 DEF IsFold, FoldBody
<1>3. \E f : solves(f)
  <2>1. PICK f : IsFold(f, k, v, seq, 1 .. n)
    BY FoldExists
  <2> HIDE DEF solves
  <2> QED
    BY <1>2, <2>1
<1>4. solves(g)
  <2> HIDE DEF solves
  <2> QED
    BY <1>3
<1>5. ObserveEvents(v, seq) = g[DOMAIN seq]
  BY DEF ObserveEvents, FoldLeft, MapThenFoldSet
<1> HIDE DEF solves, g
<1>6. IsFold(g, k, v, seq, 1 .. n)
  BY <1>2, <1>4
<1>7. PICK h : Chain(h, k, v, seq, n) /\ h[n] = g[1 .. n]
  BY <1>6, FoldSteps
<1> QED
  BY <1>1, <1>5, <1>7 DEF Chain

\* Hide rules are added one by one.
LEMMA RulesInTurn ==
    ASSUME NEW v, NEW seq, NEW n \in Nat, DOMAIN seq = 1 .. n
    PROVE  \E h : /\ h[0] = v /\ h[n] = AddHideRules(v, seq)
                  /\ \A i \in 1 .. n : h[i] = AddHideRule(h[i - 1], seq[i])
<1> DEFINE k == [op |-> "rule"]
           solves(g) == g = [s \in SUBSET DOMAIN seq |->
                IF s = {} THEN v ELSE AddHideRule(g[s \ {Max(s)}], seq[Max(s)])]
           g == CHOOSE g : solves(g)
<1>1. \A x, e : Step(k, x, e) = AddHideRule(x, e)
  BY DEF Step
<1> HIDE DEF k
<1>2. \A f : IsFold(f, k, v, seq, 1 .. n) <=> solves(f)
  BY <1>1 DEF IsFold, FoldBody
<1>3. \E f : solves(f)
  <2>1. PICK f : IsFold(f, k, v, seq, 1 .. n)
    BY FoldExists
  <2> HIDE DEF solves
  <2> QED
    BY <1>2, <2>1
<1>4. solves(g)
  <2> HIDE DEF solves
  <2> QED
    BY <1>3
<1>5. AddHideRules(v, seq) = g[DOMAIN seq]
  BY DEF AddHideRules, FoldLeft, MapThenFoldSet
<1> HIDE DEF solves, g
<1>6. IsFold(g, k, v, seq, 1 .. n)
  BY <1>2, <1>4
<1>7. PICK h : Chain(h, k, v, seq, n) /\ h[n] = g[1 .. n]
  BY <1>6, FoldSteps
<1> QED
  BY <1>1, <1>5, <1>7 DEF Chain

\* The places of a query's rows are found one by one.
LEMMA HitsInTurn ==
    ASSUME NEW v, NEW q, NEW n \in Nat, DOMAIN v.order = 1 .. n
    PROVE  \E h : /\ h[0] = <<>> /\ h[n] = Hits(v, q)
                  /\ \A i \in 1 .. n : h[i] = Scan(v, q, h[i - 1], i)
<1> DEFINE base == <<>>
           seq == [i \in DOMAIN v.order |-> i]
           k == [op |-> "scan", view |-> v, query |-> q]
           solves(g) == g = [s \in SUBSET DOMAIN seq |->
                IF s = {} THEN base ELSE Scan(v, q, g[s \ {Max(s)}], seq[Max(s)])]
           g == CHOOSE g : solves(g)
<1>1. /\ \A x, e : Step(k, x, e) = Scan(v, q, x, e)
      /\ DOMAIN seq = 1 .. n /\ \A i \in 1 .. n : seq[i] = i
  BY DEF Step
<1> HIDE DEF k, seq, base
<1>2. \A f : IsFold(f, k, base, seq, 1 .. n) <=> solves(f)
  <2>1. SUBSET DOMAIN seq = SUBSET (1 .. n)
    BY <1>1
  <2>2. \A f, s : FoldBody(f, k, base, seq, s) =
            IF s = {} THEN base ELSE Scan(v, q, f[s \ {Max(s)}], seq[Max(s)])
    BY <1>1 DEF FoldBody
  <2> QED
    BY <2>1, <2>2 DEF IsFold
<1>3. \E f : solves(f)
  <2>1. PICK f : IsFold(f, k, base, seq, 1 .. n)
    BY FoldExists
  <2> HIDE DEF solves
  <2> QED
    BY <1>2, <2>1
<1>4. solves(g)
  <2> HIDE DEF solves
  <2> QED
    BY <1>3
<1>5. Hits(v, q) = g[DOMAIN seq]
  BY DEF seq, base, Hits, FoldLeft, MapThenFoldSet
<1> HIDE DEF solves, g
<1>6. IsFold(g, k, base, seq, 1 .. n)
  BY <1>2, <1>4
<1>7. PICK h : Chain(h, k, base, seq, n) /\ h[n] = g[1 .. n]
  BY <1>6, FoldSteps
<1> QED
  BY <1>1, <1>5, <1>7 DEF Chain, base

\* Profiles are kept one by one.
LEMMA OthersInTurn ==
    ASSUME NEW id, NEW set, NEW n \in Nat, DOMAIN set = 1 .. n
    PROVE  \E h : /\ h[0] = <<>> /\ h[n] = Others(set, id)
                  /\ \A i \in 1 .. n : h[i] = Retain(id, h[i - 1], set[i])
<1> DEFINE base == <<>>
           seq == set
           k == [op |-> "retain", id |-> id]
           solves(g) == g = [s \in SUBSET DOMAIN seq |->
                IF s = {} THEN base ELSE Retain(id, g[s \ {Max(s)}], seq[Max(s)])]
           g == CHOOSE g : solves(g)
<1>1. /\ \A x, e : Step(k, x, e) = Retain(id, x, e)
      /\ DOMAIN seq = 1 .. n /\ \A i \in 1 .. n : seq[i] = set[i]
  BY DEF Step
<1> HIDE DEF k, seq, base
<1>2. \A f : IsFold(f, k, base, seq, 1 .. n) <=> solves(f)
  <2>1. SUBSET DOMAIN seq = SUBSET (1 .. n)
    BY <1>1
  <2>2. \A f, s : FoldBody(f, k, base, seq, s) =
            IF s = {} THEN base ELSE Retain(id, f[s \ {Max(s)}], seq[Max(s)])
    BY <1>1 DEF FoldBody
  <2> QED
    BY <2>1, <2>2 DEF IsFold
<1>3. \E f : solves(f)
  <2>1. PICK f : IsFold(f, k, base, seq, 1 .. n)
    BY FoldExists
  <2> HIDE DEF solves
  <2> QED
    BY <1>2, <2>1
<1>4. solves(g)
  <2> HIDE DEF solves
  <2> QED
    BY <1>3
<1>5. Others(set, id) = g[DOMAIN seq]
  BY DEF seq, base, Others, FoldLeft, MapThenFoldSet
<1> HIDE DEF solves, g
<1>6. IsFold(g, k, base, seq, 1 .. n)
  BY <1>2, <1>4
<1>7. PICK h : Chain(h, k, base, seq, n) /\ h[n] = g[1 .. n]
  BY <1>6, FoldSteps
<1> QED
  BY <1>1, <1>5, <1>7 DEF Chain, base

\* The profiles of a file are added one by one.
Upserting(h, set, seq, n) ==
    /\ h[0] = set /\ h[n] = UpsertProfiles(set, seq)
    /\ \A i \in 1 .. n : h[i] = UpsertProfile(h[i - 1], seq[i])
LEMMA ProfilesInTurn ==
    ASSUME NEW set, NEW seq, NEW n \in Nat, DOMAIN seq = 1 .. n
    PROVE  \E h : Upserting(h, set, seq, n)
<1> DEFINE k == [op |-> "profile"]
           solves(g) == g = [s \in SUBSET DOMAIN seq |->
                IF s = {} THEN set ELSE UpsertProfile(g[s \ {Max(s)}], seq[Max(s)])]
           g == CHOOSE g : solves(g)
<1>1. \A x, e : Step(k, x, e) = UpsertProfile(x, e)
  BY DEF Step
<1> HIDE DEF k
<1>2. \A f : IsFold(f, k, set, seq, 1 .. n) <=> solves(f)
  BY <1>1 DEF IsFold, FoldBody
<1>3. \E f : solves(f)
  <2>1. PICK f : IsFold(f, k, set, seq, 1 .. n)
    BY FoldExists
  <2> HIDE DEF solves
  <2> QED
    BY <1>2, <2>1
<1>4. solves(g)
  <2> HIDE DEF solves
  <2> QED
    BY <1>3
<1>5. UpsertProfiles(set, seq) = g[DOMAIN seq]
  BY DEF UpsertProfiles, FoldLeft, MapThenFoldSet
<1> HIDE DEF solves, g
<1>6. IsFold(g, k, set, seq, 1 .. n)
  BY <1>2, <1>4
<1>7. PICK h : Chain(h, k, set, seq, n) /\ h[n] = g[1 .. n]
  BY <1>6, FoldSteps
<1> QED
  BY <1>1, <1>5, <1>7 DEF Chain, Upserting

\* The pages of a query are read one by one.
LEMMA PagesInTurn ==
    ASSUME NEW q, NEW n \in Nat
    PROVE  \E h : /\ h[0] = [rows |-> <<>>, next |-> 0] /\ h[n] = Pages(q, n)
                  /\ \A i \in 1 .. n : h[i] = Turned(q, h[i - 1])
<1> DEFINE base == [rows |-> <<>>, next |-> 0]
           seq == [i \in 1 .. n |-> i]
           k == [op |-> "turn", query |-> q]
           solves(g) == g = [s \in SUBSET DOMAIN seq |->
                IF s = {} THEN base ELSE Turned(q, g[s \ {Max(s)}])]
           g == CHOOSE g : solves(g)
<1>1. /\ \A x, e : Step(k, x, e) = Turned(q, x)
      /\ DOMAIN seq = 1 .. n /\ \A i \in 1 .. n : seq[i] = i
  BY DEF Step
<1> HIDE DEF k, seq, base
<1>2. \A f : IsFold(f, k, base, seq, 1 .. n) <=> solves(f)
  <2>1. SUBSET DOMAIN seq = SUBSET (1 .. n)
    BY <1>1
  <2>2. \A f, s : FoldBody(f, k, base, seq, s) =
            IF s = {} THEN base ELSE Turned(q, f[s \ {Max(s)}])
    BY <1>1 DEF FoldBody
  <2> QED
    BY <2>1, <2>2 DEF IsFold
<1>3. \E f : solves(f)
  <2>1. PICK f : IsFold(f, k, base, seq, 1 .. n)
    BY FoldExists
  <2> HIDE DEF solves
  <2> QED
    BY <1>2, <2>1
<1>4. solves(g)
  <2> HIDE DEF solves
  <2> QED
    BY <1>3
<1>5. Pages(q, n) = g[DOMAIN seq]
  BY DEF seq, base, Pages, FoldLeft, MapThenFoldSet
<1> HIDE DEF solves, g
<1>6. IsFold(g, k, base, seq, 1 .. n)
  BY <1>2, <1>4
<1>7. PICK h : Chain(h, k, base, seq, n) /\ h[n] = g[1 .. n]
  BY <1>6, FoldSteps
<1> QED
  BY <1>1, <1>5, <1>7 DEF Chain, base

-----------------------------------------------------------------------------
(* Views *)

Events == UNION {ToSet(b) : b \in Batches}
Matches == {e.match : e \in Events}

\* The latest matches of a stream are kept, up to the limit.
EntryOK(e) ==
    /\ DOMAIN e = {"row", "matches", "match_count", "pattern_ids"}
    /\ e.matches \in Seq(Matches) /\ e.match_count \in Nat
    /\ Len(e.matches) = Smaller(e.match_count, MaxViewMatches)

Shaped(v) ==
    /\ DOMAIN v = {"streams", "order", "favorites", "manually_hidden", "matched",
                   "pattern_index", "hide_rules", "stats"}
    /\ DOMAIN v.stats = {"stored", "dropped", "orphan", "evicted"} /\ v.stats.evicted \in Nat
\* The streams have each one place in the order.
Placed(v) ==
    /\ v.order \in Seq(Tracked(v)) /\ IsInjective(v.order) /\ ToSet(v.order) = Tracked(v)
    /\ IsFiniteSet(Tracked(v)) /\ Cardinality(Tracked(v)) <= MaxViewStreams
\* What is said about streams elsewhere agrees with their entries.
Indexed(v) ==
    /\ v.matched = {f \in Tracked(v) : v.streams[f].match_count # 0}
    /\ \A p \in DOMAIN v.pattern_index :
            v.pattern_index[p] = {f \in Tracked(v) : p \in v.streams[f].pattern_ids}
    /\ \A f \in Tracked(v) : v.streams[f].pattern_ids \subseteq DOMAIN v.pattern_index
Lengths(v) == [f \in Tracked(v) |-> Len(v.streams[f].matches)]
Counted(v) ==
    /\ \A f \in Tracked(v) : EntryOK(v.streams[f])
    /\ v.stats.stored = SumFunctionOnSet(Lengths(v), Tracked(v))
MarksOK(v) ==
    /\ v.favorites \cup v.manually_hidden \subseteq Tracked(v)
    /\ v.hide_rules \in Seq(ToSet(v.hide_rules)) /\ IsInjective(v.hide_rules)
ViewOK(v) == Shaped(v) /\ Placed(v) /\ Indexed(v) /\ Counted(v) /\ MarksOK(v)

\* A later view: the first streams may be gone, the others keep their order, and more
\* may have come behind them.
Gone(v, w) == w.stats.evicted - v.stats.evicted
Shifted(v, w) ==
    /\ Gone(v, w) \in Nat
    /\ \A i \in 1 .. Len(v.order) : i > Gone(v, w) =>
            i - Gone(v, w) \in 1 .. Len(w.order) /\ w.order[i - Gone(v, w)] = v.order[i]

\* A view whose order stays is not shifted.
LEMMA ShiftStays ==
    ASSUME NEW v, NEW w, Shaped(v), w.order = v.order, w.stats.evicted = v.stats.evicted
    PROVE  Shifted(v, w)
<1>1. Gone(v, w) = 0
  BY DEF Gone, Shaped
<1> QED
  BY <1>1 DEF Shifted

\* Two shifts make one.
LEMMA ShiftsAdd ==
    ASSUME NEW u, NEW v, NEW w, Shaped(u), Shaped(v), Shaped(w), Shifted(u, v), Shifted(v, w)
    PROVE  Shifted(u, w)
<1> DEFINE a == Gone(u, v)
           b == Gone(v, w)
<1>1. a \in Nat /\ b \in Nat /\ Gone(u, w) = a + b
  <2>1. u.stats.evicted \in Nat /\ v.stats.evicted \in Nat /\ w.stats.evicted \in Nat
    BY DEF Shaped
  <2> QED
    BY <2>1 DEF Gone, Shifted
<1>2. /\ \A i \in 1 .. Len(u.order) : i > a => i - a \in 1 .. Len(v.order) /\ v.order[i - a] = u.order[i]
      /\ \A i \in 1 .. Len(v.order) : i > b => i - b \in 1 .. Len(w.order) /\ w.order[i - b] = v.order[i]
  BY DEF Shifted
<1> HIDE DEF a, b
<1>3. ASSUME NEW i \in 1 .. Len(u.order), i > a + b
      PROVE  i - (a + b) \in 1 .. Len(w.order) /\ w.order[i - (a + b)] = u.order[i]
  <2>1. i \in Nat /\ i > a /\ i - a > b /\ (i - a) - b = i - (a + b)
    BY <1>1, <1>3
  <2> QED
    BY <2>1, <1>2
<1> QED
  BY <1>1, <1>3 DEF Shifted

\* A new view is empty and right.
LEMMA NewViewOK == ViewOK(NewView)
<1>1. Tracked(NewView) = {} /\ DOMAIN <<>> = {} /\ Len(<<>>) = 0
  BY DEF Tracked, NewView
<1>2. Shaped(NewView)
  BY DEF Shaped, NewView
<1>3. Placed(NewView)
  <2>1. IsFiniteSet({}) /\ Cardinality({}) = 0
    BY FS_EmptySet
  <2>2. NewView.order = <<>> /\ <<>> \in Seq({}) /\ ToSet(<<>>) = {} /\ IsInjective(<<>>)
    BY <1>1 DEF NewView, ToSet, IsInjective
  <2> QED
    BY <1>1, <2>1, <2>2, ViewAssumption DEF Placed
<1>4. Indexed(NewView)
  BY <1>1 DEF Indexed, NewView, Tracked
<1>5. Counted(NewView)
  BY <1>1, SumOfNothing DEF Counted, NewView
<1>6. MarksOK(NewView)
  <2>1. <<>> \in Seq(ToSet(<<>>)) /\ IsInjective(<<>>)
    BY <1>1 DEF IsInjective
  <2> QED
    BY <1>1, <2>1 DEF MarksOK, NewView
<1> QED
  BY <1>2, <1>3, <1>4, <1>5, <1>6 DEF ViewOK

\* The user's marks and rules change neither streams nor order.
SameStreams(v, w) ==
    /\ w.streams = v.streams /\ w.order = v.order /\ w.matched = v.matched
    /\ w.pattern_index = v.pattern_index /\ w.stats = v.stats /\ DOMAIN w = DOMAIN v
LEMMA SameStreamsOK ==
    ASSUME NEW v, NEW w, ViewOK(v), SameStreams(v, w), MarksOK(w)
    PROVE  ViewOK(w) /\ Shifted(v, w)
<1>1. Tracked(w) = Tracked(v) /\ Lengths(w) = Lengths(v)
  BY DEF Tracked, Lengths, SameStreams
<1>2. Shaped(w) /\ Placed(w) /\ Indexed(w) /\ Counted(w)
  BY <1>1 DEF ViewOK, SameStreams, Shaped, Placed, Indexed, Counted
<1>3. Shifted(v, w)
  BY ShiftStays DEF ViewOK, SameStreams
<1> QED
  BY <1>2, <1>3 DEF ViewOK

\* A favorite or hidden mark is set or taken.
LEMMA MarksKept ==
    ASSUME NEW v, ViewOK(v), NEW flow, NEW on
    PROVE  /\ ViewOK(SetFavorite(v, flow, on)) /\ Shifted(v, SetFavorite(v, flow, on))
           /\ ViewOK(SetHidden(v, flow, on)) /\ Shifted(v, SetHidden(v, flow, on))
           /\ Tracked(SetFavorite(v, flow, on)) = Tracked(v)
<1> DEFINE w1 == SetFavorite(v, flow, on)
           w2 == SetHidden(v, flow, on)
<1>1. SameStreams(v, w1) /\ SameStreams(v, w2)
  BY DEF SameStreams, SetFavorite, SetHidden, ViewOK, Shaped
<1>2. MarksOK(w1)
  BY DEF SetFavorite, Marked, MarksOK, ViewOK, Shaped, Tracked
<1>3. MarksOK(w2)
  BY DEF SetHidden, Marked, MarksOK, ViewOK, Shaped, Tracked
<1> HIDE DEF w1, w2
<1> QED
  BY <1>1, <1>2, <1>3, SameStreamsOK DEF w1, w2, SameStreams, Tracked

\* A sequence without repetitions stays so if it gets an element it has not.
LEMMA AppendNew ==
    ASSUME NEW s, s \in Seq(ToSet(s)), IsInjective(s), NEW x, x \notin ToSet(s)
    PROVE  /\ ToSet(Append(s, x)) = ToSet(s) \cup {x} /\ IsInjective(Append(s, x))
           /\ Append(s, x) \in Seq(ToSet(s) \cup {x})
<1> DEFINE n == Len(s)
           t == Append(s, x)
           T == ToSet(s) \cup {x}
<1>1. n \in Nat /\ DOMAIN s = 1 .. n
  BY LenProperties
<1>2. s \in Seq(T)
  BY <1>1 DEF ToSet
<1>3. /\ t \in Seq(T) /\ DOMAIN t = 1 .. n + 1
      /\ \A i \in 1 .. n : t[i] = s[i]
      /\ t[n + 1] = x
  BY <1>2, <1>1, AppendProperties, LenProperties
<1> HIDE DEF t, n
<1>4. \A i \in 1 .. n + 1 : i \in 1 .. n \/ i = n + 1
  BY <1>1
<1>5. \A i \in 1 .. n : i \in 1 .. n + 1 /\ s[i] \in ToSet(s) /\ i # n + 1
  BY <1>1 DEF ToSet
<1>6. n + 1 \in 1 .. n + 1
  BY <1>1
<1>7. ToSet(t) = T
  BY <1>1, <1>3, <1>4, <1>5, <1>6 DEF ToSet
<1>8. IsInjective(t)
  BY <1>1, <1>3, <1>4, <1>5 DEF IsInjective
<1> QED
  BY <1>3, <1>7, <1>8 DEF t

\* A hide rule is added once, and all go at once.
LEMMA RulesKept ==
    ASSUME NEW v, ViewOK(v), NEW rule
    PROVE  /\ ViewOK(AddHideRule(v, rule)) /\ Shifted(v, AddHideRule(v, rule))
           /\ ViewOK(ClearHideRules(v)) /\ Shifted(v, ClearHideRules(v))
<1> DEFINE w1 == AddHideRule(v, rule)
           w2 == ClearHideRules(v)
<1>1. SameStreams(v, w1) /\ SameStreams(v, w2)
  BY DEF SameStreams, AddHideRule, ClearHideRules, ViewOK, Shaped
<1>2. MarksOK(w1)
  <2>1. CASE rule \in ToSet(v.hide_rules)
    BY <2>1 DEF AddHideRule, ViewOK
  <2>2. CASE rule \notin ToSet(v.hide_rules)
    <3>1. /\ w1.hide_rules = Append(v.hide_rules, rule) /\ w1.favorites = v.favorites
          /\ w1.manually_hidden = v.manually_hidden /\ Tracked(w1) = Tracked(v)
      BY <2>2 DEF AddHideRule, ViewOK, Shaped, Tracked
    <3>2. w1.hide_rules \in Seq(ToSet(w1.hide_rules)) /\ IsInjective(w1.hide_rules)
      <4>1. PICK rules : rules = v.hide_rules /\ rules \in Seq(ToSet(rules)) /\ IsInjective(rules)
        BY DEF ViewOK, MarksOK
      <4>2. rule \notin ToSet(rules)
        BY <2>2, <4>1
      <4>3. /\ ToSet(Append(rules, rule)) = ToSet(rules) \cup {rule} /\ IsInjective(Append(rules, rule))
            /\ Append(rules, rule) \in Seq(ToSet(rules) \cup {rule})
        BY <4>1, <4>2, AppendNew
      <4> QED
        BY <3>1, <4>1, <4>3
    <3> HIDE DEF w1
    <3> QED
      BY <3>1, <3>2 DEF ViewOK, MarksOK
  <2> QED
    BY <2>1, <2>2
<1>3. MarksOK(w2)
  <2>1. /\ w2.hide_rules = <<>> /\ w2.favorites = v.favorites
        /\ w2.manually_hidden = v.manually_hidden /\ Tracked(w2) = Tracked(v)
    BY DEF ClearHideRules, ViewOK, Shaped, Tracked
  <2>2. <<>> \in Seq(ToSet(<<>>)) /\ IsInjective(<<>>)
    BY DEF IsInjective
  <2> HIDE DEF w2
  <2> QED
    BY <2>1, <2>2 DEF ViewOK, MarksOK
<1> HIDE DEF w1, w2
<1> QED
  BY <1>1, <1>2, <1>3, SameStreamsOK DEF w1, w2

\* A protocol message changes only the row of its stream.
LEMMA MessageKept ==
    ASSUME NEW v, ViewOK(v), NEW m
    PROVE  ViewOK(ObserveMessage(v, m)) /\ Shifted(v, ObserveMessage(v, m))
<1>1. CASE m.error \/ m.flow \notin Tracked(v)
  <2>1. ObserveMessage(v, m) = v
    BY <1>1 DEF ObserveMessage
  <2> QED
    BY <2>1, ShiftStays DEF ViewOK
<1>2. CASE ~ (m.error \/ m.flow \notin Tracked(v))
  <2> DEFINE w == ObserveMessage(v, m)
  <2>1. /\ DOMAIN w = DOMAIN v /\ w.order = v.order /\ w.matched = v.matched
        /\ w.pattern_index = v.pattern_index /\ w.stats = v.stats /\ w.favorites = v.favorites
        /\ w.manually_hidden = v.manually_hidden /\ w.hide_rules = v.hide_rules
        /\ DOMAIN w.streams = DOMAIN v.streams
        /\ \A f \in Tracked(v) :
            /\ DOMAIN w.streams[f] = DOMAIN v.streams[f]
            /\ w.streams[f].matches = v.streams[f].matches
            /\ w.streams[f].match_count = v.streams[f].match_count
            /\ w.streams[f].pattern_ids = v.streams[f].pattern_ids
    BY <1>2 DEF ObserveMessage, ViewOK, Shaped, Tracked, Counted, EntryOK
  <2> HIDE DEF w
  <2>2. Tracked(w) = Tracked(v) /\ Lengths(w) = Lengths(v)
    BY <2>1 DEF Tracked, Lengths
  <2>3. Shaped(w) /\ Placed(w) /\ MarksOK(w) /\ Shifted(v, w)
    BY <2>1, <2>2, ShiftStays DEF ViewOK, Shaped, Placed, MarksOK
  <2>4. Indexed(w)
    BY <2>1, <2>2 DEF ViewOK, Indexed
  <2>5. Counted(w)
    BY <2>1, <2>2 DEF ViewOK, Counted, EntryOK
  <2> QED
    BY <2>3, <2>4, <2>5 DEF ViewOK, w
<1> QED
  BY <1>1, <1>2

\* A match is kept with its stream, in the place of the oldest if there is no room.
MatchesFull(e) == MaxViewMatches = 0 \/ Len(e.matches) >= MaxViewMatches
LEMMA EntryGrows ==
    ASSUME NEW e, EntryOK(e), NEW m \in Matches
    PROVE  LET d == WithMatch(e, m)
           IN  /\ EntryOK(d) /\ d.match_count = e.match_count + 1
               /\ d.pattern_ids = e.pattern_ids \cup {m.pattern} /\ d.row = e.row
               /\ Len(d.matches) = IF MatchesFull(e) THEN Len(e.matches) ELSE Len(e.matches) + 1
<1> DEFINE d == WithMatch(e, m)
           s == e.matches
           kept == IF Len(s) >= MaxViewMatches THEN Tail(s) ELSE s
           n == Len(s)
           c == e.match_count
<1>1. /\ s \in Seq(Matches) /\ n \in Nat /\ c \in Nat /\ MaxViewMatches \in Nat
      /\ n = Smaller(c, MaxViewMatches)
  BY ViewAssumption, LenProperties DEF EntryOK
<1>2. /\ DOMAIN d = DOMAIN e /\ d.match_count = c + 1 /\ d.row = e.row
      /\ d.pattern_ids = e.pattern_ids \cup {m.pattern}
      /\ d.matches = IF MaxViewMatches = 0 THEN s ELSE Append(kept, m)
  BY DEF WithMatch, EntryOK
<1> HIDE DEF d
<1>3. CASE MaxViewMatches = 0
  BY <1>1, <1>2, <1>3 DEF EntryOK, Smaller, MatchesFull, d
<1>4. CASE MaxViewMatches # 0 /\ n >= MaxViewMatches
  <2>1. s # <<>>
    BY <1>1, <1>4, EmptySeq
  <2>2. Tail(s) \in Seq(Matches) /\ Len(Tail(s)) = n - 1
    BY <1>1, <2>1, HeadTailProperties
  <2>3. d.matches \in Seq(Matches) /\ Len(d.matches) = (n - 1) + 1
    BY <1>2, <1>4, <2>2, AppendProperties
  <2>4. (n - 1) + 1 = n /\ n = Smaller(c + 1, MaxViewMatches)
    BY <1>1, <1>4 DEF Smaller
  <2> QED
    BY <1>1, <1>2, <1>4, <2>3, <2>4 DEF EntryOK, MatchesFull, d
<1>5. CASE MaxViewMatches # 0 /\ ~ (n >= MaxViewMatches)
  <2>1. d.matches \in Seq(Matches) /\ Len(d.matches) = n + 1
    BY <1>1, <1>2, <1>5, AppendProperties
  <2>2. n + 1 = Smaller(c + 1, MaxViewMatches)
    BY <1>1, <1>5 DEF Smaller
  <2> QED
    BY <1>1, <1>2, <1>5, <2>1, <2>2 DEF EntryOK, MatchesFull, d
<1> QED
  BY <1>1, <1>3, <1>4, <1>5 DEF d

\* The number of matches kept with a stream.
LEMMA LengthsAre ==
    ASSUME NEW v, ViewOK(v)
    PROVE  IsFiniteSet(Tracked(v)) /\ \A f \in Tracked(v) : Lengths(v)[f] \in Nat
<1>1. \A f \in Tracked(v) : Len(v.streams[f].matches) \in Nat
  BY LenProperties DEF ViewOK, Counted, EntryOK
<1> QED
  BY <1>1 DEF Lengths, ViewOK, Placed

\* A match changes the entry of its stream, and what is said about it elsewhere.
LEMMA MatchKept ==
    ASSUME NEW v, ViewOK(v), NEW m \in Matches
    PROVE  ViewOK(ObserveMatch(v, m)) /\ Shifted(v, ObserveMatch(v, m))
<1> DEFINE w == ObserveMatch(v, m)
           f == m.flow
           e == v.streams[f]
           p == m.pattern
           indexed == IF p \in DOMAIN v.pattern_index THEN v.pattern_index[p] ELSE {}
<1>1. CASE f \notin Tracked(v)
  <2>1. /\ DOMAIN w = DOMAIN v /\ w.order = v.order /\ w.matched = v.matched
        /\ w.pattern_index = v.pattern_index /\ w.favorites = v.favorites
        /\ w.manually_hidden = v.manually_hidden /\ w.hide_rules = v.hide_rules
        /\ w.streams = v.streams /\ DOMAIN w.stats = DOMAIN v.stats
        /\ w.stats.stored = v.stats.stored /\ w.stats.evicted = v.stats.evicted
    BY <1>1 DEF ObserveMatch, ViewOK, Shaped
  <2> HIDE DEF w
  <2>2. Tracked(w) = Tracked(v) /\ Lengths(w) = Lengths(v)
    BY <2>1 DEF Tracked, Lengths
  <2> QED
    BY <2>1, <2>2, ShiftStays DEF ViewOK, Shaped, Placed, Indexed, Counted, MarksOK, w
<1>2. CASE f \in Tracked(v)
  <2>1. /\ DOMAIN w = DOMAIN v /\ w.order = v.order /\ w.matched = v.matched \cup {f}
        /\ w.pattern_index = Put(v.pattern_index, p, indexed \cup {f})
        /\ w.favorites = v.favorites
        /\ w.manually_hidden = v.manually_hidden /\ w.hide_rules = v.hide_rules
        /\ w.streams = [v.streams EXCEPT ![f] = WithMatch(@, m)]
        /\ DOMAIN w.stats = DOMAIN v.stats /\ w.stats.evicted = v.stats.evicted
        /\ w.stats.stored = IF MatchesFull(e) THEN v.stats.stored ELSE v.stats.stored + 1
    BY <1>2 DEF ObserveMatch, ViewOK, Shaped, MatchesFull
  <2> HIDE DEF w
  <2>2. /\ Tracked(w) = Tracked(v) /\ w.streams[f] = WithMatch(e, m)
        /\ \A g \in Tracked(v) : g # f => w.streams[g] = v.streams[g]
    BY <1>2, <2>1 DEF Tracked
  <2>3. EntryOK(e)
    BY <1>2 DEF ViewOK, Counted
  <2>4. /\ EntryOK(w.streams[f]) /\ w.streams[f].match_count = e.match_count + 1
        /\ w.streams[f].pattern_ids = e.pattern_ids \cup {p}
        /\ Len(w.streams[f].matches) = IF MatchesFull(e) THEN Len(e.matches) ELSE Len(e.matches) + 1
    BY <2>2, <2>3, EntryGrows
  <2>5. Shaped(w) /\ Placed(w) /\ MarksOK(w) /\ Shifted(v, w)
    BY <2>1, <2>2, ShiftStays DEF ViewOK, Shaped, Placed, MarksOK
  <2>6. Indexed(w)
    <3>1. w.matched = {g \in Tracked(w) : w.streams[g].match_count # 0}
      <4>1. e.match_count + 1 # 0
        BY <2>3 DEF EntryOK
      <4> QED
        BY <1>2, <2>1, <2>2, <2>4, <4>1 DEF ViewOK, Indexed
    <3>2. /\ DOMAIN w.pattern_index = DOMAIN v.pattern_index \cup {p}
          /\ w.pattern_index[p] = indexed \cup {f}
          /\ \A r \in DOMAIN v.pattern_index : r # p => w.pattern_index[r] = v.pattern_index[r]
      BY <2>1 DEF Put
    <3>3. indexed = {g \in Tracked(v) : p \in v.streams[g].pattern_ids}
      BY DEF ViewOK, Indexed
    <3>4. w.pattern_index[p] = {g \in Tracked(w) : p \in w.streams[g].pattern_ids}
      BY <1>2, <2>2, <2>4, <3>2, <3>3
    <3>5. \A r \in DOMAIN v.pattern_index : r # p =>
            w.pattern_index[r] = {g \in Tracked(w) : r \in w.streams[g].pattern_ids}
      BY <1>2, <2>2, <2>4, <3>2 DEF ViewOK, Indexed
    <3>6. \A g \in Tracked(w) : w.streams[g].pattern_ids \subseteq DOMAIN w.pattern_index
      BY <1>2, <2>2, <2>4, <3>2 DEF ViewOK, Indexed
    <3> QED
      BY <3>1, <3>2, <3>4, <3>5, <3>6 DEF Indexed
  <2>7. Counted(w)
    <3>1. \A g \in Tracked(w) : EntryOK(w.streams[g])
      BY <2>2, <2>4 DEF ViewOK, Counted
    <3> DEFINE S == Tracked(v)
               a == Lengths(v)
               b == Lengths(w)
    <3>2. /\ \A g \in S : b[g] = Len(w.streams[g].matches) /\ a[g] = Len(v.streams[g].matches)
          /\ \A g \in S : b[g] \in Nat /\ a[g] \in Nat
      BY <3>1, <2>2, LenProperties DEF Lengths, EntryOK, ViewOK, Counted
    <3>3. \A g \in S \ {f} : a[g] = b[g]
      BY <3>2, <2>2
    <3>4. IsFiniteSet(S)
      BY DEF ViewOK, Placed
    <3>5. f \in S /\ Tracked(w) = S /\ v.stats.stored = SumFunctionOnSet(a, S)
      BY <1>2, <2>2 DEF ViewOK, Counted
    <3>6. b[f] = IF MatchesFull(e) THEN a[f] ELSE a[f] + 1
      <4>1. b[f] = Len(w.streams[f].matches) /\ a[f] = Len(e.matches)
        BY <3>2, <3>5
      <4> HIDE DEF a, b, e
      <4> QED
        BY <2>4, <4>1
    <3> HIDE DEF a, b, S, f, e
    <3>7. SumFunctionOnSet(a, S) + b[f] = SumFunctionOnSet(b, S) + a[f]
      <4>1. \A g \in S : a[g] \in Nat /\ b[g] \in Nat
        BY <3>2
      <4>2. f \in S
        BY <3>5
      <4> QED
        BY <3>3, <3>4, <4>1, <4>2, SumChanges
    <3>8. SumFunctionOnSet(a, S) \in Nat /\ SumFunctionOnSet(b, S) \in Nat /\ a[f] \in Nat /\ b[f] \in Nat
      <4>1. \A g \in S : a[g] \in Nat
        BY <3>2
      <4>2. \A g \in S : b[g] \in Nat
        BY <3>2
      <4>3. SumFunctionOnSet(a, S) \in Nat
        BY <3>4, <4>1, SumIsNumber
      <4>4. SumFunctionOnSet(b, S) \in Nat
        BY <3>4, <4>2, SumIsNumber
      <4> QED
        BY <3>5, <4>1, <4>2, <4>3, <4>4
    <3>9. w.stats.stored = SumFunctionOnSet(b, S)
      <4> DEFINE x == SumFunctionOnSet(a, S)
                 y == SumFunctionOnSet(b, S)
      <4>1. v.stats.stored = x /\ x + b[f] = y + a[f] /\ x \in Nat /\ y \in Nat
        BY <3>5, <3>7, <3>8
      <4> HIDE DEF x, y
      <4>2. w.stats.stored = y
        BY <4>1, <3>6, <3>8, <2>1
      <4> QED
        BY <4>2 DEF y
    <3> QED
      BY <3>1, <3>5, <3>9 DEF Counted, b, S
  <2> QED
    BY <2>5, <2>6, <2>7 DEF ViewOK, w
<1> QED
  BY <1>1, <1>2

\* A sequence without repetitions, without its first element.
LEMMA DropFirst ==
    ASSUME NEW s, s \in Seq(ToSet(s)), IsInjective(s), s # <<>>
    PROVE  LET t == SubSeq(s, 2, Len(s))
           IN  /\ Len(t) = Len(s) - 1 /\ \A i \in 1 .. Len(s) - 1 : t[i] = s[i + 1]
               /\ ToSet(t) = ToSet(s) \ {s[1]} /\ IsInjective(t) /\ t \in Seq(ToSet(s) \ {s[1]})
<1> DEFINE n == Len(s)
           t == SubSeq(s, 2, Len(s))
           T == ToSet(s) \ {s[1]}
<1>1. n \in Nat /\ DOMAIN s = 1 .. n /\ n # 0
  BY LenProperties, EmptySeq
<1>2. Len(t) = n - 1 /\ DOMAIN t = 1 .. n - 1 /\ \A i \in 1 .. n - 1 : t[i] = s[i + 1]
  <2>1. 2 \in 1 .. n + 1 /\ n \in 2 - 1 .. n
    BY <1>1
  <2>2. /\ t \in Seq(ToSet(s)) /\ Len(t) = IF 2 <= n THEN n - 2 + 1 ELSE 0
        /\ \A i \in 1 .. n - 2 + 1 : t[i] = s[2 + i - 1]
    <3>1. \A i \in 2 .. n : s[i] \in ToSet(s)
      BY <1>1 DEF ToSet
    <3> QED
      BY <1>1, <2>1, <3>1, SubSeqProperties
  <2>3. n - 2 + 1 = n - 1 /\ \A i \in 1 .. n - 1 : 2 + i - 1 = i + 1
    BY <1>1
  <2>4. Len(t) = n - 1
    BY <1>1, <2>2
  <2>5. DOMAIN t = 1 .. n - 1
    BY <2>2, <2>4, LenProperties
  <2> HIDE DEF t
  <2> QED
    BY <2>2, <2>3, <2>4, <2>5
<1> HIDE DEF t, n
<1>3. \A i \in 1 .. n : i = 1 \/ (i - 1 \in 1 .. n - 1 /\ (i - 1) + 1 = i)
  BY <1>1
<1>4. \A i \in 1 .. n - 1 : i + 1 \in 1 .. n /\ i + 1 # 1
  BY <1>1
<1>5. 1 \in 1 .. n
  BY <1>1
<1>6. \A i \in 1 .. n - 1 : t[i] \in T
  <2> TAKE i \in 1 .. n - 1
  <2>1. t[i] = s[i + 1] /\ i + 1 \in DOMAIN s /\ i + 1 # 1 /\ 1 \in DOMAIN s
    BY <1>1, <1>2, <1>4, <1>5
  <2>2. s[i + 1] # s[1]
    BY <2>1 DEF IsInjective
  <2>3. s[i + 1] \in ToSet(s)
    BY <2>1 DEF ToSet
  <2> QED
    BY <2>1, <2>2, <2>3
<1>7. ToSet(t) = T
  <2>1. ASSUME NEW x \in T
        PROVE  x \in ToSet(t)
    <3>1. PICK i \in 1 .. n : s[i] = x
      BY <1>1 DEF ToSet
    <3>2. i # 1
      BY <3>1
    <3>3. i - 1 \in 1 .. n - 1 /\ (i - 1) + 1 = i
      BY <1>3, <3>2
    <3>4. i - 1 \in DOMAIN t /\ t[i - 1] = x
      BY <1>2, <3>1, <3>3
    <3> HIDE DEF T
    <3> QED
      BY <3>4 DEF ToSet
  <2>2. ASSUME NEW x \in ToSet(t)
        PROVE  x \in T
    <3> HIDE DEF T
    <3>1. PICK i \in DOMAIN t : t[i] = x
      BY DEF ToSet
    <3> QED
      BY <1>2, <1>6, <3>1
  <2> QED
    BY <2>1, <2>2
<1>8. IsInjective(t)
  <2>1. ASSUME NEW i \in 1 .. n - 1, NEW j \in 1 .. n - 1, t[i] = t[j]
        PROVE  i = j
    <3>1. s[i + 1] = s[j + 1] /\ i + 1 \in DOMAIN s /\ j + 1 \in DOMAIN s
      BY <1>1, <1>2, <1>4, <2>1
    <3>2. i + 1 = j + 1
      BY <3>1 DEF IsInjective
    <3> QED
      BY <1>1, <3>2
  <2> QED
    BY <1>2, <2>1 DEF IsInjective
<1>9. t \in Seq(T)
  <2>1. t = [i \in 1 .. n - 1 |-> t[i]]
    <3>1. t \in Seq(ToSet(s))
      <4>1. \A i \in 2 .. n : s[i] \in ToSet(s)
        BY <1>1 DEF ToSet
      <4>2. 2 \in Int /\ n \in Int
        BY <1>1
      <4> QED
        BY <4>1, <4>2, SubSeqProperties DEF t, n
    <3> QED
      BY <1>2, <3>1, LenProperties
  <2>2. n - 1 \in Nat
    BY <1>1
  <2> QED
    BY <1>6, <2>1, <2>2, SeqDef
<1> QED
  BY <1>2, <1>7, <1>8, <1>9 DEF t, n

\* What eviction leaves: all of the view but its first stream.
LEMMA EvictsFirst ==
    ASSUME NEW v, ViewOK(v), Tracked(v) # {}
    PROVE  LET f == v.order[1]
           IN  /\ v.order # <<>> /\ f \in Tracked(v)
               /\ EvictFirst(v) = [RemoveStream(v, f) EXCEPT !.order = SubSeq(v.order, 2, Len(v.order))]
<1> DEFINE f == v.order[1]
           n == Len(v.order)
           live == {i \in DOMAIN v.order : v.order[i] \in Tracked(v)}
           first == CHOOSE i \in live : \A j \in live : i <= j
<1>1. n \in Nat /\ DOMAIN v.order = 1 .. n /\ ToSet(v.order) = Tracked(v)
  BY LenProperties DEF ViewOK, Placed
<1>2. n # 0 /\ v.order # <<>>
  BY <1>1 DEF ToSet
<1>3. live = 1 .. n
  BY <1>1 DEF ToSet
<1>4. 1 \in live /\ live # {}
  BY <1>1, <1>2, <1>3
<1>5. first = 1
  <2>1. \A j \in live : 1 <= j
    BY <1>1, <1>3
  <2>2. first \in live /\ first <= 1
    BY <1>4, <2>1
  <2> HIDE DEF first
  <2> QED
    BY <1>1, <1>3, <2>2
<1>6. f \in Tracked(v)
  BY <1>4
<1>7. EvictFirst(v) = [RemoveStream(v, v.order[first]) EXCEPT !.order = SubSeq(@, first + 1, Len(@))]
  BY <1>4 DEF EvictFirst
<1> HIDE DEF first, live
<1>8. RemoveStream(v, f).order = v.order /\ first + 1 = 2
  <2>1. \A g : RemoveStream(v, g).order = v.order
    BY DEF RemoveStream, ViewOK, Shaped
  <2> QED
    BY <1>5, <2>1
<1>9. EvictFirst(v) = [RemoveStream(v, f) EXCEPT !.order = SubSeq(@, 2, Len(@))]
  BY <1>5, <1>7, <1>8
<1>10. [RemoveStream(v, f) EXCEPT !.order = SubSeq(@, 2, Len(@))] =
            [RemoveStream(v, f) EXCEPT !.order = SubSeq(v.order, 2, n)]
  BY <1>8
<1> QED
  BY <1>2, <1>6, <1>9, <1>10

\* Eviction keeps the view right, and makes room.
LEMMA EvictKept ==
    ASSUME NEW v, ViewOK(v), Tracked(v) # {}
    PROVE  LET w == EvictFirst(v)
           IN  /\ ViewOK(w) /\ Shifted(v, w) /\ Tracked(w) \subseteq Tracked(v)
               /\ Cardinality(Tracked(w)) = Cardinality(Tracked(v)) - 1
<1> DEFINE w == EvictFirst(v)
           f == v.order[1]
           T == Tracked(v)
           S == Tracked(v) \ {f}
           n == Len(v.order)
<1>1. f \in T /\ v.order # <<>>
  BY EvictsFirst
<1>2. /\ DOMAIN w = DOMAIN v /\ w.order = SubSeq(v.order, 2, n)
      /\ w.streams = [g \in S |-> v.streams[g]]
      /\ w.favorites = v.favorites \ {f} /\ w.manually_hidden = v.manually_hidden \ {f}
      /\ w.matched = v.matched \ {f} /\ w.hide_rules = v.hide_rules
      /\ w.pattern_index = IndexWithout(v, f) /\ DOMAIN w.stats = DOMAIN v.stats
      /\ w.stats.evicted = v.stats.evicted + 1
      /\ w.stats.stored = v.stats.stored - Len(v.streams[f].matches)
  <2>1. w = [RemoveStream(v, f) EXCEPT !.order = SubSeq(v.order, 2, n)]
    BY EvictsFirst
  <2> HIDE DEF w, f, n
  <2>2. Restrict(v.streams, Tracked(v) \ {f}) = [g \in S |-> v.streams[g]]
    BY DEF Restrict
  <2> QED
    BY <2>1, <2>2 DEF RemoveStream, ViewOK, Shaped, Tracked
<1> HIDE DEF w, f
<1>3. /\ Tracked(w) = S /\ \A g \in S : w.streams[g] = v.streams[g]
      /\ Lengths(w) = [g \in S |-> Lengths(v)[g]]
  BY <1>2 DEF Tracked, Lengths
<1>4. IsFiniteSet(S) /\ Cardinality(S) = Cardinality(T) - 1 /\ Cardinality(T) \in Nat
  BY <1>1, FS_RemoveElement, FS_CardinalityType DEF ViewOK, Placed
<1>5. Shaped(w)
  BY <1>2 DEF ViewOK, Shaped
<1>6. /\ Len(w.order) = n - 1 /\ \A i \in 1 .. n - 1 : w.order[i] = v.order[i + 1]
      /\ ToSet(w.order) = S /\ IsInjective(w.order) /\ w.order \in Seq(S)
  <2>1. PICK s : s = v.order
    OBVIOUS
  <2>2. s \in Seq(ToSet(s)) /\ IsInjective(s) /\ s # <<>> /\ ToSet(s) = T
    BY <1>1, <2>1 DEF ViewOK, Placed
  <2>3. /\ Len(SubSeq(s, 2, Len(s))) = Len(s) - 1
        /\ \A i \in 1 .. Len(s) - 1 : SubSeq(s, 2, Len(s))[i] = s[i + 1]
        /\ ToSet(SubSeq(s, 2, Len(s))) = T \ {s[1]}
        /\ IsInjective(SubSeq(s, 2, Len(s))) /\ SubSeq(s, 2, Len(s)) \in Seq(T \ {s[1]})
    BY <2>2, DropFirst
  <2> QED
    BY <1>2, <2>1, <2>3 DEF f
<1>7. Placed(w)
  BY <1>3, <1>4, <1>6, ViewAssumption DEF ViewOK, Placed
<1>8. Indexed(w)
  <2>1. w.matched = {g \in S : w.streams[g].match_count # 0}
    BY <1>2, <1>3 DEF ViewOK, Indexed
  <2>2. /\ DOMAIN w.pattern_index = {p \in DOMAIN v.pattern_index : v.pattern_index[p] \ {f} # {}}
        /\ \A p \in DOMAIN w.pattern_index : w.pattern_index[p] = v.pattern_index[p] \ {f}
    BY <1>2 DEF IndexWithout, Restrict
  <2>3. \A p \in DOMAIN w.pattern_index : w.pattern_index[p] = {g \in S : p \in w.streams[g].pattern_ids}
    BY <1>3, <2>2 DEF ViewOK, Indexed
  <2>4. \A g \in S : w.streams[g].pattern_ids \subseteq DOMAIN w.pattern_index
    BY <1>3, <2>2 DEF ViewOK, Indexed
  <2> QED
    BY <1>3, <2>1, <2>3, <2>4 DEF Indexed
<1>9. Counted(w)
  <2>1. \A g \in S : EntryOK(w.streams[g])
    BY <1>3 DEF ViewOK, Counted
  <2> DEFINE a == Lengths(v)
             b == Lengths(w)
             x == SumFunctionOnSet(a, T)
             y == SumFunctionOnSet(a, S)
  <2>2. IsFiniteSet(T) /\ \A g \in T : a[g] \in Nat
    BY LengthsAre
  <2>3. y = SumFunctionOnSet(b, S)
    <3>1. \A g \in S : a[g] = b[g]
      BY <1>3
    <3> HIDE DEF a, b
    <3> QED
      BY <1>4, <3>1, SumOfSame
  <2>4. x = a[f] + y
    <3> HIDE DEF a, T
    <3> QED
      BY <2>2, <1>1, SumSplits DEF T
  <2>5. y \in Nat
    <3>1. \A g \in S : a[g] \in Nat
      BY <2>2
    <3> HIDE DEF a, S
    <3> QED
      BY <1>4, <3>1, SumIsNumber
  <2>6. a[f] = Len(v.streams[f].matches) /\ a[f] \in Nat /\ v.stats.stored = x
    BY <1>1, <2>2 DEF Lengths, ViewOK, Counted
  <2> HIDE DEF x, y, a, b
  <2>7. w.stats.stored = y
    BY <1>2, <2>4, <2>5, <2>6
  <2> QED
    BY <1>3, <2>1, <2>3, <2>7 DEF Counted, b
<1>10. MarksOK(w)
  BY <1>2, <1>3 DEF ViewOK, MarksOK
<1>11. Shifted(v, w)
  <2>1. Gone(v, w) = 1
    BY <1>2 DEF Gone, ViewOK, Shaped
  <2>2. n \in Nat
    BY LenProperties DEF ViewOK, Placed
  <2>3. \A i \in 1 .. n : i > 1 => i - 1 \in 1 .. n - 1 /\ (i - 1) + 1 = i
    BY <2>2
  <2> HIDE DEF n
  <2>4. \A i \in 1 .. n : i > 1 => i - 1 \in 1 .. Len(w.order) /\ w.order[i - 1] = v.order[i]
    BY <1>6, <2>3
  <2> QED
    BY <2>1, <2>4 DEF Shifted, n
<1> QED
  BY <1>3, <1>4, <1>5, <1>7, <1>8, <1>9, <1>10, <1>11 DEF ViewOK, w

\* A new stream comes last, with no match.
NewEntry(row) == [row |-> row, matches |-> <<>>, match_count |-> 0, pattern_ids |-> {}]
LEMMA AddKept ==
    ASSUME NEW v, ViewOK(v), NEW f, f \notin Tracked(v), NEW row,
           ~ Cardinality(Tracked(v)) >= MaxViewStreams
    PROVE  LET w == [v EXCEPT !.order = Append(@, f), !.streams = Put(@, f, NewEntry(row))]
           IN  ViewOK(w) /\ Shifted(v, w)
<1> DEFINE w == [v EXCEPT !.order = Append(@, f), !.streams = Put(@, f, NewEntry(row))]
           T == Tracked(v)
           S == T \cup {f}
           n == Len(v.order)
<1>1. /\ DOMAIN w = DOMAIN v /\ w.order = Append(v.order, f)
      /\ w.streams = [g \in S |-> IF g = f THEN NewEntry(row) ELSE v.streams[g]]
      /\ w.favorites = v.favorites /\ w.manually_hidden = v.manually_hidden
      /\ w.matched = v.matched /\ w.hide_rules = v.hide_rules
      /\ w.pattern_index = v.pattern_index /\ w.stats = v.stats
  BY DEF ViewOK, Shaped, Put, Tracked
<1> HIDE DEF w
<1>2. /\ Tracked(w) = S /\ w.streams[f] = NewEntry(row) /\ f \in S
      /\ \A g \in T : w.streams[g] = v.streams[g]
  BY <1>1 DEF Tracked
<1>3. IsFiniteSet(T) /\ Cardinality(T) \in Nat
  BY FS_CardinalityType DEF ViewOK, Placed
<1>4. IsFiniteSet(S) /\ Cardinality(S) = Cardinality(T) + 1
  BY <1>3, FS_AddElement
<1>5. Shaped(w)
  BY <1>1 DEF ViewOK, Shaped
<1>6. ToSet(w.order) = S /\ IsInjective(w.order) /\ w.order \in Seq(S)
  <2>1. PICK s : s = v.order
    OBVIOUS
  <2>2. s \in Seq(ToSet(s)) /\ IsInjective(s) /\ f \notin ToSet(s) /\ ToSet(s) = T
    BY <2>1 DEF ViewOK, Placed
  <2>3. /\ ToSet(Append(s, f)) = ToSet(s) \cup {f} /\ IsInjective(Append(s, f))
        /\ Append(s, f) \in Seq(ToSet(s) \cup {f})
    BY <2>2, AppendNew
  <2> QED
    BY <1>1, <2>1, <2>2, <2>3
<1>7. Placed(w)
  <2>1. Cardinality(S) <= MaxViewStreams
    BY <1>3, <1>4, ViewAssumption
  <2> QED
    BY <1>2, <1>4, <1>6, <2>1 DEF Placed
<1>8. Indexed(w)
  <2>1. w.streams[f].match_count = 0 /\ w.streams[f].pattern_ids = {}
    BY <1>2 DEF NewEntry
  <2> QED
    BY <1>1, <1>2, <2>1 DEF ViewOK, Indexed
<1>9. Counted(w)
  <2>1. EntryOK(NewEntry(row)) /\ Len(NewEntry(row).matches) = 0
    BY ViewAssumption DEF NewEntry, EntryOK, Smaller
  <2>2. \A g \in S : EntryOK(w.streams[g])
    BY <1>2, <2>1 DEF ViewOK, Counted
  <2> DEFINE a == Lengths(v)
             b == Lengths(w)
             x == SumFunctionOnSet(a, T)
             y == SumFunctionOnSet(b, T)
  <2>3. \A g \in S : b[g] \in Nat
    BY <1>2, <2>2, LenProperties DEF Lengths, EntryOK
  <2>4. b[f] = 0 /\ \A g \in T : a[g] = b[g]
    BY <1>2, <2>1 DEF Lengths
  <2>5. x = y
    <3> HIDE DEF a, b, T
    <3> QED
      BY <1>3, <2>4, SumOfSame
  <2>6. y \in Nat
    <3>1. \A g \in T : b[g] \in Nat
      BY <2>3
    <3> HIDE DEF b, T
    <3> QED
      BY <1>3, <3>1, SumIsNumber
  <2>7. SumFunctionOnSet(b, S) = b[f] + y
    <3>1. S \ {f} = T
      OBVIOUS
    <3> HIDE DEF b, S, T
    <3>2. SumFunctionOnSet(b, S) = b[f] + SumFunctionOnSet(b, S \ {f})
      BY <1>2, <1>4, <2>3, SumSplits
    <3> QED
      BY <3>1, <3>2
  <2>8. v.stats.stored = x
    BY DEF ViewOK, Counted
  <2> HIDE DEF x, y, a, b
  <2>9. w.stats.stored = SumFunctionOnSet(b, S)
    BY <1>1, <2>4, <2>5, <2>6, <2>7, <2>8
  <2> QED
    BY <1>2, <2>2, <2>9 DEF Counted, b
<1>10. MarksOK(w)
  BY <1>1, <1>2 DEF ViewOK, MarksOK
<1>11. Shifted(v, w)
  <2>1. Gone(v, w) = 0
    BY <1>1 DEF Gone, ViewOK, Shaped
  <2>2. v.order \in Seq(T) /\ v.order \in Seq(S)
    BY SeqMonotonic DEF ViewOK, Placed
  <2>3. n \in Nat /\ Len(w.order) = n + 1 /\ \A i \in 1 .. n : w.order[i] = v.order[i]
    BY <1>1, <2>2, LenProperties, AppendProperties
  <2>4. \A i \in 1 .. n : i - 0 = i /\ i \in 1 .. n + 1
    BY <2>3
  <2> HIDE DEF n
  <2> QED
    BY <2>1, <2>3, <2>4 DEF Shifted, n
<1> QED
  BY <1>5, <1>7, <1>8, <1>9, <1>10, <1>11 DEF ViewOK, w

\* A stream is put in the view, or its row replaced.
LEMMA UpsertKept ==
    ASSUME NEW v, ViewOK(v), NEW f, NEW row
    PROVE  ViewOK(Upsert(v, f, row)) /\ Shifted(v, Upsert(v, f, row))
<1>1. CASE f \in Tracked(v)
  <2> DEFINE w == [v EXCEPT !.streams[f].row = row]
  <2>1. /\ DOMAIN w = DOMAIN v /\ w.order = v.order /\ w.matched = v.matched
        /\ w.pattern_index = v.pattern_index /\ w.stats = v.stats /\ w.favorites = v.favorites
        /\ w.manually_hidden = v.manually_hidden /\ w.hide_rules = v.hide_rules
        /\ DOMAIN w.streams = DOMAIN v.streams
        /\ \A g \in Tracked(v) :
            /\ DOMAIN w.streams[g] = DOMAIN v.streams[g]
            /\ w.streams[g].matches = v.streams[g].matches
            /\ w.streams[g].match_count = v.streams[g].match_count
            /\ w.streams[g].pattern_ids = v.streams[g].pattern_ids
    BY <1>1 DEF ViewOK, Shaped, Tracked, Counted, EntryOK
  <2> HIDE DEF w
  <2>2. Tracked(w) = Tracked(v) /\ Lengths(w) = Lengths(v)
    BY <2>1 DEF Tracked, Lengths
  <2>3. Shaped(w) /\ Placed(w) /\ MarksOK(w) /\ Shifted(v, w)
    BY <2>1, <2>2, ShiftStays DEF ViewOK, Shaped, Placed, MarksOK
  <2>4. Indexed(w)
    BY <2>1, <2>2 DEF ViewOK, Indexed
  <2>5. Counted(w)
    BY <2>1, <2>2 DEF ViewOK, Counted, EntryOK
  <2>6. Upsert(v, f, row) = w
    BY <1>1 DEF Upsert, w
  <2> QED
    BY <2>3, <2>4, <2>5, <2>6 DEF ViewOK
<1>2. CASE f \notin Tracked(v)
  <2> DEFINE room == IF Cardinality(Tracked(v)) >= MaxViewStreams THEN EvictFirst(v) ELSE v
             w == [room EXCEPT !.order = Append(@, f), !.streams = Put(@, f, NewEntry(row))]
  <2>1. /\ ViewOK(room) /\ Shifted(v, room) /\ f \notin Tracked(room)
        /\ ~ Cardinality(Tracked(room)) >= MaxViewStreams
    <3>1. CASE Cardinality(Tracked(v)) >= MaxViewStreams
      <4>1. Tracked(v) # {}
        BY <3>1, ViewAssumption, FS_EmptySet
      <4>2. Cardinality(Tracked(v)) \in Nat /\ Cardinality(Tracked(v)) <= MaxViewStreams
        BY FS_CardinalityType DEF ViewOK, Placed
      <4>3. room = EvictFirst(v)
        BY <3>1
      <4> HIDE DEF room
      <4> QED
        BY <1>2, <4>1, <4>2, <4>3, EvictKept, ViewAssumption
    <3>2. CASE ~ Cardinality(Tracked(v)) >= MaxViewStreams
      BY <1>2, <3>2, ShiftStays DEF ViewOK
    <3> QED
      BY <3>1, <3>2
  <2>2. Upsert(v, f, row) = w
    BY <1>2, <2>1 DEF Upsert, NewEntry
  <2> HIDE DEF room
  <2>3. ViewOK(w) /\ Shifted(room, w)
    BY <2>1, AddKept
  <2>4. Shifted(v, w)
    <3> HIDE DEF w
    <3> QED
      BY <2>1, <2>3, ShiftsAdd DEF ViewOK
  <2> QED
    BY <2>2, <2>3, <2>4
<1> QED
  BY <1>1, <1>2

\* An event keeps the view right.
LEMMA EventKept ==
    ASSUME NEW v, ViewOK(v), NEW e \in Events
    PROVE  ViewOK(ObserveEvent(v, e)) /\ Shifted(v, ObserveEvent(v, e))
<1>1. ObserveEvent(v, e) \in {Upsert(v, e.flow, e.row), ObserveMatch(v, e.match),
                              ObserveMessage(v, e.message), v}
  BY DEF ObserveEvent
<1>2. e.match \in Matches
  BY DEF Matches
<1>3. Shifted(v, v)
  BY ShiftStays DEF ViewOK
<1> QED
  BY <1>1, <1>2, <1>3, UpsertKept, MatchKept, MessageKept

\* A batch of events keeps it right, event by event.
LEMMA EventsKept ==
    ASSUME NEW v, ViewOK(v), NEW events \in Batches
    PROVE  ViewOK(ObserveEvents(v, events)) /\ Shifted(v, ObserveEvents(v, events))
<1> DEFINE n == Len(events)
<1>1. n \in Nat /\ DOMAIN events = 1 .. n /\ \A i \in 1 .. n : events[i] \in Events
  <2>1. n \in Nat /\ DOMAIN events = 1 .. n
    BY StreamViewsAssumption, LenProperties
  <2> HIDE DEF n
  <2> QED
    BY <2>1 DEF Events, ToSet
<1> HIDE DEF n
<1>2. PICK h : /\ h[0] = v /\ h[n] = ObserveEvents(v, events)
               /\ \A i \in 1 .. n : h[i] = ObserveEvent(h[i - 1], events[i])
  BY <1>1, EventsInTurn
<1> DEFINE G == {i \in Nat : i <= n => ViewOK(h[i]) /\ Shifted(v, h[i])}
<1>3. 0 \in G
  BY <1>2, ShiftStays DEF ViewOK
<1>4. ASSUME NEW i \in Nat, i \in G
      PROVE  i + 1 \in G
  <2> SUFFICES ASSUME i + 1 <= n
               PROVE  ViewOK(h[i + 1]) /\ Shifted(v, h[i + 1])
    OBVIOUS
  <2>1. i + 1 \in 1 .. n /\ (i + 1) - 1 = i /\ i <= n
    BY <1>1
  <2>2. h[i + 1] = ObserveEvent(h[i], events[i + 1]) /\ events[i + 1] \in Events
    BY <1>1, <1>2, <2>1
  <2>3. ViewOK(h[i]) /\ Shifted(v, h[i])
    BY <1>4, <2>1
  <2>4. ViewOK(h[i + 1]) /\ Shifted(h[i], h[i + 1])
    BY <2>2, <2>3, EventKept
  <2> QED
    BY <2>3, <2>4, ShiftsAdd DEF ViewOK
<1>5. n \in G
  <2> HIDE DEF G
  <2> QED
    BY <1>1, <1>3, <1>4, NumberInduction
<1> QED
  BY <1>1, <1>2, <1>5

\* So does a list of hide rules, rule by rule.
LEMMA AllRulesKept ==
    ASSUME NEW v, ViewOK(v), NEW rules, rules \in Seq(ToSet(rules))
    PROVE  LET w == AddHideRules(v, rules) IN ViewOK(w) /\ Shifted(v, w)
<1> DEFINE n == Len(rules)
           w == AddHideRules(v, rules)
<1>1. n \in Nat /\ DOMAIN rules = 1 .. n
  BY LenProperties
<1> HIDE DEF n
<1>2. PICK h : /\ h[0] = v /\ h[n] = w
               /\ \A i \in 1 .. n : h[i] = AddHideRule(h[i - 1], rules[i])
  BY <1>1, RulesInTurn
<1> HIDE DEF w
<1> DEFINE G == {i \in Nat : i <= n => ViewOK(h[i]) /\ Shifted(v, h[i])}
<1>3. 0 \in G
  BY <1>2, ShiftStays DEF ViewOK
<1>4. ASSUME NEW i \in Nat, i \in G
      PROVE  i + 1 \in G
  <2> SUFFICES ASSUME i + 1 <= n
               PROVE  ViewOK(h[i + 1]) /\ Shifted(v, h[i + 1])
    OBVIOUS
  <2>1. i + 1 \in 1 .. n /\ (i + 1) - 1 = i /\ i <= n
    BY <1>1
  <2>2. h[i + 1] = AddHideRule(h[i], rules[i + 1])
    BY <1>2, <2>1
  <2>3. ViewOK(h[i]) /\ Shifted(v, h[i])
    BY <1>4, <2>1
  <2>4. ViewOK(h[i + 1]) /\ Shifted(h[i], h[i + 1])
    BY <2>2, <2>3, RulesKept
  <2> QED
    BY <2>3, <2>4, ShiftsAdd DEF ViewOK
<1>5. n \in G
  <2> HIDE DEF G
  <2> QED
    BY <1>1, <1>3, <1>4, NumberInduction
<1> QED
  BY <1>1, <1>2, <1>5 DEF w

-----------------------------------------------------------------------------
(* Profiles *)

AllProfiles == ToSet(Builtins) \cup UNION {ToSet(file.profiles) : file \in ProfileFiles}
\* No id is taken twice.
Distinct(set) == \A i, j \in 1 .. Len(set) : set[i].id = set[j].id => i = j
ProfilesOK(set) == set \in Seq(AllProfiles) /\ Distinct(set)

\* An id that is taken goes, and the others stay.
LEMMA OthersKept ==
    ASSUME NEW set, ProfilesOK(set), NEW id
    PROVE  ProfilesOK(Others(set, id)) /\ \A i \in 1 .. Len(Others(set, id)) : Others(set, id)[i].id # id
<1> DEFINE n == Len(set)
<1>1. n \in Nat /\ DOMAIN set = 1 .. n /\ \A i \in 1 .. n : set[i] \in AllProfiles
  BY LenProperties, ElementOfSeq DEF ProfilesOK
<1>2. \A i, j \in 1 .. n : set[i].id = set[j].id => i = j
  BY DEF ProfilesOK, Distinct
<1> HIDE DEF n
<1>3. PICK h : /\ h[0] = <<>> /\ h[n] = Others(set, id)
               /\ \A i \in 1 .. n : h[i] = Retain(id, h[i - 1], set[i])
  BY <1>1, OthersInTurn
<1> DEFINE good(s, m) ==
                /\ ProfilesOK(s) /\ \A i \in 1 .. Len(s) : s[i].id # id
                /\ \A i \in 1 .. Len(s) : \E k \in 1 .. m : s[i] = set[k]
           G == {m \in Nat : m <= n => good(h[m], m)}
<1>4. 0 \in G
  <2>1. <<>> \in Seq(AllProfiles) /\ 1 .. Len(<<>>) = {}
    OBVIOUS
  <2> QED
    BY <1>3, <2>1 DEF ProfilesOK, Distinct
<1>5. ASSUME NEW m \in Nat, m \in G
      PROVE  m + 1 \in G
  <2> SUFFICES ASSUME m + 1 <= n
               PROVE  good(h[m + 1], m + 1)
    OBVIOUS
  <2>1. m + 1 \in 1 .. n /\ (m + 1) - 1 = m /\ m <= n /\ \A k \in 1 .. m : k \in 1 .. n /\ k # m + 1 /\ k \in 1 .. m + 1
    BY <1>1
  <2>2. PICK s : s = h[m]
    OBVIOUS
  <2>3. PICK p : p = set[m + 1] /\ p \in AllProfiles
    BY <1>1, <2>1
  <2>4. good(s, m)
    BY <1>5, <2>1, <2>2
  <2>5. h[m + 1] = IF p.id = id THEN s ELSE Append(s, p)
    BY <1>3, <2>1, <2>2, <2>3 DEF Retain
  <2>6. CASE p.id = id
    BY <2>1, <2>4, <2>5, <2>6
  <2>7. CASE p.id # id
    <3> DEFINE l == Len(s)
               t == Append(s, p)
    <3>1. /\ t \in Seq(AllProfiles) /\ Len(t) = l + 1 /\ l \in Nat /\ t[l + 1] = p
          /\ \A i \in 1 .. l : t[i] = s[i]
      BY <2>3, <2>4, AppendProperties, LenProperties DEF ProfilesOK
    <3> HIDE DEF t, l
    <3>2. \A i \in 1 .. l + 1 : i \in 1 .. l \/ i = l + 1
      BY <3>1
    <3>3. \A i \in 1 .. l : \E k \in 1 .. m : s[i] = set[k]
      BY <2>4 DEF l
    <3>4. \A i \in 1 .. l : t[i].id # p.id
      BY <1>2, <2>1, <2>3, <3>1, <3>3
    <3>5. \A i, j \in 1 .. l : t[i].id = t[j].id => i = j
      BY <2>4, <3>1 DEF l, ProfilesOK, Distinct
    <3>6. Distinct(t)
      BY <3>1, <3>2, <3>4, <3>5 DEF Distinct
    <3>7. \A i \in 1 .. Len(t) : t[i].id # id
      BY <2>4, <2>7, <3>1, <3>2 DEF l
    <3>8. \A i \in 1 .. Len(t) : \E k \in 1 .. m + 1 : t[i] = set[k]
      <4>1. \A i \in 1 .. l : \E k \in 1 .. m + 1 : t[i] = set[k]
        BY <2>1, <3>1, <3>3
      <4>2. m + 1 \in 1 .. m + 1
        OBVIOUS
      <4> QED
        BY <2>3, <3>1, <3>2, <4>1, <4>2
    <3>9. h[m + 1] = t
      BY <2>5, <2>7 DEF t
    <3> QED
      BY <3>1, <3>6, <3>7, <3>8, <3>9 DEF ProfilesOK
  <2> QED
    BY <2>6, <2>7
<1>6. n \in G
  <2> HIDE DEF G
  <2> QED
    BY <1>1, <1>4, <1>5, NumberInduction
<1> QED
  BY <1>1, <1>3, <1>6

\* A profile replaces the one of its name.
LEMMA UpsertsOne ==
    ASSUME NEW set, ProfilesOK(set), NEW p \in AllProfiles
    PROVE  ProfilesOK(UpsertProfile(set, p))
<1>1. PICK s : s = Others(set, p.id)
  OBVIOUS
<1>2. ProfilesOK(s) /\ \A i \in 1 .. Len(s) : s[i].id # p.id
  BY <1>1, OthersKept
<1> DEFINE l == Len(s)
           t == Append(s, p)
<1>3. /\ t \in Seq(AllProfiles) /\ Len(t) = l + 1 /\ l \in Nat /\ t[l + 1] = p
      /\ \A i \in 1 .. l : t[i] = s[i]
  BY <1>2, AppendProperties, LenProperties DEF ProfilesOK
<1>4. UpsertProfile(set, p) = t
  BY <1>1 DEF UpsertProfile
<1> HIDE DEF t
<1>5. \A i, j \in 1 .. l : t[i].id = t[j].id => i = j
  BY <1>2, <1>3 DEF ProfilesOK, Distinct
<1> HIDE DEF l
<1>6. \A i \in 1 .. l + 1 : i \in 1 .. l \/ i = l + 1
  BY <1>3
<1>7. Distinct(t)
  BY <1>2, <1>3, <1>5, <1>6 DEF Distinct, l
<1> QED
  BY <1>3, <1>4, <1>7 DEF ProfilesOK

\* The built-in profiles have each a name of its own.
LEMMA BuiltinsOK == ProfilesOK(Builtins)
<1> DEFINE names == <<"http", "https", "tls", "dns", "websocket", "binary", "matched">>
<1>1. /\ DOMAIN Builtins = 1 .. 7 /\ Len(Builtins) = 7
      /\ \A i \in 1 .. 7 : Builtins[i].id = names[i]
  BY DEF Builtins, Profile
<1>2. \A i, j \in 1 .. 7 : names[i] = names[j] => i = j
  OBVIOUS
<1>3. Builtins = [i \in 1 .. 7 |-> Builtins[i]]
  BY DEF Builtins
<1> HIDE DEF names
<1>4. \A i \in 1 .. 7 : Builtins[i] \in AllProfiles
  BY <1>1 DEF AllProfiles, ToSet
<1>5. Builtins \in Seq(AllProfiles)
  BY <1>3, <1>4, SeqDef
<1>6. Distinct(Builtins)
  BY <1>1, <1>2 DEF Distinct
<1> QED
  BY <1>5, <1>6 DEF ProfilesOK

\* The profiles of a file are taken over the built-in ones, or over none.
LEMMA UpsertsAll ==
    ASSUME NEW set, ProfilesOK(set), NEW file \in ProfileFiles
    PROVE  ProfilesOK(UpsertProfiles(set, file.profiles))
<1>1. PICK seq : seq = file.profiles
  OBVIOUS
<1> DEFINE n == Len(seq)
<1>2. n \in Nat /\ DOMAIN seq = 1 .. n /\ ToSet(seq) \subseteq AllProfiles
  <2>1. seq \in Seq(ToSet(seq))
    BY <1>1, StreamViewsAssumption
  <2>2. ToSet(seq) \subseteq AllProfiles
    BY <1>1 DEF AllProfiles
  <2> QED
    BY <2>1, <2>2, LenProperties
<1> HIDE DEF n
<1>3. \A i \in 1 .. n : seq[i] \in AllProfiles
  BY <1>2 DEF ToSet
<1>4. PICK h : /\ h[0] = set /\ h[n] = UpsertProfiles(set, seq)
               /\ \A i \in 1 .. n : h[i] = UpsertProfile(h[i - 1], seq[i])
  <2>1. \E h : Upserting(h, set, seq, n)
    BY <1>2, ProfilesInTurn
  <2> QED
    BY <2>1 DEF Upserting
<1> DEFINE G == {i \in Nat : i <= n => ProfilesOK(h[i])}
<1>5. 0 \in G
  BY <1>4
<1>6. ASSUME NEW i \in Nat, i \in G
      PROVE  i + 1 \in G
  <2> SUFFICES ASSUME i + 1 <= n
               PROVE  ProfilesOK(h[i + 1])
    OBVIOUS
  <2>1. i + 1 \in 1 .. n /\ (i + 1) - 1 = i /\ i <= n
    BY <1>2
  <2>2. h[i + 1] = UpsertProfile(h[i], seq[i + 1]) /\ seq[i + 1] \in AllProfiles
    BY <1>3, <1>4, <2>1
  <2>3. ProfilesOK(h[i])
    BY <1>6, <2>1
  <2> QED
    BY <2>2, <2>3, UpsertsOne
<1>7. n \in G
  <2> HIDE DEF G
  <2> QED
    BY <1>2, <1>5, <1>6, NumberInduction
<1> QED
  BY <1>1, <1>2, <1>4, <1>7

\* The places a stable sort by falling priority gives.
Before(set, i, j) ==
    set[i].priority > set[j].priority \/ (set[i].priority = set[j].priority /\ i < j)
Ahead(set, i) == {j \in DOMAIN set : Before(set, j, i)}
Rank(set, i) == Cardinality(Ahead(set, i)) + 1

\* Each place is given once.
LEMMA RankIsOnto ==
    ASSUME NEW set, NEW n \in Nat, DOMAIN set = 1 .. n,
           \A i \in 1 .. n : set[i].priority \in Nat
    PROVE  \A k \in 1 .. n : \E i \in 1 .. n : Rank(set, i) = k
<1> DEFINE D == 1 .. n
           r == [i \in D |-> Rank(set, i)]
<1>1. IsFiniteSet(D) /\ Cardinality(D) = n
  BY FS_Interval
<1>2. ASSUME NEW i \in D
      PROVE  /\ IsFiniteSet(Ahead(set, i)) /\ Cardinality(Ahead(set, i)) \in Nat
             /\ i \notin Ahead(set, i) /\ Ahead(set, i) \subseteq D
  <2>1. Ahead(set, i) \subseteq D
    BY DEF Ahead
  <2>2. i \notin Ahead(set, i)
    BY DEF Ahead, Before
  <2> QED
    BY <1>1, <2>1, <2>2, FS_Subset, FS_CardinalityType
<1>3. ASSUME NEW i \in D
      PROVE  r[i] \in D
  <2>1. IsFiniteSet(D \ {i}) /\ Cardinality(D \ {i}) = n - 1
    BY <1>1, FS_RemoveElement
  <2>2. Ahead(set, i) \in SUBSET (D \ {i})
    BY <1>2
  <2>3. Cardinality(Ahead(set, i)) <= n - 1
    BY <2>1, <2>2, FS_Subset
  <2> QED
    BY <1>2, <2>3 DEF Rank
<1>4. ASSUME NEW i \in D, NEW j \in D, Before(set, i, j)
      PROVE  r[i] < r[j]
  <2>1. Ahead(set, i) \subseteq Ahead(set, j) /\ i \in Ahead(set, j)
    BY <1>4 DEF Ahead, Before
  <2>2. Ahead(set, i) \in SUBSET Ahead(set, j) /\ Ahead(set, i) # Ahead(set, j)
    BY <1>2, <2>1
  <2>3. Cardinality(Ahead(set, i)) < Cardinality(Ahead(set, j))
    BY <1>2, <2>2, FS_Subset
  <2> QED
    BY <1>2, <2>3 DEF Rank
<1>5. ASSUME NEW i \in D, NEW j \in D, r[i] = r[j]
      PROVE  i = j
  <2>1. i = j \/ Before(set, i, j) \/ Before(set, j, i)
    BY DEF Before
  <2>2. r[i] \in Nat /\ r[j] \in Nat
    BY <1>3
  <2> HIDE DEF r
  <2> QED
    BY <1>4, <1>5, <2>1, <2>2
<1>6. r \in Injection(D, D)
  <2>1. r \in [D -> D]
    BY <1>3
  <2>2. IsInjective(r)
    <3>1. DOMAIN r = D
      OBVIOUS
    <3> HIDE DEF r
    <3> QED
      BY <1>5, <3>1 DEF IsInjective
  <2> QED
    BY <2>1, <2>2 DEF Injection
<1>7. r \in Surjection(D, D)
  BY <1>1, <1>6, FS_Injection
<1>8. \A k \in D : \E i \in D : r[i] = k
  BY <1>7 DEF Surjection
<1> QED
  BY <1>8

\* A file that is read gives each profile a name of its own.
LEMMA LoadOK ==
    ASSUME NEW file \in ProfileFiles
    PROVE  ProfilesOK(Load(file))
<1> DEFINE base == IF file.include_builtins THEN Builtins ELSE <<>>
           set == UpsertProfiles(base, file.profiles)
           n == Len(set)
           at(k) == CHOOSE i \in DOMAIN set : Rank(set, i) = k
           sorted == [k \in DOMAIN set |-> set[at(k)]]
<1>1. ProfilesOK(set)
  <2>1. <<>> \in Seq(AllProfiles) /\ 1 .. Len(<<>>) = {}
    OBVIOUS
  <2>2. ProfilesOK(base)
    BY <2>1, BuiltinsOK DEF ProfilesOK, Distinct
  <2> HIDE DEF base
  <2> QED
    BY <2>2, UpsertsAll
<1>2. Load(file) = sorted
  BY DEF Load, Rank, Ahead, Before
<1> HIDE DEF set
<1>3. n \in Nat /\ DOMAIN set = 1 .. n /\ \A i \in 1 .. n : set[i] \in AllProfiles
  BY <1>1, LenProperties, ElementOfSeq DEF ProfilesOK
<1>4. \A p \in AllProfiles : p.priority \in Nat
  <2>1. \A i \in DOMAIN Builtins : Builtins[i].priority \in Nat
    BY DEF Builtins, Profile
  <2>2. \A f \in ProfileFiles : \A p \in ToSet(f.profiles) : p.priority \in Nat
    BY StreamViewsAssumption
  <2> QED
    BY <2>1, <2>2 DEF AllProfiles, ToSet
<1> HIDE DEF n
<1>5. \A k \in 1 .. n : \E i \in 1 .. n : Rank(set, i) = k
  BY <1>3, <1>4, RankIsOnto
<1>6. \A k \in 1 .. n : at(k) \in 1 .. n /\ Rank(set, at(k)) = k
  BY <1>3, <1>5
<1> HIDE DEF at
<1>7. sorted = [k \in 1 .. n |-> set[at(k)]]
  BY <1>3
<1>8. sorted \in Seq(AllProfiles) /\ Len(sorted) = n
  <2>1. \A k \in 1 .. n : set[at(k)] \in AllProfiles
    BY <1>3, <1>6
  <2>2. [k \in 1 .. n |-> set[at(k)]] \in [1 .. n -> AllProfiles]
    BY <2>1
  <2>3. sorted \in [1 .. n -> AllProfiles]
    BY <1>7, <2>2
  <2> HIDE DEF sorted
  <2>4. sorted \in Seq(AllProfiles)
    BY <1>3, <2>3, SeqDef
  <2>5. DOMAIN sorted = 1 .. n
    BY <2>3
  <2>6. Len(sorted) \in Nat /\ DOMAIN sorted = 1 .. Len(sorted)
    BY <2>4, LenProperties
  <2>7. Len(sorted) = n
    BY <1>3, <2>5, <2>6
  <2> QED
    BY <2>4, <2>7
<1>9. Distinct(sorted)
  <2>1. ASSUME NEW k \in 1 .. n, NEW l \in 1 .. n, sorted[k].id = sorted[l].id
        PROVE  k = l
    <3>1. set[at(k)].id = set[at(l)].id
      BY <1>7, <2>1
    <3>2. at(k) = at(l)
      BY <1>1, <1>6, <3>1 DEF ProfilesOK, Distinct, n
    <3> QED
      BY <1>6, <3>2
  <2> HIDE DEF sorted
  <2> QED
    BY <1>8, <2>1 DEF Distinct
<1> QED
  BY <1>2, <1>8, <1>9 DEF ProfilesOK

-----------------------------------------------------------------------------
(* Steps *)

DataOK == ViewOK(view) /\ ProfilesOK(profiles)

\* Every profile has a name and a list of hide rules.
LEMMA ProfilesAre ==
    \A p \in AllProfiles : p.id # "" /\ p.hide_rules \in Seq(ToSet(p.hide_rules))
<1>1. ASSUME NEW i \in 1 .. 7
      PROVE  Builtins[i].id # "" /\ Builtins[i].hide_rules \in Seq(ToSet(Builtins[i].hide_rules))
  <2>1. Builtins[i].id # ""
    <3>1. /\ Builtins[1].id = "http" /\ Builtins[2].id = "https" /\ Builtins[3].id = "tls"
          /\ Builtins[4].id = "dns" /\ Builtins[5].id = "websocket" /\ Builtins[6].id = "binary"
          /\ Builtins[7].id = "matched"
      BY DEF Builtins, Profile
    <3>2. i \in {1, 2, 3, 4, 5, 6, 7}
      OBVIOUS
    <3> QED
      BY <3>1, <3>2
  <2>2. \/ Builtins[i].hide_rules = <<>>
        \/ \E x : Builtins[i].hide_rules = <<x>>
    <3>1. /\ Builtins[5].hide_rules = <<>> /\ Builtins[7].hide_rules = <<>>
          /\ Builtins[1].hide_rules = Hide("service", "http")
          /\ Builtins[2].hide_rules = Hide("service", "https")
          /\ Builtins[3].hide_rules = Hide("service", "tls")
          /\ Builtins[4].hide_rules = Hide("service", "dns")
          /\ Builtins[6].hide_rules = Hide("content_kind", "Binary")
      BY DEF Builtins, Profile
    <3>2. \A kind, value : \E x : Hide(kind, value) = <<x>>
      BY DEF Hide
    <3>3. i \in {1, 2, 3, 4, 5, 6, 7}
      OBVIOUS
    <3> QED
      BY <3>1, <3>2, <3>3
  <2>3. <<>> \in Seq(ToSet(<<>>)) /\ \A x : <<x>> \in Seq(ToSet(<<x>>))
    BY DEF ToSet
  <2> QED
    BY <2>1, <2>2, <2>3
<1>2. DOMAIN Builtins = 1 .. 7
  BY DEF Builtins
<1>3. \A file \in ProfileFiles : \A p \in ToSet(file.profiles) :
            p.id # "" /\ p.hide_rules \in Seq(ToSet(p.hide_rules))
  BY StreamViewsAssumption
<1>4. \A p \in ToSet(Builtins) : p.id # "" /\ p.hide_rules \in Seq(ToSet(p.hide_rules))
  BY <1>1, <1>2 DEF ToSet
<1> QED
  BY <1>3, <1>4 DEF AllProfiles

\* A step of the pipeline or a user keeps the view right, and moves its streams only
\* to the front; the others are those of a client that reads.
LEMMA StepsAre ==
    ASSUME DataOK, Next
    PROVE  \/ \E v : Become(v) /\ ViewOK(v) /\ Shifted(view, v)
           \/ \E q \in Queries : StartWalk(q)
           \/ TurnPage
<1>1. ASSUME NEW events \in Batches, Publish(events)
      PROVE  \E v : Become(v) /\ ViewOK(v) /\ Shifted(view, v)
  <2>1. PICK v : v = ObserveEvents(view, events)
    OBVIOUS
  <2>2. Become(v)
    BY <1>1, <2>1 DEF Publish
  <2>3. ViewOK(v) /\ Shifted(view, v)
    BY <2>1, EventsKept DEF DataOK
  <2> QED
    BY <2>2, <2>3
<1>2. ASSUME NEW patch \in Patches, UpdateStreamState(patch)
      PROVE  \E v : Become(v) /\ ViewOK(v) /\ Shifted(view, v)
  <2> DEFINE marked == IF patch.favorite = {} THEN view
                       ELSE SetFavorite(view, patch.flow, TRUE \in patch.favorite)
             w == IF patch.hidden = {} THEN marked ELSE SetHidden(marked, patch.flow, TRUE \in patch.hidden)
  <2>1. Become(w)
    BY <1>2 DEF UpdateStreamState
  <2>2. ViewOK(view) /\ Shifted(view, view)
    BY ShiftStays DEF DataOK, ViewOK
  <2>3. ViewOK(marked) /\ Shifted(view, marked)
    BY <2>2, MarksKept
  <2> HIDE DEF marked
  <2>4. Shifted(marked, marked)
    BY <2>3, ShiftStays DEF ViewOK
  <2>5. ViewOK(w) /\ Shifted(marked, w)
    BY <2>3, <2>4, MarksKept
  <2> HIDE DEF w
  <2>6. Shifted(view, w)
    BY <2>2, <2>3, <2>5, ShiftsAdd DEF ViewOK
  <2> QED
    BY <2>1, <2>5, <2>6
<1>3. ASSUME NEW rules, rules \in Seq(ToSet(rules)), AddRules(rules)
      PROVE  \E v : Become(v) /\ ViewOK(v) /\ Shifted(view, v)
  <2>1. PICK v : v = AddHideRules(view, rules)
    OBVIOUS
  <2>2. Become(v)
    BY <1>3, <2>1 DEF AddRules
  <2>3. ViewOK(v) /\ Shifted(view, v)
    BY <1>3, <2>1, AllRulesKept DEF DataOK
  <2> QED
    BY <2>2, <2>3
<1>4. ASSUME NEW rule \in Rules, AddRules(<<rule>>)
      PROVE  \E v : Become(v) /\ ViewOK(v) /\ Shifted(view, v)
  <2>1. <<rule>> \in Seq(ToSet(<<rule>>))
    BY DEF ToSet
  <2> QED
    BY <1>3, <1>4, <2>1
<1>5. ASSUME NEW i \in DOMAIN profiles, AddProfileRules(profiles[i])
      PROVE  \E v : Become(v) /\ ViewOK(v) /\ Shifted(view, v)
  <2>1. profiles[i] \in AllProfiles
    BY LenProperties, ElementOfSeq DEF DataOK, ProfilesOK
  <2>2. profiles[i].hide_rules \in Seq(ToSet(profiles[i].hide_rules))
    BY <2>1, ProfilesAre
  <2> QED
    BY <1>3, <1>5, <2>2 DEF AddProfileRules
<1>6. ASSUME ClearRules
      PROVE  \E v : Become(v) /\ ViewOK(v) /\ Shifted(view, v)
  <2>1. PICK v : v = ClearHideRules(view)
    OBVIOUS
  <2>2. Become(v)
    BY <1>6, <2>1 DEF ClearRules
  <2>3. ViewOK(v) /\ Shifted(view, v)
    BY <2>1, RulesKept DEF DataOK
  <2> QED
    BY <2>2, <2>3
<1> QED
  BY <1>1, <1>2, <1>4, <1>5, <1>6 DEF Next

\* The view and the profiles are right from the start, ...
LEMMA DataInit == Init => DataOK
  BY NewViewOK, LoadOK DEF Init, DataOK

\* ... and stay so.
LEMMA DataNext == DataOK /\ [Next]_vars => DataOK'
<1> SUFFICES ASSUME DataOK, [Next]_vars
             PROVE  DataOK'
  OBVIOUS
<1>1. CASE UNCHANGED vars
  BY <1>1 DEF vars, DataOK, ViewOK, Shaped, Placed, Indexed, Counted, Lengths, MarksOK, Tracked, EntryOK
<1>2. CASE \E v : Become(v) /\ ViewOK(v) /\ Shifted(view, v)
  <2>1. PICK v : Become(v) /\ ViewOK(v)
    BY <1>2
  <2>2. view' = v /\ profiles' = profiles
    BY <2>1 DEF Become
  <2> QED
    BY <2>1, <2>2 DEF DataOK
<1>3. CASE (\E q \in Queries : StartWalk(q)) \/ TurnPage
  BY <1>3 DEF StartWalk, TurnPage, DataOK
<1> QED
  BY <1>1, <1>2, <1>3, StepsAre

\* Spec => []TypeOK: whatever a batch of events, an eviction, a user or a profile does to
\* it, what the view keeps about a stream in its rows, its order, its marks, its match list,
\* its pattern index and its counters agrees, within the limits, and no rule and no name of
\* a profile is there twice.
THEOREM ViewTypeOK == Spec => []TypeOK
<1>1. DataOK => TypeOK
  <2> SUFFICES ASSUME DataOK
               PROVE  TypeOK
    OBVIOUS
  <2>1. view.stats.stored = SumFunction([f \in Tracked(view) |-> Len(view.streams[f].matches)])
    <3>1. DOMAIN Lengths(view) = Tracked(view)
      BY DEF Lengths
    <3>2. SumFunction(Lengths(view)) = SumFunctionOnSet(Lengths(view), Tracked(view))
      BY <3>1 DEF SumFunction, SumFunctionOnSet, FoldFunction, FoldFunctionOnSet
    <3>3. view.stats.stored = SumFunction(Lengths(view))
      BY <3>2 DEF DataOK, ViewOK, Counted
    <3> QED
      BY <3>3 DEF Lengths
  <2>2. ASSUME NEW f \in Tracked(view)
        PROVE  Len(view.streams[f].matches) = Min({view.streams[f].match_count, MaxViewMatches})
    <3> DEFINE c == view.streams[f].match_count
    <3>1. /\ c \in Nat /\ MaxViewMatches \in Nat
          /\ Len(view.streams[f].matches) = Smaller(c, MaxViewMatches)
      BY ViewAssumption DEF DataOK, ViewOK, Counted, EntryOK
    <3> HIDE DEF c
    <3>2. Min({c, MaxViewMatches}) = Smaller(c, MaxViewMatches)
      BY <3>1 DEF Min, Smaller
    <3> QED
      BY <3>1, <3>2 DEF c
  <2>3. \A i, j \in DOMAIN profiles : profiles[i].id = profiles[j].id => i = j
    BY LenProperties DEF DataOK, ProfilesOK, Distinct
  <2> QED
    BY <2>1, <2>2, <2>3 DEF TypeOK, DataOK, ViewOK, Placed, Indexed, MarksOK
<1> QED
  BY <1>1, DataInit, DataNext, PTL DEF Spec

-----------------------------------------------------------------------------
(* Pages *)

\* The places of a query's rows up to place m, in their order.
HitsTo(v, q, hits, m) ==
    /\ hits \in Seq(Nat)
    /\ \A a, b \in 1 .. Len(hits) : a < b => hits[a] < hits[b]
    /\ \A a \in 1 .. Len(hits) : hits[a] \in 1 .. m
    /\ \A i \in 1 .. m : (\E a \in 1 .. Len(hits) : hits[a] = i) <=>
            i > q.cursor /\ v.order[i] \in Tracked(v) /\ InQuery(v, v.order[i], q)

\* One more place is looked at.
LEMMA HitsGrow ==
    ASSUME NEW v, NEW q, NEW m \in Nat, NEW hits, HitsTo(v, q, hits, m)
    PROVE  HitsTo(v, q, Scan(v, q, hits, m + 1), m + 1)
<1> DEFINE l == Len(hits)
           fits(i) == i > q.cursor /\ v.order[i] \in Tracked(v) /\ InQuery(v, v.order[i], q)
           t == Append(hits, m + 1)
<1>1. /\ hits \in Seq(Nat) /\ l \in Nat /\ m + 1 \in Nat
      /\ \A a \in 1 .. l : hits[a] \in 1 .. m
      /\ \A i \in 1 .. m : (\E a \in 1 .. l : hits[a] = i) <=> fits(i)
      /\ \A a, b \in 1 .. l : a < b => hits[a] < hits[b]
  BY LenProperties DEF HitsTo
<1>2. Scan(v, q, hits, m + 1) = IF fits(m + 1) THEN t ELSE hits
  BY DEF Scan
<1>3. \A i \in 1 .. m + 1 : i \in 1 .. m \/ i = m + 1
  OBVIOUS
<1>4. \A i \in 1 .. m : i \in 1 .. m + 1 /\ i < m + 1
  OBVIOUS
<1> HIDE DEF fits
<1>5. CASE ~ fits(m + 1)
  <2>1. \A i \in 1 .. m + 1 : (\E a \in 1 .. l : hits[a] = i) <=> fits(i)
    <3>1. ASSUME NEW a \in 1 .. l, hits[a] = m + 1
          PROVE  FALSE
      BY <1>1, <1>4, <3>1
    <3> QED
      BY <1>1, <1>3, <1>5, <3>1
  <2>2. \A a \in 1 .. l : hits[a] \in 1 .. m + 1
    BY <1>1, <1>4
  <2>3. HitsTo(v, q, hits, m + 1)
    BY <1>1, <2>1, <2>2 DEF HitsTo, fits
  <2> QED
    BY <1>2, <1>5, <2>3
<1>6. CASE fits(m + 1)
  <2>1. /\ t \in Seq(Nat) /\ Len(t) = l + 1 /\ t[l + 1] = m + 1
        /\ \A a \in 1 .. l : t[a] = hits[a]
    BY <1>1, AppendProperties
  <2> HIDE DEF t, l
  <2>2. \A a \in 1 .. l + 1 : a \in 1 .. l \/ a = l + 1
    BY <1>1
  <2>3. \A a \in 1 .. l : a \in 1 .. l + 1 /\ a < l + 1 /\ ~ (l + 1 < a)
    BY <1>1
  <2>4. l + 1 \in 1 .. l + 1 /\ ~ (l + 1 < l + 1)
    BY <1>1
  <2>5. \A a, b \in 1 .. l + 1 : a < b => t[a] < t[b]
    <3>1. ASSUME NEW a \in 1 .. l + 1, NEW b \in 1 .. l + 1, a < b
          PROVE  t[a] < t[b]
      <4>1. a \in 1 .. l
        BY <1>1, <3>1
      <4>2. CASE b \in 1 .. l
        BY <1>1, <2>1, <3>1, <4>1, <4>2
      <4>3. CASE b = l + 1
        <5>1. t[b] = m + 1 /\ t[a] \in 1 .. m
          BY <1>1, <2>1, <4>1, <4>3
        <5> QED
          BY <1>4, <5>1
      <4> QED
        BY <2>2, <4>2, <4>3
    <3> QED
      BY <3>1
  <2>6. \A a \in 1 .. l + 1 : t[a] \in 1 .. m + 1
    <3>1. m + 1 \in 1 .. m + 1
      OBVIOUS
    <3>2. \A a \in 1 .. l : t[a] \in 1 .. m + 1
      BY <1>1, <1>4, <2>1
    <3> QED
      BY <2>1, <2>2, <3>1, <3>2
  <2>7. ASSUME NEW i \in 1 .. m + 1
        PROVE  (\E a \in 1 .. l + 1 : t[a] = i) <=> fits(i)
    <3>1. CASE i = m + 1
      BY <1>6, <2>1, <2>4, <3>1
    <3>2. CASE i \in 1 .. m
      <4>1. i # m + 1
        BY <1>4, <3>2
      <4>2. (\E a \in 1 .. l + 1 : t[a] = i) <=> (\E a \in 1 .. l : hits[a] = i)
        BY <2>1, <2>2, <2>3, <4>1
      <4> QED
        BY <1>1, <3>2, <4>2
    <3> QED
      BY <1>3, <3>1, <3>2
  <2>8. HitsTo(v, q, t, m + 1)
    BY <2>1, <2>5, <2>6, <2>7 DEF HitsTo, fits
  <2> QED
    BY <1>2, <1>6, <2>8
<1> QED
  BY <1>5, <1>6

\* All places are looked at.
LEMMA HitsAre ==
    ASSUME NEW v, NEW q, NEW n \in Nat, DOMAIN v.order = 1 .. n
    PROVE  HitsTo(v, q, Hits(v, q), n)
<1>1. PICK h : /\ h[0] = <<>> /\ h[n] = Hits(v, q)
               /\ \A i \in 1 .. n : h[i] = Scan(v, q, h[i - 1], i)
  BY HitsInTurn
<1> DEFINE G == {m \in Nat : m <= n => HitsTo(v, q, h[m], m)}
<1>2. 0 \in G
  <2>1. <<>> \in Seq(Nat) /\ 1 .. Len(<<>>) = {} /\ 1 .. 0 = {}
    OBVIOUS
  <2> QED
    BY <1>1, <2>1 DEF HitsTo
<1>3. ASSUME NEW m \in Nat, m \in G
      PROVE  m + 1 \in G
  <2> SUFFICES ASSUME m + 1 <= n
               PROVE  HitsTo(v, q, h[m + 1], m + 1)
    OBVIOUS
  <2>1. m + 1 \in 1 .. n /\ (m + 1) - 1 = m /\ m <= n
    OBVIOUS
  <2>2. h[m + 1] = Scan(v, q, h[m], m + 1)
    BY <1>1, <2>1
  <2>3. HitsTo(v, q, h[m], m)
    BY <1>3, <2>1
  <2> QED
    BY <2>2, <2>3, HitsGrow
<1>4. n \in G
  <2> HIDE DEF G
  <2> QED
    BY <1>2, <1>3, NumberInduction
<1> QED
  BY <1>1, <1>4

\* The streams of a query that stand behind place c, up to place e.
Between(v, q, c, e) ==
    {f \in Tracked(v) : InQuery(v, f, q) /\ \E i \in 1 .. Len(v.order) : c < i /\ i <= e /\ v.order[i] = f}

\* A page has, once each, the streams of the query from its cursor to where the next one
\* starts, or to the end if there is no next one.
Page(v, q, page, e) ==
    /\ page.rows \in Seq(Tracked(v)) /\ IsInjective(page.rows)
    /\ ToSet(page.rows) = Between(v, q, q.cursor, e)
    /\ \/ page.next = -1 /\ e = Len(v.order)
       \/ page.next = e /\ q.cursor < e /\ e < Len(v.order)
LEMMA PageIs ==
    ASSUME NEW v, ViewOK(v), NEW q, q.cursor \in Nat, q.limit \in Nat
    PROVE  \E e \in Nat : Page(v, q, Query(v, q), e)
<1> DEFINE n == Len(v.order)
           limit == Smaller(IF q.limit = 0 THEN 1 ELSE q.limit, MaxQueryLimit)
           hits == Hits(v, q)
           l == Len(hits)
           m == Smaller(limit, l)
           page == Query(v, q)
           rows == [i \in 1 .. m |-> v.order[hits[i]]]
           e == IF page.next = -1 THEN n ELSE page.next
<1>1. /\ n \in Nat /\ DOMAIN v.order = 1 .. n /\ v.order \in Seq(Tracked(v))
      /\ \A i \in 1 .. n : v.order[i] \in Tracked(v)
      /\ \A i, j \in 1 .. n : v.order[i] = v.order[j] => i = j
  BY LenProperties, ElementOfSeq DEF ViewOK, Placed, IsInjective
<1>2. HitsTo(v, q, hits, n)
  BY <1>1, HitsAre
<1>3. limit \in Nat /\ limit >= 1
  BY ViewAssumption DEF Smaller
<1>4. page.rows = rows /\ page.next = NextCursor(hits, limit, v.order)
  BY DEF Query
<1> HIDE DEF limit, hits, n, page
<1>5. l \in Nat
  BY <1>2, LenProperties DEF HitsTo
<1>6. /\ \A a, b \in 1 .. l : a < b => hits[a] < hits[b]
      /\ \A a \in 1 .. l : hits[a] \in 1 .. n
      /\ \A i \in 1 .. n : (\E a \in 1 .. l : hits[a] = i) <=> i > q.cursor /\ InQuery(v, v.order[i], q)
  BY <1>1, <1>2 DEF HitsTo
<1> HIDE DEF l
<1>7. m \in Nat /\ m <= l /\ m <= limit /\ (m = l \/ m = limit)
  BY <1>3, <1>5 DEF Smaller
<1> HIDE DEF m
<1>8. page.next = IF l >= limit /\ hits[limit] < n THEN hits[limit] ELSE -1
  BY <1>4 DEF NextCursor, l, n
<1>9. \A a \in 1 .. m : a \in 1 .. l
  BY <1>5, <1>7
<1>10. /\ e \in Nat
       /\ \/ page.next = -1 /\ e = n
          \/ page.next = e /\ q.cursor < e /\ e < n /\ l >= limit /\ hits[limit] = e
  <2>1. CASE l >= limit /\ hits[limit] < n
    <3>1. limit \in 1 .. l
      BY <1>3, <1>5, <2>1
    <3>2. hits[limit] \in 1 .. n /\ hits[limit] > q.cursor
      BY <1>6, <3>1
    <3>3. hits[limit] \in Nat /\ hits[limit] # -1
      BY <1>1, <3>2
    <3> QED
      BY <1>8, <2>1, <3>2, <3>3
  <2>2. CASE ~ (l >= limit /\ hits[limit] < n)
    BY <1>1, <1>8, <2>2
  <2> QED
    BY <2>1, <2>2
<1> HIDE DEF e
<1>11. \A a \in 1 .. l : a <= m <=> hits[a] <= e
  <2> SUFFICES ASSUME NEW a \in 1 .. l
               PROVE  a <= m <=> hits[a] <= e
    OBVIOUS
  <2>0. a \in Nat /\ hits[a] \in Nat /\ hits[a] <= n
    BY <1>1, <1>5, <1>6
  <2>1. CASE page.next = -1 /\ e = n
    <3>1. ~ (l >= limit /\ hits[limit] < n)
      <4> SUFFICES ASSUME l >= limit, hits[limit] < n
                   PROVE  FALSE
        OBVIOUS
      <4>1. limit \in 1 .. l
        BY <1>3, <1>5
      <4>2. hits[limit] \in 1 .. n /\ page.next = hits[limit]
        BY <1>6, <1>8, <4>1
      <4> QED
        BY <1>1, <2>1, <4>2
    <3>2. CASE l < limit
      BY <1>3, <1>5, <1>7, <2>0, <2>1, <3>2
    <3>3. CASE l >= limit /\ ~ hits[limit] < n
      <4>1. limit \in 1 .. l
        BY <1>3, <1>5, <3>3
      <4>2. hits[limit] \in 1 .. n
        BY <1>6, <4>1
      <4>3. hits[limit] = n
        BY <1>1, <3>3, <4>2
      <4>4. ~ limit < a
        <5> SUFFICES ASSUME limit < a
                     PROVE  FALSE
          OBVIOUS
        <5>1. hits[limit] < hits[a]
          BY <1>6, <4>1
        <5> QED
          BY <1>1, <2>0, <4>3, <5>1
      <4>5. a <= m
        BY <1>3, <1>5, <1>7, <2>0, <3>3, <4>4
      <4> QED
        BY <2>0, <2>1, <4>5
    <3> QED
      BY <1>3, <1>5, <3>1, <3>2, <3>3
  <2>2. CASE l >= limit /\ hits[limit] = e
    <3>1. limit \in 1 .. l /\ m = limit
      BY <1>3, <1>5, <1>7, <2>2
    <3>2. a < limit => hits[a] < hits[limit]
      BY <1>6, <3>1
    <3>3. limit < a => hits[limit] < hits[a]
      BY <1>6, <3>1
    <3>4. hits[limit] \in 1 .. n
      BY <1>6, <3>1
    <3>5. a < limit \/ a = limit \/ limit < a
      BY <1>3, <2>0
    <3> QED
      BY <1>1, <1>3, <2>0, <2>2, <3>1, <3>2, <3>3, <3>4, <3>5
  <2> QED
    BY <1>10, <2>1, <2>2
<1>12. \A i \in 1 .. m : rows[i] = v.order[hits[i]] /\ rows[i] \in Tracked(v)
  BY <1>1, <1>6, <1>9
<1>13. rows \in Seq(Tracked(v)) /\ DOMAIN rows = 1 .. m
  <2>1. rows \in [1 .. m -> Tracked(v)]
    BY <1>12
  <2> HIDE DEF rows
  <2> QED
    BY <1>7, <2>1, SeqDef
<1>14. IsInjective(rows)
  <2>1. ASSUME NEW a \in 1 .. m, NEW b \in 1 .. m, rows[a] = rows[b]
        PROVE  a = b
    <3>1. a \in 1 .. l /\ b \in 1 .. l /\ v.order[hits[a]] = v.order[hits[b]]
      BY <1>9, <1>12, <2>1
    <3>2. hits[a] = hits[b] /\ hits[a] \in Nat
      BY <1>1, <1>6, <3>1
    <3>3. ~ (a < b) /\ ~ (b < a)
      BY <1>6, <3>1, <3>2
    <3> QED
      BY <1>7, <3>3
  <2> HIDE DEF rows
  <2> QED
    BY <1>13, <2>1 DEF IsInjective
<1> HIDE DEF rows
<1>15. ToSet(rows) = Between(v, q, q.cursor, e)
  <2>1. ASSUME NEW f \in ToSet(rows)
        PROVE  f \in Between(v, q, q.cursor, e)
    <3>1. PICK a \in 1 .. m : rows[a] = f
      BY <1>13 DEF ToSet
    <3>2. a \in 1 .. l /\ f = v.order[hits[a]] /\ f \in Tracked(v) /\ a <= m
      BY <1>7, <1>9, <1>12, <3>1
    <3>3. hits[a] \in 1 .. n /\ hits[a] > q.cursor /\ InQuery(v, f, q) /\ hits[a] <= e
      BY <1>6, <1>11, <3>2
    <3> QED
      BY <3>2, <3>3 DEF Between, n
  <2>2. ASSUME NEW f \in Between(v, q, q.cursor, e)
        PROVE  f \in ToSet(rows)
    <3>1. PICK i \in 1 .. n : q.cursor < i /\ i <= e /\ v.order[i] = f
      BY DEF Between, n
    <3>2. InQuery(v, f, q)
      BY DEF Between
    <3>3. PICK a \in 1 .. l : hits[a] = i
      BY <1>6, <3>1, <3>2
    <3>4. a <= m
      BY <1>11, <3>1, <3>3
    <3>5. a \in 1 .. m
      BY <1>5, <1>7, <3>4
    <3> QED
      BY <1>12, <1>13, <3>1, <3>3, <3>5 DEF ToSet
  <2> QED
    BY <2>1, <2>2
<1>16. page.rows = rows
  BY <1>4 DEF rows
<1>17. Page(v, q, page, e)
  BY <1>10, <1>13, <1>14, <1>15, <1>16 DEF Page, n
<1> QED
  BY <1>10, <1>17 DEF page

-----------------------------------------------------------------------------
(* A walk *)

\* The streams that stand at a place up to c.
Passed(v, c) == {f \in Tracked(v) : \E i \in 1 .. Len(v.order) : i <= c /\ v.order[i] = f}
Stayed(v, w) == {v.order[i] : i \in Gone(v, w) + 1 .. Len(v.order)}

\* As many streams come under a cursor as went.
LEMMA FewPass ==
    ASSUME NEW v, ViewOK(v), NEW c \in Nat, NEW g \in Nat
    PROVE  /\ IsFiniteSet(Passed(v, c + g) \ Passed(v, c))
           /\ Cardinality(Passed(v, c + g) \ Passed(v, c)) <= g
<1> DEFINE n == Len(v.order)
           F == Passed(v, c + g) \ Passed(v, c)
           P == {i \in c + 1 .. c + g : i <= n /\ v.order[i] \in F}
           r == [i \in P |-> v.order[i]]
<1>1. /\ n \in Nat /\ \A i \in 1 .. n : v.order[i] \in Tracked(v)
      /\ \A i, j \in 1 .. n : v.order[i] = v.order[j] => i = j
  BY LenProperties, ElementOfSeq DEF ViewOK, Placed, IsInjective
<1> HIDE DEF n
<1>2. IsFiniteSet(c + 1 .. c + g) /\ Cardinality(c + 1 .. c + g) = g
  <2>1. c + 1 \in Int /\ c + g \in Int
    OBVIOUS
  <2>2. Cardinality(c + 1 .. c + g) = IF c + 1 > c + g THEN 0 ELSE (c + g) - (c + 1) + 1
    BY <2>1, FS_Interval
  <2> QED
    BY <2>1, <2>2, FS_Interval
<1>3. IsFiniteSet(P) /\ Cardinality(P) <= g
  <2>1. P \in SUBSET (c + 1 .. c + g)
    OBVIOUS
  <2> HIDE DEF P
  <2> QED
    BY <1>2, <2>1, FS_Subset
<1>4. r \in Surjection(P, F)
  <2>1. r \in [P -> F]
    OBVIOUS
  <2>2. ASSUME NEW f \in F
        PROVE  \E i \in P : r[i] = f
    <3>1. PICK i \in 1 .. n : i <= c + g /\ v.order[i] = f
      BY DEF Passed, n
    <3>2. ~ i <= c
      BY <3>1, <1>1 DEF Passed, n
    <3>3. i \in c + 1 .. c + g /\ i <= n
      BY <1>1, <3>1, <3>2
    <3>4. i \in P
      BY <3>1, <3>3
    <3> QED
      BY <3>1, <3>4
  <2> HIDE DEF r, P, F
  <2> QED
    BY <2>1, <2>2 DEF Surjection
<1> HIDE DEF r, P, F
<1>5. IsFiniteSet(F) /\ Cardinality(F) <= Cardinality(P)
  BY <1>3, <1>4, FS_Surjection
<1>6. Cardinality(F) \in Nat /\ Cardinality(P) \in Nat
  BY <1>3, <1>5, FS_CardinalityType
<1> QED
  BY <1>3, <1>5, <1>6 DEF F

\* What stays moves towards the front by as many places as streams went.
LEMMA StayedMoves ==
    ASSUME NEW v, ViewOK(v), NEW w, ViewOK(w), Shifted(v, w), NEW c \in Nat
    PROVE  /\ Stayed(v, w) \subseteq Tracked(v) \cap Tracked(w)
           /\ Passed(v, c) \cap Stayed(v, w) \subseteq Passed(w, c)
           /\ Passed(w, c) \cap Stayed(v, w) \subseteq Passed(v, c + Gone(v, w))
<1> DEFINE n == Len(v.order)
           k == Len(w.order)
           g == Gone(v, w)
<1>1. /\ n \in Nat /\ \A i \in 1 .. n : v.order[i] \in Tracked(v)
      /\ \A i, j \in 1 .. n : v.order[i] = v.order[j] => i = j
  BY LenProperties, ElementOfSeq DEF ViewOK, Placed, IsInjective
<1>2. /\ k \in Nat /\ \A i \in 1 .. k : w.order[i] \in Tracked(w)
      /\ \A i, j \in 1 .. k : w.order[i] = w.order[j] => i = j
  BY LenProperties, ElementOfSeq DEF ViewOK, Placed, IsInjective
<1>3. /\ g \in Nat
      /\ \A i \in 1 .. n : i > g => i - g \in 1 .. k /\ w.order[i - g] = v.order[i]
  BY DEF Shifted
<1>4. \A f : f \in Stayed(v, w) <=> \E i \in g + 1 .. n : v.order[i] = f
  BY DEF Stayed
<1>5. \A f, d : f \in Passed(v, d) <=> f \in Tracked(v) /\ \E i \in 1 .. n : i <= d /\ v.order[i] = f
  BY DEF Passed
<1>6. \A f, d : f \in Passed(w, d) <=> f \in Tracked(w) /\ \E i \in 1 .. k : i <= d /\ w.order[i] = f
  BY DEF Passed
<1> HIDE DEF n, k, g
<1>7. \A i \in g + 1 .. n : i \in 1 .. n /\ i > g
  BY <1>1, <1>3
<1>8. ASSUME NEW f \in Stayed(v, w)
      PROVE  /\ f \in Tracked(v) /\ f \in Tracked(w)
             /\ f \in Passed(v, c) => f \in Passed(w, c)
             /\ f \in Passed(w, c) => f \in Passed(v, c + g)
  <2>1. PICK i \in g + 1 .. n : v.order[i] = f
    BY <1>4
  <2>2. i \in 1 .. n /\ i > g /\ i - g \in 1 .. k /\ w.order[i - g] = f
    BY <1>3, <1>7, <2>1
  <2>3. f \in Tracked(v) /\ f \in Tracked(w)
    BY <1>1, <1>2, <2>1, <2>2
  <2>4. ASSUME f \in Passed(v, c)
        PROVE  f \in Passed(w, c)
    <3>1. PICK j \in 1 .. n : j <= c /\ v.order[j] = f
      BY <1>5, <2>4
    <3>2. j = i
      BY <1>1, <2>1, <2>2, <3>1
    <3>3. i - g <= c
      BY <1>3, <2>2, <3>1, <3>2
    <3> QED
      BY <1>6, <2>2, <2>3, <3>3
  <2>5. ASSUME f \in Passed(w, c)
        PROVE  f \in Passed(v, c + g)
    <3>1. PICK j \in 1 .. k : j <= c /\ w.order[j] = f
      BY <1>6, <2>5
    <3>2. j = i - g
      BY <1>2, <2>2, <3>1
    <3>3. i <= c + g
      BY <1>3, <2>2, <3>1, <3>2
    <3> QED
      BY <1>5, <2>1, <2>2, <2>3, <3>3
  <2> QED
    BY <2>3, <2>4, <2>5
<1> QED
  BY <1>8 DEF g

\* A stream that is listed twice came anew in between.
Once(listed, anew) ==
    \A i, j \in DOMAIN listed : listed[i] = listed[j] => i = j \/ listed[i] \in anew
\* The streams in the query throughout that the cursor passed without listing them.
Missed(v, w) == (w.throughout \ ToSet(w.listed)) \cap Passed(v, w.cursor)

\* While a client reads, a stream it listed is behind the cursor, or gone, or came anew.
Reading(v, w) ==
    /\ w.reading = TRUE /\ w.finished = FALSE
    /\ DOMAIN w = {"reading", "finished", "query", "cursor", "listed", "throughout", "anew", "gone"}
    /\ w.query \in Queries /\ w.cursor \in Nat /\ w.gone \in Nat /\ w.listed \in Seq(ToSet(w.listed))
    /\ w.throughout \subseteq InWalk(v, w.query)
    /\ Once(w.listed, w.anew)
    /\ \A f \in ToSet(w.listed) : f \in w.anew \/ f \notin Tracked(v) \/ f \in Passed(v, w.cursor)
    /\ Cardinality(Missed(v, w)) <= w.gone
Finished(w) ==
    /\ w.reading = FALSE /\ w.finished = TRUE
    /\ Once(w.listed, w.anew) /\ Cardinality(w.throughout \ ToSet(w.listed)) <= w.gone
WalkOK == walk = NoWalk \/ Finished(walk) \/ Reading(view, walk)

\* The streams missed are finitely many.
LEMMA MissedFinite ==
    ASSUME NEW v, ViewOK(v), NEW w, w.throughout \subseteq Tracked(v)
    PROVE  /\ IsFiniteSet(Missed(v, w)) /\ Cardinality(Missed(v, w)) \in Nat
           /\ \A S \in SUBSET Missed(v, w) : Cardinality(S) <= Cardinality(Missed(v, w))
<1>1. Missed(v, w) \in SUBSET Tracked(v)
  BY DEF Missed
<1> QED
  BY <1>1, FS_Subset, FS_CardinalityType DEF ViewOK, Placed

\* A change of the view keeps the walk fair.
LEMMA WalkWatches ==
    ASSUME NEW v, NEW w, ViewOK(v), ViewOK(w), Shifted(v, w), Reading(v, walk)
    PROVE  Reading(w, Watched(v, w))
<1> DEFINE g == Gone(v, w)
           stayed == Stayed(v, w)
           q == walk.query
           c == walk.cursor
           new == Watched(v, w)
<1>1. /\ DOMAIN new = DOMAIN walk /\ new.reading = walk.reading /\ new.finished = walk.finished
      /\ new.query = q /\ new.cursor = c /\ new.listed = walk.listed
      /\ new.throughout = (walk.throughout \cap stayed) \cap InWalk(w, q)
      /\ new.anew = walk.anew \cup (Tracked(w) \ stayed)
      /\ new.gone = walk.gone + g
  BY DEF Watched, Reading, Gone, Stayed
<1> HIDE DEF new, stayed, g
<1>2. g \in Nat /\ c \in Nat /\ walk.gone \in Nat
  BY DEF Reading, Shifted, g
<1>3. /\ stayed \subseteq Tracked(v) \cap Tracked(w)
      /\ Passed(v, c) \cap stayed \subseteq Passed(w, c)
      /\ Passed(w, c) \cap stayed \subseteq Passed(v, c + g)
  BY <1>2, StayedMoves DEF stayed, g
<1>4. Once(new.listed, new.anew)
  BY <1>1 DEF Reading, Once
<1>5. \A f \in ToSet(new.listed) : f \in new.anew \/ f \notin Tracked(w) \/ f \in Passed(w, c)
  BY <1>1, <1>3 DEF Reading
<1>6. Cardinality(Missed(w, new)) <= new.gone
  <2> DEFINE M == Missed(v, walk)
             N == Missed(w, new)
             F == Passed(v, c + g) \ Passed(v, c)
  <2>1. N \subseteq M \cup F
    BY <1>1, <1>3 DEF Missed
  <2>2. walk.throughout \subseteq Tracked(v)
    BY DEF Reading, InWalk
  <2>3. IsFiniteSet(M) /\ Cardinality(M) \in Nat /\ Cardinality(M) <= walk.gone
    BY <2>2, MissedFinite DEF Reading
  <2>4. IsFiniteSet(F) /\ Cardinality(F) <= g
    BY <1>2, FewPass
  <2> HIDE DEF M, N, F
  <2>5. /\ IsFiniteSet(M \cup F) /\ IsFiniteSet(M \cap F)
        /\ Cardinality(M \cup F) = Cardinality(M) + Cardinality(F) - Cardinality(M \cap F)
    <3>1. M \cap F \in SUBSET M
      OBVIOUS
    <3> QED
      BY <2>3, <2>4, <3>1, FS_Union, FS_Subset
  <2>6. Cardinality(F) \in Nat /\ Cardinality(M \cap F) \in Nat /\ Cardinality(M \cup F) \in Nat
    BY <2>4, <2>5, FS_CardinalityType
  <2>7. Cardinality(N) <= Cardinality(M \cup F) /\ Cardinality(N) \in Nat
    <3>1. N \in SUBSET (M \cup F)
      BY <2>1
    <3> QED
      BY <2>5, <3>1, FS_Subset, FS_CardinalityType
  <2>8. Cardinality(N) <= walk.gone + g
    BY <1>2, <2>3, <2>4, <2>5, <2>6, <2>7
  <2> QED
    BY <1>1, <2>8 DEF N
<1> QED
  BY <1>1, <1>2, <1>4, <1>5, <1>6 DEF Reading, new

\* The cursor does not matter to what is in a query.
LEMMA QueryWithoutCursor ==
    ASSUME NEW v, NEW f, NEW q, NEW c
    PROVE  /\ InQuery(v, f, ViewQuery(q, c)) <=> InQuery(v, f, ViewQuery(q, 0))
           /\ ViewQuery(q, c).cursor = c /\ ViewQuery(q, c).limit = q.limit
  BY DEF InQuery, ViewQuery

\* The rows of a page come behind those listed before.
LEMMA ListsMore ==
    ASSUME NEW s, s \in Seq(ToSet(s)), NEW t, t \in Seq(ToSet(t)), NEW anew,
           Once(s, anew), IsInjective(t), \A f \in ToSet(s) \cap ToSet(t) : f \in anew
    PROVE  /\ ToSet(s \o t) = ToSet(s) \cup ToSet(t) /\ s \o t \in Seq(ToSet(s \o t))
           /\ Once(s \o t, anew)
<1> DEFINE m == Len(s)
           n == Len(t)
           u == s \o t
           T == ToSet(s) \cup ToSet(t)
<1>1. m \in Nat /\ DOMAIN s = 1 .. m /\ n \in Nat /\ DOMAIN t = 1 .. n
  BY LenProperties
<1>2. s \in Seq(T) /\ t \in Seq(T)
  BY SeqMonotonic
<1>3. /\ u \in Seq(T) /\ Len(u) = m + n
      /\ \A i \in 1 .. m + n : u[i] = IF i <= m THEN s[i] ELSE t[i - m]
  BY <1>2, ConcatProperties
<1>4. DOMAIN u = 1 .. m + n
  BY <1>3, LenProperties
<1> HIDE DEF u, m, n
<1>5. \A i \in 1 .. m : i \in 1 .. m + n /\ i <= m
  BY <1>1
<1>6. \A i \in 1 .. n : i + m \in 1 .. m + n /\ ~ i + m <= m /\ (i + m) - m = i
  BY <1>1
<1>7. \A i \in 1 .. m + n : (i <= m /\ i \in 1 .. m) \/ (~ i <= m /\ i - m \in 1 .. n)
  BY <1>1
<1>8. ToSet(u) = T
  <2>1. \A i \in 1 .. m + n : u[i] \in T
    BY <1>1, <1>3, <1>7 DEF ToSet
  <2>2. \A f \in ToSet(s) : f \in ToSet(u)
    BY <1>1, <1>3, <1>4, <1>5 DEF ToSet
  <2>3. \A f \in ToSet(t) : f \in ToSet(u)
    <3>1. ASSUME NEW i \in 1 .. n
          PROVE  t[i] \in ToSet(u)
      <4>1. u[i + m] = t[i]
        BY <1>3, <1>6
      <4> QED
        BY <1>4, <1>6, <4>1 DEF ToSet
    <3> QED
      BY <1>1, <3>1 DEF ToSet
  <2>4. \A f \in ToSet(u) : f \in T
    BY <1>4, <2>1 DEF ToSet
  <2> QED
    BY <2>2, <2>3, <2>4
<1>9. Once(u, anew)
  <2>1. ASSUME NEW i \in 1 .. m + n, NEW j \in 1 .. m + n, u[i] = u[j]
        PROVE  i = j \/ u[i] \in anew
    <3>1. CASE i <= m /\ j <= m
      BY <1>1, <1>3, <1>7, <2>1, <3>1 DEF Once
    <3>2. CASE i <= m /\ ~ j <= m
      <4>1. u[i] = s[i] /\ i \in 1 .. m /\ u[j] = t[j - m] /\ j - m \in 1 .. n
        BY <1>3, <1>7, <3>2
      <4>2. u[i] \in ToSet(s) /\ u[j] \in ToSet(t)
        BY <1>1, <4>1 DEF ToSet
      <4> QED
        BY <2>1, <4>2
    <3>3. CASE ~ i <= m /\ j <= m
      <4>1. u[j] = s[j] /\ j \in 1 .. m /\ u[i] = t[i - m] /\ i - m \in 1 .. n
        BY <1>3, <1>7, <3>3
      <4>2. u[j] \in ToSet(s) /\ u[i] \in ToSet(t)
        BY <1>1, <4>1 DEF ToSet
      <4> QED
        BY <2>1, <4>2
    <3>4. CASE ~ i <= m /\ ~ j <= m
      <4>1. t[i - m] = t[j - m] /\ i - m \in 1 .. n /\ j - m \in 1 .. n
        BY <1>3, <1>7, <2>1, <3>4
      <4>2. i - m = j - m
        BY <1>1, <4>1 DEF IsInjective
      <4> QED
        BY <1>1, <4>2
    <3> QED
      BY <3>1, <3>2, <3>3, <3>4
  <2> QED
    BY <1>4, <2>1 DEF Once
<1> QED
  BY <1>3, <1>8, <1>9 DEF u

\* A page that is turned keeps the walk fair, and so does the last one.
LEMMA WalkTurns ==
    ASSUME DataOK, Reading(view, walk), TurnPage
    PROVE  Reading(view, walk') \/ Finished(walk')
<1> DEFINE q == ViewQuery(walk.query, walk.cursor)
           page == Query(view, q)
           c == walk.cursor
           rows == page.rows
           listed == walk.listed
           anew == walk.anew
           through == walk.throughout
           n == Len(view.order)
<1>1. /\ ViewOK(view) /\ c \in Nat /\ walk.gone \in Nat /\ walk.query \in Queries
      /\ n \in Nat
  BY LenProperties DEF DataOK, Reading, ViewOK, Placed
<1>2. q.cursor = c /\ q.limit \in Nat
  BY <1>1, QueryWithoutCursor, StreamViewsAssumption
<1>3. walk' = [walk EXCEPT !.listed = @ \o page.rows, !.cursor = page.next,
                           !.reading = page.next # -1, !.finished = page.next = -1]
  BY DEF TurnPage
<1>4. /\ DOMAIN walk' = DOMAIN walk /\ walk'.listed = listed \o rows /\ walk'.cursor = page.next
      /\ walk'.reading = (page.next # -1) /\ walk'.finished = (page.next = -1)
      /\ walk'.query = walk.query /\ walk'.throughout = through /\ walk'.anew = anew
      /\ walk'.gone = walk.gone
  <2> HIDE DEF page
  <2> QED
    BY <1>3 DEF Reading
<1> HIDE DEF q, page, c
<1>5. PICK e \in Nat : Page(view, q, page, e)
  <2>1. q.cursor \in Nat
    BY <1>1, <1>2
  <2> QED
    BY <1>1, <1>2, <2>1, PageIs DEF page
<1> HIDE DEF rows, listed, anew, through, n
<1>6. /\ rows \in Seq(Tracked(view)) /\ IsInjective(rows) /\ ToSet(rows) = Between(view, q, c, e)
      /\ \/ page.next = -1 /\ e = n
         \/ page.next = e /\ c < e /\ e < n
  BY <1>2, <1>5 DEF Page, rows, n
<1>7. \A f : InQuery(view, f, q) <=> InQuery(view, f, ViewQuery(walk.query, 0))
  BY QueryWithoutCursor DEF q
<1>8. through \subseteq Tracked(view) /\ \A f \in through : InQuery(view, f, q)
  BY <1>7 DEF Reading, InWalk, through
<1>9. \A f \in Tracked(view) : \E i \in 1 .. n : view.order[i] = f
  BY <1>1, LenProperties DEF ViewOK, Placed, ToSet, n
<1>10. \A i, j \in 1 .. n : view.order[i] = view.order[j] => i = j
  BY <1>1, LenProperties DEF ViewOK, Placed, IsInjective, n
<1>11. \A d, f : f \in Passed(view, d) <=> f \in Tracked(view) /\ \E i \in 1 .. n : i <= d /\ view.order[i] = f
  BY DEF Passed, n
<1>12. \A f : f \in ToSet(rows) <=> /\ f \in Tracked(view) /\ InQuery(view, f, q)
                                    /\ \E i \in 1 .. n : c < i /\ i <= e /\ view.order[i] = f
  BY <1>6 DEF Between, n
<1>13. /\ listed \in Seq(ToSet(listed)) /\ Once(listed, anew)
       /\ \A f \in ToSet(listed) : f \in anew \/ f \notin Tracked(view) \/ f \in Passed(view, c)
  BY DEF Reading, listed, anew, c
<1>14. \A f \in ToSet(rows) : f \notin Passed(view, c)
  <2> SUFFICES ASSUME NEW f \in ToSet(rows), f \in Passed(view, c)
               PROVE  FALSE
    OBVIOUS
  <2>1. PICK i \in 1 .. n : c < i /\ view.order[i] = f
    BY <1>12
  <2>2. PICK j \in 1 .. n : j <= c /\ view.order[j] = f
    BY <1>11
  <2> QED
    BY <1>1, <1>10, <2>1, <2>2
<1>15. /\ ToSet(listed \o rows) = ToSet(listed) \cup ToSet(rows)
       /\ listed \o rows \in Seq(ToSet(listed \o rows)) /\ Once(listed \o rows, anew)
  <2>1. \A f \in ToSet(listed) \cap ToSet(rows) : f \in anew
    BY <1>12, <1>13, <1>14
  <2>2. rows \in Seq(ToSet(rows))
    <3>1. rows \in [1 .. Len(rows) -> Tracked(view)] /\ Len(rows) \in Nat
      BY <1>6, LenProperties
    <3>2. rows \in [1 .. Len(rows) -> ToSet(rows)]
      BY <3>1 DEF ToSet
    <3> QED
      BY <3>1, <3>2, SeqDef
  <2> QED
    BY <1>6, <1>13, <2>1, <2>2, ListsMore
<1>16. \A f \in through : f \in Passed(view, e) => f \in Passed(view, c) \/ f \in ToSet(rows)
  <2> SUFFICES ASSUME NEW f \in through, f \in Passed(view, e), f \notin Passed(view, c)
               PROVE  f \in ToSet(rows)
    OBVIOUS
  <2>1. f \in Tracked(view) /\ InQuery(view, f, q)
    BY <1>8
  <2>2. PICK i \in 1 .. n : i <= e /\ view.order[i] = f
    BY <1>11
  <2>3. ~ i <= c
    BY <1>11, <2>1, <2>2
  <2>4. c < i
    BY <1>1, <2>3
  <2> QED
    BY <1>12, <2>1, <2>2, <2>4
<1>17. /\ \A S \in SUBSET Missed(view, walk) : Cardinality(S) <= Cardinality(Missed(view, walk))
       /\ Cardinality(Missed(view, walk)) \in Nat /\ Cardinality(Missed(view, walk)) <= walk.gone
       /\ Missed(view, walk) = (through \ ToSet(listed)) \cap Passed(view, c)
  <2>1. walk.throughout \subseteq Tracked(view)
    BY <1>8 DEF through
  <2> QED
    BY <1>1, <2>1, MissedFinite DEF Reading, Missed, through, listed, c
<1>18. \A S : S \subseteq Missed(view, walk) => Cardinality(S) <= walk.gone
  <2> SUFFICES ASSUME NEW S, S \subseteq Missed(view, walk)
               PROVE  Cardinality(S) <= walk.gone
    OBVIOUS
  <2>1. Missed(view, walk) \in SUBSET Tracked(view)
    BY <1>8, <1>17
  <2>2. Cardinality(S) \in Nat
    BY <1>1, <2>1, FS_Subset, FS_CardinalityType DEF ViewOK, Placed
  <2> QED
    BY <1>1, <1>17, <2>2
<1>19. CASE page.next = -1 /\ e = n
  <2>1. \A f \in through : f \in Passed(view, e)
    BY <1>8, <1>9, <1>11, <1>19
  <2>2. through \ ToSet(listed \o rows) \subseteq Missed(view, walk)
    BY <1>15, <1>16, <1>17, <2>1
  <2>3. Cardinality(through \ ToSet(listed \o rows)) <= walk.gone
    BY <1>18, <2>2
  <2>4. Finished(walk')
    BY <1>4, <1>15, <1>19, <2>3 DEF Finished
  <2> QED
    BY <2>4
<1>20. CASE page.next = e /\ c < e /\ e < n
  <2>1. page.next # -1 /\ walk'.cursor = e
    BY <1>4, <1>20
  <2>2. \A f : f \in Passed(view, c) => f \in Passed(view, e)
    <3>1. \A i \in 1 .. n : i <= c => i <= e
      BY <1>1, <1>20
    <3> QED
      BY <1>11, <3>1
  <2>3. \A f \in ToSet(rows) : f \in Passed(view, e)
    BY <1>11, <1>12
  <2>4. \A f \in ToSet(listed \o rows) : f \in anew \/ f \notin Tracked(view) \/ f \in Passed(view, e)
    BY <1>13, <1>15, <2>2, <2>3
  <2>5. Missed(view, walk') \subseteq Missed(view, walk)
    BY <1>4, <1>15, <1>16, <1>17, <2>1 DEF Missed
  <2>6. Cardinality(Missed(view, walk')) <= walk.gone
    BY <1>18, <2>5
  <2>7. through \subseteq InWalk(view, walk.query)
    BY DEF Reading, through
  <2>8. DOMAIN walk = {"reading", "finished", "query", "cursor", "listed", "throughout", "anew", "gone"}
    BY DEF Reading
  <2>9. Reading(view, walk')
    BY <1>1, <1>4, <1>15, <2>1, <2>4, <2>6, <2>7, <2>8 DEF Reading
  <2> QED
    BY <2>9
<1> QED
  BY <1>6, <1>19, <1>20

\* A walk begins with nothing listed and nothing missed.
LEMMA WalkStarts ==
    ASSUME DataOK, NEW q \in Queries, StartWalk(q)
    PROVE  Reading(view, walk')
<1>1. walk' = [reading |-> TRUE, finished |-> FALSE, query |-> q, cursor |-> 0, listed |-> <<>>,
               throughout |-> InWalk(view, q), anew |-> {}, gone |-> 0]
  BY DEF StartWalk
<1> DEFINE w == walk'
<1>2. /\ DOMAIN w = {"reading", "finished", "query", "cursor", "listed", "throughout", "anew", "gone"}
      /\ w.reading = TRUE /\ w.finished = FALSE /\ w.query = q /\ w.cursor = 0 /\ w.listed = <<>>
      /\ w.throughout = InWalk(view, q) /\ w.anew = {} /\ w.gone = 0
  BY <1>1
<1> HIDE DEF w
<1>3. <<>> \in Seq(ToSet(<<>>)) /\ ToSet(<<>>) = {} /\ DOMAIN <<>> = {}
  BY DEF ToSet
<1>4. Once(w.listed, w.anew)
  BY <1>2, <1>3 DEF Once
<1>5. Passed(view, 0) = {}
  <2>1. \A i \in 1 .. Len(view.order) : ~ i <= 0
    OBVIOUS
  <2> QED
    BY <2>1 DEF Passed
<1>6. Missed(view, w) = {} /\ Cardinality({}) = 0
  BY <1>2, <1>5, FS_EmptySet DEF Missed
<1>7. Reading(view, w)
  BY <1>2, <1>3, <1>4, <1>6 DEF Reading
<1> QED
  BY <1>7 DEF w

\* The profiles stay, so what is in a query depends on the view alone.
LEMMA ReadingOn ==
    ASSUME NEW v, NEW w, Reading(v, w), view' = v, walk' = w, profiles' = profiles
    PROVE  WalkOK'
<1>1. InWalk(v, w.query) = InWalk(view, walk.query)'
  BY DEF InWalk, ViewQuery, ProfileOf
<1> QED
  BY <1>1 DEF WalkOK, Reading

\* Spec => []PagingIsFair: a client that walks through the pages of a query while streams
\* come and go under its cursor lists none twice unless it came anew, and misses at most as
\* many of those that were in the query all the time as were evicted meanwhile.
THEOREM PagesAreFair == Spec => []PagingIsFair
<1>1. Init => WalkOK
  BY DEF Init, WalkOK
<1>2. DataOK /\ DataOK' /\ WalkOK /\ [Next]_vars => WalkOK'
  <2> SUFFICES ASSUME DataOK, DataOK', WalkOK, [Next]_vars
               PROVE  WalkOK'
    OBVIOUS
  <2>1. CASE UNCHANGED vars
    <3>1. view' = view /\ walk' = walk /\ profiles' = profiles
      BY <2>1 DEF vars
    <3> QED
      BY <3>1 DEF WalkOK, Reading, Missed, Passed, Tracked, InWalk, ViewQuery, ProfileOf
  <2>2. CASE \E v : Become(v) /\ ViewOK(v) /\ Shifted(view, v)
    <3>1. PICK v : Become(v) /\ ViewOK(v) /\ Shifted(view, v)
      BY <2>2
    <3>2. view' = v /\ walk' = Watched(view, v) /\ profiles' = profiles
      BY <3>1 DEF Become
    <3>3. CASE walk.reading = TRUE
      <4>1. Reading(view, walk)
        BY <3>3 DEF WalkOK, Finished, NoWalk
      <4>2. Reading(v, Watched(view, v))
        BY <3>1, <4>1, WalkWatches DEF DataOK
      <4>3. PICK w : w = Watched(view, v)
        OBVIOUS
      <4>4. Reading(v, w)
        BY <4>2, <4>3
      <4>5. walk' = w
        BY <3>2, <4>3
      <4> QED
        BY <3>2, <4>4, <4>5, ReadingOn
    <3>4. CASE walk.reading # TRUE
      <4>1. ~ Reading(view, walk)
        BY <3>4 DEF Reading
      <4>2. walk = NoWalk \/ Finished(walk)
        BY <4>1 DEF WalkOK
      <4>3. walk.reading = FALSE
        BY <4>2 DEF Finished, NoWalk
      <4>4. walk' = walk
        BY <3>2, <4>3 DEF Watched
      <4> QED
        BY <4>2, <4>4 DEF WalkOK
    <3> QED
      BY <3>3, <3>4
  <2>3. ASSUME NEW q \in Queries, StartWalk(q)
        PROVE  WalkOK'
    <3>1. Reading(view, walk') /\ view' = view /\ profiles' = profiles
      BY <2>3, WalkStarts DEF StartWalk
    <3> QED
      BY <3>1, ReadingOn
  <2>4. CASE TurnPage
    <3>1. Reading(view, walk)
      BY <2>4 DEF TurnPage, WalkOK, Finished, NoWalk
    <3>2. view' = view /\ profiles' = profiles
      BY <2>4 DEF TurnPage
    <3>3. Reading(view, walk') \/ Finished(walk')
      BY <2>4, <3>1, WalkTurns
    <3>4. CASE Reading(view, walk')
      BY <3>2, <3>4, ReadingOn
    <3>5. CASE Finished(walk')
      BY <3>5 DEF WalkOK, Finished
    <3> QED
      BY <3>3, <3>4, <3>5
  <2> QED
    BY <2>1, <2>2, <2>3, <2>4, StepsAre
<1>3. WalkOK => PagingIsFair
  BY DEF WalkOK, PagingIsFair, Reading, Finished, NoWalk, Once
<1> QED
  BY <1>1, <1>2, <1>3, DataInit, DataNext, PTL DEF Spec

-----------------------------------------------------------------------------
(* All the pages at once *)

\* A sequence without repetitions is as long as it has elements.
LEMMA LengthIsCount ==
    ASSUME NEW s, s \in Seq(ToSet(s)), IsInjective(s)
    PROVE  Cardinality(ToSet(s)) = Len(s)
<1> DEFINE n == Len(s)
           T == ToSet(s)
<1>1. n \in Nat /\ DOMAIN s = 1 .. n /\ s \in [1 .. n -> T]
  BY LenProperties
<1>2. IsFiniteSet(1 .. n) /\ Cardinality(1 .. n) = n
  BY <1>1, FS_Interval
<1>3. s \in Bijection(1 .. n, T)
  <2>1. \A f \in T : \E i \in 1 .. n : s[i] = f
    BY <1>1 DEF ToSet
  <2> HIDE DEF n, T
  <2> QED
    BY <1>1, <2>1 DEF Bijection, Injection, Surjection
<1>4. ExistsBijection(1 .. n, T)
  BY <1>3 DEF ExistsBijection
<1> HIDE DEF n, T
<1>5. Cardinality(T) = n
  BY <1>2, <1>4, FS_Bijection
<1> QED
  BY <1>5 DEF n, T

\* The pages so far have the streams of the query up to the next one's cursor, each once.
PagesTo(v, q, read, k) ==
    /\ read.rows \in Seq(ToSet(read.rows)) /\ IsInjective(read.rows)
    /\ \/ read.next = -1 /\ ToSet(read.rows) = InWalk(v, q)
       \/ /\ read.next \in k .. Len(v.order)
          /\ ToSet(read.rows) = Between(v, ViewQuery(q, 0), 0, read.next)

\* One more page.
LEMMA PagesGrow ==
    ASSUME DataOK, NEW q, q.limit \in Nat, NEW k \in Nat, NEW read, PagesTo(view, q, read, k)
    PROVE  PagesTo(view, q, Turned(q, read), k + 1)
<1> DEFINE c == read.next
           vq == ViewQuery(q, c)
           page == Query(view, vq)
           rows == page.rows
           s == read.rows
           new == Turned(q, read)
           n == Len(view.order)
<1>1. /\ ViewOK(view) /\ n \in Nat /\ s \in Seq(ToSet(s)) /\ IsInjective(s)
      /\ \A i, j \in 1 .. n : view.order[i] = view.order[j] => i = j
      /\ \A f \in Tracked(view) : \E i \in 1 .. n : view.order[i] = f
  BY LenProperties DEF DataOK, ViewOK, Placed, PagesTo, IsInjective, ToSet
<1>2. CASE c = -1
  <2>1. new = read
    BY <1>2 DEF Turned
  <2>2. ~ (read.next \in k .. n)
    BY <1>1, <1>2
  <2> QED
    BY <1>2, <2>1, <2>2 DEF PagesTo
<1>3. CASE c # -1
  <2>1. c \in Nat /\ k <= c /\ c <= n /\ ToSet(s) = Between(view, ViewQuery(q, 0), 0, c)
    BY <1>1, <1>3 DEF PagesTo
  <2>2. new = [rows |-> s \o rows, next |-> page.next]
    BY <1>3 DEF Turned
  <2>3. vq.cursor = c /\ vq.limit \in Nat
    BY QueryWithoutCursor
  <2> HIDE DEF page, vq
  <2>4. PICK e \in Nat : Page(view, vq, page, e)
    <3>1. vq.cursor \in Nat
      BY <2>1, <2>3
    <3> QED
      BY <1>1, <2>3, <3>1, PageIs DEF page
  <2>5. /\ rows \in Seq(Tracked(view)) /\ IsInjective(rows) /\ ToSet(rows) = Between(view, vq, c, e)
        /\ \/ page.next = -1 /\ e = n
           \/ page.next = e /\ c < e /\ e < n
    BY <2>3, <2>4 DEF Page
  <2>6. \A f : InQuery(view, f, vq) <=> InQuery(view, f, ViewQuery(q, 0))
    BY QueryWithoutCursor DEF vq
  <2>7. \A f, a, b : f \in Between(view, ViewQuery(q, 0), a, b) <=>
            /\ f \in Tracked(view) /\ InQuery(view, f, vq)
            /\ \E i \in 1 .. n : a < i /\ i <= b /\ view.order[i] = f
    BY <2>6 DEF Between
  <2>8. ToSet(rows) = Between(view, ViewQuery(q, 0), c, e)
    BY <2>5, <2>6 DEF Between
  <2> HIDE DEF rows, s, n, c
  <2>9. rows \in Seq(ToSet(rows))
    <3>1. rows \in [1 .. Len(rows) -> Tracked(view)] /\ Len(rows) \in Nat
      BY <2>5, LenProperties
    <3>2. rows \in [1 .. Len(rows) -> ToSet(rows)]
      BY <3>1 DEF ToSet
    <3> QED
      BY <3>1, <3>2, SeqDef
  <2>10. ToSet(s) \cap ToSet(rows) = {}
    <3> SUFFICES ASSUME NEW f, f \in ToSet(s), f \in ToSet(rows)
                 PROVE  FALSE
      OBVIOUS
    <3>1. PICK i \in 1 .. n : i <= c /\ view.order[i] = f
      BY <2>1, <2>7
    <3>2. PICK j \in 1 .. n : c < j /\ view.order[j] = f
      BY <2>7, <2>8
    <3> QED
      BY <1>1, <2>1, <3>1, <3>2
  <2>11. /\ ToSet(s \o rows) = ToSet(s) \cup ToSet(rows)
         /\ s \o rows \in Seq(ToSet(s \o rows)) /\ IsInjective(s \o rows)
    <3>1. Once(s, {})
      BY <1>1 DEF Once, IsInjective
    <3>2. \A f \in ToSet(s) \cap ToSet(rows) : f \in {}
      BY <2>10
    <3>3. /\ ToSet(s \o rows) = ToSet(s) \cup ToSet(rows)
          /\ s \o rows \in Seq(ToSet(s \o rows)) /\ Once(s \o rows, {})
      BY <1>1, <2>5, <2>9, <3>1, <3>2, ListsMore
    <3> QED
      BY <3>3 DEF Once, IsInjective
  <2>12. c <= e
    BY <1>1, <2>1, <2>5
  <2>13. ToSet(s \o rows) = Between(view, ViewQuery(q, 0), 0, e)
    <3>1. \A i \in 1 .. n : (0 < i /\ i <= e) <=> (0 < i /\ i <= c) \/ (c < i /\ i <= e)
      BY <1>1, <2>1, <2>12
    <3>2. \A f : f \in Between(view, ViewQuery(q, 0), 0, e) <=>
            \/ f \in Between(view, ViewQuery(q, 0), 0, c)
            \/ f \in Between(view, ViewQuery(q, 0), c, e)
      BY <2>7, <3>1
    <3> QED
      BY <2>1, <2>8, <2>11, <3>2
  <2>14. new.rows = s \o rows /\ new.next = page.next
    BY <2>2
  <2> HIDE DEF new
  <2>15. CASE page.next = -1 /\ e = n
    <3>1. \A i \in 1 .. n : 0 < i /\ i <= n
      BY <1>1
    <3>2. Between(view, ViewQuery(q, 0), 0, n) = InWalk(view, q)
      BY <1>1, <2>6, <2>7, <3>1 DEF InWalk
    <3> QED
      BY <2>11, <2>13, <2>14, <2>15, <3>2 DEF PagesTo, new
  <2>16. CASE page.next = e /\ c < e /\ e < n
    <3>1. e \in k + 1 .. n
      BY <1>1, <2>1, <2>16
    <3> QED
      BY <2>11, <2>13, <2>14, <2>16, <3>1 DEF PagesTo, new, n
  <2> QED
    BY <2>5, <2>15, <2>16
<1> QED
  BY <1>2, <1>3

\* The pages together have the streams of the query, each once.
LEMMA RowsAre ==
    ASSUME DataOK, NEW q, q.limit \in Nat
    PROVE  Len(Rows(q)) = Cardinality(InWalk(view, q))
<1> DEFINE n == Len(view.order)
           N == n + 1
           base == [rows |-> <<>>, next |-> 0]
<1>1. n \in Nat /\ N \in Nat
  BY LenProperties DEF DataOK, ViewOK, Placed
<1> HIDE DEF N, n
<1>2. PICK h : /\ h[0] = base /\ h[N] = Pages(q, N)
               /\ \A i \in 1 .. N : h[i] = Turned(q, h[i - 1])
  BY <1>1, PagesInTurn
<1> DEFINE G == {k \in Nat : k <= N => PagesTo(view, q, h[k], k)}
<1>3. 0 \in G
  <2>1. <<>> \in Seq(ToSet(<<>>)) /\ IsInjective(<<>>) /\ ToSet(<<>>) = {}
    BY DEF ToSet, IsInjective
  <2>2. Between(view, ViewQuery(q, 0), 0, 0) = {}
    <3>1. \A i \in 1 .. Len(view.order) : ~ i <= 0
      OBVIOUS
    <3> QED
      BY <3>1 DEF Between
  <2>3. 0 \in 0 .. n
    BY <1>1
  <2>4. h[0].rows = <<>> /\ h[0].next = 0
    BY <1>2
  <2> HIDE DEF base
  <2>5. PagesTo(view, q, h[0], 0)
    BY <2>1, <2>2, <2>3, <2>4 DEF PagesTo, n
  <2> QED
    BY <2>5
<1>4. ASSUME NEW k \in Nat, k \in G
      PROVE  k + 1 \in G
  <2> SUFFICES ASSUME k + 1 <= N
               PROVE  PagesTo(view, q, h[k + 1], k + 1)
    OBVIOUS
  <2>1. k + 1 \in 1 .. N /\ (k + 1) - 1 = k /\ k <= N
    BY <1>1
  <2>2. h[k + 1] = Turned(q, h[k])
    BY <1>2, <2>1
  <2>3. PagesTo(view, q, h[k], k)
    BY <1>4, <2>1
  <2> QED
    BY <2>2, <2>3, PagesGrow
<1>5. N \in G
  <2> HIDE DEF G
  <2> QED
    BY <1>1, <1>3, <1>4, NumberInduction
<1>6. PagesTo(view, q, h[N], N)
  BY <1>1, <1>5
<1>7. Rows(q) = h[N].rows
  BY <1>2 DEF Rows, N, n
<1>8. N .. n = {}
  BY <1>1 DEF N
<1>9. /\ Rows(q) \in Seq(ToSet(Rows(q))) /\ IsInjective(Rows(q)) /\ ToSet(Rows(q)) = InWalk(view, q)
  BY <1>6, <1>7, <1>8 DEF PagesTo, n
<1>10. Cardinality(ToSet(Rows(q))) = Len(Rows(q))
  BY <1>9, LengthIsCount
<1> QED
  BY <1>9, <1>10

\* Spec => []ProfilesCountTheirRows: the totals shown with a profile, of all its streams
\* and of those that are visible, favorites or matched, are each the length of the list a
\* client gets that turns the pages of that profile to the end, whatever their size.
THEOREM ProfileCountsHold == Spec => []ProfilesCountTheirRows
<1>1. ASSUME DataOK, NEW i \in DOMAIN profiles, NEW limit \in 1 .. MaxQueryLimit,
             NEW hidden, NEW favorite, NEW matched
      PROVE  LET q == [limit |-> limit, include_hidden |-> hidden, only_favorites |-> favorite,
                       only_matched |-> matched, all |-> {}, profile |-> profiles[i].id]
             IN  Len(Rows(q)) = Cardinality({f \in Tracked(view) :
                        /\ Hidden(view, f) => hidden
                        /\ favorite => f \in view.favorites
                        /\ matched => view.streams[f].match_count # 0
                        /\ InProfile(view, f, profiles[i])})
  <2> DEFINE q == [limit |-> limit, include_hidden |-> hidden, only_favorites |-> favorite,
                   only_matched |-> matched, all |-> {}, profile |-> profiles[i].id]
  <2>1. profiles[i].id # ""
    BY <1>1, LenProperties, ElementOfSeq, ProfilesAre DEF DataOK, ProfilesOK
  <2>2. ProfileOf(profiles, profiles[i].id) = profiles[i]
    <3>1. \A j \in DOMAIN profiles : profiles[j].id = profiles[i].id => j = i
      BY <1>1, LenProperties DEF DataOK, ProfilesOK, Distinct
    <3> QED
      BY <3>1 DEF ProfileOf
  <2>3. /\ ViewQuery(q, 0).include_hidden = hidden /\ ViewQuery(q, 0).only_favorites = favorite
        /\ ViewQuery(q, 0).only_matched = matched /\ ViewQuery(q, 0).all = {}
        /\ ViewQuery(q, 0).profiles = {profiles[i]}
    BY <2>1, <2>2 DEF ViewQuery
  <2>4. q.limit \in Nat
    BY ViewAssumption
  <2> HIDE DEF q
  <2>5. Len(Rows(q)) = Cardinality(InWalk(view, q))
    BY <1>1, <2>4, RowsAre
  <2>6. InWalk(view, q) = {f \in Tracked(view) :
                        /\ Hidden(view, f) => hidden
                        /\ favorite => f \in view.favorites
                        /\ matched => view.streams[f].match_count # 0
                        /\ InProfile(view, f, profiles[i])}
    BY <2>3 DEF InWalk, InQuery
  <2> QED
    BY <2>5, <2>6 DEF q
<1>2. DataOK => ProfilesCountTheirRows
  <2> SUFFICES ASSUME DataOK, NEW i \in DOMAIN profiles, NEW limit \in 1 .. MaxQueryLimit
               PROVE  LET q(hidden, favorite, matched) ==
                            [limit |-> limit, include_hidden |-> hidden, only_favorites |-> favorite,
                             only_matched |-> matched, all |-> {}, profile |-> profiles[i].id]
                          stats == ProfileStats(view, profiles[i])
                      IN  /\ Len(Rows(q(TRUE, FALSE, FALSE))) = stats.total
                          /\ Len(Rows(q(FALSE, FALSE, FALSE))) = stats.visible
                          /\ Len(Rows(q(TRUE, TRUE, FALSE))) = stats.favorite
                          /\ Len(Rows(q(TRUE, FALSE, TRUE))) = stats.matched
    BY DEF ProfilesCountTheirRows
  <2> DEFINE q(hidden, favorite, matched) ==
                [limit |-> limit, include_hidden |-> hidden, only_favorites |-> favorite,
                 only_matched |-> matched, all |-> {}, profile |-> profiles[i].id]
             stats == ProfileStats(view, profiles[i])
             rows(hidden, favorite, matched) == {f \in Tracked(view) :
                /\ Hidden(view, f) => hidden
                /\ favorite => f \in view.favorites
                /\ matched => view.streams[f].match_count # 0
                /\ InProfile(view, f, profiles[i])}
             in == {f \in Tracked(view) : InProfile(view, f, profiles[i])}
  <2>1. \A hidden, favorite, matched :
            Len(Rows(q(hidden, favorite, matched))) = Cardinality(rows(hidden, favorite, matched))
    BY <1>1
  <2>2. /\ stats.total = Cardinality(in)
        /\ stats.visible = Cardinality({f \in in : ~ Hidden(view, f)})
        /\ stats.favorite = Cardinality(in \cap view.favorites)
        /\ stats.matched = Cardinality({f \in in : view.streams[f].match_count # 0})
    BY DEF ProfileStats
  <2>3. /\ rows(TRUE, FALSE, FALSE) = in
        /\ rows(FALSE, FALSE, FALSE) = {f \in in : ~ Hidden(view, f)}
        /\ rows(TRUE, TRUE, FALSE) = in \cap view.favorites
        /\ rows(TRUE, FALSE, TRUE) = {f \in in : view.streams[f].match_count # 0}
    OBVIOUS
  <2> HIDE DEF q, stats, rows, in
  <2>4. /\ Len(Rows(q(TRUE, FALSE, FALSE))) = stats.total
        /\ Len(Rows(q(FALSE, FALSE, FALSE))) = stats.visible
        /\ Len(Rows(q(TRUE, TRUE, FALSE))) = stats.favorite
        /\ Len(Rows(q(TRUE, FALSE, TRUE))) = stats.matched
    <3>1. /\ Len(Rows(q(TRUE, FALSE, FALSE))) = Cardinality(rows(TRUE, FALSE, FALSE))
          /\ Len(Rows(q(FALSE, FALSE, FALSE))) = Cardinality(rows(FALSE, FALSE, FALSE))
          /\ Len(Rows(q(TRUE, TRUE, FALSE))) = Cardinality(rows(TRUE, TRUE, FALSE))
          /\ Len(Rows(q(TRUE, FALSE, TRUE))) = Cardinality(rows(TRUE, FALSE, TRUE))
      BY <2>1
    <3> QED
      BY <3>1, <2>2, <2>3
  <2> QED
    BY <2>4 DEF q, stats
<1> QED
  BY <1>2, DataInit, DataNext, PTL DEF Spec
=============================================================================
