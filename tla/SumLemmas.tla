----------------------------- MODULE SumLemmas -----------------------------
(***************************************************************************)
(* Facts about SumFunctionOnSet and FlattenSeq for the proofs about        *)
(* counters and streams.  Both are recursive functions, on the subsets of  *)
(* a set and on the places of a sequence, so they are proved by induction. *)
(* Induction is stated here for sets of numbers and sets of subsets,       *)
(* without an operator parameter, so that the provers can instantiate it.  *)
(* Facts about pieces of sequences and about the ranks in a finite set are *)
(* at the end.                                                             *)
(***************************************************************************)
EXTENDS Functions, FiniteSetsExt, SequencesExt, FiniteSetTheorems, SequenceTheorems, TLAPS

-----------------------------------------------------------------------------
(* Induction *)

\* A nonempty set of numbers has a least element.
LEMMA LeastElement ==
    ASSUME NEW S \in SUBSET Nat, S # {}
    PROVE  \E m \in S : \A n \in S : m <= n
<1>1. IsWellFoundedOn(OpToRel(<, Nat), Nat)
  BY NatLessThanWellFounded
<1>2. PICK m \in S : \A n \in S : <<n, m>> \notin OpToRel(<, Nat)
  BY <1>1, WFMin
<1>3. \A n \in S : ~ (n < m)
  BY <1>2 DEF OpToRel
<1> QED
  BY <1>3

\* A set of numbers with 0 and the successor of each of its members has all of them.
LEMMA NumberInduction ==
    ASSUME NEW G, 0 \in G, \A n \in Nat : n \in G => n + 1 \in G
    PROVE  Nat \subseteq G
<1> SUFFICES ASSUME Nat \ G # {}
             PROVE  FALSE
  OBVIOUS
<1>1. PICK m \in Nat \ G : \A n \in Nat \ G : m <= n
  BY LeastElement
<1>2. m # 0 /\ m - 1 \in Nat /\ ~ (m <= m - 1) /\ (m - 1) + 1 = m
  BY <1>1
<1>3. m - 1 \in G
  BY <1>1, <1>2
<1> QED
  BY <1>1, <1>2, <1>3

\* A set of subsets of S that has every subset all of whose members can be taken away
\* within it, the empty set first, has all subsets of S.
LEMMA SubsetInduction ==
    ASSUME NEW S, IsFiniteSet(S), NEW G,
           \A T \in SUBSET S : (\A x \in T : T \ {x} \in G) => T \in G
    PROVE  SUBSET S \subseteq G
<1> DEFINE N == {n \in Nat : \A T \in SUBSET S : Cardinality(T) = n => T \in G}
<1>1. \A T \in SUBSET S : IsFiniteSet(T) /\ Cardinality(T) \in Nat
  BY FS_Subset, FS_CardinalityType
<1>2. 0 \in N
  <2>1. \A T \in SUBSET S : Cardinality(T) = 0 => T = {}
    BY <1>1, FS_EmptySet
  <2> QED
    BY <2>1
<1>3. ASSUME NEW n \in Nat, n \in N
      PROVE  n + 1 \in N
  <2> SUFFICES ASSUME NEW T \in SUBSET S, Cardinality(T) = n + 1
               PROVE  T \in G
    OBVIOUS
  <2>1. ASSUME NEW x \in T
        PROVE  T \ {x} \in G
    <3>1. Cardinality(T \ {x}) = Cardinality(T) - 1
      BY <1>1, FS_RemoveElement
    <3>2. Cardinality(T \ {x}) = n
      BY <3>1
    <3> QED
      BY <1>3, <3>2
  <2> QED
    BY <2>1
<1>4. Nat \subseteq N
  <2> HIDE DEF N
  <2> QED
    BY <1>2, <1>3, NumberInduction
<1> QED
  BY <1>1, <1>4

\* A nonempty set of places has a last one.
LEMMA MaxIsLast ==
    ASSUME NEW n \in Nat, NEW S \in SUBSET (1 .. n), S # {}
    PROVE  Max(S) \in S /\ \A y \in S : y <= Max(S)
<1> DEFINE above == {m \in Nat : \A y \in S : y <= m}
<1>1. n \in above
  OBVIOUS
<1>2. PICK m \in above : \A k \in above : m <= k
  <2> HIDE DEF above
  <2>1. above \subseteq Nat
    BY DEF above
  <2> QED
    BY <1>1, <2>1, LeastElement
<1>3. m \in S
  <2> SUFFICES ASSUME m \notin S
               PROVE  FALSE
    OBVIOUS
  <2>1. \A y \in S : y \in Nat /\ y <= m /\ y # m /\ y >= 1
    BY <1>2
  <2>2. m \in Nat /\ m # 0
    <3>1. PICK y \in S : TRUE
      OBVIOUS
    <3> QED
      BY <2>1, <3>1, <1>2
  <2>3. m - 1 \in above
    BY <2>1, <2>2
  <2> QED
    BY <2>2, <2>3, <1>2
<1>4. \E x \in S : \A y \in S : x >= y
  BY <1>2, <1>3
<1>5. Max(S) \in S /\ \A y \in S : Max(S) >= y
  BY <1>4 DEF Max
<1> QED
  BY <1>5

\* The last of the first n places is n.
LEMMA MaxOfFirst ==
    ASSUME NEW n \in Nat \ {0}
    PROVE  Max(1 .. n) = n /\ (1 .. n) \ {n} = 1 .. n - 1
<1>1. n \in 1 .. n /\ (1 .. n) \in SUBSET (1 .. n)
  OBVIOUS
<1>2. Max(1 .. n) \in 1 .. n /\ n <= Max(1 .. n)
  BY <1>1, MaxIsLast
<1> QED
  BY <1>2

-----------------------------------------------------------------------------
(* The recursion of the fold *)

\* What the sum of fn over s is, given the sums g over smaller sets.
SumBody(g, fn, s) ==
    IF s = {} THEN 0
    ELSE LET x == CHOOSE x \in s : TRUE IN fn[x] + g[s \ {x}]

IsSum(g, fn, S) == g = [s \in SUBSET S |-> SumBody(g, fn, s)]

\* The recursion has a solution: the function that Folds chooses.
LEMMA SumExists ==
    ASSUME NEW S, IsFiniteSet(S), NEW fn
    PROVE  \E g : IsSum(g, fn, S)
<1> DEFINE upTo(n) == {s \in SUBSET S : Cardinality(s) <= n}
           solves(h, n) == \A s \in upTo(n) : h[s] = SumBody(h, fn, s)
           N == {n \in Nat : \E h : DOMAIN h = upTo(n) /\ solves(h, n)}
<1>1. \A s \in SUBSET S : IsFiniteSet(s) /\ Cardinality(s) \in Nat
  BY FS_Subset, FS_CardinalityType
<1>2. \A s \in SUBSET S : \A x \in s : Cardinality(s \ {x}) = Cardinality(s) - 1
  BY <1>1, FS_RemoveElement
<1>3. 0 \in N
  <2> DEFINE h == [s \in upTo(0) |-> 0]
  <2>1. \A s \in upTo(0) : s = {}
    BY <1>1, FS_EmptySet
  <2>2. solves(h, 0)
    BY <2>1 DEF SumBody
  <2>3. DOMAIN h = upTo(0)
    OBVIOUS
  <2> QED
    BY <2>2, <2>3
<1>4. ASSUME NEW n \in Nat, n \in N
      PROVE  n + 1 \in N
  <2>1. PICK h : DOMAIN h = upTo(n) /\ solves(h, n)
    BY <1>4
  <2> DEFINE k == [s \in upTo(n + 1) |-> SumBody(h, fn, s)]
  <2>2. upTo(n) \subseteq upTo(n + 1)
    BY <1>1
  <2>3. \A s \in upTo(n) : k[s] = h[s]
    BY <2>1, <2>2
  <2>4. ASSUME NEW s \in upTo(n + 1)
        PROVE  k[s] = SumBody(k, fn, s)
    <3>1. CASE s = {}
      BY <3>1 DEF SumBody
    <3>2. CASE s # {}
      <4> DEFINE x == CHOOSE x \in s : TRUE
      <4>1. x \in s
        BY <3>2
      <4>2. s \ {x} \in upTo(n)
        <5>1. Cardinality(s) <= n + 1 /\ Cardinality(s) \in Nat
          BY <1>1
        <5>2. Cardinality(s \ {x}) = Cardinality(s) - 1
          BY <1>2, <4>1
        <5>3. Cardinality(s \ {x}) <= n
          BY <5>1, <5>2
        <5> QED
          BY <5>3
      <4>3. k[s \ {x}] = h[s \ {x}]
        BY <2>3, <4>2
      <4>4. k[s] = fn[x] + h[s \ {x}]
        BY <3>2 DEF SumBody
      <4>5. SumBody(k, fn, s) = fn[x] + k[s \ {x}]
        <5> HIDE DEF k
        <5> QED
          BY <3>2 DEF SumBody
      <4> QED
        BY <4>3, <4>4, <4>5
    <3> QED
      BY <3>1, <3>2
  <2>5. DOMAIN k = upTo(n + 1) /\ solves(k, n + 1)
    BY <2>4
  <2>6. \E l : DOMAIN l = upTo(n + 1) /\ solves(l, n + 1)
    <3> HIDE DEF k, upTo, solves
    <3> QED
      BY <2>5
  <2>7. n + 1 \in Nat
    OBVIOUS
  <2> QED
    BY <2>6, <2>7, Zenon
<1>5. Nat \subseteq N
  <2> HIDE DEF N
  <2> QED
    BY <1>3, <1>4, NumberInduction
<1>6. Cardinality(S) \in N /\ upTo(Cardinality(S)) = SUBSET S
  <2>1. \A s \in SUBSET S : Cardinality(s) <= Cardinality(S)
    BY FS_Subset
  <2>2. Cardinality(S) \in Nat
    BY <1>1
  <2>3. Cardinality(S) \in N
    <3> HIDE DEF N
    <3> QED
      BY <1>5, <2>2
  <2>4. upTo(Cardinality(S)) = SUBSET S
    BY <2>1
  <2> QED
    BY <2>3, <2>4
<1>7. PICK h : DOMAIN h = SUBSET S /\ \A s \in SUBSET S : h[s] = SumBody(h, fn, s)
  BY <1>6
<1> DEFINE g == [s \in SUBSET S |-> h[s]]
<1>8. ASSUME NEW s \in SUBSET S
      PROVE  g[s] = SumBody(g, fn, s)
  <2>1. CASE s = {}
    BY <1>7, <2>1 DEF SumBody
  <2>2. CASE s # {}
    <3>1. (CHOOSE x \in s : TRUE) \in s
      BY <2>2
    <3> QED
      BY <1>7, <2>2, <3>1 DEF SumBody
  <2> QED
    BY <2>1, <2>2
<1>9. g = [s \in SUBSET S |-> g[s]]
  OBVIOUS
<1>10. IsSum(g, fn, S)
  <2> HIDE DEF g
  <2> QED
    BY <1>8, <1>9 DEF IsSum
<1> QED
  BY <1>10

\* The sum over S is a solution of the recursion, at S.
LEMMA SumUnfolds ==
    ASSUME NEW S, IsFiniteSet(S), NEW fn
    PROVE  \E g : IsSum(g, fn, S) /\ SumFunctionOnSet(fn, S) = g[S]
<1> DEFINE iter == CHOOSE g : IsSum(g, fn, S)
<1>1. IsSum(iter, fn, S)
  BY SumExists
<1>2. SumFunctionOnSet(fn, S) = iter[S]
  BY DEF SumFunctionOnSet, FoldFunctionOnSet, MapThenFoldSet, IsSum, SumBody
<1> QED
  BY <1>1, <1>2

\* Two solutions of the recursion agree where the functions do.
LEMMA SumAgrees ==
    ASSUME NEW S, NEW T, IsFiniteSet(T), T \subseteq S,
           NEW fn, NEW hn, \A x \in T : fn[x] = hn[x],
           NEW g, IsSum(g, fn, S), NEW h, IsSum(h, hn, T)
    PROVE  g[T] = h[T]
<1> DEFINE G == {s \in SUBSET T : g[s] = h[s]}
<1>1. ASSUME NEW s \in SUBSET T, \A x \in s : s \ {x} \in G
      PROVE  s \in G
  <2>1. g[s] = SumBody(g, fn, s) /\ h[s] = SumBody(h, hn, s)
    BY DEF IsSum
  <2>2. CASE s = {}
    BY <2>1, <2>2 DEF SumBody
  <2>3. CASE s # {}
    <3> DEFINE x == CHOOSE x \in s : TRUE
    <3>1. x \in s
      BY <2>3
    <3>2. s \ {x} \in G /\ fn[x] = hn[x]
      BY <1>1, <3>1
    <3>3. g[s] = fn[x] + g[s \ {x}] /\ h[s] = hn[x] + h[s \ {x}]
      BY <2>1, <2>3 DEF SumBody
    <3> QED
      BY <3>2, <3>3
  <2> QED
    BY <2>2, <2>3
<1>2. SUBSET T \subseteq G
  <2> HIDE DEF G
  <2> QED
    BY <1>1, SubsetInduction
<1> QED
  BY <1>2

\* Any solution of the recursion over a set gives the sum over each of its subsets.
LEMMA SumOfSubset ==
    ASSUME NEW S, IsFiniteSet(S), NEW fn, NEW g, IsSum(g, fn, S), NEW T \in SUBSET S
    PROVE  SumFunctionOnSet(fn, T) = g[T]
<1>1. IsFiniteSet(T)
  BY FS_Subset
<1>2. PICK h : IsSum(h, fn, T) /\ SumFunctionOnSet(fn, T) = h[T]
  BY <1>1, SumUnfolds
<1> QED
  BY <1>1, <1>2, SumAgrees

-----------------------------------------------------------------------------
(* What the proofs use *)

\* The sum over nothing is 0.
LEMMA SumOfNothing == ASSUME NEW fn PROVE SumFunctionOnSet(fn, {}) = 0
<1>1. PICK g : IsSum(g, fn, {}) /\ SumFunctionOnSet(fn, {}) = g[{}]
  BY SumUnfolds, FS_EmptySet
<1> QED
  BY <1>1 DEF IsSum, SumBody

\* The sum depends on the values of the function on the set only.
LEMMA SumOfSame ==
    ASSUME NEW S, IsFiniteSet(S), NEW fn, NEW hn, \A x \in S : fn[x] = hn[x]
    PROVE  SumFunctionOnSet(fn, S) = SumFunctionOnSet(hn, S)
<1>1. PICK g : IsSum(g, fn, S) /\ SumFunctionOnSet(fn, S) = g[S]
  BY SumUnfolds
<1>2. PICK h : IsSum(h, hn, S) /\ SumFunctionOnSet(hn, S) = h[S]
  BY SumUnfolds
<1>3. S \subseteq S
  OBVIOUS
<1>4. g[S] = h[S]
  BY <1>1, <1>2, <1>3, SumAgrees
<1> QED
  BY <1>1, <1>2, <1>4

\* A sum of numbers is a number.
LEMMA SumIsNumber ==
    ASSUME NEW S, IsFiniteSet(S), NEW fn, \A x \in S : fn[x] \in Nat
    PROVE  SumFunctionOnSet(fn, S) \in Nat
<1>1. PICK g : IsSum(g, fn, S) /\ SumFunctionOnSet(fn, S) = g[S]
  BY SumUnfolds
<1> DEFINE G == {s \in SUBSET S : g[s] \in Nat}
<1>2. ASSUME NEW s \in SUBSET S, \A x \in s : s \ {x} \in G
      PROVE  s \in G
  <2>1. g[s] = SumBody(g, fn, s)
    BY <1>1 DEF IsSum
  <2>2. CASE s = {}
    BY <2>1, <2>2 DEF SumBody
  <2>3. CASE s # {}
    <3> DEFINE x == CHOOSE x \in s : TRUE
    <3>1. x \in s
      BY <2>3
    <3>2. g[s \ {x}] \in Nat /\ fn[x] \in Nat
      BY <1>2, <3>1
    <3>3. g[s] = fn[x] + g[s \ {x}]
      BY <2>1, <2>3 DEF SumBody
    <3> QED
      BY <3>2, <3>3
  <2> QED
    BY <2>2, <2>3
<1>3. SUBSET S \subseteq G
  <2> HIDE DEF G
  <2> QED
    BY <1>2, SubsetInduction
<1> QED
  BY <1>1, <1>3

\* Any member may be added last: the order of the fold does not matter.
LEMMA SumSplits ==
    ASSUME NEW S, IsFiniteSet(S), NEW fn, \A x \in S : fn[x] \in Nat, NEW x \in S
    PROVE  SumFunctionOnSet(fn, S) = fn[x] + SumFunctionOnSet(fn, S \ {x})
<1> DEFINE sum(s) == SumFunctionOnSet(fn, s)
           G == {s \in SUBSET S : \A y \in s : sum(s) = fn[y] + sum(s \ {y})}
<1>1. PICK g : IsSum(g, fn, S)
  BY SumExists
<1>2. \A s \in SUBSET S : sum(s) = g[s]
  BY <1>1, SumOfSubset
<1>3. \A s \in SUBSET S : sum(s) \in Nat
  BY FS_Subset, SumIsNumber
<1>4. ASSUME NEW s \in SUBSET S, s # {}
      PROVE  LET c == CHOOSE c \in s : TRUE IN c \in s /\ sum(s) = fn[c] + sum(s \ {c})
  <2> DEFINE c == CHOOSE c \in s : TRUE
  <2>1. c \in s
    BY <1>4
  <2>2. g[s] = fn[c] + g[s \ {c}]
    BY <1>1, <1>4 DEF IsSum, SumBody
  <2>3. s \ {c} \in SUBSET S
    OBVIOUS
  <2>4. sum(s) = g[s] /\ sum(s \ {c}) = g[s \ {c}]
    BY <1>2, <2>3
  <2> HIDE DEF sum
  <2> QED
    BY <2>1, <2>2, <2>4
<1>5. ASSUME NEW s \in SUBSET S, \A y \in s : s \ {y} \in G
      PROVE  s \in G
  <2> SUFFICES ASSUME NEW y \in s
               PROVE  sum(s) = fn[y] + sum(s \ {y})
    OBVIOUS
  <2> DEFINE c == CHOOSE c \in s : TRUE
  <2>1. c \in s /\ sum(s) = fn[c] + sum(s \ {c})
    BY <1>4
  <2>2. CASE y = c
    BY <2>1, <2>2
  <2>3. CASE y # c
    <3> HIDE DEF c, sum
    <3>1. (s \ {c}) \ {y} = (s \ {y}) \ {c}
      OBVIOUS
    <3>2. y \in s \ {c} /\ c \in s \ {y}
      BY <2>1, <2>3
    <3>3. sum(s \ {c}) = fn[y] + sum((s \ {c}) \ {y})
      BY <1>5, <2>1, <3>2
    <3>4. sum(s \ {y}) = fn[c] + sum((s \ {y}) \ {c})
      BY <1>5, <3>2
    <3>5. /\ fn[c] \in Nat /\ fn[y] \in Nat /\ sum((s \ {y}) \ {c}) \in Nat
          /\ sum((s \ {c}) \ {y}) = sum((s \ {y}) \ {c})
      BY <1>3, <2>1, <3>1
    <3> DEFINE k == sum((s \ {y}) \ {c})
               l == sum(s \ {y})
               m == sum(s \ {c})
    <3>6. m = fn[y] + k /\ l = fn[c] + k /\ k \in Nat
      BY <3>3, <3>4, <3>5
    <3>7. sum(s) = fn[c] + m
      BY <2>1
    <3> HIDE DEF k, l, m
    <3>8. sum(s) = fn[y] + l
      BY <3>5, <3>6, <3>7
    <3> QED
      BY <3>8 DEF l
  <2> QED
    BY <2>2, <2>3
<1>6. SUBSET S \subseteq G
  <2> HIDE DEF G
  <2> QED
    BY <1>5, SubsetInduction
<1> QED
  BY <1>6

\* Changing one value changes the sum by as much.
LEMMA SumChanges ==
    ASSUME NEW S, IsFiniteSet(S), NEW fn, NEW hn, NEW x \in S,
           \A y \in S : fn[y] \in Nat /\ hn[y] \in Nat,
           \A y \in S \ {x} : fn[y] = hn[y]
    PROVE  SumFunctionOnSet(fn, S) + hn[x] = SumFunctionOnSet(hn, S) + fn[x]
<1>1. IsFiniteSet(S \ {x})
  BY FS_RemoveElement
<1> DEFINE k == SumFunctionOnSet(fn, S \ {x})
           l == SumFunctionOnSet(hn, S \ {x})
<1>2. k = l /\ k \in Nat
  BY <1>1, SumOfSame, SumIsNumber
<1>3. SumFunctionOnSet(fn, S) = fn[x] + k /\ SumFunctionOnSet(hn, S) = hn[x] + l
  BY SumSplits
<1> HIDE DEF k, l
<1> QED
  BY <1>2, <1>3

\* A sum over fewer members is no greater.
LEMMA SumOfFewer ==
    ASSUME NEW S, IsFiniteSet(S), NEW fn, \A x \in S : fn[x] \in Nat, NEW T \in SUBSET S
    PROVE  SumFunctionOnSet(fn, T) <= SumFunctionOnSet(fn, S)
<1> DEFINE sum(s) == SumFunctionOnSet(fn, s)
           G == {s \in SUBSET S : T \subseteq s => sum(T) <= sum(s)}
<1>1. \A s \in SUBSET S : sum(s) \in Nat
  BY FS_Subset, SumIsNumber
<1>2. ASSUME NEW s \in SUBSET S, \A y \in s : s \ {y} \in G
      PROVE  s \in G
  <2> SUFFICES ASSUME T \subseteq s
               PROVE  sum(T) <= sum(s)
    OBVIOUS
  <2>1. CASE s = T
    BY <1>1, <2>1
  <2>2. CASE s # T
    <3>1. PICK y \in s : y \notin T
      BY <2>2
    <3>2. sum(s) = fn[y] + sum(s \ {y})
      BY FS_Subset, SumSplits
    <3>3. sum(T) <= sum(s \ {y})
      BY <1>2, <3>1
    <3>4. sum(T) \in Nat /\ sum(s \ {y}) \in Nat /\ fn[y] \in Nat
      BY <1>1
    <3> HIDE DEF sum
    <3> QED
      BY <3>2, <3>3, <3>4
  <2> QED
    BY <2>1, <2>2
<1>3. SUBSET S \subseteq G
  <2> HIDE DEF G
  <2> QED
    BY <1>2, SubsetInduction
<1> QED
  BY <1>3

\* A sum of zeros is 0.
LEMMA SumOfZeros ==
    ASSUME NEW S, IsFiniteSet(S), NEW fn, \A x \in S : fn[x] = 0
    PROVE  SumFunctionOnSet(fn, S) = 0
<1> DEFINE G == {s \in SUBSET S : SumFunctionOnSet(fn, s) = 0}
<1>1. ASSUME NEW s \in SUBSET S, \A x \in s : s \ {x} \in G
      PROVE  s \in G
  <2>1. CASE s = {}
    BY <2>1, SumOfNothing
  <2>2. CASE s # {}
    <3>1. PICK x \in s : TRUE
      BY <2>2
    <3>2. SumFunctionOnSet(fn, s) = fn[x] + SumFunctionOnSet(fn, s \ {x})
      BY FS_Subset, SumSplits
    <3> QED
      BY <1>1, <3>2
  <2> QED
    BY <2>1, <2>2
<1>2. SUBSET S \subseteq G
  <2> HIDE DEF G
  <2> QED
    BY <1>1, SubsetInduction
<1> QED
  BY <1>2

\* The sum of sums.
LEMMA SumAdds ==
    ASSUME NEW S, IsFiniteSet(S), NEW fn, NEW hn, NEW kn,
           \A x \in S : fn[x] \in Nat /\ hn[x] \in Nat /\ kn[x] = fn[x] + hn[x]
    PROVE  SumFunctionOnSet(kn, S) = SumFunctionOnSet(fn, S) + SumFunctionOnSet(hn, S)
<1> DEFINE f(s) == SumFunctionOnSet(fn, s)
           h(s) == SumFunctionOnSet(hn, s)
           k(s) == SumFunctionOnSet(kn, s)
           G == {s \in SUBSET S : k(s) = f(s) + h(s)}
<1>1. ASSUME NEW s \in SUBSET S, \A x \in s : s \ {x} \in G
      PROVE  s \in G
  <2>1. CASE s = {}
    <3>1. f({}) = 0 /\ h({}) = 0 /\ k({}) = 0
      BY SumOfNothing
    <3> HIDE DEF f, h, k
    <3> QED
      BY <2>1, <3>1
  <2>2. CASE s # {}
    <3>1. PICK x \in s : TRUE
      BY <2>2
    <3>2. /\ IsFiniteSet(s) /\ IsFiniteSet(s \ {x})
          /\ \A y \in s : fn[y] \in Nat /\ hn[y] \in Nat /\ kn[y] \in Nat
          /\ kn[x] = fn[x] + hn[x]
      BY FS_Subset
    <3>3. /\ f(s) = fn[x] + f(s \ {x}) /\ f(s \ {x}) \in Nat
          /\ h(s) = hn[x] + h(s \ {x}) /\ h(s \ {x}) \in Nat
          /\ k(s) = kn[x] + k(s \ {x})
      BY <3>2, SumSplits, SumIsNumber
    <3>4. k(s \ {x}) = f(s \ {x}) + h(s \ {x})
      BY <1>1
    <3> HIDE DEF f, h, k
    <3> QED
      BY <3>2, <3>3, <3>4
  <2> QED
    BY <2>1, <2>2
<1>2. SUBSET S \subseteq G
  <2> HIDE DEF G
  <2> QED
    BY <1>1, SubsetInduction
<1> QED
  BY <1>2

-----------------------------------------------------------------------------
(* Sums over the positions of a sequence *)

\* One more position adds its value.
LEMMA TallyGrown ==
    ASSUME NEW n \in Nat, NEW fn, NEW hn, \A i \in 1 .. n + 1 : fn[i] \in Nat,
           \A i \in 1 .. n : hn[i] = fn[i]
    PROVE  SumFunctionOnSet(fn, 1 .. n + 1) = SumFunctionOnSet(hn, 1 .. n) + fn[n + 1]
<1>1. /\ n + 1 \in 1 .. n + 1 /\ (1 .. n + 1) \ {n + 1} = 1 .. n
      /\ IsFiniteSet(1 .. n + 1) /\ IsFiniteSet(1 .. n)
      /\ 1 .. n \subseteq 1 .. n + 1
  BY FS_Interval
<1> DEFINE k == SumFunctionOnSet(fn, 1 .. n)
           l == SumFunctionOnSet(hn, 1 .. n)
<1>2. k = l /\ k \in Nat
  BY <1>1, SumOfSame, SumIsNumber
<1>3. SumFunctionOnSet(fn, 1 .. n + 1) = fn[n + 1] + k
  BY <1>1, SumSplits
<1> HIDE DEF k
<1>4. fn[n + 1] \in Nat
  BY <1>1
<1>5. l = k
  BY <1>2
<1> QED
  BY <1>2, <1>3, <1>4, <1>5

\* The value of the first position, and the sum over the rest.
LEMMA TallyFirst ==
    ASSUME NEW n \in Nat, NEW fn, NEW hn, \A i \in 1 .. n + 1 : fn[i] \in Nat,
           \A i \in 1 .. n : hn[i] = fn[i + 1]
    PROVE  SumFunctionOnSet(fn, 1 .. n + 1) = fn[1] + SumFunctionOnSet(hn, 1 .. n)
<1> DEFINE f(m) == SumFunctionOnSet(fn, 1 .. m)
           h(m) == SumFunctionOnSet(hn, 1 .. m)
           G == {m \in Nat : m <= n => f(m + 1) = fn[1] + h(m)}
<1>1. 0 \in G
  <2>1. 1 .. 0 = {} /\ 0 + 1 = 1
    OBVIOUS
  <2>2. fn[1] \in Nat /\ \A i \in 1 .. 0 + 1 : fn[i] \in Nat
    OBVIOUS
  <2>3. f(0 + 1) = f(0) + fn[0 + 1]
    <3>1. \A i \in 1 .. 0 : fn[i] = fn[i]
      OBVIOUS
    <3> QED
      BY <2>2, <3>1, TallyGrown
  <2>4. f(0) = 0 /\ h(0) = 0
    BY <2>1, SumOfNothing
  <2> QED
    BY <2>1, <2>2, <2>3, <2>4
<1>2. ASSUME NEW m \in Nat, m \in G
      PROVE  m + 1 \in G
  <2> SUFFICES ASSUME m + 1 <= n
               PROVE  f(m + 2) = fn[1] + h(m + 1)
    OBVIOUS
  <2>1. /\ \A i \in 1 .. m + 2 : fn[i] \in Nat
        /\ \A i \in 1 .. m + 1 : hn[i] \in Nat
        /\ fn[1] \in Nat /\ hn[m + 1] = fn[m + 2] /\ hn[m + 1] \in Nat /\ (m + 1) + 1 = m + 2
    OBVIOUS
  <2>2. f(m + 2) = f(m + 1) + fn[m + 2]
    <3>1. SumFunctionOnSet(fn, 1 .. (m + 1) + 1) = SumFunctionOnSet(fn, 1 .. m + 1) + fn[(m + 1) + 1]
      BY <2>1, TallyGrown
    <3> QED
      BY <2>1, <3>1
  <2>3. h(m + 1) = h(m) + hn[m + 1]
    BY <2>1, TallyGrown
  <2>4. f(m + 1) = fn[1] + h(m)
    BY <1>2
  <2>5. h(m) \in Nat
    <3>1. IsFiniteSet(1 .. m) /\ 1 .. m \subseteq 1 .. m + 1
      BY FS_Interval
    <3>2. \A i \in 1 .. m : hn[i] \in Nat
      BY <2>1, <3>1
    <3> QED
      BY <3>1, <3>2, SumIsNumber
  <2> HIDE DEF f, h
  <2> QED
    BY <2>1, <2>2, <2>3, <2>4, <2>5
<1>3. n \in G
  <2> HIDE DEF G
  <2> QED
    BY <1>1, <1>2, NumberInduction
<1> QED
  BY <1>3

\* A sum is the sum over a part and over the rest.
LEMMA SumOfParts ==
    ASSUME NEW S, IsFiniteSet(S), NEW fn, \A x \in S : fn[x] \in Nat, NEW T \in SUBSET S
    PROVE  SumFunctionOnSet(fn, S) = SumFunctionOnSet(fn, T) + SumFunctionOnSet(fn, S \ T)
<1> DEFINE sum(s) == SumFunctionOnSet(fn, s)
           G == {s \in SUBSET S : sum(S) = sum(s) + sum(S \ s)}
<1>1. \A s \in SUBSET S : sum(s) \in Nat
  BY FS_Subset, SumIsNumber
<1>2. \A s \in SUBSET S : \A x \in s : sum(s) = fn[x] + sum(s \ {x})
  <2> SUFFICES ASSUME NEW s \in SUBSET S, NEW x \in s
               PROVE  sum(s) = fn[x] + sum(s \ {x})
    OBVIOUS
  <2>1. IsFiniteSet(s) /\ \A y \in s : fn[y] \in Nat
    BY FS_Subset
  <2> QED
    BY <2>1, SumSplits
<1>3. sum({}) = 0
  BY SumOfNothing
<1> HIDE DEF sum
<1>4. ASSUME NEW s \in SUBSET S, \A x \in s : s \ {x} \in G
      PROVE  s \in G
  <2>1. CASE s = {}
    <3>1. S \ s = S /\ sum(S) \in Nat
      BY <1>1, <2>1
    <3> QED
      BY <1>3, <2>1, <3>1
  <2>2. CASE s # {}
    <3>1. PICK x \in s : TRUE
      BY <2>2
    <3> DEFINE t == s \ {x}
               rest == S \ t
    <3>2. sum(S) = sum(t) + sum(rest)
      BY <1>4
    <3>3. sum(s) = fn[x] + sum(t)
      BY <1>2
    <3>4. rest \in SUBSET S /\ x \in rest /\ rest \ {x} = S \ s
      OBVIOUS
    <3>5. sum(rest) = fn[x] + sum(S \ s)
      <4> HIDE DEF rest
      <4>1. sum(rest) = fn[x] + sum(rest \ {x})
        BY <1>2, <3>4
      <4> QED
        BY <3>4, <4>1
    <3>6. sum(t) \in Nat /\ sum(S \ s) \in Nat /\ fn[x] \in Nat
      BY <1>1
    <3> HIDE DEF t, rest
    <3> QED
      BY <3>2, <3>3, <3>5, <3>6
  <2> QED
    BY <2>1, <2>2
<1>5. SUBSET S \subseteq G
  <2> HIDE DEF G
  <2> QED
    BY <1>4, SubsetInduction
<1>6. T \in G
  <2> HIDE DEF G
  <2> QED
    BY <1>5
<1> QED
  BY <1>6 DEF sum
-----------------------------------------------------------------------------
(* Flattening: a recursive function on the places of the sequence             *)

\* What the pieces of s up to place i make, given what those before it make.
FlatBody(g, s, i) == IF i = 1 THEN s[i] ELSE g[i - 1] \o s[i]

IsFlat(g, s) == g = [i \in 1 .. Len(s) |-> FlatBody(g, s, i)]

\* The value of such a function at a place.
LEMMA FlatAt ==
    ASSUME NEW g, NEW s, IsFlat(g, s), NEW i \in 1 .. Len(s)
    PROVE  g[i] = FlatBody(g, s, i)
<1>1. g = [j \in 1 .. Len(s) |-> FlatBody(g, s, j)]
  BY DEF IsFlat
<1>2. [j \in 1 .. Len(s) |-> FlatBody(g, s, j)][i] = FlatBody(g, s, i)
  OBVIOUS
<1> QED
  BY <1>1, <1>2, Zenon

\* The recursion of FlattenSeq has a solution, and its value at the last place is the result.
LEMMA FlattenUnfolds ==
    ASSUME NEW T, NEW s \in Seq(T), Len(s) >= 1
    PROVE  \E g : IsFlat(g, s) /\ FlattenSeq(s) = g[Len(s)]
<1> DEFINE solves(h, n) == \A i \in 1 .. n : h[i] = FlatBody(h, s, i)
           N == {n \in Nat : \E h : DOMAIN h = 1 .. n /\ solves(h, n)}
<1>1. 0 \in N
  <2>1. DOMAIN [i \in {} |-> i] = 1 .. 0 /\ solves([i \in {} |-> i], 0)
    OBVIOUS
  <2> QED
    BY <2>1
<1>2. ASSUME NEW n \in Nat, n \in N
      PROVE  n + 1 \in N
  <2>1. PICK h : DOMAIN h = 1 .. n /\ solves(h, n)
    BY <1>2
  <2> DEFINE k == [i \in 1 .. n + 1 |-> IF i <= n THEN h[i] ELSE FlatBody(h, s, i)]
  <2>2. \A i \in 1 .. n : k[i] = h[i]
    OBVIOUS
  <2>3. k[n + 1] = FlatBody(h, s, n + 1)
    OBVIOUS
  <2>4. DOMAIN k = 1 .. n + 1
    OBVIOUS
  <2> HIDE DEF k
  <2>5. solves(k, n + 1)
    <3> SUFFICES ASSUME NEW i \in 1 .. n + 1
                 PROVE  k[i] = FlatBody(k, s, i)
      OBVIOUS
    <3>1. CASE i <= n
      <4>1. i \in 1 .. n /\ (i # 1 => i - 1 \in 1 .. n)
        BY <3>1
      <4> QED
        BY <2>1, <2>2, <4>1 DEF FlatBody
    <3>2. CASE i = n + 1
      <4>1. i # 1 => i - 1 \in 1 .. n
        BY <3>2
      <4> QED
        BY <2>2, <2>3, <3>2, <4>1 DEF FlatBody
    <3> QED
      BY <3>1, <3>2
  <2>6. \E l : DOMAIN l = 1 .. n + 1 /\ solves(l, n + 1)
    <3> HIDE DEF solves
    <3> QED
      BY <2>4, <2>5
  <2> QED
    BY <2>6
<1>3. Len(s) \in N
  <2> HIDE DEF N
  <2> QED
    BY <1>1, <1>2, NumberInduction, LenProperties
<1>4. PICK h : DOMAIN h = 1 .. Len(s) /\ solves(h, Len(s))
  BY <1>3
<1> DEFINE k == [i \in 1 .. Len(s) |-> h[i]]
<1>5. \A i \in 1 .. Len(s) : i # 1 => i - 1 \in 1 .. Len(s)
  BY LenProperties
<1>6. IsFlat(k, s)
  BY <1>4, <1>5 DEF IsFlat, FlatBody
<1> DEFINE flatten == CHOOSE g : IsFlat(g, s)
<1>7. IsFlat(flatten, s)
  <2> HIDE DEF k
  <2> QED
    BY <1>6
<1>8. FlattenSeq(s) = flatten[Len(s)]
  BY LenProperties DEF FlattenSeq, IsFlat, FlatBody
<1> QED
  BY <1>7, <1>8

\* Sequence t begins with sequence s; g and h flatten them.
Begins(g, s, h, t) ==
    /\ Len(s) \in Nat /\ Len(t) \in Nat /\ Len(s) <= Len(t)
    /\ \A i \in 1 .. Len(s) : s[i] = t[i]
    /\ IsFlat(g, s) /\ IsFlat(h, t)

\* Two sequences that begin alike flatten alike so far.
LEMMA FlattenAgrees ==
    ASSUME NEW s, NEW t, NEW g, NEW h, Begins(g, s, h, t)
    PROVE  \A i \in 1 .. Len(s) : g[i] = h[i]
<1> DEFINE N == {n \in Nat : n + 1 <= Len(s) => g[n + 1] = h[n + 1]}
<1>1. /\ Len(s) \in Nat /\ Len(t) \in Nat /\ Len(s) <= Len(t)
      /\ \A i \in 1 .. Len(s) : s[i] = t[i]
      /\ IsFlat(g, s) /\ IsFlat(h, t)
  BY DEF Begins
<1>2. \A i \in 1 .. Len(s) : g[i] = FlatBody(g, s, i) /\ h[i] = FlatBody(h, t, i)
  <2>1. \A i \in 1 .. Len(s) : i \in 1 .. Len(t)
    BY <1>1
  <2> QED
    BY <1>1, <2>1, FlatAt
<1>3. 0 \in N
  BY <1>1, <1>2 DEF FlatBody
<1>4. ASSUME NEW n \in Nat, n \in N
      PROVE  n + 1 \in N
  <2> SUFFICES ASSUME (n + 1) + 1 <= Len(s)
               PROVE  g[(n + 1) + 1] = h[(n + 1) + 1]
    OBVIOUS
  <2>1. (n + 1) + 1 \in 1 .. Len(s) /\ (n + 1) + 1 # 1 /\ ((n + 1) + 1) - 1 = n + 1
        /\ n + 1 <= Len(s)
    BY <1>1
  <2>2. g[n + 1] = h[n + 1]
    BY <1>4, <2>1
  <2>3. PICK k \in 1 .. Len(s) : k = (n + 1) + 1
    BY <2>1
  <2>4. g[k] = FlatBody(g, s, k) /\ h[k] = FlatBody(h, t, k) /\ s[k] = t[k]
    BY <1>1, <1>2
  <2>5. k # 1 /\ g[k - 1] = h[k - 1]
    BY <2>1, <2>2, <2>3
  <2>6. g[k] = h[k]
    BY <2>4, <2>5 DEF FlatBody
  <2> QED
    BY <2>3, <2>6
<1>5. Nat \subseteq N
  <2> HIDE DEF N
  <2> QED
    BY <1>3, <1>4, NumberInduction
<1> SUFFICES ASSUME NEW i \in 1 .. Len(s)
             PROVE  g[i] = h[i]
  OBVIOUS
<1>6. i - 1 \in Nat /\ (i - 1) + 1 = i /\ i <= Len(s)
  BY <1>1
<1> QED
  BY <1>5, <1>6

\* Nothing flattens to nothing, and a further piece comes at the end.
LEMMA FlattenGrows ==
    ASSUME NEW T, NEW s \in Seq(Seq(T)), FlattenSeq(s) \in Seq(T), NEW x \in Seq(T)
    PROVE  /\ FlattenSeq(<<>>) = <<>>
           /\ FlattenSeq(Append(s, x)) = FlattenSeq(s) \o x
<1> DEFINE t == Append(s, x)
<1>1. FlattenSeq(<<>>) = <<>>
  BY DEF FlattenSeq
<1>2. t \in Seq(Seq(T)) /\ Len(t) = Len(s) + 1 /\ t[Len(s) + 1] = x
      /\ \A i \in 1 .. Len(s) : t[i] = s[i]
  BY AppendProperties
<1>3. Len(s) \in Nat
  BY LenProperties
<1> HIDE DEF t
<1>4. PICK h : IsFlat(h, t) /\ FlattenSeq(t) = h[Len(t)]
  <2>1. Len(t) >= 1
    BY <1>2, <1>3
  <2> QED
    BY <1>2, <2>1, FlattenUnfolds
<1>5. h[Len(t)] = FlatBody(h, t, Len(t))
  <2>1. Len(t) \in 1 .. Len(t)
    BY <1>2, <1>3
  <2> QED
    BY <1>4, <2>1, FlatAt
<1>6. CASE Len(s) = 0
  <2>1. s = <<>> /\ FlattenSeq(t) = x
    BY <1>2, <1>4, <1>5, <1>6 DEF FlatBody
  <2> QED
    BY <1>1, <2>1, ConcatEmptySeq DEF t
<1>7. CASE Len(s) >= 1
  <2>1. PICK g : IsFlat(g, s) /\ FlattenSeq(s) = g[Len(s)]
    BY <1>7, FlattenUnfolds
  <2>2. g[Len(s)] = h[Len(s)]
    <3>1. Len(s) \in Nat /\ Len(t) \in Nat /\ Len(s) <= Len(t) /\ \A i \in 1 .. Len(s) : s[i] = t[i]
      <4> PICK n \in Nat : n = Len(s)
        BY <1>3
      <4> QED
        BY <1>2
    <3>2. Begins(g, s, h, t)
      BY <1>4, <2>1, <3>1 DEF Begins
    <3>3. \A i \in 1 .. Len(s) : g[i] = h[i]
      BY <3>2, FlattenAgrees
    <3> QED
      <4>1. Len(s) \in 1 .. Len(s)
        BY <1>3, <1>7
      <4> QED
        BY <3>3, <4>1, Zenon
  <2>3. Len(t) # 1 /\ Len(t) - 1 = Len(s)
    BY <1>2, <1>3, <1>7
  <2> QED
    BY <1>1, <1>2, <1>4, <1>5, <2>1, <2>2, <2>3 DEF t, FlatBody
<1> QED
  BY <1>3, <1>6, <1>7

\* FlattenSeq goes from piece to piece.
Flattens(h, s, n) ==
    h[0] = <<>> /\ h[n] = FlattenSeq(s) /\ \A i \in 1 .. n : h[i] = h[i - 1] \o s[i]
LEMMA FlattenInTurn ==
    ASSUME NEW T, NEW s \in Seq(Seq(T)), NEW n \in Nat, n = Len(s)
    PROVE  \E h : Flattens(h, s, n)
<1>1. CASE n = 0
  <2> DEFINE h == [i \in {0} |-> <<>>]
  <2>1. s = <<>> /\ FlattenSeq(<<>>) = <<>>
    BY <1>1, EmptySeq DEF FlattenSeq
  <2>2. h[0] = <<>> /\ 1 .. n = {}
    BY <1>1
  <2> HIDE DEF h
  <2>3. Flattens(h, s, n)
    BY <1>1, <2>1, <2>2 DEF Flattens
  <2> QED
    BY <2>3
<1>2. CASE n # 0
  <2>1. PICK g : IsFlat(g, s) /\ FlattenSeq(s) = g[n]
    <3>1. Len(s) >= 1
      BY <1>2
    <3> QED
      BY <3>1, FlattenUnfolds
  <2> DEFINE h == [i \in 0 .. n |-> IF i = 0 THEN <<>> ELSE g[i]]
  <2>2. h[0] = <<>> /\ \A i \in 1 .. n : h[i] = g[i]
    OBVIOUS
  <2> HIDE DEF h
  <2>3. ASSUME NEW i \in 1 .. n
        PROVE  h[i] = h[i - 1] \o s[i]
    <3>1. g[i] = FlatBody(g, s, i)
      BY <2>1, FlatAt
    <3>2. CASE i = 1
      <4>1. h[i - 1] = <<>> /\ g[i] = s[i] /\ s[i] \in Seq(T)
        BY <2>2, <3>1, <3>2 DEF FlatBody
      <4>2. <<>> \o s[i] = s[i]
        BY <4>1, ConcatEmptySeq
      <4> QED
        BY <2>2, <4>1, <4>2
    <3>3. CASE i # 1
      <4>1. i - 1 \in 1 .. n
        BY <3>3
      <4>2. g[i] = g[i - 1] \o s[i]
        BY <3>1, <3>3 DEF FlatBody
      <4> QED
        BY <2>2, <4>1, <4>2
    <3> QED
      BY <3>2, <3>3
  <2>4. n \in 1 .. n
    BY <1>2
  <2>5. Flattens(h, s, n)
    BY <2>1, <2>2, <2>3, <2>4 DEF Flattens
  <2> QED
    BY <2>5
<1> QED
  BY <1>1, <1>2

-----------------------------------------------------------------------------
(* Pieces of sequences *)

\* A piece of a sequence.
LEMMA PieceIs ==
    ASSUME NEW T, NEW s \in Seq(T), NEW m \in Nat \ {0}, NEW n \in Int, n <= Len(s)
    PROVE  /\ SubSeq(s, m, n) \in Seq(T)
           /\ Len(SubSeq(s, m, n)) = IF m <= n THEN n - m + 1 ELSE 0
<1>1. \A j \in m .. n : s[j] \in T
  <2>1. Len(s) \in Nat /\ \A j \in 1 .. Len(s) : s[j] \in T
    BY LenProperties, ElementOfSeq
  <2> QED
    BY <2>1
<1>2. m \in Int
  OBVIOUS
<1> QED
  BY <1>1, <1>2, SubSeqProperties

\* One place taken out.
LEMMA RemoveTyped ==
    ASSUME NEW T, NEW s \in Seq(T), NEW i \in 1 .. Len(s)
    PROVE  RemoveAt(s, i) \in Seq(T)
<1>1. Len(s) \in Nat
  BY LenProperties
<1>2. i - 1 \in Int /\ i - 1 <= Len(s) /\ i + 1 \in Nat \ {0} /\ Len(s) \in Int
  BY <1>1
<1>3. PICK a : a = i - 1
  OBVIOUS
<1>4. PICK b : b = i + 1
  OBVIOUS
<1>5. SubSeq(s, 1, a) \in Seq(T)
  BY <1>2, <1>3, PieceIs
<1>6. SubSeq(s, b, Len(s)) \in Seq(T)
  BY <1>1, <1>2, <1>4, PieceIs
<1>7. SubSeq(s, 1, a) \o SubSeq(s, b, Len(s)) \in Seq(T)
  BY <1>5, <1>6, ConcatProperties
<1> QED
  BY <1>3, <1>4, <1>7 DEF RemoveAt

\* One place put in.
LEMMA InsertTyped ==
    ASSUME NEW T, NEW s \in Seq(T), NEW i \in 1 .. Len(s) + 1, NEW e \in T
    PROVE  InsertAt(s, i, e) \in Seq(T)
<1>1. Len(s) \in Nat
  BY LenProperties
<1>2. i - 1 \in Int /\ i - 1 <= Len(s) /\ i \in Nat \ {0} /\ Len(s) \in Int
  BY <1>1
<1>3. PICK a : a = i - 1
  OBVIOUS
<1>5. SubSeq(s, 1, a) \in Seq(T)
  BY <1>2, <1>3, PieceIs
<1>6. SubSeq(s, i, Len(s)) \in Seq(T)
  BY <1>1, <1>2, PieceIs
<1>7. <<e>> \in Seq(T)
  OBVIOUS
<1>8. PICK x \in Seq(T) : x = SubSeq(s, 1, a) \o <<e>>
  BY <1>5, <1>7, ConcatProperties
<1>9. x \o SubSeq(s, i, Len(s)) \in Seq(T)
  BY <1>6, ConcatProperties
<1> QED
  BY <1>3, <1>8, <1>9 DEF InsertAt

-----------------------------------------------------------------------------
(* Pieces of a stream *)

\* What a stream has after its first a bytes, up to its b-th.
Stretch(W, a, b) == SubSeq(W, a + 1, b)

LEMMA PartIs ==
    ASSUME NEW T, NEW W \in Seq(T), NEW a \in Nat, NEW b \in Nat, a <= b, b <= Len(W)
    PROVE  /\ Stretch(W, a, b) \in Seq(T) /\ Len(Stretch(W, a, b)) = b - a
           /\ \A j \in 1 .. b - a : Stretch(W, a, b)[j] = W[a + j]
<1>1. PICK m \in Nat \ {0} : m = a + 1
  OBVIOUS
<1>2. Len(W) \in Nat /\ b \in Int /\ m \in Int
  BY LenProperties
<1>3. \A i \in m .. b : W[i] \in T
  <2>1. \A i \in 1 .. Len(W) : W[i] \in T
    BY ElementOfSeq
  <2> QED
    BY <1>2, <2>1
<1>4. /\ SubSeq(W, m, b) \in Seq(T)
      /\ Len(SubSeq(W, m, b)) = IF m <= b THEN b - m + 1 ELSE 0
      /\ \A i \in 1 .. b - m + 1 : SubSeq(W, m, b)[i] = W[m + i - 1]
  BY <1>2, <1>3, SubSeqProperties
<1>5. (IF m <= b THEN b - m + 1 ELSE 0) = b - a /\ b - m + 1 = b - a /\ \A i \in Int : m + i - 1 = a + i
  BY <1>1
<1>6. PICK s : s = SubSeq(W, m, b)
  OBVIOUS
<1>7. \A j \in 1 .. b - a : s[j] = W[a + j]
  <2> SUFFICES ASSUME NEW j \in 1 .. b - a
               PROVE  s[j] = W[a + j]
    OBVIOUS
  <2>1. s[j] = W[m + j - 1] /\ m + j - 1 = a + j
    BY <1>4, <1>5, <1>6
  <2> QED
    BY <2>1
<1> QED
  BY <1>1, <1>4, <1>5, <1>6, <1>7 DEF Stretch

\* A piece with nothing in it, and the whole.
LEMMA PartEnds ==
    ASSUME NEW T, NEW W \in Seq(T)
    PROVE  /\ \A a, b \in Int : b <= a => Stretch(W, a, b) = <<>>
           /\ Stretch(W, 0, Len(W)) = W
<1>1. ASSUME NEW a \in Int, NEW b \in Int, b <= a
      PROVE  Stretch(W, a, b) = <<>>
  <2>1. PICK m \in Int : m = a + 1 /\ b < m
    BY <1>1
  <2> QED
    BY <2>1, SubSeqEmpty DEF Stretch
<1>2. Stretch(W, 0, Len(W)) = W
  BY SubSeqFull DEF Stretch
<1> QED
  BY <1>1, <1>2

\* Adjacent pieces make one.
LEMMA PartJoins ==
    ASSUME NEW T, NEW W \in Seq(T), NEW a \in Nat, NEW b \in Nat, NEW c \in Nat,
           a <= b, b <= c, c <= Len(W)
    PROVE  Stretch(W, a, b) \o Stretch(W, b, c) = Stretch(W, a, c)
<1>1. Len(W) \in Nat
  BY LenProperties
<1>2. PICK m : m = a + 1
  OBVIOUS
<1>3. m \in 1 .. Len(W) + 1 /\ b \in m - 1 .. Len(W) /\ c \in b .. Len(W)
  BY <1>1, <1>2
<1>4. SubSeq(W, m, b) \o SubSeq(W, b + 1, c) = SubSeq(W, m, c)
  BY <1>3, ConcatAdjacentSubSeq
<1> QED
  BY <1>2, <1>4 DEF Stretch

\* A piece of a piece.
LEMMA PartOfPart ==
    ASSUME NEW T, NEW W \in Seq(T), NEW a \in Nat, NEW b \in Nat, a <= b, b <= Len(W),
           NEW k \in Nat, NEW m \in Nat, k <= m, m <= b - a
    PROVE  Stretch(Stretch(W, a, b), k, m) = Stretch(W, a + k, a + m)
<1>0. /\ Stretch(W, a, b) \in Seq(T) /\ Len(Stretch(W, a, b)) = b - a
      /\ \A j \in 1 .. b - a : Stretch(W, a, b)[j] = W[a + j]
  BY PartIs, Zenon
<1>1. PICK V \in Seq(T) : /\ V = Stretch(W, a, b) /\ Len(V) = b - a
                          /\ \A j \in 1 .. b - a : V[j] = W[a + j]
  BY <1>0, Zenon
<1>2. PICK x \in Nat : x = a + k
  OBVIOUS
<1>3. PICK y \in Nat : y = a + m
  OBVIOUS
<1>4. m <= Len(V)
  BY <1>1
<1>x. x <= y /\ y <= Len(W)
  <2>1. Len(W) \in Nat
    BY LenProperties
  <2> QED
    BY <1>1, <1>2, <1>3, <2>1
<1>y. y - x = m - k
  BY <1>2, <1>3
<1>s. /\ Stretch(V, k, m) \in Seq(T) /\ Len(Stretch(V, k, m)) = m - k
      /\ \A j \in 1 .. m - k : Stretch(V, k, m)[j] = V[k + j]
  BY <1>4, PartIs, ZenonT(40)
<1>5. PICK s : s = Stretch(V, k, m) /\ s \in Seq(T) /\ Len(s) = m - k /\ \A j \in 1 .. m - k : s[j] = V[k + j]
  BY <1>s, Zenon
<1>t. /\ Stretch(W, x, y) \in Seq(T) /\ Len(Stretch(W, x, y)) = y - x
      /\ \A j \in 1 .. y - x : Stretch(W, x, y)[j] = W[x + j]
  BY <1>x, PartIs, ZenonT(40)
<1>6. PICK t : t = Stretch(W, x, y) /\ t \in Seq(T) /\ Len(t) = y - x /\ \A j \in 1 .. y - x : t[j] = W[x + j]
  BY <1>t, Zenon
<1>7. \A j \in 1 .. Len(s) : s[j] = t[j]
  <2> SUFFICES ASSUME NEW j \in 1 .. Len(s)
               PROVE  s[j] = t[j]
    OBVIOUS
  <2>1. j \in 1 .. m - k /\ j \in 1 .. y - x
    BY <1>y, <1>5
  <2>2. PICK i : i = k + j
    OBVIOUS
  <2>3. i \in 1 .. b - a /\ a + i = x + j
    BY <1>2, <2>1, <2>2
  <2>4. s[j] = V[i] /\ V[i] = W[a + i] /\ t[j] = W[x + j]
    BY <1>1, <1>5, <1>6, <2>1, <2>2, <2>3
  <2> QED
    BY <2>3, <2>4
<1>8. s = t
  BY <1>y, <1>5, <1>6, <1>7, SeqEqual
<1> QED
  BY <1>1, <1>2, <1>3, <1>5, <1>6, <1>8

\* A stream that goes on keeps its pieces, and ends with what is new.
LEMMA PartOfMore ==
    ASSUME NEW T, NEW W \in Seq(T), NEW x \in Seq(T)
    PROVE  /\ W \o x \in Seq(T) /\ Len(W \o x) = Len(W) + Len(x)
           /\ \A a, b \in Nat : a <= b /\ b <= Len(W) => Stretch(W \o x, a, b) = Stretch(W, a, b)
           /\ Stretch(W \o x, Len(W), Len(W) + Len(x)) = x
<1>0. PICK V : V = W \o x
  OBVIOUS
<1>1. /\ V \in Seq(T) /\ Len(V) = Len(W) + Len(x)
      /\ \A i \in 1 .. Len(W) + Len(x) : V[i] = IF i <= Len(W) THEN W[i] ELSE x[i - Len(W)]
  BY <1>0, ConcatProperties
<1>v. V \in Seq(T)
  BY <1>1
<1>2. PICK n \in Nat : n = Len(W)
  BY LenProperties
<1>3. PICK l \in Nat : l = Len(x)
  BY LenProperties
<1>4. ASSUME NEW a \in Nat, NEW b \in Nat, a <= b, b <= Len(W)
      PROVE  Stretch(V, a, b) = Stretch(W, a, b)
  <2>1. b <= Len(V)
    BY <1>1, <1>2, <1>3, <1>4
  <2>s. /\ Stretch(V, a, b) \in Seq(T) /\ Len(Stretch(V, a, b)) = b - a
        /\ \A j \in 1 .. b - a : Stretch(V, a, b)[j] = V[a + j]
    BY <1>v, <1>4, <2>1, PartIs, Zenon
  <2>2. PICK s : s = Stretch(V, a, b) /\ s \in Seq(T) /\ Len(s) = b - a /\ \A j \in 1 .. b - a : s[j] = V[a + j]
    BY <2>s, Zenon
  <2>t. /\ Stretch(W, a, b) \in Seq(T) /\ Len(Stretch(W, a, b)) = b - a
        /\ \A j \in 1 .. b - a : Stretch(W, a, b)[j] = W[a + j]
    BY <1>4, PartIs, Zenon
  <2>3. PICK t : t = Stretch(W, a, b) /\ t \in Seq(T) /\ Len(t) = b - a /\ \A j \in 1 .. b - a : t[j] = W[a + j]
    BY <2>t, Zenon
  <2>4. ASSUME NEW j \in 1 .. Len(s)
        PROVE  s[j] = t[j]
    <3>1. PICK i : i = a + j
      OBVIOUS
    <3>2. j \in 1 .. b - a /\ i \in 1 .. n + l /\ i <= n
      BY <1>2, <1>3, <1>4, <2>2, <3>1
    <3>3. V[i] = W[i]
      BY <1>1, <1>2, <1>3, <3>2
    <3>4. s[j] = V[i] /\ t[j] = W[i]
      BY <2>2, <2>3, <3>1, <3>2
    <3> QED
      BY <3>3, <3>4
  <2>5. s = t
    BY <2>2, <2>3, <2>4, SeqEqual
  <2> QED
    BY <2>2, <2>3, <2>5
<1>5. Stretch(V, n, n + l) = x
  <2>1. PICK e \in Nat : e = n + l /\ n <= e /\ e <= Len(V) /\ e - n = l
    BY <1>1, <1>2, <1>3
  <2>s. /\ Stretch(V, n, e) \in Seq(T) /\ Len(Stretch(V, n, e)) = e - n
        /\ \A j \in 1 .. e - n : Stretch(V, n, e)[j] = V[n + j]
    <3>1. n <= e /\ e <= Len(V)
      BY <2>1
    <3> QED
      BY <1>v, <3>1, PartIs, Zenon
  <2>2. PICK s : s = Stretch(V, n, e) /\ s \in Seq(T) /\ Len(s) = e - n /\ \A j \in 1 .. e - n : s[j] = V[n + j]
    BY <2>s, Zenon
  <2>3. ASSUME NEW j \in 1 .. Len(s)
        PROVE  s[j] = x[j]
    <3>1. PICK i : i = n + j
      OBVIOUS
    <3>2. j \in 1 .. e - n /\ i \in 1 .. n + l /\ ~ (i <= n) /\ i - n = j
      BY <2>1, <2>2, <3>1
    <3>3. V[i] = x[i - n]
      BY <1>1, <1>2, <1>3, <3>2
    <3>4. s[j] = V[i]
      BY <2>2, <3>1, <3>2
    <3> QED
      BY <3>2, <3>3, <3>4
  <2>4. s = x
    BY <1>3, <2>1, <2>2, <2>3, SeqEqual
  <2> QED
    BY <2>1, <2>2, <2>4
<1> QED
  BY <1>0, <1>1, <1>2, <1>3, <1>4, <1>5

-----------------------------------------------------------------------------
(* Listing a finite set in order *)

\* How many come before x.
RankIn(S, R, x) == Cardinality({y \in S : <<y, x>> \in R})
Orders(R, S) ==
    /\ \A x \in S : <<x, x>> \notin R
    /\ \A x, y \in S : x # y => <<x, y>> \in R \/ <<y, x>> \in R
    /\ \A x, y, z \in S : <<x, y>> \in R /\ <<y, z>> \in R => <<x, z>> \in R

\* What comes before goes down the order, and the ranks up.
LEMMA RanksGrow ==
    ASSUME NEW S, IsFiniteSet(S), NEW R, Orders(R, S), NEW x \in S, NEW z \in S, <<x, z>> \in R
    PROVE  RankIn(S, R, x) < RankIn(S, R, z)
<1> DEFINE A == {y \in S : <<y, x>> \in R}
           B == {y \in S : <<y, z>> \in R}
<1>1. A \subseteq B /\ x \in B /\ x \notin A
  BY DEF Orders
<1>2. B \in SUBSET S
  OBVIOUS
<1>3. RankIn(S, R, x) = Cardinality(A) /\ RankIn(S, R, z) = Cardinality(B)
  BY DEF RankIn
<1> HIDE DEF A, B
<1>4. IsFiniteSet(B)
  BY <1>2, FS_Subset
<1>5. A \in SUBSET B
  BY <1>1
<1>6. IsFiniteSet(A) /\ Cardinality(A) <= Cardinality(B) /\ (Cardinality(B) = Cardinality(A) => B = A)
  BY <1>4, <1>5, FS_Subset
<1>7. Cardinality(A) \in Nat /\ Cardinality(B) \in Nat
  BY <1>4, <1>6, FS_CardinalityType
<1>8. B # A
  BY <1>1
<1> QED
  BY <1>3, <1>6, <1>7, <1>8

\* Each element has a rank of its own, and each number is a rank.
LEMMA RanksAre ==
    ASSUME NEW S, IsFiniteSet(S), NEW R, Orders(R, S)
    PROVE  /\ \A x \in S : RankIn(S, R, x) \in Nat /\ RankIn(S, R, x) + 1 \in 1 .. Cardinality(S)
           /\ \A x, z \in S : RankIn(S, R, x) = RankIn(S, R, z) => x = z
           /\ \A k \in 1 .. Cardinality(S) : \E x \in S : RankIn(S, R, x) = k - 1
<1>1. PICK n \in Nat : n = Cardinality(S)
  BY FS_CardinalityType
<1>2. ASSUME NEW x \in S
      PROVE  RankIn(S, R, x) \in Nat /\ RankIn(S, R, x) < n
  <2> DEFINE A == {y \in S : <<y, x>> \in R}
             B == S \ {x}
  <2>1. A \in SUBSET B
    BY DEF Orders
  <2>2. RankIn(S, R, x) = Cardinality(A)
    BY DEF RankIn
  <2>3. IsFiniteSet(B) /\ Cardinality(B) = n - 1
    <3>1. IsFiniteSet(B) /\ Cardinality(B) = IF x \in S THEN Cardinality(S) - 1 ELSE Cardinality(S)
      BY FS_RemoveElement, Zenon
    <3> QED
      BY <1>1, <3>1
  <2> HIDE DEF A, B
  <2>4. IsFiniteSet(A) /\ Cardinality(A) <= Cardinality(B)
    BY <2>1, <2>3, FS_Subset
  <2>5. Cardinality(A) \in Nat
    BY <2>4, FS_CardinalityType
  <2> QED
    BY <1>1, <2>2, <2>3, <2>4, <2>5
<1>3. ASSUME NEW x \in S, NEW z \in S, RankIn(S, R, x) = RankIn(S, R, z)
      PROVE  x = z
  <2>1. ASSUME <<x, z>> \in R
        PROVE  FALSE
    <3>1. RankIn(S, R, x) < RankIn(S, R, z)
      BY <2>1, RanksGrow
    <3> QED
      BY <1>2, <1>3, <3>1
  <2>2. ASSUME <<z, x>> \in R
        PROVE  FALSE
    <3>1. RankIn(S, R, z) < RankIn(S, R, x)
      BY <2>2, RanksGrow
    <3> QED
      BY <1>2, <1>3, <3>1
  <2> QED
    BY <2>1, <2>2 DEF Orders
<1> DEFINE f == [x \in S |-> RankIn(S, R, x) + 1]
<1>4. \A x \in S : f[x] \in 1 .. n
  BY <1>2
<1>5. \A x, z \in S : f[x] = f[z] => x = z
  <2> SUFFICES ASSUME NEW x \in S, NEW z \in S, f[x] = f[z]
               PROVE  x = z
    OBVIOUS
  <2>1. RankIn(S, R, x) = RankIn(S, R, z)
    BY <1>2
  <2> QED
    BY <1>3, <2>1
<1>6. f \in Injection(S, 1 .. n)
  <2>1. f \in [S -> 1 .. n]
    BY <1>4
  <2> HIDE DEF f
  <2> QED
    BY <1>5, <2>1 DEF Injection, IsInjective
<1>7. IsFiniteSet(1 .. n) /\ Cardinality(1 .. n) = n
  <2>1. 1 \in Int /\ n \in Int
    OBVIOUS
  <2>2. IsFiniteSet(1 .. n) /\ Cardinality(1 .. n) = IF 1 > n THEN 0 ELSE n - 1 + 1
    BY <2>1, FS_Interval, Zenon
  <2> QED
    BY <2>2
<1>8. \A k \in 1 .. n : \E x \in S : f[x] = k
  <2> HIDE DEF f
  <2>1. PICK T : T = 1 .. n
    OBVIOUS
  <2>2. IsFiniteSet(T) /\ f \in Injection(S, T)
    BY <1>6, <1>7, <2>1
  <2>3. Cardinality(S) = Cardinality(T) <=> f \in Surjection(S, T)
    BY <2>2, FS_Injection, Zenon
  <2>4. f \in Surjection(S, T)
    BY <1>1, <1>7, <2>1, <2>3
  <2> QED
    BY <2>1, <2>4 DEF Surjection
<1>9. \A k \in 1 .. n : \E x \in S : RankIn(S, R, x) = k - 1
  <2> SUFFICES ASSUME NEW k \in 1 .. n
               PROVE  \E x \in S : RankIn(S, R, x) = k - 1
    OBVIOUS
  <2>1. PICK x \in S : f[x] = k
    BY <1>8
  <2>2. RankIn(S, R, x) + 1 = k /\ RankIn(S, R, x) \in Nat
    BY <1>2, <2>1
  <2> HIDE DEF f
  <2>3. RankIn(S, R, x) = k - 1
    BY <2>2
  <2> QED
    BY <2>3
<1>10. \A x \in S : RankIn(S, R, x) \in Nat /\ RankIn(S, R, x) + 1 \in 1 .. n
  BY <1>2
<1> QED
  BY <1>1, <1>3, <1>9, <1>10

\* So a set can be listed in order.
Lists(s, S) ==
    /\ DOMAIN s = 1 .. Cardinality(S) /\ Cardinality(S) \in Nat
    /\ \A k \in DOMAIN s : s[k] \in S
    /\ \A x \in S : \E k \in DOMAIN s : s[k] = x
LEMMA ListedInOrder ==
    ASSUME NEW S, IsFiniteSet(S), NEW R, Orders(R, S),
           NEW s, DOMAIN s = 1 .. Cardinality(S),
           \A k \in DOMAIN s : (\E x \in S : RankIn(S, R, x) = k - 1)
                                  => s[k] \in S /\ RankIn(S, R, s[k]) = k - 1
    PROVE  Lists(s, S)
<1>1. PICK n \in Nat : n = Cardinality(S)
  BY FS_CardinalityType
<1>2. \A k \in 1 .. n : s[k] \in S /\ RankIn(S, R, s[k]) = k - 1
  <2> SUFFICES ASSUME NEW k \in 1 .. n
               PROVE  s[k] \in S /\ RankIn(S, R, s[k]) = k - 1
    OBVIOUS
  <2>1. \E x \in S : RankIn(S, R, x) = k - 1
    BY <1>1, RanksAre
  <2>2. k \in DOMAIN s
    BY <1>1
  <2> QED
    BY <2>1, <2>2
<1>3. ASSUME NEW x \in S
      PROVE  \E k \in 1 .. n : s[k] = x
  <2>1. PICK k \in 1 .. n : k = RankIn(S, R, x) + 1
    BY <1>1, RanksAre
  <2>2. RankIn(S, R, x) = k - 1
    <3>1. RankIn(S, R, x) \in Nat
      BY RanksAre
    <3> QED
      BY <2>1, <3>1
  <2>3. RankIn(S, R, s[k]) = RankIn(S, R, x) /\ s[k] \in S
    BY <1>2, <2>2
  <2>4. s[k] = x
    BY <2>3, RanksAre
  <2> QED
    BY <2>4
<1>4. DOMAIN s = 1 .. n
  BY <1>1
<1> QED
  BY <1>1, <1>2, <1>3, <1>4 DEF Lists

=============================================================================
