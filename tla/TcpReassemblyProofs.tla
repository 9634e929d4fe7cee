------------------------ MODULE TcpReassemblyProofs ------------------------
(***************************************************************************)
(* Proofs about TcpReassembly, for streams of any length, any number of    *)
(* directions, every modulus more than twice a stream and its SYN and FIN, *)
(* and any caps of the out-of-order buffers.                               *)
(*                                                                         *)
(* The code compares wrapped sequence numbers; the proof counts in         *)
(* positions of the stream.  Within half the modulus the two agree         *)
(* (NumbersCompare), so that what a segment carries, trims and joins can   *)
(* be said of positions (CutIs, TrimmedIs, JoinsMeans).  A direction then  *)
(* holds what Streams says: between calls of observe the chunks so far are *)
(* the payload between two positions, and the buffer is sorted, counted    *)
(* and settled, that is, nothing in it joins the stream.                   *)
(*                                                                         *)
(* Consume makes as many rounds as there are buffered segments.  By        *)
(* induction over the rounds each of them has either settled the buffer    *)
(* or left one segment fewer (RoundsAdd, ConsumeIs), which is why the      *)
(* buffer is settled after the last.  Outcome then says what one segment   *)
(* does in each of the cases of observe (ObserveIs), and the invariant     *)
(* IInv adds the byte cap that the directions share.                       *)
(***************************************************************************)
EXTENDS TcpReassembly, SequenceTheorems, SumLemmas

-----------------------------------------------------------------------------
(* Sequence numbers: the positions of a stream take less than half of the     *)
(* numbers, so wrapped comparison is comparison of positions.                 *)

Ends(d) == 0 .. StreamLen[d] + 2

\* Taking the remainder of a number less than one modulus away from the range.
LEMMA Wraps ==
    ASSUME NEW x \in Int, - Modulus <= x, x < 2 * Modulus
    PROVE  x % Modulus = IF x < 0 THEN x + Modulus ELSE IF x < Modulus THEN x ELSE x - Modulus
<1>1. Modulus \in Nat /\ Modulus > 0
  BY DirectionAssumption
<1> QED
  BY <1>1

\* A half is a half.
LEMMA Halves == Modulus \in Nat /\ Modulus > 0 /\ Modulus \div 2 \in Nat
                /\ 2 * (Modulus \div 2) = Modulus
  BY DirectionAssumption

\* A stream with the sequence number of its SYN.
Opens(d) == d \in Directions /\ isn[d] \in SeqNumbers

\* The numbers of a direction's positions.
LEMMA Numbers ==
    ASSUME NEW d, Opens(d), NEW p \in Ends(d)
    PROVE  /\ p \in Nat /\ isn[d] \in Nat /\ p < Modulus \div 2 /\ StreamLen[d] \in Nat
           /\ SeqAt(d, p) = IF isn[d] + p < Modulus THEN isn[d] + p ELSE isn[d] + p - Modulus
           /\ SeqAt(d, p) \in SeqNumbers /\ SeqAt(d, p) # None
<1>1. /\ p \in Nat /\ isn[d] \in Nat /\ isn[d] < Modulus /\ p < Modulus \div 2 /\ StreamLen[d] \in Nat
  BY ReassemblyAssumption, Halves DEF Opens, Ends, SeqNumbers
<1>2. /\ isn[d] + p \in Int /\ - Modulus <= isn[d] + p /\ isn[d] + p < 2 * Modulus
      /\ ~ (isn[d] + p < 0)
  BY <1>1, Halves
<1>3. SeqAt(d, p) = IF isn[d] + p < Modulus THEN isn[d] + p ELSE isn[d] + p - Modulus
  <2>1. PICK x \in Int : x = isn[d] + p
    BY <1>2
  <2>2. - Modulus <= x /\ x < 2 * Modulus /\ ~ (x < 0)
    BY <1>1, <2>1, Halves
  <2>3. x % Modulus = IF x < 0 THEN x + Modulus ELSE IF x < Modulus THEN x ELSE x - Modulus
    BY <2>2, Wraps
  <2> QED
    BY <1>1, <2>1, <2>2, <2>3, Halves DEF SeqAt
<1> QED
  BY <1>1, <1>2, <1>3, Halves DEF SeqNumbers, None

\* Wrapped arithmetic on the numbers is arithmetic on the positions.
LEMMA NumbersCompare ==
    ASSUME NEW d, Opens(d), NEW p \in Ends(d), NEW q \in Ends(d)
    PROVE  /\ Before(SeqAt(d, p), SeqAt(d, q)) <=> p < q
           /\ After(SeqAt(d, p), SeqAt(d, q)) <=> p > q
           /\ SeqAt(d, p) = SeqAt(d, q) <=> p = q
           /\ p <= q => (SeqAt(d, q) - SeqAt(d, p)) % Modulus = q - p
<1> DEFINE h == Modulus \div 2
           n == isn[d]
           a == SeqAt(d, p)
           b == SeqAt(d, q)
<1>1. /\ h \in Nat /\ Modulus = 2 * h /\ Modulus > 0 /\ Modulus \in Nat
  BY Halves
<1>2. /\ n \in Nat /\ n < Modulus /\ p \in Nat /\ p < h /\ q \in Nat /\ q < h
      /\ a \in Nat /\ a < Modulus /\ b \in Nat /\ b < Modulus
      /\ a = IF n + p < Modulus THEN n + p ELSE n + p - Modulus
      /\ b = IF n + q < Modulus THEN n + q ELSE n + q - Modulus
  BY Numbers, Halves DEF Opens, SeqNumbers
<1>3. /\ (a - b) % Modulus = IF a - b < 0 THEN a - b + Modulus ELSE a - b
      /\ (b - a) % Modulus = IF b - a < 0 THEN b - a + Modulus ELSE b - a
  <2> HIDE DEF a, b, n, h
  <2>1. /\ a - b \in Int /\ - Modulus <= a - b /\ a - b < 2 * Modulus /\ a - b < Modulus
        /\ b - a \in Int /\ - Modulus <= b - a /\ b - a < 2 * Modulus /\ b - a < Modulus
    BY <1>1, <1>2
  <2> QED
    BY <2>1, Wraps
<1>4. /\ Before(a, b) <=> (a - b) % Modulus >= h
      /\ After(a, b) <=> (b - a) % Modulus >= h
  BY DEF Before, After
<1> HIDE DEF a, b, n, h
<1>5. /\ Before(a, b) <=> p < q
      /\ After(a, b) <=> p > q
  BY <1>1, <1>2, <1>3, <1>4
<1>6. /\ a = b <=> p = q
      /\ p <= q => (b - a) % Modulus = q - p
  BY <1>1, <1>2, <1>3
<1> QED
  BY <1>5, <1>6 DEF a, b

\* The number some bytes further on.
LEMMA NumbersAdd ==
    ASSUME NEW d, Opens(d), NEW p \in Ends(d), NEW k \in Nat, p + k \in Ends(d)
    PROVE  (SeqAt(d, p) + k) % Modulus = SeqAt(d, p + k)
<1> DEFINE a == SeqAt(d, p)
           n == isn[d]
<1>1. /\ n \in Nat /\ n < Modulus /\ p \in Nat /\ p + k < Modulus \div 2 /\ p < Modulus \div 2
      /\ a \in Nat /\ a < Modulus
      /\ a = IF n + p < Modulus THEN n + p ELSE n + p - Modulus
      /\ SeqAt(d, p + k) = IF n + (p + k) < Modulus THEN n + (p + k) ELSE n + (p + k) - Modulus
  BY Numbers, Halves DEF Opens, SeqNumbers
<1> HIDE DEF a, n
<1>2. /\ a + k \in Int /\ - Modulus <= a + k /\ a + k < 2 * Modulus /\ ~ (a + k < 0)
  BY <1>1, Halves
<1>3. (a + k) % Modulus = IF a + k < Modulus THEN a + k ELSE a + k - Modulus
  <2>1. PICK x \in Int : x = a + k
    BY <1>2
  <2>2. - Modulus <= x /\ x < 2 * Modulus /\ ~ (x < 0)
    BY <1>1, <2>1, Halves
  <2>3. x % Modulus = IF x < 0 THEN x + Modulus ELSE IF x < Modulus THEN x ELSE x - Modulus
    BY <2>2, Wraps
  <2> QED
    BY <1>1, <2>1, <2>2, <2>3, Halves
<1>4. (a + k) % Modulus = SeqAt(d, p + k)
  BY <1>1, <1>3, Halves
<1> QED
  BY <1>4 DEF a

\* The position of a number is the one it was made from.
LEMMA NumbersName ==
    ASSUME NEW d, Opens(d), NEW p \in Ends(d)
    PROVE  PositionOf(d, SeqAt(d, p)) = p
<1>1. \A q \in 0 .. StreamLen[d] + 2 : SeqAt(d, q) = SeqAt(d, p) <=> q = p
  BY NumbersCompare DEF Ends
<1> QED
  BY <1>1 DEF PositionOf, Ends

-----------------------------------------------------------------------------
(* Payloads *)

\* The bytes from p up to q, and how many they are.
LEMMA PayloadIs ==
    ASSUME NEW d \in Directions, NEW p \in Ends(d), NEW q \in Ends(d), p <= q
    PROVE  /\ Payload(d, p, q) \in Seq(Nat)
           /\ p >= 1 /\ q <= StreamLen[d] + 1 => Len(Payload(d, p, q)) = q - p
           /\ p >= 1 /\ q = StreamLen[d] + 2 /\ p < q => Len(Payload(d, p, q)) = q - p - 1
           /\ p = 0 /\ p < q /\ q <= StreamLen[d] + 1 => Len(Payload(d, p, q)) = q - 1
           /\ p = 0 /\ q = StreamLen[d] + 2 => Len(Payload(d, p, q)) = q - 2
           /\ p = q => Payload(d, p, q) = <<>>
           /\ \A i \in 1 .. Len(Payload(d, p, q)) :
                Payload(d, p, q)[i] = (IF p = 0 THEN 1 ELSE p) + i - 1
<1> DEFINE from == IF p = 0 THEN 1 ELSE p
           to == IF q > StreamLen[d] THEN StreamLen[d] ELSE q - 1
           n == IF to - from + 1 < 0 THEN 0 ELSE to - from + 1
<1>1. StreamLen[d] \in Nat /\ p \in Nat /\ q \in Nat /\ from \in Nat /\ to \in Int /\ from >= 1
      /\ q <= StreamLen[d] + 2
  BY ReassemblyAssumption DEF Ends
<1>2. n \in Nat /\ 1 .. to - from + 1 = 1 .. n
  BY <1>1
<1>3. Payload(d, p, q) = [i \in 1 .. n |-> from + i - 1]
  BY <1>2 DEF Payload
<1> HIDE DEF from, to, n
<1>4. Payload(d, p, q) \in Seq(Nat) /\ Len(Payload(d, p, q)) = n
      /\ \A i \in 1 .. n : Payload(d, p, q)[i] = from + i - 1
  <2>1. \A i \in 1 .. n : from + i - 1 \in Nat
    BY <1>1, <1>2
  <2> QED
    BY <1>2, <1>3, <2>1
<1>5. n = 0 => Payload(d, p, q) = <<>>
  BY <1>4
<1>6. p = q => n = 0
  BY <1>1 DEF n, from, to
<1>7. /\ p >= 1 /\ q <= StreamLen[d] + 1 => n = q - p
      /\ p >= 1 /\ q = StreamLen[d] + 2 /\ p < q => n = q - p - 1
      /\ p = 0 /\ p < q /\ q <= StreamLen[d] + 1 => n = q - 1
      /\ p = 0 /\ q = StreamLen[d] + 2 => n = q - 2
  BY <1>1 DEF n, from, to
<1> QED
  BY <1>4, <1>5, <1>6, <1>7 DEF from

\* Payloads that meet make one.
LEMMA PayloadsMeet ==
    ASSUME NEW d \in Directions, NEW p \in Ends(d), NEW q \in Ends(d), NEW r \in Ends(d),
           p < q, q <= r
    PROVE  Payload(d, p, q) \o Payload(d, q, r) = Payload(d, p, r)
<1> DEFINE a == Payload(d, p, q)
           b == Payload(d, q, r)
           c == Payload(d, p, r)
<1>1. StreamLen[d] \in Nat /\ p \in Nat /\ q \in Nat /\ r \in Nat /\ q >= 1
      /\ q <= StreamLen[d] + 2 /\ r <= StreamLen[d] + 2 /\ p < r
  BY ReassemblyAssumption DEF Ends
<1>2. a \in Seq(Nat) /\ b \in Seq(Nat) /\ c \in Seq(Nat)
  BY <1>1, PayloadIs
<1>3. Len(a \o b) = Len(a) + Len(b) /\ Len(a) \in Nat /\ Len(b) \in Nat /\ a \o b \in Seq(Nat)
      /\ \A i \in 1 .. Len(a) + Len(b) :
            (a \o b)[i] = IF i <= Len(a) THEN a[i] ELSE b[i - Len(a)]
  BY <1>2, ConcatProperties
<1>4. /\ \A i \in 1 .. Len(a) : a[i] = (IF p = 0 THEN 1 ELSE p) + i - 1
      /\ \A i \in 1 .. Len(b) : b[i] = q + i - 1
      /\ \A i \in 1 .. Len(c) : c[i] = (IF p = 0 THEN 1 ELSE p) + i - 1
  BY <1>1, PayloadIs
<1>5. /\ p >= 1 /\ q <= StreamLen[d] + 1 => Len(a) = q - p
      /\ p = 0 /\ q <= StreamLen[d] + 1 => Len(a) = q - 1
  BY <1>1, PayloadIs
<1>6. CASE q = r
  <2>1. b = <<>> /\ c = a
    BY <1>1, <1>6, PayloadIs
  <2> QED
    BY <1>2, <2>1, ConcatEmptySeq
<1>7. CASE q < r
  <2>1. q <= StreamLen[d] + 1
    BY <1>1, <1>7
  <2>2. /\ q >= 1 /\ r <= StreamLen[d] + 1 => Len(b) = r - q
        /\ q >= 1 /\ r = StreamLen[d] + 2 /\ q < r => Len(b) = r - q - 1
    BY <1>1, PayloadIs
  <2>3. /\ p >= 1 /\ r <= StreamLen[d] + 1 => Len(c) = r - p
        /\ p >= 1 /\ r = StreamLen[d] + 2 /\ p < r => Len(c) = r - p - 1
        /\ p = 0 /\ p < r /\ r <= StreamLen[d] + 1 => Len(c) = r - 1
        /\ p = 0 /\ r = StreamLen[d] + 2 => Len(c) = r - 2
    BY <1>1, PayloadIs
  <2> HIDE DEF a, b, c
  <2>4. Len(c) = Len(a) + Len(b)
    <3>1. CASE p = 0
      BY <1>1, <1>5, <1>7, <2>1, <2>2, <2>3, <3>1
    <3>2. CASE p >= 1
      BY <1>1, <1>5, <1>7, <2>1, <2>2, <2>3, <3>2
    <3> QED
      BY <1>1, <3>1, <3>2
  <2>5. \A i \in 1 .. Len(c) : (a \o b)[i] = c[i]
    <3> SUFFICES ASSUME NEW i \in 1 .. Len(c)
                 PROVE  (a \o b)[i] = c[i]
      OBVIOUS
    <3>1. c[i] = (IF p = 0 THEN 1 ELSE p) + i - 1
      BY <1>4
    <3>2. CASE i <= Len(a)
      BY <1>3, <1>4, <2>4, <3>1, <3>2
    <3>3. CASE ~ (i <= Len(a))
      <4>1. i - Len(a) \in 1 .. Len(b)
        BY <1>3, <2>4, <3>3
      <4>2. (a \o b)[i] = q + (i - Len(a)) - 1
        BY <1>3, <1>4, <2>4, <3>3, <4>1
      <4>3. PICK f \in Nat : f = IF p = 0 THEN 1 ELSE p
        BY <1>1
      <4>4. f + Len(a) = q
        BY <1>1, <1>3, <1>5, <2>1, <4>3
      <4>5. i \in Int /\ c[i] = f + i - 1
        BY <3>1, <4>3
      <4>6. q + (i - Len(a)) - 1 = f + i - 1
        <5>1. PICK n \in Nat : n = Len(a)
          BY <1>3
        <5>2. q = f + n
          BY <4>4, <5>1
        <5>3. (f + n) + (i - n) - 1 = f + i - 1
          BY <4>5
        <5> QED
          BY <5>1, <5>2, <5>3
      <4> QED
        BY <4>2, <4>5, <4>6
    <3> QED
      BY <3>2, <3>3
  <2>6. a \o b = c
    BY <1>2, <1>3, <2>4, <2>5, SeqEqual
  <2> QED
    BY <2>6 DEF a, b, c
<1> QED
  BY <1>1, <1>6, <1>7

-----------------------------------------------------------------------------
(* What is released *)

\* What chunks are.
Chunks == [seq : SeqNumbers, bytes : Seq(Nat)]

\* A further chunk adds its bytes to what was released; an empty one is not made.
LEMMA BytesGrow ==
    ASSUME NEW out \in Seq(Chunks), BytesOf(out) \in Seq(Nat),
           NEW start \in SeqNumbers, NEW bytes \in Seq(Nat)
    PROVE  /\ out \o Chunk(start, bytes) \in Seq(Chunks)
           /\ BytesOf(out \o Chunk(start, bytes)) = BytesOf(out) \o bytes
<1>1. CASE bytes = <<>>
  <2>1. Chunk(start, bytes) = <<>>
    BY <1>1 DEF Chunk
  <2> QED
    BY <1>1, <2>1, ConcatEmptySeq
<1>2. CASE bytes # <<>>
  <2> DEFINE c == [seq |-> start, bytes |-> bytes]
             of(s) == [i \in DOMAIN s |-> s[i].bytes]
             t == Append(out, c)
  <2>1. Chunk(start, bytes) = <<c>> /\ c \in Chunks
    BY <1>2 DEF Chunk, Chunks
  <2>2. out \o Chunk(start, bytes) = t
    BY <2>1, AppendIsConcat
  <2>3. t \in Seq(Chunks) /\ Len(t) = Len(out) + 1 /\ t[Len(out) + 1] = c
        /\ \A i \in 1 .. Len(out) : t[i] = out[i]
    BY <2>1, AppendProperties
  <2>4. Len(out) \in Nat /\ DOMAIN out = 1 .. Len(out) /\ DOMAIN t = 1 .. Len(out) + 1
        /\ \A i \in 1 .. Len(out) : out[i] \in Chunks
    BY <2>3, LenProperties, ElementOfSeq
  <2> HIDE DEF t
  <2>5. of(out) \in Seq(Seq(Nat)) /\ Len(of(out)) = Len(out)
        /\ \A i \in 1 .. Len(out) : of(out)[i] = out[i].bytes
    <3>1. \A i \in 1 .. Len(out) : out[i].bytes \in Seq(Nat)
      BY <2>4 DEF Chunks
    <3>2. of(out) = [i \in 1 .. Len(out) |-> out[i].bytes]
      BY <2>4
    <3> QED
      BY <2>4, <3>1, <3>2, IsASeq, LenProperties
  <2>6. of(t) = Append(of(out), bytes)
    <3>1. c.bytes = bytes
      OBVIOUS
    <3> DEFINE u == Append(of(out), bytes)
    <3>2. u \in Seq(Seq(Nat)) /\ Len(u) = Len(out) + 1 /\ u[Len(out) + 1] = bytes
          /\ \A i \in 1 .. Len(out) : u[i] = of(out)[i]
      BY <2>4, <2>5, AppendProperties
    <3>3. u = [i \in 1 .. Len(out) + 1 |-> u[i]]
      BY <3>2, LenProperties
    <3>4. of(t) = [i \in 1 .. Len(out) + 1 |-> t[i].bytes]
      BY <2>4
    <3> HIDE DEF u
    <3>5. \A i \in 1 .. Len(out) + 1 : u[i] = t[i].bytes
      <4> SUFFICES ASSUME NEW i \in 1 .. Len(out) + 1
                   PROVE  u[i] = t[i].bytes
        OBVIOUS
      <4>1. CASE i = Len(out) + 1
        BY <2>3, <3>1, <3>2, <4>1
      <4>2. CASE i # Len(out) + 1
        <5>1. i \in 1 .. Len(out)
          BY <2>4, <4>2
        <5> QED
          BY <2>3, <2>5, <3>2, <5>1
      <4> QED
        BY <4>1, <4>2
    <3>6. of(t) = u
      BY <3>3, <3>4, <3>5
    <3> QED
      BY <3>6 DEF u
  <2>7. FlattenSeq(of(out)) \in Seq(Nat)
    BY DEF BytesOf
  <2>8. FlattenSeq(of(t)) = FlattenSeq(of(out)) \o bytes
    <3> HIDE DEF of
    <3> QED
      BY <2>5, <2>6, <2>7, FlattenGrows
  <2> QED
    BY <2>2, <2>3, <2>8 DEF BytesOf
<1> QED
  BY <1>1, <1>2

\* One chunk releases its bytes, and none releases nothing.
LEMMA BytesOfOne ==
    /\ BytesOf(<<>>) = <<>> /\ <<>> \in Seq(Chunks)
    /\ \A start \in SeqNumbers, bytes \in Seq(Nat) :
        Chunk(start, bytes) \in Seq(Chunks) /\ BytesOf(Chunk(start, bytes)) = bytes
<1>1. BytesOf(<<>>) = <<>> /\ <<>> \in Seq(Chunks) /\ <<>> \in Seq(Nat)
  <2>1. [i \in DOMAIN <<>> |-> <<>>[i].bytes] = <<>>
    OBVIOUS
  <2>2. FlattenSeq(<<>>) = <<>>
    BY DEF FlattenSeq
  <2> QED
    BY <2>1, <2>2 DEF BytesOf
<1>2. ASSUME NEW start \in SeqNumbers, NEW bytes \in Seq(Nat)
      PROVE  Chunk(start, bytes) \in Seq(Chunks) /\ BytesOf(Chunk(start, bytes)) = bytes
  <2>1. BytesOf(<<>> \o Chunk(start, bytes)) = <<>> \o bytes
        /\ <<>> \o Chunk(start, bytes) \in Seq(Chunks)
    BY <1>1, BytesGrow, Zenon
  <2>2. Chunk(start, bytes) \in Seq(Chunks)
    <3>1. [seq |-> start, bytes |-> bytes] \in Chunks
      BY DEF Chunks
    <3>2. <<[seq |-> start, bytes |-> bytes]>> \in Seq(Chunks)
      BY <3>1
    <3> QED
      BY <1>1, <3>2 DEF Chunk
  <2> QED
    BY <2>1, <2>2, ConcatEmptySeq
<1> QED
  BY <1>1, <1>2

-----------------------------------------------------------------------------
(* Removing from and inserting into a sequence                                *)

\* What is left when place i is taken out.
LEMMA RemoveIs ==
    ASSUME NEW T, NEW s \in Seq(T), NEW i \in 1 .. Len(s)
    PROVE  /\ RemoveAt(s, i) \in Seq(T) /\ Len(RemoveAt(s, i)) = Len(s) - 1
           /\ \A j \in 1 .. Len(s) - 1 : RemoveAt(s, i)[j] = IF j < i THEN s[j] ELSE s[j + 1]
<1> DEFINE n == Len(s)
           a == SubSeq(s, 1, i - 1)
           b == SubSeq(s, i + 1, n)
<1>1. n \in Nat /\ i \in Nat /\ i >= 1 /\ i <= n /\ i - 1 \in Int /\ i + 1 \in Int
      /\ \A j \in 1 .. n : s[j] \in T
  BY LenProperties, ElementOfSeq
<1>2. a \in Seq(T) /\ Len(a) = i - 1 /\ \A j \in 1 .. i - 1 : a[j] = s[j]
  <2>1. \A j \in 1 .. i - 1 : s[j] \in T
    BY <1>1
  <2>2. a \in Seq(T) /\ Len(a) = (IF 1 <= i - 1 THEN (i - 1) - 1 + 1 ELSE 0)
        /\ \A j \in 1 .. (i - 1) - 1 + 1 : a[j] = s[1 + j - 1]
    <3>1. PICK m \in Int : m = i - 1
      BY <1>1
    <3>2. \A j \in 1 .. m : s[j] \in T
      BY <2>1, <3>1
    <3>3. 1 \in Int
      OBVIOUS
    <3>4. SubSeq(s, 1, m) \in Seq(T) /\ Len(SubSeq(s, 1, m)) = (IF 1 <= m THEN m - 1 + 1 ELSE 0)
          /\ \A j \in 1 .. m - 1 + 1 : SubSeq(s, 1, m)[j] = s[1 + j - 1]
      BY <3>2, <3>3, SubSeqProperties
    <3> QED
      BY <3>1, <3>4
  <2>3. (i - 1) - 1 + 1 = i - 1 /\ \A j \in 1 .. i - 1 : 1 + j - 1 = j
    BY <1>1, SMTT(30)
  <2> QED
    BY <1>1, <2>2, <2>3
<1>3. b \in Seq(T) /\ Len(b) = n - i /\ \A j \in 1 .. n - i : b[j] = s[i + j]
  <2>1. \A j \in i + 1 .. n : s[j] \in T
    BY <1>1
  <2>2. b \in Seq(T) /\ Len(b) = (IF i + 1 <= n THEN n - (i + 1) + 1 ELSE 0)
        /\ \A j \in 1 .. n - (i + 1) + 1 : b[j] = s[(i + 1) + j - 1]
    BY <1>1, <2>1, SubSeqProperties
  <2>3. n - (i + 1) + 1 = n - i /\ (IF i + 1 <= n THEN n - (i + 1) + 1 ELSE 0) = n - i
    BY <1>1
  <2>4. ASSUME NEW j \in 1 .. n - i
        PROVE  b[j] = s[i + j]
    <3>1. (i + 1) + j - 1 = i + j
      BY <1>1
    <3>2. b[j] = s[(i + 1) + j - 1]
      BY <2>2, <2>3
    <3> QED
      BY <3>1, <3>2
  <2> QED
    BY <2>2, <2>3, <2>4
<1> HIDE DEF a, b, n
<1>4. /\ a \o b \in Seq(T) /\ Len(a \o b) = (i - 1) + (n - i)
      /\ \A j \in 1 .. (i - 1) + (n - i) :
            (a \o b)[j] = IF j <= i - 1 THEN a[j] ELSE b[j - (i - 1)]
  <2>1. /\ a \o b \in Seq(T) /\ Len(a \o b) = Len(a) + Len(b)
        /\ \A j \in 1 .. Len(a) + Len(b) :
              (a \o b)[j] = IF j <= Len(a) THEN a[j] ELSE b[j - Len(a)]
    BY <1>2, <1>3, ConcatProperties
  <2> QED
    BY <1>2, <1>3, <2>1
<1>5. (i - 1) + (n - i) = n - 1
  BY <1>1
<1>6. ASSUME NEW j \in 1 .. n - 1
      PROVE  (a \o b)[j] = IF j < i THEN s[j] ELSE s[j + 1]
  <2>1. CASE j < i
    BY <1>1, <1>2, <1>4, <1>5, <2>1
  <2>2. CASE ~ (j < i)
    <3>1. j - (i - 1) \in 1 .. n - i /\ i + (j - (i - 1)) = j + 1 /\ ~ (j <= i - 1)
      BY <1>1, <2>2
    <3> QED
      BY <1>3, <1>4, <1>5, <2>2, <3>1
  <2> QED
    BY <2>1, <2>2
<1> QED
  BY <1>4, <1>5, <1>6, Zenon DEF RemoveAt, a, b, n

\* What there is when e is put in at place i.
LEMMA InsertIs ==
    ASSUME NEW T, NEW s \in Seq(T), NEW i \in 1 .. Len(s) + 1, NEW e \in T
    PROVE  /\ InsertAt(s, i, e) \in Seq(T) /\ Len(InsertAt(s, i, e)) = Len(s) + 1
           /\ \A j \in 1 .. Len(s) + 1 :
                InsertAt(s, i, e)[j] = IF j < i THEN s[j] ELSE IF j = i THEN e ELSE s[j - 1]
<1> DEFINE n == Len(s)
           a == SubSeq(s, 1, i - 1)
           b == SubSeq(s, i, n)
           c == <<e>>
<1>1. n \in Nat /\ i \in Nat /\ i >= 1 /\ i <= n + 1 /\ i - 1 \in Int /\ i \in Int
      /\ \A j \in 1 .. n : s[j] \in T
  BY LenProperties, ElementOfSeq
<1>2. a \in Seq(T) /\ Len(a) = i - 1 /\ \A j \in 1 .. i - 1 : a[j] = s[j]
  <2>1. \A j \in 1 .. i - 1 : s[j] \in T
    BY <1>1
  <2>2. a \in Seq(T) /\ Len(a) = (IF 1 <= i - 1 THEN (i - 1) - 1 + 1 ELSE 0)
        /\ \A j \in 1 .. (i - 1) - 1 + 1 : a[j] = s[1 + j - 1]
    <3>1. PICK m \in Int : m = i - 1
      BY <1>1
    <3>2. \A j \in 1 .. m : s[j] \in T
      BY <2>1, <3>1
    <3>3. 1 \in Int
      OBVIOUS
    <3>4. SubSeq(s, 1, m) \in Seq(T) /\ Len(SubSeq(s, 1, m)) = (IF 1 <= m THEN m - 1 + 1 ELSE 0)
          /\ \A j \in 1 .. m - 1 + 1 : SubSeq(s, 1, m)[j] = s[1 + j - 1]
      BY <3>2, <3>3, SubSeqProperties
    <3> QED
      BY <3>1, <3>4
  <2>3. (i - 1) - 1 + 1 = i - 1 /\ \A j \in 1 .. i - 1 : 1 + j - 1 = j
    BY <1>1
  <2> QED
    BY <1>1, <2>2, <2>3
<1>3. b \in Seq(T) /\ Len(b) = n - i + 1 /\ \A j \in 1 .. n - i + 1 : b[j] = s[i + j - 1]
  <2>1. \A j \in i .. n : s[j] \in T
    BY <1>1
  <2>2. b \in Seq(T) /\ Len(b) = (IF i <= n THEN n - i + 1 ELSE 0)
        /\ \A j \in 1 .. n - i + 1 : b[j] = s[i + j - 1]
    BY <1>1, <2>1, SubSeqProperties
  <2> QED
    BY <1>1, <2>2
<1>4. c \in Seq(T) /\ Len(c) = 1 /\ c[1] = e
  OBVIOUS
<1> HIDE DEF a, b, c, n
<1>5. /\ a \o c \in Seq(T) /\ Len(a \o c) = (i - 1) + 1
      /\ \A j \in 1 .. (i - 1) + 1 : (a \o c)[j] = IF j <= i - 1 THEN a[j] ELSE c[j - (i - 1)]
  <2>1. /\ a \o c \in Seq(T) /\ Len(a \o c) = Len(a) + Len(c)
        /\ \A j \in 1 .. Len(a) + Len(c) :
              (a \o c)[j] = IF j <= Len(a) THEN a[j] ELSE c[j - Len(a)]
    BY <1>2, <1>4, ConcatProperties
  <2> QED
    BY <1>2, <1>4, <2>1
<1>6. /\ a \o c \in Seq(T) /\ Len(a \o c) = i
      /\ \A j \in 1 .. i : (a \o c)[j] = IF j < i THEN s[j] ELSE e
  <2>1. (i - 1) + 1 = i /\ i - (i - 1) = 1
    BY <1>1
  <2> SUFFICES ASSUME NEW j \in 1 .. i
               PROVE  (a \o c)[j] = IF j < i THEN s[j] ELSE e
    BY <1>5, <2>1
  <2>2. CASE j < i
    BY <1>1, <1>2, <1>5, <2>1, <2>2
  <2>3. CASE j = i
    <3>1. ~ (j <= i - 1) /\ j \in 1 .. (i - 1) + 1 /\ ~ (j < i)
      BY <1>1, <2>3
    <3> QED
      BY <1>4, <1>5, <2>1, <2>3, <3>1
  <2>4. j < i \/ j = i
    BY <1>1
  <2> QED
    BY <2>2, <2>3, <2>4, Zenon
<1>7. /\ (a \o c) \o b \in Seq(T) /\ Len((a \o c) \o b) = i + (n - i + 1)
      /\ \A j \in 1 .. i + (n - i + 1) :
            ((a \o c) \o b)[j] = IF j <= i THEN (a \o c)[j] ELSE b[j - i]
  <2> PICK x \in Seq(T) : x = a \o c
    BY <1>6
  <2>1. /\ x \o b \in Seq(T) /\ Len(x \o b) = Len(x) + Len(b)
        /\ \A j \in 1 .. Len(x) + Len(b) :
              (x \o b)[j] = IF j <= Len(x) THEN x[j] ELSE b[j - Len(x)]
    <3>1. b \in Seq(T)
      BY <1>3
    <3> QED
      BY <3>1, ConcatProperties
  <2>2. Len(x) = i /\ Len(b) = n - i + 1
    BY <1>3, <1>6
  <2>3. /\ x \o b \in Seq(T) /\ Len(x \o b) = i + (n - i + 1)
        /\ \A j \in 1 .. i + (n - i + 1) : (x \o b)[j] = IF j <= i THEN x[j] ELSE b[j - i]
    BY <2>1, <2>2, Zenon
  <2> QED
    BY <2>3
<1>8. i + (n - i + 1) = n + 1
  BY <1>1
<1>9. ASSUME NEW j \in 1 .. n + 1
      PROVE  ((a \o c) \o b)[j] = IF j < i THEN s[j] ELSE IF j = i THEN e ELSE s[j - 1]
  <2>1. CASE j <= i
    <3>1. j \in 1 .. i /\ j \in 1 .. i + (n - i + 1)
      BY <1>1, <1>8, <2>1
    <3>2. ((a \o c) \o b)[j] = (a \o c)[j]
      BY <1>7, <2>1, <3>1, Zenon
    <3>3. (a \o c)[j] = IF j < i THEN s[j] ELSE e
      BY <1>6, <3>1, Zenon
    <3>4. j < i \/ j = i
      BY <1>1, <2>1
    <3> QED
      BY <3>2, <3>3, <3>4, Zenon
  <2>2. CASE j > i
    <3>1. j - i \in 1 .. n - i + 1 /\ i + (j - i) - 1 = j - 1 /\ ~ (j <= i) /\ ~ (j < i) /\ j # i
      BY <1>1, <2>2
    <3> QED
      BY <1>3, <1>7, <1>8, <3>1
  <2>3. j <= i \/ j > i
    BY <1>1
  <2> QED
    BY <2>1, <2>2, <2>3, Zenon
<1> QED
  BY <1>7, <1>8, <1>9 DEF InsertAt, a, b, c, n

\* The sum up to a place, from the sum up to the place before.
LEMMA SumOfNext ==
    ASSUME NEW n \in Nat, NEW fn, \A j \in 1 .. n + 1 : fn[j] \in Nat
    PROVE  /\ SumFunctionOnSet(fn, 1 .. n + 1) = fn[n + 1] + SumFunctionOnSet(fn, 1 .. n)
           /\ SumFunctionOnSet(fn, 1 .. n) \in Nat
<1>1. IsFiniteSet(1 .. n + 1) /\ n + 1 \in 1 .. n + 1 /\ IsFiniteSet(1 .. n)
  BY FS_Interval
<1>2. (1 .. n + 1) \ {n + 1} = 1 .. n
  OBVIOUS
<1>3. \A j \in 1 .. n : fn[j] \in Nat
  OBVIOUS
<1>4. SumFunctionOnSet(fn, 1 .. n + 1) = fn[n + 1] + SumFunctionOnSet(fn, (1 .. n + 1) \ {n + 1})
  BY <1>1, SumSplits
<1>5. SumFunctionOnSet(fn, 1 .. n) \in Nat
  BY <1>1, <1>3, SumIsNumber
<1> QED
  BY <1>2, <1>4, <1>5

\* fn has one value more than hn, at place i, and those after it moved up.
Widens(fn, hn, i, n) ==
    /\ n \in Nat /\ i \in 1 .. n + 1
    /\ \A j \in 1 .. n + 1 : fn[j] \in Nat
    /\ \A j \in 1 .. n : hn[j] = IF j < i THEN fn[j] ELSE fn[j + 1]

\* The sum grows by that value.
LEMMA SumWidens ==
    ASSUME NEW fn, NEW hn, NEW i, NEW n, Widens(fn, hn, i, n)
    PROVE  /\ SumFunctionOnSet(fn, 1 .. n + 1) = SumFunctionOnSet(hn, 1 .. n) + fn[i]
           /\ SumFunctionOnSet(hn, 1 .. n) \in Nat
<1> DEFINE f(k) == SumFunctionOnSet(fn, 1 .. k)
           h(k) == SumFunctionOnSet(hn, 1 .. k)
           N == {k \in Nat : k <= n =>
                    h(k) \in Nat /\ (IF k < i THEN h(k) = f(k) ELSE f(k + 1) = h(k) + fn[i])}
<1>1. /\ n \in Nat /\ i \in 1 .. n + 1
      /\ \A j \in 1 .. n + 1 : fn[j] \in Nat
      /\ \A j \in 1 .. n : hn[j] = IF j < i THEN fn[j] ELSE fn[j + 1]
  BY DEF Widens
<1>2. \A j \in 1 .. n : hn[j] \in Nat
  <2> SUFFICES ASSUME NEW j \in 1 .. n
               PROVE  hn[j] \in Nat
    OBVIOUS
  <2>1. j \in 1 .. n + 1 /\ j + 1 \in 1 .. n + 1
    BY <1>1
  <2> QED
    BY <1>1, <2>1
<1>3. \A k \in Nat : k <= n => f(k + 1) = fn[k + 1] + f(k) /\ f(k) \in Nat
  <2> SUFFICES ASSUME NEW k \in Nat, k <= n
               PROVE  f(k + 1) = fn[k + 1] + f(k) /\ f(k) \in Nat
    OBVIOUS
  <2>1. \A j \in 1 .. k + 1 : fn[j] \in Nat
    BY <1>1
  <2> QED
    BY <2>1, SumOfNext
<1>4. \A k \in Nat : k + 1 <= n => h(k + 1) = hn[k + 1] + h(k) /\ h(k) \in Nat
  <2> SUFFICES ASSUME NEW k \in Nat, k + 1 <= n
               PROVE  h(k + 1) = hn[k + 1] + h(k) /\ h(k) \in Nat
    OBVIOUS
  <2>1. \A j \in 1 .. k + 1 : hn[j] \in Nat
    BY <1>1, <1>2
  <2> QED
    BY <2>1, SumOfNext
<1>5. f(0) = 0 /\ h(0) = 0
  <2>1. 1 .. 0 = {}
    OBVIOUS
  <2> QED
    BY <2>1, SumOfNothing
<1> HIDE DEF f, h
<1>6. 0 \in N
  BY <1>1, <1>5
<1>7. ASSUME NEW k \in Nat, k \in N
      PROVE  k + 1 \in N
  <2> SUFFICES ASSUME k + 1 <= n
               PROVE  /\ h(k + 1) \in Nat
                      /\ IF k + 1 < i THEN h(k + 1) = f(k + 1) ELSE f((k + 1) + 1) = h(k + 1) + fn[i]
    OBVIOUS
  <2>1. /\ h(k) \in Nat
        /\ IF k < i THEN h(k) = f(k) ELSE f(k + 1) = h(k) + fn[i]
    BY <1>1, <1>7
  <2>2. /\ h(k + 1) = hn[k + 1] + h(k) /\ f(k + 1) = fn[k + 1] + f(k)
        /\ f((k + 1) + 1) = fn[(k + 1) + 1] + f(k + 1)
    BY <1>1, <1>3, <1>4
  <2>3. k + 1 \in 1 .. n /\ (k + 1) + 1 \in 1 .. n + 1 /\ k + 1 \in 1 .. n + 1
    BY <1>1
  <2>4. hn[k + 1] \in Nat /\ fn[k + 1] \in Nat /\ fn[(k + 1) + 1] \in Nat /\ fn[i] \in Nat
        /\ hn[k + 1] = IF k + 1 < i THEN fn[k + 1] ELSE fn[(k + 1) + 1]
    BY <1>1, <1>2, <2>3
  <2>5. CASE k + 1 < i
    BY <1>1, <2>1, <2>2, <2>4, <2>5
  <2>6. CASE k + 1 = i
    <3>1. k < i /\ ~ (k + 1 < i) /\ fn[i] = fn[k + 1]
      BY <2>6
    <3> QED
      BY <2>1, <2>2, <2>4, <3>1
  <2>7. CASE k >= i
    BY <1>1, <2>1, <2>2, <2>4, <2>7
  <2> QED
    BY <1>1, <2>5, <2>6, <2>7
<1>8. n \in N
  <2> HIDE DEF N
  <2> QED
    BY <1>1, <1>6, <1>7, NumberInduction
<1>9. CASE i = n + 1
  <2>1. f(n + 1) = fn[n + 1] + f(n) /\ h(n) = f(n) /\ h(n) \in Nat /\ fn[n + 1] = fn[i]
        /\ fn[i] \in Nat
    BY <1>1, <1>3, <1>8, <1>9
  <2> QED
    BY <2>1 DEF f, h
<1>10. CASE i # n + 1
  BY <1>1, <1>8, <1>10 DEF f, h
<1> QED
  BY <1>9, <1>10

-----------------------------------------------------------------------------
(* Segments, arriving and held                                                *)

\* A segment that waits: it carries positions p up to q, and not the SYN.
HeldAt(d, p, q) ==
    [start |-> SeqAt(d, p), end |-> SeqAt(d, q), payload_start |-> SeqAt(d, p),
     bytes |-> Payload(d, p, q)]

HeldSegments(d) ==
    UNION {{HeldAt(d, p, q) : q \in p + 1 .. StreamLen[d] + 2} : p \in 1 .. StreamLen[d] + 2}

\* The positions of a segment that waits.
LEMMA HeldIs ==
    ASSUME NEW d, Opens(d), NEW s \in HeldSegments(d)
    PROVE  \E p, q \in Ends(d) : 1 <= p /\ p < q /\ s = HeldAt(d, p, q)
<1>1. StreamLen[d] \in Nat
  BY ReassemblyAssumption DEF Opens
<1>2. PICK p \in 1 .. StreamLen[d] + 2 :
        \E q \in p + 1 .. StreamLen[d] + 2 : s = HeldAt(d, p, q)
  BY DEF HeldSegments
<1>3. PICK q \in p + 1 .. StreamLen[d] + 2 : s = HeldAt(d, p, q)
  BY <1>2
<1>4. p \in Ends(d) /\ q \in Ends(d) /\ 1 <= p /\ p < q
  BY <1>1 DEF Ends
<1> QED
  BY <1>3, <1>4

\* Any such positions make one.
LEMMA HeldFits ==
    ASSUME NEW d, Opens(d), NEW p \in Ends(d), NEW q \in Ends(d), 1 <= p, p < q
    PROVE  HeldAt(d, p, q) \in HeldSegments(d) /\ HeldAt(d, p, q) \in BufferedType
<1>1. StreamLen[d] \in Nat
  BY ReassemblyAssumption DEF Opens
<1>2. p \in 1 .. StreamLen[d] + 2 /\ q \in p + 1 .. StreamLen[d] + 2
  BY <1>1 DEF Ends
<1>3. SeqAt(d, p) \in SeqNumbers /\ SeqAt(d, q) \in SeqNumbers /\ Payload(d, p, q) \in Seq(Nat)
  <2>1. p <= q
    BY <1>1, <1>2
  <2> QED
    BY <2>1, Numbers, PayloadIs DEF Opens
<1> QED
  BY <1>2, <1>3 DEF HeldSegments, HeldAt, BufferedType

\* It joins the stream when it carries the next position.
LEMMA JoinsMeans ==
    ASSUME NEW d, Opens(d), NEW p \in Ends(d), NEW q \in Ends(d), p < q, NEW n \in Ends(d)
    PROVE  Joins(HeldAt(d, p, q), SeqAt(d, n)) <=> p <= n /\ n < q
<1> DEFINE s == HeldAt(d, p, q)
<1>1. s.start = SeqAt(d, p) /\ s.end = SeqAt(d, q)
  BY DEF HeldAt
<1>2. /\ SeqAt(d, p) = SeqAt(d, n) <=> p = n
      /\ Before(SeqAt(d, p), SeqAt(d, n)) <=> p < n
      /\ After(SeqAt(d, q), SeqAt(d, n)) <=> q > n
  BY NumbersCompare
<1>3. p \in Nat /\ q \in Nat /\ n \in Nat
  BY Numbers
<1> QED
  BY <1>1, <1>2, <1>3 DEF Joins

\* What a segment of the stream is.
LEMMA CutIs ==
    ASSUME NEW d, Opens(d), NEW p \in Ends(d), NEW q \in Ends(d), p <= q
    PROVE  LET seg == Cut(d, p, q)
           IN  /\ seg.start = SeqAt(d, p) /\ End(seg) = SeqAt(d, q) /\ Span(seg) = q - p
               /\ seg.payload = Payload(d, p, q) /\ seg.payload \in Seq(Nat)
               /\ seg.rst = FALSE /\ seg.fin \in BOOLEAN
               /\ seg.fin <=> q = StreamLen[d] + 2 /\ p < q
               /\ p # 0 => PayloadStart(seg) = SeqAt(d, p)
               /\ p = 0 /\ p < q => PayloadStart(seg) = SeqAt(d, 1)
               /\ PayloadStart(seg) \in SeqNumbers
<1> DEFINE seg == Cut(d, p, q)
<1>1. StreamLen[d] \in Nat /\ p \in Nat /\ q \in Nat /\ q <= StreamLen[d] + 2
  BY ReassemblyAssumption DEF Opens, Ends
<1>2. /\ seg.start = SeqAt(d, p) /\ seg.syn = (p = 0 /\ q > 0) /\ seg.rst = FALSE
      /\ seg.fin = (q = StreamLen[d] + 2 /\ p < q) /\ seg.payload = Payload(d, p, q)
  BY DEF Cut
<1>3. seg.payload \in Seq(Nat)
  BY <1>2, PayloadIs DEF Opens
<1> HIDE DEF seg
<1>4. /\ Len(seg.payload) \in Nat
      /\ p >= 1 /\ q <= StreamLen[d] + 1 => Len(seg.payload) = q - p
      /\ p >= 1 /\ q = StreamLen[d] + 2 /\ p < q => Len(seg.payload) = q - p - 1
      /\ p = 0 /\ p < q /\ q <= StreamLen[d] + 1 => Len(seg.payload) = q - 1
      /\ p = 0 /\ q = StreamLen[d] + 2 => Len(seg.payload) = q - 2
      /\ p = q => Len(seg.payload) = 0
  <2>1. /\ p >= 1 /\ q <= StreamLen[d] + 1 => Len(Payload(d, p, q)) = q - p
        /\ p >= 1 /\ q = StreamLen[d] + 2 /\ p < q => Len(Payload(d, p, q)) = q - p - 1
        /\ p = 0 /\ p < q /\ q <= StreamLen[d] + 1 => Len(Payload(d, p, q)) = q - 1
        /\ p = 0 /\ q = StreamLen[d] + 2 => Len(Payload(d, p, q)) = q - 2
        /\ p = q => Payload(d, p, q) = <<>>
    BY PayloadIs DEF Opens
  <2>2. Len(seg.payload) \in Nat
    BY <1>3, LenProperties
  <2> QED
    BY <1>2, <2>1, <2>2
<1>5. Span(seg) = q - p
  <2> DEFINE x == IF seg.syn THEN 1 ELSE 0
             y == IF seg.fin THEN 1 ELSE 0
  <2>1. x = (IF p = 0 /\ q > 0 THEN 1 ELSE 0) /\ y = (IF q = StreamLen[d] + 2 /\ p < q THEN 1 ELSE 0)
    BY <1>2
  <2>2. Span(seg) = Len(seg.payload) + x + y
    BY DEF Span
  <2>3. PICK n \in Nat : n = Len(seg.payload)
    BY <1>4
  <2> HIDE DEF x, y
  <2>4. PICK L \in Nat : L = StreamLen[d]
    BY <1>1
  <2>5. /\ p >= 1 /\ q <= L + 1 => n = q - p
        /\ p >= 1 /\ q = L + 2 /\ p < q => n = q - p - 1
        /\ p = 0 /\ p < q /\ q <= L + 1 => n = q - 1
        /\ p = 0 /\ q = L + 2 => n = q - 2
        /\ p = q => n = 0
    BY <1>4, <2>3, <2>4
  <2>6. /\ x \in Nat /\ y \in Nat /\ p \in Nat /\ q \in Nat /\ q <= L + 2 /\ p <= q
        /\ p = 0 /\ q > 0 => x = 1
        /\ ~ (p = 0 /\ q > 0) => x = 0
        /\ q = L + 2 /\ p < q => y = 1
        /\ ~ (q = L + 2 /\ p < q) => y = 0
    BY <1>1, <2>1, <2>4
  <2>7. n + x + y = q - p
    <3>1. CASE p = q
      BY <2>5, <2>6, <3>1
    <3>2. CASE p < q /\ p = 0
      BY <2>5, <2>6, <3>2
    <3>3. CASE p < q /\ p >= 1
      BY <2>5, <2>6, <3>3
    <3> QED
      BY <2>6, <3>1, <3>2, <3>3
  <2> QED
    BY <2>2, <2>3, <2>7
<1>6. End(seg) = SeqAt(d, q)
  <2>1. q - p \in Nat /\ p + (q - p) = q
    BY <1>1
  <2>2. (SeqAt(d, p) + (q - p)) % Modulus = SeqAt(d, p + (q - p))
    BY <2>1, NumbersAdd
  <2> QED
    BY <1>2, <1>5, <2>1, <2>2 DEF End
<1>7. /\ p # 0 => PayloadStart(seg) = SeqAt(d, p)
      /\ p = 0 /\ p < q => PayloadStart(seg) = SeqAt(d, 1)
      /\ PayloadStart(seg) \in SeqNumbers
  <2>1. CASE seg.syn
    <3>1. 1 \in Ends(d) /\ p = 0 /\ p + 1 = 1
      <4>1. p = 0 /\ q > 0
        BY <1>2, <2>1, Zenon
      <4> QED
        BY <1>1, <4>1 DEF Ends
    <3>2. (SeqAt(d, p) + 1) % Modulus = SeqAt(d, p + 1)
      BY <3>1, NumbersAdd
    <3> QED
      BY <1>2, <2>1, <3>1, <3>2, Numbers DEF PayloadStart
  <2>2. CASE ~ seg.syn
    <3>1. p + 0 = p /\ p + 0 \in Ends(d)
      BY <1>1
    <3>2. (SeqAt(d, p) + 0) % Modulus = SeqAt(d, p + 0)
      BY <3>1, NumbersAdd
    <3> QED
      BY <1>1, <1>2, <2>2, <3>1, <3>2, Numbers DEF PayloadStart
  <2> QED
    BY <2>1, <2>2
<1> QED
  BY <1>2, <1>3, <1>5, <1>6, <1>7 DEF seg

\* The part of a payload from the next position on.
LEMMA TrimmedIs ==
    ASSUME NEW d, Opens(d), NEW p \in Ends(d), NEW q \in Ends(d), NEW n \in Ends(d),
           1 <= p, p <= n, n < q
    PROVE  \E start \in SeqNumbers :
              Trimmed(SeqAt(d, p), Payload(d, p, q), SeqAt(d, n)) = Chunk(start, Payload(d, n, q))
<1> DEFINE bytes == Payload(d, p, q)
           rest == Payload(d, n, q)
           l == Len(bytes)
           a == SeqAt(d, p)
           b == SeqAt(d, n)
<1>1. StreamLen[d] \in Nat /\ p \in Nat /\ q \in Nat /\ n \in Nat /\ q <= StreamLen[d] + 2
      /\ n >= 1 /\ p < q /\ p <= q /\ n <= q
  BY ReassemblyAssumption DEF Opens, Ends
<1>2. a \in SeqNumbers /\ b \in SeqNumbers
  BY Numbers
<1>3. /\ bytes \in Seq(Nat) /\ l \in Nat
      /\ q <= StreamLen[d] + 1 => l = q - p
      /\ q = StreamLen[d] + 2 => l = q - p - 1
      /\ \A i \in 1 .. l : bytes[i] = p + i - 1
  <2>1. /\ bytes \in Seq(Nat)
        /\ p >= 1 /\ q <= StreamLen[d] + 1 => l = q - p
        /\ p >= 1 /\ q = StreamLen[d] + 2 /\ p < q => l = q - p - 1
        /\ \A i \in 1 .. l : bytes[i] = (IF p = 0 THEN 1 ELSE p) + i - 1
    BY <1>1, PayloadIs DEF Opens
  <2>2. p # 0
    BY <1>1
  <2> QED
    BY <1>1, <2>1, <2>2, LenProperties
<1>4. /\ rest \in Seq(Nat) /\ Len(rest) \in Nat
      /\ q <= StreamLen[d] + 1 => Len(rest) = q - n
      /\ q = StreamLen[d] + 2 => Len(rest) = q - n - 1
      /\ \A i \in 1 .. Len(rest) : rest[i] = n + i - 1
  <2>1. /\ rest \in Seq(Nat)
        /\ n >= 1 /\ q <= StreamLen[d] + 1 => Len(rest) = q - n
        /\ n >= 1 /\ q = StreamLen[d] + 2 /\ n < q => Len(rest) = q - n - 1
        /\ \A i \in 1 .. Len(rest) : rest[i] = (IF n = 0 THEN 1 ELSE n) + i - 1
    BY <1>1, PayloadIs DEF Opens
  <2>2. n # 0
    BY <1>1
  <2> QED
    BY <1>1, <2>1, <2>2, LenProperties
<1>5. p + l \in Ends(d) /\ (p + l > n <=> ~ (q = StreamLen[d] + 2 /\ n = StreamLen[d] + 1))
  <2>1. PICK L \in Nat : L = StreamLen[d]
    BY <1>1
  <2>2. PICK k \in Nat : k = l
    BY <1>3
  <2>3. /\ q <= L + 1 => k = q - p
        /\ q = L + 2 => k = q - p - 1
    BY <1>3, <2>1, <2>2
  <2>4. q <= L + 2 /\ p + k <= L + 2 /\ p + k \in Nat /\ (p + k > n <=> ~ (q = L + 2 /\ n = L + 1))
    <3>1. CASE q <= L + 1
      BY <1>1, <2>1, <2>3, <3>1
    <3>2. CASE q = L + 2
      <4>1. k = q - p - 1 /\ p + k = L + 1 /\ n <= L + 1
        BY <1>1, <2>3, <3>2
      <4>2. p + k > n <=> n # L + 1
        BY <1>1, <4>1
      <4> QED
        BY <1>1, <3>2, <4>1, <4>2
    <3> QED
      BY <1>1, <2>1, <3>1, <3>2
  <2> QED
    BY <2>1, <2>2, <2>4 DEF Ends
<1>6. (a + l) % Modulus = SeqAt(d, p + l)
  BY <1>3, <1>5, NumbersAdd
<1>7. After((a + l) % Modulus, b) <=> p + l > n
  BY <1>5, <1>6, NumbersCompare
<1>8. Before(a, b) <=> p < n
  BY NumbersCompare
<1>9. (b - a) % Modulus = n - p
  BY NumbersCompare
<1>10. CASE bytes = <<>> \/ ~ (p + l > n)
  <2>1. q = StreamLen[d] + 2 /\ n = StreamLen[d] + 1
    <3>1. CASE bytes = <<>>
      <4>1. l = 0
        BY <3>1
      <4> QED
        BY <1>1, <1>3, <4>1
    <3>2. CASE ~ (p + l > n)
      BY <1>5, <3>2
    <3> QED
      BY <1>10, <3>1, <3>2
  <2>2. rest = <<>>
    <3>1. Len(rest) = 0
      BY <1>1, <1>4, <2>1
    <3> QED
      BY <1>4, <3>1
  <2>3. Trimmed(a, bytes, b) = <<>>
    BY <1>7, <1>10 DEF Trimmed
  <2>4. Chunk(a, rest) = <<>>
    BY <2>2 DEF Chunk
  <2> QED
    BY <1>2, <2>3, <2>4
<1>11. CASE bytes # <<>> /\ p + l > n /\ p = n
  <2>1. Trimmed(a, bytes, b) = Chunk(a, rest)
    BY <1>1, <1>7, <1>8, <1>11 DEF Trimmed
  <2> QED
    BY <1>2, <2>1
<1>12. CASE bytes # <<>> /\ p + l > n /\ p < n
  <2>1. Trimmed(a, bytes, b) = Chunk(b, SubSeq(bytes, (n - p) + 1, l))
    BY <1>7, <1>8, <1>9, <1>12 DEF Trimmed
  <2> DEFINE m == (n - p) + 1
             cut == SubSeq(bytes, m, l)
  <2>2. m \in Int /\ l \in Int /\ m <= l /\ m >= 1 /\ l - m + 1 = Len(rest)
    <3>1. PICK k \in Nat, j \in Nat : k = l /\ j = Len(rest)
      BY <1>3, <1>4
    <3>2. q <= StreamLen[d] + 1 \/ q = StreamLen[d] + 2
      BY <1>1
    <3>3. (k = q - p /\ j = q - n) \/ (k = q - p - 1 /\ j = q - n - 1)
      BY <1>3, <1>4, <3>1, <3>2
    <3>4. k > n - p
      BY <1>1, <1>12, <3>1
    <3>5. (n - p) + 1 \in Int /\ (n - p) + 1 <= k /\ (n - p) + 1 >= 1 /\ k - ((n - p) + 1) + 1 = j
      BY <1>1, <3>3, <3>4
    <3> QED
      BY <3>1, <3>5
  <2>3. \A i \in m .. l : bytes[i] \in Nat
    BY <1>1, <1>3, <2>2
  <2> HIDE DEF m, bytes, rest, l
  <2>4. cut \in Seq(Nat) /\ Len(cut) = (IF m <= l THEN l - m + 1 ELSE 0)
        /\ \A i \in 1 .. l - m + 1 : cut[i] = bytes[m + i - 1]
    BY <2>2, <2>3, SubSeqProperties
  <2> HIDE DEF cut
  <2>5. Len(cut) = Len(rest)
    BY <2>2, <2>4
  <2>6. \A i \in 1 .. Len(cut) : cut[i] = rest[i]
    <3> SUFFICES ASSUME NEW i \in 1 .. Len(rest)
                 PROVE  cut[i] = rest[i]
      BY <2>5
    <3>1. cut[i] = bytes[m + i - 1]
      BY <2>2, <2>4
    <3>2. m + i - 1 \in 1 .. l
      BY <1>4, <2>2
    <3>3. bytes[m + i - 1] = p + (m + i - 1) - 1
      BY <1>3, <3>2
    <3>4. p + (m + i - 1) - 1 = n + i - 1
      BY <1>1 DEF m
    <3> QED
      BY <1>4, <3>1, <3>3, <3>4
  <2>7. cut = rest
    BY <1>4, <2>4, <2>5, <2>6, SeqEqual
  <2> QED
    BY <1>2, <2>1, <2>7 DEF cut, m, bytes, rest, l
<1> QED
  BY <1>1, <1>10, <1>11, <1>12

-----------------------------------------------------------------------------
(* The out-of-order buffer                                                    *)

\* No buffered segment starts before one ahead of it, and none is held twice.
Sorted(buffered) ==
    \A i, j \in 1 .. Len(buffered) :
        i < j => /\ ~ Before(buffered[j].start, buffered[i].start)
                 /\ buffered[i].start # buffered[j].start \/ buffered[i].end # buffered[j].end

\* The payload bytes of the buffered segments.
Lengths(buffered) == [i \in DOMAIN buffered |-> Len(buffered[i].bytes)]
HeldBytes(buffered) == SumFunction(Lengths(buffered))

DirStates(d) ==
    [initial : SeqNumbers \cup {None}, next : SeqNumbers \cup {None}, fin_seen : BOOLEAN,
     buffered : Seq(HeldSegments(d)), buffered_bytes : Nat]

\* The buffer of a state is in order, counted exactly and within its cap.
Tidy(s) ==
    /\ Sorted(s.buffered)
    /\ s.buffered_bytes = HeldBytes(s.buffered)
    /\ Len(s.buffered) <= MaxSegments

\* Nothing in the buffer joins the stream.
Settled(s) == \A i \in 1 .. Len(s.buffered) : ~ Joins(s.buffered[i], s.next)

\* What buffered segments have.
LEMMA HeldParts ==
    ASSUME NEW d, Opens(d), NEW s \in HeldSegments(d)
    PROVE  s \in BufferedType /\ s.bytes \in Seq(Nat) /\ Len(s.bytes) \in Nat
<1>1. PICK p \in Ends(d), q \in Ends(d) : 1 <= p /\ p < q /\ s = HeldAt(d, p, q)
  BY HeldIs
<1>2. s \in BufferedType
  BY <1>1, HeldFits
<1> QED
  BY <1>2, LenProperties DEF BufferedType

\* The lengths of the buffered segments are numbers, one for each place.
LEMMA LengthsAre ==
    ASSUME NEW d, Opens(d), NEW b \in Seq(HeldSegments(d))
    PROVE  /\ DOMAIN Lengths(b) = 1 .. Len(b) /\ Len(b) \in Nat
           /\ \A i \in 1 .. Len(b) : Lengths(b)[i] = Len(b[i].bytes) /\ Lengths(b)[i] \in Nat
           /\ HeldBytes(b) = SumFunctionOnSet(Lengths(b), 1 .. Len(b))
           /\ HeldBytes(b) \in Nat
<1>1. DOMAIN b = 1 .. Len(b) /\ Len(b) \in Nat /\ \A i \in 1 .. Len(b) : b[i] \in HeldSegments(d)
  BY LenProperties, ElementOfSeq
<1>2. \A i \in 1 .. Len(b) : Len(b[i].bytes) \in Nat
  BY <1>1, HeldParts
<1>3. /\ DOMAIN Lengths(b) = 1 .. Len(b)
      /\ \A i \in 1 .. Len(b) : Lengths(b)[i] = Len(b[i].bytes) /\ Lengths(b)[i] \in Nat
  BY <1>1, <1>2 DEF Lengths
<1>4. HeldBytes(b) = SumFunctionOnSet(Lengths(b), 1 .. Len(b))
  BY <1>3 DEF HeldBytes, SumFunction
<1>5. IsFiniteSet(1 .. Len(b))
  BY <1>1, FS_Interval
<1>6. SumFunctionOnSet(Lengths(b), 1 .. Len(b)) \in Nat
  BY <1>3, <1>5, SumIsNumber
<1> QED
  BY <1>1, <1>3, <1>4, <1>6

\* Taking a segment out of a buffer.
LEMMA BufferShrinks ==
    ASSUME NEW d, Opens(d), NEW b \in Seq(HeldSegments(d)), NEW i \in 1 .. Len(b), Sorted(b)
    PROVE  LET a == RemoveAt(b, i)
           IN  /\ a \in Seq(HeldSegments(d)) /\ Len(a) = Len(b) - 1 /\ Len(b) \in Nat
               /\ Sorted(a)
               /\ HeldBytes(b) = HeldBytes(a) + Len(b[i].bytes)
               /\ HeldBytes(a) \in Nat /\ Len(b[i].bytes) \in Nat
<1> DEFINE a == RemoveAt(b, i)
           n == Len(a)
<1>1. /\ a \in Seq(HeldSegments(d)) /\ Len(a) = Len(b) - 1
      /\ \A j \in 1 .. Len(b) - 1 : a[j] = IF j < i THEN b[j] ELSE b[j + 1]
  BY RemoveIs
<1>2. Len(b) \in Nat /\ i \in Nat
  BY LenProperties
<1> HIDE DEF a
<1>3. n \in Nat /\ Len(b) = n + 1 /\ \A j \in 1 .. n : a[j] = IF j < i THEN b[j] ELSE b[j + 1]
  BY <1>1, <1>2
<1> HIDE DEF n
<1>4. Sorted(a)
  <2> SUFFICES ASSUME NEW j \in 1 .. n, NEW k \in 1 .. n, j < k
               PROVE  /\ ~ Before(a[k].start, a[j].start)
                      /\ a[j].start # a[k].start \/ a[j].end # a[k].end
    BY DEF Sorted, n
  <2> DEFINE x == IF j < i THEN j ELSE j + 1
             y == IF k < i THEN k ELSE k + 1
  <2>1. x \in 1 .. Len(b) /\ y \in 1 .. Len(b) /\ x < y
    BY <1>2, <1>3
  <2>2. a[j] = b[x] /\ a[k] = b[y]
    BY <1>3
  <2> HIDE DEF x, y
  <2> QED
    BY <2>1, <2>2 DEF Sorted
<1>5. /\ HeldBytes(b) = SumFunctionOnSet(Lengths(b), 1 .. n + 1)
      /\ \A j \in 1 .. n + 1 : Lengths(b)[j] = Len(b[j].bytes) /\ Lengths(b)[j] \in Nat
  BY <1>3, LengthsAre
<1>6. /\ HeldBytes(a) = SumFunctionOnSet(Lengths(a), 1 .. n)
      /\ \A j \in 1 .. n : Lengths(a)[j] = Len(a[j].bytes)
      /\ HeldBytes(a) \in Nat
  BY <1>1, LengthsAre DEF n
<1>7. Widens(Lengths(b), Lengths(a), i, n)
  <2>1. \A j \in 1 .. n : j \in 1 .. n + 1 /\ j + 1 \in 1 .. n + 1
    BY <1>3
  <2>2. \A j \in 1 .. n : Lengths(a)[j] = IF j < i THEN Lengths(b)[j] ELSE Lengths(b)[j + 1]
    BY <1>3, <1>5, <1>6, <2>1
  <2> QED
    BY <1>3, <1>5, <2>2 DEF Widens
<1>8. SumFunctionOnSet(Lengths(b), 1 .. n + 1)
        = SumFunctionOnSet(Lengths(a), 1 .. n) + Lengths(b)[i]
  BY <1>7, SumWidens
<1>9. i \in 1 .. n + 1
  BY <1>3
<1> QED
  BY <1>1, <1>2, <1>4, <1>5, <1>6, <1>8, <1>9 DEF a

-----------------------------------------------------------------------------
(* Releasing what joins the stream                                            *)

\* Between two rounds: the state, up to position n of the stream, and the chunks
\* from position a up to there.
Round(d, a, r, n) ==
    /\ r \in [state : DirStates(d), out : Seq(Chunks), advanced : BOOLEAN]
    /\ a \in Ends(d) /\ n \in Ends(d) /\ a < n
    /\ r.state.next = SeqAt(d, n)
    /\ Tidy(r.state)
    /\ BytesOf(r.out) = Payload(d, a, n)

\* Rounds that take the stream from position n to position m.
Rounds(d, a, r, n, t, m) ==
    /\ Round(d, a, t, m) /\ n <= m
    /\ t.state.initial = r.state.initial /\ t.state.fin_seen = r.state.fin_seen
    /\ t.state.buffered_bytes <= r.state.buffered_bytes
    /\ IF n = m THEN t = r
       ELSE t.advanced /\ Len(t.state.buffered) < Len(r.state.buffered)

\* A round leaves everything as it is, or moves the stream on and has less to do.
LEMMA OneRound ==
    ASSUME NEW d, Opens(d), NEW a, NEW r, NEW n, Round(d, a, r, n)
    PROVE  \/ Settled(r.state) /\ ConsumeOne(r) = r
           \/ \E m \in Ends(d) : n < m /\ Rounds(d, a, r, n, ConsumeOne(r), m)
<1> DEFINE b == r.state.buffered
           joining == {i \in 1 .. Len(r.state.buffered) : Joins(r.state.buffered[i], r.state.next)}
           i == CHOOSE k \in joining : \A l \in joining : k <= l
           s == b[i]
           rest == RemoveAt(b, i)
           state == [r.state EXCEPT !.buffered = RemoveAt(@, i),
                                    !.buffered_bytes = @ - Len(s.bytes),
                                    !.next = IF After(s.end, @) THEN s.end ELSE @]
           out == r.out \o Trimmed(s.payload_start, s.bytes, r.state.next)
           advanced == r.advanced \/ After(s.end, r.state.next)
           t == [state |-> state, out |-> out, advanced |-> advanced]
<1>1. /\ r \in [state : DirStates(d), out : Seq(Chunks), advanced : BOOLEAN]
      /\ a \in Ends(d) /\ n \in Ends(d) /\ a < n
      /\ r.state.next = SeqAt(d, n)
      /\ Sorted(b) /\ r.state.buffered_bytes = HeldBytes(b) /\ Len(b) <= MaxSegments
      /\ BytesOf(r.out) = Payload(d, a, n)
  BY DEF Round, Tidy
<1>2. r.state \in DirStates(d) /\ r.out \in Seq(Chunks) /\ r.advanced \in BOOLEAN
  BY <1>1
<1>3. /\ b \in Seq(HeldSegments(d)) /\ r.state.buffered_bytes \in Nat
      /\ Len(b) \in Nat /\ \A k \in 1 .. Len(b) : b[k] \in HeldSegments(d)
  <2>1. b \in Seq(HeldSegments(d)) /\ r.state.buffered_bytes \in Nat
    BY <1>2 DEF DirStates
  <2> QED
    BY <2>1, LenProperties, ElementOfSeq
<1>4. CASE joining = {}
  <2>1. ConsumeOne(r) = r
    BY <1>4 DEF ConsumeOne
  <2>2. Settled(r.state)
    BY <1>4 DEF Settled
  <2> QED
    BY <2>1, <2>2
<1>5. CASE joining # {}
  <2>1. ConsumeOne(r) = t
    BY <1>5, Zenon DEF ConsumeOne
  <2>2. i \in joining
    <3>1. joining \in SUBSET Nat
      BY <1>3
    <3>2. \E k \in joining : \A l \in joining : k <= l
      <4> HIDE DEF joining
      <4> QED
        BY <1>5, <3>1, LeastElement
    <3> HIDE DEF joining
    <3> QED
      BY <3>2
  <2> HIDE DEF i
  <2>3. i \in 1 .. Len(b) /\ Joins(s, SeqAt(d, n)) /\ s \in HeldSegments(d)
    BY <1>1, <1>3, <2>2
  <2>4. PICK p \in Ends(d), m \in Ends(d) : 1 <= p /\ p < m /\ s = HeldAt(d, p, m)
    BY <2>3, HeldIs
  <2>5. p <= n /\ n < m
    BY <1>1, <2>3, <2>4, JoinsMeans
  <2>6. /\ s.end = SeqAt(d, m) /\ s.payload_start = SeqAt(d, p) /\ s.bytes = Payload(d, p, m)
    BY <2>4 DEF HeldAt
  <2>7. After(s.end, r.state.next)
    <3>1. After(SeqAt(d, m), SeqAt(d, n)) <=> m > n
      BY <1>1, <2>4, NumbersCompare
    <3>2. m > n
      BY <1>1, <2>4, <2>5, Numbers
    <3> QED
      BY <1>1, <2>6, <3>1, <3>2
  <2>8. /\ rest \in Seq(HeldSegments(d)) /\ Len(rest) = Len(b) - 1
        /\ Sorted(rest)
        /\ HeldBytes(b) = HeldBytes(rest) + Len(s.bytes)
        /\ HeldBytes(rest) \in Nat /\ Len(s.bytes) \in Nat
    BY <1>1, <1>3, <2>3, BufferShrinks
  <2>9. r.state.buffered_bytes - Len(s.bytes) = HeldBytes(rest)
        /\ HeldBytes(rest) <= r.state.buffered_bytes
    BY <1>1, <2>8
  <2>10. PICK start \in SeqNumbers :
            Trimmed(s.payload_start, s.bytes, r.state.next) = Chunk(start, Payload(d, n, m))
    BY <1>1, <2>4, <2>5, <2>6, TrimmedIs
  <2>11. a < m /\ d \in Directions /\ n <= m /\ a <= n
    BY <1>1, <2>4, <2>5, Numbers DEF Opens
  <2>12. /\ out \in Seq(Chunks) /\ BytesOf(out) = Payload(d, a, m)
    <3>1. Payload(d, n, m) \in Seq(Nat) /\ Payload(d, a, n) \in Seq(Nat)
      BY <1>1, <2>4, <2>11, PayloadIs
    <3>2. /\ r.out \o Chunk(start, Payload(d, n, m)) \in Seq(Chunks)
          /\ BytesOf(r.out \o Chunk(start, Payload(d, n, m))) = BytesOf(r.out) \o Payload(d, n, m)
      BY <1>1, <1>2, <3>1, BytesGrow
    <3>3. Payload(d, a, n) \o Payload(d, n, m) = Payload(d, a, m)
      BY <1>1, <2>4, <2>11, PayloadsMeet
    <3> QED
      BY <1>1, <2>10, <3>2, <3>3
  <2>13. /\ state \in DirStates(d)
         /\ state.buffered = rest /\ state.buffered_bytes = HeldBytes(rest)
         /\ state.next = SeqAt(d, m)
         /\ state.initial = r.state.initial /\ state.fin_seen = r.state.fin_seen
    <3>1. state = [r.state EXCEPT !.buffered = rest, !.buffered_bytes = HeldBytes(rest),
                                  !.next = SeqAt(d, m)]
      <4> HIDE DEF i
      <4> QED
        BY <2>6, <2>7, <2>9
    <3>2. SeqAt(d, m) \in SeqNumbers
      BY <2>4, Numbers
    <3> HIDE DEF state, rest
    <3> QED
      BY <1>2, <2>8, <3>1, <3>2 DEF DirStates
  <2>14. advanced
    BY <2>7
  <2>15. t \in [state : DirStates(d), out : Seq(Chunks), advanced : BOOLEAN]
         /\ t.state = state /\ t.out = out /\ t.advanced = TRUE
    <3> HIDE DEF state, out, advanced
    <3> QED
      BY <2>12, <2>13, <2>14
  <2> HIDE DEF t, state, out
  <2>16. Tidy(t.state)
    <3>1. Len(rest) <= MaxSegments
      BY <1>1, <1>3, <2>8, DirectionAssumption
    <3> QED
      BY <2>8, <2>13, <2>15, <3>1 DEF Tidy
  <2>17. Round(d, a, t, m)
    BY <1>1, <2>4, <2>11, <2>12, <2>13, <2>15, <2>16 DEF Round
  <2>18. Len(t.state.buffered) < Len(r.state.buffered)
    BY <1>3, <2>8, <2>13, <2>15
  <2>19. n # m /\ t.state.buffered_bytes <= r.state.buffered_bytes
    BY <1>1, <2>4, <2>5, <2>9, <2>13, <2>15, Numbers
  <2>20. Rounds(d, a, r, n, t, m)
    BY <2>11, <2>13, <2>15, <2>17, <2>18, <2>19 DEF Rounds
  <2> QED
    BY <2>1, <2>4, <2>5, <2>20, Zenon
<1> QED
  BY <1>4, <1>5

\* The rounds of Consume, one function of their number.
RoundBody(g, r, n) == IF n = 0 THEN r ELSE ConsumeOne(g[n - 1])
IsRounds(g, r, k) == g = [n \in 0 .. k |-> RoundBody(g, r, n)]

Fresh(state, out) == [state |-> state, out |-> out, advanced |-> FALSE]

\* The recursion of Consume has a solution, and the last round is the result.
LEMMA ConsumeUnfolds ==
    ASSUME NEW state, NEW out, Len(state.buffered) \in Nat
    PROVE  \E g : /\ Consume(state, out) = g[Len(state.buffered)]
                  /\ \A n \in 0 .. Len(state.buffered) : g[n] = RoundBody(g, Fresh(state, out), n)
<1> DEFINE r == Fresh(state, out)
           k == Len(state.buffered)
           solves(h, n) == \A j \in 0 .. n : h[j] = RoundBody(h, r, j)
           N == {n \in Nat : \E h : DOMAIN h = 0 .. n /\ solves(h, n)}
<1>1. 0 \in N
  <2> DEFINE h == [j \in 0 .. 0 |-> r]
  <2>1. DOMAIN h = 0 .. 0 /\ solves(h, 0)
    BY DEF RoundBody
  <2> QED
    BY <2>1
<1>2. ASSUME NEW n \in Nat, n \in N
      PROVE  n + 1 \in N
  <2>1. PICK h : DOMAIN h = 0 .. n /\ solves(h, n)
    BY <1>2
  <2> DEFINE f == [j \in 0 .. n + 1 |-> IF j <= n THEN h[j] ELSE RoundBody(h, r, j)]
  <2>2. \A j \in 0 .. n : f[j] = h[j]
    OBVIOUS
  <2>3. f[n + 1] = RoundBody(h, r, n + 1)
    OBVIOUS
  <2>4. DOMAIN f = 0 .. n + 1
    OBVIOUS
  <2> HIDE DEF f, r
  <2>5. solves(f, n + 1)
    <3> SUFFICES ASSUME NEW j \in 0 .. n + 1
                 PROVE  f[j] = RoundBody(f, r, j)
      OBVIOUS
    <3>1. CASE j <= n
      <4>1. j \in 0 .. n /\ (j # 0 => j - 1 \in 0 .. n)
        BY <3>1
      <4> QED
        BY <2>1, <2>2, <4>1 DEF RoundBody
    <3>2. CASE j = n + 1
      <4>1. j # 0 => j - 1 \in 0 .. n
        BY <3>2
      <4> QED
        BY <2>2, <2>3, <3>2, <4>1 DEF RoundBody
    <3> QED
      BY <3>1, <3>2
  <2>6. \E l : DOMAIN l = 0 .. n + 1 /\ solves(l, n + 1)
    <3> HIDE DEF solves
    <3> QED
      BY <2>4, <2>5
  <2> QED
    BY <2>6
<1>3. k \in N
  <2> HIDE DEF N
  <2> QED
    BY <1>1, <1>2, NumberInduction
<1>4. PICK h : DOMAIN h = 0 .. k /\ solves(h, k)
  BY <1>3
<1> DEFINE f == [n \in 0 .. k |-> h[n]]
<1>5. \A n \in 0 .. k : n # 0 => n - 1 \in 0 .. k
  OBVIOUS
<1>6. IsRounds(f, r, k)
  BY <1>4, <1>5 DEF IsRounds, RoundBody
<1> DEFINE after == CHOOSE g : IsRounds(g, r, k)
<1>7. IsRounds(after, r, k)
  <2> HIDE DEF f
  <2> QED
    BY <1>6
<1>8. Consume(state, out) = after[k]
  BY DEF Consume, IsRounds, RoundBody, Fresh
<1> HIDE DEF after, r, k
<1>9. \A n \in 0 .. k : after[n] = RoundBody(after, r, n)
  <2> SUFFICES ASSUME NEW n \in 0 .. k
               PROVE  after[n] = RoundBody(after, r, n)
    OBVIOUS
  <2>1. after = [j \in 0 .. k |-> RoundBody(after, r, j)]
    BY <1>7 DEF IsRounds
  <2>2. [j \in 0 .. k |-> RoundBody(after, r, j)][n] = RoundBody(after, r, n)
    OBVIOUS
  <2> QED
    BY <2>1, <2>2, Zenon
<1> QED
  BY <1>8, <1>9 DEF r, k

\* After one more round.
LEMMA RoundsAdd ==
    ASSUME NEW d, Opens(d), NEW a, NEW r, NEW n, Round(d, a, r, n),
           NEW t, NEW m, Rounds(d, a, r, n, t, m)
    PROVE  \/ Settled(t.state) /\ ConsumeOne(t) = t
           \/ \E l \in Ends(d) :
                Rounds(d, a, r, n, ConsumeOne(t), l)
                /\ Len(ConsumeOne(t).state.buffered) < Len(t.state.buffered)
<1>1. Round(d, a, t, m) /\ n <= m
  BY DEF Rounds
<1>2. ASSUME NEW l \in Ends(d), m < l, Rounds(d, a, t, m, ConsumeOne(t), l)
      PROVE  Rounds(d, a, r, n, ConsumeOne(t), l)
             /\ Len(ConsumeOne(t).state.buffered) < Len(t.state.buffered)
  <2> DEFINE u == ConsumeOne(t)
  <2>1. n \in Ends(d) /\ m \in Ends(d) /\ r.state \in DirStates(d) /\ t.state \in DirStates(d)
    BY <1>1 DEF Round
  <2>2. n \in Nat /\ m \in Nat /\ l \in Nat
    BY <2>1, Numbers
  <2>3. Round(d, a, u, l) /\ m <= l /\ m # l /\ u.advanced
        /\ u.state.initial = t.state.initial /\ u.state.fin_seen = t.state.fin_seen
        /\ u.state.buffered_bytes <= t.state.buffered_bytes
        /\ Len(u.state.buffered) < Len(t.state.buffered)
    BY <1>2, <2>2 DEF Rounds
  <2>4. /\ t.state.initial = r.state.initial /\ t.state.fin_seen = r.state.fin_seen
        /\ t.state.buffered_bytes <= r.state.buffered_bytes
        /\ Len(t.state.buffered) <= Len(r.state.buffered)
    <3>1. Len(t.state.buffered) \in Nat
      BY <2>1, LenProperties DEF DirStates
    <3> QED
      BY <2>1, <3>1, LenProperties DEF Rounds, DirStates
  <2>5. u.state \in DirStates(d)
    BY <2>3 DEF Round
  <2>6. /\ u.state.buffered_bytes \in Nat /\ t.state.buffered_bytes \in Nat
        /\ r.state.buffered_bytes \in Nat
        /\ Len(u.state.buffered) \in Nat /\ Len(t.state.buffered) \in Nat
        /\ Len(r.state.buffered) \in Nat
    BY <2>1, <2>5, LenProperties DEF DirStates
  <2> HIDE DEF u
  <2>7. n <= l /\ n # l
    BY <1>1, <2>2, <2>3
  <2>8. u.state.buffered_bytes <= r.state.buffered_bytes
        /\ Len(u.state.buffered) < Len(r.state.buffered)
    BY <2>3, <2>4, <2>6, SMTT(30)
  <2>9. Rounds(d, a, r, n, u, l)
    BY <2>3, <2>4, <2>7, <2>8 DEF Rounds
  <2> QED
    BY <2>3, <2>9 DEF u
<1>3. \/ Settled(t.state) /\ ConsumeOne(t) = t
      \/ \E l \in Ends(d) : m < l /\ Rounds(d, a, t, m, ConsumeOne(t), l)
  BY <1>1, OneRound
<1> QED
  BY <1>2, <1>3

\* What is consumed: the stream from where the segment left it to where nothing joins.
LEMMA ConsumeIs ==
    ASSUME NEW d, Opens(d), NEW a, NEW state, NEW out, NEW n, Round(d, a, Fresh(state, out), n)
    PROVE  \E m \in Ends(d) : /\ Rounds(d, a, Fresh(state, out), n, Consume(state, out), m)
                              /\ Settled(Consume(state, out).state)
<1> DEFINE r == Fresh(state, out)
           k == Len(state.buffered)
<1>1. r.state = state /\ r.advanced = FALSE /\ state \in DirStates(d) /\ n \in Ends(d)
  BY DEF Fresh, Round
<1>2. k \in Nat
  BY <1>1, LenProperties DEF DirStates
<1>3. PICK g : /\ Consume(state, out) = g[k]
               /\ \A j \in 0 .. k : g[j] = RoundBody(g, r, j)
  BY <1>2, ConsumeUnfolds
<1> HIDE DEF r
<1> DEFINE reached(t, j) == \E m \in Ends(d) : /\ Rounds(d, a, r, n, t, m)
                                               /\ Settled(t.state) \/ Len(t.state.buffered) + j <= k
           N == {j \in Nat : j <= k => reached(g[j], j)}
<1> HIDE DEF reached
<1>4. 0 \in N
  <2>1. g[0] = r
    BY <1>2, <1>3 DEF RoundBody
  <2>2. Rounds(d, a, r, n, r, n)
    <3>1. n <= n
      BY <1>1, Numbers
    <3>2. r.state.buffered_bytes <= r.state.buffered_bytes
      BY <1>1 DEF DirStates
    <3> QED
      BY <3>1, <3>2 DEF Rounds, r
  <2>3. Len(r.state.buffered) + 0 <= k
    BY <1>1, <1>2
  <2> QED
    BY <1>1, <2>1, <2>2, <2>3 DEF reached
<1>5. ASSUME NEW j \in Nat, j \in N
      PROVE  j + 1 \in N
  <2> SUFFICES ASSUME j + 1 <= k
               PROVE  reached(g[j + 1], j + 1)
    OBVIOUS
  <2>1. j \in 0 .. k /\ j + 1 \in 0 .. k /\ j + 1 # 0 /\ (j + 1) - 1 = j
    BY <1>2
  <2>2. g[j + 1] = ConsumeOne(g[j])
    <3>1. g[j + 1] = RoundBody(g, r, j + 1)
      BY <1>3, <2>1
    <3> QED
      BY <2>1, <3>1 DEF RoundBody
  <2>3. PICK m \in Ends(d) : /\ Rounds(d, a, r, n, g[j], m)
                             /\ Settled(g[j].state) \/ Len(g[j].state.buffered) + j <= k
    <3>1. reached(g[j], j)
      BY <1>2, <1>5, <2>1
    <3> QED
      BY <3>1 DEF reached
  <2> PICK t : t = g[j]
    BY Zenon
  <2>4. Rounds(d, a, r, n, t, m) /\ (Settled(t.state) \/ Len(t.state.buffered) + j <= k)
    BY <2>3
  <2>5. Round(d, a, r, n)
    BY DEF r
  <2>6. Len(t.state.buffered) \in Nat
    BY <2>4, LenProperties DEF Rounds, Round, DirStates
  <2>7. \/ Settled(t.state) /\ ConsumeOne(t) = t
        \/ \E l \in Ends(d) :
              Rounds(d, a, r, n, ConsumeOne(t), l)
              /\ Len(ConsumeOne(t).state.buffered) < Len(t.state.buffered)
    BY <2>4, <2>5, RoundsAdd
  <2>8. CASE Settled(t.state) /\ ConsumeOne(t) = t
    BY <2>2, <2>4, <2>8 DEF reached
  <2>9. CASE ~ (Settled(t.state) /\ ConsumeOne(t) = t)
    <3>1. PICK l \in Ends(d) :
              Rounds(d, a, r, n, ConsumeOne(t), l)
              /\ Len(ConsumeOne(t).state.buffered) < Len(t.state.buffered)
      BY <2>7, <2>9
    <3>2. CASE Settled(t.state)
      \* nothing joins, so the round would have changed nothing
      <4>1. ConsumeOne(t) = t
        BY <3>2, Zenon DEF ConsumeOne, Settled
      <4> QED
        BY <2>9, <3>2, <4>1, Zenon
    <3>3. CASE Len(t.state.buffered) + j <= k
      <4> DEFINE u == ConsumeOne(t)
      <4>1. Len(u.state.buffered) \in Nat
        BY <3>1, LenProperties DEF Rounds, Round, DirStates
      <4>2. Len(u.state.buffered) < Len(t.state.buffered)
        BY <3>1
      <4>3. Len(u.state.buffered) + (j + 1) <= k
        <5>1. PICK x \in Nat, y \in Nat : x = Len(u.state.buffered) /\ y = Len(t.state.buffered)
          BY <2>6, <4>1
        <5> HIDE DEF u, k
        <5>2. x < y /\ y + j <= k
          BY <3>3, <4>2, <5>1
        <5>3. x + (j + 1) <= k
          BY <1>2, <5>2
        <5> QED
          BY <5>1, <5>3
      <4> QED
        BY <2>2, <3>1, <4>3 DEF reached
    <3> QED
      BY <2>4, <3>2, <3>3
  <2> QED
    BY <2>8, <2>9
<1>6. k \in N
  <2> HIDE DEF N
  <2> QED
    BY <1>2, <1>4, <1>5, NumberInduction
<1>7. PICK m \in Ends(d) : /\ Rounds(d, a, r, n, g[k], m)
                           /\ Settled(g[k].state) \/ Len(g[k].state.buffered) + k <= k
  <2>1. k <= k => reached(g[k], k)
    BY <1>6
  <2>2. k <= k
    BY <1>2
  <2> QED
    BY <2>1, <2>2 DEF reached
<1> DEFINE t == g[k]
<1>8. Settled(t.state)
  <2> SUFFICES ASSUME Len(t.state.buffered) + k <= k
               PROVE  Settled(t.state)
    BY <1>7
  <2>1. Len(t.state.buffered) \in Nat
    BY <1>7, LenProperties DEF Rounds, Round, DirStates
  <2>2. Len(t.state.buffered) = 0
    <3> HIDE DEF k, t
    <3> QED
      BY <1>2, <2>1
  <2> QED
    BY <2>2 DEF Settled
<1> QED
  BY <1>3, <1>7, <1>8 DEF r

-----------------------------------------------------------------------------
(* Holding a segment that came too early                                      *)

\* Where a segment goes: after those that start no later.
LEMMA PlaceIs ==
    ASSUME NEW b, Len(b) \in Nat, NEW start
    PROVE  /\ Place(b, start) \in 1 .. Len(b) + 1
           /\ \A j \in 1 .. Len(b) : j < Place(b, start) => ~ Before(start, b[j].start)
           /\ Place(b, start) <= Len(b) => Before(start, b[Place(b, start)].start)
<1> DEFINE later == {i \in 1 .. Len(b) : Before(start, b[i].start)}
           i == CHOOSE k \in later : \A j \in later : k <= j
<1>1. CASE later = {}
  <2>1. Place(b, start) = Len(b) + 1
    BY <1>1 DEF Place
  <2>2. Len(b) + 1 \in 1 .. Len(b) + 1 /\ ~ (Len(b) + 1 <= Len(b))
    OBVIOUS
  <2>3. \A j \in 1 .. Len(b) : ~ Before(start, b[j].start)
    BY <1>1
  <2> QED
    BY <2>1, <2>2, <2>3
<1>2. CASE later # {}
  <2>1. Place(b, start) = i
    BY <1>2 DEF Place
  <2>2. i \in later /\ \A j \in later : i <= j
    <3>1. later \in SUBSET Nat
      OBVIOUS
    <3>2. \E k \in later : \A j \in later : k <= j
      <4> HIDE DEF later
      <4> QED
        BY <1>2, <3>1, LeastElement
    <3> HIDE DEF later
    <3> QED
      BY <3>2
  <2> HIDE DEF i
  <2>3. i \in 1 .. Len(b) /\ Before(start, b[i].start)
    BY <2>2
  <2>4. \A j \in 1 .. Len(b) : j < i => ~ Before(start, b[j].start)
    BY <2>2, <2>3
  <2>5. i \in 1 .. Len(b) + 1
    BY <2>3
  <2> QED
    BY <2>1, <2>3, <2>4, <2>5
<1> QED
  BY <1>1, <1>2

\* Two segments of a sorted buffer, by their positions.
LEMMA SortedMeans ==
    ASSUME NEW d, Opens(d), NEW p \in Ends(d), NEW q \in Ends(d), p < q,
           NEW k \in Ends(d), NEW l \in Ends(d), k < l
    PROVE  /\ Before(HeldAt(d, p, q).start, HeldAt(d, k, l).start) <=> p < k
           /\ HeldAt(d, p, q).start = HeldAt(d, k, l).start <=> p = k
<1>1. HeldAt(d, p, q).start = SeqAt(d, p) /\ HeldAt(d, k, l).start = SeqAt(d, k)
  BY DEF HeldAt
<1> QED
  BY <1>1, NumbersCompare

\* Putting a segment into a buffer that does not have it yet.
LEMMA BufferGrows ==
    ASSUME NEW d, Opens(d), NEW b \in Seq(HeldSegments(d)), Sorted(b),
           NEW p \in Ends(d), NEW q \in Ends(d), 1 <= p, p < q,
           ~ \E s \in ToSet(b) : s.start = SeqAt(d, p) /\ s.end = SeqAt(d, q)
    PROVE  LET e == HeldAt(d, p, q)
               i == Place(b, SeqAt(d, p))
               a == InsertAt(b, i, e)
           IN  /\ a \in Seq(HeldSegments(d)) /\ Len(a) = Len(b) + 1 /\ Len(b) \in Nat
               /\ Sorted(a)
               /\ HeldBytes(a) = HeldBytes(b) + Len(e.bytes)
               /\ HeldBytes(b) \in Nat /\ Len(e.bytes) \in Nat
               /\ \A j \in 1 .. Len(a) : a[j] = e \/ \E k \in 1 .. Len(b) : a[j] = b[k]
<1> DEFINE e == HeldAt(d, p, q)
           i == Place(b, SeqAt(d, p))
           a == InsertAt(b, i, e)
           n == Len(b)
<1>1. n \in Nat /\ \A j \in 1 .. n : b[j] \in HeldSegments(d)
  BY LenProperties, ElementOfSeq
<1>2. /\ e \in HeldSegments(d) /\ Len(e.bytes) \in Nat
      /\ e.start = SeqAt(d, p) /\ e.end = SeqAt(d, q)
  BY HeldFits, HeldParts DEF HeldAt
<1>3. /\ i \in 1 .. n + 1
      /\ \A j \in 1 .. n : j < i => ~ Before(e.start, b[j].start)
      /\ i <= n => Before(e.start, b[i].start)
  BY <1>1, <1>2, PlaceIs
<1> HIDE DEF i
<1>4. /\ a \in Seq(HeldSegments(d)) /\ Len(a) = n + 1
      /\ \A j \in 1 .. n + 1 : a[j] = IF j < i THEN b[j] ELSE IF j = i THEN e ELSE b[j - 1]
  BY <1>2, <1>3, InsertIs
<1>5. \A j \in 1 .. n : ~ (b[j].start = e.start /\ b[j].end = e.end)
  <2>1. \A j \in 1 .. n : b[j] \in ToSet(b)
    BY <1>1, LenProperties DEF ToSet
  <2> QED
    BY <1>2, <2>1
<1> HIDE DEF a, n
<1>6. \A j \in 1 .. n : i <= j => ~ Before(b[j].start, e.start) /\ b[j].start # e.start
  <2> SUFFICES ASSUME NEW j \in 1 .. n, i <= j
               PROVE  ~ Before(b[j].start, e.start) /\ b[j].start # e.start
    OBVIOUS
  <2>1. i \in 1 .. n /\ i <= n
    BY <1>1, <1>3
  <2>2. Before(e.start, b[i].start)
    BY <1>3, <2>1
  <2>3. b[i] \in HeldSegments(d) /\ b[j] \in HeldSegments(d)
    BY <1>1, <2>1
  <2>4. PICK k \in Ends(d), l \in Ends(d) : 1 <= k /\ k < l /\ b[i] = HeldAt(d, k, l)
    BY <2>3, HeldIs
  <2>5. PICK f \in Ends(d), g \in Ends(d) : 1 <= f /\ f < g /\ b[j] = HeldAt(d, f, g)
    BY <2>3, HeldIs
  <2>6. p < k
    BY <2>2, <2>4, SortedMeans
  <2>7. k <= f
    <3>1. CASE i = j
      <4>1. HeldAt(d, k, l).start = HeldAt(d, f, g).start
        BY <2>4, <2>5, <3>1
      <4>2. k = f
        BY <2>4, <2>5, <4>1, SortedMeans
      <4> QED
        BY <2>4, <4>2, Numbers
    <3>2. CASE i < j
      <4>1. ~ Before(b[j].start, b[i].start)
        BY <2>1, <3>2 DEF Sorted, n
      <4>2. ~ (f < k)
        BY <2>4, <2>5, <4>1, SortedMeans
      <4> QED
        BY <2>4, <2>5, <4>2, Numbers
    <3> QED
      BY <1>1, <2>1, <3>1, <3>2
  <2>8. p \in Nat /\ k \in Nat /\ f \in Nat
    BY <2>4, <2>5, Numbers
  <2>9. ~ (f < p) /\ f # p
    BY <2>6, <2>7, <2>8
  <2> QED
    BY <2>5, <2>9, SortedMeans
<1>7. Sorted(a)
  <2> SUFFICES ASSUME NEW j \in 1 .. n + 1, NEW k \in 1 .. n + 1, j < k
               PROVE  /\ ~ Before(a[k].start, a[j].start)
                      /\ a[j].start # a[k].start \/ a[j].end # a[k].end
    BY <1>4 DEF Sorted
  <2>1. CASE j = i
    <3>1. k - 1 \in 1 .. n /\ i <= k - 1 /\ ~ (k < i) /\ k # i /\ ~ (j < i)
      BY <1>1, <1>3, <2>1
    <3>2. a[j] = e /\ a[k] = b[k - 1]
      BY <1>4, <2>1, <3>1
    <3> QED
      BY <1>6, <3>1, <3>2
  <2>2. CASE k = i
    <3>1. j \in 1 .. n /\ j < i /\ ~ (k < i)
      BY <1>1, <1>3, <2>2
    <3>2. a[j] = b[j] /\ a[k] = e
      BY <1>4, <2>2, <3>1
    <3>3. ~ Before(e.start, b[j].start)
      BY <1>3, <3>1
    <3>4. b[j].start # e.start \/ b[j].end # e.end
      BY <1>5, <3>1
    <3> QED
      BY <3>2, <3>3, <3>4
  <2>3. CASE j # i /\ k # i
    <3> DEFINE x == IF j < i THEN j ELSE j - 1
               y == IF k < i THEN k ELSE k - 1
    <3>1. x \in 1 .. n /\ y \in 1 .. n /\ x < y
      BY <1>1, <1>3, <2>3
    <3>2. a[j] = b[x] /\ a[k] = b[y]
      BY <1>4, <2>3
    <3> HIDE DEF x, y
    <3> QED
      BY <3>1, <3>2 DEF Sorted, n
  <2> QED
    BY <2>1, <2>2, <2>3
<1>8. /\ HeldBytes(a) = SumFunctionOnSet(Lengths(a), 1 .. n + 1)
      /\ \A j \in 1 .. n + 1 : Lengths(a)[j] = Len(a[j].bytes) /\ Lengths(a)[j] \in Nat
  <2>1. /\ HeldBytes(a) = SumFunctionOnSet(Lengths(a), 1 .. Len(a))
        /\ \A j \in 1 .. Len(a) : Lengths(a)[j] = Len(a[j].bytes) /\ Lengths(a)[j] \in Nat
    BY <1>4, LengthsAre
  <2> QED
    BY <1>4, <2>1
<1>9. /\ HeldBytes(b) = SumFunctionOnSet(Lengths(b), 1 .. n)
      /\ \A j \in 1 .. n : Lengths(b)[j] = Len(b[j].bytes)
      /\ HeldBytes(b) \in Nat
  BY LengthsAre DEF n
<1>10. Widens(Lengths(a), Lengths(b), i, n)
  <2> SUFFICES ASSUME NEW j \in 1 .. n
               PROVE  Lengths(b)[j] = IF j < i THEN Lengths(a)[j] ELSE Lengths(a)[j + 1]
    BY <1>1, <1>3, <1>8 DEF Widens
  <2>1. j \in 1 .. n + 1 /\ j + 1 \in 1 .. n + 1 /\ (j + 1) - 1 = j
    BY <1>1
  <2>2. CASE j < i
    <3>1. a[j] = b[j]
      BY <1>4, <2>1, <2>2
    <3> QED
      BY <1>8, <1>9, <2>1, <2>2, <3>1
  <2>3. CASE ~ (j < i)
    <3>1. ~ (j + 1 < i) /\ j + 1 # i
      BY <1>1, <1>3, <2>3
    <3>2. a[j + 1] = b[(j + 1) - 1]
      BY <1>4, <2>1, <3>1
    <3> QED
      BY <1>8, <1>9, <2>1, <2>3, <3>2
  <2> QED
    BY <2>2, <2>3
<1>11. SumFunctionOnSet(Lengths(a), 1 .. n + 1)
        = SumFunctionOnSet(Lengths(b), 1 .. n) + Lengths(a)[i]
  BY <1>10, SumWidens
<1>12. Lengths(a)[i] = Len(e.bytes)
  <2>1. a[i] = e
    BY <1>3, <1>4
  <2> QED
    BY <1>3, <1>8, <2>1
<1>13. \A j \in 1 .. n + 1 : a[j] = e \/ \E k \in 1 .. n : a[j] = b[k]
  <2> SUFFICES ASSUME NEW j \in 1 .. n + 1, j # i
               PROVE  \E k \in 1 .. n : a[j] = b[k]
    <3>1. a[i] = e
      BY <1>3, <1>4
    <3> QED
      BY <3>1
  <2>1. CASE j < i
    <3>1. j \in 1 .. n
      BY <1>1, <1>3, <2>1
    <3> QED
      BY <1>4, <2>1, <3>1
  <2>2. CASE ~ (j < i)
    <3>1. j - 1 \in 1 .. n
      BY <1>1, <1>3, <2>2
    <3> QED
      BY <1>4, <2>2, <3>1
  <2> QED
    BY <2>1, <2>2
<1> QED
  BY <1>1, <1>2, <1>4, <1>7, <1>8, <1>9, <1>11, <1>12, <1>13 DEF a, i, n

-----------------------------------------------------------------------------
(* One segment                                                                *)

\* A direction that has released rel: nothing yet, or the payload from where the
\* capture met the stream up to its next position, where nothing buffered joins.
Streams(d, s, rel) ==
    /\ s \in DirStates(d) /\ Tidy(s)
    /\ IF s.next = None THEN s.initial = None /\ s.buffered = <<>> /\ rel = <<>>
       ELSE /\ Settled(s)
            /\ \E i, n \in Ends(d) : /\ i < n /\ s.initial = SeqAt(d, i) /\ s.next = SeqAt(d, n)
                                     /\ rel = Payload(d, i, n)

\* What the segment from p up to q, which reaches the stream at position a, does: it
\* releases from there to a position m, beyond q exactly when the buffer helped.
Consumed(d, s, rel, a, q, r) ==
    \E m \in Ends(d) :
        /\ q <= m /\ r.state.next = SeqAt(d, m)
        /\ Streams(d, r.state, rel \o BytesOf(r.out))
        /\ BytesOf(r.out) = Payload(d, a, m) /\ BytesOf(r.out) \in Seq(Nat)
        /\ r.state.buffered_bytes <= s.buffered_bytes
        /\ r.state.fin_seen = s.fin_seen
        /\ IF m = q THEN ~ r.advanced /\ r.state.buffered = s.buffered
           ELSE r.advanced /\ Len(r.state.buffered) < Len(s.buffered)

\* A direction before a segment that reaches position a of its stream.
Reaches(d, s, rel, a) ==
    /\ Streams(d, s, rel) /\ a \in Ends(d)
    /\ s.next # None => s.next = SeqAt(d, a)

\* The segment that reaches the stream at a and goes up to q moves it on.
LEMMA ConsumeMoves ==
    ASSUME NEW d, Opens(d), NEW s, NEW rel, NEW a, Reaches(d, s, rel, a),
           NEW q \in Ends(d), a < q,
           NEW t, t = [s EXCEPT !.initial = IF s.next = None THEN SeqAt(d, a) ELSE @,
                                !.next = SeqAt(d, q)],
           NEW out, out \in Seq(Chunks), BytesOf(out) = Payload(d, a, q)
    PROVE  Consumed(d, s, rel, a, q, Consume(t, out))
<1> DEFINE r == Consume(t, out)
<1>1. s \in DirStates(d) /\ Tidy(s) /\ a \in Ends(d)
  BY DEF Reaches, Streams
<1>2. /\ t \in DirStates(d) /\ t.next = SeqAt(d, q) /\ t.fin_seen = s.fin_seen
      /\ t.buffered = s.buffered /\ t.buffered_bytes = s.buffered_bytes
      /\ t.initial = IF s.next = None THEN SeqAt(d, a) ELSE s.initial
  <2>1. SeqAt(d, q) \in SeqNumbers /\ SeqAt(d, a) \in SeqNumbers
    BY <1>1, Numbers
  <2> QED
    BY <1>1, <2>1 DEF DirStates
<1>3. Tidy(t)
  BY <1>1, <1>2 DEF Tidy
<1>4. Round(d, a, Fresh(t, out), q)
  <2>1. Fresh(t, out) \in [state : DirStates(d), out : Seq(Chunks), advanced : BOOLEAN]
    BY <1>2 DEF Fresh
  <2>2. Fresh(t, out).state = t /\ Fresh(t, out).out = out
    BY DEF Fresh
  <2> QED
    BY <1>1, <1>2, <1>3, <2>1, <2>2 DEF Round
<1>5. PICK m \in Ends(d) : Rounds(d, a, Fresh(t, out), q, r, m) /\ Settled(r.state)
  BY <1>4, ConsumeIs
<1>6. /\ Fresh(t, out).state = t /\ Fresh(t, out).out = out /\ Fresh(t, out).advanced = FALSE
  BY DEF Fresh
<1> HIDE DEF r
<1>7. /\ r \in [state : DirStates(d), out : Seq(Chunks), advanced : BOOLEAN]
      /\ q <= m /\ r.state.next = SeqAt(d, m) /\ Tidy(r.state)
      /\ BytesOf(r.out) = Payload(d, a, m)
      /\ r.state.initial = t.initial /\ r.state.fin_seen = t.fin_seen
      /\ r.state.buffered_bytes <= t.buffered_bytes
      /\ q = m => r = Fresh(t, out)
      /\ q # m => r.advanced /\ Len(r.state.buffered) < Len(t.buffered)
  BY <1>5, <1>6 DEF Rounds, Round
<1>8. IF m = q THEN ~ r.advanced /\ r.state.buffered = s.buffered
      ELSE r.advanced /\ Len(r.state.buffered) < Len(s.buffered)
  BY <1>2, <1>6, <1>7
<1>9. d \in Directions /\ a < m /\ a <= m /\ a \in Nat /\ m \in Nat
  BY <1>1, <1>5, <1>7, Numbers DEF Opens
<1>10. BytesOf(r.out) \in Seq(Nat)
  BY <1>1, <1>5, <1>7, <1>9, PayloadIs
<1>11. r.state.next # None /\ SeqAt(d, a) # None
  BY <1>1, <1>5, <1>7, Numbers
<1>12. \E i \in Ends(d) : /\ i < m /\ r.state.initial = SeqAt(d, i)
                          /\ rel \o BytesOf(r.out) = Payload(d, i, m)
  <2>1. CASE s.next = None
    <3>1. rel = <<>>
      BY <2>1 DEF Reaches, Streams
    <3>2. rel \o BytesOf(r.out) = Payload(d, a, m)
      BY <1>7, <1>10, <3>1, ConcatEmptySeq
    <3> QED
      BY <1>1, <1>2, <1>7, <1>9, <2>1, <3>2
  <2>2. CASE s.next # None
    <3>1. PICK i \in Ends(d), n \in Ends(d) :
              i < n /\ s.initial = SeqAt(d, i) /\ s.next = SeqAt(d, n) /\ rel = Payload(d, i, n)
      BY <2>2 DEF Reaches, Streams
    <3>2. n = a
      <4>1. SeqAt(d, n) = SeqAt(d, a)
        BY <2>2, <3>1 DEF Reaches
      <4> QED
        BY <1>1, <3>1, <4>1, NumbersCompare
    <3>3. i < a /\ i < m
      BY <1>9, <3>1, <3>2, Numbers
    <3>4. rel \o BytesOf(r.out) = Payload(d, i, m)
      <4>1. rel = Payload(d, i, a) /\ a <= m
        BY <1>9, <3>1, <3>2
      <4>2. Payload(d, i, a) \o Payload(d, a, m) = Payload(d, i, m)
        BY <1>1, <1>5, <1>9, <3>1, <3>3, <4>1, PayloadsMeet
      <4> QED
        BY <1>7, <4>1, <4>2
    <3> QED
      BY <1>2, <1>7, <2>2, <3>1, <3>3, <3>4
  <2> QED
    BY <2>1, <2>2
<1>13. Streams(d, r.state, rel \o BytesOf(r.out))
  <2>1. r.state \in DirStates(d) /\ Tidy(r.state) /\ Settled(r.state)
    BY <1>5, <1>7
  <2>2. PICK i \in Ends(d) : /\ i < m /\ r.state.initial = SeqAt(d, i)
                             /\ rel \o BytesOf(r.out) = Payload(d, i, m)
    BY <1>12
  <2> QED
    BY <1>5, <1>7, <1>11, <2>1, <2>2 DEF Streams
<1> QED
  BY <1>2, <1>5, <1>7, <1>8, <1>10, <1>13 DEF Consumed, r

\* The segment from p up to q covers the next position, or is the first.
Meets(d, s, p, q) ==
    /\ p < q
    /\ s.next = None \/ \E n \in Ends(d) : s.next = SeqAt(d, n) /\ p <= n /\ n < q

\* The statuses of segments that move the stream on.
Moving == {"Init", "InOrder", "GapFilled", "Overlap", "Fin"}

\* What the segment from p up to q does to a direction that released rel, with flow
\* bytes buffered in both directions.
Outcome(d, s, rel, p, q, flow, r) ==
    /\ Streams(d, r.state, rel \o BytesOf(r.out)) /\ BytesOf(r.out) \in Seq(Nat)
    /\ r.status \in Statuses \ {"Reset"}
    /\ \/ r.state.buffered_bytes <= s.buffered_bytes
       \/ flow + (r.state.buffered_bytes - s.buffered_bytes) <= MaxBytes
    /\ r.state.next # s.next <=> Meets(d, s, p, q)
    /\ s.next # None /\ r.state.next # s.next => After(r.state.next, s.next)
    /\ r.state.next = s.next => BytesOf(r.out) = <<>>
    /\ r.status \in Moving <=> r.state.next # s.next
    /\ r.status = "GapFilled" =>
         r.state.next # SeqAt(d, q) /\ Len(r.state.buffered) < Len(s.buffered)
    /\ r.status \in {"InOrder", "Fin"} =>
         r.state.next = SeqAt(d, q) /\ Len(r.state.buffered) = Len(s.buffered)
    /\ r.status = "Fin" => q = StreamLen[d] + 2
    /\ r.status = "OutOfOrderBuffered" <=> Len(r.state.buffered) > Len(s.buffered)

\* A segment that changes nothing.
LEMMA QuietIs ==
    ASSUME NEW d, Opens(d), NEW s, NEW rel, rel \in Seq(Nat), Streams(d, s, rel), NEW p, NEW q,
           ~ Meets(d, s, p, q), NEW flow,
           NEW status \in {"NoSequence", "Retransmission", "OutOfOrderDropped"}
    PROVE  Outcome(d, s, rel, p, q, flow, [state |-> s, out |-> <<>>, status |-> status])
<1> DEFINE r == [state |-> s, out |-> <<>>, status |-> status]
<1>1. r.state = s /\ BytesOf(r.out) = <<>> /\ <<>> \in Seq(Nat) /\ r.status = status
  BY BytesOfOne
<1>2. rel \o <<>> = rel
  BY ConcatEmptySeq
<1>3. s.buffered_bytes <= s.buffered_bytes /\ ~ (Len(s.buffered) > Len(s.buffered))
  <2>1. s.buffered_bytes \in Nat /\ Len(s.buffered) \in Nat
    BY LenProperties DEF Streams, DirStates
  <2> QED
    BY <2>1
<1>4. /\ status \in Statuses \ {"Reset"} /\ status \notin Moving
      /\ status \notin {"GapFilled", "InOrder", "Fin", "OutOfOrderBuffered"}
  BY DEF Statuses, Moving
<1> HIDE DEF r
<1> QED
  BY <1>1, <1>2, <1>3, <1>4 DEF Outcome, r

\* A segment that reaches the stream at position a, released with status st.
Lands(d, p, a, q, c, st) ==
    /\ p <= a /\ a < q /\ p < q
    /\ st \in Moving
    /\ st = "GapFilled" => c.advanced
    /\ st \in {"InOrder", "Fin"} => ~ c.advanced
    /\ st = "Fin" => q = StreamLen[d] + 2

\* It moves the stream on.
LEMMA LandingIs ==
    ASSUME NEW d, Opens(d), NEW s, NEW rel, NEW a, Reaches(d, s, rel, a),
           NEW p \in Ends(d), NEW q \in Ends(d), NEW c, Consumed(d, s, rel, a, q, c),
           NEW st, Lands(d, p, a, q, c, st), NEW flow
    PROVE  Outcome(d, s, rel, p, q, flow, [state |-> c.state, out |-> c.out, status |-> st])
<1> DEFINE r == [state |-> c.state, out |-> c.out, status |-> st]
<1>1. r.state = c.state /\ r.out = c.out /\ r.status = st
  OBVIOUS
<1> HIDE DEF r
<1>2. PICK m \in Ends(d) :
        /\ q <= m /\ r.state.next = SeqAt(d, m)
        /\ Streams(d, r.state, rel \o BytesOf(r.out))
        /\ BytesOf(r.out) = Payload(d, a, m) /\ BytesOf(r.out) \in Seq(Nat)
        /\ r.state.buffered_bytes <= s.buffered_bytes
        /\ IF m = q THEN ~ c.advanced /\ r.state.buffered = s.buffered
           ELSE c.advanced /\ Len(r.state.buffered) < Len(s.buffered)
  BY <1>1 DEF Consumed
<1>3. /\ s \in DirStates(d) /\ a \in Ends(d) /\ (s.next # None => s.next = SeqAt(d, a))
      /\ r.state \in DirStates(d)
  BY <1>2 DEF Reaches, Streams
<1>4. p <= a /\ a < q /\ p < q /\ st \in Moving
  BY DEF Lands
<1>5. a \in Nat /\ m \in Nat /\ q \in Nat /\ a < m /\ a # m
  BY <1>2, <1>3, <1>4, Numbers
<1>6. /\ SeqAt(d, m) # None /\ SeqAt(d, m) # SeqAt(d, a) /\ After(SeqAt(d, m), SeqAt(d, a))
      /\ SeqAt(d, m) = SeqAt(d, q) <=> m = q
  <2>1. /\ SeqAt(d, m) = SeqAt(d, a) <=> m = a
        /\ After(SeqAt(d, m), SeqAt(d, a)) <=> m > a
        /\ SeqAt(d, m) = SeqAt(d, q) <=> m = q
    BY <1>2, <1>3, NumbersCompare
  <2>2. SeqAt(d, m) # None
    BY <1>2, Numbers
  <2> QED
    BY <1>5, <2>1, <2>2
<1>7. r.state.next # s.next /\ (s.next # None => After(r.state.next, s.next))
  BY <1>2, <1>3, <1>6
<1>8. Meets(d, s, p, q)
  BY <1>3, <1>4 DEF Meets
<1>9. ~ (Len(r.state.buffered) > Len(s.buffered))
  <2>1. Len(r.state.buffered) \in Nat /\ Len(s.buffered) \in Nat
    BY <1>3, LenProperties DEF DirStates
  <2> QED
    BY <1>2, <2>1
<1>10. /\ st \in Statuses \ {"Reset"} /\ st # "OutOfOrderBuffered"
  BY <1>4 DEF Statuses, Moving
<1>11. st = "GapFilled" => r.state.next # SeqAt(d, q) /\ Len(r.state.buffered) < Len(s.buffered)
  BY <1>2, <1>6 DEF Lands
<1>12. st \in {"InOrder", "Fin"} => r.state.next = SeqAt(d, q) /\ Len(r.state.buffered) = Len(s.buffered)
  BY <1>2, <1>6 DEF Lands
<1>13. st = "Fin" => q = StreamLen[d] + 2
  BY DEF Lands
<1> QED
  BY <1>1, <1>2, <1>4, <1>7, <1>8, <1>9, <1>10, <1>11, <1>12, <1>13 DEF Outcome, r

\* A segment that starts beyond the next position is held, is held already or is dropped.
LEMMA BufferIs ==
    ASSUME NEW d, Opens(d), NEW s, NEW rel, rel \in Seq(Nat), Streams(d, s, rel),
           NEW p \in Ends(d), NEW q \in Ends(d), p < q,
           NEW n \in Ends(d), s.next = SeqAt(d, n), n < p,
           NEW flow \in Nat
    PROVE  Outcome(d, s, rel, p, q, flow, Buffer(s, Cut(d, p, q), flow))
<1> DEFINE seg == Cut(d, p, q)
           e == HeldAt(d, p, q)
           r == Buffer(s, seg, flow)
<1>1. p \in Nat /\ q \in Nat /\ n \in Nat /\ 1 <= p /\ p # 0 /\ p <= q /\ s.next # None
  BY Numbers
<1>2. /\ seg.start = SeqAt(d, p) /\ End(seg) = SeqAt(d, q) /\ PayloadStart(seg) = SeqAt(d, p)
      /\ seg.payload = Payload(d, p, q)
  BY <1>1, CutIs
<1>3. [start |-> seg.start, end |-> End(seg), payload_start |-> PayloadStart(seg),
       bytes |-> seg.payload] = e
  BY <1>2 DEF HeldAt
<1>4. e.bytes = seg.payload
  BY <1>2 DEF HeldAt
<1> HIDE DEF seg, e
<1>5. ~ Meets(d, s, p, q)
  <2> SUFFICES ASSUME NEW k \in Ends(d), s.next = SeqAt(d, k), p <= k
               PROVE  FALSE
    BY <1>1 DEF Meets
  <2>1. k = n
    <3>1. SeqAt(d, k) = SeqAt(d, n)
      OBVIOUS
    <3> QED
      BY <3>1, NumbersCompare
  <2> QED
    BY <1>1, <2>1
<1>6. s \in DirStates(d) /\ Tidy(s) /\ Settled(s)
  BY <1>1 DEF Streams
<1>7. s.buffered \in Seq(HeldSegments(d)) /\ s.buffered_bytes \in Nat /\ Sorted(s.buffered)
      /\ s.buffered_bytes = HeldBytes(s.buffered) /\ Len(s.buffered) <= MaxSegments
  BY <1>6 DEF DirStates, Tidy
<1>8. CASE \E x \in ToSet(s.buffered) : x.start = seg.start /\ x.end = End(seg)
  <2>1. r = [state |-> s, out |-> <<>>, status |-> "Retransmission"]
    BY <1>8 DEF Buffer
  <2>2. Outcome(d, s, rel, p, q, flow, [state |-> s, out |-> <<>>, status |-> "Retransmission"])
    BY <1>5, QuietIs
  <2> QED
    BY <2>1, <2>2 DEF seg
<1>9. CASE /\ ~ \E x \in ToSet(s.buffered) : x.start = seg.start /\ x.end = End(seg)
           /\ Len(s.buffered) >= MaxSegments \/ flow + Len(seg.payload) > MaxBytes
  <2>1. r = [state |-> s, out |-> <<>>, status |-> "OutOfOrderDropped"]
    BY <1>9 DEF Buffer
  <2>2. Outcome(d, s, rel, p, q, flow, [state |-> s, out |-> <<>>, status |-> "OutOfOrderDropped"])
    BY <1>5, QuietIs
  <2> QED
    BY <2>1, <2>2 DEF seg
<1>10. CASE /\ ~ \E x \in ToSet(s.buffered) : x.start = seg.start /\ x.end = End(seg)
            /\ ~ (Len(s.buffered) >= MaxSegments \/ flow + Len(seg.payload) > MaxBytes)
  <2> DEFINE a == InsertAt(s.buffered, Place(s.buffered, SeqAt(d, p)), e)
             t == [s EXCEPT !.buffered = a, !.buffered_bytes = s.buffered_bytes + Len(seg.payload)]
             u == [state |-> t, out |-> <<>>, status |-> "OutOfOrderBuffered"]
  <2>1. r = u
    <3>1. r = [state |-> [s EXCEPT !.buffered = InsertAt(@, Place(@, seg.start), e),
                                   !.buffered_bytes = @ + Len(seg.payload)],
               out |-> <<>>, status |-> "OutOfOrderBuffered"]
      BY <1>3, <1>10 DEF Buffer
    <3> QED
      BY <1>2, <3>1
  <2>2. /\ a \in Seq(HeldSegments(d)) /\ Len(a) = Len(s.buffered) + 1 /\ Len(s.buffered) \in Nat
        /\ Sorted(a)
        /\ HeldBytes(a) = HeldBytes(s.buffered) + Len(e.bytes)
        /\ HeldBytes(s.buffered) \in Nat /\ Len(e.bytes) \in Nat
        /\ \A j \in 1 .. Len(a) : a[j] = e \/ \E k \in 1 .. Len(s.buffered) : a[j] = s.buffered[k]
    <3>1. ~ \E x \in ToSet(s.buffered) : x.start = SeqAt(d, p) /\ x.end = SeqAt(d, q)
      BY <1>2, <1>10
    <3>2. PICK b \in Seq(HeldSegments(d)) : b = s.buffered
      BY <1>7
    <3>3. ~ \E x \in ToSet(b) : x.start = SeqAt(d, p) /\ x.end = SeqAt(d, q)
      BY <3>1, <3>2
    <3>4. Sorted(b)
      BY <1>7, <3>2
    <3> DEFINE f == HeldAt(d, p, q)
               c == InsertAt(b, Place(b, SeqAt(d, p)), f)
    <3>5. /\ c \in Seq(HeldSegments(d)) /\ Len(c) = Len(b) + 1 /\ Len(b) \in Nat
          /\ Sorted(c)
          /\ HeldBytes(c) = HeldBytes(b) + Len(f.bytes)
          /\ HeldBytes(b) \in Nat /\ Len(f.bytes) \in Nat
          /\ \A j \in 1 .. Len(c) : c[j] = f \/ \E k \in 1 .. Len(b) : c[j] = b[k]
      BY <1>1, <3>3, <3>4, BufferGrows
    <3>6. c = a /\ f = e
      BY <3>2 DEF e
    <3> HIDE DEF c, f, a
    <3> QED
      BY <3>2, <3>5, <3>6
  <2> HIDE DEF a
  <2>3. /\ t \in DirStates(d) /\ t.buffered = a
        /\ t.buffered_bytes = s.buffered_bytes + Len(seg.payload)
        /\ t.next = s.next /\ t.initial = s.initial
    <3>1. PICK c \in Nat : c = s.buffered_bytes + Len(seg.payload)
      BY <1>4, <1>7, <2>2
    <3>2. t = [s EXCEPT !.buffered = a, !.buffered_bytes = c]
      BY <3>1
    <3> HIDE DEF t
    <3> QED
      BY <1>6, <2>2, <3>1, <3>2 DEF DirStates
  <2> HIDE DEF t
  <2>4. Tidy(t)
    <3>1. Len(a) <= MaxSegments
      BY <1>10, <2>2, DirectionAssumption
    <3> QED
      BY <1>4, <1>7, <2>2, <2>3, <3>1 DEF Tidy
  <2>5. Settled(t)
    <3>1. ~ Joins(e, s.next)
      <4>1. Joins(e, SeqAt(d, n)) <=> p <= n /\ n < q
        BY JoinsMeans DEF e
      <4> QED
        BY <1>1, <4>1
    <3>2. \A k \in 1 .. Len(s.buffered) : ~ Joins(s.buffered[k], s.next)
      BY <1>6 DEF Settled
    <3> QED
      BY <2>2, <2>3, <3>1, <3>2 DEF Settled
  <2>6. Streams(d, t, rel)
    BY <1>1, <2>3, <2>4, <2>5 DEF Streams
  <2>7. u.state = t /\ BytesOf(u.out) = <<>> /\ <<>> \in Seq(Nat) /\ rel \o <<>> = rel
        /\ u.status = "OutOfOrderBuffered"
    BY BytesOfOne, ConcatEmptySeq
  <2> HIDE DEF u
  <2>8. flow + (t.buffered_bytes - s.buffered_bytes) <= MaxBytes
    <3>1. PICK k \in Nat : k = Len(seg.payload)
      BY <1>4, <2>2
    <3>2. flow + k <= MaxBytes
      BY <1>10, <3>1, DirectionAssumption
    <3>3. t.buffered_bytes - s.buffered_bytes = k
      BY <1>7, <2>3, <3>1
    <3> QED
      BY <3>2, <3>3
  <2>9. Len(t.buffered) > Len(s.buffered)
    BY <2>2, <2>3
  <2>10. /\ u.status \in Statuses \ {"Reset"} /\ u.status \notin Moving
         /\ u.status \notin {"GapFilled", "InOrder", "Fin"}
    BY <2>7 DEF Statuses, Moving
  <2>11. Outcome(d, s, rel, p, q, flow, u)
    BY <1>5, <2>3, <2>6, <2>7, <2>8, <2>9, <2>10 DEF Outcome
  <2> QED
    BY <2>1, <2>11 DEF seg
<1> QED
  BY <1>8, <1>9, <1>10 DEF seg

\* The end of a stream marked or not, a direction streams as before.
LEMMA MarkingKeeps ==
    ASSUME NEW d, NEW s, NEW rel, Streams(d, s, rel), NEW fin \in BOOLEAN
    PROVE  LET t == [s EXCEPT !.fin_seen = @ \/ fin]
           IN  /\ Streams(d, t, rel)
               /\ t.next = s.next /\ t.buffered = s.buffered
               /\ t.buffered_bytes = s.buffered_bytes /\ t.initial = s.initial
<1> DEFINE t == [s EXCEPT !.fin_seen = @ \/ fin]
<1>1. s \in DirStates(d)
  BY DEF Streams
<1>2. (s.fin_seen \/ fin) \in BOOLEAN
  OBVIOUS
<1>3. /\ t \in DirStates(d) /\ t.next = s.next /\ t.buffered = s.buffered
      /\ t.buffered_bytes = s.buffered_bytes /\ t.initial = s.initial
  <2>1. PICK f \in BOOLEAN : f = (s.fin_seen \/ fin)
    BY <1>2
  <2>2. t = [s EXCEPT !.fin_seen = f]
    BY <2>1, Zenon
  <2> HIDE DEF t
  <2> QED
    BY <1>1, <2>2 DEF DirStates
<1> HIDE DEF t
<1>4. Tidy(t) <=> Tidy(s)
  BY <1>3 DEF Tidy
<1>5. Settled(t) <=> Settled(s)
  BY <1>3 DEF Settled
<1>6. Streams(d, t, rel)
  BY <1>3, <1>4, <1>5 DEF Streams
<1> QED
  BY <1>3, <1>6 DEF t

\* Whatever a segment of the stream does is one of the outcomes.
LEMMA ObserveIs ==
    ASSUME NEW d, Opens(d), NEW old, NEW rel, rel \in Seq(Nat), Streams(d, old, rel),
           NEW p \in Ends(d), NEW q \in Ends(d), p <= q, NEW flow \in Nat
    PROVE  Outcome(d, old, rel, p, q, flow, Observe(old, Cut(d, p, q), flow))
<1> DEFINE seg == Cut(d, p, q)
           s == [old EXCEPT !.fin_seen = @ \/ seg.fin]
           r == Observe(old, seg, flow)
           same(status) == [state |-> s, out |-> <<>>, status |-> status]
<1>1. /\ seg.start = SeqAt(d, p) /\ End(seg) = SeqAt(d, q) /\ Span(seg) = q - p
      /\ seg.payload = Payload(d, p, q) /\ seg.payload \in Seq(Nat)
      /\ seg.rst = FALSE /\ seg.fin \in BOOLEAN
      /\ seg.fin <=> q = StreamLen[d] + 2 /\ p < q
      /\ p # 0 => PayloadStart(seg) = SeqAt(d, p)
      /\ p = 0 /\ p < q => PayloadStart(seg) = SeqAt(d, 1)
      /\ PayloadStart(seg) \in SeqNumbers
  BY CutIs
<1> HIDE DEF seg
<1>2. Streams(d, s, rel) /\ s.next = old.next /\ s.buffered = old.buffered
      /\ s.buffered_bytes = old.buffered_bytes /\ s.initial = old.initial
  BY <1>1, MarkingKeeps
<1>3. r = IF Span(seg) = 0 THEN same("NoSequence")
          ELSE IF s.next = None THEN First(s, seg)
          ELSE IF seg.start = s.next THEN Continue(s, seg)
          ELSE IF ~ Before(seg.start, s.next) THEN Buffer(s, seg, flow)
          ELSE IF After(End(seg), s.next) THEN Overlap(s, seg)
          ELSE same("Retransmission")
  BY <1>1 DEF Observe
<1>4. s \in DirStates(d) /\ d \in Directions
  BY <1>2 DEF Streams, Opens
<1> HIDE DEF s, r
<1>5. p \in Nat /\ q \in Nat
  BY Numbers
<1>6. Outcome(d, s, rel, p, q, flow, r)
  <2>1. CASE p = q
    <3>1. Span(seg) = 0 /\ ~ Meets(d, s, p, q)
      BY <1>1, <1>5, <2>1 DEF Meets
    <3>2. r = same("NoSequence")
      BY <1>3, <3>1
    <3>3. Outcome(d, s, rel, p, q, flow, same("NoSequence"))
      BY <1>2, <3>1, QuietIs
    <3> QED
      BY <3>2, <3>3
  <2>2. CASE p < q /\ s.next = None
    <3> DEFINE t == [s EXCEPT !.initial = seg.start, !.next = End(seg)]
               c == Consume(t, Whole(seg))
    <3>1. r = [state |-> c.state, out |-> c.out, status |-> "Init"]
      <4>1. Span(seg) # 0
        BY <1>1, <1>5, <2>2
      <4>2. r = First(s, seg)
        BY <1>3, <2>2, <4>1
      <4> QED
        BY <4>2 DEF First
    <3>2. Reaches(d, s, rel, p)
      BY <1>2, <2>2 DEF Reaches
    <3>3. t = [s EXCEPT !.initial = IF s.next = None THEN SeqAt(d, p) ELSE @, !.next = SeqAt(d, q)]
      BY <1>1, <2>2
    <3>4. Whole(seg) \in Seq(Chunks) /\ BytesOf(Whole(seg)) = Payload(d, p, q)
      BY <1>1, BytesOfOne DEF Whole
    <3> HIDE DEF t
    <3>5. Consumed(d, s, rel, p, q, c)
      BY <2>2, <3>2, <3>3, <3>4, ConsumeMoves
    <3>6. Lands(d, p, p, q, c, "Init")
      BY <1>5, <2>2 DEF Lands, Moving
    <3> HIDE DEF c
    <3>7. Outcome(d, s, rel, p, q, flow, [state |-> c.state, out |-> c.out, status |-> "Init"])
      BY <3>2, <3>5, <3>6, LandingIs
    <3> QED
      BY <3>1, <3>7
  <2>3. CASE p < q /\ s.next # None
    <3>1. PICK n \in Ends(d) : s.next = SeqAt(d, n) /\ \E i \in Ends(d) : i < n
      BY <1>2, <2>3 DEF Streams
    <3>2. n \in Nat /\ n >= 1 /\ Span(seg) # 0
      <4>1. PICK i \in Ends(d) : i < n
        BY <3>1
      <4>2. i \in Nat /\ n \in Nat
        BY <3>1, Numbers
      <4> QED
        BY <1>1, <1>5, <2>3, <4>1, <4>2
    <3>3. /\ seg.start = s.next <=> p = n
          /\ Before(seg.start, s.next) <=> p < n
          /\ After(End(seg), s.next) <=> q > n
      BY <1>1, <3>1, NumbersCompare
    <3>4. Reaches(d, s, rel, n)
      BY <1>2, <3>1 DEF Reaches
    <3>5. CASE p = n
      <4> DEFINE t == [s EXCEPT !.next = End(seg)]
                 c == Consume(t, Whole(seg))
                 st == IF c.advanced THEN "GapFilled" ELSE IF seg.fin THEN "Fin" ELSE "InOrder"
      <4>1. r = [state |-> c.state, out |-> c.out, status |-> st]
        <5>1. r = Continue(s, seg)
          BY <1>3, <2>3, <3>2, <3>3, <3>5
        <5> QED
          BY <5>1 DEF Continue
      <4>2. t = [s EXCEPT !.initial = IF s.next = None THEN SeqAt(d, n) ELSE @, !.next = SeqAt(d, q)]
        BY <1>1, <1>4, <2>3 DEF DirStates
      <4>3. Whole(seg) \in Seq(Chunks) /\ BytesOf(Whole(seg)) = Payload(d, n, q)
        BY <1>1, <3>5, BytesOfOne DEF Whole
      <4> HIDE DEF t
      <4>4. Consumed(d, s, rel, n, q, c)
        BY <2>3, <3>4, <3>5, <4>2, <4>3, ConsumeMoves
      <4>5. Lands(d, p, n, q, c, st)
        <5>1. st \in Moving /\ p <= n /\ n < q
          BY <2>3, <3>2, <3>5 DEF Moving
        <5>2. /\ st = "GapFilled" => c.advanced
              /\ st \in {"InOrder", "Fin"} => ~ c.advanced
              /\ st = "Fin" => seg.fin
          OBVIOUS
        <5> HIDE DEF st, c
        <5> QED
          BY <1>1, <2>3, <5>1, <5>2 DEF Lands
      <4> HIDE DEF c, st
      <4>6. Outcome(d, s, rel, p, q, flow, [state |-> c.state, out |-> c.out, status |-> st])
        BY <3>4, <4>4, <4>5, LandingIs
      <4> QED
        BY <4>1, <4>6
    <3>6. CASE n < p
      <4>1. r = Buffer(s, seg, flow)
        BY <1>3, <1>5, <2>3, <3>2, <3>3, <3>6
      <4>2. Outcome(d, s, rel, p, q, flow, Buffer(s, seg, flow))
        BY <1>2, <2>3, <3>1, <3>6, BufferIs DEF seg
      <4> QED
        BY <4>1, <4>2
    <3>7. CASE p < n /\ n < q
      <4> DEFINE out == Trimmed(PayloadStart(seg), seg.payload, s.next)
                 t == [s EXCEPT !.next = End(seg)]
                 c == Consume(t, out)
      <4>1. r = [state |-> c.state, out |-> c.out, status |-> "Overlap"]
        <5>1. r = Overlap(s, seg)
          BY <1>3, <1>5, <2>3, <3>2, <3>3, <3>7
        <5> QED
          BY <5>1 DEF Overlap
      <4>2. t = [s EXCEPT !.initial = IF s.next = None THEN SeqAt(d, n) ELSE @, !.next = SeqAt(d, q)]
        BY <1>1, <1>4, <2>3 DEF DirStates
      <4>3. \E start \in SeqNumbers : out = Chunk(start, Payload(d, n, q))
        <5>1. CASE p = 0
          <6>1. 1 \in Ends(d) /\ 1 <= n
            <7>1. StreamLen[d] \in Nat
              BY Numbers
            <7> QED
              BY <1>5, <3>2, <7>1 DEF Ends
          <6>2. Payload(d, p, q) = Payload(d, 1, q)
            BY <5>1 DEF Payload
          <6>3. out = Trimmed(SeqAt(d, 1), Payload(d, 1, q), SeqAt(d, n))
            BY <1>1, <2>3, <3>1, <5>1, <6>2
          <6>4. PICK u \in Ends(d) : u = 1
            BY <6>1
          <6>5. 1 <= u /\ u <= n
            BY <6>1, <6>4
          <6>6. \E start \in SeqNumbers :
                  Trimmed(SeqAt(d, u), Payload(d, u, q), SeqAt(d, n)) = Chunk(start, Payload(d, n, q))
            BY <3>7, <6>5, TrimmedIs
          <6> QED
            BY <6>3, <6>4, <6>6
        <5>2. CASE p # 0
          <6>1. 1 <= p /\ p <= n
            BY <1>5, <3>2, <3>7, <5>2
          <6>2. out = Trimmed(SeqAt(d, p), Payload(d, p, q), SeqAt(d, n))
            BY <1>1, <3>1, <5>2
          <6> QED
            BY <3>7, <6>1, <6>2, TrimmedIs
        <5> QED
          BY <5>1, <5>2
      <4>4. out \in Seq(Chunks) /\ BytesOf(out) = Payload(d, n, q)
        <5>1. n <= q
          BY <1>5, <3>2, <3>7
        <5>2. Payload(d, n, q) \in Seq(Nat)
          BY <1>4, <3>1, <5>1, PayloadIs
        <5> HIDE DEF out
        <5> QED
          BY <4>3, <5>2, BytesOfOne
      <4> HIDE DEF t, out
      <4>5. Consumed(d, s, rel, n, q, c)
        BY <3>4, <3>7, <4>2, <4>4, ConsumeMoves
      <4>6. Lands(d, p, n, q, c, "Overlap")
        <5>1. p <= n
          BY <1>5, <3>2, <3>7
        <5> QED
          BY <2>3, <3>7, <5>1 DEF Lands, Moving
      <4> HIDE DEF c
      <4>7. Outcome(d, s, rel, p, q, flow, [state |-> c.state, out |-> c.out, status |-> "Overlap"])
        BY <3>4, <4>5, <4>6, LandingIs
      <4> QED
        BY <4>1, <4>7
    <3>8. CASE q <= n
      <4>1. p < n /\ ~ (n < q) /\ p # n
        BY <1>5, <2>3, <3>2, <3>8
      <4>2. r = same("Retransmission")
        BY <1>3, <2>3, <3>2, <3>3, <4>1
      <4>3. ~ Meets(d, s, p, q)
        <5> SUFFICES ASSUME NEW k \in Ends(d), s.next = SeqAt(d, k), k < q
                     PROVE  FALSE
          BY <2>3 DEF Meets
        <5>1. SeqAt(d, k) = SeqAt(d, n)
          BY <3>1
        <5>2. k = n
          BY <5>1, NumbersCompare
        <5> QED
          BY <4>1, <5>2
      <4>4. Outcome(d, s, rel, p, q, flow, same("Retransmission"))
        BY <1>2, <4>3, QuietIs
      <4> QED
        BY <4>2, <4>4
    <3> QED
      BY <1>5, <3>2, <3>5, <3>6, <3>7, <3>8
  <2> QED
    BY <1>5, <2>1, <2>2, <2>3
<1> QED
  BY <1>2, <1>6 DEF Outcome, Meets, r, seg

-----------------------------------------------------------------------------
(* The inductive invariant                                                    *)

\* Every direction is as Streams says, and together they are within the byte cap.
IInv ==
    /\ isn \in [Directions -> InitialSeqs]
    /\ dirs = [d \in Directions |-> dirs[d]]
    /\ released \in [Directions -> Seq(Nat)]
    /\ finished \in BOOLEAN
    /\ last \in [dir : Directions, start : SeqNumbers, end : SeqNumbers, status : Statuses]
    /\ \A d \in Directions : Streams(d, dirs[d], released[d])
    /\ FlowBytes <= MaxBytes

\* Every direction has a sequence number to count from.
LEMMA AllOpen == ASSUME IInv, NEW d \in Directions PROVE Opens(d)
  BY ReassemblyAssumption DEF IInv, Opens, SeqNumbers

\* The bytes buffered are a number, whatever the directions hold.
LEMMA FlowBytesAre ==
    ASSUME NEW ds, \A d \in Directions : ds[d].buffered_bytes \in Nat
    PROVE  LET held == [d \in Directions |-> ds[d].buffered_bytes]
           IN  /\ SumFunction(held) = SumFunctionOnSet(held, Directions)
               /\ SumFunction(held) \in Nat
<1> DEFINE held == [d \in Directions |-> ds[d].buffered_bytes]
<1>1. IsFiniteSet(Directions) /\ DOMAIN held = Directions
  BY ReassemblyAssumption
<1>2. SumFunction(held) = SumFunctionOnSet(held, Directions)
  BY <1>1 DEF SumFunction
<1>3. \A d \in Directions : held[d] \in Nat
  OBVIOUS
<1> HIDE DEF held
<1>4. SumFunctionOnSet(held, Directions) \in Nat
  BY <1>1, <1>3, SumIsNumber
<1> QED
  BY <1>2, <1>4 DEF held

\* Nothing is captured yet.
LEMMA InitIInv == Init => IInv
<1> SUFFICES ASSUME Init
             PROVE  IInv
  OBVIOUS
<1>1. \A d \in Directions : dirs[d] = NewDirection /\ released[d] = <<>>
  BY DEF Init
<1>2. HeldBytes(<<>>) = 0
  <2>1. DOMAIN Lengths(<<>>) = {}
    BY DEF Lengths
  <2> QED
    BY <2>1, SumOfNothing DEF HeldBytes, SumFunction
<1>3. NewDirection = [initial |-> None, next |-> None, fin_seen |-> FALSE,
                      buffered |-> <<>>, buffered_bytes |-> 0]
  BY DEF NewDirection
<1>4. ASSUME NEW d \in Directions
      PROVE  NewDirection \in DirStates(d) /\ Streams(d, NewDirection, <<>>)
  <2>1. <<>> \in Seq(HeldSegments(d)) /\ Len(<<>>) = 0
    OBVIOUS
  <2>2. NewDirection \in DirStates(d)
    BY <1>3, <2>1 DEF DirStates
  <2>3. Sorted(<<>>) /\ Len(<<>>) <= MaxSegments
    BY DirectionAssumption DEF Sorted
  <2>4. Tidy(NewDirection)
    BY <1>2, <1>3, <2>3 DEF Tidy
  <2> QED
    BY <1>3, <2>2, <2>4 DEF Streams
<1>5. FlowBytes <= MaxBytes
  <2> DEFINE held == [d \in Directions |-> dirs[d].buffered_bytes]
  <2>1. IsFiniteSet(Directions) /\ DOMAIN held = Directions
    BY ReassemblyAssumption
  <2>2. \A d \in Directions : held[d] = 0
    BY <1>1, <1>3
  <2> HIDE DEF held
  <2>3. SumFunctionOnSet(held, Directions) = 0
    BY <2>1, <2>2, SumOfZeros
  <2>4. SumFunction(held) = 0
    BY <2>1, <2>3 DEF SumFunction
  <2> QED
    BY <2>4, DirectionAssumption DEF FlowBytes, held
<1>6. dirs = [d \in Directions |-> dirs[d]]
  BY DEF Init
<1>7. last \in [dir : Directions, start : SeqNumbers, end : SeqNumbers, status : Statuses]
  <2>1. 0 \in SeqNumbers
    BY DirectionAssumption DEF SeqNumbers
  <2>2. (CHOOSE d \in Directions : TRUE) \in Directions
    BY ReassemblyAssumption
  <2>3. "NoSequence" \in Statuses
    BY DEF Statuses
  <2> QED
    BY <2>1, <2>2, <2>3 DEF Init
<1>8. \A d \in Directions : Streams(d, dirs[d], released[d])
  BY <1>1, <1>4
<1>9. isn \in [Directions -> InitialSeqs] /\ finished \in BOOLEAN
      /\ released \in [Directions -> Seq(Nat)]
  <2>1. <<>> \in Seq(Nat)
    OBVIOUS
  <2>2. released = [d \in Directions |-> <<>>]
    BY DEF Init
  <2>3. released \in [Directions -> Seq(Nat)]
    BY <2>1, <2>2
  <2> QED
    BY <2>3 DEF Init
<1> QED
  BY <1>5, <1>6, <1>7, <1>8, <1>9 DEF IInv

\* What one observation of direction d, a segment or a reset, may do.
Observed(d, seg, r) ==
    /\ r = Observe(dirs[d], seg, FlowBytes)
    /\ seg.start \in SeqNumbers /\ End(seg) \in SeqNumbers /\ seg.rst \in BOOLEAN
    /\ Streams(d, r.state, released[d] \o BytesOf(r.out))
    /\ BytesOf(r.out) \in Seq(Nat)
    /\ r.status \in Statuses
    /\ \/ r.state.buffered_bytes <= dirs[d].buffered_bytes
       \/ FlowBytes + (r.state.buffered_bytes - dirs[d].buffered_bytes) <= MaxBytes

\* Every segment of the network is observed so, with the outcome of ObserveIs.
LEMMA SegmentObserved ==
    ASSUME IInv, NEW d \in Directions, NEW p \in Ends(d), NEW q \in Ends(d), p <= q
    PROVE  LET seg == Cut(d, p, q)
               r == Observe(dirs[d], seg, FlowBytes)
           IN  Observed(d, seg, r) /\ Outcome(d, dirs[d], released[d], p, q, FlowBytes, r)
<1> DEFINE seg == Cut(d, p, q)
           r == Observe(dirs[d], seg, FlowBytes)
<1>1. Opens(d)
  BY AllOpen
<1>2. Streams(d, dirs[d], released[d]) /\ released[d] \in Seq(Nat)
  BY DEF IInv
<1>3. FlowBytes \in Nat
  <2>1. \A e \in Directions : dirs[e].buffered_bytes \in Nat
    BY DEF IInv, Streams, DirStates
  <2> QED
    BY <2>1, FlowBytesAre DEF FlowBytes
<1>4. Outcome(d, dirs[d], released[d], p, q, FlowBytes, r)
  BY <1>1, <1>2, <1>3, ObserveIs
<1>5. seg.start \in SeqNumbers /\ End(seg) \in SeqNumbers /\ seg.rst \in BOOLEAN
  <2>1. SeqAt(d, p) \in SeqNumbers /\ SeqAt(d, q) \in SeqNumbers
    BY <1>1, Numbers
  <2>2. seg.start = SeqAt(d, p) /\ End(seg) = SeqAt(d, q) /\ seg.rst = FALSE
    BY <1>1, CutIs
  <2> QED
    BY <2>1, <2>2
<1> HIDE DEF seg
<1>6. Observed(d, seg, r)
  BY <1>4, <1>5 DEF Outcome, Observed
<1> QED
  BY <1>4, <1>6 DEF seg

\* A reset moves nothing.
LEMMA ResetObserved ==
    ASSUME IInv, NEW d \in Directions
    PROVE  LET seg == [Cut(d, 0, 0) EXCEPT !.rst = TRUE]
               r == Observe(dirs[d], seg, FlowBytes)
           IN  /\ Observed(d, seg, r)
               /\ r.status = "Reset" /\ BytesOf(r.out) = <<>>
               /\ r.state.next = dirs[d].next /\ r.state.buffered = dirs[d].buffered
<1> DEFINE cut == Cut(d, 0, 0)
           seg == [cut EXCEPT !.rst = TRUE]
           s == [dirs[d] EXCEPT !.fin_seen = @ \/ seg.fin]
           r == Observe(dirs[d], seg, FlowBytes)
<1>1. Opens(d) /\ 0 \in Ends(d) /\ 0 <= 0
  <2>1. StreamLen[d] \in Nat
    BY ReassemblyAssumption
  <2>2. 0 \in Ends(d)
    BY <2>1 DEF Ends
  <2> QED
    BY <2>2, AllOpen
<1>2. cut.start \in SeqNumbers /\ End(cut) \in SeqNumbers /\ cut.fin \in BOOLEAN
  <2>1. SeqAt(d, 0) \in SeqNumbers
    BY <1>1, Numbers
  <2>2. cut.start = SeqAt(d, 0) /\ End(cut) = SeqAt(d, 0) /\ cut.fin \in BOOLEAN
    BY <1>1, CutIs
  <2> QED
    BY <2>1, <2>2
<1>3. /\ seg.start = cut.start /\ seg.fin = cut.fin /\ seg.rst = TRUE
      /\ seg.payload = cut.payload /\ seg.syn = cut.syn
  BY DEF Cut
<1> HIDE DEF cut, seg
<1>4. End(seg) = End(cut)
  BY <1>3 DEF End, Span
<1>5. r = [state |-> s, out |-> <<>>, status |-> "Reset"]
  BY <1>3 DEF Observe
<1>6. /\ Streams(d, s, released[d])
      /\ s.next = dirs[d].next /\ s.buffered = dirs[d].buffered
      /\ s.buffered_bytes = dirs[d].buffered_bytes
  <2>1. Streams(d, dirs[d], released[d]) /\ seg.fin \in BOOLEAN
    BY <1>2, <1>3 DEF IInv
  <2> QED
    BY <2>1, MarkingKeeps
<1> HIDE DEF s
<1>7. BytesOf(<<>>) = <<>> /\ released[d] \o <<>> = released[d] /\ <<>> \in Seq(Nat)
  <2>1. released[d] \in Seq(Nat)
    BY DEF IInv
  <2> QED
    BY <2>1, BytesOfOne, ConcatEmptySeq
<1>8. dirs[d].buffered_bytes \in Nat
  BY DEF IInv, Streams, DirStates
<1>9. "Reset" \in Statuses
  BY DEF Statuses
<1> HIDE DEF r
<1>10. /\ r.state = s /\ r.out = <<>> /\ r.status = "Reset"
       /\ BytesOf(r.out) = <<>> /\ released[d] \o BytesOf(r.out) = released[d]
  BY <1>5, <1>7
<1>11. Observed(d, seg, r)
  <2>1. r.state.buffered_bytes <= dirs[d].buffered_bytes
    BY <1>6, <1>8, <1>10
  <2>2. r = Observe(dirs[d], seg, FlowBytes)
    BY DEF r
  <2> QED
    BY <1>2, <1>3, <1>4, <1>6, <1>7, <1>9, <1>10, <2>1, <2>2 DEF Observed
<1> QED
  BY <1>6, <1>10, <1>11 DEF cut, seg, r

\* What a direction holds is the same after a step: the step keeps the
\* sequence numbers that its stream is counted from.
LEMMA StreamsStay ==
    ASSUME isn' = isn, NEW d, NEW s, NEW rel
    PROVE  Streams(d, s, rel)' <=> Streams(d, s, rel)
<1>1. \A p : SeqAt(d, p)' = SeqAt(d, p)
  BY DEF SeqAt
<1>2. \A p, q : HeldAt(d, p, q)' = HeldAt(d, p, q)
  BY <1>1 DEF HeldAt
<1>3. HeldSegments(d)' = HeldSegments(d)
  BY <1>2 DEF HeldSegments
<1>4. DirStates(d)' = DirStates(d)
  BY <1>3 DEF DirStates
<1> QED
  BY <1>1, <1>4 DEF Streams

\* The byte cap is over both directions, and one observation changes one of
\* them: by less than nothing, or by what still fits.
LEMMA BytesStayBounded ==
    ASSUME IInv, NEW d \in Directions, NEW s, s.buffered_bytes \in Nat,
           dirs' = [dirs EXCEPT ![d] = s],
           \/ s.buffered_bytes <= dirs[d].buffered_bytes
           \/ FlowBytes + (s.buffered_bytes - dirs[d].buffered_bytes) <= MaxBytes
    PROVE  FlowBytes' <= MaxBytes
<1> DEFINE old == [e \in Directions |-> dirs[e].buffered_bytes]
           new == [e \in Directions |-> dirs'[e].buffered_bytes]
<1>1. \A e \in Directions : dirs[e].buffered_bytes \in Nat
  BY DEF IInv, Streams, DirStates
<1>2. dirs'[d] = s /\ \A e \in Directions \ {d} : dirs'[e] = dirs[e]
  BY DEF IInv
<1>3. \A e \in Directions : dirs'[e].buffered_bytes \in Nat
  BY <1>1, <1>2
<1>4. SumFunction(old) = SumFunctionOnSet(old, Directions) /\ SumFunction(old) \in Nat
  BY <1>1, FlowBytesAre
<1>5. SumFunction(new) = SumFunctionOnSet(new, Directions) /\ SumFunction(new) \in Nat
  <2>1. PICK ds : ds = dirs'
    OBVIOUS
  <2>2. \A e \in Directions : ds[e].buffered_bytes \in Nat
    BY <1>3, <2>1
  <2>3. new = [e \in Directions |-> ds[e].buffered_bytes]
    BY <2>1
  <2> HIDE DEF new
  <2> QED
    BY <2>2, <2>3, FlowBytesAre
<1>6. FlowBytes = SumFunction(old) /\ FlowBytes' = SumFunction(new)
  BY DEF FlowBytes
<1>7. /\ old[d] = dirs[d].buffered_bytes /\ new[d] = s.buffered_bytes
      /\ \A e \in Directions : old[e] \in Nat /\ new[e] \in Nat
      /\ \A e \in Directions \ {d} : old[e] = new[e]
  BY <1>1, <1>2, <1>3
<1> HIDE DEF old, new
<1>8. SumFunctionOnSet(old, Directions) + new[d] = SumFunctionOnSet(new, Directions) + old[d]
  <2>1. IsFiniteSet(Directions)
    BY ReassemblyAssumption
  <2> QED
    BY <1>7, <2>1, SumChanges
<1>9. FlowBytes \in Nat /\ FlowBytes' \in Nat /\ FlowBytes <= MaxBytes /\ MaxBytes \in Nat
  BY <1>4, <1>5, <1>6, DirectionAssumption DEF IInv
<1>10. FlowBytes + s.buffered_bytes = FlowBytes' + dirs[d].buffered_bytes
  BY <1>4, <1>5, <1>6, <1>7, <1>8
<1>11. dirs[d].buffered_bytes \in Nat
  BY <1>1
<1> QED
  BY <1>9, <1>10, <1>11

\* Receiving what was observed so keeps the invariant.
LEMMA ReceiveStep ==
    ASSUME IInv, NEW d \in Directions, NEW seg, Receive(d, seg),
           Observed(d, seg, Observe(dirs[d], seg, FlowBytes))
    PROVE  IInv'
<1> DEFINE r == Observe(dirs[d], seg, FlowBytes)
<1>1. Observed(d, seg, r)
  OBVIOUS
<1>2. /\ dirs' = [dirs EXCEPT ![d] = r.state]
      /\ last' = [dir |-> d, start |-> seg.start, end |-> End(seg), status |-> r.status]
      /\ released' = [released EXCEPT ![d] = @ \o BytesOf(r.out)]
      /\ isn' = isn
      /\ finished' = (finished \/ seg.rst \/ \A e \in Directions : dirs'[e].fin_seen)
  BY DEF Receive
<1> HIDE DEF r
<1>3. /\ Streams(d, r.state, released[d] \o BytesOf(r.out))
      /\ BytesOf(r.out) \in Seq(Nat) /\ r.status \in Statuses
      /\ seg.start \in SeqNumbers /\ End(seg) \in SeqNumbers /\ seg.rst \in BOOLEAN
      /\ \/ r.state.buffered_bytes <= dirs[d].buffered_bytes
         \/ FlowBytes + (r.state.buffered_bytes - dirs[d].buffered_bytes) <= MaxBytes
  BY <1>1 DEF Observed
<1>4. /\ dirs = [e \in Directions |-> dirs[e]] /\ released \in [Directions -> Seq(Nat)]
      /\ \A e \in Directions : Streams(e, dirs[e], released[e])
      /\ isn \in [Directions -> InitialSeqs] /\ finished \in BOOLEAN
  BY DEF IInv
<1>5. dirs' = [e \in Directions |-> dirs'[e]]
      /\ dirs'[d] = r.state /\ \A e \in Directions \ {d} : dirs'[e] = dirs[e]
  BY <1>2, <1>4
<1>6. released[d] \o BytesOf(r.out) \in Seq(Nat)
  BY <1>3, <1>4, ConcatProperties
<1>7. released' \in [Directions -> Seq(Nat)] /\ released'[d] = released[d] \o BytesOf(r.out)
      /\ \A e \in Directions \ {d} : released'[e] = released[e]
  BY <1>2, <1>4, <1>6
<1>8. \A e \in Directions : Streams(e, dirs[e], released[e])'
  <2> SUFFICES ASSUME NEW e \in Directions
               PROVE  Streams(e, dirs[e], released[e])'
    OBVIOUS
  <2>1. Streams(e, dirs'[e], released'[e])
    BY <1>3, <1>4, <1>5, <1>7
  <2> QED
    BY <1>2, <2>1, StreamsStay
<1>9. r.state.buffered_bytes \in Nat
  BY <1>3 DEF Streams, DirStates
<1>10. FlowBytes' <= MaxBytes
  BY <1>2, <1>3, <1>9, BytesStayBounded
<1>11. finished' \in BOOLEAN
  BY <1>2
<1>12. last' \in [dir : Directions, start : SeqNumbers, end : SeqNumbers, status : Statuses]
  BY <1>2, <1>3
<1>13. isn' \in [Directions -> InitialSeqs]
  BY <1>2, <1>4
<1> QED
  BY <1>5, <1>7, <1>8, <1>10, <1>11, <1>12, <1>13 DEF IInv

\* A step of the network, in positions: the segment from p to q of direction e,
\* or a reset, is observed with result r.
Effect(e, p, q, r) ==
    /\ e \in Directions /\ p \in Ends(e) /\ q \in Ends(e) /\ p <= q
    /\ dirs'[e] = r.state /\ released'[e] = released[e] \o BytesOf(r.out)
    /\ \A d \in Directions \ {e} : dirs'[d] = dirs[d] /\ released'[d] = released[d]
    /\ last' = [dir |-> e, start |-> SeqAt(e, p), end |-> SeqAt(e, q), status |-> r.status]
    /\ \/ Outcome(e, dirs[e], released[e], p, q, FlowBytes, r)
       \/ /\ r.status = "Reset" /\ BytesOf(r.out) = <<>>
          /\ r.state.next = dirs[e].next /\ r.state.buffered = dirs[e].buffered

\* Receiving a segment leaves the other directions alone.
LEMMA ReceiveIs ==
    ASSUME IInv, NEW e \in Directions, NEW seg, Receive(e, seg)
    PROVE  LET r == Observe(dirs[e], seg, FlowBytes)
           IN  /\ dirs'[e] = r.state /\ released'[e] = released[e] \o BytesOf(r.out)
               /\ \A d \in Directions \ {e} : dirs'[d] = dirs[d] /\ released'[d] = released[d]
               /\ last' = [dir |-> e, start |-> seg.start, end |-> End(seg), status |-> r.status]
<1> DEFINE r == Observe(dirs[e], seg, FlowBytes)
<1>1. /\ dirs' = [dirs EXCEPT ![e] = r.state]
      /\ last' = [dir |-> e, start |-> seg.start, end |-> End(seg), status |-> r.status]
      /\ released' = [released EXCEPT ![e] = @ \o BytesOf(r.out)]
  BY DEF Receive
<1> HIDE DEF r
<1>2. dirs = [d \in Directions |-> dirs[d]] /\ released \in [Directions -> Seq(Nat)]
  BY DEF IInv
<1>3. /\ dirs'[e] = r.state
      /\ \A d \in Directions \ {e} : dirs'[d] = dirs[d]
  BY <1>1, <1>2
<1>4. /\ released'[e] = released[e] \o BytesOf(r.out)
      /\ \A d \in Directions \ {e} : released'[d] = released[d]
  BY <1>1, <1>2
<1> QED
  BY <1>1, <1>3, <1>4 DEF r

\* Each step keeps the invariant and is one of these.
LEMMA NextIs ==
    ASSUME IInv, Next
    PROVE  IInv' /\ \E e, p, q, r : Effect(e, p, q, r)
<1>1. PICK e \in Directions : Arrive(e) \/ ArriveReset(e)
  BY DEF Next
<1>2. Opens(e) /\ StreamLen[e] \in Nat
  BY ReassemblyAssumption, AllOpen
<1>3. CASE Arrive(e)
  <2>1. PICK seg \in Segments(e) : Receive(e, seg)
    BY <1>3 DEF Arrive
  <2>2. PICK p \in 0 .. StreamLen[e] + 2 : \E q \in p .. StreamLen[e] + 2 : seg = Cut(e, p, q)
    BY DEF Segments
  <2>3. PICK q \in p .. StreamLen[e] + 2 : seg = Cut(e, p, q)
    BY <2>2
  <2>4. p \in Ends(e) /\ q \in Ends(e) /\ p <= q
    BY <1>2 DEF Ends
  <2> DEFINE r == Observe(dirs[e], Cut(e, p, q), FlowBytes)
  <2>5. /\ Observed(e, Cut(e, p, q), r)
        /\ Outcome(e, dirs[e], released[e], p, q, FlowBytes, r)
    BY <2>4, SegmentObserved
  <2>6. IInv'
    BY <2>1, <2>3, <2>5, ReceiveStep
  <2>7. /\ dirs'[e] = r.state /\ released'[e] = released[e] \o BytesOf(r.out)
        /\ \A d \in Directions \ {e} : dirs'[d] = dirs[d] /\ released'[d] = released[d]
        /\ last' = [dir |-> e, start |-> seg.start, end |-> End(seg), status |-> r.status]
    BY <2>1, <2>3, ReceiveIs
  <2>8. seg.start = SeqAt(e, p) /\ End(seg) = SeqAt(e, q)
    BY <1>2, <2>3, <2>4, CutIs
  <2> HIDE DEF r
  <2>9. Effect(e, p, q, r)
    BY <2>4, <2>5, <2>7, <2>8 DEF Effect
  <2> QED
    BY <2>6, <2>9
<1>4. CASE ArriveReset(e)
  <2> DEFINE cut == Cut(e, 0, 0)
             seg == [cut EXCEPT !.rst = TRUE]
             r == Observe(dirs[e], seg, FlowBytes)
  <2>1. Receive(e, seg)
    BY <1>4 DEF ArriveReset
  <2>2. /\ Observed(e, seg, r)
        /\ r.status = "Reset" /\ BytesOf(r.out) = <<>>
        /\ r.state.next = dirs[e].next /\ r.state.buffered = dirs[e].buffered
    BY ResetObserved
  <2>3. 0 \in Ends(e) /\ 0 <= 0
    BY <1>2 DEF Ends
  <2>4. cut.start = SeqAt(e, 0) /\ End(cut) = SeqAt(e, 0)
    BY <1>2, <2>3, CutIs
  <2>5. /\ seg.start = cut.start /\ seg.fin = cut.fin
        /\ seg.payload = cut.payload /\ seg.syn = cut.syn
    BY DEF Cut
  <2> HIDE DEF cut, seg
  <2>6. End(seg) = End(cut)
    BY <2>5 DEF End, Span
  <2>7. IInv'
    BY <2>1, <2>2, ReceiveStep
  <2>8. /\ dirs'[e] = r.state /\ released'[e] = released[e] \o BytesOf(r.out)
        /\ \A d \in Directions \ {e} : dirs'[d] = dirs[d] /\ released'[d] = released[d]
        /\ last' = [dir |-> e, start |-> seg.start, end |-> End(seg), status |-> r.status]
    BY <2>1, ReceiveIs
  <2> HIDE DEF r
  <2>9. Effect(e, 0, 0, r)
    BY <2>2, <2>3, <2>4, <2>5, <2>6, <2>8 DEF Effect
  <2> QED
    BY <2>7, <2>9
<1> QED
  BY <1>1, <1>3, <1>4

\* The invariant is inductive.
LEMMA NextIInv == IInv /\ [Next]_vars => IInv'
<1> SUFFICES ASSUME IInv, [Next]_vars
             PROVE  IInv'
  OBVIOUS
<1>1. CASE Next
  BY <1>1, NextIs
<1>2. CASE UNCHANGED vars
  <2>1. isn' = isn /\ dirs' = dirs /\ finished' = finished /\ last' = last /\ released' = released
    BY <1>2 DEF vars
  <2>2. \A d \in Directions : Streams(d, dirs'[d], released'[d])
    BY <2>1 DEF IInv
  <2>3. \A d \in Directions : Streams(d, dirs[d], released[d])'
    BY <2>1, <2>2, StreamsStay
  <2>4. FlowBytes' = FlowBytes
    BY <2>1 DEF FlowBytes
  <2> QED
    BY <2>1, <2>3, <2>4 DEF IInv
<1> QED
  BY <1>1, <1>2

\* The invariant holds in every state.
LEMMA AlwaysIInv == Spec => []IInv
<1> QED
  BY InitIInv, NextIInv, PTL DEF Spec

-----------------------------------------------------------------------------
(* What the invariant says of the states                                      *)

\* A buffer holds well formed records.
LEMMA BufferTyped ==
    ASSUME NEW d, Opens(d), NEW b \in Seq(HeldSegments(d))
    PROVE  b \in Seq(BufferedType)
<1>1. HeldSegments(d) \subseteq BufferedType
  BY HeldParts
<1> QED
  BY <1>1, SeqMonotonic

\* The buffers are within both caps, and counted exactly.
LEMMA BuffersBounded == IInv => BuffersAreBounded
<1> SUFFICES ASSUME IInv
             PROVE  BuffersAreBounded
  OBVIOUS
<1> DEFINE bytes(d) == SumFunction([i \in DOMAIN dirs[d].buffered |-> Len(dirs[d].buffered[i].bytes)])
<1>1. ASSUME NEW d \in Directions
      PROVE  bytes(d) = dirs[d].buffered_bytes /\ Len(dirs[d].buffered) <= MaxSegments
  <2>1. bytes(d) = HeldBytes(dirs[d].buffered)
    BY DEF HeldBytes, Lengths
  <2>2. Tidy(dirs[d])
    BY DEF IInv, Streams
  <2> QED
    BY <2>1, <2>2 DEF Tidy
<1> HIDE DEF bytes
<1>2. [d \in Directions |-> bytes(d)] = [d \in Directions |-> dirs[d].buffered_bytes]
  BY <1>1
<1>3. SumFunction([d \in Directions |-> bytes(d)]) = FlowBytes
  BY <1>2 DEF FlowBytes
<1>4. FlowBytes <= MaxBytes
  BY DEF IInv
<1> QED
  BY <1>1, <1>3, <1>4 DEF BuffersAreBounded, bytes

\* The invariant bounds every part of the state.
LEMMA IInvTypes == IInv => TypeOK
<1> SUFFICES ASSUME IInv
             PROVE  TypeOK
  OBVIOUS
<1>1. BuffersAreBounded
  BY BuffersBounded
<1>2. BufferIsSorted
  <2>1. \A d \in Directions : Sorted(dirs[d].buffered)
    BY DEF IInv, Streams, Tidy
  <2> QED
    BY <2>1 DEF BufferIsSorted, Sorted
<1>3. ASSUME NEW d \in Directions
      PROVE  /\ dirs[d].initial \in SeqNumbers \cup {None} /\ dirs[d].next \in SeqNumbers \cup {None}
             /\ dirs[d].fin_seen \in BOOLEAN
             /\ dirs[d].buffered \in Seq(BufferedType) /\ dirs[d].buffered_bytes \in Nat
  <2>1. dirs[d] \in DirStates(d)
    BY DEF IInv, Streams
  <2>2. dirs[d].buffered \in Seq(HeldSegments(d))
    BY <2>1 DEF DirStates
  <2>3. dirs[d].buffered \in Seq(BufferedType)
    BY <2>2, AllOpen, BufferTyped
  <2> QED
    BY <2>1, <2>3 DEF DirStates
<1> QED
  BY <1>1, <1>2, <1>3 DEF IInv, TypeOK

\* With positions for sequence numbers, what was released is what Streams says.
LEMMA IInvReleases == IInv => ReleasedIsTheStream
<1> SUFFICES ASSUME IInv, NEW d \in Directions
             PROVE  IF dirs[d].next = None THEN released[d] = <<>>
                    ELSE released[d] =
                           Payload(d, PositionOf(d, dirs[d].initial), PositionOf(d, dirs[d].next))
  BY DEF ReleasedIsTheStream
<1>1. Streams(d, dirs[d], released[d]) /\ Opens(d)
  BY AllOpen DEF IInv
<1>2. CASE dirs[d].next = None
  BY <1>1, <1>2 DEF Streams
<1>3. CASE dirs[d].next # None
  <2>1. PICK i \in Ends(d), n \in Ends(d) :
            /\ dirs[d].initial = SeqAt(d, i) /\ dirs[d].next = SeqAt(d, n)
            /\ released[d] = Payload(d, i, n)
    BY <1>1, <1>3 DEF Streams
  <2>2. PositionOf(d, SeqAt(d, i)) = i /\ PositionOf(d, SeqAt(d, n)) = n
    BY <1>1, NumbersName
  <2> QED
    BY <1>3, <2>1, <2>2
<1> QED
  BY <1>2, <1>3

\* A buffered segment that covers next_seq would join the stream.
LEMMA IInvWaits == IInv => NothingReadyWaits
<1> SUFFICES ASSUME IInv, NEW d \in Directions, NEW s \in ToSet(dirs[d].buffered),
                    Covers(d, s, dirs[d].next)
             PROVE  FALSE
  BY DEF NothingReadyWaits
<1>1. Streams(d, dirs[d], released[d]) /\ Opens(d)
  BY AllOpen DEF IInv
<1> DEFINE b == dirs[d].buffered
<1>2. b \in Seq(HeldSegments(d))
  BY <1>1 DEF Streams, DirStates
<1>3. PICK j \in 1 .. Len(b) : s = b[j]
  <2>1. DOMAIN b = 1 .. Len(b)
    BY <1>2, LenProperties
  <2> QED
    BY <2>1 DEF ToSet
<1>4. dirs[d].next # None
  <2>1. b # <<>>
    BY <1>3
  <2> QED
    BY <1>1, <2>1 DEF Streams
<1>5. PICK n \in Ends(d) : dirs[d].next = SeqAt(d, n)
  BY <1>1, <1>4 DEF Streams
<1>6. ~ Joins(s, SeqAt(d, n))
  BY <1>1, <1>3, <1>4, <1>5 DEF Streams, Settled
<1>7. s \in HeldSegments(d)
  BY <1>2, <1>3, ElementOfSeq
<1>8. PICK p \in Ends(d), q \in Ends(d) : 1 <= p /\ p < q /\ s = HeldAt(d, p, q)
  BY <1>1, <1>7, HeldIs
<1>9. ~ (p <= n /\ n < q)
  BY <1>1, <1>6, <1>8, JoinsMeans
<1>10. s.start = SeqAt(d, p) /\ s.end = SeqAt(d, q)
  BY <1>8 DEF HeldAt
<1>11. /\ PositionOf(d, SeqAt(d, p)) = p /\ PositionOf(d, SeqAt(d, q)) = q
       /\ PositionOf(d, SeqAt(d, n)) = n
  BY <1>1, NumbersName
<1>12. p <= n /\ n < q
  BY <1>5, <1>10, <1>11 DEF Covers
<1> QED
  BY <1>9, <1>12

-----------------------------------------------------------------------------
(* What the invariant says of the steps                                       *)

\* The arriving segment covers next_seq exactly when the capture meets it there.
LEMMA CoveredMeans ==
    ASSUME NEW e, Opens(e), NEW s, NEW rel, Streams(e, s, rel),
           NEW p \in Ends(e), NEW q \in Ends(e), p <= q,
           NEW l, l.start = SeqAt(e, p), l.end = SeqAt(e, q)
    PROVE  Meets(e, s, p, q) <=> l.start # l.end /\ (s.next = None \/ Covers(e, l, s.next))
<1>1. l.start # l.end <=> p < q
  <2>1. p \in Nat /\ q \in Nat
    BY Numbers
  <2>2. SeqAt(e, p) = SeqAt(e, q) <=> p = q
    BY NumbersCompare
  <2> QED
    BY <2>1, <2>2
<1>2. CASE s.next = None
  BY <1>1, <1>2 DEF Meets
<1>3. CASE s.next # None
  <2>1. PICK n \in Ends(e) : s.next = SeqAt(e, n)
    BY <1>3 DEF Streams
  <2>2. /\ PositionOf(e, SeqAt(e, p)) = p /\ PositionOf(e, SeqAt(e, q)) = q
        /\ PositionOf(e, SeqAt(e, n)) = n
    BY NumbersName
  <2>3. Covers(e, l, s.next) <=> p <= n /\ n < q
    BY <2>1, <2>2 DEF Covers
  <2>4. \A k \in Ends(e) : s.next = SeqAt(e, k) <=> k = n
    BY <2>1, NumbersCompare
  <2>5. Meets(e, s, p, q) <=> p < q /\ p <= n /\ n < q
    BY <1>3, <2>1, <2>4 DEF Meets
  <2> QED
    BY <1>1, <1>3, <2>3, <2>5
<1> QED
  BY <1>2, <1>3

\* How far one observation moves the stream of each direction.
LEMMA StepAdvances ==
    ASSUME IInv, NEW e, NEW p, NEW q, NEW r, Effect(e, p, q, r), NEW d \in Directions
    PROVE  LET from == dirs[d].next  to == dirs'[d].next
               arrived == last'.dir = d /\ last'.start # last'.end /\ last'.status # "Reset"
           IN  /\ to # from <=> arrived /\ (from = None \/ Covers(d, last', from))
               /\ from # None /\ to # from => After(to, from)
               /\ to = from => released'[d] = released[d]
<1> DEFINE from == dirs[d].next
           to == dirs'[d].next
<1>1. last' = [dir |-> e, start |-> SeqAt(e, p), end |-> SeqAt(e, q), status |-> r.status]
  BY DEF Effect
<1>2. last'.dir = e /\ last'.start = SeqAt(e, p) /\ last'.end = SeqAt(e, q)
      /\ last'.status = r.status
  BY <1>1
<1>3. CASE d # e
  <2>1. dirs'[d] = dirs[d] /\ released'[d] = released[d]
    BY <1>3 DEF Effect
  <2> QED
    BY <1>2, <1>3, <2>1
<1>4. CASE d = e
  <2>1. /\ p \in Ends(d) /\ q \in Ends(d) /\ p <= q
        /\ to = r.state.next /\ released'[d] = released[d] \o BytesOf(r.out)
    BY <1>4 DEF Effect
  <2>2. BytesOf(r.out) = <<>> => released'[d] = released[d]
    <3>1. released[d] \in Seq(Nat)
      BY DEF IInv
    <3> QED
      BY <2>1, <3>1, ConcatEmptySeq
  <2>3. CASE Outcome(d, dirs[d], released[d], p, q, FlowBytes, r)
    <3>1. /\ to # from <=> Meets(d, dirs[d], p, q)
          /\ from # None /\ to # from => After(to, from)
          /\ to = from => BytesOf(r.out) = <<>>
          /\ r.status # "Reset"
      BY <2>1, <2>3 DEF Outcome
    <3>2. Streams(d, dirs[d], released[d]) /\ Opens(d)
      BY AllOpen DEF IInv
    <3>3. PICK l : l = last'
      OBVIOUS
    <3>4. l.start = SeqAt(d, p) /\ l.end = SeqAt(d, q)
      BY <1>2, <1>4, <3>3
    <3>5. Meets(d, dirs[d], p, q) <=> l.start # l.end /\ (from = None \/ Covers(d, l, from))
      BY <2>1, <3>2, <3>4, CoveredMeans
    <3>6. Covers(d, l, from) <=> Covers(d, last', from)
      BY <3>3
    <3> QED
      BY <1>2, <1>4, <2>2, <3>1, <3>3, <3>5, <3>6
  <2>4. CASE /\ r.status = "Reset" /\ BytesOf(r.out) = <<>>
             /\ r.state.next = dirs[d].next
    BY <1>2, <1>4, <2>1, <2>2, <2>4
  <2> QED
    BY <1>4, <2>3, <2>4 DEF Effect
<1> QED
  BY <1>3, <1>4

\* The status of one observation.
LEMMA StepTells ==
    ASSUME IInv, NEW e, NEW p, NEW q, NEW r, Effect(e, p, q, r)
    PROVE  LET d == last'.dir
               held(ds) == Len(ds[d].buffered)
           IN  /\ last'.status \in {"Init", "InOrder", "GapFilled", "Overlap", "Fin"}
                    <=> dirs'[d].next # dirs[d].next
               /\ last'.status = "GapFilled" => dirs'[d].next # last'.end /\ held(dirs') < held(dirs)
               /\ last'.status \in {"InOrder", "Fin"} =>
                    dirs'[d].next = last'.end /\ held(dirs') = held(dirs)
               /\ last'.status = "Fin" => dirs'[d].next = SeqAt(d, StreamLen[d] + 2)
               /\ last'.status = "OutOfOrderBuffered" <=> held(dirs') > held(dirs)
<1>1. last' = [dir |-> e, start |-> SeqAt(e, p), end |-> SeqAt(e, q), status |-> r.status]
  BY DEF Effect
<1>2. last'.dir = e /\ last'.end = SeqAt(e, q) /\ last'.status = r.status
  BY <1>1
<1>3. dirs'[e] = r.state
  BY DEF Effect
<1>4. CASE Outcome(e, dirs[e], released[e], p, q, FlowBytes, r)
  BY <1>2, <1>3, <1>4 DEF Outcome, Moving
<1>5. CASE r.status = "Reset" /\ r.state.next = dirs[e].next /\ r.state.buffered = dirs[e].buffered
  <2>1. Len(dirs[e].buffered) \in Nat
    <3>1. dirs[e].buffered \in Seq(HeldSegments(e))
      BY DEF Effect, IInv, Streams, DirStates
    <3> QED
      BY <3>1, LenProperties
  <2> QED
    BY <1>2, <1>3, <1>5, <2>1
<1> QED
  BY <1>4, <1>5 DEF Effect

-----------------------------------------------------------------------------
(* Theorems                                                                   *)

\* Records stay well formed, the out-of-order buffers sorted and within both
\* caps, and buffered_bytes, which buffer_out_of_order and
\* consume_contiguous_buffer adjust by increments, exact (TcpFlowState and
\* TcpDirectionState, flow/mod.rs), for any flow and any arrivals.
THEOREM TypesHold == Spec => []TypeOK
<1> QED
  BY AlwaysIInv, IInvTypes, PTL

\* The chunks that TcpDirectionState::observe hands on are the stream of the
\* endpoint from where the capture met it up to next_seq, with nothing twice,
\* skipped or out of place, for every cut, order, loss and repetition of the
\* segments and wherever the sequence numbers wrap.
THEOREM StreamIsReleased == Spec => []ReleasedIsTheStream
<1> QED
  BY AlwaysIInv, IInvReleases, PTL

\* consume_contiguous_buffer leaves nothing that it could release: no buffered
\* segment covers next_seq between two calls of observe.
THEOREM NothingWaits == Spec => []NothingReadyWaits
<1> QED
  BY AlwaysIInv, IInvWaits, PTL

\* observe moves next_seq, forward, exactly when the segment covers it, and
\* releases nothing otherwise, whatever the out-of-order buffer holds.
THEOREM AdvanceIsExact == Spec => AdvancesWhenCovered
<1>1. IInv /\ [Next]_vars =>
        [\A d \in Directions :
            LET from == dirs[d].next  to == dirs'[d].next
                arrived == last'.dir = d /\ last'.start # last'.end /\ last'.status # "Reset"
            IN  /\ to # from <=> arrived /\ (from = None \/ Covers(d, last', from))
                /\ from # None /\ to # from => After(to, from)
                /\ to = from => released'[d] = released[d]]_vars
  <2> SUFFICES ASSUME IInv, Next, NEW d \in Directions
               PROVE  LET from == dirs[d].next  to == dirs'[d].next
                          arrived == last'.dir = d /\ last'.start # last'.end /\ last'.status # "Reset"
                      IN  /\ to # from <=> arrived /\ (from = None \/ Covers(d, last', from))
                          /\ from # None /\ to # from => After(to, from)
                          /\ to = from => released'[d] = released[d]
    OBVIOUS
  <2>1. PICK e, p, q, r : Effect(e, p, q, r)
    BY NextIs
  <2> QED
    BY <2>1, StepAdvances
<1> QED
  BY <1>1, AlwaysIInv, PTL DEF Spec, AdvancesWhenCovered

\* The TcpSegmentStatus that observe returns tells what became of the segment:
\* whether next_seq moved, whether it went past the segment because buffered
\* ones were joined, and whether the segment is the one that was buffered.
THEOREM StatusTellsTruth == Spec => StatusIsTruthful
<1>1. IInv /\ [Next]_vars =>
        [LET d == last'.dir
             held(ds) == Len(ds[d].buffered)
         IN  /\ last'.status \in {"Init", "InOrder", "GapFilled", "Overlap", "Fin"}
                  <=> dirs'[d].next # dirs[d].next
             /\ last'.status = "GapFilled" => dirs'[d].next # last'.end /\ held(dirs') < held(dirs)
             /\ last'.status \in {"InOrder", "Fin"} =>
                  dirs'[d].next = last'.end /\ held(dirs') = held(dirs)
             /\ last'.status = "Fin" => dirs'[d].next = SeqAt(d, StreamLen[d] + 2)
             /\ last'.status = "OutOfOrderBuffered" <=> held(dirs') > held(dirs)]_vars
  <2> SUFFICES ASSUME IInv, Next
               PROVE  LET d == last'.dir
                          held(ds) == Len(ds[d].buffered)
                      IN  /\ last'.status \in {"Init", "InOrder", "GapFilled", "Overlap", "Fin"}
                               <=> dirs'[d].next # dirs[d].next
                          /\ last'.status = "GapFilled" =>
                               dirs'[d].next # last'.end /\ held(dirs') < held(dirs)
                          /\ last'.status \in {"InOrder", "Fin"} =>
                               dirs'[d].next = last'.end /\ held(dirs') = held(dirs)
                          /\ last'.status = "Fin" => dirs'[d].next = SeqAt(d, StreamLen[d] + 2)
                          /\ last'.status = "OutOfOrderBuffered" <=> held(dirs') > held(dirs)
    OBVIOUS
  <2>1. PICK e, p, q, r : Effect(e, p, q, r)
    BY NextIs
  <2> QED
    BY <2>1, StepTells
<1> QED
  BY <1>1, AlwaysIInv, PTL DEF Spec, StatusIsTruthful

=============================================================================
