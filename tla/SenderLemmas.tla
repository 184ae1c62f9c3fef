---------------------------- MODULE SenderLemmas ----------------------------
(***************************************************************************)
(* What the operators of TCPSender do to a sender into whose stream a text *)
(* is written, for every text: what it sends are pieces of the text at     *)
(* their places, and what it keeps for retransmission are the positions    *)
(* from the checkpoint to the next one.                                    *)
(*                                                                         *)
(* T is the text and w the number of its bytes written so far, which the   *)
(* stream counts modulo Modulus.                                           *)
(***************************************************************************)
EXTENDS TCPSender, FiniteSetTheorems, WellFoundedInduction, TLAPS

USE SMTT(30)

\* Remainders, and the position a sequence number is taken for.
LEMMA Remainder ==
  ASSUME NEW x \in Int
  PROVE  x % Modulus \in WrappingInt
  BY ModulusAssumption DEF WrappingInt

\* Adding to a counter that wraps around.
LEMMA CountedAround ==
  ASSUME NEW x \in Int, NEW k \in Int
  PROVE  ((x % Modulus) + k) % Modulus = (x + k) % Modulus
<1> DEFINE p == x \div Modulus
           r == x % Modulus
           q == (r + k) \div Modulus
           s == (r + k) % Modulus
           u == (x + k) \div Modulus
           v == (x + k) % Modulus
<1>1. Modulus \in Nat /\ Modulus > 0
  BY ModulusAssumption
<1>2. p \in Int /\ r \in Int /\ x = Modulus * p + r
  BY <1>1
<1> HIDE DEF p, r
<1>3. /\ q \in Int /\ s \in 0 .. (Modulus - 1) /\ r + k = Modulus * q + s
      /\ u \in Int /\ v \in 0 .. (Modulus - 1) /\ x + k = Modulus * u + v
  BY <1>1, <1>2
<1> HIDE DEF q, s, u, v
<1>4. Modulus * (p + q) + s = Modulus * u + v
  BY <1>1, <1>2, <1>3
<1> DEFINE m == p + q
<1>5. m \in Int /\ Modulus * m + s = Modulus * u + v
  BY <1>2, <1>3, <1>4
<1> HIDE DEF m
<1>6. s = v
  BY <1>1, <1>3, <1>5
<1> QED BY <1>6 DEF s, v, r

\* unwrap() returns a position.
LEMMA UnwrapType ==
  ASSUME NEW n \in WrappingInt, NEW isn \in WrappingInt, NEW checkpoint \in Nat
  PROVE  Unwrap(n, isn, checkpoint) \in Nat
<1> DEFINE d == (n - Wrap(checkpoint, isn)) % Modulus
<1>1. Modulus \in Nat /\ Modulus > 0 /\ Half \in Nat /\ Half <= Modulus
  BY ModulusAssumption DEF Half
<1>2. n \in Int /\ isn \in Int
  BY <1>1 DEF WrappingInt
<1>3. Wrap(checkpoint, isn) \in Int
  BY <1>1, <1>2 DEF Wrap
<1>4. d \in 0 .. (Modulus - 1)
  BY <1>1, <1>2, <1>3
<1>5. Minus(n, Wrap(checkpoint, isn)) = IF d >= Half THEN d - Modulus ELSE d
  BY Zenon DEF Minus
<1> HIDE DEF d
<1>6. Minus(n, Wrap(checkpoint, isn)) \in -Modulus .. (Modulus - 1)
  BY <1>1, <1>4, <1>5
<1> QED BY <1>1, <1>6 DEF Unwrap

\* The bytes of a text, which is a sequence of them.
BytesOf(T) == { T[i] : i \in 1 .. Len(T) }
IsText(T) == T \in Seq(BytesOf(T))

\* A text is a sequence of its bytes.
LEMMA TextFacts ==
  ASSUME NEW T, IsText(T)
  PROVE  /\ T \in Seq(BytesOf(T)) /\ Len(T) \in Nat
         /\ \A i \in 1 .. Len(T) : T[i] \in BytesOf(T)
  BY DEF IsText, BytesOf

\* A segment has room for a byte.
LEMMA PayloadSize == MaxPayloadSize \in Nat /\ MaxPayloadSize > 0
  BY SenderAssumption

\* Sequences with the same elements are the same.
LEMMA SameSequence ==
  ASSUME NEW B, NEW u \in Seq(B), NEW v \in Seq(B), Len(u) = Len(v),
         \A i \in 1 .. Len(u) : u[i] = v[i]
  PROVE  u = v
  OBVIOUS

\* A part of the text.
LEMMA Piece ==
  ASSUME NEW T, IsText(T), NEW from \in Nat, NEW to \in Nat, from <= to, to <= Len(T)
  PROVE  /\ SubSeq(T, from + 1, to) \in Seq(BytesOf(T))
         /\ Len(SubSeq(T, from + 1, to)) = to - from
         /\ \A i \in 1 .. (to - from) : SubSeq(T, from + 1, to)[i] = T[from + i]
<1>1. /\ Len(T) \in Nat /\ \A i \in (from + 1) .. to : T[i] \in BytesOf(T)
  BY TextFacts
<1>2. /\ SubSeq(T, from + 1, to) \in Seq(BytesOf(T))
      /\ Len(SubSeq(T, from + 1, to)) = IF from + 1 <= to THEN to - (from + 1) + 1 ELSE 0
      /\ \A i \in 1 .. (to - (from + 1) + 1) : SubSeq(T, from + 1, to)[i] = T[(from + 1) + i - 1]
  <2> QED BY <1>1
<1> QED BY <1>2

\* A part of a part is a part.
LEMMA PieceOfPiece ==
  ASSUME NEW T, IsText(T), NEW from \in Nat, NEW to \in Nat, from <= to, to <= Len(T),
         NEW a \in Nat, NEW b \in Nat, a <= b, b <= to - from
  PROVE  SubSeq(SubSeq(T, from + 1, to), a + 1, b) = SubSeq(T, from + a + 1, from + b)
<1> DEFINE p == SubSeq(T, from + 1, to)
           q == SubSeq(p, a + 1, b)
           r == SubSeq(T, from + a + 1, from + b)
<1>0. Len(T) \in Nat
  BY TextFacts
<1>1. /\ p \in Seq(BytesOf(T)) /\ Len(p) = to - from
      /\ \A i \in 1 .. (to - from) : p[i] = T[from + i]
  BY Piece
<1>2. /\ r \in Seq(BytesOf(T)) /\ Len(r) = b - a
      /\ \A i \in 1 .. (b - a) : r[i] = T[from + a + i]
  <2> DEFINE f == from + a
             t == from + b
  <2>1. f \in Nat /\ t \in Nat /\ f <= t /\ t <= Len(T) /\ t - f = b - a
    BY <1>0
  <2>2. r = SubSeq(T, f + 1, t)
    OBVIOUS
  <2>3. \A i \in 1 .. (b - a) : from + a + i = f + i
    OBVIOUS
  <2> HIDE DEF f, t, r
  <2>4. /\ SubSeq(T, f + 1, t) \in Seq(BytesOf(T)) /\ Len(SubSeq(T, f + 1, t)) = t - f
        /\ \A i \in 1 .. (t - f) : SubSeq(T, f + 1, t)[i] = T[f + i]
    BY <2>1, Piece, ZenonT(60)
  <2> QED BY <2>1, <2>2, <2>3, <2>4, Zenon
<1> HIDE DEF p, r
<1>3. \A i \in (a + 1) .. b : p[i] \in BytesOf(T)
  <2> QED BY <1>1
<1>4. /\ q \in Seq(BytesOf(T))
      /\ Len(q) = IF a + 1 <= b THEN b - (a + 1) + 1 ELSE 0
      /\ \A i \in 1 .. (b - (a + 1) + 1) : q[i] = p[(a + 1) + i - 1]
  <2> QED BY <1>3
<1> HIDE DEF q
<1>5. Len(q) = b - a /\ \A i \in 1 .. (b - a) : q[i] = T[from + a + i]
  <2>1. Len(q) = b - a
    BY <1>4
  <2>2. ASSUME NEW i \in 1 .. (b - a) PROVE q[i] = T[from + a + i]
    <3>1. /\ i \in 1 .. (b - (a + 1) + 1) /\ a + i \in 1 .. (to - from) /\ (a + 1) + i - 1 = a + i
          /\ from + (a + i) = from + a + i
      OBVIOUS
    <3>2. q[i] = p[(a + 1) + i - 1] /\ p[a + i] = T[from + (a + i)]
      BY <1>1, <1>4, <3>1
    <3> QED BY <3>1, <3>2
  <2> QED BY <2>1, <2>2
<1>6. q = r
  <2>1. Len(q) = Len(r) /\ \A i \in 1 .. Len(q) : q[i] = r[i]
    BY <1>2, <1>5, Zenon
  <2> QED BY <1>2, <1>4, <2>1, SameSequence, Zenon
<1> QED BY <1>6 DEF p, q, r

\* Two adjacent parts make one.
LEMMA PieceAndPiece ==
  ASSUME NEW T, IsText(T), NEW a \in Nat, NEW b \in Nat, NEW c \in Nat, a <= b, b <= c, c <= Len(T)
  PROVE  SubSeq(T, a + 1, b) \o SubSeq(T, b + 1, c) = SubSeq(T, a + 1, c)
<1>1. /\ T \in Seq(BytesOf(T)) /\ Len(T) \in Nat /\ a + 1 \in 1 .. (Len(T) + 1)
      /\ b \in (a + 1) - 1 .. Len(T) /\ c \in b .. Len(T)
  BY TextFacts
<1> QED BY <1>1

-----------------------------------------------------------------------------
\* Multiples grow.
LEMMA Multiples ==
  ASSUME NEW m \in Nat, NEW i \in Int, NEW j \in Int
  PROVE  /\ i * m \in Int
         /\ (i + 1) * m = i * m + m
         /\ 0 <= i => i * m \in Nat
         /\ i <= j => i * m <= j * m
         /\ i < j => i * m + m <= j * m
<1>1. i * m \in Int /\ (i + 1) * m = i * m + m
  OBVIOUS
<1>2. ASSUME NEW a \in Int, 0 <= a PROVE 0 <= a * m
  BY <1>2
<1>3. 0 <= i => i * m \in Nat
  BY <1>1, <1>2
<1>4. \A a, b \in Int : a <= b => a * m <= b * m
  <2> SUFFICES ASSUME NEW a \in Int, NEW b \in Int, a <= b PROVE a * m <= b * m
    OBVIOUS
  <2>1. 0 <= (b - a) * m
    BY <1>2
  <2>2. (b - a) * m = b * m - a * m
    OBVIOUS
  <2> QED BY <2>1, <2>2
<1>5. i < j => (i + 1) * m <= j * m
  BY <1>4
<1> QED BY <1>1, <1>3, <1>4, <1>5

\* Where the i-th of the pieces into which `taken` bytes are cut ends.
Cut(i, taken) == Minimum(i * MaxPayloadSize, taken)

\* The number of pieces.
Pieces(taken) == (taken + MaxPayloadSize - 1) \div MaxPayloadSize

\* The pieces are not empty, all but the last are full, and together they are
\* what was taken.
LEMMA CutIntoPieces ==
  ASSUME NEW taken \in Nat, taken > 0
  PROVE  /\ Pieces(taken) \in Nat /\ Pieces(taken) > 0
         /\ \A i \in 1 .. Pieces(taken) :
              /\ (i - 1) * MaxPayloadSize \in Nat /\ (i - 1) * MaxPayloadSize < taken
              /\ Cut(i, taken) \in Nat /\ (i - 1) * MaxPayloadSize < Cut(i, taken)
              /\ Cut(i, taken) <= taken
              /\ i < Pieces(taken) => Cut(i, taken) = (i - 1) * MaxPayloadSize + MaxPayloadSize
         /\ Cut(Pieces(taken), taken) = taken
<1> DEFINE m == MaxPayloadSize
           n == Pieces(taken)
           r == (taken + m - 1) % m
<1>1. m \in Nat /\ m > 0
  BY PayloadSize
<1>2. n \in Int /\ r \in 0 .. (m - 1) /\ taken + m - 1 = m * n + r
  BY <1>1 DEF Pieces
<1> HIDE DEF m, n, r
<1>3. m * n = n * m
  BY <1>1, <1>2
<1>4. taken <= n * m /\ n * m - m < taken
  BY <1>1, <1>2, <1>3, Multiples
<1>5. n > 0
  <2>1. n * m > 0
    BY <1>1, <1>2, <1>4, Multiples
  <2>2. n <= 0 => n * m <= 0 * m
    BY <1>1, <1>2, Multiples
  <2> QED BY <1>1, <1>2, <2>1, <2>2, Multiples
<1>6. Cut(n, taken) = taken
  BY <1>1, <1>2, <1>4, Multiples DEF Cut, Minimum, m
<1>7. ASSUME NEW i \in 1 .. n
      PROVE  /\ (i - 1) * m \in Nat /\ (i - 1) * m < taken
             /\ Cut(i, taken) \in Nat /\ (i - 1) * m < Cut(i, taken)
             /\ Cut(i, taken) <= taken
             /\ i < n => Cut(i, taken) = (i - 1) * m + m
  <2>1. i \in Int /\ i - 1 \in Int /\ 0 <= i - 1 /\ n - 1 \in Int /\ i - 1 <= n - 1 /\ (i - 1) + 1 = i
    BY <1>2
  <2>2. (i - 1) * m \in Nat /\ i * m = (i - 1) * m + m /\ i * m \in Int
    BY <1>1, <2>1, Multiples
  <2>3. n * m = (n - 1) * m + m
    <3>1. (n - 1) + 1 = n
      BY <1>2
    <3> QED BY <1>1, <2>1, <3>1, Multiples
  <2>4. (i - 1) * m <= (n - 1) * m /\ (n - 1) * m \in Int
    BY <1>1, <2>1, Multiples
  <2>5. (i - 1) * m < taken
    BY <1>1, <1>4, <2>2, <2>3, <2>4
  <2>6. i < n => i * m <= (n - 1) * m
    <3>1. i < n => i <= n - 1
      BY <1>2
    <3> QED BY <1>1, <2>1, <3>1, Multiples
  <2>7. Cut(i, taken) = IF i * m <= taken THEN i * m ELSE taken
    BY DEF Cut, Minimum, m
  <2> QED BY <1>1, <1>4, <2>2, <2>3, <2>4, <2>5, <2>6, <2>7
<1> QED BY <1>2, <1>5, <1>6, <1>7 DEF m, n

-----------------------------------------------------------------------------
(***************************************************************************)
(* What TotalLength computes.                                              *)
(***************************************************************************)
\* A nonempty set of natural numbers has a least element.
LEMMA Least ==
  ASSUME NEW S, S \subseteq Nat, S # {}
  PROVE  \E n \in S : \A m \in S : n <= m
<1> DEFINE R == OpToRel(<, Nat)
<1>1. IsWellFoundedOn(R, Nat)
  BY NatLessThanWellFounded, Zenon
<1>2. \A x, y \in Nat : <<y, x>> \in R <=> y < x
  BY DEF OpToRel
<1> HIDE DEF R
<1>3. \E x \in S : \A y \in S : ~(<<y, x>> \in R)
  BY <1>1, WFMin, Zenon
<1>4. PICK x \in S : \A y \in S : ~(<<y, x>> \in R)
  BY <1>3, Zenon
<1>5. \A y \in S : ~(y < x)
  BY <1>2, <1>4, Zenon
<1> QED BY <1>5

\* A nonempty set of finite sets has a smallest one: induction over finite sets.
LEMMA Smallest ==
  ASSUME NEW SS, SS # {}, \A S \in SS : IsFiniteSet(S)
  PROVE  \E S \in SS : \A R \in SS : ~(Cardinality(R) < Cardinality(S))
<1> DEFINE K == { Cardinality(S) : S \in SS }
<1>1. \A S \in SS : Cardinality(S) \in Nat
  BY FS_CardinalityType, Zenon
<1>2. K \subseteq Nat /\ K # {}
  BY <1>1
<1> HIDE DEF K
<1>3. PICK n \in K : \A m \in K : n <= m
  BY <1>2, Least, Zenon
<1>4. PICK S \in SS : n = Cardinality(S)
  BY DEF K
<1>5. \A R \in SS : Cardinality(R) \in K
  BY DEF K
<1> QED BY <1>1, <1>3, <1>4, <1>5, <1>2

\* Without one of its elements a finite set is smaller.
LEMMA Smaller ==
  ASSUME NEW S, IsFiniteSet(S), NEW x \in S
  PROVE  IsFiniteSet(S \ {x}) /\ Cardinality(S \ {x}) < Cardinality(S)
<1>1. IsFiniteSet(S \ {x}) /\ Cardinality(S \ {x}) = Cardinality(S) - 1
  BY FS_RemoveElement, Zenon
<1>2. Cardinality(S) \in Nat
  BY FS_CardinalityType, Zenon
<1> QED BY <1>1, <1>2

-----------------------------------------------------------------------------
\* The element a sum takes first, and the function it is computed by.
First(S) == CHOOSE x \in S : TRUE
Size(e) == LengthInSequenceSpace(e.seg)
Adds(f, S) ==
  f = [s \in SUBSET S |-> IF s = {} THEN 0 ELSE Size(First(s)) + f[s \ {First(s)}]]

\* The sum over the segments in flight, as the function that defines it.
LEMMA SumUnfolds ==
  ASSUME NEW S
  PROVE  TotalLength(S) = (CHOOSE f : Adds(f, S))[S]
  BY DEF TotalLength, MapThenSumSet, MapThenFoldSet, Adds, First, Size

\* One step of that function.
LEMMA AddsAt ==
  ASSUME NEW S, NEW f, Adds(f, S), NEW s, s \subseteq S
  PROVE  /\ s = {} => f[s] = 0
         /\ s # {} => /\ First(s) \in s /\ s \ {First(s)} \subseteq S
                      /\ f[s] = Size(First(s)) + f[s \ {First(s)}]
<1>1. f[s] = IF s = {} THEN 0 ELSE Size(First(s)) + f[s \ {First(s)}]
  <2>1. s \in SUBSET S
    OBVIOUS
  <2> HIDE DEF Adds
  <2>2. f = [r \in SUBSET S |-> IF r = {} THEN 0 ELSE Size(First(r)) + f[r \ {First(r)}]]
    BY Zenon DEF Adds
  <2>3. \A r \in SUBSET S : f[r] = IF r = {} THEN 0 ELSE Size(First(r)) + f[r \ {First(r)}]
    BY <2>2, Zenon
  <2> QED BY <2>1, <2>3, Zenon
<1>2. s # {} => First(s) \in s
  BY DEF First
<1> QED BY <1>1, <1>2

\* Two such functions agree.
LEMMA AddsAgree ==
  ASSUME NEW S, NEW R, NEW f, NEW g, Adds(f, S), Adds(g, R),
         NEW r, r \subseteq S, r \subseteq R, IsFiniteSet(r)
  PROVE  f[r] = g[r]
<1> DEFINE Bad == { s \in SUBSET r : f[s] # g[s] }
<1> SUFFICES ASSUME Bad # {} PROVE FALSE
  BY Zenon
<1>1. \A s \in Bad : IsFiniteSet(s)
  BY FS_Subset, Zenon
<1>2. PICK s \in Bad : \A q \in Bad : ~(Cardinality(q) < Cardinality(s))
  BY <1>1, Smallest, Zenon
<1>3. s \subseteq S /\ s \subseteq R /\ IsFiniteSet(s) /\ s \subseteq r /\ f[s] # g[s]
  BY <1>1, <1>2, Zenon
<1>4. s # {}
  BY <1>3, AddsAt, Zenon
<1>5. First(s) \in s /\ f[s] = Size(First(s)) + f[s \ {First(s)}]
  BY <1>3, <1>4, AddsAt
<1>10. g[s] = Size(First(s)) + g[s \ {First(s)}]
  BY <1>3, <1>4, AddsAt
<1>6. Cardinality(s \ {First(s)}) < Cardinality(s)
  BY <1>3, <1>5, Smaller, Zenon
<1>7. s \ {First(s)} \notin Bad
  BY <1>2, <1>6, Zenon
<1>8. s \ {First(s)} \in SUBSET r
  BY <1>3, Zenon
<1>9. f[s \ {First(s)}] = g[s \ {First(s)}]
  BY <1>7, <1>8, Zenon
<1> QED BY <1>3, <1>5, <1>9, <1>10, Zenon

\* There is one for every finite set.
LEMMA AddsExists ==
  ASSUME NEW S, IsFiniteSet(S)
  PROVE  \E f : Adds(f, S)
<1> DEFINE Bad == { s \in SUBSET S : ~ \E f : Adds(f, s) }
           Val(r) == (CHOOSE f : Adds(f, r))[r]
<1> SUFFICES ASSUME Bad # {} PROVE FALSE
  BY Zenon
<1>1. \A s \in Bad : IsFiniteSet(s)
  BY FS_Subset, Zenon
<1>2. PICK s \in Bad : \A q \in Bad : ~(Cardinality(q) < Cardinality(s))
  BY <1>1, Smallest, Zenon
<1>3. IsFiniteSet(s) /\ s \subseteq S /\ ~ \E f : Adds(f, s)
  BY <1>1, <1>2, Zenon
<1>4. \A r : r \subseteq s /\ r # s => IsFiniteSet(r) /\ Adds(CHOOSE f : Adds(f, r), r)
  <2> SUFFICES ASSUME NEW r, r \subseteq s, r # s PROVE IsFiniteSet(r) /\ \E f : Adds(f, r)
    BY Zenon
  <2>1. IsFiniteSet(r) /\ Cardinality(r) <= Cardinality(s) /\ (Cardinality(r) = Cardinality(s) => r = s)
    BY <1>3, FS_Subset, Zenon
  <2>2. Cardinality(r) \in Nat /\ Cardinality(s) \in Nat
    BY <1>3, <2>1, FS_CardinalityType, Zenon
  <2>3. Cardinality(r) < Cardinality(s)
    BY <2>1, <2>2
  <2>4. r \notin Bad /\ r \in SUBSET S
    BY <1>2, <1>3, <2>3, Zenon
  <2> QED BY <2>1, <2>4, Zenon
<1> DEFINE h == [r \in SUBSET s |-> IF r = {} THEN 0 ELSE Size(First(r)) + Val(r \ {First(r)})]
<1>5. ASSUME NEW r, r \subseteq s, r # {}
      PROVE  /\ First(r) \in r /\ r \ {First(r)} \subseteq s
             /\ h[r \ {First(r)}] = Val(r \ {First(r)})
  <2> DEFINE q == r \ {First(r)}
             f == CHOOSE f : Adds(f, q)
  <2>1. First(r) \in r
    BY <1>5, Zenon DEF First
  <2>2. q \subseteq s /\ q # s
    BY <1>5, <2>1, Zenon
  <2>3. IsFiniteSet(q) /\ Adds(f, q)
    BY <1>4, <2>2, Zenon
  <2>4. /\ q = {} => f[q] = 0
        /\ q # {} => /\ First(q) \in q /\ f[q] = Size(First(q)) + f[q \ {First(q)}]
    <3> HIDE DEF q, f
    <3>1. q \subseteq q
      OBVIOUS
    <3> QED BY <2>3, <3>1, AddsAt, ZenonT(60)
  <2>5. h[q] = IF q = {} THEN 0 ELSE Size(First(q)) + Val(q \ {First(q)})
    <3>1. q \in SUBSET s
      BY <2>2, Zenon
    <3> HIDE DEF q
    <3> QED BY <3>1, Zenon
  <2>6. ASSUME q # {} PROVE f[q \ {First(q)}] = Val(q \ {First(q)})
    <3> DEFINE p == q \ {First(q)}
               g == CHOOSE g : Adds(g, p)
    <3>1. p \subseteq s /\ p # s /\ p \subseteq q /\ p \subseteq p
      BY <2>2, <2>4, <2>6, Zenon
    <3>2. IsFiniteSet(p) /\ Adds(g, p)
      BY <1>4, <3>1, Zenon
    <3> HIDE DEF p, q, f, g
    <3>3. f[p] = g[p]
      BY <2>3, <3>1, <3>2, AddsAgree
    <3> QED BY <3>3 DEF p, g
  <2>7. f[q] = Val(q)
    OBVIOUS
  <2> HIDE DEF q, f, h, Val
  <2>8. h[q] = Val(q)
    BY <2>4, <2>5, <2>6, <2>7, Zenon
  <2> QED BY <2>1, <2>2, <2>8, Zenon DEF q
<1>6. Adds(h, s)
  <2>1. \A r \in SUBSET s : (IF r = {} THEN 0 ELSE Size(First(r)) + Val(r \ {First(r)}))
                             = (IF r = {} THEN 0 ELSE Size(First(r)) + h[r \ {First(r)}])
    <3> HIDE DEF h, Val
    <3> QED BY <1>5, Zenon
  <2>2. h = [r \in SUBSET s |-> IF r = {} THEN 0 ELSE Size(First(r)) + Val(r \ {First(r)})]
    BY Zenon
  <2> HIDE DEF h, Val
  <2>3. h = [r \in SUBSET s |-> IF r = {} THEN 0 ELSE Size(First(r)) + h[r \ {First(r)}]]
    BY <2>1, <2>2, Zenon
  <2> QED BY <2>3, ZenonT(60) DEF Adds
<1> QED BY <1>3, <1>6, Zenon

\* The sum is that of one segment and of the others.
LEMMA SumFirst ==
  ASSUME NEW S, IsFiniteSet(S)
  PROVE  /\ S = {} => TotalLength(S) = 0
         /\ S # {} => /\ First(S) \in S
                      /\ TotalLength(S) = Size(First(S)) + TotalLength(S \ {First(S)})
<1> DEFINE f == CHOOSE f : Adds(f, S)
           R == S \ {First(S)}
           g == CHOOSE g : Adds(g, R)
<1>1. Adds(f, S) /\ TotalLength(S) = f[S]
  <2>1. \E h : Adds(h, S)
    BY AddsExists, Zenon
  <2> QED BY <2>1, SumUnfolds, Zenon
<1>2. Adds(g, R) /\ TotalLength(R) = g[R]
  <2>1. IsFiniteSet(R)
    BY FS_Subset, Zenon
  <2>2. \E h : Adds(h, R)
    BY <2>1, AddsExists, Zenon
  <2> QED BY <2>2, SumUnfolds, Zenon
<1>3. R \subseteq S /\ R \subseteq R /\ S \subseteq S /\ IsFiniteSet(R)
  BY FS_Subset, Zenon
<1> HIDE DEF f, g
<1>4. f[R] = g[R]
  <2> HIDE DEF R
  <2> QED BY <1>1, <1>2, <1>3, AddsAgree
<1>5. /\ S = {} => f[S] = 0
      /\ S # {} => First(S) \in S /\ f[S] = Size(First(S)) + f[R]
  BY <1>1, <1>3, AddsAt, Zenon
<1> QED BY <1>1, <1>2, <1>4, <1>5, Zenon

\* The sizes of the elements are numbers.
Sized(S) == \A e \in S : Size(e) \in Nat

\* The sum is a number, and is not 0 unless all sizes are.
LEMMA SumType ==
  ASSUME NEW S, IsFiniteSet(S), Sized(S)
  PROVE  TotalLength(S) \in Nat
<1> DEFINE Bad == { s \in SUBSET S : TotalLength(s) \notin Nat }
<1> SUFFICES ASSUME Bad # {} PROVE FALSE
  BY Zenon
<1>1. \A s \in Bad : IsFiniteSet(s)
  BY FS_Subset, Zenon
<1>2. PICK s \in Bad : \A q \in Bad : ~(Cardinality(q) < Cardinality(s))
  BY <1>1, Smallest, Zenon
<1>3. IsFiniteSet(s) /\ s \subseteq S /\ TotalLength(s) \notin Nat
  BY <1>1, <1>2, Zenon
<1>4. s # {}
  <2>1. s = {} => TotalLength(s) = 0
    BY <1>3, SumFirst, Zenon
  <2> HIDE DEF Bad
  <2> QED BY <1>3, <2>1
<1>5. First(s) \in s /\ TotalLength(s) = Size(First(s)) + TotalLength(s \ {First(s)})
  BY <1>3, <1>4, SumFirst, Zenon
<1>6. Cardinality(s \ {First(s)}) < Cardinality(s) /\ s \ {First(s)} \in SUBSET S
  BY <1>3, <1>5, Smaller, Zenon
<1>7. TotalLength(s \ {First(s)}) \in Nat
  BY <1>2, <1>6, Zenon
<1>8. Size(First(s)) \in Nat
  BY <1>3, <1>5, Zenon DEF Sized
<1> HIDE DEF Bad
<1> QED BY <1>3, <1>5, <1>7, <1>8

\* The order does not matter: any element may be taken first.
LEMMA SumWithout ==
  ASSUME NEW S, IsFiniteSet(S), Sized(S), NEW x \in S
  PROVE  TotalLength(S) = Size(x) + TotalLength(S \ {x})
<1> DEFINE Off(s, y) == TotalLength(s) # Size(y) + TotalLength(s \ {y})
           Bad == { s \in SUBSET S : \E y \in s : Off(s, y) }
<1> SUFFICES ASSUME Bad # {} PROVE FALSE
  BY Zenon
<1>1. \A s \in Bad : IsFiniteSet(s)
  BY FS_Subset, Zenon
<1>2. PICK s \in Bad : \A q \in Bad : ~(Cardinality(q) < Cardinality(s))
  BY <1>1, Smallest, Zenon
<1>3. IsFiniteSet(s) /\ s \subseteq S
  BY <1>1, <1>2, Zenon
<1>4. PICK y \in s : TotalLength(s) # Size(y) + TotalLength(s \ {y})
  BY <1>2, Zenon
<1> DEFINE z == First(s)
           r == (s \ {y}) \ {z}
<1>5. z \in s /\ TotalLength(s) = Size(z) + TotalLength(s \ {z})
  BY <1>3, <1>4, SumFirst, Zenon
<1>6. z # y
  BY <1>4, <1>5, Zenon
<1>7. TotalLength(s \ {z}) = Size(y) + TotalLength((s \ {z}) \ {y})
  <2>1. Cardinality(s \ {z}) < Cardinality(s) /\ s \ {z} \in SUBSET S /\ y \in s \ {z}
    BY <1>3, <1>4, <1>5, <1>6, Smaller, Zenon
  <2> QED BY <1>2, <2>1, Zenon
<1>8. TotalLength(s \ {y}) = Size(z) + TotalLength((s \ {y}) \ {z})
  <2>1. Cardinality(s \ {y}) < Cardinality(s) /\ s \ {y} \in SUBSET S /\ z \in s \ {y}
    BY <1>3, <1>4, <1>5, <1>6, Smaller, Zenon
  <2> QED BY <1>2, <2>1, Zenon
<1>9. (s \ {z}) \ {y} = r
  OBVIOUS
<1>10. Size(y) \in Nat /\ Size(z) \in Nat /\ TotalLength(r) \in Nat
  <2>1. IsFiniteSet(r) /\ Sized(r)
    BY <1>3, FS_Subset, Zenon DEF Sized
  <2>2. TotalLength(r) \in Nat
    BY <2>1, SumType, Zenon
  <2>3. Size(y) \in Nat /\ Size(z) \in Nat
    BY <1>3, <1>4, <1>5, Zenon DEF Sized
  <2> QED BY <2>2, <2>3, Zenon
<1> HIDE DEF Bad, z, r
<1>11. TotalLength(s) = Size(z) + (Size(y) + TotalLength(r)) /\ TotalLength(s \ {y}) = Size(z) + TotalLength(r)
  BY <1>5, <1>7, <1>8, <1>9, Zenon DEF r
<1> QED BY <1>4, <1>10, <1>11

\* A sum over two disjoint sets.
LEMMA SumUnion ==
  ASSUME NEW S, NEW R, IsFiniteSet(S), IsFiniteSet(R), Sized(S), Sized(R), S \cap R = {}
  PROVE  TotalLength(S \cup R) = TotalLength(S) + TotalLength(R)
<1> DEFINE Bad == { s \in SUBSET S : TotalLength(s \cup R) # TotalLength(s) + TotalLength(R) }
<1> SUFFICES ASSUME Bad # {} PROVE FALSE
  BY Zenon
<1>1. \A s \in Bad : IsFiniteSet(s)
  BY FS_Subset, Zenon
<1>2. PICK s \in Bad : \A q \in Bad : ~(Cardinality(q) < Cardinality(s))
  BY <1>1, Smallest, Zenon
<1>3. /\ IsFiniteSet(s) /\ s \subseteq S /\ TotalLength(s \cup R) # TotalLength(s) + TotalLength(R)
      /\ IsFiniteSet(s \cup R) /\ Sized(s) /\ Sized(s \cup R)
  <2>1. IsFiniteSet(s) /\ s \subseteq S /\ TotalLength(s \cup R) # TotalLength(s) + TotalLength(R)
    BY <1>1, <1>2, Zenon
  <2>2. IsFiniteSet(s \cup R)
    BY <2>1, FS_Union, Zenon
  <2> QED BY <2>1, <2>2, Zenon DEF Sized
<1>4. TotalLength(R) \in Nat
  BY SumType, Zenon
<1>5. s # {}
  <2> SUFFICES ASSUME s = {} PROVE FALSE
    BY Zenon
  <2>1. TotalLength(s) = 0 /\ s \cup R = R
    BY <1>3, SumFirst, Zenon
  <2> HIDE DEF Bad
  <2> QED BY <1>3, <1>4, <2>1
<1>6. PICK x : x \in s
  BY <1>5, Zenon
<1> DEFINE r == s \ {x}
<1>7. TotalLength(s) = Size(x) + TotalLength(r)
  BY <1>3, <1>6, SumWithout, Zenon
<1>8. TotalLength(s \cup R) = Size(x) + TotalLength((s \cup R) \ {x})
  <2>1. x \in s \cup R
    BY <1>6, Zenon
  <2> QED BY <1>3, <2>1, SumWithout, Zenon
<1>9. (s \cup R) \ {x} = r \cup R
  BY <1>3, <1>6, Zenon
<1>10. TotalLength(r \cup R) = TotalLength(r) + TotalLength(R)
  <2>1. Cardinality(r) < Cardinality(s) /\ r \in SUBSET S
    BY <1>3, <1>6, Smaller, Zenon
  <2> QED BY <1>2, <2>1, Zenon
<1>11. Size(x) \in Nat /\ TotalLength(r) \in Nat
  <2>1. IsFiniteSet(r) /\ Sized(r) /\ Size(x) \in Nat
    BY <1>3, <1>6, FS_Subset, Zenon DEF Sized
  <2> QED BY <2>1, SumType, Zenon
<1> HIDE DEF Bad, r
<1> QED BY <1>3, <1>4, <1>7, <1>8, <1>9, <1>10, <1>11

-----------------------------------------------------------------------------
\* Segments that do not overlap and leave no gap between `from` and `to`.
Tiles(es, from, to) ==
  /\ from \in Nat /\ to \in Nat /\ from <= to
  /\ \A e \in es : e.abs_seqno \in Nat /\ Size(e) \in Nat /\ Size(e) > 0
  /\ \A e \in es : from <= e.abs_seqno /\ e.abs_seqno + Size(e) <= to
  /\ \A d, e \in es : d = e \/ d.abs_seqno + Size(d) <= e.abs_seqno \/ e.abs_seqno + Size(e) <= d.abs_seqno
  /\ \A p \in from .. (to - 1) : \E e \in es : e.abs_seqno <= p /\ p < e.abs_seqno + Size(e)

\* Their lengths add up to the distance.
LEMMA SumTiles ==
  ASSUME NEW es, IsFiniteSet(es), NEW from, NEW to, Tiles(es, from, to)
  PROVE  TotalLength(es) = to - from
<1> DEFINE Off(s, x) == Tiles(s, x, to) /\ TotalLength(s) # to - x
           Bad == { s \in SUBSET es : \E x \in Nat : Off(s, x) }
<1> SUFFICES ASSUME Bad # {} PROVE FALSE
  BY Zenon DEF Tiles
<1>1. \A s \in Bad : IsFiniteSet(s)
  BY FS_Subset, Zenon
<1>2. PICK s \in Bad : \A q \in Bad : ~(Cardinality(q) < Cardinality(s))
  BY <1>1, Smallest, Zenon
<1>3. IsFiniteSet(s) /\ s \subseteq es
  BY <1>1, <1>2, Zenon
<1>4. PICK x \in Nat : Tiles(s, x, to) /\ TotalLength(s) # to - x
  BY <1>2, Zenon
<1>5. x < to
  <2> SUFFICES ASSUME ~(x < to) PROVE FALSE
    BY Zenon
  <2>1. x = to /\ to \in Nat
    BY <1>4 DEF Tiles
  <2>2. s = {}
    <3> SUFFICES ASSUME NEW e \in s PROVE FALSE
      BY Zenon
    <3> QED BY <1>4, <2>1 DEF Tiles
  <2>3. TotalLength(s) = 0
    BY <1>3, <2>2, SumFirst, Zenon
  <2> QED BY <1>4, <2>1, <2>3
<1>6. PICK e \in s : e.abs_seqno <= x /\ x < e.abs_seqno + Size(e)
  <2>1. x \in x .. (to - 1)
    BY <1>4, <1>5 DEF Tiles
  <2> QED BY <1>4, <2>1, Zenon DEF Tiles
<1> DEFINE y == x + Size(e)
           r == s \ {e}
<1>7. e.abs_seqno = x /\ Size(e) \in Nat /\ y \in Nat /\ y <= to /\ to \in Nat /\ x < y
  BY <1>4, <1>6 DEF Tiles
<1>8. Tiles(r, y, to)
  <2>1. ASSUME NEW d \in r PROVE y <= d.abs_seqno
    <3>1. d \in s /\ d # e
      BY <2>1, Zenon
    <3>2. d.abs_seqno \in Nat /\ Size(d) \in Nat /\ Size(d) > 0 /\ x <= d.abs_seqno
      BY <1>4, <3>1, Zenon DEF Tiles
    <3>3. d.abs_seqno + Size(d) <= e.abs_seqno \/ e.abs_seqno + Size(e) <= d.abs_seqno
      BY <1>4, <3>1, Zenon DEF Tiles
    <3> QED BY <1>7, <3>2, <3>3
  <2>2. ASSUME NEW p \in y .. (to - 1) PROVE \E d \in r : d.abs_seqno <= p /\ p < d.abs_seqno + Size(d)
    <3>1. p \in x .. (to - 1) /\ ~(p < e.abs_seqno + Size(e))
      BY <1>7
    <3>2. PICK d \in s : d.abs_seqno <= p /\ p < d.abs_seqno + Size(d)
      BY <1>4, <3>1, Zenon DEF Tiles
    <3>3. d \in r
      BY <3>1, <3>2, Zenon
    <3> QED BY <3>2, <3>3, Zenon
  <2> HIDE DEF y
  <2> QED BY <1>4, <1>7, <2>1, <2>2, Zenon DEF Tiles
<1>9. TotalLength(r) = to - y
  <2>1. Cardinality(r) < Cardinality(s) /\ r \in SUBSET es
    BY <1>3, Smaller, Zenon
  <2>2. r \notin Bad
    BY <1>2, <2>1, Zenon
  <2> HIDE DEF r, y
  <2> QED BY <1>7, <1>8, <2>1, <2>2, Zenon
<1>10. TotalLength(s) = Size(e) + TotalLength(r)
  <2>1. Sized(s)
    BY <1>4, Zenon DEF Tiles, Sized
  <2> QED BY <1>3, <2>1, SumWithout, Zenon
<1> HIDE DEF Bad, r
<1> QED BY <1>4, <1>7, <1>9, <1>10

-----------------------------------------------------------------------------
Fields ==
  {"isn", "segments_out", "stream", "next_seqno", "in_flight", "syn", "fin",
   "is_timer_running", "time_spent", "rwnd", "bytes_in_flight", "checkpoint",
   "n_consecutive", "rto"}

Streams(T) ==
  [capacity : Nat, buffer : Seq(BytesOf(T)), bytesWritten : WrappingInt,
   bytesRead : WrappingInt, isInputEnded : BOOLEAN, error : BOOLEAN]

\* A sender whose positions and stream are of the right types.
Typed(t, T) ==
  /\ DOMAIN t = Fields /\ IsText(T)
  /\ t.isn \in WrappingInt
  /\ t.stream \in Streams(T)
  /\ t.next_seqno \in Nat /\ t.checkpoint \in Nat /\ t.checkpoint <= t.next_seqno
  /\ t.syn \in BOOLEAN /\ t.fin \in BOOLEAN
  /\ t.rwnd \in Nat

\* The position in the text up to which bytes have left the stream, w having
\* been written.
ReadUpTo(t, w) == w - Len(t.stream.buffer)

\* A sender into which w bytes of the text have been written: the stream holds
\* the ones not sent yet, and next_seqno counts the others.
Queued(t, w, T) ==
  /\ w \in 0 .. Len(T)
  /\ Len(t.stream.buffer) <= w /\ Len(t.stream.buffer) <= t.stream.capacity
  /\ t.stream.bytesWritten = w % Modulus
  /\ t.stream.buffer = SubSeq(T, ReadUpTo(t, w) + 1, w)
  /\ t.syn => t.next_seqno = 1 + ReadUpTo(t, w) + (IF t.fin THEN 1 ELSE 0)
  /\ ~t.syn => t.next_seqno = 0 /\ ReadUpTo(t, w) = 0 /\ ~t.fin /\ t.in_flight = {}
  /\ t.stream.isInputEnded => w = Len(T)
  /\ t.fin => t.stream.isInputEnded /\ t.stream.buffer = <<>>

Segments(T) ==
  [seqno : WrappingInt, ackno : WrappingInt, ack : BOOLEAN, rst : BOOLEAN, syn : BOOLEAN,
   fin : BOOLEAN, win : Nat, payload : Seq(BytesOf(T))]

\* The segments a sender may send that has got to position n: SYN, empty ones,
\* the bytes of the text at their places, and FIN behind the last.
Said(isn, T, n) ==
  { seg \in Segments(T) :
      \E p \in 0 .. n :
        /\ seg.seqno = Wrap(p, isn) /\ p + LengthInSequenceSpace(seg) <= n
        /\ seg.syn => p = 0
        /\ seg.fin => ~seg.syn /\ p + Len(seg.payload) = Len(T) + 1
        /\ \/ seg.payload = <<>>
           \/ /\ ~seg.syn /\ p >= 1 /\ p + Len(seg.payload) <= Len(T) + 1
              /\ seg.payload = SubSeq(T, p, p + Len(seg.payload) - 1) }

\* Segments as they are made, before the connection adds to them.
Unstamped(T) ==
  [seqno : WrappingInt, ackno : {0}, ack : {FALSE}, rst : {FALSE}, syn : BOOLEAN,
   fin : BOOLEAN, win : {0}, payload : Seq(BytesOf(T))]

\* A segment in flight that is where it belongs and takes sequence numbers.
InPlace(e, isn, T) ==
  /\ e \in [abs_seqno : Nat, seg : Unstamped(T)]
  /\ e.abs_seqno < EndOf(e) /\ e.abs_seqno + Len(e.seg.payload) <= Len(T) + 1
  /\ e.seg.seqno = Wrap(e.abs_seqno, isn)
  /\ e.seg.syn <=> e.abs_seqno = 0
  /\ e.seg.syn => e.seg.payload = <<>> /\ ~e.seg.fin
  /\ e.seg.payload = SubSeq(T, e.abs_seqno, e.abs_seqno + Len(e.seg.payload) - 1)
  /\ e.seg.fin => EndOf(e) = Len(T) + 2

\* Segments that are in place and make up the positions from `from` to `to`,
\* the first one perhaps starting earlier.
Makes(es, isn, from, to, T) ==
  /\ \A e \in es : InPlace(e, isn, T) /\ from < EndOf(e) /\ EndOf(e) <= to
  /\ \A d, e \in es : d = e \/ EndOf(d) <= e.abs_seqno \/ EndOf(e) <= d.abs_seqno
  /\ \A p \in from .. (to - 1) : \E e \in es : e.abs_seqno <= p /\ p < EndOf(e)

\* bytes_in_flight is the length of what is in flight.
Counted(t) == IsFiniteSet(t.in_flight) /\ t.bytes_in_flight = TotalLength(t.in_flight)

\* The inductive invariant of the sender.
Good(t, w, T) ==
  /\ Typed(t, T) /\ Queued(t, w, T) /\ Makes(t.in_flight, t.isn, t.checkpoint, t.next_seqno, T)
  /\ Counted(t)
  /\ t.segments_out \in Seq(Said(t.isn, T, t.next_seqno))

\* A sender with fields of the right types sends a text.
LEMMA TypedText ==
  ASSUME NEW T, NEW t, Typed(t, T)
  PROVE  IsText(T)
  BY DEF Typed

\* The fields of a segment.
LEMMA SegmentTypes ==
  ASSUME NEW T, NEW seg \in Segments(T)
  PROVE  /\ seg.seqno \in WrappingInt /\ seg.ackno \in WrappingInt /\ seg.ack \in BOOLEAN
         /\ seg.rst \in BOOLEAN /\ seg.syn \in BOOLEAN /\ seg.fin \in BOOLEAN
         /\ seg.win \in Nat /\ seg.payload \in Seq(BytesOf(T))
  BY DEF Segments

\* A sequence number.
LEMMA WrapType ==
  ASSUME NEW p \in Nat, NEW isn \in WrappingInt
  PROVE  Wrap(p, isn) \in WrappingInt
<1>1. isn \in Int
  BY ModulusAssumption DEF WrappingInt
<1> QED BY <1>1, Remainder DEF Wrap

\* A segment without a sequence number is a segment.
LEMMA UnstampedSegments ==
  ASSUME NEW T
  PROVE  Unstamped(T) \subseteq Segments(T)
<1>1. 0 \in WrappingInt /\ 0 \in Nat /\ FALSE \in BOOLEAN
  BY ModulusAssumption DEF WrappingInt
<1> QED BY <1>1, Zenon DEF Unstamped, Segments

\* What is known of a segment in its place.
LEMMA InPlaceTypes ==
  ASSUME NEW T, NEW e, NEW isn, InPlace(e, isn, T)
  PROVE  /\ e.abs_seqno \in Nat /\ e.seg \in Segments(T) /\ Len(e.seg.payload) \in Nat
         /\ Size(e) \in Nat /\ Size(e) > 0 /\ EndOf(e) = e.abs_seqno + Size(e)
         /\ ~e.seg.syn => Size(e) = Len(e.seg.payload) + (IF e.seg.fin THEN 1 ELSE 0)
<1>1. e.abs_seqno \in Nat /\ e.seg \in Unstamped(T) /\ e.abs_seqno < EndOf(e)
  BY DEF InPlace
<1>2. e.seg \in Segments(T)
  BY <1>1, UnstampedSegments, Zenon
<1>3. Len(e.seg.payload) \in Nat
  BY <1>2, SegmentTypes
<1> DEFINE syn == IF e.seg.syn THEN 1 ELSE 0
           fin == IF e.seg.fin THEN 1 ELSE 0
<1>4. syn \in Nat /\ fin \in Nat /\ (~e.seg.syn => syn = 0)
  OBVIOUS
<1>5. Size(e) = Len(e.seg.payload) + syn + fin /\ EndOf(e) = e.abs_seqno + Size(e)
  BY Zenon DEF EndOf, LengthInSequenceSpace, Size
<1> HIDE DEF syn, fin
<1>6. Size(e) \in Nat /\ Size(e) > 0 /\ (~e.seg.syn => Size(e) = Len(e.seg.payload) + fin)
  BY <1>1, <1>3, <1>4, <1>5
<1> QED BY <1>1, <1>2, <1>3, <1>5, <1>6, Zenon DEF fin

\* A segment in its place begins and ends at a position.
LEMMA EndOfType ==
  ASSUME NEW T, NEW e, NEW isn, InPlace(e, isn, T)
  PROVE  EndOf(e) \in Nat /\ e.abs_seqno \in Nat
<1>1. e.abs_seqno \in Nat /\ Size(e) \in Nat /\ EndOf(e) = e.abs_seqno + Size(e)
  BY InPlaceTypes, Zenon
<1> QED BY <1>1

\* A segment in its place may be sent.
LEMMA InPlaceSaid ==
  ASSUME NEW T, IsText(T), NEW e, NEW isn, InPlace(e, isn, T), NEW n \in Nat, EndOf(e) <= n
  PROVE  e.seg \in Said(isn, T, n)
<1> DEFINE p == e.abs_seqno
           len == Len(e.seg.payload)
<1>1. /\ p + len <= Len(T) + 1 /\ (e.seg.fin => EndOf(e) = Len(T) + 2)
      /\ e.seg.seqno = Wrap(p, isn) /\ (e.seg.syn <=> p = 0)
      /\ e.seg.syn => e.seg.payload = <<>> /\ ~e.seg.fin
      /\ e.seg.payload = SubSeq(T, p, p + len - 1)
  BY Zenon DEF InPlace
<1>2. /\ p \in Nat /\ e.seg \in Segments(T) /\ len \in Nat /\ Size(e) \in Nat
      /\ EndOf(e) = p + Size(e)
      /\ ~e.seg.syn => Size(e) = len + (IF e.seg.fin THEN 1 ELSE 0)
  BY InPlaceTypes, Zenon
<1>3. Len(T) \in Nat /\ LengthInSequenceSpace(e.seg) = Size(e)
  BY TextFacts, Zenon DEF Size
<1> HIDE DEF p, len
<1>4. p \in 0 .. n /\ (p # 0 => p >= 1) /\ p + LengthInSequenceSpace(e.seg) <= n
  BY <1>2, <1>3
<1>5. \/ e.seg.payload = <<>>
      \/ ~e.seg.syn /\ p >= 1 /\ p + len <= Len(T) + 1 /\ e.seg.payload = SubSeq(T, p, p + len - 1)
  BY <1>1, <1>4, Zenon
<1>6. e.seg.fin => ~e.seg.syn /\ p + len = Len(T) + 1
  <2> SUFFICES ASSUME e.seg.fin PROVE ~e.seg.syn /\ p + len = Len(T) + 1
    BY Zenon
  <2>1. ~e.seg.syn /\ EndOf(e) = Len(T) + 2 /\ Size(e) = len + 1
    BY <1>1, <1>2, Zenon
  <2>2. p + (len + 1) = Len(T) + 2
    BY <1>2, <2>1, Zenon
  <2> QED BY <1>2, <1>3, <2>1, <2>2
<1>7. e.seg.syn => p = 0
  BY <1>1, Zenon
<1> QED BY <1>1, <1>2, <1>4, <1>5, <1>6, <1>7, Zenon DEF Said, len

\* How many sequence numbers a segment takes.
LEMMA SegmentLength ==
  ASSUME NEW T, NEW seg \in Segments(T)
  PROVE  /\ LengthInSequenceSpace(seg) \in Nat /\ Len(seg.payload) \in Nat
         /\ ~seg.syn /\ ~seg.fin => LengthInSequenceSpace(seg) = Len(seg.payload)
         /\ ~seg.syn /\ seg.fin => LengthInSequenceSpace(seg) = Len(seg.payload) + 1
         /\ seg.syn => LengthInSequenceSpace(seg) >= 1 + Len(seg.payload)
<1> DEFINE syn == IF seg.syn THEN 1 ELSE 0
           fin == IF seg.fin THEN 1 ELSE 0
<1>1. Len(seg.payload) \in Nat
  BY SegmentTypes
<1>2. /\ syn \in Nat /\ fin \in Nat /\ (~seg.syn => syn = 0) /\ (seg.syn => syn = 1)
      /\ (~seg.fin => fin = 0) /\ (seg.fin => fin = 1)
  OBVIOUS
<1>3. LengthInSequenceSpace(seg) = Len(seg.payload) + syn + fin
  BY Zenon DEF LengthInSequenceSpace
<1> HIDE DEF syn, fin
<1> QED BY <1>1, <1>2, <1>3

\* What may be sent may be sent later.
LEMMA SaidLater ==
  ASSUME NEW T, NEW isn, NEW m \in Nat, NEW n \in Nat, m <= n
  PROVE  Said(isn, T, m) \subseteq Said(isn, T, n)
<1> SUFFICES ASSUME NEW seg \in Said(isn, T, m) PROVE seg \in Said(isn, T, n)
  BY Zenon
<1>1. seg \in Segments(T)
  BY Zenon DEF Said
<1>2. PICK p \in 0 .. m :
        /\ seg.seqno = Wrap(p, isn) /\ p + LengthInSequenceSpace(seg) <= m
        /\ seg.syn => p = 0
        /\ seg.fin => ~seg.syn /\ p + Len(seg.payload) = Len(T) + 1
        /\ \/ seg.payload = <<>>
           \/ /\ ~seg.syn /\ p >= 1 /\ p + Len(seg.payload) <= Len(T) + 1
              /\ seg.payload = SubSeq(T, p, p + Len(seg.payload) - 1)
  BY Zenon DEF Said
<1>3. LengthInSequenceSpace(seg) \in Nat
  BY <1>1, SegmentLength, Zenon
<1>4. p \in 0 .. n /\ p + LengthInSequenceSpace(seg) <= n
  BY <1>2, <1>3
<1> QED BY <1>1, <1>2, <1>4, Zenon DEF Said

\* Segments in place that make up the positions from `from` to `to` and do not
\* start earlier have that length.
LEMMA MakesLength ==
  ASSUME NEW T, NEW es, NEW isn, NEW from \in Nat, NEW to \in Nat, from <= to,
         IsFiniteSet(es), Makes(es, isn, from, to, T), \A e \in es : from <= e.abs_seqno
  PROVE  TotalLength(es) = to - from
<1>1. \A e \in es : /\ e.abs_seqno \in Nat /\ Size(e) \in Nat /\ Size(e) > 0
                    /\ EndOf(e) = e.abs_seqno + Size(e)
  BY InPlaceTypes, Zenon DEF Makes
<1>2. Tiles(es, from, to)
  BY <1>1, Zenon DEF Makes, Tiles
<1> QED BY <1>2, SumTiles, Zenon

\* The lengths of segments in place are numbers.
LEMMA MakesSized ==
  ASSUME NEW T, NEW es, NEW isn, NEW from, NEW to, Makes(es, isn, from, to, T)
  PROVE  Sized(es)
<1>1. \A e \in es : Size(e) \in Nat
  BY InPlaceTypes, Zenon DEF Makes
<1> QED BY <1>1, Zenon DEF Sized

\* Segments that follow segments make up a longer stretch.
LEMMA MakesMore ==
  ASSUME NEW T, NEW es, NEW fs, NEW isn, NEW from \in Nat, NEW mid \in Nat, NEW to \in Nat,
         from <= mid, mid <= to,
         Makes(es, isn, from, mid, T), Makes(fs, isn, mid, to, T),
         \A e \in fs : mid <= e.abs_seqno
  PROVE  Makes(es \cup fs, isn, from, to, T)
<1>1. \A e \in es \cup fs : InPlace(e, isn, T) /\ e.abs_seqno \in Nat /\ EndOf(e) \in Nat
  BY EndOfType, Zenon DEF Makes
<1>2. \A e \in es \cup fs : from < EndOf(e) /\ EndOf(e) <= to
  BY <1>1 DEF Makes
<1>3. ASSUME NEW d \in es \cup fs, NEW e \in es \cup fs
      PROVE  d = e \/ EndOf(d) <= e.abs_seqno \/ EndOf(e) <= d.abs_seqno
  BY <1>1 DEF Makes
<1>4. ASSUME NEW p \in from .. (to - 1)
      PROVE  \E e \in es \cup fs : e.abs_seqno <= p /\ p < EndOf(e)
  <2>1. p \in from .. (mid - 1) \/ p \in mid .. (to - 1)
    OBVIOUS
  <2> QED BY <2>1 DEF Makes
<1> QED BY <1>1, <1>2, <1>3, <1>4 DEF Makes

\* What is left after the acknowledged segments are dropped makes up what is
\* not acknowledged.
LEMMA MakesLess ==
  ASSUME NEW T, NEW t, NEW ackno \in Nat, NEW from \in Nat, NEW to \in Nat, from <= ackno, ackno <= to,
         Makes(t.in_flight, t.isn, from, to, T)
  PROVE  Makes(t.in_flight \ Acknowledged(t, ackno), t.isn, ackno, to, T)
<1> DEFINE es == t.in_flight
           left == es \ Acknowledged(t, ackno)
<1>1. \A e \in es : /\ InPlace(e, t.isn, T) /\ e.abs_seqno \in Nat /\ EndOf(e) \in Nat
                    /\ e.abs_seqno < EndOf(e) /\ EndOf(e) <= to
  BY EndOfType, Zenon DEF Makes, InPlace
<1>2. \A d, e \in es : d = e \/ EndOf(d) <= e.abs_seqno \/ EndOf(e) <= d.abs_seqno
  BY DEF Makes
<1>3. ASSUME NEW e \in left PROVE ackno < EndOf(e)
  <2>1. PICK d \in es : d.abs_seqno <= e.abs_seqno /\ ~(EndOf(d) <= ackno)
    BY DEF Acknowledged
  <2>2. e \in es
    OBVIOUS
  <2> HIDE DEF es, left
  <2>3. d = e \/ EndOf(d) <= EndOf(e)
    BY <1>1, <1>2, <2>1, <2>2
  <2> QED BY <1>1, <2>1, <2>2, <2>3
<1>4. ASSUME NEW p \in ackno .. (to - 1)
      PROVE  \E e \in left : e.abs_seqno <= p /\ p < EndOf(e)
  <2>1. PICK e \in es : e.abs_seqno <= p /\ p < EndOf(e)
    BY DEF Makes
  <2>2. ~(EndOf(e) <= ackno)
    BY <1>1, <2>1
  <2>3. e \notin Acknowledged(t, ackno)
    BY <1>1, <2>2 DEF Acknowledged
  <2> QED BY <2>1, <2>3
<1>5. \A e \in left : InPlace(e, t.isn, T) /\ ackno < EndOf(e) /\ EndOf(e) <= to
  BY <1>1, <1>3
<1>6. \A d, e \in left : d = e \/ EndOf(d) <= e.abs_seqno \/ EndOf(e) <= d.abs_seqno
  BY <1>2
<1> QED BY <1>4, <1>5, <1>6 DEF Makes

-----------------------------------------------------------------------------
\* What SendSegments() does to a sender, by its parts: the position of the i-th
\* segment, the segments with their numbers, what is kept of them, and the
\* position after them.
PlaceOf(t, i) == t.next_seqno + (i - 1) * MaxPayloadSize
Numbered(t, seg, i) == [seg EXCEPT !.seqno = Wrap(PlaceOf(t, i), t.isn)]
KeptOf(t, segs) ==
  { [abs_seqno |-> PlaceOf(t, i), seg |-> Numbered(t, segs[i], i)] : i \in 1 .. Len(segs) }
After(t, segs) == PlaceOf(t, Len(segs)) + LengthInSequenceSpace(segs[Len(segs)])

SentOf(t, segs) == [i \in 1 .. Len(segs) |-> Numbered(t, segs[i], i)]

\* The fields the invariant speaks of.
SameButFlight(u, t) ==
  /\ DOMAIN u = Fields /\ u.isn = t.isn /\ u.stream = t.stream /\ u.checkpoint = t.checkpoint
  /\ u.syn = t.syn /\ u.fin = t.fin /\ u.rwnd = t.rwnd

\* send_segment() of several segments changes only what is in flight, what is
\* sent and the next position.
LEMMA SendSegmentsDoes ==
  ASSUME NEW t, DOMAIN t = Fields, NEW segs
  PROVE  /\ SameButFlight(SendSegments(t, segs), t)
         /\ SendSegments(t, segs).in_flight = t.in_flight \cup KeptOf(t, segs)
         /\ SendSegments(t, segs).next_seqno = After(t, segs)
         /\ SendSegments(t, segs).segments_out = t.segments_out \o SentOf(t, segs)
         /\ SendSegments(t, segs).bytes_in_flight = t.bytes_in_flight + After(t, segs) - t.next_seqno
<1> DEFINE sent == SentOf(t, segs)
           kept == { [abs_seqno |-> PlaceOf(t, i), seg |-> sent[i]] : i \in 1 .. Len(segs) }
           u == [t EXCEPT !.segments_out = @ \o sent, !.in_flight = @ \cup kept,
                          !.next_seqno = After(t, segs),
                          !.bytes_in_flight = @ + After(t, segs) - t.next_seqno]
<1>1. SendSegments(t, segs) = StartTimer(u)
  BY DEF SendSegments, PlaceOf, After, Numbered, SentOf
<1>2. kept = KeptOf(t, segs)
  BY DEF KeptOf, SentOf
<1> HIDE DEF sent, kept
<1>3. /\ DOMAIN u = Fields /\ u.isn = t.isn /\ u.stream = t.stream /\ u.checkpoint = t.checkpoint
      /\ u.syn = t.syn /\ u.fin = t.fin /\ u.rwnd = t.rwnd
      /\ u.in_flight = t.in_flight \cup kept /\ u.next_seqno = After(t, segs)
      /\ u.segments_out = t.segments_out \o sent
      /\ u.bytes_in_flight = t.bytes_in_flight + After(t, segs) - t.next_seqno
  BY DEF Fields
<1> HIDE DEF u
<1> QED BY <1>1, <1>2, <1>3 DEF StartTimer, SameButFlight, Fields, sent

\* A new segment with a number, and perhaps a payload and flags.
LEMMA NewSegmentTyped ==
  ASSUME NEW T, NEW payload \in Seq(BytesOf(T)), NEW fin \in BOOLEAN, NEW seqno \in WrappingInt
  PROVE  /\ [[SegmentNew EXCEPT !.payload = payload, !.fin = fin] EXCEPT !.seqno = seqno]
              \in Unstamped(T)
         /\ [[SegmentNew EXCEPT !.syn = TRUE] EXCEPT !.seqno = seqno] \in Unstamped(T)
         /\ [SegmentNew EXCEPT !.seqno = seqno] \in Unstamped(T)
<1>1. SegmentNew \in Unstamped(T)
  BY ModulusAssumption DEF SegmentNew, Unstamped, WrappingInt
<1>2. /\ [SegmentNew EXCEPT !.payload = payload, !.fin = fin] \in Unstamped(T)
      /\ [SegmentNew EXCEPT !.syn = TRUE] \in Unstamped(T)
  BY <1>1, Zenon DEF Unstamped
<1>3. ASSUME NEW seg \in Unstamped(T) PROVE [seg EXCEPT !.seqno = seqno] \in Unstamped(T)
  BY ZenonT(60) DEF Unstamped
<1> QED BY <1>1, <1>2, <1>3, Zenon

\* What is sent is in place.
LEMMA SentSaid ==
  ASSUME NEW T, IsText(T), NEW t, NEW segs, Len(segs) \in Nat,
         NEW m \in Nat, \A e \in KeptOf(t, segs) : InPlace(e, t.isn, T) /\ EndOf(e) <= m
  PROVE  SentOf(t, segs) \in Seq(Said(t.isn, T, m))
<1>1. ASSUME NEW i \in 1 .. Len(segs) PROVE Numbered(t, segs[i], i) \in Said(t.isn, T, m)
  <2> DEFINE e == [abs_seqno |-> PlaceOf(t, i), seg |-> Numbered(t, segs[i], i)]
  <2>1. e \in KeptOf(t, segs)
    BY DEF KeptOf
  <2>2. e.seg = Numbered(t, segs[i], i)
    OBVIOUS
  <2> HIDE DEF e
  <2>3. e.seg \in Said(t.isn, T, m)
    BY <2>1, InPlaceSaid
  <2> QED BY <2>2, <2>3
<1> DEFINE S == Said(t.isn, T, m)
           N(i) == Numbered(t, segs[i], i)
           n == Len(segs)
<1>2. \A i \in 1 .. n : N(i) \in S
  BY <1>1
<1>3. SentOf(t, segs) = [i \in 1 .. n |-> N(i)]
  BY DEF SentOf
<1> HIDE DEF S, N, n
<1>4. n \in Nat
  BY DEF n
<1>5. [i \in 1 .. n |-> N(i)] \in Seq(S)
  BY <1>2, <1>4
<1> QED BY <1>3, <1>5 DEF S

\* What is kept is finite.
LEMMA KeptFinite ==
  ASSUME NEW t, NEW segs, Len(segs) \in Nat
  PROVE  IsFiniteSet(KeptOf(t, segs))
<1> DEFINE S == 1 .. Len(segs)
           f == [i \in S |-> [abs_seqno |-> PlaceOf(t, i), seg |-> Numbered(t, segs[i], i)]]
<1>1. IsFiniteSet(S)
  BY FS_Interval
<1>2. f \in Surjection(S, KeptOf(t, segs))
  BY DEF KeptOf, Surjection
<1> QED BY <1>1, <1>2, FS_Surjection, Zenon

TakenBy(t) == Minimum(NumBytesCanSend(t), BufferSize(t.stream))

\* The number of segments fill_window() makes.
Count(t) == IF TakenBy(t) = 0 /\ SendsFin(t) THEN 1 ELSE Pieces(TakenBy(t))

\* The room in the window is a number.
LEMMA CanSendType ==
  ASSUME NEW T, NEW t, Typed(t, T)
  PROVE  /\ NumBytesCanSend(t) \in Nat
         /\ Len(t.stream.buffer) \in Nat /\ t.stream.buffer \in Seq(BytesOf(T))
         /\ SendsFin(t) \in BOOLEAN
         /\ TakenBy(t) \in Nat /\ TakenBy(t) <= Len(t.stream.buffer)
         /\ TakenBy(t) <= NumBytesCanSend(t)
         /\ SendsFin(t) => TakenBy(t) = Len(t.stream.buffer) /\ TakenBy(t) < NumBytesCanSend(t)
         /\ SendsFin(t) => t.stream.isInputEnded
<1>1. t.stream.buffer \in Seq(BytesOf(T)) /\ t.stream.isInputEnded \in BOOLEAN
  BY Zenon DEF Typed, Streams
<1>2. Len(t.stream.buffer) \in Nat
  BY <1>1
<1>3. SizeModulus \in Nat /\ SizeModulus > 0
  BY SizeAssumption, ModulusAssumption
<1>4. NumBytesCanSend(t) \in Nat
  BY <1>3 DEF NumBytesCanSend, Typed
<1> QED BY <1>1, <1>2, <1>4 DEF TakenBy, SendsFin, BufferSize, Minimum

\* The i-th of them.
NewSegment(t, i) ==
  [SegmentNew EXCEPT
     !.payload = SubSeq(t.stream.buffer, (i - 1) * MaxPayloadSize + 1, Cut(i, TakenBy(t))),
     !.fin = SendsFin(t) /\ i = Count(t)]

\* How the bytes taken are cut: no piece is empty, except that the FIN alone
\* may be a segment; all but the last are full.
LEMMA Cutting ==
  ASSUME NEW T, NEW t, Typed(t, T), NewSegments(t) # <<>>
  PROVE  /\ Count(t) \in Nat /\ Count(t) > 0
         /\ NewSegments(t) = [i \in 1 .. Count(t) |-> NewSegment(t, i)]
         /\ \A i \in 1 .. Count(t) :
              /\ (i - 1) * MaxPayloadSize \in Nat /\ Cut(i, TakenBy(t)) \in Nat
              /\ (i - 1) * MaxPayloadSize <= Cut(i, TakenBy(t)) /\ Cut(i, TakenBy(t)) <= TakenBy(t)
              /\ \/ (i - 1) * MaxPayloadSize < Cut(i, TakenBy(t))
                 \/ SendsFin(t) /\ i = Count(t)
              /\ i < Count(t) => Cut(i, TakenBy(t)) = (i - 1) * MaxPayloadSize + MaxPayloadSize
         /\ Cut(Count(t), TakenBy(t)) = TakenBy(t)
         /\ TakenBy(t) <= Count(t) * MaxPayloadSize
<1>1. NewSegments(t) = [i \in 1 .. Count(t) |-> NewSegment(t, i)]
  BY Zenon DEF NewSegments, NewSegment, Count, TakenBy, Pieces, Cut
<1>2. TakenBy(t) \in Nat /\ MaxPayloadSize \in Nat /\ MaxPayloadSize > 0
  BY CanSendType, PayloadSize
<1>3. CASE TakenBy(t) > 0
  <2>1. Count(t) = Pieces(TakenBy(t))
    BY <1>2, <1>3 DEF Count
  <2>2. TakenBy(t) <= Count(t) * MaxPayloadSize
    <3>1. Count(t) \in Int /\ Cut(Count(t), TakenBy(t)) = TakenBy(t)
      BY <1>2, <1>3, <2>1, CutIntoPieces
    <3>2. Count(t) * MaxPayloadSize \in Int
      BY <1>2, <3>1, Multiples
    <3> QED BY <1>2, <3>1, <3>2 DEF Cut, Minimum
  <2>3. Count(t) \in Nat /\ Count(t) > 0 /\ Cut(Count(t), TakenBy(t)) = TakenBy(t)
    BY <1>2, <1>3, <2>1, CutIntoPieces
  <2>4. ASSUME NEW i \in 1 .. Count(t)
        PROVE  /\ (i - 1) * MaxPayloadSize \in Nat /\ Cut(i, TakenBy(t)) \in Nat
               /\ (i - 1) * MaxPayloadSize <= Cut(i, TakenBy(t)) /\ Cut(i, TakenBy(t)) <= TakenBy(t)
               /\ (i - 1) * MaxPayloadSize < Cut(i, TakenBy(t))
               /\ i < Count(t) => Cut(i, TakenBy(t)) = (i - 1) * MaxPayloadSize + MaxPayloadSize
    <3> DEFINE from == (i - 1) * MaxPayloadSize
    <3>1. /\ from \in Nat /\ Cut(i, TakenBy(t)) \in Nat /\ from < Cut(i, TakenBy(t))
          /\ Cut(i, TakenBy(t)) <= TakenBy(t)
          /\ i < Count(t) => Cut(i, TakenBy(t)) = from + MaxPayloadSize
      BY <1>2, <1>3, <2>1, CutIntoPieces
    <3> HIDE DEF from
    <3>2. from <= Cut(i, TakenBy(t))
      BY <3>1
    <3> QED BY <3>1, <3>2 DEF from
  <2> QED BY <1>1, <2>2, <2>3, <2>4
<1>4. CASE TakenBy(t) = 0
  <2>1. CASE SendsFin(t)
    <3>1. Count(t) = 1
      BY <1>4, <2>1 DEF Count
    <3>2. Cut(1, TakenBy(t)) = 0 /\ (1 - 1) * MaxPayloadSize = 0
      BY <1>2, <1>4 DEF Cut, Minimum
    <3>3. \A i \in 1 .. Count(t) : i = 1 /\ i = Count(t)
      BY <3>1
    <3>4. TakenBy(t) <= Count(t) * MaxPayloadSize
      BY <1>2, <1>4, <3>1
    <3> QED BY <1>1, <1>4, <2>1, <3>1, <3>2, <3>3, <3>4
  <2>2. CASE ~SendsFin(t)
    <3>1. Count(t) = (MaxPayloadSize - 1) \div MaxPayloadSize
      BY <1>2, <1>4, <2>2 DEF Count, Pieces
    <3>2. (MaxPayloadSize - 1) \div MaxPayloadSize = 0
      BY <1>2
    <3>3. NewSegments(t) = <<>>
      BY <1>1, <3>1, <3>2
    <3> QED BY <3>3
  <2> QED BY <2>1, <2>2
<1> QED BY <1>2, <1>3, <1>4

\* A segment in flight without SYN that carries the bytes of the text from
\* r + lo to r + hi, and FIN if f is 1.
IsPiece(e, isn, r, lo, hi, f, T) ==
  /\ IsText(T) /\ e \in [abs_seqno : Nat, seg : Unstamped(T)]
  /\ r \in Nat /\ lo \in Nat /\ hi \in Nat /\ f \in {0, 1}
  /\ lo <= hi /\ r + hi <= Len(T) /\ (lo < hi \/ f = 1) /\ (f = 1 => r + hi = Len(T))
  /\ e.abs_seqno = 1 + r + lo /\ e.seg.seqno = Wrap(e.abs_seqno, isn)
  /\ e.seg.syn = FALSE /\ e.seg.fin = (f = 1)
  /\ e.seg.payload = SubSeq(T, r + lo + 1, r + hi)

\* It is in its place.
LEMMA PieceInPlace ==
  ASSUME NEW T, NEW e, NEW isn, NEW r, NEW lo, NEW hi, NEW f, IsPiece(e, isn, r, lo, hi, f, T)
  PROVE  /\ InPlace(e, isn, T) /\ EndOf(e) = 1 + r + hi + f
         /\ LengthInSequenceSpace(e.seg) = hi - lo + f
<1> USE DEF IsPiece
<1> DEFINE a == r + lo
           b == r + hi
           len == Len(e.seg.payload)
           syn == IF e.seg.syn THEN 1 ELSE 0
           fin == IF e.seg.fin THEN 1 ELSE 0
<1>1. a \in Nat /\ b \in Nat /\ a <= b /\ b <= Len(T) /\ b - a = hi - lo /\ Len(T) \in Nat
  BY TextFacts
<1>2. e.seg.payload = SubSeq(T, a + 1, b)
  OBVIOUS
<1>3. e.seg.payload \in Seq(BytesOf(T)) /\ len = hi - lo
  <2>2. IsText(T)
    OBVIOUS
  <2> HIDE DEF a, b, IsPiece
  <2>1. SubSeq(T, a + 1, b) \in Seq(BytesOf(T)) /\ Len(SubSeq(T, a + 1, b)) = b - a
    BY <1>1, <2>2, Piece, Zenon
  <2> QED BY <1>1, <1>2, <2>1, Zenon
<1>4. syn = 0 /\ fin = f
  BY Zenon
<1>5. LengthInSequenceSpace(e.seg) = len + syn + fin
  BY DEF LengthInSequenceSpace
<1> HIDE DEF len, syn, fin
<1>6. LengthInSequenceSpace(e.seg) = hi - lo + f
  BY <1>3, <1>4, <1>5
<1>7. EndOf(e) = 1 + r + hi + f
  BY <1>6 DEF EndOf
<1>8. e.seg.payload = SubSeq(T, e.abs_seqno, e.abs_seqno + Len(e.seg.payload) - 1)
  <2>1. e.abs_seqno = r + lo + 1 /\ e.abs_seqno + len - 1 = r + hi
    BY <1>3
  <2> QED BY <2>1 DEF len
<1>9. /\ e.abs_seqno \in Nat /\ e.abs_seqno # 0 /\ e.abs_seqno < EndOf(e)
      /\ f = 1 => EndOf(e) = Len(T) + 2
  <2>1. 1 + r + lo \in Nat /\ 1 + r + lo # 0 /\ 1 + r + lo < 1 + r + hi + f
    OBVIOUS
  <2>2. f = 1 => 1 + r + hi + f = Len(T) + 2
    OBVIOUS
  <2> QED BY <1>7, <2>1, <2>2
<1>10. /\ (e.seg.syn <=> e.abs_seqno = 0) /\ (e.seg.syn => e.seg.payload = <<>> /\ ~e.seg.fin)
       /\ e.seg.fin => EndOf(e) = Len(T) + 2
  BY <1>9, Zenon
<1>11. e.abs_seqno + Len(e.seg.payload) <= Len(T) + 1
  <2>1. e.abs_seqno = 1 + r + lo /\ r + hi <= Len(T) /\ Len(T) \in Nat
    BY <1>1
  <2>2. 1 + r + lo + (hi - lo) <= Len(T) + 1
    BY <2>1
  <2> QED BY <1>3, <2>1, <2>2 DEF len
<1> QED BY <1>3, <1>6, <1>7, <1>8, <1>9, <1>10, <1>11 DEF InPlace

\* n segments cut from k bytes at multiples of the payload size, ending at hi,
\* with FIN on the last if f is 1.
CutUp(el, hi, isn, next, k, n, f, T) ==
  /\ next \in Nat /\ k \in Nat /\ n \in Nat /\ n > 0 /\ f \in {0, 1}
  /\ hi[n] = k /\ k <= n * MaxPayloadSize
  /\ \A i \in 1 .. n :
       /\ InPlace(el[i], isn, T) /\ hi[i] \in Nat /\ hi[i] <= k
       /\ el[i].abs_seqno = next + (i - 1) * MaxPayloadSize
       /\ EndOf(el[i]) = next + hi[i] + (IF i = n THEN f ELSE 0)
       /\ i < n => hi[i] = (i - 1) * MaxPayloadSize + MaxPayloadSize

\* They make up the whole.
LEMMA PiecesMake ==
  ASSUME NEW T, NEW el, NEW hi, NEW isn, NEW next, NEW k, NEW n, NEW f,
         CutUp(el, hi, isn, next, k, n, f, T)
  PROVE  Makes({ el[i] : i \in 1 .. n }, isn, next, next + k + f, T)
<1> USE DEF CutUp
<1> DEFINE m == MaxPayloadSize
           lo(i) == (i - 1) * m
           last(i) == IF i = n THEN f ELSE 0
<1>1. m \in Nat /\ m > 0
  BY PayloadSize
<1>2. ASSUME NEW i \in 1 .. n
      PROVE  /\ lo(i) \in Nat /\ last(i) \in {0, 1} /\ hi[i] \in Nat /\ hi[i] <= k
             /\ el[i].abs_seqno = next + lo(i) /\ EndOf(el[i]) = next + hi[i] + last(i)
             /\ i < n => hi[i] = lo(i) + m /\ last(i) = 0
             /\ i = n => last(i) = f
             /\ InPlace(el[i], isn, T) /\ el[i].abs_seqno < EndOf(el[i])
  <2>1. i - 1 \in Int /\ 0 <= i - 1
    OBVIOUS
  <2>2. lo(i) \in Nat
    BY <1>1, <2>1, Multiples
  <2>3. last(i) \in {0, 1} /\ (i < n => last(i) = 0) /\ (i = n => last(i) = f)
    OBVIOUS
  <2> QED BY <2>2, <2>3, Zenon DEF InPlace
<1> HIDE DEF lo, last, m
<1>3. ASSUME NEW i \in 1 .. n
      PROVE  next < EndOf(el[i]) /\ EndOf(el[i]) <= next + k + f
  <2>1. i < n \/ i = n
    OBVIOUS
  <2> QED BY <1>1, <1>2, <2>1
<1>4. ASSUME NEW i \in 1 .. n, NEW j \in 1 .. n, i < j
      PROVE  EndOf(el[i]) <= el[j].abs_seqno
  <2>1. i < n
    BY <1>4
  <2>2. lo(i) + m <= lo(j)
    <3>1. i - 1 \in Int /\ j - 1 \in Int /\ i - 1 < j - 1
      BY <1>4
    <3> QED BY <1>1, <3>1, Multiples DEF lo
  <2>3. EndOf(el[i]) = next + (lo(i) + m) /\ lo(i) \in Nat /\ lo(j) \in Nat
    BY <1>1, <1>2, <2>1
  <2> QED BY <1>1, <1>2, <2>2, <2>3
<1>5. ASSUME NEW p \in next .. (next + k + f - 1)
      PROVE  \E i \in 1 .. n : el[i].abs_seqno <= p /\ p < EndOf(el[i])
  <2> DEFINE q == p - next
  <2>0. q \in Nat /\ p = next + q /\ q < k + f
    OBVIOUS
  <2> HIDE DEF q
  <2>1. CASE q < k
    <3> DEFINE c == q \div m
    <3>1. c \in Nat /\ c * m \in Nat /\ c * m <= q /\ q < c * m + m
      BY <1>1, <2>0
    <3> HIDE DEF c
    <3>2. c < n
      <4>1. n <= c => n * m <= c * m
        BY <1>1, <3>1, Multiples
      <4>2. k <= n * m /\ n * m \in Int
        BY <1>1, Multiples DEF m
      <4> QED BY <2>0, <2>1, <3>1, <4>1, <4>2
    <3> DEFINE i == c + 1
    <3>3. i \in 1 .. n /\ lo(i) = c * m
      <4>1. i - 1 = c
        BY <3>1
      <4> QED BY <3>1, <3>2, <4>1 DEF lo
    <3> HIDE DEF i
    <3>4. q < hi[i]
      <4>1. i < n \/ i = n
        BY <3>3
      <4> QED BY <1>2, <2>1, <3>1, <3>3, <4>1
    <3>5. el[i].abs_seqno <= p /\ p < EndOf(el[i])
      BY <1>2, <2>0, <3>1, <3>3, <3>4
    <3> QED BY <3>3, <3>5
  <2>2. CASE q >= k
    <3>1. f = 1 /\ q = k /\ n \in 1 .. n
      BY <2>0, <2>2
    <3>2. EndOf(el[n]) = next + k + 1 /\ el[n].abs_seqno < EndOf(el[n]) /\ el[n].abs_seqno \in Int
      BY <1>2, <3>1
    <3> QED BY <2>0, <3>1, <3>2
  <2> QED BY <2>0, <2>1, <2>2
<1>6. \A d, e \in { el[i] : i \in 1 .. n } : d = e \/ EndOf(d) <= e.abs_seqno \/ EndOf(e) <= d.abs_seqno
  <2> SUFFICES ASSUME NEW i \in 1 .. n, NEW j \in 1 .. n
               PROVE  el[i] = el[j] \/ EndOf(el[i]) <= el[j].abs_seqno \/ EndOf(el[j]) <= el[i].abs_seqno
    OBVIOUS
  <2>1. i < j \/ j < i \/ i = j
    OBVIOUS
  <2> QED BY <1>4, <2>1
<1>7. \A e \in { el[i] : i \in 1 .. n } : InPlace(e, isn, T) /\ next < EndOf(e) /\ EndOf(e) <= next + k + f
  BY <1>2, <1>3
<1>8. \A p \in next .. (next + k + f - 1) :
        \E e \in { el[i] : i \in 1 .. n } : e.abs_seqno <= p /\ p < EndOf(e)
  BY <1>5
<1> QED BY <1>6, <1>7, <1>8 DEF Makes

\* What fill_window() keeps of the segments it makes: the bytes taken, then the
\* FIN if it is sent, each segment in its place.
LEMMA NewSegmentsMake ==
  ASSUME NEW T, NEW t, NEW w, Typed(t, T), Queued(t, w, T), t.syn, ~t.fin, NewSegments(t) # <<>>,
         NEW f \in {0, 1}, f = 1 <=> SendsFin(t)
  PROVE  /\ After(t, NewSegments(t)) = t.next_seqno + TakenBy(t) + f
         /\ Makes(KeptOf(t, NewSegments(t)), t.isn, t.next_seqno, t.next_seqno + TakenBy(t) + f, T)
         /\ \A e \in KeptOf(t, NewSegments(t)) : t.next_seqno <= e.abs_seqno
         /\ Len(NewSegments(t)) \in Nat
<1> DEFINE m == MaxPayloadSize
           n == Count(t)
           k == TakenBy(t)
           r == ReadUpTo(t, w)
           next == t.next_seqno
           segs == NewSegments(t)
           hi == [i \in 1 .. n |-> Cut(i, k)]
           el == [i \in 1 .. n |-> [abs_seqno |-> PlaceOf(t, i), seg |-> Numbered(t, segs[i], i)]]
           last(i) == IF i = n THEN f ELSE 0
<1>1. /\ n \in Nat /\ n > 0 /\ segs = [i \in 1 .. n |-> NewSegment(t, i)]
      /\ Cut(n, k) = k /\ k <= n * m
  BY Cutting
<1>2. \A i \in 1 .. n : /\ (i - 1) * m \in Nat /\ Cut(i, k) \in Nat
                        /\ (i - 1) * m <= Cut(i, k) /\ Cut(i, k) <= k
                        /\ (i - 1) * m < Cut(i, k) \/ (SendsFin(t) /\ i = n)
                        /\ i < n => Cut(i, k) = (i - 1) * m + m
  BY Cutting
<1>3. /\ k \in Nat /\ k <= Len(t.stream.buffer) /\ Len(t.stream.buffer) \in Nat
      /\ f = 1 => k = Len(t.stream.buffer) /\ t.stream.isInputEnded
      /\ Len(T) \in Nat
  BY CanSendType, TextFacts, TypedText
<1>4. /\ r \in Nat /\ w \in Nat /\ r + Len(t.stream.buffer) = w /\ w <= Len(T)
  BY <1>3 DEF Queued, ReadUpTo
<1>5. /\ t.stream.buffer = SubSeq(T, r + 1, w) /\ (t.stream.isInputEnded => w = Len(T))
      /\ next = 1 + r + (IF t.fin THEN 1 ELSE 0)
  BY DEF Queued
<1>6. next = 1 + r /\ next \in Nat
  BY <1>4, <1>5
<1>7. r + k <= Len(T) /\ (f = 1 => r + k = Len(T))
  BY <1>3, <1>4, <1>5
<1>8. Len(segs) = n /\ \A i \in 1 .. n : segs[i] = NewSegment(t, i)
  BY <1>1
<1> HIDE DEF segs, m, n, k, r, next
<1>9. ASSUME NEW i \in 1 .. n
      PROVE  /\ InPlace(el[i], t.isn, T) /\ hi[i] \in Nat /\ hi[i] <= k
             /\ el[i].abs_seqno = next + (i - 1) * m
             /\ EndOf(el[i]) = next + hi[i] + last(i)
             /\ i < n => hi[i] = (i - 1) * m + m
             /\ LengthInSequenceSpace(segs[i]) = hi[i] - (i - 1) * m + last(i)
  <2> DEFINE e == el[i]
             a == (i - 1) * m
             b == hi[i]
             g == last(i)
  <2>1. e = [abs_seqno |-> PlaceOf(t, i), seg |-> Numbered(t, segs[i], i)] /\ b = Cut(i, k)
    OBVIOUS
  <2>2. /\ segs[i].payload = SubSeq(t.stream.buffer, a + 1, b)
        /\ segs[i].fin = (SendsFin(t) /\ i = n) /\ segs[i].syn = FALSE
        /\ Numbered(t, segs[i], i).seqno = Wrap(PlaceOf(t, i), t.isn)
        /\ Numbered(t, segs[i], i).payload = segs[i].payload
        /\ Numbered(t, segs[i], i).fin = segs[i].fin /\ Numbered(t, segs[i], i).syn = segs[i].syn
    <3> DEFINE new == NewSegment(t, i)
    <3>1. /\ new.payload = SubSeq(t.stream.buffer, a + 1, Cut(i, k))
          /\ new.fin = (SendsFin(t) /\ i = n) /\ new.syn = FALSE
          /\ DOMAIN new = {"seqno", "ackno", "ack", "rst", "syn", "fin", "win", "payload"}
      BY Zenon DEF NewSegment, SegmentNew, m, n, k
    <3> HIDE DEF new
    <3>2. new = segs[i]
      BY <1>8 DEF new
    <3>3. /\ Numbered(t, new, i).seqno = Wrap(PlaceOf(t, i), t.isn)
          /\ Numbered(t, new, i).payload = new.payload
          /\ Numbered(t, new, i).fin = new.fin /\ Numbered(t, new, i).syn = new.syn
      BY <3>1 DEF Numbered
    <3> QED BY <2>1, <3>1, <3>2, <3>3
  <2>3. /\ a \in Nat /\ b \in Nat /\ a <= b /\ b <= k /\ (i < n => b = a + m)
        /\ (a < b \/ (SendsFin(t) /\ i = n)) /\ g \in {0, 1}
    BY <1>2, <2>1
  <2>4. g = 1 <=> (SendsFin(t) /\ i = n)
    <3>1. CASE i = n
      BY <3>1
    <3>2. CASE i # n
      BY <3>2
    <3> QED BY <3>1, <3>2
  <2>5. e.abs_seqno = next + a /\ e.abs_seqno = PlaceOf(t, i)
    BY <2>1 DEF PlaceOf, next, m
  <2>6. e.seg = Numbered(t, segs[i], i)
    BY <2>1
  <2>7. i = n => b = k
    BY <1>1, <2>1
  <2> HIDE DEF e, a, b, g, el, hi, last
  <2>8. SubSeq(t.stream.buffer, a + 1, b) = SubSeq(T, r + a + 1, r + b)
    <3>1. b <= w - r /\ r <= w
      BY <1>3, <1>4, <2>3
    <3>2. SubSeq(SubSeq(T, r + 1, w), a + 1, b) = SubSeq(T, r + a + 1, r + b)
      BY <1>4, <2>3, <3>1, PieceOfPiece, TypedText
    <3> QED BY <1>5, <3>2, Zenon
  <2>9. /\ e.seg.seqno = Wrap(e.abs_seqno, t.isn) /\ e.seg.syn = FALSE /\ e.seg.fin = (g = 1)
        /\ e.seg.payload = SubSeq(T, r + a + 1, r + b)
    BY <2>2, <2>4, <2>5, <2>6, <2>8, ZenonT(60)
  <2>10. /\ r + b <= Len(T) /\ e.abs_seqno = 1 + r + a
    BY <1>3, <1>4, <1>6, <1>7, <2>3, <2>5
  <2>11. (a < b \/ g = 1) /\ (g = 1 => r + b = Len(T))
    BY <1>7, <2>3, <2>4, <2>7
  <2>15. e \in [abs_seqno : Nat, seg : Unstamped(T)]
    <3> DEFINE payload == SubSeq(t.stream.buffer, a + 1, b)
               fin == SendsFin(t) /\ i = n
               seqno == Wrap(PlaceOf(t, i), t.isn)
    <3>1. payload \in Seq(BytesOf(T))
      <4> DEFINE f1 == r + a
                 t1 == r + b
      <4>1. f1 \in Nat /\ t1 \in Nat /\ f1 <= t1 /\ t1 <= Len(T)
        BY <1>4, <2>3, <2>10
      <4> HIDE DEF f1, t1
      <4>2. SubSeq(T, f1 + 1, t1) \in Seq(BytesOf(T))
        BY <4>1, Piece, TypedText, ZenonT(60)
      <4> QED BY <2>8, <4>2, Zenon DEF f1, t1
    <3>2. fin \in BOOLEAN /\ FALSE \in BOOLEAN
      BY Zenon
    <3>3. seqno \in WrappingInt
      <4>1. PlaceOf(t, i) \in Nat
        BY <1>6, <2>3, <2>5
      <4> QED BY <4>1, WrapType DEF Typed
    <3>4. Numbered(t, NewSegment(t, i), i) =
            [[SegmentNew EXCEPT !.payload = payload, !.fin = fin] EXCEPT !.seqno = seqno]
      BY <2>1, Zenon DEF Numbered, NewSegment, a, k, n, m
    <3> HIDE DEF payload, fin, seqno
    <3>6. [[SegmentNew EXCEPT !.payload = payload, !.fin = fin] EXCEPT !.seqno = seqno]
            \in Unstamped(T)
      BY <3>1, <3>2, <3>3, NewSegmentTyped, Zenon
    <3>5. Numbered(t, NewSegment(t, i), i) \in Unstamped(T)
      BY <3>4, <3>6, Zenon
    <3>7. e.abs_seqno \in Nat /\ e.seg \in Unstamped(T)
      BY <1>4, <1>8, <2>3, <2>6, <2>10, <3>5
    <3> QED BY <2>1, <3>7, Zenon
  <2>12. /\ InPlace(e, t.isn, T) /\ EndOf(e) = 1 + r + b + g
         /\ LengthInSequenceSpace(e.seg) = b - a + g
    <3>1. a \in Nat /\ b \in Nat /\ a <= b /\ g \in {0, 1} /\ r \in Nat
      BY <1>4, <2>3
    <3>2. IsPiece(e, t.isn, r, a, b, g, T)
      BY <3>1, <2>9, <2>10, <2>11, <2>15, TypedText DEF IsPiece
    <3> QED BY <3>2, PieceInPlace
  <2>13. EndOf(e) = next + b + g
    BY <1>6, <2>12
  <2>14. LengthInSequenceSpace(segs[i]) = LengthInSequenceSpace(e.seg)
    BY <2>2, <2>6, Zenon DEF LengthInSequenceSpace
  <2> QED BY <2>3, <2>5, <2>12, <2>13, <2>14 DEF e, a, b, g
<1>10. KeptOf(t, segs) = { el[i] : i \in 1 .. n }
  BY <1>8 DEF KeptOf
<1>11. hi[n] = k
  BY <1>1
<1> HIDE DEF el, hi
<1>12. Makes({ el[i] : i \in 1 .. n }, t.isn, next, next + k + f, T)
  <2>1. \A i \in 1 .. n :
          /\ InPlace(el[i], t.isn, T) /\ hi[i] \in Nat /\ hi[i] <= k
          /\ el[i].abs_seqno = next + (i - 1) * MaxPayloadSize
          /\ EndOf(el[i]) = next + hi[i] + (IF i = n THEN f ELSE 0)
          /\ i < n => hi[i] = (i - 1) * MaxPayloadSize + MaxPayloadSize
    BY <1>9 DEF m
  <2>2. k <= n * MaxPayloadSize
    BY <1>1 DEF m
  <2>3. CutUp(el, hi, t.isn, next, k, n, f, T)
    BY <1>1, <1>3, <1>6, <1>11, <2>1, <2>2 DEF CutUp
  <2> QED BY <2>3, PiecesMake
<1>13. After(t, segs) = next + k + f
  <2> DEFINE a == (n - 1) * m
  <2>1. n \in 1 .. n /\ last(n) = f
    BY <1>1
  <2>2. After(t, segs) = next + a + LengthInSequenceSpace(segs[n])
    BY <1>8 DEF After, PlaceOf, next, m
  <2>3. LengthInSequenceSpace(segs[n]) = k - a + f /\ a \in Nat
    BY <1>2, <1>9, <1>11, <2>1
  <2> HIDE DEF a
  <2> QED BY <1>3, <1>6, <2>2, <2>3
<1>14. \A i \in 1 .. n : next <= el[i].abs_seqno
  <2> TAKE i \in 1 .. n
  <2> DEFINE a == (i - 1) * m
  <2>1. a \in Nat /\ el[i].abs_seqno = next + a
    BY <1>2, <1>9
  <2> HIDE DEF a
  <2> QED BY <1>6, <2>1
<1>15. \A e \in KeptOf(t, segs) : next <= e.abs_seqno
  BY <1>10, <1>14
<1>16. Len(segs) \in Nat
  BY <1>1, <1>8
<1> QED BY <1>10, <1>12, <1>13, <1>15, <1>16 DEF segs, next, k

-----------------------------------------------------------------------------
\* Bytes popped from the stream are the next ones of the text.
LEMMA PopOutputDoes ==
  ASSUME NEW T, NEW t, NEW w, Typed(t, T), Queued(t, w, T), NEW k \in Nat, k <= Len(t.stream.buffer)
  PROVE  /\ PopOutput(t.stream, k) \in Streams(T)
         /\ PopOutput(t.stream, k).isInputEnded = t.stream.isInputEnded
         /\ PopOutput(t.stream, k).capacity = t.stream.capacity
         /\ PopOutput(t.stream, k).error = t.stream.error
         /\ PopOutput(t.stream, k).bytesWritten = t.stream.bytesWritten
         /\ Len(PopOutput(t.stream, k).buffer) = Len(t.stream.buffer) - k
         /\ PopOutput(t.stream, k).buffer = SubSeq(T, ReadUpTo(t, w) + k + 1, w)
<1> DEFINE b == t.stream.buffer
           r == ReadUpTo(t, w)
           u == PopOutput(t.stream, k)
<1>1. t.stream \in Streams(T) /\ b \in Seq(BytesOf(T)) /\ Len(b) \in Nat
  BY CanSendType DEF Typed
<1>2. r \in Nat /\ w \in Nat /\ r + Len(b) = w /\ w <= Len(T) /\ b = SubSeq(T, r + 1, w)
  <2>1. r \in Nat /\ w \in Nat /\ r + Len(b) = w /\ w <= Len(T)
    BY <1>1, TextFacts, TypedText DEF Queued, ReadUpTo
  <2>2. b = SubSeq(T, r + 1, w)
    BY DEF Queued
  <2> QED BY <2>1, <2>2
<1> HIDE DEF r
<1> DEFINE rest == SubSeq(b, k + 1, Len(b))
<1>3. rest = SubSeq(T, r + k + 1, w)
  <2>1. Len(b) <= w - r /\ r <= w /\ r + Len(b) = w
    BY <1>1, <1>2
  <2>2. SubSeq(SubSeq(T, r + 1, w), k + 1, Len(b)) = SubSeq(T, r + k + 1, r + Len(b))
    <3> HIDE DEF b
    <3> DEFINE l == Len(b)
    <3>1. l \in Nat /\ l <= w - r /\ k <= l
      BY <1>1, <2>1 DEF b
    <3> HIDE DEF l
    <3>2. SubSeq(SubSeq(T, r + 1, w), k + 1, l) = SubSeq(T, r + k + 1, r + l)
      BY <1>2, <2>1, <3>1, PieceOfPiece, TypedText
    <3> QED BY <3>2, Zenon DEF l
  <2> QED BY <1>2, <2>1, <2>2
<1>4. rest \in Seq(BytesOf(T)) /\ Len(rest) = Len(b) - k
  <2> DEFINE a == r + k
  <2>1. a \in Nat /\ a <= w /\ w - a = Len(b) - k
    BY <1>1, <1>2
  <2> HIDE DEF a
  <2>2. SubSeq(T, a + 1, w) \in Seq(BytesOf(T)) /\ Len(SubSeq(T, a + 1, w)) = w - a
    BY <1>2, <2>1, Piece, TypedText, ZenonT(60)
  <2> QED BY <1>3, <2>1, <2>2, Zenon DEF a
<1>5. u = [t.stream EXCEPT !.buffer = rest, !.bytesRead = (@ + k) % Modulus]
  BY DEF PopOutput
<1> HIDE DEF rest, u
<1>6. (t.stream.bytesRead + k) % Modulus \in WrappingInt
  <2>1. t.stream.bytesRead \in Int
    <3>1. t.stream.bytesRead \in WrappingInt
      BY <1>1, Zenon DEF Streams
    <3> QED BY <3>1, ModulusAssumption DEF WrappingInt
  <2> QED BY <2>1, Remainder
<1>7. /\ u \in Streams(T) /\ u.buffer = rest /\ u.isInputEnded = t.stream.isInputEnded
      /\ u.capacity = t.stream.capacity /\ u.bytesWritten = t.stream.bytesWritten
      /\ u.error = t.stream.error
  BY <1>1, <1>4, <1>5, <1>6, Zenon DEF Streams
<1> QED BY <1>3, <1>4, <1>7 DEF u, r

\* What does not change when the window is filled, and how much may be sent.
Fills(u, t) ==
  /\ u.isn = t.isn /\ u.checkpoint = t.checkpoint /\ u.rwnd = t.rwnd /\ u.syn
  /\ u.stream.isInputEnded = t.stream.isInputEnded /\ u.stream.error = t.stream.error
  /\ u.stream.capacity = t.stream.capacity
  /\ t.next_seqno <= u.next_seqno
  /\ \/ u.next_seqno = t.next_seqno
     \/ ~t.syn /\ u.next_seqno = 1
     \/ t.syn /\ u.next_seqno <= t.next_seqno + NumBytesCanSend(t)

\* The SYN.
LEMMA SynGood ==
  ASSUME NEW T, NEW t, NEW w, Good(t, w, T), ~t.syn
  PROVE  Good(FillWindow(t), w, T) /\ Fills(FillWindow(t), t)
<1> DEFINE seg == [SegmentNew EXCEPT !.syn = TRUE]
           v == SendSegments(t, <<seg>>)
           u == [v EXCEPT !.syn = TRUE]
           e == [abs_seqno |-> 0, seg |-> Numbered(t, seg, 1)]
<1>1. FillWindow(t) = u
  BY DEF FillWindow
<1>2. /\ Typed(t, T) /\ Queued(t, w, T) /\ Makes(t.in_flight, t.isn, t.checkpoint, t.next_seqno, T)
      /\ Counted(t)
  BY DEF Good
<1>3. /\ DOMAIN t = Fields /\ t.isn \in WrappingInt /\ t.stream \in Streams(T) /\ t.rwnd \in Nat
      /\ t.checkpoint \in Nat /\ t.checkpoint <= t.next_seqno
  BY <1>2 DEF Typed
<1>4. t.next_seqno = 0 /\ ReadUpTo(t, w) = 0 /\ t.fin = FALSE /\ t.in_flight = {} /\ t.checkpoint = 0
  BY <1>2, <1>3 DEF Queued, Typed
<1>5. PlaceOf(t, 1) = 0
  BY <1>4, PayloadSize DEF PlaceOf
<1>6. KeptOf(t, <<seg>>) = {e}
  <2>1. Len(<<seg>>) = 1 /\ <<seg>>[1] = seg /\ 1 .. 1 = {1}
    OBVIOUS
  <2> HIDE DEF seg
  <2>2. KeptOf(t, <<seg>>) = { [abs_seqno |-> PlaceOf(t, i), seg |-> Numbered(t, <<seg>>[i], i)] : i \in {1} }
    BY <2>1 DEF KeptOf
  <2> QED BY <1>5, <2>1, <2>2
<1>7. /\ e.abs_seqno = 0 /\ e.seg.payload = <<>> /\ e.seg.syn = TRUE /\ e.seg.fin = FALSE
      /\ e.seg.seqno = Wrap(0, t.isn) /\ seg.payload = <<>> /\ seg.syn = TRUE /\ seg.fin = FALSE
  BY <1>5, Zenon DEF Numbered, SegmentNew
<1> HIDE DEF e, seg
<1>8. LengthInSequenceSpace(e.seg) = 1 /\ LengthInSequenceSpace(seg) = 1
  BY <1>7 DEF LengthInSequenceSpace
<1>9. EndOf(e) = 1
  BY <1>7, <1>8 DEF EndOf
<1>10. After(t, <<seg>>) = 1
  BY <1>5, <1>8 DEF After
<1>11. InPlace(e, t.isn, T)
  <2>1. e.seg.payload = SubSeq(T, e.abs_seqno, e.abs_seqno + Len(e.seg.payload) - 1)
    <3>1. Len(e.seg.payload) = 0
      BY <1>7
    <3>2. e.abs_seqno + Len(e.seg.payload) - 1 = -1
      BY <1>7, <3>1
    <3>3. SubSeq(T, 0, -1) = <<>>
      OBVIOUS
    <3> QED BY <1>7, <3>2, <3>3
  <2>2. e.seg.payload \in Seq(BytesOf(T))
    BY <1>7
  <2>3. /\ e.abs_seqno \in Nat /\ e.abs_seqno < EndOf(e)
        /\ e.abs_seqno + Len(e.seg.payload) <= Len(T) + 1
    BY <1>2, <1>7, <1>9, TypedText, TextFacts
  <2>4. e.seg.seqno = Wrap(e.abs_seqno, t.isn) /\ (e.seg.syn <=> e.abs_seqno = 0)
    BY <1>7
  <2>5. (e.seg.syn => e.seg.payload = <<>> /\ ~e.seg.fin) /\ (e.seg.fin => EndOf(e) = Len(T) + 2)
    BY <1>7, Zenon
  <2>6. e \in [abs_seqno : Nat, seg : Unstamped(T)]
    <3> DEFINE seqno == Wrap(0, t.isn)
    <3>1. seqno \in WrappingInt /\ <<>> \in Seq(BytesOf(T)) /\ TRUE \in BOOLEAN /\ FALSE \in BOOLEAN
      BY <1>3, WrapType
    <3> HIDE DEF seqno
    <3>2. [[SegmentNew EXCEPT !.syn = TRUE] EXCEPT !.seqno = seqno] \in Unstamped(T)
      BY <3>1, NewSegmentTyped, Zenon
    <3>3. e.seg = [[SegmentNew EXCEPT !.syn = TRUE] EXCEPT !.seqno = seqno]
      BY <1>5, Zenon DEF e, seg, Numbered, seqno
    <3>4. e.abs_seqno \in Nat /\ e.seg \in Unstamped(T)
      BY <2>3, <3>2, <3>3, Zenon
    <3> QED BY <3>4, Zenon DEF e
  <2> QED BY <2>1, <2>2, <2>3, <2>4, <2>5, <2>6 DEF InPlace
<1>12. Makes({e}, t.isn, 0, 1, T)
  <2>1. \A p \in 0 .. (1 - 1) : e.abs_seqno <= p /\ p < EndOf(e)
    BY <1>7, <1>9
  <2> QED BY <1>9, <1>11, <2>1 DEF Makes
<1>13. /\ SameButFlight(v, t) /\ v.in_flight = {e} /\ v.next_seqno = 1
       /\ v.segments_out = t.segments_out \o SentOf(t, <<seg>>) /\ v.bytes_in_flight = 1
  <2>1. /\ SameButFlight(v, t) /\ v.in_flight = t.in_flight \cup KeptOf(t, <<seg>>)
        /\ v.next_seqno = After(t, <<seg>>)
        /\ v.segments_out = t.segments_out \o SentOf(t, <<seg>>)
        /\ v.bytes_in_flight = t.bytes_in_flight + After(t, <<seg>>) - t.next_seqno
    BY <1>3, SendSegmentsDoes
  <2>2. t.bytes_in_flight = 0
    BY <1>2, <1>4, SumFirst, Zenon DEF Counted
  <2> QED BY <1>4, <1>6, <1>10, <2>1, <2>2
<1>19. t.segments_out \o SentOf(t, <<seg>>) \in Seq(Said(t.isn, T, 1))
  <2>1. SentOf(t, <<seg>>) \in Seq(Said(t.isn, T, 1))
    <3>1. Len(<<seg>>) \in Nat /\ 1 \in Nat
      OBVIOUS
    <3>2. \A d \in KeptOf(t, <<seg>>) : InPlace(d, t.isn, T) /\ EndOf(d) <= 1
      BY <1>6, <1>9, <1>11
    <3> QED BY <1>2, <3>1, <3>2, SentSaid, TypedText, Zenon
  <2>2. t.segments_out \in Seq(Said(t.isn, T, 0))
    BY <1>4, Zenon DEF Good
  <2>3. Said(t.isn, T, 0) \subseteq Said(t.isn, T, 1)
    <3>1. 0 \in Nat /\ 1 \in Nat /\ 0 <= 1
      OBVIOUS
    <3> QED BY <3>1, SaidLater, Zenon
  <2>4. t.segments_out \in Seq(Said(t.isn, T, 1))
    BY <2>2, <2>3
  <2> QED BY <2>1, <2>4
<1> HIDE DEF v
<1>14. /\ DOMAIN u = Fields /\ u.isn = t.isn /\ u.stream = t.stream /\ u.checkpoint = 0
       /\ u.syn = TRUE /\ u.fin = FALSE /\ u.rwnd = t.rwnd /\ u.in_flight = {e} /\ u.next_seqno = 1
       /\ u.segments_out = t.segments_out \o SentOf(t, <<seg>>) /\ u.bytes_in_flight = 1
  BY <1>4, <1>13 DEF SameButFlight, Fields
<1> HIDE DEF u
<1>15. Typed(u, T)
  <2>1. u.next_seqno \in Nat /\ u.checkpoint \in Nat /\ u.checkpoint <= u.next_seqno
    BY <1>14
  <2>2. u.syn \in BOOLEAN /\ u.fin \in BOOLEAN
    BY <1>14, Zenon
  <2>3. DOMAIN u = Fields /\ u.isn \in WrappingInt /\ u.stream \in Streams(T) /\ u.rwnd \in Nat
    BY <1>3, <1>14
  <2> QED BY <1>2, <2>1, <2>2, <2>3, TypedText DEF Typed
<1>16. Queued(u, w, T)
  <2>1. ReadUpTo(u, w) = ReadUpTo(t, w)
    BY <1>14 DEF ReadUpTo
  <2> QED BY <1>2, <1>4, <1>14, <2>1 DEF Queued
<1>20. Counted(u)
  <2>4. IsFiniteSet({e})
    BY FS_Singleton, Zenon
  <2>1. IsFiniteSet({e}) /\ 0 \in Nat /\ 1 \in Nat /\ 0 <= 1
    BY <2>4
  <2>2. \A d \in {e} : 0 <= d.abs_seqno
    BY <1>7
  <2>3. TotalLength({e}) = 1 - 0
    BY <1>12, <2>1, <2>2, MakesLength, Zenon
  <2> QED BY <1>14, <2>1, <2>3 DEF Counted
<1>17. Good(u, w, T)
  BY <1>12, <1>14, <1>15, <1>16, <1>19, <1>20, Zenon DEF Good
<1>18. Fills(u, t)
  BY <1>4, <1>14 DEF Fills
<1> QED BY <1>1, <1>17, <1>18

\* Segments made from the stream.
LEMMA DataGood ==
  ASSUME NEW T, NEW t, NEW w, Good(t, w, T), t.syn, ~t.fin, NewSegments(t) # <<>>, NumBytesCanSend(t) # 0
  PROVE  Good(FillWindow(t), w, T) /\ Fills(FillWindow(t), t)
<1> DEFINE segs == NewSegments(t)
           k == TakenBy(t)
           f == IF SendsFin(t) THEN 1 ELSE 0
           v == SendSegments(t, segs)
           pop == PopOutput(t.stream, k)
           u == [v EXCEPT !.stream = PopOutput(@, k), !.fin = SendsFin(t)]
           kept == KeptOf(t, segs)
           r == ReadUpTo(t, w)
<1>1. FillWindow(t) = u
  BY DEF FillWindow, TakenBy
<1>2. /\ Typed(t, T) /\ Queued(t, w, T) /\ Makes(t.in_flight, t.isn, t.checkpoint, t.next_seqno, T)
      /\ Counted(t)
  BY DEF Good
<1>3. /\ DOMAIN t = Fields /\ t.isn \in WrappingInt /\ t.stream \in Streams(T) /\ t.rwnd \in Nat
      /\ t.checkpoint \in Nat /\ t.next_seqno \in Nat /\ t.checkpoint <= t.next_seqno
      /\ t.syn \in BOOLEAN
  BY <1>2 DEF Typed
<1>4. /\ k \in Nat /\ k <= Len(t.stream.buffer) /\ Len(t.stream.buffer) \in Nat
      /\ k <= NumBytesCanSend(t) /\ NumBytesCanSend(t) \in Nat /\ SendsFin(t) \in BOOLEAN
      /\ SendsFin(t) => k = Len(t.stream.buffer) /\ k < NumBytesCanSend(t) /\ t.stream.isInputEnded
  BY <1>2, CanSendType
<1>5. /\ pop \in Streams(T) /\ pop.isInputEnded = t.stream.isInputEnded
      /\ pop.capacity = t.stream.capacity /\ pop.error = t.stream.error /\ pop.bytesWritten = t.stream.bytesWritten
      /\ Len(pop.buffer) = Len(t.stream.buffer) - k /\ pop.buffer = SubSeq(T, r + k + 1, w)
  BY <1>2, <1>4, PopOutputDoes
<1>6. f \in {0, 1} /\ (f = 1 <=> SendsFin(t)) /\ k + f <= NumBytesCanSend(t)
  BY <1>4
<1> DEFINE end == t.next_seqno + k + f
<1> HIDE DEF f, k, segs
<1>7. /\ After(t, segs) = end /\ Len(segs) \in Nat /\ Makes(kept, t.isn, t.next_seqno, end, T)
      /\ \A e \in kept : t.next_seqno <= e.abs_seqno
  BY <1>2, <1>6, NewSegmentsMake DEF segs, k
<1>8. end \in Nat /\ t.next_seqno <= end /\ t.checkpoint <= end
  BY <1>3, <1>4, <1>6
<1> HIDE DEF end, kept
<1>9. Makes(t.in_flight \cup kept, t.isn, t.checkpoint, end, T)
  BY <1>2, <1>3, <1>7, <1>8, MakesMore
<1>10. /\ SameButFlight(v, t) /\ v.in_flight = t.in_flight \cup kept /\ v.next_seqno = end
       /\ v.segments_out = t.segments_out \o SentOf(t, segs)
       /\ v.bytes_in_flight = t.bytes_in_flight + end - t.next_seqno
  BY <1>3, <1>7, SendSegmentsDoes DEF kept
<1>19. t.segments_out \o SentOf(t, segs) \in Seq(Said(t.isn, T, end))
  <2>1. \A e \in kept : InPlace(e, t.isn, T) /\ EndOf(e) <= end
    BY <1>7, Zenon DEF Makes
  <2>2. SentOf(t, segs) \in Seq(Said(t.isn, T, end))
    BY <1>2, <1>7, <1>8, <2>1, SentSaid, TypedText, Zenon DEF kept
  <2> DEFINE sofar == Said(t.isn, T, t.next_seqno)
             now == Said(t.isn, T, end)
  <2>3. t.segments_out \in Seq(sofar)
    BY Zenon DEF Good
  <2>4. sofar \subseteq now
    BY <1>3, <1>8, SaidLater, ZenonT(60)
  <2> HIDE DEF sofar, now
  <2>5. t.segments_out \in Seq(now)
    BY <2>3, <2>4
  <2> QED BY <2>2, <2>5 DEF now
<1>20. /\ IsFiniteSet(t.in_flight \cup kept)
       /\ TotalLength(t.in_flight \cup kept) = t.bytes_in_flight + end - t.next_seqno
  <2>1. IsFiniteSet(kept) /\ IsFiniteSet(t.in_flight) /\ t.bytes_in_flight = TotalLength(t.in_flight)
    BY <1>2, <1>7, KeptFinite, Zenon DEF Counted, kept
  <2>2. TotalLength(kept) = end - t.next_seqno
    BY <1>3, <1>7, <1>8, <2>1, MakesLength
  <2>3. Sized(kept) /\ Sized(t.in_flight)
    BY <1>2, <1>7, MakesSized, Zenon
  <2>4. t.in_flight \cap kept = {}
    <3> SUFFICES ASSUME NEW e \in t.in_flight, e \in kept PROVE FALSE
      BY Zenon
    <3>1. InPlace(e, t.isn, T) /\ EndOf(e) <= t.next_seqno /\ t.next_seqno <= e.abs_seqno
      BY <1>2, <1>7, Zenon DEF Makes
    <3>2. e.abs_seqno < EndOf(e) /\ e.abs_seqno \in Nat /\ EndOf(e) \in Nat
      BY <3>1, EndOfType, Zenon DEF InPlace
    <3> QED BY <1>3, <3>1, <3>2
  <2>5. TotalLength(t.in_flight \cup kept) = TotalLength(t.in_flight) + TotalLength(kept)
    BY <2>1, <2>3, <2>4, SumUnion, Zenon
  <2>6. TotalLength(t.in_flight) \in Nat
    BY <2>1, <2>3, SumType, Zenon
  <2>7. IsFiniteSet(t.in_flight \cup kept)
    BY <2>1, FS_Union, Zenon
  <2> QED BY <1>3, <1>8, <2>1, <2>2, <2>5, <2>6, <2>7
<1> HIDE DEF v, pop
<1>11. /\ DOMAIN u = Fields /\ u.isn = t.isn /\ u.stream = pop /\ u.checkpoint = t.checkpoint
       /\ u.syn = t.syn /\ u.fin = SendsFin(t) /\ u.rwnd = t.rwnd
       /\ u.in_flight = t.in_flight \cup kept /\ u.next_seqno = end
       /\ u.segments_out = t.segments_out \o SentOf(t, segs)
       /\ u.bytes_in_flight = t.bytes_in_flight + end - t.next_seqno
  BY <1>10, Zenon DEF SameButFlight, Fields, pop
<1> HIDE DEF u
<1>12. Typed(u, T)
  <2>1. u.next_seqno \in Nat /\ u.checkpoint \in Nat /\ u.checkpoint <= u.next_seqno
    BY <1>3, <1>8, <1>11
  <2>2. u.syn \in BOOLEAN /\ u.fin \in BOOLEAN
    BY <1>3, <1>4, <1>11
  <2>3. DOMAIN u = Fields /\ u.isn \in WrappingInt /\ u.stream \in Streams(T) /\ u.rwnd \in Nat
    BY <1>3, <1>5, <1>11
  <2>4. IsText(T)
    BY <1>2, TypedText
  <2> QED BY <2>1, <2>2, <2>3, <2>4 DEF Typed
<1>13. /\ w \in 0 .. Len(T) /\ Len(t.stream.buffer) <= w /\ Len(t.stream.buffer) <= t.stream.capacity
       /\ t.stream.bytesWritten = w % Modulus
       /\ t.stream.isInputEnded => w = Len(T)
       /\ r = w - Len(t.stream.buffer)
  BY <1>2 DEF Queued, ReadUpTo
<1>14. t.next_seqno = 1 + r
  <2>1. t.next_seqno = 1 + r + (IF t.fin THEN 1 ELSE 0)
    BY <1>2 DEF Queued
  <2>2. r \in Int
    BY <1>4, <1>13, TextFacts, TypedText
  <2> HIDE DEF r
  <2> QED BY <2>1, <2>2
<1>15. Len(T) \in Nat /\ t.stream.capacity \in Nat
  <2>1. t.stream.capacity \in Nat
    BY <1>3, ZenonT(60) DEF Streams
  <2> QED BY <1>2, <2>1, TypedText, TextFacts
<1> DEFINE cap == t.stream.capacity
<1> HIDE DEF r
<1>16. Queued(u, w, T)
  <2> DEFINE l == Len(t.stream.buffer)
  <2>1. Len(u.stream.buffer) = l - k
    BY <1>5, <1>11, ZenonT(60)
  <2>2. /\ l \in Nat /\ l <= w /\ l <= cap /\ r = w - l /\ k <= l
        /\ k \in Nat /\ w \in Nat /\ cap \in Nat
    BY <1>4, <1>13, <1>15
  <2>10. u.stream.capacity = cap /\ u.stream.bytesWritten = w % Modulus
    BY <1>5, <1>11, <1>13
  <2> HIDE DEF l, cap
  <2>3. /\ w - (l - k) = r + k /\ l - k <= w /\ l - k <= cap
    BY <2>2
  <2>4. /\ ReadUpTo(u, w) = r + k /\ Len(u.stream.buffer) <= w
        /\ Len(u.stream.buffer) <= u.stream.capacity
    BY <2>1, <2>3, <2>10 DEF ReadUpTo
  <2>5. u.stream.buffer = SubSeq(T, ReadUpTo(u, w) + 1, w)
    BY <1>5, <1>11, <2>4
  <2>6. u.syn => u.next_seqno = 1 + ReadUpTo(u, w) + (IF u.fin THEN 1 ELSE 0)
    <3>1. end = 1 + (r + k) + f
      BY <1>4, <1>6, <1>13, <1>14, <1>15 DEF end
    <3> QED BY <1>11, <2>4, <3>1 DEF f
  <2>7. u.syn
    BY <1>11
  <2>8. u.stream.isInputEnded => w = Len(T)
    BY <1>5, <1>11, <1>13
  <2>9. u.fin => u.stream.isInputEnded /\ u.stream.buffer = <<>>
    <3> SUFFICES ASSUME u.fin PROVE u.stream.isInputEnded /\ u.stream.buffer = <<>>
      OBVIOUS
    <3>1. SendsFin(t) /\ Len(pop.buffer) = 0
      BY <1>4, <1>5, <1>11
    <3>2. pop.buffer \in Seq(BytesOf(T))
      BY <1>5, Zenon DEF Streams
    <3>3. pop.buffer = <<>>
      BY <3>1, <3>2
    <3> QED BY <1>4, <1>5, <1>11, <3>1, <3>3
  <2> QED BY <1>13, <2>4, <2>5, <2>6, <2>7, <2>8, <2>9, <2>10, Zenon DEF Queued
<1>17. Good(u, w, T)
  <2>1. Counted(u)
    BY <1>11, <1>20, ZenonT(60) DEF Counted
  <2> QED BY <1>9, <1>11, <1>12, <1>16, <1>19, <2>1, Zenon DEF Good
<1>18. Fills(u, t)
  <2>1. end <= t.next_seqno + NumBytesCanSend(t)
    BY <1>3, <1>4, <1>6 DEF end
  <2> QED BY <1>5, <1>8, <1>11, <2>1 DEF Fills
<1> QED BY <1>1, <1>17, <1>18

\* fill_window() keeps the invariant.
LEMMA FillWindowGood ==
  ASSUME NEW T, NEW t, NEW w, Good(t, w, T)
  PROVE  Good(FillWindow(t), w, T) /\ Fills(FillWindow(t), t)
<1>1. CASE ~t.syn
  BY <1>1, SynGood
<1>2. CASE t.syn /\ (t.fin \/ NumBytesCanSend(t) = 0 \/ NewSegments(t) = <<>>)
  <2>1. FillWindow(t) = t
    BY <1>2 DEF FillWindow
  <2>2. t.next_seqno \in Nat
    BY DEF Good, Typed
  <2> QED BY <1>2, <2>1, <2>2 DEF Fills
<1>3. CASE t.syn /\ ~t.fin /\ NumBytesCanSend(t) # 0 /\ NewSegments(t) # <<>>
  BY <1>3, DataGood
<1> QED BY <1>1, <1>2, <1>3

-----------------------------------------------------------------------------
\* A sender that differs only in what the invariant does not speak of.
Alike(u, t) ==
  /\ SameButFlight(u, t) /\ u.in_flight = t.in_flight /\ u.next_seqno = t.next_seqno
  /\ u.bytes_in_flight = t.bytes_in_flight

\* A sender stays good when only the segments it sends and its timer change.
LEMMA AlikeGood ==
  ASSUME NEW T, NEW t, NEW u, NEW w, Good(t, w, T), Alike(u, t),
         u.segments_out \in Seq(Said(t.isn, T, t.next_seqno))
  PROVE  Good(u, w, T)
<1>1. Typed(u, T)
  BY DEF Good, Typed, Alike, SameButFlight
<1>2. Queued(u, w, T)
  <2>1. ReadUpTo(u, w) = ReadUpTo(t, w)
    BY DEF Alike, SameButFlight, ReadUpTo
  <2> QED BY <2>1, Zenon DEF Good, Queued, Alike, SameButFlight
<1>3. Makes(u.in_flight, u.isn, u.checkpoint, u.next_seqno, T)
  BY DEF Good, Alike, SameButFlight
<1>4. Counted(u)
  BY DEF Good, Counted, Alike
<1> QED BY <1>1, <1>2, <1>3, <1>4, ZenonT(60) DEF Good, Alike, SameButFlight

\* The sender to which an acknowledgment of everything before ackno has just
\* been applied.
Applied(u, t, ackno, win) ==
  /\ DOMAIN u = Fields /\ u.isn = t.isn /\ u.stream = t.stream /\ u.checkpoint = ackno
  /\ u.syn = t.syn /\ u.fin = t.fin /\ u.rwnd = win /\ u.next_seqno = t.next_seqno
  /\ u.in_flight = t.in_flight \ Acknowledged(t, ackno) /\ u.segments_out = t.segments_out
  /\ u.bytes_in_flight = t.bytes_in_flight - TotalLength(Acknowledged(t, ackno))

\* A sender stays good when it drops what is acknowledged.
LEMMA AppliedGood ==
  ASSUME NEW T, NEW t, NEW u, NEW w, NEW ackno \in Nat, NEW win \in Nat, Good(t, w, T),
         t.checkpoint < ackno, ackno <= t.next_seqno, Applied(u, t, ackno, win)
  PROVE  Good(u, w, T)
<1>1. /\ Typed(t, T) /\ Queued(t, w, T) /\ Makes(t.in_flight, t.isn, t.checkpoint, t.next_seqno, T)
      /\ t.checkpoint \in Nat /\ t.next_seqno \in Nat
  BY DEF Good, Typed
<1>2. Typed(u, T)
  BY <1>1 DEF Typed, Applied
<1>3. Queued(u, w, T)
  <2>1. ReadUpTo(u, w) = ReadUpTo(t, w)
    BY DEF Applied, ReadUpTo
  <2>2. t.next_seqno # 0
    BY <1>1
  <2>3. t.syn
    BY <1>1, <2>2 DEF Queued
  <2> QED BY <1>1, <2>1, <2>3, Zenon DEF Queued, Applied
<1>4. Makes(t.in_flight \ Acknowledged(t, ackno), t.isn, ackno, t.next_seqno, T)
  <2>1. t.checkpoint <= ackno
    BY <1>1
  <2> QED BY <1>1, <2>1, MakesLess, Zenon
<1>5. Counted(u)
  <2> DEFINE gone == Acknowledged(t, ackno)
             left == t.in_flight \ gone
  <2>1. /\ gone \subseteq t.in_flight /\ IsFiniteSet(t.in_flight)
        /\ t.bytes_in_flight = TotalLength(t.in_flight) /\ Sized(t.in_flight)
    BY <1>1, MakesSized DEF Acknowledged, Good, Counted
  <2>2. u.in_flight = left /\ u.bytes_in_flight = t.bytes_in_flight - TotalLength(gone)
    BY DEF Applied
  <2>3. Sized(gone) /\ Sized(left)
    BY <2>1 DEF Sized
  <2> HIDE DEF gone
  <2>4. gone \cap left = {} /\ gone \cup left = t.in_flight
    BY <2>1
  <2>5. IsFiniteSet(gone) /\ IsFiniteSet(left)
    BY <2>1, <2>4, FS_Subset, Zenon
  <2> HIDE DEF left
  <2>6. TotalLength(gone \cup left) = TotalLength(gone) + TotalLength(left)
    BY <2>3, <2>4, <2>5, SumUnion, Zenon
  <2>7. TotalLength(gone) \in Nat /\ TotalLength(left) \in Nat
    BY <2>3, <2>5, SumType, ZenonT(60)
  <2>8. TotalLength(t.in_flight) = TotalLength(gone) + TotalLength(left)
    BY <2>4, <2>6, Zenon
  <2>9. u.bytes_in_flight = TotalLength(left)
    BY <2>1, <2>2, <2>7, <2>8
  <2> QED BY <2>2, <2>5, <2>9, ZenonT(60) DEF Counted
<1>6. u.segments_out \in Seq(Said(u.isn, T, u.next_seqno))
  BY DEF Good, Applied
<1> QED BY <1>2, <1>3, <1>4, <1>5, <1>6, Zenon DEF Good, Applied

\* The sender that has taken the window only.
Opened(u, t, win) ==
  /\ DOMAIN u = Fields /\ u.isn = t.isn /\ u.stream = t.stream /\ u.checkpoint = t.checkpoint
  /\ u.syn = t.syn /\ u.fin = t.fin /\ u.rwnd = win /\ u.next_seqno = t.next_seqno
  /\ u.in_flight = t.in_flight /\ u.segments_out = t.segments_out
  /\ u.bytes_in_flight = t.bytes_in_flight

\* What ack_received() does: it takes the window from the acknowledgment; if the
\* acknowledgment is new it applies it and fills the window.
LEMMA AckReceivedDoes ==
  ASSUME NEW T, NEW t, NEW w, NEW ackno \in WrappingInt, NEW win \in Nat, Good(t, w, T)
  PROVE  LET abs == Unwrap(ackno, t.isn, t.checkpoint)
             u == AckReceived(t, ackno, win)
         IN  /\ abs \in Nat /\ Good(u, w, T) /\ u.isn = t.isn
             /\ ~AckIsNew(t, abs) => Opened(u, t, win)
             /\ AckIsNew(t, abs) =>
                  \E v : Good(v, w, T) /\ Applied(v, t, abs, win) /\ u = FillWindow(v) /\ Fills(u, v)
<1> DEFINE abs == Unwrap(ackno, t.isn, t.checkpoint)
           u == AckReceived(t, ackno, win)
           opened == [t EXCEPT !.rwnd = win]
           moved == [opened EXCEPT !.checkpoint = abs]
           left == RemoveAcknowledged(moved, abs)
           reset == [left EXCEPT !.rto = InitialRTO, !.n_consecutive = 0]
           v == IF reset.in_flight = {} THEN reset
                ELSE [reset EXCEPT !.time_spent = 0, !.is_timer_running = TRUE]
<1>1. u = IF ~AckIsNew(t, abs) THEN opened ELSE FillWindow(v)
  BY DEF AckReceived
<1>2. /\ Typed(t, T) /\ Queued(t, w, T) /\ Makes(t.in_flight, t.isn, t.checkpoint, t.next_seqno, T)
      /\ t.checkpoint \in Nat /\ t.next_seqno \in Nat /\ t.isn \in WrappingInt /\ DOMAIN t = Fields
  BY DEF Good, Typed
<1>3. abs \in Nat
  BY <1>2, UnwrapType
<1> HIDE DEF abs
<1>4. Opened(opened, t, win)
  BY <1>2 DEF Opened, Fields
<1>5. Good(opened, w, T)
  <2> HIDE DEF opened
  <2>1. Typed(opened, T)
    BY <1>2, <1>4 DEF Typed, Opened
  <2>2. ReadUpTo(opened, w) = ReadUpTo(t, w)
    BY <1>4 DEF ReadUpTo, Opened
  <2>3. Queued(opened, w, T)
    BY <1>2, <1>4, <2>2, ZenonT(60) DEF Queued, Opened
  <2>4. Counted(opened)
    BY <1>4 DEF Good, Counted, Opened
  <2> QED BY <1>2, <1>4, <2>1, <2>3, <2>4, Zenon DEF Good, Opened
<1>6. CASE ~AckIsNew(t, abs)
  <2>1. u = opened
    BY <1>1, <1>6, Zenon
  <2> HIDE DEF u, opened
  <2>2. u.isn = t.isn
    BY <1>4, <2>1, ZenonT(60) DEF Opened
  <2> QED BY <1>3, <1>4, <1>5, <1>6, <2>1, <2>2, Zenon DEF abs, u
<1>7. CASE AckIsNew(t, abs)
  <2>1. u = FillWindow(v)
    BY <1>1, <1>7
  <2> HIDE DEF u
  <2>2. /\ DOMAIN moved = Fields /\ moved.isn = t.isn /\ moved.stream = t.stream
        /\ moved.checkpoint = abs /\ moved.syn = t.syn /\ moved.fin = t.fin
        /\ moved.rwnd = win /\ moved.next_seqno = t.next_seqno /\ moved.in_flight = t.in_flight
        /\ moved.segments_out = t.segments_out /\ moved.bytes_in_flight = t.bytes_in_flight
    <3> HIDE DEF opened
    <3> QED BY <1>4 DEF Fields, Opened
  <2> HIDE DEF moved, opened
  <2>3. Acknowledged(moved, abs) = Acknowledged(t, abs)
    BY <2>2 DEF Acknowledged
  <2>4. Applied(left, t, abs, win)
    BY <2>2, <2>3 DEF RemoveAcknowledged, Applied, Fields
  <2> HIDE DEF left
  <2>5. Applied(reset, t, abs, win)
    BY <2>4 DEF Applied, Fields
  <2> HIDE DEF reset
  <2>6. Applied(v, t, abs, win)
    BY <2>5 DEF Applied, Fields
  <2> HIDE DEF v
  <2>7. Good(v, w, T)
    <3>1. t.checkpoint < abs /\ abs <= t.next_seqno
      BY <1>2, <1>3, <1>7 DEF AckIsNew
    <3> QED BY <1>3, <2>6, <3>1, AppliedGood, ZenonT(60)
  <2>8. Good(u, w, T) /\ Fills(u, v)
    BY <2>1, <2>7, FillWindowGood, Zenon
  <2>9. u.isn = t.isn
    BY <2>6, <2>8, Zenon DEF Fills, Applied
  <2> QED BY <1>3, <1>7, <2>1, <2>6, <2>7, <2>8, <2>9, Zenon DEF abs, u
<1> QED BY <1>6, <1>7, Zenon

-----------------------------------------------------------------------------
\* What the other operations do to a sender.

\* u differs from t at most in its stream.
Keeps(u, t) ==
  /\ DOMAIN u = Fields /\ u.isn = t.isn /\ u.next_seqno = t.next_seqno
  /\ u.in_flight = t.in_flight /\ u.syn = t.syn /\ u.fin = t.fin /\ u.rwnd = t.rwnd
  /\ u.checkpoint = t.checkpoint /\ u.segments_out = t.segments_out
  /\ u.bytes_in_flight = t.bytes_in_flight

\* No position exceeds the one after FIN.
LEMMA NextBounded ==
  ASSUME NEW T, NEW t, NEW w, Good(t, w, T)
  PROVE  t.next_seqno \in 0 .. (Len(T) + 2) /\ t.checkpoint \in 0 .. t.next_seqno
<1> DEFINE l == Len(t.stream.buffer)
           f == IF t.fin THEN 1 ELSE 0
<1>1. /\ Typed(t, T) /\ Queued(t, w, T)
      /\ t.next_seqno \in Nat /\ t.checkpoint \in Nat /\ t.checkpoint <= t.next_seqno
  BY DEF Good, Typed
<1>2. l \in Nat /\ Len(T) \in Nat /\ w \in 0 .. Len(T) /\ l <= w /\ f \in {0, 1}
  BY <1>1, CanSendType, TextFacts, TypedText, Zenon DEF Queued
<1>3. t.next_seqno = 0 \/ t.next_seqno = 1 + (w - l) + f
  BY <1>1, Zenon DEF Queued, ReadUpTo
<1> HIDE DEF l, f
<1> QED BY <1>1, <1>2, <1>3

\* The constructor.
LEMMA NewGood ==
  ASSUME NEW T, IsText(T), NEW cap \in Nat, NEW isn \in WrappingInt, NEW t, t = SenderNew(cap, isn)
  PROVE  Good(t, 0, T)
<1>1. /\ DOMAIN t = Fields /\ t.isn = isn /\ t.stream = StreamNew(cap) /\ t.next_seqno = 0
      /\ t.in_flight = {} /\ t.syn = FALSE /\ t.fin = FALSE /\ t.rwnd = 1 /\ t.checkpoint = 0
      /\ t.segments_out = <<>> /\ t.bytes_in_flight = 0
  BY DEF SenderNew, Fields
<1>2. /\ StreamNew(cap) \in Streams(T) /\ StreamNew(cap).buffer = <<>>
      /\ ~StreamNew(cap).isInputEnded /\ StreamNew(cap).capacity = cap
      /\ StreamNew(cap).bytesWritten = 0
  <2>1. 0 \in WrappingInt
    BY ModulusAssumption DEF WrappingInt
  <2> QED BY <2>1 DEF StreamNew, Streams
<1>3. Typed(t, T)
  <2>1. t.next_seqno \in Nat /\ t.checkpoint \in Nat /\ t.checkpoint <= t.next_seqno /\ t.rwnd \in Nat
    BY <1>1
  <2>2. t.syn \in BOOLEAN /\ t.fin \in BOOLEAN
    BY <1>1, Zenon
  <2> QED BY <1>1, <1>2, <2>1, <2>2 DEF Typed
<1>4. Queued(t, 0, T)
  <2>1. Len(t.stream.buffer) = 0
    BY <1>1, <1>2
  <2>2. ReadUpTo(t, 0) = 0
    BY <2>1 DEF ReadUpTo
  <2>3. SubSeq(T, ReadUpTo(t, 0) + 1, 0) = <<>>
    <3>1. SubSeq(T, 1, 0) = <<>>
      OBVIOUS
    <3> QED BY <2>2, <3>1
  <2>4. /\ 0 \in 0 .. Len(T) /\ Len(t.stream.buffer) <= 0
        /\ Len(t.stream.buffer) <= t.stream.capacity
    BY <1>1, <1>2, <2>1, TextFacts
  <2>5. ~t.syn /\ ~t.fin /\ ~t.stream.isInputEnded /\ t.stream.buffer = <<>>
    BY <1>1, <1>2
  <2>6. t.stream.bytesWritten = 0 % Modulus
    BY <1>1, <1>2, ModulusAssumption
  <2> QED BY <1>1, <2>2, <2>3, <2>4, <2>5, <2>6 DEF Queued
<1>5. Makes({}, t.isn, 0, 0, T)
  <2>1. 0 .. (0 - 1) = {}
    OBVIOUS
  <2> QED BY <2>1 DEF Makes
<1>6. t.segments_out \in Seq(Said(t.isn, T, t.next_seqno))
  BY <1>1
<1>7. Counted(t)
  BY <1>1, SumFirst, FS_EmptySet, Zenon DEF Counted
<1> QED BY <1>1, <1>3, <1>4, <1>5, <1>6, <1>7, ZenonT(60) DEF Good

\* The streams of t and u have the same flags and capacity.
SameFlags(u, t) ==
  /\ u.stream.capacity = t.stream.capacity /\ u.stream.error = t.stream.error
  /\ u.stream.isInputEnded = t.stream.isInputEnded

\* The application writes: what fits goes behind what is there.
LEMMA WrittenGood ==
  ASSUME NEW T, NEW t, NEW w, Good(t, w, T), ~t.stream.isInputEnded,
         NEW len \in Nat, w + len <= Len(T),
         NEW u, u = [t EXCEPT !.stream = StreamWrite(t.stream, SubSeq(T, w + 1, w + len))]
  PROVE  /\ Good(u, w + Len(u.stream.buffer) - Len(t.stream.buffer), T) /\ Keeps(u, t)
         /\ SameFlags(u, t)
<1> DEFINE b == t.stream.buffer
           data == SubSeq(T, w + 1, w + len)
           k == Minimum(Len(data), RemainingCapacity(t.stream))
           stream == StreamWrite(t.stream, data)
           l == Len(b)
           cap == t.stream.capacity
           r == ReadUpTo(t, w)
<1>1. /\ w + len <= Len(T) /\ ~t.stream.isInputEnded /\ u = [t EXCEPT !.stream = stream]
  OBVIOUS
<1>2. Typed(t, T) /\ Queued(t, w, T) /\ Makes(t.in_flight, t.isn, t.checkpoint, t.next_seqno, T)
  BY DEF Good
<1>3. /\ DOMAIN t = Fields /\ t.isn \in WrappingInt /\ t.stream \in Streams(T) /\ t.rwnd \in Nat
      /\ t.next_seqno \in Nat /\ t.checkpoint \in Nat /\ t.checkpoint <= t.next_seqno
      /\ t.syn \in BOOLEAN /\ t.fin \in BOOLEAN
  BY <1>2 DEF Typed
<1>4. /\ b \in Seq(BytesOf(T)) /\ l \in Nat /\ cap \in Nat
      /\ Len(T) \in Nat
  BY <1>2, <1>3, CanSendType, TypedText, TextFacts, Zenon DEF Streams
<1>5. w \in Nat /\ w <= Len(T) /\ l <= w /\ l <= cap /\ r = w - l
  BY <1>2, <1>4 DEF Queued, ReadUpTo
<1>6. b = SubSeq(T, r + 1, w)
  BY <1>2 DEF Queued
<1>7. len \in Nat /\ w + len \in Nat /\ data \in Seq(BytesOf(T)) /\ Len(data) = len
  <2> DEFINE to == w + len
  <2>1. to \in Nat /\ w <= to /\ to <= Len(T) /\ to - w = len /\ len \in Nat
    BY <1>1, <1>4, <1>5
  <2> HIDE DEF to
  <2>2. SubSeq(T, w + 1, to) \in Seq(BytesOf(T)) /\ Len(SubSeq(T, w + 1, to)) = to - w
    BY <1>5, <2>1, Piece, <1>2, TypedText, Zenon
  <2> QED BY <2>1, <2>2 DEF to
<1>8. k \in Nat /\ k <= len /\ l + k <= cap
  <2>1. k = IF len <= cap - l THEN len ELSE cap - l
    BY <1>4, <1>7 DEF Minimum, RemainingCapacity
  <2> HIDE DEF k, l
  <2>2. l \in Nat /\ l <= cap /\ cap \in Nat /\ len \in Nat
    BY <1>4, <1>5, <1>7
  <2> QED BY <2>1, <2>2
<1>9. w + len <= Len(T)
  BY <1>1
<1> DEFINE more == SubSeq(data, 1, k)
<1>10. stream = [t.stream EXCEPT !.buffer = @ \o more, !.bytesWritten = (@ + k) % Modulus]
  BY DEF StreamWrite
<1> HIDE DEF stream, k, l, r, cap
<1>11. more = SubSeq(T, w + 1, w + k)
  <2> DEFINE to == w + len
  <2>1. to \in Nat /\ w <= to /\ to <= Len(T) /\ k <= to - w /\ 0 <= k
    BY <1>5, <1>7, <1>8, <1>9
  <2>2. data = SubSeq(T, w + 1, to)
    OBVIOUS
  <2> HIDE DEF to, data
  <2>3. SubSeq(SubSeq(T, w + 1, to), 0 + 1, k) = SubSeq(T, w + 0 + 1, w + k)
    BY <1>5, <1>8, <2>1, PieceOfPiece, <1>2, TypedText, SMTT(60)
  <2>4. w + 0 + 1 = w + 1 /\ 0 + 1 = 1
    BY <1>5
  <2> QED BY <2>2, <2>3, <2>4, Zenon
<1> DEFINE whole == b \o more
           v == w + k
<1>12. /\ whole = SubSeq(T, r + 1, v) /\ whole \in Seq(BytesOf(T)) /\ Len(whole) = l + k
       /\ v \in Nat /\ v <= Len(T) /\ r \in Nat
  <2>1. v \in Nat /\ w <= v /\ v <= Len(T) /\ r \in Nat /\ r <= w /\ v - r = l + k /\ r <= v
    <3>1. /\ w \in Nat /\ l \in Nat /\ k \in Nat /\ len \in Nat /\ k <= len /\ w + len <= Len(T)
          /\ r = w - l /\ l <= w /\ Len(T) \in Nat
      BY <1>4, <1>5, <1>7, <1>8, <1>9
    <3> QED BY <3>1
  <2>2. more = SubSeq(T, w + 1, v)
    BY <1>11, Zenon
  <2> HIDE DEF v, more, b, data
  <2>3. SubSeq(T, r + 1, w) \o SubSeq(T, w + 1, v) = SubSeq(T, r + 1, v)
    BY <1>5, <2>1, PieceAndPiece, <1>2, TypedText, ZenonT(60)
  <2>4. SubSeq(T, r + 1, v) \in Seq(BytesOf(T)) /\ Len(SubSeq(T, r + 1, v)) = v - r
    BY <2>1, Piece, <1>2, TypedText
  <2>5. whole = SubSeq(T, r + 1, v)
    BY <1>6, <2>2, <2>3, Zenon
  <2> QED BY <2>1, <2>4, <2>5
<1> HIDE DEF data, more
<1>13. /\ stream \in Streams(T) /\ stream.buffer = whole /\ stream.isInputEnded = t.stream.isInputEnded
       /\ stream.bytesWritten = v % Modulus /\ stream.capacity = cap /\ stream.error = t.stream.error
  <2>1. (t.stream.bytesWritten + k) % Modulus \in WrappingInt
    <3>1. t.stream.bytesWritten \in WrappingInt
      BY <1>3, Zenon DEF Streams
    <3>2. t.stream.bytesWritten \in Int
      BY <3>1, ModulusAssumption DEF WrappingInt
    <3> QED BY <1>8, <3>2, Remainder
  <2>2. (t.stream.bytesWritten + k) % Modulus = v % Modulus
    <3>1. t.stream.bytesWritten = w % Modulus
      BY <1>2 DEF Queued
    <3>2. w \in Int /\ k \in Int
      BY <1>5, <1>8
    <3> QED BY <3>1, <3>2, CountedAround DEF v
  <2>3. /\ stream \in Streams(T) /\ stream.buffer = whole /\ stream.isInputEnded = t.stream.isInputEnded
        /\ stream.bytesWritten = (t.stream.bytesWritten + k) % Modulus /\ stream.capacity = t.stream.capacity
        /\ stream.error = t.stream.error
    BY <1>3, <1>10, <1>12, <2>1, ZenonT(60) DEF Streams
  <2> QED BY <2>2, <2>3, Zenon DEF cap
<1> HIDE DEF whole
<1>14. /\ DOMAIN u = Fields /\ u.isn = t.isn /\ u.stream = stream /\ u.next_seqno = t.next_seqno
       /\ u.in_flight = t.in_flight /\ u.syn = t.syn /\ u.fin = t.fin /\ u.rwnd = t.rwnd
       /\ u.checkpoint = t.checkpoint /\ u.segments_out = t.segments_out
       /\ u.bytes_in_flight = t.bytes_in_flight
  BY <1>1, <1>3 DEF Fields
<1>15. Len(u.stream.buffer) = l + k /\ v = w + Len(u.stream.buffer) - l
  <2>1. Len(u.stream.buffer) = l + k
    BY <1>12, <1>13, <1>14
  <2>2. w \in Nat /\ l \in Nat /\ k \in Nat
    BY <1>4, <1>5, <1>8 DEF l
  <2>3. v = w + (l + k) - l
    BY <2>2
  <2> QED BY <2>1, <2>3
<1>16. Typed(u, T)
  BY <1>2, <1>3, <1>13, <1>14 DEF Typed
<1> HIDE DEF v
<1>17. Queued(u, v, T)
  <2>1. ReadUpTo(u, v) = r
    <3>1. ReadUpTo(u, v) = v - (l + k)
      BY <1>15 DEF ReadUpTo
    <3> QED BY <1>4, <1>5, <1>8, <3>1 DEF l, v
  <2>2. u.stream.buffer = SubSeq(T, ReadUpTo(u, v) + 1, v)
    BY <1>12, <1>13, <1>14, <2>1, ZenonT(60)
  <2>3. v \in 0 .. Len(T) /\ Len(u.stream.buffer) <= v /\ Len(u.stream.buffer) <= u.stream.capacity
    <3>1. v \in 0 .. Len(T) /\ l + k <= v
      BY <1>4, <1>5, <1>8, <1>12 DEF l, v
    <3> QED BY <1>8, <1>13, <1>14, <1>15, <3>1
  <2>4. ~u.stream.isInputEnded /\ ~u.fin /\ u.stream.bytesWritten = v % Modulus
    BY <1>1, <1>2, <1>13, <1>14 DEF Queued
  <2>5. ReadUpTo(u, v) = ReadUpTo(t, w)
    BY <2>1 DEF r
  <2>6. /\ u.syn => u.next_seqno = 1 + ReadUpTo(u, v) + (IF u.fin THEN 1 ELSE 0)
        /\ ~u.syn => u.next_seqno = 0 /\ ReadUpTo(u, v) = 0 /\ ~u.fin /\ u.in_flight = {}
    BY <1>2, <1>14, <2>5 DEF Queued
  <2> QED BY <2>2, <2>3, <2>4, <2>6, Zenon DEF Queued
<1>18. Good(u, v, T)
  <2>1. Counted(u)
    BY <1>14 DEF Good, Counted
  <2> QED BY <1>2, <1>14, <1>16, <1>17, <2>1, ZenonT(60) DEF Good
<1>19. Keeps(u, t) /\ Good(u, w + Len(u.stream.buffer) - Len(t.stream.buffer), T)
  BY <1>14, <1>15, <1>18, ZenonT(60) DEF Keeps, l, b
<1> QED BY <1>13, <1>14, <1>19, Zenon DEF cap, SameFlags

\* The application ends the stream when everything is written, or the connection
\* marks it as broken.
LEMMA MarkedGood ==
  ASSUME NEW T, NEW t, NEW w, Good(t, w, T), NEW stream, NEW u, u = [t EXCEPT !.stream = stream],
         stream = SetError(t.stream) \/ (stream = EndInput(t.stream) /\ w = Len(T))
  PROVE  Good(u, w, T) /\ Keeps(u, t) /\ u.stream = stream
<1>1. Typed(t, T) /\ Queued(t, w, T) /\ Makes(t.in_flight, t.isn, t.checkpoint, t.next_seqno, T)
  BY DEF Good
<1>2. DOMAIN t = Fields /\ t.stream \in Streams(T)
  BY <1>1 DEF Typed
<1>3. /\ stream \in Streams(T) /\ stream.buffer = t.stream.buffer
      /\ stream.capacity = t.stream.capacity /\ stream.bytesWritten = t.stream.bytesWritten
      /\ stream.isInputEnded = t.stream.isInputEnded \/ (stream.isInputEnded /\ w = Len(T))
  BY <1>2, Zenon DEF EndInput, SetError, Streams
<1>4. Keeps(u, t) /\ u.stream = stream
  BY <1>2 DEF Keeps, Fields
<1>5. Typed(u, T)
  BY <1>1, <1>3, <1>4 DEF Typed, Keeps
<1>6. Queued(u, w, T)
  <2>1. ReadUpTo(u, w) = ReadUpTo(t, w)
    BY <1>3, <1>4 DEF ReadUpTo
  <2> QED BY <1>1, <1>3, <1>4, <2>1, Zenon DEF Queued, Keeps
<1>7. Counted(u)
  BY <1>4 DEF Good, Counted, Keeps
<1> QED BY <1>1, <1>4, <1>5, <1>6, <1>7, Zenon DEF Good, Keeps

\* What is enqueued is taken away.
LEMMA DequeuedGood ==
  ASSUME NEW T, NEW t, NEW w, Good(t, w, T), NEW u, u = [t EXCEPT !.segments_out = <<>>]
  PROVE  Good(u, w, T) /\ Alike(u, t)
<1>1. DOMAIN t = Fields
  BY DEF Good, Typed
<1>2. Alike(u, t) /\ u.segments_out = <<>>
  BY <1>1 DEF Alike, SameButFlight, Fields
<1>3. u.segments_out \in Seq(Said(t.isn, T, t.next_seqno))
  BY <1>2
<1> QED BY <1>2, <1>3, AlikeGood, Zenon

\* send_empty_segment().
LEMMA EmptySentGood ==
  ASSUME NEW T, NEW t, NEW w, Good(t, w, T), NEW u, u = SendEmptySegment(t)
  PROVE  Good(u, w, T) /\ Alike(u, t)
<1> DEFINE seg == [SegmentNew EXCEPT !.seqno = NextSeqno(t)]
<1>1. /\ DOMAIN t = Fields /\ t.isn \in WrappingInt /\ IsText(T)
      /\ t.segments_out \in Seq(Said(t.isn, T, t.next_seqno))
  BY DEF Good, Typed
<1>2. Alike(u, t) /\ u.segments_out = Append(t.segments_out, seg)
  BY <1>1 DEF SendEmptySegment, Alike, SameButFlight, Fields
<1>3. seg \in Said(t.isn, T, t.next_seqno)
  <2> DEFINE seqno == NextSeqno(t)
  <2>1. t.next_seqno \in 0 .. (Len(T) + 2) /\ Len(T) \in Nat /\ t.next_seqno \in Nat
    BY <1>1, NextBounded, TextFacts
  <2>2. seqno = Wrap(t.next_seqno, t.isn) /\ seqno \in WrappingInt
    BY <1>1, <2>1, WrapType DEF NextSeqno
  <2>3. <<>> \in Seq(BytesOf(T)) /\ FALSE \in BOOLEAN
    OBVIOUS
  <2> HIDE DEF seqno
  <2>4. seg \in Segments(T)
    <3>1. seg \in Unstamped(T)
      BY <2>2, <2>3, NewSegmentTyped, Zenon DEF seqno
    <3> QED BY <3>1, UnstampedSegments, Zenon
  <2>5. seg.seqno = seqno /\ seg.syn = FALSE /\ seg.payload = <<>> /\ seg.fin = FALSE
    BY DEF SegmentNew, seqno
  <2> HIDE DEF seg
  <2>6. LengthInSequenceSpace(seg) = 0
    BY <2>5 DEF LengthInSequenceSpace
  <2>7. t.next_seqno + LengthInSequenceSpace(seg) <= t.next_seqno /\ t.next_seqno \in 0 .. t.next_seqno
    BY <2>1, <2>6
  <2> QED BY <2>2, <2>4, <2>5, <2>7, Zenon DEF Said
<1> HIDE DEF seg
<1>4. u.segments_out \in Seq(Said(t.isn, T, t.next_seqno))
  BY <1>1, <1>2, <1>3
<1> QED BY <1>2, <1>4, AlikeGood

\* There is a segment that was sent first.
LEMMA OldestThere ==
  ASSUME NEW T, NEW t, NEW w, Good(t, w, T), t.in_flight # {}
  PROVE  Oldest(t) \in t.in_flight /\ \A d \in t.in_flight : Oldest(t).abs_seqno <= d.abs_seqno
<1> DEFINE es == t.in_flight
           p == t.checkpoint
<1>1. /\ p \in Nat /\ t.next_seqno \in Nat /\ Makes(es, t.isn, p, t.next_seqno, T)
  BY DEF Good, Typed
<1>2. \A e \in es : /\ e.abs_seqno \in Nat /\ EndOf(e) \in Nat /\ p < EndOf(e)
                    /\ EndOf(e) <= t.next_seqno /\ e.abs_seqno < EndOf(e)
  BY <1>1, EndOfType, Zenon DEF Makes, InPlace
<1>3. p \in p .. (t.next_seqno - 1)
  BY <1>1, <1>2
<1>4. PICK e \in es : e.abs_seqno <= p /\ p < EndOf(e)
  BY <1>1, <1>3, Zenon DEF Makes
<1>5. \A d \in es : e.abs_seqno <= d.abs_seqno
  <2> SUFFICES ASSUME NEW d \in es PROVE e.abs_seqno <= d.abs_seqno
    OBVIOUS
  <2>1. d = e \/ EndOf(d) <= e.abs_seqno \/ EndOf(e) <= d.abs_seqno
    BY <1>1 DEF Makes
  <2> HIDE DEF es, p
  <2> QED BY <1>1, <1>2, <1>4, <2>1
<1> QED BY <1>4, <1>5, Zenon DEF Oldest

\* tick(): only the timer changes, and a segment in flight may be sent again.
LEMMA TickedGood ==
  ASSUME NEW T, NEW t, NEW w, Good(t, w, T), NEW ms, NEW u, u = SenderTick(t, ms)
  PROVE  Good(u, w, T) /\ Alike(u, t)
<1>1. /\ DOMAIN t = Fields /\ IsText(T) /\ t.segments_out \in Seq(Said(t.isn, T, t.next_seqno))
  BY DEF Good, Typed
<1>2. CASE u = Retransmit(t) /\ t.in_flight # {}
  <2>1. Alike(u, t) /\ u.segments_out = Append(t.segments_out, Oldest(t).seg)
    BY <1>1, <1>2 DEF Retransmit, Alike, SameButFlight, Fields
  <2>2. InPlace(Oldest(t), t.isn, T) /\ EndOf(Oldest(t)) <= t.next_seqno /\ t.next_seqno \in Nat
    BY <1>2, OldestThere, Zenon DEF Good, Makes, Typed
  <2>3. Oldest(t).seg \in Said(t.isn, T, t.next_seqno)
    BY <1>1, <2>2, InPlaceSaid, ZenonT(60)
  <2>4. u.segments_out \in Seq(Said(t.isn, T, t.next_seqno))
    BY <1>1, <2>1, <2>3
  <2> QED BY <2>1, <2>4, AlikeGood
<1>3. CASE u = [t EXCEPT !.time_spent = 0, !.is_timer_running = FALSE]
  <2>1. Alike(u, t) /\ u.segments_out = t.segments_out
    BY <1>1, <1>3 DEF Alike, SameButFlight, Fields
  <2> QED BY <1>1, <2>1, AlikeGood
<1>4. CASE u = [t EXCEPT !.time_spent = @ + ms]
  <2>1. Alike(u, t) /\ u.segments_out = t.segments_out
    BY <1>1, <1>4 DEF Alike, SameButFlight, Fields
  <2> QED BY <1>1, <2>1, AlikeGood
<1> QED BY <1>2, <1>3, <1>4 DEF SenderTick, Expires

-----------------------------------------------------------------------------
\* What is in flight, what is counted and what is outstanding agree.
LEMMA FlightCount ==
  ASSUME NEW T, NEW t, NEW w, Good(t, w, T)
  PROVE  /\ t.bytes_in_flight \in Nat /\ t.bytes_in_flight <= t.next_seqno
         /\ t.bytes_in_flight = 0 <=> t.in_flight = {}
         /\ t.bytes_in_flight = 0 <=> t.checkpoint = t.next_seqno
         /\ t.checkpoint > 0 => t.bytes_in_flight < t.next_seqno
<1> DEFINE es == t.in_flight
           p == t.checkpoint
           n == t.next_seqno
<1>1. /\ p \in Nat /\ n \in Nat /\ p <= n /\ Makes(es, t.isn, p, n, T)
      /\ IsFiniteSet(es) /\ t.bytes_in_flight = TotalLength(es)
  BY DEF Good, Typed, Counted
<1>2. CASE es = {}
  <2>1. t.bytes_in_flight = 0
    BY <1>1, <1>2, SumFirst, Zenon
  <2>2. \A q \in p .. (n - 1) : FALSE
    BY <1>1, <1>2, Zenon DEF Makes
  <2> HIDE DEF p, n, es
  <2>3. p = n
    BY <1>1, <2>2
  <2>4. 0 <= n
    BY <1>1
  <2> QED BY <1>1, <1>2, <2>1, <2>3, <2>4 DEF p, n, es
<1>3. CASE es # {}
  <2> DEFINE o == Oldest(t)
             a == o.abs_seqno
  <2>1. o \in es /\ \A d \in es : a <= d.abs_seqno
    BY <1>3, OldestThere
  <2> HIDE DEF o
  <2>2. InPlace(o, t.isn, T) /\ p < EndOf(o) /\ EndOf(o) <= n
    BY <1>1, <2>1, Zenon DEF Makes
  <2>3. a \in Nat /\ EndOf(o) \in Nat /\ a < EndOf(o)
    BY <2>2, EndOfType, Zenon DEF InPlace
  <2>4. \A e \in es : a < EndOf(e)
    <3>1. \A e \in es : e.abs_seqno \in Nat /\ EndOf(e) \in Nat /\ e.abs_seqno < EndOf(e)
      BY <1>1, EndOfType, Zenon DEF Makes, InPlace
    <3> HIDE DEF a, es
    <3> QED BY <2>1, <2>3, <3>1
  <2>5. ASSUME NEW q \in a .. (n - 1)
        PROVE  \E e \in es : e.abs_seqno <= q /\ q < EndOf(e)
    <3>1. CASE q \in p .. (n - 1)
      BY <1>1, <3>1, Zenon DEF Makes
    <3>2. CASE q \notin p .. (n - 1)
      <4>1. a <= q /\ q < EndOf(o)
        <5> HIDE DEF a, p, n
        <5> QED BY <1>1, <2>2, <2>3, <3>2
      <4> QED BY <2>1, <4>1, Zenon
    <3> QED BY <3>1, <3>2, Zenon
  <2>6. Makes(es, t.isn, a, n, T)
    BY <1>1, <2>4, <2>5, Zenon DEF Makes
  <2>7. p # n /\ a < n /\ a <= n
    <3> HIDE DEF a, p, n
    <3> QED BY <1>1, <2>2, <2>3
  <2>8. TotalLength(es) = n - a
    <3> HIDE DEF a, p, n, es
    <3> QED BY <1>1, <2>1, <2>3, <2>6, <2>7, MakesLength, ZenonT(60) DEF a
  <2>9. p > 0 => a > 0
    <3> SUFFICES ASSUME p > 0, a = 0 PROVE FALSE
      BY <2>3
    <3>1. o.seg.syn /\ o.seg.payload = <<>> /\ ~o.seg.fin
      BY <2>2, Zenon DEF InPlace
    <3>2. LengthInSequenceSpace(o.seg) = 1
      BY <3>1 DEF LengthInSequenceSpace
    <3>3. EndOf(o) = 1
      BY <3>2 DEF EndOf
    <3> QED BY <1>1, <2>2, <3>3
  <2> HIDE DEF a, p, n, es
  <2> QED BY <1>1, <1>3, <2>3, <2>7, <2>8, <2>9 DEF p, n, es
<1> QED BY <1>2, <1>3, ZenonT(60)

\* The FIN takes the last position, and the SYN the first.
LEMMA FinIsLast ==
  ASSUME NEW T, NEW t, NEW w, Good(t, w, T)
  PROVE  /\ t.fin <=> t.next_seqno = Len(T) + 2
         /\ t.syn <=> t.next_seqno > 0
         /\ t.fin => t.syn /\ t.stream.isInputEnded /\ t.stream.buffer = <<>> /\ w = Len(T)
<1> DEFINE l == Len(t.stream.buffer)
           f == IF t.fin THEN 1 ELSE 0
<1>1. /\ Typed(t, T) /\ Queued(t, w, T) /\ t.next_seqno \in Nat /\ t.syn \in BOOLEAN /\ t.fin \in BOOLEAN
  BY DEF Good, Typed
<1>2. l \in Nat /\ Len(T) \in Nat /\ w \in 0 .. Len(T) /\ l <= w
  BY <1>1, CanSendType, TextFacts, TypedText, Zenon DEF Queued
<1>3. /\ f \in {0, 1} /\ (t.fin <=> f = 1)
  OBVIOUS
<1>4. /\ t.syn => t.next_seqno = 1 + (w - l) + f
      /\ ~t.syn => t.next_seqno = 0 /\ ~t.fin
      /\ t.fin => t.stream.isInputEnded /\ t.stream.buffer = <<>>
      /\ t.stream.isInputEnded => w = Len(T)
  BY <1>1, Zenon DEF Queued, ReadUpTo
<1>5. t.fin => l = 0
  BY <1>4
<1> HIDE DEF l, f
<1>6. t.fin => t.syn /\ w = Len(T)
  BY <1>4, Zenon
<1>7. t.syn <=> t.next_seqno > 0
  BY <1>2, <1>3, <1>4
<1>8. t.fin => t.next_seqno = Len(T) + 2
  <2> SUFFICES ASSUME t.fin PROVE t.next_seqno = Len(T) + 2
    BY Zenon
  <2>1. f = 1 /\ t.next_seqno = 1 + (w - l) + f /\ l = 0 /\ w = Len(T)
    BY <1>3, <1>4, <1>5, <1>6, Zenon
  <2> QED BY <1>2, <2>1
<1>9. ~t.fin => t.next_seqno # Len(T) + 2
  <2> SUFFICES ASSUME ~t.fin PROVE t.next_seqno # Len(T) + 2
    BY Zenon
  <2>1. f = 0 /\ (t.next_seqno = 0 \/ t.next_seqno = 1 + (w - l) + f)
    BY <1>3, <1>4, <1>1
  <2> QED BY <1>2, <2>1
<1> QED BY <1>4, <1>6, <1>7, <1>8, <1>9, Zenon

\* When the window has been filled and nothing is outstanding, everything has
\* been sent, FIN included: a window always has room for one byte then.
LEMMA FilledUp ==
  ASSUME NEW T, NEW t, NEW w, Good(t, w, T), t.rwnd < SizeModulus, NEW u, u = FillWindow(t),
         u.bytes_in_flight = 0, u.stream.isInputEnded
  PROVE  u.fin
<1>1. Good(u, w, T) /\ Fills(u, t)
  BY FillWindowGood, Zenon
<1>2. /\ Typed(t, T) /\ Queued(t, w, T) /\ t.next_seqno \in Nat /\ t.checkpoint \in Nat /\ t.rwnd \in Nat
      /\ t.checkpoint <= t.next_seqno /\ u.next_seqno \in Nat /\ DOMAIN t = Fields
  BY <1>1 DEF Good, Typed
<1>3. u.checkpoint = u.next_seqno
  BY <1>1, FlightCount, Zenon
<1>4. /\ u.checkpoint = t.checkpoint /\ t.next_seqno <= u.next_seqno /\ u.syn
      /\ t.stream.isInputEnded
  BY <1>1, Zenon DEF Fills
<1>5. t.next_seqno = u.next_seqno /\ t.checkpoint = t.next_seqno
  BY <1>2, <1>3, <1>4
<1>6. t.syn
  <2>1. u.next_seqno > 0
    BY <1>1, <1>4, FinIsLast, Zenon
  <2> QED BY <1>5, <2>1, FinIsLast, Zenon
<1>7. CASE t.fin
  BY <1>6, <1>7 DEF FillWindow
<1>8. CASE ~t.fin
  <2> DEFINE nb == NumBytesCanSend(t)
             k == TakenBy(t)
             l == Len(t.stream.buffer)
             room == IF t.rwnd > 0 THEN t.rwnd ELSE 1
  <2>1. nb \in Nat /\ nb > 0
    <3>1. room \in Nat /\ room > 0 /\ room < SizeModulus
      BY <1>2, SizeAssumption, ModulusAssumption
    <3>2. t.next_seqno - t.checkpoint = 0
      BY <1>2, <1>5
    <3>3. nb = (room - 0) % SizeModulus
      BY <3>2, Zenon DEF NumBytesCanSend
    <3> HIDE DEF room, nb
    <3>4. nb = room
      BY <3>1, <3>3, SizeAssumption
    <3> QED BY <3>1, <3>4
  <2>2. l \in Nat /\ k = IF nb <= l THEN nb ELSE l
    BY <1>2, CanSendType, Zenon DEF TakenBy, Minimum, BufferSize
  <2>3. SendsFin(t) <=> l < nb
    BY <1>4, Zenon DEF SendsFin, BufferSize
  <2> HIDE DEF nb, l
  <2>4. k \in Nat /\ (~SendsFin(t) => k > 0)
    BY <2>1, <2>2, <2>3
  <2>5. NewSegments(t) # <<>>
    <3> HIDE DEF k
    <3>1. Count(t) \in Nat /\ Count(t) > 0
      <4>1. CASE k = 0
        BY <2>4, <4>1 DEF Count, k
      <4>2. CASE k # 0
        <5>1. k > 0
          BY <2>4, <4>2
        <5>2. Pieces(k) \in Nat /\ Pieces(k) > 0
          BY <2>4, <5>1, CutIntoPieces
        <5> QED BY <4>2, <5>2 DEF Count, k
      <4> QED BY <4>1, <4>2
    <3>2. NewSegments(t) = [i \in 1 .. Count(t) |-> NewSegment(t, i)]
      BY Zenon DEF NewSegments, NewSegment, Count, TakenBy, Pieces, Cut
    <3>3. DOMAIN NewSegments(t) = 1 .. Count(t) /\ 1 \in 1 .. Count(t)
      BY <3>1, <3>2
    <3>4. DOMAIN <<>> = {}
      OBVIOUS
    <3> QED BY <3>3, <3>4, Zenon
  <2> DEFINE segs == NewSegments(t)
             v == SendSegments(t, segs)
  <2>6. u = [v EXCEPT !.stream = PopOutput(@, k), !.fin = SendsFin(t)]
    BY <1>6, <1>8, <2>1, <2>5 DEF FillWindow, TakenBy, nb
  <2>7. DOMAIN v = Fields /\ v.next_seqno = After(t, segs)
    BY <1>2, SendSegmentsDoes, Zenon DEF SameButFlight
  <2> HIDE DEF v
  <2>8. u.fin = SendsFin(t) /\ u.next_seqno = After(t, segs)
    BY <2>6, <2>7 DEF Fields
  <2>9. CASE ~SendsFin(t)
    <3> DEFINE f == 0
    <3>1. f \in {0, 1} /\ (f = 1 <=> SendsFin(t))
      BY <2>9
    <3> HIDE DEF f
    <3>2. After(t, segs) = t.next_seqno + k + f
      BY <1>2, <1>6, <1>8, <2>5, <3>1, NewSegmentsMake, Zenon
    <3> HIDE DEF k, segs
    <3> QED BY <1>2, <1>5, <2>4, <2>8, <2>9, <3>2 DEF f
  <2> QED BY <2>8, <2>9, Zenon
<1> QED BY <1>7, <1>8, Zenon
=============================================================================
