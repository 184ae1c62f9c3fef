--------------------------- MODULE ReceiverLemmas ---------------------------
(***************************************************************************)
(* What Wrap and Unwrap compute, for every (even) modulus; and what the    *)
(* operators of StreamReassembler do to a reassembler that is fed with     *)
(* pieces of a text: for every text, every capacity, and also after the    *)
(* 32-bit counter of bytes written has wrapped around.                     *)
(*                                                                         *)
(* The last part is about a receiver that gets segments of a text shorter  *)
(* than half the range of sequence numbers (Gets), and about the           *)
(* acknowledgments it sends.                                               *)
(***************************************************************************)
EXTENDS TCPReceiver, FiniteSetTheorems, WellFoundedInduction, TLAPS

USE SMTT(30)

\* A remainder lies in WrappingInt and differs from its dividend by a multiple
\* of the modulus: the arithmetic under every raw_value() of the code.
LEMMA ModDivides ==
  ASSUME NEW a \in Int
  PROVE  /\ a % Modulus \in WrappingInt
         /\ a \div Modulus \in Int
         /\ a = Modulus * (a \div Modulus) + (a % Modulus)
  BY ModulusAssumption DEF WrappingInt

\* A remainder is determined by its congruence class: if a is r plus some
\* turns, and r is a WrappingInt32 value, then a wraps to r.
LEMMA ModUnique ==
  ASSUME NEW a \in Int, NEW q \in Int, NEW r \in WrappingInt,
         a = Modulus * q + r
  PROVE  a % Modulus = r
  <1>1. /\ a % Modulus \in WrappingInt
        /\ a \div Modulus \in Int
        /\ a = Modulus * (a \div Modulus) + (a % Modulus)
    BY ModDivides
  <1> DEFINE p == a \div Modulus
             s == a % Modulus
  <1>2. p \in Int /\ s \in 0 .. (Modulus - 1) /\ r \in 0 .. (Modulus - 1)
    BY <1>1 DEF WrappingInt
  <1>3. Modulus * p + s = Modulus * q + r
    BY <1>1
  <1> HIDE DEF p, s
  <1>4. s = r
    BY <1>2, <1>3, ModulusAssumption
  <1> QED BY <1>4 DEF s

\* Congruence is what subtraction of raw values preserves.
LEMMA ModDifference ==
  ASSUME NEW a \in Int, NEW b \in Int
  PROVE  ((a % Modulus) - (b % Modulus)) % Modulus = (a - b) % Modulus
  <1> DEFINE p == a \div Modulus
             q == b \div Modulus
             r == (a - b) \div Modulus
             d == (a % Modulus) - (b % Modulus)
  <1>1. p \in Int /\ a % Modulus \in Int /\ a = Modulus * p + (a % Modulus)
    BY ModDivides, ModulusAssumption DEF WrappingInt
  <1>2. q \in Int /\ b % Modulus \in Int /\ b = Modulus * q + (b % Modulus)
    BY ModDivides, ModulusAssumption DEF WrappingInt
  <1>3. /\ r \in Int
        /\ (a - b) % Modulus \in WrappingInt
        /\ a - b = Modulus * r + ((a - b) % Modulus)
    BY ModDivides
  <1>4. (a - b) % Modulus \in Int
    BY <1>3, ModulusAssumption DEF WrappingInt
  <1> HIDE DEF p, q, r
  <1>5. d = Modulus * (r - p + q) + ((a - b) % Modulus)
    BY <1>1, <1>2, <1>3, <1>4, ModulusAssumption
  <1>6. d \in Int /\ r - p + q \in Int
    BY <1>1, <1>2, <1>3
  <1> QED BY <1>3, <1>5, <1>6, ModUnique

\* Adding before or after wrapping around makes no difference.
LEMMA ModSum ==
  ASSUME NEW x \in Int, NEW y \in Int
  PROVE  ((x % Modulus) + y) % Modulus = (x + y) % Modulus
  <1> DEFINE p == x \div Modulus
             r == x % Modulus
             q == (r + y) \div Modulus
             s == (r + y) % Modulus
  <1>1. r \in Int /\ p \in Int /\ x = Modulus * p + r
    BY ModDivides, ModulusAssumption DEF WrappingInt
  <1> HIDE DEF p, r
  <1>2. s \in WrappingInt /\ q \in Int /\ r + y = Modulus * q + s
    BY <1>1, ModDivides
  <1>3. s \in Int
    BY <1>2, ModulusAssumption DEF WrappingInt
  <1> HIDE DEF q, s
  <1>4. x + y = Modulus * (p + q) + s
    BY <1>1, <1>2, <1>3, ModulusAssumption
  <1>5. (x + y) % Modulus = s
    BY <1>1, <1>2, <1>4, ModUnique
  <1> QED BY <1>5 DEF r, s

\* Half is half of the modulus.
LEMMA HalfTwice == Half \in Nat /\ Half > 0 /\ Modulus = Half + Half
  BY ModulusAssumption DEF Half

\* The difference of the sequence numbers of two positions less than half a
\* turn apart is the difference of the positions.
LEMMA MinusOfWraps ==
  ASSUME NEW x \in Int, NEW y \in Int, NEW isn \in Int,
         -Half <= x - y, x - y < Half
  PROVE  Minus(Wrap(x, isn), Wrap(y, isn)) = x - y
  <1> DEFINE d == (Wrap(x, isn) - Wrap(y, isn)) % Modulus
  <1>1. d = (x - y) % Modulus
    <2>1. d = ((x + isn) - (y + isn)) % Modulus
      BY ModDifference DEF Wrap
    <2>2. (x + isn) - (y + isn) = x - y
      OBVIOUS
    <2> QED BY <2>1, <2>2
  <1>2. CASE x - y >= 0
    <2>1. x - y \in WrappingInt
      BY <1>2, HalfTwice DEF WrappingInt
    <2>2. x - y = Modulus * 0 + (x - y)
      BY ModulusAssumption
    <2>3. (x - y) % Modulus = x - y
      BY <2>1, <2>2, ModUnique
    <2> QED BY <1>1, <2>3, <1>2, HalfTwice DEF Minus
  <1>3. CASE x - y < 0
    <2>1. x - y + Modulus \in WrappingInt
      BY <1>3, HalfTwice DEF WrappingInt
    <2>2. x - y = Modulus * (-1) + (x - y + Modulus)
      BY ModulusAssumption
    <2>3. (x - y) % Modulus = x - y + Modulus
      BY <2>1, <2>2, ModUnique
    <2> QED BY <1>1, <2>3, <1>3, HalfTwice DEF Minus
  <1> QED BY <1>2, <1>3

\* unwrap() inverts wrap() on every position within half a turn of the
\* checkpoint: segments and acknowledgments are placed where the peer meant.
THEOREM RoundTrip ==
  ASSUME NEW x \in Nat, NEW isn \in WrappingInt, NEW checkpoint \in Nat,
         checkpoint - Half <= x, x < checkpoint + Half
  PROVE  Unwrap(Wrap(x, isn), isn, checkpoint) = x
  <1>1. Half \in Nat /\ isn \in Int
    BY HalfTwice, ModulusAssumption DEF WrappingInt
  <1>2. Minus(Wrap(x, isn), Wrap(checkpoint, isn)) = x - checkpoint
    BY <1>1, MinusOfWraps
  <1> QED BY <1>2 DEF Unwrap

\* unwrap() always returns a position that wraps to the sequence number it was
\* given, and never a negative one.
THEOREM UnwrapWraps ==
  ASSUME NEW n \in WrappingInt, NEW isn \in WrappingInt, NEW checkpoint \in Nat
  PROVE  /\ Unwrap(n, isn, checkpoint) \in Nat
         /\ Wrap(Unwrap(n, isn, checkpoint), isn) = n
  <1> DEFINE w == Wrap(checkpoint, isn)
             d == (n - w) % Modulus
             q == (n - w) \div Modulus
             k == (checkpoint + isn) \div Modulus
             u == Unwrap(n, isn, checkpoint)
  <1>1. isn \in Int /\ n \in Int /\ Modulus \in Nat
    BY ModulusAssumption DEF WrappingInt
  <1>2. w \in WrappingInt /\ k \in Int /\ checkpoint + isn = Modulus * k + w
    <2>1. checkpoint + isn \in Int
      BY <1>1
    <2> QED BY <2>1, ModDivides DEF Wrap
  <1>3. w \in Int
    BY <1>2, <1>1 DEF WrappingInt
  <1>4. d \in WrappingInt /\ q \in Int /\ n - w = Modulus * q + d
    <2> HIDE DEF w
    <2>1. n - w \in Int
      BY <1>1, <1>3
    <2> QED BY <2>1, ModDivides
  <1>5. d \in 0 .. (Modulus - 1)
    BY <1>4 DEF WrappingInt
  <1>6. Minus(n, w) \in {d, d - Modulus} /\ Minus(n, w) >= -Modulus
    BY <1>5, <1>1, HalfTwice DEF Minus
  <1>7. u \in {checkpoint + d, checkpoint + d - Modulus} /\ u \in Nat
    BY <1>5, <1>6, <1>1 DEF Unwrap
  <1> HIDE DEF w, d, q, k, u
  <1>8. \E t \in Int : u + isn = Modulus * t + n
    <2>1. CASE u = checkpoint + d
      <3>1. u + isn = Modulus * (k - q) + n
        BY <2>1, <1>1, <1>2, <1>3, <1>4, <1>5
      <3> QED BY <3>1, <1>2, <1>4
    <2>2. CASE u = checkpoint + d - Modulus
      <3>1. u + isn = Modulus * (k - q - 1) + n
        BY <2>2, <1>1, <1>2, <1>3, <1>4, <1>5
      <3>2. k - q - 1 \in Int
        BY <1>2, <1>4
      <3> QED BY <3>1, <3>2
    <2> QED BY <1>7, <2>1, <2>2
  <1>9. (u + isn) % Modulus = n
    <2>1. u + isn \in Int
      BY <1>1, <1>7
    <2> QED BY <1>8, <2>1, ModUnique
  <1> QED BY <1>7, <1>9 DEF Wrap, u

\* Two different positions with the same sequence number are at least one turn
\* apart.
LEMMA SameWrapApart ==
  ASSUME NEW x \in Nat, NEW y \in Nat, NEW isn \in WrappingInt,
         Wrap(x, isn) = Wrap(y, isn), x < y
  PROVE  x + Modulus <= y
  <1> DEFINE p == (x + isn) \div Modulus
             q == (y + isn) \div Modulus
             r == (x + isn) % Modulus
  <1>1. Modulus \in Nat /\ Modulus > 0 /\ isn \in Int
    BY ModulusAssumption DEF WrappingInt
  <1>2. x + isn \in Int /\ y + isn \in Int
    BY <1>1
  <1>3. p \in Int /\ r \in WrappingInt /\ x + isn = Modulus * p + r
    BY <1>2, ModDivides
  <1>4. q \in Int /\ y + isn = Modulus * q + r
    BY <1>2, ModDivides DEF Wrap
  <1>5. r \in Int
    BY <1>3, <1>1 DEF WrappingInt
  <1> HIDE DEF p, q, r
  <1>6. y - x = Modulus * (q - p)
    BY <1>1, <1>3, <1>4, <1>5
  <1>7. q - p >= 1
    BY <1>1, <1>3, <1>4, <1>6
  <1>8. Modulus * (q - p) >= Modulus
    BY <1>1, <1>3, <1>4, <1>7
  <1> QED BY <1>1, <1>6, <1>8, <1>3, <1>4

\* unwrap() returns the position closest to the checkpoint among all the
\* positions that wrap to n, whatever the modulus (wrapping_integers.cc:24).
THEOREM UnwrapClosest ==
  ASSUME NEW n \in WrappingInt, NEW isn \in WrappingInt, NEW checkpoint \in Nat,
         NEW x \in Nat, Wrap(x, isn) = n
  PROVE  LET u == Unwrap(n, isn, checkpoint)
         IN  \/ u <= checkpoint /\ (checkpoint - u <= checkpoint - x \/ checkpoint - u <= x - checkpoint)
             \/ u >= checkpoint /\ (u - checkpoint <= checkpoint - x \/ u - checkpoint <= x - checkpoint)
  <1> DEFINE m == Minus(n, Wrap(checkpoint, isn))
             u == Unwrap(n, isn, checkpoint)
  <1>1. Modulus \in Nat /\ Modulus > 0 /\ n \in Int /\ isn \in Int
    BY ModulusAssumption DEF WrappingInt
  <1>2. m \in Int /\ -Half <= m /\ m < Half
    <2>1. Wrap(checkpoint, isn) \in Int
      BY <1>1, ModDivides DEF Wrap, WrappingInt
    <2>2. n - Wrap(checkpoint, isn) \in Int
      BY <2>1, <1>1
    <2>3. (n - Wrap(checkpoint, isn)) % Modulus \in 0 .. (Modulus - 1)
      BY <2>2, ModDivides DEF WrappingInt
    <2> QED BY <2>3, HalfTwice DEF Minus
  <1>3. u \in Nat /\ Wrap(u, isn) = n
    BY UnwrapWraps
  <1>4. u = IF checkpoint + m < 0 THEN checkpoint + m + Modulus ELSE checkpoint + m
    BY DEF Unwrap
  <1> HIDE DEF m, u
  <1>5. x = u \/ x + Modulus <= u \/ u + Modulus <= x
    <2>1. x < u => x + Modulus <= u
      BY <1>3, SameWrapApart
    <2>2. u < x => u + Modulus <= x
      BY <1>3, SameWrapApart
    <2> QED BY <2>1, <2>2, <1>3
  <1>6. \/ u <= checkpoint /\ (checkpoint - u <= checkpoint - x \/ checkpoint - u <= x - checkpoint)
        \/ u >= checkpoint /\ (u - checkpoint <= checkpoint - x \/ u - checkpoint <= x - checkpoint)
    BY <1>1, <1>2, <1>3, <1>4, <1>5, HalfTwice
  <1> QED BY <1>6 DEF u
-----------------------------------------------------------------------------
(***************************************************************************)
(* The reassembler.  T is the text, B its bytes, C the capacity and a the  *)
(* true number of bytes assembled, which the output stream counts modulo   *)
(* Modulus.                                                                *)
(***************************************************************************)

\* T is a text of bytes of B, and a reassembler of capacity C can tell its
\* slots without a byte from the others.
TextOf(T, B, C) == T \in Seq(B) /\ NoByte \notin B /\ C \in Nat

OutputOf(B, C) ==
  [capacity : {C}, buffer : Seq(B), bytesWritten : WrappingInt, bytesRead : WrappingInt,
   isInputEnded : BOOLEAN, error : BOOLEAN]

SlotsOf(B, C) == [0 .. (C - 1) -> B \cup {NoByte}]

\* A reassembler while push_substring() works on it: num_unassembled is any
\* number.
Working(B, C) ==
  [output : OutputOf(B, C), capacity : {C}, slots : SlotsOf(B, C),
   num_unassembled : Int, received_EOF : BOOLEAN]

\* Every byte x stores is the byte of the text at its place, and there is room
\* for it in the output stream.
StoredAt(x, T, C, a) ==
  \A o \in 0 .. (C - 1) :
    x.slots[o] # NoByte =>
      o < C - Len(x.output.buffer) /\ a + o + 1 <= Len(T) /\ x.slots[o] = T[a + o + 1]

\* The count of x is the number of bytes it stores.
CountsStored(x) == x.num_unassembled = Cardinality(Filled(x))

\* x has assembled the first a bytes of the text and stores others in place.
Holds(x, T, B, C, a) ==
  /\ TextOf(T, B, C) /\ x \in Working(B, C)
  /\ a \in Nat /\ a <= Len(T) /\ x.output.bytesWritten = a % Modulus
  /\ Len(x.output.buffer) <= C
  /\ StoredAt(x, T, C, a) /\ CountsStored(x)
-----------------------------------------------------------------------------
\* A nonempty set of natural numbers has a least element.
LEMMA LeastNumber ==
  ASSUME NEW S \in SUBSET Nat, S # {}
  PROVE  \E x \in S : \A y \in S : x <= y
  <1>1. PICK x \in S : \A y \in S : ~ (<<y, x>> \in OpToRel(<, Nat))
    BY NatLessThanWellFounded, WFMin, Zenon
  <1>2. \A y \in S : ~(y < x)
    BY <1>1, Zenon DEF OpToRel
  <1> QED BY <1>2

\* A list of n values is a sequence of length n.
LEMMA ListIsSequence ==
  ASSUME NEW S, NEW n \in Nat, NEW f \in [1 .. n -> S]
  PROVE  f \in Seq(S) /\ Len(f) = n
  OBVIOUS

\* Two sequences, one after the other.
LEMMA Joined ==
  ASSUME NEW S, NEW u \in Seq(S), NEW v \in Seq(S)
  PROVE  /\ u \o v \in Seq(S) /\ Len(u) \in Nat /\ Len(v) \in Nat
         /\ Len(u \o v) = Len(u) + Len(v)
         /\ \A i \in 1 .. (Len(u) + Len(v)) :
              (u \o v)[i] = IF i <= Len(u) THEN u[i] ELSE v[i - Len(u)]
  OBVIOUS

\* A piece of the text.
LEMMA TextPiece ==
  ASSUME NEW T, NEW B, T \in Seq(B), NEW start \in Nat, NEW len \in Nat, start + len <= Len(T)
  PROVE  /\ SubSeq(T, start + 1, start + len) \in Seq(B)
         /\ Len(SubSeq(T, start + 1, start + len)) = len
         /\ \A i \in 1 .. len : SubSeq(T, start + 1, start + len)[i] = T[start + i]
  <1>1. Len(T) \in Nat /\ \A i \in (start + 1) .. (start + len) : T[i] \in B
    OBVIOUS
  <1>2. /\ SubSeq(T, start + 1, start + len) \in Seq(B)
        /\ Len(SubSeq(T, start + 1, start + len)) =
             IF start + 1 <= start + len THEN (start + len) - (start + 1) + 1 ELSE 0
        /\ \A i \in 1 .. ((start + len) - (start + 1) + 1) :
             SubSeq(T, start + 1, start + len)[i] = T[(start + 1) + i - 1]
    <2> DEFINE m == start + 1
               n == start + len
    <2>1. m \in Int /\ n \in Int /\ \A i \in m .. n : T[i] \in B
      BY <1>1
    <2> HIDE DEF m, n
    <2>2. /\ SubSeq(T, m, n) \in Seq(B) /\ Len(SubSeq(T, m, n)) = IF m <= n THEN n - m + 1 ELSE 0
          /\ \A i \in 1 .. (n - m + 1) : SubSeq(T, m, n)[i] = T[m + i - 1]
      BY <2>1
    <2> QED BY <2>2, Zenon DEF m, n
  <1> QED BY <1>1, <1>2

\* Two pieces that follow one another make one.
LEMMA TextJoins ==
  ASSUME NEW T, NEW B, T \in Seq(B), NEW a \in Nat, NEW k \in Nat, a + k <= Len(T)
  PROVE  SubSeq(T, 1, a) \o SubSeq(T, a + 1, a + k) = SubSeq(T, 1, a + k)
  <1> DEFINE u == SubSeq(T, 1, a)
             v == SubSeq(T, a + 1, a + k)
             w == SubSeq(T, 1, a + k)
  <1>1. Len(T) \in Nat /\ a + k \in Nat /\ a <= Len(T)
    OBVIOUS
  <1>2. u \in Seq(B) /\ Len(u) = a /\ \A i \in 1 .. a : u[i] = T[i]
    <2>1. /\ SubSeq(T, 0 + 1, 0 + a) \in Seq(B) /\ Len(SubSeq(T, 0 + 1, 0 + a)) = a
          /\ \A i \in 1 .. a : SubSeq(T, 0 + 1, 0 + a)[i] = T[0 + i]
      BY <1>1, TextPiece
    <2> QED BY <2>1
  <1>3. w \in Seq(B) /\ Len(w) = a + k /\ \A i \in 1 .. (a + k) : w[i] = T[i]
    <2>1. /\ SubSeq(T, 0 + 1, 0 + (a + k)) \in Seq(B)
          /\ Len(SubSeq(T, 0 + 1, 0 + (a + k))) = a + k
          /\ \A i \in 1 .. (a + k) : SubSeq(T, 0 + 1, 0 + (a + k))[i] = T[0 + i]
      BY <1>1, TextPiece
    <2> QED BY <2>1
  <1>4. v \in Seq(B) /\ Len(v) = k /\ \A i \in 1 .. k : v[i] = T[a + i]
    BY TextPiece
  <1> HIDE DEF u, v, w
  <1>5. /\ u \o v \in Seq(B) /\ Len(u \o v) = a + k
        /\ \A i \in 1 .. (a + k) : (u \o v)[i] = IF i <= a THEN u[i] ELSE v[i - a]
    BY <1>2, <1>4, Joined, ZenonT(60)
  <1>6. \A i \in 1 .. (a + k) : (u \o v)[i] = w[i]
    <2> SUFFICES ASSUME NEW i \in 1 .. (a + k) PROVE (u \o v)[i] = w[i]
      BY ZenonT(60)
    <2>1. CASE i <= a
      <3>1. i \in 1 .. a
        BY <2>1
      <3>2. u[i] = T[i] /\ w[i] = T[i]
        BY <1>2, <1>3, <3>1
      <3> QED BY <1>5, <2>1, <3>2
    <2>2. CASE ~(i <= a)
      <3>1. i - a \in 1 .. k /\ a + (i - a) = i
        BY <2>2
      <3>2. v[i - a] = T[i] /\ w[i] = T[i]
        BY <1>3, <1>4, <3>1
      <3> QED BY <1>5, <2>2, <3>2
    <2> QED BY <2>1, <2>2, Zenon
  <1>7. u \o v = w
    BY <1>3, <1>5, <1>6
  <1> QED BY <1>7 DEF u, v, w

\* The fields of a reassembler.
LEMMA WorkingFields ==
  ASSUME NEW B, NEW C \in Nat, NEW x \in Working(B, C)
  PROVE  /\ x.capacity = C
         /\ x.output \in OutputOf(B, C) /\ x.slots \in SlotsOf(B, C) /\ x.num_unassembled \in Int
         /\ x.received_EOF \in BOOLEAN
         /\ x.output.capacity = C /\ x.output.bytesWritten \in Nat
         /\ x.output.buffer \in Seq(B) /\ Len(x.output.buffer) \in Nat
         /\ x.output.isInputEnded \in BOOLEAN
  <1>1. /\ x.capacity = C /\ x.output \in OutputOf(B, C) /\ x.slots \in SlotsOf(B, C)
        /\ x.num_unassembled \in Int /\ x.received_EOF \in BOOLEAN
    BY DEF Working
  <1>2. /\ x.output.capacity = C /\ x.output.bytesWritten \in WrappingInt
        /\ x.output.buffer \in Seq(B) /\ x.output.isInputEnded \in BOOLEAN
    BY <1>1 DEF OutputOf
  <1>3. x.output.bytesWritten \in Nat
    BY <1>2, ModulusAssumption DEF WrappingInt
  <1>4. Len(x.output.buffer) \in Nat
    BY <1>2
  <1> QED BY <1>1, <1>2, <1>3, <1>4

\* The stored offsets form a finite set.
LEMMA FilledFinite ==
  ASSUME NEW B, NEW C \in Nat, NEW x \in Working(B, C)
  PROVE  /\ Filled(x) \subseteq 0 .. (C - 1)
         /\ IsFiniteSet(Filled(x))
         /\ Cardinality(Filled(x)) \in 0 .. C
  <1>1. Filled(x) \subseteq 0 .. (C - 1)
    BY DEF Filled, Working
  <1>2. /\ IsFiniteSet(0 .. (C - 1))
        /\ Cardinality(0 .. (C - 1)) = IF 0 > C - 1 THEN 0 ELSE (C - 1) - 0 + 1
    <2>1. 0 \in Int /\ C - 1 \in Int
      OBVIOUS
    <2> QED BY <2>1, FS_Interval
  <1>3. Cardinality(0 .. (C - 1)) = C
    BY <1>2
  <1>4. IsFiniteSet(Filled(x)) /\ Cardinality(Filled(x)) <= C
    BY <1>1, <1>2, <1>3, FS_Subset
  <1> QED BY <1>1, <1>4, FS_CardinalityType

\* Where the byte at offset o of the slots lies in the piece that starts at start.
LEMMA PlaceInPiece ==
  ASSUME NEW o \in Nat, NEW a \in Nat, NEW fu \in Nat, NEW index \in Nat,
         NEW start \in Nat, NEW len \in Nat,
         fu - index = a - start, start <= a + o, a + o < start + len
  PROVE  fu + o - index + 1 = a + o - start + 1 /\ a + o - start + 1 \in 1 .. len
  OBVIOUS

\* The bounds l and r of create_segment() let through only bytes of the piece
\* of len bytes at start for which there is room.
Lets(x, C, a, start, len, index, l, r) ==
  \A o \in 0 .. (C - 1) :
    l <= x.output.bytesWritten + o /\ x.output.bytesWritten + o < r =>
      /\ start <= a + o /\ a + o < start + len
      /\ x.output.bytesWritten - index = a - start
      /\ o < C - Len(x.output.buffer)

\* create_segment() stores bytes of the text at their places, counts each once
\* and overwrites none, and it stores what its bounds let through.
LEMMA Created ==
  ASSUME NEW x, NEW T, NEW B, NEW C, NEW a, Holds(x, T, B, C, a),
         NEW start \in Nat, NEW len \in Nat, start + len <= Len(T),
         NEW index \in Nat, NEW l \in Int, NEW r \in Int,
         Lets(x, C, a, start, len, index, l, r),
         NEW y, y = CreateSegment(x, x.output.bytesWritten, index, l, r,
                                  SubSeq(T, start + 1, start + len))
  PROVE  /\ Holds(y, T, B, C, a) /\ y.output = x.output /\ y.received_EOF = x.received_EOF
         /\ Filled(x) \subseteq Filled(y)
         /\ \A o \in 0 .. (C - 1) :
              l <= x.output.bytesWritten + o /\ x.output.bytesWritten + o < r => o \in Filled(y)
  <1> DEFINE fu   == x.output.bytesWritten
             data == SubSeq(T, start + 1, start + len)
             new  == { o \in 0 .. (C - 1) : l <= fu + o /\ fu + o < r /\ x.slots[o] = NoByte }
             sl   == [o \in 0 .. (C - 1) |->
                        IF o \in new THEN data[fu + o - index + 1] ELSE x.slots[o]]
  <1>1. /\ TextOf(T, B, C) /\ x \in Working(B, C)
        /\ a \in Nat /\ a <= Len(T) /\ x.output.bytesWritten = a % Modulus
        /\ Len(x.output.buffer) <= C
        /\ StoredAt(x, T, C, a) /\ CountsStored(x)
    BY DEF Holds
  <1>2. T \in Seq(B) /\ Len(T) \in Nat /\ NoByte \notin B /\ C \in Nat
    BY <1>1 DEF TextOf
  <1>3. /\ fu \in Nat /\ x.capacity = C /\ x.output \in OutputOf(B, C)
        /\ x.slots \in SlotsOf(B, C) /\ x.num_unassembled \in Int /\ Len(x.output.buffer) \in Nat
    BY <1>1, <1>2, WorkingFields
  <1>4. y = [x EXCEPT !.slots = sl, !.num_unassembled = x.num_unassembled + Cardinality(new)]
    BY <1>3 DEF CreateSegment
  <1>5. /\ y.output = x.output /\ y.received_EOF = x.received_EOF /\ y.capacity = C
        /\ y.slots = sl /\ y.num_unassembled = x.num_unassembled + Cardinality(new)
    BY <1>1, <1>3, <1>4, Zenon DEF Working
  <1>6. new \subseteq 0 .. (C - 1)
    OBVIOUS
  <1>7. \A o \in new : /\ o < C - Len(x.output.buffer)
                       /\ a + o + 1 \in 1 .. Len(T)
                       /\ data[fu + o - index + 1] = T[a + o + 1]
    <2> SUFFICES ASSUME NEW o \in new
                 PROVE  /\ o < C - Len(x.output.buffer)
                        /\ a + o + 1 \in 1 .. Len(T)
                        /\ data[fu + o - index + 1] = T[a + o + 1]
      BY Zenon
    <2>1. /\ o \in 0 .. (C - 1) /\ start <= a + o /\ a + o < start + len
          /\ fu - index = a - start /\ o < C - Len(x.output.buffer)
      BY <1>6 DEF Lets
    <2> HIDE DEF fu, new, sl, data
    <2>2. o \in Nat /\ a \in Nat /\ fu \in Nat
      BY <1>1, <1>2, <1>3, <2>1
    <2>3. fu + o - index + 1 = a + o - start + 1 /\ a + o - start + 1 \in 1 .. len
      BY <2>1, <2>2, PlaceInPiece
    <2>4. data[a + o - start + 1] = T[start + (a + o - start + 1)]
      BY <1>2, <2>3, TextPiece DEF data
    <2>5. start + (a + o - start + 1) = a + o + 1
      BY <1>1, <2>2
    <2>6. a + o + 1 \in 1 .. Len(T)
      BY <1>1, <1>2, <2>1, <2>2
    <2> QED BY <2>1, <2>3, <2>4, <2>5, <2>6
  <1>8. \A o \in 0 .. (C - 1) : sl[o] = IF o \in new THEN T[a + o + 1] ELSE x.slots[o]
    BY <1>7, Zenon
  <1>9. \A o \in new : T[a + o + 1] \in B /\ T[a + o + 1] # NoByte
    BY <1>2, <1>7
  <1>a. \A o \in 0 .. (C - 1) : l <= fu + o /\ fu + o < r => o \in new \/ x.slots[o] # NoByte
    OBVIOUS
  <1> HIDE DEF new, data
  <1>10. sl \in SlotsOf(B, C)
    BY <1>3, <1>8, <1>9, Zenon DEF SlotsOf
  <1>11. Filled(y) = Filled(x) \cup new
    BY <1>3, <1>5, <1>6, <1>8, <1>9, ZenonT(60) DEF Filled
  <1>12. Filled(x) \cap new = {}
    BY <1>3 DEF Filled, new
  <1>b. \A o \in 0 .. (C - 1) : l <= fu + o /\ fu + o < r => o \in Filled(y)
    BY <1>a, <1>3, <1>11 DEF Filled
  <1> HIDE DEF sl
  <1>13. IsFiniteSet(new) /\ Cardinality(new) \in Nat
    <2>1. IsFiniteSet(0 .. (C - 1))
      <3>1. 0 \in Int /\ C - 1 \in Int
        BY <1>2
      <3> QED BY <3>1, FS_Interval
    <2> QED BY <1>6, <2>1, FS_Subset, FS_CardinalityType, Zenon
  <1>14. y \in Working(B, C)
    <2>1. x.num_unassembled + Cardinality(new) \in Int
      BY <1>3, <1>13
    <2> QED BY <1>1, <1>4, <1>10, <2>1, Zenon DEF Working
  <1>15. CountsStored(y)
    <2>1. IsFiniteSet(Filled(x)) /\ Cardinality(Filled(x)) \in Nat
      BY <1>1, <1>2, FilledFinite, FS_CardinalityType
    <2>2. Cardinality(Filled(x) \cup new)
            = Cardinality(Filled(x)) + Cardinality(new) - Cardinality(Filled(x) \cap new)
      BY <1>13, <2>1, FS_Union
    <2>3. Cardinality(Filled(x) \cap new) = 0
      BY <1>12, FS_EmptySet, Zenon
    <2>4. Cardinality(Filled(y)) = Cardinality(Filled(x)) + Cardinality(new) - 0
      BY <1>11, <2>2, <2>3, Zenon
    <2>5. x.num_unassembled = Cardinality(Filled(x))
      BY <1>1 DEF CountsStored
    <2> QED BY <1>5, <1>13, <2>1, <2>4, <2>5 DEF CountsStored
  <1>16. StoredAt(y, T, C, a)
    <2> SUFFICES ASSUME NEW o \in 0 .. (C - 1), sl[o] # NoByte
                 PROVE  o < C - Len(x.output.buffer) /\ a + o + 1 <= Len(T) /\ sl[o] = T[a + o + 1]
      BY <1>5 DEF StoredAt
    <2>1. CASE o \in new
      BY <2>1, <1>1, <1>2, <1>7, <1>8
    <2>2. CASE o \notin new
      BY <2>2, <1>1, <1>8 DEF StoredAt
    <2> QED BY <2>1, <2>2
  <1>17. Holds(y, T, B, C, a)
    BY <1>1, <1>5, <1>14, <1>15, <1>16 DEF Holds
  <1> QED BY <1>5, <1>11, <1>17, <1>b

\* The assembled prefix of the slots exists.
LEMMA AssembledPrefix ==
  ASSUME NEW B, NEW C \in Nat, NEW x \in Working(B, C)
  PROVE  /\ NumAssembled(x) \in 0 .. C
         /\ \A o \in 0 .. (NumAssembled(x) - 1) : x.slots[o] # NoByte
         /\ NumAssembled(x) = C \/ x.slots[NumAssembled(x)] = NoByte
  <1> DEFINE S == { k \in 0 .. C : k = C \/ x.slots[k] = NoByte }
  <1>1. x.capacity = C
    BY WorkingFields
  <1>2. S \in SUBSET Nat /\ S # {}
    OBVIOUS
  <1>3. PICK k \in S : \A j \in S : k <= j
    BY <1>2, LeastNumber, Zenon
  <1>4. \A o \in 0 .. (k - 1) : x.slots[o] # NoByte
    <2> SUFFICES ASSUME NEW o \in 0 .. (k - 1), x.slots[o] = NoByte
                 PROVE  FALSE
      OBVIOUS
    <2>1. o \in S /\ o < k
      OBVIOUS
    <2> QED BY <1>3, <2>1
  <1>5. k \in 0 .. C /\ (k = C \/ x.slots[k] = NoByte)
    OBVIOUS
  <1> HIDE DEF S
  <1> QED BY <1>1, <1>4, <1>5 DEF NumAssembled

\* What write_segment() takes out of the slots.
AssembledBytes(x) == [i \in 1 .. NumAssembled(x) |-> x.slots[i - 1]]

\* The output stream s with w appended and b bytes written.
Grown(s, w, b) == [s EXCEPT !.buffer = s.buffer \o w, !.bytesWritten = b]

\* It is the next bytes of the text, and the output stream takes all of it.
LEMMA WrittenOut ==
  ASSUME NEW x, NEW T, NEW B, NEW C, NEW a, Holds(x, T, B, C, a)
  PROVE  LET k == NumAssembled(x)
             w == AssembledBytes(x)
         IN  /\ k \in Nat /\ k <= C - Len(x.output.buffer) /\ a + k <= Len(T)
             /\ w \in Seq(B) /\ Len(w) = k /\ w = SubSeq(T, a + 1, a + k)
             /\ StreamWrite(x.output, w) = Grown(x.output, w, (a + k) % Modulus)
  <1> DEFINE k == NumAssembled(x)
             w == AssembledBytes(x)
             n == Len(x.output.buffer)
             v == SubSeq(T, a + 1, a + k)
  <1>1. /\ T \in Seq(B) /\ C \in Nat /\ x \in Working(B, C) /\ a \in Nat /\ a <= Len(T)
        /\ Len(T) \in Nat /\ n <= C /\ x.output.bytesWritten = a % Modulus
        /\ StoredAt(x, T, C, a)
    BY DEF Holds, TextOf
  <1>2. n \in Nat /\ x.output.capacity = C /\ x.output \in OutputOf(B, C)
    BY <1>1, WorkingFields
  <1>3. k \in 0 .. C /\ \A o \in 0 .. (k - 1) : x.slots[o] # NoByte
    BY <1>1, AssembledPrefix
  <1>8. w = [i \in 1 .. k |-> x.slots[i - 1]]
    BY Zenon DEF AssembledBytes
  <1> HIDE DEF k, w
  <1>4. \A o \in 0 .. (k - 1) : o \in 0 .. (C - 1)
    BY <1>1, <1>3
  <1>5. \A o \in 0 .. (k - 1) : o < C - n /\ a + o + 1 <= Len(T) /\ x.slots[o] = T[a + o + 1]
    BY <1>1, <1>3, <1>4, Zenon DEF StoredAt
  <1> HIDE DEF n
  <1>6. k \in Nat /\ k <= C - n /\ a + k <= Len(T)
    <2>1. CASE k = 0
      BY <1>1, <1>2, <2>1
    <2>2. CASE k > 0
      <3>1. k - 1 \in 0 .. (k - 1)
        BY <1>1, <1>3, <2>2
      <3>2. k - 1 < C - n /\ a + (k - 1) + 1 <= Len(T)
        BY <1>5, <3>1
      <3> QED BY <1>1, <1>2, <1>3, <3>2
    <2> QED BY <1>1, <1>3, <2>1, <2>2
  <1>7. v \in Seq(B) /\ Len(v) = k /\ \A i \in 1 .. k : v[i] = T[a + i]
    BY <1>1, <1>6, TextPiece
  <1>9. \A i \in 1 .. k : w[i] = T[a + i]
    <2> SUFFICES ASSUME NEW i \in 1 .. k PROVE w[i] = T[a + i]
      BY Zenon
    <2>1. i - 1 \in 0 .. (k - 1) /\ a + (i - 1) + 1 = a + i
      BY <1>1, <1>6
    <2>2. x.slots[i - 1] = T[a + i]
      BY <1>5, <2>1
    <2> QED BY <1>8, <2>2
  <1> HIDE DEF v
  <1>10. \A i \in 1 .. k : v[i] \in B
    BY <1>7
  <1>11. w \in Seq(B) /\ Len(w) = k
    <2>1. w \in [1 .. k -> B]
      BY <1>7, <1>8, <1>9, <1>10
    <2> QED BY <1>6, <2>1, ListIsSequence
  <1>12. w = v
    <2>1. \A i \in 1 .. Len(w) : w[i] = v[i]
      BY <1>7, <1>9, <1>11, Zenon
    <2> QED BY <1>7, <1>11, <2>1
  <1>13. Minimum(Len(w), RemainingCapacity(x.output)) = k
    <2>1. RemainingCapacity(x.output) = C - n
      BY <1>2 DEF RemainingCapacity, n
    <2> QED BY <1>1, <1>2, <1>6, <1>11, <2>1 DEF Minimum
  <1>14. SubSeq(w, 1, k) = w
    BY <1>6, <1>11
  <1>15. (x.output.bytesWritten + k) % Modulus = (a + k) % Modulus
    <2>1. ((a % Modulus) + k) % Modulus = (a + k) % Modulus
      BY <1>1, <1>6, ModSum
    <2> QED BY <1>1, <2>1, Zenon
  <1>16. StreamWrite(x.output, w) = Grown(x.output, w, (a + k) % Modulus)
    BY <1>13, <1>14, <1>15, Zenon DEF StreamWrite, Grown
  <1> QED BY <1>6, <1>11, <1>12, <1>16 DEF n, v, k, w

\* y is x after k assembled bytes were written out.
Writes(x, y, T, B, C, a, k) ==
  /\ k \in Nat /\ Holds(y, T, B, C, a + k) /\ 0 \notin Filled(y)
  /\ y.received_EOF = x.received_EOF
  /\ y.output.isInputEnded = x.output.isInputEnded
  /\ y.output.bytesRead = x.output.bytesRead /\ y.output.error = x.output.error
  /\ y.output.buffer = x.output.buffer \o SubSeq(T, a + 1, a + k)
  /\ Len(y.output.buffer) = Len(x.output.buffer) + k
  /\ \A o \in Filled(x) : o < k \/ o - k \in Filled(y)

\* write_segment() writes out what is assembled, keeps the places and the
\* count, and leaves the first slot empty.
LEMMA Written ==
  ASSUME NEW x, NEW T, NEW B, NEW C, NEW a, Holds(x, T, B, C, a),
         NEW y, y = WriteSegment(x), NEW k, k = NumAssembled(x)
  PROVE  Writes(x, y, T, B, C, a, k)
  <1> DEFINE n == Len(x.output.buffer)
             w == AssembledBytes(x)
             b == (a + k) % Modulus
             out == Grown(x.output, w, b)
             sl == [o \in 0 .. (C - 1) |-> IF o + k < C THEN x.slots[o + k] ELSE NoByte]
  <1>1. /\ TextOf(T, B, C) /\ T \in Seq(B) /\ C \in Nat /\ x \in Working(B, C)
        /\ a \in Nat /\ a <= Len(T)
        /\ Len(T) \in Nat /\ n <= C /\ StoredAt(x, T, C, a) /\ CountsStored(x)
    BY DEF Holds, TextOf
  <1>2. /\ n \in Nat /\ x.capacity = C /\ x.output \in OutputOf(B, C)
        /\ x.slots \in SlotsOf(B, C) /\ x.num_unassembled \in Int
        /\ x.output.buffer \in Seq(B)
    BY <1>1, WorkingFields
  <1>3. /\ k \in Nat /\ k <= C - n /\ a + k <= Len(T)
        /\ w \in Seq(B) /\ Len(w) = k /\ w = SubSeq(T, a + 1, a + k)
        /\ StreamWrite(x.output, w) = out
    BY WrittenOut, Zenon
  <1>a. C \in Nat /\ n \in Nat /\ k \in Nat /\ a \in Nat /\ k <= C - n
    BY <1>1, <1>2, <1>3, Zenon
  <1>4. y = [x EXCEPT !.output = out, !.slots = sl, !.num_unassembled = x.num_unassembled - k]
    BY <1>2, <1>3, Zenon DEF WriteSegment, AssembledBytes
  <1> HIDE DEF w, b
  <1>5. /\ y.output = out /\ y.slots = sl /\ y.capacity = C
        /\ y.num_unassembled = x.num_unassembled - k /\ y.received_EOF = x.received_EOF
    BY <1>1, <1>2, <1>4 DEF Working
  <1>6. /\ out.buffer = x.output.buffer \o w /\ out.bytesWritten = b
        /\ out.isInputEnded = x.output.isInputEnded
        /\ out.bytesRead = x.output.bytesRead /\ out.error = x.output.error
    BY <1>2 DEF OutputOf, Grown
  <1>7. x.output.buffer \o w \in Seq(B) /\ Len(x.output.buffer \o w) = n + k
    <2>1. /\ x.output.buffer \o w \in Seq(B)
          /\ Len(x.output.buffer \o w) = Len(x.output.buffer) + Len(w)
      BY <1>2, <1>3
    <2> QED BY <1>3, <2>1
  <1>8. b \in WrappingInt
    <2>1. a + k \in Int
      BY <1>1, <1>3
    <2> QED BY <2>1, ModDivides DEF b
  <1>9. out \in OutputOf(B, C)
    BY <1>2, <1>7, <1>8, Zenon DEF OutputOf, Grown
  <1>10. \A o \in 0 .. (C - 1) : o + k < C => o + k \in 0 .. (C - 1)
    BY <1>a
  <1>11. sl \in SlotsOf(B, C)
    BY <1>2, <1>10, Zenon DEF SlotsOf
  <1> HIDE DEF out
  <1>12. y \in Working(B, C)
    <2>1. x.num_unassembled - k \in Int
      BY <1>2, <1>3
    <2> HIDE DEF sl
    <2> QED BY <1>1, <1>4, <1>9, <1>11, <2>1, Zenon DEF Working
  <1>13. StoredAt(y, T, C, a + k)
    <2> SUFFICES ASSUME NEW o \in 0 .. (C - 1), sl[o] # NoByte
                 PROVE  /\ o < C - (n + k)
                        /\ (a + k) + o + 1 <= Len(T) /\ sl[o] = T[(a + k) + o + 1]
      BY <1>5, <1>6, <1>7 DEF StoredAt
    <2>1. o + k \in 0 .. (C - 1) /\ sl[o] = x.slots[o + k] /\ x.slots[o + k] # NoByte
      BY <1>10
    <2>2. /\ o + k < C - n /\ a + (o + k) + 1 <= Len(T)
          /\ x.slots[o + k] = T[a + (o + k) + 1]
      BY <1>1, <2>1, Zenon DEF StoredAt
    <2> HIDE DEF n, sl
    <2>3. a + (o + k) + 1 = (a + k) + o + 1 /\ o \in Int
      BY <1>1, <1>3
    <2> QED BY <1>a, <2>1, <2>2, <2>3
  <1>14. /\ \A o \in 0 .. (k - 1) : x.slots[o] # NoByte
         /\ k = C \/ x.slots[k] = NoByte
    BY <1>1, AssembledPrefix
  <1>15. 0 \notin Filled(y)
    <2>1. 0 + k = k /\ (0 \in 0 .. (C - 1) => sl[0] = IF 0 + k < C THEN x.slots[0 + k] ELSE NoByte)
      BY <1>a
    <2> HIDE DEF n, sl
    <2> QED BY <1>a, <1>5, <1>14, <2>1 DEF Filled
  <1>16. Filled(y) = { o \in 0 .. (C - 1) : o + k < C /\ x.slots[o + k] # NoByte }
    BY <1>5 DEF Filled
  <1>17. Filled(x) = { o \in 0 .. (C - 1) : x.slots[o] # NoByte }
    BY <1>2, Zenon DEF Filled
  <1> HIDE DEF n, sl
  <1>18. \A o \in Filled(x) : o < k \/ o - k \in Filled(y)
    BY <1>a, <1>16, <1>17
  <1>19. CountsStored(y)
    <2> DEFINE P == 0 .. (k - 1)
               f == [o \in Filled(y) |-> o + k]
    <2>1. P \subseteq Filled(x)
      BY <1>a, <1>14, <1>17
    <2>2. IsFiniteSet(P) /\ Cardinality(P) = k
      <3>1. 0 \in Int /\ k - 1 \in Int
        BY <1>3
      <3>2. /\ IsFiniteSet(0 .. (k - 1))
            /\ Cardinality(0 .. (k - 1)) = IF 0 > k - 1 THEN 0 ELSE (k - 1) - 0 + 1
        BY <3>1, FS_Interval
      <3> QED BY <1>3, <3>2
    <2>3. f \in Bijection(Filled(y), Filled(x) \ P)
      <3>1. \A o \in Filled(y) : o \in Int /\ o + k \in Filled(x) \ P
        BY <1>a, <1>16, <1>17
      <3>2. \A c, d \in Filled(y) : c + k = d + k => c = d
        BY <1>3, <3>1
      <3>3. \A o \in Filled(x) \ P : o - k \in Filled(y) /\ (o - k) + k = o
        BY <1>a, <1>16, <1>17
      <3>4. f \in Injection(Filled(y), Filled(x) \ P)
        BY <3>1, <3>2 DEF Injection, IsInjective
      <3>5. f \in Surjection(Filled(y), Filled(x) \ P)
        BY <3>1, <3>3 DEF Surjection
      <3> QED BY <3>4, <3>5 DEF Bijection
    <2> HIDE DEF P, f
    <2>4. IsFiniteSet(Filled(x)) /\ IsFiniteSet(Filled(y))
      BY <1>1, <1>12, FilledFinite
    <2>5. Cardinality(Filled(x) \ P) = Cardinality(Filled(y))
      BY <2>3, <2>4, FS_Bijection DEF ExistsBijection
    <2>6. Cardinality(Filled(x) \ P) = Cardinality(Filled(x)) - Cardinality(Filled(x) \cap P)
      BY <2>4, FS_Difference
    <2>7. Filled(x) \cap P = P
      BY <2>1
    <2>8. Cardinality(Filled(y)) = Cardinality(Filled(x)) - k
      BY <2>2, <2>5, <2>6, <2>7, Zenon
    <2> QED BY <1>1, <1>5, <2>8 DEF CountsStored
  <1>20. n + k <= C /\ a + k \in Nat
    BY <1>a
  <1>21. Holds(y, T, B, C, a + k)
    BY <1>1, <1>3, <1>5, <1>6, <1>7, <1>12, <1>13, <1>19, <1>20, Zenon DEF Holds, b
  <1> QED BY <1>3, <1>5, <1>6, <1>7, <1>15, <1>18, <1>21 DEF n, Writes

\* Taking note of the end touches nothing else.
LEMMA Noted ==
  ASSUME NEW x, NEW T, NEW B, NEW C, NEW a, Holds(x, T, B, C, a), NEW e \in BOOLEAN,
         NEW y, y = [x EXCEPT !.received_EOF = e]
  PROVE  /\ Holds(y, T, B, C, a) /\ y.output = x.output /\ Filled(y) = Filled(x)
         /\ y.received_EOF = e
  <1>1. x \in Working(B, C) /\ StoredAt(x, T, C, a) /\ CountsStored(x)
    BY DEF Holds
  <1>2. /\ y.output = x.output /\ y.slots = x.slots /\ y.capacity = x.capacity
        /\ y.num_unassembled = x.num_unassembled /\ y.received_EOF = e /\ y \in Working(B, C)
    BY <1>1 DEF Working
  <1>3. Filled(y) = Filled(x) /\ StoredAt(y, T, C, a) /\ CountsStored(y)
    BY <1>1, <1>2, Zenon DEF Filled, StoredAt, CountsStored
  <1> QED BY <1>2, <1>3, Zenon DEF Holds

\* A flag of the output stream is set; the bytes stay.
LEMMA Flagged ==
  ASSUME NEW x, NEW T, NEW B, NEW C, NEW a, Holds(x, T, B, C, a),
         NEW out, out = EndInput(x.output) \/ out = SetError(x.output),
         NEW y, y = [x EXCEPT !.output = out]
  PROVE  /\ Holds(y, T, B, C, a) /\ Filled(y) = Filled(x) /\ y.output = out
         /\ out.buffer = x.output.buffer /\ out.bytesRead = x.output.bytesRead
         /\ y.received_EOF = x.received_EOF /\ y.num_unassembled = x.num_unassembled
  <1>1. /\ x \in Working(B, C) /\ StoredAt(x, T, C, a) /\ CountsStored(x) /\ C \in Nat
        /\ Len(x.output.buffer) <= C /\ x.output.bytesWritten = a % Modulus
    BY DEF Holds, TextOf
  <1>2. x.output \in OutputOf(B, C)
    BY <1>1, WorkingFields
  <1>3. /\ out \in OutputOf(B, C) /\ out.buffer = x.output.buffer
        /\ out.bytesWritten = x.output.bytesWritten /\ out.bytesRead = x.output.bytesRead
    <2>1. CASE out = EndInput(x.output)
      BY <1>2, <2>1, Zenon DEF OutputOf, EndInput
    <2>2. CASE out = SetError(x.output)
      BY <1>2, <2>2, Zenon DEF OutputOf, SetError
    <2> QED BY <2>1, <2>2, Zenon
  <1>4. /\ y.output = out /\ y.slots = x.slots /\ y.capacity = x.capacity
        /\ y.num_unassembled = x.num_unassembled /\ y.received_EOF = x.received_EOF
        /\ y \in Working(B, C)
    BY <1>1, <1>3 DEF Working
  <1>5. Filled(y) = Filled(x) /\ CountsStored(y)
    BY <1>1, <1>4, Zenon DEF Filled, CountsStored
  <1>6. StoredAt(y, T, C, a)
    BY <1>1, <1>3, <1>4 DEF StoredAt
  <1>7. Holds(y, T, B, C, a)
    BY <1>1, <1>3, <1>4, <1>5, <1>6 DEF Holds
  <1> QED BY <1>3, <1>4, <1>5, <1>7, Zenon

\* y is x after the end was signalled if it was seen and nothing waits.
Finishes(x, y, T, B, C, a) ==
  /\ Holds(y, T, B, C, a) /\ Filled(y) = Filled(x)
  /\ y.output.buffer = x.output.buffer
  /\ y.output.bytesRead = x.output.bytesRead /\ y.output.error = x.output.error
  /\ y.received_EOF /\ y.num_unassembled = 0 => y.output.isInputEnded
  /\ y.received_EOF = x.received_EOF
  /\ x.output.isInputEnded => y.output.isInputEnded
  /\ y.output.isInputEnded => x.output.isInputEnded \/ (y.received_EOF /\ y.num_unassembled = 0)

\* The end is signalled when nothing waits and the end is known.
LEMMA Ended ==
  ASSUME NEW x, NEW T, NEW B, NEW C, NEW a, Holds(x, T, B, C, a),
         NEW y, y = MaybeEndInput(x)
  PROVE  Finishes(x, y, T, B, C, a)
  <1>1. CASE ~(x.received_EOF /\ x.num_unassembled = 0)
    <2>1. y = x
      BY <1>1, Zenon DEF MaybeEndInput
    <2> QED BY <1>1, <2>1, Zenon DEF Finishes
  <1>2. CASE x.received_EOF /\ x.num_unassembled = 0
    <2> DEFINE out == EndInput(x.output)
    <2>1. y = [x EXCEPT !.output = out]
      BY <1>2 DEF MaybeEndInput
    <2>2. out.isInputEnded = TRUE /\ out.error = x.output.error
      <3>1. C \in Nat /\ x \in Working(B, C)
        BY DEF Holds, TextOf
      <3>2. x.output \in OutputOf(B, C)
        BY <3>1, WorkingFields
      <3> QED BY <3>2, Zenon DEF OutputOf, EndInput
    <2>3. out = EndInput(x.output) \/ out = SetError(x.output)
      BY Zenon
    <2> HIDE DEF out
    <2>4. /\ Holds(y, T, B, C, a) /\ Filled(y) = Filled(x) /\ y.output = out
          /\ out.buffer = x.output.buffer /\ out.bytesRead = x.output.bytesRead
          /\ y.received_EOF = x.received_EOF /\ y.num_unassembled = x.num_unassembled
      BY <2>1, <2>3, Flagged
    <2> QED BY <1>2, <2>2, <2>4, Zenon DEF Finishes
  <1> QED BY <1>1, <1>2, Zenon
-----------------------------------------------------------------------------
\* index is where the piece at start belongs, measured from the first byte
\* that is missing.
Aims(x, a, start, len, index) ==
  x.output.bytesWritten - index = a - start /\ index + len < SizeModulus

\* index is too far ahead for any byte to be stored.
Beyond(x, C, index) == index >= x.output.bytesWritten + C

\* y is x after k more bytes of the text were assembled; what was stored is
\* still there or among them.
Advances(x, y, T, B, C, a, k) ==
  /\ k \in Nat /\ Holds(y, T, B, C, a + k) /\ 0 \notin Filled(y)
  /\ y.output.buffer = x.output.buffer \o SubSeq(T, a + 1, a + k)
  /\ Len(y.output.buffer) = Len(x.output.buffer) + k
  /\ y.output.bytesRead = x.output.bytesRead /\ y.output.error = x.output.error
  /\ \A o \in Filled(x) : o < k \/ o - k \in Filled(y)
  /\ y.received_EOF /\ y.num_unassembled = 0 => y.output.isInputEnded

\* The bytes of the piece at start for which x has room are assembled in y,
\* or stored.
Takes(x, y, C, a, k, start, len) ==
  \A p \in start .. (start + len - 1) :
    a <= p /\ p < a + C - Len(x.output.buffer) => p < a + k \/ p - (a + k) \in Filled(y)

\* The end is noted only when it is said, and signalled only when it is noted
\* and nothing waits; neither is taken back.
Closes(x, y, eof) ==
  /\ x.received_EOF => y.received_EOF
  /\ y.received_EOF => x.received_EOF \/ eof
  /\ x.output.isInputEnded => y.output.isInputEnded
  /\ y.output.isInputEnded => x.output.isInputEnded \/ (y.received_EOF /\ y.num_unassembled = 0)

\* The bounds that push_substring() computes.
LEMMA Bounds ==
  ASSUME NEW x, NEW T, NEW B, NEW C, NEW a, Holds(x, T, B, C, a),
         NEW start \in Nat, NEW len \in Nat, NEW index \in Nat,
         NEW last \in Nat,
         NEW l, l = Maximum(FirstUnassembled(x), index),
         NEW r, r = Minimum(FirstUnacceptable(x), last)
  PROVE  /\ l \in Int /\ r \in Int
         /\ Beyond(x, C, index) \/ last = index => Lets(x, C, a, start, len, index, l, r)
         /\ Aims(x, a, start, len, index) /\ last = index + len =>
              /\ Lets(x, C, a, start, len, index, l, r)
              /\ \A o \in 0 .. (C - 1) :
                   start <= a + o /\ a + o < start + len /\ o < C - Len(x.output.buffer) =>
                     l <= x.output.bytesWritten + o /\ x.output.bytesWritten + o < r
  <1> DEFINE fu == x.output.bytesWritten
             n  == Len(x.output.buffer)
  <1>1. C \in Nat /\ a \in Nat /\ x \in Working(B, C)
    BY DEF Holds, TextOf
  <1>2. fu \in Nat /\ n \in Nat /\ x.capacity = C
    BY <1>1, WorkingFields
  <1>3. FirstUnassembled(x) = fu /\ FirstUnacceptable(x) = fu + C - n
    BY <1>2 DEF FirstUnassembled, FirstUnacceptable, BufferSize
  <1> HIDE DEF fu, n
  <1>4. /\ l \in Int /\ r \in Int /\ l >= fu /\ l >= index /\ (l = fu \/ l = index)
        /\ r <= fu + C - n /\ r <= last /\ (r = fu + C - n \/ r = last)
    BY <1>1, <1>2, <1>3 DEF Maximum, Minimum
  <1>5. ASSUME index >= fu + C \/ last = index
        PROVE  \A o \in 0 .. (C - 1) : ~(l <= fu + o /\ fu + o < r)
    BY <1>1, <1>2, <1>4, <1>5
  <1>6. Beyond(x, C, index) \/ last = index => Lets(x, C, a, start, len, index, l, r)
    BY <1>5, Zenon DEF Beyond, Lets, fu
  <1>7. ASSUME fu - index = a - start, last = index + len, NEW o \in 0 .. (C - 1)
        PROVE  /\ l <= fu + o /\ fu + o < r =>
                    start <= a + o /\ a + o < start + len /\ o < C - n
               /\ start <= a + o /\ a + o < start + len /\ o < C - n =>
                    l <= fu + o /\ fu + o < r
    <2>1. index = fu - a + start
      BY <1>1, <1>2, <1>7
    <2> QED BY <1>1, <1>2, <1>4, <1>7, <2>1
  <1> QED BY <1>4, <1>6, <1>7, Zenon DEF Aims, Lets, fu, n

\* push_substring() of a piece of the text: what is assembled grows by the next
\* bytes of the text, and a piece whose index is right is taken as far as there
\* is room.  Where an empty piece is said to lie does not matter.
LEMMA Pushed ==
  ASSUME NEW x, NEW T, NEW B, NEW C, NEW a, Holds(x, T, B, C, a),
         NEW start \in Nat, NEW len \in Nat, start + len <= Len(T),
         NEW index \in Nat, NEW eof \in BOOLEAN,
         Aims(x, a, start, len, index) \/ Beyond(x, C, index) \/ (len = 0 /\ index < SizeModulus),
         NEW y, y = PushSubstring(x, SubSeq(T, start + 1, start + len), index, eof)
  PROVE  /\ \E k \in Nat : /\ Advances(x, y, T, B, C, a, k)
                           /\ Aims(x, a, start, len, index) => Takes(x, y, C, a, k, start, len)
         /\ Closes(x, y, eof)
         /\ eof /\ Aims(x, a, start, len, index) /\ start + len <= a + C - Len(x.output.buffer) =>
              y.received_EOF
  <1> DEFINE data   == SubSeq(T, start + 1, start + len)
             fu     == x.output.bytesWritten
             n      == Len(x.output.buffer)
             last   == (index + Len(data)) % SizeModulus
             l      == Maximum(FirstUnassembled(x), index)
             r      == Minimum(FirstUnacceptable(x), last)
             e      == x.received_EOF \/ (eof /\ r = last)
             noted  == NoteEOF(x, index, r, last, eof)
             stored == CreateSegment(noted, fu, index, l, r, data)
             z      == WriteSegment(stored)
             k      == NumAssembled(stored)
  <1>1. y = MaybeEndInput(z)
    BY Zenon DEF PushSubstring, FirstUnassembled
  <1>2. C \in Nat /\ a \in Nat /\ T \in Seq(B) /\ x \in Working(B, C)
    BY DEF Holds, TextOf
  <1>3. fu \in Nat /\ n \in Nat
    BY <1>2, WorkingFields
  <1>4. /\ last \in Nat /\ (Aims(x, a, start, len, index) => last = index + len)
        /\ len = 0 /\ index < SizeModulus => last = index
    <2>1. Len(data) = len
      BY <1>2, TextPiece
    <2>2. SizeModulus \in Nat /\ SizeModulus > 0
      BY SizeAssumption, ModulusAssumption
    <2>3. (index + len) % SizeModulus \in Nat
      BY <2>2
    <2>4. index + len < SizeModulus => (index + len) % SizeModulus = index + len
      BY <2>2
    <2>5. len = 0 => index + len = index
      OBVIOUS
    <2> QED BY <2>1, <2>3, <2>4, <2>5, Zenon DEF Aims
  <1> HIDE DEF last
  <1>14. Aims(x, a, start, len, index) /\ start + len <= a + C - n => r = last
    <2> SUFFICES ASSUME Aims(x, a, start, len, index), start + len <= a + C - n PROVE r = last
      BY Zenon
    <2>4. x.capacity = C
      BY <1>2, WorkingFields
    <2>1. last = index + len /\ fu - index = a - start /\ x.capacity = C
      BY <1>4, <2>4, Zenon DEF Aims
    <2>2. FirstUnacceptable(x) = fu + C - n
      BY <2>1, Zenon DEF FirstUnacceptable, FirstUnassembled, BufferSize
    <2> HIDE DEF fu, n
    <2>3. last <= fu + C - n
      BY <1>2, <1>3, <2>1
    <2> QED BY <1>2, <1>3, <1>4, <2>2, <2>3 DEF Minimum
  <1>5. /\ l \in Int /\ r \in Int
        /\ Lets(x, C, a, start, len, index, l, r)
        /\ Aims(x, a, start, len, index) =>
             \A o \in 0 .. (C - 1) :
               start <= a + o /\ a + o < start + len /\ o < C - n => l <= fu + o /\ fu + o < r
    <2>1. /\ l \in Int /\ r \in Int
          /\ Beyond(x, C, index) \/ last = index => Lets(x, C, a, start, len, index, l, r)
          /\ Aims(x, a, start, len, index) /\ last = index + len =>
               /\ Lets(x, C, a, start, len, index, l, r)
               /\ \A o \in 0 .. (C - 1) :
                    start <= a + o /\ a + o < start + len /\ o < C - n => l <= fu + o /\ fu + o < r
      BY <1>4, Bounds, Zenon
    <2> HIDE DEF l, r, fu, n
    <2> QED BY <1>4, <2>1, Zenon
  <1> HIDE DEF l, r
  <1>6. /\ Holds(noted, T, B, C, a) /\ noted.output = x.output /\ Filled(noted) = Filled(x)
        /\ noted.received_EOF = e
    <2>1. e \in BOOLEAN
      BY Zenon
    <2>2. noted = [x EXCEPT !.received_EOF = e]
      BY DEF NoteEOF
    <2> HIDE DEF noted, e
    <2> QED BY <2>1, <2>2, Noted
  <1>7. Lets(noted, C, a, start, len, index, l, r)
    BY <1>5, <1>6, Zenon DEF Lets
  <1>8. stored = CreateSegment(noted, noted.output.bytesWritten, index, l, r, data)
    BY <1>6, ZenonT(60)
  <1> HIDE DEF noted, stored
  <1> HIDE DEF e
  <1>9. /\ Holds(stored, T, B, C, a) /\ stored.output = x.output /\ Filled(x) \subseteq Filled(stored)
        /\ stored.received_EOF = e
        /\ \A o \in 0 .. (C - 1) : l <= fu + o /\ fu + o < r => o \in Filled(stored)
    <2>1. /\ Holds(stored, T, B, C, a) /\ stored.output = noted.output
          /\ stored.received_EOF = noted.received_EOF /\ Filled(noted) \subseteq Filled(stored)
          /\ \A o \in 0 .. (C - 1) :
               l <= noted.output.bytesWritten + o /\ noted.output.bytesWritten + o < r =>
                 o \in Filled(stored)
      BY <1>5, <1>6, <1>7, <1>8, Created
    <2> QED BY <1>6, <2>1, Zenon
  <1>10. /\ k \in Nat /\ Holds(z, T, B, C, a + k) /\ 0 \notin Filled(z)
         /\ z.output.bytesRead = x.output.bytesRead /\ z.output.error = x.output.error
         /\ z.output.buffer = x.output.buffer \o SubSeq(T, a + 1, a + k)
         /\ Len(z.output.buffer) = n + k
         /\ \A o \in Filled(stored) : o < k \/ o - k \in Filled(z)
         /\ z.received_EOF = e /\ z.output.isInputEnded = x.output.isInputEnded
    <2>1. z = WriteSegment(stored) /\ k = NumAssembled(stored)
      OBVIOUS
    <2> HIDE DEF z, k
    <2>2. Writes(stored, z, T, B, C, a, k)
      BY <1>9, <2>1, Written
    <2> QED BY <1>9, <2>2, Zenon DEF Writes
  <1> HIDE DEF z, k
  <1>11. Finishes(z, y, T, B, C, a + k)
    BY <1>1, <1>10, Ended, Zenon
  <1>12. Advances(x, y, T, B, C, a, k)
    BY <1>9, <1>10, <1>11, Zenon DEF Advances, Finishes
  <1>13. Aims(x, a, start, len, index) => Takes(x, y, C, a, k, start, len)
    <2> SUFFICES ASSUME Aims(x, a, start, len, index), NEW p \in start .. (start + len - 1),
                        a <= p, p < a + C - n
                 PROVE  p < a + k \/ p - (a + k) \in Filled(y)
      BY Zenon DEF Takes
    <2> HIDE DEF fu, n
    <2>1. /\ p - a \in 0 .. (C - 1) /\ a + (p - a) = p /\ start <= p /\ p < start + len
          /\ p - a < C - n
      BY <1>2, <1>3
    <2>2. p - a \in Filled(stored)
      BY <1>5, <1>9, <2>1
    <2>3. p - a < k \/ (p - a) - k \in Filled(y)
      BY <1>10, <1>11, <2>2 DEF Finishes
    <2>4. (p - a) - k = p - (a + k) /\ (p - a < k => p < a + k)
      BY <1>2, <1>10
    <2> QED BY <2>3, <2>4
  <1>15. Closes(x, y, eof)
    BY <1>10, <1>11, Zenon DEF Closes, Finishes, e
  <1>16. eof /\ r = last => y.received_EOF
    BY <1>10, <1>11, Zenon DEF Finishes, e
  <1> QED BY <1>10, <1>12, <1>13, <1>14, <1>15, <1>16, Zenon

\* The order of two concatenations does not matter.
LEMMA Associative ==
  ASSUME NEW B, NEW d, d \in Seq(B), NEW b, b \in Seq(B), NEW w, w \in Seq(B)
  PROVE  (d \o b) \o w = d \o (b \o w)
  OBVIOUS
\* A sequence is its first len elements and the rest.
LEMMA SplitAt ==
  ASSUME NEW B, NEW b, b \in Seq(B), NEW len \in Nat, len <= Len(b)
  PROVE  /\ SubSeq(b, 1, len) \in Seq(B) /\ SubSeq(b, len + 1, Len(b)) \in Seq(B)
         /\ b = SubSeq(b, 1, len) \o SubSeq(b, len + 1, Len(b))
         /\ Len(SubSeq(b, 1, len)) = len /\ Len(SubSeq(b, len + 1, Len(b))) = Len(b) - len
  <1> DEFINE m == Len(b) - len
  <1>1. m \in Nat /\ 0 \in Nat /\ len + m = Len(b) /\ 0 + len = len /\ 0 + 1 = 1
    OBVIOUS
  <1> HIDE DEF m
  <1>2. /\ SubSeq(b, 0 + 1, 0 + len) \in Seq(B) /\ Len(SubSeq(b, 0 + 1, 0 + len)) = len
    BY <1>1, TextPiece
  <1>3. /\ SubSeq(b, len + 1, len + m) \in Seq(B) /\ Len(SubSeq(b, len + 1, len + m)) = m
    BY <1>1, TextPiece
  <1>4. SubSeq(b, 1, len) \o SubSeq(b, len + 1, len + m) = SubSeq(b, 1, len + m)
    BY <1>1, TextJoins
  <1>5. SubSeq(b, 1, Len(b)) = b
    OBVIOUS
  <1> QED BY <1>1, <1>2, <1>3, <1>4, <1>5, Zenon DEF m

\* y is x after its reader has taken t, the first len bytes that wait.
Pops(x, y, T, B, C, a, t, len) ==
  /\ Holds(y, T, B, C, a) /\ Filled(y) = Filled(x)
  /\ x.output.buffer = t \o y.output.buffer /\ t \in Seq(B) /\ Len(t) = len
  /\ Len(y.output.buffer) = Len(x.output.buffer) - len
  /\ y.output.bytesWritten = x.output.bytesWritten /\ y.output.error = x.output.error
  /\ y.output.isInputEnded = x.output.isInputEnded
  /\ y.received_EOF = x.received_EOF /\ y.num_unassembled = x.num_unassembled

\* The reader of the output stream takes len bytes.
LEMMA Popped ==
  ASSUME NEW x, NEW T, NEW B, NEW C, NEW a, Holds(x, T, B, C, a),
         NEW len \in Nat, len <= Len(x.output.buffer),
         NEW y, y = [x EXCEPT !.output = PopOutput(x.output, len)]
  PROVE  Pops(x, y, T, B, C, a, PeekOutput(x.output, len), len)
  <1> DEFINE b     == x.output.buffer
             taken == SubSeq(b, 1, len)
             rest  == SubSeq(b, len + 1, Len(b))
             m     == (x.output.bytesRead + len) % Modulus
             out   == [x.output EXCEPT !.buffer = rest, !.bytesRead = m]
  <1>1. /\ C \in Nat /\ x \in Working(B, C) /\ Len(b) <= C /\ x.output.bytesWritten = a % Modulus
        /\ StoredAt(x, T, C, a) /\ CountsStored(x) /\ a \in Nat
    BY DEF Holds, TextOf
  <1>2. x.output \in OutputOf(B, C) /\ b \in Seq(B) /\ Len(b) \in Nat
    BY <1>1, WorkingFields
  <1>3. /\ taken \in Seq(B) /\ rest \in Seq(B) /\ b = taken \o rest
        /\ Len(taken) = len /\ Len(rest) = Len(b) - len
    BY <1>2, SplitAt, ZenonT(60)
  <1>4. PopOutput(x.output, len) = out /\ PeekOutput(x.output, len) = taken
    BY DEF PopOutput, PeekOutput
  <1>5. m \in WrappingInt
    <2>1. x.output.bytesRead \in WrappingInt
      BY <1>2 DEF OutputOf
    <2>2. x.output.bytesRead + len \in Int
      BY <2>1, ModulusAssumption DEF WrappingInt
    <2> QED BY <2>2, ModDivides
  <1> HIDE DEF taken, rest, m
  <1>6. /\ out \in OutputOf(B, C) /\ out.buffer = rest
        /\ out.bytesWritten = x.output.bytesWritten
        /\ out.isInputEnded = x.output.isInputEnded /\ out.error = x.output.error
    BY <1>2, <1>3, <1>5, Zenon DEF OutputOf
  <1> HIDE DEF out
  <1>7. /\ y.output = out /\ y.slots = x.slots /\ y.capacity = x.capacity /\ y \in Working(B, C)
        /\ y.num_unassembled = x.num_unassembled /\ y.received_EOF = x.received_EOF
    BY <1>1, <1>4, <1>6 DEF Working
  <1>8. Filled(y) = Filled(x) /\ CountsStored(y)
    BY <1>1, <1>7, Zenon DEF Filled, CountsStored
  <1>9. StoredAt(y, T, C, a)
    <2> SUFFICES ASSUME NEW o \in 0 .. (C - 1), x.slots[o] # NoByte
                 PROVE  o < C - Len(rest) /\ a + o + 1 <= Len(T) /\ x.slots[o] = T[a + o + 1]
      BY <1>6, <1>7, Zenon DEF StoredAt
    <2>1. o < C - Len(b) /\ a + o + 1 <= Len(T) /\ x.slots[o] = T[a + o + 1]
      BY <1>1, Zenon DEF StoredAt
    <2>2. o < C - Len(rest)
      <3> HIDE DEF b
      <3> QED BY <1>1, <1>2, <1>3, <2>1
    <2> QED BY <2>1, <2>2
  <1>10. Len(rest) <= C
    <2> HIDE DEF b
    <2> QED BY <1>1, <1>2, <1>3
  <1>11. Holds(y, T, B, C, a)
    BY <1>1, <1>6, <1>7, <1>8, <1>9, <1>10, Zenon DEF Holds
  <1> QED BY <1>3, <1>4, <1>6, <1>7, <1>8, <1>11, Zenon DEF Pops
-----------------------------------------------------------------------------
\* d, which the reader has, and what waits in x are the first a bytes of T.
OrderedTo(x, d, T, B, a) == d \in Seq(B) /\ d \o x.output.buffer = SubSeq(T, 1, a)

\* That stays so when more of the text is assembled ...
LEMMA AdvancesInOrder ==
  ASSUME NEW x, NEW y, NEW T, NEW B, NEW C, NEW a, NEW k, NEW d,
         Holds(x, T, B, C, a), Advances(x, y, T, B, C, a, k), OrderedTo(x, d, T, B, a)
  PROVE  OrderedTo(y, d, T, B, a + k)
  <1> DEFINE b == x.output.buffer
             v == SubSeq(T, a + 1, a + k)
  <1>1. /\ T \in Seq(B) /\ a \in Nat /\ x \in Working(B, C) /\ C \in Nat
        /\ k \in Nat /\ a + k <= Len(T) /\ d \in Seq(B)
    BY Zenon DEF Holds, TextOf, Advances, OrderedTo
  <1>2. b \in Seq(B)
    BY <1>1, WorkingFields
  <1>3. y.output.buffer = b \o v /\ d \o b = SubSeq(T, 1, a)
    BY Zenon DEF Advances, OrderedTo
  <1> HIDE DEF b
  <1>4. d \o (b \o v) = SubSeq(T, 1, a + k)
    <2>1. v \in Seq(B)
      BY <1>1, TextPiece
    <2>2. SubSeq(T, 1, a) \o v = SubSeq(T, 1, a + k)
      BY <1>1, TextJoins
    <2>3. d \in Seq(B)
      BY <1>1, Zenon
    <2> HIDE DEF v
    <2>4. (d \o b) \o v = d \o (b \o v)
      BY <1>2, <2>1, <2>3, Associative
    <2> QED BY <1>3, <2>2, <2>4, Zenon
  <1> QED BY <1>1, <1>3, <1>4, Zenon DEF OrderedTo

\* ... and when the reader takes t.
LEMMA PopsInOrder ==
  ASSUME NEW x, NEW y, NEW T, NEW B, NEW C, NEW a, NEW t, NEW len, NEW d,
         Pops(x, y, T, B, C, a, t, len), OrderedTo(x, d, T, B, a)
  PROVE  OrderedTo(y, d \o t, T, B, a)
  <1> DEFINE c == y.output.buffer
  <1>1. /\ y \in Working(B, C) /\ C \in Nat /\ t \in Seq(B) /\ d \in Seq(B)
        /\ x.output.buffer = t \o c /\ d \o x.output.buffer = SubSeq(T, 1, a)
    BY Zenon DEF Holds, TextOf, Pops, OrderedTo
  <1>2. c \in Seq(B)
    BY <1>1, WorkingFields
  <1>3. d \o t \in Seq(B)
    BY <1>1
  <1> HIDE DEF c
  <1>4. (d \o t) \o c = d \o (t \o c)
    <2>1. t \in Seq(B) /\ d \in Seq(B)
      BY <1>1, Zenon
    <2> QED BY <1>2, <2>1, Associative
  <1> QED BY <1>1, <1>3, <1>4, Zenon DEF OrderedTo, c

\* A new reassembler holds the first 0 bytes.
LEMMA NewHolds ==
  ASSUME NEW T, NEW B, NEW C, TextOf(T, B, C), NEW x, x = ReassemblerNew(C)
  PROVE  /\ Holds(x, T, B, C, 0) /\ Filled(x) = {} /\ OrderedTo(x, <<>>, T, B, 0)
         /\ x.output.buffer = <<>> /\ x.output.bytesWritten = 0 /\ x.output.error = FALSE
         /\ x.received_EOF = FALSE /\ x.output.isInputEnded = FALSE
  <1>1. T \in Seq(B) /\ C \in Nat /\ Modulus \in Nat /\ Modulus > 1
    BY ModulusAssumption DEF TextOf
  <1>2. /\ x.output = StreamNew(C) /\ x.capacity = C
        /\ x.slots = [o \in 0 .. (C - 1) |-> NoByte]
        /\ x.num_unassembled = 0 /\ x.received_EOF = FALSE
    BY DEF ReassemblerNew
  <1>3. /\ x.output.buffer = <<>> /\ x.output.bytesWritten = 0 /\ x.output.error = FALSE
        /\ x.output.isInputEnded = FALSE
    BY <1>2 DEF StreamNew
  <1>4. StreamNew(C) \in OutputOf(B, C)
    BY <1>1 DEF StreamNew, OutputOf, WrappingInt
  <1>5. [o \in 0 .. (C - 1) |-> NoByte] \in SlotsOf(B, C)
    BY DEF SlotsOf
  <1>6. x \in Working(B, C)
    BY <1>4, <1>5 DEF ReassemblerNew, Working
  <1>7. Filled(x) = {}
    BY <1>2 DEF Filled
  <1>8. CountsStored(x)
    BY <1>2, <1>7, FS_EmptySet, Zenon DEF CountsStored
  <1>9. StoredAt(x, T, C, 0)
    BY <1>2 DEF StoredAt
  <1>10. 0 % Modulus = 0 /\ Len(<<>>) <= C /\ 0 <= Len(T) /\ 0 \in Nat
    BY <1>1
  <1>11. Holds(x, T, B, C, 0)
    BY <1>3, <1>6, <1>8, <1>9, <1>10, Zenon DEF Holds
  <1>12. OrderedTo(x, <<>>, T, B, 0)
    <2>1. SubSeq(T, 1, 0) = <<>> /\ <<>> \o <<>> = <<>> /\ <<>> \in Seq(B)
      BY <1>1
    <2> QED BY <1>3, <2>1, Zenon DEF OrderedTo
  <1> QED BY <1>2, <1>3, <1>7, <1>11, <1>12, Zenon
-----------------------------------------------------------------------------
(***************************************************************************)
(* A receiver whose peer sends the text T, which is shorter than half the  *)
(* range of sequence numbers, and has got to position n.                   *)
(***************************************************************************)
ReceiverParts == {"reassembler", "isn", "recievedSYN", "recievedFIN"}

\* A text whose positions are unwrapped without doubt.
Short(T, B, C) == TextOf(T, B, C) /\ Len(T) + 2 < Half

\* How many bytes lie before position n, behind the SYN, and which.
Before(T, n) == IF n = 0 THEN 0 ELSE IF n - 1 <= Len(T) THEN n - 1 ELSE Len(T)

Upto(T, n) == SubSeq(T, 1, Before(T, n))

\* How many bytes the receiver x has assembled.
Got(x) == x.reassembler.output.bytesWritten

\* The receiver x, whose reader has d, has of the text only what lies before n,
\* in order; SYN and FIN likewise.  It has ended its stream when FIN has come
\* and nothing waits; and the peer keeps within the window and the probe.
Gets(x, isn, T, B, C, n, d) ==
  /\ Short(T, B, C) /\ isn \in WrappingInt /\ n \in 0 .. (Len(T) + 2)
  /\ DOMAIN x = ReceiverParts /\ x.isn \in WrappingInt
  /\ x.recievedSYN \in BOOLEAN /\ x.recievedFIN \in BOOLEAN
  /\ Holds(x.reassembler, Upto(T, n), B, C, Got(x))
  /\ OrderedTo(x.reassembler, d, Upto(T, n), B, Got(x))
  /\ x.recievedSYN => x.isn = isn /\ n >= 1
  /\ x.recievedFIN => x.recievedSYN /\ n = Len(T) + 2
  /\ x.recievedFIN <=> x.reassembler.received_EOF
  /\ x.reassembler.output.isInputEnded => x.recievedFIN
  /\ x.recievedFIN /\ Empty(x.reassembler) => x.reassembler.output.isInputEnded
  /\ n <= 2 + Len(d) + C

\* No FIN has overtaken a byte: while bytes are missing the last one is stored.
LastThere(x, T) ==
  x.reassembler.received_EOF /\ Got(x) < Len(T) =>
    Len(T) - 1 - Got(x) \in Filled(x.reassembler) /\ ~x.reassembler.output.isInputEnded

\* The position after the last number that x has taken in order.
TakenTo(x) ==
  IF ~x.recievedSYN THEN 0
  ELSE 1 + Got(x) + (IF x.reassembler.output.isInputEnded THEN 1 ELSE 0)

\* The beginning of a text.
LEMMA UptoFacts ==
  ASSUME NEW T, NEW B, NEW C, TextOf(T, B, C), NEW n \in Nat
  PROVE  /\ Before(T, n) \in Nat /\ Before(T, n) <= Len(T) /\ Before(T, n) <= n
         /\ n >= 1 => Before(T, n) <= n - 1
         /\ n >= Len(T) + 1 => Before(T, n) = Len(T)
         /\ TextOf(Upto(T, n), B, C) /\ Len(Upto(T, n)) = Before(T, n)
         /\ \A i \in 1 .. Before(T, n) : Upto(T, n)[i] = T[i]
         /\ \A i, l \in Nat : i + l <= Before(T, n) =>
              SubSeq(Upto(T, n), i + 1, i + l) = SubSeq(T, i + 1, i + l)
  <1> DEFINE s == Before(T, n)
             U == Upto(T, n)
  <1>1. T \in Seq(B) /\ Len(T) \in Nat
    BY DEF TextOf
  <1>2. /\ s \in Nat /\ s <= Len(T) /\ s <= n /\ (n >= 1 => s <= n - 1)
        /\ n >= Len(T) + 1 => s = Len(T)
    BY <1>1 DEF Before
  <1>3. U = SubSeq(T, 0 + 1, 0 + s)
    BY <1>2 DEF Upto
  <1> HIDE DEF s, U
  <1>4. U \in Seq(B) /\ Len(U) = s /\ \A i \in 1 .. s : U[i] = T[0 + i]
    <2>1. 0 \in Nat /\ 0 + s <= Len(T)
      BY <1>1, <1>2
    <2> QED BY <1>1, <1>2, <1>3, <2>1, TextPiece
  <1>5. \A i \in 1 .. s : U[i] = T[i]
    BY <1>2, <1>4
  <1>6. ASSUME NEW i \in Nat, NEW l \in Nat, i + l <= s
        PROVE  SubSeq(U, i + 1, i + l) = SubSeq(T, i + 1, i + l)
    <2> DEFINE p == SubSeq(U, i + 1, i + l)
               q == SubSeq(T, i + 1, i + l)
    <2>1. i + l <= Len(U) /\ i + l <= Len(T)
      BY <1>1, <1>2, <1>4, <1>6
    <2>2. p \in Seq(B) /\ Len(p) = l /\ \A j \in 1 .. l : p[j] = U[i + j]
      BY <1>4, <2>1, TextPiece
    <2>3. q \in Seq(B) /\ Len(q) = l /\ \A j \in 1 .. l : q[j] = T[i + j]
      BY <1>1, <2>1, TextPiece
    <2>4. \A j \in 1 .. l : i + j \in 1 .. s
      BY <1>2, <1>6
    <2> HIDE DEF p, q
    <2>5. \A j \in 1 .. l : p[j] = q[j]
      BY <1>5, <2>2, <2>3, <2>4
    <2>6. p = q
      BY <2>2, <2>3, <2>5
    <2> QED BY <2>6, Zenon DEF p, q
  <1>7. TextOf(U, B, C)
    BY <1>4, Zenon DEF TextOf
  <1> QED BY <1>2, <1>4, <1>5, <1>6, <1>7, Zenon DEF s, U

\* A piece of what was sent is a piece of the text.
LEMMA UptoPiece ==
  ASSUME NEW T, NEW B, NEW C, TextOf(T, B, C), NEW n \in Nat, NEW i \in Nat, NEW l \in Nat,
         i + l <= Before(T, n)
  PROVE  SubSeq(Upto(T, n), i + 1, i + l) = SubSeq(T, i + 1, i + l)
  <1> DEFINE U == Upto(T, n)
  <1>1. \A j, k \in Nat : j + k <= Before(T, n) => SubSeq(U, j + 1, j + k) = SubSeq(T, j + 1, j + k)
    BY UptoFacts, ZenonT(60)
  <1> HIDE DEF U
  <1>2. SubSeq(U, i + 1, i + l) = SubSeq(T, i + 1, i + l)
    BY <1>1
  <1> QED BY <1>2, Zenon DEF U

\* A beginning of what was sent is a beginning of the text.
LEMMA UptoStart ==
  ASSUME NEW T, NEW B, NEW C, TextOf(T, B, C), NEW n \in Nat, NEW a \in Nat, a <= Before(T, n)
  PROVE  SubSeq(Upto(T, n), 1, a) = SubSeq(T, 1, a)
  <1>1. 0 + 1 = 1 /\ 0 + a = a /\ 0 \in Nat
    OBVIOUS
  <1>2. 0 + a <= Before(T, n)
    BY <1>1, Zenon
  <1>3. SubSeq(Upto(T, n), 0 + 1, 0 + a) = SubSeq(T, 0 + 1, 0 + a)
    BY <1>1, <1>2, UptoPiece, ZenonT(60)
  <1> QED BY <1>1, <1>3, Zenon

\* The numbers of such a receiver.
LEMMA GetsNumbers ==
  ASSUME NEW x, NEW isn, NEW T, NEW B, NEW C, NEW n, NEW d, Gets(x, isn, T, B, C, n, d)
  PROVE  /\ Len(T) \in Nat /\ Len(T) + 2 < Half /\ C \in Nat /\ n \in Nat
         /\ Got(x) \in Nat /\ Got(x) <= Before(T, n) /\ Got(x) <= Len(T)
         /\ n >= 1 => Got(x) <= n - 1
         /\ Len(d) \in Nat /\ Len(x.reassembler.output.buffer) \in Nat
         /\ Len(d) + Len(x.reassembler.output.buffer) = Got(x)
         /\ Len(x.reassembler.output.buffer) <= C /\ x.reassembler.output.capacity = C
         /\ d \o x.reassembler.output.buffer = SubSeq(T, 1, Got(x))
  <1> DEFINE z == x.reassembler
             U == Upto(T, n)
             a == Got(x)
             b == z.output.buffer
  <1>1. /\ TextOf(T, B, C) /\ Len(T) + 2 < Half /\ n \in 0 .. (Len(T) + 2)
        /\ Holds(z, U, B, C, a) /\ OrderedTo(z, d, U, B, a)
    BY Zenon DEF Gets, Short
  <1>2. T \in Seq(B) /\ Len(T) \in Nat /\ C \in Nat /\ n \in Nat
    BY <1>1 DEF TextOf
  <1>3. a \in Nat /\ a <= Len(U) /\ z \in Working(B, C) /\ Len(b) <= C
    BY <1>1, Zenon DEF Holds
  <1>4. b \in Seq(B) /\ Len(b) \in Nat /\ z.output.capacity = C
    BY <1>2, <1>3, WorkingFields
  <1>5. d \in Seq(B) /\ d \o b = SubSeq(U, 1, a)
    BY <1>1, Zenon DEF OrderedTo
  <1>6. /\ Len(U) = Before(T, n) /\ Before(T, n) \in Nat /\ Before(T, n) <= Len(T)
        /\ n >= 1 => Before(T, n) <= n - 1
    BY <1>1, <1>2, UptoFacts, Zenon
  <1>7. SubSeq(U, 1, a) = SubSeq(T, 1, a)
    <2>1. a <= Before(T, n)
      BY <1>3, <1>6, Zenon
    <2> QED BY <1>1, <1>2, <1>3, <2>1, UptoStart, Zenon
  <1> HIDE DEF U, a, b, z
  <1>8. d \o b = SubSeq(T, 1, a)
    BY <1>5, <1>7, Zenon
  <1>9. Len(SubSeq(T, 0 + 1, 0 + a)) = a
    <2>1. 0 \in Nat /\ 0 + a <= Len(T)
      BY <1>2, <1>3, <1>6
    <2> QED BY <1>2, <1>3, <2>1, TextPiece
  <1>10. Len(d) \in Nat /\ Len(d \o b) = Len(d) + Len(b)
    BY <1>4, <1>5, Joined, Zenon
  <1>11. Len(d) + Len(b) = a
    BY <1>3, <1>8, <1>9, <1>10
  <1>12. a <= Before(T, n) /\ a <= Len(T) /\ (n >= 1 => a <= n - 1)
    BY <1>2, <1>3, <1>6
  <1> QED BY <1>1, <1>2, <1>3, <1>4, <1>8, <1>10, <1>11, <1>12, Zenon DEF a, b, z

\* What the reader has and what waits for it is the beginning of the text.
Begins(x, T, d) ==
  /\ Got(x) \in Nat /\ Got(x) <= Len(T)
  /\ d \o x.reassembler.output.buffer = SubSeq(T, 1, Got(x))

\* What was read and is buffered is a beginning of the text.
LEMMA GetsBeginning ==
  ASSUME NEW x, NEW isn, NEW T, NEW B, NEW C, NEW n, NEW d, Gets(x, isn, T, B, C, n, d)
  PROVE  Begins(x, T, d)
  BY GetsNumbers, Zenon DEF Begins

\* What it stores.
LEMMA GetsStored ==
  ASSUME NEW x, NEW isn, NEW T, NEW B, NEW C, NEW n, NEW d, Gets(x, isn, T, B, C, n, d)
  PROVE  /\ x.reassembler.output.isInputEnded \in BOOLEAN /\ x.reassembler.received_EOF \in BOOLEAN
         /\ Filled(x.reassembler) = {} <=> Empty(x.reassembler)
         /\ \A o \in Filled(x.reassembler) : o \in Nat /\ Got(x) + o + 1 <= Before(T, n)
  <1> DEFINE z == x.reassembler
             U == Upto(T, n)
  <1>1. TextOf(T, B, C) /\ C \in Nat /\ n \in Nat /\ Holds(z, U, B, C, Got(x))
    <2>1. n \in 0 .. (Len(T) + 2) /\ TextOf(T, B, C) /\ Holds(z, U, B, C, Got(x))
      BY Zenon DEF Gets, Short
    <2> QED BY <2>1 DEF TextOf
  <1>2. z \in Working(B, C) /\ StoredAt(z, U, C, Got(x)) /\ CountsStored(z)
    BY <1>1, Zenon DEF Holds
  <1>3. z.output.isInputEnded \in BOOLEAN /\ z.received_EOF \in BOOLEAN /\ z.capacity = C
    BY <1>1, <1>2, WorkingFields
  <1>4. Filled(z) \subseteq 0 .. (C - 1) /\ IsFiniteSet(Filled(z))
    BY <1>1, <1>2, FilledFinite
  <1>5. Filled(z) = {} <=> Empty(z)
    <2>1. z.num_unassembled = Cardinality(Filled(z))
      BY <1>2, Zenon DEF CountsStored
    <2> QED BY <1>4, <2>1, FS_EmptySet, Zenon DEF Empty
  <1>6. Len(U) = Before(T, n)
    BY <1>1, UptoFacts, Zenon
  <1>7. ASSUME NEW o \in Filled(z) PROVE o \in Nat /\ Got(x) + o + 1 <= Before(T, n)
    <2>1. o \in 0 .. (C - 1) /\ z.slots[o] # NoByte
      BY <1>4 DEF Filled
    <2>2. Got(x) + o + 1 <= Len(U)
      BY <1>2, <2>1, Zenon DEF StoredAt
    <2> QED BY <1>6, <2>1, <2>2
  <1> QED BY <1>3, <1>5, <1>7, Zenon

\* A reassembler that holds a part of the beginning of a text.
LEMMA HoldsLater ==
  ASSUME NEW T, NEW B, NEW C, TextOf(T, B, C), NEW n \in Nat, NEW m \in Nat, n <= m,
         NEW z, NEW a, NEW d, Holds(z, Upto(T, n), B, C, a), OrderedTo(z, d, Upto(T, n), B, a)
  PROVE  Holds(z, Upto(T, m), B, C, a) /\ OrderedTo(z, d, Upto(T, m), B, a)
  <1> DEFINE U == Upto(T, n)
             V == Upto(T, m)
  <1>1. /\ TextOf(V, B, C) /\ Len(U) = Before(T, n) /\ Len(V) = Before(T, m)
        /\ Before(T, n) \in Nat /\ Before(T, m) \in Nat
        /\ \A i \in 1 .. Before(T, n) : U[i] = T[i]
        /\ \A i \in 1 .. Before(T, m) : V[i] = T[i]
    BY UptoFacts, Zenon
  <1>2. Before(T, n) <= Before(T, m)
    <2>1. Len(T) \in Nat
      BY DEF TextOf
    <2> QED BY <2>1 DEF Before
  <1>3. /\ z \in Working(B, C) /\ a \in Nat /\ a <= Len(U) /\ z.output.bytesWritten = a % Modulus
        /\ Len(z.output.buffer) <= C /\ StoredAt(z, U, C, a) /\ CountsStored(z)
    BY Zenon DEF Holds
  <1>4. StoredAt(z, V, C, a)
    <2> SUFFICES ASSUME NEW o \in 0 .. (C - 1), z.slots[o] # NoByte
                 PROVE  o < C - Len(z.output.buffer) /\ a + o + 1 <= Len(V) /\ z.slots[o] = V[a + o + 1]
      BY Zenon DEF StoredAt
    <2>1. o < C - Len(z.output.buffer) /\ a + o + 1 <= Len(U) /\ z.slots[o] = U[a + o + 1]
      BY <1>3, Zenon DEF StoredAt
    <2> HIDE DEF U, V
    <2>2. a + o + 1 \in 1 .. Before(T, n) /\ a + o + 1 \in 1 .. Before(T, m)
      BY <1>1, <1>2, <1>3, <2>1
    <2> QED BY <1>1, <2>1, <2>2
  <1>5. a <= Len(V)
    BY <1>1, <1>2, <1>3
  <1>6. SubSeq(U, 1, a) = SubSeq(T, 1, a) /\ SubSeq(V, 1, a) = SubSeq(T, 1, a)
    BY <1>1, <1>3, <1>5, UptoStart, Zenon
  <1>7. d \in Seq(B) /\ d \o z.output.buffer = SubSeq(U, 1, a)
    BY Zenon DEF OrderedTo
  <1> HIDE DEF U, V
  <1>8. d \o z.output.buffer = SubSeq(V, 1, a)
    BY <1>6, <1>7, Zenon
  <1> QED BY <1>1, <1>3, <1>4, <1>5, <1>7, <1>8, Zenon DEF Holds, OrderedTo, V

\* That holds on when the peer gets on.
LEMMA GetsLater ==
  ASSUME NEW x, NEW isn, NEW T, NEW B, NEW C, NEW n, NEW d, Gets(x, isn, T, B, C, n, d),
         NEW m \in n .. (Len(T) + 2), m <= 2 + Len(d) + C
  PROVE  Gets(x, isn, T, B, C, m, d)
  <1>1. Len(T) \in Nat /\ n \in Nat
    BY GetsNumbers, Zenon
  <1>2. m \in Nat /\ n <= m /\ m \in 0 .. (Len(T) + 2)
    BY <1>1
  <1>3. TextOf(T, B, C)
    BY Zenon DEF Gets, Short
  <1>4. Holds(x.reassembler, Upto(T, m), B, C, Got(x)) /\ OrderedTo(x.reassembler, d, Upto(T, m), B, Got(x))
    BY <1>1, <1>2, <1>3, HoldsLater, Zenon DEF Gets
  <1>5. (n >= 1 => m >= 1) /\ (n = Len(T) + 2 => m = Len(T) + 2)
    BY <1>1, <1>2
  <1> QED BY <1>2, <1>4, <1>5, Zenon DEF Gets

\* seg is what a sender of T that has got to n may send at position p.
LiesAt(seg, p, isn, T, n) ==
  /\ seg.seqno = Wrap(p, isn) /\ p + LengthInSequenceSpace(seg) <= n
  /\ seg.syn => p = 0
  /\ seg.fin => ~seg.syn /\ p + Len(seg.payload) = Len(T) + 1
  /\ \/ seg.payload = <<>>
     \/ /\ ~seg.syn /\ p >= 1 /\ p + Len(seg.payload) <= Len(T) + 1
        /\ seg.payload = SubSeq(T, p, p + Len(seg.payload) - 1)

SegmentOf(seg, B) == seg.syn \in BOOLEAN /\ seg.fin \in BOOLEAN /\ seg.payload \in Seq(B)

\* The sizes of integers and the range of sequence numbers.
LEMMA Ranges ==
  /\ Modulus \in Nat /\ SizeModulus \in Nat /\ Half \in Nat
  /\ Modulus > 1 /\ Modulus = Half + Half /\ 4 * Modulus < SizeModulus
  BY ModulusAssumption, SizeAssumption, HalfTwice

\* The index that is computed for a segment at position p.
LEMMA IndexAt ==
  ASSUME NEW N \in Nat, N + 2 < Half, NEW isn \in WrappingInt, NEW p \in 0 .. (N + 2), NEW x,
         Got(x) \in Nat, Got(x) <= N, NEW seg, seg.seqno = Wrap(p, isn), seg.syn \in BOOLEAN
  PROVE  /\ StreamIndex(seg, isn, x) \in Nat /\ StreamIndex(seg, isn, x) < SizeModulus
         /\ p >= 1 /\ ~seg.syn => StreamIndex(seg, isn, x) = p - 1
  <1> DEFINE k == IF seg.syn THEN 0 ELSE 1
             a == Got(x)
  <1>1. a \in Nat /\ a <= N
    OBVIOUS
  <1>2. p \in Nat /\ a - Half <= p /\ p < a + Half
    BY <1>1, Ranges
  <1>3. Unwrap(Wrap(p, isn), isn, a) = p
    BY <1>1, <1>2, RoundTrip
  <1>4. StreamIndex(seg, isn, x) = (p - k) % SizeModulus
    BY <1>3, Zenon DEF StreamIndex, StreamOut, Got
  <1>5. k \in {0, 1} /\ (~seg.syn => k = 1)
    BY Zenon
  <1> HIDE DEF k, a
  <1>6. SizeModulus > 0 /\ p < SizeModulus
    BY <1>2, Ranges
  <1>7. (p - k) % SizeModulus \in 0 .. (SizeModulus - 1)
    BY <1>2, <1>5, <1>6, Ranges
  <1>8. p >= 1 /\ k = 1 => (p - k) % SizeModulus = p - 1
    BY <1>2, <1>6, Ranges
  <1> QED BY <1>4, <1>5, <1>7, <1>8, Ranges

\* The lengths of a segment.
LEMMA LengthOf ==
  ASSUME NEW B, NEW seg, SegmentOf(seg, B)
  PROVE  /\ Len(seg.payload) \in Nat /\ LengthInSequenceSpace(seg) \in Nat
         /\ LengthInSequenceSpace(seg) >= Len(seg.payload)
         /\ seg.syn \/ seg.fin => LengthInSequenceSpace(seg) >= Len(seg.payload) + 1
  <1> DEFINE s == IF seg.syn THEN 1 ELSE 0
             f == IF seg.fin THEN 1 ELSE 0
             l == Len(seg.payload)
  <1>1. l \in Nat
    BY DEF SegmentOf
  <1>2. s \in {0, 1} /\ f \in {0, 1} /\ (seg.syn => s = 1) /\ (seg.fin => f = 1)
    BY Zenon
  <1>3. LengthInSequenceSpace(seg) = l + s + f
    BY Zenon DEF LengthInSequenceSpace
  <1> HIDE DEF s, f, l
  <1>4. l + s + f \in Nat /\ l + s + f >= l /\ (s = 1 \/ f = 1 => l + s + f >= l + 1)
    BY <1>1, <1>2
  <1> QED BY <1>1, <1>2, <1>3, <1>4, Zenon DEF l

\* The payload of seg is the piece at start of what has been sent, and its
\* index is right; the last piece comes with FIN.
FitsIn(x, seg, T, n, start, index) ==
  LET len  == Len(seg.payload)
      aims == Aims(x.reassembler, Got(x), start, len, index)
  IN  /\ start + len <= Before(T, n)
      /\ seg.payload = SubSeq(Upto(T, n), start + 1, start + len)
      /\ aims \/ (len = 0 /\ index < SizeModulus)
      /\ seg.fin => aims /\ start + len = Len(T)

\* The index that segment_received() computes for a segment at its position.
LEMMA PieceAt ==
  ASSUME NEW x, NEW isn, NEW T, NEW B, NEW C, NEW n, NEW d, Gets(x, isn, T, B, C, n, d),
         NEW seg, SegmentOf(seg, B), NEW p \in Nat, LiesAt(seg, p, isn, T, n),
         NEW index, index = StreamIndex(seg, isn, x)
  PROVE  index \in Nat /\ \E start \in Nat : FitsIn(x, seg, T, n, start, index)
  <1> DEFINE len == Len(seg.payload)
             N == Len(T)
             z == x.reassembler
             a == Got(x)
             lss == LengthInSequenceSpace(seg)
             U == Upto(T, n)
             Fit(start) == /\ start + len <= Before(T, n)
                           /\ seg.payload = SubSeq(U, start + 1, start + len)
                           /\ Aims(z, a, start, len, index) \/ (len = 0 /\ index < SizeModulus)
                           /\ seg.fin => Aims(z, a, start, len, index) /\ start + len = N
  <1>1. /\ N \in Nat /\ N + 2 < Half /\ n \in Nat /\ n <= N + 2 /\ a \in Nat /\ a <= N
        /\ isn \in WrappingInt /\ TextOf(T, B, C)
    <2>1. n \in 0 .. (N + 2) /\ isn \in WrappingInt /\ TextOf(T, B, C)
      BY Zenon DEF Gets, Short
    <2> QED BY <2>1, GetsNumbers
  <1>2. /\ len \in Nat /\ lss \in Nat /\ lss >= len /\ (seg.syn \/ seg.fin => lss >= len + 1)
        /\ seg.syn \in BOOLEAN
    BY LengthOf, Zenon DEF SegmentOf
  <1>3. /\ seg.seqno = Wrap(p, isn) /\ p + lss <= n
        /\ seg.fin => ~seg.syn /\ p + len = N + 1
        /\ \/ seg.payload = <<>>
           \/ /\ ~seg.syn /\ p >= 1 /\ p + len <= N + 1
              /\ seg.payload = SubSeq(T, p, p + len - 1)
    BY Zenon DEF LiesAt
  <1> HIDE DEF N, a, lss
  <1>4. p \in 0 .. (N + 2)
    BY <1>1, <1>2, <1>3
  <1>5. index \in Nat /\ index < SizeModulus /\ (p >= 1 /\ ~seg.syn => index = p - 1)
    <2>1. Got(x) \in Nat /\ Got(x) <= N
      BY <1>1, Zenon DEF a
    <2>2. /\ StreamIndex(seg, isn, x) \in Nat /\ StreamIndex(seg, isn, x) < SizeModulus
          /\ p >= 1 /\ ~seg.syn => StreamIndex(seg, isn, x) = p - 1
      BY <1>1, <1>2, <1>3, <1>4, <2>1, IndexAt
    <2> QED BY <2>2, ZenonT(60)
  <1>6. seg.payload = <<>> => len = 0
    OBVIOUS
  <1> HIDE DEF len, U
  <1>7. seg.payload = <<>> => \A i \in Nat : seg.payload = SubSeq(U, i + 1, i + len)
    <2> SUFFICES ASSUME NEW i \in Nat, seg.payload = <<>> PROVE SubSeq(U, i + 1, i + len) = <<>>
      BY Zenon
    <2>1. U \in Seq(B)
      BY <1>1, UptoFacts, Zenon DEF TextOf, U
    <2> QED BY <1>6, <2>1
  <1>8. CASE seg.payload = <<>> /\ ~seg.fin
    <2>1. 0 + len <= Before(T, n) /\ 0 \in Nat
      <3>1. Before(T, n) \in Nat
        BY <1>1, UptoFacts, Zenon
      <3> QED BY <1>6, <1>8, <3>1
    <2>2. seg.payload = SubSeq(U, 0 + 1, 0 + len)
      BY <1>7, <1>8, <2>1, Zenon
    <2>3. Fit(0)
      BY <1>5, <1>6, <1>8, <2>1, <2>2, ZenonT(60)
    <2> QED BY <1>5, <2>1, <2>3, ZenonT(60) DEF FitsIn, len, N, a, U
  <1>9. CASE seg.payload # <<>> \/ seg.fin
    <2>1. ~seg.syn /\ p >= 1 /\ p + len <= N + 1 /\ (seg.fin => p + len = N + 1)
      BY <1>1, <1>2, <1>3, <1>6, <1>9
    <2>2. /\ p - 1 \in Nat /\ (p - 1) + len <= N /\ (p - 1) + len <= n - 1 /\ n >= 1
          /\ (p - 1) + 1 = p /\ (p - 1) + len = p + len - 1
          /\ seg.fin => (p - 1) + len = N
      BY <1>1, <1>2, <1>3, <2>1
    <2>3. (p - 1) + len <= Before(T, n)
      BY <1>1, <2>2 DEF Before, N
    <2>4. index = p - 1
      BY <1>5, <2>1, Zenon
    <2>5. a - index = a - (p - 1) /\ index + len < SizeModulus
      BY <1>1, <1>2, <2>2, <2>4, Ranges
    <2>6. Aims(z, a, p - 1, len, index)
      BY <2>5, Zenon DEF Aims, a, Got
    <2>7. seg.payload = SubSeq(U, (p - 1) + 1, (p - 1) + len)
      <3>1. CASE seg.payload = <<>>
        BY <1>7, <2>2, <3>1, Zenon
      <3>2. CASE seg.payload = SubSeq(T, p, p + len - 1)
        <4>1. SubSeq(U, (p - 1) + 1, (p - 1) + len) = SubSeq(T, (p - 1) + 1, (p - 1) + len)
          <5> DEFINE i == p - 1
          <5>1. TextOf(T, B, C) /\ n \in Nat /\ i \in Nat /\ len \in Nat /\ i + len <= Before(T, n)
            BY <1>1, <1>2, <2>2, <2>3, Zenon
          <5> HIDE DEF i
          <5>2. SubSeq(U, i + 1, i + len) = SubSeq(T, i + 1, i + len)
            BY <5>1, UptoPiece, ZenonT(60) DEF U
          <5> QED BY <5>2, Zenon DEF i
        <4> QED BY <2>2, <3>2, <4>1, Zenon
      <3> QED BY <1>3, <3>1, <3>2, Zenon
    <2>8. Fit(p - 1)
      BY <2>2, <2>3, <2>6, <2>7, Zenon
    <2> QED BY <1>5, <2>2, <2>8, Zenon DEF FitsIn, len, N, a, U
  <1> QED BY <1>8, <1>9, ZenonT(60)

\* y is the reassembler z after a piece of U, the last one if fin.
Gains(z, y, U, B, C, d, fin) ==
  LET a == z.output.bytesWritten
      b == y.output.bytesWritten
  IN  /\ b \in Nat /\ a <= b /\ Holds(y, U, B, C, b) /\ OrderedTo(y, d, U, B, b)
      /\ Len(y.output.buffer) = Len(z.output.buffer) + (b - a)
      /\ y.output.error = z.output.error
      /\ y.received_EOF <=> z.received_EOF \/ fin
      /\ y.received_EOF /\ y.num_unassembled = 0 => y.output.isInputEnded
      /\ z.output.isInputEnded => y.output.isInputEnded
      /\ y.output.isInputEnded => z.output.isInputEnded \/ (y.received_EOF /\ y.num_unassembled = 0)
      /\ \A o \in Filled(z) : o < b - a \/ o - (b - a) \in Filled(y)

\* push_substring() of the payload of a segment: there is always room for FIN.
LEMMA PayloadGot ==
  ASSUME NEW x, NEW isn, NEW T, NEW B, NEW C, NEW n, NEW d, Gets(x, isn, T, B, C, n, d),
         NEW seg, SegmentOf(seg, B), NEW p \in Nat, LiesAt(seg, p, isn, T, n),
         NEW y, y = PushSubstring(x.reassembler, seg.payload, StreamIndex(seg, isn, x), seg.fin)
  PROVE  /\ Gains(x.reassembler, y, Upto(T, n), B, C, d, seg.fin)
         /\ seg.fin /\ seg.payload # <<>> /\ y.output.bytesWritten < Len(T) =>
              Len(T) - 1 - y.output.bytesWritten \in Filled(y)
  <1> DEFINE z == x.reassembler
             U == Upto(T, n)
             a == Got(x)
             N == Len(T)
             len == Len(seg.payload)
             index == StreamIndex(seg, isn, x)
             buf == Len(z.output.buffer)
             b == y.output.bytesWritten
  <1>1. index \in Nat /\ \E start \in Nat : FitsIn(x, seg, T, n, start, index)
    BY PieceAt, Zenon
  <1>2. PICK start \in Nat :
             /\ start + len <= Before(T, n)
             /\ seg.payload = SubSeq(U, start + 1, start + len)
             /\ Aims(z, a, start, len, index) \/ (len = 0 /\ index < SizeModulus)
             /\ seg.fin => Aims(z, a, start, len, index) /\ start + len = N
    BY <1>1, Zenon DEF FitsIn
  <1>3. /\ Holds(z, U, B, C, a) /\ OrderedTo(z, d, U, B, a) /\ TextOf(T, B, C) /\ n <= 2 + Len(d) + C
        /\ z.received_EOF => n = N + 2
    BY Zenon DEF Gets, Short
  <1>4. /\ N \in Nat /\ N + 2 < Half /\ C \in Nat /\ n \in Nat /\ a \in Nat /\ a <= N
        /\ Len(d) \in Nat /\ buf \in Nat /\ Len(d) + buf = a /\ buf <= C
    BY GetsNumbers, Zenon
  <1>5. /\ len \in Nat /\ seg.fin \in BOOLEAN /\ LengthInSequenceSpace(seg) \in Nat
        /\ seg.fin => LengthInSequenceSpace(seg) >= len + 1
    BY LengthOf, Zenon DEF SegmentOf
  <1>6. Len(U) = Before(T, n) /\ Before(T, n) \in Nat /\ Before(T, n) <= N
    BY <1>3, <1>4, UptoFacts, Zenon
  <1> DEFINE R(k) == /\ Advances(z, y, U, B, C, a, k)
                     /\ Aims(z, a, start, len, index) => Takes(z, y, C, a, k, start, len)
  <1>7. /\ \E k \in Nat : R(k)
        /\ Closes(z, y, seg.fin)
        /\ seg.fin /\ Aims(z, a, start, len, index) /\ start + len <= a + C - buf => y.received_EOF
    <2>1. start + len <= Len(U)
      BY <1>2, <1>6, Zenon
    <2>2. y = PushSubstring(z, SubSeq(U, start + 1, start + len), index, seg.fin)
      BY <1>2, Zenon
    <2> HIDE DEF z, U, a, len, index, buf
    <2>3. Holds(z, U, B, C, a) /\ len \in Nat /\ index \in Nat /\ seg.fin \in BOOLEAN
      BY <1>1, <1>3, <1>5, Zenon
    <2>4. Aims(z, a, start, len, index) \/ Beyond(z, C, index) \/ (len = 0 /\ index < SizeModulus)
      BY <1>2, Zenon
    <2>5. /\ \E k \in Nat : R(k)
          /\ Closes(z, y, seg.fin)
      BY <2>1, <2>2, <2>3, <2>4, Pushed, ZenonT(60)
    <2>6. seg.fin /\ Aims(z, a, start, len, index) /\ start + len <= a + C - Len(z.output.buffer) =>
            y.received_EOF
      BY <2>1, <2>2, <2>3, <2>4, Pushed, Zenon
    <2> QED BY <2>5, <2>6, Zenon DEF buf
  <1> HIDE DEF index
  <1>8. PICK k \in Nat : R(k)
    BY <1>7, Zenon
  <1>9. Holds(y, U, B, C, a + k) /\ OrderedTo(y, d, U, B, a + k)
    BY <1>3, <1>8, AdvancesInOrder, Zenon DEF Advances
  <1>10. a + k <= N /\ b = a + k /\ b \in Nat /\ a <= b /\ b - a = k
    <2>1. a + k <= Len(U) /\ b = (a + k) % Modulus
      BY <1>9, Zenon DEF Holds
    <2> HIDE DEF a, N, U, b
    <2>2. a + k <= N /\ a + k \in Nat /\ a + k < Modulus
      BY <1>4, <1>6, <2>1, Ranges
    <2>3. (a + k) % Modulus = a + k
      BY <2>2, Ranges
    <2> QED BY <1>4, <2>1, <2>2, <2>3
  <1>11. seg.fin => n = N + 2
    <2>1. seg.fin => p + len = N + 1 /\ p + LengthInSequenceSpace(seg) <= n
      BY Zenon DEF LiesAt
    <2>2. n <= N + 2
      BY <1>4 DEF Gets
    <2> HIDE DEF len, N
    <2> QED BY <1>4, <1>5, <2>1, <2>2
  <1>12. seg.fin => N <= a + C - buf
    <2> HIDE DEF N, a, buf
    <2> QED BY <1>3, <1>4, <1>11
  <1>13. seg.fin => y.received_EOF
    BY <1>2, <1>7, <1>12, Zenon
  <1>14. Gains(z, y, U, B, C, d, seg.fin)
    <2>1. /\ Holds(y, U, B, C, b) /\ OrderedTo(y, d, U, B, b)
          /\ Len(y.output.buffer) = Len(z.output.buffer) + (b - a)
          /\ y.output.error = z.output.error
          /\ y.received_EOF /\ y.num_unassembled = 0 => y.output.isInputEnded
          /\ \A o \in Filled(z) : o < b - a \/ o - (b - a) \in Filled(y)
      BY <1>8, <1>9, <1>10, Zenon DEF Advances
    <2>2. a = z.output.bytesWritten
      BY Zenon DEF Got
    <2> HIDE DEF a, b
    <2> QED BY <1>7, <1>10, <1>13, <2>1, <2>2, ZenonT(60) DEF Closes, Gains, b
  <1>15. ASSUME seg.fin, seg.payload # <<>>, b < N PROVE N - 1 - b \in Filled(y)
    <2>1. Takes(z, y, C, a, k, start, len) /\ start + len = N
      BY <1>2, <1>8, <1>15, ZenonT(60)
    <2>2. len > 0
      BY <1>5, <1>15 DEF SegmentOf
    <2> HIDE DEF a, b, N, len
    <2>3. N - 1 \in start .. (start + len - 1) /\ a <= N - 1
      BY <1>4, <1>5, <1>10, <1>15, <2>1, <2>2
    <2>6. N <= a + C - buf /\ b < N
      BY <1>12, <1>15, Zenon
    <2> HIDE DEF buf
    <2>4. N - 1 < a + C - buf
      BY <1>4, <2>6
    <2>5. N - 1 < a + k \/ N - 1 - (a + k) \in Filled(y)
      BY <2>1, <2>3, <2>4, Zenon DEF Takes, buf
    <2> QED BY <1>4, <1>10, <2>5, <2>6
  <1> QED BY <1>14, <1>15, Zenon

\* The receiver y is x after a segment, with FIN if fin.
Grows(x, y, fin) ==
  /\ Got(x) <= Got(y)
  /\ Len(y.reassembler.output.buffer) = Len(x.reassembler.output.buffer) + (Got(y) - Got(x))
  /\ x.recievedSYN => y.recievedSYN
  /\ y.recievedFIN <=> x.recievedFIN \/ (fin /\ x.recievedSYN)
  /\ x.reassembler.output.isInputEnded => y.reassembler.output.isInputEnded
  /\ y.reassembler.output.error = x.reassembler.output.error

\* If the last byte was there it still is, or has been assembled.
LEMMA LastStays ==
  ASSUME NEW x, NEW isn, NEW T, NEW B, NEW C, NEW n, NEW d, Gets(x, isn, T, B, C, n, d),
         NEW y, NEW m, Gets(y, isn, T, B, C, m, d), NEW fin,
         Gains(x.reassembler, y.reassembler, Upto(T, n), B, C, d, fin),
         LastThere(x, T),
         fin /\ Got(y) < Len(T) => Len(T) - 1 - Got(y) \in Filled(y.reassembler)
  PROVE  LastThere(y, T)
  <1> DEFINE z == x.reassembler
             w == y.reassembler
             a == Got(x)
             b == Got(y)
             N == Len(T)
  <1> SUFFICES ASSUME w.received_EOF, b < N
               PROVE  N - 1 - b \in Filled(w) /\ ~w.output.isInputEnded
    BY Zenon DEF LastThere
  <1>1. N \in Nat /\ a \in Nat /\ b \in Nat
    BY GetsNumbers, Zenon
  <1>2. /\ a <= b /\ (w.received_EOF <=> z.received_EOF \/ fin)
        /\ w.output.isInputEnded => z.output.isInputEnded \/ (w.received_EOF /\ w.num_unassembled = 0)
        /\ \A o \in Filled(z) : o < b - a \/ o - (b - a) \in Filled(w)
    BY Zenon DEF Gains, Got
  <1>3. z.output.isInputEnded => z.received_EOF
    BY Zenon DEF Gets
  <1>4. z.received_EOF /\ a < N => N - 1 - a \in Filled(z) /\ ~z.output.isInputEnded
    BY Zenon DEF LastThere
  <1>5. Filled(w) = {} <=> w.num_unassembled = 0
    BY GetsStored, ZenonT(60) DEF Empty
  <1> HIDE DEF a, b, N
  <1>6. a < N
    BY <1>1, <1>2
  <1>7. N - 1 - b \in Filled(w)
    <2>1. CASE fin
      BY <2>1, Zenon DEF b, N
    <2>2. CASE z.received_EOF
      <3>1. N - 1 - a \in Filled(z)
        BY <1>4, <1>6, <2>2, Zenon
      <3>2. N - 1 - a < b - a \/ (N - 1 - a) - (b - a) \in Filled(w)
        BY <1>2, <3>1, Zenon
      <3>3. ~(N - 1 - a < b - a) /\ (N - 1 - a) - (b - a) = N - 1 - b
        BY <1>1
      <3> QED BY <3>2, <3>3, Zenon
    <2> QED BY <1>2, <2>1, <2>2, Zenon
  <1>8. ~w.output.isInputEnded
    BY <1>2, <1>3, <1>4, <1>5, <1>6, <1>7, ZenonT(60)
  <1> QED BY <1>7, <1>8, Zenon

\* The FIN of a segment for x overtakes nothing of T.
NotOvertaking(x, seg, T) ==
  seg.fin /\ seg.payload = <<>> /\ x.recievedSYN => Got(x) = Len(T)

\* segment_received() of a segment of the peer.
LEMMA SegmentGot ==
  ASSUME NEW x, NEW isn, NEW T, NEW B, NEW C, NEW n, NEW d, Gets(x, isn, T, B, C, n, d),
         NEW seg, SegmentOf(seg, B), NEW p \in Nat, LiesAt(seg, p, isn, T, n),
         NEW y, y = ReceiverSegmentReceived(x, seg)
  PROVE  /\ Gets(y, isn, T, B, C, n, d) /\ Grows(x, y, seg.fin)
         /\ LastThere(x, T) /\ NotOvertaking(x, seg, T) => LastThere(y, T)
  <1> DEFINE U == Upto(T, n)
             z == x.reassembler
             w == PushSubstring(z, seg.payload, StreamIndex(seg, isn, x), seg.fin)
  <1>1. /\ Short(T, B, C) /\ isn \in WrappingInt /\ n \in 0 .. (Len(T) + 2) /\ n <= 2 + Len(d) + C
        /\ x.recievedSYN \in BOOLEAN /\ x.recievedFIN \in BOOLEAN
        /\ x.recievedSYN => x.isn = isn /\ n >= 1
        /\ x.recievedFIN => x.recievedSYN /\ n = Len(T) + 2
        /\ x.recievedFIN <=> z.received_EOF
        /\ z.output.isInputEnded => x.recievedFIN
    BY Zenon DEF Gets
  <1>2. Len(T) \in Nat /\ Len(T) + 2 < Half /\ n \in Nat /\ Got(x) \in Nat
        /\ Len(z.output.buffer) \in Nat
    BY GetsNumbers, Zenon
  <1>3. CASE ~x.recievedSYN /\ ~seg.syn
    <2>1. y = x
      BY <1>3, Zenon DEF ReceiverSegmentReceived
    <2>2. Got(x) <= Got(x) /\ Len(z.output.buffer) = Len(z.output.buffer) + (Got(x) - Got(x))
      BY <1>2
    <2> QED BY <1>3, <2>1, <2>2, Zenon DEF Grows
  <1>4. CASE x.recievedSYN \/ seg.syn
    <2>1. /\ seg.seqno = Wrap(p, isn) /\ (seg.syn => p = 0) /\ (seg.fin => ~seg.syn)
          /\ p + LengthInSequenceSpace(seg) <= n
          /\ seg.fin => p + Len(seg.payload) = Len(T) + 1
      BY Zenon DEF LiesAt
    <2>2. Wrap(0, isn) = isn
      BY <1>1, Ranges DEF Wrap, WrappingInt
    <2>3. (IF seg.syn THEN seg.seqno ELSE x.isn) = isn
      BY <1>1, <1>4, <2>1, <2>2, Zenon
    <2>4. y = [reassembler |-> w, isn |-> isn, recievedSYN |-> TRUE,
               recievedFIN |-> x.recievedFIN \/ seg.fin]
      BY <1>4, <2>3, Zenon DEF ReceiverSegmentReceived
    <2>5. /\ Gains(z, w, U, B, C, d, seg.fin)
          /\ seg.fin /\ seg.payload # <<>> /\ w.output.bytesWritten < Len(T) =>
               Len(T) - 1 - w.output.bytesWritten \in Filled(w)
      BY PayloadGot, Zenon
    <2>6. seg.fin \in BOOLEAN /\ seg.syn \in BOOLEAN
      BY Zenon DEF SegmentOf
    <2> HIDE DEF w
    <2>7. /\ DOMAIN y = ReceiverParts /\ y.reassembler = w /\ y.isn = isn /\ y.recievedSYN = TRUE
          /\ y.recievedFIN = (x.recievedFIN \/ seg.fin)
      BY <2>4 DEF ReceiverParts
    <2>8. y.recievedFIN \in BOOLEAN /\ y.recievedSYN \in BOOLEAN
      BY <1>1, <2>6, <2>7, Zenon
    <2>9. n >= 1 /\ (seg.fin => n = Len(T) + 2)
      <3>1. /\ Len(seg.payload) \in Nat /\ LengthInSequenceSpace(seg) \in Nat
            /\ seg.syn \/ seg.fin => LengthInSequenceSpace(seg) >= Len(seg.payload) + 1
        BY LengthOf, Zenon
      <3>2. seg.syn => n >= 1
        BY <1>2, <2>1, <3>1
      <3>3. seg.fin => n = Len(T) + 2
        BY <1>1, <1>2, <2>1, <3>1
      <3> QED BY <1>1, <1>4, <3>2, <3>3, ZenonT(60)
    <2>10. seg.fin => x.recievedSYN
      BY <1>4, <2>1, Zenon
    <2>11. Got(y) = w.output.bytesWritten
      BY <2>7, Zenon DEF Got
    <2>12. Gets(y, isn, T, B, C, n, d)
      BY <1>1, <2>5, <2>7, <2>8, <2>9, <2>11, ZenonT(60) DEF Gets, Gains, Empty
    <2>13. Grows(x, y, seg.fin)
      BY <2>5, <2>7, <2>10, Zenon DEF Grows, Gains, Got
    <2>14. ASSUME LastThere(x, T), NotOvertaking(x, seg, T)
           PROVE  LastThere(y, T)
      <3>1. seg.fin /\ Got(y) < Len(T) => Len(T) - 1 - Got(y) \in Filled(y.reassembler)
        <4>1. CASE seg.fin /\ seg.payload = <<>>
          <5>1. Got(x) = Len(T) /\ Got(x) <= Got(y)
            BY <2>10, <2>13, <2>14, <4>1, Zenon DEF Grows, NotOvertaking
          <5>2. Got(y) \in Nat
            BY <2>12, GetsNumbers, Zenon
          <5>3. ~(Got(y) < Len(T))
            BY <1>2, <5>1, <5>2
          <5> QED BY <5>3, ZenonT(60)
        <4>2. CASE ~(seg.fin /\ seg.payload = <<>>)
          BY <2>5, <2>7, <2>11, <4>2, Zenon
        <4> QED BY <4>1, <4>2, Zenon
      <3>2. Gains(x.reassembler, y.reassembler, Upto(T, n), B, C, d, seg.fin)
        BY <2>5, <2>7, Zenon
      <3> QED BY <2>12, <2>14, <3>1, <3>2, LastStays, ZenonT(60)
    <2> QED BY <2>12, <2>13, <2>14, Zenon
  <1> QED BY <1>3, <1>4, Zenon

\* A FIN overtakes nothing if it is the next thing to come.
LEMMA FinInOrder ==
  ASSUME NEW x, NEW isn, NEW T, NEW B, NEW C, NEW n, NEW d, Gets(x, isn, T, B, C, n, d),
         NEW seg, NEW p \in Nat, LiesAt(seg, p, isn, T, n), seg.fin, seg.payload = <<>>,
         ~(Minus(seg.seqno, Wrap(Got(x) + 1, isn)) > 0)
  PROVE  Got(x) = Len(T)
  <1>1. /\ Len(T) \in Nat /\ Len(T) + 2 < Half /\ Got(x) \in Nat /\ Got(x) <= Len(T)
    BY GetsNumbers, Zenon
  <1>2. isn \in WrappingInt
    BY Zenon DEF Gets
  <1>3. Len(seg.payload) = 0 /\ seg.seqno = Wrap(p, isn) /\ p + Len(seg.payload) = Len(T) + 1
    BY DEF LiesAt
  <1>4. isn \in Int /\ Half \in Nat
    BY <1>2, Ranges DEF WrappingInt
  <1> DEFINE a == Len(T) + 1
             b == Got(x) + 1
  <1>5. a \in Int /\ b \in Int /\ -Half <= a - b /\ a - b < Half /\ p = a
    BY <1>1, <1>3, <1>4
  <1> HIDE DEF a, b
  <1>6. Minus(Wrap(a, isn), Wrap(b, isn)) = a - b
    BY <1>4, <1>5, MinusOfWraps, ZenonT(60)
  <1> QED BY <1>1, <1>3, <1>5, <1>6 DEF a, b

\* The receivers x and y have taken the same.
SameTaken(x, y) ==
  /\ Got(y) = Got(x) /\ y.recievedSYN = x.recievedSYN /\ y.recievedFIN = x.recievedFIN
  /\ y.reassembler.output.isInputEnded = x.reassembler.output.isInputEnded
  /\ y.reassembler.received_EOF = x.reassembler.received_EOF
  /\ Filled(y.reassembler) = Filled(x.reassembler)
  /\ y.reassembler.num_unassembled = x.reassembler.num_unassembled

\* The receiver x with the output stream s.
WithOutput(x, s) == [x EXCEPT !.reassembler.output = s]

\* The application takes k bytes.
Drains(x, y, k) ==
  /\ Len(y.reassembler.output.buffer) = Len(x.reassembler.output.buffer) - k
  /\ y.reassembler.output.error = x.reassembler.output.error

\* The application reads k bytes.
LEMMA BytesTaken ==
  ASSUME NEW x, NEW isn, NEW T, NEW B, NEW C, NEW n, NEW d, Gets(x, isn, T, B, C, n, d),
         NEW k \in 1 .. Len(x.reassembler.output.buffer),
         NEW y, y = WithOutput(x, PopOutput(x.reassembler.output, k))
  PROVE  /\ Gets(y, isn, T, B, C, n, d \o PeekOutput(x.reassembler.output, k)) 
         /\ SameTaken(x, y) /\ Drains(x, y, k)
  <1> DEFINE z == x.reassembler
             U == Upto(T, n)
             w == [z EXCEPT !.output = PopOutput(z.output, k)]
             t == PeekOutput(z.output, k)
             a == Got(x)
  <1>1. DOMAIN x = ReceiverParts /\ Holds(z, U, B, C, a) /\ OrderedTo(z, d, U, B, a) /\ n <= 2 + Len(d) + C
    BY Zenon DEF Gets
  <1>2. /\ C \in Nat /\ n \in Nat /\ Len(z.output.buffer) \in Nat /\ Len(d) \in Nat
    BY GetsNumbers, Zenon
  <1>3. k \in Nat /\ k <= Len(z.output.buffer)
    BY <1>2
  <1>4. Pops(z, w, U, B, C, a, t, k)
    BY <1>1, <1>3, Popped
  <1>5. Holds(w, U, B, C, a) /\ OrderedTo(w, d \o t, U, B, a)
    BY <1>1, <1>4, PopsInOrder, Zenon DEF Pops
  <1>6. y = [x EXCEPT !.reassembler = w]
    BY <1>1 DEF ReceiverParts, WithOutput
  <1> HIDE DEF w, t
  <1>7. /\ y.reassembler = w /\ DOMAIN y = ReceiverParts /\ y.isn = x.isn
        /\ y.recievedSYN = x.recievedSYN /\ y.recievedFIN = x.recievedFIN
    BY <1>1, <1>6 DEF ReceiverParts
  <1>8. SameTaken(x, y)
    BY <1>4, <1>7, Zenon DEF SameTaken, Pops, Got
  <1>9. n <= 2 + Len(d \o t) + C
    <2>1. d \in Seq(B) /\ t \in Seq(B) /\ Len(t) = k
      BY <1>1, <1>4, Zenon DEF OrderedTo, Pops
    <2>2. Len(d \o t) = Len(d) + Len(t)
      BY <2>1
    <2> QED BY <1>1, <1>2, <1>3, <2>1, <2>2
  <1>10. Gets(y, isn, T, B, C, n, d \o t)
    BY <1>5, <1>7, <1>8, <1>9, Zenon DEF Gets, SameTaken, Empty
  <1> QED BY <1>4, <1>7, <1>8, <1>10, Zenon DEF Pops, Drains, t

\* The reader has more then.
LEMMA ReadsMore ==
  ASSUME NEW x, NEW isn, NEW T, NEW B, NEW C, NEW n, NEW d, Gets(x, isn, T, B, C, n, d),
         NEW y, NEW f, Gets(y, isn, T, B, C, n, f), SameTaken(x, y),
         NEW k \in 1 .. Len(x.reassembler.output.buffer), Drains(x, y, k)
  PROVE  Len(d) <= Len(f)
  <1> DEFINE a == Len(x.reassembler.output.buffer)
             b == Len(y.reassembler.output.buffer)
  <1>1. Got(x) \in Nat /\ Len(d) \in Nat /\ a \in Nat /\ Len(d) + a = Got(x)
    BY GetsNumbers, Zenon
  <1>2. Len(f) \in Nat /\ b \in Nat /\ Len(f) + b = Got(y)
    BY GetsNumbers, Zenon
  <1>3. b = a - k /\ Got(y) = Got(x)
    BY Zenon DEF Drains, SameTaken
  <1> HIDE DEF a, b
  <1>4. k \in Nat
    BY <1>1
  <1> QED BY <1>1, <1>2, <1>3, <1>4

\* The output stream is marked as broken.
Breaks(x, y) ==
  /\ y.reassembler.output.buffer = x.reassembler.output.buffer
  /\ y.reassembler.output.error = TRUE

\* The inbound stream is marked as broken.
LEMMA ErrorTaken ==
  ASSUME NEW x, NEW isn, NEW T, NEW B, NEW C, NEW n, NEW d, Gets(x, isn, T, B, C, n, d),
         NEW y, y = WithOutput(x, SetError(x.reassembler.output))
  PROVE  /\ Gets(y, isn, T, B, C, n, d) /\ SameTaken(x, y) /\ Breaks(x, y)
  <1> DEFINE z == x.reassembler
             U == Upto(T, n)
             out == SetError(z.output)
             w == [z EXCEPT !.output = out]
             a == Got(x)
  <1>1. DOMAIN x = ReceiverParts /\ Holds(z, U, B, C, a) /\ OrderedTo(z, d, U, B, a)
    BY Zenon DEF Gets
  <1>2. out = EndInput(z.output) \/ out = SetError(z.output)
    BY Zenon
  <1>3. y = [x EXCEPT !.reassembler = w]
    BY <1>1 DEF ReceiverParts, WithOutput
  <1>4. out.error = TRUE /\ out.isInputEnded = z.output.isInputEnded /\ out.bytesWritten = z.output.bytesWritten
    <2>1. C \in Nat /\ z \in Working(B, C)
      BY <1>1 DEF Holds, TextOf
    <2>2. z.output \in OutputOf(B, C)
      BY <2>1, WorkingFields
    <2> QED BY <2>2, Zenon DEF OutputOf, SetError
  <1> HIDE DEF out
  <1>5. /\ Holds(w, U, B, C, a) /\ Filled(w) = Filled(z) /\ w.output = out
        /\ out.buffer = z.output.buffer
        /\ w.received_EOF = z.received_EOF /\ w.num_unassembled = z.num_unassembled
    BY <1>1, <1>2, Flagged
  <1> HIDE DEF w
  <1>6. OrderedTo(w, d, U, B, a)
    BY <1>1, <1>5, Zenon DEF OrderedTo
  <1>7. /\ y.reassembler = w /\ DOMAIN y = ReceiverParts /\ y.isn = x.isn
        /\ y.recievedSYN = x.recievedSYN /\ y.recievedFIN = x.recievedFIN
    BY <1>1, <1>3 DEF ReceiverParts
  <1>8. SameTaken(x, y)
    BY <1>4, <1>5, <1>7, Zenon DEF SameTaken, Got
  <1>9. Gets(y, isn, T, B, C, n, d)
    BY <1>5, <1>6, <1>7, <1>8, ZenonT(60) DEF Gets, SameTaken, Empty
  <1> QED BY <1>4, <1>5, <1>7, <1>8, <1>9, Zenon DEF Breaks

\* The constructor.
LEMMA NewGets ==
  ASSUME NEW T, NEW B, NEW C, Short(T, B, C), NEW isn \in WrappingInt, NEW x, x = ReceiverNew(C)
  PROVE  /\ Gets(x, isn, T, B, C, 0, <<>>) /\ Got(x) = 0 /\ LastThere(x, T)
         /\ ~x.recievedSYN /\ ~x.recievedFIN /\ x.reassembler.output.buffer = <<>>
         /\ ~x.reassembler.output.isInputEnded /\ ~x.reassembler.output.error
  <1> DEFINE z == ReassemblerNew(C)
             U == Upto(T, 0)
  <1>1. TextOf(T, B, C) /\ Len(T) \in Nat /\ C \in Nat
    BY DEF Short, TextOf
  <1>2. TextOf(U, B, C)
    BY <1>1, UptoFacts, Zenon
  <1> HIDE DEF U
  <1>3. /\ Holds(z, U, B, C, 0) /\ OrderedTo(z, <<>>, U, B, 0)
        /\ z.output.buffer = <<>> /\ z.output.bytesWritten = 0 /\ z.output.error = FALSE
        /\ z.received_EOF = FALSE /\ z.output.isInputEnded = FALSE
    BY <1>2, NewHolds, Zenon
  <1> HIDE DEF z
  <1>4. x = [reassembler |-> z, isn |-> 0, recievedSYN |-> FALSE, recievedFIN |-> FALSE]
    BY Zenon DEF ReceiverNew, z
  <1>5. /\ DOMAIN x = ReceiverParts /\ x.reassembler = z /\ x.isn = 0
        /\ x.recievedSYN = FALSE /\ x.recievedFIN = FALSE
    BY <1>4 DEF ReceiverParts
  <1>6. 0 \in WrappingInt /\ 0 \in 0 .. (Len(T) + 2) /\ 0 <= 2 + Len(<<>>) + C
    BY <1>1, Ranges DEF WrappingInt
  <1>7. Got(x) = 0
    BY <1>3, <1>5, ZenonT(60) DEF Got
  <1>8. Gets(x, isn, T, B, C, 0, <<>>)
    BY <1>3, <1>5, <1>6, <1>7, Zenon DEF Gets, U
  <1> QED BY <1>3, <1>5, <1>7, <1>8, Zenon DEF LastThere

\* How far a receiver has got.
LEMMA TakenFacts ==
  ASSUME NEW x, NEW isn, NEW T, NEW B, NEW C, NEW n, NEW d, Gets(x, isn, T, B, C, n, d)
  PROVE  /\ TakenTo(x) \in Nat /\ TakenTo(x) <= n
         /\ x.recievedSYN => TakenTo(x) >= 1 + Got(x)
         /\ TakenTo(x) = Len(T) + 2 => x.reassembler.output.isInputEnded /\ Got(x) = Len(T)
         /\ LastThere(x, T) /\ x.reassembler.output.isInputEnded =>
              Got(x) = Len(T) /\ Empty(x.reassembler)
  <1> DEFINE e == IF x.reassembler.output.isInputEnded THEN 1 ELSE 0
             N == Len(T)
             a == Got(x)
  <1>1. N \in Nat /\ n \in Nat /\ a \in Nat /\ a <= N /\ (n >= 1 => a <= n - 1)
    BY GetsNumbers, Zenon
  <1>2. /\ x.recievedSYN \in BOOLEAN /\ (x.recievedSYN => n >= 1)
        /\ e = 1 => x.recievedFIN /\ n = N + 2 /\ x.reassembler.output.isInputEnded
        /\ e \in {0, 1} /\ (x.reassembler.output.isInputEnded => e = 1)
    BY GetsStored DEF Gets
  <1>3. TakenTo(x) = IF ~x.recievedSYN THEN 0 ELSE 1 + a + e
    BY Zenon DEF TakenTo
  <1>4. ASSUME LastThere(x, T), x.reassembler.output.isInputEnded
        PROVE  a = N /\ Empty(x.reassembler)
    <2>1. x.reassembler.received_EOF
      BY <1>4, Zenon DEF Gets
    <2>2. ~(a < N)
      BY <1>4, <2>1, Zenon DEF LastThere
    <2>3. \A o \in Filled(x.reassembler) : o \in Nat /\ a + o + 1 <= Before(T, n)
      BY GetsStored, Zenon
    <2>4. Before(T, n) \in Nat /\ Before(T, n) <= N
      <3>1. TextOf(T, B, C)
        BY Zenon DEF Gets, Short
      <3> QED BY <1>1, <3>1, UptoFacts, Zenon
    <2> HIDE DEF a, N
    <2>5. a = N
      BY <1>1, <2>2
    <2>6. Filled(x.reassembler) = {}
      BY <1>1, <2>3, <2>4, <2>5
    <2> QED BY <2>5, <2>6, GetsStored, Zenon
  <1> HIDE DEF a, N, e
  <1>5. 1 + a + e \in Nat /\ 1 + a + e >= 1 + a
    BY <1>1, <1>2
  <1>6. x.recievedSYN => 1 + a + e <= n
    BY <1>1, <1>2
  <1>7. 1 + a + e = N + 2 => e = 1 /\ a = N
    BY <1>1, <1>2
  <1>8. N + 2 # 0 /\ 0 \in Nat /\ 0 <= n
    BY <1>1
  <1> QED BY <1>2, <1>3, <1>4, <1>5, <1>6, <1>7, <1>8, ZenonT(60) DEF a, N

\* window_size().
LEMMA WindowOf ==
  ASSUME NEW x, NEW isn, NEW T, NEW B, NEW C, NEW n, NEW d, Gets(x, isn, T, B, C, n, d)
  PROVE  /\ WindowSize(x) = C - Len(x.reassembler.output.buffer)
         /\ WindowSize(x) \in Nat /\ WindowSize(x) <= C
         /\ 1 + Got(x) + WindowSize(x) = 1 + Len(d) + C
  <1> DEFINE b == Len(x.reassembler.output.buffer)
  <1>1. C \in Nat /\ b \in Nat /\ b <= C /\ x.reassembler.output.capacity = C /\ Len(d) \in Nat
        /\ Len(d) + b = Got(x)
    BY GetsNumbers, Zenon
  <1>2. WindowSize(x) = C - b
    BY <1>1, Zenon DEF WindowSize, RemainingCapacity, StreamOut
  <1> HIDE DEF b
  <1>3. C - b \in Nat /\ C - b <= C /\ 1 + Got(x) + (C - b) = 1 + Len(d) + C
    BY <1>1
  <1> QED BY <1>2, <1>3, Zenon DEF b

\* ackno(): everything before it was taken, and once FIN has come and nothing
\* is missing it says so.
LEMMA AnswerOf ==
  ASSUME NEW x, NEW isn, NEW T, NEW B, NEW C, NEW n, NEW d, Gets(x, isn, T, B, C, n, d), x.recievedSYN,
         NEW p, p = Unwrap(Ackno(x), isn, 0)
  PROVE  /\ Ackno(x) \in WrappingInt /\ p \in Nat /\ p >= 1 /\ p <= TakenTo(x)
         /\ ~x.recievedFIN => p = 1 + Got(x)
         /\ LastThere(x, T) /\ x.reassembler.output.isInputEnded => p = Len(T) + 2
  <1> DEFINE z == x.reassembler
             k == IF Empty(z) /\ x.recievedFIN THEN 1 ELSE 0
             a == Got(x)
             N == Len(T)
             q == 1 + a + k
  <1>1. /\ x.isn = isn /\ isn \in WrappingInt /\ (Empty(z) /\ x.recievedFIN => z.output.isInputEnded)
        /\ z.output.isInputEnded => x.recievedFIN
    BY Zenon DEF Gets
  <1>2. a \in Nat /\ N \in Nat /\ N + 2 < Half /\ a <= N
    BY GetsNumbers, Zenon
  <1>3. /\ k \in {0, 1} /\ (~x.recievedFIN => k = 0) /\ (k = 1 => z.output.isInputEnded)
        /\ Empty(z) /\ x.recievedFIN => k = 1
    <2>1. 0 # 1
      OBVIOUS
    <2> QED BY <1>1, <2>1, Zenon
  <1>4. Ackno(x) = Plus(Plus(Plus(isn, a), 1), k)
    BY <1>1, Zenon DEF Ackno, StreamOut, Got
  <1>5. LastThere(x, T) /\ z.output.isInputEnded => a = N /\ Empty(z)
    BY TakenFacts, Zenon
  <1>6. TakenTo(x) = 1 + a + (IF z.output.isInputEnded THEN 1 ELSE 0)
    BY Zenon DEF TakenTo
  <1> HIDE DEF k, a, N, q
  <1>7. isn \in Int
    BY <1>1, Ranges DEF WrappingInt
  <1>8. Plus(Plus(Plus(isn, a), 1), k) = Wrap(q, isn)
    <2>1. (((isn + a) % Modulus) + 1) % Modulus = (isn + a + 1) % Modulus
      BY <1>2, <1>7, ModSum
    <2>2. (((isn + a + 1) % Modulus) + k) % Modulus = (isn + a + 1 + k) % Modulus
      BY <1>2, <1>3, <1>7, ModSum
    <2>3. isn + a + 1 + k = isn + q /\ isn + a + 1 + k = q + isn
      BY <1>2, <1>3, <1>7 DEF q
    <2> QED BY <2>1, <2>2, <2>3, ZenonT(60) DEF Plus, Wrap
  <1>9. q \in Nat /\ q < Half /\ q >= 1 /\ (k = 0 => q = 1 + a) /\ (k = 1 /\ a = N => q = N + 2)
    BY <1>2, <1>3, Ranges DEF q
  <1>10. p = q
    <2>1. 0 \in Nat /\ 0 - Half <= q /\ q < 0 + Half
      BY <1>9, Ranges
    <2>2. Unwrap(Wrap(q, isn), isn, 0) = q
      BY <1>1, <1>9, <2>1, RoundTrip
    <2> QED BY <1>4, <1>8, <2>2, Zenon
  <1>11. Wrap(q, isn) \in WrappingInt
    BY <1>7, <1>9, ModDivides DEF Wrap
  <1>12. q <= 1 + a + (IF z.output.isInputEnded THEN 1 ELSE 0)
    <2>1. CASE z.output.isInputEnded
      BY <1>2, <1>3, <2>1 DEF q
    <2>2. CASE ~z.output.isInputEnded
      BY <1>2, <1>3, <2>2 DEF q
    <2> QED BY <2>1, <2>2, Zenon
  <1> QED BY <1>1, <1>3, <1>4, <1>5, <1>6, <1>8, <1>9, <1>10, <1>11, <1>12, Zenon DEF a, N

-----------------------------------------------------------------------------
(***************************************************************************)
(* Acknowledgments on their way: q is what the owner of the receiver x has *)
(* sent, and s is the sender that will get it.                             *)
(***************************************************************************)
\* The position that seg acknowledges.
AckAt(isn, seg) == Unwrap(seg.ackno, isn, 0)

\* An acknowledgment of p with window v permits no more than one of q with w.
NoLater(p, v, q, w) == p <= q /\ p + v <= q + w

\* From p and v, which the sender knows, over what is in q to a and w, which
\* the receiver would say now, nothing is taken back.
Chain(isn, q, p, v, a, w) ==
  /\ NoLater(p, v, a, w)
  /\ \A i \in 1 .. Len(q) :
       q[i].ack => /\ NoLater(p, v, AckAt(isn, q[i]), q[i].win)
                   /\ NoLater(AckAt(isn, q[i]), q[i].win, a, w)
  /\ \A i, j \in 1 .. Len(q) :
       i < j /\ q[i].ack /\ q[j].ack =>
         NoLater(AckAt(isn, q[i]), q[i].win, AckAt(isn, q[j]), q[j].win)

\* What is acknowledged is taken; and until FIN is sent the sender keeps within
\* the window it knows of, or sends one number beyond.
Acked(isn, s, x, q) ==
  /\ \A i \in 1 .. Len(q) :
       q[i].ack => /\ AckAt(isn, q[i]) \in Nat /\ q[i].win \in Nat
                   /\ 1 <= AckAt(isn, q[i]) /\ AckAt(isn, q[i]) <= TakenTo(x)
  /\ s.checkpoint <= TakenTo(x)
  /\ ~s.fin => /\ s.next_seqno <= s.checkpoint + Maximum(1, s.rwnd)
               /\ Chain(isn, q, s.checkpoint, s.rwnd, 1 + Got(x), WindowSize(x))

SenderNumbers(s) ==
  s.checkpoint \in Nat /\ s.rwnd \in Nat /\ s.next_seqno \in Nat /\ s.fin \in BOOLEAN

\* The order of acknowledgments is transitive.
LEMMA NoLaterThan ==
  ASSUME NEW p \in Nat, NEW v \in Nat, NEW q \in Nat, NEW w \in Nat, NEW r \in Nat, NEW u \in Nat,
         NoLater(p, v, q, w), NoLater(q, w, r, u)
  PROVE  NoLater(p, v, r, u)
  BY DEF NoLater

\* The receiver gets on.
LEMMA AcksGrown ==
  ASSUME NEW isn, NEW s, NEW x, NEW y, NEW q, Acked(isn, s, x, q), SenderNumbers(s),
         TakenTo(x) \in Nat, TakenTo(y) \in Nat, TakenTo(x) <= TakenTo(y),
         Got(x) \in Nat, Got(y) \in Nat, Got(x) <= Got(y),
         WindowSize(x) \in Nat, WindowSize(y) \in Nat,
         1 + Got(x) + WindowSize(x) <= 1 + Got(y) + WindowSize(y)
  PROVE  Acked(isn, s, y, q)
  <1> DEFINE a == 1 + Got(x)
             w == WindowSize(x)
             b == 1 + Got(y)
             v == WindowSize(y)
  <1>1. a \in Nat /\ w \in Nat /\ b \in Nat /\ v \in Nat /\ NoLater(a, w, b, v)
    BY DEF NoLater
  <1> HIDE DEF a, w, b, v
  <1>2. \A i \in 1 .. Len(q) :
          q[i].ack => /\ AckAt(isn, q[i]) \in Nat /\ q[i].win \in Nat
                      /\ 1 <= AckAt(isn, q[i]) /\ AckAt(isn, q[i]) <= TakenTo(y)
    <2> SUFFICES ASSUME NEW i \in 1 .. Len(q), q[i].ack
                 PROVE  /\ AckAt(isn, q[i]) \in Nat /\ q[i].win \in Nat
                        /\ 1 <= AckAt(isn, q[i]) /\ AckAt(isn, q[i]) <= TakenTo(y)
      BY Zenon
    <2>1. /\ AckAt(isn, q[i]) \in Nat /\ q[i].win \in Nat
          /\ 1 <= AckAt(isn, q[i]) /\ AckAt(isn, q[i]) <= TakenTo(x)
      BY Zenon DEF Acked
    <2> QED BY <2>1
  <1>3. s.checkpoint <= TakenTo(y)
    BY DEF Acked, SenderNumbers
  <1>4. ASSUME Chain(isn, q, s.checkpoint, s.rwnd, a, w)
        PROVE  Chain(isn, q, s.checkpoint, s.rwnd, b, v)
    <2>1. NoLater(s.checkpoint, s.rwnd, b, v)
      BY <1>1, <1>4, NoLaterThan, ZenonT(60) DEF Chain, SenderNumbers
    <2>2. ASSUME NEW i \in 1 .. Len(q), q[i].ack
          PROVE  NoLater(AckAt(isn, q[i]), q[i].win, b, v)
      <3>1. NoLater(AckAt(isn, q[i]), q[i].win, a, w)
        BY <1>4, <2>2, Zenon DEF Chain
      <3>2. AckAt(isn, q[i]) \in Nat /\ q[i].win \in Nat
        BY <1>2, <2>2, Zenon
      <3> QED BY <1>1, <3>1, <3>2, NoLaterThan, Zenon
    <2> QED BY <1>4, <2>1, <2>2, Zenon DEF Chain
  <1> QED BY <1>2, <1>3, <1>4, Zenon DEF Acked, a, b, w, v

\* The oldest segment is gone.
LEMMA AcksTail ==
  ASSUME NEW S, NEW isn, NEW s, NEW x, NEW q \in Seq(S), Acked(isn, s, x, q), q # <<>>
  PROVE  Acked(isn, s, x, Tail(q)) /\ Tail(q) \in Seq(S)
  <1> DEFINE r == Tail(q)
  <1>1. /\ r \in Seq(S) /\ Len(r) = Len(q) - 1 /\ Len(q) \in Nat /\ Len(r) \in Nat
        /\ \A i \in 1 .. Len(r) : r[i] = q[i + 1]
    OBVIOUS
  <1> HIDE DEF r
  <1>2. \A i \in 1 .. Len(r) : i + 1 \in 1 .. Len(q)
    BY <1>1
  <1>3. \A i, j \in 1 .. Len(r) : i < j => i + 1 < j + 1
    BY <1>1
  <1>4. ASSUME NEW p, NEW v, NEW a, NEW w, Chain(isn, q, p, v, a, w)
        PROVE  Chain(isn, r, p, v, a, w)
    <2>1. ASSUME NEW i \in 1 .. Len(r), r[i].ack
          PROVE  NoLater(p, v, AckAt(isn, r[i]), r[i].win) /\ NoLater(AckAt(isn, r[i]), r[i].win, a, w)
      BY <1>1, <1>2, <1>4, <2>1, Zenon DEF Chain
    <2>2. ASSUME NEW i \in 1 .. Len(r), NEW j \in 1 .. Len(r), i < j, r[i].ack, r[j].ack
          PROVE  NoLater(AckAt(isn, r[i]), r[i].win, AckAt(isn, r[j]), r[j].win)
      <3>1. /\ i + 1 \in 1 .. Len(q) /\ j + 1 \in 1 .. Len(q) /\ i + 1 < j + 1
            /\ r[i] = q[i + 1] /\ r[j] = q[j + 1]
        BY <1>1, <1>2, <1>3, <2>2, Zenon
      <3> QED BY <1>4, <2>2, <3>1, ZenonT(60) DEF Chain
    <2> QED BY <1>4, <2>1, <2>2, Zenon DEF Chain
  <1>5. Acked(isn, s, x, r)
    BY <1>1, <1>2, <1>4, ZenonT(60) DEF Acked
  <1> QED BY <1>1, <1>5, Zenon DEF r

\* Segments with the answer of now are sent.
LEMMA AcksSent ==
  ASSUME NEW S, NEW isn, NEW s, NEW x, NEW q \in Seq(S), Acked(isn, s, x, q), SenderNumbers(s),
         NEW r \in Seq(S),
         Got(x) \in Nat, WindowSize(x) \in Nat,
         \A i \in 1 .. Len(r) :
           r[i].ack => /\ AckAt(isn, r[i]) \in Nat /\ 1 <= AckAt(isn, r[i]) /\ AckAt(isn, r[i]) <= TakenTo(x)
                       /\ r[i].win = WindowSize(x)
                       /\ ~s.fin => AckAt(isn, r[i]) = 1 + Got(x)
  PROVE  Acked(isn, s, x, q \o r) /\ q \o r \in Seq(S)
  <1> DEFINE m == q \o r
             k == Len(q)
             a == 1 + Got(x)
             w == WindowSize(x)
  <1>1. k \in Nat /\ Len(r) \in Nat
    OBVIOUS
  <1>2. /\ m \in Seq(S) /\ Len(m) = k + Len(r)
        /\ \A i \in 1 .. k : m[i] = q[i]
        /\ \A i \in (k + 1) .. (k + Len(r)) : m[i] = r[i - k]
    <2>1. m \in Seq(S) /\ Len(m) = Len(q) + Len(r)
          /\ \A i \in 1 .. Len(m) : m[i] = IF i <= Len(q) THEN q[i] ELSE r[i - Len(q)]
      OBVIOUS
    <2> HIDE DEF m
    <2> QED BY <1>1, <2>1
  <1> HIDE DEF m, k, a, w
  <1>3. \A i \in 1 .. Len(m) :
          \/ i \in 1 .. k /\ m[i] = q[i]
          \/ i > k /\ i - k \in 1 .. Len(r) /\ m[i] = r[i - k]
    BY <1>1, <1>2
  <1>4. a \in Nat /\ w \in Nat
    BY DEF a, w
  <1> DEFINE Old(i) == i \in 1 .. k /\ m[i] = q[i]
             New(i) == i > k /\ i - k \in 1 .. Len(r) /\ m[i] = r[i - k]
  <1>5. ASSUME NEW i \in 1 .. Len(m), m[i].ack
        PROVE  /\ AckAt(isn, m[i]) \in Nat /\ m[i].win \in Nat
               /\ 1 <= AckAt(isn, m[i]) /\ AckAt(isn, m[i]) <= TakenTo(x)
    <2>1. CASE Old(i)
      BY <1>5, <2>1, ZenonT(60) DEF Acked, k
    <2>2. CASE New(i)
      BY <1>4, <1>5, <2>2, Zenon DEF w
    <2> QED BY <1>3, <2>1, <2>2, Zenon
  <1>6. ASSUME ~s.fin, Chain(isn, q, s.checkpoint, s.rwnd, a, w)
        PROVE  Chain(isn, m, s.checkpoint, s.rwnd, a, w)
    <2>1. ASSUME NEW i \in 1 .. Len(m), New(i), m[i].ack
          PROVE  AckAt(isn, m[i]) = a /\ m[i].win = w
      BY <1>6, <2>1, Zenon DEF a, w
    <2>2. NoLater(a, w, a, w)
      BY <1>4 DEF NoLater
    <2>3. NoLater(s.checkpoint, s.rwnd, a, w)
      BY <1>6, Zenon DEF Chain
    <2>4. ASSUME NEW i \in 1 .. Len(m), m[i].ack
          PROVE  /\ NoLater(s.checkpoint, s.rwnd, AckAt(isn, m[i]), m[i].win)
                 /\ NoLater(AckAt(isn, m[i]), m[i].win, a, w)
      <3>1. CASE Old(i)
        BY <1>6, <2>4, <3>1, Zenon DEF Chain, k
      <3>2. CASE New(i)
        BY <2>1, <2>2, <2>3, <2>4, <3>2, ZenonT(60)
      <3> QED BY <1>3, <3>1, <3>2, ZenonT(60)
    <2>5. ASSUME NEW i \in 1 .. Len(m), NEW j \in 1 .. Len(m), i < j, m[i].ack, m[j].ack
          PROVE  NoLater(AckAt(isn, m[i]), m[i].win, AckAt(isn, m[j]), m[j].win)
      <3>1. CASE New(j)
        BY <2>1, <2>4, <2>5, <3>1, Zenon
      <3>2. CASE Old(j)
        <4>1. ~(i > k)
          BY <1>1, <1>2, <2>5, <3>2
        <4>2. Old(i)
          BY <1>3, <4>1, Zenon
        <4> QED BY <1>6, <2>5, <3>2, <4>2, ZenonT(60) DEF Chain, k
      <3> QED BY <1>3, <3>1, <3>2, ZenonT(60)
    <2> QED BY <2>3, <2>4, <2>5, ZenonT(60) DEF Chain
  <1>7. Acked(isn, s, x, m)
    BY <1>5, <1>6, Zenon DEF Acked, a, w
  <1> QED BY <1>2, <1>7, Zenon DEF m

\* A sender takes the oldest acknowledgment, if it is not older than what it
\* knows.
LEMMA AcksTaken ==
  ASSUME NEW isn, NEW s, NEW x, NEW q, Acked(isn, s, x, q), SenderNumbers(s),
         Len(q) \in Nat, Len(q) > 0, q[1].ack, Got(x) \in Nat, WindowSize(x) \in Nat, NEW u,
         u.fin = s.fin, u.next_seqno = s.next_seqno, u.rwnd = q[1].win,
         u.checkpoint = IF AckAt(isn, q[1]) > s.checkpoint THEN AckAt(isn, q[1]) ELSE s.checkpoint
  PROVE  Acked(isn, u, x, q) /\ SenderNumbers(u) /\ u.checkpoint >= s.checkpoint
  <1> DEFINE p == AckAt(isn, q[1])
             v == q[1].win
             a == 1 + Got(x)
             w == WindowSize(x)
  <1>1. 1 \in 1 .. Len(q)
    OBVIOUS
  <1>2. p \in Nat /\ v \in Nat /\ p <= TakenTo(x)
    BY <1>1, Zenon DEF Acked
  <1>3. s.checkpoint \in Nat /\ s.rwnd \in Nat /\ s.next_seqno \in Nat /\ s.checkpoint <= TakenTo(x)
    BY ZenonT(60) DEF Acked, SenderNumbers
  <1> HIDE DEF p, v
  <1>4. u.checkpoint \in Nat /\ u.checkpoint >= s.checkpoint
    BY <1>2, <1>3 DEF p
  <1>5. u.checkpoint <= TakenTo(x)
    BY <1>2, <1>3, ZenonT(60) DEF p
  <1>6. ASSUME ~s.fin
        PROVE  /\ u.next_seqno <= u.checkpoint + Maximum(1, u.rwnd)
               /\ Chain(isn, q, u.checkpoint, u.rwnd, 1 + Got(x), WindowSize(x))
    <2>1. Chain(isn, q, s.checkpoint, s.rwnd, a, w) /\ s.next_seqno <= s.checkpoint + Maximum(1, s.rwnd)
      BY <1>6, ZenonT(60) DEF Acked
    <2>2. NoLater(s.checkpoint, s.rwnd, p, v) /\ NoLater(p, v, a, w)
      BY <1>1, <2>1, ZenonT(60) DEF Chain, p, v
    <2>3. u.checkpoint = p /\ u.rwnd = v /\ u.next_seqno = s.next_seqno
      BY <1>2, <1>3, <2>2 DEF NoLater, p, v
    <2>4. s.next_seqno <= p + Maximum(1, v)
      BY <1>2, <1>3, <2>1, <2>2 DEF NoLater, Maximum
    <2>5. ASSUME NEW i \in 1 .. Len(q), q[i].ack
          PROVE  /\ NoLater(p, v, AckAt(isn, q[i]), q[i].win)
                 /\ NoLater(AckAt(isn, q[i]), q[i].win, a, w)
      <3>1. i = 1 \/ 1 < i
        BY <2>5
      <3>2. NoLater(p, v, p, v)
        BY <1>2 DEF NoLater
      <3>3. CASE i = 1
        BY <2>2, <3>2, <3>3, ZenonT(60) DEF p, v
      <3>4. CASE 1 < i
        BY <1>1, <2>1, <2>5, <3>4, Zenon DEF Chain, p, v
      <3> QED BY <3>1, <3>3, <3>4, ZenonT(60)
    <2>6. Chain(isn, q, p, v, a, w)
      BY <2>1, <2>2, <2>5, ZenonT(60) DEF Chain
    <2> QED BY <2>3, <2>4, <2>6, Zenon
  <1>7. SenderNumbers(u)
    BY <1>2, <1>3, <1>4, Zenon DEF SenderNumbers, v
  <1> QED BY <1>4, <1>5, <1>6, <1>7, Zenon DEF Acked
=============================================================================
