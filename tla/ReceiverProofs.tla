--------------------------- MODULE ReceiverProofs ---------------------------
(***************************************************************************)
(* The receiver hands the peer's stream on in order, takes all of the      *)
(* window it announces and acknowledges what it has assembled: for every   *)
(* stream, also one longer than the range of sequence numbers, and every   *)
(* capacity that this range allows.                                        *)
(*                                                                         *)
(* The reassembler alone delivers a stream in order for every stream,      *)
(* every capacity and every order of pieces and reads.  ReassemblerSpec    *)
(* has constants and variables of its own: the two parts share no state.   *)
(***************************************************************************)
EXTENDS ReceiverSpec, ReassemblerSpec, ReceiverLemmas

USE SMTT(30)

\* The checkpoint counts a positions modulo Modulus.  A position less than half
\* a turn from a is unwrapped at its distance from the checkpoint, one turn
\* later where that would be negative.
LEMMA UnwrapNear ==
  ASSUME NEW p \in Nat, NEW a \in Nat, NEW isn \in WrappingInt,
         -Half <= p - a, p - a < Half
  PROVE  LET c == a % Modulus
             u == Unwrap(Wrap(p, isn), isn, c)
         IN  /\ c + p - a >= 0 => u = c + p - a
             /\ c + p - a < 0 => u = c + p - a + Modulus
  <1> DEFINE c == a % Modulus
             m == Minus(Wrap(p, isn), Wrap(c, isn))
  <1>1. isn \in Int /\ c \in Int
    BY ModulusAssumption, ModDivides DEF WrappingInt
  <1>2. Wrap(c, isn) = Wrap(a, isn)
    BY <1>1, ModSum DEF Wrap
  <1>3. m = p - a
    BY <1>1, <1>2, MinusOfWraps
  <1> HIDE DEF m
  <1>4. Unwrap(Wrap(p, isn), isn, c) = IF c + m < 0 THEN c + m + Modulus ELSE c + m
    BY Zenon DEF Unwrap, m
  <1> HIDE DEF c
  <1>5. /\ c + p - a >= 0 => Unwrap(Wrap(p, isn), isn, c) = c + p - a
        /\ c + p - a < 0 => Unwrap(Wrap(p, isn), isn, c) = c + p - a + Modulus
    BY <1>1, <1>3, <1>4
  <1> QED BY <1>5 DEF c

\* The bounds on a piece of the stream at start: within the room of C bytes,
\* and at most `behind` bytes old.
Near(a, start, len, C, behind) ==
  /\ start + len <= a + C /\ a <= start + behind
  /\ C + behind + 2 <= Half

\* The sizes of integers and the range of sequence numbers.
LEMMA Sizes ==
  /\ Modulus \in Nat /\ SizeModulus \in Nat /\ Half \in Nat
  /\ Modulus > 1 /\ Modulus = Half + Half /\ 4 * Modulus < SizeModulus
  BY ModulusAssumption, SizeAssumption, HalfTwice, SMTT(30)

\* The index computed for the piece is where it belongs; only for an old piece
\* it may be too far ahead to store anything, when the subtraction wraps
\* around or the counter just did.
LEMMA IndexOfPiece ==
  ASSUME NEW a \in Nat, NEW start \in Nat, NEW len \in Nat, NEW C \in Nat, NEW behind \in Nat,
         Near(a, start, len, C, behind), NEW isn \in WrappingInt, NEW x, NEW c, c = a % Modulus,
         x.output.bytesWritten = c,
         NEW index, index = (Unwrap(Wrap(start + 1, isn), isn, c) - 1) % SizeModulus
  PROVE  /\ index \in Nat
         /\ Aims(x, a, start, len, index) \/ Beyond(x, C, index)
         /\ a <= start => Aims(x, a, start, len, index)
  <1> DEFINE u == Unwrap(Wrap(start + 1, isn), isn, c)
  <1>1. c \in Nat /\ c < Modulus
    BY Sizes, ModDivides DEF WrappingInt
  <1>2. /\ start + len <= a + C /\ a <= start + behind
        /\ C + behind + 2 <= Half
    BY Zenon DEF Near
  <1>3. start + 1 \in Nat /\ -Half <= start + 1 - a /\ start + 1 - a < Half
    BY <1>2, Sizes
  <1>4. /\ c + (start + 1) - a >= 0 => u = c + (start + 1) - a
        /\ c + (start + 1) - a < 0 => u = c + (start + 1) - a + Modulus
    BY <1>3, UnwrapNear
  <1>5. index = (u - 1) % SizeModulus
    BY Zenon
  <1> HIDE DEF u
  <1>6. CASE c + start - a >= 0
    <2>1. u - 1 = c + start - a
      BY <1>1, <1>4, <1>6, SMTT(30)
    <2>2. u - 1 \in 0 .. (SizeModulus - 1) /\ u - 1 + len < SizeModulus
      BY <1>1, <1>2, <1>6, <2>1, Sizes
    <2>3. index = u - 1
      BY <1>5, <2>2, Sizes, SMTT(30)
    <2>4. index \in Nat /\ c - index = a - start /\ index + len < SizeModulus
      BY <1>1, <2>1, <2>2, <2>3
    <2> QED BY <2>4, Zenon DEF Aims
  <1>7. CASE c + start - a = -1
    <2>1. u - 1 = -1
      BY <1>1, <1>4, <1>7
    <2>2. index = SizeModulus - 1
      BY <1>5, <2>1, Sizes, SMTT(30)
    <2>3. index \in Nat /\ index >= c + C /\ ~(a <= start)
      BY <1>1, <1>2, <1>7, <2>2, Sizes
    <2> QED BY <2>3, Zenon DEF Beyond
  <1>8. CASE c + start - a < -1
    <2>1. u - 1 = c + start - a + Modulus
      BY <1>1, <1>4, <1>8, Sizes, SMTT(30)
    <2>2. u - 1 \in 0 .. (SizeModulus - 1) /\ u - 1 >= c + C /\ ~(a <= start)
      BY <1>1, <1>2, <1>8, <2>1, Sizes
    <2>3. index = u - 1
      BY <1>5, <2>2, Sizes
    <2>4. index \in Nat /\ index >= c + C
      BY <1>1, <2>2, <2>3
    <2> QED BY <2>2, <2>4, Zenon DEF Beyond
  <1> QED BY <1>1, <1>6, <1>7, <1>8

\* A SYN, with what bytes it carries from the first on, has index 0: that is
\* where it belongs, as long as less than a turn has been assembled.
LEMMA IndexOfSYN ==
  ASSUME NEW a \in Nat, NEW len \in Nat, NEW C \in Nat, NEW behind \in Nat,
         Near(a, 0, len, C, behind), NEW isn \in WrappingInt, NEW x, NEW c, c = a % Modulus,
         x.output.bytesWritten = c,
         NEW index, index = (Unwrap(Wrap(0, isn), isn, c) - 0) % SizeModulus
  PROVE  index \in Nat /\ Aims(x, a, 0, len, index)
  <1>1. /\ 0 + len <= a + C /\ a <= 0 + behind /\ C + behind + 2 <= Half
    BY Zenon DEF Near
  <1>2. a \in 0 .. (Modulus - 1)
    BY <1>1, Sizes
  <1>3. c = a
    BY <1>2, Sizes
  <1>4. -Half <= 0 - a /\ 0 - a < Half
    BY <1>1, Sizes
  <1>5. /\ c + 0 - a >= 0 => Unwrap(Wrap(0, isn), isn, c) = c + 0 - a
    BY <1>4, UnwrapNear
  <1>6. Unwrap(Wrap(0, isn), isn, c) = 0
    BY <1>3, <1>5
  <1>7. index = 0
    BY <1>6, Sizes
  <1>8. c - index = a - 0 /\ index + len < SizeModulus
    BY <1>1, <1>3, <1>7, Sizes
  <1> QED BY <1>7, <1>8 DEF Aims
-----------------------------------------------------------------------------
ReceiverOf(B, C) ==
  [reassembler : Working(B, C), isn : WrappingInt, recievedSYN : BOOLEAN, recievedFIN : BOOLEAN]

\* The receiver x has assembled the first a bytes of T, of which the
\* application has d; p is the peer's initial sequence number.
Receives(x, p, d, T, B, C, a) ==
  /\ x \in ReceiverOf(B, C)
  /\ Holds(x.reassembler, T, B, C, a) /\ 0 \notin Filled(x.reassembler)
  /\ OrderedTo(x.reassembler, d, T, B, a)
  /\ x.recievedSYN => x.isn = p

\* seg carries the len bytes of T after the first start.
Carries(seg, p, T, start, len) ==
  /\ seg.payload = SubSeq(T, start + 1, start + len)
  /\ seg.syn \in BOOLEAN /\ seg.fin \in BOOLEAN /\ (seg.syn => start = 0)
  /\ seg.seqno = Wrap(IF seg.syn THEN 0 ELSE start + 1, p)

\* The fields of a receiver.
LEMMA ReceiverFields ==
  ASSUME NEW B, NEW C, NEW x \in ReceiverOf(B, C)
  PROVE  /\ x.reassembler \in Working(B, C) /\ x.isn \in WrappingInt
         /\ x.recievedSYN \in BOOLEAN /\ x.recievedFIN \in BOOLEAN
  BY DEF ReceiverOf

\* The index of a segment from the peer.
LEMMA IndexOfSegment ==
  ASSUME NEW x, NEW p \in WrappingInt, NEW T, NEW a \in Nat, NEW C \in Nat, NEW behind \in Nat,
         x.reassembler.output.bytesWritten = a % Modulus,
         NEW start \in Nat, NEW len \in Nat, Near(a, start, len, C, behind),
         NEW seg, Carries(seg, p, T, start, len)
  PROVE  LET index == StreamIndex(seg, p, x)
         IN  /\ index \in Nat
             /\ \/ Aims(x.reassembler, a, start, len, index)
                \/ Beyond(x.reassembler, C, index)
             /\ a <= start => Aims(x.reassembler, a, start, len, index)
  <1> DEFINE z     == x.reassembler
             c     == z.output.bytesWritten
             index == StreamIndex(seg, p, x)
  <1>1. /\ seg.syn \in BOOLEAN /\ (seg.syn => start = 0)
        /\ seg.seqno = Wrap(IF seg.syn THEN 0 ELSE start + 1, p)
    BY Zenon DEF Carries
  <1>2. index = (Unwrap(seg.seqno, p, c) - (IF seg.syn THEN 0 ELSE 1)) % SizeModulus
    BY Zenon DEF StreamIndex, StreamOut
  <1> HIDE DEF index, z
  <1>3. CASE seg.syn
    <2>1. start = 0 /\ seg.seqno = Wrap(0, p)
      BY <1>1, <1>3, Zenon
    <2>2. index = (Unwrap(Wrap(0, p), p, c) - 0) % SizeModulus
      BY <1>2, <1>3, <2>1, Zenon
    <2>3. index \in Nat /\ Aims(z, a, 0, len, index)
      BY <2>1, <2>2, IndexOfSYN, Zenon DEF z
    <2> QED BY <2>1, <2>3, Zenon DEF z, index
  <1>4. CASE ~seg.syn
    <2>1. seg.seqno = Wrap(start + 1, p)
      BY <1>1, <1>4, Zenon
    <2>2. index = (Unwrap(Wrap(start + 1, p), p, c) - 1) % SizeModulus
      BY <1>2, <1>4, <2>1, Zenon
    <2>3. /\ index \in Nat
          /\ Aims(z, a, start, len, index) \/ Beyond(z, C, index)
          /\ a <= start => Aims(z, a, start, len, index)
      BY <2>2, IndexOfPiece, Zenon DEF z
    <2> QED BY <2>3, Zenon DEF z, index
  <1> QED BY <1>1, <1>3, <1>4, Zenon

\* y is the receiver x after a segment with which k bytes were assembled.
Progresses(x, y, p, d, T, B, C, a, k) ==
  /\ k \in Nat /\ Receives(y, p, d, T, B, C, a + k)
  /\ Len(y.reassembler.output.buffer) = Len(x.reassembler.output.buffer) + k

\* segment_received() of a segment from the peer.
LEMMA SegmentTaken ==
  ASSUME NEW x, NEW p \in WrappingInt, NEW d, NEW T, NEW B, NEW C, NEW a,
         Receives(x, p, d, T, B, C, a), NEW behind \in Nat,
         NEW start \in Nat, NEW len \in Nat, start + len <= Len(T), Near(a, start, len, C, behind),
         NEW seg, Carries(seg, p, T, start, len), x.recievedSYN \/ seg.syn,
         NEW y, y = ReceiverSegmentReceived(x, seg)
  PROVE  \E k \in Nat :
           /\ Progresses(x, y, p, d, T, B, C, a, k)
           /\ a <= start => Takes(x.reassembler, y.reassembler, C, a, k, start, len)
  <1> DEFINE z     == x.reassembler
             isn   == IF seg.syn THEN seg.seqno ELSE x.isn
             index == StreamIndex(seg, p, x)
             w     == PushSubstring(z, seg.payload, index, seg.fin)
  <1>1. /\ x \in ReceiverOf(B, C) /\ Holds(z, T, B, C, a) /\ OrderedTo(z, d, T, B, a)
        /\ x.recievedSYN => x.isn = p
    BY Zenon DEF Receives
  <1>2. /\ seg.payload = SubSeq(T, start + 1, start + len)
        /\ seg.syn \in BOOLEAN /\ seg.fin \in BOOLEAN
        /\ seg.seqno = Wrap(IF seg.syn THEN 0 ELSE start + 1, p)
    BY Zenon DEF Carries
  <1>3. Wrap(0, p) = p
    BY Sizes DEF Wrap, WrappingInt
  <1>4. isn = p
    BY <1>1, <1>2, <1>3, Zenon
  <1>5. /\ y = [reassembler |-> w, isn |-> p, recievedSYN |-> TRUE,
                recievedFIN |-> x.recievedFIN \/ seg.fin]
    BY <1>4, Zenon DEF ReceiverSegmentReceived
  <1>6. /\ y.reassembler = w /\ y.isn = p /\ y.recievedSYN = TRUE
        /\ w \in Working(B, C) => y \in ReceiverOf(B, C)
    <2> HIDE DEF w
    <2>1. x.recievedFIN \in BOOLEAN
      BY <1>1, ReceiverFields, Zenon
    <2> QED BY <1>2, <1>5, <2>1 DEF ReceiverOf
  <1>7. C \in Nat /\ a \in Nat /\ z.output.bytesWritten = a % Modulus
    BY <1>1, Zenon DEF Holds, TextOf
  <1>8. /\ index \in Nat
        /\ Aims(z, a, start, len, index) \/ Beyond(z, C, index)
        /\ a <= start => Aims(z, a, start, len, index)
    BY <1>7, IndexOfSegment, Zenon
  <1> HIDE DEF index
  <1>9. w = PushSubstring(z, SubSeq(T, start + 1, start + len), index, seg.fin)
    BY <1>2, Zenon
  <1> HIDE DEF w, z
  <1>10. PICK k \in Nat : /\ Advances(z, w, T, B, C, a, k)
                          /\ Aims(z, a, start, len, index) => Takes(z, w, C, a, k, start, len)
    BY <1>1, <1>2, <1>8, <1>9, Pushed, Zenon
  <1>11. /\ Holds(w, T, B, C, a + k) /\ 0 \notin Filled(w)
         /\ Len(w.output.buffer) = Len(z.output.buffer) + k
    BY <1>10, Zenon DEF Advances
  <1>12. OrderedTo(w, d, T, B, a + k)
    BY <1>1, <1>10, AdvancesInOrder, Zenon
  <1>13. w \in Working(B, C)
    BY <1>11, Zenon DEF Holds
  <1>14. Progresses(x, y, p, d, T, B, C, a, k)
    BY <1>6, <1>11, <1>12, <1>13, Zenon DEF Progresses, Receives, z
  <1>15. a <= start => Takes(z, y.reassembler, C, a, k, start, len)
    BY <1>6, <1>8, <1>10, Zenon
  <1> QED BY <1>14, <1>15, Zenon DEF z
-----------------------------------------------------------------------------
\* The bytes of the peer's stream.
Byte == { Text[i] : i \in 1 .. Len(Text) }

\* The assumptions on stream and capacity, as ReceiverLemmas states them.
LEMMA TextFacts ==
  /\ TextOf(Text, Byte, Capacity) /\ Text \in Seq(Byte) /\ Len(Text) \in Nat
  /\ Capacity \in Nat /\ MaxBehind \in Nat /\ Capacity + MaxBehind + 2 <= Half
  <1>1. /\ Text \in Seq(Byte) /\ NoByte \notin Byte /\ Capacity \in Nat /\ MaxBehind \in Nat
        /\ Capacity + MaxBehind + 2 <= Half
    BY ReceiverAssumption DEF Byte
  <1> QED BY <1>1 DEF TextOf

\* The number of bytes that x, whose application has d, has assembled.
At(x, d) == Len(d) + Len(x.reassembler.output.buffer)

\* The inductive invariant: the order of what is delivered rests on the place
\* of every byte that waits, and on the peer's initial sequence number.
Sound(x, p, d) == p \in WrappingInt /\ Receives(x, p, d, Text, Byte, Capacity, At(x, d))

IInv == Sound(r, peer_isn, delivered)

\* The numbers in a sound state.
LEMMA SoundNumbers ==
  ASSUME NEW x, NEW p, NEW d, Sound(x, p, d)
  PROVE  /\ p \in WrappingInt /\ d \in Seq(Byte) /\ Len(d) \in Nat
         /\ x.reassembler.output.buffer \in Seq(Byte) /\ Len(x.reassembler.output.buffer) \in Nat
         /\ x.reassembler.output.capacity = Capacity
         /\ At(x, d) \in Nat /\ At(x, d) <= Len(Text)
         /\ At(x, d) = Len(d) + Len(x.reassembler.output.buffer)
         /\ x.reassembler.output.bytesWritten = At(x, d) % Modulus
  <1>1. /\ p \in WrappingInt /\ x \in ReceiverOf(Byte, Capacity) /\ d \in Seq(Byte)
        /\ At(x, d) \in Nat /\ At(x, d) <= Len(Text)
        /\ x.reassembler.output.bytesWritten = At(x, d) % Modulus
    BY Zenon DEF Sound, Receives, Holds, OrderedTo
  <1>2. x.reassembler \in Working(Byte, Capacity)
    BY <1>1, ReceiverFields, Zenon
  <1>3. /\ x.reassembler.output.buffer \in Seq(Byte) /\ Len(x.reassembler.output.buffer) \in Nat
        /\ x.reassembler.output.capacity = Capacity
    BY <1>2, TextFacts, WorkingFields
  <1>4. Len(d) \in Nat
    BY <1>1
  <1>5. At(x, d) = Len(d) + Len(x.reassembler.output.buffer)
    BY Zenon DEF At
  <1> QED BY <1>1, <1>3, <1>4, <1>5, Zenon

\* A segment that the peer and the network may present.
LEMMA PeerCarries ==
  ASSUME NEW start \in Nat, NEW len \in Nat, NEW syn \in BOOLEAN, NEW fin \in BOOLEAN,
         syn => start = 0
  PROVE  /\ Carries(PeerSegment(start, len, syn, fin), peer_isn, Text, start, len)
         /\ PeerSegment(start, len, syn, fin).syn = syn
         /\ PeerSegment(start, len, syn, fin).fin = fin
  <1> DEFINE seg == PeerSegment(start, len, syn, fin)
  <1>1. /\ seg.seqno = Wrap(IF syn THEN 0 ELSE start + 1, peer_isn) /\ seg.syn = syn
        /\ seg.fin = fin /\ seg.payload = SubSeq(Text, start + 1, start + len)
    BY DEF PeerSegment, SegmentNew
  <1> QED BY <1>1, Zenon DEF Carries

\* It lies within the window announced.
LEMMA PossibleIsNear ==
  ASSUME IInv, NEW start \in Nat, NEW len \in Nat, NEW syn \in BOOLEAN, NEW fin \in BOOLEAN,
         Possible(start, len, syn, fin)
  PROVE  /\ start + len <= Len(Text) /\ Near(At(r, delivered), start, len, Capacity, MaxBehind)
         /\ start + len <= At(r, delivered) + Capacity - Len(r.reassembler.output.buffer)
         /\ syn => start = 0
  <1> DEFINE a == At(r, delivered)
             n == Len(r.reassembler.output.buffer)
  <1>1. a \in Nat /\ n \in Nat /\ r.reassembler.output.capacity = Capacity
    BY SoundNumbers DEF IInv
  <1>2. Assembled = a /\ WindowSize(r) = Capacity - n
    BY <1>1, Zenon DEF Assembled, At, BufferSize, StreamOut, WindowSize, RemainingCapacity
  <1>3. /\ start + len <= Minimum(Len(Text), a + (Capacity - n))
        /\ start + MaxBehind >= a /\ (syn => start = 0)
    BY <1>2, Zenon DEF Possible
  <1> HIDE DEF a, n
  <1>4. start + len <= Len(Text) /\ start + len <= a + Capacity - n
    BY <1>1, <1>3, TextFacts, SMTT(30) DEF Minimum
  <1>5. start + len <= a + Capacity /\ a <= start + MaxBehind
    BY <1>1, <1>3, <1>4, TextFacts
  <1> QED BY <1>3, <1>4, <1>5, TextFacts, Zenon DEF Near, a, n

\* What such a segment does, unless it is ignored.
LEMMA ArriveStep ==
  ASSUME IInv, NEW start \in Nat, NEW len \in Nat, NEW syn \in BOOLEAN, NEW fin \in BOOLEAN,
         Possible(start, len, syn, fin), r.recievedSYN \/ syn,
         NEW y, y = ReceiverSegmentReceived(r, PeerSegment(start, len, syn, fin))
  PROVE  \E k \in Nat :
           /\ Sound(y, peer_isn, delivered) /\ At(y, delivered) = At(r, delivered) + k
           /\ Len(y.reassembler.output.buffer) = Len(r.reassembler.output.buffer) + k
           /\ At(r, delivered) <= start =>
                Takes(r.reassembler, y.reassembler, Capacity, At(r, delivered), k, start, len)
  <1> DEFINE a   == At(r, delivered)
             n   == Len(r.reassembler.output.buffer)
             seg == PeerSegment(start, len, syn, fin)
  <1>1. /\ Receives(r, peer_isn, delivered, Text, Byte, Capacity, a) /\ peer_isn \in WrappingInt
    BY Zenon DEF IInv, Sound
  <1>2. start + len <= Len(Text) /\ Near(a, start, len, Capacity, MaxBehind) /\ (syn => start = 0)
    BY PossibleIsNear, Zenon
  <1>3. Carries(seg, peer_isn, Text, start, len) /\ seg.syn = syn
    BY <1>2, PeerCarries, Zenon
  <1>4. a \in Nat /\ n \in Nat /\ Len(delivered) \in Nat /\ a = Len(delivered) + n
    BY SoundNumbers, Zenon DEF IInv
  <1> HIDE DEF a, n, seg
  <1>5. r.recievedSYN \/ seg.syn
    BY <1>3, Zenon
  <1>6. y = ReceiverSegmentReceived(r, seg)
    BY Zenon DEF seg
  <1>7. PICK k \in Nat :
          /\ Progresses(r, y, peer_isn, delivered, Text, Byte, Capacity, a, k)
          /\ a <= start => Takes(r.reassembler, y.reassembler, Capacity, a, k, start, len)
    BY <1>1, <1>2, <1>3, <1>5, <1>6, TextFacts, SegmentTaken, Zenon
  <1>8. /\ Receives(y, peer_isn, delivered, Text, Byte, Capacity, a + k)
        /\ Len(y.reassembler.output.buffer) = n + k
    BY <1>7, Zenon DEF Progresses, n
  <1>9. At(y, delivered) = a + k
    <2>1. At(y, delivered) = Len(delivered) + Len(y.reassembler.output.buffer)
      BY Zenon DEF At
    <2> QED BY <1>4, <1>8, <2>1
  <1>10. Sound(y, peer_isn, delivered)
    BY <1>1, <1>8, <1>9, Zenon DEF Sound
  <1> QED BY <1>7, <1>8, <1>9, <1>10, Zenon DEF a, n

\* The application reads.
LEMMA ReadStep ==
  ASSUME NEW x, NEW p, NEW d, Sound(x, p, d), NEW len \in 1 .. Len(x.reassembler.output.buffer),
         NEW y, y = [x EXCEPT !.reassembler.output = PopOutput(@, len)]
  PROVE  Sound(y, p, d \o PeekOutput(StreamOut(x), len))
  <1> DEFINE z == x.reassembler
             w == [z EXCEPT !.output = PopOutput(z.output, len)]
             t == PeekOutput(z.output, len)
             a == At(x, d)
  <1>1. /\ p \in WrappingInt /\ x \in ReceiverOf(Byte, Capacity) /\ Holds(z, Text, Byte, Capacity, a)
        /\ 0 \notin Filled(z) /\ OrderedTo(z, d, Text, Byte, a) /\ (x.recievedSYN => x.isn = p)
    BY Zenon DEF Sound, Receives
  <1>2. /\ d \in Seq(Byte) /\ Len(d) \in Nat /\ Len(z.output.buffer) \in Nat /\ a \in Nat
        /\ a = Len(d) + Len(z.output.buffer)
    BY SoundNumbers, Zenon
  <1>3. len \in Nat /\ len <= Len(z.output.buffer)
    BY <1>2
  <1>4. Pops(z, w, Text, Byte, Capacity, a, t, len)
    BY <1>1, <1>3, Popped
  <1>5. /\ Holds(w, Text, Byte, Capacity, a) /\ Filled(w) = Filled(z) /\ w \in Working(Byte, Capacity)
        /\ t \in Seq(Byte) /\ Len(t) = len /\ Len(w.output.buffer) = Len(z.output.buffer) - len
    BY <1>4, Zenon DEF Pops, Holds
  <1>6. OrderedTo(w, d \o t, Text, Byte, a)
    BY <1>1, <1>4, PopsInOrder, Zenon
  <1>7. y = [x EXCEPT !.reassembler = w]
    BY <1>1, SMTT(30) DEF ReceiverOf
  <1> HIDE DEF w, t
  <1>8. /\ y.reassembler = w /\ y \in ReceiverOf(Byte, Capacity) /\ y.isn = x.isn
        /\ y.recievedSYN = x.recievedSYN
    BY <1>1, <1>5, <1>7 DEF ReceiverOf
  <1>9. At(y, d \o t) = a
    <2>1. Len(d \o t) = Len(d) + len
      BY <1>2, <1>5
    <2>2. At(y, d \o t) = Len(d \o t) + Len(w.output.buffer)
      BY <1>8, Zenon DEF At
    <2> HIDE DEF a, z
    <2> QED BY <1>2, <1>3, <1>5, <2>1, <2>2, SMTT(30)
  <1>10. Receives(y, p, d \o t, Text, Byte, Capacity, a)
    BY <1>1, <1>5, <1>6, <1>8, Zenon DEF Receives
  <1> QED BY <1>1, <1>9, <1>10, Zenon DEF Sound, StreamOut, t
-----------------------------------------------------------------------------

\* A new receiver satisfies the invariant.
LEMMA InitInvariant == Init => IInv
  <1> SUFFICES ASSUME Init PROVE IInv
    BY Zenon
  <1> DEFINE z == ReassemblerNew(Capacity)
  <1>1. r = ReceiverNew(Capacity) /\ peer_isn \in PeerIsns /\ delivered = <<>>
    BY Zenon DEF Init
  <1>2. peer_isn \in WrappingInt /\ 0 \in WrappingInt
    BY <1>1, Sizes, ReceiverAssumption DEF WrappingInt
  <1>3. /\ Holds(z, Text, Byte, Capacity, 0) /\ Filled(z) = {}
        /\ OrderedTo(z, <<>>, Text, Byte, 0) /\ z.output.buffer = <<>>
    BY TextFacts, NewHolds, Zenon
  <1>4. z \in Working(Byte, Capacity)
    BY <1>3, Zenon DEF Holds
  <1> HIDE DEF z
  <1>5. /\ r.reassembler = z /\ r.recievedSYN = FALSE /\ r \in ReceiverOf(Byte, Capacity)
    BY <1>1, <1>2, <1>4 DEF ReceiverNew, ReceiverOf, z
  <1>6. At(r, delivered) = 0
    <2>1. At(r, delivered) = Len(<<>>) + Len(<<>>)
      BY <1>1, <1>3, <1>5, Zenon DEF At
    <2> QED BY <2>1
  <1>7. Receives(r, peer_isn, <<>>, Text, Byte, Capacity, 0)
    BY <1>3, <1>5, Zenon DEF Receives
  <1> QED BY <1>1, <1>2, <1>6, <1>7, Zenon DEF IInv, Sound

\* Every step keeps the invariant.
LEMMA InvariantStep == IInv /\ [Next]_vars => IInv'
  <1> SUFFICES ASSUME IInv, [Next]_vars PROVE IInv'
    BY Zenon
  <1>1. ASSUME NEW start \in 0 .. Len(Text), NEW len \in 0 .. (Capacity + MaxBehind),
               NEW syn \in BOOLEAN, NEW fin \in BOOLEAN, Arrive(start, len, syn, fin)
        PROVE  IInv'
    <2>1. start \in Nat /\ len \in Nat
      BY TextFacts
    <2>2. /\ Possible(start, len, syn, fin) /\ peer_isn' = peer_isn /\ delivered' = delivered
          /\ r' = ReceiverSegmentReceived(r, PeerSegment(start, len, syn, fin))
      BY <1>1 DEF Arrive
    <2>3. CASE r.recievedSYN \/ syn
      <3>1. Sound(r', peer_isn, delivered)
        BY <2>1, <2>2, <2>3, ArriveStep, Zenon
      <3> QED BY <2>2, <3>1, Zenon DEF IInv
    <2>4. CASE ~(r.recievedSYN \/ syn)
      <3>1. syn => start = 0
        BY <2>4, Zenon
      <3>2. PeerSegment(start, len, syn, fin).syn = syn
        BY <2>1, <3>1, PeerCarries, Zenon
      <3>3. r' = r
        BY <2>2, <2>4, <3>2, Zenon DEF ReceiverSegmentReceived
      <3> QED BY <2>2, <3>3, Zenon DEF IInv
    <2> QED BY <2>3, <2>4, Zenon
  <1>2. ASSUME NEW len \in 1 .. Capacity, Read(len)
        PROVE  IInv'
    <2>1. /\ r' = [r EXCEPT !.reassembler.output = PopOutput(@, len)] /\ peer_isn' = peer_isn
          /\ delivered' = delivered \o PeekOutput(StreamOut(r), len)
          /\ len <= Len(r.reassembler.output.buffer)
      BY <1>2 DEF Read, BufferSize, StreamOut
    <2>2. Sound(r, peer_isn, delivered)
      BY Zenon DEF IInv
    <2>3. Len(r.reassembler.output.buffer) \in Nat
      BY <2>2, SoundNumbers
    <2>4. len \in 1 .. Len(r.reassembler.output.buffer)
      BY <2>1, <2>3
    <2>5. Sound(r', peer_isn, delivered \o PeekOutput(StreamOut(r), len))
      BY <2>1, <2>2, <2>4, ReadStep, SMTT(30)
    <2> QED BY <2>1, <2>5, Zenon DEF IInv
  <1>3. CASE Shut \/ UNCHANGED vars
    <2>1. r' = r /\ peer_isn' = peer_isn /\ delivered' = delivered
      BY <1>3 DEF Shut, vars
    <2> QED BY <2>1, Zenon DEF IInv
  <1> QED BY <1>1, <1>2, <1>3, Zenon DEF Next

\* The invariant orders what is delivered.
LEMMA InvariantInOrder == IInv => InOrder
  <1> SUFFICES ASSUME IInv PROVE InOrder
    BY Zenon
  <1>1. OrderedTo(r.reassembler, delivered, Text, Byte, At(r, delivered))
    BY Zenon DEF IInv, Sound, Receives
  <1> QED BY <1>1, Zenon DEF InOrder, OrderedTo, Assembled, At, BufferSize, StreamOut

\* What is taken is held.
LEMMA TakesIsHeld ==
  ASSUME NEW x, NEW y, NEW a \in Nat, NEW k \in Nat,
         Holds(y.reassembler, Text, Byte, Capacity, a + k),
         NEW start \in Nat, NEW len \in Nat, a <= start,
         start + len <= a + Capacity - Len(x.output.buffer), Len(x.output.buffer) \in Nat,
         Takes(x, y.reassembler, Capacity, a, k, start, len),
         NEW q \in start .. (start + len - 1)
  PROVE  HeldIn(y, q, a + k)
  <1>1. a <= q /\ q < a + Capacity - Len(x.output.buffer)
    <2> DEFINE n == Len(x.output.buffer)
    <2>1. n \in Nat /\ start + len <= a + Capacity - n
      BY Zenon
    <2> HIDE DEF n
    <2>2. q \in Int /\ start <= q /\ q < start + len
      BY SMTT(30)
    <2>3. a <= q /\ q < a + Capacity - n
      BY <2>1, <2>2, TextFacts, SMTT(30)
    <2> QED BY <2>3, Zenon DEF n
  <1>2. q < a + k \/ q - (a + k) \in Filled(y.reassembler)
    BY <1>1, Zenon DEF Takes
  <1>3. y.reassembler.capacity = Capacity
    <2>1. y.reassembler \in Working(Byte, Capacity)
      BY Zenon DEF Holds
    <2> QED BY <2>1, TextFacts, WorkingFields
  <1>4. ASSUME q - (a + k) \in Filled(y.reassembler)
        PROVE  q - (a + k) < Capacity /\ y.reassembler.slots[q - (a + k)] # NoByte
    <2>1. /\ q - (a + k) \in 0 .. (Capacity - 1)
          /\ y.reassembler.slots[q - (a + k)] # NoByte
      BY <1>3, <1>4, Zenon DEF Filled
    <2> QED BY <2>1, TextFacts
  <1> QED BY <1>2, <1>4, Zenon DEF HeldIn

\* The invariant makes the announced window the accepted one.
LEMMA InvariantAccepts == IInv => WindowIsAccepted
  <1> SUFFICES ASSUME IInv, r.recievedSYN, NEW start \in Assembled .. Len(Text),
                      NEW len \in 1 .. Capacity, Possible(start, len, FALSE, FALSE)
               PROVE  Accepts(start, len, FALSE)
    BY Zenon DEF WindowIsAccepted
  <1> DEFINE a == At(r, delivered)
             x == ReceiverSegmentReceived(r, PeerSegment(start, len, FALSE, FALSE))
             n == Len(r.reassembler.output.buffer)
  <1>1. a \in Nat /\ n \in Nat
    BY SoundNumbers, Zenon DEF IInv
  <1>2. Assembled = a
    BY Zenon DEF Assembled, At, BufferSize, StreamOut
  <1> HIDE DEF a
  <1>3. start \in Nat /\ len \in Nat /\ a <= start
    BY <1>1, <1>2, TextFacts
  <1>a. FALSE \in BOOLEAN
    OBVIOUS
  <1>b. x = ReceiverSegmentReceived(r, PeerSegment(start, len, FALSE, FALSE))
    BY Zenon
  <1> HIDE DEF x
  <1>4. PICK k \in Nat :
          /\ Sound(x, peer_isn, delivered) /\ At(x, delivered) = a + k
          /\ Len(x.reassembler.output.buffer) = n + k
          /\ a <= start => Takes(r.reassembler, x.reassembler, Capacity, a, k, start, len)
    BY <1>3, <1>a, <1>b, ArriveStep, Zenon DEF a, n
  <1>5. start + len <= a + Capacity - n
    BY <1>3, <1>a, PossibleIsNear, Zenon DEF a, n
  <1>6. Holds(x.reassembler, Text, Byte, Capacity, a + k)
    BY <1>4, Zenon DEF Sound, Receives
  <1>7. \A q \in start .. (start + len - 1) : HeldIn(x, q, a + k)
    BY <1>1, <1>3, <1>4, <1>5, <1>6, TakesIsHeld, Zenon DEF n
  <1>8. Assembled + (BufferSize(StreamOut(x)) - BufferSize(StreamOut(r))) = a + k
    <2>1. Assembled + (BufferSize(StreamOut(x)) - BufferSize(StreamOut(r))) = a + ((n + k) - n)
      BY <1>2, <1>4, Zenon DEF BufferSize, StreamOut, n
    <2> HIDE DEF n
    <2> QED BY <1>1, <2>1
  <1> QED BY <1>7, <1>8, Zenon DEF Accepts, x

\* Three additions to a sequence number are one.
LEMMA PlusOnePlusNone ==
  ASSUME NEW a \in Nat, NEW isn \in WrappingInt
  PROVE  Plus(Plus(Plus(isn, a % Modulus), 1), 0) = Wrap(a + 1, isn)
  <1> DEFINE c == a % Modulus
             s == Plus(isn, c)
  <1>1. isn \in Int /\ c \in Int
    BY Sizes, ModDivides DEF WrappingInt
  <1>2. s = (a + isn) % Modulus
    <2>1. (c + isn) % Modulus = (a + isn) % Modulus
      BY <1>1, ModSum
    <2>2. isn + c = c + isn
      BY <1>1
    <2> QED BY <2>1, <2>2, Zenon DEF Plus
  <1> HIDE DEF c, s
  <1>3. Plus(s, 1) = (a + 1 + isn) % Modulus
    <2>1. (((a + isn) % Modulus) + 1) % Modulus = ((a + isn) + 1) % Modulus
      BY <1>1, ModSum
    <2>2. (a + isn) + 1 = a + 1 + isn
      BY <1>1
    <2> QED BY <1>2, <2>1, <2>2, Zenon DEF Plus
  <1>4. Plus(Plus(s, 1), 0) = (a + 1 + isn) % Modulus
    <2>1. (((a + 1 + isn) % Modulus) + 0) % Modulus = ((a + 1 + isn) + 0) % Modulus
      BY <1>1, ModSum
    <2>2. (a + 1 + isn) + 0 = a + 1 + isn
      BY <1>1
    <2> QED BY <1>3, <2>1, <2>2, Zenon DEF Plus
  <1> QED BY <1>4, Zenon DEF Wrap, s, c

\* The invariant makes the acknowledgement that of what is assembled.
LEMMA InvariantAck == IInv => AckWhileWaiting
  <1> SUFFICES ASSUME IInv, r.recievedSYN, Filled(r.reassembler) # {}
               PROVE  Ackno(r) = Wrap(Assembled + 1, peer_isn)
    BY Zenon DEF AckWhileWaiting, HasAckno
  <1> DEFINE a == At(r, delivered)
             z == r.reassembler
  <1>1. /\ a \in Nat /\ peer_isn \in WrappingInt /\ z.output.bytesWritten = a % Modulus
    BY SoundNumbers, Zenon DEF IInv
  <1>2. r.isn = peer_isn /\ z \in Working(Byte, Capacity) /\ CountsStored(z)
    BY Zenon DEF IInv, Sound, Receives, Holds
  <1>3. IsFiniteSet(Filled(z))
    BY <1>2, TextFacts, FilledFinite
  <1>4. Cardinality(Filled(z)) # 0
    BY <1>3, FS_EmptySet, Zenon
  <1>5. ~Empty(z)
    BY <1>2, <1>4, Zenon DEF Empty, CountsStored
  <1>6. Ackno(r) = Plus(Plus(Plus(peer_isn, a % Modulus), 1), 0)
    BY <1>1, <1>2, <1>5, Zenon DEF Ackno, StreamOut
  <1>7. Assembled = a
    BY Zenon DEF Assembled, At, BufferSize, StreamOut
  <1> QED BY <1>1, <1>6, <1>7, PlusOnePlusNone, Zenon

\* The invariant holds throughout.
LEMMA AlwaysSound == Spec => []IInv
  BY InitInvariant, InvariantStep, PTL DEF Spec

\* The application gets the peer's bytes in order, also after the sequence
\* numbers and the counters have wrapped around (segment_received(),
\* tcp_receiver.cc:10-26).
THEOREM ReceiverInOrder == Spec => []InOrder
  BY AlwaysSound, InvariantInOrder, PTL

\* Every byte from the first missing one up to the announced edge is taken when
\* it comes, whatever else is waiting (window_size(), tcp_receiver.hh:51-54).
THEOREM ReceiverAccepts == Spec => []WindowIsAccepted
  BY AlwaysSound, InvariantAccepts, PTL

\* While a byte waits for a missing one the FIN is not acknowledged, and what
\* is acknowledged is what was assembled (ackno(), tcp_receiver.cc:28-34).
THEOREM ReceiverAcknowledges == Spec => []AckWhileWaiting
  BY AlwaysSound, InvariantAck, PTL
-----------------------------------------------------------------------------
\* The text is a sequence of bytes, none of which is NoByte.
LEMMA ShortFacts ==
  /\ TextOf(Logical, LogicalByte, Room) /\ Logical \in Seq(LogicalByte) /\ Room \in Nat
  /\ Len(Logical) \in Nat /\ Len(Logical) + Room < Modulus
  /\ Modulus \in Nat /\ 4 * Modulus < SizeModulus /\ SizeModulus \in Nat
  <1>1. Logical \in Seq(LogicalByte) /\ NoByte \notin LogicalByte /\ Room \in Nat
    BY LogicalAssumption DEF LogicalByte
  <1>2. Len(Logical) \in Nat
    BY <1>1
  <1>3. Len(Logical) + Room < Modulus
    BY LogicalAssumption
  <1>4. TextOf(Logical, LogicalByte, Room)
    BY <1>1 DEF TextOf
  <1> QED BY <1>1, <1>2, <1>3, <1>4, ModulusAssumption, SizeAssumption

\* The reassembler x holds its place in the text, and its reader has d.
Assembles(x, d) ==
  /\ Holds(x, Logical, LogicalByte, Room, x.output.bytesWritten)
  /\ 0 \notin Filled(x)
  /\ OrderedTo(x, d, Logical, LogicalByte, x.output.bytesWritten)
  /\ x.output.error = FALSE
  /\ x.received_EOF /\ x.num_unassembled = 0 => x.output.isInputEnded

\* The inductive invariant: the order rests on the places of the stored bytes,
\* and these on the room that is left for them.
AInv == Assembles(ra, taken) /\ ended \in BOOLEAN

\* Held, of an output position and the offsets stored ahead of it.
HeldAt(f, F) == (0 .. (f - 1)) \cup { f + o : o \in F }

\* The positions assembled and waiting.
LEMMA HeldAtMembers ==
  ASSUME NEW f, NEW F
  PROVE  /\ \A p \in 0 .. (f - 1) : p \in HeldAt(f, F)
         /\ \A o \in F : f + o \in HeldAt(f, F)
  BY Zenon DEF HeldAt

\* The offsets of F, seen from a position that moved on by k, are still held.
LEMMA HeldGrows ==
  ASSUME NEW f \in Nat, NEW k \in Nat, NEW F, F \subseteq Nat, NEW G,
         \A o \in F : o < k \/ o - k \in G
  PROVE  HeldAt(f, F) \subseteq HeldAt(f + k, G)
  <1>1. /\ \A p \in 0 .. (f + k - 1) : p \in HeldAt(f + k, G)
        /\ \A o \in G : f + k + o \in HeldAt(f + k, G)
    BY HeldAtMembers
  <1>2. \A p \in 0 .. (f - 1) : p \in 0 .. (f + k - 1)
    OBVIOUS
  <1>3. ASSUME NEW o \in F PROVE f + o \in HeldAt(f + k, G)
    <2>1. CASE o < k
      <3>1. f + o \in 0 .. (f + k - 1)
        BY <2>1
      <3> QED BY <1>1, <3>1, Zenon
    <2>2. CASE o - k \in G
      <3>1. f + k + (o - k) = f + o
        OBVIOUS
      <3>2. f + k + (o - k) \in HeldAt(f + k, G)
        BY <1>1, <2>2, Zenon
      <3> QED BY <3>1, <3>2, Zenon
    <2> QED BY <2>1, <2>2, Zenon
  <1> HIDE DEF HeldAt
  <1>4. \A p \in HeldAt(f, F) : p \in HeldAt(f + k, G)
    BY <1>1, <1>2, <1>3, Zenon DEF HeldAt
  <1> QED BY <1>4, Zenon

\* The remainder of a number below the modulus.
LEMMA SmallRemainder ==
  ASSUME NEW m \in Nat, NEW a \in 0 .. (m - 1)
  PROVE  a % m = a
  OBVIOUS

\* The counter does not wrap around: the text is shorter than its range.
LEMMA NoTurn ==
  ASSUME NEW a \in Nat, a <= Len(Logical)
  PROVE  a % Modulus = a
  <1>1. a \in 0 .. (Modulus - 1) /\ Modulus \in Nat
    BY ShortFacts
  <1> QED BY <1>1, SmallRemainder, Zenon

\* y is sound, and what x holds is held in y.
Keeps(x, y, d) ==
  /\ Assembles(y, d)
  /\ HeldAt(x.output.bytesWritten, Filled(x)) \subseteq HeldAt(y.output.bytesWritten, Filled(y))

\* push_substring() of a piece of the text.
LEMMA PushStep ==
  ASSUME NEW x, NEW d, Assembles(x, d),
         NEW index \in 0 .. Len(Logical), NEW len \in 0 .. (Len(Logical) - index), NEW eof \in BOOLEAN
  PROVE  Keeps(x, PushSubstring(x, SubSeq(Logical, index + 1, index + len), index, eof), d)
  <1> DEFINE a == x.output.bytesWritten
             y == PushSubstring(x, SubSeq(Logical, index + 1, index + len), index, eof)
  <1>a. y = PushSubstring(x, SubSeq(Logical, index + 1, index + len), index, eof)
    BY Zenon
  <1> HIDE DEF y
  <1>1. /\ Holds(x, Logical, LogicalByte, Room, a) /\ OrderedTo(x, d, Logical, LogicalByte, a)
        /\ x.output.error = FALSE
    BY Zenon DEF Assembles
  <1>2. x \in Working(LogicalByte, Room) /\ a \in Nat /\ a <= Len(Logical)
    BY <1>1, Zenon DEF Holds
  <1>3. Filled(x) \subseteq Nat
    BY <1>2, ShortFacts, FilledFinite
  <1>4. index \in Nat /\ len \in Nat /\ index + len <= Len(Logical) /\ Len(Logical) \in Nat
    BY ShortFacts
  <1>5. Aims(x, a, index, len, index)
    BY <1>4, ShortFacts DEF Aims
  <1>6. PICK k \in Nat : Advances(x, y, Logical, LogicalByte, Room, a, k)
    <2>1. \E k \in Nat : Advances(x, y, Logical, LogicalByte, Room, a, k)
      BY <1>a, <1>1, <1>4, <1>5, Pushed, Zenon
    <2> QED BY <2>1, Zenon
  <1>7. /\ Holds(y, Logical, LogicalByte, Room, a + k) /\ 0 \notin Filled(y)
        /\ y.output.error = FALSE /\ \A o \in Filled(x) : o < k \/ o - k \in Filled(y)
        /\ y.received_EOF /\ y.num_unassembled = 0 => y.output.isInputEnded
    BY <1>1, <1>6, Zenon DEF Advances
  <1>8. a + k \in Nat /\ a + k <= Len(Logical) /\ y.output.bytesWritten = (a + k) % Modulus
    BY <1>7, Zenon DEF Holds
  <1>9. y.output.bytesWritten = a + k
    BY <1>8, NoTurn, Zenon
  <1>10. OrderedTo(y, d, Logical, LogicalByte, a + k)
    BY <1>1, <1>6, AdvancesInOrder, Zenon
  <1>11. Assembles(y, d)
    BY <1>1, <1>7, <1>9, <1>10, Zenon DEF Assembles
  <1>12. HeldAt(a, Filled(x)) \subseteq HeldAt(a + k, Filled(y))
    <2> HIDE DEF a
    <2> QED BY <1>2, <1>3, <1>7, HeldGrows, Zenon
  <1> QED BY <1>9, <1>11, <1>12, Zenon DEF Keeps, y

\* A read takes bytes out of the output stream only.
LEMMA TakeStep ==
  ASSUME NEW x, NEW d, Assembles(x, d), NEW len \in 1 .. Len(x.output.buffer),
         NEW y, y = [x EXCEPT !.output = PopOutput(x.output, len)]
  PROVE  /\ Assembles(y, d \o PeekOutput(x.output, len))
         /\ y.output.bytesWritten = x.output.bytesWritten /\ Filled(y) = Filled(x)
  <1> DEFINE a == x.output.bytesWritten
             b == x.output.buffer
             t == PeekOutput(x.output, len)
  <1>1. /\ Holds(x, Logical, LogicalByte, Room, a) /\ OrderedTo(x, d, Logical, LogicalByte, a)
        /\ 0 \notin Filled(x) /\ x.output.error = FALSE
        /\ x.received_EOF /\ x.num_unassembled = 0 => x.output.isInputEnded
    BY Zenon DEF Assembles
  <1>2. x \in Working(LogicalByte, Room)
    BY <1>1, Zenon DEF Holds
  <1>3. Len(b) \in Nat
    BY <1>2, ShortFacts, WorkingFields
  <1>4. len \in Nat /\ len <= Len(b)
    BY <1>3
  <1>a. Pops(x, y, Logical, LogicalByte, Room, a, t, len)
    BY <1>1, <1>4, Popped
  <1>5. /\ Holds(y, Logical, LogicalByte, Room, a) /\ Filled(y) = Filled(x)
        /\ y.output.bytesWritten = a /\ y.output.error = x.output.error
        /\ y.output.isInputEnded = x.output.isInputEnded
        /\ y.received_EOF = x.received_EOF /\ y.num_unassembled = x.num_unassembled
    BY <1>a, Zenon DEF Pops
  <1>6. OrderedTo(y, d \o t, Logical, LogicalByte, a)
    BY <1>1, <1>a, PopsInOrder, Zenon
  <1> QED BY <1>1, <1>5, <1>6, Zenon DEF Assembles

\* What the invariant says of the state.
LEMMA AssembledMeans ==
  AInv => TypeOK /\ AssembledInOrder /\ SlotsInPlace /\ CountedOnce /\ EndSignalled
  <1> SUFFICES ASSUME AInv
               PROVE  TypeOK /\ AssembledInOrder /\ SlotsInPlace /\ CountedOnce /\ EndSignalled
    BY Zenon
  <1> DEFINE a == ra.output.bytesWritten
  <1>1. /\ Holds(ra, Logical, LogicalByte, Room, a) /\ 0 \notin Filled(ra)
        /\ taken \in Seq(LogicalByte) /\ taken \o ra.output.buffer = SubSeq(Logical, 1, a)
        /\ ra.output.error = FALSE
        /\ ra.received_EOF /\ ra.num_unassembled = 0 => ra.output.isInputEnded
    BY Zenon DEF AInv, Assembles, OrderedTo
  <1>b. ended \in BOOLEAN
    BY Zenon DEF AInv
  <1>2. /\ ra \in Working(LogicalByte, Room) /\ a \in Nat /\ a <= Len(Logical)
        /\ StoredAt(ra, Logical, Room, a) /\ ra.num_unassembled = Cardinality(Filled(ra))
    BY <1>1, Zenon DEF Holds, CountsStored
  <1>3. /\ ra.capacity = Room /\ ra.output \in OutputOf(LogicalByte, Room)
        /\ ra.slots \in SlotsOf(LogicalByte, Room) /\ ra.received_EOF \in BOOLEAN
        /\ ra.output.capacity = Room
    BY <1>2, ShortFacts, WorkingFields, SMTT(30)
  <1>4. /\ Filled(ra) \subseteq 0 .. (Room - 1)
        /\ ra.num_unassembled \in 0 .. Room
    BY <1>2, ShortFacts, FilledFinite
  <1>5. TypeOK
    <2>1. ra.output \in Output
      BY <1>1, <1>3, Zenon DEF OutputOf, Output
    <2>2. ra.slots \in Slots
      BY <1>3 DEF SlotsOf, Slots
    <2> QED BY <1>1, <1>b, <1>2, <1>3, <1>4, <2>1, <2>2, SMTT(30) DEF TypeOK, Working
  <1>6. AssembledInOrder /\ CountedOnce
    BY <1>1, <1>2, Zenon DEF AssembledInOrder, CountedOnce, FirstUnassembled
  <1>7. SlotsInPlace
    <2> SUFFICES ASSUME NEW o \in Filled(ra)
                 PROVE  /\ o < Room - Len(ra.output.buffer)
                        /\ a + o + 1 <= Len(Logical) /\ ra.slots[o] = Logical[a + o + 1]
      BY <1>3, Zenon DEF SlotsInPlace, RemainingCapacity, FirstUnassembled
    <2>1. o \in 0 .. (Room - 1) /\ ra.slots[o] # NoByte
      BY <1>3, Zenon DEF Filled
    <2> QED BY <1>2, <2>1, Zenon DEF StoredAt
  <1>8. EndSignalled
    <2> SUFFICES ASSUME ra.received_EOF, a = Len(Logical)
                 PROVE  ra.num_unassembled = 0
      BY <1>1, Zenon DEF EndSignalled, FirstUnassembled
    <2>1. ASSUME NEW o \in Filled(ra) PROVE FALSE
      <3>1. o \in 0 .. (Room - 1) /\ ra.slots[o] # NoByte
        BY <1>3, <2>1, Zenon DEF Filled
      <3>2. a + o + 1 <= Len(Logical)
        BY <1>2, <3>1, Zenon DEF StoredAt
      <3> HIDE DEF a
      <3> QED BY <1>2, <3>1, <3>2, ShortFacts
    <2>2. Filled(ra) = {}
      BY <2>1, Zenon
    <2> QED BY <1>2, <2>2, FS_EmptySet, Zenon
  <1> QED BY <1>5, <1>6, <1>7, <1>8, Zenon

\* The initial state.
LEMMA InitAInv == AssemblyInit => AInv
  <1> SUFFICES ASSUME AssemblyInit PROVE AInv
    BY Zenon
  <1>1. /\ ra = ReassemblerNew(Room) /\ taken = <<>> /\ ended \in BOOLEAN
    BY Zenon DEF AssemblyInit
  <1>2. /\ Holds(ra, Logical, LogicalByte, Room, 0) /\ Filled(ra) = {}
        /\ OrderedTo(ra, <<>>, Logical, LogicalByte, 0) /\ ra.output.bytesWritten = 0
        /\ ra.output.error = FALSE /\ ra.received_EOF = FALSE
    BY <1>1, ShortFacts, NewHolds, Zenon
  <1>3. 0 \notin Filled(ra)
    BY <1>2, Zenon
  <1>4. ~(ra.received_EOF /\ ra.num_unassembled = 0)
    BY <1>2, Zenon
  <1> QED BY <1>1, <1>2, <1>3, <1>4, Zenon DEF AInv, Assembles

\* One step of the reassembler.
LEMMA AInvStep == AInv /\ [AssemblyNext]_assemblyVars => AInv' /\ Held \subseteq Held'
  <1> SUFFICES ASSUME AInv, [AssemblyNext]_assemblyVars
               PROVE  AInv' /\ Held \subseteq Held'
    BY Zenon
  <1>1. /\ Held = HeldAt(ra.output.bytesWritten, Filled(ra))
        /\ Held' = HeldAt(ra'.output.bytesWritten, Filled(ra'))
    BY DEF Held, FirstUnassembled, HeldAt
  <1>2. ASSUME NEW index \in 0 .. Len(Logical), NEW len \in 0 .. (Len(Logical) - index),
               NEW eof \in BOOLEAN, Push(index, len, eof)
        PROVE  AInv' /\ Held \subseteq Held'
    <2>1. ra' = PushSubstring(ra, SubSeq(Logical, index + 1, index + len), index, eof)
      BY <1>2, Zenon DEF Push
    <2>2. Assembles(ra, taken) /\ taken' = taken /\ ended' \in BOOLEAN
      BY <1>2, Zenon DEF AInv, Push
    <2>3. Keeps(ra, ra', taken)
      BY <1>2, <2>1, <2>2, PushStep
    <2> QED BY <1>1, <2>2, <2>3, Zenon DEF AInv, Keeps
  <1>3. ASSUME NEW len \in 1 .. Room, TakeOut(len)
        PROVE  AInv' /\ Held \subseteq Held'
    <2>1. /\ len \in 1 .. Len(ra.output.buffer)
          /\ ra' = [ra EXCEPT !.output = PopOutput(ra.output, len)]
          /\ taken' = taken \o PeekOutput(ra.output, len)
      BY <1>3, Zenon DEF TakeOut, BufferSize
    <2>a. ended' \in BOOLEAN
      BY <1>3, Zenon DEF TakeOut, Eof
    <2>2. Assembles(ra, taken)
      BY Zenon DEF AInv
    <2>3. /\ Assembles(ra', taken \o PeekOutput(ra.output, len))
          /\ ra'.output.bytesWritten = ra.output.bytesWritten /\ Filled(ra') = Filled(ra)
      BY <2>1, <2>2, TakeStep, Zenon
    <2> QED BY <1>1, <2>1, <2>a, <2>3, Zenon DEF AInv
  <1>4. CASE SeeEnd \/ UNCHANGED assemblyVars
    <2>1. ra' = ra /\ taken' = taken
      BY <1>4 DEF SeeEnd, assemblyVars
    <2>2. ended' \in BOOLEAN
      BY <1>4, Zenon DEF AInv, SeeEnd, assemblyVars
    <2> QED BY <1>1, <2>1, <2>2 DEF AInv
  <1> QED BY <1>2, <1>3, <1>4, Zenon DEF AssemblyNext

\* The reassembler's state is well formed, the output in order, every stored
\* byte in its place with room in the output stream, every byte counted once,
\* and the end signalled once all is assembled, whatever the order of pieces
\* and reads (push_substring(), stream_reassembler.cc:16-34).
THEOREM ReassemblerSafe ==
  Assembly => [](TypeOK /\ AssembledInOrder /\ SlotsInPlace /\ CountedOnce /\ EndSignalled)
  <1>1. AInv /\ [AssemblyNext]_assemblyVars => AInv'
    BY AInvStep
  <1> QED BY InitAInv, AssembledMeans, <1>1, PTL DEF Assembly

\* In particular a stored byte is the one that belongs there, and the output
\* stream has room for it when it is assembled (create_segment() and
\* write_segment(), stream_reassembler.cc:36-64).
THEOREM StoredInPlace == Assembly => []SlotsInPlace
  BY ReassemblerSafe, PTL

\* No step forgets a byte that was accepted (create_segment() and
\* write_segment(), stream_reassembler.cc:36-64).
THEOREM ReassemblerKeeps == Assembly => NothingForgotten
  <1>1. AInv /\ [AssemblyNext]_assemblyVars => AInv'
    BY AInvStep
  <1>2. AInv /\ [AssemblyNext]_assemblyVars => [Held \subseteq Held']_assemblyVars
    BY AInvStep
  <1> QED BY InitAInv, <1>1, <1>2, PTL DEF Assembly, NothingForgotten
=============================================================================
