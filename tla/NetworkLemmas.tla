--------------------------- MODULE NetworkLemmas ----------------------------
(***************************************************************************)
(* What the methods of a TCPConnection keep, of it and of its peer and of  *)
(* the segments between them: for all texts that are shorter than half the *)
(* range of sequence numbers and all capacities.                           *)
(*                                                                         *)
(* Each direction is described apart (Link): what a sender has said, what  *)
(* of that its peer has, and the acknowledgments on their way back.        *)
(* SenderLemmas and ReceiverLemmas have what each operation of a           *)
(* connection's halves keeps.                                              *)
(***************************************************************************)
EXTENDS TCPNetwork, SenderLemmas, ReceiverLemmas

\* The position after the FIN of e.
EndOfText(e) == Len(Text[e]) + 2

USE ZenonT(40)

\* Every number is at most itself.
LEMMA NoLess ==
  \A n \in Nat : n <= n /\ n >= n
  BY SMTT(30)

\* What a receiver has put together is counted by a number.
LEMMA GotType ==
  ASSUME NEW x, NEW isn, NEW T, NEW B, NEW C, NEW n, NEW d, Gets(x, isn, T, B, C, n, d)
  PROVE  Got(x) \in Nat /\ Len(d) \in Nat
  BY GetsNumbers

\* The two ends, their texts and their numbers.
LEMMA EndFacts ==
  ASSUME NEW e \in Ends
  PROVE  /\ Other(e) \in Ends /\ Other(e) # e /\ Other(Other(e)) = e
         /\ IsText(Text[e]) /\ Short(Text[e], BytesOf(Text[e]), RecvCapacity)
         /\ ISN[e] \in WrappingInt /\ Len(Text[e]) \in Nat /\ Len(Text[e]) + 2 < Half
         /\ RecvCapacity \in Nat /\ RecvCapacity < Modulus /\ SendCapacity \in Nat
  <1>1. PICK a, b \in Ends : a # b /\ Ends = {a, b}
    BY NetworkAssumption
  <1>2. \A x \in Ends : \E y \in Ends : y # x
    BY <1>1, SMT
  <1> Other(e) \in Ends /\ Other(e) # e
    BY <1>2 DEF Other
  <1>4. Other(Other(e)) \in Ends /\ Other(Other(e)) # Other(e)
    BY <1>2 DEF Other
  <1>5. Other(Other(e)) = e
    BY <1>1, <1>4
  <1>6. /\ Text[e] \in Seq(BytesOf(Text[e])) /\ NoByte \notin BytesOf(Text[e])
        /\ ISN[e] \in WrappingInt /\ Len(Text[e]) + 2 < Half
        /\ RecvCapacity \in Nat /\ RecvCapacity < Modulus /\ SendCapacity \in Nat
    BY NetworkAssumption DEF BytesOf
  <1>7. Len(Text[e]) \in Nat
    BY <1>6, SMT
  <1> QED BY <1>5, <1>6, <1>7 DEF Short, TextOf, IsText
-----------------------------------------------------------------------------
\* The sender t sends the text of e.
Sends(t, e) == t.isn = ISN[e] /\ Good(t, t.stream.bytesWritten, Text[e])

\* The count of the bytes written is exact.
LEMMA WrittenCount ==
  ASSUME NEW e \in Ends, NEW t, NEW w, t.isn = ISN[e], Good(t, w, Text[e])
  PROVE  Sends(t, e) /\ t.stream.bytesWritten = w /\ w \in Nat /\ w <= Len(Text[e])
  <1> w \in 0 .. Len(Text[e]) /\ t.stream.bytesWritten = w % Modulus
    BY DEF Good, Queued
  <1>2. Len(Text[e]) \in Nat /\ Len(Text[e]) + 2 < Half
    BY EndFacts
  <1>3. w % Modulus = w
    BY <1>2, Ranges, SMTT(30)
  <1>4. w \in Nat /\ w <= Len(Text[e])
    BY <1>2, SMTT(30)
  <1> QED BY <1>3, <1>4 DEF Sends

\* The numbers of a sender.
LEMMA SendsNumbers ==
  ASSUME NEW e \in Ends, NEW t, Sends(t, e)
  PROVE  /\ SenderNumbers(t) /\ t.next_seqno <= EndOfText(e) /\ t.checkpoint <= t.next_seqno
         /\ t.next_seqno \in 0 .. (Len(Text[e]) + 2) /\ EndOfText(e) \in Nat
         /\ t.fin <=> t.next_seqno = EndOfText(e)
         /\ t.fin => Eof(t.stream) /\ t.stream.isInputEnded
         /\ t.syn \in BOOLEAN /\ t.syn <=> t.next_seqno > 0
         /\ t.segments_out \in Seq(Said(ISN[e], Text[e], t.next_seqno))
         /\ t.stream.isInputEnded \in BOOLEAN /\ t.stream.error \in BOOLEAN
  <1> DEFINE w == t.stream.bytesWritten
             T == Text[e]
  <1> Good(t, w, T) /\ t.isn = ISN[e]
    BY DEF Sends
  <1> HIDE DEF w
  <1>2. t.next_seqno \in 0 .. (Len(T) + 2) /\ t.checkpoint \in 0 .. t.next_seqno
    BY NextBounded
  <1>3. /\ t.fin <=> t.next_seqno = Len(T) + 2
        /\ t.syn <=> t.next_seqno > 0
        /\ t.fin => t.syn /\ t.stream.isInputEnded /\ t.stream.buffer = <<>> /\ w = Len(T)
    BY FinIsLast
  <1>4. /\ t.rwnd \in Nat /\ t.fin \in BOOLEAN /\ t.syn \in BOOLEAN /\ t.stream \in Streams(T)
        /\ t.segments_out \in Seq(Said(t.isn, T, t.next_seqno))
    BY DEF Good, Typed
  <1>5. t.stream.isInputEnded \in BOOLEAN /\ t.stream.error \in BOOLEAN
    BY <1>4 DEF Streams
  <1>6. Len(T) \in Nat
    BY EndFacts
  <1>7. t.fin => Eof(t.stream)
    BY <1>3 DEF Eof
  <1>8. /\ t.next_seqno \in Nat /\ t.checkpoint \in Nat /\ t.next_seqno <= Len(T) + 2
        /\ t.checkpoint <= t.next_seqno /\ Len(T) + 2 \in Nat
    BY <1>2, <1>6, SMTT(30)
  <1> QED BY <1>2, <1>3, <1>4, <1>5, <1>7, <1>8 DEF SenderNumbers, EndOfText

\* The senders t and u are at the same positions.
SameNumbers(t, u) ==
  /\ u.next_seqno = t.next_seqno /\ u.checkpoint = t.checkpoint /\ u.rwnd = t.rwnd
  /\ u.fin = t.fin

\* The sender t of e has said what is under way in q; x, whose reader has d, has
\* of the text what t has sent and no more; and qx, under way from x to t,
\* acknowledges what x has taken.
Link(e, t, q, x, d, qx) ==
  /\ Sends(t, e) /\ q \in Seq(Said(ISN[e], Text[e], t.next_seqno))
  /\ Gets(x, ISN[e], Text[e], BytesOf(Text[e]), RecvCapacity, t.next_seqno, d)
  /\ Acked(ISN[e], t, x, qx)

\* That does not depend on anything else in t.
LEMMA LinkSame ==
  ASSUME NEW e, NEW t, NEW q, NEW x, NEW d, NEW qx, Link(e, t, q, x, d, qx),
         NEW u, Sends(u, e), SameNumbers(t, u)
  PROVE  Link(e, u, q, x, d, qx)
  BY DEF Link, SameNumbers, Acked

\* Segments said are said later.
LEMMA SeqLater ==
  ASSUME NEW isn, NEW T, NEW m \in Nat, NEW n \in Nat, m <= n, NEW q \in Seq(Said(isn, T, m))
  PROVE  q \in Seq(Said(isn, T, n))
  <1> DEFINE A == Said(isn, T, m)
             B == Said(isn, T, n)
  <1>1. A \subseteq B
    BY SaidLater
  <1> HIDE DEF A, B
  <1>2. q \in Seq(A)
    BY DEF A
  <1>3. q \in Seq(B)
    BY <1>1, <1>2, SMT
  <1> QED BY <1>3 DEF B

\* fill_window() keeps within what the peer has room for, and the probe.
LEMMA LinkFilled ==
  ASSUME NEW e \in Ends, NEW t, NEW q, NEW x, NEW d, NEW qx, Link(e, t, q, x, d, qx),
         NEW u, Sends(u, e), Fills(u, t)
  PROVE  Link(e, u, q, x, d, qx) /\ (t.fin => u.fin) /\ (~t.fin => t.rwnd < SizeModulus)
  <1> DEFINE T == Text[e]
             C == RecvCapacity
             can == NumBytesCanSend(t)
  <1>1. /\ Sends(t, e) /\ q \in Seq(Said(ISN[e], T, t.next_seqno))
        /\ Gets(x, ISN[e], T, BytesOf(T), C, t.next_seqno, d) /\ Acked(ISN[e], t, x, qx)
    BY DEF Link
  <1>2. /\ SenderNumbers(t) /\ t.next_seqno <= EndOfText(e) /\ t.checkpoint <= t.next_seqno
        /\ t.fin <=> t.next_seqno = EndOfText(e)
        /\ t.syn \in BOOLEAN /\ t.syn <=> t.next_seqno > 0
    BY <1>1, SendsNumbers
  <1>3. /\ SenderNumbers(u) /\ u.next_seqno <= EndOfText(e)
        /\ u.fin <=> u.next_seqno = EndOfText(e)
    BY SendsNumbers
  <1>4. /\ t.next_seqno \in Nat /\ t.checkpoint \in Nat /\ t.rwnd \in Nat /\ t.fin \in BOOLEAN
        /\ u.next_seqno \in Nat /\ u.fin \in BOOLEAN
    BY <1>2, <1>3 DEF SenderNumbers
  <1>5. /\ u.checkpoint = t.checkpoint /\ u.rwnd = t.rwnd /\ t.next_seqno <= u.next_seqno
        /\ \/ u.next_seqno = t.next_seqno
           \/ ~t.syn /\ u.next_seqno = 1
           \/ t.syn /\ u.next_seqno <= t.next_seqno + can
    BY DEF Fills
  <1>6. /\ Len(T) \in Nat /\ Len(T) + 2 < Half /\ C \in Nat /\ C < Modulus
    BY EndFacts
  <1>7. EndOfText(e) = Len(T) + 2
    BY DEF EndOfText
  <1>8. CASE t.fin
    <2>1. u.next_seqno = t.next_seqno
      BY <1>2, <1>3, <1>4, <1>5, <1>6, <1>7, <1>8, SMTT(30)
    <2>2. u.fin
      BY <1>2, <1>3, <1>8, <2>1
    <2>3. SameNumbers(t, u)
      BY <1>4, <1>5, <1>8, <2>1, <2>2 DEF SameNumbers
    <2> QED BY <1>8, <2>2, <2>3, LinkSame
  <1>9. CASE ~t.fin
    <2> DEFINE room == Maximum(1, t.rwnd)
               a == Got(x)
               win == WindowSize(x)
    <2>1. t.next_seqno <= t.checkpoint + room /\ Chain(ISN[e], qx, t.checkpoint, t.rwnd, 1 + a, win)
      BY <1>1, <1>9 DEF Acked
    <2>2. t.checkpoint <= 1 + a /\ t.checkpoint + t.rwnd <= 1 + a + win
      BY <2>1 DEF Chain, NoLater
    <2>3. win \in Nat /\ 1 + a + win = 1 + Len(d) + C
      <3>1. Gets(x, ISN[e], T, BytesOf(T), C, t.next_seqno, d)
        BY <1>1
      <3>2. win \in Nat /\ win <= C /\ 1 + a + win = 1 + Len(d) + C
        BY <3>1, WindowOf, SMTT(30)
      <3> QED BY <3>2
    <2>4. a \in Nat /\ a <= Len(T) /\ Len(d) \in Nat /\ Len(d) <= a /\ a <= Len(d) + C
      <3>1. /\ a \in Nat /\ a <= Len(T) /\ Len(d) \in Nat
            /\ Len(x.reassembler.output.buffer) \in Nat
            /\ Len(d) + Len(x.reassembler.output.buffer) = a
            /\ Len(x.reassembler.output.buffer) <= C
        BY <1>1, GetsNumbers
      <3> DEFINE b == Len(x.reassembler.output.buffer)
      <3> HIDE DEF a, b
      <3>2. b \in Nat /\ Len(d) + b = a /\ b <= C
        BY <3>1 DEF b
      <3> QED BY <1>6, <3>1, <3>2, SMTT(30)
    <2>5. room \in Nat /\ room >= 1 /\ (t.rwnd >= 1 => room = t.rwnd) /\ (t.rwnd = 0 => room = 1)
      BY <1>4, SMTT(30) DEF Maximum
    <2>6. can = (room - (t.next_seqno - t.checkpoint)) % SizeModulus
      <3>1. (IF t.rwnd > 0 THEN t.rwnd ELSE 1) = room
        BY <1>4, <2>5, SMTT(30)
      <3> HIDE DEF room
      <3> QED BY <3>1 DEF NumBytesCanSend
    <2> HIDE DEF room, a, win, can
    <2>7. can \in Nat /\ can <= room - (t.next_seqno - t.checkpoint)
      <3> DEFINE k == room - (t.next_seqno - t.checkpoint)
      <3>1. k \in Nat
        BY <1>2, <1>4, <2>1, <2>5, SMTT(30)
      <3> HIDE DEF k
      <3>2. can = k % SizeModulus
        BY <2>6 DEF k
      <3>3. can \in Nat /\ can <= k
        BY <3>1, <3>2, Ranges, SMTT(30)
      <3> QED BY <3>3 DEF k
    <2>8. u.next_seqno <= t.checkpoint + room
      <3>1. ~t.syn => t.next_seqno = 0
        BY <1>2, <1>4, SMTT(30)
      <3>2. t.next_seqno = 0 /\ u.next_seqno = 1 => u.next_seqno <= t.checkpoint + room
        BY <1>4, <2>5, SMTT(30)
      <3>3. u.next_seqno <= t.next_seqno + can => u.next_seqno <= t.checkpoint + room
        BY <1>4, <2>5, <2>7, SMTT(30)
      <3>4. u.next_seqno = t.next_seqno => u.next_seqno <= t.checkpoint + room
        BY <2>1
      <3> QED BY <1>5, <3>1, <3>2, <3>3, <3>4
    <2>9. u.next_seqno <= 2 + Len(d) + C /\ t.rwnd < SizeModulus
      <3>1. u.next_seqno <= 2 + Len(d) + C
        BY <1>4, <1>6, <2>2, <2>3, <2>4, <2>5, <2>8, SMTT(60)
      <3>2. t.rwnd < SizeModulus
        BY <1>4, <1>6, <2>2, <2>3, <2>4, Ranges, SMTT(60)
      <3> QED BY <3>1, <3>2
    <2>10. Gets(x, ISN[e], T, BytesOf(T), C, u.next_seqno, d)
      <3>1. u.next_seqno \in t.next_seqno .. (Len(T) + 2)
        BY <1>3, <1>4, <1>5, <1>6, <1>7, SMTT(30)
      <3> QED BY <1>1, <2>9, <3>1, GetsLater
    <2>11. Acked(ISN[e], u, x, qx)
      BY <1>1, <1>5, <2>1, <2>8 DEF Acked, room, a, win
    <2>12. q \in Seq(Said(ISN[e], T, u.next_seqno))
      BY <1>1, <1>4, <1>5, SeqLater
    <2> QED BY <1>9, <2>9, <2>10, <2>11, <2>12 DEF Link
  <1> QED BY <1>4, <1>8, <1>9

\* The position an acknowledgment is taken for is the one that was meant.
LEMMA AckPosition ==
  ASSUME NEW isn \in WrappingInt, NEW ackno \in WrappingInt, NEW p, p = Unwrap(ackno, isn, 0), p < Half,
         NEW checkpoint \in Nat, checkpoint < Half
  PROVE  p \in Nat /\ Unwrap(ackno, isn, checkpoint) = p
  <1>1. 0 \in Nat
    BY SMT
  <1>2. p \in Nat /\ Wrap(p, isn) = ackno
    BY <1>1, UnwrapWraps
  <1>3. checkpoint - Half <= p /\ p < checkpoint + Half
    BY <1>2, Ranges, SMTT(30)
  <1> QED BY <1>2, <1>3, RoundTrip

\* What the sender u keeps of t when it gets an acknowledgment of p.
TakesAck(t, u, p) ==
  /\ u.checkpoint >= t.checkpoint /\ u.checkpoint >= p
  /\ u.stream.isInputEnded = t.stream.isInputEnded /\ u.stream.error = t.stream.error

\* ack_received() of the oldest segment under way.
LEMMA LinkAcked ==
  ASSUME NEW e \in Ends, NEW t, NEW q, NEW x, NEW d, NEW qx, Link(e, t, q, x, d, qx),
         Len(qx) \in Nat, Len(qx) > 0, NEW seg, seg = qx[1], seg.ack, seg.ackno \in WrappingInt,
         NEW u, u = AckReceived(t, seg.ackno, seg.win)
  PROVE  Link(e, u, q, x, d, qx) /\ TakesAck(t, u, AckAt(ISN[e], seg))
  <1> DEFINE T == Text[e]
             C == RecvCapacity
             p == AckAt(ISN[e], seg)
             w == t.stream.bytesWritten
  <1> /\ Sends(t, e) /\ q \in Seq(Said(ISN[e], T, t.next_seqno))
      /\ Gets(x, ISN[e], T, BytesOf(T), C, t.next_seqno, d) /\ Acked(ISN[e], t, x, qx)
    BY DEF Link
  <1> /\ SenderNumbers(t) /\ t.next_seqno <= EndOfText(e) /\ t.checkpoint <= t.next_seqno
    BY SendsNumbers
  <1> t.next_seqno \in Nat /\ t.checkpoint \in Nat
    BY DEF SenderNumbers
  <1>4. /\ Len(T) \in Nat /\ Len(T) + 2 < Half /\ ISN[e] \in WrappingInt
    BY EndFacts
  <1>5. EndOfText(e) = Len(T) + 2
    BY DEF EndOfText
  <1> p \in Nat /\ p <= TakenTo(x) /\ seg.win \in Nat
    <2>1. 1 \in 1 .. Len(qx)
      BY SMTT(30)
    <2> QED BY <2>1 DEF Acked
  <1>7. TakenTo(x) \in Nat /\ TakenTo(x) <= t.next_seqno
    BY TakenFacts
  <1>8. p <= t.next_seqno /\ p < Half /\ t.checkpoint < Half
    <2> HIDE DEF p
    <2> QED BY <1>4, <1>5, <1>7, Ranges, SMTT(30)
  <1>9. Unwrap(seg.ackno, ISN[e], t.checkpoint) = p
    <2>1. p = Unwrap(seg.ackno, ISN[e], 0)
      BY DEF AckAt
    <2> HIDE DEF p
    <2> QED BY <1>4, <1>8, <2>1, AckPosition, SMTT(30)
  <1> Good(t, w, T) /\ t.isn = ISN[e]
    BY DEF Sends
  <1> /\ Good(u, w, T) /\ u.isn = t.isn
      /\ ~AckIsNew(t, p) => Opened(u, t, seg.win)
      /\ AckIsNew(t, p) =>
           \E v : Good(v, w, T) /\ Applied(v, t, p, seg.win) /\ u = FillWindow(v) /\ Fills(u, v)
    <2>1. LET abs == Unwrap(seg.ackno, t.isn, t.checkpoint)
              a == AckReceived(t, seg.ackno, seg.win)
          IN  /\ abs \in Nat /\ Good(a, w, T) /\ a.isn = t.isn
              /\ ~AckIsNew(t, abs) => Opened(a, t, seg.win)
              /\ AckIsNew(t, abs) =>
                   \E v : Good(v, w, T) /\ Applied(v, t, abs, seg.win) /\ a = FillWindow(v) /\ Fills(a, v)
      <3> HIDE DEF w
      <3> QED BY AckReceivedDoes
    <2> QED BY <1>9, <2>1
  <1> HIDE DEF p, w
  <1>12. AckIsNew(t, p) <=> p > t.checkpoint
    BY <1>8 DEF AckIsNew
  <1> ASSUME NEW v, Good(v, w, T), v.isn = t.isn, v.fin = t.fin, v.next_seqno = t.next_seqno,
             v.rwnd = seg.win, v.checkpoint = IF p > t.checkpoint THEN p ELSE t.checkpoint
      PROVE  Link(e, v, q, x, d, qx) /\ v.checkpoint >= t.checkpoint /\ v.checkpoint >= p
    <2>1. Sends(v, e)
      BY WrittenCount
    <2>2. Got(x) \in Nat /\ WindowSize(x) \in Nat
      BY GetsNumbers, WindowOf
    <2>3. Acked(ISN[e], v, x, qx)
      BY <2>2, AcksTaken DEF p
    <2>4. v.checkpoint >= t.checkpoint /\ v.checkpoint >= p
      BY SMTT(30)
    <2> QED BY <2>1, <2>3, <2>4 DEF Link
  <1> CASE p > t.checkpoint
    <2> PICK v : Good(v, w, T) /\ Applied(v, t, p, seg.win) /\ u = FillWindow(v) /\ Fills(u, v)
      BY <1>12
    <2>2. /\ v.isn = t.isn /\ v.fin = t.fin /\ v.next_seqno = t.next_seqno /\ v.stream = t.stream
          /\ v.rwnd = seg.win /\ v.checkpoint = IF p > t.checkpoint THEN p ELSE t.checkpoint
      BY DEF Applied
    <2>3. Link(e, v, q, x, d, qx) /\ v.checkpoint >= t.checkpoint /\ v.checkpoint >= p
      BY <2>2
    <2>4. Sends(u, e)
      BY WrittenCount
    <2>5. Link(e, u, q, x, d, qx)
      BY <2>3, <2>4, LinkFilled
    <2>6. /\ u.checkpoint = v.checkpoint /\ u.stream.isInputEnded = v.stream.isInputEnded
          /\ u.stream.error = v.stream.error
      BY DEF Fills
    <2> QED BY <2>2, <2>3, <2>5, <2>6 DEF TakesAck, p
  <1> CASE ~(p > t.checkpoint)
    <2>1. Opened(u, t, seg.win)
      BY <1>12
    <2>2. /\ u.fin = t.fin /\ u.next_seqno = t.next_seqno /\ u.stream = t.stream
          /\ u.rwnd = seg.win /\ u.checkpoint = IF p > t.checkpoint THEN p ELSE t.checkpoint
      BY <2>1 DEF Opened
    <2>3. Link(e, u, q, x, d, qx) /\ u.checkpoint >= t.checkpoint /\ u.checkpoint >= p
      BY <2>2
    <2> QED BY <2>2, <2>3 DEF TakesAck, p
  <1> QED OBVIOUS
\* The receiver y has got at least as far as x.
Further(x, y) ==
  /\ Got(x) <= Got(y) /\ (x.recievedSYN => y.recievedSYN)
  /\ x.reassembler.output.isInputEnded => y.reassembler.output.isInputEnded

\* The receiver takes more, or its reader does.
LEMMA LinkTaken ==
  ASSUME NEW e \in Ends, NEW t, NEW q, NEW x, NEW d, NEW qx, Link(e, t, q, x, d, qx),
         NEW y, NEW f, Gets(y, ISN[e], Text[e], BytesOf(Text[e]), RecvCapacity, t.next_seqno, f),
         Further(x, y), Len(d) <= Len(f)
  PROVE  Link(e, t, q, y, f, qx)
  <1> DEFINE T == Text[e]
             C == RecvCapacity
  <1> /\ Sends(t, e) /\ q \in Seq(Said(ISN[e], T, t.next_seqno))
      /\ Gets(x, ISN[e], T, BytesOf(T), C, t.next_seqno, d) /\ Acked(ISN[e], t, x, qx)
    BY DEF Link
  <1>2. SenderNumbers(t)
    BY SendsNumbers
  <1> ASSUME NEW z, NEW g, Gets(z, ISN[e], T, BytesOf(T), C, t.next_seqno, g)
      PROVE  /\ TakenTo(z) \in Nat /\ Got(z) \in Nat /\ WindowSize(z) \in Nat
             /\ Len(g) \in Nat /\ C \in Nat
             /\ 1 + Got(z) + WindowSize(z) = 1 + Len(g) + C
             /\ z.recievedSYN \in BOOLEAN /\ z.reassembler.output.isInputEnded \in BOOLEAN
    <2>1. TakenTo(z) \in Nat
      BY TakenFacts
    <2>2. Got(z) \in Nat /\ Len(g) \in Nat /\ C \in Nat
      BY GetsNumbers
    <2>3. z.reassembler.output.isInputEnded \in BOOLEAN
      BY GetsStored
    <2>4. z.recievedSYN \in BOOLEAN
      BY DEF Gets
    <2>5. WindowSize(z) \in Nat /\ 1 + Got(z) + WindowSize(z) = 1 + Len(g) + C
      BY WindowOf, SMTT(30)
    <2> QED BY <2>1, <2>2, <2>3, <2>4, <2>5
  <1>4. TakenTo(x) <= TakenTo(y) /\ 1 + Got(x) + WindowSize(x) <= 1 + Got(y) + WindowSize(y)
    <2> DEFINE a == Got(x)
               b == Got(y)
               i == IF x.reassembler.output.isInputEnded THEN 1 ELSE 0
               j == IF y.reassembler.output.isInputEnded THEN 1 ELSE 0
    <2>1. /\ a \in Nat /\ b \in Nat /\ a <= b /\ i \in {0, 1} /\ j \in {0, 1} /\ i <= j
          /\ 1 + a + WindowSize(x) = 1 + Len(d) + C /\ 1 + b + WindowSize(y) = 1 + Len(f) + C
          /\ Len(d) \in Nat /\ Len(f) \in Nat /\ C \in Nat
      <3>1. (i = 0 /\ j = 0) \/ (i = 0 /\ j = 1) \/ (i = 1 /\ j = 1)
        BY DEF Further
      <3> HIDE DEF i, j
      <3>2. i \in {0, 1} /\ j \in {0, 1} /\ i <= j
        BY <3>1, SMTT(30)
      <3> QED BY <3>2 DEF Further
    <2>2. /\ TakenTo(x) = IF x.recievedSYN THEN 1 + a + i ELSE 0
          /\ TakenTo(y) = IF y.recievedSYN THEN 1 + b + j ELSE 0
          /\ x.recievedSYN => y.recievedSYN
      BY DEF TakenTo, Further
    <2> HIDE DEF a, b, i, j
    <2>3. TakenTo(x) <= TakenTo(y)
      BY <2>1, <2>2, SMTT(60)
    <2>4. 1 + a + WindowSize(x) <= 1 + b + WindowSize(y)
      BY <2>1, SMTT(30)
    <2> QED BY <2>3, <2>4 DEF a, b
  <1>5. Acked(ISN[e], t, y, qx)
    BY <1>2, <1>4, AcksGrown DEF Further
  <1> QED BY <1>5 DEF Link

\* r are segments with the acknowledgment and the window of x.
Answers(r, x) ==
  \A i \in 1 .. Len(r) :
    /\ r[i].ack = x.recievedSYN /\ r[i].win = WindowSize(x)
    /\ x.recievedSYN => r[i].ackno = Ackno(x)

\* They are sent.
LEMMA LinkSent ==
  ASSUME NEW e \in Ends, NEW t, NEW q, NEW x, NEW d, NEW S, NEW qx \in Seq(S), Link(e, t, q, x, d, qx),
         NEW r \in Seq(S), Answers(r, x)
  PROVE  Link(e, t, q, x, d, qx \o r)
  <1> DEFINE T == Text[e]
             C == RecvCapacity
             p == Unwrap(Ackno(x), ISN[e], 0)
  <1> /\ Sends(t, e) /\ q \in Seq(Said(ISN[e], T, t.next_seqno))
      /\ Gets(x, ISN[e], T, BytesOf(T), C, t.next_seqno, d) /\ Acked(ISN[e], t, x, qx)
    BY DEF Link
  <1>2. SenderNumbers(t) /\ (t.fin <=> t.next_seqno = Len(T) + 2)
    BY SendsNumbers DEF EndOfText
  <1>3. Got(x) \in Nat
    BY GetsNumbers
  <1>4. WindowSize(x) \in Nat
    BY WindowOf
  <1>5. ~t.fin => ~x.recievedFIN
    BY <1>2 DEF Gets
  <1>6. x.recievedSYN => /\ p \in Nat /\ 1 <= p /\ p <= TakenTo(x)
                         /\ ~x.recievedFIN => p = 1 + Got(x)
    <2> HIDE DEF p
    <2>1. p = Unwrap(Ackno(x), ISN[e], 0)
      BY DEF p
    <2> QED BY <2>1, AnswerOf, SMTT(30)
  <1>7. ASSUME NEW i \in 1 .. Len(r), r[i].ack
        PROVE  /\ AckAt(ISN[e], r[i]) \in Nat /\ 1 <= AckAt(ISN[e], r[i])
               /\ AckAt(ISN[e], r[i]) <= TakenTo(x)
               /\ r[i].win = WindowSize(x)
               /\ ~t.fin => AckAt(ISN[e], r[i]) = 1 + Got(x)
    <2>1. x.recievedSYN /\ r[i].win = WindowSize(x) /\ AckAt(ISN[e], r[i]) = p
      BY <1>7 DEF Answers, AckAt
    <2> HIDE DEF p
    <2> QED BY <1>5, <1>6, <2>1
  <1>8. Acked(ISN[e], t, x, qx \o r)
    BY <1>2, <1>3, <1>4, <1>7, AcksSent
  <1> QED BY <1>8 DEF Link

\* So are segments of the sender.
LEMMA LinkSaid ==
  ASSUME NEW e, NEW t, NEW q, NEW x, NEW d, NEW qx, Link(e, t, q, x, d, qx),
         NEW r \in Seq(Said(ISN[e], Text[e], t.next_seqno))
  PROVE  Link(e, t, q \o r, x, d, qx)
  <1> DEFINE S == Said(ISN[e], Text[e], t.next_seqno)
  <1>1. q \in Seq(S)
    BY DEF Link
  <1> HIDE DEF S
  <1>2. q \o r \in Seq(S)
    BY <1>1, Joined DEF S
  <1> QED BY <1>2 DEF Link, S

\* The oldest segment under way is gone, in either direction.
LEMMA LinkLess ==
  ASSUME NEW e, NEW t, NEW q, NEW x, NEW d, NEW S, NEW qx \in Seq(S), Link(e, t, q, x, d, qx)
  PROVE  /\ q # <<>> => Link(e, t, Tail(q), x, d, qx)
         /\ qx # <<>> => Link(e, t, q, x, d, Tail(qx))
  <1> DEFINE R == Said(ISN[e], Text[e], t.next_seqno)
  <1>1. q \in Seq(R) /\ Acked(ISN[e], t, x, qx)
    BY DEF Link
  <1> HIDE DEF R
  <1>2. q # <<>> => Tail(q) \in Seq(R)
    BY <1>1, SMT
  <1>3. qx # <<>> => Acked(ISN[e], t, x, Tail(qx))
    BY <1>1, AcksTail
  <1> QED BY <1>2, <1>3 DEF Link, R

\* FIN is said only when everything before it has been.
LEMMA FinSaid ==
  ASSUME NEW isn, NEW T, Len(T) \in Nat, NEW n \in Nat, NEW seg \in Said(isn, T, n), seg.fin
  PROVE  n >= Len(T) + 2
  <1>1. PICK p \in 0 .. n :
          /\ p + LengthInSequenceSpace(seg) <= n
          /\ seg.fin => ~seg.syn /\ p + Len(seg.payload) = Len(T) + 1
    BY DEF Said
  <1>2. seg \in Segments(T)
    BY DEF Said
  <1>3. Len(seg.payload) \in Nat /\ LengthInSequenceSpace(seg) = Len(seg.payload) + 1
    BY <1>1, <1>2, SegmentLength
  <1>4. p + (Len(seg.payload) + 1) <= n /\ p + Len(seg.payload) = Len(T) + 1
    BY <1>1, <1>3
  <1> QED BY <1>3, <1>4, SMTT(30)
-----------------------------------------------------------------------------
\* An end with segments q under way does not linger: every FIN of it tells the
\* peer o, with the receiver x and the sender s, that all of o's text and FIN
\* have been taken; so o knows when it has the FIN.
Quits(o, linger, q, x, s) ==
  ~linger =>
    /\ \A i \in 1 .. Len(q) : q[i].fin => q[i].ack /\ AckAt(ISN[o], q[i]) = EndOfText(o)
    /\ x.recievedFIN => s.checkpoint = EndOfText(o)

\* The connection c of e, with q under way to the connection p of the peer, whose
\* reader has dp and from which qp is under way; OV are the ends at which a FIN
\* overtook a byte.
Side(e, c, q, p, qp, dp, OV) ==
  /\ Link(e, c.sender, q, p.receiver, dp, qp)
  /\ e \notin OV => /\ LastThere(c.receiver, Text[Other(e)])
                    /\ Quits(Other(e), c.linger, q, p.receiver, p.sender)

\* Both sides.
World(e, c, q, d, p, qp, dp, OV) ==
  Side(e, c, q, p, qp, dp, OV) /\ Side(Other(e), p, qp, c, q, d, OV)

\* Either end may be seen as the first one.
LEMMA WorldSymmetric ==
  ASSUME NEW e \in Ends, NEW c, NEW q, NEW d, NEW p, NEW qp, NEW dp, NEW OV,
         World(e, c, q, d, p, qp, dp, OV)
  PROVE  World(Other(e), p, qp, dp, c, q, d, OV)
  BY EndFacts DEF World

\* The connection of e becomes b, its reader has f, and only its sender and its
\* receiver differ: it is enough that both links hold, that the sender does not
\* fall back, and that a FIN from a peer that does not linger acknowledges
\* everything.
LEMMA WorldStep ==
  ASSUME NEW e \in Ends, NEW c, NEW q, NEW d, NEW p, NEW qp, NEW dp, NEW OV,
         World(e, c, q, d, p, qp, dp, OV), NEW b, NEW f, NEW OW,
         b.linger = c.linger,
         Link(e, b.sender, q, p.receiver, dp, qp), Link(Other(e), p.sender, qp, b.receiver, f, q),
         b.sender.checkpoint >= c.sender.checkpoint,
         OV \subseteq OW, Other(e) \in OW => Other(e) \in OV,
         e \notin OW => LastThere(b.receiver, Text[Other(e)]),
         b.receiver.recievedFIN /\ ~c.receiver.recievedFIN /\ Other(e) \notin OV /\ ~p.linger =>
           b.sender.checkpoint >= EndOfText(e)
  PROVE  World(e, b, q, f, p, qp, dp, OW)
  <1> DEFINE o == Other(e)
  <1> Side(e, c, q, p, qp, dp, OV) /\ Side(o, p, qp, c, q, d, OV) /\ Other(o) = e
    BY EndFacts DEF World
  <1>2. Side(e, b, q, p, qp, dp, OW)
    BY DEF Side
  <1>3. Sends(b.sender, e) /\ Sends(c.sender, e)
    BY DEF Link, Side
  <1>4. b.sender.checkpoint >= EndOfText(e) => b.sender.checkpoint = EndOfText(e)
    <2>1. /\ SenderNumbers(b.sender) /\ b.sender.next_seqno <= EndOfText(e)
          /\ b.sender.checkpoint <= b.sender.next_seqno /\ EndOfText(e) \in Nat
      BY <1>3, SendsNumbers
    <2>2. b.sender.next_seqno \in Nat /\ b.sender.checkpoint \in Nat
      BY <2>1 DEF SenderNumbers
    <2> QED BY <2>1, <2>2, SMTT(30)
  <1>5. ASSUME o \notin OW
        PROVE  LastThere(p.receiver, Text[e]) /\ Quits(e, p.linger, qp, b.receiver, b.sender)
    <2> o \notin OV /\ LastThere(p.receiver, Text[e]) /\ Quits(e, p.linger, qp, c.receiver, c.sender)
      BY <1>5 DEF Side
    <2> ASSUME ~p.linger, b.receiver.recievedFIN
        PROVE  b.sender.checkpoint = EndOfText(e)
      <3>1. CASE c.receiver.recievedFIN
        <4>1. c.sender.checkpoint = EndOfText(e)
          BY <3>1 DEF Quits
        <4> QED BY <1>4, <4>1
      <3>2. CASE ~c.receiver.recievedFIN
        BY <1>4, <3>2
      <3> QED BY <3>1, <3>2
    <2> QED BY DEF Quits
  <1>6. Side(o, p, qp, b, q, f, OW)
    BY <1>5 DEF Side
  <1> QED BY <1>2, <1>6 DEF World

\* An element of two sequences is one of the first or of the second.
LEMMA OneOf ==
  ASSUME NEW S, NEW q \in Seq(S), NEW r \in Seq(S), NEW i \in 1 .. Len(q \o r)
  PROVE  \/ \E j \in 1 .. Len(q) : (q \o r)[i] = q[j]
         \/ \E j \in 1 .. Len(r) : (q \o r)[i] = r[j]
  <1>1. /\ Len(q) \in Nat /\ Len(r) \in Nat /\ Len(q \o r) = Len(q) + Len(r)
        /\ \A k \in 1 .. Len(q) + Len(r) :
             (q \o r)[k] = IF k <= Len(q) THEN q[k] ELSE r[k - Len(q)]
    BY Joined
  <1> DEFINE m == Len(q)
             n == Len(r)
             a == q \o r
  <1>2. i \in 1 .. m + n /\ m \in Nat /\ n \in Nat
    BY <1>1
  <1> HIDE DEF m, n, a
  <1>3. (i <= m /\ i \in 1 .. m) \/ (~(i <= m) /\ i - m \in 1 .. n)
    BY <1>2, SMTT(30)
  <1>4. a[i] = IF i <= m THEN q[i] ELSE r[i - m]
    BY <1>1, <1>2 DEF m, n, a
  <1> QED BY <1>3, <1>4 DEF m, n, a

\* e sends segments with its acknowledgment and its window.
LEMMA WorldSent ==
  ASSUME NEW e \in Ends, NEW c, NEW q, NEW d, NEW p, NEW qp, NEW dp, NEW OV,
         World(e, c, q, d, p, qp, dp, OV), NEW r \in Seq(Said(ISN[e], Text[e], c.sender.next_seqno)),
         Answers(r, c.receiver), ~c.linger => c.receiver.reassembler.output.isInputEnded
  PROVE  World(e, c, q \o r, d, p, qp, dp, OV)
  <1> DEFINE o == Other(e)
             x == c.receiver
             S == Said(ISN[e], Text[e], c.sender.next_seqno)
  <1> Side(e, c, q, p, qp, dp, OV) /\ Side(o, p, qp, c, q, d, OV) /\ o \in Ends
    BY EndFacts DEF World
  <1> /\ Link(e, c.sender, q, p.receiver, dp, qp) /\ Link(o, p.sender, qp, x, d, q)
    BY DEF Side
  <1>3. Link(e, c.sender, q \o r, p.receiver, dp, qp)
    BY LinkSaid
  <1>4. q \in Seq(S)
    BY DEF Link
  <1> HIDE DEF S
  <1>5. r \in Seq(S)
    BY DEF S
  <1>6. Link(o, p.sender, qp, x, d, q \o r)
    BY <1>4, <1>5, LinkSent
  <1>7. Side(o, p, qp, c, q \o r, d, OV)
    BY <1>6 DEF Side
  <1> ASSUME e \notin OV, ~c.linger
      PROVE  \A i \in 1 .. Len(q \o r) :
               (q \o r)[i].fin => (q \o r)[i].ack /\ AckAt(ISN[o], (q \o r)[i]) = EndOfText(o)
    <2>1. /\ LastThere(x, Text[o])
          /\ \A i \in 1 .. Len(q) : q[i].fin => q[i].ack /\ AckAt(ISN[o], q[i]) = EndOfText(o)
      BY DEF Side, Quits
    <2>2. Gets(x, ISN[o], Text[o], BytesOf(Text[o]), RecvCapacity, p.sender.next_seqno, d)
      BY DEF Link
    <2>3. x.reassembler.output.isInputEnded /\ x.recievedSYN
      BY <2>2 DEF Gets
    <2>4. \A z : z = Unwrap(Ackno(x), ISN[o], 0) => z = EndOfText(o)
      BY <2>1, <2>2, <2>3, AnswerOf DEF EndOfText
    <2>5. \A i \in 1 .. Len(r) : r[i].ack /\ AckAt(ISN[o], r[i]) = EndOfText(o)
      BY <2>3, <2>4 DEF Answers, AckAt
    <2> HIDE DEF o
    <2>6. ASSUME NEW i \in 1 .. Len(q \o r), (q \o r)[i].fin
          PROVE  (q \o r)[i].ack /\ AckAt(ISN[o], (q \o r)[i]) = EndOfText(o)
      <3>1. \/ \E j \in 1 .. Len(q) : (q \o r)[i] = q[j]
            \/ \E j \in 1 .. Len(r) : (q \o r)[i] = r[j]
        BY <1>4, <1>5, OneOf
      <3> QED BY <2>1, <2>5, <2>6, <3>1
    <2> QED BY <2>6
  <1>9. Side(e, c, q \o r, p, qp, dp, OV)
    BY <1>3 DEF Side, Quits
  <1> QED BY <1>7, <1>9 DEF World

\* e stops to linger before its FIN is sent.
LEMMA WorldLinger ==
  ASSUME NEW e \in Ends, NEW c, NEW q, NEW d, NEW p, NEW qp, NEW dp, NEW OV,
         World(e, c, q, d, p, qp, dp, OV), NEW b, b.sender = c.sender, b.receiver = c.receiver,
         b.linger = c.linger \/ ~c.sender.fin
  PROVE  World(e, b, q, d, p, qp, dp, OV)
  <1> DEFINE o == Other(e)
             T == Text[e]
             t == c.sender
  <1> Side(e, c, q, p, qp, dp, OV) /\ Side(o, p, qp, c, q, d, OV)
    BY DEF World
  <1>2. Side(o, p, qp, b, q, d, OV)
    BY DEF Side
  <1>3. CASE b.linger = c.linger
    BY <1>2, <1>3 DEF World, Side
  <1> CASE ~t.fin
    <2>1. Link(e, t, q, p.receiver, dp, qp)
      BY DEF Side
    <2> /\ Sends(t, e) /\ q \in Seq(Said(ISN[e], T, t.next_seqno))
        /\ Gets(p.receiver, ISN[e], T, BytesOf(T), RecvCapacity, t.next_seqno, dp)
      BY <2>1 DEF Link
    <2> /\ SenderNumbers(t) /\ t.next_seqno <= EndOfText(e)
        /\ t.fin <=> t.next_seqno = EndOfText(e)
      BY SendsNumbers
    <2> t.next_seqno \in Nat /\ Len(T) \in Nat /\ EndOfText(e) = Len(T) + 2
      BY EndFacts DEF SenderNumbers, EndOfText
    <2>5. ~(t.next_seqno >= Len(T) + 2)
      <3>1. t.next_seqno # Len(T) + 2 /\ t.next_seqno <= Len(T) + 2
        OBVIOUS
      <3> QED BY <3>1, SMTT(30)
    <2>6. ~p.receiver.recievedFIN
      BY DEF Gets
    <2>7. ASSUME NEW i \in 1 .. Len(q) PROVE ~q[i].fin
      <3>1. q[i] \in Said(ISN[e], T, t.next_seqno)
        BY SMT
      <3> QED BY <2>5, <3>1, FinSaid
    <2>8. Quits(o, b.linger, q, p.receiver, p.sender)
      BY <2>6, <2>7 DEF Quits
    <2> QED BY <1>2, <2>8 DEF World, Side
  <1> QED BY <1>3

\* The oldest segment of the peer is taken or lost.
LEMMA WorldLess ==
  ASSUME NEW e \in Ends, NEW c, NEW q, NEW d, NEW p, NEW qp, NEW dp, NEW OV,
         World(e, c, q, d, p, qp, dp, OV), qp # <<>>
  PROVE  World(e, c, q, d, p, Tail(qp), dp, OV)
  <1> DEFINE o == Other(e)
             S == Said(ISN[o], Text[o], p.sender.next_seqno)
             R == Said(ISN[e], Text[e], c.sender.next_seqno)
  <1>1. Side(e, c, q, p, qp, dp, OV) /\ Side(o, p, qp, c, q, d, OV)
    BY DEF World
  <1>2. /\ Link(e, c.sender, q, p.receiver, dp, qp) /\ Link(o, p.sender, qp, c.receiver, d, q)
    BY <1>1 DEF Side
  <1>3. qp \in Seq(S) /\ q \in Seq(R)
    BY <1>2 DEF Link
  <1> HIDE DEF S, R
  <1>4. Link(e, c.sender, q, p.receiver, dp, Tail(qp)) /\ Link(o, p.sender, Tail(qp), c.receiver, d, q)
    BY <1>2, <1>3, LinkLess
  <1>5. ASSUME NEW i \in 1 .. Len(Tail(qp))
        PROVE  \E j \in 1 .. Len(qp) : Tail(qp)[i] = qp[j]
    <2>1. Len(qp) \in Nat /\ Len(Tail(qp)) = Len(qp) - 1 /\ Tail(qp)[i] = qp[i + 1]
      BY <1>3, SMTT(30)
    <2> DEFINE n == Len(qp)
    <2>2. n \in Nat /\ i \in 1 .. (n - 1)
      BY <2>1
    <2> HIDE DEF n
    <2>3. i + 1 \in 1 .. n
      BY <2>2, SMTT(30)
    <2> QED BY <2>1, <2>3 DEF n
  <1>6. ASSUME NEW l, NEW y, NEW s, Quits(Other(o), l, qp, y, s)
        PROVE  Quits(Other(o), l, Tail(qp), y, s)
    <2> HIDE DEF o
    <2> QED BY <1>5, <1>6 DEF Quits
  <1>7. Side(e, c, q, p, Tail(qp), dp, OV) /\ Side(o, p, Tail(qp), c, q, d, OV)
    BY <1>1, <1>4, <1>6 DEF Side
  <1> QED BY <1>7 DEF World
-----------------------------------------------------------------------------
\* A window that fits the header goes out as it is.
LEMMA WindowFits ==
  ASSUME NEW w \in Nat, w < WinModulus
  PROVE  w % WinModulus = w
  <1>1. WinModulus \in Nat /\ WinModulus > 0
    BY ConnectionAssumption, SMTT(30)
  <1> QED BY <1>1, SMTT(30)

\* The segments of e with acknowledgment, window and RST.
LEMMA StampedSaid ==
  ASSUME NEW isn, NEW T, NEW n, NEW c, NEW segs \in Seq(Said(isn, T, n)), NEW rst \in BOOLEAN,
         c.receiver.recievedSYN \in BOOLEAN,
         c.receiver.recievedSYN => Ackno(c.receiver) \in WrappingInt,
         WindowSize(c.receiver) \in Nat, WindowSize(c.receiver) < WinModulus
  PROVE  /\ Stamped(c, segs, rst) \in Seq(Said(isn, T, n))
         /\ Answers(Stamped(c, segs, rst), c.receiver)
  <1> DEFINE h == c.receiver.recievedSYN
             k == Ackno(c.receiver)
             win == WindowSize(c.receiver)
             N(i) == [segs[i] EXCEPT !.ack = h, !.ackno = IF h THEN k ELSE @, !.win = win,
                                     !.rst = rst /\ i = Len(segs)]
             S == Said(isn, T, n)
             m == Len(segs)
             r == Stamped(c, segs, rst)
             P(y) == y \in S /\ y.ack = h /\ y.win = win /\ (h => y.ackno = k)
  <1>1. ASSUME NEW seg \in S, NEW last \in BOOLEAN, NEW y,
               y = [seg EXCEPT !.ack = h, !.ackno = IF h THEN k ELSE @, !.win = win, !.rst = last]
        PROVE  P(y)
    <2>1. seg \in Segments(T)
      BY DEF Said
    <2> HIDE DEF h, k, win
    <2>2. h \in BOOLEAN /\ (h => k \in WrappingInt) /\ win \in Nat
      BY DEF h, k, win
    <2>3. /\ y.seqno = seg.seqno /\ y.syn = seg.syn /\ y.fin = seg.fin /\ y.payload = seg.payload
          /\ y \in Segments(T) /\ y.ack = h /\ y.win = win /\ (h => y.ackno = k)
      BY <1>1, <2>1, <2>2 DEF Segments
    <2>4. LengthInSequenceSpace(y) = LengthInSequenceSpace(seg)
      BY <2>3 DEF LengthInSequenceSpace
    <2> QED BY <2>3, <2>4 DEF Said
  <1>2. m \in Nat /\ \A i \in 1 .. m : segs[i] \in S
    BY SMT
  <1> HIDE DEF P
  <1>3. \A i \in 1 .. m : P(N(i))
    <2> SUFFICES ASSUME NEW i \in 1 .. m PROVE P(N(i))
      OBVIOUS
    <2> DEFINE y == N(i)
               last == rst /\ i = Len(segs)
    <2>1. segs[i] \in S /\ last \in BOOLEAN
      BY <1>2
    <2>2. y = [segs[i] EXCEPT !.ack = h, !.ackno = IF h THEN k ELSE @, !.win = win, !.rst = last]
      OBVIOUS
    <2> HIDE DEF S, h, k, win, y, last
    <2>3. P(y)
      BY <1>1, <2>1, <2>2
    <2> QED BY <2>3 DEF y
  <1>4. r = [i \in 1 .. m |-> N(i)]
    BY WindowFits DEF Stamped, HasAckno
  <1> HIDE DEF N, S, m, r
  <1> r \in Seq(S) /\ Len(r) = m /\ \A i \in 1 .. m : r[i] = N(i)
    <2>1. \A i \in 1 .. m : N(i) \in S
      BY <1>3 DEF P
    <2> QED BY <1>2, <1>4, <2>1, SMT
  <1>6. Answers(r, c.receiver)
    <2> SUFFICES ASSUME NEW i \in 1 .. Len(r)
                 PROVE  r[i].ack = h /\ r[i].win = win /\ (h => r[i].ackno = k)
      BY DEF Answers
    <2>1. i \in 1 .. m
      OBVIOUS
    <2>2. r[i] = N(i)
      BY <2>1
    <2> HIDE DEF h, k, win
    <2> QED BY <1>3, <2>1, <2>2 DEF P
  <1> QED BY <1>6 DEF S, r

ConnectionFields ==
  {"receiver", "sender", "segments_out", "linger", "time_since", "active", "sent_SYN"}

\* Both connections, with the segments of e that are under way and the ones it
\* has not handed over yet.
Whole(e, c, base, d, p, qp, dp, OV) ==
  /\ base \in Seq(Segments(Text[e])) /\ c.segments_out \in Seq(Segments(Text[e]))
  /\ World(e, c, base \o c.segments_out, d, p, qp, dp, OV)

Broken(c) == c.sender.stream.error

\* The flags of a connection at any time: both streams are marked as broken, or
\* neither; a broken connection is not active; and one that does not linger has
\* its peer's FIN.
Marks(c) ==
  /\ DOMAIN c = ConnectionFields
  /\ c.active \in BOOLEAN /\ c.linger \in BOOLEAN /\ c.sent_SYN \in BOOLEAN
  /\ c.receiver.reassembler.output.error = c.sender.stream.error
  /\ Broken(c) => ~c.active
  /\ ~c.linger => c.receiver.reassembler.output.isInputEnded

Ready(c) == Marks(c) /\ (c.active \/ Broken(c))

\* The flags between operations: a connection that ended without an error was
\* finished and its FIN sent; one that does not linger ends at once; and one that
\* lingers with its peer's FIN has all its own bytes sent.
Settled(c) ==
  /\ Marks(c)
  /\ ~c.active => c.sent_SYN /\ (Broken(c) \/ (StreamsFinished(c) /\ c.sender.fin))
  /\ c.active /\ ~c.linger => ~StreamsFinished(c)
  /\ c.linger /\ c.receiver.reassembler.output.isInputEnded => Eof(c.sender.stream)

\* _clean_shutdown(): what it decides.
Decides(c, v) ==
  /\ DOMAIN v = ConnectionFields /\ v.sender = c.sender /\ v.receiver = c.receiver
  /\ v.segments_out = c.segments_out /\ v.sent_SYN = c.sent_SYN
  /\ v.linger \in BOOLEAN /\ v.active \in BOOLEAN
  /\ v.linger = c.linger \/ (c.receiver.reassembler.output.isInputEnded /\ ~Eof(c.sender.stream))
  /\ v.linger /\ c.receiver.reassembler.output.isInputEnded => Eof(c.sender.stream)
  /\ ~v.linger => ~c.linger \/ c.receiver.reassembler.output.isInputEnded
  /\ v.active => c.active
  /\ c.active /\ ~v.active => StreamsFinished(c)
  /\ v.active /\ ~v.linger => ~StreamsFinished(c)

\* The test for a clean close changes only the flags linger and active.
LEMMA CleanShutdownDoes ==
  ASSUME NEW c, DOMAIN c = ConnectionFields, c.linger \in BOOLEAN, c.active \in BOOLEAN,
         NEW v, v = CleanShutdown(c)
  PROVE  Decides(c, v)
  <1> DEFINE over == c.receiver.reassembler.output.isInputEnded /\ ~Eof(c.sender.stream)
             linger == c.linger /\ ~over
             late == c.time_since >= LingerFactor * InitialRTO
             done == StreamsFinished(c) /\ (~linger \/ late)
             active == c.active /\ ~done
  <1>1. v = [c EXCEPT !.linger = linger, !.active = active]
    BY DEF CleanShutdown, StreamOut
  <1> HIDE DEF linger, active
  <1>2. /\ DOMAIN v = ConnectionFields /\ v.sender = c.sender /\ v.receiver = c.receiver
        /\ v.segments_out = c.segments_out /\ v.sent_SYN = c.sent_SYN
        /\ v.linger = linger /\ v.active = active
    BY <1>1, SMT DEF ConnectionFields
  <1>3. linger \in BOOLEAN /\ active \in BOOLEAN
    BY DEF linger, active
  <1>4. linger = c.linger \/ over
    BY DEF linger
  <1> QED BY <1>2, <1>3, <1>4 DEF Decides, linger, active

\* What _send_segments() leaves alone.
LeavesAlone(c, v) ==
  /\ v.receiver = c.receiver /\ v.sender.stream.error = c.sender.stream.error
  /\ v.sender.stream.isInputEnded = c.sender.stream.isInputEnded
  /\ v.sender.stream.bytesWritten = c.sender.stream.bytesWritten

\* The sender t has filled its window, which gives f, and what is to be sent was
\* taken out, which gives u.
TakenOut(e, t, f, u) ==
  /\ u.checkpoint = t.checkpoint
  /\ u.stream.error = t.stream.error /\ u.stream.isInputEnded = t.stream.isInputEnded
  /\ u.stream.bytesWritten = t.stream.bytesWritten
  /\ f.segments_out \in Seq(Said(ISN[e], Text[e], u.next_seqno))
  /\ u.bytes_in_flight = 0 /\ u.stream.isInputEnded => u.fin

\* fill_window(), with what it sends taken out of the sender's queue.
LEMMA Emptied ==
  ASSUME NEW e \in Ends, NEW t, NEW q, NEW x, NEW d, NEW qx, Link(e, t, q, x, d, qx),
         NEW f, f = FillWindow(t), NEW u, u = [f EXCEPT !.segments_out = <<>>]
  PROVE  Link(e, u, q, x, d, qx) /\ TakenOut(e, t, f, u)
  <1> DEFINE w == t.stream.bytesWritten
             T == Text[e]
  <1> Good(t, w, T) /\ t.isn = ISN[e]
    BY DEF Link, Sends
  <1> Good(f, w, T) /\ Fills(f, t)
    BY FillWindowGood
  <1>3. f.isn = t.isn
    BY DEF Fills
  <1> Sends(f, e) /\ f.stream.bytesWritten = w
    <2> HIDE DEF w
    <2> QED BY <1>3, WrittenCount
  <1> Link(e, f, q, x, d, qx) /\ (t.fin => f.fin) /\ (~t.fin => t.rwnd < SizeModulus)
    BY LinkFilled
  <1>6. Good(u, w, T) /\ Alike(u, f)
    BY DequeuedGood
  <1> /\ u.isn = f.isn /\ u.stream = f.stream /\ SameNumbers(f, u)
      /\ u.bytes_in_flight = f.bytes_in_flight
    BY <1>6 DEF Alike, SameButFlight, SameNumbers
  <1>8. Sends(u, e)
    <2> HIDE DEF w
    <2> QED BY <1>3, <1>6, WrittenCount
  <1>9. Link(e, u, q, x, d, qx)
    BY <1>8, LinkSame
  <1>10. f.segments_out \in Seq(Said(ISN[e], Text[e], f.next_seqno))
    BY SendsNumbers
  <1>11. ASSUME u.bytes_in_flight = 0, u.stream.isInputEnded
         PROVE  u.fin
    <2>1. CASE t.fin
      BY <2>1 DEF SameNumbers
    <2>2. CASE ~t.fin
      <3>1. f.fin
        BY <1>11, <2>2, FilledUp
      <3> QED BY <3>1 DEF SameNumbers
    <2> QED BY <2>1, <2>2
  <1> QED BY <1>9, <1>10, <1>11 DEF Fills, SameNumbers, TakenOut

\* _send_segments() keeps everything and settles the flags.
LEMMA SentOut ==
  ASSUME NEW e \in Ends, NEW c, NEW base, NEW d, NEW p, NEW qp, NEW dp, NEW OV,
         Whole(e, c, base, d, p, qp, dp, OV), Ready(c), NEW rst \in BOOLEAN,
         NEW v, v = SendSegmentsOut(c, rst)
  PROVE  Whole(e, v, base, d, p, qp, dp, OV) /\ Settled(v) /\ v.sent_SYN /\ LeavesAlone(c, v)
  <1> DEFINE o == Other(e)
             x == c.receiver
             q == base \o c.segments_out
             filled == FillWindow(c.sender)
             t == [filled EXCEPT !.segments_out = <<>>]
             r == Stamped(c, filled.segments_out, rst)
             out == c.segments_out \o r
             m == [c EXCEPT !.sender = t, !.sent_SYN = TRUE, !.segments_out = out]
             S == Segments(Text[e])
  <1>1. v = CleanShutdown(m)
    BY DEF SendSegmentsOut
  <1> /\ base \in Seq(S) /\ c.segments_out \in Seq(S) /\ World(e, c, q, d, p, qp, dp, OV)
    BY DEF Whole
  <1> /\ Link(e, c.sender, q, p.receiver, dp, qp) /\ Link(o, p.sender, qp, x, d, q)
      /\ e \notin OV => LastThere(x, Text[o])
    BY DEF World, Side
  <1> /\ Link(e, t, q, p.receiver, dp, qp) /\ t.checkpoint = c.sender.checkpoint
      /\ t.stream.error = c.sender.stream.error
      /\ t.stream.isInputEnded = c.sender.stream.isInputEnded
      /\ t.stream.bytesWritten = c.sender.stream.bytesWritten
      /\ filled.segments_out \in Seq(Said(ISN[e], Text[e], t.next_seqno))
      /\ t.bytes_in_flight = 0 /\ t.stream.isInputEnded => t.fin
    <2>1. Link(e, t, q, p.receiver, dp, qp) /\ TakenOut(e, c.sender, filled, t)
      <3> HIDE DEF q
      <3> QED BY Emptied
    <2> HIDE DEF q, filled, t
    <2> QED BY <2>1 DEF TakenOut
  <1> HIDE DEF filled, t
  <1>5. r \in Seq(Said(ISN[e], Text[e], t.next_seqno)) /\ Answers(r, x)
    <2> Gets(x, ISN[o], Text[o], BytesOf(Text[o]), RecvCapacity, p.sender.next_seqno, d)
      BY DEF Link
    <2>2. x.recievedSYN \in BOOLEAN
      BY DEF Gets
    <2>3. WindowSize(x) \in Nat /\ WindowSize(x) < WinModulus
      <3>1. WindowSize(x) \in Nat /\ WindowSize(x) <= RecvCapacity
        BY WindowOf
      <3>2. RecvCapacity \in Nat /\ RecvCapacity < WinModulus /\ WinModulus \in Nat
        BY NetworkAssumption, ConnectionAssumption, SMTT(30)
      <3> QED BY <3>1, <3>2, SMTT(30)
    <2>4. x.recievedSYN => Ackno(x) \in WrappingInt
      BY AnswerOf
    <2> QED BY <2>2, <2>3, <2>4, StampedSaid
  <1> HIDE DEF r
  <1> /\ DOMAIN c = ConnectionFields /\ c.active \in BOOLEAN /\ c.linger \in BOOLEAN
      /\ x.reassembler.output.error = c.sender.stream.error /\ (Broken(c) => ~c.active)
      /\ ~c.linger => x.reassembler.output.isInputEnded
      /\ c.active \/ Broken(c)
    BY DEF Ready, Marks
  <1> HIDE DEF out
  <1> /\ DOMAIN m = ConnectionFields /\ m.sender = t /\ m.receiver = x /\ m.segments_out = out
      /\ m.linger = c.linger /\ m.active = c.active /\ m.sent_SYN = TRUE
    BY SMTT(30) DEF ConnectionFields
  <1> HIDE DEF m
  <1>8. World(e, m, q, d, p, qp, dp, OV)
    <2>1. m.sender.checkpoint >= c.sender.checkpoint
      <3>1. SenderNumbers(c.sender)
        BY SendsNumbers DEF Link
      <3>2. c.sender.checkpoint \in Nat /\ m.sender.checkpoint = c.sender.checkpoint
        BY <3>1 DEF SenderNumbers
      <3> QED BY <3>2, NoLess
    <2> HIDE DEF q
    <2> QED BY <2>1, WorldStep
  <1>9. World(e, m, q \o r, d, p, qp, dp, OV)
    <2> HIDE DEF q
    <2> QED BY <1>5, <1>8, WorldSent
  <1>10. r \in Seq(S) /\ out \in Seq(S) /\ q \o r = base \o out
    <2> r \in Seq(S)
      <3> DEFINE R == Said(ISN[e], Text[e], t.next_seqno)
      <3>1. R \subseteq S
        BY DEF Said
      <3> HIDE DEF R, S
      <3>2. r \in Seq(R)
        BY <1>5 DEF R
      <3> QED BY <3>1, <3>2, SMT
    <2> HIDE DEF S
    <2>2. c.segments_out \o r \in Seq(S)
      BY Joined
    <2>3. q \o r = base \o (c.segments_out \o r)
      <3> DEFINE b == c.segments_out
      <3>1. b \in Seq(S) /\ base \in Seq(S) /\ q \o r = (base \o b) \o r
        OBVIOUS
      <3> HIDE DEF b
      <3>2. (base \o b) \o r = base \o (b \o r)
        BY <3>1, Associative, SMTT(60)
      <3> QED BY <3>2 DEF b
    <2> QED BY <2>2, <2>3 DEF out
  <1> Decides(m, v)
    BY <1>1, CleanShutdownDoes
  <1>12. World(e, v, base \o out, d, p, qp, dp, OV)
    <2>1. m.sender.fin => Eof(m.sender.stream)
      BY SendsNumbers DEF Link
    <2>2. v.linger = m.linger \/ ~m.sender.fin
      BY <2>1 DEF Decides
    <2>3. v.sender = m.sender /\ v.receiver = m.receiver
      BY DEF Decides
    <2>4. World(e, m, base \o out, d, p, qp, dp, OV)
      BY <1>9, <1>10
    <2> QED BY <2>2, <2>3, <2>4, WorldLinger
  <1>13. Whole(e, v, base, d, p, qp, dp, OV)
    BY <1>10, <1>12 DEF Whole, Decides
  <1> LeavesAlone(c, v) /\ v.sent_SYN
    BY DEF LeavesAlone, Decides
  <1>15. StreamsFinished(v) <=> StreamsFinished(m)
    BY DEF Decides, StreamsFinished
  <1>16. Marks(v)
    BY DEF Marks, Decides, Broken
  <1>17. ~v.active => Broken(v) \/ (StreamsFinished(v) /\ v.sender.fin)
    <2> SUFFICES ASSUME ~v.active, ~Broken(v)
                 PROVE  StreamsFinished(v) /\ v.sender.fin
      OBVIOUS
    <2>1. m.active
      BY DEF Broken, LeavesAlone
    <2>2. StreamsFinished(m)
      BY <2>1 DEF Decides
    <2>3. t.bytes_in_flight = 0 /\ t.stream.isInputEnded
      BY <2>2 DEF StreamsFinished
    <2> QED BY <1>15, <2>2, <2>3 DEF Decides
  <1>18. Settled(v)
    BY <1>15, <1>16, <1>17 DEF Settled, Decides
  <1> QED BY <1>13, <1>18

\* The operations that leave the positions of a sender and its stream alone.
LEMMA SendsAlike ==
  ASSUME NEW e \in Ends, NEW t, Sends(t, e), NEW u, u = SendEmptySegment(t) \/ \E ms : u = SenderTick(t, ms)
  PROVE  Sends(u, e) /\ SameNumbers(t, u) /\ u.stream = t.stream /\ u.bytes_in_flight = t.bytes_in_flight
  <1> DEFINE w == t.stream.bytesWritten
  <1>1. Good(t, w, Text[e]) /\ t.isn = ISN[e]
    BY DEF Sends
  <1>2. Good(u, w, Text[e]) /\ Alike(u, t)
    BY <1>1, EmptySentGood, TickedGood
  <1>3. /\ u.isn = t.isn /\ SameNumbers(t, u) /\ u.stream = t.stream
        /\ u.bytes_in_flight = t.bytes_in_flight
    BY <1>2 DEF Alike, SameButFlight, SameNumbers
  <1> HIDE DEF w
  <1>4. Sends(u, e)
    BY <1>1, <1>2, <1>3, WrittenCount
  <1> QED BY <1>3, <1>4

\* A connection with a sender at the same positions and a receiver that has taken
\* the same, or whose reader has taken more.
LEMMA Swapped ==
  ASSUME NEW e \in Ends, NEW c, NEW base, NEW d, NEW p, NEW qp, NEW dp, NEW OV,
         Whole(e, c, base, d, p, qp, dp, OV), NEW b, NEW f, NEW o, o = Other(e),
         b.linger = c.linger, b.segments_out = c.segments_out,
         Sends(b.sender, e), SameNumbers(c.sender, b.sender),
         SameTaken(c.receiver, b.receiver), Len(d) <= Len(f),
         Gets(b.receiver, ISN[o], Text[o], BytesOf(Text[o]), RecvCapacity, p.sender.next_seqno, f)
  PROVE  Whole(e, b, base, f, p, qp, dp, OV)
  <1> DEFINE q == base \o c.segments_out
             x == c.receiver
             y == b.receiver
  <1> /\ base \in Seq(Segments(Text[e])) /\ c.segments_out \in Seq(Segments(Text[e]))
      /\ World(e, c, q, d, p, qp, dp, OV) /\ o \in Ends
    BY EndFacts DEF Whole
  <1> HIDE DEF q
  <1> /\ Link(e, c.sender, q, p.receiver, dp, qp) /\ Link(o, p.sender, qp, x, d, q)
      /\ e \notin OV => LastThere(x, Text[o])
    BY DEF World, Side
  <1>3. Link(e, b.sender, q, p.receiver, dp, qp)
    BY LinkSame
  <1>4. b.sender.checkpoint >= c.sender.checkpoint
    <2>1. SenderNumbers(c.sender)
      BY SendsNumbers DEF Link
    <2>2. c.sender.checkpoint \in Nat /\ b.sender.checkpoint = c.sender.checkpoint
      BY <2>1 DEF SenderNumbers, SameNumbers
    <2> QED BY <2>2, NoLess
  <1>5. Link(o, p.sender, qp, y, f, q)
    <2>1. Got(x) <= Got(x)
      <3>1. Gets(x, ISN[o], Text[o], BytesOf(Text[o]), RecvCapacity, p.sender.next_seqno, d)
        BY DEF Link
      <3> HIDE DEF x
      <3>2. Got(x) \in Nat
        BY <3>1, GotType
      <3> QED BY <3>2, NoLess
    <2>2. Further(x, y)
      BY <2>1 DEF Further, SameTaken
    <2> QED BY <2>2, LinkTaken
  <1>6. e \notin OV => LastThere(y, Text[o])
    BY DEF LastThere, SameTaken
  <1>7. World(e, b, q, f, p, qp, dp, OV)
    <2>1. y.recievedFIN = x.recievedFIN /\ (o \in OV => o \in OV) /\ OV \subseteq OV
      BY DEF SameTaken
    <2> QED BY <1>3, <1>4, <1>5, <1>6, <2>1, WorldStep
  <1> QED BY <1>7 DEF Whole, q

\* What is known of the two halves of a connection.
LEMMA Halves ==
  ASSUME NEW e \in Ends, NEW c, NEW base, NEW d, NEW p, NEW qp, NEW dp, NEW OV,
         Whole(e, c, base, d, p, qp, dp, OV), NEW o, o = Other(e)
  PROVE  /\ Sends(c.sender, e) /\ SameNumbers(c.sender, c.sender)
         /\ SameTaken(c.receiver, c.receiver) /\ Len(d) <= Len(d)
         /\ Gets(c.receiver, ISN[o], Text[o], BytesOf(Text[o]), RecvCapacity, p.sender.next_seqno, d)
  <1>1. /\ Sends(c.sender, e)
        /\ Gets(c.receiver, ISN[o], Text[o], BytesOf(Text[o]), RecvCapacity, p.sender.next_seqno, d)
    BY DEF Whole, World, Side, Link
  <1>2. Len(d) <= Len(d)
    <2> DEFINE x == c.receiver
    <2>1. Gets(x, ISN[o], Text[o], BytesOf(Text[o]), RecvCapacity, p.sender.next_seqno, d)
      BY <1>1
    <2> HIDE DEF x
    <2>2. Len(d) \in Nat
      BY <2>1, GotType
    <2> QED BY <2>2, NoLess
  <1> QED BY <1>1, <1>2 DEF SameNumbers, SameTaken

\* The connection b differs from c only in its sender and the time.
SenderOnly(c, b) ==
  /\ DOMAIN b = ConnectionFields /\ b.receiver = c.receiver /\ b.segments_out = c.segments_out
  /\ b.linger = c.linger /\ b.active = c.active /\ b.sent_SYN = c.sent_SYN

\* The sender is replaced by one with the same numbers.
LEMMA SwappedSender ==
  ASSUME NEW e \in Ends, NEW c, NEW base, NEW d, NEW p, NEW qp, NEW dp, NEW OV,
         Whole(e, c, base, d, p, qp, dp, OV), NEW b, SenderOnly(c, b),
         Sends(b.sender, e), SameNumbers(c.sender, b.sender)
  PROVE  Whole(e, b, base, d, p, qp, dp, OV)
  <1> DEFINE o == Other(e)
  <1>1. /\ SameTaken(c.receiver, c.receiver) /\ Len(d) <= Len(d)
        /\ Gets(c.receiver, ISN[o], Text[o], BytesOf(Text[o]), RecvCapacity, p.sender.next_seqno, d)
    BY Halves
  <1>2. b.receiver = c.receiver /\ b.linger = c.linger /\ b.segments_out = c.segments_out
    BY DEF SenderOnly
  <1> QED BY <1>1, <1>2, Swapped

\* The record that has another sender.
LEMMA OtherSender ==
  ASSUME NEW c, DOMAIN c = ConnectionFields, NEW t, NEW b, b = [c EXCEPT !.sender = t]
  PROVE  SenderOnly(c, b) /\ b.sender = t
  BY DEF SenderOnly, ConnectionFields

\* _kill_connection().
Killed(c, k) ==
  /\ Marks(k) /\ Broken(k) /\ ~k.active /\ k.sent_SYN = c.sent_SYN /\ k.linger = c.linger
  /\ k.receiver.reassembler.output.isInputEnded = c.receiver.reassembler.output.isInputEnded
  /\ Eof(k.sender.stream) <=> Eof(c.sender.stream)

\* kill_connection() keeps what is known of the two ends.
LEMMA KillDoes ==
  ASSUME NEW e \in Ends, NEW c, NEW base, NEW d, NEW p, NEW qp, NEW dp, NEW OV,
         Whole(e, c, base, d, p, qp, dp, OV), Marks(c), NEW k, k = KillConnection(c)
  PROVE  Whole(e, k, base, d, p, qp, dp, OV) /\ Killed(c, k)
  <1> DEFINE o == Other(e)
             t == c.sender
             x == c.receiver
             stream == SetError(t.stream)
             u == [t EXCEPT !.stream = stream]
             y == WithOutput(x, SetError(x.reassembler.output))
             w == t.stream.bytesWritten
  <1>1. DOMAIN c = ConnectionFields
    BY DEF Marks
  <1>2. k = [c EXCEPT !.sender = u, !.receiver = y, !.active = FALSE]
    BY <1>1, SMTT(30) DEF KillConnection, ConnectionFields, WithOutput
  <1> /\ Sends(t, e) /\ Len(d) <= Len(d)
      /\ Gets(x, ISN[o], Text[o], BytesOf(Text[o]), RecvCapacity, p.sender.next_seqno, d)
    BY Halves
  <1>4. /\ Gets(y, ISN[o], Text[o], BytesOf(Text[o]), RecvCapacity, p.sender.next_seqno, d)
        /\ SameTaken(x, y) /\ Breaks(x, y)
    <2>1. y = WithOutput(x, SetError(x.reassembler.output))
      BY SMT
    <2> HIDE DEF x, y
    <2> QED BY <2>1, ErrorTaken, SMTT(30)
  <1> Good(t, w, Text[e]) /\ t.isn = ISN[e]
    BY DEF Sends
  <1> Good(u, w, Text[e]) /\ Keeps(u, t) /\ u.stream = stream
    <2>1. stream = SetError(t.stream) \/ (stream = EndInput(t.stream) /\ w = Len(Text[e]))
      OBVIOUS
    <2>2. u = [t EXCEPT !.stream = stream]
      BY SMT
    <2> HIDE DEF stream, w, t, u
    <2> QED BY <2>1, <2>2, MarkedGood, SMTT(30)
  <1>7. stream.error = TRUE /\ (Eof(stream) <=> Eof(t.stream))
    <2>1. t.stream \in Streams(Text[e])
      BY DEF Good, Typed
    <2>2. stream = [t.stream EXCEPT !.error = TRUE]
      BY DEF SetError
    <2>3. /\ stream.error = TRUE /\ stream.isInputEnded = t.stream.isInputEnded
          /\ stream.buffer = t.stream.buffer
      BY <2>1, <2>2 DEF Streams
    <2> QED BY <2>3 DEF Eof
  <1> HIDE DEF u, y
  <1>8. /\ DOMAIN k = ConnectionFields /\ k.sender = u /\ k.receiver = y
        /\ k.segments_out = c.segments_out /\ k.linger = c.linger /\ k.active = FALSE
        /\ k.sent_SYN = c.sent_SYN
    BY <1>1, <1>2, SMT DEF ConnectionFields
  <1>9. Sends(u, e) /\ SameNumbers(t, u)
    <2>1. u.isn = ISN[e] /\ SameNumbers(t, u)
      BY DEF Keeps, SameNumbers
    <2> HIDE DEF w
    <2> QED BY <2>1, WrittenCount
  <1>10. Whole(e, k, base, d, p, qp, dp, OV)
    BY <1>4, <1>8, <1>9, Swapped
  <1>11. Killed(c, k)
    BY <1>4, <1>7, <1>8 DEF Killed, Marks, Broken, SameTaken, Breaks
  <1> QED BY <1>10, <1>11

\* _unclean_shutdown().
LEMMA UncleanDoes ==
  ASSUME NEW e \in Ends, NEW c, NEW base, NEW d, NEW p, NEW qp, NEW dp, NEW OV,
         Whole(e, c, base, d, p, qp, dp, OV), Marks(c), NEW v, v = UncleanShutdown(c)
  PROVE  Whole(e, v, base, d, p, qp, dp, OV) /\ Settled(v) /\ v.sent_SYN /\ Broken(v)
  <1> DEFINE k == KillConnection(c)
             t == SendEmptySegment(k.sender)
             b == [k EXCEPT !.sender = t]
             u == IF k.sender.segments_out = <<>> THEN b ELSE k
  <1>1. v = SendSegmentsOut(u, TRUE)
    BY DEF UncleanShutdown
  <1> Whole(e, k, base, d, p, qp, dp, OV) /\ Killed(c, k)
    BY KillDoes
  <1> HIDE DEF k
  <1> Marks(k) /\ Broken(k) /\ DOMAIN k = ConnectionFields
    BY DEF Killed, Marks
  <1>4. Sends(t, e) /\ SameNumbers(k.sender, t) /\ t.stream = k.sender.stream
    <2>1. Sends(k.sender, e)
      BY Halves
    <2> QED BY <2>1, SendsAlike
  <1> HIDE DEF t
  <1>5. SenderOnly(k, b) /\ b.sender = t
    BY OtherSender
  <1> HIDE DEF b
  <1>6. Whole(e, b, base, d, p, qp, dp, OV)
    BY <1>4, <1>5, SwappedSender
  <1>7. Marks(b) /\ Broken(b)
    BY <1>4, <1>5 DEF Marks, Broken, SenderOnly
  <1>8. Whole(e, u, base, d, p, qp, dp, OV) /\ Ready(u) /\ Broken(u) /\ TRUE \in BOOLEAN
    BY <1>6, <1>7 DEF Ready
  <1> HIDE DEF u
  <1>9. Whole(e, v, base, d, p, qp, dp, OV) /\ Settled(v) /\ v.sent_SYN /\ LeavesAlone(u, v)
    BY <1>1, <1>8, SentOut
  <1> QED BY <1>8, <1>9 DEF Broken, LeavesAlone

\* More ends at which a FIN overtook a byte.
LEMMA WholeWider ==
  ASSUME NEW e, NEW c, NEW base, NEW d, NEW p, NEW qp, NEW dp, NEW OV,
         Whole(e, c, base, d, p, qp, dp, OV), NEW OW, OV \subseteq OW
  PROVE  Whole(e, c, base, d, p, qp, dp, OW)
  BY DEF Whole, World, Side

\* A segment as the receiver sees it.
LEMMA SaidIs ==
  ASSUME NEW isn, NEW T, NEW n \in Nat, NEW seg \in Said(isn, T, n)
  PROVE  /\ SegmentOf(seg, BytesOf(T)) /\ seg.ackno \in WrappingInt /\ seg.ack \in BOOLEAN
         /\ seg.rst \in BOOLEAN /\ \E p \in Nat : LiesAt(seg, p, isn, T, n)
  <1>1. seg \in Segments(T)
    BY DEF Said
  <1>2. SegmentOf(seg, BytesOf(T)) /\ seg.ackno \in WrappingInt /\ seg.ack \in BOOLEAN /\ seg.rst \in BOOLEAN
    BY <1>1, SegmentTypes DEF SegmentOf
  <1>3. PICK p \in 0 .. n : LiesAt(seg, p, isn, T, n)
    BY DEF Said, LiesAt
  <1>4. p \in Nat
    BY SMTT(30)
  <1> QED BY <1>2, <1>3, <1>4

\* y and u are the receiver x and the sender t after a segment of the peer.
BothTake(x, t, seg, y, u) ==
  /\ y = ReceiverSegmentReceived(x, seg)
  /\ u = IF seg.ack THEN AckReceived(t, seg.ackno, seg.win) ELSE t

SameError(c, b) == b.sender.stream.error = c.sender.stream.error

\* e's receiver and sender take the oldest segment of the peer.
LEMMA WorldTakes ==
  ASSUME NEW e \in Ends, NEW c, NEW q, NEW d, NEW p, NEW qp, NEW dp, NEW OV,
         World(e, c, q, d, p, qp, dp, OV), qp # <<>>, NEW seg, seg = qp[1],
         NEW b, b.linger = c.linger, BothTake(c.receiver, c.sender, seg, b.receiver, b.sender),
         NEW OW, OV \subseteq OW, Other(e) \in OW => Other(e) \in OV,
         e \notin OW => NotOvertaking(c.receiver, seg, Text[Other(e)])
  PROVE  /\ World(e, b, q, d, p, qp, dp, OW)
         /\ Grows(c.receiver, b.receiver, seg.fin) /\ SameError(c, b)
  <1> DEFINE o == Other(e)
             S == Said(ISN[o], Text[o], p.sender.next_seqno)
             x == c.receiver
             y == b.receiver
             t == c.sender
             u == b.sender
             n == p.sender.next_seqno
  <1> o \in Ends /\ Other(o) = e
    BY EndFacts
  <1> Link(e, t, q, p.receiver, dp, qp) /\ Link(o, p.sender, qp, x, d, q)
    BY DEF World, Side
  <1> /\ qp \in Seq(S) /\ Sends(p.sender, o) /\ Sends(t, e)
      /\ Gets(x, ISN[o], Text[o], BytesOf(Text[o]), RecvCapacity, n, d)
    BY DEF Link
  <1> seg \in S /\ Len(qp) \in Nat /\ Len(qp) > 0 /\ 1 \in 1 .. Len(qp)
    BY SMTT(30)
  <1>5. n \in Nat /\ SenderNumbers(t)
    BY SendsNumbers DEF SenderNumbers
  <1> /\ SegmentOf(seg, BytesOf(Text[o])) /\ seg.ackno \in WrappingInt
      /\ \E at \in Nat : LiesAt(seg, at, ISN[o], Text[o], n)
    BY <1>5, SaidIs
  <1>7. PICK at \in Nat : LiesAt(seg, at, ISN[o], Text[o], n)
    OBVIOUS
  <1> /\ Gets(y, ISN[o], Text[o], BytesOf(Text[o]), RecvCapacity, n, d) /\ Grows(x, y, seg.fin)
      /\ LastThere(x, Text[o]) /\ NotOvertaking(x, seg, Text[o]) => LastThere(y, Text[o])
    <2>1. y = ReceiverSegmentReceived(x, seg)
      BY DEF BothTake
    <2> HIDE DEF x, y, n, o
    <2> QED BY <1>7, <2>1, SegmentGot
  <1>9. Further(x, y) /\ Len(d) <= Len(d)
    <2>1. Len(d) \in Nat
      BY GotType
    <2> QED BY <2>1, NoLess DEF Grows, Further
  <1>10. Link(o, p.sender, qp, y, d, q)
    BY <1>9, LinkTaken
  <1> /\ Link(e, u, q, p.receiver, dp, qp) /\ u.checkpoint >= t.checkpoint
      /\ u.stream.error = t.stream.error
      /\ seg.ack => u.checkpoint >= AckAt(ISN[e], seg)
    <2> CASE seg.ack
      <3>1. u = AckReceived(t, seg.ackno, seg.win)
        BY DEF BothTake
      <3> HIDE DEF u, t
      <3>2. Link(e, u, q, p.receiver, dp, qp) /\ TakesAck(t, u, AckAt(ISN[e], seg))
        BY <3>1, LinkAcked
      <3> QED BY <3>2 DEF TakesAck
    <2> CASE ~seg.ack
      <3>1. u = t
        BY DEF BothTake
      <3>2. u.checkpoint >= t.checkpoint
        BY <1>5, <3>1, NoLess DEF SenderNumbers
      <3> QED BY <3>1, <3>2
    <2> QED OBVIOUS
  <1>12. e \notin OW => LastThere(y, Text[o])
    BY DEF World, Side
  <1> ASSUME y.recievedFIN, ~x.recievedFIN, o \notin OV, ~p.linger
      PROVE  u.checkpoint >= EndOfText(e)
    <2>1. seg.fin
      BY DEF Grows
    <2>2. Quits(e, p.linger, qp, x, t)
      BY DEF World, Side
    <2>3. seg.ack /\ AckAt(ISN[e], seg) = EndOfText(e)
      BY <2>1, <2>2 DEF Quits
    <2> QED BY <2>3
  <1>14. World(e, b, q, d, p, qp, dp, OW)
    BY <1>10, <1>12, WorldStep
  <1> QED BY <1>14 DEF SameError

\* Time passes, or starts anew.
LEMMA Timing ==
  ASSUME NEW c, DOMAIN c = ConnectionFields, NEW n, NEW b, b = [c EXCEPT !.time_since = n]
  PROVE  SenderOnly(c, b) /\ b.sender = c.sender
  BY SMT DEF SenderOnly, ConnectionFields

\* segment_received() of the oldest segment of the peer.
LEMMA SegmentDoes ==
  ASSUME NEW e \in Ends, NEW c, NEW base, NEW d, NEW p, NEW qp, NEW dp, NEW OV,
         Whole(e, c, base, d, p, qp, dp, OV), Settled(c), c.active,
         qp # <<>>, NEW seg, seg = qp[1], seg.rst => c.sent_SYN,
         NEW OW, OV \subseteq OW, Other(e) \in OW => Other(e) \in OV,
         e \notin OW => NotOvertaking(c.receiver, seg, Text[Other(e)]),
         NEW v, v = SegmentReceived(c, seg)
  PROVE  Whole(e, v, base, d, p, qp, dp, OW) /\ Settled(v)
  <1> DEFINE h == [c EXCEPT !.time_since = 0]
             x == c.receiver
             t == c.sender
             y == ReceiverSegmentReceived(x, seg)
             u == IF seg.ack THEN AckReceived(t, seg.ackno, seg.win) ELSE t
             b == [h EXCEPT !.receiver = y, !.sender = u]
             answers == (seg.syn /\ c.sent_SYN) \/ seg.fin \/ seg.payload # <<>>
             s == SendEmptySegment(b.sender)
             a == [b EXCEPT !.sender = IF answers THEN s ELSE b.sender]
  <1>1. DOMAIN c = ConnectionFields
    BY DEF Settled, Marks
  <1>2. SenderOnly(c, h) /\ h.sender = t
    BY <1>1, Timing
  <1>3. v = IF seg.rst THEN KillConnection(h)
            ELSE IF ~c.sent_SYN /\ seg.ack THEN h ELSE SendSegmentsOut(a, FALSE)
    BY <1>1, SMTT(30) DEF SegmentReceived, ConnectionFields
  <1>4. h.receiver = x /\ DOMAIN h = ConnectionFields
    BY <1>2 DEF SenderOnly
  <1>5. /\ DOMAIN b = ConnectionFields /\ b.receiver = y /\ b.sender = u
        /\ b.segments_out = h.segments_out /\ b.linger = h.linger /\ b.active = h.active
        /\ b.sent_SYN = h.sent_SYN
    <2> HIDE DEF h, y, u
    <2> QED BY <1>4, SMTT(30) DEF ConnectionFields
  <1>6. SenderOnly(b, a) /\ a.sender = IF answers THEN s ELSE b.sender
    <2> DEFINE r == IF answers THEN s ELSE b.sender
    <2>1. a = [b EXCEPT !.sender = r]
      OBVIOUS
    <2> HIDE DEF a, b, r
    <2>2. SenderOnly(b, a) /\ a.sender = r
      BY <1>5, <2>1, OtherSender, SMTT(30)
    <2> QED BY <2>2 DEF r
  <1> HIDE DEF h, b, a, s, answers
  <1>7. Whole(e, h, base, d, p, qp, dp, OV)
    <2>1. Sends(h.sender, e) /\ SameNumbers(c.sender, h.sender)
      BY <1>2, Halves
    <2> QED BY <1>2, <2>1, SwappedSender
  <1>8. Settled(h) /\ Marks(h) /\ h.active /\ h.sent_SYN = c.sent_SYN
    BY <1>2 DEF Settled, Marks, SenderOnly, Broken, StreamsFinished, StreamOut
  <1>9. CASE seg.rst
    <2>1. v = KillConnection(h)
      BY <1>3, <1>9
    <2>2. Whole(e, v, base, d, p, qp, dp, OV) /\ Killed(h, v)
      BY <1>7, <1>8, <2>1, KillDoes
    <2>3. Settled(v)
      BY <1>8, <1>9, <2>2 DEF Settled, Killed
    <2> QED BY <2>2, <2>3, WholeWider
  <1>10. CASE ~seg.rst /\ ~c.sent_SYN /\ seg.ack
    <2>1. v = h
      BY <1>3, <1>10
    <2> QED BY <1>7, <1>8, <2>1, WholeWider
  <1>11. CASE ~seg.rst /\ ~(~c.sent_SYN /\ seg.ack)
    <2> DEFINE q == base \o h.segments_out
    <2>1. v = SendSegmentsOut(a, FALSE)
      BY <1>3, <1>11
    <2>2. /\ base \in Seq(Segments(Text[e])) /\ h.segments_out \in Seq(Segments(Text[e]))
          /\ World(e, h, q, d, p, qp, dp, OV)
      BY <1>7 DEF Whole
    <2> HIDE DEF q
    <2>3. BothTake(h.receiver, h.sender, seg, b.receiver, b.sender)
      BY <1>2, <1>4, <1>5 DEF BothTake
    <2>3a. b.linger = h.linger /\ (e \notin OW => NotOvertaking(h.receiver, seg, Text[Other(e)]))
      BY <1>4, <1>5
    <2>4. /\ World(e, b, q, d, p, qp, dp, OW) /\ Grows(h.receiver, b.receiver, seg.fin)
          /\ SameError(h, b)
      BY <2>2, <2>3, <2>3a, WorldTakes, SMTT(30)
    <2>5. Whole(e, b, base, d, p, qp, dp, OW)
      BY <1>5, <2>2, <2>4 DEF Whole, q
    <2>6. Marks(b) /\ b.active
      BY <1>5, <1>8, <2>4 DEF Marks, Grows, Broken, SameError
    <2>7. Sends(b.sender, e) /\ SameNumbers(b.sender, b.sender)
      BY <2>5, Halves
    <2>8. Sends(s, e) /\ SameNumbers(b.sender, s) /\ s.stream = b.sender.stream
      BY <2>7, SendsAlike DEF s
    <2>9. Whole(e, a, base, d, p, qp, dp, OW)
      BY <1>6, <2>5, <2>7, <2>8, SwappedSender
    <2>10. Ready(a) /\ FALSE \in BOOLEAN
      BY <1>6, <2>6, <2>8 DEF Ready, Marks, SenderOnly, Broken
    <2> QED BY <2>1, <2>9, <2>10, SentOut
  <1> QED BY <1>9, <1>10, <1>11
=============================================================================
