---------------------------- MODULE SenderProofs ----------------------------
(***************************************************************************)
(* Proofs about SenderSpec: for every text, capacity, window, payload size *)
(* and timeout, and whatever happens to acknowledgments, what is sent and  *)
(* not acknowledged is kept for retransmission, each segment in its place; *)
(* bytes are sent once and in order; and as long as acknowledgments come   *)
(* in order nothing is sent beyond the announced window.                   *)
(*                                                                         *)
(* SenderLemmas has what each operation of TCPSender keeps.                *)
(***************************************************************************)
EXTENDS SenderSpec, SenderLemmas

USE ZenonT(40)

\* The modulus is even.
LEMMA HalfTwice == Half \in Nat /\ Half > 0 /\ Modulus = Half + Half
  BY ModulusAssumption, SMTT(30) DEF Half

\* ack_received() takes the number of a position within half a turn of its
\* checkpoint for that position.
LEMMA UnwrapsBack ==
  ASSUME NEW x \in Nat, NEW isn \in WrappingInt, NEW c \in Nat, c - Half <= x, x < c + Half
  PROVE  Unwrap(Wrap(x, isn), isn, c) = x
<1> DEFINE a == Wrap(x, isn)
           b == Wrap(c, isn)
           p == (x + isn) \div Modulus
           q == (c + isn) \div Modulus
           r == (a - b) \div Modulus
           d == (a - b) % Modulus
<1>1. /\ Modulus \in Nat /\ Modulus > 0 /\ Half \in Nat /\ Modulus = Half + Half /\ isn \in Nat
  BY HalfTwice, SMTT(30) DEF WrappingInt
<1>2. /\ p \in Int /\ a \in Int /\ x + isn = Modulus * p + a
      /\ q \in Int /\ b \in Int /\ c + isn = Modulus * q + b
  BY <1>1, SMTT(30) DEF Wrap
<1> HIDE DEF a, b, p, q
<1>3. r \in Int /\ d \in 0 .. (Modulus - 1) /\ a - b = Modulus * r + d
  BY <1>1, <1>2, SMTT(30)
<1>4. Unwrap(a, isn, c) = LET m == IF d >= Half THEN d - Modulus ELSE d
                          IN  IF c + m < 0 THEN c + m + Modulus ELSE c + m
  BY DEF Unwrap, Minus, b
<1> HIDE DEF r, d
<1> DEFINE k == p - q + r
<1>5. k \in Int /\ x - c = Modulus * k + d
  BY <1>1, <1>2, <1>3, SMTT(30)
<1> HIDE DEF k
<1>6. d = x - c \/ d = x - c + Modulus
  <2>1. k = 0 \/ k = -1
    BY <1>1, <1>3, <1>5, SMTT(30)
  <2> QED BY <1>1, <1>3, <1>5, <2>1, SMTT(30)
<1> QED BY <1>1, <1>3, <1>4, <1>6, SMTT(30) DEF a

\* The text is shorter than half of the sequence space.
LEMMA SpecFacts ==
  /\ IsText(Text) /\ Len(Text) \in Nat
  /\ Len(Text) + MaxWindow + 4 < Half /\ MaxWindow \in Nat
  <1>1. IsText(Text)
    BY SenderSpecAssumption DEF IsText, BytesOf
  <1>2. Len(Text) \in Nat
    BY <1>1, TextFacts
  <1> QED BY <1>1, <1>2, SenderSpecAssumption

\* The acknowledgments there can be when next has been reached.
Acks(next) == [pos : 0 .. next, win : 0 .. MaxWindow]

\* edge is the end of the window the sender has been told of, and it has kept
\* to it.
Within(t, edge) == edge = t.checkpoint + Maximum(1, t.rwnd) /\ t.next_seqno <= edge

\* The inductive invariant of the specification.
IInv ==
  /\ Good(s, written, Text) /\ s.rwnd <= Maximum(1, MaxWindow)
  /\ acks \in Seq(Acks(s.next_seqno))
  /\ known_edge \in Nat /\ late \in BOOLEAN
  /\ ~late => Within(s, known_edge)

\* Filling the window stays within it: the subtraction in size_t does not wrap.
LEMMA FilledWithin ==
  ASSUME NEW t, NEW u, NEW w, NEW edge, Good(t, w, Text), Fills(u, t), t.rwnd <= Maximum(1, MaxWindow),
         Within(t, edge)
  PROVE  Within(u, edge)
<1> DEFINE room == IF t.rwnd > 0 THEN t.rwnd ELSE 1
           used == t.next_seqno - t.checkpoint
<1>1. t.next_seqno \in Nat /\ t.checkpoint \in Nat /\ t.checkpoint <= t.next_seqno /\ t.rwnd \in Nat
  BY SMTT(30) DEF Good, Typed
<1>2. room = Maximum(1, t.rwnd) /\ room \in Nat /\ room > 0 /\ room < SizeModulus /\ SizeModulus \in Nat
  <2>1. MaxWindow \in Nat /\ MaxWindow + 4 < Half /\ Half \in Nat /\ Modulus = Half + Half
    BY SpecFacts, HalfTwice, SMTT(30)
  <2>2. SizeModulus \in Nat /\ SizeModulus > 4 * Modulus
    BY SizeAssumption, SMTT(30)
  <2> QED BY <1>1, <2>1, <2>2, SMTT(30) DEF Maximum
<1>3. used \in Nat /\ used <= room
  BY <1>1, <1>2, SMTT(30) DEF Within
<1>4. NumBytesCanSend(t) = (room - used) % SizeModulus
  BY SMTT(30) DEF NumBytesCanSend
<1>5. edge = t.checkpoint + room /\ u.checkpoint = t.checkpoint /\ u.rwnd = t.rwnd
  BY <1>2, SMTT(30) DEF Within, Fills
<1>6. u.next_seqno <= edge
  <2>1. t.next_seqno = t.checkpoint + used
    BY <1>1, SMTT(30)
  <2> HIDE DEF room, used
  <2>2. NumBytesCanSend(t) = room - used
    BY <1>2, <1>3, <1>4, SMTT(30)
  <2>3. /\ u.next_seqno = t.next_seqno => u.next_seqno <= edge
        /\ u.next_seqno = 1 => u.next_seqno <= edge
        /\ u.next_seqno <= t.next_seqno + NumBytesCanSend(t) => u.next_seqno <= edge
    BY <1>1, <1>2, <1>3, <1>5, <2>1, <2>2, SMTT(20)
  <2> QED BY <2>3, SMTT(30) DEF Fills
<1> QED BY <1>2, <1>5, <1>6, SMTT(30) DEF Within

\* Initially the invariant holds.
LEMMA InitIInv == Init => IInv
<1> SUFFICES ASSUME Init PROVE IInv
  OBVIOUS
<1>1. PICK isn \in InitialSeqnos : s = SenderNew(Capacity, isn)
  BY SMTT(30) DEF Init
<1>2. isn \in WrappingInt /\ Capacity \in Nat
  BY SenderSpecAssumption, SMTT(30)
<1>3. Good(s, 0, Text) /\ s.next_seqno = 0 /\ s.rwnd = 1 /\ s.checkpoint = 0
  <2>1. IsText(Text)
    BY SpecFacts
  <2>2. Good(s, 0, Text)
    BY <1>1, <1>2, <2>1, NewGood
  <2>3. s.next_seqno = 0 /\ s.rwnd = 1 /\ s.checkpoint = 0
    BY <1>1 DEF SenderNew
  <2> QED BY <2>2, <2>3
<1>4. Good(s, written, Text)
  BY <1>3 DEF Init
<1>5. Within(s, known_edge) /\ s.rwnd <= Maximum(1, MaxWindow)
  BY <1>3, SpecFacts, SMTT(30) DEF Within, Init, Maximum
<1>6. acks \in Seq(Acks(s.next_seqno)) /\ known_edge \in Nat /\ late \in BOOLEAN
  <2>1. acks = <<>> /\ known_edge = 1 /\ late = FALSE
    BY SMTT(30) DEF Init
  <2>2. acks \in Seq(Acks(s.next_seqno))
    BY <2>1, SMTT(30)
  <2>3. known_edge \in Nat
    BY <2>1, SMTT(30)
  <2> QED BY <2>1, <2>2, <2>3
<1> QED BY <1>4, <1>5, <1>6, SMTT(30) DEF IInv

\* Dequeuing changes nothing the invariant speaks of.
LEMMA DequeueAlike ==
  ASSUME NEW t, NEW w, Good(t, w, Text), Dequeue(t)
  PROVE  Good(s', w, Text) /\ Alike(s', t)
<1>1. s' = [t EXCEPT !.segments_out = <<>>]
  BY DEF Dequeue
<1> QED BY <1>1, DequeuedGood

\* A sender that has only sent, under an otherwise unchanged invariant.
LEMMA StillIInv ==
  ASSUME IInv, Good(s', written', Text), s'.rwnd = s.rwnd, s.next_seqno <= s'.next_seqno,
         \A edge : Within(s, edge) => Within(s', edge),
         UNCHANGED <<acks, known_edge, late>>
  PROVE  IInv'
<1>1. s.next_seqno \in Nat /\ s'.next_seqno \in Nat
  BY SMTT(30) DEF IInv, Good, Typed
<1>2. acks \in Seq(Acks(s'.next_seqno))
  <2>1. Acks(s.next_seqno) \subseteq Acks(s'.next_seqno)
    BY <1>1, SMTT(30) DEF Acks
  <2> QED BY <2>1, SMTT(30) DEF IInv
<1>3. ~late => Within(s', known_edge)
  BY DEF IInv
<1> QED BY <1>2, <1>3, SMTT(30) DEF IInv

\* A sender that has only got another stream.
LEMMA StreamIInv ==
  ASSUME IInv, Good(s', written', Text), Keeps(s', s), UNCHANGED <<acks, known_edge, late>>
  PROVE  IInv'
<1>1. s'.rwnd = s.rwnd /\ s'.next_seqno = s.next_seqno /\ s'.checkpoint = s.checkpoint
  BY DEF Keeps
<1>2. s.next_seqno \in Nat
  BY SMTT(30) DEF IInv, Good, Typed
<1>3. \A edge : Within(s, edge) => Within(s', edge)
  BY <1>1 DEF Within
<1>4. s.next_seqno <= s'.next_seqno
  BY <1>1, <1>2, SMTT(30)
<1> QED BY <1>1, <1>3, <1>4, StillIInv

\* The application writes: what fits goes behind what is there.
LEMMA WriteIInv ==
  ASSUME IInv, NEW len \in 1 .. Len(Text), Write(len)
  PROVE  IInv'
<1> DEFINE stream == StreamWrite(s.stream, SubSeq(Text, written + 1, written + len))
<1>1. /\ written + len <= Len(Text) /\ ~s.stream.isInputEnded /\ s' = [s EXCEPT !.stream = stream]
      /\ written' = written + Len(stream.buffer) - Len(s.stream.buffer)
      /\ UNCHANGED <<acks, known_edge, late>>
  BY DEF Write, BufferSize
<1>2. len \in Nat
  BY SpecFacts, SMTT(30)
<1>3. Good(s, written, Text)
  BY DEF IInv
<1>4. Good(s', written + Len(s'.stream.buffer) - Len(s.stream.buffer), Text) /\ Keeps(s', s)
  BY <1>1, <1>2, <1>3, WrittenGood
<1>5. s'.stream = stream
  <2>1. DOMAIN s = Fields
    BY <1>3 DEF Good, Typed
  <2> HIDE DEF stream
  <2> QED BY <1>1, <2>1, SMTT(30) DEF Fields
<1> HIDE DEF stream
<1>6. Good(s', written', Text)
  BY <1>1, <1>4, <1>5
<1> QED BY <1>1, <1>4, <1>6, StreamIInv

\* The application ends the stream when everything is written.
LEMMA EndIInv ==
  ASSUME IInv, End
  PROVE  IInv'
<1> DEFINE stream == EndInput(s.stream)
<1>1. /\ written = Len(Text) /\ s' = [s EXCEPT !.stream = stream] /\ written' = written
      /\ UNCHANGED <<acks, known_edge, late>>
  BY DEF End
<1>2. Good(s, written, Text)
  BY DEF IInv
<1>3. stream = SetError(s.stream) \/ (stream = EndInput(s.stream) /\ written = Len(Text))
  BY <1>1
<1> HIDE DEF stream
<1>4. Good(s', written, Text) /\ Keeps(s', s)
  BY <1>1, <1>2, <1>3, MarkedGood, SMTT(30)
<1> QED BY <1>1, <1>4, StreamIInv

\* fill_window().
LEMMA FillIInv ==
  ASSUME IInv, Fill
  PROVE  IInv'
<1> DEFINE t == FillWindow(s)
<1>1. Good(s, written, Text) /\ s.rwnd <= Maximum(1, MaxWindow)
  BY SMTT(30) DEF IInv
<1>2. Dequeue(t) /\ written' = written /\ UNCHANGED <<acks, known_edge, late>>
  BY SMTT(30) DEF Fill
<1>3. Good(t, written, Text) /\ Fills(t, s)
  BY <1>1, FillWindowGood, SMTT(30)
<1> HIDE DEF t
<1>4. Good(s', written', Text) /\ Alike(s', t)
  BY <1>2, <1>3, DequeueAlike, SMTT(30)
<1>5. s'.rwnd = t.rwnd /\ s'.next_seqno = t.next_seqno /\ s'.checkpoint = t.checkpoint
  BY <1>4 DEF Alike, SameButFlight
<1>6. \A edge : Within(s, edge) => Within(t, edge)
  BY <1>1, <1>3, FilledWithin, SMTT(30)
<1>7. \A edge : Within(s, edge) => Within(s', edge)
  BY <1>5, <1>6 DEF Within
<1>8. s'.rwnd = s.rwnd /\ s.next_seqno <= s'.next_seqno
  BY <1>3, <1>5 DEF Fills
<1> QED BY <1>2, <1>4, <1>7, <1>8, StillIInv

\* A step that leaves alone what the invariant speaks of.
LEMMA QuietIInv ==
  ASSUME IInv, NEW t, Good(t, written, Text), Alike(t, s), Dequeue(t),
         UNCHANGED <<written, acks, known_edge, late>>
  PROVE  IInv'
<1>1. Good(s', written, Text) /\ Alike(s', t)
  BY DequeueAlike
<1>2. s'.rwnd = s.rwnd /\ s'.next_seqno = s.next_seqno /\ s'.checkpoint = s.checkpoint
  BY <1>1 DEF Alike, SameButFlight
<1>3. s.next_seqno \in Nat
  BY SMTT(30) DEF IInv, Good, Typed
<1>4. \A edge : Within(s, edge) => Within(s', edge)
  BY <1>2 DEF Within
<1>5. s.next_seqno <= s'.next_seqno
  BY <1>2, <1>3, SMTT(30)
<1> QED BY <1>1, <1>2, <1>4, <1>5, StillIInv

\* Time passes: only the timer and what is enqueued change.
LEMMA TickIInv ==
  ASSUME IInv, NEW ms, Tick(ms)
  PROVE  IInv'
<1>1. Dequeue(SenderTick(s, ms)) /\ UNCHANGED <<written, acks, known_edge, late>>
  BY DEF Tick
<1>2. Good(SenderTick(s, ms), written, Text) /\ Alike(SenderTick(s, ms), s)
  BY TickedGood DEF IInv
<1> QED BY <1>1, <1>2, QuietIInv

\* send_empty_segment() keeps the invariant.
LEMMA SendEmptyIInv ==
  ASSUME IInv, SendEmpty
  PROVE  IInv'
<1>1. Dequeue(SendEmptySegment(s)) /\ UNCHANGED <<written, acks, known_edge, late>>
  BY DEF SendEmpty
<1>2. Good(SendEmptySegment(s), written, Text) /\ Alike(SendEmptySegment(s), s)
  BY EmptySentGood DEF IInv
<1> QED BY <1>1, <1>2, QuietIInv

\* Acknowledgments come and go.
LEMMA NetworkIInv ==
  ASSUME IInv, acks' \in Seq(Acks(s.next_seqno)), UNCHANGED <<s, written, known_edge, late>>
  PROVE  IInv'
  BY SMTT(30) DEF IInv

\* An acknowledgment that the peer sends keeps the invariant.
LEMMA PeerAcksIInv ==
  ASSUME IInv, NEW pos \in Nat, NEW edge \in Nat, PeerAcks(pos, edge)
  PROVE  IInv'
<1> DEFINE ack == [pos |-> pos, win |-> edge - pos]
<1>1. /\ acks' = Append(acks, ack) /\ UNCHANGED <<s, written, known_edge, late>>
      /\ pos <= s.next_seqno /\ edge >= pos /\ edge <= pos + MaxWindow
  BY SMTT(30) DEF PeerAcks
<1>2. s.next_seqno \in Nat /\ acks \in Seq(Acks(s.next_seqno)) /\ MaxWindow \in Nat
  BY SpecFacts, SMTT(30) DEF IInv, Good, Typed
<1>3. ack \in Acks(s.next_seqno)
  BY <1>1, <1>2, SMTT(30) DEF Acks
<1>4. acks' \in Seq(Acks(s.next_seqno))
  BY <1>1, <1>2, <1>3, SMTT(30)
<1> QED BY <1>1, <1>4, NetworkIInv, SMTT(30)

\* The acknowledgments without one of them.
LEMMA WithoutType ==
  ASSUME NEW S, acks \in Seq(S), NEW i \in 1 .. Len(acks)
  PROVE  Without(i) \in Seq(S)
<1>1. Len(acks) \in Nat /\ \A j \in 1 .. Len(acks) : acks[j] \in S
  BY SMT
<1> DEFINE n == Len(acks) - 1
<1>2. n \in Nat /\ \A j \in 1 .. n : (IF j < i THEN j ELSE j + 1) \in 1 .. Len(acks)
  BY <1>1, SMT
<1>3. \A j \in 1 .. n : acks[IF j < i THEN j ELSE j + 1] \in S
  BY <1>1, <1>2
<1>4. Without(i) \in [1 .. n -> S]
  BY <1>3 DEF Without
<1> HIDE DEF n
<1> QED BY <1>2, <1>4, SMTT(30)

\* The loss of an acknowledgment keeps the invariant.
LEMMA AckLostIInv ==
  ASSUME IInv, NEW i \in 1 .. Len(acks), AckLost(i)
  PROVE  IInv'
<1>1. acks' = Without(i) /\ UNCHANGED <<s, written, known_edge, late>>
  BY SMTT(30) DEF AckLost
<1>2. acks \in Seq(Acks(s.next_seqno))
  BY SMTT(30) DEF IInv
<1>3. acks' \in Seq(Acks(s.next_seqno))
  BY <1>1, <1>2, WithoutType, SMTT(30)
<1> QED BY <1>1, <1>3, NetworkIInv, SMTT(30)

\* Whatever is acknowledged, the sender stays good and has the window told.
LEMMA AckReceivedGood ==
  ASSUME NEW t, NEW w, NEW pos \in Nat, NEW win \in Nat, Good(t, w, Text)
  PROVE  LET u == AckReceived(t, Wrap(pos, t.isn), win)
         IN  Good(u, w, Text) /\ u.rwnd = win /\ t.next_seqno <= u.next_seqno
<1> DEFINE ackno == Wrap(pos, t.isn)
           abs == Unwrap(ackno, t.isn, t.checkpoint)
           u == AckReceived(t, ackno, win)
<1>1. t.isn \in WrappingInt /\ t.next_seqno \in Nat
  BY SMTT(30) DEF Good, Typed
<1>2. ackno \in WrappingInt
  BY <1>1, WrapType
<1> HIDE DEF ackno
<1>3. /\ Good(u, w, Text)
      /\ ~AckIsNew(t, abs) => Opened(u, t, win)
      /\ AckIsNew(t, abs) => \E v : Applied(v, t, abs, win) /\ Fills(u, v)
  BY <1>2, AckReceivedDoes
<1> HIDE DEF u, abs
<1>4. u.rwnd = win /\ t.next_seqno <= u.next_seqno
  BY <1>1, <1>3, SMTT(30) DEF Fills, Opened, Applied
<1> QED BY <1>3, <1>4, SMTT(30) DEF u, ackno

\* An acknowledgment in order: its position is recovered from the sequence
\* number, and its window is kept to.
LEMMA AckReceivedWithin ==
  ASSUME NEW t, NEW w, NEW pos \in Nat, NEW win \in Nat, NEW edge, Good(t, w, Text),
         win <= MaxWindow, t.checkpoint <= pos, pos <= t.next_seqno,
         Within(t, edge), edge <= pos + Maximum(1, win)
  PROVE  Within(AckReceived(t, Wrap(pos, t.isn), win), pos + Maximum(1, win))
<1> DEFINE ackno == Wrap(pos, t.isn)
           abs == Unwrap(ackno, t.isn, t.checkpoint)
           u == AckReceived(t, ackno, win)
           to == pos + Maximum(1, win)
<1>1. /\ t.isn \in WrappingInt /\ t.next_seqno \in Nat /\ t.checkpoint \in Nat /\ t.rwnd \in Nat
  BY SMTT(30) DEF Good, Typed
<1>2. t.next_seqno \in 0 .. (Len(Text) + 2)
  BY NextBounded, SMTT(30)
<1>3. ackno \in WrappingInt
  BY <1>1, WrapType
<1>4. abs = pos
  <2>1. Half \in Nat /\ Len(Text) \in Nat /\ Len(Text) + MaxWindow + 4 < Half /\ MaxWindow \in Nat
    BY SpecFacts, HalfTwice, SMTT(30)
  <2>2. t.checkpoint - Half <= pos /\ pos < t.checkpoint + Half
    BY <1>1, <1>2, <2>1, SMTT(20)
  <2> QED BY <1>1, <2>2, UnwrapsBack, SMTT(30)
<1> HIDE DEF ackno
<1>5. /\ ~AckIsNew(t, abs) => /\ u.checkpoint = t.checkpoint /\ u.rwnd = win
                              /\ u.next_seqno = t.next_seqno
      /\ AckIsNew(t, abs) =>
           \E v : /\ Good(v, w, Text) /\ v.checkpoint = abs /\ v.rwnd = win
                  /\ v.next_seqno = t.next_seqno /\ Fills(u, v)
  <2>1. /\ ~AckIsNew(t, abs) => Opened(u, t, win)
        /\ AckIsNew(t, abs) => \E v : Good(v, w, Text) /\ Applied(v, t, abs, win) /\ Fills(u, v)
    BY <1>3, AckReceivedDoes
  <2> QED BY <2>1 DEF Opened, Applied
<1> HIDE DEF u, abs
<1>6. edge \in Nat /\ to \in Nat /\ t.next_seqno <= to
  BY <1>1, SMTT(30) DEF Within, Maximum
<1>7. CASE AckIsNew(t, abs)
  <2>1. PICK v : /\ Good(v, w, Text) /\ v.checkpoint = abs /\ v.rwnd = win
                 /\ v.next_seqno = t.next_seqno /\ Fills(u, v)
    BY <1>5, <1>7, SMTT(30)
  <2>2. Within(v, to)
    BY <1>4, <1>6, <2>1, SMTT(30) DEF Within
  <2>3. v.rwnd <= Maximum(1, MaxWindow)
    BY <2>1, SpecFacts, SMTT(30) DEF Maximum
  <2>4. Within(u, to)
    BY <2>1, <2>2, <2>3, FilledWithin, SMTT(20)
  <2> QED BY <2>4, SMTT(30) DEF u, ackno
<1>8. CASE ~AckIsNew(t, abs)
  <2>1. t.checkpoint = pos
    BY <1>1, <1>4, <1>8, SMTT(30) DEF AckIsNew
  <2>2. Within(u, to)
    BY <1>5, <1>6, <1>8, <2>1, SMTT(20) DEF Within
  <2> QED BY <2>2, SMTT(30) DEF u, ackno
<1> QED BY <1>7, <1>8, SMTT(30)

\* What hearing of an acknowledgment does to the sender.
LEMMA HearDoes ==
  ASSUME IInv, NEW ack, ack.pos \in Nat, ack.win \in 0 .. MaxWindow, Hear(ack)
  PROVE  /\ Good(s', written', Text) /\ s'.rwnd <= Maximum(1, MaxWindow)
         /\ s.next_seqno <= s'.next_seqno
         /\ \A edge : /\ s.checkpoint <= ack.pos /\ ack.pos <= s.next_seqno
                      /\ Within(s, edge) /\ edge <= Edge(ack)
                      => Within(s', Edge(ack))
<1> DEFINE t == AckReceived(s, Wrap(ack.pos, s.isn), ack.win)
<1>1. Dequeue(t) /\ written' = written
  BY SMTT(30) DEF Hear
<1>2. Good(s, written, Text) /\ ack.win \in Nat /\ ack.win <= MaxWindow /\ MaxWindow \in Nat
  BY SpecFacts, SMTT(30) DEF IInv
<1>3. Good(t, written, Text) /\ t.rwnd = ack.win /\ s.next_seqno <= t.next_seqno
  BY <1>2, AckReceivedGood
<1>4. ASSUME NEW edge, s.checkpoint <= ack.pos, ack.pos <= s.next_seqno,
             Within(s, edge), edge <= Edge(ack)
      PROVE  Within(t, Edge(ack))
  BY <1>2, <1>4, AckReceivedWithin, SMTT(30) DEF Edge
<1> HIDE DEF t
<1>5. Good(s', written', Text) /\ Alike(s', t)
  BY <1>1, <1>3, DequeueAlike, SMTT(30)
<1>6. s'.rwnd <= Maximum(1, MaxWindow)
  BY <1>2, <1>3, <1>5, SMTT(30) DEF Alike, SameButFlight, Maximum
<1>7. s.next_seqno <= s'.next_seqno
  BY <1>3, <1>5, SMTT(30) DEF Alike
<1>8. Within(t, Edge(ack)) => Within(s', Edge(ack))
  BY <1>5, SMTT(30) DEF Within, Alike, SameButFlight
<1> QED BY <1>4, <1>5, <1>6, <1>7, <1>8, SMTT(20)

\* Acknowledgments stay possible as more is sent.
LEMMA AcksGrow ==
  ASSUME NEW m \in Nat, NEW n \in Nat, m <= n, NEW q \in Seq(Acks(m))
  PROVE  q \in Seq(Acks(n))
<1>1. Acks(m) \subseteq Acks(n)
  BY SMTT(30) DEF Acks
<1> QED BY <1>1, SMTT(30)

\* ack_received() of an acknowledgment under way keeps the invariant.
LEMMA AckArrivesIInv ==
  ASSUME IInv, NEW i \in 1 .. Len(acks), AckArrives(i)
  PROVE  IInv'
<1> DEFINE ack == acks[i]
<1>1. /\ Hear(ack) /\ known_edge' = Maximum(known_edge, Edge(ack))
      /\ late' = (late \/ ack.pos < s.checkpoint \/ Edge(ack) < known_edge)
  BY SMTT(30) DEF AckArrives
<1>2. acks \in Seq(Acks(s.next_seqno)) /\ s.next_seqno \in Nat /\ s.checkpoint \in Nat /\ known_edge \in Nat
  BY SMTT(30) DEF IInv, Good, Typed
<1>3. ack \in Acks(s.next_seqno)
  BY <1>2, SMTT(30)
<1>4. ack.pos \in Nat /\ ack.pos <= s.next_seqno /\ ack.win \in 0 .. MaxWindow /\ ack.win \in Nat
  BY <1>2, <1>3, SpecFacts, SMTT(30) DEF Acks
<1>5. acks' \in Seq(Acks(s.next_seqno))
  <2>1. CASE i = 1 /\ acks' = Tail(acks)
    <3>1. acks # <<>>
      BY SMTT(30)
    <3> QED BY <1>2, <2>1, <3>1, SMTT(30)
  <2>2. CASE acks' \in {acks, Without(i)}
    BY <1>2, <2>2, WithoutType, SMTT(30)
  <2> QED BY <2>1, <2>2, SMTT(30) DEF AckArrives
<1> HIDE DEF ack
<1>6. /\ Good(s', written', Text) /\ s'.rwnd <= Maximum(1, MaxWindow) /\ s.next_seqno <= s'.next_seqno
      /\ \A edge : /\ s.checkpoint <= ack.pos /\ ack.pos <= s.next_seqno
                   /\ Within(s, edge) /\ edge <= Edge(ack)
                   => Within(s', Edge(ack))
  BY <1>1, <1>4, HearDoes, SMTT(30)
<1>7. s'.next_seqno \in Nat
  BY <1>6, SMTT(30) DEF Good, Typed
<1>8. acks' \in Seq(Acks(s'.next_seqno))
  BY <1>2, <1>5, <1>6, <1>7, AcksGrow, SMTT(20)
<1>9. Edge(ack) \in Nat
  BY <1>4, SMTT(30) DEF Edge, Maximum
<1>10. known_edge' \in Nat
  BY <1>1, <1>2, <1>9, SMTT(30) DEF Maximum
<1>11. late' \in BOOLEAN
  BY <1>1, SMTT(30)
<1>12. ASSUME ~late' PROVE Within(s', known_edge')
  <2>1. ~late /\ ~(ack.pos < s.checkpoint) /\ ~(Edge(ack) < known_edge)
    BY <1>1, <1>12
  <2>2. s.checkpoint <= ack.pos /\ known_edge <= Edge(ack)
    BY <1>2, <1>4, <1>9, <2>1, SMTT(30)
  <2>3. Within(s, known_edge)
    BY <2>1, SMTT(30) DEF IInv
  <2>4. Within(s', Edge(ack))
    BY <1>4, <1>6, <2>2, <2>3, SMTT(30)
  <2>5. known_edge' = Edge(ack)
    BY <1>1, <1>2, <1>9, <2>2, SMTT(20) DEF Maximum
  <2> QED BY <2>4, <2>5, SMTT(30)
<1> QED BY <1>6, <1>8, <1>10, <1>11, <1>12, SMTT(20) DEF IInv

\* ack_received() of any other acknowledgment keeps the invariant.
LEMMA StrayAckIInv ==
  ASSUME IInv, NEW ack, ack.pos \in Nat, ack.win \in 0 .. MaxWindow, StrayAck(ack)
  PROVE  IInv'
<1>1. Hear(ack) /\ late' = TRUE /\ acks' = acks /\ known_edge' = known_edge
  BY SMTT(30) DEF StrayAck
<1>2. Good(s', written', Text) /\ s'.rwnd <= Maximum(1, MaxWindow) /\ s.next_seqno <= s'.next_seqno
  BY <1>1, HearDoes, SMTT(30)
<1>3. s.next_seqno \in Nat /\ s'.next_seqno \in Nat /\ acks \in Seq(Acks(s.next_seqno)) /\ known_edge \in Nat
  BY <1>2, SMTT(30) DEF IInv, Good, Typed
<1>4. acks' \in Seq(Acks(s'.next_seqno))
  BY <1>1, <1>2, <1>3, AcksGrow, SMTT(20)
<1> QED BY <1>1, <1>2, <1>3, <1>4, SMTT(30) DEF IInv

-----------------------------------------------------------------------------
\* Every step keeps the invariant.
LEMMA NextIInv == IInv /\ [Next]_vars => IInv'
<1> SUFFICES ASSUME IInv, [Next]_vars PROVE IInv'
  BY SMTT(30)
<1>1. CASE \E len \in 1 .. Len(Text) : Write(len)
  BY <1>1, WriteIInv, SMTT(30)
<1>2. CASE End
  BY <1>2, EndIInv, SMTT(30)
<1>3. CASE Fill
  BY <1>3, FillIInv, SMTT(30)
<1>4. CASE SendEmpty
  BY <1>4, SendEmptyIInv, SMTT(30)
<1>5. CASE \E ms \in 1 .. InitialRTO : Tick(ms)
  <2>1. PICK ms \in 1 .. InitialRTO : Tick(ms)
    BY <1>5, SMTT(30)
  <2>2. ms \in Nat
    BY SenderAssumption, SMTT(30)
  <2> QED BY <2>1, <2>2, TickIInv, SMTT(30)
<1>6. CASE \E pos \in Position, edge \in 1 .. (Len(Text) + 2 + MaxWindow) : PeerAcks(pos, edge)
  <2>1. PICK pos \in Position, edge \in 1 .. (Len(Text) + 2 + MaxWindow) : PeerAcks(pos, edge)
    BY <1>6, SMTT(30)
  <2>2. pos \in Nat /\ edge \in Nat
    BY SpecFacts, SMTT(30) DEF Position
  <2> QED BY <2>1, <2>2, PeerAcksIInv, SMTT(30)
<1>7. CASE \E i \in 1 .. Len(acks) : AckArrives(i) \/ AckLost(i)
  BY <1>7, AckArrivesIInv, AckLostIInv, SMTT(30)
<1>8. CASE \E ahead \in 1 .. 2, win \in 0 .. MaxWindow :
             StrayAck([pos |-> s.next_seqno + ahead, win |-> win])
  <2>1. PICK ahead \in 1 .. 2, win \in 0 .. MaxWindow :
               StrayAck([pos |-> s.next_seqno + ahead, win |-> win])
    BY <1>8, SMTT(30)
  <2> DEFINE ack == [pos |-> s.next_seqno + ahead, win |-> win]
  <2>2. s.next_seqno \in Nat
    BY SMTT(30) DEF IInv, Good, Typed
  <2>3. ack.pos \in Nat /\ ack.win \in 0 .. MaxWindow /\ StrayAck(ack)
    BY <2>1, <2>2, SMTT(30)
  <2> HIDE DEF ack
  <2> QED BY <2>3, StrayAckIInv, SMTT(30)
<1>9. CASE UNCHANGED vars
  BY <1>9, SMTT(30) DEF vars, IInv
<1> QED BY <1>1, <1>2, <1>3, <1>4, <1>5, <1>6, <1>7, <1>8, <1>9, SMTT(20) DEF Next

\* The invariant holds for every text, capacity, payload size, window and
\* timeout, whatever the network does to acknowledgments.
THEOREM SenderInvariant == Spec => []IInv
  BY InitIInv, NextIInv, PTL DEF Spec

\* Bytes are sent once and in order, and FIN after the last of them
\* (fill_window()).
THEOREM SendsInOrder == Spec => []SentInOrder
<1>1. IInv => SentInOrder
  <2> SUFFICES ASSUME IInv PROVE SentInOrder
    OBVIOUS
  <2>1. Queued(s, written, Text)
    BY SMTT(30) DEF IInv, Good
  <2>2. s.syn => s.next_seqno = 1 + (written - BufferSize(s.stream)) + (IF s.fin THEN 1 ELSE 0)
    BY <2>1 DEF Queued, ReadUpTo, BufferSize
  <2>3. s.fin => Eof(s.stream) /\ written = Len(Text)
    BY <2>1, SMTT(30) DEF Queued, Eof
  <2> QED BY <2>2, <2>3, SMTT(30) DEF SentInOrder
<1> QED BY <1>1, SenderInvariant, PTL

-----------------------------------------------------------------------------
\* f is the initial timeout doubled again and again, up to k times.
Doubles(f, k) == \A n \in 0 .. k : f[n] = IF n = 0 THEN InitialRTO ELSE 2 * f[n - 1]

\* Two that are agree: there is no first number at which they differ.
LEMMA DoublesAgree ==
  ASSUME NEW f, NEW g, NEW k \in Nat, NEW j \in Nat, Doubles(f, k), Doubles(g, j),
         NEW m \in Nat, m <= k, m <= j
  PROVE  f[m] = g[m]
<1> DEFINE Bad == { n \in 0 .. m : f[n] # g[n] }
<1> SUFFICES ASSUME Bad # {} PROVE FALSE
  BY SMT
<1>1. Bad \subseteq Nat
  BY SMT
<1>2. PICK n \in Bad : \A i \in Bad : n <= i
  BY <1>1, Least
<1>3. n \in 0 .. m /\ f[n] # g[n]
  BY <1>2
<1>4. n - 1 \notin Bad
  BY <1>1, <1>2, SMT
<1>5. n # 0 => f[n - 1] = g[n - 1]
  BY <1>3, <1>4, SMT
<1>6. /\ f[n] = IF n = 0 THEN InitialRTO ELSE 2 * f[n - 1]
      /\ g[n] = IF n = 0 THEN InitialRTO ELSE 2 * g[n - 1]
  BY <1>3, SMT DEF Doubles
<1> HIDE DEF Bad
<1> QED BY <1>3, <1>5, <1>6

\* There is one for every k.
LEMMA DoublesExists ==
  ASSUME NEW m \in Nat
  PROVE  \E f : Doubles(f, m)
<1> DEFINE Bad == { k \in Nat : ~ \E f : Doubles(f, k) }
<1> SUFFICES ASSUME Bad # {} PROVE FALSE
  OBVIOUS
<1>1. PICK k \in Bad : \A i \in Bad : k <= i
  <2>1. Bad \subseteq Nat
    OBVIOUS
  <2> HIDE DEF Bad
  <2> QED BY <2>1, Least
<1>2. k \in Nat /\ ~ \E f : Doubles(f, k)
  BY <1>1
<1>3. k # 0
  <2> DEFINE h == [n \in {0} |-> InitialRTO]
  <2>1. Doubles(h, 0)
    BY SMT DEF Doubles
  <2> HIDE DEF h
  <2> QED BY <1>2, <2>1
<1>4. k - 1 \in Nat /\ k - 1 \notin Bad
  BY <1>1, <1>2, <1>3, SMT
<1>5. PICK f : Doubles(f, k - 1)
  BY <1>4
<1> DEFINE h == [n \in 0 .. k |-> IF n = k THEN 2 * f[k - 1] ELSE f[n]]
<1>6. \A n \in 0 .. k : h[n] = IF n = 0 THEN InitialRTO ELSE 2 * h[n - 1]
  <2> SUFFICES ASSUME NEW n \in 0 .. k PROVE h[n] = IF n = 0 THEN InitialRTO ELSE 2 * h[n - 1]
    OBVIOUS
  <2>1. CASE n = k
    BY <1>2, <1>3, <2>1, SMT
  <2>2. CASE n # k
    <3>1. n \in 0 .. (k - 1)
      BY <1>2, <2>2, SMT
    <3>2. f[n] = IF n = 0 THEN InitialRTO ELSE 2 * f[n - 1]
      BY <1>5, <3>1 DEF Doubles
    <3>3. n # 0 => n - 1 \in 0 .. k /\ n - 1 # k
      BY <1>2, <3>1, SMT
    <3> QED BY <2>2, <3>2, <3>3
  <2> QED BY <2>1, <2>2
<1> HIDE DEF h
<1> QED BY <1>2, <1>6 DEF Doubles

\* D[n] is the initial timeout doubled n times.
Doubling(D) ==
  D[0] = InitialRTO /\ \A n \in Nat : D[n] \in Nat /\ D[n + 1] = 2 * D[n]

\* What doubling again and again gives.
LEMMA DoublingIs ==
  ASSUME NEW D, D = CHOOSE f : f = [n \in Nat |-> IF n = 0 THEN InitialRTO ELSE 2 * f[n - 1]]
  PROVE  Doubling(D)
<1> DEFINE F(k) == CHOOSE f : Doubles(f, k)
           g == [n \in Nat |-> F(n)[n]]
           Eqn(f) == f = [n \in Nat |-> IF n = 0 THEN InitialRTO ELSE 2 * f[n - 1]]
<1>1. \A n \in Nat : Doubles(F(n), n)
  BY DoublesExists
<1> HIDE DEF F
<1>2. \A n \in Nat : g[n] = IF n = 0 THEN InitialRTO ELSE 2 * g[n - 1]
  <2> SUFFICES ASSUME NEW n \in Nat PROVE g[n] = IF n = 0 THEN InitialRTO ELSE 2 * g[n - 1]
    OBVIOUS
  <2>1. F(n)[n] = IF n = 0 THEN InitialRTO ELSE 2 * F(n)[n - 1]
    <3>1. n \in 0 .. n
      BY SMT
    <3> QED BY <1>1, <3>1 DEF Doubles
  <2>2. ASSUME n # 0 PROVE n - 1 \in Nat /\ F(n)[n - 1] = F(n - 1)[n - 1]
    <3> DEFINE m == n - 1
    <3>1. m \in Nat /\ m <= n /\ m <= m
      BY <2>2, SMT
    <3>2. Doubles(F(n), n) /\ Doubles(F(m), m)
      BY <1>1, <3>1
    <3> HIDE DEF m
    <3>3. F(n)[m] = F(m)[m]
      BY <3>1, <3>2, DoublesAgree
    <3> QED BY <3>1, <3>3 DEF m
  <2> QED BY <2>1, <2>2
<1>3. Eqn(g)
  <2> DEFINE h == [n \in Nat |-> IF n = 0 THEN InitialRTO ELSE 2 * g[n - 1]]
  <2>1. \A n \in Nat : F(n)[n] = IF n = 0 THEN InitialRTO ELSE 2 * g[n - 1]
    BY <1>2
  <2> QED BY <2>1
<1>4. D = CHOOSE f : Eqn(f)
  OBVIOUS
<1> HIDE DEF g
<1>5. Eqn(D)
  BY <1>3, <1>4
<1>6. \A n \in Nat : D[n] = IF n = 0 THEN InitialRTO ELSE 2 * D[n - 1]
  BY <1>5
<1>7. D[0] = InitialRTO
  BY <1>6, SMT
<1>8. \A n \in Nat : D[n + 1] = 2 * D[n]
  <2> SUFFICES ASSUME NEW n \in Nat PROVE D[n + 1] = 2 * D[n]
    OBVIOUS
  <2> DEFINE m == n + 1
  <2>1. m \in Nat /\ m # 0 /\ m - 1 = n
    BY SMT
  <2> HIDE DEF m
  <2>2. D[m] = 2 * D[n]
    BY <1>6, <2>1
  <2> QED BY <2>2 DEF m
<1>9. \A n \in Nat : D[n] \in Nat
  <2> DEFINE Bad == { n \in Nat : D[n] \notin Nat }
  <2> SUFFICES ASSUME Bad # {} PROVE FALSE
    OBVIOUS
  <2>1. PICK n \in Bad : \A i \in Bad : n <= i
    <3>1. Bad \subseteq Nat
      OBVIOUS
    <3> HIDE DEF Bad
    <3> QED BY <3>1, Least
  <2>2. n \in Nat /\ D[n] \notin Nat
    BY <2>1
  <2>3. n # 0
    BY <1>7, <2>2, SenderAssumption, SMT
  <2>4. n - 1 \in Nat /\ n - 1 \notin Bad
    BY <2>1, <2>2, <2>3, SMT
  <2>5. D[n - 1] \in Nat
    BY <2>4
  <2>6. D[n] = 2 * D[n - 1]
    BY <1>6, <2>2, <2>3
  <2> HIDE DEF Bad
  <2> QED BY <2>2, <2>5, <2>6, SMT
<1> QED BY <1>7, <1>8, <1>9 DEF Doubling

\* A sender is a record, and its timer runs while anything is in flight, with
\* the initial timeout doubled once per retransmission.
Timed(t, D) ==
  /\ t = [f \in Fields |-> t[f]]
  /\ t.is_timer_running \in BOOLEAN /\ t.time_spent \in Nat /\ t.n_consecutive \in Nat /\ t.rto \in Nat
  /\ t.is_timer_running => t.rto = D[t.n_consecutive]
  /\ t.in_flight = {} => t.n_consecutive = 0
  /\ t.in_flight # {} => t.is_timer_running

\* u is a record with the timer of t.
SameTimer(u, t) ==
  /\ u = [f \in Fields |-> u[f]] /\ u.in_flight = t.in_flight
  /\ u.is_timer_running = t.is_timer_running /\ u.time_spent = t.time_spent
  /\ u.n_consecutive = t.n_consecutive /\ u.rto = t.rto

\* The timer is right when nothing it depends on changes.
LEMMA SameTimed ==
  ASSUME NEW D, NEW t, NEW u, Timed(t, D), SameTimer(u, t)
  PROVE  Timed(u, D)
  BY DEF Timed, SameTimer

\* A record is one whatever is put into it.
LEMMA RecordKept ==
  ASSUME NEW D, NEW t, Timed(t, D)
  PROVE  /\ DOMAIN t = Fields
         /\ \A v : SameTimer([t EXCEPT !.stream = v], t) /\ [t EXCEPT !.stream = v].stream = v
         /\ \A v : SameTimer([t EXCEPT !.rwnd = v], t)
         /\ \A v : SameTimer([t EXCEPT !.segments_out = v], t)
<1>1. DOMAIN t = Fields
  BY DEF Timed
<1>2. \A v : SameTimer([t EXCEPT !.stream = v], t) /\ [t EXCEPT !.stream = v].stream = v
  BY <1>1 DEF SameTimer, Fields
<1>3. \A v : SameTimer([t EXCEPT !.rwnd = v], t)
  BY <1>1 DEF SameTimer, Fields
<1>4. \A v : SameTimer([t EXCEPT !.segments_out = v], t)
  BY <1>1 DEF SameTimer, Fields
<1> QED BY <1>1, <1>2, <1>3, <1>4

\* The constructor.
LEMMA NewTimed ==
  ASSUME NEW D, NEW cap, NEW isn
  PROVE  Timed(SenderNew(cap, isn), D)
  BY DEF Timed, SenderNew, Fields

\* Sending starts the timer.
LEMMA SendSegmentsTimed ==
  ASSUME NEW D, Doubling(D), NEW t, Timed(t, D), NEW segs
  PROVE  Timed(SendSegments(t, segs), D)
<1> DEFINE sent == SentOf(t, segs)
           kept == { [abs_seqno |-> PlaceOf(t, i), seg |-> sent[i]] : i \in 1 .. Len(segs) }
           u == [t EXCEPT !.segments_out = @ \o sent, !.in_flight = @ \cup kept,
                          !.next_seqno = After(t, segs),
                          !.bytes_in_flight = @ + After(t, segs) - t.next_seqno]
           v == StartTimer(u)
<1>1. SendSegments(t, segs) = v
  BY SMTT(30) DEF SendSegments, PlaceOf, After, Numbered, SentOf
<1>2. DOMAIN t = Fields
  BY RecordKept
<1> HIDE DEF sent, kept
<1>3. /\ u = [f \in Fields |-> u[f]] /\ u.in_flight = t.in_flight \cup kept
      /\ u.is_timer_running = t.is_timer_running /\ u.time_spent = t.time_spent
      /\ u.n_consecutive = t.n_consecutive /\ u.rto = t.rto
  BY <1>2 DEF Fields
<1> HIDE DEF u
<1>4. CASE t.is_timer_running
  <2>1. v = u
    BY <1>3, <1>4 DEF StartTimer
  <2>2. u.in_flight = {} => t.in_flight = {}
    BY <1>3, SMTT(30)
  <2> HIDE DEF v
  <2> QED BY <1>1, <1>3, <1>4, <2>1, <2>2 DEF Timed
<1>5. CASE ~t.is_timer_running
  <2>1. v = [u EXCEPT !.is_timer_running = TRUE, !.time_spent = 0, !.rto = InitialRTO]
    BY <1>3, <1>5, SMTT(30) DEF StartTimer
  <2>2. DOMAIN u = Fields
    BY <1>3
  <2>3. /\ v = [f \in Fields |-> v[f]] /\ v.is_timer_running = TRUE /\ v.time_spent = 0
        /\ v.rto = InitialRTO /\ v.n_consecutive = t.n_consecutive
    BY <1>3, <2>1, <2>2 DEF Fields
  <2>4. t.n_consecutive = 0
    BY <1>5 DEF Timed
  <2>5. 0 \in Nat /\ InitialRTO \in Nat /\ D[0] = InitialRTO
    BY SenderAssumption, SMTT(30) DEF Doubling
  <2> HIDE DEF v
  <2> QED BY <1>1, <2>3, <2>4, <2>5 DEF Timed
<1> QED BY <1>4, <1>5

\* fill_window().
LEMMA FillTimed ==
  ASSUME NEW D, Doubling(D), NEW t, Timed(t, D)
  PROVE  Timed(FillWindow(t), D)
<1>1. CASE ~t.syn
  <2> DEFINE v == SendSegments(t, <<[SegmentNew EXCEPT !.syn = TRUE]>>)
             u == [v EXCEPT !.syn = TRUE]
  <2>1. FillWindow(t) = u
    BY <1>1, SMTT(30) DEF FillWindow
  <2>2. Timed(v, D)
    BY SendSegmentsTimed
  <2> HIDE DEF v
  <2>3. SameTimer(u, v)
    <3>1. DOMAIN v = Fields
      BY <2>2, RecordKept
    <3> QED BY <3>1 DEF SameTimer, Fields
  <2> QED BY <2>1, <2>2, <2>3, SameTimed
<1>2. CASE t.syn /\ (t.fin \/ NumBytesCanSend(t) = 0 \/ NewSegments(t) = <<>>)
  BY <1>2, SMTT(30) DEF FillWindow
<1>3. CASE t.syn /\ ~(t.fin \/ NumBytesCanSend(t) = 0 \/ NewSegments(t) = <<>>)
  <2> DEFINE v == SendSegments(t, NewSegments(t))
             stream == PopOutput(v.stream, TakenBy(t))
             u == [v EXCEPT !.stream = stream, !.fin = SendsFin(t)]
  <2>1. FillWindow(t) = u
    BY <1>3, SMTT(30) DEF FillWindow, TakenBy
  <2>2. Timed(v, D)
    BY SendSegmentsTimed
  <2> HIDE DEF v, stream
  <2>3. SameTimer(u, v)
    <3>1. DOMAIN v = Fields
      BY <2>2, RecordKept
    <3> QED BY <3>1 DEF SameTimer, Fields
  <2> QED BY <2>1, <2>2, <2>3, SameTimed
<1> QED BY <1>1, <1>2, <1>3

\* An acknowledgment of something new starts over.
LEMMA AckTimed ==
  ASSUME NEW D, Doubling(D), NEW t, Timed(t, D), NEW ackno, NEW win
  PROVE  Timed(AckReceived(t, ackno, win), D)
<1> DEFINE abs == Unwrap(ackno, t.isn, t.checkpoint)
           opened == [t EXCEPT !.rwnd = win]
           moved == [opened EXCEPT !.checkpoint = abs]
           left == RemoveAcknowledged(moved, abs)
           reset == [left EXCEPT !.rto = InitialRTO, !.n_consecutive = 0]
           v == IF reset.in_flight = {} THEN reset
                ELSE [reset EXCEPT !.time_spent = 0, !.is_timer_running = TRUE]
<1>1. AckReceived(t, ackno, win) = IF ~AckIsNew(t, abs) THEN opened ELSE FillWindow(v)
  BY SMTT(30) DEF AckReceived
<1>2. Timed(opened, D)
  BY RecordKept, SameTimed
<1> HIDE DEF abs, opened
<1>3. /\ DOMAIN moved = Fields /\ moved.is_timer_running = opened.is_timer_running
      /\ moved.time_spent = opened.time_spent
  BY <1>2, RecordKept, SMT DEF Fields
<1> HIDE DEF moved
<1>4. /\ DOMAIN left = Fields /\ left.is_timer_running = opened.is_timer_running
      /\ left.time_spent = opened.time_spent
  BY <1>3, SMT DEF RemoveAcknowledged, Fields
<1> HIDE DEF left
<1>5. /\ reset = [f \in Fields |-> reset[f]] /\ DOMAIN reset = Fields
      /\ reset.is_timer_running = opened.is_timer_running
      /\ reset.time_spent = opened.time_spent /\ reset.rto = InitialRTO /\ reset.n_consecutive = 0
  BY <1>4 DEF Fields
<1>6. 0 \in Nat /\ InitialRTO \in Nat /\ D[0] = InitialRTO
  BY SenderAssumption, SMTT(30) DEF Doubling
<1> HIDE DEF reset
<1>7. Timed(v, D)
  <2>1. CASE reset.in_flight = {}
    BY <1>2, <1>5, <1>6, <2>1 DEF Timed
  <2>2. CASE reset.in_flight # {}
    <3>1. /\ v = [f \in Fields |-> v[f]] /\ v.is_timer_running = TRUE /\ v.time_spent = 0
          /\ v.rto = InitialRTO /\ v.n_consecutive = 0
      BY <1>5, <2>2 DEF Fields
    <3> HIDE DEF v
    <3> QED BY <1>6, <3>1 DEF Timed
  <2> QED BY <2>1, <2>2
<1>8. Timed(FillWindow(v), D)
  BY <1>7, FillTimed
<1> QED BY <1>1, <1>2, <1>8

\* tick(): a retransmission doubles the timeout and is counted, or neither.
LEMMA TickTimed ==
  ASSUME NEW D, Doubling(D), NEW t, Timed(t, D), NEW ms \in Nat
  PROVE  Timed(SenderTick(t, ms), D)
<1>1. DOMAIN t = Fields
  BY RecordKept
<1>2. /\ t.is_timer_running \in BOOLEAN /\ t.time_spent \in Nat /\ t.n_consecutive \in Nat /\ t.rto \in Nat
      /\ t.is_timer_running => t.rto = D[t.n_consecutive]
      /\ t.in_flight = {} => t.n_consecutive = 0
      /\ t.in_flight # {} => t.is_timer_running
  BY DEF Timed
<1>3. CASE Expires(t, ms)
  <2> DEFINE u == Retransmit(t)
             n == IF t.rwnd > 0 THEN t.n_consecutive + 1 ELSE t.n_consecutive
             rto == IF t.rwnd > 0 THEN 2 * t.rto ELSE t.rto
  <2>1. /\ u = [f \in Fields |-> u[f]] /\ u.in_flight = t.in_flight /\ u.time_spent = 0
        /\ u.is_timer_running = t.is_timer_running /\ u.n_consecutive = n /\ u.rto = rto
    BY <1>1 DEF Retransmit, Fields
  <2>2. t.in_flight # {} /\ t.is_timer_running
    BY <1>2, <1>3 DEF Expires
  <2>3. n \in Nat /\ rto \in Nat /\ 0 \in Nat
    BY <1>2, SMTT(30)
  <2>4. rto = D[n]
    <3>1. D[t.n_consecutive + 1] = 2 * D[t.n_consecutive]
      BY <1>2 DEF Doubling
    <3>2. t.rto = D[t.n_consecutive]
      BY <1>2, <2>2
    <3> QED BY <3>1, <3>2
  <2> HIDE DEF n, rto, u
  <2>5. Timed(u, D)
    BY <1>2, <2>1, <2>2, <2>3, <2>4 DEF Timed
  <2> QED BY <1>3, <2>5 DEF SenderTick, u
<1>4. CASE ~Expires(t, ms) /\ t.in_flight = {}
  <2> DEFINE u == [t EXCEPT !.time_spent = 0, !.is_timer_running = FALSE]
  <2>1. /\ u = [f \in Fields |-> u[f]] /\ u.in_flight = t.in_flight /\ u.time_spent = 0
        /\ u.is_timer_running = FALSE /\ u.n_consecutive = t.n_consecutive /\ u.rto = t.rto
    BY <1>1 DEF Fields
  <2>2. 0 \in Nat
    OBVIOUS
  <2> HIDE DEF u
  <2>3. Timed(u, D)
    BY <1>2, <1>4, <2>1, <2>2 DEF Timed
  <2> QED BY <1>4, <2>3 DEF SenderTick, u
<1>5. CASE ~Expires(t, ms) /\ t.in_flight # {}
  <2> DEFINE u == [t EXCEPT !.time_spent = @ + ms]
  <2>1. /\ u = [f \in Fields |-> u[f]] /\ u.in_flight = t.in_flight /\ u.time_spent = t.time_spent + ms
        /\ u.is_timer_running = t.is_timer_running /\ u.n_consecutive = t.n_consecutive /\ u.rto = t.rto
    BY <1>1 DEF Fields
  <2>2. t.time_spent + ms \in Nat
    BY <1>2, SMTT(30)
  <2> HIDE DEF u
  <2>3. Timed(u, D)
    BY <1>2, <1>5, <2>1, <2>2 DEF Timed
  <2> QED BY <1>5, <2>3 DEF SenderTick, u
<1> QED BY <1>3, <1>4, <1>5

-----------------------------------------------------------------------------
\* The inductive invariant about the timer and the types.
TInv ==
  /\ Timed(s, Doubled) /\ s.segments_out = <<>>
  /\ s.stream.capacity = Capacity /\ s.stream.error = FALSE
  /\ peer_pos \in Position /\ peer_edge \in Nat

\* The function that doubles the initial timeout.
LEMMA DoubledDoubles == Doubling(Doubled)
<1>1. Doubled = CHOOSE f : f = [n \in Nat |-> IF n = 0 THEN InitialRTO ELSE 2 * f[n - 1]]
  BY DEF Doubled
<1> QED BY <1>1, DoublingIs

\* The timer of a new sender is right.
LEMMA InitTInv == Init => TInv
<1> SUFFICES ASSUME Init PROVE TInv
  OBVIOUS
<1>1. PICK isn \in InitialSeqnos : s = SenderNew(Capacity, isn)
  BY DEF Init
<1>2. Timed(s, Doubled)
  BY <1>1, NewTimed
<1>3. s.segments_out = <<>> /\ s.stream.capacity = Capacity /\ s.stream.error = FALSE
  BY <1>1, SMTT(30) DEF SenderNew, StreamNew
<1>4. peer_pos \in Position /\ peer_edge \in Nat
  BY SpecFacts, SMTT(30) DEF Init, Position
<1> QED BY <1>2, <1>3, <1>4 DEF TInv

\* What is enqueued is taken away.
LEMMA DequeueTInv ==
  ASSUME TInv, NEW t, Timed(t, Doubled), Dequeue(t), t.stream.capacity = Capacity,
         t.stream.error = FALSE, UNCHANGED <<peer_pos, peer_edge>>
  PROVE  TInv'
<1>1. DOMAIN t = Fields /\ SameTimer([t EXCEPT !.segments_out = <<>>], t)
  BY RecordKept
<1>2. s' = [t EXCEPT !.segments_out = <<>>]
  BY DEF Dequeue
<1>3. Timed(s', Doubled)
  BY <1>1, <1>2, SameTimed
<1>4. s'.segments_out = <<>> /\ s'.stream = t.stream
  BY <1>1, <1>2 DEF Fields
<1>5. Doubled' = Doubled
  OBVIOUS
<1>6. Timed(s', Doubled')
  BY <1>3
<1> QED BY <1>4, <1>6 DEF TInv

\* Another stream.
LEMMA StreamTInv ==
  ASSUME TInv, NEW stream, s' = [s EXCEPT !.stream = stream], stream.capacity = s.stream.capacity,
         stream.error = s.stream.error, UNCHANGED <<peer_pos, peer_edge>>
  PROVE  TInv'
<1>1. /\ DOMAIN s = Fields /\ SameTimer(s', s) /\ s'.stream = stream /\ Timed(s, Doubled)
  BY RecordKept DEF TInv
<1>2. s'.segments_out = s.segments_out
  BY <1>1 DEF Fields
<1>3. Timed(s', Doubled)
  BY <1>1, SameTimed
<1> QED BY <1>1, <1>2, <1>3 DEF TInv

\* fill_window(), tick(), ack_received().
LEMMA SenderTInv ==
  ASSUME TInv, Good(s, written, Text), NEW t, UNCHANGED <<peer_pos, peer_edge>>, Dequeue(t),
         \/ t = FillWindow(s) \/ t = SendEmptySegment(s) \/ \E ms \in Nat : t = SenderTick(s, ms)
         \/ \E pos \in Nat, win \in Nat : t = AckReceived(s, Wrap(pos, s.isn), win)
  PROVE  TInv'
<1>1. Timed(s, Doubled) /\ s.stream.capacity = Capacity /\ s.stream.error = FALSE /\ Doubling(Doubled)
  BY DoubledDoubles DEF TInv
<1>2. CASE t = FillWindow(s)
  <2>1. Fills(t, s) /\ Timed(t, Doubled)
    BY <1>1, <1>2, FillWindowGood, FillTimed
  <2> QED BY <1>1, <2>1, DequeueTInv DEF Fills
<1>3. CASE t = SendEmptySegment(s)
  <2>1. t = [s EXCEPT !.segments_out = Append(s.segments_out, [SegmentNew EXCEPT !.seqno = NextSeqno(s)])]
    BY <1>3 DEF SendEmptySegment
  <2>2. SameTimer(t, s)
    BY <1>1, <2>1, RecordKept
  <2>4. Timed(t, Doubled)
    BY <1>1, <2>2, SameTimed
  <2>5. Alike(t, s)
    BY <1>3, EmptySentGood
  <2>3. t.stream = s.stream
    BY <2>5 DEF Alike, SameButFlight
  <2> QED BY <1>1, <2>3, <2>4, DequeueTInv
<1>4. CASE \E ms \in Nat : t = SenderTick(s, ms)
  <2>1. Timed(t, Doubled)
    BY <1>1, <1>4, TickTimed
  <2>3. Alike(t, s)
    BY <1>4, TickedGood
  <2>2. t.stream = s.stream
    BY <2>3 DEF Alike, SameButFlight
  <2> QED BY <1>1, <2>1, <2>2, DequeueTInv
<1>5. CASE \E pos \in Nat, win \in Nat : t = AckReceived(s, Wrap(pos, s.isn), win)
  <2>1. PICK pos \in Nat, win \in Nat : t = AckReceived(s, Wrap(pos, s.isn), win)
    BY <1>5
  <2> DEFINE ackno == Wrap(pos, s.isn)
             abs == Unwrap(ackno, s.isn, s.checkpoint)
  <2>2. Timed(t, Doubled)
    BY <1>1, <2>1, AckTimed
  <2>3. ackno \in WrappingInt
    BY WrapType DEF Good, Typed
  <2> HIDE DEF ackno
  <2>4. \/ Opened(t, s, win)
        \/ \E v : Applied(v, s, abs, win) /\ Fills(t, v)
    BY <2>1, <2>3, AckReceivedDoes DEF ackno
  <2>5. t.stream.capacity = Capacity /\ t.stream.error = FALSE
    BY <1>1, <2>4 DEF Opened, Applied, Fills
  <2> QED BY <2>2, <2>5, DequeueTInv
<1> QED BY <1>2, <1>3, <1>4, <1>5

\* Every step keeps the invariant.
LEMMA NextTInv == IInv /\ TInv /\ [Next]_vars => TInv'
<1> SUFFICES ASSUME IInv, TInv, [Next]_vars PROVE TInv'
  OBVIOUS
<1>0. Good(s, written, Text) /\ acks \in Seq(Acks(s.next_seqno)) /\ s.next_seqno \in Nat /\ MaxWindow \in Nat
  BY SpecFacts DEF IInv, Good, Typed
<1>1. CASE \E len \in 1 .. Len(Text) : Write(len)
  <2>1. PICK len \in 1 .. Len(Text) : Write(len)
    BY <1>1
  <2> DEFINE data == SubSeq(Text, written + 1, written + len)
             stream == StreamWrite(s.stream, data)
  <2>2. /\ s' = [s EXCEPT !.stream = stream] /\ UNCHANGED <<peer_pos, peer_edge>>
        /\ written + len <= Len(Text) /\ ~s.stream.isInputEnded
    BY <2>1 DEF Write
  <2>3. len \in Nat
    BY SpecFacts, SMTT(30)
  <2> HIDE DEF stream
  <2>4. s'.stream = stream
    BY <2>2, RecordKept DEF TInv
  <2>5. stream.capacity = s.stream.capacity /\ stream.error = s.stream.error
    <3>1. s.stream \in Streams(Text)
      BY <1>0 DEF Good, Typed
    <3> HIDE DEF data
    <3> QED BY <3>1 DEF stream, StreamWrite, Streams
  <2> QED BY <2>2, <2>4, <2>5, StreamTInv
<1>2. CASE End
  <2> DEFINE stream == EndInput(s.stream)
  <2>1. s' = [s EXCEPT !.stream = stream] /\ UNCHANGED <<peer_pos, peer_edge>>
    BY <1>2 DEF End
  <2>2. s.stream \in Streams(Text)
    BY <1>0 DEF Good, Typed
  <2>3. stream.capacity = s.stream.capacity /\ stream.error = s.stream.error
    BY <2>2 DEF EndInput, Streams
  <2> HIDE DEF stream
  <2> QED BY <2>1, <2>3, StreamTInv
<1>3. CASE Fill
  BY <1>0, <1>3, SenderTInv DEF Fill
<1>4. CASE SendEmpty
  BY <1>0, <1>4, SenderTInv DEF SendEmpty
<1>5. CASE \E ms \in 1 .. InitialRTO : Tick(ms)
  <2>1. PICK ms \in 1 .. InitialRTO : Tick(ms)
    BY <1>5
  <2>2. ms \in Nat
    BY SenderAssumption, SMTT(30)
  <2> QED BY <1>0, <2>1, <2>2, SenderTInv DEF Tick
<1>6. CASE \E pos \in Position, edge \in 1 .. (Len(Text) + 2 + MaxWindow) : PeerAcks(pos, edge)
  <2>1. PICK pos \in Position, edge \in 1 .. (Len(Text) + 2 + MaxWindow) : PeerAcks(pos, edge)
    BY <1>6
  <2>2. edge \in Nat
    BY SpecFacts, SMTT(30)
  <2> QED BY <2>1, <2>2 DEF PeerAcks, TInv
<1>7. CASE \E i \in 1 .. Len(acks) : AckArrives(i) \/ AckLost(i)
  <2>1. PICK i \in 1 .. Len(acks) : AckArrives(i) \/ AckLost(i)
    BY <1>7
  <2>2. CASE AckLost(i)
    BY <2>2 DEF AckLost, TInv
  <2>3. CASE AckArrives(i)
    <3> DEFINE ack == acks[i]
    <3>1. ack \in Acks(s.next_seqno)
      BY <1>0, SMTT(30)
    <3>2. ack.pos \in Nat /\ ack.win \in Nat
      BY <1>0, <3>1, SMTT(30) DEF Acks
    <3>3. Hear(ack)
      BY <2>3 DEF AckArrives
    <3> HIDE DEF ack
    <3> QED BY <1>0, <3>2, <3>3, SenderTInv DEF Hear
  <2> QED BY <2>1, <2>2, <2>3
<1>8. CASE \E ahead \in 1 .. 2, win \in 0 .. MaxWindow :
             StrayAck([pos |-> s.next_seqno + ahead, win |-> win])
  <2>1. PICK ahead \in 1 .. 2, win \in 0 .. MaxWindow :
               StrayAck([pos |-> s.next_seqno + ahead, win |-> win])
    BY <1>8
  <2> DEFINE ack == [pos |-> s.next_seqno + ahead, win |-> win]
  <2>2. ack.pos \in Nat /\ ack.win \in Nat
    BY <1>0, SMTT(30)
  <2>3. Hear(ack)
    BY <2>1 DEF StrayAck
  <2> HIDE DEF ack
  <2> QED BY <1>0, <2>2, <2>3, SenderTInv DEF Hear
<1>9. CASE UNCHANGED vars
  BY <1>9 DEF vars, TInv
<1> QED BY <1>1, <1>2, <1>3, <1>4, <1>5, <1>6, <1>7, <1>8, <1>9 DEF Next

\* The timer is always right.
LEMMA TimerInvariant == Spec => []TInv
  BY InitTInv, NextTInv, SenderInvariant, PTL DEF Spec

\* While anything is in flight the timer runs, with the initial timeout doubled
\* once per consecutive retransmission, whatever acknowledgments come when
\* (tick(), ack_received(), _send_segment()).
THEOREM TimerRuns == Spec => []TimerArmed
<1>1. TInv => TimerArmed
  BY DEF TInv, Timed, TimerArmed
<1> QED BY <1>1, TimerInvariant, PTL

\* The sender has its type.
LEMMA SenderTyped == IInv /\ TInv => TypeOK
<1> SUFFICES ASSUME IInv, TInv PROVE TypeOK
  OBVIOUS
<1>1. Good(s, written, Text) /\ Typed(s, Text) /\ Queued(s, written, Text)
  BY DEF IInv, Good
<1>2. Byte = BytesOf(Text) /\ Segment = Unstamped(Text)
  BY DEF Byte, BytesOf, Segment, Unstamped
<1> DEFINE Out == [capacity : {Capacity}, buffer : Seq(Byte), bytesWritten : WrappingInt,
                   bytesRead : WrappingInt, isInputEnded : BOOLEAN, error : {FALSE}]
<1>3. s.stream \in Out
  <2>1. s.stream \in Streams(Text) /\ s.stream.capacity = Capacity /\ s.stream.error = FALSE
    BY <1>1 DEF Typed, TInv
  <2> QED BY <1>2, <2>1 DEF Streams
<1>4. s.next_seqno \in Position /\ s.checkpoint \in Position /\ s.bytes_in_flight \in Position
  <2>1. s.next_seqno \in 0 .. (Len(Text) + 2) /\ s.checkpoint \in 0 .. s.next_seqno
    BY <1>1, NextBounded
  <2>2. s.bytes_in_flight \in Nat /\ s.bytes_in_flight <= s.next_seqno
    BY <1>1, FlightCount
  <2> QED BY <2>1, <2>2, SpecFacts, SMTT(30) DEF Position
<1>5. s.in_flight \subseteq [abs_seqno : Position, seg : Segment]
  <2> SUFFICES ASSUME NEW e \in s.in_flight PROVE e \in [abs_seqno : Position, seg : Segment]
    OBVIOUS
  <2>1. InPlace(e, s.isn, Text) /\ EndOf(e) <= s.next_seqno
    BY <1>1 DEF Good, Makes
  <2>2. e \in [abs_seqno : Nat, seg : Segment] /\ e.abs_seqno < EndOf(e)
    BY <1>2, <2>1 DEF InPlace
  <2>3. EndOf(e) \in Nat /\ e.abs_seqno \in Nat
    BY <2>1, EndOfType
  <2>4. e.abs_seqno \in Position
    BY <1>4, <2>1, <2>2, <2>3, SpecFacts, SMTT(30) DEF Position
  <2> QED BY <2>2, <2>4
<1>6. s.rwnd \in 0 .. Maximum(1, MaxWindow)
  <2>1. s.rwnd \in Nat /\ s.rwnd <= Maximum(1, MaxWindow) /\ Maximum(1, MaxWindow) \in Nat
    BY SpecFacts, SMTT(30) DEF IInv, Good, Typed, Maximum
  <2> QED BY <2>1, SMTT(30)
<1>7. /\ s.isn \in WrappingInt /\ s.syn \in BOOLEAN /\ s.fin \in BOOLEAN
      /\ s = [f \in Fields |-> s[f]] /\ s.segments_out \in {<<>>}
      /\ s.is_timer_running \in BOOLEAN /\ s.time_spent \in Nat /\ s.n_consecutive \in Nat /\ s.rto \in Nat
  BY <1>1 DEF Typed, TInv, Timed
<1> HIDE DEF Out
<1>8. s \in [isn : WrappingInt, segments_out : {<<>>}, stream : Out,
             next_seqno : Position, in_flight : SUBSET [abs_seqno : Position, seg : Segment],
             syn : BOOLEAN, fin : BOOLEAN, is_timer_running : BOOLEAN, time_spent : Nat,
             rwnd : 0 .. Maximum(1, MaxWindow), bytes_in_flight : Position,
             checkpoint : Position, n_consecutive : Nat, rto : Nat]
  BY <1>3, <1>4, <1>5, <1>6, <1>7 DEF Fields
<1>9. acks \in Seq([pos : Nat, win : 0 .. MaxWindow])
  <2>1. acks \in Seq(Acks(s.next_seqno)) /\ s.next_seqno \in Nat
    BY <1>1 DEF IInv, Typed
  <2>2. Acks(s.next_seqno) \subseteq [pos : Nat, win : 0 .. MaxWindow]
    BY <2>1, SMTT(30) DEF Acks
  <2>3. ASSUME NEW T, NEW U, T \subseteq U, NEW q \in Seq(T) PROVE q \in Seq(U)
    BY <2>3, SMTT(30)
  <2> QED BY <2>1, <2>2, <2>3
<1>10. written \in 0 .. Len(Text)
  BY <1>1 DEF Queued
<1> QED BY <1>8, <1>9, <1>10 DEF TypeOK, IInv, TInv, Out

\* Whatever is sent and not acknowledged is kept for retransmission, each
\* segment in its place, and counted, although acknowledgments may be late,
\* repeated, cut through a segment or name what was never sent
\* (ack_received()); in particular no unsigned count wraps around.
THEOREM KeepsOutstanding == Spec => []FlightIsOutstanding
<1>1. IInv => NothingUntracked /\ InFlightInPlace /\ FlightCounted
  <2> SUFFICES ASSUME IInv PROVE NothingUntracked /\ InFlightInPlace /\ FlightCounted
    OBVIOUS
  <2>1. Makes(s.in_flight, s.isn, s.checkpoint, s.next_seqno, Text)
    BY DEF IInv, Good
  <2>2. NothingUntracked
    BY <2>1 DEF Makes, NothingUntracked
  <2>3. InFlightInPlace
    BY <2>1, SMTT(30) DEF Makes, InPlace, InFlightInPlace
  <2>4. FlightCounted
    BY DEF IInv, Good, Counted, FlightCounted
  <2> QED BY <2>2, <2>3, <2>4
<1>2. IInv /\ TInv => FlightIsOutstanding
  BY <1>1, SenderTyped DEF FlightIsOutstanding
<1> QED BY <1>2, SenderInvariant, TimerInvariant, PTL

\* While acknowledgments come in order nothing is sent beyond the window the
\* sender has been told of (fill_window(), ack_received()).
THEOREM KeepsToWindow == Spec => []WindowRespected
<1>1. IInv => WindowRespected
  BY SMTT(30) DEF IInv, Within, WindowRespected
<1> QED BY <1>1, SenderInvariant, PTL
=============================================================================
