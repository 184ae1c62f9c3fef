--------------------------- MODULE NetworkProofs ----------------------------
(***************************************************************************)
(* Proofs about TCPNetwork: two TCPConnections and the network between     *)
(* them, for all texts that are shorter than half the range of sequence    *)
(* numbers, all capacities, and any number of faults.                      *)
(*                                                                         *)
(* The inductive invariant says of each connection, its peer and what is   *)
(* under way between them what NetworkLemmas shows its methods to keep.    *)
(***************************************************************************)
EXTENDS NetworkLemmas

USE ZenonT(40)

\* The flags and the count of the outbound stream.
Streamed(v, stream) ==
  /\ v.sender.stream.error = stream.error /\ v.sender.stream.isInputEnded = stream.isInputEnded
  /\ v.sender.stream.bytesWritten = stream.bytesWritten

WithStream(c, stream) == [c EXCEPT !.sender.stream = stream]

\* u is the sender of c with that stream, which is no more broken.
Restreams(e, c, stream, u) ==
  /\ u = [c.sender EXCEPT !.stream = stream] /\ u.stream = stream
  /\ Sends(u, e) /\ Keeps(u, c.sender) /\ stream.error = c.sender.stream.error

\* _send_segments() after a change of the outbound stream.
LEMMA Restreamed ==
  ASSUME NEW e \in Ends, NEW c, NEW base, NEW d, NEW p, NEW qp, NEW dp, NEW OV,
         Whole(e, c, base, d, p, qp, dp, OV), Ready(c), NEW stream, NEW u,
         Restreams(e, c, stream, u), NEW v, v = SendSegmentsOut(WithStream(c, stream), FALSE)
  PROVE  Whole(e, v, base, d, p, qp, dp, OV) /\ Settled(v) /\ Streamed(v, stream)
  <1> DEFINE a == [c EXCEPT !.sender = u]
  <1>1. DOMAIN c = ConnectionFields
    BY DEF Ready, Marks
  <1>2. v = SendSegmentsOut(a, FALSE)
    BY DEF WithStream, Restreams
  <1> SenderOnly(c, a) /\ a.sender = u
    BY <1>1, OtherSender
  <1> HIDE DEF a
  <1>4. SameNumbers(c.sender, a.sender)
    BY DEF Keeps, SameNumbers, Restreams
  <1>5. Whole(e, a, base, d, p, qp, dp, OV)
    BY <1>4, SwappedSender DEF Restreams
  <1>6. Ready(a) /\ FALSE \in BOOLEAN
    BY DEF Ready, Marks, SenderOnly, Broken, Restreams
  <1>7. Whole(e, v, base, d, p, qp, dp, OV) /\ Settled(v) /\ LeavesAlone(a, v)
    BY <1>2, <1>5, <1>6, SentOut
  <1>8. Streamed(v, stream)
    BY <1>7 DEF Streamed, LeavesAlone, Restreams
  <1> QED BY <1>7, <1>8

\* write() of nothing.
LEMMA NothingWritten ==
  ASSUME NEW T, NEW s \in Streams(T), Len(s.buffer) <= s.capacity
  PROVE  StreamWrite(s, <<>>).bytesWritten = s.bytesWritten
  <1> /\ s.capacity \in Nat /\ s.buffer \in Seq(BytesOf(T)) /\ s.bytesWritten \in WrappingInt
      /\ "bytesWritten" \in DOMAIN s
    BY SMTT(30) DEF Streams
  <1>2. Minimum(Len(<<>>), RemainingCapacity(s)) = 0
    BY SMTT(30) DEF Minimum, RemainingCapacity
  <1>3. StreamWrite(s, <<>>).bytesWritten = (s.bytesWritten + 0) % Modulus
    BY <1>2, SMTT(30) DEF StreamWrite
  <1>4. (s.bytesWritten + 0) % Modulus = s.bytesWritten
    BY Ranges, SMTT(30) DEF WrappingInt
  <1> QED BY <1>3, <1>4

\* data is what comes after w bytes of the text of e.
ComesNext(e, w, data) ==
  \E len \in Nat : w + len <= Len(Text[e]) /\ data = SubSeq(Text[e], w + 1, w + len)

\* write() of the next bytes of the text.
Wrote(v, w, data) ==
  ~v.sender.stream.isInputEnded /\ (data = <<>> => v.sender.stream.bytesWritten = w)

\* write() of the next bytes of the text keeps what is known of the two ends.
LEMMA WriteDoes ==
  ASSUME NEW e \in Ends, NEW c, NEW base, NEW d, NEW p, NEW qp, NEW dp, NEW OV,
         Whole(e, c, base, d, p, qp, dp, OV), Settled(c), c.active, ~c.sender.stream.isInputEnded,
         NEW data, ComesNext(e, c.sender.stream.bytesWritten, data),
         NEW v, v = ConnectionWrite(c, data)
  PROVE  /\ Whole(e, v, base, d, p, qp, dp, OV) /\ Settled(v)
         /\ Wrote(v, c.sender.stream.bytesWritten, data)
  <1> DEFINE t == c.sender
             w == t.stream.bytesWritten
             stream == StreamWrite(t.stream, data)
             u == [t EXCEPT !.stream = stream]
             n == w + Len(u.stream.buffer) - Len(t.stream.buffer)
  <1>1. v = SendSegmentsOut(WithStream(c, stream), FALSE)
    BY DEF ConnectionWrite, WithStream
  <1>2. Sends(t, e)
    BY Halves
  <1> Good(t, w, Text[e]) /\ t.isn = ISN[e]
    BY <1>2 DEF Sends
  <1> /\ Good(u, n, Text[e]) /\ Keeps(u, t)
      /\ u.stream.error = t.stream.error /\ u.stream.isInputEnded = t.stream.isInputEnded
    <2>0. PICK len \in Nat : w + len <= Len(Text[e]) /\ data = SubSeq(Text[e], w + 1, w + len)
      BY DEF ComesNext
    <2>1. u = [t EXCEPT !.stream = StreamWrite(t.stream, SubSeq(Text[e], w + 1, w + len))]
      BY <2>0
    <2>2. ~t.stream.isInputEnded /\ w + len <= Len(Text[e])
      BY <2>0
    <2> HIDE DEF u, t, w
    <2>3. Good(u, n, Text[e]) /\ Keeps(u, t) /\ SameFlags(u, t)
      BY <2>1, <2>2, WrittenGood
    <2> QED BY <2>3 DEF SameFlags
  <1>5. u.stream = stream
    <2>1. DOMAIN t = Fields
      BY DEF Good, Typed
    <2> QED BY <2>1 DEF Fields
  <1>6. Sends(u, e)
    <2>1. u.isn = ISN[e]
      BY DEF Keeps
    <2> HIDE DEF n, u
    <2> QED BY <2>1, WrittenCount
  <1>7. data = <<>> => stream.bytesWritten = w
    <2>1. t.stream \in Streams(Text[e]) /\ Len(t.stream.buffer) <= t.stream.capacity
      BY DEF Good, Typed, Queued
    <2>2. StreamWrite(t.stream, <<>>).bytesWritten = t.stream.bytesWritten
      BY <2>1, NothingWritten
    <2> QED BY <2>2
  <1>8. Ready(c) /\ Restreams(e, c, stream, u)
    BY <1>5, <1>6 DEF Ready, Settled, Restreams
  <1>9. stream.isInputEnded = t.stream.isInputEnded
    BY <1>5
  <1> HIDE DEF stream, u
  <1>10. Whole(e, v, base, d, p, qp, dp, OV) /\ Settled(v) /\ Streamed(v, stream)
    BY <1>1, <1>8, Restreamed
  <1> QED BY <1>7, <1>9, <1>10 DEF Streamed, Wrote

\* end_input_stream() after the whole text.
LEMMA EndDoes ==
  ASSUME NEW e \in Ends, NEW c, NEW base, NEW d, NEW p, NEW qp, NEW dp, NEW OV,
         Whole(e, c, base, d, p, qp, dp, OV), Ready(c),
         c.sender.stream.bytesWritten = Len(Text[e]), NEW v, v = EndInputStream(c)
  PROVE  Whole(e, v, base, d, p, qp, dp, OV) /\ Settled(v)
  <1> DEFINE t == c.sender
             w == t.stream.bytesWritten
             stream == EndInput(t.stream)
             u == [t EXCEPT !.stream = stream]
  <1>1. v = SendSegmentsOut(WithStream(c, stream), FALSE)
    BY DEF EndInputStream, WithStream
  <1>2. Sends(t, e)
    BY Halves
  <1> Good(t, w, Text[e]) /\ t.isn = ISN[e]
    BY <1>2 DEF Sends
  <1>4. stream = SetError(t.stream) \/ (stream = EndInput(t.stream) /\ w = Len(Text[e]))
    OBVIOUS
  <1>5. stream.error = t.stream.error
    <2>1. t.stream \in Streams(Text[e])
      BY DEF Good, Typed
    <2> QED BY <2>1 DEF Streams, EndInput
  <1>6. u = [t EXCEPT !.stream = stream]
    BY SMT
  <1> HIDE DEF stream, u
  <1> Good(u, w, Text[e]) /\ Keeps(u, t) /\ u.stream = stream
    <2> HIDE DEF w, t
    <2> QED BY <1>4, <1>6, MarkedGood, SMTT(30)
  <1>8. Sends(u, e)
    <2>1. u.isn = ISN[e]
      BY DEF Keeps
    <2> HIDE DEF w
    <2> QED BY <2>1, WrittenCount
  <1>9. Restreams(e, c, stream, u)
    BY <1>5, <1>6, <1>8 DEF Restreams
  <1> QED BY <1>1, <1>9, Restreamed

\* tick().
LEMMA TickDoes ==
  ASSUME NEW e \in Ends, NEW c, NEW base, NEW d, NEW p, NEW qp, NEW dp, NEW OV,
         Whole(e, c, base, d, p, qp, dp, OV), Settled(c), c.active, NEW ms, NEW v, v = ConnectionTick(c, ms)
  PROVE  Whole(e, v, base, d, p, qp, dp, OV) /\ Settled(v)
  <1> DEFINE t == c.sender
             u == SenderTick(t, ms)
             time == Minimum(c.time_since + ms, LingerFactor * InitialRTO)
             a == [c EXCEPT !.sender = u]
             b == [a EXCEPT !.time_since = time]
             s == IF b.sender.n_consecutive > MaxRetxAttempts THEN UncleanShutdown(b) ELSE b
  <1>1. DOMAIN c = ConnectionFields
    BY DEF Settled, Marks
  <1>2. [c EXCEPT !.sender = u, !.time_since = time] = b
    BY <1>1, SMTT(30) DEF ConnectionFields
  <1>3. v = IF s.sent_SYN THEN SendSegmentsOut(s, FALSE) ELSE s
    BY <1>2 DEF ConnectionTick
  <1> HIDE DEF u, time
  <1>4. SenderOnly(c, a) /\ a.sender = u
    BY <1>1, OtherSender
  <1> HIDE DEF a
  <1>5. SenderOnly(a, b) /\ b.sender = a.sender
    <2>1. DOMAIN a = ConnectionFields
      BY <1>4 DEF SenderOnly
    <2> QED BY <2>1, Timing
  <1> HIDE DEF b
  <1>6. SenderOnly(c, b) /\ b.sender = u
    BY <1>4, <1>5 DEF SenderOnly
  <1>7. Sends(u, e) /\ SameNumbers(t, u) /\ u.stream = t.stream /\ u.bytes_in_flight = t.bytes_in_flight
    <2>1. Sends(t, e)
      BY Halves
    <2> QED BY <2>1, SendsAlike DEF u
  <1>8. Whole(e, b, base, d, p, qp, dp, OV)
    BY <1>6, <1>7, SwappedSender
  <1>9. Settled(b) /\ Marks(b) /\ b.active
    BY <1>6, <1>7 DEF Settled, Marks, SenderOnly, Broken, StreamsFinished, StreamOut, SameNumbers
  <1>10. Whole(e, s, base, d, p, qp, dp, OV) /\ Settled(s) /\ Ready(s) /\ FALSE \in BOOLEAN
    <2>1. CASE b.sender.n_consecutive > MaxRetxAttempts
      <3>1. s = UncleanShutdown(b)
        BY <2>1
      <3> HIDE DEF s
      <3>2. Whole(e, s, base, d, p, qp, dp, OV) /\ Settled(s) /\ Broken(s)
        BY <1>8, <1>9, <3>1, UncleanDoes
      <3> QED BY <3>2 DEF Ready, Settled
    <2>2. CASE ~(b.sender.n_consecutive > MaxRetxAttempts)
      <3>1. s = b
        BY <2>2
      <3> QED BY <1>8, <1>9, <3>1 DEF Ready
    <2> QED BY <2>1, <2>2
  <1> HIDE DEF s
  <1> QED BY <1>3, <1>10, SentOut
-----------------------------------------------------------------------------
\* Every connection is settled and goes with what is under way.
IInv ==
  /\ DOMAIN conn = Ends /\ DOMAIN net = Ends /\ DOMAIN delivered = Ends
  /\ \A e \in Ends :
       LET o == Other(e)
       IN  /\ Settled(conn[e])
           /\ Whole(e, conn[e], net[e], delivered[e],
                    conn[o], net[o] \o conn[o].segments_out, delivered[o], overtaken)

\* There are two ends.
LEMMA TwoEnds ==
  ASSUME NEW e \in Ends, NEW f \in Ends, f # e
  PROVE  f = Other(e) /\ e = Other(f)
  <1>1. PICK a, b \in Ends : a # b /\ Ends = {a, b}
    BY NetworkAssumption
  <1>2. Other(e) \in Ends /\ Other(e) # e /\ Other(f) \in Ends /\ Other(f) # f
    BY EndFacts
  <1> QED BY <1>1, <1>2, SMTT(30)

\* What is known of the two ends.
LEMMA Known ==
  ASSUME IInv, NEW e \in Ends, NEW o, o = Other(e)
  PROVE  /\ o \in Ends /\ o # e /\ Other(o) = e
         /\ DOMAIN conn = Ends /\ DOMAIN net = Ends /\ DOMAIN delivered = Ends
         /\ Settled(conn[e])
         /\ Whole(e, conn[e], net[e], delivered[e],
                  conn[o], net[o] \o conn[o].segments_out, delivered[o], overtaken)
         /\ net[o] \in Seq(Segments(Text[o])) /\ conn[o].segments_out \in Seq(Segments(Text[o]))
  <1>1. o \in Ends /\ o # e /\ Other(o) = e
    BY EndFacts
  <1>2. Whole(o, conn[o], net[o], delivered[o],
              conn[e], net[e] \o conn[e].segments_out, delivered[e], overtaken)
    BY <1>1 DEF IInv
  <1> QED BY <1>1, <1>2 DEF IInv, Whole

\* A step of e keeps the invariant if what e has goes with what is under way.
LEMMA Stepped ==
  ASSUME IInv, NEW e \in Ends, NEW o, o = Other(e),
         DOMAIN conn' = Ends, DOMAIN net' = Ends, DOMAIN delivered' = Ends,
         conn'[o] = conn[o], delivered'[o] = delivered[o], net'[o] \in Seq(Segments(Text[o])),
         Settled(conn'[e]),
         Whole(e, conn'[e], net'[e], delivered'[e],
               conn[o], net'[o] \o conn[o].segments_out, delivered[o], overtaken')
  PROVE  IInv'
  <1> /\ o \in Ends /\ o # e /\ Other(o) = e /\ Settled(conn[o])
      /\ conn[o].segments_out \in Seq(Segments(Text[o]))
    BY Known DEF IInv
  <1> DEFINE q == net'[e] \o conn'[e].segments_out
             qp == net'[o] \o conn[o].segments_out
  <1>2. World(e, conn'[e], q, delivered'[e], conn[o], qp, delivered[o], overtaken')
    BY DEF Whole
  <1>3. World(o, conn[o], qp, delivered[o], conn'[e], q, delivered'[e], overtaken')
    <2> HIDE DEF q, qp
    <2> QED BY <1>2, WorldSymmetric
  <1>4. Whole(o, conn'[o], net'[o], delivered'[o],
              conn'[e], net'[e] \o conn'[e].segments_out, delivered'[e], overtaken')
    BY <1>3 DEF Whole
  <1>5. ASSUME NEW f \in Ends
        PROVE  /\ Settled(conn'[f])
               /\ Whole(f, conn'[f], net'[f], delivered'[f], conn'[Other(f)],
                        net'[Other(f)] \o conn'[Other(f)].segments_out, delivered'[Other(f)], overtaken')
    <2>1. CASE f = e
      BY <2>1
    <2>2. CASE f # e
      <3>1. f = o /\ Other(f) = e
        BY <2>2, TwoEnds
      <3> QED BY <1>4, <3>1
    <2> QED BY <2>1, <2>2
  <1> QED BY <1>5 DEF IInv

\* Rule 4 after a change of the connection of e.
LEMMA UpdateIInv ==
  ASSUME IInv, NEW e \in Ends, NEW o, o = Other(e), NEW c, NEW under_way,
         DOMAIN under_way = Ends, under_way[o] \in Seq(Segments(Text[o])),
         Settled(c), Whole(e, c, under_way[e], delivered[e],
                           conn[o], under_way[o] \o conn[o].segments_out, delivered[o], overtaken'),
         Update(e, c, under_way), delivered' = delivered
  PROVE  IInv'
  <1> DEFINE u == [c EXCEPT !.segments_out = <<>>]
             S == Seq(Segments(Text[e]))
             more == under_way[e] \o c.segments_out
             qp == under_way[o] \o conn[o].segments_out
  <1>1. conn' = [conn EXCEPT ![e] = u] /\ net' = [under_way EXCEPT ![e] = more]
    BY DEF Update
  <1>2. o \in Ends /\ o # e /\ DOMAIN conn = Ends /\ DOMAIN delivered = Ends
    BY Known
  <1>3. DOMAIN c = ConnectionFields
    BY DEF Settled, Marks
  <1> /\ u.sender = c.sender /\ u.receiver = c.receiver /\ u.linger = c.linger
      /\ u.segments_out = <<>> /\ u.active = c.active /\ u.sent_SYN = c.sent_SYN
      /\ DOMAIN u = ConnectionFields
    BY <1>3, SMT DEF ConnectionFields
  <1> HIDE DEF u
  <1>5. Settled(u)
    BY DEF Settled, Marks, Broken, StreamsFinished, StreamOut
  <1>6. /\ under_way[e] \in S /\ c.segments_out \in S
        /\ World(e, c, more, delivered[e], conn[o], qp, delivered[o], overtaken')
    BY DEF Whole
  <1>7. more \in S /\ more \o <<>> = more /\ <<>> \in S
    BY <1>6, SMTT(30)
  <1> HIDE DEF more, qp
  <1>8. World(e, u, more, delivered[e], conn[o], qp, delivered[o], overtaken')
    BY <1>6, WorldLinger
  <1>9. Whole(e, u, more, delivered[e], conn[o], qp, delivered[o], overtaken')
    BY <1>7, <1>8 DEF Whole
  <1>10. /\ conn'[e] = u /\ conn'[o] = conn[o] /\ net'[e] = more /\ net'[o] = under_way[o]
         /\ DOMAIN conn' = Ends /\ DOMAIN net' = Ends
    BY <1>1, <1>2
  <1>11. Whole(e, conn'[e], net'[e], delivered'[e],
               conn[o], net'[o] \o conn[o].segments_out, delivered[o], overtaken')
    BY <1>9, <1>10 DEF qp
  <1> QED BY <1>2, <1>5, <1>10, <1>11, Stepped

\* The connections when they are new.
LEMMA NewLink ==
  ASSUME NEW e \in Ends, NEW t, t = SenderNew(SendCapacity, ISN[e]), NEW x, x = ReceiverNew(RecvCapacity)
  PROVE  Link(e, t, <<>>, x, <<>>, <<>>) /\ LastThere(x, Text[e])
  <1> DEFINE T == Text[e]
  <1>1. /\ IsText(T) /\ Short(T, BytesOf(T), RecvCapacity) /\ ISN[e] \in WrappingInt
        /\ RecvCapacity \in Nat /\ SendCapacity \in Nat
    BY EndFacts
  <1> /\ Good(t, 0, T) /\ t.isn = ISN[e] /\ t.next_seqno = 0 /\ t.rwnd = 1 /\ t.checkpoint = 0
    <2> HIDE DEF T
    <2>1. Good(t, 0, T)
      BY <1>1, NewGood
    <2>2. t.isn = ISN[e] /\ t.next_seqno = 0 /\ t.rwnd = 1 /\ t.checkpoint = 0
      BY DEF SenderNew
    <2> QED BY <2>1, <2>2
  <1> /\ Gets(x, ISN[e], T, BytesOf(T), RecvCapacity, 0, <<>>) /\ Got(x) = 0 /\ LastThere(x, T)
      /\ ~x.recievedSYN
    BY <1>1, NewGets, SMTT(30)
  <1>4. Sends(t, e)
    BY WrittenCount
  <1>5. WindowSize(x) \in Nat
    BY WindowOf, SMTT(30)
  <1>6. Acked(ISN[e], t, x, <<>>)
    <2>1. /\ t.checkpoint <= TakenTo(x) /\ t.next_seqno <= t.checkpoint + Maximum(1, t.rwnd)
          /\ NoLater(t.checkpoint, t.rwnd, 1 + Got(x), WindowSize(x))
      BY <1>5, SMTT(30) DEF TakenTo, NoLater, Maximum
    <2>2. \A i : ~(i \in 1 .. Len(<<>>))
      BY SMTT(30)
    <2> QED BY <2>1, <2>2 DEF Acked, Chain
  <1>7. <<>> \in Seq(Said(ISN[e], T, t.next_seqno))
    BY SMT
  <1> QED BY <1>4, <1>6, <1>7 DEF Link

\* What is known of the two ends holds of two new connections.
LEMMA NewWhole ==
  ASSUME NEW e \in Ends, NEW o, o = Other(e),
         NEW c, c = ConnectionNew(RecvCapacity, SendCapacity, ISN[e]),
         NEW p, p = ConnectionNew(RecvCapacity, SendCapacity, ISN[o])
  PROVE  Settled(c) /\ Whole(e, c, <<>>, <<>>, p, <<>> \o p.segments_out, <<>>, {})
  <1> DEFINE t(f) == SenderNew(SendCapacity, ISN[f])
             x == ReceiverNew(RecvCapacity)
             new(f) == [receiver |-> x, sender |-> t(f), segments_out |-> <<>>, linger |-> TRUE,
                        time_since |-> 0, active |-> TRUE, sent_SYN |-> FALSE]
  <1>1. o \in Ends /\ Other(o) = e /\ IsText(Text[e]) /\ ISN[e] \in WrappingInt /\ SendCapacity \in Nat
    BY EndFacts
  <1>2. c = new(e) /\ p = new(o)
    BY DEF ConnectionNew
  <1>3. /\ Link(e, t(e), <<>>, x, <<>>, <<>>) /\ LastThere(x, Text[e])
        /\ Link(o, t(o), <<>>, x, <<>>, <<>>) /\ LastThere(x, Text[o])
    BY <1>1, NewLink
  <1>4. /\ t(e).stream.error = FALSE /\ x.reassembler.output.error = FALSE
        /\ ~x.reassembler.output.isInputEnded
    <2>1. t(e).stream = StreamNew(SendCapacity)
      BY DEF SenderNew
    <2>2. StreamNew(SendCapacity).error = FALSE
      BY DEF StreamNew
    <2>3. x.reassembler.output.error = FALSE /\ ~x.reassembler.output.isInputEnded
      BY DEF ReceiverNew, ReassemblerNew, StreamNew
    <2> QED BY <2>1, <2>2, <2>3
  <1> HIDE DEF t, x
  <1> /\ DOMAIN c = ConnectionFields /\ c.receiver = x /\ c.sender = t(e) /\ c.segments_out = <<>>
      /\ c.linger = TRUE /\ c.active = TRUE /\ c.sent_SYN = FALSE
      /\ p.receiver = x /\ p.sender = t(o) /\ p.segments_out = <<>> /\ p.linger = TRUE
    BY <1>2, SMTT(30) DEF ConnectionFields
  <1>6. Settled(c)
    BY <1>4 DEF Settled, Marks, Broken
  <1>7. World(e, c, <<>>, <<>>, p, <<>>, <<>>, {})
    BY <1>1, <1>3 DEF World, Side, Quits
  <1>8. <<>> \in Seq(Segments(Text[e])) /\ <<>> \o <<>> = <<>>
    BY SMTT(30)
  <1>9. Whole(e, c, <<>>, <<>>, p, <<>> \o p.segments_out, <<>>, {})
    BY <1>7, <1>8 DEF Whole
  <1> QED BY <1>6, <1>9

\* The initial state satisfies the invariant.
LEMMA InitIInv ==
  Init => IInv
  <1> SUFFICES ASSUME Init PROVE IInv
    OBVIOUS
  <1> /\ conn = [e \in Ends |-> ConnectionNew(RecvCapacity, SendCapacity, ISN[e])]
      /\ net = [e \in Ends |-> <<>>] /\ delivered = [e \in Ends |-> <<>>] /\ overtaken = {}
    BY DEF Init
  <1>2. DOMAIN conn = Ends /\ DOMAIN net = Ends /\ DOMAIN delivered = Ends
    OBVIOUS
  <1> ASSUME NEW e \in Ends, NEW o, o = Other(e)
      PROVE  /\ Settled(conn[e])
             /\ Whole(e, conn[e], net[e], delivered[e],
                      conn[o], net[o] \o conn[o].segments_out, delivered[o], overtaken)
    <2>1. o \in Ends
      BY EndFacts
    <2>2. /\ conn[e] = ConnectionNew(RecvCapacity, SendCapacity, ISN[e]) /\ net[e] = <<>> /\ delivered[e] = <<>>
          /\ conn[o] = ConnectionNew(RecvCapacity, SendCapacity, ISN[o]) /\ net[o] = <<>> /\ delivered[o] = <<>>
      BY <2>1
    <2>3. /\ Settled(conn[e])
          /\ Whole(e, conn[e], <<>>, <<>>, conn[o], <<>> \o conn[o].segments_out, <<>>, {})
      BY <2>2, NewWhole
    <2> QED BY <2>2, <2>3
  <1> QED BY <1>2 DEF IInv

\* The number of bytes that rule 2 reads.
LEMMA WriteLength ==
  ASSUME NEW e \in Ends, NEW t, Sends(t, e), NEW w, w = t.stream.bytesWritten,
         NEW k \in 1 .. Minimum(Len(Text[e]) - w, RemainingCapacity(t.stream))
  PROVE  k \in Nat /\ w + k <= Len(Text[e])
  <1>1. Good(t, w, Text[e]) /\ t.isn = ISN[e]
    BY DEF Sends
  <1>2. w \in Nat /\ Len(Text[e]) \in Nat
    BY <1>1, WrittenCount, EndFacts
  <1>3. t.stream \in Streams(Text[e])
    BY <1>1 DEF Good, Typed
  <1>4. RemainingCapacity(t.stream) \in Int
    BY <1>3, SMTT(30) DEF RemainingCapacity, Streams
  <1> QED BY <1>2, <1>4, SMTT(30) DEF Minimum

\* connect(), rule 2 and the clock.
LEMMA OwnIInv ==
  ASSUME IInv, NEW e \in Ends, Open(e) \/ Write(e) \/ Shutdown(e) \/ Tick(e)
  PROVE  IInv'
  <1> DEFINE c == conn[e]
             o == Other(e)
             t == c.sender
             w == t.stream.bytesWritten
             p == conn[o]
             qp == net[o] \o p.segments_out
  <1> /\ DOMAIN net = Ends /\ Settled(c) /\ net[o] \in Seq(Segments(Text[o]))
      /\ Whole(e, c, net[e], delivered[e], p, qp, delivered[o], overtaken)
    BY Known
  <1>2. Sends(t, e) /\ Good(t, w, Text[e]) /\ t.isn = ISN[e]
    <2> HIDE DEF p, qp
    <2>1. Sends(t, e)
      BY Halves
    <2> QED BY <2>1 DEF Sends
  <1> ASSUME NEW u, Settled(u), Whole(e, u, net[e], delivered[e], p, qp, delivered[o], overtaken),
             Update(e, u, net), delivered' = delivered, overtaken' = overtaken
      PROVE  IInv'
    <2>1. Whole(e, u, net[e], delivered[e], p, qp, delivered[o], overtaken')
      OBVIOUS
    <2> QED BY <2>1, UpdateIInv
  <1> HIDE DEF c, p, qp, o, w
  <1> ASSUME NEW data, ComesNext(e, w, data), NEW v, v = ConnectionWrite(c, data),
             c.active, ~t.stream.isInputEnded
      PROVE  /\ Whole(e, v, net[e], delivered[e], p, qp, delivered[o], overtaken) /\ Settled(v)
             /\ Wrote(v, w, data)
    <2> QED BY WriteDoes DEF w
  <1>4. CASE Open(e)
    <2>1. Update(e, Connect(c), net) /\ delivered' = delivered /\ overtaken' = overtaken /\ ~c.sent_SYN
      BY <1>4 DEF Open, c
    <2> DEFINE v == SendSegmentsOut(c, FALSE)
    <2>2. Ready(c) /\ FALSE \in BOOLEAN
      BY <2>1 DEF Settled, Marks, Ready
    <2>3. Connect(c) = v
      BY DEF Connect
    <2>4. Whole(e, v, net[e], delivered[e], p, qp, delivered[o], overtaken) /\ Settled(v)
      BY <2>2, SentOut
    <2> QED BY <2>1, <2>3, <2>4
  <1>5. CASE Write(e)
    <2> DEFINE K == 1 .. Minimum(Len(Text[e]) - w, RemainingCapacity(t.stream))
               data(k) == SubSeq(Text[e], w + 1, w + k)
    <2> /\ c.active /\ ~t.stream.isInputEnded /\ delivered' = delivered /\ overtaken' = overtaken
        /\ \E k \in K : Update(e, ConnectionWrite(c, data(k)), net)
      BY <1>5 DEF Write, MayWrite, c, w
    <2>2. PICK k \in K : Update(e, ConnectionWrite(c, data(k)), net)
      OBVIOUS
    <2>3. k \in Nat /\ w + k <= Len(Text[e])
      BY <1>2, WriteLength DEF w
    <2> DEFINE some == data(k)
               v == ConnectionWrite(c, some)
    <2>4. w = c.sender.stream.bytesWritten /\ ComesNext(e, w, some)
      BY <2>3 DEF w, ComesNext
    <2>5. /\ c.active /\ ~c.sender.stream.isInputEnded /\ Update(e, v, net)
      BY <2>2
    <2> HIDE DEF some, data, K
    <2>6. /\ Whole(e, v, net[e], delivered[e], p, qp, delivered[o], overtaken) /\ Settled(v)
          /\ Wrote(v, w, some)
      BY <2>4, <2>5
    <2> QED BY <2>5, <2>6
  <1>6. CASE Shutdown(e)
    <2> DEFINE data == <<>>
               len == 0
               u == ConnectionWrite(c, data)
               v == EndInputStream(u)
    <2> /\ c.active /\ ~t.stream.isInputEnded /\ delivered' = delivered /\ overtaken' = overtaken
        /\ w = Len(Text[e]) /\ Update(e, v, net)
      BY <1>6 DEF Shutdown, MayWrite, c, w
    <2>2. len \in Nat /\ w + len <= Len(Text[e]) /\ data = SubSeq(Text[e], w + 1, w + len)
      <3>1. Len(Text[e]) \in Nat
        BY EndFacts
      <3>2. w \in Nat
        BY <3>1
      <3>3. len \in Nat /\ w + len = w /\ w <= w /\ w \in Int /\ w + 1 \in Int /\ w < w + 1
        BY <3>2, SMTT(30)
      <3>4. SubSeq(Text[e], w + 1, w) = <<>>
        BY <3>3, SMT
      <3> QED BY <3>3, <3>4
    <2>3. data = <<>> /\ w = c.sender.stream.bytesWritten /\ ComesNext(e, w, data)
      BY <2>2 DEF w, ComesNext
    <2> HIDE DEF data, len, u
    <2>4. /\ Whole(e, u, net[e], delivered[e], p, qp, delivered[o], overtaken) /\ Settled(u)
          /\ Wrote(u, w, data)
      BY <2>3 DEF u
    <2>5. Ready(u) /\ u.sender.stream.bytesWritten = Len(Text[e])
      BY <2>3, <2>4 DEF Ready, Settled, StreamsFinished, Marks, Wrote
    <2>6. Whole(e, v, net[e], delivered[e], p, qp, delivered[o], overtaken) /\ Settled(v)
      BY <2>4, <2>5, EndDoes
    <2> QED BY <2>6
  <1>7. CASE Tick(e)
    <2> DEFINE v == ConnectionTick(c, 1)
    <2>1. Update(e, v, net) /\ delivered' = delivered /\ overtaken' = overtaken /\ c.active
      BY <1>7 DEF Tick, c
    <2>2. Whole(e, v, net[e], delivered[e], p, qp, delivered[o], overtaken) /\ Settled(v)
      BY <2>1, TickDoes
    <2> QED BY <2>1, <2>2
  <1> QED BY <1>4, <1>5, <1>6, <1>7

\* The first of what is under way from the peer, and the rest.
Fronts(m, r, q, S) ==
  /\ Tail(m) \in Seq(S) /\ q \in Seq(S) /\ Len(q) \in Nat /\ Len(q) > 0 /\ q # <<>>
  /\ Head(m) = q[1] /\ Tail(q) = Tail(m) \o r

\* The first of the segments under way when some wait to be handed over.
LEMMA FirstOfTwo ==
  ASSUME NEW S, NEW m \in Seq(S), NEW r \in Seq(S), m # <<>>
  PROVE  Fronts(m, r, m \o r, S)
  <1>1. /\ Tail(m) \in Seq(S) /\ m \o r \in Seq(S) /\ Len(m \o r) \in Nat /\ Len(m \o r) > 0 /\ m \o r # <<>>
        /\ Head(m) = (m \o r)[1]
    BY SMTT(30)
  <1>2. Tail(m \o r) = Tail(m) \o r
    BY SMTT(30)
  <1> QED BY <1>1, <1>2 DEF Fronts

\* A segment under way is lost.
LEMMA WholeLess ==
  ASSUME NEW e \in Ends, NEW c, NEW base, NEW d, NEW p, NEW m, NEW qp, NEW dp, NEW OV, NEW S,
         Whole(e, c, base, d, p, qp, dp, OV), Fronts(m, p.segments_out, qp, S)
  PROVE  Whole(e, c, base, d, p, Tail(m) \o p.segments_out, dp, OV)
  <1> DEFINE q == base \o c.segments_out
  <1>1. World(e, c, q, d, p, qp, dp, OV)
    BY DEF Whole
  <1>2. World(e, c, q, d, p, Tail(qp), dp, OV)
    <2> HIDE DEF q
    <2> QED BY <1>1, WorldLess DEF Fronts
  <1>3. Whole(e, c, base, d, p, Tail(qp), dp, OV)
    BY <1>2 DEF Whole
  <1> QED BY <1>3 DEF Fronts

\* What e has assembled.
LEMMA AssembledIs ==
  ASSUME IInv, NEW e \in Ends, NEW o, o = Other(e)
  PROVE  /\ Gets(Receiver(e), ISN[o], Text[o], BytesOf(Text[o]), RecvCapacity, Sender(o).next_seqno, delivered[e])
         /\ Sends(Sender(e), e) /\ Len(Text[o]) \in Nat
         /\ Got(Receiver(e)) \in Nat /\ Got(Receiver(e)) <= Len(Text[o]) /\ Len(Assembled(e)) = Got(Receiver(e))
         /\ Assembled(e) = SubSeq(Text[o], 1, Got(Receiver(e)))
  <1> DEFINE x == Receiver(e)
             T == Text[o]
             a == Got(x)
  <1>1. Whole(e, conn[e], net[e], delivered[e],
              conn[o], net[o] \o conn[o].segments_out, delivered[o], overtaken) /\ o \in Ends
    BY Known
  <1>2. /\ Gets(x, ISN[o], T, BytesOf(T), RecvCapacity, Sender(o).next_seqno, delivered[e])
        /\ Sends(Sender(e), e)
    BY <1>1, Halves DEF Receiver, Sender
  <1>3. T \in Seq(BytesOf(T)) /\ Len(T) \in Nat
    BY <1>1, EndFacts DEF IsText
  <1> a \in Nat /\ a <= Len(T) /\ delivered[e] \o x.reassembler.output.buffer = SubSeq(T, 1, a)
    <2> HIDE DEF x, T
    <2>1. Begins(x, T, delivered[e])
      BY <1>2, GetsBeginning
    <2> QED BY <2>1 DEF Begins
  <1>5. Assembled(e) = SubSeq(T, 1, a)
    BY DEF Assembled, StreamOut, Receiver
  <1>6. Len(SubSeq(T, 1, a)) = a
    <2> HIDE DEF a, T
    <2> QED BY <1>3, SMT
  <1> QED BY <1>2, <1>3, <1>5, <1>6

\* Rule 3.
LEMMA ReadIInv ==
  ASSUME IInv, NEW e \in Ends, Read(e)
  PROVE  IInv'
  <1> DEFINE c == conn[e]
             o == Other(e)
             d == delivered[e]
             x == c.receiver
             stream == x.reassembler.output
             qp == net[o] \o conn[o].segments_out
  <1>1. /\ net' = net /\ overtaken' = overtaken
        /\ \E k \in 1 .. Len(stream.buffer) :
             /\ delivered' = [delivered EXCEPT ![e] = d \o PeekOutput(stream, k)]
             /\ conn' = [conn EXCEPT ![e].receiver.reassembler.output = PopOutput(@, k)]
    BY DEF Read, StreamOut, BufferSize
  <1>2. PICK k \in 1 .. Len(stream.buffer) :
             /\ delivered' = [delivered EXCEPT ![e] = d \o PeekOutput(stream, k)]
             /\ conn' = [conn EXCEPT ![e].receiver.reassembler.output = PopOutput(@, k)]
    BY <1>1
  <1> DEFINE y == WithOutput(x, PopOutput(x.reassembler.output, k))
             u == [c EXCEPT !.receiver = y]
             f == d \o PeekOutput(stream, k)
  <1>3. /\ o \in Ends /\ o # e /\ DOMAIN conn = Ends /\ DOMAIN net = Ends /\ DOMAIN delivered = Ends
        /\ Settled(c) /\ net[o] \in Seq(Segments(Text[o]))
        /\ Whole(e, c, net[e], d, conn[o], qp, delivered[o], overtaken)
    BY Known
  <1>4. conn' = [conn EXCEPT ![e] = u]
    BY <1>2, SMTT(30) DEF WithOutput
  <1> HIDE DEF qp
  <1>5. /\ Gets(x, ISN[o], Text[o], BytesOf(Text[o]), RecvCapacity, conn[o].sender.next_seqno, d)
        /\ Sends(c.sender, e) /\ SameNumbers(c.sender, c.sender)
    BY <1>3, Halves
  <1>6. /\ Gets(y, ISN[o], Text[o], BytesOf(Text[o]), RecvCapacity, conn[o].sender.next_seqno, f)
        /\ SameTaken(x, y) /\ Drains(x, y, k)
    <2> DEFINE n == conn[o].sender.next_seqno
    <2> HIDE DEF x, n, d, o
    <2> QED BY <1>5, BytesTaken
  <1>7. Len(d) <= Len(f)
    <2> DEFINE n == conn[o].sender.next_seqno
    <2> HIDE DEF x, y, n, d, f, o
    <2> QED BY <1>5, <1>6, ReadsMore
  <1> HIDE DEF y, f
  <1>8. DOMAIN c = ConnectionFields
    BY <1>3 DEF Settled, Marks
  <1>9. /\ DOMAIN u = ConnectionFields /\ u.sender = c.sender /\ u.receiver = y
        /\ u.segments_out = c.segments_out /\ u.linger = c.linger /\ u.active = c.active
        /\ u.sent_SYN = c.sent_SYN
    BY <1>8, SMTT(30) DEF ConnectionFields
  <1> HIDE DEF u
  <1>10. Whole(e, u, net[e], f, conn[o], qp, delivered[o], overtaken)
    BY <1>3, <1>5, <1>6, <1>7, <1>9, Swapped
  <1>11. Settled(u)
    BY <1>3, <1>6, <1>9
       DEF Settled, Marks, Broken, StreamsFinished, StreamOut, SameTaken, Drains, Empty
  <1>12. /\ DOMAIN conn' = Ends /\ DOMAIN net' = Ends /\ DOMAIN delivered' = Ends
         /\ conn'[o] = conn[o] /\ delivered'[o] = delivered[o] /\ net'[o] = net[o] /\ net'[e] = net[e]
         /\ conn'[e] = u /\ delivered'[e] = f
    BY <1>1, <1>2, <1>3, <1>4 DEF f
  <1>13. Whole(e, conn'[e], net'[e], delivered'[e],
               conn[o], net'[o] \o conn[o].segments_out, delivered[o], overtaken')
    BY <1>1, <1>10, <1>12 DEF qp
  <1> QED BY <1>3, <1>11, <1>12, <1>13, Stepped

\* Where a FIN does not overtake a byte, it is the next thing to come.
LEMMA OvertakesNot ==
  ASSUME IInv, NEW e \in Ends, NEW o, o = Other(e), net[o] # <<>>, NEW seg, seg = Head(net[o]),
         ~Overtakes(e, seg)
  PROVE  NotOvertaking(Receiver(e), seg, Text[o])
  <1> DEFINE x == Receiver(e)
             n == Sender(o).next_seqno
             qp == net[o] \o conn[o].segments_out
  <1>1. /\ Gets(x, ISN[o], Text[o], BytesOf(Text[o]), RecvCapacity, n, delivered[e])
        /\ Len(Assembled(e)) = Got(x)
    BY AssembledIs
  <1> /\ o \in Ends /\ net[o] \in Seq(Segments(Text[o])) /\ conn[o].segments_out \in Seq(Segments(Text[o]))
      /\ Whole(e, conn[e], net[e], delivered[e], conn[o], qp, delivered[o], overtaken)
    BY Known
  <1>3. seg = qp[1] /\ Len(qp) \in Nat /\ Len(qp) > 0
    <2>1. Fronts(net[o], conn[o].segments_out, qp, Segments(Text[o]))
      BY FirstOfTwo
    <2> HIDE DEF qp
    <2> QED BY <2>1 DEF Fronts
  <1>4. qp \in Seq(Said(ISN[o], Text[o], n)) /\ Sends(Sender(o), o)
    BY DEF Whole, World, Side, Link, Sender
  <1>5. seg \in Said(ISN[o], Text[o], n)
    BY <1>3, <1>4, SMTT(30)
  <1>6. n \in Nat
    BY <1>4, SendsNumbers DEF SenderNumbers
  <1>7. PICK p \in Nat : LiesAt(seg, p, ISN[o], Text[o], n)
    BY <1>5, <1>6, SaidIs
  <1> ASSUME seg.fin, seg.payload = <<>>, x.recievedSYN PROVE Got(x) = Len(Text[o])
    <2>1. ~(Minus(seg.seqno, Wrap(Got(x) + 1, ISN[o])) > 0)
      BY <1>1 DEF Overtakes, HasAckno, Receiver
    <2> HIDE DEF x, n
    <2> QED BY <1>1, <1>7, <2>1, FinInOrder
  <1> QED BY DEF NotOvertaking

\* Rule 1 with what then is under way.
LEMMA ReceiveIInv ==
  ASSUME IInv, NEW e \in Ends, NEW o, o = Other(e), NEW under_way, net[o] # <<>>,
         DOMAIN under_way = Ends, under_way[e] = net[e],
         under_way[o] = net[o] \/ under_way[o] = Tail(net[o]),
         Receive(e, under_way), delivered' = delivered
  PROVE  IInv'
  <1> DEFINE seg == Head(net[o])
             c == conn[e]
             p == conn[o]
             v == SegmentReceived(c, seg)
             S == Segments(Text[o])
             qp == net[o] \o p.segments_out
             qq == under_way[o] \o p.segments_out
  <1> /\ o \in Ends /\ o # e /\ DOMAIN conn = Ends /\ DOMAIN net = Ends /\ DOMAIN delivered = Ends
      /\ Settled(c) /\ net[o] \in Seq(S) /\ p.segments_out \in Seq(S)
      /\ Whole(e, c, net[e], delivered[e], p, qp, delivered[o], overtaken)
    BY Known
  <1>2. Fronts(net[o], p.segments_out, qp, S)
    BY FirstOfTwo
  <1> ASSUME NEW b, NEW OW, Whole(e, b, net[e], delivered[e], p, qp, delivered[o], OW)
      PROVE  Whole(e, b, under_way[e], delivered[e], p, qq, delivered[o], OW)
    <2>1. CASE under_way[o] = net[o]
      BY <2>1
    <2>2. CASE under_way[o] = Tail(net[o])
      <3> HIDE DEF p, qp, S
      <3>1. Whole(e, b, net[e], delivered[e], p, Tail(net[o]) \o p.segments_out, delivered[o], OW)
        BY <1>2, WholeLess
      <3> QED BY <2>2, <3>1
    <2> QED BY <2>1, <2>2
  <1> under_way[o] \in Seq(S) /\ seg = qp[1] /\ qp # <<>>
    BY <1>2 DEF Fronts
  <1> CASE c.active /\ PassedOn(e, seg)
    <2>1. /\ Update(e, v, under_way)
          /\ overtaken' = IF Overtakes(e, seg) THEN overtaken \cup {e} ELSE overtaken
      BY DEF Receive
    <2>2. /\ overtaken \subseteq overtaken' /\ (o \in overtaken' => o \in overtaken)
          /\ e \notin overtaken' => ~Overtakes(e, seg)
      BY <2>1
    <2>3. e \notin overtaken' => NotOvertaking(c.receiver, seg, Text[o])
      BY <2>2, OvertakesNot DEF Receiver
    <2>4. c.active /\ (seg.rst => c.sent_SYN)
      BY DEF PassedOn
    <2> HIDE DEF seg, c, p, qp
    <2>5. Whole(e, v, net[e], delivered[e], p, qp, delivered[o], overtaken') /\ Settled(v)
      BY <2>2, <2>3, <2>4, SegmentDoes, SMTT(30)
    <2>6. Whole(e, v, under_way[e], delivered[e], p, qq, delivered[o], overtaken')
      BY <2>5
    <2> HIDE DEF v
    <2> QED BY <2>1, <2>5, <2>6, UpdateIInv DEF p
  <1>6. CASE ~(c.active /\ PassedOn(e, seg))
    <2>1. net' = under_way /\ conn' = conn /\ overtaken' = overtaken
      BY <1>6 DEF Receive
    <2>2. Whole(e, c, under_way[e], delivered[e], p, qq, delivered[o], overtaken)
      OBVIOUS
    <2>3. Whole(e, conn'[e], net'[e], delivered'[e],
                conn[o], net'[o] \o conn[o].segments_out, delivered[o], overtaken')
      BY <2>1, <2>2
    <2>4. /\ DOMAIN conn' = Ends /\ DOMAIN net' = Ends /\ DOMAIN delivered' = Ends
          /\ conn'[o] = conn[o] /\ delivered'[o] = delivered[o] /\ net'[o] \in Seq(S) /\ Settled(conn'[e])
      BY <2>1
    <2> QED BY <2>3, <2>4, Stepped
  <1> QED BY <1>6

\* Deliver, Repeat and Lose.
LEMMA ArriveIInv ==
  ASSUME IInv, NEW e \in Ends, Deliver(e) \/ Repeat(e) \/ Lose(e)
  PROVE  IInv'
  <1> DEFINE o == Other(e)
             taken == [net EXCEPT ![o] = Tail(@)]
             lost == [net EXCEPT ![e] = Tail(@)]
  <1> o \in Ends /\ o # e /\ Other(o) = e /\ DOMAIN net = Ends /\ DOMAIN conn = Ends /\ DOMAIN delivered = Ends
    BY Known
  <1>2. CASE Deliver(e)
    <2>1. net[o] # <<>> /\ Receive(e, taken) /\ delivered' = delivered
      BY <1>2 DEF Deliver
    <2>2. DOMAIN taken = Ends /\ taken[e] = net[e] /\ taken[o] = Tail(net[o])
      OBVIOUS
    <2> HIDE DEF taken
    <2> QED BY <2>1, <2>2, ReceiveIInv
  <1>3. CASE Repeat(e)
    <2>1. net[o] # <<>> /\ Receive(e, net) /\ delivered' = delivered
      BY <1>3 DEF Repeat
    <2> QED BY <2>1, ReceiveIInv
  <1>4. CASE Lose(e)
    <2> DEFINE c == conn[e]
               S == Segments(Text[e])
               q == net[e] \o c.segments_out
    <2> net[e] # <<>> /\ net' = lost /\ conn' = conn /\ delivered' = delivered /\ overtaken' = overtaken
      BY <1>4 DEF Lose
    <2>2. DOMAIN net' = Ends /\ net'[o] = net[o] /\ net'[e] = Tail(net[e])
      OBVIOUS
    <2> /\ Settled(conn[o]) /\ net[e] \in Seq(S) /\ c.segments_out \in Seq(S)
        /\ Whole(o, conn[o], net[o], delivered[o], c, q, delivered[e], overtaken)
      BY Known
    <2>4. Fronts(net[e], c.segments_out, q, S)
      BY FirstOfTwo
    <2>5. Whole(o, conn[o], net[o], delivered[o], c, Tail(net[e]) \o c.segments_out, delivered[e], overtaken)
      <3> HIDE DEF q, S, c, o
      <3> QED BY <2>4, WholeLess
    <2>6. /\ Whole(o, conn'[o], net'[o], delivered'[o],
                   conn[e], net'[e] \o conn[e].segments_out, delivered[e], overtaken')
          /\ DOMAIN conn' = Ends /\ DOMAIN delivered' = Ends /\ conn'[e] = conn[e] /\ delivered'[e] = delivered[e]
          /\ net'[e] \in Seq(S) /\ Settled(conn'[o]) /\ e = Other(o)
      BY <2>2, <2>4, <2>5 DEF Fronts
    <2> HIDE DEF o
    <2> QED BY <2>2, <2>6, Stepped
  <1> QED BY <1>2, <1>3, <1>4

\* ~TCPSpongeSocket().
LEMMA AbortIInv ==
  ASSUME IInv, NEW e \in Ends, Abort(e)
  PROVE  IInv'
  <1> DEFINE o == Other(e)
             c == conn[e]
             v == IF c.active THEN UncleanShutdown(c) ELSE c
             qp == net[o] \o conn[o].segments_out
  <1>1. /\ conn' = [conn EXCEPT ![e] = v] /\ net' = net /\ delivered' = delivered
        /\ overtaken' = overtaken
    BY DEF Abort
  <1> /\ o \in Ends /\ o # e /\ DOMAIN conn = Ends /\ DOMAIN net = Ends /\ DOMAIN delivered = Ends
      /\ Settled(c) /\ net[o] \in Seq(Segments(Text[o]))
      /\ Whole(e, c, net[e], delivered[e], conn[o], qp, delivered[o], overtaken)
    BY Known
  <1>3. Whole(e, v, net[e], delivered[e], conn[o], qp, delivered[o], overtaken) /\ Settled(v)
    <2>1. Marks(c)
      BY DEF Settled
    <2> HIDE DEF qp, c
    <2> QED BY <2>1, UncleanDoes
  <1> HIDE DEF v
  <1>4. /\ DOMAIN conn' = Ends /\ DOMAIN net' = Ends /\ DOMAIN delivered' = Ends
        /\ conn'[o] = conn[o] /\ delivered'[o] = delivered[o] /\ conn'[e] = v /\ net'[o] = net[o]
    BY <1>1
  <1>5. Whole(e, conn'[e], net'[e], delivered'[e],
              conn[o], net'[o] \o conn[o].segments_out, delivered[o], overtaken')
    BY <1>1, <1>3, <1>4
  <1> QED BY <1>3, <1>4, <1>5, Stepped

\* Next.
LEMMA NextIInv ==
  IInv /\ [Next]_vars => IInv'
  <1> SUFFICES ASSUME IInv, [Next]_vars PROVE IInv'
    OBVIOUS
  <1>1. CASE UNCHANGED vars
    BY <1>1 DEF IInv, vars
  <1>2. ASSUME NEW e \in Ends, Step(e) PROVE IInv'
    BY <1>2, OwnIInv, ReadIInv, ArriveIInv, AbortIInv DEF Step
  <1> QED BY <1>1, <1>2 DEF Next

\* Every state that can be reached keeps the inductive invariant: each direction
\* of each connection (Link), the flags (Settled), and what is under way, for
\* every order of writes, reads, ticks, faults and aborts.
THEOREM NetworkInvariant == Spec => []IInv
  BY InitIInv, NextIInv, PTL DEF Spec

\* What an application reads is what its peer's wrote, in order, whatever the
\* network loses or repeats and whoever resets.
THEOREM NetworkEndToEnd == Spec => []EndToEnd
  <1>1. IInv => EndToEnd
    <2> SUFFICES ASSUME IInv, NEW e \in Ends
                 PROVE  Assembled(e) = SubSeq(Text[Other(e)], 1, Len(Assembled(e)))
      BY DEF EndToEnd
    <2>1. Len(Assembled(e)) = Got(Receiver(e)) /\ Assembled(e) = SubSeq(Text[Other(e)], 1, Got(Receiver(e)))
      BY AssembledIs
    <2> QED BY <2>1
  <1> QED BY <1>1, NetworkInvariant, PTL

\* What the invariant says of the sender of e and of what its peer has.
LEMMA Direction ==
  ASSUME IInv, NEW e \in Ends, NEW o, o = Other(e)
  PROVE  /\ o \in Ends /\ o # e /\ Other(o) = e /\ Settled(conn[e])
         /\ Sends(Sender(e), e) /\ Sends(Sender(o), o)
         /\ Gets(Receiver(o), ISN[e], Text[e], BytesOf(Text[e]), RecvCapacity, Sender(e).next_seqno, delivered[o])
         /\ Gets(Receiver(e), ISN[o], Text[o], BytesOf(Text[o]), RecvCapacity, Sender(o).next_seqno, delivered[e])
         /\ Sender(e).checkpoint <= TakenTo(Receiver(o))
         /\ e \notin overtaken =>
              /\ LastThere(Receiver(e), Text[o])
              /\ ~conn[e].linger /\ Receiver(o).recievedFIN => Sender(o).checkpoint = EndOfText(o)
  <1>1. /\ o \in Ends /\ o # e /\ Other(o) = e /\ Settled(conn[e])
        /\ Whole(e, conn[e], net[e], delivered[e],
                 conn[o], net[o] \o conn[o].segments_out, delivered[o], overtaken)
    BY Known
  <1> DEFINE q == net[e] \o conn[e].segments_out
             qp == net[o] \o conn[o].segments_out
  <1>2. /\ Side(e, conn[e], q, conn[o], qp, delivered[o], overtaken)
        /\ Side(o, conn[o], qp, conn[e], q, delivered[e], overtaken)
    BY <1>1 DEF Whole, World
  <1> HIDE DEF q, qp
  <1>3. Link(e, Sender(e), q, Receiver(o), delivered[o], qp) /\ Link(o, Sender(o), qp, Receiver(e), delivered[e], q)
    BY <1>2 DEF Side, Sender, Receiver
  <1>4. Acked(ISN[e], Sender(e), Receiver(o), qp)
    BY <1>3 DEF Link
  <1>5. e \notin overtaken =>
              /\ LastThere(Receiver(e), Text[o])
              /\ ~conn[e].linger /\ Receiver(o).recievedFIN => Sender(o).checkpoint = EndOfText(o)
    BY <1>2 DEF Side, Quits, Sender, Receiver
  <1> QED BY <1>1, <1>3, <1>4, <1>5 DEF Link, Acked

\* A sender is at most the probe of a closed window beyond its peer's room, although
\* windows arrive late and go through the network.
THEOREM NetworkFlowControl == Spec => []FlowControl
  <1>1. IInv => FlowControl
    <2> SUFFICES ASSUME IInv, NEW e \in Ends
                 PROVE  Sender(e).next_seqno <= 1 + Len(delivered[Other(e)]) + RecvCapacity + 1
      BY DEF FlowControl
    <2> DEFINE o == Other(e)
               n == Sender(e).next_seqno
               k == Len(delivered[o])
               x == Receiver(o)
    <2>1. Gets(x, ISN[e], Text[e], BytesOf(Text[e]), RecvCapacity, n, delivered[o])
      BY Direction
    <2> HIDE DEF x, n
    <2>2. n <= 2 + k + RecvCapacity
      BY <2>1 DEF Gets
    <2>3. n \in Nat /\ k \in Nat /\ RecvCapacity \in Nat
      BY <2>1, GetsNumbers
    <2> HIDE DEF k
    <2>4. n <= 1 + k + RecvCapacity + 1
      BY <2>2, <2>3, SMTT(30)
    <2> QED BY <2>4 DEF n, k
  <1> QED BY <1>1, NetworkInvariant, PTL

\* An acknowledgment never runs ahead of what was taken: the sender forgets only
\* what the peer's application gets.
THEOREM NetworkForgotten == Spec => []ForgottenIsTaken
  <1>1. IInv => ForgottenIsTaken
    <2> SUFFICES ASSUME IInv, NEW e \in Ends PROVE Sender(e).checkpoint <= Taken(Other(e))
      BY DEF ForgottenIsTaken
    <2> DEFINE o == Other(e)
    <2>1. o \in Ends /\ Sender(e).checkpoint <= TakenTo(Receiver(o))
      BY Direction
    <2>2. Len(Assembled(o)) = Got(Receiver(o))
      BY <2>1, AssembledIs
    <2>3. Taken(o) = TakenTo(Receiver(o))
      BY <2>2 DEF Taken, TakenTo, HasAckno, StreamOut
    <2> QED BY <2>1, <2>3
  <1> QED BY <1>1, NetworkInvariant, PTL

\* A sender with its FIN sent and nothing in flight: its peer has everything.
LEMMA AllTaken ==
  ASSUME IInv, NEW e \in Ends, NEW o, o = Other(e), Sender(e).fin, Sender(e).bytes_in_flight = 0
  PROVE  /\ Receiver(o).reassembler.output.isInputEnded /\ Receiver(o).recievedFIN
         /\ Got(Receiver(o)) = Len(Text[e])
  <1> DEFINE t == Sender(e)
             x == Receiver(o)
             n == t.next_seqno
  <1> /\ Gets(x, ISN[e], Text[e], BytesOf(Text[e]), RecvCapacity, n, delivered[o])
      /\ Sends(t, e) /\ t.checkpoint <= TakenTo(x)
    BY Direction
  <1> HIDE DEF x
  <1>2. t.checkpoint = n
    BY FlightCount DEF Sends
  <1>3. n = Len(Text[e]) + 2 /\ Len(Text[e]) \in Nat
    BY SendsNumbers, EndFacts DEF EndOfText
  <1>4. TakenTo(x) \in Nat /\ TakenTo(x) <= n
    BY TakenFacts
  <1>5. TakenTo(x) = Len(Text[e]) + 2
    BY <1>2, <1>3, <1>4, SMTT(30)
  <1>6. x.reassembler.output.isInputEnded /\ Got(x) = Len(Text[e])
    BY <1>5, TakenFacts
  <1>7. x.recievedFIN
    BY <1>6 DEF Gets
  <1> QED BY <1>6, <1>7 DEF x

\* A receiver that has all of the text has assembled it.
LEMMA AllAssembled ==
  ASSUME IInv, NEW e \in Ends, NEW o, o = Other(e), Got(Receiver(e)) = Len(Text[o])
  PROVE  Assembled(e) = Text[o]
  <1> DEFINE T == Text[o]
  <1>1. Assembled(e) = SubSeq(T, 1, Len(T))
    BY AssembledIs
  <1>2. T \in Seq(BytesOf(T)) /\ Len(T) \in Nat
    BY EndFacts DEF IsText
  <1> HIDE DEF T
  <1>3. SubSeq(T, 1, Len(T)) = T
    BY <1>2, SMTT(30)
  <1> QED BY <1>1, <1>3 DEF T

\* A connection that ended without an error.
LEMMA ClosedIs ==
  ASSUME IInv, NEW e \in Ends, ClosedCleanly(e)
  PROVE  /\ Sender(e).fin /\ Sender(e).bytes_in_flight = 0
         /\ Receiver(e).reassembler.output.isInputEnded
  <1>1. Settled(conn[e])
    BY Known
  <1> QED BY <1>1 DEF Settled, ClosedCleanly, Broken, StreamsFinished, StreamOut, Sender, Receiver

\* A clean close loses nothing in either direction, although _clean_shutdown()
\* tests only that the application ended and that nothing is in flight.
THEOREM NetworkCleanClose == Spec => []CleanCloseIsComplete
  <1>1. IInv => CleanCloseIsComplete
    <2> SUFFICES ASSUME IInv, NEW e \in Ends, ClosedCleanly(e), overtaken = {}
                 PROVE  /\ Sender(e).fin /\ Assembled(Other(e)) = Text[e]
                        /\ StreamOut(Receiver(Other(e))).isInputEnded /\ Assembled(e) = Text[Other(e)]
      BY DEF CleanCloseIsComplete
    <2> DEFINE o == Other(e)
    <2> /\ Sender(e).fin /\ Sender(e).bytes_in_flight = 0
        /\ Receiver(e).reassembler.output.isInputEnded
      BY ClosedIs
    <2>2. /\ o \in Ends /\ Other(o) = e /\ LastThere(Receiver(e), Text[o])
          /\ Gets(Receiver(e), ISN[o], Text[o], BytesOf(Text[o]), RecvCapacity, Sender(o).next_seqno, delivered[e])
      BY Direction
    <2>3. Receiver(o).reassembler.output.isInputEnded /\ Got(Receiver(o)) = Len(Text[e])
      BY AllTaken
    <2>4. Got(Receiver(e)) = Len(Text[o])
      BY <2>2, TakenFacts
    <2>5. Assembled(o) = Text[e] /\ Assembled(e) = Text[o]
      BY <2>2, <2>3, <2>4, AllAssembled
    <2> QED BY <2>3, <2>5 DEF StreamOut
  <1> QED BY <1>1, NetworkInvariant, PTL

\* A connection that closes without lingering leaves a peer that knows that all it
\* sent is acknowledged: the acknowledgment went with the FIN that the peer has.
THEOREM NetworkNoLinger == Spec => []NoLingerNoLoss
  <1>1. IInv => NoLingerNoLoss
    <2> SUFFICES ASSUME IInv, NEW e \in Ends, ClosedCleanly(e), ~conn[e].linger, e \notin overtaken
                 PROVE  Sender(Other(e)).in_flight = {}
      BY DEF NoLingerNoLoss
    <2> DEFINE o == Other(e)
               t == Sender(o)
    <2>1. Receiver(o).recievedFIN
      BY ClosedIs, AllTaken
    <2> o \in Ends /\ Sends(t, o) /\ t.checkpoint = EndOfText(o)
      BY <2>1, Direction
    <2> HIDE DEF t, o
    <2>3. /\ SenderNumbers(t) /\ t.next_seqno <= EndOfText(o) /\ t.checkpoint <= t.next_seqno
          /\ EndOfText(o) \in Nat
      BY SendsNumbers
    <2>4. t.next_seqno \in Nat
      BY <2>3 DEF SenderNumbers
    <2>5. t.checkpoint = t.next_seqno
      BY <2>3, <2>4, SMTT(30)
    <2>6. t.in_flight = {}
      BY <2>5, FlightCount DEF Sends
    <2> QED BY <2>6 DEF t, o
  <1> QED BY <1>1, NetworkInvariant, PTL
-----------------------------------------------------------------------------
\* A state by its four parts.
State(receiver, sender, active, linger) ==
  [sender |-> sender, receiver |-> receiver, active |-> active, linger |-> linger]

\* Those of the official states that come after the handshake.
LEMMA OfficialNames ==
  /\ Official["ESTABLISHED"] = State("SYN_RECV", "SYN_ACKED", TRUE, TRUE)
  /\ Official["FIN_WAIT_1"] = State("SYN_RECV", "FIN_SENT", TRUE, TRUE)
  /\ Official["FIN_WAIT_2"] = State("SYN_RECV", "FIN_ACKED", TRUE, TRUE)
  /\ Official["CLOSE_WAIT"] = State("FIN_RECV", "SYN_ACKED", TRUE, FALSE)
  /\ Official["LAST_ACK"] = State("FIN_RECV", "FIN_SENT", TRUE, FALSE)
  /\ Official["CLOSING"] = State("FIN_RECV", "FIN_SENT", TRUE, TRUE)
  /\ Official["TIME_WAIT"] = State("FIN_RECV", "FIN_ACKED", TRUE, TRUE)
  /\ Official["RESET"] = State("ERROR", "ERROR", FALSE, FALSE)
  /\ Official["CLOSED"] = State("FIN_RECV", "FIN_ACKED", FALSE, FALSE)
  /\ [Official["CLOSE_WAIT"] EXCEPT !.linger = TRUE] = State("FIN_RECV", "SYN_ACKED", TRUE, TRUE)
  /\ {"ESTABLISHED", "FIN_WAIT_1", "FIN_WAIT_2", "CLOSE_WAIT", "LAST_ACK", "CLOSING", "TIME_WAIT",
      "RESET", "CLOSED"} \subseteq DOMAIN Official
  <1> DEFINE L(v, b) == [v EXCEPT !.linger = b]
             A(v, b) == [v EXCEPT !.active = b]
  <1>1. \A r, s : Named(r, s) = State(r, s, TRUE, TRUE)
    BY DEF Named, State
  <1>2. ASSUME NEW r, NEW s, NEW a, NEW l, NEW b
        PROVE  L(State(r, s, a, l), b) = State(r, s, a, b) /\ A(State(r, s, a, l), b) = State(r, s, b, l)
    BY SMTT(30) DEF State
  <1>3. /\ Official["ESTABLISHED"] = Named("SYN_RECV", "SYN_ACKED")
        /\ Official["FIN_WAIT_1"] = Named("SYN_RECV", "FIN_SENT")
        /\ Official["FIN_WAIT_2"] = Named("SYN_RECV", "FIN_ACKED")
        /\ Official["CLOSING"] = Named("FIN_RECV", "FIN_SENT")
        /\ Official["TIME_WAIT"] = Named("FIN_RECV", "FIN_ACKED")
    BY DEF Official
  <1>4. /\ Official["CLOSE_WAIT"] = L(Named("FIN_RECV", "SYN_ACKED"), FALSE)
        /\ Official["LAST_ACK"] = L(Named("FIN_RECV", "FIN_SENT"), FALSE)
        /\ Official["RESET"] = A(L(Named("ERROR", "ERROR"), FALSE), FALSE)
        /\ Official["CLOSED"] = A(L(Named("FIN_RECV", "FIN_ACKED"), FALSE), FALSE)
    BY DEF Official
  <1>5. {"ESTABLISHED", "FIN_WAIT_1", "FIN_WAIT_2", "CLOSE_WAIT", "LAST_ACK", "CLOSING", "TIME_WAIT",
         "RESET", "CLOSED"} \subseteq DOMAIN Official
    BY SMTT(30) DEF Official
  <1> DEFINE yes == TRUE
             no == FALSE
  <1> HIDE DEF L, A, yes, no
  <1>6. ASSUME NEW r, NEW s
        PROVE  /\ L(Named(r, s), FALSE) = State(r, s, TRUE, FALSE)
               /\ A(L(Named(r, s), FALSE), FALSE) = State(r, s, FALSE, FALSE)
               /\ L(State(r, s, TRUE, FALSE), TRUE) = State(r, s, TRUE, TRUE)
    <2>1. /\ L(State(r, s, yes, yes), no) = State(r, s, yes, no)
          /\ A(State(r, s, yes, no), no) = State(r, s, no, no)
          /\ L(State(r, s, yes, no), yes) = State(r, s, yes, yes)
      BY <1>2, SMTT(30)
    <2>2. /\ L(State(r, s, TRUE, TRUE), FALSE) = State(r, s, TRUE, FALSE)
          /\ A(State(r, s, TRUE, FALSE), FALSE) = State(r, s, FALSE, FALSE)
          /\ L(State(r, s, TRUE, FALSE), TRUE) = State(r, s, TRUE, TRUE)
      BY <2>1 DEF yes, no
    <2>3. Named(r, s) = State(r, s, TRUE, TRUE)
      BY <1>1
    <2> QED BY <2>2, <2>3
  <1>7. /\ Official["CLOSE_WAIT"] = State("FIN_RECV", "SYN_ACKED", TRUE, FALSE)
        /\ Official["LAST_ACK"] = State("FIN_RECV", "FIN_SENT", TRUE, FALSE)
        /\ Official["RESET"] = State("ERROR", "ERROR", FALSE, FALSE)
        /\ Official["CLOSED"] = State("FIN_RECV", "FIN_ACKED", FALSE, FALSE)
    BY <1>4, <1>6
  <1>8. L(Official["CLOSE_WAIT"], TRUE) = State("FIN_RECV", "SYN_ACKED", TRUE, TRUE)
    BY <1>6, <1>7
  <1> QED BY <1>1, <1>3, <1>5, <1>7, <1>8 DEF L

\* What a sender is called once its SYN is acknowledged.
LEMMA SenderIsCalled ==
  ASSUME NEW e \in Ends, NEW t, Sends(t, e), ~t.stream.error, t.checkpoint > 0
  PROVE  \/ SenderSummary(t) = "SYN_ACKED" /\ ~t.fin
         \/ SenderSummary(t) = "FIN_SENT" /\ t.bytes_in_flight # 0
         \/ SenderSummary(t) = "FIN_ACKED" /\ t.bytes_in_flight = 0 /\ Eof(t.stream)
  <1> DEFINE w == t.stream.bytesWritten
             n == t.next_seqno
             k == t.bytes_in_flight
             F == Eof(t.stream)
  <1> Good(t, w, Text[e]) /\ t.isn = ISN[e]
    BY DEF Sends
  <1>2. k \in Nat /\ k < n
    BY FlightCount
  <1> n \in Nat /\ t.checkpoint \in Nat /\ t.checkpoint <= n /\ (t.fin => F)
    BY SendsNumbers DEF SenderNumbers
  <1>4. t.fin => n = Len(Text[e]) + 2 /\ w = Len(Text[e])
    BY FinIsLast
  <1>5. w \in Nat
    BY WrittenCount
  <1>6. SenderSummary(t) = IF n = 0 THEN "CLOSED"
                           ELSE IF n = k THEN "SYN_SENT"
                           ELSE IF ~F \/ n < w + 2 THEN "SYN_ACKED"
                           ELSE IF k > 0 THEN "FIN_SENT" ELSE "FIN_ACKED"
    BY DEF SenderSummary
  <1> HIDE DEF w, n, k, F
  <1>7. n # 0 /\ n # k /\ (k > 0 => k # 0) /\ (~(k > 0) => k = 0)
    BY <1>2, SMTT(30)
  <1>8. t.fin => ~(n < w + 2)
    BY <1>4, <1>5, SMTT(30)
  <1>9. (t.fin => ~(~F \/ n < w + 2)) /\ t.bytes_in_flight = k /\ (Eof(t.stream) <=> F)
    BY <1>8 DEF k, F
  <1> QED BY <1>6, <1>7, <1>9

\* Once the handshake is done, a connection has one of the official states, or
\* CLOSE_WAIT with the linger flag up: the flags of _clean_shutdown() and the two
\* halves never get into a combination that state() has no name for.
THEOREM NetworkStates == Spec => []OfficialStates
  <1>1. IInv => OfficialStates
    <2> SUFFICES ASSUME IInv, NEW e \in Ends, e \notin overtaken, HasAckno(Receiver(e)), Sender(e).checkpoint > 0
                 PROVE  LateCloseWait(e) \/ \E n \in DOMAIN Official : StateOf(conn[e]) = Official[n]
      BY DEF OfficialStates
    <2> DEFINE c == conn[e]
               o == Other(e)
               t == Sender(e)
               x == Receiver(e)
               ended == x.reassembler.output.isInputEnded
               a == c.active
               l == c.active /\ c.linger
    <2> /\ Sends(t, e) /\ Settled(c) /\ LastThere(x, Text[o]) /\ t = c.sender /\ x = c.receiver
        /\ Gets(x, ISN[o], Text[o], BytesOf(Text[o]), RecvCapacity, Sender(o).next_seqno, delivered[e])
      BY Direction DEF Sender, Receiver
    <2>2. StateOf(c) = State(ReceiverSummary(x), SenderSummary(t), c.active, c.active /\ c.linger)
      BY DEF StateOf, State
    <2> /\ c.active \in BOOLEAN /\ c.linger \in BOOLEAN /\ x.reassembler.output.error = t.stream.error
        /\ t.stream.error => ~c.active
        /\ ~c.linger => ended
        /\ ~c.active /\ ~t.stream.error => StreamsFinished(c) /\ t.fin
        /\ c.active /\ ~c.linger => ~StreamsFinished(c)
        /\ c.linger /\ ended => Eof(t.stream)
      BY DEF Settled, Marks, Broken
    <2> ReceiverSummary(x) = IF t.stream.error THEN "ERROR" ELSE IF ended THEN "FIN_RECV" ELSE "SYN_RECV"
      BY DEF ReceiverSummary, StreamOut
    <2>5. StreamsFinished(c) => ended /\ t.bytes_in_flight = 0
      BY DEF StreamsFinished, StreamOut
    <2>6. ended => Empty(x.reassembler)
      BY TakenFacts
    <2>7. ended /\ Eof(t.stream) /\ t.bytes_in_flight = 0 => StreamsFinished(c)
      BY <2>6 DEF StreamsFinished, StreamOut, Eof
    <2> ~t.stream.error =>
          \/ SenderSummary(t) = "SYN_ACKED" /\ ~t.fin
          \/ SenderSummary(t) = "FIN_SENT" /\ t.bytes_in_flight # 0
          \/ SenderSummary(t) = "FIN_ACKED" /\ t.bytes_in_flight = 0 /\ Eof(t.stream)
      BY SenderIsCalled
    <2>9. t.stream.error => SenderSummary(t) = "ERROR"
      BY DEF SenderSummary
    <2> /\ a = c.active /\ (c.active => a = TRUE) /\ (~c.active => a = FALSE /\ l = FALSE)
        /\ c.active /\ c.linger => l = TRUE
        /\ c.active /\ ~c.linger => l = FALSE
        /\ StateOf(c) = State(ReceiverSummary(x), SenderSummary(t), a, l)
      BY <2>2
    <2> HIDE DEF t, x, ended, a, l
    <2>11. CASE t.stream.error
      <3>1. StateOf(c) = State("ERROR", "ERROR", FALSE, FALSE)
        BY <2>9, <2>11
      <3> QED BY <3>1, OfficialNames
    <2> CASE ~t.stream.error /\ ~ended
      <3>1. c.active /\ c.linger /\ ReceiverSummary(x) = "SYN_RECV"
        BY <2>5
      <3>2. StateOf(c) = State("SYN_RECV", SenderSummary(t), TRUE, TRUE)
        BY <3>1
      <3> QED BY <3>2, OfficialNames
    <2> CASE ~t.stream.error /\ ended /\ ~c.active
      <3>1. ReceiverSummary(x) = "FIN_RECV" /\ SenderSummary(t) = "FIN_ACKED"
        BY <2>5
      <3>2. StateOf(c) = State("FIN_RECV", "FIN_ACKED", FALSE, FALSE)
        BY <3>1
      <3> QED BY <3>2, OfficialNames
    <2> CASE ~t.stream.error /\ ended /\ c.active /\ c.linger
      <3>1. ReceiverSummary(x) = "FIN_RECV" /\ Eof(t.stream)
        OBVIOUS
      <3>2. StateOf(c) = State("FIN_RECV", SenderSummary(t), TRUE, TRUE)
        BY <3>1
      <3>3. SenderSummary(t) = "SYN_ACKED" /\ ~t.fin => LateCloseWait(e)
        BY <3>1, <3>2, OfficialNames DEF LateCloseWait, t
      <3> QED BY <3>2, <3>3, OfficialNames
    <2> CASE ~t.stream.error /\ ended /\ c.active /\ ~c.linger
      <3>1. ReceiverSummary(x) = "FIN_RECV"
        OBVIOUS
      <3>2. StateOf(c) = State("FIN_RECV", SenderSummary(t), TRUE, FALSE)
        BY <3>1
      <3>3. SenderSummary(t) = "SYN_ACKED" \/ SenderSummary(t) = "FIN_SENT"
        BY <2>7
      <3> QED BY <3>2, <3>3, OfficialNames
    <2> QED BY <2>11
  <1> QED BY <1>1, NetworkInvariant, PTL
=============================================================================
