----------------------------- MODULE SenderSpec -----------------------------
(***************************************************************************)
(* A TCPSender between an application that writes a text and ends it, a    *)
(* clock, and a peer whose acknowledgments travel through a network.       *)
(*                                                                         *)
(* The peer acknowledges any part of what was sent and never takes back    *)
(* window it has announced.  The network may lose acknowledgments; with    *)
(* the fault "reordered" it also delays and repeats them, and with "stray" *)
(* acknowledgments of an earlier connection turn up.                       *)
(***************************************************************************)
EXTENDS TCPSender

CONSTANTS
  Text,            \* the bytes the application sends
  Capacity,        \* of the outgoing stream
  InitialSeqnos,   \* the initial sequence numbers to start from
  AckFaults,       \* what the network does to acknowledgments besides losing them
  MaxWindow,       \* the largest window the peer announces
  MaxAcks,         \* bound on the acknowledgments under way
  MaxRetx          \* the retransmissions after which the connection gives up

\* No more sequence numbers are used than can be told apart.
ASSUME SenderSpecAssumption ==
  /\ Text \in Seq({ Text[i] : i \in 1 .. Len(Text) })
  /\ Len(Text) + MaxWindow + 4 < Half
  /\ Capacity \in Nat \ {0} /\ InitialSeqnos \subseteq WrappingInt
  /\ AckFaults \subseteq {"reordered", "stray"}
  /\ MaxWindow \in Nat /\ MaxAcks \in Nat /\ MaxRetx \in Nat

VARIABLES s,          \* the sender
          written,    \* the number of bytes of Text the application has written
          acks,       \* the acknowledgments under way: position and window
          peer_pos,   \* the first position the peer has not received
          peer_edge,  \* the end of the window the peer has announced
          known_edge, \* the end of the window the sender has heard of
          late        \* whether an acknowledgment came after a newer one

vars == <<s, written, acks, peer_pos, peer_edge, known_edge, late>>

Byte == { Text[i] : i \in 1 .. Len(Text) }

\* The positions there are: SYN, the bytes, FIN, and the one after.
Position == 0 .. (Len(Text) + 2)

Segment ==
  [seqno : WrappingInt, ackno : {0}, ack : {FALSE}, rst : {FALSE}, syn : BOOLEAN,
   fin : BOOLEAN, win : {0}, payload : Seq(Byte)]

TypeOK ==
  /\ s \in [isn : WrappingInt, segments_out : {<<>>},
            stream : [capacity : {Capacity}, buffer : Seq(Byte), bytesWritten : WrappingInt,
                      bytesRead : WrappingInt, isInputEnded : BOOLEAN, error : {FALSE}],
            next_seqno : Position, in_flight : SUBSET [abs_seqno : Position, seg : Segment],
            syn : BOOLEAN, fin : BOOLEAN, is_timer_running : BOOLEAN, time_spent : Nat,
            rwnd : 0 .. Maximum(1, MaxWindow), bytes_in_flight : Position,
            checkpoint : Position, n_consecutive : Nat, rto : Nat]
  /\ written \in 0 .. Len(Text)
  /\ acks \in Seq([pos : Nat, win : 0 .. MaxWindow])
  /\ peer_pos \in Position /\ peer_edge \in Nat /\ known_edge \in Nat
  /\ late \in BOOLEAN

Init ==
  /\ \E isn \in InitialSeqnos : s = SenderNew(Capacity, isn)
  /\ written = 0 /\ acks = <<>>
  /\ peer_pos = 0 /\ peer_edge = 1 /\ known_edge = 1 /\ late = FALSE

\* The owner of the sender takes away what it has enqueued after each call
\* (TCPConnection::_send_segments()).
Dequeue(t) == s' = [t EXCEPT !.segments_out = <<>>]

\* The application writes the next len bytes into stream_in().
Write(len) ==
  /\ written + len <= Len(Text) /\ ~s.stream.isInputEnded
  /\ LET stream == StreamWrite(s.stream, SubSeq(Text, written + 1, written + len))
     IN  /\ s' = [s EXCEPT !.stream = stream]
         /\ written' = written + BufferSize(stream) - BufferSize(s.stream)
  /\ UNCHANGED <<acks, peer_pos, peer_edge, known_edge, late>>

\* The application ends stream_in() when it has written everything.
End ==
  /\ written = Len(Text)
  /\ s' = [s EXCEPT !.stream = EndInput(@)]
  /\ UNCHANGED <<written, acks, peer_pos, peer_edge, known_edge, late>>

Fill ==
  /\ Dequeue(FillWindow(s))
  /\ UNCHANGED <<written, acks, peer_pos, peer_edge, known_edge, late>>

\* Time passes; the connection ends after MaxRetx retransmissions.
Tick(ms) ==
  /\ s.n_consecutive <= MaxRetx
  /\ Dequeue(SenderTick(s, ms))
  /\ UNCHANGED <<written, acks, peer_pos, peer_edge, known_edge, late>>

\* An empty segment carries an acknowledgment to the peer.
SendEmpty ==
  /\ Dequeue(SendEmptySegment(s))
  /\ UNCHANGED <<written, acks, peer_pos, peer_edge, known_edge, late>>

\* The peer has got everything before pos and takes what comes before edge.
PeerAcks(pos, edge) ==
  /\ Len(acks) < MaxAcks
  /\ pos >= 1 /\ pos <= s.next_seqno /\ pos >= peer_pos
  /\ edge >= pos /\ edge >= peer_edge /\ edge <= pos + MaxWindow
  /\ acks' = Append(acks, [pos |-> pos, win |-> edge - pos])
  /\ peer_pos' = pos /\ peer_edge' = edge
  /\ UNCHANGED <<s, written, known_edge, late>>

\* The end of an announced window, a closed one counting as one byte.
Edge(ack) == ack.pos + Maximum(1, ack.win)

Hear(ack) ==
  /\ Dequeue(AckReceived(s, Wrap(ack.pos, s.isn), ack.win))
  /\ UNCHANGED <<written, peer_pos, peer_edge>>

\* The acknowledgments under way without the i-th.
Without(i) == [j \in 1 .. (Len(acks) - 1) |-> acks[IF j < i THEN j ELSE j + 1]]

\* An acknowledgment arrives and leaves the network, or stays for a repetition.
AckArrives(i) ==
  /\ Hear(acks[i])
  /\ known_edge' = Maximum(known_edge, Edge(acks[i]))
  /\ late' = (late \/ acks[i].pos < s.checkpoint \/ Edge(acks[i]) < known_edge)
  /\ \/ i = 1 /\ acks' = Tail(acks)
     \/ "reordered" \in AckFaults /\ acks' \in {acks, Without(i)}

AckLost(i) ==
  /\ acks' = Without(i)
  /\ UNCHANGED <<s, written, peer_pos, peer_edge, known_edge, late>>

\* An acknowledgment of an earlier connection names what was not sent yet.
StrayAck(ack) ==
  /\ "stray" \in AckFaults /\ ack.pos > s.next_seqno
  /\ Hear(ack)
  /\ late' = TRUE
  /\ UNCHANGED <<acks, known_edge>>

Next ==
  \/ \E len \in 1 .. Len(Text) : Write(len)
  \/ End \/ Fill \/ SendEmpty
  \/ \E ms \in 1 .. InitialRTO : Tick(ms)
  \/ \E pos \in Position, edge \in 1 .. (Len(Text) + 2 + MaxWindow) : PeerAcks(pos, edge)
  \/ \E i \in 1 .. Len(acks) : AckArrives(i) \/ AckLost(i)
  \/ \E ahead \in 1 .. 2, win \in 0 .. MaxWindow :
       StrayAck([pos |-> s.next_seqno + ahead, win |-> win])

Spec == Init /\ [][Next]_vars
-----------------------------------------------------------------------------
\* Whatever was sent and is not acknowledged is still kept in some segment
\* that will be retransmitted, also when an acknowledgment ends in the middle
\* of a segment (ack_received(), tcp_sender.cc:86-94).
NothingUntracked ==
  \A p \in s.checkpoint .. (s.next_seqno - 1) :
    \E e \in s.in_flight : e.abs_seqno <= p /\ p < EndOf(e)

\* A segment kept for retransmission is what belongs at its position: SYN at
\* 0, the bytes of the application in order, FIN behind the last; segments do
\* not overlap and none is kept that is fully acknowledged.
InFlightInPlace ==
  \A e \in s.in_flight :
    /\ e.seg.seqno = Wrap(e.abs_seqno, s.isn)
    /\ e.seg.syn <=> e.abs_seqno = 0
    /\ e.seg.payload = SubSeq(Text, e.abs_seqno, e.abs_seqno + Len(e.seg.payload) - 1)
    /\ e.seg.fin => EndOf(e) = Len(Text) + 2
    /\ s.checkpoint < EndOf(e) /\ EndOf(e) <= s.next_seqno
    /\ \A d \in s.in_flight : d = e \/ EndOf(d) <= e.abs_seqno \/ EndOf(e) <= d.abs_seqno

\* bytes_in_flight() is the sequence numbers "occupied by segments sent but
\* not yet acknowledged" (tcp_sender.hh:115), a segment counting until it is
\* acknowledged as a whole.
FlightCounted == s.bytes_in_flight = TotalLength(s.in_flight)

\* The segments in flight are what is outstanding: all of it, each in its place,
\* and all counted; the types are part of it, since the counts are unsigned.
FlightIsOutstanding == TypeOK /\ NothingUntracked /\ InFlightInPlace /\ FlightCounted

\* Bytes are sent once and in order: what left the stream is what the sequence
\* numbers say, and FIN is the last thing sent (fill_window(), _fin).
SentInOrder ==
  /\ s.syn => s.next_seqno = 1 + (written - BufferSize(s.stream)) + (IF s.fin THEN 1 ELSE 0)
  /\ s.fin => Eof(s.stream) /\ written = Len(Text)

\* The initial timeout, doubled n times.
Doubled[n \in Nat] == IF n = 0 THEN InitialRTO ELSE 2 * Doubled[n - 1]

\* While anything is in flight the timer runs, and the timeout is the initial
\* one doubled once per consecutive retransmission (tick(),
\* tcp_sender.cc:113-119).
TimerArmed ==
  s.in_flight # {} => s.is_timer_running /\ s.rto = Doubled[s.n_consecutive]

\* What is in flight is never overdue already: time that passed before it was
\* sent does not count, since an acknowledgment of everything is to "reset the
\* timer" (writeups/assn3.md:42).  This does not hold (README, Divergences).
NotOverdue == s.in_flight # {} => s.time_spent < s.rto

\* While acknowledgments come in order, nothing is sent beyond the window the
\* sender has been told of, through closed and reopened windows and with FIN
\* counted (fill_window(), tcp_sender.cc:33-39).
WindowRespected == ~late => s.next_seqno <= known_edge

\* The same whatever the order: "Repeated ACKs and outdated ACKs are harmless"
\* (tests/send_extra.cc:400).  This does not hold (README, Divergences).
LateAcksHarmless == s.next_seqno <= known_edge
=============================================================================
