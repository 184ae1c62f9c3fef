---------------------------- MODULE ReceiverSpec ----------------------------
(***************************************************************************)
(* A TCPReceiver fed by a network that loses, repeats and reorders the     *)
(* segments of one peer, while the application reads.  The peer's stream   *)
(* may be longer than the range of sequence numbers.                       *)
(*                                                                         *)
(* The peer keeps to the window: no segment reaches beyond the bytes the   *)
(* receiver has announced to take.  A segment delayed in the network       *)
(* starts at most MaxBehind bytes before the first missing one.            *)
(***************************************************************************)
EXTENDS TCPReceiver

CONSTANTS
  Text,        \* the peer's stream
  Capacity,    \* of the receiver
  PeerIsns,    \* the initial sequence numbers the peer may choose
  MaxBehind    \* how old a segment may be, in bytes

\* Old and new segments together span less than half of the sequence space,
\* which TCP needs to tell them apart.
ASSUME ReceiverAssumption ==
  /\ Text \in Seq({ Text[i] : i \in 1 .. Len(Text) })
  /\ NoByte \notin { Text[i] : i \in 1 .. Len(Text) }
  /\ PeerIsns \subseteq WrappingInt
  /\ Capacity \in Nat \ {0} /\ MaxBehind \in Nat
  /\ Capacity + MaxBehind + 2 <= Half

VARIABLES r,          \* the receiver
          peer_isn,   \* the peer's initial sequence number
          delivered,  \* the bytes the application has read
          shut        \* the application was told of the end and reads no more

vars == <<r, peer_isn, delivered, shut>>

Init ==
  /\ r = ReceiverNew(Capacity)
  /\ peer_isn \in PeerIsns
  /\ delivered = <<>>
  /\ shut = FALSE

\* The true number of bytes assembled, which bytesWritten counts modulo 2^32.
Assembled == Len(delivered) + BufferSize(StreamOut(r))

\* A segment of the peer: the len bytes of its stream after the first start.
PeerSegment(start, len, syn, fin) ==
  [SegmentNew EXCEPT !.seqno = Wrap(IF syn THEN 0 ELSE start + 1, peer_isn),
                     !.syn = syn, !.fin = fin, !.payload = SubSeq(Text, start + 1, start + len)]

\* What the peer and the network may present.
Possible(start, len, syn, fin) ==
  /\ start + len <= Minimum(Len(Text), Assembled + WindowSize(r))
  /\ start + MaxBehind >= Assembled
  /\ syn => start = 0
  /\ fin => start + len = Len(Text)
  /\ len > 0 \/ syn \/ fin

\* segment_received().
Arrive(start, len, syn, fin) ==
  /\ Possible(start, len, syn, fin)
  /\ r' = ReceiverSegmentReceived(r, PeerSegment(start, len, syn, fin))
  /\ UNCHANGED <<peer_isn, delivered, shut>>

\* The socket hands len bytes of stream_out() to the application.  At eof() it
\* shuts this direction down, for good.
Read(len) ==
  /\ ~shut /\ len <= BufferSize(StreamOut(r))
  /\ delivered' = delivered \o PeekOutput(StreamOut(r), len)
  /\ r' = [r EXCEPT !.reassembler.output = PopOutput(@, len)]
  /\ shut' = Eof(StreamOut(r'))
  /\ UNCHANGED peer_isn

\* The same when nothing is left to hand over.
Shut ==
  /\ ~shut /\ Eof(StreamOut(r))
  /\ shut' = TRUE
  /\ UNCHANGED <<r, peer_isn, delivered>>

Next ==
  \/ \E start \in 0 .. Len(Text), len \in 0 .. (Capacity + MaxBehind) :
       \E syn \in BOOLEAN, fin \in BOOLEAN : Arrive(start, len, syn, fin)
  \/ \E len \in 1 .. Capacity : Read(len)
  \/ Shut

Spec == Init /\ [][Next]_vars

\* How many bytes, the FIN counted as one, a peer takes for acknowledged.
Confirmed == Unwrap(Ackno(r), peer_isn, Assembled + 1) - 1

\* What a peer that keeps retransmitting sends: SYN first, then the first byte
\* that ackno() does not cover and any that follow it, with FIN at the end.
Retransmit ==
  \/ ~HasAckno(r) /\ Arrive(0, 0, TRUE, FALSE)
  \/ /\ HasAckno(r)
     /\ \E start \in {Confirmed} \cap (0 .. Len(Text)), len \in 0 .. Capacity :
          \E fin \in {start + len = Len(Text)} : Arrive(start, len, FALSE, fin)

\* The peer retransmits what it takes for missing, the network delivers again
\* and again, and the socket serves the application until eof().
FairSpec ==
  /\ Spec
  /\ WF_vars(Retransmit)
  /\ WF_vars(Shut \/ \E len \in 1 .. Capacity : Read(len))
-----------------------------------------------------------------------------
\* The application gets the peer's bytes in order, also after the sequence
\* numbers and the 32-bit counters have wrapped around (segment_received(),
\* tcp_receiver.cc:10-26).
InOrder == delivered \o StreamOut(r).buffer = SubSeq(Text, 1, Assembled)

\* The byte of the stream at position p (from 0) is assembled or waits.
HeldIn(x, p, assembled) ==
  p < assembled \/ (p - assembled < Capacity /\ x.reassembler.slots[p - assembled] # NoByte)

\* What `accepting` pieces are: after x has processed the piece, each of its
\* bytes is held.  Assembling moves the first missing byte on by what the
\* output stream grew.
Accepts(start, len, fin) ==
  LET x == ReceiverSegmentReceived(r, PeerSegment(start, len, FALSE, fin))
      grown == BufferSize(StreamOut(x)) - BufferSize(StreamOut(r))
  IN  \A p \in start .. (start + len - 1) : HeldIn(x, p, Assembled + grown)

\* The window announced is the window accepted: every byte from the first
\* missing one up to the announced edge is taken when it comes, whatever else
\* is already waiting (window_size(), tcp_receiver.hh:51-54).
WindowIsAccepted ==
  r.recievedSYN =>
    \A start \in Assembled .. Len(Text), len \in 1 .. Capacity :
      Possible(start, len, FALSE, FALSE) => Accepts(start, len, FALSE)

\* The same for a segment that begins before the first missing byte: a
\* reassembler is to "write any newly contiguous bytes" of a substring
\* (stream_reassembler.hh:43-45).  This does not hold (README, Divergences).
OverlapIsAccepted ==
  r.recievedSYN =>
    \A start \in 0 .. Len(Text), len \in 1 .. (Capacity + MaxBehind) :
      Possible(start, len, FALSE, FALSE) => Accepts(start, len, FALSE)

\* The FIN is not acknowledged while a byte waits for a missing one, and what
\* is acknowledged otherwise is what was assembled (ackno(), "do not add 1
\* since last segment is not assembled yet", tcp_receiver.cc:30-31).
AckWhileWaiting ==
  (HasAckno(r) /\ Filled(r.reassembler) # {}) => Ackno(r) = Wrap(Assembled + 1, peer_isn)

\* ackno() is "the sequence number of the first byte in the stream that the
\* receiver hasn't received" (tcp_receiver.hh:41-42): the FIN has the number
\* after the last byte.
AckIsFirstMissing ==
  HasAckno(r) =>
    Ackno(r) = Wrap(IF r.recievedFIN /\ Assembled = Len(Text) THEN Assembled + 2
                    ELSE Assembled + 1, peer_isn)

\* The FIN has not overtaken the last byte, nor come in a segment that was
\* dropped (README, Divergences).
FinHeld ==
  r.recievedFIN => /\ r.reassembler.received_EOF
                   /\ Text = <<>> \/ HeldIn(r, Len(Text) - 1, Assembled)

\* Unless the FIN came without the last byte, a peer that goes by ackno() and an
\* application that stops at eof() are enough for all of the stream to be
\* delivered and for its end to be told and acknowledged (segment_received() and
\* ackno(), tcp_receiver.cc:10-36).
AllDelivered ==
  []FinHeld => <>[](/\ delivered = Text /\ shut
                    /\ Ackno(r) = Wrap(Len(Text) + 2, peer_isn))
=============================================================================
