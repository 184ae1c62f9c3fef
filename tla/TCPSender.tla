----------------------------- MODULE TCPSender ------------------------------
(***************************************************************************)
(* tcp_sender.{hh,cc}: a TCPSender object as a value.                      *)
(*                                                                         *)
(* _segments_in_flight, a priority queue ordered by position, is the set   *)
(* in_flight.  Positions are absolute sequence numbers: 0 is the SYN, byte *)
(* i of the outgoing stream is i, the FIN follows the last byte.           *)
(***************************************************************************)
EXTENDS Stream, SizeT, FiniteSetsExt, TCPSegment

CONSTANTS
  MaxPayloadSize,   \* TCPConfig::MAX_PAYLOAD_SIZE
  InitialRTO        \* _initial_retransmission_timeout

ASSUME SenderAssumption ==
  /\ MaxPayloadSize \in Nat \ {0}
  /\ InitialRTO \in Nat \ {0}

\* TCPSender::TCPSender(capacity, retx_timeout, fixed_isn).
SenderNew(capacity, isn) ==
  [isn |-> isn, segments_out |-> <<>>, stream |-> StreamNew(capacity), next_seqno |-> 0,
   in_flight |-> {}, syn |-> FALSE, fin |-> FALSE, is_timer_running |-> FALSE,
   time_spent |-> 0, rwnd |-> 1, bytes_in_flight |-> 0, checkpoint |-> 0,
   n_consecutive |-> 0, rto |-> 0]

NextSeqno(s) == Wrap(s.next_seqno, s.isn)

\* The position after a segment in flight.
EndOf(e) == e.abs_seqno + LengthInSequenceSpace(e.seg)

\* The end of _send_segment(): a timer that is not running is started.
StartTimer(s) ==
  IF s.is_timer_running THEN s
  ELSE [s EXCEPT !.is_timer_running = TRUE, !.time_spent = 0, !.rto = InitialRTO]

\* _send_segment() for each of segs, all but the last of which carry
\* MaxPayloadSize bytes: they are numbered, sent and kept for retransmission.
SendSegments(s, segs) ==
  LET At(i) == s.next_seqno + (i - 1) * MaxPayloadSize
      sent  == [i \in 1 .. Len(segs) |-> [segs[i] EXCEPT !.seqno = Wrap(At(i), s.isn)]]
      end   == At(Len(segs)) + LengthInSequenceSpace(segs[Len(segs)])
  IN  StartTimer([s EXCEPT !.segments_out = @ \o sent,
                           !.in_flight = @ \cup { [abs_seqno |-> At(i), seg |-> sent[i]] :
                                                    i \in 1 .. Len(segs) },
                           !.next_seqno = end,
                           !.bytes_in_flight = @ + end - s.next_seqno])

\* Mutant: what is in flight is not taken off the window.
NumBytesCanSendAgain(s) == IF s.rwnd > 0 THEN s.rwnd ELSE 1

\* n_bytes_can_send: the room in the receiver's window, a zero window counting
\* as one byte.  The subtraction is in size_t and wraps around when more is in
\* flight than the window has room for.
NumBytesCanSend(s) ==
  ((IF s.rwnd > 0 THEN s.rwnd ELSE 1) - (s.next_seqno - s.checkpoint)) % SizeModulus

\* Mutant: FIN is sent although it does not fit into the window any more.
SendsFinFull(s) == s.stream.isInputEnded /\ BufferSize(s.stream) <= NumBytesCanSend(s)

\* Mutant: FIN is sent while bytes are left that do not fit.
SendsFinEarly(s) == s.stream.isInputEnded /\ NumBytesCanSend(s) > 0

\* FIN goes with the last byte when the window has room for it, too.
SendsFin(s) == s.stream.isInputEnded /\ BufferSize(s.stream) < NumBytesCanSend(s)

\* The segments the loop of fill_window() makes: the bytes there are and there
\* is room for, cut into pieces of MaxPayloadSize, FIN on the last one (on an
\* empty one if no byte is left).
NewSegments(s) ==
  LET taken == Minimum(NumBytesCanSend(s), BufferSize(s.stream))
      count == IF taken = 0 /\ SendsFin(s) THEN 1
               ELSE (taken + MaxPayloadSize - 1) \div MaxPayloadSize
  IN  [i \in 1 .. count |->
         [SegmentNew EXCEPT
            !.payload = SubSeq(s.stream.buffer, (i - 1) * MaxPayloadSize + 1,
                               Minimum(i * MaxPayloadSize, taken)),
            !.fin = SendsFin(s) /\ i = count]]

\* Mutant: the bytes sent stay in the stream.
FillWindowPeeks(s) ==
  LET segs == NewSegments(s)
  IN  IF ~s.syn THEN [SendSegments(s, <<[SegmentNew EXCEPT !.syn = TRUE]>>) EXCEPT !.syn = TRUE]
      ELSE IF s.fin \/ NumBytesCanSend(s) = 0 \/ segs = <<>> THEN s
      ELSE [SendSegments(s, segs) EXCEPT !.fin = SendsFin(s)]

\* fill_window(): SYN first; then whatever fits, up to and including FIN.
FillWindow(s) ==
  LET taken == Minimum(NumBytesCanSend(s), BufferSize(s.stream))
      segs  == NewSegments(s)
  IN  IF ~s.syn THEN [SendSegments(s, <<[SegmentNew EXCEPT !.syn = TRUE]>>) EXCEPT !.syn = TRUE]
      ELSE IF s.fin \/ NumBytesCanSend(s) = 0 \/ segs = <<>> THEN s
      ELSE [SendSegments(s, segs) EXCEPT !.stream = PopOutput(@, taken), !.fin = SendsFin(s)]

\* The segments the loop of ack_received() pops: it stops at the first one
\* that is not fully acknowledged.
Acknowledged(s, abs_ackno) ==
  { e \in s.in_flight :
      \A d \in s.in_flight : d.abs_seqno <= e.abs_seqno => EndOf(d) <= abs_ackno }

\* The sequence numbers a set of segments in flight takes.
TotalLength(es) == MapThenSumSet(LAMBDA e : LengthInSequenceSpace(e.seg), es)

\* Mutant: a segment is dropped once its first byte is acknowledged.
RemoveAcknowledgedEarly(s, abs_ackno) ==
  LET gone == { e \in s.in_flight : e.abs_seqno < abs_ackno }
  IN  [s EXCEPT !.in_flight = @ \ gone, !.bytes_in_flight = @ - TotalLength(gone)]

\* The loop of ack_received().
RemoveAcknowledged(s, abs_ackno) ==
  [s EXCEPT !.in_flight = @ \ Acknowledged(s, abs_ackno),
            !.bytes_in_flight = @ - TotalLength(Acknowledged(s, abs_ackno))]

\* The two early returns of ack_received().
AckIsNew(s, abs_ackno) == abs_ackno <= s.next_seqno /\ abs_ackno > s.checkpoint

\* ack_received(): the window is taken from every acknowledgment, old or not;
\* a new one advances the checkpoint, drops what is acknowledged, resets the
\* timeout (and the timer, if anything is still in flight) and fills the
\* window.
AckReceived(s, ackno, window_size) ==
  LET abs_ackno == Unwrap(ackno, s.isn, s.checkpoint)
      opened    == [s EXCEPT !.rwnd = window_size]
      left      == RemoveAcknowledged([opened EXCEPT !.checkpoint = abs_ackno], abs_ackno)
      reset     == [left EXCEPT !.rto = InitialRTO, !.n_consecutive = 0]
  IN  IF ~AckIsNew(s, abs_ackno) THEN opened
      ELSE FillWindow(IF reset.in_flight = {} THEN reset
                      ELSE [reset EXCEPT !.time_spent = 0, !.is_timer_running = TRUE])

\* _segments_in_flight.top(): the segment that was sent first.
Oldest(s) == CHOOSE e \in s.in_flight : \A d \in s.in_flight : e.abs_seqno <= d.abs_seqno

\* The timer has run out with something in flight.
Expires(s, ms) == s.time_spent + ms >= s.rto /\ s.in_flight # {}

\* Mutant: the timeout is doubled without counting the retransmission.
RetransmitUncounted(s) ==
  [s EXCEPT !.segments_out = Append(@, Oldest(s).seg), !.time_spent = 0,
            !.rto = IF s.rwnd > 0 THEN 2 * @ ELSE @]

\* The retransmission in tick(): the timeout backs off unless the receiver's
\* window is closed.
Retransmit(s) ==
  [s EXCEPT !.segments_out = Append(@, Oldest(s).seg), !.time_spent = 0,
            !.n_consecutive = IF s.rwnd > 0 THEN @ + 1 ELSE @,
            !.rto = IF s.rwnd > 0 THEN 2 * @ ELSE @]

\* tick(ms_since_last_tick).
SenderTick(s, ms) ==
  IF Expires(s, ms) THEN Retransmit(s)
  ELSE IF s.in_flight = {} THEN [s EXCEPT !.time_spent = 0, !.is_timer_running = FALSE]
  ELSE [s EXCEPT !.time_spent = @ + ms]

\* send_empty_segment().
SendEmptySegment(s) ==
  [s EXCEPT !.segments_out = Append(@, [SegmentNew EXCEPT !.seqno = NextSeqno(s)])]
=============================================================================
