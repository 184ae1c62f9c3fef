--------------------------- MODULE TCPConnection ----------------------------
(***************************************************************************)
(* tcp_connection.{hh,cc}: a TCPConnection object as a value.              *)
(*                                                                         *)
(* time_since counts up to the linger time and stays there: nothing else   *)
(* is asked of it.                                                         *)
(***************************************************************************)
EXTENDS TCPReceiver, TCPSender

CONSTANTS
  LingerFactor,      \* 10: the linger time in initial timeouts
  MaxRetxAttempts,   \* TCPConfig::MAX_RETX_ATTEMPTS
  WinModulus         \* 2^16: the header has 16 bits for the window

ASSUME ConnectionAssumption ==
  LingerFactor \in Nat \ {0} /\ MaxRetxAttempts \in Nat /\ WinModulus \in Nat \ {0}

\* TCPConnection::TCPConnection(cfg).
ConnectionNew(recv_capacity, send_capacity, isn) ==
  [receiver |-> ReceiverNew(recv_capacity), sender |-> SenderNew(send_capacity, isn),
   segments_out |-> <<>>, linger |-> TRUE, time_since |-> 0, active |-> TRUE, sent_SYN |-> FALSE]

\* _kill_connection().
KillConnection(c) ==
  [c EXCEPT !.sender.stream = SetError(@), !.receiver.reassembler.output = SetError(@),
            !.active = FALSE]

\* Mutant: what is in flight does not keep the connection open.
StreamsFinishedInFlight(c) ==
  /\ StreamOut(c.receiver).isInputEnded /\ Empty(c.receiver.reassembler)
  /\ c.sender.stream.isInputEnded

\* The three prerequisites of a clean shutdown.
StreamsFinished(c) ==
  /\ StreamOut(c.receiver).isInputEnded /\ Empty(c.receiver.reassembler)
  /\ c.sender.stream.isInputEnded
  /\ c.sender.bytes_in_flight = 0

\* Mutant: the end that shuts down first does not linger either.
CleanShutdownNoLinger(c) ==
  LET linger == c.linger /\ ~StreamOut(c.receiver).isInputEnded
  IN  [c EXCEPT !.linger = linger, !.active = @ /\ ~(StreamsFinished(c) /\ ~linger)]

\* Mutant: the flag is never taken down.
CleanShutdownLingers(c) ==
  [c EXCEPT !.active = @ /\ ~(StreamsFinished(c) /\ c.time_since >= LingerFactor * InitialRTO)]

\* Mutant: lingering has no end.
CleanShutdownForever(c) ==
  LET linger == c.linger /\ ~(StreamOut(c.receiver).isInputEnded /\ ~Eof(c.sender.stream))
  IN  [c EXCEPT !.linger = linger, !.active = @ /\ ~(StreamsFinished(c) /\ ~linger)]

\* _clean_shutdown(): whether to linger is settled first, with the new value
\* deciding whether to stay active.
CleanShutdown(c) ==
  LET linger == c.linger /\ ~(StreamOut(c.receiver).isInputEnded /\ ~Eof(c.sender.stream))
      done   == StreamsFinished(c) /\ (~linger \/ c.time_since >= LingerFactor * InitialRTO)
  IN  [c EXCEPT !.linger = linger, !.active = @ /\ ~done]

\* The loop of _send_segments(): acknowledgment and window go with every
\* segment, RST with the last one.  The window is a size_t cut to 16 bits.
Stamped(c, segs, set_rst) ==
  [i \in 1 .. Len(segs) |->
     [segs[i] EXCEPT !.ack = HasAckno(c.receiver),
                     !.ackno = IF HasAckno(c.receiver) THEN Ackno(c.receiver) ELSE @,
                     !.win = WindowSize(c.receiver) % WinModulus,
                     !.rst = set_rst /\ i = Len(segs)]]

\* _send_segments(set_rst).
SendSegmentsOut(c, set_rst) ==
  LET filled == FillWindow(c.sender)
  IN  CleanShutdown([c EXCEPT !.sender = [filled EXCEPT !.segments_out = <<>>],
                              !.sent_SYN = TRUE,
                              !.segments_out = @ \o Stamped(c, filled.segments_out, set_rst)])

\* _unclean_shutdown().
UncleanShutdown(c) ==
  LET killed == KillConnection(c)
  IN  SendSegmentsOut(IF killed.sender.segments_out = <<>>
                      THEN [killed EXCEPT !.sender = SendEmptySegment(@)] ELSE killed, TRUE)

\* segment_received(seg): a RST kills, a listening connection ignores segments
\* with ACK; otherwise receiver, then sender, then the answer.
SegmentReceived(c, seg) ==
  LET heard    == [c EXCEPT !.time_since = 0]
      received == [heard EXCEPT !.receiver = ReceiverSegmentReceived(@, seg),
                                !.sender = IF seg.ack THEN AckReceived(@, seg.ackno, seg.win)
                                           ELSE @]
      answers  == (seg.syn /\ c.sent_SYN) \/ seg.fin \/ seg.payload # <<>>
  IN  IF seg.rst THEN KillConnection(heard)
      ELSE IF ~c.sent_SYN /\ seg.ack THEN heard
      ELSE SendSegmentsOut([received EXCEPT !.sender = IF answers THEN SendEmptySegment(@) ELSE @],
                           FALSE)

\* connect().
Connect(c) == SendSegmentsOut(c, FALSE)

\* write(data).
ConnectionWrite(c, data) ==
  SendSegmentsOut([c EXCEPT !.sender.stream = StreamWrite(@, data)], FALSE)

\* end_input_stream().
EndInputStream(c) == SendSegmentsOut([c EXCEPT !.sender.stream = EndInput(@)], FALSE)

\* tick(ms_since_last_tick).
ConnectionTick(c, ms) ==
  LET ticked == [c EXCEPT !.sender = SenderTick(@, ms),
                          !.time_since = Minimum(@ + ms, LingerFactor * InitialRTO)]
      shut   == IF ticked.sender.n_consecutive > MaxRetxAttempts THEN UncleanShutdown(ticked)
                ELSE ticked
  IN  IF shut.sent_SYN THEN SendSegmentsOut(shut, FALSE) ELSE shut
=============================================================================
