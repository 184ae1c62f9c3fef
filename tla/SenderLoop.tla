----------------------------- MODULE SenderLoop -----------------------------
(***************************************************************************)
(* The loop of TCPSender::fill_window() as it is written, to compare with  *)
(* FillWindow, which says in one step what it does.                        *)
(***************************************************************************)
EXTENDS SenderSpec

\* One segment per turn; n is n_bytes_can_send, which is reduced by the size
\* asked for, not by what was read.
RECURSIVE FillLoop(_, _)
FillLoop(t, n) ==
  LET payload_size == Minimum(n, MaxPayloadSize)
      len  == ReadLen(t.stream, payload_size)
      rest == PopOutput(t.stream, len)
      fin  == Eof(rest) /\ n > len
      seg  == [SegmentNew EXCEPT !.payload = PeekOutput(t.stream, len), !.fin = fin]
      sent == [SendSegments([t EXCEPT !.stream = rest], <<seg>>) EXCEPT !.fin = fin]
  IN  IF n = 0 \/ t.fin \/ (~Eof(t.stream) /\ t.stream.buffer = <<>>) THEN t
      ELSE FillLoop(sent, ((IF fin THEN n - 1 ELSE n) - payload_size) % SizeModulus)

\* FillWindow sends what the loop sends (tcp_sender.cc:41-66), whatever the
\* window, the stream and what is in flight.
FillIsLoop == s.syn => FillWindow(s) = FillLoop(s, NumBytesCanSend(s))
=============================================================================
