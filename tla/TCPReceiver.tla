---------------------------- MODULE TCPReceiver -----------------------------
(***************************************************************************)
(* tcp_receiver.{hh,cc}: a TCPReceiver object as a value.                  *)
(***************************************************************************)
EXTENDS StreamReassembler, TCPSegment

\* TCPReceiver::TCPReceiver(capacity).
ReceiverNew(capacity) ==
  [reassembler |-> ReassemblerNew(capacity), isn |-> 0,
   recievedSYN |-> FALSE, recievedFIN |-> FALSE]

StreamOut(r) == r.reassembler.output

\* Mutant: positions are unwrapped around 0, not around what was written.
IndexFromZero(seg, isn, r) ==
  (Unwrap(seg.seqno, isn, 0) - (IF seg.syn THEN 0 ELSE 1)) % SizeModulus

\* Mutant: the sequence number of the SYN is counted as a byte.
IndexCountsSYN(seg, isn, r) == Unwrap(seg.seqno, isn, StreamOut(r).bytesWritten)

\* The stream index of a segment's first byte.  Subtracting the SYN from
\* position 0 wraps around size_t.
StreamIndex(seg, isn, r) ==
  (Unwrap(seg.seqno, isn, StreamOut(r).bytesWritten) - (IF seg.syn THEN 0 ELSE 1)) % SizeModulus

\* segment_received(): segments before the first SYN are ignored; every SYN
\* sets isn.
ReceiverSegmentReceived(r, seg) ==
  LET isn == IF seg.syn THEN seg.seqno ELSE r.isn
  IN  IF ~r.recievedSYN /\ ~seg.syn THEN r
      ELSE [reassembler |-> PushSubstring(r.reassembler, seg.payload,
                                          StreamIndex(seg, isn, r), seg.fin),
            isn |-> isn, recievedSYN |-> TRUE, recievedFIN |-> r.recievedFIN \/ seg.fin]

\* ackno() has a value.
HasAckno(r) == r.recievedSYN

\* Mutant: the FIN is acknowledged although bytes wait for a missing one.
AcknoEager(r) ==
  Plus(Plus(Plus(r.isn, StreamOut(r).bytesWritten), 1), IF r.recievedFIN THEN 1 ELSE 0)

\* Mutant: bytes that wait for a missing one are acknowledged.
AcknoWaiting(r) ==
  Plus(Plus(Plus(r.isn, StreamOut(r).bytesWritten + r.reassembler.num_unassembled), 1),
       IF Empty(r.reassembler) /\ r.recievedFIN THEN 1 ELSE 0)

\* ackno(), where it has a value.
Ackno(r) ==
  Plus(Plus(Plus(r.isn, StreamOut(r).bytesWritten), 1),
       IF Empty(r.reassembler) /\ r.recievedFIN THEN 1 ELSE 0)

WindowSize(r) == RemainingCapacity(StreamOut(r))
=============================================================================
