----------------------------- MODULE TCPSegment -----------------------------
(***************************************************************************)
(* tcp_helpers/tcp_segment.{hh,cc}, tcp_header.hh: the fields of a segment *)
(* that the state machines read.                                           *)
(***************************************************************************)
EXTENDS Integers, Sequences

\* A default-constructed TCPSegment.
SegmentNew ==
  [seqno |-> 0, ackno |-> 0, ack |-> FALSE, rst |-> FALSE, syn |-> FALSE, fin |-> FALSE,
   win |-> 0, payload |-> <<>>]

\* length_in_sequence_space(): SYN and FIN take one sequence number each.
LengthInSequenceSpace(seg) ==
  Len(seg.payload) + (IF seg.syn THEN 1 ELSE 0) + (IF seg.fin THEN 1 ELSE 0)
=============================================================================
