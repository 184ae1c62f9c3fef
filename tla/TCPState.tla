------------------------------ MODULE TCPState ------------------------------
(***************************************************************************)
(* tcp_helpers/tcp_state.{hh,cc}: what a connection's state is called.     *)
(***************************************************************************)
EXTENDS TCPConnection

\* state_summary(receiver).
ReceiverSummary(r) ==
  IF StreamOut(r).error THEN "ERROR"
  ELSE IF ~HasAckno(r) THEN "LISTEN"
  ELSE IF StreamOut(r).isInputEnded THEN "FIN_RECV" ELSE "SYN_RECV"

\* state_summary(sender); bytes_written() is 32 bits wide.
SenderSummary(s) ==
  IF s.stream.error THEN "ERROR"
  ELSE IF s.next_seqno = 0 THEN "CLOSED"
  ELSE IF s.next_seqno = s.bytes_in_flight THEN "SYN_SENT"
  ELSE IF ~Eof(s.stream) \/ s.next_seqno < s.stream.bytesWritten + 2 THEN "SYN_ACKED"
  ELSE IF s.bytes_in_flight > 0 THEN "FIN_SENT" ELSE "FIN_ACKED"

\* TCPConnection::state(); an inactive connection does not linger.
StateOf(c) ==
  [sender |-> SenderSummary(c.sender), receiver |-> ReceiverSummary(c.receiver),
   active |-> c.active, linger |-> c.active /\ c.linger]

\* An active state that lingers, the default.
Named(receiver, sender) ==
  [sender |-> sender, receiver |-> receiver, active |-> TRUE, linger |-> TRUE]

\* TCPState(state): the official states.
Official ==
  [LISTEN      |-> Named("LISTEN", "CLOSED"),
   SYN_RCVD    |-> Named("SYN_RECV", "SYN_SENT"),
   SYN_SENT    |-> Named("LISTEN", "SYN_SENT"),
   ESTABLISHED |-> Named("SYN_RECV", "SYN_ACKED"),
   CLOSE_WAIT  |-> [Named("FIN_RECV", "SYN_ACKED") EXCEPT !.linger = FALSE],
   LAST_ACK    |-> [Named("FIN_RECV", "FIN_SENT") EXCEPT !.linger = FALSE],
   CLOSING     |-> Named("FIN_RECV", "FIN_SENT"),
   FIN_WAIT_1  |-> Named("SYN_RECV", "FIN_SENT"),
   FIN_WAIT_2  |-> Named("SYN_RECV", "FIN_ACKED"),
   TIME_WAIT   |-> Named("FIN_RECV", "FIN_ACKED"),
   RESET       |-> [Named("ERROR", "ERROR") EXCEPT !.linger = FALSE, !.active = FALSE],
   CLOSED      |-> [Named("FIN_RECV", "FIN_ACKED") EXCEPT !.linger = FALSE, !.active = FALSE]]
=============================================================================
