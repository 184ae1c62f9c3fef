---------------------------- MODULE SpongeSocket ----------------------------
(***************************************************************************)
(* tcp_helpers/tcp_sponge_socket.{hh,cc}: the rules of the event loop that *)
(* the TCP thread runs, over the state s of the whole program.             *)
(*                                                                         *)
(*   s.conn          the TCPConnection                                     *)
(*   s.outShut, s.inShut   _outbound_shutdown, _inbound_shutdown           *)
(*   s.dataEof       _thread_data.eof()                                    *)
(*   s.up, s.down    the socket pair: what the owner and what the thread   *)
(*                   has written, and whether the direction is shut down   *)
(*   s.peer          the TCP at the other end of the network               *)
(*   s.died          a write to a direction shut down has raised SIGPIPE   *)
(*                                                                         *)
(* The peer is a correct TCP that answers before a timer expires, and the  *)
(* network loses nothing: TCPNetwork has those cases.  It may reset the    *)
(* connection, and its host may refuse the datagrams.                      *)
(***************************************************************************)
EXTENDS TCPState, SequencesExt

CONSTANTS
  PipeSize,      \* the bytes one direction of the socket pair holds
  PeerText,      \* what the peer writes
  PeerISN, PeerWindow

ASSUME SocketAssumption ==
  /\ PipeSize \in Nat \ {0} /\ PeerWindow \in Nat \ {0}
  /\ PeerISN \in WrappingInt /\ Len(PeerText) + 2 < Modulus

ThreadRules == <<"datagram_in", "from_owner", "to_owner", "datagram_out">>

\* One direction of a stream socket pair, empty and open.
Pipe == [bytes |-> <<>>, shut |-> FALSE]

Shut(pipe) == [pipe EXCEPT !.shut = TRUE]

\* shutdown(SHUT_RDWR) on either end.
ShutBoth(s) == [s EXCEPT !.up = Shut(@), !.down = Shut(@)]

\* poll() on an end that reads `in` and writes `out`.
SocketRevents(in, out) ==
  (IF in.bytes # <<>> \/ in.shut THEN {"in"} ELSE {})
  \cup (IF Len(out.bytes) < PipeSize THEN {"out"} ELSE {})
  \cup (IF in.shut /\ out.shut THEN {"hup"} ELSE {})

\* How much of `len` bytes a write() on a non-blocking end takes.
Taken(pipe, len) == Minimum(len, PipeSize - Len(pipe.bytes))

\* read(limit) for limit > 0 finds nothing: the direction is shut down.
ReadsEof(pipe) == pipe.bytes = <<>>

-----------------------------------------------------------------------------
\* The peer.  It has sent its SYN, `sent` bytes and its FIN, and got a SYN,
\* `got` and a FIN; ackDue: something is to be acknowledged.
PeerNew == [syn |-> FALSE, sent |-> 0, fin |-> FALSE, gotSyn |-> FALSE, got |-> <<>>,
            gotFin |-> FALSE, ackDue |-> FALSE, fault |-> "none"]

\* The peer hears a segment.
PeerHears(p, seg) ==
  [p EXCEPT !.gotSyn = @ \/ seg.syn, !.got = @ \o seg.payload, !.gotFin = @ \/ seg.fin,
            !.ackDue = @ \/ LengthInSequenceSpace(seg) > 0]

\* A segment of the peer's with what it acknowledges.
PeerSegment(s) ==
  LET p == s.peer
      taken == (IF p.gotSyn THEN 1 ELSE 0) + Len(p.got) + (IF p.gotFin THEN 1 ELSE 0)
  IN  [SegmentNew EXCEPT !.seqno = Wrap((IF p.syn THEN 1 ELSE 0) + p.sent, PeerISN),
                         !.ack = p.gotSyn, !.ackno = Wrap(taken, s.conn.sender.isn),
                         !.win = PeerWindow]

\* What the peer may send next: [peer, seg], its state then and the segment.
\* It opens if the socket listens, sends a byte if there is room for it, and
\* ends its stream after the last one.
PeerMoves(s) ==
  LET p   == [s.peer EXCEPT !.ackDue = FALSE]
      seg == PeerSegment(s)
      opens == ~p.syn /\ (p.gotSyn \/ s.listening)
      room  == p.syn /\ p.gotSyn /\ WindowSize(s.conn.receiver) > 0
  IN  IF p.fault = "reset" THEN {[peer |-> p, seg |-> [seg EXCEPT !.rst = TRUE]]}
      ELSE {m \in {[peer |-> [p EXCEPT !.syn = TRUE], seg |-> [seg EXCEPT !.syn = TRUE]]} : opens}
           \cup {m \in {[peer |-> p, seg |-> seg]} : p.syn /\ s.peer.ackDue}
           \cup {[peer |-> [p EXCEPT !.sent = i], seg |-> [seg EXCEPT !.payload = <<PeerText[i]>>]] :
                   i \in {j \in {p.sent + 1} : room /\ j <= Len(PeerText)}}
           \cup {m \in {[peer |-> [p EXCEPT !.fin = TRUE], seg |-> [seg EXCEPT !.fin = TRUE]]} :
                   room /\ ~p.fin /\ p.sent = Len(PeerText)}

-----------------------------------------------------------------------------
ThreadDirection(r) == IF r \in {"datagram_in", "from_owner"} THEN "in" ELSE "out"

ThreadEof(r, s) == r = "from_owner" /\ s.dataEof

ThreadClosed(r, s) == FALSE

\* The UDP socket is always writable; an ICMP error shows as POLLERR.
ThreadRevents(r, s) ==
  IF r \in {"from_owner", "to_owner"} THEN SocketRevents(s.up, s.down)
  ELSE (IF s.peer.fault = "refused" THEN {"err"} ELSE {})
       \cup (IF PeerMoves(s) # {} THEN {"in"} ELSE {}) \cup {"out"}

\* The rules' interest().
ThreadInterest(r, s) ==
  LET inbound == StreamOut(s.conn.receiver)
  IN  CASE r = "datagram_in"  -> s.conn.active
        [] r = "from_owner"   -> /\ s.conn.active /\ ~s.outShut
                                 /\ RemainingCapacity(s.conn.sender.stream) > 0
        [] r = "to_owner"     -> \/ inbound.buffer # <<>>
                                 \/ (Eof(inbound) \/ inbound.error) /\ ~s.inShut
        [] r = "datagram_out" -> s.conn.segments_out # <<>>

\* Rule 2's cancel(); the others do nothing.
ThreadCancel(r, s) ==
  IF r = "from_owner" THEN [s EXCEPT !.conn = EndInputStream(@), !.outShut = TRUE] ELSE s

\* Rule 1: an incoming segment, if the adapter passes one on.
DatagramIn(s) ==
  {[s EXCEPT !.peer = m.peer, !.conn = SegmentReceived(@, m.seg),
             !.listening = @ /\ ~m.seg.syn] : m \in PeerMoves(s)}

\* Rule 2: from the owner's pipe into the outbound stream.
FromOwner(s) ==
  LET k == Minimum(Len(s.up.bytes), RemainingCapacity(s.conn.sender.stream))
      conn == ConnectionWrite(s.conn, SubSeq(s.up.bytes, 1, k))
  IN  IF ReadsEof(s.up)
      THEN [s EXCEPT !.conn = EndInputStream(conn), !.dataEof = TRUE, !.outShut = TRUE]
      ELSE [s EXCEPT !.conn = conn, !.up.bytes = SubSeq(@, k + 1, Len(@))]

\* Mutant: everything that was peeked is popped, not only what was written.
ToOwnerPopsAll(s) ==
  LET inbound == StreamOut(s.conn.receiver)
      k    == Taken(s.down, BufferSize(inbound))
      left == PopOutput(inbound, BufferSize(inbound))
      ends == Eof(left) \/ left.error
  IN  [s EXCEPT !.conn.receiver.reassembler.output = left,
                !.down = [bytes |-> @.bytes \o PeekOutput(inbound, k), shut |-> @.shut \/ ends],
                !.inShut = @ \/ ends]

\* Mutant: SHUT_RDWR in place of SHUT_WR.
ToOwnerShutsBoth(s) ==
  LET inbound == StreamOut(s.conn.receiver)
      k    == Taken(s.down, BufferSize(inbound))
      left == PopOutput(inbound, k)
      ends == Eof(left) \/ left.error
  IN  [s EXCEPT !.conn.receiver.reassembler.output = left,
                !.down = [bytes |-> @.bytes \o PeekOutput(inbound, k), shut |-> @.shut \/ ends],
                !.up.shut = @ \/ ends, !.inShut = @ \/ ends]

\* Rule 3: from the inbound stream into the owner's pipe.  An empty writev()
\* succeeds whatever has been shut down.
ToOwner(s) ==
  LET inbound == StreamOut(s.conn.receiver)
      k    == Taken(s.down, BufferSize(inbound))
      left == PopOutput(inbound, k)
      ends == Eof(left) \/ left.error
  IN  IF s.down.shut /\ inbound.buffer # <<>> THEN [s EXCEPT !.died = TRUE]
      ELSE [s EXCEPT !.conn.receiver.reassembler.output = left,
                     !.down = [bytes |-> @.bytes \o PeekOutput(inbound, k),
                               shut |-> @.shut \/ ends],
                     !.inShut = @ \/ ends]

\* Rule 4: all outgoing segments.
DatagramOut(s) ==
  [s EXCEPT !.peer = FoldLeft(PeerHears, @, s.conn.segments_out), !.conn.segments_out = <<>>]

\* Every callback reads or writes its fd.
ThreadCallback(r, s) ==
  {[sys |-> t, served |-> TRUE] :
     t \in CASE r = "datagram_in"  -> DatagramIn(s)
             [] r = "from_owner"   -> {FromOwner(s)}
             [] r = "to_owner"     -> {ToOwner(s)}
             [] r = "datagram_out" -> {DatagramOut(s)}}

-----------------------------------------------------------------------------
\* The loop condition of connect() and of listen_and_accept().
Opening(s) ==
  StateOf(s.conn) \in IF s.calls THEN {Official.SYN_SENT}
                      ELSE {Official.LISTEN, Official.SYN_RCVD, Official.SYN_SENT}

\* The rest of _tcp_loop()'s body: time passes, as long as nothing is in flight.
LoopTick(s) ==
  IF s.conn.active
  THEN [s EXCEPT !.conn = ConnectionTick(@, IF @.sender.bytes_in_flight = 0 THEN 1 ELSE 0)]
  ELSE s
=============================================================================
