----------------------------- MODULE TCPNetwork -----------------------------
(***************************************************************************)
(* Two TCPSpongeSockets (tcp_helpers/tcp_sponge_socket.{hh,cc}) connected  *)
(* by a network.  The socket's thread runs the rules of its event loop one *)
(* at a time; an action is one rule, with rule 4, which hands the segments *)
(* to the network, at its end: a delay there is a delay in the network.    *)
(*                                                                         *)
(* The network keeps the order, and may lose or repeat a segment or keep   *)
(* it so long that a clock ticks meanwhile; an application may go away.    *)
(* MaxFaults bounds how often that happens.                                *)
(***************************************************************************)
EXTENDS TCPState

CONSTANTS
  Ends,          \* the two sockets
  Text,          \* Text[e]: what the application of e writes
  ISN,           \* ISN[e]: the initial sequence number of e
  RecvCapacity, SendCapacity,
  CallerSets,    \* the sets of sockets that may call connect(); the others
                 \* listen
  Faults,        \* what may happen, of {"lose", "repeat", "slow", "abort"}
  MaxFaults      \* how often

ASSUME NetworkAssumption ==
  /\ \E a, b \in Ends : a # b /\ Ends = {a, b}
  /\ CallerSets \subseteq SUBSET Ends
  /\ \A e \in Ends :
       LET bytes == { Text[e][i] : i \in 1 .. Len(Text[e]) }
       IN  Text[e] \in Seq(bytes) /\ NoByte \notin bytes
  /\ \A e \in Ends : ISN[e] \in WrappingInt /\ Len(Text[e]) + 2 < Half
  /\ RecvCapacity \in Nat \ {0} /\ RecvCapacity < Modulus /\ RecvCapacity < WinModulus
  /\ SendCapacity \in Nat \ {0}
  /\ MaxFaults \in Nat

VARIABLES
  callers,     \* the sockets that call connect()
  conn,        \* conn[e]: the socket's TCPConnection
  net,         \* net[e]: the segments e has sent that are under way
  delivered,   \* delivered[e]: the bytes handed to the application of e
  overtaken,   \* the sockets at which a FIN without payload came before a byte
  aborted,     \* the sockets whose application has gone away
  faults       \* how many faults have happened

vars == <<callers, conn, net, delivered, overtaken, aborted, faults>>

Other(e) == CHOOSE d \in Ends : d # e

Init ==
  /\ callers \in CallerSets
  /\ conn = [e \in Ends |-> ConnectionNew(RecvCapacity, SendCapacity, ISN[e])]
  /\ net = [e \in Ends |-> <<>>]
  /\ delivered = [e \in Ends |-> <<>>]
  /\ overtaken = {} /\ aborted = {} /\ faults = 0

\* What e has put together of its peer's text.
Assembled(e) == delivered[e] \o StreamOut(conn[e].receiver).buffer

\* connect() and listen_and_accept() run the loop themselves until the
\* handshake is done; only then can the application write and shut down.
Blocked(e) ==
  \/ StateOf(conn[e]) \in {Official.LISTEN, Official.SYN_SENT}
  \/ StateOf(conn[e]) = Official.SYN_RCVD /\ e \notin callers

\* e's connection becomes c, and rule 4 sends its segments after `under_way`.
Update(e, c, under_way) ==
  /\ conn' = [conn EXCEPT ![e] = [c EXCEPT !.segments_out = <<>>]]
  /\ net' = [under_way EXCEPT ![e] = @ \o c.segments_out]

\* connect().
Open(e) ==
  /\ e \in callers /\ ~conn[e].sent_SYN
  /\ Update(e, Connect(conn[e]), net)
  /\ UNCHANGED <<callers, delivered, overtaken, aborted, faults>>

\* The interest of rule 2.
MayWrite(e) ==
  /\ conn[e].active /\ ~conn[e].sender.stream.isInputEnded
  /\ RemainingCapacity(conn[e].sender.stream) > 0 /\ ~Blocked(e)

\* Rule 2: the next bytes of the application.
Write(e) ==
  LET from == conn[e].sender.stream.bytesWritten
  IN  /\ MayWrite(e)
      /\ \E k \in 1 .. Minimum(Len(Text[e]) - from, RemainingCapacity(conn[e].sender.stream)) :
           Update(e, ConnectionWrite(conn[e], SubSeq(Text[e], from + 1, from + k)), net)
      /\ UNCHANGED <<callers, delivered, overtaken, aborted, faults>>

\* Rule 2, when the application has shut down: an empty read and write.
Shutdown(e) ==
  /\ MayWrite(e) /\ conn[e].sender.stream.bytesWritten = Len(Text[e])
  /\ Update(e, EndInputStream(ConnectionWrite(conn[e], <<>>)), net)
  /\ UNCHANGED <<callers, delivered, overtaken, aborted, faults>>

\* Rule 3: the pipe to the application takes some bytes.
Read(e) ==
  LET inbound == StreamOut(conn[e].receiver)
  IN  /\ e \notin aborted
      /\ \E k \in 1 .. BufferSize(inbound) :
           /\ delivered' = [delivered EXCEPT ![e] = @ \o PeekOutput(inbound, k)]
           /\ conn' = [conn EXCEPT ![e].receiver.reassembler.output = PopOutput(@, k)]
      /\ UNCHANGED <<callers, net, overtaken, aborted, faults>>

\* TCPOverIPv4Adapter::unwrap_tcp_in_ip(): a listening adapter passes on only
\* a SYN that is not a RST, and a socket that is about to call has none yet.
PassedOn(e, seg) == conn[e].sent_SYN \/ (e \notin callers /\ seg.syn /\ ~seg.rst)

\* seg is a FIN without payload beyond a byte e has not got.
Overtakes(e, seg) ==
  /\ seg.fin /\ seg.payload = <<>> /\ HasAckno(conn[e].receiver)
  /\ Minus(seg.seqno, Wrap(Len(Assembled(e)) + 1, ISN[Other(e)])) > 0

\* Rule 1 for e with its peer's oldest segment, which stays if it is repeated.
\* An inactive connection is not interested.
Receive(e, under_way) ==
  LET seg == Head(net[Other(e)])
  IN  IF conn[e].active /\ PassedOn(e, seg)
      THEN /\ Update(e, SegmentReceived(conn[e], seg), under_way)
           /\ overtaken' = IF Overtakes(e, seg) THEN overtaken \cup {e} ELSE overtaken
      ELSE net' = under_way /\ UNCHANGED <<conn, overtaken>>

Deliver(e) ==
  /\ net[Other(e)] # <<>>
  /\ Receive(e, [net EXCEPT ![Other(e)] = Tail(@)])
  /\ UNCHANGED <<callers, delivered, aborted, faults>>

Fault(kind) == kind \in Faults /\ faults < MaxFaults /\ faults' = faults + 1

\* A segment arrives, and will again.
Repeat(e) ==
  /\ net[Other(e)] # <<>> /\ Fault("repeat")
  /\ Receive(e, net)
  /\ UNCHANGED <<callers, delivered, aborted>>

\* A segment is lost; so does LossyFdAdapter.
Lose(e) ==
  /\ net[e] # <<>> /\ Fault("lose")
  /\ net' = [net EXCEPT ![e] = Tail(@)]
  /\ UNCHANGED <<callers, conn, delivered, overtaken, aborted>>

Quiet == \A e \in Ends : net[e] = <<>>

\* The rest of _tcp_loop(): time passes, as a rule when nothing is under way.
Tick(e) ==
  /\ conn[e].active
  /\ IF Quiet THEN UNCHANGED faults ELSE Fault("slow")
  /\ Update(e, ConnectionTick(conn[e], 1), net)
  /\ UNCHANGED <<callers, delivered, overtaken, aborted>>

\* ~TCPSpongeSocket(): the loop is left, and _tcp.reset() destroys the
\* connection.  Nothing runs rule 4 any more.
Abort(e) ==
  /\ e \notin aborted /\ ~Blocked(e) /\ Fault("abort")
  /\ conn' = [conn EXCEPT ![e] = IF @.active THEN UncleanShutdown(@) ELSE @]
  /\ aborted' = aborted \cup {e}
  /\ UNCHANGED <<callers, net, delivered, overtaken>>

Step(e) ==
  \/ Open(e) \/ Write(e) \/ Shutdown(e) \/ Read(e)
  \/ Deliver(e) \/ Repeat(e) \/ Lose(e) \/ Tick(e) \/ Abort(e)

Next == \E e \in Ends : Step(e)

Spec == Init /\ [][Next]_vars

\* What is under way arrives, the applications write, shut down and read, and
\* the clocks tick, though each tick needs a moment when nothing is under way.
\* (Weak and strong fairness of the actions, with the condition under which each
\* can change something spelled out.)
FairSpec ==
  /\ Spec
  /\ \A e \in Ends :
       /\ <>[](net[Other(e)] # <<>>) => []<><<Deliver(e)>>_vars
       /\ <>[]MayWrite(e) => []<><<Write(e) \/ Shutdown(e)>>_vars
       /\ <>[](StreamOut(conn[e].receiver).buffer # <<>> /\ e \notin aborted) => []<><<Read(e)>>_vars
       /\ []<>(Quiet /\ conn[e].active /\ ConnectionTick(conn[e], 1) # conn[e])
            => []<><<Tick(e)>>_vars

(***************************************************************************)
(* Properties.                                                             *)
(***************************************************************************)
Receiver(e) == conn[e].receiver
Sender(e) == conn[e].sender

\* The connection ended, and not by an error.
ClosedCleanly(e) == ~conn[e].active /\ ~Sender(e).stream.error

\* What an application reads is what its peer's application wrote, in order
\* (segment_received(), write()), whatever is lost, repeated or reset.
EndToEnd == \A e \in Ends : Assembled(e) = SubSeq(Text[Other(e)], 1, Len(Assembled(e)))

\* The position after the last number e's receiver has taken in order: the
\* SYN, the bytes and, once nothing is missing, the FIN.
Taken(e) ==
  IF ~HasAckno(Receiver(e)) THEN 0
  ELSE 1 + Len(Assembled(e)) + (IF StreamOut(Receiver(e)).isInputEnded THEN 1 ELSE 0)

\* A sender forgets (ack_received()) only what the peer has taken, unless a FIN
\* overtook a byte there: acknowledgments do not run ahead, through the
\* stamping in _send_segments() and the network.
ForgottenIsTaken == \A e \in Ends : Other(e) \notin overtaken => Sender(e).checkpoint <= Taken(Other(e))

\* A connection that closes cleanly (_clean_shutdown()) has sent everything up
\* to its FIN, the peer has taken it all, and it has itself taken all of the
\* peer's text, although the code tests only that the application ended and
\* that nothing is in flight.
CleanCloseIsComplete ==
  \A e \in Ends : ClosedCleanly(e) /\ overtaken = {} =>
    /\ Sender(e).fin /\ Assembled(Other(e)) = Text[e] /\ StreamOut(Receiver(Other(e))).isInputEnded
    /\ Assembled(e) = Text[Other(e)]

\* A connection that closes without lingering leaves a peer that needs no
\* answer any more: all the peer sent has been acknowledged, and the peer knows.
NoLingerNoLoss ==
  \A e \in Ends : ClosedCleanly(e) /\ ~conn[e].linger /\ e \notin overtaken =>
    Sender(Other(e)).in_flight = {}

\* A sender is never more than one number, the probe of a closed window, beyond
\* what the peer has room for (fill_window() against window_size()).
FlowControl ==
  \A e \in Ends : HasAckno(Receiver(Other(e))) =>
    Sender(e).next_seqno <= 1 + Len(delivered[Other(e)]) + RecvCapacity + 1

\* CLOSE_WAIT, but lingering: the peer's FIN came when the stream was at its end
\* and e's own FIN was still waiting for room in the window.
LateCloseWait(e) ==
  /\ StateOf(conn[e]) = [Official.CLOSE_WAIT EXCEPT !.linger = TRUE]
  /\ Eof(Sender(e).stream) /\ ~Sender(e).fin

\* Once the handshake is done, a connection is in one of the official states of
\* TCPState, or in CLOSE_WAIT with the linger flag still up.  (Before, when a
\* SYN is lost and later segments are not, states without a name occur; so they
\* do where a FIN overtook a byte.)
OfficialStates ==
  \A e \in Ends \ overtaken : HasAckno(Receiver(e)) /\ Sender(e).checkpoint > 0 =>
    LateCloseWait(e) \/ \E n \in DOMAIN Official : StateOf(conn[e]) = Official[n]

\* When a socket was destroyed with its connection open and all that was sent has
\* arrived, its peer has heard of it, by the RST the destructor is said to send
\* (tcp_sponge_socket.hh:75), and is closed, too.  This does not hold (README,
\* Divergences).
AbortIsTold ==
  \A e \in Ends : e \in aborted /\ Sender(e).stream.error /\ Quiet => ~conn[Other(e)].active

\* e waits for a peer that is gone and for the peer's FIN, with nothing of its own
\* to send again; or the peer's window was closed, in which case tick() repeats
\* without counting.
Orphaned(e) ==
  /\ ~conn[Other(e)].active /\ ~StreamsFinished(conn[e])
  /\ Sender(e).in_flight = {} \/ Sender(e).rwnd = 0

\* The two ends never wait for each other forever: a connection that has begun
\* comes to its end, by the clean shutdown, a reset or by giving up after
\* MAX_RETX_ATTEMPTS (tick()), or its peer did and left it orphaned.
NeverStuck == \A e \in Ends : conn[e].sent_SYN ~> (~conn[e].active \/ Orphaned(e))
=============================================================================
