----------------------------- MODULE StreamCopy -----------------------------
(***************************************************************************)
(* A program like apps/tcp_udp.cc: it opens a TCPSpongeSocket, runs        *)
(* bidirectional_stream_copy() (apps/bidirectional_stream_copy.cc) between *)
(* the socket and its standard input and output, and waits until the       *)
(* socket is closed.  Two event loops run at the same time: the owner's,   *)
(* owner, and the TCP thread's, tcp.  They meet in the socket pair.        *)
(*                                                                         *)
(* More of sys:                                                            *)
(*   at              what the owner is doing                               *)
(*   calls, listening      connect() or listen_and_accept(); the adapter   *)
(*                   still listens                                         *)
(*   stdin, typed, ended   what waits on standard input, how much has been *)
(*                   written to it, whether its writer has closed it       *)
(*   inputEof, socketEof, outputClosed   eof() and closed() of the fds     *)
(*   outbound, inbound, outboundShut, inboundShut   the function's locals  *)
(*   stdout          what has been written to standard output              *)
(***************************************************************************)
EXTENDS SpongeSocket

CONSTANTS
  Text,          \* what is typed
  BufferBytes,   \* buffer_size, the capacity of the two streams
  Starts,        \* how the program may start: [calls, kind], whether it calls
                 \* connect(), and whether its input is a "pipe" or a "file"
  FaultKinds,    \* of {"reset", "refused"}: what may go wrong at the peer, once
  RecvCapacity, SendCapacity, ISN

ASSUME CopyAssumption ==
  /\ BufferBytes \in Nat \ {0} /\ RecvCapacity \in Nat \ {0} /\ SendCapacity \in Nat \ {0}
  /\ ISN \in WrappingInt /\ Len(Text) + 2 < Modulus

VARIABLES sys, owner, tcp

vars == <<sys, owner, tcp>>

OwnerRules == <<"input", "to_socket", "from_socket", "output">>

OwnerDirection(r) == IF r \in {"input", "from_socket"} THEN "in" ELSE "out"

OwnerEof(r, s) ==
  CASE r = "input" -> s.inputEof
    [] r \in {"to_socket", "from_socket"} -> s.socketEof
    [] r = "output" -> s.outputClosed

OwnerClosed(r, s) == r = "output" /\ s.outputClosed

\* A pipe at its end hangs up; a file can be read.
OwnerRevents(r, s) ==
  CASE r = "input" ->
         (IF s.stdin # <<>> \/ (s.ended /\ s.kind = "file") THEN {"in"} ELSE {})
         \cup (IF s.ended /\ s.kind = "pipe" THEN {"hup"} ELSE {})
    [] r \in {"to_socket", "from_socket"} -> SocketRevents(s.down, s.up)
    [] r = "output" -> {"out"}

\* The rules' interest(); nothing sets an error on these streams.
OwnerInterest(r, s) ==
  CASE r = "input"       -> RemainingCapacity(s.outbound) > 0
    [] r = "to_socket"   -> s.outbound.buffer # <<>> \/ (Eof(s.outbound) /\ ~s.outboundShut)
    [] r = "from_socket" -> RemainingCapacity(s.inbound) > 0
    [] r = "output"      -> s.inbound.buffer # <<>> \/ (Eof(s.inbound) /\ ~s.inboundShut)

\* The rules' cancel().
OwnerCancel(r, s) ==
  IF r \in {"input", "to_socket"} THEN [s EXCEPT !.outbound = EndInput(@)]
  ELSE [s EXCEPT !.inbound = EndInput(@)]

\* Rule 1: from standard input into the outbound stream.
InputRule(s) ==
  LET k == Minimum(Len(s.stdin), RemainingCapacity(s.outbound))
  IN  IF s.stdin = <<>> THEN [s EXCEPT !.inputEof = TRUE, !.outbound = EndInput(@)]
      ELSE [s EXCEPT !.stdin = SubSeq(@, k + 1, Len(@)),
                     !.outbound = StreamWrite(@, SubSeq(s.stdin, 1, k))]

\* Rule 2: from the outbound stream into the socket.
ToSocket(s) ==
  LET k    == Taken(s.up, BufferSize(s.outbound))
      left == PopOutput(s.outbound, k)
      ends == Eof(left)
  IN  IF s.up.shut /\ s.outbound.buffer # <<>> THEN [s EXCEPT !.died = TRUE]
      ELSE [s EXCEPT !.outbound = left, !.outboundShut = @ \/ ends,
                     !.up = [bytes |-> @.bytes \o PeekOutput(s.outbound, k),
                             shut |-> @.shut \/ ends]]

\* Rule 3: from the socket into the inbound stream.
FromSocket(s) ==
  LET k == Minimum(Len(s.down.bytes), RemainingCapacity(s.inbound))
  IN  IF ReadsEof(s.down) THEN [s EXCEPT !.socketEof = TRUE, !.inbound = EndInput(@)]
      ELSE [s EXCEPT !.down.bytes = SubSeq(@, k + 1, Len(@)),
                     !.inbound = StreamWrite(@, SubSeq(s.down.bytes, 1, k))]

\* Rule 4: from the inbound stream to standard output, which takes k bytes.
OutputRule(s, k) ==
  LET left == PopOutput(s.inbound, k)
  IN  [s EXCEPT !.stdout = @ \o PeekOutput(s.inbound, k), !.inbound = left,
                !.outputClosed = @ \/ Eof(left), !.inboundShut = @ \/ Eof(left)]

\* How much of n bytes write() may take: something, when there is something.
TakenOf(n) == IF n = 0 THEN {0} ELSE 1 .. n

\* Every callback reads or writes its fd.
OwnerCallback(r, s) ==
  [served : {TRUE},
   sys : CASE r = "input"       -> {InputRule(s)}
           [] r = "to_socket"   -> {ToSocket(s)}
           [] r = "from_socket" -> {FromSocket(s)}
           [] r = "output"      -> { OutputRule(s, k) : k \in TakenOf(BufferSize(s.inbound)) }]

Owner == INSTANCE EventLoop WITH
  loop <- owner, Rules <- OwnerRules, Direction <- OwnerDirection, AtEof <- OwnerEof,
  Closed <- OwnerClosed, Interest <- OwnerInterest, Cancel <- OwnerCancel,
  Callback <- OwnerCallback, Revents <- OwnerRevents

Thread == INSTANCE EventLoop WITH
  loop <- tcp, Rules <- ThreadRules, Direction <- ThreadDirection, AtEof <- ThreadEof,
  Closed <- ThreadClosed, Interest <- ThreadInterest, Cancel <- ThreadCancel,
  Callback <- ThreadCallback, Revents <- ThreadRevents

-----------------------------------------------------------------------------
\* The socket has been made and connect() or listen_and_accept() called.
Init ==
  /\ \E start \in Starts :
       LET conn == ConnectionNew(RecvCapacity, SendCapacity, ISN)
       IN  sys = [at |-> "opening", kind |-> start.kind, calls |-> start.calls,
                  listening |-> ~start.calls,
                  conn |-> IF start.calls THEN Connect(conn) ELSE conn,
                  outShut |-> FALSE, inShut |-> FALSE, dataEof |-> FALSE,
                  up |-> Pipe, down |-> Pipe, peer |-> PeerNew, died |-> FALSE,
                  stdin |-> <<>>, typed |-> 0, ended |-> FALSE, stdout |-> <<>>,
                  inputEof |-> FALSE, socketEof |-> FALSE, outputClosed |-> FALSE,
                  outbound |-> StreamNew(BufferBytes), inbound |-> StreamNew(BufferBytes),
                  outboundShut |-> FALSE, inboundShut |-> FALSE]
  /\ owner = Owner!LoopNew
  /\ tcp = Thread!LoopNew

Alive == ~sys.died /\ owner.at # "failed" /\ tcp.at # "failed"

\* _tcp_loop(), run by the owner until the connection is open, when connect()
\* or listen_and_accept() returns, and by the thread from then on.
TcpLoop ==
  LET s == IF tcp.at = "new" THEN sys ELSE LoopTick(sys)
  IN  /\ Alive /\ tcp.at \in {"new", "success", "timeout"}
      /\ Thread!SetUp([s EXCEPT !.at = IF @ = "opening" /\ ~Opening(s) THEN "copying" ELSE @])
      /\ UNCHANGED owner

TcpWait == Alive /\ (Thread!Poll \/ Thread!Serve \/ Thread!Timeout) /\ UNCHANGED owner

\* Mutant: the socket pair is left open.
ThreadEndsOpen ==
  /\ Alive /\ tcp.at = "exit"
  /\ tcp' = [tcp EXCEPT !.at = "ended"]
  /\ UNCHANGED <<owner, sys>>

\* _tcp_main() after its loop.
ThreadEnds ==
  /\ Alive /\ tcp.at = "exit"
  /\ sys' = ShutBoth(sys)
  /\ tcp' = [tcp EXCEPT !.at = "ended"]
  /\ UNCHANGED owner

\* The loop at the end of bidirectional_stream_copy(), without a timeout.
OwnerLoop ==
  /\ Alive /\ sys.at = "copying" /\ owner.at \in {"new", "success"}
  /\ Owner!SetUp(sys)
  /\ UNCHANGED tcp

OwnerWait == Alive /\ (Owner!Poll \/ Owner!Serve) /\ UNCHANGED tcp

\* bidirectional_stream_copy() returns; wait_until_closed() shuts down.
WaitUntilClosed ==
  /\ Alive /\ owner.at = "exit" /\ sys.at = "copying"
  /\ sys' = [ShutBoth(sys) EXCEPT !.at = "closing"]
  /\ UNCHANGED <<owner, tcp>>

\* The thread is joined.
Join ==
  /\ Alive /\ sys.at = "closing" /\ tcp.at = "ended"
  /\ sys' = [sys EXCEPT !.at = "done"]
  /\ UNCHANGED <<owner, tcp>>

\* The next byte is typed, or standard input ends.
Type ==
  /\ ~sys.ended
  /\ sys' = IF sys.typed = Len(Text) THEN [sys EXCEPT !.ended = TRUE]
            ELSE [sys EXCEPT !.typed = @ + 1, !.stdin = Append(@, Text[sys.typed + 1])]
  /\ UNCHANGED <<owner, tcp>>

\* The peer resets the connection, or its host refuses the datagrams.  A
\* listening adapter has no peer yet.
Fault ==
  /\ sys.peer.fault = "none" /\ ~sys.listening
  /\ \E kind \in FaultKinds : sys' = [sys EXCEPT !.peer.fault = kind]
  /\ UNCHANGED <<owner, tcp>>

Next ==
  \/ TcpLoop \/ TcpWait \/ ThreadEnds
  \/ OwnerLoop \/ OwnerWait \/ WaitUntilClosed \/ Join
  \/ Type \/ Fault

Spec == Init /\ [][Next]_vars

\* Where the thread, and where the owner, is not waiting for anybody.
ThreadRuns == Alive /\ tcp.at # "ended"
OwnerRuns ==
  Alive /\ CASE sys.at = "opening" -> FALSE
            [] sys.at = "copying" -> owner.at # "poll" \/ Owner!SomethingReady
            [] sys.at = "closing" -> tcp.at = "ended"
            [] sys.at = "done"    -> FALSE

\* A thread that can run without end takes steps without end: weak fairness of
\* its actions, with the condition that enables them written out, since every
\* step of the thread changes tcp and every step of the owner owner or sys.at.
FairSpec ==
  /\ Spec
  /\ []<>~ThreadRuns \/ []<><<tcp' # tcp>>_vars
  /\ []<>~OwnerRuns \/ []<><<<<owner, sys.at>>' # <<owner, sys.at>> /\ tcp' = tcp>>_vars
  /\ WF_vars(Type)

-----------------------------------------------------------------------------
Payloads(segs) == FlattenSeq([i \in 1 .. Len(segs) |-> segs[i].payload])

\* No byte is lost, repeated or overtaken between the two loops, whatever the
\* partial reads and writes: of those typed, on their way through four buffers,
\* until the thread ends; of the peer's, to the very end.
StreamsIntact ==
  /\ tcp.at # "ended" =>
       sys.peer.got \o Payloads(sys.conn.segments_out) \o sys.conn.sender.stream.buffer
         \o sys.up.bytes \o sys.outbound.buffer \o sys.stdin = SubSeq(Text, 1, sys.typed)
  /\ sys.stdout \o sys.inbound.buffer \o sys.down.bytes \o StreamOut(sys.conn.receiver).buffer
       = SubSeq(PeerText, 1, sys.peer.sent)

\* Neither thread ends early, unless the peer has failed:
\* bidirectional_stream_copy() returns when both streams have ended and been
\* copied, and the socket's thread ends when the peer has got everything and
\* both FINs have been exchanged.
EndsWhenCopied ==
  sys.peer.fault = "none" =>
    /\ sys.at \in {"closing", "done"} =>
         sys.stdout = PeerText /\ sys.ended /\ sys.stdin = <<>> /\ sys.outbound.buffer = <<>>
    /\ tcp.at \in {"exit", "ended"} =>
         sys.peer.got = Text /\ sys.peer.gotFin /\ sys.peer.fin

\* An exception or SIGPIPE ends the program only after the peer has failed:
\* neither loop writes to a direction of the socket pair that is shut down.
DiesOnlyOfPeer == ~Alive => sys.peer.fault # "none"

\* The program ends, with both threads, however the peer behaves.
Ends == <>(sys.at = "done" \/ ~Alive)

\* Success means that "At least one Rule was triggered" (eventloop.hh:44).  This
\* does not hold (README, Divergences).
SuccessIsTriggered == tcp.at = "success" => tcp.triggered
=============================================================================
