-------------------------------- MODULE Lab7 --------------------------------
(***************************************************************************)
(* apps/lab7.cc and apps/bouncer.cc: a client and a server program.  In    *)
(* each a TCP thread owns a host's network interface, and a network thread *)
(* owns a router between the host and the Internet; a datagram socket pair *)
(* of limited capacity joins them.  The programs reach each other through  *)
(* a bouncer that passes UDP messages on between two ports.                *)
(*                                                                         *)
(* Addresses have 5 bits instead of 32: 10.0.0.0/8 is 0/1, 172.16.0.0/12   *)
(* is 16/2 and 192.168.0.0/16 is 24/3.  A unit of time is the 50 ms of the *)
(* network thread.  TCP is any sequence of datagrams, the server's after   *)
(* the first one from the client.                                          *)
(***************************************************************************)
EXTENDS Router

CONSTANTS
  ClientSends, ServerSends, \* how many datagrams each program sends
  TTL,         \* 128: the TTL they start with
  Hellos,      \* 3: the empty messages that tell the bouncer where a program is
  QueueLimit,  \* the capacity of each direction of the socket pair
  MaxLost,     \* messages that UDP may lose
  MaxTime,     \* the time until which clocks run while nothing happens
  Quitters,    \* the programs that may end
  Empty        \* a UDP message without payload

Programs == {"client", "server"}

ASSUME Lab7Assumption ==
  /\ Width = 5 /\ {ClientSends, ServerSends} \subseteq Nat /\ TTL \in Nat /\ Hellos \in Nat \ {0}
  /\ QueueLimit \in Nat \ {0} /\ MaxLost \in Nat /\ MaxTime \in Nat /\ Quitters \subseteq Programs

Sends == [p \in Programs |-> IF p = "client" THEN ClientSends ELSE ServerSends]

Peer(p) == IF p = "client" THEN "server" ELSE "client"

\* program_body(): the addresses of the host and of the router's two sides.
HostIp(p) == IF p = "client" THEN 26 ELSE 18
HostSideIp(p) == IF p = "client" THEN 25 ELSE 17
InternetSideIp(p) == IF p = "client" THEN 2 ELSE 1

HostSide == 1
InternetSide == 2

\* program_body(): the router with its interfaces and routes.
NewRouter(p) ==
  LET network(q)   == IF q = "client" THEN [prefix |-> 24, length |-> 3] ELSE [prefix |-> 16, length |-> 2]
      interface(i) == AsyncNetworkInterfaceNew(<<p, i>>, IF i = HostSide THEN HostSideIp(p) ELSE InternetSideIp(p))
      plugged      == AddInterface(AddInterface(RouterNew, interface(HostSide)), interface(InternetSide))
      near         == AddRoute(plugged, network(p).prefix, network(p).length, NoHop, HostSide - 1)
      internet     == AddRoute(near, 0, 1, NoHop, InternetSide - 1)
  IN  AddRoute(internet, network(Peer(p)).prefix, network(Peer(p)).length,
               InternetSideIp(Peer(p)), InternetSide - 1)

VARIABLES
  status,   \* of each program: "new", "on", "exiting" (exit_flag) or "ended"
  host,     \* the interface in its NetworkInterfaceAdapter
  up, down, \* the frames in the socket pair, to the router and to the host
  router,
  inbox,    \* the messages at the program's internet_socket
  eof,      \* internet_socket has read an empty message and counts as at its end
  bounce,   \* the messages at the bouncer's socket for the program
  heard,    \* the programs whose address the bouncer has learned
  sent,     \* how many datagrams the host has sent
  got,      \* the datagrams the host has received
  lost,     \* the messages lost by UDP
  dropped   \* the bouncer has dropped a frame

threads == <<host, up, down, router, eof, sent, got>>
vars == <<status, threads, inbox, bounce, heard, lost, dropped>>

Init ==
  /\ status = [p \in Programs |-> "new"]
  /\ host = [p \in Programs |-> NetworkInterfaceNew(<<p, "host">>, HostIp(p))]
  /\ up = [p \in Programs |-> <<>>] /\ down = [p \in Programs |-> <<>>]
  /\ router = [p \in Programs |-> NewRouter(p)]
  /\ inbox = [p \in Programs |-> <<>>] /\ eof = [p \in Programs |-> FALSE]
  /\ bounce = [p \in Programs |-> <<>>] /\ heard = {}
  /\ sent = [p \in Programs |-> 0] /\ got = [p \in Programs |-> <<>>]
  /\ lost = 0 /\ dropped = FALSE

\* program_body() up to its threads.
Start(p) ==
  /\ status[p] = "new"
  /\ status' = [status EXCEPT ![p] = "on"]
  /\ bounce' = [bounce EXCEPT ![p] = @ \o [i \in 1 .. Hellos |-> Empty]]
  /\ UNCHANGED <<threads, inbox, heard, lost, dropped>>
-----------------------------------------------------------------------------
(* The TCP thread.  While frames of its interface are pending it is inside *)
(* send_pending(), where a write to a full socket pair blocks.             *)

HostIdle(p) == status[p] = "on" /\ host[p].frames_out = <<>>

\* NetworkInterfaceAdapter::write().
Write(p) ==
  /\ HostIdle(p) /\ sent[p] < Sends[p] /\ (p = "client" \/ got[p] # <<>>)
  /\ sent' = [sent EXCEPT ![p] = @ + 1]
  /\ host' = [host EXCEPT ![p] = SendDatagram(@,
       [src |-> p, dst |-> HostIp(Peer(p)), ttl |-> TTL, number |-> sent'[p]], HostSideIp(p))]
  /\ UNCHANGED <<status, up, down, router, inbox, eof, bounce, heard, got, lost, dropped>>

\* An iteration of send_pending().
SendPending(p) ==
  /\ status[p] = "on" /\ host[p].frames_out # <<>> /\ Len(up[p]) < QueueLimit
  /\ up' = [up EXCEPT ![p] = Append(@, Head(host[p].frames_out))]
  /\ host' = [host EXCEPT ![p].frames_out = Tail(@)]
  /\ UNCHANGED <<status, down, router, inbox, eof, bounce, heard, sent, got, lost, dropped>>

\* NetworkInterfaceAdapter::read().
Read(p) ==
  /\ HostIdle(p) /\ down[p] # <<>>
  /\ host' = [host EXCEPT ![p] = RecvFrame(@, Head(down[p]))]
  /\ got' = [got EXCEPT ![p] = @ \o RecvDatagram(host[p], Head(down[p]))]
  /\ down' = [down EXCEPT ![p] = Tail(@)]
  /\ UNCHANGED <<status, up, router, inbox, eof, bounce, heard, sent, lost, dropped>>

\* NetworkInterfaceAdapter::tick().
HostTick(p) ==
  /\ HostIdle(p) /\ host[p].time_passed < MaxTime
  /\ host' = [host EXCEPT ![p] = InterfaceTick(@, 1)]
  /\ UNCHANGED <<status, up, down, router, inbox, eof, bounce, heard, sent, got, lost, dropped>>

\* The socket is closed, or has failed: the program sets exit_flag.
Quit(p) ==
  /\ p \in Quitters /\ HostIdle(p)
  /\ status' = [status EXCEPT ![p] = "exiting"]
  /\ UNCHANGED <<threads, inbox, bounce, heard, lost, dropped>>
-----------------------------------------------------------------------------
(* The network thread.  It shares only the ends of queues with others, so  *)
(* an iteration of its loop is one step.                                   *)

FramesOut(r, side) == r.interfaces[side].frames_out

\* The callbacks of the rules that read: recv_frame() and route().
Arrives(r, side, frame) ==
  Route([r EXCEPT !.interfaces[side] = AsyncRecvFrame(@, frame)])

\* The callbacks of the rules that write: pop().
Leaves(r, side) == [r EXCEPT !.interfaces[side].frames_out = Tail(@)]

FromHost(p) == up[p] # <<>>
ToHost(p) == FramesOut(router[p], HostSide) # <<>> /\ Len(down[p]) < QueueLimit
ToInternet(p) == FramesOut(router[p], InternetSide) # <<>>
FromInternet(p) == inbox[p] # <<>> /\ ~eof[p]

SomethingReady(p) == FromHost(p) \/ ToHost(p) \/ ToInternet(p) \/ FromInternet(p)

\* The loop of the network thread: wait_next_event() serves the rules that
\* poll() has found ready, in their order, and whatever has happened 50 ms
\* count as passed.  A rule that reads is erased once its descriptor is at
\* its end.
Iterate(p) ==
  LET r1 == IF FromHost(p) THEN Arrives(router[p], HostSide, Head(up[p])) ELSE router[p]
      r2 == IF ToHost(p) THEN Leaves(r1, HostSide) ELSE r1
      r3 == IF ToInternet(p) THEN Leaves(r2, InternetSide) ELSE r2
      r4 == IF FromInternet(p) /\ Head(inbox[p]) # Empty
            THEN Arrives(r3, InternetSide, Head(inbox[p])) ELSE r3
  IN  /\ status[p] \in {"on", "exiting"}
      /\ SomethingReady(p) \/ router[p].interfaces[HostSide].time_passed < MaxTime \/ status[p] = "exiting"
      /\ router' = [router EXCEPT ![p] =
                      [r4 EXCEPT !.interfaces = [i \in DOMAIN @ |-> InterfaceTick(@[i], 1)]]]
      /\ up' = IF FromHost(p) THEN [up EXCEPT ![p] = Tail(@)] ELSE up
      /\ down' = IF ToHost(p) THEN [down EXCEPT ![p] = Append(@, Head(FramesOut(router[p], HostSide)))]
                 ELSE down
      /\ bounce' = IF ToInternet(p)
                   THEN [bounce EXCEPT ![p] = Append(@, Head(FramesOut(router[p], InternetSide)))]
                   ELSE bounce
      /\ inbox' = IF FromInternet(p) THEN [inbox EXCEPT ![p] = Tail(@)] ELSE inbox
      /\ eof' = [eof EXCEPT ![p] = @ \/ (FromInternet(p) /\ Head(inbox[p]) = Empty)]
      /\ status' = [status EXCEPT ![p] = IF @ = "exiting" THEN "ended" ELSE @]
      /\ UNCHANGED <<host, heard, sent, got, lost, dropped>>
-----------------------------------------------------------------------------
\* Mutant: the bouncer passes empty messages on.
PassesOnEmpty(p, message) == Peer(p) \in heard

\* The condition under which the bouncer sends a message on.
PassesOn(p, message) == Peer(p) \in heard /\ message # Empty

\* The bouncer's rule for the socket of p.
Bounce(p) ==
  /\ bounce[p] # <<>>
  /\ heard' = heard \cup {p}
  /\ bounce' = [bounce EXCEPT ![p] = Tail(@)]
  /\ LET message == Head(bounce[p])
     IN  IF PassesOn(p, message)
         THEN inbox' = [inbox EXCEPT ![Peer(p)] = Append(@, message)] /\ UNCHANGED dropped
         ELSE dropped' = (dropped \/ message # Empty) /\ UNCHANGED inbox
  /\ UNCHANGED <<status, threads, lost>>

\* UDP loses a message for the bouncer.
Lose(p) ==
  /\ bounce[p] # <<>> /\ lost < MaxLost
  /\ bounce' = [bounce EXCEPT ![p] = Tail(@)]
  /\ lost' = lost + 1
  /\ UNCHANGED <<status, threads, inbox, heard, dropped>>

Next ==
  \E p \in Programs :
    \/ Start(p) \/ Quit(p)
    \/ Write(p) \/ SendPending(p) \/ Read(p) \/ HostTick(p)
    \/ Iterate(p)
    \/ Bounce(p) \/ Lose(p)

Spec == Init /\ [][Next]_vars

\* The threads and the bouncer go on as long as they have something to do.
\* For the network thread this is weak fairness of Iterate(p), with the
\* condition that enables it written out: only its steps change router[p].
NetworkRuns(p) == status[p] = "exiting" \/ (status[p] = "on" /\ SomethingReady(p))

FairSpec ==
  /\ Spec
  /\ \A p \in Programs :
       /\ WF_vars(SendPending(p)) /\ WF_vars(Read(p)) /\ WF_vars(Bounce(p))
       /\ []<>~NetworkRuns(p) \/ []<><<router'[p] # router[p]>>_vars
-----------------------------------------------------------------------------
\* The numbers of the datagrams that p has sent and Peer(p) has not received,
\* the oldest first, from every place where one can be.
Under(p) ==
  LET q == Peer(p)
      waiting(n, hop) == IF hop \in DOMAIN n.not_sent THEN n.not_sent[hop] ELSE <<>>
      carried(frames) ==
        LET ipv4 == SelectSeq(frames, LAMBDA f : f # Empty /\ f.type = "IPv4")
        IN  [i \in DOMAIN ipv4 |-> ipv4[i].payload]
      way == carried(down[q])
             \o carried(FramesOut(router[q], HostSide)) \o waiting(router[q].interfaces[HostSide], HostIp(q))
             \o carried(inbox[q]) \o carried(bounce[p])
             \o carried(FramesOut(router[p], InternetSide))
             \o waiting(router[p].interfaces[InternetSide], InternetSideIp(q))
             \o carried(up[p]) \o carried(host[p].frames_out) \o waiting(host[p], HostSideIp(p))
  IN  [i \in DOMAIN way |-> way[i].number]

Path(p) ==
  INSTANCE LossyChannel WITH channel <- Under(p), Messages <- 1 .. Sends[p],
                             received <- [i \in DOMAIN got[Peer(p)] |-> got[Peer(p)][i].number]

\* Each host sees a channel to the other that neither reorders nor repeats
\* datagrams, through two routers with address mappings that expire, and the
\* bouncer.  This is Path(p)!Spec for both programs.
ImplementsPath ==
  /\ \A p \in Programs : Path(p)!Init
  /\ [][\A p \in Programs : UNCHANGED Path(p)!vars \/ Path(p)!Next]_vars

\* The threads never wait for each other: as long as no message is lost, by
\* UDP or by a bouncer that does not know the peer yet, and no program ends,
\* everything sent arrives, also over a full socket pair (lab7.cc:79-84,
\* 211-221) and after messages without payload (bouncer.cc:37, 49).
Arrival ==
  []<>(\/ lost > 0 \/ dropped \/ \E p \in Programs : status[p] \in {"exiting", "ended"}
       \/ \A p \in Programs : Len(got[Peer(p)]) = sent[p])
=============================================================================
