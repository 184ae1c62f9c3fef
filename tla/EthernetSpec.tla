---------------------------- MODULE EthernetSpec ----------------------------
(***************************************************************************)
(* Hosts on one Ethernet, each a TCPOverIPv4OverEthernetAdapter            *)
(* (tuntap_adapter.{hh,cc}): a network interface behind a TAP device.  The *)
(* Ethernet brings every frame to every other host, in order; it may lose  *)
(* or damage some.  The datagrams are numbered by their sender.            *)
(***************************************************************************)
EXTENDS NetworkInterface, FiniteSets, SequencesExt

CONSTANTS
  Hosts,
  EthOf, IpOf,  \* the addresses of the hosts
  Sends,        \* Sends[<<s, d>>]: how many datagrams s sends with next hop d
  MaxLost,      \* frames the Ethernet may lose or damage
  Ticks,        \* the times that may pass between two calls of tick()
  MaxTime

ASSUME EthernetAssumption ==
  /\ EthOf \in Injection(Hosts, Range(EthOf)) /\ IpOf \in Injection(Hosts, Range(IpOf))
  /\ Broadcast \notin Range(EthOf)
  /\ Damaged \notin [opcode : {"request", "reply"}, sender_ip : Range(IpOf),
                     sender_eth : Range(EthOf), target_ip : Range(IpOf)]
  /\ Sends \in [Hosts \X Hosts -> Nat] /\ \A h \in Hosts : Sends[h, h] = 0
  /\ MaxLost \in Nat /\ Ticks \subseteq Nat /\ MaxTime \in Nat

VARIABLES
  iface,     \* the network interface of each host
  inbox,     \* the frames on their way to each host's TAP device
  count,     \* how many datagrams each flow has sent
  got,       \* got[s][d]: the datagrams d has received from s
  lost       \* the frames lost or damaged

vars == <<iface, inbox, count, got, lost>>

Ips == Range(IpOf)

DatagramsOf(s, d) == [src : {s}, dst : {d}, number : 1 .. Sends[s, d]]

Init ==
  /\ iface = [h \in Hosts |-> NetworkInterfaceNew(EthOf[h], IpOf[h])]
  /\ inbox = [h \in Hosts |-> <<>>]
  /\ count = [s \in Hosts |-> [d \in Hosts |-> 0]]
  /\ got = [s \in Hosts |-> [d \in Hosts |-> <<>>]]
  /\ lost = <<>>

\* send_pending(): n, the interface of h, gives all of its frames to the
\* Ethernet.
SendPending(h, n, received) ==
  /\ iface' = [iface EXCEPT ![h] = [n EXCEPT !.frames_out = <<>>]]
  /\ inbox' = [g \in Hosts |-> IF g = h THEN received ELSE inbox[g] \o n.frames_out]

\* write(): the next datagram of the flow.
Send(s, d) ==
  /\ count[s][d] < Sends[s, d]
  /\ count' = [count EXCEPT ![s][d] = @ + 1]
  /\ SendPending(s, SendDatagram(iface[s], [src |-> s, dst |-> d, number |-> count'[s][d]], IpOf[d]),
                 inbox[s])
  /\ UNCHANGED <<got, lost>>

\* read(): the next frame.
Receive(h) ==
  /\ inbox[h] # <<>>
  /\ LET frame == Head(inbox[h])
     IN  /\ SendPending(h, RecvFrame(iface[h], frame), Tail(inbox[h]))
         /\ got' = IF RecvDatagram(iface[h], frame) = <<>> THEN got
                   ELSE [got EXCEPT ![frame.payload.src][h] = Append(@, frame.payload)]
  /\ UNCHANGED <<count, lost>>

\* ms pass, and every host calls tick(), after which nothing is pending.
Tick(ms) ==
  /\ \A h \in Hosts : iface[h].time_passed + ms <= MaxTime
  /\ iface' = [h \in Hosts |-> InterfaceTick(iface[h], ms)]
  /\ UNCHANGED <<inbox, count, got, lost>>

\* The Ethernet loses the next frame for h (one that h ignores need not be).
Lose(h) ==
  /\ inbox[h] # <<>> /\ Len(lost) < MaxLost /\ IsForMe(iface[h], Head(inbox[h]))
  /\ inbox' = [inbox EXCEPT ![h] = Tail(@)]
  /\ lost' = Append(lost, Head(inbox[h]))
  /\ UNCHANGED <<iface, count, got>>

\* The Ethernet damages the next frame for h.
Damage(h) ==
  /\ inbox[h] # <<>> /\ Len(lost) < MaxLost /\ IsForMe(iface[h], Head(inbox[h]))
  /\ Head(inbox[h]).payload # Damaged
  /\ inbox' = [inbox EXCEPT ![h][1].payload = Damaged]
  /\ lost' = Append(lost, Head(inbox[h]))
  /\ UNCHANGED <<iface, count, got>>

Next ==
  \/ \E s, d \in Hosts : Send(s, d)
  \/ \E h \in Hosts : Receive(h) \/ Lose(h) \/ Damage(h)
  \/ \E ms \in Ticks : Tick(ms)

Spec == Init /\ [][Next]_vars
-----------------------------------------------------------------------------
\* An address that datagrams wait for has been asked for, is not known, and
\* has datagrams waiting: _not_sent_dgrams and _not_mapped_ip_address have the
\* same keys, which the unchecked erase(find()) of
\* _send_not_sent_datagrams() relies on (network_interface.cc:152), and
\* _ip2eth has none of them, so that no datagram overtakes a waiting one.
MapsAgree ==
  \A h \in Hosts :
    /\ DOMAIN iface[h].not_sent = DOMAIN iface[h].not_mapped
    /\ DOMAIN iface[h].not_sent \cap DOMAIN iface[h].ip2eth = {}
    /\ \A ip \in DOMAIN iface[h].not_sent : iface[h].not_sent[ip] # <<>>

\* A mapping is true and at most MappingTimeout old (tick(),
\* network_interface.cc:85-94).
MappingsFresh ==
  \A h \in Hosts : \A ip \in DOMAIN iface[h].ip2eth :
    /\ \E g \in Hosts : ip = IpOf[g] /\ iface[h].ip2eth[ip].eth = EthOf[g]
    /\ iface[h].time_passed <= iface[h].ip2eth[ip].time + MappingTimeout

IsRequestFrom(frame, h, ip) ==
  frame.type = "ARP" /\ frame.payload # Damaged
  /\ frame.payload.opcode = "request" /\ frame.payload.sender_ip = IpOf[h] /\ frame.payload.target_ip = ip

\* A message from the owner of ip that h will learn the address from.
IsAnswer(frame, h, ip) ==
  frame.type = "ARP" /\ frame.payload # Damaged
  /\ frame.payload.sender_ip = ip /\ frame.dst \in {Broadcast, EthOf[h]}

In(frames, Test(_)) == \E i \in DOMAIN frames : Test(frames[i])

\* Datagrams wait only for a request or an answer under way, or because the
\* Ethernet has lost one of these (send_datagram(), network_interface.cc:40-51).
OnlyLossStrands ==
  \A h, g \in Hosts :
    IpOf[g] \in DOMAIN iface[h].not_sent =>
      \/ In(inbox[g], LAMBDA f : IsRequestFrom(f, h, IpOf[g]))
      \/ In(inbox[h], LAMBDA f : IsAnswer(f, h, IpOf[g]))
      \/ In(lost, LAMBDA f : IsRequestFrom(f, h, IpOf[g]) \/ IsAnswer(f, h, IpOf[g]))

\* A datagram sent after the first request has expired asks again: no loss
\* silences a flow that goes on sending (network_interface.cc:43-44).
LateSendAsks ==
  [][\A s, d \in Hosts :
       /\ count'[s][d] > count[s][d]
       /\ IpOf[d] \in DOMAIN iface[s].not_mapped
       /\ iface[s].time_passed > iface[s].not_mapped[IpOf[d]] + ArpTimeout
       => In(inbox'[d], LAMBDA f : IsRequestFrom(f, s, IpOf[d]))]_vars
=============================================================================
