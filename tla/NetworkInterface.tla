-------------------------- MODULE NetworkInterface --------------------------
(***************************************************************************)
(* network_interface.{hh,cc}: a NetworkInterface object as a value.  A     *)
(* std::map is a function whose domain is its set of keys.  A frame's      *)
(* payload is the ARP message or the datagram it serializes, or Damaged if *)
(* it does not parse.  target_ethernet_address, which no receiver reads,   *)
(* is left out of ARP messages.                                            *)
(***************************************************************************)
EXTENDS Naturals, Sequences, Functions

CONSTANTS
  ArpTimeout,      \* 5000 ms: an ARP request is not repeated before
  MappingTimeout,  \* 30000 ms: a mapping is not kept longer
  Damaged,         \* the payload of a frame that does not parse
  Broadcast        \* ETHERNET_BROADCAST

ASSUME TimeoutAssumption == ArpTimeout \in Nat /\ MappingTimeout \in Nat

\* m[k] = v on a std::map.
Put(m, k, v) == [x \in DOMAIN m \cup {k} |-> IF x = k THEN v ELSE m[x]]

\* m.erase(k).
Erase(m, k) == Restrict(m, DOMAIN m \ {k})

EmptyMap == [x \in {} |-> x]

\* NetworkInterface::NetworkInterface().
NetworkInterfaceNew(ethernet_address, ip_address) ==
  [ethernet_address |-> ethernet_address, ip_address |-> ip_address, frames_out |-> <<>>,
   time_passed |-> 0, ip2eth |-> EmptyMap, not_mapped |-> EmptyMap, not_sent |-> EmptyMap]

\* _send_IP_v4_frame(): the frame it pushes.
IPv4Frame(n, dst, dgram) ==
  [src |-> n.ethernet_address, dst |-> dst, type |-> "IPv4", payload |-> dgram]

\* _send_ARP_request().
ARPRequest(n, target_ip) ==
  [src |-> n.ethernet_address, dst |-> Broadcast, type |-> "ARP",
   payload |-> [opcode |-> "request", sender_ip |-> n.ip_address,
                sender_eth |-> n.ethernet_address, target_ip |-> target_ip]]

\* _send_ARP_reply().
ARPReply(n, target_ip, target_eth) ==
  [src |-> n.ethernet_address, dst |-> target_eth, type |-> "ARP",
   payload |-> [opcode |-> "reply", sender_ip |-> n.ip_address,
                sender_eth |-> n.ethernet_address, target_ip |-> target_ip]]

PushFrames(n, frames) == [n EXCEPT !.frames_out = @ \o frames]

\* Mutant: a request that was lost is never repeated.
MustAskOnce(n, ip) == ip \notin DOMAIN n.not_mapped

\* The condition under which send_datagram() broadcasts a request: none was
\* sent, or the first one is more than ArpTimeout ago.
MustAsk(n, ip) ==
  ip \notin DOMAIN n.not_mapped \/ n.not_mapped[ip] + ArpTimeout < n.time_passed

\* send_datagram(dgram, next_hop): a frame if the next hop's Ethernet address
\* is known, else the datagram waits for it.
SendDatagram(n, dgram, ip) ==
  IF ip \in DOMAIN n.ip2eth
  THEN PushFrames(n, <<IPv4Frame(n, n.ip2eth[ip].eth, dgram)>>)
  ELSE LET waiting == IF ip \in DOMAIN n.not_sent THEN n.not_sent[ip] ELSE <<>>
           asked   == IF MustAsk(n, ip) THEN PushFrames(n, <<ARPRequest(n, ip)>>) ELSE n
       IN  [asked EXCEPT
              !.not_mapped = IF ip \in DOMAIN @ THEN @ ELSE Put(@, ip, n.time_passed),
              !.not_sent = Put(@, ip, Append(waiting, dgram))]

\* Mutant: the datagrams sent stay in the queue.
SendNotSentKeeps(n, ip, eth) ==
  IF ip \notin DOMAIN n.not_sent THEN n
  ELSE [PushFrames(n, [i \in DOMAIN n.not_sent[ip] |-> IPv4Frame(n, eth, n.not_sent[ip][i])])
        EXCEPT !.not_mapped = Erase(@, ip)]

\* Mutant: the datagrams that waited leave last one first.
SendNotSentBackwards(n, ip, eth) ==
  IF ip \notin DOMAIN n.not_sent THEN n
  ELSE LET q == n.not_sent[ip]
       IN  [PushFrames(n, [i \in DOMAIN q |-> IPv4Frame(n, eth, q[Len(q) + 1 - i])])
            EXCEPT !.not_sent = Erase(@, ip), !.not_mapped = Erase(@, ip)]

\* _send_not_sent_datagrams(): everything that waited for ip leaves.
SendNotSentDatagrams(n, ip, eth) ==
  IF ip \notin DOMAIN n.not_sent THEN n
  ELSE [PushFrames(n, [i \in DOMAIN n.not_sent[ip] |-> IPv4Frame(n, eth, n.not_sent[ip][i])])
        EXCEPT !.not_sent = Erase(@, ip), !.not_mapped = Erase(@, ip)]

\* Mutant: frames for other hosts are taken as well.
IsForAnyone(n, frame) == TRUE

\* recv_frame() looks only at frames for its own address or for everyone.
IsForMe(n, frame) == frame.dst \in {Broadcast, n.ethernet_address}

\* Mutant: a request is answered only if no mapping for the asker is known.
ProcessARPLearned(n, arp) ==
  LET known == [n EXCEPT !.ip2eth = Put(@, arp.sender_ip, [eth |-> arp.sender_eth, time |-> n.time_passed])]
      replied == IF /\ arp.opcode = "request" /\ arp.target_ip = n.ip_address
                    /\ arp.sender_ip \notin DOMAIN n.ip2eth
                 THEN PushFrames(known, <<ARPReply(n, arp.sender_ip, arp.sender_eth)>>) ELSE known
  IN  SendNotSentDatagrams(replied, arp.sender_ip, arp.sender_eth)

\* recv_frame() on an ARP message: learn, answer a request for the own
\* address, send what waited for the sender's address.
ProcessARP(n, arp) ==
  LET known == [n EXCEPT !.ip2eth = Put(@, arp.sender_ip, [eth |-> arp.sender_eth, time |-> n.time_passed])]
      replied == IF arp.opcode = "request" /\ arp.target_ip = n.ip_address
                 THEN PushFrames(known, <<ARPReply(n, arp.sender_ip, arp.sender_eth)>>) ELSE known
  IN  SendNotSentDatagrams(replied, arp.sender_ip, arp.sender_eth)

\* recv_frame(): what it does to the interface.
RecvFrame(n, frame) ==
  IF IsForMe(n, frame) /\ frame.type = "ARP" /\ frame.payload # Damaged
  THEN ProcessARP(n, frame.payload) ELSE n

\* recv_frame(): the datagram it returns, if any.
RecvDatagram(n, frame) ==
  IF IsForMe(n, frame) /\ frame.type = "IPv4" /\ frame.payload # Damaged
  THEN <<frame.payload>> ELSE <<>>

\* Mutant: expiry is decided by the time before the step.
InterfaceTickLate(n, ms) ==
  [n EXCEPT !.time_passed = @ + ms,
            !.ip2eth = RestrictValues(@, LAMBDA v : v.time + MappingTimeout >= n.time_passed)]

\* tick(): mappings older than MappingTimeout are forgotten.
InterfaceTick(n, ms) ==
  [n EXCEPT !.time_passed = @ + ms,
            !.ip2eth = RestrictValues(@, LAMBDA v : v.time + MappingTimeout >= n.time_passed + ms)]
=============================================================================
