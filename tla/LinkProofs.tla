----------------------------- MODULE LinkProofs -----------------------------
(***************************************************************************)
(* Proofs about what is below the transport layer.                         *)
(*                                                                         *)
(* About EthernetSpec: for any hosts, addresses and timeouts, the maps of  *)
(* a network interface agree with each other, and the mappings it holds    *)
(* are true and fresh.                                                     *)
(*                                                                         *)
(* About Router: the loop of route_one_datagram() (router.cc:41-55), one   *)
(* iteration at a time over any routing table, finds the longest match.    *)
(* Consider, the loop body, is what Router's Lookup folds.                 *)
(***************************************************************************)
EXTENDS EthernetSpec, Router, TLAPS

Fields == {"ethernet_address", "ip_address", "frames_out", "time_passed",
           "ip2eth", "not_mapped", "not_sent"}

Datagram == UNION { DatagramsOf(s, d) : s \in Hosts, d \in Hosts }

\* The ARP messages that tell the truth about their sender.
TrueARP ==
  UNION { [opcode : {"request", "reply"}, sender_ip : {IpOf[g]}, sender_eth : {EthOf[g]},
           target_ip : Ips] : g \in Hosts }

EthAddress == Range(EthOf) \cup {Broadcast}

\* A request goes to everyone.
AsksAll(f) ==
  f.type = "ARP" /\ f.payload # Damaged /\ f.payload.opcode = "request" => f.dst = Broadcast

AnyFrame ==
  [src : EthAddress, dst : EthAddress, type : {"IPv4"}, payload : Datagram \cup {Damaged}]
  \cup [src : EthAddress, dst : EthAddress, type : {"ARP"}, payload : TrueARP \cup {Damaged}]

Frame == { f \in AnyFrame : AsksAll(f) }

\* One of the frames is in S.
Has(frames, S) == \E i \in DOMAIN frames : frames[i] \in S

\* A mapping of ip to eth is that of a host.
Truth(ip, eth) == \E g \in Hosts : ip = IpOf[g] /\ eth = EthOf[g]

\* What holds of the interface of h at all times.
Proper(h, n) ==
  /\ DOMAIN n = Fields
  /\ n.ethernet_address = EthOf[h] /\ n.ip_address = IpOf[h]
  /\ n.frames_out \in Seq(Frame) /\ n.time_passed \in Nat

Agree(n) ==
  /\ DOMAIN n.not_sent = DOMAIN n.not_mapped
  /\ DOMAIN n.not_sent \cap DOMAIN n.ip2eth = {}
  /\ \A ip \in DOMAIN n.not_sent : n.not_sent[ip] \in Seq(Datagram) /\ n.not_sent[ip] # <<>>
  /\ \A ip \in DOMAIN n.not_mapped : n.not_mapped[ip] \in Nat

Fresh(n) ==
  \A ip \in DOMAIN n.ip2eth :
    /\ Truth(ip, n.ip2eth[ip].eth)
    /\ n.ip2eth[ip].time \in Nat /\ n.time_passed <= n.ip2eth[ip].time + MappingTimeout

Good(h, n) == Proper(h, n) /\ Agree(n) /\ Fresh(n)

NetInv ==
  /\ DOMAIN iface = Hosts /\ DOMAIN inbox = Hosts
  /\ \A h \in Hosts : Good(h, iface[h]) /\ inbox[h] \in Seq(Frame)

IInv == NetInv /\ count \in [Hosts -> [Hosts -> Nat]] /\ lost \in Seq(Frame)
-----------------------------------------------------------------------------
\* Finding a frame in a longer sequence, and in the rest of one.
LEMMA HasAppended ==
  ASSUME NEW S, NEW u, u \in Seq(Frame), NEW v, v \in Seq(Frame), Has(u, S) \/ Has(v, S)
  PROVE  Has(u \o v, S)
<1>1. CASE Has(u, S)
  <2>1. PICK i \in DOMAIN u : u[i] \in S
    BY <1>1, Zenon DEF Has
  <2>2. i \in DOMAIN (u \o v) /\ (u \o v)[i] = u[i]
    OBVIOUS
  <2> QED BY <2>1, <2>2, Zenon DEF Has
<1>2. CASE Has(v, S)
  <2>1. PICK i \in DOMAIN v : v[i] \in S
    BY <1>2, Zenon DEF Has
  <2>2. i + Len(u) \in DOMAIN (u \o v) /\ (u \o v)[i + Len(u)] = v[i]
    OBVIOUS
  <2> QED BY <2>1, <2>2, Zenon DEF Has
<1> QED BY <1>1, <1>2, Zenon

LEMMA HasTail ==
  ASSUME NEW S, NEW u, u \in Seq(Frame), u # <<>>, Has(u, S)
  PROVE  Head(u) \in S \/ Has(Tail(u), S)
<1>1. PICK i \in DOMAIN u : u[i] \in S
  BY Zenon DEF Has
<1>2. CASE i = 1
  <2>1. Head(u) = u[1]
    OBVIOUS
  <2> QED BY <1>1, <1>2, <2>1, Zenon
<1>3. CASE i # 1
  <2>1. i - 1 \in DOMAIN Tail(u) /\ Tail(u)[i - 1] = u[i]
    BY <1>3
  <2> QED BY <1>1, <2>1, Zenon DEF Has
<1> QED BY <1>2, <1>3, Zenon

\* Replacing the first frame.
LEMMA HasReplaced ==
  ASSUME NEW S, NEW u, u \in Seq(Frame), NEW f, Has(u, S)
  PROVE  u[1] \in S \/ Has([u EXCEPT ![1] = f], S)
<1>1. PICK i \in DOMAIN u : u[i] \in S
  BY Zenon DEF Has
<1>2. CASE i = 1
  BY <1>1, <1>2, Zenon
<1>3. CASE i # 1
  <2>1. i \in DOMAIN [u EXCEPT ![1] = f] /\ [u EXCEPT ![1] = f][i] = u[i]
    BY <1>3, Zenon
  <2> QED BY <1>1, <2>1, Zenon DEF Has
<1> QED BY <1>2, <1>3, Zenon

\* A frame with a datagram, and the two ARP messages, are frames.
LEMMA FramesAreFrames ==
  ASSUME NEW h \in Hosts, NEW n, Proper(h, n)
  PROVE  /\ \A eth \in EthAddress, dgram \in Datagram : IPv4Frame(n, eth, dgram) \in Frame
         /\ \A ip \in Ips : ARPRequest(n, ip) \in Frame
         /\ \A ip \in Ips, eth \in EthAddress : ARPReply(n, ip, eth) \in Frame
<1>1. EthOf[h] \in EthAddress /\ Broadcast \in EthAddress
  BY EthernetAssumption, Zenon DEF EthAddress, Injection, Range
<1>2. \A op \in {"request", "reply"}, ip \in Ips :
        [opcode |-> op, sender_ip |-> IpOf[h], sender_eth |-> EthOf[h], target_ip |-> ip] \in TrueARP
  BY DEF TrueARP
<1>3. n.ethernet_address = EthOf[h] /\ n.ip_address = IpOf[h]
  BY DEF Proper
<1>4. \A eth \in EthAddress, dgram \in Datagram : IPv4Frame(n, eth, dgram) \in Frame
  BY <1>1, <1>3 DEF IPv4Frame, Frame, AnyFrame, AsksAll
<1>5. \A ip \in Ips : ARPRequest(n, ip) \in Frame
  BY <1>1, <1>2, <1>3 DEF ARPRequest, Frame, AnyFrame, AsksAll
<1>6. \A ip \in Ips, eth \in EthAddress : ARPReply(n, ip, eth) \in Frame
  BY <1>1, <1>2, <1>3 DEF ARPReply, Frame, AnyFrame, AsksAll
<1> QED BY <1>4, <1>5, <1>6

LEMMA PushIsProper ==
  ASSUME NEW h \in Hosts, NEW n, Proper(h, n), NEW frames \in Seq(Frame)
  PROVE  /\ Proper(h, PushFrames(n, frames))
         /\ PushFrames(n, frames).ip2eth = n.ip2eth
         /\ PushFrames(n, frames).not_mapped = n.not_mapped
         /\ PushFrames(n, frames).not_sent = n.not_sent
         /\ PushFrames(n, frames).time_passed = n.time_passed
         /\ PushFrames(n, frames).frames_out = n.frames_out \o frames
  BY DEF PushFrames, Proper, Fields

LEMMA TruthIsAddress == ASSUME NEW ip, NEW eth, Truth(ip, eth) PROVE ip \in Ips /\ eth \in EthAddress
  BY EthernetAssumption, Zenon DEF Truth, Ips, EthAddress, Injection, Range

\* What send_datagram() to ip makes of n: datagrams wait for no other address
\* than before, and where they begin to wait, or the last request has expired,
\* a request leaves.
Asks(n, ip, after) ==
  /\ DOMAIN after.not_sent \subseteq DOMAIN n.not_sent \cup {ip}
  /\ ip \notin DOMAIN n.not_sent /\ ip \in DOMAIN after.not_sent =>
       Has(after.frames_out, {ARPRequest(n, ip)})
  /\ ip \notin DOMAIN n.ip2eth /\ MustAsk(n, ip) => Has(after.frames_out, {ARPRequest(n, ip)})

\* send_datagram() keeps an interface good: a datagram that has to wait joins
\* both maps.
LEMMA SendKeepsGood ==
  ASSUME NEW h \in Hosts, NEW n, Good(h, n), NEW dgram \in Datagram, NEW ip \in Ips
  PROVE  Good(h, SendDatagram(n, dgram, ip)) /\ Asks(n, ip, SendDatagram(n, dgram, ip))
<1> USE DEF Good
<1>1. CASE ip \in DOMAIN n.ip2eth
  <2>1. n.ip2eth[ip].eth \in EthAddress
    BY <1>1, TruthIsAddress DEF Fresh
  <2>2. <<IPv4Frame(n, n.ip2eth[ip].eth, dgram)>> \in Seq(Frame)
    BY <2>1, FramesAreFrames
  <2>3. SendDatagram(n, dgram, ip) = PushFrames(n, <<IPv4Frame(n, n.ip2eth[ip].eth, dgram)>>)
    BY <1>1 DEF SendDatagram
  <2> DEFINE after == SendDatagram(n, dgram, ip)
  <2>4. /\ Proper(h, after) /\ after.ip2eth = n.ip2eth /\ after.not_mapped = n.not_mapped
        /\ after.not_sent = n.not_sent /\ after.time_passed = n.time_passed
    BY <2>2, <2>3, PushIsProper, Zenon
  <2> HIDE DEF after
  <2>5. Agree(after) /\ Fresh(after)
    BY <2>4 DEF Agree, Fresh
  <2>6. Asks(n, ip, after)
    BY <1>1, <2>4, Zenon DEF Asks
  <2> QED BY <2>4, <2>5, <2>6 DEF after
<1>2. CASE ip \notin DOMAIN n.ip2eth
  <2> DEFINE waiting == IF ip \in DOMAIN n.not_sent THEN n.not_sent[ip] ELSE <<>>
             asked == IF MustAsk(n, ip) THEN PushFrames(n, <<ARPRequest(n, ip)>>) ELSE n
             mapped == IF ip \in DOMAIN n.not_mapped THEN n.not_mapped
                       ELSE Put(n.not_mapped, ip, n.time_passed)
             queued == Put(n.not_sent, ip, Append(waiting, dgram))
             after == SendDatagram(n, dgram, ip)
  <2>1. /\ Proper(h, asked) /\ asked.ip2eth = n.ip2eth /\ asked.not_mapped = n.not_mapped
        /\ asked.not_sent = n.not_sent /\ asked.time_passed = n.time_passed
        /\ MustAsk(n, ip) => Has(asked.frames_out, {ARPRequest(n, ip)})
    <3>1. <<ARPRequest(n, ip)>> \in Seq(Frame)
      BY FramesAreFrames
    <3>2. Has(<<ARPRequest(n, ip)>>, {ARPRequest(n, ip)})
      BY DEF Has
    <3>3. Proper(h, n) /\ n.frames_out \in Seq(Frame)
      BY Zenon DEF Proper
    <3>4. Has(n.frames_out \o <<ARPRequest(n, ip)>>, {ARPRequest(n, ip)})
      BY <3>1, <3>2, <3>3, HasAppended, Zenon
    <3> QED BY <3>1, <3>3, <3>4, PushIsProper, Zenon
  <2>2. after = [asked EXCEPT !.not_mapped = mapped, !.not_sent = queued]
    BY <1>2, <2>1, Zenon DEF SendDatagram
  <2> HIDE DEF asked, after
  <2>3. /\ DOMAIN after = Fields /\ after.not_mapped = mapped /\ after.not_sent = queued
        /\ after.ip2eth = n.ip2eth /\ after.time_passed = n.time_passed
        /\ after.frames_out = asked.frames_out /\ after.ethernet_address = asked.ethernet_address
        /\ after.ip_address = asked.ip_address
    BY <2>1, <2>2 DEF Proper, Fields
  <2>4. Proper(h, after) /\ Fresh(after)
    BY <2>1, <2>3 DEF Proper, Fresh
  <2>5. DOMAIN queued = DOMAIN n.not_sent \cup {ip} /\ DOMAIN mapped = DOMAIN n.not_mapped \cup {ip}
    BY DEF Put
  <2>6. Append(waiting, dgram) \in Seq(Datagram) /\ Append(waiting, dgram) # <<>>
    <3>1. waiting \in Seq(Datagram)
      BY DEF Agree
    <3> HIDE DEF waiting
    <3> QED BY <3>1, SMTT(30)
  <2>7. \A x \in DOMAIN queued : queued[x] \in Seq(Datagram) /\ queued[x] # <<>>
    <3>1. queued[ip] = Append(waiting, dgram)
      BY DEF Put
    <3>2. \A x \in DOMAIN n.not_sent : x # ip => queued[x] = n.not_sent[x]
      BY DEF Put
    <3>3. \A x \in DOMAIN n.not_sent : n.not_sent[x] \in Seq(Datagram) /\ n.not_sent[x] # <<>>
      BY DEF Agree
    <3> HIDE DEF queued, waiting
    <3> QED BY <2>5, <2>6, <3>1, <3>2, <3>3
  <2>8. \A x \in DOMAIN mapped : mapped[x] \in Nat
    <3>1. n.time_passed \in Nat /\ \A x \in DOMAIN n.not_mapped : n.not_mapped[x] \in Nat
      BY Zenon DEF Proper, Agree
    <3> QED BY <3>1 DEF Put
  <2>9. Agree(after)
    <3> HIDE DEF queued, mapped
    <3>1. DOMAIN n.not_sent = DOMAIN n.not_mapped /\ DOMAIN n.not_sent \cap DOMAIN n.ip2eth = {}
      BY Zenon DEF Agree
    <3>2. /\ DOMAIN after.not_sent = DOMAIN after.not_mapped
          /\ DOMAIN after.not_sent \cap DOMAIN after.ip2eth = {}
      BY <1>2, <2>3, <2>5, <3>1, SMTT(30)
    <3> QED BY <2>3, <2>7, <2>8, <3>2, Zenon DEF Agree
  <2>10. Asks(n, ip, after)
    <3>1. ip \notin DOMAIN n.not_sent => MustAsk(n, ip)
      BY Zenon DEF Agree, MustAsk
    <3>2. DOMAIN after.not_sent = DOMAIN n.not_sent \cup {ip}
      BY <2>3, <2>5, Zenon
    <3> QED BY <2>1, <2>3, <3>1, <3>2, Zenon DEF Asks
  <2> QED BY <2>4, <2>9, <2>10, SMTT(30) DEF after
<1> QED BY <1>1, <1>2

\* What an ARP message makes of n: nothing waits for its sender any more, or
\* begins to wait, and a request for the own address is answered.
Answers(n, arp, after) ==
  /\ DOMAIN after.not_sent \subseteq DOMAIN n.not_sent
  /\ arp.sender_ip \notin DOMAIN after.not_sent
  /\ arp.opcode = "request" /\ arp.target_ip = n.ip_address =>
       Has(after.frames_out, {ARPReply(n, arp.sender_ip, arp.sender_eth)})

\* An ARP message makes an interface learn and then empty the queue of the
\* address learnt, so that the maps agree again.
LEMMA ARPKeepsGood ==
  ASSUME NEW h \in Hosts, NEW n, Good(h, n), NEW arp \in TrueARP
  PROVE  Good(h, ProcessARP(n, arp)) /\ Answers(n, arp, ProcessARP(n, arp))
<1> DEFINE ip == arp.sender_ip
           eth == arp.sender_eth
           entry == [eth |-> eth, time |-> n.time_passed]
           known == [n EXCEPT !.ip2eth = Put(n.ip2eth, ip, entry)]
           replied == IF arp.opcode = "request" /\ arp.target_ip = n.ip_address
                      THEN PushFrames(known, <<ARPReply(n, ip, eth)>>) ELSE known
           after == ProcessARP(n, arp)
<1>1. Truth(ip, eth)
  BY DEF TrueARP, Truth
<1>2. ip \in Ips /\ eth \in EthAddress
  BY <1>1, TruthIsAddress
<1>3. /\ Proper(h, known) /\ known.ip2eth = Put(n.ip2eth, ip, entry)
      /\ known.not_mapped = n.not_mapped /\ known.not_sent = n.not_sent
      /\ known.time_passed = n.time_passed /\ known.frames_out \in Seq(Frame)
  BY DEF Good, Proper, Fields
<1>4. entry.eth = eth /\ entry.time = n.time_passed
  OBVIOUS
<1> HIDE DEF entry
<1>5. Fresh(known)
  <2>1. n.time_passed \in Nat /\ n.time_passed <= n.time_passed + MappingTimeout
    BY TimeoutAssumption DEF Good, Proper
  <2> HIDE DEF known
  <2>2. /\ DOMAIN known.ip2eth = DOMAIN n.ip2eth \cup {ip} /\ known.ip2eth[ip] = entry
        /\ \A x \in DOMAIN n.ip2eth : x # ip => known.ip2eth[x] = n.ip2eth[x]
    <3> HIDE DEF ip
    <3> QED BY <1>3 DEF Put
  <2> HIDE DEF ip, eth
  <2> QED BY <1>1, <1>3, <1>4, <2>1, <2>2, SMTT(30) DEF Good, Fresh
<1> HIDE DEF known
<1>6. /\ Proper(h, replied) /\ replied.ip2eth = known.ip2eth /\ replied.not_mapped = n.not_mapped
      /\ replied.not_sent = n.not_sent /\ replied.time_passed = n.time_passed
      /\ arp.opcode = "request" /\ arp.target_ip = n.ip_address =>
           Has(replied.frames_out, {ARPReply(n, ip, eth)})
  <2>1. <<ARPReply(n, ip, eth)>> \in Seq(Frame)
    BY <1>2, FramesAreFrames DEF Good
  <2>2. Has(<<ARPReply(n, ip, eth)>>, {ARPReply(n, ip, eth)})
    BY DEF Has
  <2>3. Has(known.frames_out \o <<ARPReply(n, ip, eth)>>, {ARPReply(n, ip, eth)})
    BY <1>3, <2>1, <2>2, HasAppended, Zenon
  <2> QED BY <1>3, <2>1, <2>3, PushIsProper, Zenon
<1>7. after = SendNotSentDatagrams(replied, ip, eth)
  BY DEF ProcessARP, known, entry
<1> HIDE DEF replied, after
<1>8. DOMAIN replied.ip2eth = DOMAIN n.ip2eth \cup {ip}
  <2> HIDE DEF ip
  <2> QED BY <1>3, <1>6, SMTT(30) DEF Put
<1>9. CASE ip \notin DOMAIN n.not_sent
  <2>1. after = replied
    BY <1>6, <1>7, <1>9, SMTT(30) DEF SendNotSentDatagrams
  <2>2. Agree(replied)
    BY <1>6, <1>8, <1>9, SMTT(30) DEF Good, Agree
  <2>3. Fresh(replied)
    BY <1>3, <1>5, <1>6, SMTT(30) DEF Fresh
  <2>4. Answers(n, arp, after)
    BY <1>6, <1>9, <2>1, Zenon DEF Answers
  <2> QED BY <1>6, <2>1, <2>2, <2>3, <2>4, SMTT(30) DEF Good, after
<1>10. CASE ip \in DOMAIN n.not_sent
  <2> DEFINE queue == n.not_sent[ip]
             frames == [k \in DOMAIN queue |-> IPv4Frame(replied, eth, queue[k])]
             pushed == PushFrames(replied, frames)
  <2>1. frames \in Seq(Frame)
    <3>1. queue \in Seq(Datagram)
      BY <1>10 DEF Good, Agree
    <3>2. DOMAIN queue = 1 .. Len(queue) /\ Len(queue) \in Nat /\ \A k \in DOMAIN queue : queue[k] \in Datagram
      BY <3>1, SMTT(30)
    <3>3. \A k \in DOMAIN queue : IPv4Frame(replied, eth, queue[k]) \in Frame
      BY <1>2, <1>6, <3>2, FramesAreFrames
    <3> HIDE DEF queue
    <3> QED BY <3>2, <3>3
  <2>2. /\ Proper(h, pushed) /\ pushed.ip2eth = replied.ip2eth /\ pushed.not_mapped = n.not_mapped
        /\ pushed.not_sent = n.not_sent /\ pushed.time_passed = n.time_passed
        /\ arp.opcode = "request" /\ arp.target_ip = n.ip_address =>
             Has(pushed.frames_out, {ARPReply(n, ip, eth)})
    <3> HIDE DEF frames
    <3>1. Proper(h, replied) /\ replied.frames_out \in Seq(Frame)
      BY <1>6, Zenon DEF Proper
    <3>2. /\ Proper(h, pushed) /\ pushed.ip2eth = replied.ip2eth
          /\ pushed.not_mapped = replied.not_mapped /\ pushed.not_sent = replied.not_sent
          /\ pushed.time_passed = replied.time_passed
          /\ pushed.frames_out = replied.frames_out \o frames
      BY <2>1, <3>1, PushIsProper, SMTT(30)
    <3>3. Has(replied.frames_out, {ARPReply(n, ip, eth)}) =>
            Has(replied.frames_out \o frames, {ARPReply(n, ip, eth)})
      BY <2>1, <3>1, HasAppended, Zenon
    <3> QED BY <1>6, <3>2, <3>3, Zenon
  <2>3. after = [pushed EXCEPT !.not_sent = Erase(n.not_sent, ip), !.not_mapped = Erase(n.not_mapped, ip)]
    BY <1>6, <1>7, <1>10, <2>2, Zenon DEF SendNotSentDatagrams
  <2> HIDE DEF pushed
  <2>4. /\ Proper(h, after) /\ after.ip2eth = replied.ip2eth /\ after.time_passed = n.time_passed
        /\ after.not_sent = Erase(n.not_sent, ip) /\ after.not_mapped = Erase(n.not_mapped, ip)
        /\ after.frames_out = pushed.frames_out
    BY <2>2, <2>3, SMTT(30) DEF Proper, Fields
  <2>a. /\ DOMAIN after.not_sent = DOMAIN n.not_sent \ {ip}
        /\ DOMAIN after.not_mapped = DOMAIN n.not_mapped \ {ip}
        /\ \A x \in DOMAIN n.not_sent \ {ip} : after.not_sent[x] = n.not_sent[x]
        /\ \A x \in DOMAIN n.not_mapped \ {ip} : after.not_mapped[x] = n.not_mapped[x]
    <3> HIDE DEF ip
    <3> QED BY <2>4, SMTT(30) DEF Erase, Restrict
  <2>5. Agree(after)
    <3> HIDE DEF ip
    <3> QED BY <1>6, <1>8, <2>4, <2>a, SMTT(30) DEF Good, Agree
  <2>6. Fresh(after)
    BY <1>5, <1>3, <1>6, <2>4, SMTT(30) DEF Fresh
  <2>7. Answers(n, arp, after)
    <3>1. DOMAIN after.not_sent \subseteq DOMAIN n.not_sent /\ ip \notin DOMAIN after.not_sent
      BY <2>a, Zenon
    <3> QED BY <2>2, <2>4, <3>1, Zenon DEF Answers
  <2> QED BY <2>4, <2>5, <2>6, <2>7 DEF Good, after
<1> QED BY <1>9, <1>10

\* recv_frame() makes n of m.
Reacts(m, frame, n) ==
  IF IsForMe(m, frame) /\ frame.type = "ARP" /\ frame.payload # Damaged
  THEN Answers(m, frame.payload, n) ELSE n = m

LEMMA RecvKeepsGood ==
  ASSUME NEW h \in Hosts, NEW n, Good(h, n), NEW frame \in Frame
  PROVE  Good(h, RecvFrame(n, frame)) /\ Reacts(n, frame, RecvFrame(n, frame))
<1>1. CASE IsForMe(n, frame) /\ frame.type = "ARP" /\ frame.payload # Damaged
  <2>1. frame.payload \in TrueARP
    BY <1>1 DEF Frame, AnyFrame
  <2>2. RecvFrame(n, frame) = ProcessARP(n, frame.payload)
    BY <1>1 DEF RecvFrame
  <2> QED BY <1>1, <2>1, <2>2, ARPKeepsGood, Zenon DEF Reacts
<1>2. CASE ~(IsForMe(n, frame) /\ frame.type = "ARP" /\ frame.payload # Damaged)
  <2>1. RecvFrame(n, frame) = n
    BY <1>2, Zenon DEF RecvFrame
  <2> QED BY <1>2, <2>1, Zenon DEF Reacts
<1> QED BY <1>1, <1>2, Zenon

\* tick() only forgets mappings, exactly those that are too old.
LEMMA TickKeepsGood ==
  ASSUME NEW h \in Hosts, NEW n, Good(h, n), NEW ms \in Nat
  PROVE  Good(h, InterfaceTick(n, ms))
<1> DEFINE now == n.time_passed + ms
           kept == { ip \in DOMAIN n.ip2eth : n.ip2eth[ip].time + MappingTimeout >= now }
           after == InterfaceTick(n, ms)
<1>1. after = [n EXCEPT !.time_passed = now, !.ip2eth = [ip \in kept |-> n.ip2eth[ip]]]
  BY DEF InterfaceTick, RestrictValues, Restrict
<1> HIDE DEF after
<1>2. /\ DOMAIN after = Fields /\ after.time_passed = now /\ after.ip2eth = [ip \in kept |-> n.ip2eth[ip]]
      /\ after.not_mapped = n.not_mapped /\ after.not_sent = n.not_sent
      /\ after.frames_out = n.frames_out /\ after.ethernet_address = n.ethernet_address
      /\ after.ip_address = n.ip_address
  BY <1>1 DEF Good, Proper, Fields
<1>3. Proper(h, after)
  BY <1>2 DEF Good, Proper
<1>4. Agree(after)
  BY <1>2 DEF Good, Agree
<1>5. Fresh(after)
  <2>1. n.time_passed \in Nat
    BY DEF Good, Proper
  <2> QED BY <1>2, <2>1, TimeoutAssumption DEF Good, Fresh
<1> QED BY <1>3, <1>4, <1>5 DEF Good, after

\* send_pending() moves true frames to the other hosts.
LEMMA PendingKeeps ==
  ASSUME NetInv, NEW h \in Hosts, NEW n, Good(h, n), NEW received \in Seq(Frame),
         SendPending(h, n, received)
  PROVE  NetInv'
<1> DEFINE m == [n EXCEPT !.frames_out = <<>>]
<1>1. DOMAIN iface' = Hosts /\ DOMAIN inbox' = Hosts
  BY DEF NetInv, SendPending
<1>2. iface'[h] = m /\ \A g \in Hosts : g # h => iface'[g] = iface[g]
  BY DEF NetInv, SendPending
<1>3. Good(h, m)
  <2>1. /\ DOMAIN m = Fields /\ m.frames_out = <<>> /\ m.ip2eth = n.ip2eth /\ m.not_mapped = n.not_mapped
        /\ m.not_sent = n.not_sent /\ m.time_passed = n.time_passed
        /\ m.ethernet_address = n.ethernet_address /\ m.ip_address = n.ip_address
    BY DEF Good, Proper, Fields
  <2> HIDE DEF m
  <2>2. Proper(h, m)
    BY <2>1 DEF Good, Proper
  <2>3. Agree(m) /\ Fresh(m)
    BY <2>1 DEF Good, Agree, Fresh
  <2> QED BY <2>2, <2>3 DEF Good
<1>4. \A g \in Hosts : inbox'[g] \in Seq(Frame)
  <2>1. n.frames_out \in Seq(Frame) /\ \A g \in Hosts : inbox[g] \in Seq(Frame)
    BY DEF NetInv, Good, Proper
  <2>2. \A g \in Hosts : inbox'[g] = IF g = h THEN received ELSE inbox[g] \o n.frames_out
    BY DEF SendPending
  <2>3. \A g \in Hosts : inbox[g] \o n.frames_out \in Seq(Frame)
    BY <2>1
  <2> QED BY <2>2, <2>3, Zenon
<1>5. \A g \in Hosts : Good(g, iface'[g])
  <2> HIDE DEF m
  <2> QED BY <1>2, <1>3 DEF NetInv
<1> QED BY <1>1, <1>4, <1>5 DEF NetInv
-----------------------------------------------------------------------------
LEMMA InitGood == Init => IInv
<1> SUFFICES ASSUME Init, NEW h \in Hosts PROVE Good(h, iface[h]) /\ inbox[h] \in Seq(Frame)
  BY DEF Init, IInv, NetInv
<1>1. iface[h] = NetworkInterfaceNew(EthOf[h], IpOf[h]) /\ inbox[h] = <<>>
  BY DEF Init
<1> DEFINE n == iface[h]
<1>2. /\ DOMAIN n = Fields /\ n.ethernet_address = EthOf[h] /\ n.ip_address = IpOf[h]
      /\ n.frames_out = <<>> /\ n.time_passed = 0 /\ DOMAIN n.ip2eth = {}
      /\ DOMAIN n.not_mapped = {} /\ DOMAIN n.not_sent = {}
  BY <1>1 DEF NetworkInterfaceNew, EmptyMap, Fields
<1>3. Proper(h, n) /\ Agree(n) /\ Fresh(n)
  BY <1>2, SMTT(30) DEF Proper, Agree, Fresh
<1> QED BY <1>1, <1>3 DEF Good

\* What the adapter's write() and read() come to.
LEMMA SendFacts ==
  ASSUME IInv, NEW s \in Hosts, NEW d \in Hosts, Send(s, d)
  PROVE  /\ s # d /\ count' \in [Hosts -> [Hosts -> Nat]] /\ lost' = lost
         /\ \A g, h \in Hosts : <<g, h>> # <<s, d>> => count'[g][h] = count[g][h]
         /\ \E n : Good(s, n) /\ Asks(iface[s], IpOf[d], n) /\ SendPending(s, n, inbox[s])
<1> DEFINE dgram == [src |-> s, dst |-> d, number |-> count'[s][d]]
           n == SendDatagram(iface[s], dgram, IpOf[d])
           c == count[s][d]
           most == Sends[s, d]
           row == [count[s] EXCEPT ![d] = c + 1]
<1>a. NetInv /\ count \in [Hosts -> [Hosts -> Nat]]
  BY Zenon DEF IInv
<1>1. c < most /\ c \in Nat /\ most \in Nat
  <2>1. c < most
    BY Zenon DEF Send
  <2>2. c \in Nat
    BY <1>a
  <2>3. most \in Nat
    BY EthernetAssumption, Zenon
  <2> QED BY <2>1, <2>2, <2>3, Zenon
<1>2. s # d
  <2>1. most # 0
    <3> HIDE DEF c, most
    <3> QED BY <1>1
  <2> QED BY <2>1, EthernetAssumption, Zenon
<1>3. count' = [count EXCEPT ![s] = row]
  BY Zenon DEF Send
<1>4. count'[s][d] = c + 1 /\ count' \in [Hosts -> [Hosts -> Nat]]
  <2>1. count[s] \in [Hosts -> Nat]
    BY <1>a
  <2> HIDE DEF c, most
  <2>2. row \in [Hosts -> Nat] /\ row[d] = c + 1
    BY <1>1, <2>1, SMTT(30)
  <2> HIDE DEF row
  <2> QED BY <1>a, <1>3, <2>2, Zenon
<1>5. ASSUME NEW g \in Hosts, NEW h \in Hosts, <<g, h>> # <<s, d>>
      PROVE  count'[g][h] = count[g][h]
  <2>1. CASE g # s
    BY <1>a, <1>3, <2>1, Zenon
  <2>2. CASE g = s
    <3>1. h # d
      BY <1>5, <2>2, Zenon
    <3>2. row[h] = count[s][h]
      BY <1>a, <3>1
    <3> HIDE DEF row
    <3> QED BY <1>a, <1>3, <2>2, <3>2, Zenon
  <2> QED BY <2>1, <2>2, Zenon
<1>6. dgram \in DatagramsOf(s, d)
  <2> HIDE DEF c, most
  <2>1. c + 1 \in 1 .. most
    BY <1>1
  <2>2. [src |-> s, dst |-> d, number |-> c + 1] \in [src : {s}, dst : {d}, number : 1 .. most]
    BY <2>1
  <2> QED BY <1>4, <2>2, Zenon DEF DatagramsOf, most
<1>7. dgram \in Datagram
  <2> HIDE DEF dgram
  <2> QED BY <1>6 DEF Datagram
<1>8. IpOf[d] \in Ips
  BY EthernetAssumption, Zenon DEF Ips, Injection, Range
<1>9. SendPending(s, n, inbox[s]) /\ lost' = lost
  BY Zenon DEF Send
<1> HIDE DEF dgram
<1>10. Good(s, n) /\ Asks(iface[s], IpOf[d], n)
  BY <1>a, <1>7, <1>8, SendKeepsGood, Zenon DEF NetInv
<1> HIDE DEF n
<1> QED BY <1>2, <1>4, <1>5, <1>9, <1>10, Zenon

LEMMA ReceiveFacts ==
  ASSUME IInv, NEW h \in Hosts, Receive(h)
  PROVE  /\ inbox[h] \in Seq(Frame) /\ inbox[h] # <<>> /\ Head(inbox[h]) \in Frame
         /\ Tail(inbox[h]) \in Seq(Frame) /\ count' = count /\ lost' = lost
         /\ \E n : /\ Good(h, n) /\ Reacts(iface[h], Head(inbox[h]), n)
                  /\ SendPending(h, n, Tail(inbox[h]))
<1> DEFINE frame == Head(inbox[h])
           n == RecvFrame(iface[h], frame)
<1>1. inbox[h] \in Seq(Frame) /\ inbox[h] # <<>> /\ Good(h, iface[h])
  BY Zenon DEF IInv, NetInv, Receive
<1>2. frame \in Frame /\ Tail(inbox[h]) \in Seq(Frame)
  BY <1>1
<1>3. SendPending(h, n, Tail(inbox[h])) /\ count' = count /\ lost' = lost
  BY Zenon DEF Receive
<1> HIDE DEF frame
<1>4. Good(h, n) /\ Reacts(iface[h], frame, n)
  BY <1>1, <1>2, RecvKeepsGood, Zenon
<1> HIDE DEF n
<1> QED BY <1>1, <1>2, <1>3, <1>4, Zenon DEF frame

\* One step per action of the specification.
LEMMA NextGood == IInv /\ [Next]_vars => IInv'
<1> SUFFICES ASSUME IInv, [Next]_vars PROVE IInv'
  OBVIOUS
<1>a. NetInv /\ count \in [Hosts -> [Hosts -> Nat]] /\ lost \in Seq(Frame)
  BY DEF IInv
<1>1. ASSUME NEW s \in Hosts, NEW d \in Hosts, Send(s, d) PROVE IInv'
  <2>1. PICK n : Good(s, n) /\ SendPending(s, n, inbox[s])
    BY <1>1, SendFacts, Zenon
  <2>2. NetInv'
    BY <1>a, <2>1, PendingKeeps, Zenon DEF NetInv
  <2> QED BY <1>a, <1>1, <2>2, SendFacts, Zenon DEF IInv
<1>2. ASSUME NEW h \in Hosts, Receive(h) PROVE IInv'
  <2>1. PICK n : Good(h, n) /\ SendPending(h, n, Tail(inbox[h]))
    BY <1>2, ReceiveFacts, Zenon
  <2>2. NetInv'
    BY <1>a, <1>2, <2>1, ReceiveFacts, PendingKeeps, Zenon
  <2> QED BY <1>a, <1>2, <2>2, ReceiveFacts, Zenon DEF IInv
<1>3. ASSUME NEW ms \in Ticks, Tick(ms) PROVE IInv'
  <2>1. ms \in Nat
    BY EthernetAssumption, Zenon
  <2>2. \A h \in Hosts : Good(h, InterfaceTick(iface[h], ms))
    BY <1>a, <2>1, TickKeepsGood, SMTT(30) DEF NetInv
  <2> QED BY <1>a, <1>3, <2>2, SMTT(30) DEF IInv, NetInv, Tick
<1>4. ASSUME NEW h \in Hosts, Lose(h) PROVE IInv'
  <2>1. inbox[h] \in Seq(Frame) /\ inbox[h] # <<>>
    BY <1>a, <1>4 DEF NetInv, Lose
  <2>2. Tail(inbox[h]) \in Seq(Frame)
    BY <2>1
  <2>3. lost' \in Seq(Frame)
    BY <1>a, <1>4, <2>1 DEF Lose
  <2> QED BY <1>a, <1>4, <2>2, <2>3, SMTT(30) DEF IInv, NetInv, Lose
<1>5. ASSUME NEW h \in Hosts, Damage(h) PROVE IInv'
  <2> DEFINE frames == inbox[h]
             damaged == [frames EXCEPT ![1].payload = Damaged]
  <2>1. frames \in Seq(Frame) /\ frames # <<>> /\ 1 \in DOMAIN frames
    BY <1>a, <1>5 DEF NetInv, Damage
  <2>2. [frames[1] EXCEPT !.payload = Damaged] \in Frame
    BY <2>1 DEF Frame, AnyFrame, AsksAll
  <2>3. damaged \in Seq(Frame)
    BY <2>1, <2>2
  <2>4. inbox' = [inbox EXCEPT ![h] = damaged] /\ iface' = iface /\ count' = count
    BY <1>5 DEF Damage
  <2>5. lost' \in Seq(Frame)
    BY <1>a, <1>5, <2>1 DEF Damage
  <2> HIDE DEF damaged
  <2> QED BY <1>a, <2>3, <2>4, <2>5, SMTT(30) DEF IInv, NetInv
<1>6. CASE UNCHANGED vars
  BY <1>a, <1>6 DEF IInv, NetInv, vars
<1> QED BY <1>1, <1>2, <1>3, <1>4, <1>5, <1>6 DEF Next

\* The types and the maps of every interface.
THEOREM EthernetInvariant == Spec => []IInv
  BY InitGood, NextGood, PTL DEF Spec

\* For any hosts, traffic, losses and timeouts the maps of an interface agree:
\* the erase(find()) of _send_not_sent_datagrams() always finds its key, and no
\* datagram overtakes one that waits.
THEOREM MapsAlwaysAgree == Spec => []MapsAgree
<1>1. IInv => MapsAgree
  BY DEF IInv, NetInv, Good, Agree, MapsAgree
<1> QED BY <1>1, EthernetInvariant, PTL

\* For any hosts, traffic, losses and timeouts a mapping is that of a host and
\* at most MappingTimeout old.
THEOREM MappingsAlwaysFresh == Spec => []MappingsFresh
<1>1. IInv => MappingsFresh
  BY DEF IInv, NetInv, Good, Fresh, Truth, MappingsFresh
<1> QED BY <1>1, EthernetInvariant, PTL
-----------------------------------------------------------------------------
\* The requests from h for the address ip, and what tells h that address.
RequestsOf(h, ip) == { f \in Frame : IsRequestFrom(f, h, ip) }

AnswersTo(h, ip) == { f \in Frame : IsAnswer(f, h, ip) }

\* Why datagrams of h for g may wait: to_g and to_h are the frames under way
\* to them, gone the frames lost.
Excuses(h, g, to_g, to_h, gone) ==
  \/ Has(to_g, RequestsOf(h, IpOf[g]))
  \/ Has(to_h, AnswersTo(h, IpOf[g]))
  \/ Has(gone, RequestsOf(h, IpOf[g])) \/ Has(gone, AnswersTo(h, IpOf[g]))

Waits(h, g, n) == IpOf[g] \in DOMAIN n.not_sent

NoneStranded ==
  \A h, g \in Hosts : Waits(h, g, iface[h]) => Excuses(h, g, inbox[g], inbox[h], lost)

LEMMA StrandedIs == IInv => (NoneStranded <=> OnlyLossStrands)
<1> SUFFICES ASSUME IInv, NEW h \in Hosts, NEW g \in Hosts
             PROVE  Excuses(h, g, inbox[g], inbox[h], lost) <=>
                      \/ In(inbox[g], LAMBDA f : IsRequestFrom(f, h, IpOf[g]))
                      \/ In(inbox[h], LAMBDA f : IsAnswer(f, h, IpOf[g]))
                      \/ In(lost, LAMBDA f : IsRequestFrom(f, h, IpOf[g]) \/ IsAnswer(f, h, IpOf[g]))
  BY Zenon DEF NoneStranded, OnlyLossStrands, Waits
<1>1. inbox[g] \in Seq(Frame) /\ inbox[h] \in Seq(Frame) /\ lost \in Seq(Frame)
  BY Zenon DEF IInv, NetInv
<1>2. /\ \A i \in DOMAIN inbox[g] : inbox[g][i] \in Frame
      /\ \A i \in DOMAIN inbox[h] : inbox[h][i] \in Frame
      /\ \A i \in DOMAIN lost : lost[i] \in Frame
  BY <1>1
<1> QED BY <1>2, Zenon DEF Excuses, Has, RequestsOf, AnswersTo, In

LEMMA HasMore ==
  ASSUME NEW u, NEW S, NEW T, Has(u, S), \A f \in S : f \in T
  PROVE  Has(u, T)
  BY Zenon DEF Has

\* Excuses do not go away when frames are added.
LEMMA ExcusesGrow ==
  ASSUME NEW h, NEW g, NEW u, NEW v, NEW u2, NEW v2, NEW gone, Excuses(h, g, u, v, gone),
         \A S : Has(u, S) => Has(u2, S), \A S : Has(v, S) => Has(v2, S)
  PROVE  Excuses(h, g, u2, v2, gone)
  BY Zenon DEF Excuses

\* The ARP messages are what they are taken for.
LEMMA ARPMessages ==
  ASSUME NEW h \in Hosts, NEW n, Proper(h, n), NEW g \in Hosts
  PROVE  /\ ARPRequest(n, IpOf[g]) \in RequestsOf(h, IpOf[g])
         /\ ARPReply(n, IpOf[g], EthOf[g]) \in AnswersTo(g, IpOf[h])
<1>1. IpOf[g] \in Ips /\ EthOf[g] \in EthAddress /\ IpOf[h] \in Ips /\ EthOf[h] \in Range(EthOf)
  BY EthernetAssumption, Zenon DEF Ips, EthAddress, Injection, Range
<1>2. ARPRequest(n, IpOf[g]) \in Frame /\ ARPReply(n, IpOf[g], EthOf[g]) \in Frame
  BY <1>1, FramesAreFrames, Zenon
<1>3. \A op \in {"request", "reply"} :
        [opcode |-> op, sender_ip |-> IpOf[h], sender_eth |-> EthOf[h], target_ip |-> IpOf[g]] # Damaged
  <2>1. \A op \in {"request", "reply"} :
          [opcode |-> op, sender_ip |-> IpOf[h], sender_eth |-> EthOf[h], target_ip |-> IpOf[g]]
            \in [opcode : {"request", "reply"}, sender_ip : Range(IpOf),
                sender_eth : Range(EthOf), target_ip : Range(IpOf)]
    BY <1>1 DEF Ips
  <2> QED BY <2>1, EthernetAssumption, Zenon
<1>4. n.ethernet_address = EthOf[h] /\ n.ip_address = IpOf[h]
  BY Zenon DEF Proper
<1>5. IsRequestFrom(ARPRequest(n, IpOf[g]), h, IpOf[g])
  BY <1>3, <1>4, SMTT(30) DEF IsRequestFrom, ARPRequest
<1>6. IsAnswer(ARPReply(n, IpOf[g], EthOf[g]), g, IpOf[h])
  BY <1>3, <1>4 DEF IsAnswer, ARPReply
<1> QED BY <1>2, <1>5, <1>6, Zenon DEF RequestsOf, AnswersTo

\* What send_pending() changes.
LEMMA PendingFacts ==
  ASSUME IInv, NEW h \in Hosts, NEW n, Good(h, n), NEW received, SendPending(h, n, received)
  PROVE  /\ iface'[h].not_sent = n.not_sent /\ inbox'[h] = received
         /\ \A g \in Hosts : g # h =>
              /\ iface'[g] = iface[g] /\ inbox'[g] = inbox[g] \o n.frames_out
              /\ \A S : Has(inbox[g], S) \/ Has(n.frames_out, S) => Has(inbox'[g], S)
<1>1. iface'[h] = [n EXCEPT !.frames_out = <<>>] /\ \A g \in Hosts : g # h => iface'[g] = iface[g]
  BY Zenon DEF IInv, NetInv, SendPending
<1>2. DOMAIN n = Fields /\ n.frames_out \in Seq(Frame)
  BY Zenon DEF Good, Proper
<1>3. iface'[h].not_sent = n.not_sent
  BY <1>1, <1>2 DEF Fields
<1>4. inbox'[h] = received /\ \A g \in Hosts : g # h => inbox'[g] = inbox[g] \o n.frames_out
  BY Zenon DEF SendPending
<1>5. \A g \in Hosts : inbox[g] \in Seq(Frame)
  BY Zenon DEF IInv, NetInv
<1>6. ASSUME NEW g \in Hosts, g # h, NEW S, Has(inbox[g], S) \/ Has(n.frames_out, S)
      PROVE  Has(inbox'[g], S)
  <2>1. Has(inbox[g] \o n.frames_out, S)
    BY <1>2, <1>5, <1>6, HasAppended, Zenon
  <2> QED BY <1>4, <1>6, <2>1, Zenon
<1> QED BY <1>1, <1>3, <1>4, <1>6, Zenon

\* A datagram that begins to wait has a request on its way.
LEMMA SendStrands ==
  ASSUME IInv, NoneStranded, NEW s \in Hosts, NEW d \in Hosts, Send(s, d)
  PROVE  NoneStranded'
<1>1. s # d /\ lost' = lost
  BY SendFacts, Zenon
<1>2. PICK n : Good(s, n) /\ Asks(iface[s], IpOf[d], n) /\ SendPending(s, n, inbox[s])
  BY SendFacts, Zenon
<1>3. /\ iface'[s].not_sent = n.not_sent /\ inbox'[s] = inbox[s]
      /\ \A g \in Hosts : g # s =>
           /\ iface'[g] = iface[g]
           /\ \A S : Has(inbox[g], S) \/ Has(n.frames_out, S) => Has(inbox'[g], S)
  BY <1>2, PendingFacts, Zenon
<1>4. \A g \in Hosts : \A S : Has(inbox[g], S) => Has(inbox'[g], S)
  BY <1>3, Zenon
<1> SUFFICES ASSUME NEW h \in Hosts, NEW g \in Hosts, Waits(h, g, iface'[h])
             PROVE  Excuses(h, g, inbox'[g], inbox'[h], lost)
  BY <1>1, Zenon DEF NoneStranded, Waits
<1>5. CASE Waits(h, g, iface[h])
  <2>1. Excuses(h, g, inbox[g], inbox[h], lost)
    BY <1>5, Zenon DEF NoneStranded
  <2> QED BY <1>4, <2>1, ExcusesGrow, Zenon
<1>6. CASE ~Waits(h, g, iface[h])
  <2>1. h = s
    BY <1>3, <1>6, Zenon DEF Waits
  <2>2. IpOf[g] \in DOMAIN n.not_sent /\ IpOf[g] \notin DOMAIN iface[s].not_sent
    BY <1>3, <1>6, <2>1, Zenon DEF Waits
  <2>3. IpOf[g] = IpOf[d] /\ Has(n.frames_out, {ARPRequest(iface[s], IpOf[d])})
    BY <1>2, <2>2, Zenon DEF Asks
  <2>4. g = d
    BY <2>3, EthernetAssumption, Zenon DEF Injection, IsInjective
  <2>5. Has(inbox'[d], {ARPRequest(iface[s], IpOf[d])})
    BY <1>1, <1>3, <2>3, Zenon
  <2>6. Proper(s, iface[s])
    BY Zenon DEF IInv, NetInv, Good
  <2>7. \A f \in {ARPRequest(iface[s], IpOf[d])} : f \in RequestsOf(s, IpOf[d])
    BY <2>6, ARPMessages, Zenon
  <2>8. Has(inbox'[d], RequestsOf(s, IpOf[d]))
    BY <2>5, <2>7, HasMore, Zenon
  <2> QED BY <2>1, <2>4, <2>8, Zenon DEF Excuses
<1> QED BY <1>5, <1>6, Zenon

\* The messages of a request from h, and of an answer for it.
LEMMA RequestsArrive ==
  ASSUME NEW h \in Hosts, NEW g \in Hosts, NEW n, Proper(g, n), NEW f \in RequestsOf(h, IpOf[g])
  PROVE  /\ IsForMe(n, f) /\ f.type = "ARP" /\ f.payload # Damaged
         /\ f.payload.opcode = "request" /\ f.payload.target_ip = n.ip_address
         /\ f.payload.sender_ip = IpOf[h] /\ f.payload.sender_eth = EthOf[h]
<1>1. /\ f \in Frame /\ f.type = "ARP" /\ f.payload # Damaged /\ f.payload.opcode = "request"
      /\ f.payload.sender_ip = IpOf[h] /\ f.payload.target_ip = IpOf[g]
  BY Zenon DEF RequestsOf, IsRequestFrom
<1>2. f.dst = Broadcast /\ f \in AnyFrame
  BY <1>1, Zenon DEF Frame, AsksAll
<1>3. f.payload \in TrueARP
  BY <1>1, <1>2 DEF AnyFrame
<1>4. PICK k \in Hosts : f.payload.sender_ip = IpOf[k] /\ f.payload.sender_eth = EthOf[k]
  BY <1>3, SMTT(30) DEF TrueARP
<1>5. k = h
  BY <1>1, <1>4, EthernetAssumption, Zenon DEF Injection, IsInjective
<1>6. n.ip_address = IpOf[g]
  BY Zenon DEF Proper
<1> QED BY <1>1, <1>2, <1>4, <1>5, <1>6, Zenon DEF IsForMe

LEMMA AnswersArrive ==
  ASSUME NEW h \in Hosts, NEW n, Proper(h, n), NEW ip, NEW f \in AnswersTo(h, ip)
  PROVE  IsForMe(n, f) /\ f.type = "ARP" /\ f.payload # Damaged /\ f.payload.sender_ip = ip
  BY Zenon DEF AnswersTo, IsAnswer, IsForMe, Proper

\* A request that arrives turns into an answer, and an answer that arrives ends
\* the waiting.
LEMMA ReceiveStrands ==
  ASSUME IInv, NoneStranded, NEW k \in Hosts, Receive(k)
  PROVE  NoneStranded'
<1> DEFINE frame == Head(inbox[k])
           rest == Tail(inbox[k])
<1>1. inbox[k] \in Seq(Frame) /\ inbox[k] # <<>> /\ lost' = lost
  BY ReceiveFacts, Zenon
<1>2. PICK n : Good(k, n) /\ Reacts(iface[k], frame, n) /\ SendPending(k, n, rest)
  BY ReceiveFacts, Zenon
<1>3. /\ iface'[k].not_sent = n.not_sent /\ inbox'[k] = rest
      /\ \A g \in Hosts : g # k =>
           /\ iface'[g] = iface[g]
           /\ \A S : Has(inbox[g], S) \/ Has(n.frames_out, S) => Has(inbox'[g], S)
  BY <1>2, PendingFacts, Zenon
<1>4. \A S : Has(inbox[k], S) => frame \in S \/ Has(rest, S)
  BY <1>1, HasTail, Zenon
<1>5. Proper(k, iface[k])
  BY Zenon DEF IInv, NetInv, Good
<1> HIDE DEF frame, rest
<1>6. DOMAIN n.not_sent \subseteq DOMAIN iface[k].not_sent
  BY <1>2, Zenon DEF Reacts, Answers
<1> SUFFICES ASSUME NEW h \in Hosts, NEW g \in Hosts, Waits(h, g, iface'[h])
             PROVE  Excuses(h, g, inbox'[g], inbox'[h], lost)
  BY <1>1, Zenon DEF NoneStranded, Waits
<1>7. Waits(h, g, iface[h])
  BY <1>3, <1>6, Zenon DEF Waits
<1>8. Excuses(h, g, inbox[g], inbox[h], lost)
  BY <1>7, Zenon DEF NoneStranded
<1>9. CASE Has(inbox[g], RequestsOf(h, IpOf[g]))
  <2>1. CASE g # k \/ Has(rest, RequestsOf(h, IpOf[g]))
    BY <1>3, <1>9, <2>1, Zenon DEF Excuses
  <2>2. CASE g = k /\ frame \in RequestsOf(h, IpOf[g])
    <3>1. /\ IsForMe(iface[k], frame) /\ frame.type = "ARP" /\ frame.payload # Damaged
          /\ frame.payload.opcode = "request" /\ frame.payload.target_ip = iface[k].ip_address
          /\ frame.payload.sender_ip = IpOf[h] /\ frame.payload.sender_eth = EthOf[h]
      <4>1. frame \in RequestsOf(h, IpOf[k])
        BY <2>2, Zenon
      <4> QED BY <1>5, <4>1, RequestsArrive, SMTT(30)
    <3>2. /\ IpOf[h] \notin DOMAIN n.not_sent
          /\ Has(n.frames_out, {ARPReply(iface[k], IpOf[h], EthOf[h])})
      BY <1>2, <3>1, Zenon DEF Reacts, Answers
    <3>3. h # k
      BY <1>3, <2>2, <3>2, Zenon DEF Waits
    <3>4. Has(inbox'[h], {ARPReply(iface[k], IpOf[h], EthOf[h])})
      BY <1>3, <3>2, <3>3, Zenon
    <3>5. \A f \in {ARPReply(iface[k], IpOf[h], EthOf[h])} : f \in AnswersTo(h, IpOf[k])
      BY <1>5, ARPMessages, Zenon
    <3>6. Has(inbox'[h], AnswersTo(h, IpOf[k]))
      BY <3>4, <3>5, HasMore, Zenon
    <3> QED BY <2>2, <3>6, Zenon DEF Excuses
  <2> QED BY <1>4, <1>9, <2>1, <2>2, Zenon
<1>10. CASE Has(inbox[h], AnswersTo(h, IpOf[g]))
  <2>1. CASE h # k \/ Has(rest, AnswersTo(h, IpOf[g]))
    BY <1>3, <1>10, <2>1, Zenon DEF Excuses
  <2>2. CASE h = k /\ frame \in AnswersTo(h, IpOf[g])
    <3>1. /\ IsForMe(iface[k], frame) /\ frame.type = "ARP" /\ frame.payload # Damaged
          /\ frame.payload.sender_ip = IpOf[g]
      <4>1. frame \in AnswersTo(k, IpOf[g])
        BY <2>2, Zenon
      <4> QED BY <1>5, <4>1, AnswersArrive, SMTT(30)
    <3>2. IpOf[g] \notin DOMAIN n.not_sent
      BY <1>2, <3>1, Zenon DEF Reacts, Answers
    <3> QED BY <1>3, <2>2, <3>2, Zenon DEF Waits
  <2> QED BY <1>4, <1>10, <2>1, <2>2, Zenon
<1> QED BY <1>8, <1>9, <1>10, Zenon DEF Excuses

\* What the Ethernet takes from an inbox is among the frames lost.
LEMMA LossStrands ==
  ASSUME IInv, NoneStranded, NEW k \in Hosts, iface' = iface, NEW u,
         inbox' = [inbox EXCEPT ![k] = u], lost' = Append(lost, inbox[k][1]), inbox[k][1] \in Frame,
         \A S : Has(inbox[k], S) => inbox[k][1] \in S \/ Has(u, S)
  PROVE  NoneStranded'
<1> DEFINE frame == inbox[k][1]
<1>1. \A g \in Hosts : inbox'[g] = IF g = k THEN u ELSE inbox[g]
  BY Zenon DEF IInv, NetInv
<1>2. lost' = lost \o <<frame>> /\ lost \in Seq(Frame) /\ <<frame>> \in Seq(Frame)
  BY DEF IInv
<1>3. \A S : frame \in S => Has(<<frame>>, S)
  BY DEF Has
<1> HIDE DEF frame
<1>4. \A S : Has(lost, S) \/ frame \in S => Has(lost', S)
  BY <1>2, <1>3, HasAppended, Zenon
<1>5. \A g \in Hosts : \A S : Has(inbox[g], S) => Has(inbox'[g], S) \/ Has(lost', S)
  BY <1>1, <1>4, Zenon DEF frame
<1> SUFFICES ASSUME NEW h \in Hosts, NEW g \in Hosts, Waits(h, g, iface[h])
             PROVE  Excuses(h, g, inbox'[g], inbox'[h], lost')
  BY Zenon DEF NoneStranded, Waits
<1>6. Excuses(h, g, inbox[g], inbox[h], lost)
  BY Zenon DEF NoneStranded
<1> QED BY <1>4, <1>5, <1>6, Zenon DEF Excuses

\* The initial state and every step.
LEMMA InitStrands == Init => NoneStranded
<1> SUFFICES ASSUME Init, NEW h \in Hosts PROVE DOMAIN iface[h].not_sent = {}
  BY Zenon DEF NoneStranded, Waits
<1>1. iface[h] = NetworkInterfaceNew(EthOf[h], IpOf[h])
  BY Zenon DEF Init
<1> QED BY <1>1 DEF NetworkInterfaceNew, EmptyMap

LEMMA NextStrands == IInv /\ NoneStranded /\ [Next]_vars => NoneStranded'
<1> SUFFICES ASSUME IInv, NoneStranded, [Next]_vars PROVE NoneStranded'
  BY Zenon
<1>1. ASSUME NEW s \in Hosts, NEW d \in Hosts, Send(s, d) PROVE NoneStranded'
  BY <1>1, SendStrands, Zenon
<1>2. ASSUME NEW k \in Hosts, Receive(k) PROVE NoneStranded'
  BY <1>2, ReceiveStrands, Zenon
<1>3. ASSUME NEW ms \in Ticks, Tick(ms) PROVE NoneStranded'
  <2>1. inbox' = inbox /\ lost' = lost /\ iface' = [h \in Hosts |-> InterfaceTick(iface[h], ms)]
    BY <1>3, Zenon DEF Tick
  <2>2. ASSUME NEW h \in Hosts PROVE iface'[h].not_sent = iface[h].not_sent
    <3>1. DOMAIN iface[h] = Fields
      BY Zenon DEF IInv, NetInv, Good, Proper
    <3>2. iface'[h] = InterfaceTick(iface[h], ms)
      BY <2>1, Zenon
    <3> QED BY <3>1, <3>2 DEF InterfaceTick, Fields
  <2> QED BY <2>1, <2>2, Zenon DEF NoneStranded, Waits
<1>4. ASSUME NEW k \in Hosts, inbox[k] # <<>>
      PROVE  /\ inbox[k] \in Seq(Frame) /\ inbox[k][1] \in Frame /\ Head(inbox[k]) = inbox[k][1]
  <2>1. inbox[k] \in Seq(Frame)
    BY Zenon DEF IInv, NetInv
  <2> QED BY <1>4, <2>1
<1>5. ASSUME NEW k \in Hosts, Lose(k) PROVE NoneStranded'
  <2>1. /\ inbox[k] # <<>> /\ iface' = iface /\ lost' = Append(lost, Head(inbox[k]))
        /\ inbox' = [inbox EXCEPT ![k] = Tail(inbox[k])]
    BY <1>5 DEF Lose
  <2>2. inbox[k] \in Seq(Frame) /\ inbox[k][1] \in Frame /\ Head(inbox[k]) = inbox[k][1]
    BY <1>4, <2>1, Zenon
  <2>3. \A S : Has(inbox[k], S) => inbox[k][1] \in S \/ Has(Tail(inbox[k]), S)
    BY <2>1, <2>2, HasTail, Zenon
  <2>4. lost' = Append(lost, inbox[k][1])
    BY <2>1, <2>2, Zenon
  <2> DEFINE u == Tail(inbox[k])
  <2>5. inbox' = [inbox EXCEPT ![k] = u] /\ \A S : Has(inbox[k], S) => inbox[k][1] \in S \/ Has(u, S)
    BY <2>1, <2>3, Zenon
  <2> HIDE DEF u
  <2> QED BY <2>1, <2>2, <2>4, <2>5, LossStrands, Zenon
<1>6. ASSUME NEW k \in Hosts, Damage(k) PROVE NoneStranded'
  <2> DEFINE f == [inbox[k][1] EXCEPT !.payload = Damaged]
             u == [inbox[k] EXCEPT ![1] = f]
  <2>1. /\ inbox[k] # <<>> /\ iface' = iface /\ lost' = Append(lost, Head(inbox[k]))
        /\ inbox' = [inbox EXCEPT ![k] = u]
    BY <1>6 DEF Damage
  <2>2. inbox[k] \in Seq(Frame) /\ inbox[k][1] \in Frame /\ Head(inbox[k]) = inbox[k][1]
    BY <1>4, <2>1, Zenon
  <2>3. \A S : Has(inbox[k], S) => inbox[k][1] \in S \/ Has(u, S)
    BY <2>2, HasReplaced, Zenon
  <2>4. lost' = Append(lost, inbox[k][1])
    BY <2>1, <2>2, Zenon
  <2> HIDE DEF u
  <2> QED BY <2>1, <2>2, <2>3, <2>4, LossStrands, Zenon
<1>7. CASE UNCHANGED vars
  <2>1. iface' = iface /\ inbox' = inbox /\ lost' = lost
    BY <1>7 DEF vars
  <2> QED BY <2>1, Zenon DEF NoneStranded, Waits
<1> QED BY <1>1, <1>2, <1>3, <1>5, <1>6, <1>7, Zenon DEF Next

\* For any hosts, traffic, losses and timeouts a datagram waits only while a
\* request or an answer is under way, or because one of these was lost: the
\* protocol strands nothing by itself (send_datagram() and recv_frame(),
\* network_interface.cc:24-83).
THEOREM OnlyLossEverStrands == Spec => []OnlyLossStrands
<1>1. Init => IInv /\ NoneStranded
  BY InitGood, InitStrands, Zenon
<1>2. (IInv /\ NoneStranded) /\ [Next]_vars => (IInv /\ NoneStranded)'
  BY NextGood, NextStrands, Zenon
<1>3. IInv /\ NoneStranded => OnlyLossStrands
  BY StrandedIs, Zenon
<1> QED BY <1>1, <1>2, <1>3, PTL DEF Spec

\* For any hosts, traffic, losses and timeouts a datagram sent after the request
\* for its address has expired makes the interface ask again
\* (network_interface.cc:43-44).
THEOREM LateSendsAsk == Spec => LateSendAsks
<1> DEFINE Late(s, d) == /\ count'[s][d] > count[s][d]
                         /\ IpOf[d] \in DOMAIN iface[s].not_mapped
                         /\ iface[s].time_passed > iface[s].not_mapped[IpOf[d]] + ArpTimeout
<1>1. ASSUME IInv, [Next]_vars, NEW s \in Hosts, NEW d \in Hosts, Late(s, d)
      PROVE  In(inbox'[d], LAMBDA f : IsRequestFrom(f, s, IpOf[d]))
  <2> DEFINE ip == IpOf[d]
  <2>1. count[s][d] \in Nat
    BY <1>1 DEF IInv
  <2>2. count'[s][d] # count[s][d]
    BY <1>1, <2>1
  <2>3. Send(s, d)
    <3>1. ASSUME NEW g \in Hosts, NEW h \in Hosts, Send(g, h) PROVE <<s, d>> = <<g, h>>
      <4>1. \A x, y \in Hosts : <<x, y>> # <<g, h>> => count'[x][y] = count[x][y]
        BY <1>1, <3>1, SendFacts, Zenon
      <4> QED BY <2>2, <4>1, Zenon
    <3>2. count' = count \/ \E g, h \in Hosts : Send(g, h)
      BY <1>1, Zenon DEF Next, Receive, Lose, Damage, Tick, vars
    <3>3. PICK g \in Hosts, h \in Hosts : Send(g, h)
      BY <2>2, <3>2, Zenon
    <3>4. s = g /\ d = h
      BY <3>1, <3>3
    <3> QED BY <3>3, <3>4, Zenon
  <2>4. s # d
    BY <1>1, <2>3, SendFacts, Zenon
  <2>5. PICK n : Good(s, n) /\ Asks(iface[s], ip, n) /\ SendPending(s, n, inbox[s])
    BY <1>1, <2>3, SendFacts, Zenon
  <2>6. Proper(s, iface[s]) /\ Agree(iface[s])
    BY <1>1, Zenon DEF IInv, NetInv, Good
  <2>7. ip \notin DOMAIN iface[s].ip2eth
    BY <1>1, <2>6, Zenon DEF Agree
  <2>8. MustAsk(iface[s], ip)
    <3>1. iface[s].time_passed \in Nat /\ iface[s].not_mapped[ip] \in Nat
      BY <1>1, <2>6, Zenon DEF Proper, Agree
    <3>2. iface[s].not_mapped[ip] + ArpTimeout < iface[s].time_passed
      BY <1>1, <3>1, TimeoutAssumption
    <3> QED BY <3>2, Zenon DEF MustAsk
  <2>9. Has(n.frames_out, {ARPRequest(iface[s], ip)})
    BY <2>5, <2>7, <2>8, Zenon DEF Asks
  <2>10. Has(inbox'[d], {ARPRequest(iface[s], ip)})
    <3>1. \A g \in Hosts : g # s =>
            \A S : Has(inbox[g], S) \/ Has(n.frames_out, S) => Has(inbox'[g], S)
      BY <1>1, <2>5, PendingFacts, Zenon
    <3> QED BY <2>4, <2>9, <3>1, Zenon
  <2>11. \A f \in {ARPRequest(iface[s], ip)} : f \in RequestsOf(s, ip)
    BY <2>6, ARPMessages, Zenon
  <2>12. Has(inbox'[d], RequestsOf(s, ip))
    BY <2>10, <2>11, HasMore, Zenon
  <2> QED BY <2>12, Zenon DEF Has, RequestsOf, In
<1>2. IInv /\ [Next]_vars =>
        [\A s, d \in Hosts : Late(s, d) => In(inbox'[d], LAMBDA f : IsRequestFrom(f, s, IpOf[d]))]_vars
  BY <1>1, Zenon
<1> QED BY EthernetInvariant, <1>2, PTL DEF Spec, LateSendAsks
-----------------------------------------------------------------------------
CONSTANTS Tables, Destinations  \* the routing tables and destinations considered

VARIABLES table, dst,  \* the routing table, and the datagram's destination
          i, best      \* the routes considered, and what they gave

loopVars == <<table, dst, i, best>>

\* A routing table whose prefixes have no bits beyond their lengths.
CleanTable(t) ==
  /\ Len(t) \in Nat /\ DOMAIN t = 1 .. Len(t)
  /\ \A k \in DOMAIN t : t[k].prefix_length \in Nat /\ Clean(t[k])

LoopInit ==
  /\ table \in { t \in Tables : CleanTable(t) } /\ dst \in Destinations
  /\ i = 0 /\ best = NoMatch

Iterate ==
  /\ i < Len(table)
  /\ i' = i + 1
  /\ best' = Consider(best, table[i + 1], dst)
  /\ UNCHANGED <<table, dst>>

Loop == LoopInit /\ [][Iterate]_loopVars

\* What best says about the first i routes.
BestSoFar ==
  LET covering == { k \in 1 .. i : Covers(table[k], dst) }
  IN  IF covering = {} THEN best = NoMatch
      ELSE \E k \in covering :
             /\ \A j \in covering : table[j].prefix_length <= table[k].prefix_length
             /\ best = [is_matched |-> TRUE, matched_length |-> table[k].prefix_length,
                        interface_num |-> table[k].interface_num, next_hop |-> table[k].next_hop]

LoopInv == CleanTable(table) /\ i \in 0 .. Len(table) /\ BestSoFar

\* When the loop ends, best is a longest match (router.hh:47-49).
LoopFindsLongest == i = Len(table) => LongestMatch(best, table, dst)

\* For a prefix without further bits the condition in the code is the
\* documented one.
LEMMA MatchesIsCovers ==
  ASSUME NEW route, Clean(route), NEW d PROVE Matches(route, d) <=> Covers(route, d)
  BY DEF Clean, Matches, Covers

\* The loop invariant holds at the start and is kept by every iteration.
THEOREM LoopInvariant == Loop => []LoopInv
<1>1. LoopInit => LoopInv
  <2> SUFFICES ASSUME LoopInit PROVE LoopInv
    OBVIOUS
  <2>1. CleanTable(table) /\ i = 0 /\ best = NoMatch
    BY DEF LoopInit
  <2>2. i \in 0 .. Len(table) /\ { k \in 1 .. i : Covers(table[k], dst) } = {}
    BY <2>1 DEF CleanTable
  <2> QED BY <2>1, <2>2 DEF LoopInv, BestSoFar
<1>2. LoopInv /\ [Iterate]_loopVars => LoopInv'
  <2> SUFFICES ASSUME LoopInv, [Iterate]_loopVars PROVE LoopInv'
    OBVIOUS
  <2>1. CASE UNCHANGED loopVars
    BY <2>1 DEF LoopInv, BestSoFar, CleanTable, loopVars
  <2>2. CASE Iterate
    <3> DEFINE n == i + 1
               before == { k \in 1 .. i : Covers(table[k], dst) }
               now == { k \in 1 .. n : Covers(table[k], dst) }
    <3>1. Len(table) \in Nat /\ n \in DOMAIN table /\ i' = n /\ table' = table /\ dst' = dst /\ n \in 0 .. Len(table) /\ i \in Nat
      BY <2>2 DEF Iterate, LoopInv, CleanTable
    <3>2. Clean(table[n]) /\ table[n].prefix_length \in Nat
      BY <3>1, SMTT(30) DEF LoopInv, CleanTable
    <3>3. now = IF Covers(table[n], dst) THEN before \cup {n} ELSE before
      BY <3>1
    <3>4. best' = IF Covers(table[n], dst) /\ best.matched_length <= table[n].prefix_length
                  THEN [is_matched |-> TRUE, matched_length |-> table[n].prefix_length,
                        interface_num |-> table[n].interface_num, next_hop |-> table[n].next_hop]
                  ELSE best
      BY <2>2, <3>1, <3>2, MatchesIsCovers, SMTT(30) DEF Iterate, Consider
    <3>5. \A k \in 1 .. i : table[k].prefix_length \in Nat
      BY <3>1 DEF LoopInv, CleanTable
    <3>6. BestSoFar'
      <4>1. CASE before = {}
        <5>1. best = NoMatch
          BY <4>1 DEF LoopInv, BestSoFar
        <5>2. best.matched_length <= table[n].prefix_length
          BY <5>1, <3>2 DEF NoMatch
        <5>3. CASE Covers(table[n], dst)
          <6>1. now = {n}
            BY <3>3, <4>1, <5>3
          <6>2. best' = [is_matched |-> TRUE, matched_length |-> table[n].prefix_length,
                         interface_num |-> table[n].interface_num, next_hop |-> table[n].next_hop]
            BY <3>4, <5>2, <5>3, SMTT(30)
          <6>3. n \in now /\ \A j \in now : table[j].prefix_length <= table[n].prefix_length
            BY <3>2, <6>1
          <6> QED BY <3>1, <6>2, <6>3, Zenon DEF BestSoFar
        <5>4. CASE ~Covers(table[n], dst)
          <6>1. now = {} /\ best' = NoMatch
            BY <3>3, <3>4, <4>1, <5>1, <5>4, SMTT(30)
          <6> QED BY <3>1, <6>1, SMTT(30) DEF BestSoFar
        <5> QED BY <5>3, <5>4
      <4>2. CASE before # {}
        <5>1. PICK k \in before :
                 /\ \A j \in before : table[j].prefix_length <= table[k].prefix_length
                 /\ best = [is_matched |-> TRUE, matched_length |-> table[k].prefix_length,
                            interface_num |-> table[k].interface_num, next_hop |-> table[k].next_hop]
          BY <4>2 DEF LoopInv, BestSoFar
        <5>2. best.matched_length = table[k].prefix_length
          BY <5>1, SMTT(30)
        <5>3. CASE Covers(table[n], dst) /\ best.matched_length <= table[n].prefix_length
          <6>1. \A j \in now : table[j].prefix_length <= table[n].prefix_length
            BY <3>1, <3>2, <3>3, <3>5, <5>1, <5>2, <5>3, SMTT(30)
          <6> QED BY <3>1, <3>3, <3>4, <5>3, <6>1, Zenon DEF BestSoFar
        <5>4. CASE ~(Covers(table[n], dst) /\ best.matched_length <= table[n].prefix_length)
          <6>1. \A j \in now : table[j].prefix_length <= table[k].prefix_length
            BY <3>1, <3>2, <3>3, <3>5, <5>1, <5>2, <5>4
          <6> QED BY <3>1, <3>3, <3>4, <5>1, <5>4, <6>1, Zenon DEF BestSoFar
        <5> QED BY <5>3, <5>4, SMTT(30)
      <4> QED BY <4>1, <4>2, SMTT(30)
    <3>7. CleanTable(table)'
      BY <3>1 DEF LoopInv, CleanTable
    <3> QED BY <3>1, <3>6, <3>7, SMTT(30) DEF LoopInv
  <2> QED BY <2>1, <2>2, SMTT(30)
<1> QED BY <1>1, <1>2, PTL DEF Loop

\* route_one_datagram() finds the longest match in every routing table whose
\* prefixes are clean, for every width and every destination.
THEOREM LookupFindsLongest == Loop => []LoopFindsLongest
<1>1. LoopInv => LoopFindsLongest
  <2> SUFFICES ASSUME LoopInv, i = Len(table) PROVE LongestMatch(best, table, dst)
    BY DEF LoopFindsLongest
  <2>1. DOMAIN table = 1 .. i
    BY DEF LoopInv, CleanTable
  <2>2. BestSoFar
    BY DEF LoopInv
  <2> QED BY <2>1, <2>2 DEF BestSoFar, LongestMatch, NoMatch
<1> QED BY <1>1, LoopInvariant, PTL
=============================================================================
