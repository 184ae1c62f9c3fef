---------------------------- MODULE AdapterSpec -----------------------------
(***************************************************************************)
(* A server that listens and clients that call it, each behind an adapter  *)
(* over the same medium: "udp", "tun" or "tap".  A step writes a segment   *)
(* at one of them, carries its bytes, which may be changed or cut on the   *)
(* way, and reads them at the other.  ARP messages go the same way.        *)
(***************************************************************************)
EXTENDS Adapters

CONSTANTS
  Server, Clients,
  Here,        \* Here[h]: the endpoint of h, for the server one of several
  There,       \* There[c]: the endpoint client c calls the server at
  Eth,         \* Eth[h]: the Ethernet address of h
  Segments,    \* what TCP writes
  ARPMessages, \* what a NetworkInterface sends
  Changes,     \* by how much a byte may be changed
  Cuts,        \* how many bytes may be cut off
  MaxDamaged   \* how many packets are changed or cut

ASSUME AdapterAssumption ==
  /\ Server \notin Clients /\ Changes \subseteq 1 .. 255 /\ Cuts \subseteq Nat \ {0}
  /\ MaxDamaged \in Nat

VARIABLES
  medium,
  adapter,     \* adapter[h]
  last,        \* the last exchange
  damaged      \* how many packets have been changed or cut

vars == <<medium, adapter, last, damaged>>

Hosts == {Server} \cup Clients

AnyAddress == <<0, 0>>

\* A UDP socket answers from the one address it has.
Called(c) == IF medium = "udp" THEN Here[Server] ELSE There[c]

Init ==
  /\ medium \in {"udp", "tun", "tap"}
  /\ adapter = [h \in Hosts |->
                  IF h = Server
                  THEN AdapterNew([Here[h] EXCEPT !.ip = AnyAddress], [ip |-> AnyAddress, port |-> 0], TRUE)
                  ELSE AdapterNew(Here[h], Called(h), FALSE)]
  /\ last = [kind |-> "none"]
  /\ damaged = 0

\* What may happen to n bytes on their way.
Faults(n) ==
  {[kind |-> "none"], [kind |-> "drop"]}
  \cup IF damaged = MaxDamaged THEN {}
       ELSE [kind : {"change"}, at : 1 .. n, by : Changes] \cup [kind : {"cut"}, off : Cuts]

Damages(fault) == IF fault.kind \in {"change", "cut"} THEN 1 ELSE 0

\* The bytes that arrive.
Arriving(bytes, fault) ==
  CASE fault.kind = "change" -> [bytes EXCEPT ![fault.at] = (@ + fault.by) % 256]
    [] fault.kind = "cut"    -> SubSeq(bytes, 1, Len(bytes) - fault.off)
    [] OTHER                 -> bytes

Written(a, seg, from, to) ==
  CASE medium = "udp" -> UDPWrite(a, seg)
    [] medium = "tun" -> TunWrite(a, seg)
    [] medium = "tap" -> TapWrite(a, seg, Eth[from], Eth[to])

Read(a, bytes, from, to) ==
  CASE medium = "udp" -> UDPRead(a, bytes, Here[from])
    [] medium = "tun" -> TunRead(a, bytes)
    [] medium = "tap" -> TapRead(a, bytes, Eth[to])

\* Whom h writes to: a client the server; the server its peer.
Peers(h) ==
  IF h \in Clients THEN {Server}
  ELSE {c \in Clients : ~adapter[Server].listening /\ adapter[Server].destination = Here[c]}

\* A segment goes from h to g.  UDP delivers whole datagrams only.
Exchange(h, g) ==
  /\ g \in Peers(h)
  /\ \E seg \in Segments :
       \E bytes \in {Written(adapter[h], seg, h, g)} :
         \E fault \in Faults(Len(bytes)) :
           \E arrived \in {Arriving(bytes, fault)} :
             \E read \in {LossyRead(Read(adapter[g], arrived, h, g), fault.kind = "drop")} :
               /\ ~(medium = "udp" /\ fault.kind = "cut")
               /\ damaged' = damaged + Damages(fault)
               /\ adapter' = [adapter EXCEPT ![g] = read.adapter]
               /\ last' = [kind |-> "segment", from |-> h, to |-> g, fault |-> fault,
                           listened |-> adapter[g].listening, bytes |-> bytes,
                           arrived |-> arrived, got |-> read.seg,
                           sent |-> WithPorts(adapter[h], seg)]
  /\ UNCHANGED medium

\* An ARP message goes from h to g, or to everybody.
ExchangeARP(h, g) ==
  /\ medium = "tap" /\ h # g /\ Server \in {h, g}
  /\ \E m \in ARPMessages, dst \in {Eth[g], BroadcastAddress} :
       \E bytes \in {ARPWrite(m, Eth[h], dst)} :
         \E fault \in Faults(Len(bytes)) \ {[kind |-> "drop"]} :
           \E arrived \in {Arriving(bytes, fault)} :
             /\ damaged' = damaged + Damages(fault)
             /\ last' = [kind |-> "arp", from |-> h, to |-> g, fault |-> fault,
                         arrived |-> arrived, got |-> ARPRead(arrived, Eth[g]), sent |-> m]
  /\ UNCHANGED <<medium, adapter>>

Next == \E h, g \in Hosts : Exchange(h, g) \/ ExchangeARP(h, g)

Spec == Init /\ [][Next]_vars

-----------------------------------------------------------------------------
Plain(seg) == [seg EXCEPT !.header.cksum = 0]

\* A segment that TCP is given is the one that was written, when one byte of the
\* packet, any one, was changed by one of Changes, or one of Cuts is missing: the
\* lengths, the filters and the checksum with its pseudo-header catch it.  An
\* ARP message, which has no checksum, is read as it is on the wire, to the last
\* byte, and only if it is one this implementation can answer.
GotIsSent ==
  /\ last.kind = "segment" /\ last.got # None => Plain(last.got) = Plain(last.sent)
  /\ last.kind = "arp" /\ last.got # None =>
       ARPSerialize(last.got) = SubSeq(last.arrived, 15, 42) /\ last.got.opcode \in {1, 2}

\* A packet that nothing has happened to is passed on if it is from the peer or
\* opens a connection: reading undoes writing.
IntactIsGot ==
  last.kind = "segment" /\ last.fault.kind = "none"
  /\ (IF last.listened THEN Opens(last.sent) ELSE last.from \in Peers(last.to))
    => last.got # None

\* Once an adapter has a peer it keeps it, and takes segments from no other.
KeepsPeer ==
  [][\A h \in Hosts : ~adapter[h].listening =>
       /\ adapter'[h] = adapter[h]
       /\ last'.kind = "segment" /\ last'.to = h /\ last'.got # None =>
            h \in Clients \/ Here[last'.from] = adapter[h].destination]_vars

\* A server stops listening only for a client that really asked: its peer's
\* address, and its own, are those the client's SYN was sent with.
LocksOnCaller ==
  ~adapter[Server].listening =>
    \E c \in Clients : /\ adapter[Server].destination = Here[c]
                       /\ medium # "udp" => adapter[Server].source = There[c]

\* ipv4_header.cc says a bad checksum, a wrong version and a bad length are to
\* be found: nothing in the header has changed if its payload is used.  This
\* does not hold (README, Divergences).
HeaderIntact ==
  last.kind = "segment" /\ medium = "tun" /\ last.got # None =>
    SubSeq(last.arrived, 1, 20) = SubSeq(last.bytes, 1, 20)
=============================================================================
