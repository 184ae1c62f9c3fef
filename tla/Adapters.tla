------------------------------ MODULE Adapters ------------------------------
(***************************************************************************)
(* tcp_helpers/{fd_adapter,tcp_over_ip,tuntap_adapter,lossy_fd_adapter}:   *)
(* the adapters between TCP segments and what carries them.  An adapter is *)
(* the record of its configuration and its _listen flag; an endpoint is    *)
(* [ip, port].  A read gives [adapter, seg], with None for no segment.     *)
(***************************************************************************)
EXTENDS Packets

\* ETHERNET_BROADCAST.
BroadcastAddress == <<255, 255, 255, 255, 255, 255>>

None == [none |-> TRUE]

\* FdAdapterBase, configured.
AdapterNew(source, destination, listening) ==
  [source |-> source, destination |-> destination, listening |-> listening]

\* The segment with the adapter's port numbers.
WithPorts(a, seg) ==
  [seg EXCEPT !.header.sport = a.source.port, !.header.dport = a.destination.port]

\* TCPOverIPv4Adapter::wrap_tcp_in_ip(seg).
WrapTCPInIP(a, seg) ==
  LET h == [IPv4HeaderNew EXCEPT !.src = a.source.ip, !.dst = a.destination.ip,
                                 !.len = 20 + seg.header.doff * 4 + Len(seg.payload)]
  IN  [header |-> h, payload |-> SegmentSerialize(WithPorts(a, seg), PseudoCksum(h))]

\* A listening adapter goes with a SYN that is not a RST.
Opens(seg) == "syn" \in seg.header.flags /\ "rst" \notin seg.header.flags

\* The first two checks of unwrap_tcp_in_ip().
ForUs(a, d) ==
  a.listening \/ (d.header.dst = a.source.ip /\ d.header.src = a.destination.ip)

\* The adapter takes the sender of d for its peer, and the address d was sent to
\* for its own.
Locked(a, d, seg) ==
  [a EXCEPT !.source.ip = d.header.dst, !.listening = FALSE,
            !.destination = [ip |-> d.header.src, port |-> seg.header.sport]]

\* TCPOverIPv4Adapter::unwrap_tcp_in_ip(ip_dgram).
UnwrapTCPInIP(a, d) ==
  LET parsed   == SegmentParse(d.payload, PseudoCksum(d.header))
      seg      == parsed.seg
      rejected == [adapter |-> a, seg |-> None]
  IN  IF ~ForUs(a, d) \/ d.header.proto # 6 \/ parsed.result # "NoError"
         \/ seg.header.dport # a.source.port THEN rejected
      ELSE IF a.listening
      THEN IF Opens(seg) THEN [adapter |-> Locked(a, d, seg), seg |-> seg] ELSE rejected
      ELSE IF seg.header.sport # a.destination.port THEN rejected
      ELSE [adapter |-> a, seg |-> seg]

\* TCPOverIPv4OverTunFdAdapter::write(seg) and read().
TunWrite(a, seg) == DatagramSerialize(WrapTCPInIP(a, seg))

TunRead(a, bytes) ==
  LET d == DatagramParse(bytes)
  IN  IF d.result # "NoError" THEN [adapter |-> a, seg |-> None] ELSE UnwrapTCPInIP(a, d)

\* TCPOverUDPSocketAdapter::write(seg) and read(); the socket's recv() tells
\* where a datagram is from.
UDPWrite(a, seg) == SegmentSerialize(WithPorts(a, seg), 0)

\* Mutant: the peer is known by its address only, not by its port.
UDPReadAnyPort(a, bytes, from) ==
  LET parsed == SegmentParse(bytes, 0)
      rejected == [adapter |-> a, seg |-> None]
  IN  IF (~a.listening /\ from.ip # a.destination.ip) \/ parsed.result # "NoError" THEN rejected
      ELSE IF ~a.listening THEN [adapter |-> a, seg |-> parsed.seg]
      ELSE IF ~Opens(parsed.seg) THEN rejected
      ELSE [adapter |-> [a EXCEPT !.destination = from, !.listening = FALSE], seg |-> parsed.seg]

UDPRead(a, bytes, from) ==
  LET parsed == SegmentParse(bytes, 0)
      rejected == [adapter |-> a, seg |-> None]
  IN  IF (~a.listening /\ from # a.destination) \/ parsed.result # "NoError" THEN rejected
      ELSE IF ~a.listening THEN [adapter |-> a, seg |-> parsed.seg]
      ELSE IF ~Opens(parsed.seg) THEN rejected
      ELSE [adapter |-> [a EXCEPT !.destination = from, !.listening = FALSE], seg |-> parsed.seg]

\* NetworkInterface::send_datagram() to a known address, and
\* TCPOverIPv4OverEthernetAdapter::write(seg).
TapWrite(a, seg, src, dst) ==
  FrameSerialize([dst |-> dst, src |-> src, type |-> TypeIPv4, payload |-> TunWrite(a, seg)])

\* The NetworkInterface's recv_frame() for IPv4, and the adapter's read().
TapRead(a, bytes, eth) ==
  LET f == FrameParse(bytes)
  IN  IF f.dst \in {eth, BroadcastAddress} /\ f.type = TypeIPv4
      THEN TunRead(a, f.payload) ELSE [adapter |-> a, seg |-> None]

\* NetworkInterface's ARP messages: the frame, and the message recv_frame() finds.
ARPWrite(m, src, dst) ==
  FrameSerialize([dst |-> dst, src |-> src, type |-> TypeARP, payload |-> ARPSerialize(m)])

ARPRead(bytes, eth) ==
  LET f == FrameParse(bytes)
      m == ARPParse(f.payload)
  IN  IF f.dst \in {eth, BroadcastAddress} /\ f.type = TypeARP /\ m.result = "NoError"
      THEN m.msg ELSE None

\* LossyFdAdapter::read(): what the adapter read may be dropped, but the adapter
\* has read it.
LossyRead(read, drop) == IF drop THEN [read EXCEPT !.seg = None] ELSE read
=============================================================================
