------------------------------ MODULE Packets -------------------------------
(***************************************************************************)
(* tcp_helpers/{tcp_header,tcp_segment,ipv4_header,ipv4_datagram,          *)
(* arp_message,ethernet_header,ethernet_frame}.{hh,cc}: packets and their  *)
(* bytes.  A parse gives [result, ...] with a ParseResult and the packet.  *)
(***************************************************************************)
EXTENDS NetParser

Sixes == <<1, 1, 1, 1, 1, 1>>

\* The EthernetAddress read from there on.
AddressAt(vals, from) == SubSeq(vals, from, from + 5)

-----------------------------------------------------------------------------
FlagBits == <<[name |-> "urg", bit |-> 32], [name |-> "ack", bit |-> 16],
              [name |-> "psh", bit |-> 8], [name |-> "rst", bit |-> 4],
              [name |-> "syn", bit |-> 2], [name |-> "fin", bit |-> 1]>>

\* A TCPHeader with its default values; flags: the flags that are set.
TCPHeaderNew == [sport |-> 0, dport |-> 0, seqno |-> <<0, 0>>, ackno |-> <<0, 0>>, doff |-> 5,
                 flags |-> {}, win |-> 0, cksum |-> 0, uptr |-> 0]

TCPHeaderLens == <<2, 2, 4, 4, 1, 1, 2, 2, 2>>

\* The header with the fields read.
TCPHeaderOf(v) ==
  [sport |-> v[1], dport |-> v[2], seqno |-> v[3], ackno |-> v[4], doff |-> v[5] \div 16,
   flags |-> {FlagBits[i].name : i \in {j \in 1 .. 6 : (v[6] \div FlagBits[j].bit) % 2 = 1}},
   win |-> v[7], cksum |-> v[8], uptr |-> v[9]]

\* TCPHeader::parse(p): [p, header].  What it returns is not used by its only
\* caller, which looks at the parser's error; a data offset below the minimum
\* is none.
TCPHeaderParse(p) ==
  LET q == ParseInts(p, TCPHeaderLens)
      header == TCPHeaderOf(q.vals)
  IN  [header |-> header,
       p |-> IF header.doff < 5 THEN q ELSE RemovePrefix(q, header.doff * 4 - 20)]

\* resize(n): cut or filled with zeros.
Resize(s, n) == [i \in 1 .. n |-> IF i <= Len(s) THEN s[i] ELSE 0]

\* TCPHeader::serialize(); an exception if doff < 5.
TCPHeaderSerialize(h) ==
  LET flags == FoldLeft(LAMBDA sum, f : IF f.name \in h.flags THEN sum + f.bit ELSE sum,
                        0, FlagBits)
  IN  Resize(UnparseInts(<<h.sport, h.dport, h.seqno, h.ackno, h.doff * 16, flags, h.win,
                           h.cksum, h.uptr>>, TCPHeaderLens), 4 * h.doff)

\* Mutant: the checksum is not looked at.
SegmentParseUnchecked(bytes, pseudo) ==
  LET parsed == TCPHeaderParse(Parser(bytes))
  IN  [result |-> parsed.p.error,
       seg |-> [header |-> parsed.header, payload |-> parsed.p.buffer]]

\* TCPSegment::parse(buffer, datagram_layer_checksum).
SegmentParse(bytes, pseudo) ==
  LET parsed == TCPHeaderParse(Parser(bytes))
  IN  [result |-> IF ChecksumValue(ChecksumAdd(pseudo, bytes)) # 0 THEN "BadChecksum"
                  ELSE parsed.p.error,
       seg |-> [header |-> parsed.header, payload |-> parsed.p.buffer]]

\* TCPSegment::serialize(datagram_layer_checksum).  Headers have even length, so
\* the checksum of header and payload is that of their bytes in a row.
SegmentSerialize(seg, pseudo) ==
  LET zero == TCPHeaderSerialize([seg.header EXCEPT !.cksum = 0])
      sum  == ChecksumAdd(ChecksumAdd(pseudo, zero), seg.payload)
  IN  Concatenate(<<TCPHeaderSerialize([seg.header EXCEPT !.cksum = ChecksumValue(sum)]),
                    seg.payload>>)

-----------------------------------------------------------------------------
\* An IPv4Header with its default values.
IPv4HeaderNew ==
  [ver |-> 4, hlen |-> 5, tos |-> 0, len |-> 0, id |-> 0,
   df |-> TRUE, mf |-> FALSE, offset |-> 0, ttl |-> 128, proto |-> 6, cksum |-> 0,
   src |-> <<0, 0>>, dst |-> <<0, 0>>]

IPv4HeaderLens == <<1, 1, 2, 2, 2, 1, 1, 2, 4, 4>>

\* The header with the fields read.
IPv4HeaderOf(v) ==
  [ver |-> v[1] \div 16, hlen |-> v[1] % 16, tos |-> v[2], len |-> v[3], id |-> v[4],
   df |-> (v[5] \div 16384) % 2 = 1, mf |-> (v[5] \div 8192) % 2 = 1, offset |-> v[5] % 8192,
   ttl |-> v[6], proto |-> v[7], cksum |-> v[8], src |-> v[9], dst |-> v[10]]

\* The checks of IPv4Header::parse() once q has read the header from buffer: the
\* early returns leave what is behind the twenty bytes in the parser.
IPv4HeaderCheck(buffer, q, header) ==
  LET end == RemovePrefix(q, header.hlen * 4 - 20)
      Early(why) == [p |-> q, result |-> why, header |-> header]
  IN  IF Len(buffer) < 4 * header.hlen THEN Early("PacketTooShort")
      ELSE IF header.ver # 4 THEN Early("WrongIPVersion")
      ELSE IF header.hlen < 5 THEN Early("HeaderTooShort")
      ELSE IF Len(buffer) # header.len THEN Early("TruncatedPacket")
      ELSE [p |-> end, header |-> header,
            result |-> IF /\ end.error = "NoError"
                          /\ ChecksumValue(ChecksumAdd(0, SubSeq(buffer, 1, 4 * header.hlen))) # 0
                       THEN "BadChecksum" ELSE end.error]

\* IPv4Header::parse(p): [p, result, header]; a short buffer leaves the default
\* header.
IPv4HeaderParse(p) ==
  LET q == ParseInts(p, IPv4HeaderLens)
  IN  IF Len(p.buffer) < 20
      THEN [p |-> p, result |-> "PacketTooShort", header |-> IPv4HeaderNew]
      ELSE IPv4HeaderCheck(p.buffer, q, IPv4HeaderOf(q.vals))

\* IPv4Header::serialize(); an exception if ver # 4 or hlen < 5.
IPv4HeaderSerialize(h) ==
  LET frag == (IF h.df THEN 16384 ELSE 0) + (IF h.mf THEN 8192 ELSE 0) + h.offset
  IN  Resize(UnparseInts(<<h.ver * 16 + h.hlen, h.tos, h.len, h.id, frag, h.ttl, h.proto,
                           h.cksum, h.src, h.dst>>, IPv4HeaderLens), 4 * h.hlen)

\* payload_length(), of 16 bits.
PayloadLength(h) == (h.len - 4 * h.hlen) % 65536

\* Mutant: the addresses are left out.
PseudoCksumNoAddress(h) == h.proto + PayloadLength(h)

\* pseudo_cksum().
PseudoCksum(h) ==
  h.src[1] + h.src[2] + h.dst[1] + h.dst[2] + h.proto + PayloadLength(h)

\* IPv4Datagram::parse(buffer): the header's result is not looked at.
DatagramParse(bytes) ==
  LET parsed == IPv4HeaderParse(Parser(bytes))
  IN  [result |-> IF Len(parsed.p.buffer) # PayloadLength(parsed.header) THEN "PacketTooShort"
                  ELSE parsed.p.error,
       header |-> parsed.header, payload |-> parsed.p.buffer]

\* IPv4Datagram::serialize(); an exception if the length is wrong.
DatagramSerialize(d) ==
  LET zero == IPv4HeaderSerialize([d.header EXCEPT !.cksum = 0])
  IN  Concatenate(<<IPv4HeaderSerialize([d.header EXCEPT !.cksum =
                                           ChecksumValue(ChecksumAdd(0, zero))]),
                    d.payload>>)

-----------------------------------------------------------------------------
TypeIPv4 == 2048
TypeARP == 2054

\* EthernetFrame::parse(buffer), which succeeds always: too short a frame has a
\* header of zeros and its bytes are the payload.
FrameParse(bytes) ==
  LET q == ParseInts(Parser(bytes), Sixes \o Sixes \o <<2>>)
  IN  IF Len(bytes) < 14
      THEN [dst |-> <<0, 0, 0, 0, 0, 0>>, src |-> <<0, 0, 0, 0, 0, 0>>, type |-> 0,
            payload |-> bytes]
      ELSE [dst |-> AddressAt(q.vals, 1), src |-> AddressAt(q.vals, 7), type |-> q.vals[13],
            payload |-> q.buffer]

\* EthernetFrame::serialize().
FrameSerialize(f) == Concatenate(<<f.dst, f.src, UnparseInt(f.type, 2), f.payload>>)

ARPLens == <<2, 2, 1, 1, 2>> \o Sixes \o <<4>> \o Sixes \o <<4>>

\* ARPMessage::supported().
ARPSupported(m) ==
  /\ m.hardware_type = 1 /\ m.protocol_type = TypeIPv4
  /\ m.hardware_address_size = 6 /\ m.protocol_address_size = 4
  /\ m.opcode \in {1, 2}

\* The message with the fields read.
ARPMessageOf(v) ==
  [hardware_type |-> v[1], protocol_type |-> v[2], hardware_address_size |-> v[3],
   protocol_address_size |-> v[4], opcode |-> v[5],
   sender_ethernet_address |-> AddressAt(v, 6), sender_ip_address |-> v[12],
   target_ethernet_address |-> AddressAt(v, 13), target_ip_address |-> v[19]]

\* ARPMessage::parse(buffer).
ARPParse(bytes) ==
  LET q == ParseInts(Parser(bytes), ARPLens)
      m == ARPMessageOf(q.vals)
  IN  [result |-> IF Len(bytes) < 28 THEN "PacketTooShort"
                  ELSE IF ~ARPSupported(m) THEN "Unsupported" ELSE q.error,
       msg |-> m]

\* ARPMessage::serialize(); an exception if it is not supported.
ARPSerialize(m) ==
  UnparseInts(<<m.hardware_type, m.protocol_type, m.hardware_address_size,
                m.protocol_address_size, m.opcode>>, <<2, 2, 1, 1, 2>>)
  \o m.sender_ethernet_address \o UnparseInt(m.sender_ip_address, 4)
  \o m.target_ethernet_address \o UnparseInt(m.target_ip_address, 4)
=============================================================================
