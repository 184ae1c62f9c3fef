----------------------------- MODULE MCEthernet -----------------------------
(* Two hosts that send to each other and a third one that listens and sends *)
(* nothing; addresses are pairs.                                            *)
EXTENDS EthernetSpec

CONSTANTS a, b, c

EthAddresses == [h \in Hosts |-> <<"eth", h>>]
IpAddresses  == [h \in Hosts |-> <<"ip", h>>]

CONSTANT MaxSends

Traffic == [p \in Hosts \X Hosts |->
              CASE p = <<a, b>> -> MaxSends [] p = <<b, a>> -> 1 [] OTHER -> 0]
-----------------------------------------------------------------------------
(* EthernetSpec implements a lossy channel between every two hosts.        *)

\* The datagrams of a flow on the Ethernet, then those that wait.
Channel(s, d) ==
  LET mine(f) == f.type = "IPv4" /\ f.payload # Damaged /\ f.src = EthOf[s] /\ f.dst = EthOf[d]
      wire    == SelectSeq(inbox[d], mine)
      n       == iface[s]
  IN  [i \in DOMAIN wire |-> wire[i].payload]
      \o (IF IpOf[d] \in DOMAIN n.not_sent THEN n.not_sent[IpOf[d]] ELSE <<>>)

Link(s, d) ==
  INSTANCE LossyChannel WITH channel <- Channel(s, d), received <- got[s][d], Messages <- DatagramsOf(s, d)

\* Every two hosts see a channel that keeps the order of datagrams and hands
\* each over at most once, and to no other host (send_datagram(),
\* recv_frame()).  This is Link(s, d)!Spec for every s and d.
ImplementsLink ==
  /\ \A s, d \in Hosts : Link(s, d)!Init
  /\ [][\A s, d \in Hosts : UNCHANGED Link(s, d)!vars \/ Link(s, d)!Next]_vars
=============================================================================
