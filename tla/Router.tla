------------------------------- MODULE Router -------------------------------
(***************************************************************************)
(* router.{hh,cc}: a Router object as a value.  Addresses are numbers of   *)
(* Width bits.  A datagram is a record with the fields dst and ttl of its  *)
(* header and whatever else its sender put in.                             *)
(***************************************************************************)
EXTENDS NetworkInterface, Integers, SequencesExt

CONSTANTS
  Width,   \* 32: the bits of an address
  NoHop    \* an empty optional<Address>

ASSUME WidthAssumption == Width \in Nat

Address == 0 .. (2 ^ Width - 1)

\* AsyncNetworkInterface: a NetworkInterface and a queue of datagrams.
AsyncNetworkInterfaceNew(ethernet_address, ip_address) ==
  LET n == NetworkInterfaceNew(ethernet_address, ip_address)
  IN  [f \in DOMAIN n \cup {"datagrams_out"} |-> IF f = "datagrams_out" THEN <<>> ELSE n[f]]

\* AsyncNetworkInterface::recv_frame().
AsyncRecvFrame(n, frame) ==
  [RecvFrame(n, frame) EXCEPT !.datagrams_out = @ \o RecvDatagram(n, frame)]

RouterNew == [interfaces |-> <<>>, routing_table |-> <<>>]

\* add_interface(): interface N of the code is interfaces[N + 1].
AddInterface(r, n) == [r EXCEPT !.interfaces = Append(@, n)]

\* add_route().
AddRoute(r, route_prefix, prefix_length, next_hop, interface_num) ==
  [r EXCEPT !.routing_table = Append(@,
     [route_prefix |-> route_prefix, prefix_length |-> prefix_length,
      next_hop |-> next_hop, interface_num |-> interface_num])]

\* dst & (0xFFFFFFFF << (32 - length)), for length > 0.
HighBits(dst, length) == dst - (dst % (2 ^ (Width - length)))

\* The condition on the destination in route_one_datagram().
Matches(route, dst) ==
  route.prefix_length = 0 \/ HighBits(dst, route.prefix_length) = route.route_prefix

NoMatch == [is_matched |-> FALSE, matched_length |-> 0, interface_num |-> 0, next_hop |-> NoHop]

\* Mutant: the last route that matches wins.
ConsiderLast(best, route, dst) ==
  IF Matches(route, dst)
  THEN [is_matched |-> TRUE, matched_length |-> route.prefix_length,
        interface_num |-> route.interface_num, next_hop |-> route.next_hop]
  ELSE best

\* The loop body of route_one_datagram(): best is what the routes so far gave.
Consider(best, route, dst) ==
  IF Matches(route, dst) /\ best.matched_length <= route.prefix_length
  THEN [is_matched |-> TRUE, matched_length |-> route.prefix_length,
        interface_num |-> route.interface_num, next_hop |-> route.next_hop]
  ELSE best

\* The loop of route_one_datagram().
Lookup(routing_table, dst) ==
  FoldLeft(LAMBDA best, route : Consider(best, route, dst), NoMatch, routing_table)

\* Mutant: a datagram with TTL 1 is forwarded.
RouteOneDatagramTTLZero(r, dgram) ==
  LET found == Lookup(r.routing_table, dgram.dst)
      hop   == IF found.next_hop = NoHop THEN dgram.dst ELSE found.next_hop
  IN  IF dgram.ttl <= 0 \/ ~found.is_matched THEN r
      ELSE [r EXCEPT !.interfaces[found.interface_num + 1] =
                       SendDatagram(@, [dgram EXCEPT !.ttl = @ - 1], hop)]

\* route_one_datagram().
RouteOneDatagram(r, dgram) ==
  LET found == Lookup(r.routing_table, dgram.dst)
      hop   == IF found.next_hop = NoHop THEN dgram.dst ELSE found.next_hop
  IN  IF dgram.ttl <= 1 \/ ~found.is_matched THEN r
      ELSE [r EXCEPT !.interfaces[found.interface_num + 1] =
                       SendDatagram(@, [dgram EXCEPT !.ttl = @ - 1], hop)]

\* The body of route()'s loop for the interface with index i: its queue is
\* routed in order and emptied.
RouteInterface(r, i) ==
  LET routed == FoldLeft(RouteOneDatagram, r, r.interfaces[i].datagrams_out)
  IN  [routed EXCEPT !.interfaces[i].datagrams_out = <<>>]

\* route().
Route(r) ==
  FoldLeft(RouteInterface, r, [i \in 1 .. Len(r.interfaces) |-> i])
-----------------------------------------------------------------------------
\* The documented meaning of a route: the first prefix_length bits of
\* route_prefix are those of the destination (router.cc:22).
Covers(route, dst) ==
  \/ route.prefix_length = 0
  \/ HighBits(dst, route.prefix_length) = HighBits(route.route_prefix, route.prefix_length)

\* The prefix has no bits beyond its length.
Clean(route) == HighBits(route.route_prefix, route.prefix_length) = route.route_prefix

\* best describes a route with the longest prefix that covers dst.
LongestMatch(best, table, dst) ==
  LET covering == { i \in DOMAIN table : Covers(table[i], dst) }
  IN  IF covering = {} THEN ~best.is_matched
      ELSE \E i \in covering :
             /\ \A j \in covering : table[j].prefix_length <= table[i].prefix_length
             /\ best.is_matched
             /\ best.interface_num = table[i].interface_num /\ best.next_hop = table[i].next_hop
=============================================================================
