-------------------------- MODULE NetworkSimulator --------------------------
(***************************************************************************)
(* apps/network_simulator.cc: a router, six hosts, and the cables between  *)
(* them.  A driver lets hosts send and notes what other hosts are to       *)
(* receive (network_simulator()), runs a number of rounds and checks the   *)
(* hosts (simulate()).  Time never passes.                                 *)
(*                                                                         *)
(* The address plan is the code's with 6 bits instead of 32: the first     *)
(* three tell the networks apart, the rest tells hosts and the subnets of  *)
(* network 4 (143.195.0.0) apart.                                          *)
(***************************************************************************)
EXTENDS Router, FiniteSets

CONSTANTS
  Rounds,        \* 256: rounds per simulate()
  Batch,         \* datagrams sent before a simulate()
  MaxSends,      \* datagrams sent in all
  Senders,       \* the hosts that send
  Destinations,  \* the addresses they send to
  TTLs,          \* the TTLs they use
  RouteOrders    \* the orders in which the routes may be added

ip(net, rest) == net * 8 + rest

\* Network::Network(): the interfaces of the router, by their addresses.
\* default, eth0, eth1, eth2, uun3, hs4 and mit5 are 0 .. 6.
RouterIps == <<ip(0, 5), ip(1, 1), ip(6, 1), ip(2, 1), ip(3, 1), ip(4, 1), ip(5, 7)>>

HostNames == {"applesauce", "default_router", "cherrypie", "hs_router", "dm42", "dm43"}

\* Network::Network(): the addresses of the hosts.
HostIp == [h \in HostNames |->
  CASE h = "applesauce" -> ip(1, 2) [] h = "default_router" -> ip(0, 1)
    [] h = "cherrypie" -> ip(2, 2)  [] h = "hs_router" -> ip(4, 2)
    [] h = "dm42" -> ip(3, 2)       [] h = "dm43" -> ip(3, 3)]

\* Network::Network(): the hosts' next hops; "0" for the two routers.
HostNextHop == [h \in HostNames |->
  CASE h = "applesauce" -> ip(1, 1) [] h = "cherrypie" -> ip(2, 1)
    [] h \in {"dm42", "dm43"} -> ip(3, 1) [] OTHER -> 0]

\* Network::Network(): the routes.  The last one's prefix has more bits than
\* its length says.
Routes == <<
  [prefix |-> 0, length |-> 0, hop |-> HostIp["default_router"], num |-> 0],
  [prefix |-> ip(1, 0), length |-> 3, hop |-> NoHop, num |-> 1],
  [prefix |-> ip(6, 0), length |-> 3, hop |-> NoHop, num |-> 2],
  [prefix |-> ip(2, 0), length |-> 3, hop |-> NoHop, num |-> 3],
  [prefix |-> ip(3, 0), length |-> 3, hop |-> NoHop, num |-> 4],
  [prefix |-> ip(4, 0), length |-> 4, hop |-> HostIp["hs_router"], num |-> 5],
  [prefix |-> ip(4, 4), length |-> 5, hop |-> HostIp["hs_router"], num |-> 5],
  [prefix |-> ip(4, 6), length |-> 6, hop |-> HostIp["hs_router"], num |-> 5],
  [prefix |-> ip(5, 7), length |-> 3, hop |-> ip(5, 1), num |-> 6] >>

ASSUME SimulatorAssumption ==
  /\ Width = 6 /\ Senders \subseteq HostNames /\ Destinations \subseteq Address
  /\ Rounds \in Nat /\ Batch \in Nat /\ MaxSends \in Nat /\ TTLs \subseteq Nat
  /\ RouteOrders \subseteq Bijection(DOMAIN Routes, DOMAIN Routes)

\* simulate_physical_connections(): the cables, each with an interface of the
\* router and the hosts at its other ends.  eth1 and mit5 have none.
Cables == {
  [num |-> 0, hosts |-> <<"default_router">>], [num |-> 1, hosts |-> <<"applesauce">>],
  [num |-> 3, hosts |-> <<"cherrypie">>], [num |-> 5, hosts |-> <<"hs_router">>],
  [num |-> 4, hosts |-> <<"dm42", "dm43">>] }

VARIABLES
  router,
  hosts,      \* for each Host its interface, and what it expects to receive
  round,      \* rounds of simulate() done
  number,     \* datagrams sent
  batch,      \* those sent since the last simulate()
  failed      \* a check() has thrown an exception

vars == <<router, hosts, round, number, batch, failed>>

NewRouter(order) ==
  LET plugged == FoldLeft(LAMBDA r, i : AddInterface(r, AsyncNetworkInterfaceNew(<<"router", i>>, RouterIps[i])),
                          RouterNew, [i \in DOMAIN RouterIps |-> i])
      add(r, i) == LET x == Routes[order[i]] IN AddRoute(r, x.prefix, x.length, x.hop, x.num)
  IN  FoldLeft(add, plugged, [i \in DOMAIN Routes |-> i])

Init ==
  /\ \E order \in RouteOrders : router = NewRouter(order)
  /\ hosts = [h \in HostNames |->
                [interface |-> AsyncNetworkInterfaceNew(<<"host", h>>, HostIp[h]), expecting |-> {}]]
  /\ round = 0 /\ number = 0 /\ batch = 0
  /\ failed = FALSE
-----------------------------------------------------------------------------
\* The host that is to get a datagram for dst: the driver knows it from the
\* documented meaning of the routes.
Receivers(dst) ==
  { h \in HostNames : \E i \in DOMAIN Routes :
      LET route == router.routing_table[i]
          hop   == IF route.next_hop = NoHop THEN dst ELSE route.next_hop
      IN  /\ Covers(route, dst)
          /\ \A j \in DOMAIN Routes : Covers(router.routing_table[j], dst) =>
               router.routing_table[j].prefix_length <= route.prefix_length
          /\ HostIp[h] = hop
          /\ \E c \in Cables : c.num = route.interface_num /\ Contains(c.hosts, h) }

\* Host::send_to() by h, and Host::expect() with a TTL less by one.
SendTo(h, dst, ttl) ==
  LET dgram == [src |-> h, number |-> number, dst |-> dst, ttl |-> ttl]
  IN  /\ round = 0 /\ batch < Batch /\ number < MaxSends /\ ~failed
      /\ hosts' = [g \in HostNames |->
           [interface |-> IF g = h THEN SendDatagram(hosts[h].interface, dgram, HostNextHop[h])
                          ELSE hosts[g].interface,
            expecting |-> IF ttl > 1 /\ g \in Receivers(dst)
                          THEN hosts[g].expecting \cup {[dgram EXCEPT !.ttl = ttl - 1]}
                          ELSE hosts[g].expecting]]
      /\ number' = number + 1 /\ batch' = batch + 1
      /\ UNCHANGED <<router, round, failed>>

\* exchange_frames(), deliver() and clear(): each interface gets the frames
\* the others had at the start and keeps those it adds meanwhile.
ExchangeFrames(ports) ==
  [j \in DOMAIN ports |->
    LET arriving == FlattenSeq([i \in DOMAIN ports |-> IF i = j THEN <<>> ELSE ports[i].frames_out])
        n == FoldLeft(AsyncRecvFrame, ports[j], arriving)
    IN  [n EXCEPT !.frames_out = SubSeq(@, Len(ports[j].frames_out) + 1, Len(@))]]

\* A round of simulate(): route(), then simulate_physical_connections().
Round ==
  LET routed   == Route(router)
      ports(c) == <<routed.interfaces[c.num + 1]>>
                  \o [k \in DOMAIN c.hosts |-> hosts[c.hosts[k]].interface]
      after    == [c \in Cables |-> ExchangeFrames(ports(c))]
      cable(h) == CHOOSE c \in Cables : Contains(c.hosts, h)
      place(h) == CHOOSE k \in DOMAIN cable(h).hosts : cable(h).hosts[k] = h
  IN  /\ batch > 0 /\ round < Rounds
      /\ round' = round + 1
      /\ router' = [routed EXCEPT !.interfaces = [i \in DOMAIN @ |->
           IF \E c \in Cables : c.num + 1 = i
           THEN after[CHOOSE c \in Cables : c.num + 1 = i][1] ELSE @[i]]]
      /\ hosts' = [h \in HostNames |->
           [hosts[h] EXCEPT !.interface = after[cable(h)][place(h) + 1]]]
      /\ UNCHANGED <<number, batch, failed>>

Received(h) == hosts[h].interface.datagrams_out

\* expecting() and remove_expectation(): what h received is what it expects,
\* each datagram once.
AsExpected(h) ==
  ToSet(Received(h)) = hosts[h].expecting /\ Len(Received(h)) = Cardinality(hosts[h].expecting)

\* simulate() after its rounds: Host::check() of all hosts.
Check ==
  /\ round = Rounds
  /\ failed' = \E h \in HostNames : ~AsExpected(h)
  /\ hosts' = [h \in HostNames |->
       [interface |-> [hosts[h].interface EXCEPT !.datagrams_out = <<>>], expecting |-> {}]]
  /\ round' = 0 /\ batch' = 0
  /\ UNCHANGED <<router, number>>

Next ==
  \/ \E h \in Senders, dst \in Destinations, ttl \in TTLs : SendTo(h, dst, ttl)
  \/ Round
  \/ Check

Spec == Init /\ [][Next]_vars
-----------------------------------------------------------------------------
\* No check() throws: whatever was sent together, each datagram has reached
\* the host it is for, once, with its TTL lowered by one, and no host has got
\* anything else (Host::check(), network_simulator.cc:130-147).
ChecksPass == ~failed

\* The routing table gives the longest match for every address, in whatever
\* order its routes were added (route_one_datagram(), router.cc:46-55).  Left
\* out are the addresses of a route whose prefix has bits beyond its length:
\* route_one_datagram() never takes it (router.cc:48).
LookupIsLongest ==
  LET table == router.routing_table
  IN  number = 0 => \A dst \in Address :
        \/ \E i \in DOMAIN table : Covers(table[i], dst) /\ ~Clean(table[i])
        \/ LongestMatch(Lookup(table, dst), table, dst)
=============================================================================
