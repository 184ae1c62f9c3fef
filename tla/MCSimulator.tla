---------------------------- MODULE MCSimulator -----------------------------
(* The routes in the order of Network::Network() and backwards. *)
EXTENDS NetworkSimulator

InOrder   == [i \in 1 .. 9 |-> i]
Backwards == [i \in 1 .. 9 |-> 10 - i]
BothOrders == {InOrder, Backwards}

(* A host on the same cable, one elsewhere, an address nobody has, three    *)
(* addresses of network 4 and one beside them, one without a cable.         *)
SomeAddresses == {ip(1, 2), ip(2, 2), ip(3, 3), ip(1, 6), ip(4, 1), ip(4, 5), ip(4, 6), ip(4, 7), ip(6, 3)}
=============================================================================
