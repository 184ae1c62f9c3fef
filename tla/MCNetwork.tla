----------------------------- MODULE MCNetwork ------------------------------
(* Sockets A and B, which write different bytes; A's numbers wrap. *)
EXTENDS TCPNetwork, TLC

CONSTANTS A, B, LengthA, LengthB

BothEnds == {A, B}
Texts == (A :> [i \in 1 .. LengthA |-> i]) @@ (B :> [i \in 1 .. LengthB |-> 10 + i])
OneOrBoth == {{A}, {A, B}}
SeqNos == (A :> Modulus - 2) @@ (B :> 3)
=============================================================================
