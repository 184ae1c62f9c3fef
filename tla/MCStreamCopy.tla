---------------------------- MODULE MCStreamCopy ----------------------------
(* Texts of distinct bytes. *)
EXTENDS StreamCopy

CONSTANTS TypedBytes, PeerBytes

Typed == [i \in 1 .. TypedBytes |-> i]
CallOrListen == {[calls |-> TRUE, kind |-> "pipe"], [calls |-> FALSE, kind |-> "file"]}
FromPeer == [i \in 1 .. PeerBytes |-> 10 + i]
=============================================================================
