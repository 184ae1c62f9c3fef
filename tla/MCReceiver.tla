----------------------------- MODULE MCReceiver -----------------------------
(* A peer stream of TextLength different bytes. *)
EXTENDS ReceiverSpec

CONSTANT TextLength

Letters == [i \in 1 .. TextLength |-> i]
=============================================================================
