------------------------------ MODULE MCSender ------------------------------
(* A text of TextLength different bytes. *)
EXTENDS SenderLoop

CONSTANT TextLength

Letters == [i \in 1 .. TextLength |-> i]
=============================================================================
