---------------------------- MODULE MCReassembler ---------------------------
(* A logical stream of TextLength different bytes. *)
EXTENDS ReassemblerSpec

CONSTANT TextLength

Letters == [i \in 1 .. TextLength |-> i]
=============================================================================
