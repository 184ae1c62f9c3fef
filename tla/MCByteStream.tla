---------------------------- MODULE MCByteStream ----------------------------
(* ByteStream with strings of up to MaxData bytes. *)
EXTENDS ByteStream

CONSTANT MaxData

Strings == UNION { [1 .. n -> Byte] : n \in 0 .. MaxData }
=============================================================================
