------------------------- MODULE AbstractByteStream -------------------------
(***************************************************************************)
(* What a ByteStream promises: a bounded queue of bytes with a writer that *)
(* may end it and a reader that takes bytes out in order.                  *)
(***************************************************************************)
EXTENDS Stream

CONSTANTS Data,       \* the strings the writer passes to write()
          Capacity

VARIABLES stream,     \* the stream, a value of module Stream
          delivered   \* every byte handed to the reader so far, in order

absVars == <<stream, delivered>>

AInit == stream = StreamNew(Capacity) /\ delivered = <<>>

AWrite == \E data \in Data : stream' = StreamWrite(stream, data) /\ UNCHANGED delivered

AConsume ==
  \E len \in 0 .. BufferSize(stream) :
    /\ delivered' = delivered \o PeekOutput(stream, len)
    /\ stream' = PopOutput(stream, len)

AEndInput == stream' = EndInput(stream) /\ UNCHANGED delivered

ASetError == stream' = SetError(stream) /\ UNCHANGED delivered

ANext == AWrite \/ AConsume \/ AEndInput \/ ASetError

ASpec == AInit /\ [][ANext]_absVars
=============================================================================
