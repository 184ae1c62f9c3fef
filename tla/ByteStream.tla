----------------------------- MODULE ByteStream -----------------------------
(***************************************************************************)
(* byte_stream.{hh,cc}: the class as written.  The bytes live in the       *)
(* string `buffer` of fixed length Capacity; endOfBuffer is the number of  *)
(* live ones, and what lies behind it is left over from earlier bytes.     *)
(* Reading shifts the live bytes to the front.                             *)
(*                                                                         *)
(* The history variables accepted and delivered record every byte write()  *)
(* took and every byte handed to the reader.                               *)
(***************************************************************************)
EXTENDS WrappingIntegers, Sequences

CONSTANTS
  Byte,         \* the bytes
  Blank,        \* the character the constructor fills the buffer with
  Capacity,     \* _capacity
  Data,         \* the strings the writer passes to write()
  MaxAccepted   \* bound on the bytes accepted in a behaviour

\* A capacity is any size an unsigned int can count.
ASSUME StreamAssumption ==
  /\ Capacity \in Nat /\ Capacity < Modulus
  /\ Blank \in Byte
  /\ Data \subseteq Seq(Byte)
  /\ MaxAccepted \in Nat

VARIABLES buffer, endOfBuffer, bytesRead, bytesWritten, isInputEnded, error,
          accepted, delivered

vars == <<buffer, endOfBuffer, bytesRead, bytesWritten, isInputEnded, error,
          accepted, delivered>>

TypeOK ==
  /\ buffer \in [0 .. (Capacity - 1) -> Byte]
  /\ endOfBuffer \in 0 .. Capacity
  /\ bytesRead \in WrappingInt
  /\ bytesWritten \in WrappingInt
  /\ isInputEnded \in BOOLEAN
  /\ error \in BOOLEAN
  /\ accepted \in Seq(Byte)
  /\ delivered \in Seq(Byte)

Init ==
  /\ buffer = [i \in 0 .. (Capacity - 1) |-> Blank]
  /\ endOfBuffer = 0
  /\ bytesRead = 0
  /\ bytesWritten = 0
  /\ isInputEnded = FALSE
  /\ error = FALSE
  /\ accepted = <<>>
  /\ delivered = <<>>

\* Mutant: data is clamped to the capacity, not to the room that is left.
WriteSizeCapacity(data) == IF Len(data) <= Capacity THEN Len(data) ELSE Capacity

\* write() takes as much as there is room for.
WriteSize(data) ==
  IF Len(data) <= Capacity - endOfBuffer THEN Len(data) ELSE Capacity - endOfBuffer

\* write(data); the bound on accepted is the model's.
Write(data) ==
  LET k == WriteSize(data)
  IN  /\ Len(accepted) + k <= MaxAccepted
      /\ buffer' = [i \in 0 .. (Capacity - 1) |->
                      IF endOfBuffer <= i /\ i < endOfBuffer + k
                      THEN data[i - endOfBuffer + 1] ELSE buffer[i]]
      /\ endOfBuffer' = endOfBuffer + k
      /\ bytesWritten' = (bytesWritten + k) % Modulus
      /\ accepted' = accepted \o SubSeq(data, 1, k)
      /\ UNCHANGED <<bytesRead, isInputEnded, error, delivered>>

\* Mutant: the shift stops one byte short of the end of the live bytes.
ShiftedShort(len) ==
  [i \in 0 .. (Capacity - 1) |->
     IF i + len + 1 < endOfBuffer THEN buffer[i + len] ELSE buffer[i]]

\* The loop of pop_output(): live bytes from len on move to the front; the
\* characters behind them keep their old values.
Shifted(len) ==
  [i \in 0 .. (Capacity - 1) |->
     IF i + len < endOfBuffer THEN buffer[i + len] ELSE buffer[i]]

\* peek_output(len).
Peek(len) == [i \in 1 .. len |-> buffer[i - 1]]

\* The reader peeks at len bytes and pops them: len is at most buffer_size()
\* in every caller (read() clamps it, the socket's rule 3 pops what it peeked).
Consume(len) ==
  /\ len <= endOfBuffer
  /\ delivered' = delivered \o Peek(len)
  /\ buffer' = Shifted(len)
  /\ endOfBuffer' = endOfBuffer - len
  /\ bytesRead' = (bytesRead + len) % Modulus
  /\ UNCHANGED <<bytesWritten, isInputEnded, error, accepted>>

\* read(len): any len, clamped to what is there.
Read(len) == Consume(IF len < endOfBuffer THEN len ELSE endOfBuffer)

EndInput ==
  /\ isInputEnded' = TRUE
  /\ UNCHANGED <<buffer, endOfBuffer, bytesRead, bytesWritten, error, accepted, delivered>>

SetError ==
  /\ error' = TRUE
  /\ UNCHANGED <<buffer, endOfBuffer, bytesRead, bytesWritten, isInputEnded, accepted, delivered>>

Next ==
  \/ \E data \in Data : Write(data)
  \/ \E len \in 0 .. Capacity : Consume(len)
  \/ \E len \in 0 .. (Capacity + 1) : Read(len)
  \/ EndInput
  \/ SetError

Spec == Init /\ [][Next]_vars
-----------------------------------------------------------------------------
\* Nothing is lost, duplicated or reordered between the two ends: the bytes
\* delivered, followed by the live bytes of the array, are the bytes accepted
\* (write() and pop_output(), byte_stream.cc:12-30).
FIFOOrder ==
  /\ Len(accepted) = Len(delivered) + endOfBuffer
  /\ \A i \in 1 .. Len(delivered) : accepted[i] = delivered[i]
  /\ \A i \in 0 .. (endOfBuffer - 1) : accepted[Len(delivered) + i + 1] = buffer[i]

\* The 32-bit counters are the true totals modulo 2^32 also after they wrapped,
\* so their difference still tells what is in the buffer.
CountersWrapTogether ==
  /\ bytesWritten = Len(accepted) % Modulus
  /\ bytesRead = Len(delivered) % Modulus
  /\ (bytesWritten - bytesRead) % Modulus = endOfBuffer

\* The stream, as module Stream sees it: only the live bytes.
StreamValue ==
  [capacity |-> Capacity, buffer |-> Peek(endOfBuffer), bytesWritten |-> bytesWritten,
   bytesRead |-> bytesRead, isInputEnded |-> isInputEnded, error |-> error]

Abstract == INSTANCE AbstractByteStream WITH stream <- StreamValue

\* The array implements the queue the other modules use.
ImplementsStream == Abstract!ASpec
=============================================================================
