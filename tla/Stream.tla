------------------------------- MODULE Stream -------------------------------
(***************************************************************************)
(* A ByteStream object as a value: what its methods do to the bytes it     *)
(* holds, seen as a queue.  The TCP modules use streams through these      *)
(* operators; ByteStream shows that the array the class really keeps       *)
(* implements them.                                                        *)
(***************************************************************************)
EXTENDS WrappingIntegers, Sequences

Minimum(a, b) == IF a <= b THEN a ELSE b
Maximum(a, b) == IF a >= b THEN a ELSE b

\* ByteStream::ByteStream(capacity).
StreamNew(capacity) ==
  [capacity |-> capacity, buffer |-> <<>>, bytesWritten |-> 0, bytesRead |-> 0,
   isInputEnded |-> FALSE, error |-> FALSE]

BufferSize(s) == Len(s.buffer)

RemainingCapacity(s) == s.capacity - Len(s.buffer)

\* Input has ended and everything has been read.
Eof(s) == s.isInputEnded /\ s.buffer = <<>>

\* write(): as much of data as fits.  The counters are unsigned int.  Nothing
\* looks at isInputEnded.
StreamWrite(s, data) ==
  LET k == Minimum(Len(data), RemainingCapacity(s))
  IN  [s EXCEPT !.buffer = @ \o SubSeq(data, 1, k),
                !.bytesWritten = (@ + k) % Modulus]

\* peek_output(len), for the len <= buffer_size() its callers pass.
PeekOutput(s, len) == SubSeq(s.buffer, 1, len)

\* pop_output(len), for the len <= buffer_size() its callers pass.
PopOutput(s, len) ==
  [s EXCEPT !.buffer = SubSeq(@, len + 1, Len(@)),
            !.bytesRead = (@ + len) % Modulus]

\* The number of bytes read(len) takes out.
ReadLen(s, len) == Minimum(len, BufferSize(s))

EndInput(s) == [s EXCEPT !.isInputEnded = TRUE]

SetError(s) == [s EXCEPT !.error = TRUE]
=============================================================================
