----------------------------- MODULE NetParser ------------------------------
(***************************************************************************)
(* util/parser.{hh,cc}, util/buffer.{hh,cc} and util/util.cc: integers in  *)
(* network byte order taken from the front of a buffer and appended to a   *)
(* string, and the Internet checksum.  A buffer is the sequence of its     *)
(* bytes.  An integer of 32 bits is the pair of its halves.                *)
(***************************************************************************)
EXTENDS Integers, Sequences, SequencesExt

Byte == 0 .. 255

\* NetParser(buffer): the results are kept beside the parser.
Parser(buffer) == [buffer |-> buffer, error |-> "NoError", vals |-> <<>>]

\* _check_size(size).
CheckSize(p, size) == IF size > Len(p.buffer) THEN [p EXCEPT !.error = "PacketTooShort"] ELSE p

Word(b1, b2) == b1 * 256 + b2

\* The integer in the first len bytes of b.
IntOf(b, len) ==
  CASE len = 1 -> b[1]
    [] len = 2 -> Word(b[1], b[2])
    [] len = 4 -> <<Word(b[1], b[2]), Word(b[3], b[4])>>

\* remove_prefix(n).
RemovePrefix(p, n) ==
  LET c == CheckSize(p, n)
  IN  IF c.error # "NoError" THEN c ELSE [c EXCEPT !.buffer = SubSeq(@, n + 1, Len(@))]

\* u8(), u16() and u32(), by the number of bytes: 0 after an error.
ParseInt(p, len) ==
  LET c == CheckSize(p, len)
      zero == IF len = 4 THEN <<0, 0>> ELSE 0
  IN  IF c.error # "NoError" THEN [c EXCEPT !.vals = Append(@, zero)]
      ELSE [RemovePrefix(c, len) EXCEPT !.vals = Append(@, IntOf(c.buffer, len))]

\* One integer after the other.
ParseInts(p, lens) ==
  LET after[i \in 0 .. Len(lens)] == IF i = 0 THEN p ELSE ParseInt(after[i - 1], lens[i])
  IN  after[Len(lens)]

\* Mutant: the low byte comes first.
UnparseIntSwapped(val, len) ==
  CASE len = 1 -> <<val>>
    [] len = 2 -> <<val % 256, val \div 256>>
    [] len = 4 -> <<val[1] \div 256, val[1] % 256, val[2] \div 256, val[2] % 256>>

\* NetUnparser's u8(), u16() and u32(), by the number of bytes.
UnparseInt(val, len) ==
  CASE len = 1 -> <<val>>
    [] len = 2 -> <<val \div 256, val % 256>>
    [] len = 4 -> <<val[1] \div 256, val[1] % 256, val[2] \div 256, val[2] % 256>>

UnparseInts(vals, lens) == FlattenSeq([i \in 1 .. Len(vals) |-> UnparseInt(vals[i], lens[i])])

\* BufferList::append() and concatenate().
Concatenate(buffers) == FlattenSeq(buffers)

-----------------------------------------------------------------------------
\* InternetChecksum(sum), then add(data), which starts at even parity: every
\* second byte is a low one.  Sums of a packet stay far below 2^32.
ChecksumAdd(sum, data) ==
  LET total[i \in 0 .. Len(data)] ==
        IF i = 0 THEN sum ELSE total[i - 1] + (IF i % 2 = 1 THEN data[i] * 256 ELSE data[i])
  IN  total[Len(data)]

\* The loop of value(): carries are added back until none is left.
Carried[n \in Nat] == IF n > 65535 THEN Carried[(n \div 65536) + (n % 65536)] ELSE n

\* value(): the complement.
ChecksumValue(sum) == 65535 - Carried[sum]
=============================================================================
