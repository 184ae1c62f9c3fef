------------------------- MODULE StreamReassembler --------------------------
(***************************************************************************)
(* stream_reassembler.{hh,cc}: a StreamReassembler object as a value.      *)
(*                                                                         *)
(* _buffer and _written are merged into `slots`: slot o holds the byte of  *)
(* the logical stream at bytes_written() + o, or NoByte where _written is  *)
(* 0 (a character of _buffer is never read there).                         *)
(***************************************************************************)
EXTENDS Stream, SizeT, FiniteSets

CONSTANT NoByte   \* marks a slot that holds no byte

\* StreamReassembler::StreamReassembler(capacity).
ReassemblerNew(capacity) ==
  [output |-> StreamNew(capacity), capacity |-> capacity,
   slots |-> [o \in 0 .. (capacity - 1) |-> NoByte],
   num_unassembled |-> 0, received_EOF |-> FALSE]

\* empty(): nothing waits for a missing byte.
Empty(ra) == ra.num_unassembled = 0

\* The offsets whose byte is stored.
Filled(ra) == { o \in 0 .. (ra.capacity - 1) : ra.slots[o] # NoByte }

\* Mutant: data is read from its start, not from l_index - index on.
CreateSegmentFromStart(ra, first_unassembled, index, l_index, r_index, data) ==
  LET new == { o \in 0 .. (ra.capacity - 1) :
                 /\ l_index <= first_unassembled + o /\ first_unassembled + o < r_index
                 /\ ra.slots[o] = NoByte }
  IN  [ra EXCEPT !.slots = [o \in 0 .. (ra.capacity - 1) |->
                              IF o \in new THEN data[first_unassembled + o - l_index + 1] ELSE @[o]],
                 !.num_unassembled = @ + Cardinality(new)]

\* create_segment(): the acceptable bytes that are not stored yet are stored
\* and counted.  The set is empty when l_index >= r_index (the early return).
CreateSegment(ra, first_unassembled, index, l_index, r_index, data) ==
  LET new == { o \in 0 .. (ra.capacity - 1) :
                 /\ l_index <= first_unassembled + o /\ first_unassembled + o < r_index
                 /\ ra.slots[o] = NoByte }
  IN  [ra EXCEPT !.slots = [o \in 0 .. (ra.capacity - 1) |->
                              IF o \in new THEN data[first_unassembled + o - index + 1] ELSE @[o]],
                 !.num_unassembled = @ + Cardinality(new)]

\* The number of bytes stored without a gap from the first slot on.
NumAssembled(ra) ==
  CHOOSE k \in 0 .. ra.capacity :
    /\ \A o \in 0 .. (k - 1) : ra.slots[o] # NoByte
    /\ k = ra.capacity \/ ra.slots[k] = NoByte

\* Mutant: the slots are not shifted when their first bytes are written out.
WriteSegmentNoShift(ra) ==
  LET k == NumAssembled(ra)
  IN  [ra EXCEPT !.output = StreamWrite(@, [i \in 1 .. k |-> ra.slots[i - 1]]),
                 !.slots = [o \in 0 .. (ra.capacity - 1) |-> IF o < k THEN NoByte ELSE @[o]],
                 !.num_unassembled = @ - k]

\* write_segment(): that prefix goes to the output stream, the slots shift.
WriteSegment(ra) ==
  LET k == NumAssembled(ra)
  IN  [ra EXCEPT !.output = StreamWrite(@, [i \in 1 .. k |-> ra.slots[i - 1]]),
                 !.slots = [o \in 0 .. (ra.capacity - 1) |->
                              IF o + k < ra.capacity THEN @[o + k] ELSE NoByte],
                 !.num_unassembled = @ - k]

FirstUnassembled(ra) == ra.output.bytesWritten

\* Mutant: the window does not shrink by what the reader has not taken yet.
FirstUnacceptableFull(ra) == FirstUnassembled(ra) + ra.capacity

FirstUnacceptable(ra) == FirstUnassembled(ra) + ra.capacity - BufferSize(ra.output)

\* The test whether the last byte of data, and so the end, is acceptable.
NoteEOF(ra, index, r_index, last, eof) ==
  [ra EXCEPT !.received_EOF = @ \/ (eof /\ r_index = last)]

\* Mutant: the end is signalled although bytes wait for a missing one.
MaybeEndInputEager(ra) ==
  IF ra.received_EOF THEN [ra EXCEPT !.output = EndInput(@)] ELSE ra

\* The end is signalled once it was seen and no byte waits for another.
MaybeEndInput(ra) ==
  IF ra.received_EOF /\ ra.num_unassembled = 0
  THEN [ra EXCEPT !.output = EndInput(@)] ELSE ra

\* push_substring(); index + data.length() is computed in size_t.
PushSubstring(ra, data, index, eof) ==
  LET last    == (index + Len(data)) % SizeModulus
      l_index == Maximum(FirstUnassembled(ra), index)
      r_index == Minimum(FirstUnacceptable(ra), last)
      noted   == NoteEOF(ra, index, r_index, last, eof)
      stored  == CreateSegment(noted, FirstUnassembled(ra), index, l_index, r_index, data)
  IN  MaybeEndInput(WriteSegment(stored))
=============================================================================
