-------------------------- MODULE ReassemblerSpec ---------------------------
(***************************************************************************)
(* A StreamReassembler fed with pieces of one logical stream, in any       *)
(* order, overlapping and repeated, while its reader takes bytes out.      *)
(* Its names differ from those of ReceiverSpec, so that one module can     *)
(* extend both.                                                            *)
(***************************************************************************)
EXTENDS StreamReassembler

CONSTANTS
  Logical,   \* the logical stream: a sequence of bytes
  Room       \* _capacity

\* Positions fit the 32-bit counters; NoByte is no byte.
ASSUME LogicalAssumption ==
  /\ Logical \in Seq({ Logical[i] : i \in 1 .. Len(Logical) }) /\ Len(Logical) + Room < Modulus
  /\ NoByte \notin { Logical[i] : i \in 1 .. Len(Logical) }
  /\ Room \in Nat

VARIABLES ra,         \* the reassembler
          taken,      \* the bytes its reader has taken
          ended       \* its reader was told of the end and reads no more

assemblyVars == <<ra, taken, ended>>

LogicalByte == { Logical[i] : i \in 1 .. Len(Logical) }

Output == [capacity : {Room}, buffer : Seq(LogicalByte), bytesWritten : WrappingInt,
           bytesRead : WrappingInt, isInputEnded : BOOLEAN, error : {FALSE}]

Slots == [0 .. (Room - 1) -> LogicalByte \cup {NoByte}]

TypeOK ==
  /\ ra \in [output : Output, capacity : {Room}, slots : Slots,
             num_unassembled : 0 .. Room, received_EOF : BOOLEAN]
  /\ taken \in Seq(LogicalByte) /\ ended \in BOOLEAN

AssemblyInit == ra = ReassemblerNew(Room) /\ taken = <<>> /\ ended = FALSE

\* push_substring() of the len bytes at index; only a piece that reaches the
\* end of the stream may be marked eof.
Push(index, len, eof) ==
  /\ eof => index + len = Len(Logical)
  /\ ra' = PushSubstring(ra, SubSeq(Logical, index + 1, index + len), index, eof)
  /\ UNCHANGED <<taken, ended>>

\* The reader reads len bytes of stream_out(), and stops for good at eof().
TakeOut(len) ==
  /\ ~ended /\ len \in 1 .. BufferSize(ra.output)
  /\ taken' = taken \o PeekOutput(ra.output, len)
  /\ ra' = [ra EXCEPT !.output = PopOutput(@, len)]
  /\ ended' = Eof(ra'.output)

\* The reader finds eof() with nothing left to read.
SeeEnd ==
  /\ ~ended /\ Eof(ra.output)
  /\ ended' = TRUE
  /\ UNCHANGED <<ra, taken>>

\* The piece a sender retransmits: it starts at the first missing byte and is
\* marked eof when it reaches the end.
PushFirstMissing ==
  \E len \in 0 .. (Len(Logical) - FirstUnassembled(ra)) :
    /\ len > 0 \/ FirstUnassembled(ra) = Len(Logical)
    /\ Push(FirstUnassembled(ra), len, FirstUnassembled(ra) + len = Len(Logical))

AssemblyNext ==
  \/ \E index \in 0 .. Len(Logical) : \E len \in 0 .. (Len(Logical) - index) :
       \E eof \in BOOLEAN : Push(index, len, eof)
  \/ \E len \in 1 .. Room : TakeOut(len)
  \/ SeeEnd

Assembly == AssemblyInit /\ [][AssemblyNext]_assemblyVars

\* A sender keeps retransmitting from the first missing byte on, and the
\* application reads until eof().
FairAssembly ==
  /\ Assembly
  /\ WF_assemblyVars(PushFirstMissing)
  /\ WF_assemblyVars(SeeEnd \/ \E len \in 1 .. Room : TakeOut(len))
-----------------------------------------------------------------------------
\* What the reader got and will get next are the first bytes of the stream, in
\* order (push_substring(), stream_reassembler.cc:16-34).
AssembledInOrder ==
  taken \o ra.output.buffer = SubSeq(Logical, 1, FirstUnassembled(ra))

\* Every stored byte is the byte of the stream at its place, however pieces
\* overlapped, and there is room for it in the output stream: write_segment()
\* relies on write() taking all it is given (stream_reassembler.cc:60).
SlotsInPlace ==
  \A o \in Filled(ra) :
    /\ o < RemainingCapacity(ra.output)
    /\ FirstUnassembled(ra) + o + 1 <= Len(Logical)
    /\ ra.slots[o] = Logical[FirstUnassembled(ra) + o + 1]

\* A byte pushed more than once is counted once (stream_reassembler.hh:61-62),
\* and the first missing byte is really missing.
CountedOnce ==
  /\ ra.num_unassembled = Cardinality(Filled(ra))
  /\ 0 \notin Filled(ra)

\* The positions of the bytes that were accepted.
Held == (0 .. (FirstUnassembled(ra) - 1)) \cup { FirstUnassembled(ra) + o : o \in Filled(ra) }

\* An accepted byte is never forgotten: a sender may drop what was
\* acknowledged, and bytes stored ahead of a gap survive any later piece.
NothingForgotten == [][Held \subseteq Held']_assemblyVars

\* Once the end was seen and the whole stream assembled, the reader is told.
EndSignalled ==
  (ra.received_EOF /\ FirstUnassembled(ra) = Len(Logical)) => ra.output.isInputEnded

\* The reader is told that the stream ended only when all of it is there: "EOF
\* data had been received and all the bytes have been assembled"
\* (stream_reassembler.cc:29).  This does not hold (README, Divergences).
EndMeansComplete == ra.output.isInputEnded => FirstUnassembled(ra) = Len(Logical)

\* The end was not noted without the last byte (README, Divergences).
EndHeld == ra.received_EOF => Logical = <<>> \/ Len(Logical) - 1 \in Held

\* Unless the end was noted without the last byte, all of the stream reaches a
\* reader that stops at eof(), however long before the bytes in front of it the
\* end comes: it is signalled neither too early nor never
\* (stream_reassembler.cc:22-31).
AllAssembled == []EndHeld => <>[](taken = Logical /\ ended)
=============================================================================
