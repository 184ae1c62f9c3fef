-------------------------- MODULE WrappingIntegers --------------------------
(***************************************************************************)
(* wrapping_integers.{hh,cc}: 32-bit sequence numbers that wrap around,    *)
(* and the conversions between them and absolute (64-bit) positions.       *)
(*                                                                         *)
(* Modulus stands for 2^32.  A sequence number is an element of            *)
(* 0..Modulus-1; an absolute position is a natural number (64 bits are     *)
(* never exhausted).                                                       *)
(***************************************************************************)
EXTENDS Integers

CONSTANT Modulus

\* 2^32 is positive and even; nothing else about it is used.
ASSUME ModulusAssumption == Modulus \in Nat /\ Modulus > 1 /\ Modulus % 2 = 0

Half == Modulus \div 2

\* The values of a WrappingInt32.
WrappingInt == 0 .. (Modulus - 1)

\* wrap(): absolute position to sequence number.
Wrap(n, isn) == (n + isn) % Modulus

\* operator+(WrappingInt32, uint32_t).
Plus(a, k) == (a + k) % Modulus

\* operator-(WrappingInt32, WrappingInt32): the unsigned difference of the raw
\* values converted to int32_t, an element of -Half .. Half-1.
Minus(a, b) ==
  LET d == (a - b) % Modulus
  IN  IF d >= Half THEN d - Modulus ELSE d

\* unwrap(): the offset from the checkpoint to n, added to the checkpoint,
\* plus one turn when that would be negative.
Unwrap(n, isn, checkpoint) ==
  LET abs == checkpoint + Minus(n, Wrap(checkpoint, isn))
  IN  IF abs < 0 THEN abs + Modulus ELSE abs
=============================================================================
