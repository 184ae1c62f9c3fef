------------------------------- MODULE SizeT --------------------------------
(***************************************************************************)
(* The range of size_t and uint64_t, in which indices and window sizes are *)
(* computed: SizeModulus stands for 2^64.                                  *)
(***************************************************************************)
EXTENDS WrappingIntegers

CONSTANT SizeModulus

\* It exceeds every sum of a few positions.
ASSUME SizeAssumption == SizeModulus \in Nat /\ SizeModulus > 4 * Modulus
=============================================================================
