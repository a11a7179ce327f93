------------------------- MODULE MCRequestInstrument -------------------------
(* Instances of RequestInstrument small enough for TLC. *)
EXTENDS RequestInstrument, TLC

CONSTANTS r1, r2, r3, s1, s2

RequestSymmetry == Permutations(Requests)
==============================================================================
