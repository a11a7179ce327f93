--------------------------- MODULE MCEncoderCache ---------------------------
(* Instances of EncoderCache small enough for TLC. *)
EXTENDS EncoderCache, TLC

CONSTANTS c1, c2, c3, l1, l2, none
=============================================================================
