---------------------------- MODULE MCAssembler ----------------------------
(* A small receive path: lines of at most two bytes, writes of at most     *)
(* three, one ordinary byte beside CR and LF.                              *)
EXTENDS JsonLineAssembler

CONSTANT a

MCChars == {a}
=============================================================================
