---------------------------- MODULE MCStreamStack ----------------------------
(* A small instance of StreamStack for TLC: sizes from zero to one byte more *)
(* than a thumbnail may have.                                                *)
EXTENDS StreamStack

CONSTANTS i1, i2

OneByte == 1
OneInvoke == {i1}
TwoInvokes == {i1, i2}
=============================================================================
