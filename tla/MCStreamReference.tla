------------------------- MODULE MCStreamReference -------------------------
(* A small instance of StreamReference for TLC: sizes from zero to one byte  *)
(* more than a thumbnail may have.                                           *)
EXTENDS StreamReference

ThreeBytes == 3
=============================================================================
