----------------------------- MODULE MCConversions -----------------------------
(* A small instance of Conversions for TLC: the bit depths that occur and    *)
(* some that do not, bytes on both sides of the sign, integers of 12 bits.   *)
EXTENDS Conversions

BitDepths == {0, 8, 16, 20, 24, 32, 64}
SomeBytes == {0, 1, 127, 128, 255}
TwelveBits == 2047
=============================================================================
