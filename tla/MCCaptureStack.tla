---------------------------- MODULE MCCaptureStack ----------------------------
(* A small instance of CaptureStack for TLC. *)
EXTENDS CaptureStack, TLC

CONSTANTS x1, x2, c1, c2

TwoCalls == {x1, x2}
TwoClosers == {c1, c2}
=============================================================================
