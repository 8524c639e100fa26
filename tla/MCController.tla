---------------------------- MODULE MCController ----------------------------
(* Small instances of Controller for TLC. *)
EXTENDS Controller, TLC

CONSTANTS p1, q1, c1, c2

OneCommand == {p1}
OneQuery == {q1}
TwoClosers == {c1, c2}
TwoIds == {"A", "B"}
=============================================================================
