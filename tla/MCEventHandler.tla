--------------------------- MODULE MCEventHandler ---------------------------
(* Small instances of EventHandler for TLC. *)
EXTENDS EventHandler, TLC

CONSTANTS r1, r2, u1, c1, c2, d1, d2, d3

TwoRegistrars == {r1, r2}
OneUnregistrar == {u1}
TwoClosers == {c1, c2}
ThreeDeliveries == {d1, d2, d3}
=============================================================================
