----------------------------- MODULE MCMonitor -----------------------------
(* Small instances of Monitor for TLC. *)
EXTENDS Monitor, TLC

CONSTANTS a1, a2, b1, t1, t2

OneSession == {a1}
\* a session that may be restarted under its id, beside that of another program
Restarts == {a1, a2, b1}
\* two programs
TwoIds == {a1, b1}

IdsA   == {"a"}
IdsAB  == {"a", "b"}
IdOfObject == [o \in Objects |-> IF o = b1 THEN "b" ELSE "a"]

OneThread  == {t1}
TwoThreads == {t1, t2}
=============================================================================
