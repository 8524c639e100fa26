----------------------------- MODULE MCComThreads -----------------------------
(* A small instance of ComThreads for TLC: one goroutine of each kind, two   *)
(* of MTAWorker.run, which share a map.                                      *)
EXTENDS ComThreads

CONSTANTS t1, t2, m1, m2, a1, w1, s1

TwoThreads == {t1, t2}
TwoMta == {m1, m2}
OneWasapi == {a1}
OneWindow == {w1}
OneSta == {s1}
=============================================================================
