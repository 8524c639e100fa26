---------------------------- MODULE MCMTAWorker ----------------------------
(* Small instances of MTAWorker for TLC. *)
EXTENDS MTAWorker, TLC

CONSTANTS j1, j2, j3, c1, c2

MCJobs == {j1, j2, j3}
MCClosers == {c1, c2}
MCOutcomes == {"nil", "error"}
=============================================================================
