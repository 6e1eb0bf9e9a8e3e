----------------------------- MODULE MCTaskRead -----------------------------
(* Instances of TaskRead for TLC: the timers have the values of the code.  *)
EXTENDS TaskRead
CONSTANTS c1, c2, r1, r2
MCContexts == {c1, c2}
MCRuns == {r1, r2}
=============================================================================
