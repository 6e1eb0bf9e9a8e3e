---------------------------- MODULE MCInspector ----------------------------
(* Instances of Inspector for TLC: one task, with and without a run.       *)
EXTENDS Inspector
CONSTANTS c1, r1
MCContexts == {c1}
MCRuns == {r1}
=============================================================================
