----------------------------- MODULE MCTaskLoop -----------------------------
(* An instance of TaskLoop for TLC: the server may answer for two contexts, *)
(* with or without the run.                                                 *)
EXTENDS TaskLoop
CONSTANTS c1, c2, r1
MCContexts == {c1, c2}
MCRuns     == {r1}
=============================================================================
