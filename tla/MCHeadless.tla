----------------------------- MODULE MCHeadless -----------------------------
(* Instances of Headless for TLC: two contexts, one run, short timers.     *)
EXTENDS Headless
CONSTANTS c1, c2, r1
MCContexts == {c1, c2}
MCRuns == {r1}
=============================================================================
