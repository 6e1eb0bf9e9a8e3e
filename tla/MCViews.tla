------------------------------- MODULE MCViews -------------------------------
(***************************************************************************)
(* Views for TLC: two runs of four events, and four records, the second of *)
(* two lines.                                                              *)
(***************************************************************************)
EXTENDS Views

CONSTANTS r1, r2

MCRuns == {r1, r2}
MCSummaries == {3}
MCSizes == <<1, 2, 1, 1>>
MCTall == {2}
=============================================================================
