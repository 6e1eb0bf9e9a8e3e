------------------------------ MODULE MCScreens ------------------------------
(***************************************************************************)
(* The two views with a mouse and a place of their own, for TLC: the task  *)
(* view with its folds, and the run inspector with its texts and its map.  *)
(* The main loop gives every event to one of them, and they share no       *)
(* state; a behaviour is one of the first or one of the second.  What      *)
(* covers the task view is in TaskScreen, as a view that is not its own.   *)
(*                                                                         *)
(* The task's window has three rows, or one, which is lower than a wrapped *)
(* header; its status fits in it, or does not, or makes a text of more     *)
(* rows than a viewport can count.                                         *)
(***************************************************************************)
EXTENDS TaskScreen, MCInspectorScreen

VARIABLE side   \* task, inspector

allVars == <<side, taskVars, vars>>

\* The rows of a part at widths 2 and 5.
At(narrow, wide) == [width \in Widths |-> IF width = 2 THEN narrow ELSE wide]

MCWindows  == {[width |-> 5, height |-> 3], [width |-> 2, height |-> 1]}
MCStatuses == {At(1, 1), At(32, 2)}
MCBodies   == [fold \in Folds |-> IF fold = 0 THEN {At(1, 1), At(5, 3)} ELSE {At(3, 2)}]
MCHeader   == At(2, 1)
MCHelpRows == At(2, 1)

\* The side that is not taken stays as it is, in one of its initial states.
ScreensInit ==
  /\ side \in {"task", "inspector"}
  /\ TaskInit
  /\ side = "inspector" =>
       status = At(1, 1) /\ ~composing /\ bodies = [fold \in Folds |-> CHOOSE b \in Bodies[fold] : TRUE]
  /\ Init

OfTask      == side = "task" /\ TaskNext /\ UNCHANGED <<side, vars>>
OfInspector == side = "inspector" /\ Next /\ UNCHANGED <<side, taskVars>>

ScreensNext == OfTask \/ OfInspector

ScreensSpec == ScreensInit /\ [][ScreensNext]_allVars
=============================================================================
