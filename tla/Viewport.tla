------------------------------ MODULE Viewport ------------------------------
(***************************************************************************)
(* Viewport of native/tuig/src/presentation.rs: the rows of a text that    *)
(* are on the screen.  The row the user asked for and the row that is      *)
(* visible are kept apart, "so transient refresh text cannot discard the   *)
(* person's place in the longer result that follows".                      *)
(*                                                                         *)
(* The task view, the inspector and the host logs scroll with it, and the  *)
(* map pans with two of them.                                              *)
(***************************************************************************)
EXTENDS Naturals

CONSTANT MaxRow          \* u16::MAX

ASSUME MaxRowAssumption == MaxRow \in Nat \ {0}

Lesser(a, b) == IF a <= b THEN a ELSE b

\* saturating_sub
Minus(a, b) == IF a >= b THEN a - b ELSE 0

\* saturating_add
Plus(a, b) == Lesser(a + b, MaxRow)

Viewports ==
  [requested : 0..MaxRow, visible : 0..MaxRow, maximum : 0..MaxRow, height : 0..MaxRow]

\* Viewport::default
AtTop == [requested |-> 0, visible |-> 0, maximum |-> 0, height |-> 0]

\* The row that is asked for, as far as the text reaches.
Asked(v, row) == [v EXCEPT !.requested = row, !.visible = Lesser(row, v.maximum)]

\* Mutant: the row that is asked for is cut to the text of the moment.
MeasuredAndCut(v, rows, height) ==
  LET maximum == Lesser(Minus(rows, height), MaxRow)
  IN  [requested |-> Lesser(v.requested, maximum), visible |-> Lesser(v.requested, maximum),
       maximum |-> maximum, height |-> height]

\* measure: every drawing tells the viewport how long the text and the window are.
Measured(v, rows, height) ==
  LET maximum == Lesser(Minus(rows, height), MaxRow)
  IN  [requested |-> v.requested, visible |-> Lesser(v.requested, maximum),
       maximum |-> maximum, height |-> height]

\* reveal: the smallest movement that shows `rows' rows from `row' on, or as
\* many of them as fit.
Revealed(v, row, rows) ==
  LET first == Lesser(row, MaxRow)
      last  == Plus(first, Lesser(rows, v.height))
  IN  CASE v.height = 0 -> v
        [] v.height # 0 /\ first < v.visible -> Asked(v, first)
        [] v.height # 0 /\ first >= v.visible /\ last > Plus(v.visible, v.height) ->
             Asked(v, Minus(last, v.height))
        [] OTHER -> Asked(v, v.requested)

Page(v) == IF v.height = 0 THEN 1 ELSE v.height

Moves == {"Up", "Down", "PageUp", "PageDown", "Home", "End"}

\* handle of one of these keys; every other key leaves the viewport alone.
Handled(v, key) ==
  CASE key = "Up"       -> Asked(v, Minus(v.visible, 1))
    [] key = "Down"     -> Asked(v, Lesser(Plus(v.visible, 1), v.maximum))
    [] key = "PageUp"   -> Asked(v, Minus(v.visible, Page(v)))
    [] key = "PageDown" -> Asked(v, Lesser(Plus(v.visible, Page(v)), v.maximum))
    [] key = "Home"     -> Asked(v, 0)
    [] key = "End"      -> Asked(v, MaxRow)

\* mouse: an unmodified wheel event is a key; others do nothing.
Wheel == {"Up", "Down"}

\* Whether row `row' is in the window.
InWindow(v, row) == v.visible <= row /\ row < v.visible + v.height
=============================================================================
