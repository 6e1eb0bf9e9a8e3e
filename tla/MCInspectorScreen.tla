-------------------------- MODULE MCInspectorScreen --------------------------
(***************************************************************************)
(* Terminals that hold the map with room to spare, just, and not at all;   *)
(* a summary with and without its plan; a graph of a chain of three steps  *)
(* and a fourth one beside it, wider and higher than both maps.            *)
(***************************************************************************)
EXTENDS InspectorScreen

Size(w, h) == [width |-> w, height |-> h]
MCSizes == {Size(8, 13), Size(9, 14), Size(6, 5)}

Line(letters, cells) == [letters |-> letters, cells |-> cells]
A == <<"a">>
B == <<"b">>

MCUnavailable == <<Line(B, 1)>>
MCReadingNote == Line(<<>>, 1)
MCMapNote     == Line(<<>>, 5)
MCHelp        == [mode \in BOOLEAN |-> <<Line(<<>>, 1)>>]
MCSummaries   == {<<Line(B, 1), Line(<<"a", "b">>, 9)>>,
                  <<Line(B, 1), Line(A, 9), Line(<<>>, 5), Line(<<"a", "b">>, 9), Line(A, 1)>>}

MCGraphs ==
  {[above |-> <<Line(<<>>, 9)>>,
    names |-> <<Line(A, 5), Line(B, 9), Line(A, 1), Line(B, 1)>>,
    details |-> [i \in 0..3 |-> <<Line(IF i = 2 THEN A ELSE B, 1)>>],
    x |-> [i \in 0..3 |-> IF i = 3 THEN 0 ELSE 4 * i],
    y |-> [i \in 0..3 |-> IF i = 3 THEN 3 ELSE 0], width |-> 11, height |-> 6]}
=============================================================================
