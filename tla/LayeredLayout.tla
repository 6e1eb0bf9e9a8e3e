---------------------------- MODULE LayeredLayout ----------------------------
(***************************************************************************)
(* LayeredLayout::new and GraphWidget (spatial_graph.rs): the decoded      *)
(* graph is walked once more, each step gets the layer after its last      *)
(* predecessor, a layer is a column of cards, and the dependencies of the  *)
(* selected step are drawn through the gutters between them.               *)
(*                                                                         *)
(* The widget subtracts in u16 (`x2 - 2`) and draws the lines before the   *)
(* cards; both are right only because every dependency leads to the right. *)
(* `free` is a stack in the code and a set here, as in ExecutionGraph.    *)
(***************************************************************************)
EXTENDS Integers, FiniteSets, StepGraph

CONSTANT Graphs          \* the decoded graphs: a number of steps, dependencies

\* What the decoder guarantees of a graph it accepts (AcceptedIsAcyclic).
ASSUME GraphsAssumption ==
  \A g \in Graphs : /\ g.count \in Nat /\ g.edges \subseteq Edges(g.count)
                    /\ Acyclic(g.count, g.edges)

NODE_WIDTH  == 22
NODE_HEIGHT == 4
COLUMN      == NODE_WIDTH + 6
ROW         == NODE_HEIGHT + 2

VARIABLES
  graph,        \* the graph to lay out
  placed,       \* the walk has ended, and positions are made of the layers
  layers,       \* the column of each step
  waits,     \* how many dependencies each step still waits for
  free,        \* steps that wait for none and are not visited
  visited       \* history: the steps the walk has left

layoutVars == <<graph, placed, layers, waits, free, visited>>

Steps == 1..graph.count

Preds(t) == {s \in Steps : <<s, t>> \in graph.edges}

Larger(a, b) == IF a < b THEN b ELSE a

LayoutInit ==
  /\ graph \in Graphs
  /\ placed = FALSE
  /\ layers = [t \in Steps |-> 0]
  /\ waits = [t \in Steps |-> Cardinality(Preds(t))]
  /\ free = {t \in Steps : waits[t] = 0}
  /\ visited = {}

----------------------------------------------------------------------------
\* Mutant: a dependent is put right of the predecessor visited last.
PushedByLast(s) ==
  [t \in Steps |-> IF <<s, t>> \in graph.edges THEN layers[s] + 1 ELSE layers[t]]

\* A visited step pushes its dependents at least one column to the right.
Pushed(s) ==
  [t \in Steps |-> IF <<s, t>> \in graph.edges
                   THEN Larger(layers[t], layers[s] + 1) ELSE layers[t]]

Fewer(s) ==
  [t \in Steps |-> IF <<s, t>> \in graph.edges THEN waits[t] - 1 ELSE waits[t]]

Push ==
  /\ ~ placed
  /\ \E s \in free :
       /\ visited' = visited \cup {s}
       /\ layers' = Pushed(s)
       /\ waits' = Fewer(s)
       /\ free' = (free \ {s})
                   \cup {t \in Steps : <<s, t>> \in graph.edges /\ Fewer(s)[t] = 0}
       /\ UNCHANGED <<graph, placed>>

Place ==
  /\ ~ placed /\ free = {}
  /\ placed' = TRUE
  /\ UNCHANGED <<graph, layers, waits, free, visited>>

Settled == placed /\ UNCHANGED layoutVars

LayoutNext == Push \/ Place \/ Settled

LayoutSpec == LayoutInit /\ [][LayoutNext]_layoutVars

----------------------------------------------------------------------------
\* The steps of a layer are stacked in the order of their numbers.
RowOf(i) == Cardinality({j \in Steps : j < i /\ layers[j] = layers[i]})

X(i) == layers[i] * COLUMN
Y(i) == RowOf(i) * ROW

Card(i) == (X(i) .. X(i) + NODE_WIDTH - 1) \X (Y(i) .. Y(i) + NODE_HEIGHT - 1)

Horizontal(left, right, y) == (left .. right) \X {y}
Vertical(x, top, bottom)   == {x} \X (top .. bottom)

Lesser(a, b) == IF a < b THEN a ELSE b

\* Mutant: the lane is the row of the last step's text.
LaneBeside(to) == Y(to) + 1

\* The line turns down, or up, in the gutter right of its first step and goes
\* along the lane below its last one.
Lane(to)   == Y(to) + NODE_HEIGHT
Middle(from) == X(from) + NODE_WIDTH + 2
End(to)    == X(to) - 2

Strokes(from, to) ==
  LET y == Y(from) + 1
  IN  << Horizontal(X(from) + NODE_WIDTH, Middle(from), y),
         Vertical(Middle(from), Lesser(y, Lane(to)), Larger(y, Lane(to))),
         Horizontal(Middle(from), End(to), Lane(to)),
         Vertical(End(to), Y(to) + 1, Lane(to)) >>

Route(from, to) == UNION {Strokes(from, to)[k] : k \in 1..4}

ArrowHead(to) == <<End(to) + 1, Y(to) + 1>>

----------------------------------------------------------------------------
(***************************************************************************)
(* Properties                                                              *)
(***************************************************************************)

LayoutTypeOK ==
  /\ graph.count \in Nat /\ graph.edges \subseteq Edges(graph.count)
  /\ placed \in BOOLEAN
  /\ layers \in [Steps -> Nat]
  /\ waits \in [Steps -> Nat]
  /\ free \subseteq Steps
  /\ visited \subseteq Steps

\* The layout does not depend on the order of the walk: a step's column is the
\* longest chain of dependencies that leads to it ("layers are stable").
ColumnsAreLongestChains ==
  placed => layers = LongestChain(graph.count, graph.edges)

\* Every dependency leads to a column further right, so its end, two cells
\* left of a card, is on the map and the subtraction does not wrap.
EdgesGoRight ==
  placed => \A e \in graph.edges : layers[e[1]] < layers[e[2]] /\ End(e[2]) >= 0

\* Two cards never share a cell.
CardsApart ==
  placed => \A i, j \in Steps : i # j => Card(i) \cap Card(j) = {}

\* Dependencies are routed through gutters, never through another card.
RoutesMissCards ==
  placed => \A e \in graph.edges : \A i \in Steps :
              (Route(e[1], e[2]) \cup {ArrowHead(e[2])}) \cap Card(i) = {}

\* A line can be followed without a gap from the right side of its first card
\* to its head, left of the last one, and no line is drawn over a head.
RoutesConnect ==
  placed => \A e \in graph.edges :
    LET strokes == Strokes(e[1], e[2])
    IN  /\ <<X(e[1]) + NODE_WIDTH, Y(e[1]) + 1>> \in strokes[1]
        /\ \A k \in 1..3 : strokes[k] \cap strokes[k + 1] # {}
        /\ <<End(e[2]), ArrowHead(e[2])[2]>> \in strokes[4]
        /\ ArrowHead(e[2])[1] + 1 = X(e[2])
        /\ \A f \in graph.edges : ArrowHead(e[2]) \notin Route(f[1], f[2])

\* The map can be read: every coordinate is on it, no card covers another, and
\* no line runs through a card.
DrawingIsClear == LayoutTypeOK /\ EdgesGoRight /\ CardsApart /\ RoutesMissCards

\* And it shows the graph: every step was visited and stands in the column of
\* its longest chain, and every dependency is drawn from end to end.
DrawingIsTrue ==
  /\ placed => visited = Steps
  /\ ColumnsAreLongestChains
  /\ RoutesConnect
=============================================================================
