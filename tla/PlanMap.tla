------------------------------- MODULE PlanMap -------------------------------
(***************************************************************************)
(* From a reply to the map: the decoder (ExecutionGraph) reads a reply,    *)
(* and the graph it accepts, and no other, is laid out (LayeredLayout).    *)
(* What the layout relies on (GraphsAssumption) is what the decoder has    *)
(* established (AcceptedIsAcyclic).                                        *)
(***************************************************************************)
EXTENDS ExecutionGraph, LayeredLayout

planVars == <<vars, layoutVars>>

Decoded == phase = "done" /\ result = "graph"

AcceptedGraph == [count |-> Len(nodes), edges |-> edges]

\* No plan is read, and none is shown.
NothingShown == [count |-> 0, edges |-> {}]

ASSUME NothingShownAssumption == NothingShown \in Graphs

PlanInit ==
  /\ Init
  /\ graph = NothingShown /\ LayoutInit

Decode == Next /\ UNCHANGED layoutVars

\* SpatialGraph::new with the graph of the accepted reply.
Show ==
  /\ Decoded /\ graph # AcceptedGraph
  /\ graph' = AcceptedGraph
  /\ placed' = FALSE /\ visited' = {}
  /\ layers' = [t \in Steps' |-> 0]
  /\ waits' = [t \in Steps' |-> Cardinality(Preds(t)')]
  /\ free' = {t \in Steps' : waits'[t] = 0}
  /\ UNCHANGED vars

LayOut ==
  /\ Decoded /\ graph = AcceptedGraph
  /\ LayoutNext
  /\ UNCHANGED vars

PlanNext == Decode \/ Show \/ LayOut

PlanSpec == PlanInit /\ [][PlanNext]_planVars
=============================================================================
