--------------------------- MODULE ExecutionGraph ---------------------------
(***************************************************************************)
(* ExecutionGraph::decode (execution_graph.rs): one reply of the gateway   *)
(* is read header first, then step by step, then dependency by dependency, *)
(* and is accepted when a topological sort reaches every step.  Whatever   *)
(* is accepted is handed to the run inspector, which divides by the number *)
(* of steps, and to the map, whose layout never ends up left of a          *)
(* predecessor only because the dependencies have no cycle.                *)
(*                                                                         *)
(* Steps are numbered from 1 here and from 0 in the code.  `ready` is a    *)
(* stack in the code and a set here: the decision must not depend on the   *)
(* order of the walk.                                                      *)
(***************************************************************************)
EXTENDS Integers, Sequences, FiniteSets, StepGraph

CONSTANTS Replies,                 \* what the gateway may answer
          Tasks, Events,           \* identifiers of steps and of public events
          MAX_NODES, MAX_EDGES, MAX_EVENTS

NoEvidence == [event |-> "none", sequence |-> 0]

Statuses == {"unobserved", "running", "completed", "failed", "cancelled",
             "blocked"}

\* A key is a JSON text of three strings: `own` says that the first two are
\* this run and "plan_step"; the spelling of the text is not part of the key.
Key      == [own : BOOLEAN, id : Tasks, spelling : {"plain", "escaped"}]
Evidence == [event : Events, sequence : Nat]
Node     == [kind : {"plan_step", "child"}, key : Key, task : Tasks,
             status : Statuses \cup {"pending"},
             evidence : Evidence \cup {NoEvidence}]
Edge     == [kind : {"depends_on", "spawned_child"}, source : Key, target : Key]

\* `bound`: the binding names a run, and its identifiers are not blank;
\* `shaped`: the fields are exactly those of the schema; `owned`: run and task
\* are the binding's; `available`: so the reply says, with the fixed fields.
Reply == [bound : BOOLEAN, shaped : BOOLEAN, owned : BOOLEAN,
          available : BOOLEAN, covered : Nat, nodes : Seq(Node),
          edges : Seq(Edge)]

ASSUME RepliesAssumption == Replies \subseteq Reply

\* 64 steps have at most 2016 dependencies without a cycle, which is the bound.
ASSUME BoundsAssumption == /\ MAX_NODES \in Nat /\ MAX_EDGES \in Nat /\ MAX_EVENTS \in Nat
                           /\ MAX_NODES * (MAX_NODES - 1) <= 2 * MAX_EDGES

\* No event is called as the lack of one is here.
ASSUME EventsAssumption == "none" \notin Events

VARIABLES
  reply,       \* the value being decoded
  phase,       \* where decode stands
  result,      \* "none" until it returns
  nodes,       \* the steps read so far
  edges,       \* the dependencies read so far, as pairs of step numbers
  incoming,    \* how many dependencies each step still waits for
  ready,       \* steps that wait for none and are not visited
  order        \* the visited steps, each with its turn; `visited` is their number

vars == <<reply, phase, result, nodes, edges, incoming, ready, order>>

----------------------------------------------------------------------------
Visited == Cardinality(DOMAIN order)

Init ==
  /\ reply \in Replies
  /\ phase = "header"
  /\ result = "none"
  /\ nodes = << >>
  /\ edges = {}
  /\ incoming = << >>
  /\ ready = {}
  /\ order = << >>

Return(r) ==
  /\ phase' = "done"
  /\ result' = r
  /\ UNCHANGED <<reply, nodes, edges, incoming, ready, order>>

\* Mutant: the bound on dependencies is a strict one.
SnapshotFitsStrictly(r) ==
  /\ r.available
  /\ r.covered <= MAX_EVENTS
  /\ r.nodes # << >> /\ Len(r.nodes) <= MAX_NODES
  /\ Len(r.edges) < MAX_EDGES

\* The snapshot's own fields: fixed values, the covered prefix, and room.
SnapshotFits(r) ==
  /\ r.available
  /\ r.covered <= MAX_EVENTS
  /\ r.nodes # << >> /\ Len(r.nodes) <= MAX_NODES
  /\ Len(r.edges) <= MAX_EDGES

Header ==
  /\ phase = "header"
  /\ \/ /\ ~ (reply.bound /\ reply.shaped)
        /\ Return("unavailable")
     \/ /\ reply.bound /\ reply.shaped /\ ~ reply.owned
        /\ Return("wrong run")
     \/ /\ reply.bound /\ reply.shaped /\ reply.owned
        /\ ~ SnapshotFits(reply)
        /\ Return("unavailable")
     \/ /\ reply.bound /\ reply.shaped /\ reply.owned /\ SnapshotFits(reply)
        /\ phase' = "nodes"
        /\ UNCHANGED <<reply, result, nodes, edges, incoming, ready, order>>

----------------------------------------------------------------------------
\* The evidence of a step: none exactly when nothing was observed, within the
\* covered prefix, and an event and a position no earlier step has.
EvidenceFits(node) ==
  IF node.evidence = NoEvidence
  THEN node.status = "unobserved"
  ELSE /\ node.status # "unobserved"
       /\ node.evidence.sequence \in 1..reply.covered
       /\ \A i \in DOMAIN nodes :
            /\ nodes[i].evidence.event # node.evidence.event
            /\ nodes[i].evidence.sequence # node.evidence.sequence

NodeFits(node) ==
  /\ node.kind = "plan_step"
  /\ node.key.own /\ node.key.id = node.task
  /\ \A i \in DOMAIN nodes : nodes[i].task # node.task
  /\ node.status \in Statuses
  /\ EvidenceFits(node)

NextNode == reply.nodes[Len(nodes) + 1]

ReadNode ==
  /\ phase = "nodes" /\ Len(nodes) < Len(reply.nodes)
  /\ \/ /\ ~ NodeFits(NextNode)
        /\ Return("unavailable")
     \/ /\ NodeFits(NextNode)
        /\ nodes' = Append(nodes, NextNode)
        /\ UNCHANGED <<reply, phase, result, edges, incoming, ready, order>>

NodesEnd ==
  /\ phase = "nodes" /\ Len(nodes) = Len(reply.nodes)
  /\ phase' = "edges"
  /\ incoming' = [t \in 1..Len(nodes) |-> 0]
  /\ UNCHANGED <<reply, result, nodes, edges, ready, order>>

----------------------------------------------------------------------------
\* The number of the step a key names.
Names(key, i) == key.own /\ nodes[i].task = key.id

EdgeFits(edge, s, t) ==
  /\ Names(edge.source, s) /\ Names(edge.target, t)
  /\ edge.kind = "depends_on"
  /\ s # t
  /\ <<s, t>> \notin edges

\* Every dependency read so far was new, so their number is the place in the list.
NextEdge == reply.edges[Cardinality(edges) + 1]

ReadEdge ==
  /\ phase = "edges" /\ Cardinality(edges) < Len(reply.edges)
  /\ \/ /\ \A s, t \in DOMAIN nodes : ~ EdgeFits(NextEdge, s, t)
        /\ Return("unavailable")
     \/ \E s, t \in DOMAIN nodes :
          /\ EdgeFits(NextEdge, s, t)
          /\ edges' = edges \cup {<<s, t>>}
          /\ incoming' = [incoming EXCEPT ![t] = @ + 1]
          /\ UNCHANGED <<reply, phase, result, nodes, ready, order>>

EdgesEnd ==
  /\ phase = "edges" /\ Cardinality(edges) = Len(reply.edges)
  /\ phase' = "sort"
  /\ ready' = {t \in DOMAIN nodes : incoming[t] = 0}
  /\ UNCHANGED <<reply, result, nodes, edges, incoming, order>>

----------------------------------------------------------------------------
Released(s) == [t \in DOMAIN incoming |->
                  IF <<s, t>> \in edges THEN incoming[t] - 1 ELSE incoming[t]]

\* Mutant: a step is ready as soon as one of its predecessors is visited.
NewlyReadyAtOnce(s) == {t \in DOMAIN nodes : <<s, t>> \in edges} \ DOMAIN order

\* The steps that become ready when s is visited.
NewlyReady(s) == {t \in DOMAIN nodes : <<s, t>> \in edges /\ Released(s)[t] = 0}

Visit ==
  /\ phase = "sort"
  /\ \E s \in ready :
       /\ order' = [v \in DOMAIN order \cup {s} |->
                      IF v = s THEN Visited + 1 ELSE order[v]]
       /\ incoming' = Released(s)
       /\ ready' = (ready \ {s}) \cup NewlyReady(s)
       /\ UNCHANGED <<reply, phase, result, nodes, edges>>

Decide ==
  /\ phase = "sort" /\ ready = {}
  /\ Return(IF Visited = Len(nodes) THEN "graph" ELSE "unavailable")

Done == phase = "done" /\ UNCHANGED vars

Next == Header \/ ReadNode \/ NodesEnd \/ ReadEdge \/ EdgesEnd \/ Visit \/ Decide \/ Done

Spec == Init /\ [][Next]_vars

----------------------------------------------------------------------------
(***************************************************************************)
(* Properties                                                              *)
(***************************************************************************)

TypeOK ==
  /\ reply \in Replies
  /\ phase \in {"header", "nodes", "edges", "sort", "done"}
  /\ result \in {"none", "wrong run", "unavailable", "graph"}
  /\ nodes \in Seq(Node)
  /\ edges \subseteq Edges(Len(nodes))
  /\ DOMAIN incoming \in {{}, 1..Len(nodes)}
  /\ \A t \in DOMAIN incoming : incoming[t] \in Nat
  /\ ready \subseteq 1..Len(nodes)
  /\ DOMAIN order \subseteq 1..Len(nodes)
  /\ \A v \in DOMAIN order : order[v] \in 1..Len(nodes)

\* A graph the decoder accepts has no cycle of dependencies, so the layout of
\* the map that walks it again reaches every step of it.
AcceptedIsAcyclic == result = "graph" => Acyclic(Len(nodes), edges)

\* What a plan is, said of the reply as a whole and not in the order in which
\* decode looks at it.
StepOf(r, key) == {i \in DOMAIN r.nodes : r.nodes[i].task = key.id}

Pairs(r) == {e \in Edges(Len(r.nodes)) :
               \E j \in DOMAIN r.edges : /\ e[1] \in StepOf(r, r.edges[j].source)
                                         /\ e[2] \in StepOf(r, r.edges[j].target)}

ObservedSteps(r) == {i \in DOMAIN r.nodes : r.nodes[i].status # "unobserved"}

IsPlan(r) ==
  /\ r.bound /\ r.shaped /\ r.owned /\ r.available
  /\ r.covered <= MAX_EVENTS
  /\ Len(r.nodes) \in 1..MAX_NODES
  /\ \A i \in DOMAIN r.nodes :
       /\ r.nodes[i].kind = "plan_step" /\ r.nodes[i].status # "pending"
       /\ r.nodes[i].key.own /\ r.nodes[i].key.id = r.nodes[i].task
       /\ i \in ObservedSteps(r) <=> r.nodes[i].evidence # NoEvidence
  /\ Cardinality({r.nodes[i].task : i \in DOMAIN r.nodes}) = Len(r.nodes)
  /\ LET observed == ObservedSteps(r)
     IN /\ \A i \in observed : r.nodes[i].evidence.sequence \in 1..r.covered
        /\ \A f \in {"event", "sequence"} :
             Cardinality({r.nodes[i].evidence[f] : i \in observed}) = Cardinality(observed)
  /\ \A j \in DOMAIN r.edges : /\ r.edges[j].kind = "depends_on"
                               /\ r.edges[j].source.own /\ r.edges[j].target.own
                               /\ StepOf(r, r.edges[j].source) # {}
                               /\ StepOf(r, r.edges[j].target) # {}
  /\ Cardinality(Pairs(r)) = Len(r.edges)
  /\ Acyclic(Len(r.nodes), Pairs(r))

\* Nothing but a plan is accepted: no step has two numbers, however its key is
\* spelled, no event is evidence of two steps, and no evidence lies beyond the
\* prefix that the snapshot covers.
AcceptedIsAPlan == result = "graph" => IsPlan(reply) /\ edges = Pairs(reply)

\* Every plan of a run is accepted: the bound on dependencies leaves room for
\* every acyclic graph over the largest number of steps, and the sort refuses
\* none of them.
PlansAreAccepted == phase = "done" /\ IsPlan(reply) => result = "graph"

\* What is accepted are the plans: the two facts above as one.
ExactlyPlansAreAccepted == AcceptedIsAPlan /\ PlansAreAccepted

\* Once the dependencies are read, only a cycle is refused: the sort is not
\* just safe, it never loses a step of an acyclic graph.
SortRefusesCycles ==
  [][phase = "sort" /\ result' = "unavailable" => ~ Acyclic(Len(nodes), edges)]_vars

=============================================================================
