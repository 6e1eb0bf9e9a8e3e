-------------------------- MODULE MCPlanMap --------------------------
(***************************************************************************)
(* Three families of replies: every header around one plan; up to three    *)
(* steps of every kind; and every list of dependencies, among two steps    *)
(* with repetitions, among four steps without.                             *)
(***************************************************************************)
EXTENDS PlanMap, FiniteSetsExt

CONSTANTS t1, t2, t3, t4, e1, e2

MCTasks  == {t1, t2, t3, t4}
MCEvents == {e1, e2}

Step(t) == <<t1, t2, t3, t4>>[t]
KeyOf(t) == [own |-> TRUE, id |-> t, spelling |-> "plain"]
Plain(t) == [kind |-> "plan_step", key |-> KeyOf(t), task |-> t,
             status |-> "unobserved", evidence |-> NoEvidence]
Plan(n) == [i \in 1..n |-> Plain(Step(i))]
Dep(s, t) == [kind |-> "depends_on", source |-> KeyOf(Step(s)), target |-> KeyOf(Step(t))]

Good(ns, es) == [bound |-> TRUE, shaped |-> TRUE, owned |-> TRUE,
                 available |-> TRUE, covered |-> 2, nodes |-> ns, edges |-> es]

Headers ==
  [bound : BOOLEAN, shaped : BOOLEAN, owned : BOOLEAN, available : BOOLEAN,
   covered : {2, 3}, nodes : {Plan(n) : n \in 0..4}, edges : {<< >>}]
  \cup {Good([i \in 1..5 |-> Plain(t1)], << >>)}

SomeKeys == [own : BOOLEAN, id : {t1, t2}, spelling : {"plain", "escaped"}]

OddNodes ==
  [kind : {"plan_step"}, key : {k \in SomeKeys : k.own}, task : {t1, t2},
   status : {"unobserved", "running", "pending"},
   evidence : {NoEvidence} \cup [event : {e1, e2}, sequence : {0, 1, 2, 3}]]
  \cup {[Plain(t1) EXCEPT !.kind = "child"], [Plain(t1) EXCEPT !.key.own = FALSE]}

Observed == {n \in OddNodes : n.status = "running" /\ n.evidence # NoEvidence}

Nodes ==
  {Good(<<n>>, << >>) : n \in OddNodes}
  \cup {Good(<<n, m>>, << >>) : n \in Observed, m \in OddNodes}

OddEdges ==
  [kind : {"depends_on"}, source : SomeKeys, target : {KeyOf(t1), KeyOf(t2), KeyOf(t3)}]
  \cup {[Dep(1, 2) EXCEPT !.kind = "spawned_child"]}

Lists == {Good(Plan(2), es) : es \in UNION {[1..k -> OddEdges] : k \in 0..2}}
         \cup {Good(Plan(3), es) :
                 es \in [1..7 -> {Dep(1, 2), Dep(2, 3)}]}

ListOf(E) == FoldSet(LAMBDA e, list : Append(list, Dep(e[1], e[2])), << >>, E)

Dense == {Good(Plan(4), ListOf(E)) :
             E \in SUBSET {e \in Edges(4) : e[1] # e[2]}}

\* What can be laid out: every acyclic graph of up to four steps.
MCGraphs ==
  {g \in [count : 0..4, edges : SUBSET {e \in Edges(4) : e[1] # e[2]}] :
     g.edges \subseteq Edges(g.count) /\ Acyclic(g.count, g.edges)}

MCReplies == Headers \cup Nodes \cup Lists \cup Dense
=============================================================================
