--------------------------- MODULE PlanMapProofs ---------------------------
(***************************************************************************)
(* Proofs about the way of a plan from a reply to the map: the decoder     *)
(* (ExecutionGraph), for every set of replies and every bound that leaves  *)
(* room for an acyclic graph; the layout (LayeredLayout), for every set of *)
(* acyclic graphs; and the two together (PlanMap), where the graph that is *)
(* laid out is the one that was decoded.                                   *)
(***************************************************************************)
EXTENDS PlanMap, Integers, FiniteSetTheorems, TLAPS

-----------------------------------------------------------------------------
(***************************************************************************)
(* What the two share: counting among the steps 1..n, and that an acyclic  *)
(* graph always has a step to start from.                                  *)
(***************************************************************************)
\* There are n steps.
LEMMA AllCounted == \A n \in Nat : Cardinality(1..n) = n
<1> SUFFICES ASSUME NEW n \in Nat PROVE Cardinality(1..n) = n
  OBVIOUS
<1>1. CASE n = 0
  BY <1>1, FS_Interval
<1>2. CASE n > 0
  BY <1>2, FS_Interval
<1> QED BY <1>1, <1>2

\* The sets that are counted lie among the steps, so they are finite and have
\* at most as many members.
LEMMA Counts ==
  ASSUME NEW n \in Nat, NEW S \in SUBSET (1..n)
  PROVE  /\ IsFiniteSet(S) /\ Cardinality(S) \in 0..n
         /\ Cardinality(S) = n => S = 1..n
         /\ Cardinality(S) = 0 <=> S = {}
         /\ \A x \in (1..n) \ S : Cardinality(S \cup {x}) = Cardinality(S) + 1
         /\ \A x \in S : Cardinality(S \ {x}) = Cardinality(S) - 1
         /\ \A T \in SUBSET S : T # S => Cardinality(T) < Cardinality(S)
<1>1. IsFiniteSet(1..n) /\ Cardinality(1..n) = n
  BY AllCounted, FS_Interval
<1>2. /\ IsFiniteSet(S) /\ Cardinality(S) <= n
      /\ Cardinality(S) = n => S = 1..n
  BY <1>1, FS_Subset
<1>3. Cardinality(S) \in Nat
  BY <1>2, FS_CardinalityType
<1>4. Cardinality(S) = 0 <=> S = {}
  BY <1>2, FS_EmptySet
<1>5. \A x \in (1..n) \ S : Cardinality(S \cup {x}) = Cardinality(S) + 1
  BY <1>2, FS_AddElement
<1>6. \A x \in S : Cardinality(S \ {x}) = Cardinality(S) - 1
  BY <1>2, FS_RemoveElement
<1>7. ASSUME NEW T \in SUBSET S, T # S PROVE Cardinality(T) < Cardinality(S)
  <2>1. IsFiniteSet(T) /\ Cardinality(T) <= Cardinality(S) /\ Cardinality(S) # Cardinality(T)
    BY <1>2, <1>7, FS_Subset
  <2>2. Cardinality(T) \in Nat
    BY <2>1, FS_CardinalityType
  <2> QED BY <1>3, <2>1, <2>2
<1> QED BY <1>2, <1>3, <1>4, <1>5, <1>6, <1>7

\* Initial segments of 1..n are ordered as the numbers they end in.
LEMMA Segments ==
  ASSUME NEW n \in Nat, NEW b \in 1..n
  PROVE  /\ (1..b) \in SUBSET (1..n) /\ IsFiniteSet(1..b)
         /\ \A a \in 1..n : a < b => (1..a) \subseteq (1..b) /\ (1..a) # (1..b)
<1>1. (1..b) \in SUBSET (1..n)
  OBVIOUS
<1>2. IsFiniteSet(1..b)
  BY <1>1, Counts
<1>3. ASSUME NEW a \in 1..n, a < b PROVE (1..a) \subseteq (1..b) /\ (1..a) # (1..b)
  <2>1. b \in 1..b /\ b \notin 1..a /\ (1..a) \subseteq (1..b)
    BY <1>3
  <2> QED BY <2>1
<1> QED BY <1>1, <1>2, <1>3

\* Among any steps of an acyclic graph there is one that depends on none of
\* the others: the one of lowest rank.
LEMMA SomeStepIsFirst ==
  ASSUME NEW n \in Nat, NEW E \in SUBSET Edges(n), Acyclic(n, E),
         NEW U \in SUBSET (1..n), U # {}
  PROVE  \E t \in U : \A s \in U : <<s, t>> \notin E
<1>1. PICK rank \in [1..n -> 1..n] : \A e \in E : rank[e[1]] < rank[e[2]]
  BY DEF Acyclic
<1> DEFINE Below(t) == 1..rank[t]
           B == {Below(t) : t \in U}
           Order == StrictSubsetOrdering(1..n)
<1>2. B \subseteq FiniteSubsetsOf(1..n) /\ B # {}
  <2>1. ASSUME NEW t \in U
        PROVE  Below(t) \in SUBSET (1..n) /\ IsFiniteSet(Below(t))
    <3>1. rank[t] \in 1..n
      BY <1>1
    <3> QED BY <3>1, Segments
  <2> QED BY <2>1 DEF FiniteSubsetsOf
<1>3. PICK m \in B : \A k \in B : <<k, m>> \notin Order
  <2>1. IsFiniteSet(1..n)
    BY Counts
  <2>2. IsWellFoundedOn(Order, FiniteSubsetsOf(1..n))
    BY <2>1, FS_StrictSubsetOrderingWellFounded
  <2> HIDE DEF B, Order
  <2> QED BY <1>2, <2>2, WFMin
<1>4. PICK t \in U : Below(t) = m
  OBVIOUS
<1>5. ASSUME NEW s \in U, <<s, t>> \in E PROVE FALSE
  <2>1. rank[s] \in 1..n /\ rank[t] \in 1..n /\ rank[s] < rank[t]
    BY <1>1, <1>5
  <2>2. /\ Below(s) \in SUBSET (1..n) /\ Below(t) \in SUBSET (1..n)
        /\ Below(s) \subseteq Below(t) /\ Below(s) # Below(t)
    BY <2>1, Segments
  <2>3. <<Below(s), Below(t)>> \in Order
    BY <2>2 DEF StrictSubsetOrdering
  <2> QED BY <1>3, <1>4, <2>3
<1> QED BY <1>5

-----------------------------------------------------------------------------
(***************************************************************************)
(* The decoder.  The sort is right because the counter of a step is the    *)
(* number of its predecessors that were not visited yet: a step is pushed  *)
(* only when all of them were, so the turns of the visited steps rank the  *)
(* dependencies.                                                           *)
(***************************************************************************)
\* The predecessors a step still waits for.
Unvisited(t) == {s \in 1..Len(nodes) : <<s, t>> \in edges /\ s \notin DOMAIN order}

Early == phase \in {"header", "nodes"} =>
           incoming = << >> /\ edges = {} /\ ready = {} /\ DOMAIN order = {}

Reading == phase = "edges" => ready = {} /\ DOMAIN order = {}

DegreesCounted == phase \in {"edges", "sort"} =>
             /\ incoming \in [1..Len(nodes) -> Nat]
             /\ \A t \in 1..Len(nodes) : incoming[t] = Cardinality(Unvisited(t))

\* Nothing is pushed or visited before its predecessors, and nothing twice.
ReadySettled == /\ ready \cap DOMAIN order = {}
           /\ \A t \in ready \cup DOMAIN order : Unvisited(t) = {}

\* No step is forgotten: whatever waits for nothing is ready or visited.
ReadyFront == phase = "sort" =>
           \A t \in 1..Len(nodes) : Unvisited(t) = {} => t \in ready \cup DOMAIN order

Numbered == \A v \in DOMAIN order : order[v] \in 1..Visited

Ranked == \A e \in edges :
            e[2] \in DOMAIN order => order[e[1]] < order[e[2]]

Decided == /\ phase # "done" => result = "none"
           /\ result = "graph" => Visited = Len(nodes)

SortInv == /\ TypeOK /\ Early /\ Reading /\ DegreesCounted
        /\ ReadySettled /\ ReadyFront /\ Numbered /\ Ranked /\ Decided

----------------------------------------------------------------------------
\* Steps are numbered 1..Len(nodes), and everything else is about those.
LEMMA StepNumbers ==
  ASSUME SortInv
  PROVE  /\ Len(nodes) \in Nat /\ DOMAIN nodes = 1..Len(nodes)
         /\ edges \subseteq Edges(Len(nodes))
         /\ ready \subseteq 1..Len(nodes)
         /\ DOMAIN order \subseteq 1..Len(nodes)
<1>1. nodes \in Seq(Node)
  BY DEF SortInv, TypeOK
<1>2. Len(nodes) \in Nat /\ DOMAIN nodes = 1..Len(nodes)
  BY <1>1
<1> QED BY <1>2 DEF SortInv, TypeOK

\* decode starts with nothing read (the locals of decode).
LEMMA SortInit == Init => SortInv
<1> SUFFICES ASSUME Init PROVE SortInv
  OBVIOUS
<1>1. nodes \in Seq(Node) /\ Len(nodes) = 0 /\ DOMAIN order = {} /\ DOMAIN incoming = {}
  BY DEF Init
<1>2. TypeOK
  BY <1>1 DEF Init, TypeOK, Edges
<1>3. Early /\ Reading /\ DegreesCounted /\ ReadyFront /\ Decided
  BY <1>1 DEF Init, Early, Reading, DegreesCounted, ReadyFront, Decided
<1>4. ReadySettled /\ Numbered /\ Ranked
  BY <1>1 DEF Init, ReadySettled, Numbered, Ranked
<1> QED BY <1>2, <1>3, <1>4 DEF SortInv

\* A refusal, or the graph once everything is visited, disturbs nothing.
LEMMA ReturnKeeps ==
  ASSUME SortInv, phase # "done", NEW r \in {"wrong run", "unavailable", "graph"},
         r = "graph" => Visited = Len(nodes), Return(r)
  PROVE  SortInv'
<1>1. /\ phase' = "done" /\ result' = r
      /\ UNCHANGED <<reply, nodes, edges, incoming, ready, order>>
  BY DEF Return
<1>2. TypeOK' /\ Early' /\ Reading' /\ DegreesCounted' /\ ReadyFront'
  BY <1>1 DEF SortInv, TypeOK, Early, Reading, DegreesCounted, ReadyFront
<1>3. ReadySettled' /\ Numbered' /\ Ranked' /\ Decided'
  BY <1>1 DEF SortInv, ReadySettled, Unvisited, Numbered, Visited, Ranked, Decided
<1> QED BY <1>2, <1>3 DEF SortInv

\* The header only moves decode on.
LEMMA HeaderKeeps == ASSUME SortInv, Header PROVE SortInv'
<1>1. CASE Return("unavailable") \/ Return("wrong run")
  BY <1>1, ReturnKeeps DEF Header
<1>2. CASE /\ phase' = "nodes" /\ phase = "header"
           /\ UNCHANGED <<reply, result, nodes, edges, incoming, ready, order>>
  <2>1. TypeOK' /\ Early' /\ Reading' /\ DegreesCounted' /\ ReadyFront'
    BY <1>2 DEF SortInv, TypeOK, Early, Reading, DegreesCounted, ReadyFront
  <2>2. ReadySettled' /\ Numbered' /\ Ranked' /\ Decided'
    BY <1>2 DEF SortInv, ReadySettled, Unvisited, Numbered, Visited, Ranked, Decided
  <2> QED BY <2>1, <2>2 DEF SortInv
<1> QED BY <1>1, <1>2 DEF Header

\* Steps are read before any dependency is.
LEMMA ReadNodeKeeps == ASSUME SortInv, ReadNode PROVE SortInv'
<1>1. CASE Return("unavailable")
  BY <1>1, ReturnKeeps DEF ReadNode
<1>2. CASE /\ phase = "nodes" /\ Len(nodes) < Len(reply.nodes)
           /\ nodes' = Append(nodes, NextNode)
           /\ UNCHANGED <<reply, phase, result, edges, incoming, ready, order>>
  <2>1. NextNode \in Node
    <3>1. reply.nodes \in Seq(Node) /\ nodes \in Seq(Node)
      BY RepliesAssumption DEF SortInv, TypeOK, Reply
    <3>2. Len(nodes) + 1 \in 1..Len(reply.nodes)
      BY <1>2, <3>1
    <3> QED BY <3>1, <3>2 DEF NextNode
  <2>2. /\ nodes' \in Seq(Node)
        /\ incoming' = << >> /\ edges' = {} /\ ready' = {} /\ DOMAIN order' = {}
    <3>1. nodes \in Seq(Node) /\ nodes' = Append(nodes, NextNode)
      BY <1>2 DEF SortInv, TypeOK
    <3>2. nodes' \in Seq(Node)
      BY <2>1, <3>1
    <3> QED BY <1>2, <3>2 DEF SortInv, Early
  <2>3. TypeOK'
    <3>1. UNCHANGED <<reply, phase, result>> /\ DOMAIN incoming' = {}
      BY <1>2, <2>2
    <3> QED BY <2>2, <3>1 DEF SortInv, TypeOK
  <2>4. Early' /\ Reading' /\ DegreesCounted' /\ ReadyFront' /\ Decided'
    BY <1>2, <2>2 DEF SortInv, Reading, Early, DegreesCounted, ReadyFront, Decided
  <2>5. ReadySettled' /\ Numbered' /\ Ranked'
    BY <2>2 DEF ReadySettled, Numbered, Ranked
  <2> QED BY <2>3, <2>4, <2>5 DEF SortInv
<1> QED BY <1>1, <1>2 DEF ReadNode

\* The counters start at zero, and there is nothing to count.
LEMMA NodesEndKeeps == ASSUME SortInv, NodesEnd PROVE SortInv'
<1>1. /\ phase' = "edges" /\ incoming' = [t \in 1..Len(nodes) |-> 0]
      /\ UNCHANGED <<reply, result, nodes, edges, ready, order>>
  BY DEF NodesEnd
<1>2. edges = {} /\ ready = {} /\ DOMAIN order = {} /\ phase = "nodes"
  BY DEF SortInv, Early, NodesEnd
<1>3. TypeOK' /\ Early' /\ Reading' /\ ReadyFront' /\ Decided'
  BY <1>1, <1>2 DEF SortInv, TypeOK, Early, Reading, ReadyFront, Decided
<1>4. DegreesCounted'
  <2>1. \A t : Unvisited(t)' = {}
    BY <1>1, <1>2 DEF Unvisited
  <2> QED BY <1>1, <2>1, FS_EmptySet DEF DegreesCounted
<1>5. ReadySettled' /\ Numbered' /\ Ranked'
  BY <1>1, <1>2 DEF ReadySettled, Numbered, Ranked
<1> QED BY <1>3, <1>4, <1>5 DEF SortInv

\* A new dependency is one more to wait for, for its target alone.
LEMMA ReadEdgeKeeps == ASSUME SortInv, ReadEdge PROVE SortInv'
<1>1. CASE Return("unavailable")
  BY <1>1, ReturnKeeps DEF ReadEdge
<1>2. ASSUME NEW a \in DOMAIN nodes, NEW b \in DOMAIN nodes, phase = "edges",
             EdgeFits(NextEdge, a, b),
             edges' = edges \cup {<<a, b>>},
             incoming' = [incoming EXCEPT ![b] = @ + 1],
             UNCHANGED <<reply, phase, result, nodes, ready, order>>
      PROVE  SortInv'
  <2> DEFINE n == Len(nodes)
  <2>1. /\ n \in Nat /\ a \in 1..n /\ b \in 1..n
        /\ <<a, b>> \notin edges /\ edges \subseteq Edges(n)
        /\ ready = {} /\ DOMAIN order = {}
    BY <1>2, StepNumbers DEF SortInv, Reading, EdgeFits
  <2>2. incoming \in [1..n -> Nat] /\ \A t \in 1..n : incoming[t] = Cardinality(Unvisited(t))
    BY <1>2 DEF SortInv, DegreesCounted
  <2>3. Unvisited(b)' = Unvisited(b) \cup {a} /\ a \notin Unvisited(b)
    BY <1>2, <2>1 DEF Unvisited
  <2>4. \A t \in 1..n : t # b => Unvisited(t)' = Unvisited(t)
    BY <1>2, <2>1 DEF Unvisited
  <2>5. Cardinality(Unvisited(b)') = Cardinality(Unvisited(b)) + 1
    <3>1. Unvisited(b) \in SUBSET (1..n) /\ a \in (1..n) \ Unvisited(b)
      BY <2>1, <2>3 DEF Unvisited
    <3>2. \A x \in (1..n) \ Unvisited(b) :
            Cardinality(Unvisited(b) \cup {x}) = Cardinality(Unvisited(b)) + 1
      <4> HIDE DEF n
      <4> QED BY <2>1, <3>1, Counts
    <3> QED BY <2>3, <3>1, <3>2
  <2>6. /\ incoming' \in [1..n -> Nat]
        /\ \A t \in 1..n : incoming'[t] = Cardinality(Unvisited(t)')
    <3>1. incoming'[b] = incoming[b] + 1 /\ \A t \in 1..n : t # b => incoming'[t] = incoming[t]
      BY <1>2, <2>1, <2>2
    <3>2. incoming' \in [1..n -> Nat]
      BY <1>2, <2>1, <2>2
    <3> QED BY <2>1, <2>2, <2>4, <2>5, <3>1, <3>2
  <2>7. DegreesCounted'
    BY <1>2, <2>6 DEF DegreesCounted
  <2>8. TypeOK'
    <3>1. edges' \subseteq Edges(n)
      BY <1>2, <2>1 DEF Edges
    <3>2. DOMAIN incoming' = 1..n /\ \A t \in 1..n : incoming'[t] \in Nat
      BY <2>6
    <3> QED BY <1>2, <3>1, <3>2 DEF SortInv, TypeOK
  <2>9. Early' /\ Reading' /\ ReadyFront' /\ Decided'
    BY <1>2 DEF SortInv, Early, Reading, ReadyFront, Decided, Visited
  <2>10. ReadySettled' /\ Numbered' /\ Ranked'
    BY <1>2, <2>1 DEF ReadySettled, Numbered, Ranked
  <2> QED BY <2>7, <2>8, <2>9, <2>10 DEF SortInv
<1> QED BY <1>1, <1>2 DEF ReadEdge

\* The first steps to visit are those that wait for nothing.
LEMMA EdgesEndKeeps == ASSUME SortInv, EdgesEnd PROVE SortInv'
<1>1. /\ phase = "edges" /\ phase' = "sort"
      /\ ready' = {t \in DOMAIN nodes : incoming[t] = 0}
      /\ UNCHANGED <<reply, result, nodes, edges, incoming, order>>
  BY DEF EdgesEnd
<1>2. DOMAIN nodes = 1..Len(nodes) /\ Len(nodes) \in Nat
  BY StepNumbers
<1>3. DOMAIN order = {} /\ \A t \in 1..Len(nodes) : incoming[t] = Cardinality(Unvisited(t))
  BY <1>1 DEF SortInv, Reading, DegreesCounted
<1>4. TypeOK' /\ Early' /\ Reading' /\ Decided'
  BY <1>1, <1>2 DEF SortInv, TypeOK, Early, Reading, Decided, Visited
<1>5. DegreesCounted' /\ Numbered' /\ Ranked'
  BY <1>1 DEF SortInv, DegreesCounted, Unvisited, Numbered, Visited, Ranked
<1>6. ReadySettled'
  <2>1. \A t \in ready' : Unvisited(t)' = {}
    <3> SUFFICES ASSUME NEW t \in ready' PROVE Unvisited(t)' = {}
      OBVIOUS
    <3>1. Unvisited(t)' = Unvisited(t) /\ Unvisited(t) \in SUBSET (1..Len(nodes))
      BY <1>1 DEF Unvisited
    <3>2. Cardinality(Unvisited(t)) = 0
      BY <1>1, <1>2, <1>3
    <3> QED BY <1>2, <3>1, <3>2, Counts
  <2> QED BY <1>1, <1>3, <2>1 DEF ReadySettled
<1>7. ReadyFront'
  <2> SUFFICES ASSUME NEW t \in 1..Len(nodes), Unvisited(t)' = {} PROVE t \in ready'
    BY <1>1 DEF ReadyFront
  <2>1. Unvisited(t) = {} /\ Unvisited(t) \in SUBSET (1..Len(nodes))
    BY <1>1 DEF Unvisited
  <2>2. incoming[t] = 0
    BY <1>2, <1>3, <2>1, Counts
  <2> QED BY <1>1, <1>2, <2>2
<1> QED BY <1>4, <1>5, <1>6, <1>7 DEF SortInv

\* Visiting a step releases one dependency of each of its dependents; those
\* that wait for nothing more become ready, and none of them was visited.
LEMMA SortVisitKeeps == ASSUME SortInv, Visit PROVE SortInv'
<1>1. PICK s \in ready :
        /\ phase = "sort"
        /\ order' = [v \in DOMAIN order \cup {s} |->
                       IF v = s THEN Visited + 1 ELSE order[v]]
        /\ incoming' = Released(s)
        /\ ready' = (ready \ {s}) \cup NewlyReady(s)
        /\ UNCHANGED <<reply, phase, result, nodes, edges>>
  BY DEF Visit
<1> DEFINE n == Len(nodes)
<1>2. /\ n \in Nat /\ DOMAIN nodes = 1..n
      /\ edges \subseteq Edges(n) /\ ready \subseteq 1..n /\ DOMAIN order \subseteq 1..n
      /\ s \in 1..n
  BY StepNumbers
<1>3. incoming \in [1..n -> Nat] /\ \A t \in 1..n : incoming[t] = Cardinality(Unvisited(t))
  BY <1>1 DEF SortInv, DegreesCounted
<1>4. /\ s \notin DOMAIN order /\ Unvisited(s) = {} /\ <<s, s>> \notin edges
      /\ \A t \in DOMAIN order : <<s, t>> \notin edges
  BY <1>2 DEF SortInv, ReadySettled, Unvisited
<1>5. DOMAIN order' = DOMAIN order \cup {s}
  BY <1>1
<1>6. Visited' = Visited + 1 /\ Visited \in Nat /\ Visited + 1 <= n
  <2>1. DOMAIN order \in SUBSET (1..n) /\ s \in (1..n) \ DOMAIN order
    BY <1>2, <1>4
  <2>2. Visited' = Visited + 1
    BY <1>2, <1>5, <2>1, Counts DEF Visited
  <2>3. DOMAIN order' \in SUBSET (1..n)
    BY <1>5, <2>1
  <2>4. Visited \in 0..n /\ Visited' \in 0..n
    BY <1>2, <2>1, <2>3, Counts DEF Visited
  <2> QED BY <1>2, <2>2, <2>4
<1>7. \A t \in 1..n : Unvisited(t)' = Unvisited(t) \ {s}
  BY <1>1, <1>5 DEF Unvisited
<1>8. /\ incoming' \in [1..n -> Nat]
      /\ \A t \in 1..n : incoming'[t] = Cardinality(Unvisited(t)')
  <2>1. DOMAIN incoming' = 1..n /\ incoming' = [t \in 1..n |->
          IF <<s, t>> \in edges THEN incoming[t] - 1 ELSE incoming[t]]
    BY <1>1, <1>3 DEF Released
  <2>2. ASSUME NEW t \in 1..n
        PROVE  incoming'[t] \in Nat /\ incoming'[t] = Cardinality(Unvisited(t)')
    <3>1. Unvisited(t) \in SUBSET (1..n)
      BY DEF Unvisited
    <3>2. Unvisited(t)' \in SUBSET (1..n) /\ Unvisited(t)' = Unvisited(t) \ {s}
      BY <1>7, <3>1
    <3>3. Cardinality(Unvisited(t)') \in Nat
      BY <1>2, <3>2, Counts
    <3>4. CASE <<s, t>> \in edges
      <4>1. s \in Unvisited(t)
        BY <1>2, <1>4, <3>4 DEF Unvisited
      <4>2. Cardinality(Unvisited(t)') = Cardinality(Unvisited(t)) - 1
        BY <1>2, <3>1, <3>2, <4>1, Counts
      <4> QED BY <1>3, <2>1, <3>3, <3>4, <4>2
    <3>5. CASE <<s, t>> \notin edges
      <4>1. Unvisited(t)' = Unvisited(t)
        BY <3>2, <3>5 DEF Unvisited
      <4> QED BY <1>3, <2>1, <3>3, <3>5, <4>1
    <3> QED BY <3>4, <3>5
  <2> QED BY <2>1, <2>2
<1>9. TypeOK'
  <2>1. ready' \subseteq 1..n
    BY <1>1, <1>2 DEF NewlyReady
  <2>2. DOMAIN order' \subseteq 1..n
    BY <1>2, <1>5
  <2>3. \A v \in DOMAIN order' : order'[v] \in 1..n
    <3>1. \A v \in DOMAIN order : order[v] \in 1..n
      BY DEF SortInv, TypeOK
    <3>2. Visited + 1 \in 1..n
      BY <1>2, <1>6
    <3> QED BY <1>1, <1>5, <3>1, <3>2
  <2>4. DOMAIN incoming' = 1..n /\ \A t \in 1..n : incoming'[t] \in Nat
    BY <1>8
  <2> QED BY <1>1, <2>1, <2>2, <2>3, <2>4 DEF SortInv, TypeOK
<1>10. Early' /\ Reading' /\ Decided'
  BY <1>1 DEF SortInv, Early, Reading, Decided
<1>11. DegreesCounted'
  BY <1>1, <1>8 DEF DegreesCounted
<1>12. ReadySettled'
  <2>1. \A t \in NewlyReady(s) : t \notin DOMAIN order' /\ Unvisited(t)' = {}
    <3> SUFFICES ASSUME NEW t \in NewlyReady(s)
                 PROVE  t \notin DOMAIN order' /\ Unvisited(t)' = {}
      OBVIOUS
    <3>1. t \in 1..n /\ <<s, t>> \in edges /\ incoming'[t] = 0
      BY <1>1, <1>2 DEF NewlyReady
    <3>2. t \notin DOMAIN order'
      BY <1>4, <1>5, <3>1
    <3>3. Unvisited(t)' \in SUBSET (1..n) /\ Cardinality(Unvisited(t)') = 0
      BY <1>7, <1>8, <3>1 DEF Unvisited
    <3> QED BY <1>2, <3>2, <3>3, Counts
  <2>2. \A t \in (ready \ {s}) \cup DOMAIN order' : Unvisited(t)' = {}
    BY <1>2, <1>5, <1>7 DEF SortInv, ReadySettled
  <2>3. (ready \ {s}) \cap DOMAIN order' = {}
    BY <1>5 DEF SortInv, ReadySettled
  <2> QED BY <1>1, <2>1, <2>2, <2>3 DEF ReadySettled
<1>13. Numbered'
  BY <1>1, <1>5, <1>6 DEF SortInv, Numbered
<1>14. Ranked'
  <2> SUFFICES ASSUME NEW e \in edges, e[2] \in DOMAIN order'
               PROVE  order'[e[1]] < order'[e[2]]
    BY <1>1 DEF Ranked
  <2>1. e = <<e[1], e[2]>> /\ e[1] \in 1..n /\ e[2] \in 1..n
    BY <1>2 DEF Edges
  <2>2. e[1] \in DOMAIN order /\ e[1] # s
    BY <1>4, <1>5, <2>1 DEF SortInv, ReadySettled, Unvisited
  <2>3. order'[e[1]] = order[e[1]] /\ order[e[1]] \in 1..Visited
    BY <1>1, <2>2 DEF SortInv, Numbered
  <2>4. CASE e[2] = s
    BY <1>1, <1>6, <2>3, <2>4
  <2>5. CASE e[2] # s
    <3>1. e[2] \in DOMAIN order /\ order'[e[2]] = order[e[2]]
      BY <1>1, <1>5, <2>5
    <3> QED BY <2>3, <3>1 DEF SortInv, Ranked
  <2> QED BY <2>4, <2>5
<1>15. ReadyFront'
  <2> SUFFICES ASSUME NEW t \in 1..n, Unvisited(t)' = {}
               PROVE  t \in ready' \cup DOMAIN order'
    BY <1>1 DEF ReadyFront
  <2>1. CASE Unvisited(t) = {}
    BY <1>1, <1>5, <2>1 DEF SortInv, ReadyFront
  <2>2. CASE Unvisited(t) # {}
    <3>1. <<s, t>> \in edges
      BY <1>7, <2>2 DEF Unvisited
    <3>2. Unvisited(t)' \in SUBSET (1..n)
      BY <1>7 DEF Unvisited
    <3>3. incoming'[t] = 0
      BY <1>2, <1>8, <3>2, Counts
    <3> QED BY <1>1, <1>2, <3>1, <3>3 DEF NewlyReady
  <2> QED BY <2>1, <2>2
<1> QED BY <1>9, <1>10, <1>11, <1>12, <1>13, <1>14, <1>15 DEF SortInv

\* Every step of decode keeps the invariant.
LEMMA SortNext == SortInv /\ [Next]_vars => SortInv'
<1> SUFFICES ASSUME SortInv, [Next]_vars PROVE SortInv'
  OBVIOUS
<1>1. CASE Decide
  BY <1>1, ReturnKeeps DEF Decide
<1>2. CASE UNCHANGED vars
  <2>1. TypeOK' /\ Early' /\ Reading' /\ DegreesCounted'
    BY <1>2 DEF vars, SortInv, TypeOK, Early, Reading, DegreesCounted, Unvisited
  <2>2. ReadySettled' /\ ReadyFront' /\ Numbered' /\ Ranked' /\ Decided'
    BY <1>2 DEF vars, SortInv, ReadySettled, ReadyFront, Unvisited, Numbered, Visited, Ranked, Decided
  <2> QED BY <2>1, <2>2 DEF SortInv
<1> QED BY <1>1, <1>2, HeaderKeeps, ReadNodeKeeps, NodesEndKeeps, ReadEdgeKeeps,
           EdgesEndKeeps, SortVisitKeeps DEF Next, Done

----------------------------------------------------------------------------
\* The invariant holds throughout.
LEMMA SortInvariant == Spec => []SortInv
BY SortInit, SortNext, PTL DEF Spec

\* The variables keep their types, and no turn exceeds the number of steps.
THEOREM GraphTypes == Spec => []TypeOK
<1>1. SortInv => TypeOK
  BY DEF SortInv
<1> QED BY <1>1, SortInvariant, PTL

\* An accepted graph has no cycle: the turns in which its steps were visited
\* rank every dependency.
LEMMA AcceptedGraphIsAcyclic == SortInv => AcceptedIsAcyclic
<1> SUFFICES ASSUME SortInv, result = "graph" PROVE Acyclic(Len(nodes), edges)
  BY DEF AcceptedIsAcyclic
<1> DEFINE n == Len(nodes)
<1>1. n \in Nat /\ DOMAIN order \in SUBSET (1..n) /\ edges \subseteq Edges(n)
  BY DEF SortInv, TypeOK
<1>2. DOMAIN order = 1..n
  BY <1>1, Counts DEF SortInv, Decided, Visited
<1>3. [v \in 1..n |-> order[v]] \in [1..n -> 1..n]
  BY <1>2 DEF SortInv, TypeOK
<1>4. \A e \in edges : order[e[1]] < order[e[2]] /\ e[1] \in 1..n /\ e[2] \in 1..n
  BY <1>1, <1>2 DEF SortInv, Ranked, Edges
<1> QED BY <1>3, <1>4 DEF Acyclic

\* A graph that decode accepts has no cycle.
THEOREM GraphsAreAcyclic == Spec => []AcceptedIsAcyclic
BY AcceptedGraphIsAcyclic, SortInvariant, PTL

\* A step of an acyclic graph that was not visited keeps the sort going:
\* the first of them would be ready.
LEMMA SortIsOver ==
  ASSUME SortInv, phase = "sort", ready = {}, Acyclic(Len(nodes), edges)
  PROVE  (1..Len(nodes)) \ DOMAIN order = {}
<1> DEFINE U == (1..Len(nodes)) \ DOMAIN order
<1>1. /\ Len(nodes) \in Nat /\ edges \in SUBSET Edges(Len(nodes))
      /\ U \in SUBSET (1..Len(nodes))
  BY StepNumbers
<1>2. ASSUME U # {} PROVE FALSE
  <2>1. PICK t \in U : \A s \in U : <<s, t>> \notin edges
    <3> HIDE DEF U
    <3> QED BY <1>1, <1>2, SomeStepIsFirst
  <2>2. Unvisited(t) = {}
    BY <2>1 DEF Unvisited
  <2> QED BY <2>1, <2>2 DEF SortInv, ReadyFront
<1> QED BY <1>2

\* The sort refuses a graph only because it has a cycle.
THEOREM OnlyCyclesAreRefused == Spec => SortRefusesCycles
<1> DEFINE Cyclic == phase = "sort" /\ result' = "unavailable"
                       => ~ Acyclic(Len(nodes), edges)
<1>1. SortInv /\ [Next]_vars => [Cyclic]_vars
  <2> SUFFICES ASSUME SortInv, Next, vars' # vars, phase = "sort", result' = "unavailable",
                      Acyclic(Len(nodes), edges)
               PROVE  FALSE
    OBVIOUS
  <2>1. CASE Decide
    <3>1. ready = {} /\ Visited # Len(nodes)
      BY <2>1 DEF Decide, Return
    <3>2. Len(nodes) \in Nat /\ DOMAIN order \in SUBSET (1..Len(nodes))
      BY StepNumbers
    <3>3. DOMAIN order = 1..Len(nodes)
      BY <3>1, <3>2, SortIsOver
    <3> QED BY <3>1, <3>2, <3>3, AllCounted DEF Visited
  <2>2. CASE Visit
    <3>1. result = "unavailable" /\ phase' = "sort"
      BY <2>2 DEF Visit
    <3> QED BY <3>1 DEF SortInv, Decided
  <2> QED BY <2>1, <2>2 DEF Next, Header, ReadNode, NodesEnd, ReadEdge, EdgesEnd, Done
<1> QED BY <1>1, SortInvariant, PTL DEF Spec, SortRefusesCycles

-----------------------------------------------------------------------------
(***************************************************************************)
(* What decode accepts are the plans.  A plan is said of the whole reply,  *)
(* with cardinalities; decode compares each entry with those before it.    *)
(***************************************************************************)
\* As many values as indices: no value is taken twice.
LEMMA DistinctCounts ==
  ASSUME NEW n \in Nat, NEW S \in SUBSET (1..n), NEW g
  PROVE  Cardinality({g[i] : i \in S}) = Cardinality(S)
           <=> \A i, j \in S : g[i] = g[j] => i = j
<1> DEFINE T == {g[i] : i \in S}
           h == [i \in S |-> g[i]]
<1>1. IsFiniteSet(S)
  BY Counts
<1>2. h \in Surjection(S, T)
  BY DEF Surjection
<1>3. Cardinality(T) = Cardinality(S) <=> h \in Injection(S, T)
  <2> HIDE DEF h, T
  <2> QED BY <1>1, <1>2, FS_Surjection
<1>4. h \in Injection(S, T) <=> \A i, j \in S : g[i] = g[j] => i = j
  BY DEF Injection, IsInjective
<1> QED BY <1>3, <1>4

\* A dependency excludes the opposite one and those of a step on itself, so
\* an acyclic graph has at most one for each pair of steps.
LEMMA AcyclicIsSmall ==
  ASSUME NEW n \in Nat, NEW E \in SUBSET Edges(n), Acyclic(n, E)
  PROVE  IsFiniteSet(E) /\ Cardinality(E) \in Nat /\ 2 * Cardinality(E) + n <= n * n
<1> DEFINE R == {<<e[2], e[1]>> : e \in E}
           D == {<<i, i>> : i \in 1..n}
           e1(e) == <<e[2], e[1]>>
<1>1. PICK rank \in [1..n -> 1..n] : \A e \in E : rank[e[1]] < rank[e[2]]
  BY DEF Acyclic
<1>2. IsFiniteSet(1..n) /\ Cardinality(1..n) = n
  BY AllCounted, FS_Interval
<1>3. IsFiniteSet(Edges(n)) /\ Cardinality(Edges(n)) = n * n
  BY <1>2, FS_Product DEF Edges
<1>4. \A e \in E : e = <<e[1], e[2]>> /\ e[1] \in 1..n /\ e[2] \in 1..n
  BY DEF Edges
<1>5. R \in SUBSET Edges(n) /\ D \in SUBSET Edges(n)
  <2>1. \A e \in E : <<e[2], e[1]>> \in Edges(n)
    BY <1>4 DEF Edges
  <2>2. \A i \in 1..n : <<i, i>> \in Edges(n)
    BY DEF Edges
  <2> QED BY <2>1, <2>2
<1>6. IsFiniteSet(E) /\ IsFiniteSet(R) /\ IsFiniteSet(D)
  <2> HIDE DEF R, D
  <2> QED BY <1>3, <1>5, FS_Subset
<1>7. Cardinality(D) = n
  <2> DEFINE h == [i \in 1..n |-> <<i, i>>]
  <2>1. h \in Surjection(1..n, D) /\ h \in Injection(1..n, D)
    BY DEF Surjection, Injection, IsInjective
  <2> HIDE DEF h, D
  <2> QED BY <1>2, <2>1, FS_Surjection
<1>8. Cardinality(R) = Cardinality(E)
  <2> DEFINE h == [e \in E |-> <<e[2], e[1]>>]
  <2>1. h \in Surjection(E, R)
    BY DEF Surjection
  <2>2. \A e, f \in E : h[e] = h[f] => e = f
    <3> SUFFICES ASSUME NEW e \in E, NEW f \in E, h[e] = h[f] PROVE e = f
      OBVIOUS
    <3>1. e[1] = f[1] /\ e[2] = f[2]
      OBVIOUS
    <3> QED BY <1>4, <3>1
  <2>3. h \in Injection(E, R)
    BY <2>1, <2>2 DEF Surjection, Injection, IsInjective
  <2> HIDE DEF h, R
  <2> QED BY <1>6, <2>1, <2>3, FS_Surjection
<1>9. E \cap R = {} /\ E \cap D = {} /\ R \cap D = {}
  <2>1. \A i, j \in 1..n : <<i, j>> \in E => rank[i] < rank[j]
    BY <1>1
  <2>2. \A i, j \in 1..n : <<i, j>> \in E => <<j, i>> \notin E
    <3> SUFFICES ASSUME NEW i \in 1..n, NEW j \in 1..n, <<i, j>> \in E, <<j, i>> \in E
                 PROVE  FALSE
      OBVIOUS
    <3>1. rank[i] < rank[j] /\ rank[j] < rank[i] /\ rank[i] \in 1..n /\ rank[j] \in 1..n
      BY <2>1
    <3> QED BY <3>1
  <2>3. \A i \in 1..n : <<i, i>> \notin E
    BY <2>2
  <2>4. ASSUME NEW e \in R, e \in E PROVE FALSE
    <3>1. PICK f \in E : e = <<f[2], f[1]>>
      OBVIOUS
    <3> QED BY <1>4, <2>2, <2>4, <3>1
  <2>5. ASSUME NEW e \in D, e \in E \cup R PROVE FALSE
    <3>1. PICK i \in 1..n : e = <<i, i>>
      OBVIOUS
    <3>2. <<i, i>> \notin E
      BY <2>3
    <3>3. PICK f \in E : <<i, i>> = <<f[2], f[1]>>
      BY <2>5, <3>1, <3>2
    <3>4. f[1] = i /\ f[2] = i
      BY <3>3
    <3> QED BY <1>4, <3>2, <3>4
  <2> QED BY <2>4, <2>5
<1>10. /\ IsFiniteSet(E \cup R)
       /\ Cardinality(E \cup R) = Cardinality(E) + Cardinality(R) - Cardinality(E \cap R)
  <2> HIDE DEF R
  <2> QED BY <1>6, FS_Union
<1>11. /\ IsFiniteSet((E \cup R) \cup D)
       /\ Cardinality((E \cup R) \cup D)
            = Cardinality(E \cup R) + Cardinality(D) - Cardinality((E \cup R) \cap D)
  <2> HIDE DEF R, D
  <2> QED BY <1>6, <1>10, FS_Union
<1>12. E \cap R = {} /\ (E \cup R) \cap D = {} /\ Cardinality({}) = 0
  BY <1>9, FS_EmptySet
<1>13. Cardinality((E \cup R) \cup D) <= Cardinality(Edges(n))
  <2>1. (E \cup R) \cup D \in SUBSET Edges(n)
    BY <1>5
  <2> HIDE DEF R, D
  <2> QED BY <1>3, <2>1, FS_Subset
<1>14. Cardinality(E) \in Nat
  BY <1>6, FS_CardinalityType
<1>15. Cardinality((E \cup R) \cup D) = Cardinality(E) + Cardinality(E) + n
  <2> HIDE DEF R, D
  <2>1. Cardinality(E \cap R) = 0 /\ Cardinality((E \cup R) \cap D) = 0
    BY <1>12
  <2>2. Cardinality(E \cup R) = Cardinality(E) + Cardinality(E)
    BY <1>8, <1>10, <1>14, <2>1
  <2> QED BY <1>7, <1>11, <1>14, <2>1, <2>2
<1>16. \A k \in Nat : k + k + n <= n * n => 2 * k + n <= n * n
  OBVIOUS
<1> HIDE DEF R, D
<1> QED BY <1>3, <1>6, <1>13, <1>14, <1>15, <1>16

\* Fewer steps have room for fewer dependencies.
LEMMA SquaresGrow ==
  ASSUME NEW n \in Nat, NEW m \in Nat, n <= m
  PROVE  n * n - n <= m * (m - 1)
<1>1. PICK d \in Nat : m = n + d
  <2>1. m - n \in Nat /\ m = n + (m - n)
    OBVIOUS
  <2> QED BY <2>1
<1>2. CASE d = 0
  BY <1>1, <1>2
<1>3. CASE d > 0
  <2>1. m * (m - 1) = (n * n - n) + (2 * (n * d) + d * (d - 1))
    BY <1>1
  <2>2. n * d >= 0 /\ d * (d - 1) >= 0 /\ n * d \in Int /\ d * (d - 1) \in Int /\ n * n \in Int
    BY <1>3
  <2> QED BY <2>1, <2>2
<1> QED BY <1>2, <1>3

----------------------------------------------------------------------------
\* Decode has got past the header, and not to a refusal.
Passed == phase \in {"nodes", "edges", "sort"} \/ result = "graph"

HeaderPassed == Passed => reply.bound /\ reply.shaped /\ reply.owned /\ SnapshotFits(reply)

\* The steps read so far are the reply's first ones.
StepsRead == /\ Len(nodes) <= Len(reply.nodes)
             /\ \A i \in 1..Len(nodes) : nodes[i] = reply.nodes[i]

ListsEnded ==
  /\ phase \in {"edges", "sort"} \/ result = "graph" => Len(nodes) = Len(reply.nodes)
  /\ phase = "sort" \/ result = "graph" => Cardinality(edges) = Len(reply.edges)

\* A step alone, and two steps side by side.
Sound(node) ==
  /\ node.kind = "plan_step" /\ node.key.own /\ node.key.id = node.task
  /\ node.status \in Statuses
  /\ node.evidence = NoEvidence <=> node.status = "unobserved"
  /\ node.evidence # NoEvidence => node.evidence.sequence \in 1..reply.covered

Differ(a, b) ==
  /\ a.task # b.task
  /\ a.evidence # NoEvidence /\ b.evidence # NoEvidence =>
       a.evidence.event # b.evidence.event /\ a.evidence.sequence # b.evidence.sequence

StepsFit == \A i \in 1..Len(nodes) : Sound(nodes[i])

StepsDiffer == \A i, j \in 1..Len(nodes) : i # j => Differ(nodes[i], nodes[j])

\* A listed dependency, and the pair of steps it stands for.
Stands(j, s, t) == Names(reply.edges[j].source, s) /\ Names(reply.edges[j].target, t)

EdgesRead ==
  LET k == Cardinality(edges)
  IN  /\ k <= Len(reply.edges)
      /\ \A j \in 1..k : /\ reply.edges[j].kind = "depends_on"
                         /\ \E s, t \in 1..Len(nodes) : Stands(j, s, t) /\ <<s, t>> \in edges
      /\ \A s, t \in 1..Len(nodes) :
           <<s, t>> \in edges => \E j \in 1..k : Stands(j, s, t)

DecodeInv == /\ SortInv /\ HeaderPassed /\ StepsRead /\ ListsEnded
             /\ StepsFit /\ StepsDiffer /\ EdgesRead /\ PlansAreAccepted

----------------------------------------------------------------------------
\* What is known of a reply and of what was read of it.
LEMMA ReplyFacts ==
  ASSUME SortInv
  PROVE  /\ reply \in Reply
         /\ reply.nodes \in Seq(Node) /\ reply.edges \in Seq(Edge)
         /\ Len(reply.nodes) \in Nat /\ DOMAIN reply.nodes = 1..Len(reply.nodes)
         /\ Len(reply.edges) \in Nat /\ DOMAIN reply.edges = 1..Len(reply.edges)
         /\ \A i \in 1..Len(reply.nodes) : reply.nodes[i] \in Node
         /\ \A j \in 1..Len(reply.edges) : reply.edges[j] \in Edge
         /\ IsFiniteSet(edges) /\ Cardinality(edges) \in Nat
<1>1. reply \in Reply
  BY RepliesAssumption DEF SortInv, TypeOK
<1>2. reply.nodes \in Seq(Node) /\ reply.edges \in Seq(Edge)
  BY <1>1 DEF Reply
<1>3. /\ Len(reply.nodes) \in Nat /\ DOMAIN reply.nodes = 1..Len(reply.nodes)
      /\ \A i \in 1..Len(reply.nodes) : reply.nodes[i] \in Node
  BY <1>2
<1>4. /\ Len(reply.edges) \in Nat /\ DOMAIN reply.edges = 1..Len(reply.edges)
      /\ \A j \in 1..Len(reply.edges) : reply.edges[j] \in Edge
  BY <1>2
<1>5. Len(nodes) \in Nat /\ edges \in SUBSET Edges(Len(nodes))
  BY StepNumbers
<1>6. IsFiniteSet(edges) /\ Cardinality(edges) \in Nat
  <2> DEFINE N == 1..Len(nodes)
  <2>1. IsFiniteSet(N)
    BY <1>5, FS_Interval
  <2>2. IsFiniteSet(N \X N)
    <3> HIDE DEF N
    <3> QED BY <2>1, FS_Product
  <2>3. edges \in SUBSET (N \X N)
    BY <1>5 DEF Edges
  <2>4. IsFiniteSet(edges)
    <3> HIDE DEF N
    <3> QED BY <2>2, <2>3, FS_Subset
  <2> QED BY <2>4, FS_CardinalityType
<1> QED BY <1>1, <1>2, <1>3, <1>4, <1>6

\* The steps of a plan, and of nothing else, are sound and differ.
LEMMA PlanSteps ==
  ASSUME SortInv
  PROVE  LET n == Len(reply.nodes)
         IN  /\ (\A i \in DOMAIN reply.nodes :
                   /\ reply.nodes[i].kind = "plan_step" /\ reply.nodes[i].status # "pending"
                   /\ reply.nodes[i].key.own /\ reply.nodes[i].key.id = reply.nodes[i].task
                   /\ i \in ObservedSteps(reply) <=> reply.nodes[i].evidence # NoEvidence)
              /\ (\A i \in ObservedSteps(reply) :
                     reply.nodes[i].evidence.sequence \in 1..reply.covered)
              <=> \A i \in 1..n : Sound(reply.nodes[i])
<1> DEFINE n == Len(reply.nodes)
<1>1. DOMAIN reply.nodes = 1..n
  BY ReplyFacts
<1>2. \A i \in 1..n : /\ reply.nodes[i].status \in Statuses <=> reply.nodes[i].status # "pending"
                      /\ i \in ObservedSteps(reply) <=> reply.nodes[i].status # "unobserved"
  <2>1. \A i \in 1..n : reply.nodes[i] \in Node
    BY ReplyFacts
  <2>2. \A i \in 1..n : reply.nodes[i].status \in Statuses \cup {"pending"}
    BY <2>1 DEF Node
  <2>3. "pending" \notin Statuses
    BY DEF Statuses
  <2> QED BY <1>1, <2>2, <2>3 DEF ObservedSteps
<1>3. \A i \in ObservedSteps(reply) : i \in 1..n
  BY <1>1 DEF ObservedSteps
<1> HIDE DEF n
<1> QED BY <1>1, <1>2, <1>3 DEF n, Sound

LEMMA PlanDiffers ==
  ASSUME SortInv, \A i \in 1..Len(reply.nodes) : Sound(reply.nodes[i])
  PROVE  LET n == Len(reply.nodes)
             observed == ObservedSteps(reply)
         IN  /\ Cardinality({reply.nodes[i].task : i \in DOMAIN reply.nodes}) = n
             /\ \A f \in {"event", "sequence"} :
                  Cardinality({reply.nodes[i].evidence[f] : i \in observed})
                    = Cardinality(observed)
             <=> \A i, j \in 1..n : i # j => Differ(reply.nodes[i], reply.nodes[j])
<1> DEFINE n == Len(reply.nodes)
           N == 1..n
           observed == ObservedSteps(reply)
           tasks == [i \in N |-> reply.nodes[i].task]
           events == [i \in N |-> reply.nodes[i].evidence.event]
           sequences == [i \in N |-> reply.nodes[i].evidence.sequence]
<1>1. n \in Nat /\ DOMAIN reply.nodes = N
  BY ReplyFacts
<1>2. observed \in SUBSET N /\ \A i \in N : i \in observed <=> reply.nodes[i].evidence # NoEvidence
  BY <1>1 DEF ObservedSteps, Sound
<1>3. Cardinality({reply.nodes[i].task : i \in DOMAIN reply.nodes}) = n
        <=> \A i, j \in N : reply.nodes[i].task = reply.nodes[j].task => i = j
  <2>1. {reply.nodes[i].task : i \in DOMAIN reply.nodes} = {tasks[i] : i \in N}
    BY <1>1
  <2>2. \A i \in N : tasks[i] = reply.nodes[i].task
    OBVIOUS
  <2>3. Cardinality(N) = n
    BY <1>1, AllCounted
  <2>4. Cardinality({tasks[i] : i \in N}) = Cardinality(N)
          <=> \A i, j \in N : tasks[i] = tasks[j] => i = j
    <3> HIDE DEF tasks
    <3> QED BY <1>1, DistinctCounts
  <2> HIDE DEF tasks, N
  <2> QED BY <2>1, <2>2, <2>3, <2>4
<1>4. Cardinality({reply.nodes[i].evidence.event : i \in observed}) = Cardinality(observed)
        <=> \A i, j \in observed : reply.nodes[i].evidence.event = reply.nodes[j].evidence.event
                                     => i = j
  <2>1. {reply.nodes[i].evidence.event : i \in observed} = {events[i] : i \in observed}
    BY <1>2
  <2>2. \A i \in observed : events[i] = reply.nodes[i].evidence.event
    BY <1>2
  <2>3. Cardinality({events[i] : i \in observed}) = Cardinality(observed)
          <=> \A i, j \in observed : events[i] = events[j] => i = j
    <3> HIDE DEF events, observed
    <3> QED BY <1>1, <1>2, DistinctCounts
  <2> HIDE DEF events, observed
  <2> QED BY <2>1, <2>2, <2>3
<1>5. Cardinality({reply.nodes[i].evidence.sequence : i \in observed}) = Cardinality(observed)
        <=> \A i, j \in observed :
              reply.nodes[i].evidence.sequence = reply.nodes[j].evidence.sequence => i = j
  <2>1. {reply.nodes[i].evidence.sequence : i \in observed} = {sequences[i] : i \in observed}
    BY <1>2
  <2>2. \A i \in observed : sequences[i] = reply.nodes[i].evidence.sequence
    BY <1>2
  <2>3. Cardinality({sequences[i] : i \in observed}) = Cardinality(observed)
          <=> \A i, j \in observed : sequences[i] = sequences[j] => i = j
    <3> HIDE DEF sequences, observed
    <3> QED BY <1>1, <1>2, DistinctCounts
  <2> HIDE DEF sequences, observed
  <2> QED BY <2>1, <2>2, <2>3
<1>6. (\A f \in {"event", "sequence"} :
         Cardinality({reply.nodes[i].evidence[f] : i \in observed}) = Cardinality(observed))
      <=> /\ Cardinality({reply.nodes[i].evidence.event : i \in observed}) = Cardinality(observed)
          /\ Cardinality({reply.nodes[i].evidence.sequence : i \in observed})
               = Cardinality(observed)
  <2> HIDE DEF observed
  <2> QED OBVIOUS
<1>7. (\A i, j \in N : i # j => Differ(reply.nodes[i], reply.nodes[j]))
      <=> /\ \A i, j \in N : reply.nodes[i].task = reply.nodes[j].task => i = j
          /\ \A i, j \in observed :
               reply.nodes[i].evidence.event = reply.nodes[j].evidence.event => i = j
          /\ \A i, j \in observed :
               reply.nodes[i].evidence.sequence = reply.nodes[j].evidence.sequence => i = j
  <2> HIDE DEF observed, N
  <2> QED BY <1>2 DEF Differ
<1> HIDE DEF observed
<1> QED BY <1>1, <1>3, <1>4, <1>5, <1>6, <1>7 DEF observed

\* The pairs of steps that dependencies stand for, once all steps were read.
LEMMA PairOf ==
  ASSUME SortInv, StepsRead, StepsDiffer, Len(nodes) = Len(reply.nodes),
         NEW j \in 1..Len(reply.edges), NEW s \in 1..Len(nodes), NEW t \in 1..Len(nodes)
  PROVE  /\ StepOf(reply, reply.edges[j].source) \in SUBSET (1..Len(nodes))
         /\ StepOf(reply, reply.edges[j].target) \in SUBSET (1..Len(nodes))
         /\ Stands(j, s, t) <=> /\ reply.edges[j].source.own /\ reply.edges[j].target.own
                                /\ s \in StepOf(reply, reply.edges[j].source)
                                /\ t \in StepOf(reply, reply.edges[j].target)
         /\ \A a, b \in StepOf(reply, reply.edges[j].source) : a = b
         /\ \A a, b \in StepOf(reply, reply.edges[j].target) : a = b
<1> DEFINE n == Len(reply.nodes)
<1>1. DOMAIN reply.nodes = 1..n /\ Len(nodes) = n
  BY ReplyFacts
<1>2. \A i \in 1..n : nodes[i] = reply.nodes[i]
  BY <1>1 DEF StepsRead
<1>3. \A key : StepOf(reply, key) = {i \in 1..n : nodes[i].task = key.id}
  BY <1>1, <1>2 DEF StepOf
<1>4. \A a, b \in 1..n : a # b => nodes[a].task # nodes[b].task
  BY <1>1 DEF StepsDiffer, Differ
<1> HIDE DEF n
<1> QED BY <1>1, <1>3, <1>4 DEF Stands, Names

\* A plan lists no dependency twice, however the keys are spelled.
LEMMA ListedOnce ==
  ASSUME SortInv, StepsRead, StepsDiffer, Len(nodes) = Len(reply.nodes),
         \A j \in 1..Len(reply.edges) : /\ StepOf(reply, reply.edges[j].source) # {}
                                        /\ StepOf(reply, reply.edges[j].target) # {},
         Cardinality(Pairs(reply)) = Len(reply.edges),
         NEW i \in 1..Len(reply.edges), NEW j \in 1..Len(reply.edges),
         NEW s \in 1..Len(nodes), NEW t \in 1..Len(nodes), Stands(i, s, t), Stands(j, s, t)
  PROVE  i = j
<1> DEFINE n == Len(nodes)
           m == Len(reply.edges)
           A(k) == StepOf(reply, reply.edges[k].source)
           B(k) == StepOf(reply, reply.edges[k].target)
           pair == [k \in 1..m |-> <<CHOOSE a \in A(k) : TRUE, CHOOSE b \in B(k) : TRUE>>]
<1>1. n \in Nat /\ m \in Nat /\ DOMAIN reply.edges = 1..m
  BY ReplyFacts, StepNumbers
<1>2. \A k \in 1..m : \E a \in A(k), b \in B(k) : /\ A(k) = {a} /\ B(k) = {b}
                                                  /\ a \in 1..n /\ b \in 1..n
  <2> SUFFICES ASSUME NEW k \in 1..m
               PROVE  \E a \in A(k), b \in B(k) : /\ A(k) = {a} /\ B(k) = {b}
                                                  /\ a \in 1..n /\ b \in 1..n
    OBVIOUS
  <2>1. /\ A(k) \in SUBSET (1..n) /\ B(k) \in SUBSET (1..n)
        /\ \A a, b \in A(k) : a = b
        /\ \A a, b \in B(k) : a = b
    BY PairOf
  <2>2. A(k) # {} /\ B(k) # {}
    OBVIOUS
  <2> HIDE DEF A, B
  <2> QED BY <2>1, <2>2
<1>3. \A k \in 1..m : /\ pair[k][1] \in A(k) /\ pair[k][2] \in B(k)
                      /\ \A a \in A(k), b \in B(k) : pair[k] = <<a, b>>
  <2> HIDE DEF A, B
  <2> QED BY <1>2
<1>4. Pairs(reply) = {pair[k] : k \in 1..m}
  <2>1. Pairs(reply) = {e \in Edges(n) : \E k \in 1..m : e[1] \in A(k) /\ e[2] \in B(k)}
    BY <1>1 DEF Pairs
  <2> HIDE DEF A, B
  <2>2. ASSUME NEW e \in Edges(n), NEW k \in 1..m, e[1] \in A(k), e[2] \in B(k)
        PROVE  e = pair[k]
    <3>1. e = <<e[1], e[2]>>
      BY DEF Edges
    <3> HIDE DEF pair
    <3> QED BY <1>3, <2>2, <3>1
  <2>3. ASSUME NEW k \in 1..m
        PROVE  pair[k] \in Edges(n) /\ pair[k][1] \in A(k) /\ pair[k][2] \in B(k)
    <3>1. PICK a \in A(k), b \in B(k) : a \in 1..n /\ b \in 1..n
      BY <1>2
    <3>2. pair[k] = <<a, b>>
      BY <1>3
    <3>3. <<a, b>> \in Edges(n)
      BY <3>1 DEF Edges
    <3> HIDE DEF pair
    <3> QED BY <1>3, <3>2, <3>3
  <2> HIDE DEF pair
  <2> QED BY <2>1, <2>2, <2>3
<1>5. Cardinality(1..m) = m
  BY <1>1, AllCounted
<1>6. \A k, l \in 1..m : pair[k] = pair[l] => k = l
  <2>1. Cardinality({pair[k] : k \in 1..m}) = Cardinality(1..m)
    BY <1>4, <1>5
  <2> HIDE DEF pair, m
  <2> QED BY <1>1, <2>1, DistinctCounts
<1>7. s \in A(i) /\ t \in B(i) /\ s \in A(j) /\ t \in B(j)
  BY PairOf
<1>8. pair[i] = <<s, t>> /\ pair[j] = <<s, t>>
  <2> HIDE DEF pair, A, B
  <2> QED BY <1>3, <1>7
<1> HIDE DEF pair
<1> QED BY <1>6, <1>8

\* What was read of a list of dependencies that has ended are its pairs.
LEMMA AllPairsRead ==
  ASSUME DecodeInv, phase = "sort" \/ result = "graph"
  PROVE  /\ edges = Pairs(reply) /\ Cardinality(edges) = Len(reply.edges)
         /\ \A j \in 1..Len(reply.edges) :
              /\ reply.edges[j].kind = "depends_on"
              /\ reply.edges[j].source.own /\ reply.edges[j].target.own
              /\ StepOf(reply, reply.edges[j].source) # {}
              /\ StepOf(reply, reply.edges[j].target) # {}
<1> DEFINE n == Len(nodes)
           m == Len(reply.edges)
           A(k) == StepOf(reply, reply.edges[k].source)
           B(k) == StepOf(reply, reply.edges[k].target)
<1>1. /\ SortInv /\ StepsRead /\ StepsDiffer /\ n = Len(reply.nodes)
      /\ Cardinality(edges) = m /\ edges \subseteq Edges(n)
  BY StepNumbers DEF DecodeInv, ListsEnded
<1>2. DOMAIN reply.edges = 1..m
  BY <1>1, ReplyFacts
<1>3. \A j \in 1..m, s, t \in 1..n :
        /\ Stands(j, s, t) <=> /\ reply.edges[j].source.own /\ reply.edges[j].target.own
                               /\ s \in A(j) /\ t \in B(j)
        /\ \A a, b \in A(j) : a = b
        /\ \A a, b \in B(j) : a = b
  BY <1>1, PairOf
<1>4. \A j \in 1..m : /\ reply.edges[j].kind = "depends_on"
                      /\ \E s, t \in 1..n : Stands(j, s, t) /\ <<s, t>> \in edges
  BY <1>1 DEF DecodeInv, EdgesRead
<1>5. \A s, t \in 1..n : <<s, t>> \in edges => \E j \in 1..m : Stands(j, s, t)
  BY <1>1 DEF DecodeInv, EdgesRead
<1>6. Pairs(reply) = {e \in Edges(n) : \E k \in 1..m : e[1] \in A(k) /\ e[2] \in B(k)}
  BY <1>1, <1>2 DEF Pairs
<1> HIDE DEF A, B, m
<1>7. \A e \in Edges(n) : e = <<e[1], e[2]>> /\ e[1] \in 1..n /\ e[2] \in 1..n
  BY DEF Edges
<1>8. \A e \in edges : e \in Pairs(reply)
  BY <1>1, <1>3, <1>5, <1>6, <1>7
<1>9. \A e \in Pairs(reply) : e \in edges
  <2> SUFFICES ASSUME NEW e \in Edges(n), NEW k \in 1..m, e[1] \in A(k), e[2] \in B(k)
               PROVE  e \in edges
    BY <1>6
  <2>1. PICK s \in 1..n, t \in 1..n : Stands(k, s, t) /\ <<s, t>> \in edges
    BY <1>4
  <2>2. s = e[1] /\ t = e[2]
    BY <1>3, <2>1
  <2> QED BY <1>7, <2>1, <2>2
<1>10. edges = Pairs(reply)
  BY <1>8, <1>9, <1>1
<1>11. \A j \in 1..m : /\ reply.edges[j].source.own /\ reply.edges[j].target.own
                       /\ A(j) # {} /\ B(j) # {}
  BY <1>3, <1>4
<1> QED BY <1>1, <1>4, <1>10, <1>11 DEF A, B, m

LEMMA AcceptedArePlans == DecodeInv => AcceptedIsAPlan
<1> SUFFICES ASSUME DecodeInv, result = "graph" PROVE IsPlan(reply) /\ edges = Pairs(reply)
  BY DEF AcceptedIsAPlan
<1> DEFINE n == Len(reply.nodes)
<1>1. /\ SortInv /\ Len(nodes) = n /\ n \in Nat
      /\ DOMAIN reply.edges = 1..Len(reply.edges)
  BY ReplyFacts DEF DecodeInv, ListsEnded
<1>2. /\ reply.bound /\ reply.shaped /\ reply.owned /\ reply.available
      /\ reply.covered <= MAX_EVENTS /\ n \in 1..MAX_NODES
  <2>1. /\ reply.bound /\ reply.shaped /\ reply.owned /\ SnapshotFits(reply)
    BY DEF DecodeInv, HeaderPassed, Passed
  <2>2. reply.nodes \in Seq(Node) /\ reply.nodes # << >>
    BY <1>1, <2>1, ReplyFacts DEF SnapshotFits
  <2>3. n # 0
    BY <2>2
  <2> QED BY <1>1, <2>1, <2>3, BoundsAssumption DEF SnapshotFits
<1>3. \A i \in 1..n : nodes[i] = reply.nodes[i]
  BY <1>1 DEF DecodeInv, StepsRead
<1>4. \A i \in 1..n : Sound(reply.nodes[i])
  BY <1>1, <1>3 DEF DecodeInv, StepsFit
<1>5. \A i, j \in 1..n : i # j => Differ(reply.nodes[i], reply.nodes[j])
  BY <1>1, <1>3 DEF DecodeInv, StepsDiffer
<1>6. /\ \A i \in DOMAIN reply.nodes :
           /\ reply.nodes[i].kind = "plan_step" /\ reply.nodes[i].status # "pending"
           /\ reply.nodes[i].key.own /\ reply.nodes[i].key.id = reply.nodes[i].task
           /\ i \in ObservedSteps(reply) <=> reply.nodes[i].evidence # NoEvidence
      /\ \A i \in ObservedSteps(reply) : reply.nodes[i].evidence.sequence \in 1..reply.covered
  BY <1>1, <1>4, PlanSteps
<1>7. /\ Cardinality({reply.nodes[i].task : i \in DOMAIN reply.nodes}) = n
      /\ \A f \in {"event", "sequence"} :
           Cardinality({reply.nodes[i].evidence[f] : i \in ObservedSteps(reply)})
             = Cardinality(ObservedSteps(reply))
  BY <1>1, <1>4, <1>5, PlanDiffers
<1>8. /\ edges = Pairs(reply) /\ Cardinality(edges) = Len(reply.edges)
      /\ \A j \in 1..Len(reply.edges) :
           /\ reply.edges[j].kind = "depends_on"
           /\ reply.edges[j].source.own /\ reply.edges[j].target.own
           /\ StepOf(reply, reply.edges[j].source) # {}
           /\ StepOf(reply, reply.edges[j].target) # {}
  BY AllPairsRead
<1>9. Acyclic(n, Pairs(reply))
  BY <1>1, <1>8, AcceptedGraphIsAcyclic DEF AcceptedIsAcyclic
<1>10. IsPlan(reply)
  BY <1>1, <1>2, <1>6, <1>7, <1>8, <1>9 DEF IsPlan
<1> QED BY <1>8, <1>10

----------------------------------------------------------------------------
\* No step of decode refuses a plan: not its header, ...
LEMMA HeadersFit ==
  ASSUME SortInv, IsPlan(reply)
  PROVE  reply.bound /\ reply.shaped /\ reply.owned /\ SnapshotFits(reply)
<1> DEFINE n == Len(reply.nodes)
           m == Len(reply.edges)
<1>1. /\ n \in 1..MAX_NODES /\ reply.nodes \in Seq(Node) /\ m \in Nat
      /\ Cardinality(Pairs(reply)) = m /\ Acyclic(n, Pairs(reply))
      /\ Pairs(reply) \in SUBSET Edges(n)
  BY ReplyFacts DEF IsPlan, Pairs
<1>2. 2 * m + n <= n * n
  <2> HIDE DEF n, m
  <2> QED BY <1>1, AcyclicIsSmall
<1>3. n * n - n <= MAX_NODES * (MAX_NODES - 1)
  <2> HIDE DEF n
  <2> QED BY <1>1, SquaresGrow, BoundsAssumption
<1>4. n * n \in Int /\ MAX_NODES * (MAX_NODES - 1) \in Int
  <2>1. n \in Int /\ MAX_NODES \in Int /\ MAX_NODES - 1 \in Int
    BY <1>1, BoundsAssumption
  <2> HIDE DEF n
  <2> QED BY <2>1
<1>5. m <= MAX_EDGES
  <2> HIDE DEF n, m
  <2> QED BY <1>1, <1>2, <1>3, <1>4, BoundsAssumption
<1>6. reply.nodes # << >>
  BY <1>1
<1> QED BY <1>1, <1>5, <1>6, BoundsAssumption DEF IsPlan, SnapshotFits

\* ... not one of its steps, ...
LEMMA NodesOfPlansFit ==
  ASSUME DecodeInv, IsPlan(reply), phase = "nodes", Len(nodes) < Len(reply.nodes)
  PROVE  NodeFits(NextNode)
<1> DEFINE n == Len(reply.nodes)
           k == Len(nodes) + 1
<1>1. /\ SortInv /\ n \in Nat /\ k \in 1..n /\ DOMAIN nodes = 1..Len(nodes)
      /\ Len(nodes) \in Nat /\ reply.nodes[k] \in Node
  BY ReplyFacts, StepNumbers DEF DecodeInv
<1>2. \A i \in 1..n : Sound(reply.nodes[i])
  BY <1>1, PlanSteps DEF IsPlan
<1>3. \A i, j \in 1..n : i # j => Differ(reply.nodes[i], reply.nodes[j])
  BY <1>1, <1>2, PlanDiffers DEF IsPlan
<1>4. \A i \in DOMAIN nodes : nodes[i] = reply.nodes[i] /\ i \in 1..n /\ i # k
  BY <1>1 DEF DecodeInv, StepsRead
<1>5. NextNode = reply.nodes[k] /\ Sound(NextNode)
  BY <1>1, <1>2 DEF NextNode
<1>6. \A i \in DOMAIN nodes : Differ(nodes[i], NextNode) /\ Sound(nodes[i])
  BY <1>1, <1>2, <1>3, <1>4, <1>5
<1>7. EvidenceFits(NextNode)
  <2>1. CASE NextNode.evidence = NoEvidence
    BY <1>5, <2>1 DEF Sound, EvidenceFits
  <2>2. CASE NextNode.evidence # NoEvidence
    <3>1. NextNode.evidence \in Evidence
      BY <1>1, <1>5, <2>2 DEF Node
    <3>2. NextNode.evidence.event # "none" /\ NextNode.evidence.sequence # 0
      BY <1>5, <2>2, <3>1, EventsAssumption DEF Evidence, Sound
    <3>3. ASSUME NEW i \in DOMAIN nodes
          PROVE  /\ nodes[i].evidence.event # NextNode.evidence.event
                 /\ nodes[i].evidence.sequence # NextNode.evidence.sequence
      <4>1. CASE nodes[i].evidence = NoEvidence
        BY <3>2, <4>1 DEF NoEvidence
      <4>2. CASE nodes[i].evidence # NoEvidence
        BY <1>6, <2>2, <4>2 DEF Differ
      <4> QED BY <4>1, <4>2
    <3> QED BY <1>5, <2>2, <3>3 DEF Sound, EvidenceFits
  <2> QED BY <2>1, <2>2
<1> QED BY <1>5, <1>6, <1>7 DEF NodeFits, Sound, Differ

\* ... not one of its dependencies, ...
LEMMA EdgesOfPlansFit ==
  ASSUME DecodeInv, IsPlan(reply), phase = "edges", Cardinality(edges) < Len(reply.edges)
  PROVE  \E s, t \in DOMAIN nodes : EdgeFits(NextEdge, s, t)
<1> DEFINE n == Len(nodes)
           k == Cardinality(edges)
           j == k + 1
<1>1. /\ SortInv /\ StepsRead /\ StepsDiffer /\ n = Len(reply.nodes) /\ n \in Nat
      /\ DOMAIN nodes = 1..n /\ edges \subseteq Edges(n) /\ k \in Nat
      /\ j \in 1..Len(reply.edges) /\ DOMAIN reply.edges = 1..Len(reply.edges)
      /\ Len(reply.edges) \in Nat
  BY ReplyFacts, StepNumbers DEF DecodeInv, ListsEnded
<1>2. /\ \A i \in 1..Len(reply.edges) : /\ reply.edges[i].kind = "depends_on"
                                        /\ reply.edges[i].source.own /\ reply.edges[i].target.own
                                        /\ StepOf(reply, reply.edges[i].source) # {}
                                        /\ StepOf(reply, reply.edges[i].target) # {}
      /\ Cardinality(Pairs(reply)) = Len(reply.edges) /\ Acyclic(n, Pairs(reply))
  BY <1>1 DEF IsPlan
<1>3. PICK s \in StepOf(reply, reply.edges[j].source),
           t \in StepOf(reply, reply.edges[j].target) : TRUE
  BY <1>1, <1>2
<1>4. s \in 1..n /\ t \in 1..n
  BY <1>1, ReplyFacts DEF StepOf
<1>5. Stands(j, s, t)
  BY <1>1, <1>2, <1>4, PairOf
<1>6. s # t
  <2>1. <<s, t>> \in Pairs(reply)
    BY <1>1, <1>4 DEF Pairs, Edges
  <2>2. PICK rank \in [1..n -> 1..n] : rank[s] < rank[t]
    BY <1>2, <2>1 DEF Acyclic
  <2>3. rank[s] \in 1..n
    BY <1>4
  <2> QED BY <2>2, <2>3
<1>7. <<s, t>> \notin edges
  <2> SUFFICES ASSUME <<s, t>> \in edges PROVE FALSE
    OBVIOUS
  <2>1. PICK i \in 1..k : Stands(i, s, t)
    BY <1>4 DEF DecodeInv, EdgesRead
  <2>2. i \in 1..Len(reply.edges) /\ i # j
    BY <1>1
  <2> HIDE DEF j, k, n
  <2> QED BY <1>1, <1>2, <1>4, <1>5, <2>1, <2>2, ListedOnce DEF n
<1> QED BY <1>1, <1>2, <1>4, <1>5, <1>6, <1>7 DEF NextEdge, EdgeFits, Stands

\* ... and not the sort, which visits every step of it.
LEMMA PlansAreSorted ==
  ASSUME DecodeInv, IsPlan(reply), phase = "sort", ready = {}
  PROVE  Visited = Len(nodes)
<1> DEFINE n == Len(nodes)
           U == (1..n) \ DOMAIN order
<1>1. /\ SortInv /\ n = Len(reply.nodes) /\ edges = Pairs(reply)
      /\ n \in Nat /\ edges \in SUBSET Edges(n) /\ DOMAIN order \in SUBSET (1..n)
  BY AllPairsRead, StepNumbers DEF DecodeInv, ListsEnded
<1>2. Acyclic(n, edges)
  BY <1>1 DEF IsPlan
<1>3. U = {}
  BY <1>1, <1>2, SortIsOver
<1>4. DOMAIN order = 1..n
  BY <1>1, <1>3
<1> QED BY <1>1, <1>4, AllCounted DEF Visited

----------------------------------------------------------------------------
\* decode has read nothing when it starts.
LEMMA DecodeInit == Init => DecodeInv
<1> SUFFICES ASSUME Init PROVE DecodeInv
  OBVIOUS
<1>1. SortInv
  BY SortInit
<1>2. /\ Len(nodes) = 0 /\ edges = {} /\ Cardinality(edges) = 0
      /\ phase = "header" /\ result = "none"
  BY FS_EmptySet DEF Init
<1>3. Len(reply.nodes) \in Nat /\ Len(reply.edges) \in Nat
  BY <1>1, ReplyFacts
<1>4. HeaderPassed /\ ListsEnded /\ PlansAreAccepted
  BY <1>2 DEF HeaderPassed, Passed, ListsEnded, PlansAreAccepted
<1>5. StepsRead /\ StepsFit /\ StepsDiffer
  BY <1>2, <1>3 DEF StepsRead, StepsFit, StepsDiffer
<1>6. EdgesRead
  BY <1>2, <1>3 DEF EdgesRead
<1> QED BY <1>1, <1>4, <1>5, <1>6 DEF DecodeInv

\* What is known of the steps and dependencies lasts as long as no more are read.
LEMMA ListsLast ==
  ASSUME DecodeInv, UNCHANGED <<reply, nodes, edges>>
  PROVE  StepsRead' /\ StepsFit' /\ StepsDiffer' /\ EdgesRead'
<1>1. StepsRead' /\ StepsFit' /\ StepsDiffer'
  BY DEF DecodeInv, StepsRead, StepsFit, Sound, StepsDiffer, Differ
<1>2. EdgesRead'
  BY DEF DecodeInv, EdgesRead, Stands, Names
<1> QED BY <1>1, <1>2

\* A refusal is right when the reply is no plan.
LEMMA RefusalKeeps ==
  ASSUME DecodeInv, phase # "done", NEW r \in {"wrong run", "unavailable"}, Return(r),
         ~ IsPlan(reply)
  PROVE  DecodeInv'
<1>1. /\ phase' = "done" /\ result' = r /\ r # "graph"
      /\ UNCHANGED <<reply, nodes, edges>>
  BY DEF Return
<1>2. SortInv'
  BY ReturnKeeps DEF DecodeInv
<1>3. HeaderPassed' /\ ListsEnded'
  BY <1>1 DEF HeaderPassed, Passed, ListsEnded
<1>4. PlansAreAccepted'
  BY <1>1 DEF PlansAreAccepted
<1> QED BY <1>1, <1>2, <1>3, <1>4, ListsLast DEF DecodeInv

\* The first steps of decode that read no list move on, or refuse.
LEMMA HeaderDecodes == ASSUME DecodeInv, Header PROVE DecodeInv'
<1>1. SortInv /\ phase = "header"
  BY DEF DecodeInv, Header
<1>2. CASE Return("unavailable") \/ Return("wrong run")
  <2>1. ~ (reply.bound /\ reply.shaped /\ reply.owned /\ SnapshotFits(reply))
    BY <1>2 DEF Header, Return
  <2> QED BY <1>1, <1>2, <2>1, HeadersFit, RefusalKeeps
<1>3. CASE /\ reply.bound /\ reply.shaped /\ reply.owned /\ SnapshotFits(reply)
           /\ phase' = "nodes"
           /\ UNCHANGED <<reply, result, nodes, edges, incoming, ready, order>>
  <2>1. SortInv' /\ result = "none"
    BY <1>1, HeaderKeeps DEF SortInv, Decided
  <2>2. HeaderPassed' /\ ListsEnded' /\ PlansAreAccepted'
    BY <1>3, <2>1 DEF HeaderPassed, SnapshotFits, ListsEnded, PlansAreAccepted
  <2> QED BY <1>3, <2>1, <2>2, ListsLast DEF DecodeInv
<1> QED BY <1>2, <1>3 DEF Header

LEMMA NodesEndDecodes == ASSUME DecodeInv, NodesEnd PROVE DecodeInv'
<1>1. /\ SortInv /\ phase = "nodes" /\ phase' = "edges" /\ Len(nodes) = Len(reply.nodes)
      /\ UNCHANGED <<reply, result, nodes, edges>>
  BY DEF DecodeInv, NodesEnd
<1>2. SortInv' /\ result = "none"
  BY <1>1, NodesEndKeeps DEF SortInv, Decided
<1>3. HeaderPassed' /\ ListsEnded' /\ PlansAreAccepted'
  BY <1>1, <1>2 DEF DecodeInv, HeaderPassed, Passed, SnapshotFits, ListsEnded, PlansAreAccepted
<1> QED BY <1>1, <1>2, <1>3, ListsLast DEF DecodeInv

LEMMA EdgesEndDecodes == ASSUME DecodeInv, EdgesEnd PROVE DecodeInv'
<1>1. /\ SortInv /\ phase = "edges" /\ phase' = "sort" /\ Cardinality(edges) = Len(reply.edges)
      /\ UNCHANGED <<reply, result, nodes, edges>>
  BY DEF DecodeInv, EdgesEnd
<1>2. SortInv' /\ result = "none"
  BY <1>1, EdgesEndKeeps DEF SortInv, Decided
<1>3. HeaderPassed' /\ ListsEnded' /\ PlansAreAccepted'
  BY <1>1, <1>2 DEF DecodeInv, HeaderPassed, Passed, SnapshotFits, ListsEnded, PlansAreAccepted
<1> QED BY <1>1, <1>2, <1>3, ListsLast DEF DecodeInv

LEMMA VisitDecodes == ASSUME DecodeInv, Visit PROVE DecodeInv'
<1>1. /\ SortInv /\ phase = "sort" /\ phase' = "sort"
      /\ UNCHANGED <<reply, result, nodes, edges>>
  BY DEF DecodeInv, Visit
<1>2. SortInv' /\ result = "none"
  BY <1>1, SortVisitKeeps DEF SortInv, Decided
<1>3. HeaderPassed' /\ ListsEnded' /\ PlansAreAccepted'
  BY <1>1, <1>2 DEF DecodeInv, HeaderPassed, Passed, SnapshotFits, ListsEnded, PlansAreAccepted
<1> QED BY <1>1, <1>2, <1>3, ListsLast DEF DecodeInv

\* The sort decides: a plan was visited to its last step.
LEMMA DecideDecodes == ASSUME DecodeInv, Decide PROVE DecodeInv'
<1>1. /\ SortInv /\ phase = "sort" /\ ready = {} /\ phase' = "done"
      /\ UNCHANGED <<reply, nodes, edges>>
  BY DEF DecodeInv, Decide, Return
<1>2. CASE Visited = Len(nodes)
  <2>1. Return("graph") /\ result' = "graph"
    BY <1>2 DEF Decide, Return
  <2>2. SortInv'
    BY <1>1, <1>2, <2>1, ReturnKeeps
  <2>3. HeaderPassed' /\ ListsEnded' /\ PlansAreAccepted'
    BY <1>1, <2>1 DEF DecodeInv, HeaderPassed, Passed, SnapshotFits, ListsEnded, PlansAreAccepted
  <2> QED BY <1>1, <2>2, <2>3, ListsLast DEF DecodeInv
<1>3. CASE Visited # Len(nodes)
  <2>1. Return("unavailable")
    BY <1>3 DEF Decide
  <2>2. ~ IsPlan(reply)
    BY <1>1, <1>3, PlansAreSorted
  <2> QED BY <1>1, <2>1, <2>2, RefusalKeeps
<1> QED BY <1>2, <1>3

\* A step is accepted when it is sound and differs from those before it.
LEMMA ReadNodeDecodes == ASSUME DecodeInv, ReadNode PROVE DecodeInv'
<1>1. /\ SortInv /\ phase = "nodes" /\ Len(nodes) < Len(reply.nodes)
      /\ edges = {} /\ result = "none"
  BY DEF DecodeInv, ReadNode, SortInv, Early, Decided
<1>2. CASE ~ NodeFits(NextNode) /\ Return("unavailable")
  BY <1>1, <1>2, NodesOfPlansFit, RefusalKeeps
<1>3. CASE /\ NodeFits(NextNode)
           /\ nodes' = Append(nodes, NextNode)
           /\ UNCHANGED <<reply, phase, result, edges, incoming, ready, order>>
  <2> DEFINE n == Len(nodes)
  <2>1. /\ nodes \in Seq(Node) /\ n \in Nat /\ DOMAIN nodes = 1..n
        /\ Len(reply.nodes) \in Nat /\ Len(reply.edges) \in Nat
        /\ n + 1 \in 1..Len(reply.nodes) /\ NextNode \in Node
    BY <1>1, ReplyFacts, StepNumbers DEF SortInv, TypeOK, NextNode
  <2>2. /\ Len(nodes') = n + 1 /\ nodes'[n + 1] = NextNode
        /\ \A i \in 1..n : nodes'[i] = nodes[i]
    BY <1>3, <2>1
  <2>3. \A i \in 1..n + 1 : i \in 1..n \/ i = n + 1
    BY <2>1
  <2>4. SortInv'
    BY <1>1, ReadNodeKeeps
  <2>5. HeaderPassed' /\ ListsEnded' /\ PlansAreAccepted'
    BY <1>1, <1>3 DEF DecodeInv, HeaderPassed, Passed, SnapshotFits, ListsEnded, PlansAreAccepted
  <2> HIDE DEF n
  <2>6. StepsRead'
    <3>1. \A i \in 1..n : nodes[i] = reply.nodes[i]
      BY DEF DecodeInv, StepsRead, n
    <3> QED BY <1>3, <2>1, <2>2, <2>3, <3>1 DEF StepsRead, NextNode, n
  <2>7. \A i \in 1..n + 1 : Sound(nodes'[i])
    <3>1. Sound(NextNode)
      <4>1. NextNode.evidence = NoEvidence => NextNode.status = "unobserved"
        BY <1>3 DEF NodeFits, EvidenceFits
      <4>2. NextNode.evidence # NoEvidence =>
              /\ NextNode.status # "unobserved"
              /\ NextNode.evidence.sequence \in 1..reply.covered
        BY <1>3 DEF NodeFits, EvidenceFits
      <4> QED BY <1>3, <4>1, <4>2 DEF NodeFits, Sound
    <3>2. \A i \in 1..n : Sound(nodes[i])
      BY DEF DecodeInv, StepsFit, n
    <3> QED BY <2>2, <2>3, <3>1, <3>2
  <2>8. StepsFit'
    BY <1>3, <2>2, <2>7 DEF StepsFit, Sound
  <2>9. \A i \in 1..n : Differ(nodes[i], NextNode) /\ Differ(NextNode, nodes[i])
    BY <1>3, <2>1 DEF NodeFits, EvidenceFits, Differ
  <2>10. StepsDiffer'
    <3>1. \A i, j \in 1..n : i # j => Differ(nodes[i], nodes[j])
      BY DEF DecodeInv, StepsDiffer, n
    <3>2. \A i, j \in 1..n + 1 : i # j => Differ(nodes'[i], nodes'[j])
      BY <2>2, <2>3, <2>9, <3>1
    <3> QED BY <2>2, <3>2 DEF StepsDiffer, Differ
  <2>11. EdgesRead'
    <3>1. edges' = {} /\ Cardinality(edges') = 0 /\ Len(reply'.edges) \in Nat
      BY <1>1, <1>3, <2>1, FS_EmptySet
    <3> QED BY <3>1 DEF EdgesRead
  <2> QED BY <2>4, <2>5, <2>6, <2>8, <2>10, <2>11 DEF DecodeInv
<1> QED BY <1>2, <1>3 DEF ReadNode

\* A dependency is accepted when it stands for a pair that none before it did.
LEMMA ReadEdgeDecodes == ASSUME DecodeInv, ReadEdge PROVE DecodeInv'
<1>1. /\ SortInv /\ phase = "edges" /\ Cardinality(edges) < Len(reply.edges) /\ result = "none"
  BY DEF DecodeInv, ReadEdge, SortInv, Decided
<1>2. CASE (\A s, t \in DOMAIN nodes : ~ EdgeFits(NextEdge, s, t)) /\ Return("unavailable")
  BY <1>1, <1>2, EdgesOfPlansFit, RefusalKeeps
<1>3. ASSUME NEW a \in DOMAIN nodes, NEW b \in DOMAIN nodes,
             EdgeFits(NextEdge, a, b), edges' = edges \cup {<<a, b>>},
             UNCHANGED <<reply, phase, result, nodes, ready, order>>
      PROVE  DecodeInv'
  <2> DEFINE k == Cardinality(edges)
  <2>1. /\ k \in Nat /\ IsFiniteSet(edges) /\ DOMAIN nodes = 1..Len(nodes)
        /\ Len(reply.edges) \in Nat
    BY <1>1, ReplyFacts, StepNumbers
  <2>2. <<a, b>> \notin edges
    BY <1>3 DEF EdgeFits
  <2>3. Cardinality(edges') = k + 1
    BY <1>3, <2>1, <2>2, FS_AddElement
  <2>4. SortInv'
    BY <1>1, ReadEdgeKeeps
  <2>5. HeaderPassed' /\ ListsEnded' /\ PlansAreAccepted'
    BY <1>1, <1>3 DEF DecodeInv, HeaderPassed, Passed, SnapshotFits, ListsEnded, PlansAreAccepted
  <2>6. StepsRead' /\ StepsFit' /\ StepsDiffer'
    BY <1>3 DEF DecodeInv, StepsRead, StepsFit, Sound, StepsDiffer, Differ
  <2>7. EdgesRead'
    <3>1. /\ \A j \in 1..k : /\ reply.edges[j].kind = "depends_on"
                             /\ \E s, t \in 1..Len(nodes) : Stands(j, s, t) /\ <<s, t>> \in edges
          /\ \A s, t \in 1..Len(nodes) : <<s, t>> \in edges => \E j \in 1..k : Stands(j, s, t)
      BY DEF DecodeInv, EdgesRead
    <3>2. reply.edges[k + 1].kind = "depends_on" /\ Stands(k + 1, a, b)
      BY <1>3 DEF EdgeFits, NextEdge, Stands
    <3>3. (\A j \in 1..k + 1 : j \in 1..k \/ j = k + 1) /\ (\A j \in 1..k : j \in 1..k + 1)
          /\ k + 1 \in 1..k + 1 /\ k + 1 <= Len(reply.edges)
      BY <1>1, <2>1
    <3>4. \A j, s, t : Stands(j, s, t)' <=> Stands(j, s, t)
      BY <1>3 DEF Stands, Names
    <3>5. \A s, t : <<s, t>> \in edges' <=> <<s, t>> \in edges \/ (s = a /\ t = b)
      BY <1>3
    <3> HIDE DEF k
    <3>6. \A j \in 1..k + 1 : /\ reply.edges[j].kind = "depends_on"
                              /\ \E s, t \in 1..Len(nodes) : Stands(j, s, t) /\ <<s, t>> \in edges'
      BY <2>1, <3>1, <3>2, <3>3, <3>5
    <3>7. \A s, t \in 1..Len(nodes) :
            <<s, t>> \in edges' => \E j \in 1..k + 1 : Stands(j, s, t)
      BY <3>1, <3>2, <3>3, <3>5
    <3> QED BY <1>3, <2>3, <3>3, <3>4, <3>6, <3>7 DEF EdgesRead
  <2> QED BY <2>4, <2>5, <2>6, <2>7 DEF DecodeInv
<1> QED BY <1>2, <1>3 DEF ReadEdge

LEMMA DecodeNext == DecodeInv /\ [Next]_vars => DecodeInv'
<1> SUFFICES ASSUME DecodeInv, [Next]_vars PROVE DecodeInv'
  OBVIOUS
<1>1. CASE UNCHANGED vars
  <2>1. SortInv'
    BY <1>1, SortNext DEF DecodeInv
  <2>2. HeaderPassed' /\ ListsEnded' /\ PlansAreAccepted'
    BY <1>1 DEF vars, DecodeInv, HeaderPassed, Passed, SnapshotFits, ListsEnded, PlansAreAccepted
  <2> QED BY <1>1, <2>1, <2>2, ListsLast DEF vars, DecodeInv
<1> QED BY <1>1, HeaderDecodes, ReadNodeDecodes, NodesEndDecodes, ReadEdgeDecodes,
           EdgesEndDecodes, VisitDecodes, DecideDecodes DEF Next, Done

LEMMA ExactlyPlans == DecodeInv => ExactlyPlansAreAccepted
BY AcceptedArePlans DEF DecodeInv, ExactlyPlansAreAccepted

\* What decode accepts are the plans, whatever the gateway replies.
THEOREM PlansAreExact == Spec => []ExactlyPlansAreAccepted
BY ExactlyPlans, DecodeInit, DecodeNext, PTL DEF Spec

-----------------------------------------------------------------------------
(***************************************************************************)
(* The layout.  The walk leaves a step only after all its predecessors, so *)
(* the column it leaves from is final; and as long as a step is not        *)
(* visited, one is free.                                                   *)
(***************************************************************************)
\* The predecessors a step still waits for.
Awaited(t) == {s \in Steps : <<s, t>> \in graph.edges /\ s \notin visited}

WaitsCounted == \A t \in Steps : waits[t] = Cardinality(Awaited(t))

FreeFront == free = {t \in Steps : t \notin visited /\ Awaited(t) = {}}

Closed == \A t \in visited : Awaited(t) = {}

Ahead == \A e \in graph.edges : e[1] \in visited => layers[e[1]] < layers[e[2]]

Exhausted == placed => free = {}

\* A column that is not the first is the next one after a predecessor's.
Justified == \A t \in Steps :
               layers[t] = 0 \/ \E s \in visited : /\ <<s, t>> \in graph.edges
                                                 /\ layers[t] = layers[s] + 1

WalkInv == /\ LayoutTypeOK /\ Acyclic(graph.count, graph.edges)
           /\ WaitsCounted /\ FreeFront /\ Closed /\ Ahead /\ Justified /\ Exhausted

----------------------------------------------------------------------------
\* What is known of a graph that is walked.
LEMMA GraphFacts ==
  ASSUME LayoutTypeOK
  PROVE  /\ graph.count \in Nat /\ graph.edges \in SUBSET Edges(graph.count)
         /\ \A e \in graph.edges : e = <<e[1], e[2]>> /\ e[1] \in Steps /\ e[2] \in Steps
         /\ \A t : Awaited(t) \in SUBSET (1..graph.count)
<1>1. graph.count \in Nat /\ graph.edges \in SUBSET Edges(graph.count)
  BY DEF LayoutTypeOK
<1>2. \A e \in graph.edges : e = <<e[1], e[2]>> /\ e[1] \in Steps /\ e[2] \in Steps
  BY <1>1 DEF Edges, Steps
<1>3. \A t : Awaited(t) \in SUBSET (1..graph.count)
  BY DEF Awaited, Steps
<1> QED BY <1>1, <1>2, <1>3

\* The walk starts at the steps without predecessors (LayeredLayout::new).
Fresh ==
  /\ graph.count \in Nat /\ graph.edges \subseteq Edges(graph.count)
  /\ Acyclic(graph.count, graph.edges)
  /\ placed = FALSE /\ visited = {}
  /\ layers = [t \in Steps |-> 0]
  /\ waits = [t \in Steps |-> Cardinality(Preds(t))]
  /\ free = {t \in Steps : waits[t] = 0}

LEMMA WalkStart == Fresh => WalkInv
<1> SUFFICES ASSUME Fresh PROVE WalkInv
  OBVIOUS
<1>1. visited = {} /\ ~ placed
  BY DEF Fresh
<1>2. \A t : Preds(t) = Awaited(t)
  BY <1>1 DEF Preds, Awaited
<1>3. waits = [t \in Steps |-> Cardinality(Awaited(t))]
  BY <1>2 DEF Fresh
<1>8. graph.count \in Nat /\ \A t : Awaited(t) \in SUBSET (1..graph.count)
  BY DEF Fresh, Awaited, Steps
<1>4. \A t \in Steps : /\ Cardinality(Awaited(t)) \in Nat
                       /\ Cardinality(Awaited(t)) = 0 <=> Awaited(t) = {}
  BY <1>8, Counts
<1>5. LayoutTypeOK
  BY <1>1, <1>3, <1>4 DEF Fresh, LayoutTypeOK
<1>6. WaitsCounted
  BY <1>3 DEF WaitsCounted
<1>7. FreeFront
  BY <1>1, <1>3, <1>4 DEF Fresh, FreeFront
<1>9. Justified /\ Acyclic(graph.count, graph.edges)
  BY DEF Fresh, Justified
<1> QED BY <1>1, <1>5, <1>6, <1>7, <1>9 DEF WalkInv, Closed, Ahead, Exhausted

LEMMA WalkInit == LayoutInit => WalkInv
BY WalkStart, GraphsAssumption DEF LayoutInit, Fresh

\* Visiting a step moves its dependents right of it and never itself or a
\* step that was visited before.
LEMMA PushKeeps == ASSUME WalkInv, Push PROVE WalkInv'
<1>1. PICK s \in free :
        /\ ~ placed
        /\ visited' = visited \cup {s}
        /\ layers' = Pushed(s)
        /\ waits' = Fewer(s)
        /\ free' = (free \ {s})
                    \cup {t \in Steps : <<s, t>> \in graph.edges /\ Fewer(s)[t] = 0}
        /\ UNCHANGED <<graph, placed>>
  BY DEF Push
<1>2. /\ LayoutTypeOK /\ s \in Steps /\ Steps' = Steps
      /\ layers \in [Steps -> Nat] /\ waits \in [Steps -> Nat]
      /\ free \subseteq Steps /\ visited \subseteq Steps
  BY <1>1 DEF WalkInv, LayoutTypeOK, Steps
<1>3. /\ s \notin visited /\ <<s, s>> \notin graph.edges
      /\ \A t \in visited : <<s, t>> \notin graph.edges
  BY <1>2 DEF WalkInv, FreeFront, Closed, Awaited
<1>4. \A t : Awaited(t)' = Awaited(t) \ {s}
  BY <1>1, <1>2 DEF Awaited
<1>5. /\ waits' \in [Steps -> Nat]
      /\ \A t \in Steps : waits'[t] = Cardinality(Awaited(t)')
  <2>1. waits' = [t \in Steps |->
          IF <<s, t>> \in graph.edges THEN waits[t] - 1 ELSE waits[t]]
    BY <1>1 DEF Fewer
  <2>2. ASSUME NEW t \in Steps
        PROVE  waits'[t] \in Nat /\ waits'[t] = Cardinality(Awaited(t)')
    <3>1. Awaited(t) \in SUBSET (1..graph.count) /\ graph.count \in Nat
      BY <1>2, GraphFacts
    <3>2. waits[t] = Cardinality(Awaited(t)) /\ waits[t] \in Nat
      BY <1>2 DEF WalkInv, WaitsCounted
    <3>3. Cardinality(Awaited(t) \ {s}) \in Nat
      BY <3>1, Counts
    <3>4. CASE <<s, t>> \in graph.edges
      <4>1. s \in Awaited(t)
        BY <1>2, <1>3, <3>4 DEF Awaited
      <4>2. Cardinality(Awaited(t) \ {s}) = Cardinality(Awaited(t)) - 1
        BY <3>1, <4>1, Counts
      <4> QED BY <1>4, <2>1, <3>2, <3>3, <3>4, <4>2
    <3>5. CASE <<s, t>> \notin graph.edges
      <4>1. Awaited(t) \ {s} = Awaited(t)
        BY <3>5 DEF Awaited
      <4> QED BY <1>4, <2>1, <3>2, <3>5, <4>1
    <3> QED BY <3>4, <3>5
  <2> QED BY <2>1, <2>2
<1>6. \A t \in Steps : waits'[t] = 0 <=> Awaited(t)' = {}
  <2>1. \A t : Awaited(t)' \in SUBSET (1..graph.count) /\ graph.count \in Nat
    BY <1>2, <1>4, GraphFacts
  <2> QED BY <1>5, <2>1, Counts
<1>7. layers' = [t \in Steps |-> IF <<s, t>> \in graph.edges
                                 THEN Larger(layers[t], layers[s] + 1) ELSE layers[t]]
  BY <1>1 DEF Pushed
<1>8. LayoutTypeOK'
  <2>1. layers' \in [Steps -> Nat]
    BY <1>2, <1>7 DEF Larger
  <2> QED BY <1>1, <1>2, <1>5, <2>1 DEF WalkInv, LayoutTypeOK
<1>9. WaitsCounted'
  BY <1>2, <1>5 DEF WaitsCounted
<1>10. FreeFront'
  <2> SUFFICES ASSUME NEW t \in Steps
               PROVE  t \in free' <=> t \notin visited' /\ Awaited(t)' = {}
    BY <1>1, <1>2 DEF FreeFront
  <2>1. t \in free <=> t \notin visited /\ Awaited(t) = {}
    BY DEF WalkInv, FreeFront
  <2>2. t \in free' <=> \/ t \in free /\ t # s
                        \/ <<s, t>> \in graph.edges /\ Awaited(t)' = {}
    BY <1>1, <1>6
  <2>3. CASE <<s, t>> \in graph.edges
    <3>1. t # s /\ t \notin visited /\ s \in Awaited(t)
      BY <1>2, <1>3, <2>3 DEF Awaited
    <3> QED BY <1>1, <2>1, <2>2, <2>3, <3>1
  <2>4. CASE <<s, t>> \notin graph.edges
    <3>1. Awaited(t)' = Awaited(t)
      BY <1>4, <2>4 DEF Awaited
    <3> QED BY <1>1, <2>1, <2>2, <2>4, <3>1
  <2> QED BY <2>3, <2>4
<1>11. Closed'
  <2>1. Awaited(s) = {}
    BY DEF WalkInv, FreeFront
  <2> QED BY <1>1, <1>4, <2>1 DEF WalkInv, Closed
<1>12. Ahead'
  <2> SUFFICES ASSUME NEW e \in graph.edges, e[1] \in visited'
               PROVE  layers'[e[1]] < layers'[e[2]]
    BY <1>1 DEF Ahead
  <2>1. e = <<e[1], e[2]>> /\ e[1] \in Steps /\ e[2] \in Steps
    BY <1>2, GraphFacts
  <2>2. <<s, e[1]>> \notin graph.edges
    BY <1>1, <1>3
  <2>3. layers'[e[1]] = layers[e[1]] /\ layers[e[1]] \in Nat /\ layers[e[2]] \in Nat
    BY <1>2, <1>7, <2>1, <2>2
  <2>4. CASE e[1] = s
    <3>1. layers'[e[2]] = Larger(layers[e[2]], layers[s] + 1)
      BY <1>7, <2>1, <2>4
    <3> QED BY <2>3, <2>4, <3>1 DEF Larger
  <2>5. CASE e[1] # s
    <3>1. layers[e[1]] < layers[e[2]]
      BY <1>1, <2>5 DEF WalkInv, Ahead
    <3>2. layers'[e[2]] \in {layers[e[2]], Larger(layers[e[2]], layers[s] + 1)}
      BY <1>7, <2>1
    <3>3. layers[s] \in Nat
      BY <1>2
    <3> QED BY <2>3, <3>1, <3>2, <3>3 DEF Larger
  <2> QED BY <2>4, <2>5
<1>13. Exhausted'
  BY <1>1 DEF Exhausted
<1>14. Justified'
  <2> SUFFICES ASSUME NEW t \in Steps, layers'[t] # 0
               PROVE  \E v \in visited' : /\ <<v, t>> \in graph.edges
                                          /\ layers'[t] = layers'[v] + 1
    BY <1>1, <1>2 DEF Justified
  <2>1. layers'[s] = layers[s] /\ \A v \in visited : layers'[v] = layers[v]
    BY <1>2, <1>3, <1>7
  <2>2. CASE <<s, t>> \in graph.edges /\ layers'[t] = layers[s] + 1
    BY <1>1, <2>1, <2>2
  <2>3. CASE layers'[t] = layers[t]
    <3>1. PICK v \in visited : <<v, t>> \in graph.edges /\ layers[t] = layers[v] + 1
      BY <2>3 DEF WalkInv, Justified
    <3> QED BY <1>1, <2>1, <2>3, <3>1
  <2> QED BY <1>7, <2>2, <2>3 DEF Larger
<1>15. Acyclic(graph.count, graph.edges)'
  BY <1>1 DEF WalkInv
<1> QED BY <1>8, <1>9, <1>10, <1>11, <1>12, <1>13, <1>14, <1>15 DEF WalkInv

\* Every step of the walk keeps the invariant.
LEMMA WalkNext == WalkInv /\ [LayoutNext]_layoutVars => WalkInv'
<1> SUFFICES ASSUME WalkInv, [LayoutNext]_layoutVars PROVE WalkInv'
  OBVIOUS
<1>1. CASE Place
  <2>1. LayoutTypeOK' /\ WaitsCounted' /\ FreeFront' /\ Closed'
    BY <1>1 DEF Place, WalkInv, LayoutTypeOK, Steps, WaitsCounted, Awaited, FreeFront, Closed
  <2>2. Ahead' /\ Justified' /\ Exhausted' /\ Acyclic(graph.count, graph.edges)'
    BY <1>1 DEF Place, WalkInv, Steps, Ahead, Justified, Exhausted
  <2> QED BY <2>1, <2>2 DEF WalkInv
<1>2. CASE UNCHANGED layoutVars
  <2>1. LayoutTypeOK' /\ WaitsCounted' /\ FreeFront' /\ Closed'
    BY <1>2 DEF layoutVars, WalkInv, LayoutTypeOK, Steps, WaitsCounted, Awaited, FreeFront, Closed
  <2>2. Ahead' /\ Justified' /\ Exhausted' /\ Acyclic(graph.count, graph.edges)'
    BY <1>2 DEF layoutVars, WalkInv, Steps, Ahead, Justified, Exhausted
  <2> QED BY <2>1, <2>2 DEF WalkInv
<1> QED BY <1>1, <1>2, PushKeeps DEF LayoutNext, Settled

LEMMA WalkInvariant == LayoutSpec => []WalkInv
BY WalkInit, WalkNext, PTL DEF LayoutSpec

----------------------------------------------------------------------------
\* The walk of an acyclic graph ends with every step visited: among unvisited
\* steps the first one would be free.
LEMMA AllVisited == ASSUME WalkInv, placed PROVE visited = Steps
<1> DEFINE U == Steps \ visited
<1>1. /\ graph.count \in Nat /\ graph.edges \in SUBSET Edges(graph.count)
      /\ Acyclic(graph.count, graph.edges)
  BY GraphFacts DEF WalkInv, LayoutTypeOK
<1>2. U \in SUBSET (1..graph.count)
  BY DEF Steps
<1>3. ASSUME U # {} PROVE FALSE
  <2> HIDE DEF U
  <2>1. PICK t \in U : \A s \in U : <<s, t>> \notin graph.edges
    BY <1>1, <1>2, <1>3, SomeStepIsFirst
  <2> USE DEF U
  <2>2. Awaited(t) = {} /\ t \in Steps /\ t \notin visited
    BY <2>1 DEF Awaited
  <2>3. t \in free
    BY <2>2 DEF WalkInv, FreeFront
  <2> QED BY <2>3 DEF WalkInv, Exhausted
<1>4. visited \subseteq Steps
  BY DEF WalkInv, LayoutTypeOK
<1> QED BY <1>3, <1>4

\* The variables keep their types: no counter goes below zero.
THEOREM LayoutTypes == LayoutSpec => []LayoutTypeOK
<1>1. WalkInv => LayoutTypeOK
  BY DEF WalkInv
<1> QED BY <1>1, WalkInvariant, PTL

\* Where the cards are.
LEMMA Coordinates ==
  ASSUME WalkInv, NEW i \in Steps
  PROVE  layers[i] \in Nat /\ RowOf(i) \in Nat
<1>1. {j \in Steps : j < i /\ layers[j] = layers[i]} \in SUBSET (1..graph.count)
  BY DEF Steps
<1>2. graph.count \in Nat
  BY GraphFacts DEF WalkInv, LayoutTypeOK
<1>3. RowOf(i) \in Nat
  BY <1>1, <1>2, Counts DEF RowOf
<1> QED BY <1>3 DEF WalkInv, LayoutTypeOK

LEMMA RightOf == WalkInv => EdgesGoRight
<1> SUFFICES ASSUME WalkInv, placed, NEW e \in graph.edges
             PROVE  layers[e[1]] < layers[e[2]] /\ End(e[2]) >= 0
  BY DEF EdgesGoRight
<1>1. e[1] \in Steps /\ e[2] \in Steps
  BY GraphFacts DEF WalkInv, LayoutTypeOK
<1>2. layers[e[1]] < layers[e[2]]
  BY <1>1, AllVisited DEF WalkInv, Ahead
<1>3. layers[e[1]] \in Nat /\ layers[e[2]] \in Nat
  BY <1>1, Coordinates
<1> QED BY <1>2, <1>3 DEF End, X, COLUMN, NODE_WIDTH

\* Every dependency leads to the right, so no coordinate of the widget wraps.
THEOREM EdgesLeadRight == LayoutSpec => []EdgesGoRight
BY RightOf, WalkInvariant, PTL

----------------------------------------------------------------------------
\* Numbers of cells that lie in the gutters between columns of cards, and in
\* the lanes between rows of them.
LEMMA Gutters ==
  ASSUME NEW a \in Nat, NEW b \in Nat, NEW k \in Int,
         28 * b + 22 <= k, k <= 28 * b + 27
  PROVE  ~ (28 * a <= k /\ k <= 28 * a + 21)
OBVIOUS

LEMMA Lanes ==
  ASSUME NEW a \in Nat, NEW b \in Nat
  PROVE  ~ (6 * a <= 6 * b + 4 /\ 6 * b + 4 <= 6 * a + 3)
OBVIOUS

LEMMA SameColumn ==
  ASSUME NEW a \in Nat, NEW b \in Nat, NEW k \in Int,
         28 * a <= k, k <= 28 * a + 21, 28 * b <= k, k <= 28 * b + 21
  PROVE  a = b
<1>1. ~ (a < b) /\ ~ (b < a)
  OBVIOUS
<1> QED BY <1>1

LEMMA SameRow ==
  ASSUME NEW a \in Nat, NEW b \in Nat, NEW k \in Int,
         6 * a <= k, k <= 6 * a + 3, 6 * b <= k, k <= 6 * b + 3
  PROVE  a = b
<1>1. ~ (a < b) /\ ~ (b < a)
  OBVIOUS
<1> QED BY <1>1

\* A cell of a card, and a cell of a line, of a head, or of either: lines and
\* heads are in a gutter or in a lane.
LEMMA CardCell ==
  ASSUME WalkInv, NEW i \in Steps, NEW c \in Card(i)
  PROVE  /\ c[1] \in Int /\ c[2] \in Int
         /\ 28 * layers[i] <= c[1] /\ c[1] <= 28 * layers[i] + 21
         /\ 6 * RowOf(i) <= c[2] /\ c[2] <= 6 * RowOf(i) + 3
<1>1. layers[i] \in Nat /\ RowOf(i) \in Nat
  BY Coordinates
<1> QED BY <1>1 DEF Card, X, Y, COLUMN, ROW, NODE_WIDTH, NODE_HEIGHT

LEMMA LineCell ==
  ASSUME WalkInv, NEW f \in Steps, NEW t \in Steps, NEW c \in Route(f, t)
  PROVE  \/ c[1] \in 28 * layers[f] + 22 .. 28 * layers[f] + 24
         \/ c[1] = 28 * layers[t] - 2
         \/ c[2] = 6 * RowOf(t) + 4
<1>1. /\ layers[f] \in Nat /\ RowOf(f) \in Nat
      /\ layers[t] \in Nat /\ RowOf(t) \in Nat
  BY Coordinates
<1>2. /\ X(f) = 28 * layers[f] /\ X(t) = 28 * layers[t]
      /\ Middle(f) = 28 * layers[f] + 24 /\ End(t) = 28 * layers[t] - 2
      /\ Lane(t) = 6 * RowOf(t) + 4
  BY <1>1 DEF X, Y, Middle, End, Lane, COLUMN, ROW, NODE_WIDTH, NODE_HEIGHT
<1>3. PICK k \in 1..4 : c \in Strokes(f, t)[k]
  BY DEF Route
<1>4. CASE k = 1
  BY <1>1, <1>2, <1>3, <1>4 DEF Strokes, Horizontal, NODE_WIDTH
<1>5. CASE k = 2
  BY <1>1, <1>2, <1>3, <1>5 DEF Strokes, Vertical
<1>6. CASE k = 3
  BY <1>1, <1>2, <1>3, <1>6 DEF Strokes, Horizontal
<1>7. CASE k = 4
  BY <1>1, <1>2, <1>3, <1>7 DEF Strokes, Vertical
<1> QED BY <1>3, <1>4, <1>5, <1>6, <1>7

\* The head of a line stands left of its last card, beside the text.
LEMMA HeadCell ==
  ASSUME WalkInv, NEW t \in Steps
  PROVE  ArrowHead(t) = <<28 * layers[t] - 1, 6 * RowOf(t) + 1>>
<1>1. layers[t] \in Nat /\ RowOf(t) \in Nat
  BY Coordinates
<1>2. /\ End(t) + 1 = 28 * layers[t] - 1
      /\ Y(t) + 1 = 6 * RowOf(t) + 1
  BY <1>1 DEF X, Y, End, COLUMN, ROW, NODE_WIDTH, NODE_HEIGHT
<1> QED BY <1>2 DEF ArrowHead

LEMMA RouteCell ==
  ASSUME WalkInv, NEW f \in Steps, NEW t \in Steps,
         NEW c \in Route(f, t) \cup {ArrowHead(t)}
  PROVE  \/ c[1] \in 28 * layers[f] + 22 .. 28 * layers[f] + 24
         \/ c[1] \in 28 * layers[t] - 2 .. 28 * layers[t] - 1
         \/ c[2] = 6 * RowOf(t) + 4
<1>1. layers[t] \in Nat /\ RowOf(t) \in Nat
  BY Coordinates
<1>2. CASE c = ArrowHead(t)
  BY <1>1, <1>2, HeadCell
<1>3. CASE c \in Route(f, t)
  BY <1>1, <1>3, LineCell
<1> QED BY <1>2, <1>3

LEMMA MissCards == WalkInv => RoutesMissCards
<1> SUFFICES ASSUME WalkInv, placed, NEW e \in graph.edges, NEW i \in Steps,
                    NEW c \in Route(e[1], e[2]) \cup {ArrowHead(e[2])}, c \in Card(i)
             PROVE  FALSE
  BY DEF RoutesMissCards
<1>1. e[1] \in Steps /\ e[2] \in Steps
  BY GraphFacts DEF WalkInv, LayoutTypeOK
<1>2. /\ layers[e[1]] \in Nat /\ layers[e[2]] \in Nat /\ RowOf(e[2]) \in Nat
      /\ layers[i] \in Nat /\ RowOf(i) \in Nat
  BY <1>1, Coordinates
<1>3. /\ c[1] \in Int /\ c[2] \in Int
      /\ 28 * layers[i] <= c[1] /\ c[1] <= 28 * layers[i] + 21
      /\ 6 * RowOf(i) <= c[2] /\ c[2] <= 6 * RowOf(i) + 3
  BY CardCell
<1>4. CASE c[1] \in 28 * layers[e[1]] + 22 .. 28 * layers[e[1]] + 24
  BY <1>2, <1>3, <1>4, Gutters
<1>5. CASE c[1] \in 28 * layers[e[2]] - 2 .. 28 * layers[e[2]] - 1
  <2> DEFINE b == layers[e[2]] - 1
  <2>1. layers[e[1]] < layers[e[2]]
    BY RightOf DEF EdgesGoRight
  <2>2. b \in Nat /\ 28 * b + 22 <= c[1] /\ c[1] <= 28 * b + 27
    BY <1>2, <1>3, <1>5, <2>1
  <2> QED BY <1>2, <1>3, <2>2, Gutters
<1>6. CASE c[2] = 6 * RowOf(e[2]) + 4
  BY <1>2, <1>3, <1>6, Lanes
<1> QED BY <1>1, <1>4, <1>5, <1>6, RouteCell

\* No line runs through a card, whatever the graph and whatever is selected.
THEOREM LinesMissCards == LayoutSpec => []RoutesMissCards
BY MissCards, WalkInvariant, PTL

----------------------------------------------------------------------------
\* Of two steps of a column the later one stands further down.
LEMMA LaterIsLower ==
  ASSUME WalkInv, NEW i \in Steps, NEW j \in Steps, i < j, layers[i] = layers[j]
  PROVE  RowOf(i) < RowOf(j)
<1> DEFINE Above(s) == {k \in Steps : k < s /\ layers[k] = layers[s]}
<1>1. graph.count \in Nat /\ i \in Int /\ j \in Int
  BY GraphFacts DEF WalkInv, LayoutTypeOK, Steps
<1>2. Above(j) \in SUBSET (1..graph.count)
  BY DEF Steps
<1>3. Above(i) \in SUBSET Above(j)
  BY <1>1 DEF Steps
<1>4. i \in Above(j) /\ i \notin Above(i)
  BY <1>1
<1>5. Cardinality(Above(i)) < Cardinality(Above(j))
  <2> HIDE DEF Above
  <2> QED BY <1>1, <1>2, <1>3, <1>4, Counts
<1> QED BY <1>5 DEF RowOf

LEMMA Apart == WalkInv => CardsApart
<1> SUFFICES ASSUME WalkInv, NEW i \in Steps, NEW j \in Steps, i # j,
                    NEW c \in Card(i), c \in Card(j)
             PROVE  FALSE
  BY DEF CardsApart
<1>1. /\ layers[i] \in Nat /\ RowOf(i) \in Nat
      /\ layers[j] \in Nat /\ RowOf(j) \in Nat
  BY Coordinates
<1>2. /\ c[1] \in Int /\ c[2] \in Int
      /\ 28 * layers[i] <= c[1] /\ c[1] <= 28 * layers[i] + 21
      /\ 6 * RowOf(i) <= c[2] /\ c[2] <= 6 * RowOf(i) + 3
      /\ 28 * layers[j] <= c[1] /\ c[1] <= 28 * layers[j] + 21
      /\ 6 * RowOf(j) <= c[2] /\ c[2] <= 6 * RowOf(j) + 3
  BY CardCell
<1>3. layers[i] = layers[j] /\ RowOf(i) = RowOf(j)
  BY <1>1, <1>2, SameColumn, SameRow
<1>4. i \in Int /\ j \in Int
  BY GraphFacts DEF WalkInv, LayoutTypeOK, Steps
<1>5. i < j \/ j < i
  BY <1>4
<1> QED BY <1>1, <1>3, <1>5, LaterIsLower

\* No two cards overlap.
THEOREM CardsNeverOverlap == LayoutSpec => []CardsApart
BY Apart, WalkInvariant, PTL

\* The map can be read, whatever the graph.
THEOREM DrawingStaysClear == LayoutSpec => []DrawingIsClear
<1>1. LayoutTypeOK /\ EdgesGoRight /\ CardsApart /\ RoutesMissCards => DrawingIsClear
  BY DEF DrawingIsClear
<1> QED BY <1>1, LayoutTypes, EdgesLeadRight, CardsNeverOverlap, LinesMissCards, PTL

----------------------------------------------------------------------------
\* A step's column is the longest chain that leads to it.
IsChain(depth, n, E) ==
  \A t \in 1..n :
    LET before == {depth[s] : s \in {s \in 1..n : <<s, t>> \in E}}
    IN  IF before = {} THEN depth[t] = 0
        ELSE depth[t] - 1 \in before /\ \A d \in before : d < depth[t]

\* In an acyclic graph the longest chains are determined step by step.
LEMMA ChainsAreUnique ==
  ASSUME NEW n \in Nat, NEW E \in SUBSET Edges(n), Acyclic(n, E),
         NEW f \in [1..n -> Nat], NEW g \in [1..n -> Nat],
         IsChain(f, n, E), IsChain(g, n, E)
  PROVE  f = g
<1> DEFINE U == {t \in 1..n : f[t] # g[t]}
<1>1. ASSUME U # {} PROVE FALSE
  <2> HIDE DEF U
  <2>1. U \in SUBSET (1..n)
    BY DEF U
  <2>2. PICK t \in U : \A s \in U : <<s, t>> \notin E
    BY <1>1, <2>1, SomeStepIsFirst
  <2>3. t \in 1..n /\ f[t] # g[t] /\ f[t] \in Nat /\ g[t] \in Nat
    BY <2>1, <2>2 DEF U
  <2>4. \A s \in 1..n : <<s, t>> \in E => f[s] = g[s]
    BY <2>2 DEF U
  <2> DEFINE before == {f[s] : s \in {s \in 1..n : <<s, t>> \in E}}
  <2>5. before = {g[s] : s \in {s \in 1..n : <<s, t>> \in E}}
    BY <2>4
  <2>6. /\ before = {} => f[t] = 0 /\ g[t] = 0
        /\ before # {} => /\ f[t] - 1 \in before /\ g[t] - 1 \in before
                          /\ \A d \in before : d < f[t] /\ d < g[t]
    BY <2>3, <2>5 DEF IsChain
  <2>7. f[t] - 1 < g[t] /\ g[t] - 1 < f[t] => f[t] = g[t]
    BY <2>3
  <2> HIDE DEF before
  <2> QED BY <2>3, <2>6, <2>7
<1> QED BY <1>1

\* A chain to a step is shorter than the step's rank.
LEMMA ChainsAreBounded ==
  ASSUME NEW n \in Nat, NEW E \in SUBSET Edges(n), Acyclic(n, E),
         NEW f \in [1..n -> Nat], IsChain(f, n, E)
  PROVE  f \in [1..n -> 0..n]
<1>1. PICK rank \in [1..n -> 1..n] : \A e \in E : rank[e[1]] < rank[e[2]]
  BY DEF Acyclic
<1> DEFINE U == {t \in 1..n : ~ (f[t] < rank[t])}
<1>2. ASSUME U # {} PROVE FALSE
  <2> HIDE DEF U
  <2>1. U \in SUBSET (1..n)
    BY DEF U
  <2>2. PICK t \in U : \A s \in U : <<s, t>> \notin E
    BY <1>2, <2>1, SomeStepIsFirst
  <2>3. t \in 1..n /\ f[t] \in Nat /\ rank[t] \in 1..n /\ ~ (f[t] < rank[t])
    BY <2>1, <2>2 DEF U
  <2>4. f[t] # 0
    BY <2>3
  <2>5. PICK s \in 1..n : <<s, t>> \in E /\ f[t] - 1 = f[s]
    BY <2>3, <2>4 DEF IsChain
  <2>6. f[s] < rank[s] /\ rank[s] < rank[t]
    BY <1>1, <2>2, <2>5 DEF U
  <2>7. f[s] \in Nat /\ rank[s] \in Nat
    OBVIOUS
  <2> QED BY <2>3, <2>5, <2>6, <2>7
<1>3. \A t \in 1..n : f[t] \in 0..n
  <2> SUFFICES ASSUME NEW t \in 1..n PROVE f[t] \in 0..n
    OBVIOUS
  <2>1. f[t] < rank[t] /\ f[t] \in Nat /\ rank[t] \in 1..n
    BY <1>2
  <2> QED BY <2>1
<1> QED BY <1>3

LEMMA ColumnsAreChains == WalkInv => ColumnsAreLongestChains
<1> SUFFICES ASSUME WalkInv, placed
             PROVE  layers = LongestChain(graph.count, graph.edges)
  BY DEF ColumnsAreLongestChains
<1> DEFINE n == graph.count
           E == graph.edges
<1>1. n \in Nat /\ E \in SUBSET Edges(n) /\ Acyclic(n, E) /\ Steps = 1..n /\ visited = Steps
  BY GraphFacts, AllVisited DEF WalkInv, Steps
<1>2. layers \in [1..n -> Nat]
  BY <1>1 DEF WalkInv, LayoutTypeOK
<1>3. IsChain(layers, n, E)
  <2> SUFFICES ASSUME NEW t \in 1..n
               PROVE  LET before == {layers[s] : s \in {s \in 1..n : <<s, t>> \in E}}
                      IN  IF before = {} THEN layers[t] = 0
                          ELSE layers[t] - 1 \in before /\ \A d \in before : d < layers[t]
    BY DEF IsChain
  <2>1. \A s \in 1..n : <<s, t>> \in E => layers[s] < layers[t]
    BY <1>1 DEF WalkInv, Ahead
  <2>2. layers[t] = 0 \/ \E s \in 1..n : <<s, t>> \in E /\ layers[t] = layers[s] + 1
    BY <1>1 DEF WalkInv, Justified
  <2>3. layers[t] \in Nat /\ \A s \in 1..n : layers[s] \in Nat
    BY <1>2
  <2> DEFINE before == {layers[s] : s \in {s \in 1..n : <<s, t>> \in E}}
  <2>4. \A d \in before : d < layers[t] /\ d \in Nat
    BY <2>1, <2>3
  <2>5. layers[t] = 0 \/ layers[t] - 1 \in before
    <3> SUFFICES ASSUME layers[t] # 0 PROVE layers[t] - 1 \in before
      OBVIOUS
    <3>1. PICK s \in 1..n : <<s, t>> \in E /\ layers[t] = layers[s] + 1
      BY <2>2
    <3>2. layers[t] - 1 = layers[s]
      BY <2>3, <3>1
    <3> QED BY <3>1, <3>2
  <2>6. layers[t] = 0 => before = {}
    <3> SUFFICES ASSUME layers[t] = 0, NEW d \in before PROVE FALSE
      OBVIOUS
    <3>1. d < 0 /\ d \in Nat
      BY <2>4
    <3> QED BY <3>1
  <2>7. IF before = {} THEN layers[t] = 0
        ELSE layers[t] - 1 \in before /\ \A d \in before : d < layers[t]
    <3> HIDE DEF before
    <3> QED BY <2>4, <2>5, <2>6
  <2> QED BY <2>7
<1>4. layers \in [1..n -> 0..n]
  <2> HIDE DEF n, E
  <2> QED BY <1>1, <1>2, <1>3, ChainsAreBounded
<1>5. ASSUME NEW depth \in [1..n -> 0..n], IsChain(depth, n, E) PROVE depth = layers
  <2>1. depth \in [1..n -> Nat]
    BY <1>1
  <2> HIDE DEF n, E
  <2> QED BY <1>1, <1>2, <1>3, <1>5, <2>1, ChainsAreUnique
<1>6. LongestChain(n, E) = CHOOSE depth \in [1..n -> 0..n] : IsChain(depth, n, E)
  BY DEF LongestChain, IsChain
<1> HIDE DEF n, E
<1>7. layers = LongestChain(n, E)
  BY <1>3, <1>4, <1>5, <1>6
<1> QED BY <1>7 DEF n, E

\* The number left of a column of cards is in no gutter's first half, and not
\* two left of another column.
LEMMA HeadColumn ==
  ASSUME NEW a \in Nat, NEW b \in Nat
  PROVE  /\ ~ (28 * b + 22 <= 28 * a - 1 /\ 28 * a - 1 <= 28 * b + 24)
         /\ 28 * a - 1 # 28 * b - 2
         /\ 6 * a + 1 # 6 * b + 4
OBVIOUS

LEMMA HeadsAreFree ==
  ASSUME WalkInv, NEW t \in Steps, NEW f \in Steps, NEW g \in Steps
  PROVE  ArrowHead(t) \notin Route(f, g)
<1> SUFFICES ASSUME ArrowHead(t) \in Route(f, g) PROVE FALSE
  OBVIOUS
<1>1. /\ layers[f] \in Nat /\ layers[g] \in Nat /\ RowOf(g) \in Nat
      /\ layers[t] \in Nat /\ RowOf(t) \in Nat
  BY Coordinates
<1> DEFINE x == 28 * layers[t] - 1
           y == 6 * RowOf(t) + 1
<1>2. ArrowHead(t)[1] = x /\ ArrowHead(t)[2] = y
  BY HeadCell
<1>3. \/ x \in 28 * layers[f] + 22 .. 28 * layers[f] + 24
      \/ x = 28 * layers[g] - 2
      \/ y = 6 * RowOf(g) + 4
  <2> HIDE DEF x, y
  <2> QED BY <1>2, LineCell
<1> QED BY <1>1, <1>3, HeadColumn

\* The strokes of a line meet in its corners.
LEMMA StrokesMeet ==
  ASSUME WalkInv, NEW f \in Steps, NEW t \in Steps, layers[f] < layers[t]
  PROVE  /\ <<X(f) + NODE_WIDTH, Y(f) + 1>> \in Strokes(f, t)[1]
         /\ <<Middle(f), Y(f) + 1>> \in Strokes(f, t)[1] \cap Strokes(f, t)[2]
         /\ <<Middle(f), Lane(t)>> \in Strokes(f, t)[2] \cap Strokes(f, t)[3]
         /\ <<End(t), Lane(t)>> \in Strokes(f, t)[3] \cap Strokes(f, t)[4]
         /\ <<End(t), Y(t) + 1>> \in Strokes(f, t)[4]
<1>1. /\ layers[f] \in Nat /\ RowOf(f) \in Nat
      /\ layers[t] \in Nat /\ RowOf(t) \in Nat
  BY Coordinates
<1> DEFINE yf == Y(f) + 1
           yt == Y(t) + 1
           xf == X(f) + NODE_WIDTH
<1>2. /\ xf \in Int /\ Middle(f) \in Int /\ End(t) \in Int
      /\ yf \in Int /\ yt \in Int /\ Lane(t) \in Int
      /\ xf <= Middle(f) /\ Middle(f) <= End(t) /\ yt <= Lane(t)
  BY <1>1 DEF X, Y, Middle, End, Lane, COLUMN, ROW, NODE_WIDTH, NODE_HEIGHT
<1>3. /\ Strokes(f, t)[1] = Horizontal(xf, Middle(f), yf)
      /\ Strokes(f, t)[2] = Vertical(Middle(f), Lesser(yf, Lane(t)), Larger(yf, Lane(t)))
      /\ Strokes(f, t)[3] = Horizontal(Middle(f), End(t), Lane(t))
      /\ Strokes(f, t)[4] = Vertical(End(t), yt, Lane(t))
  BY DEF Strokes
<1> HIDE DEF xf, yf, yt
<1>4. <<xf, yf>> \in Strokes(f, t)[1] /\ <<Middle(f), yf>> \in Strokes(f, t)[1]
  BY <1>2, <1>3 DEF Horizontal
<1>5. <<Middle(f), yf>> \in Strokes(f, t)[2] /\ <<Middle(f), Lane(t)>> \in Strokes(f, t)[2]
  <2>1. /\ yf \in Lesser(yf, Lane(t)) .. Larger(yf, Lane(t))
        /\ Lane(t) \in Lesser(yf, Lane(t)) .. Larger(yf, Lane(t))
    BY <1>2 DEF Lesser, Larger
  <2> QED BY <1>3, <2>1 DEF Vertical
<1>6. <<Middle(f), Lane(t)>> \in Strokes(f, t)[3] /\ <<End(t), Lane(t)>> \in Strokes(f, t)[3]
  BY <1>2, <1>3 DEF Horizontal
<1>7. <<End(t), Lane(t)>> \in Strokes(f, t)[4] /\ <<End(t), yt>> \in Strokes(f, t)[4]
  BY <1>2, <1>3 DEF Vertical
<1> QED BY <1>4, <1>5, <1>6, <1>7 DEF xf, yf, yt

LEMMA Connect == WalkInv => RoutesConnect
<1> SUFFICES ASSUME WalkInv, placed, NEW e \in graph.edges
             PROVE  LET strokes == Strokes(e[1], e[2])
                    IN  /\ <<X(e[1]) + NODE_WIDTH, Y(e[1]) + 1>> \in strokes[1]
                        /\ \A k \in 1..3 : strokes[k] \cap strokes[k + 1] # {}
                        /\ <<End(e[2]), ArrowHead(e[2])[2]>> \in strokes[4]
                        /\ ArrowHead(e[2])[1] + 1 = X(e[2])
                        /\ \A f \in graph.edges : ArrowHead(e[2]) \notin Route(f[1], f[2])
  BY DEF RoutesConnect
<1> DEFINE strokes == Strokes(e[1], e[2])
<1>1. \A f \in graph.edges : f[1] \in Steps /\ f[2] \in Steps
  BY GraphFacts DEF WalkInv, LayoutTypeOK
<1>2. layers[e[1]] < layers[e[2]]
  BY RightOf DEF EdgesGoRight
<1>3. /\ <<X(e[1]) + NODE_WIDTH, Y(e[1]) + 1>> \in strokes[1]
      /\ strokes[1] \cap strokes[2] # {} /\ strokes[2] \cap strokes[3] # {}
      /\ strokes[3] \cap strokes[4] # {}
      /\ <<End(e[2]), Y(e[2]) + 1>> \in strokes[4]
  BY <1>1, <1>2, StrokesMeet
<1>4. \A k \in 1..3 : strokes[k] \cap strokes[k + 1] # {}
  <2> HIDE DEF strokes
  <2> QED BY <1>3
<1>5. ArrowHead(e[2])[2] = Y(e[2]) + 1 /\ ArrowHead(e[2])[1] = End(e[2]) + 1
  BY DEF ArrowHead
<1>6. ArrowHead(e[2])[1] + 1 = X(e[2])
  <2>1. layers[e[2]] \in Nat
    BY <1>1, Coordinates
  <2> QED BY <1>5, <2>1 DEF End, X, COLUMN, NODE_WIDTH
<1>7. \A f \in graph.edges : ArrowHead(e[2]) \notin Route(f[1], f[2])
  BY <1>1, HeadsAreFree
<1> QED BY <1>3, <1>4, <1>5, <1>6, <1>7

LEMMA MapIsClear == WalkInv => DrawingIsClear
BY RightOf, Apart, MissCards DEF WalkInv, DrawingIsClear

LEMMA MapIsTrue == WalkInv => DrawingIsTrue
BY AllVisited, ColumnsAreChains, Connect DEF DrawingIsTrue

\* The map shows the graph, whatever the graph: every step was visited and
\* stands in the column of its longest chain, in whatever order the walk took
\* them, and every dependency is drawn from end to end.
THEOREM DrawingStaysTrue == LayoutSpec => []DrawingIsTrue
BY MapIsTrue, WalkInvariant, PTL

-----------------------------------------------------------------------------
(***************************************************************************)
(* The two together.  The sort leaves an accepted graph with a ranking of  *)
(* its dependencies, which is all that the layout asks of a graph: nothing *)
(* is assumed of the graphs that are laid out.                             *)
(***************************************************************************)
PlanInv == DecodeInv /\ WalkInv

LEMMA PlanStart == PlanInit => PlanInv
BY DecodeInit, WalkInit DEF PlanInit, PlanInv

\* What is shown is fit for the walk.
LEMMA ShownIsFresh == ASSUME SortInv, Show PROVE Fresh'
<1>1. /\ Len(nodes) \in Nat /\ edges \subseteq Edges(Len(nodes))
      /\ Acyclic(Len(nodes), edges)
  BY StepNumbers, AcceptedGraphIsAcyclic DEF Show, Decoded, AcceptedIsAcyclic
<1>2. graph'.count = Len(nodes) /\ graph'.edges = edges
  BY DEF Show, AcceptedGraph
<1> QED BY <1>1, <1>2 DEF Show, Fresh

LEMMA PlanStep == PlanInv /\ [PlanNext]_planVars => PlanInv'
<1>1. ASSUME PlanInv, Decode PROVE PlanInv'
  <2>1. DecodeInv'
    BY <1>1, DecodeNext DEF PlanInv, Decode
  <2>2. WalkInv'
    BY <1>1, WalkNext DEF PlanInv, Decode
  <2> QED BY <2>1, <2>2 DEF PlanInv
<1>2. ASSUME PlanInv, LayOut PROVE PlanInv'
  <2>1. DecodeInv'
    BY <1>2, DecodeNext DEF PlanInv, LayOut
  <2>2. WalkInv'
    BY <1>2, WalkNext DEF PlanInv, LayOut
  <2> QED BY <2>1, <2>2 DEF PlanInv
<1>3. ASSUME PlanInv, Show PROVE DecodeInv' /\ Fresh'
  <2>1. DecodeInv'
    BY <1>3, DecodeNext DEF PlanInv, Show
  <2>2. Fresh'
    BY <1>3, ShownIsFresh DEF PlanInv, DecodeInv
  <2> QED BY <2>1, <2>2
<1>4. ASSUME PlanInv, UNCHANGED planVars PROVE PlanInv'
  <2>1. DecodeInv'
    BY <1>4, DecodeNext DEF PlanInv, planVars
  <2>2. WalkInv'
    BY <1>4, WalkNext DEF PlanInv, planVars
  <2> QED BY <2>1, <2>2 DEF PlanInv
<1>5. Fresh' => WalkInv'
  BY WalkStart, PTL
<1> QED BY <1>1, <1>2, <1>3, <1>4, <1>5 DEF PlanNext, PlanInv

LEMMA PlanInvariant == PlanSpec => []PlanInv
BY PlanStart, PlanStep, PTL DEF PlanSpec

\* Whatever the gateway replies, the map that is drawn of it can be read.
THEOREM EveryMapIsClear == PlanSpec => []DrawingIsClear
<1>1. PlanInv => DrawingIsClear
  BY MapIsClear DEF PlanInv
<1> QED BY <1>1, PlanInvariant, PTL

\* And it shows the plan that was accepted, and no other graph is walked.
THEOREM EveryMapIsTrue == PlanSpec => []DrawingIsTrue
<1>1. PlanInv => DrawingIsTrue
  BY MapIsTrue DEF PlanInv
<1> QED BY <1>1, PlanInvariant, PTL

\* From the reply to the map: once the accepted graph is laid out, the reply is
\* a plan, its steps are those that were placed, and each stands in the column
\* of the longest chain of the dependencies that the reply lists.
THEOREM MapsShowTheReply ==
  PlanSpec => [](Decoded /\ graph = AcceptedGraph /\ placed =>
                   /\ IsPlan(reply) /\ visited = 1..Len(reply.nodes)
                   /\ layers = LongestChain(Len(reply.nodes), Pairs(reply)))
<1>1. ASSUME PlanInv, Decoded, graph = AcceptedGraph, placed
      PROVE  /\ IsPlan(reply) /\ visited = 1..Len(reply.nodes)
             /\ layers = LongestChain(Len(reply.nodes), Pairs(reply))
  <2>1. IsPlan(reply) /\ edges = Pairs(reply)
    BY <1>1, AcceptedArePlans DEF PlanInv, Decoded, AcceptedIsAPlan
  <2>2. Len(nodes) = Len(reply.nodes)
    BY <1>1 DEF PlanInv, DecodeInv, ListsEnded, Decoded
  <2>3. graph.count = Len(reply.nodes) /\ graph.edges = Pairs(reply)
    BY <1>1, <2>1, <2>2 DEF AcceptedGraph
  <2>4. visited = Steps /\ layers = LongestChain(graph.count, graph.edges)
    BY <1>1, MapIsTrue DEF PlanInv, DrawingIsTrue, ColumnsAreLongestChains
  <2> QED BY <2>1, <2>3, <2>4 DEF Steps
<1>2. PlanInv => (Decoded /\ graph = AcceptedGraph /\ placed =>
                    /\ IsPlan(reply) /\ visited = 1..Len(reply.nodes)
                    /\ layers = LongestChain(Len(reply.nodes), Pairs(reply)))
  BY <1>1
<1> QED BY <1>2, PlanInvariant, PTL
=============================================================================
