-------------------------- MODULE InspectorProofs --------------------------
(***************************************************************************)
(* Proofs about the run inspector, for every set of tasks and runs and     *)
(* every bound.  A frame is right because of what the view holds at any    *)
(* time, drawn or not: protected content and reads in flight belong to the *)
(* binding and were asked for (Belongs, Wanted), the two never coexist,    *)
(* and the comparison token is never below what was drawn (Ordered).       *)
(***************************************************************************)
EXTENDS Inspector, TLAPS

\* The view follows the accepted task reads, and reads for their run.
Belongs ==
  /\ binding \in {None, bound} /\ accepted = (binding # None)
  /\ inspector.run = RunOf(binding)

HasContent == graph # 0 \/ inspector.projection

\* What is held or being read was asked for, of a run that is known, and
\* nothing is held while something is read.
Wanted ==
  /\ HasContent \/ Pending => asked /\ Readable
  /\ ~(HasContent /\ Pending)

\* The token is the revision of the plan, and at least every drawn one.
Ordered ==
  /\ inspector.plan.revision \in {0, inspector.previous}
  /\ top <= inspector.previous

Selecting == graph # 0 => selected < graph

Held == Belongs /\ Wanted /\ OneRead /\ Ordered /\ Selecting

ViewInv == InspectorTypeOK /\ Held /\ OnlyWhatWasAsked /\ SelectionIsAStep /\ RevisionsAdvance
             /\ ProtectedDataIsBound
-----------------------------------------------------------------------------
(***************************************************************************)
(* What the operators return.                                              *)
(***************************************************************************)
Inspectors == [run : Runs \cup {NoRun}, projection : BOOLEAN, plan : Plans,
               previous : 0..Revisions]

LEMMA PlansType ==
  /\ NoPlan \in Plans /\ NoPlan.revision = 0 /\ NoPlan.left = 0
  /\ \A plan \in Plans : /\ plan.revision \in 0..Revisions /\ plan.left \in 0..Validity
                         /\ Sooner(plan) \in Plans /\ Sooner(plan).revision = plan.revision
  BY BoundsAssumption DEF Plans, NoPlan, Sooner

LEMMA RunOfType == \A b \in Bindings : RunOf(b) \in Runs \cup {NoRun}
  BY DEF RunOf, Bindings, Correlation

\* The content is gone, the run and the token are kept.
LEMMA ClearedType ==
  ASSUME NEW ri \in Inspectors
  PROVE  /\ Cleared(ri) \in Inspectors
         /\ Cleared(ri).run = ri.run /\ Cleared(ri).previous = ri.previous
         /\ Cleared(ri).projection = FALSE /\ Cleared(ri).plan.revision = 0
  BY PlansType DEF Inspectors, Cleared

LEMMA NewInspectorType ==
  ASSUME NEW run \in Runs \cup {NoRun}
  PROVE  /\ NewInspector(run) \in Inspectors
         /\ NewInspector(run).run = run /\ NewInspector(run).previous = 0
         /\ NewInspector(run).projection = FALSE /\ NewInspector(run).plan.revision = 0
  BY PlansType, BoundsAssumption DEF Inspectors, NewInspector

\* The token only grows, and what is accepted is the read of the run.
LEMMA AcceptReadType ==
  ASSUME NEW ri \in Inspectors, NEW run, NEW result \in Results
  PROVE  /\ AcceptRead(ri, run, result) \in Inspectors
         /\ AcceptRead(ri, run, result).run = ri.run
         /\ AcceptRead(ri, run, result).previous >= ri.previous
         /\ AcceptRead(ri, run, result).plan.revision
              \in {0, AcceptRead(ri, run, result).previous}
         /\ run # ri.run => AcceptRead(ri, run, result).projection = FALSE
<1>1. CASE ~result.ok \/ run # ri.run
  <2>1. AcceptRead(ri, run, result) = Cleared(ri)
    BY <1>1 DEF AcceptRead
  <2>2. ri.previous \in Nat
    BY BoundsAssumption DEF Inspectors
  <2>3. /\ Cleared(ri) \in Inspectors /\ Cleared(ri).run = ri.run
        /\ Cleared(ri).previous = ri.previous
        /\ Cleared(ri).projection = FALSE /\ Cleared(ri).plan.revision = 0
    BY ClearedType
  <2>4. Cleared(ri).previous >= ri.previous
    BY <2>2, <2>3
  <2>5. Cleared(ri).plan.revision \in {0, Cleared(ri).previous}
    BY <2>3
  <2>6. QED
    BY <2>1, <2>3, <2>4, <2>5, Zenon
<1>2. CASE result.ok /\ run = ri.run /\ ~PlanAccepted(ri, result.plan)
  <2>1. AcceptRead(ri, run, result) = [ri EXCEPT !.projection = TRUE, !.plan = NoPlan]
    BY <1>2 DEF AcceptRead
  <2>2. ri.previous \in Nat
    BY BoundsAssumption DEF Inspectors
  <2>3. /\ AcceptRead(ri, run, result) \in Inspectors
        /\ AcceptRead(ri, run, result).run = ri.run
    BY <2>1, PlansType DEF Inspectors
  <2>4. /\ AcceptRead(ri, run, result).previous = ri.previous
        /\ AcceptRead(ri, run, result).plan.revision = 0
    BY <2>1, PlansType DEF Inspectors
  <2>5. QED
    BY <1>2, <2>2, <2>3, <2>4
<1>3. CASE result.ok /\ run = ri.run /\ PlanAccepted(ri, result.plan)
  <2>1. AcceptRead(ri, run, result) = [ri EXCEPT !.projection = TRUE, !.plan = result.plan,
                            !.previous = result.plan.revision]
    BY <1>3 DEF AcceptRead
  <2>2. result.plan \in Plans /\ result.plan.revision \in 0..Revisions
    BY PlansType DEF Results
  <2>3. result.plan.revision >= ri.previous
    BY <1>3 DEF PlanAccepted
  <2>4. QED
    BY <1>3, <2>1, <2>2, <2>3 DEF Inspectors
<1>4. QED
  BY <1>1, <1>2, <1>3

LEMMA ReadsType ==
  /\ NoRead \in Requests /\ NoRead.phase = "none"
  /\ \A gen \in 0..(Generations - 1) :
       /\ binding \in Bindings => Spawned(gen) \in Requests
       /\ Spawned(gen).phase = "reading" /\ Spawned(gen).scope = binding
       /\ Spawned(gen).generation = gen
  /\ generation \in 0..(Generations - 1) =>
       Successor \in 0..(Generations - 1) /\ (generation + 2) % Generations \in 0..(Generations - 1)
  BY PlansType, BoundsAssumption DEF NoRead, Requests, Spawned, Refused, Results, Bindings, Successor

\* What the transport may answer.
LEMMA AnswersType ==
  /\ Refused \in Results
  /\ \A plan \in Plans : Read(plan) \in Results
  /\ \A steps \in 1..Steps : Graph(steps) \in Results /\ Graph(steps).steps = steps
  BY PlansType, BoundsAssumption DEF Refused, Read, Graph, Results
-----------------------------------------------------------------------------
(***************************************************************************)
(* Events.  The frame is over with an event, so only what the view holds   *)
(* has to be looked at.                                                    *)
(***************************************************************************)
LEMMA EventKeeps == ViewInv /\ Event /\ InspectorTypeOK' /\ Held' => ViewInv'
<1> SUFFICES ASSUME ViewInv, Event, InspectorTypeOK', Held' PROVE ViewInv'
  OBVIOUS
<1>1. ~Drawn' /\ shown' = shown
  BY DEF Event, Drawn
<1>2. SelectionIsAStep'
  BY <1>1 DEF ViewInv, SelectionIsAStep
<1>3. OnlyWhatWasAsked' /\ RevisionsAdvance' /\ ProtectedDataIsBound'
  BY <1>1 DEF OnlyWhatWasAsked, RevisionsAdvance, ProtectedDataIsBound
<1>4. QED
  BY <1>2, <1>3 DEF ViewInv

LEMMA ViewTypes ==
  ViewInv => /\ turn \in {"draw", "select"} /\ bound \in Bindings /\ binding \in Bindings
             /\ inspector \in Inspectors
             /\ request \in Requests /\ graphRequest \in Requests
             /\ generation \in 0..(Generations - 1)
             /\ graph \in 0..Steps /\ selected \in 0..Steps
             /\ top \in 0..Revisions
  BY DEF ViewInv, InspectorTypeOK, Inspectors

\* Nothing of the content changes, or it is cleared: it stays in order.
LEMMA ContentKept ==
  ASSUME ViewInv, UNCHANGED <<accepted, bound, binding, content, top>>
  PROVE  Belongs' /\ Ordered' /\ Selecting' /\ HasContent' = HasContent
  BY DEF ViewInv, Held, Belongs, Ordered, Selecting, HasContent, content, RunOf

LEMMA ContentCleared ==
  ASSUME ViewInv, UNCHANGED <<accepted, bound, binding, top>>, ClearRead
  PROVE  /\ Belongs' /\ Ordered' /\ Selecting' /\ ~HasContent'
         /\ inspector' \in Inspectors /\ graph' \in 0..Steps /\ selected' \in 0..Steps
<1>1. /\ inspector' \in Inspectors /\ inspector'.run = inspector.run
      /\ inspector'.previous = inspector.previous
      /\ inspector'.projection = FALSE /\ inspector'.plan.revision = 0
  BY ViewTypes, ClearedType DEF ClearRead
<1>2. graph' = 0 /\ selected' = NoStep
  BY DEF ClearRead
<1>3. Belongs'
  BY <1>1 DEF ViewInv, Held, Belongs, RunOf
<1>4. Ordered'
  BY <1>1 DEF ViewInv, Held, Ordered
<1>5. Selecting' /\ ~HasContent'
  BY <1>1, <1>2 DEF Selecting, HasContent
<1>6. QED
  BY <1>1, <1>2, <1>3, <1>4, <1>5, BoundsAssumption DEF NoStep

\* The four ways in which an event leaves the reads: none, as they were, one of
\* the graph, or one of the summary.
LEMMA ReadsEnded ==
  ASSUME ViewInv, request' = NoRead, graphRequest' = NoRead
  PROVE  OneRead' /\ ~Pending'
  BY DEF OneRead, Pending

LEMMA GraphIsRead ==
  ASSUME ViewInv, NEW gen \in 0..(Generations - 1), RefreshGraph(gen),
         UNCHANGED binding, open', graphMode'
  PROVE  /\ OneRead' /\ (Pending' => Readable')
         /\ request' \in Requests /\ graphRequest' \in Requests
         /\ generation' \in 0..(Generations - 1)
<1>1. /\ generation' = gen /\ request' = NoRead
      /\ graphRequest' = IF RunOf(binding) = NoRun THEN NoRead ELSE Spawned(gen)
  BY DEF RefreshGraph
<1>2. /\ NoRead \in Requests /\ Spawned(gen) \in Requests
      /\ Spawned(gen).scope = binding /\ Spawned(gen).generation = gen
  BY ReadsType, ViewTypes
<1>3. Readable' = (RunOf(binding) # NoRun)
  BY DEF Readable, RunOf
<1>4. OneRead'
  BY <1>1, <1>2 DEF OneRead, InScope
<1>5. QED
  BY <1>1, <1>2, <1>3, <1>4 DEF Pending

LEMMA SummaryIsRead ==
  ASSUME ViewInv, NEW gen \in 0..(Generations - 1), Readable, ~graphMode',
         request' = Spawned(gen), graphRequest' = NoRead, UNCHANGED binding
  PROVE  OneRead' /\ (Pending' => Readable') /\ request' \in Requests /\ graphRequest' \in Requests
<1>1. NoRead \in Requests /\ Spawned(gen) \in Requests /\ Spawned(gen).scope = binding
  BY ReadsType, ViewTypes
<1>2. OneRead'
  BY <1>1 DEF OneRead
<1>3. QED
  BY <1>1, <1>2 DEF Readable, RunOf

\* What Refresh leaves, with a view that is open by now.
LEMMA RefreshHolds ==
  ASSUME ViewInv, Refresh, open', asked',
         UNCHANGED <<accepted, bound, binding, graphMode, top>>
  PROVE  /\ Held'
         /\ inspector' \in Inspectors /\ graph' \in 0..Steps /\ selected' \in 0..Steps
         /\ request' \in Requests /\ graphRequest' \in Requests
         /\ generation' \in 0..(Generations - 1)
<1>1. CASE graphMode
  <2>1. Successor \in 0..(Generations - 1)
    BY ReadsType, ViewTypes
  <2>2. RefreshGraph(Successor) /\ ClearRead
    BY <1>1 DEF Refresh, RefreshGraph
  <2>3. graphMode'
    BY <1>1
  <2>4. OneRead' /\ (Pending' => Readable')
    BY <2>1, <2>2, <2>3, GraphIsRead
  <2>5. Wanted'
    BY <2>2, <2>4, ContentCleared DEF Wanted
  <2>6. QED
    BY <2>1, <2>2, <2>3, <2>4, <2>5, ContentCleared, GraphIsRead DEF Held
<1>2. CASE ~graphMode /\ MayReadSummary
  <2>1. ReadSummary /\ ClearRead /\ generation' = generation /\ Readable
    BY <1>2 DEF Refresh, ReadSummary, MayReadSummary
  <2>2. /\ request' = Spawned(generation) /\ graphRequest' = NoRead /\ ~graphMode'
        /\ generation \in 0..(Generations - 1)
    BY <1>2, <2>1, ViewTypes DEF ReadSummary
  <2>3. /\ OneRead' /\ (Pending' => Readable')
        /\ request' \in Requests /\ graphRequest' \in Requests
    BY <2>1, <2>2, SummaryIsRead
  <2>4. Wanted'
    BY <2>1, <2>3, ContentCleared DEF Wanted
  <2>5. QED
    BY <2>1, <2>2, <2>3, <2>4, ContentCleared DEF Held
<1>3. CASE ~graphMode /\ ~MayReadSummary
  <2>1. UNCHANGED <<content, reads>>
    BY <1>3 DEF Refresh
  <2>2. OneRead'
    BY <1>3, <2>1 DEF ViewInv, Held, OneRead, reads, InScope
  <2>3. Wanted'
    BY <2>1, ContentKept DEF ViewInv, Held, Wanted, reads, Pending, Readable, RunOf
  <2>4. QED
    BY <2>1, <2>2, <2>3, ContentKept, ViewTypes DEF Held, content, reads
<1>4. QED
  BY <1>1, <1>2, <1>3

LEMMA KeyOpenKeeps == ViewInv /\ KeyOpen => ViewInv'
<1> SUFFICES ASSUME ViewInv, KeyOpen PROVE ViewInv'
  OBVIOUS
<1>1. Event /\ Refresh /\ open' /\ asked'
      /\ UNCHANGED <<accepted, bound, binding, graphMode, spatialMode, search, top>>
  BY DEF KeyOpen
<1>2. InspectorTypeOK' /\ Held'
  BY <1>1, RefreshHolds DEF KeyOpen, ViewInv, InspectorTypeOK, Inspectors, Event
<1>3. QED
  BY <1>1, <1>2, EventKeeps

LEMMA KeyRefreshKeeps == ViewInv /\ KeyRefresh => ViewInv'
<1> SUFFICES ASSUME ViewInv, KeyRefresh PROVE ViewInv'
  OBVIOUS
<1>1. Event /\ Refresh /\ open' /\ asked' /\ UNCHANGED <<accepted, bound, binding, modes, top>>
  BY DEF KeyRefresh, modes
<1>2. InspectorTypeOK' /\ Held'
  BY <1>1, RefreshHolds DEF KeyRefresh, ViewInv, InspectorTypeOK, Inspectors, Event, modes
<1>3. QED
  BY <1>1, <1>2, EventKeeps

LEMMA KeyGraphKeeps == ViewInv /\ KeyGraph => ViewInv'
<1> SUFFICES ASSUME ViewInv, KeyGraph PROVE ViewInv'
  OBVIOUS
<1>1. /\ Event /\ open' /\ asked' /\ graphMode' = ~graphMode
      /\ UNCHANGED <<accepted, bound, binding, top, spatialMode, search>>
  BY DEF KeyGraph
<1>2. Successor \in 0..(Generations - 1) /\ (generation + 2) % Generations \in 0..(Generations - 1)
  BY ReadsType, ViewTypes
<1>3. ClearRead
  BY DEF KeyGraph, RefreshGraph
<1>4. /\ OneRead' /\ (Pending' => Readable')
      /\ request' \in Requests /\ graphRequest' \in Requests
      /\ generation' \in 0..(Generations - 1)
  <2>1. CASE ~graphMode
    <3>1. graphMode' /\ RefreshGraph((generation + 2) % Generations)
      BY <2>1 DEF KeyGraph
    <3>2. QED
      BY <1>1, <1>2, <3>1, GraphIsRead
  <2>2. CASE graphMode
    <3>1. /\ generation' = Successor /\ graphRequest' = NoRead /\ ~graphMode'
          /\ request' = IF Readable THEN Spawned(Successor) ELSE NoRead
      BY <2>2 DEF KeyGraph
    <3>2. CASE Readable
      BY <1>1, <1>2, <3>1, <3>2, SummaryIsRead
    <3>3. CASE ~Readable
      BY <1>2, <3>1, <3>3, ReadsEnded, ReadsType
    <3>4. QED
      BY <3>2, <3>3
  <2>3. QED
    BY <2>1, <2>2
<1>5. Wanted'
  BY <1>1, <1>3, <1>4, ContentCleared DEF Wanted
<1>6. Held'
  BY <1>1, <1>3, <1>4, <1>5, ContentCleared DEF Held
<1>7. InspectorTypeOK'
  BY <1>1, <1>3, <1>4, ContentCleared DEF KeyGraph, ViewInv, InspectorTypeOK, Inspectors, Event
<1>8. QED
  BY <1>1, <1>6, <1>7, EventKeeps

\* Keys that change neither the content, the reads nor what was asked.
LEMMA ModeKeyKeeps ==
  ASSUME ViewInv, Event, InspectorTypeOK',
         UNCHANGED <<accepted, bound, binding, content, reads, graphMode, open, asked, top>>
  PROVE  ViewInv'
<1>1. OneRead'
  BY DEF ViewInv, Held, OneRead, reads, InScope
<1>2. Wanted'
  BY ContentKept DEF ViewInv, Held, Wanted, reads, Pending, Readable, RunOf
<1>3. QED
  BY <1>1, <1>2, ContentKept, EventKeeps DEF Held

LEMMA OtherKeysKeep == ViewInv /\ (KeyMap \/ KeySearch \/ Redraw) => ViewInv'
<1>1. ASSUME ViewInv, KeyMap \/ KeySearch \/ Redraw
      PROVE  /\ Event /\ InspectorTypeOK'
             /\ UNCHANGED <<accepted, bound, binding, content, reads, graphMode, open, asked, top>>
  BY <1>1 DEF KeyMap, KeySearch, Redraw, Event, ViewInv, InspectorTypeOK, content, reads, modes
<1>2. QED
  BY <1>1, ModeKeyKeeps

\* The selection wraps within the graph.
LEMMA KeySelectKeeps == ViewInv /\ KeySelect => ViewInv'
<1> SUFFICES ASSUME ViewInv, KeySelect PROVE ViewInv'
  OBVIOUS
<1>1. /\ Event /\ graph # 0
      /\ UNCHANGED <<accepted, bound, binding, inspector, graph, reads, modes, asked, top>>
  BY DEF KeySelect
<1>2. PICK step \in {1, graph - 1} : selected' = (selected + step) % graph
  BY DEF KeySelect, NextStep
<1>3. graph \in Nat /\ graph # 0 /\ selected \in Nat /\ step \in Nat /\ graph <= Steps
  BY <1>1, ViewTypes, BoundsAssumption
<1>4. selected' \in 0..(graph - 1)
  BY <1>2, <1>3
<1>5. Selecting' /\ selected' \in 0..Steps
  BY <1>1, <1>3, <1>4, BoundsAssumption DEF Selecting
<1>6. OneRead'
  BY <1>1 DEF ViewInv, Held, OneRead, reads, InScope, modes
<1>7. Belongs' /\ Wanted' /\ Ordered'
  BY <1>1 DEF ViewInv, Held, Belongs, Wanted, Ordered, HasContent, Pending, Readable, RunOf, reads
<1>8. InspectorTypeOK'
  BY <1>1, <1>5 DEF KeySelect, ViewInv, InspectorTypeOK, Event, reads, modes
<1>9. QED
  BY <1>1, <1>5, <1>6, <1>7, <1>8, EventKeeps DEF Held

\* The read is aborted and the content cleared.
LEMMA AbortHolds ==
  ASSUME ViewInv, Abort, UNCHANGED <<accepted, bound, binding, top>>
  PROVE  /\ Held'
         /\ inspector' \in Inspectors /\ graph' \in 0..Steps /\ selected' \in 0..Steps
         /\ request' \in Requests /\ graphRequest' \in Requests
         /\ generation' \in 0..(Generations - 1)
<1>1. /\ ClearRead /\ request' = NoRead /\ graphRequest' = NoRead
      /\ generation' = Successor
  BY DEF Abort, AbortReads
<1>2. OneRead' /\ ~Pending'
  BY <1>1, ReadsEnded
<1>3. Wanted'
  BY <1>1, <1>2, ContentCleared DEF Wanted
<1>4. QED
  BY <1>1, <1>2, <1>3, ContentCleared, ReadsType, ViewTypes DEF Held

LEMMA KeyCancelKeeps == ViewInv /\ (KeyCancel \/ KeyClose) => ViewInv'
<1>1. ASSUME ViewInv, KeyCancel \/ KeyClose
      PROVE  Event /\ InspectorTypeOK' /\ Held'
  <2>1. Event /\ Abort /\ UNCHANGED <<accepted, bound, binding, top>>
    BY <1>1 DEF KeyCancel, KeyClose
  <2>2. QED
    BY <1>1, <2>1, AbortHolds
       DEF KeyCancel, KeyClose, Event, ViewInv, InspectorTypeOK, Inspectors, modes
<1>2. QED
  BY <1>1, EventKeeps

\* Another binding, or none, starts an empty view.
LEMMA TaskReadKeeps == ViewInv /\ TaskRead => ViewInv'
<1> SUFFICES ASSUME ViewInv, TaskRead PROVE ViewInv'
  OBVIOUS
<1>1. PICK next \in Bindings :
        /\ TaskUpdated(next) /\ accepted' = (next # None)
        /\ next \in {None, bound'} /\ bound' \in Bindings
        /\ bound \in {None, bound'}
  <2>1. CASE bound = None /\ bound' \in Correlation /\ TaskUpdated(bound') /\ accepted' = TRUE
    BY <2>1, NoneAssumption DEF Bindings
  <2>2. CASE bound # None /\ UNCHANGED bound /\ TaskUpdated(bound) /\ accepted' = TRUE
    BY <2>2, ViewTypes
  <2>3. CASE UNCHANGED bound /\ TaskUpdated(None) /\ accepted' = FALSE
    BY <2>3, ViewTypes DEF Bindings
  <2>4. QED
    BY <2>1, <2>2, <2>3 DEF TaskRead
<1>2. Event /\ UNCHANGED <<graphMode, spatialMode, open>>
  BY DEF TaskRead
<1>3. CASE next # binding \/ next = None
  <2>1. /\ request' = NoRead /\ graphRequest' = NoRead /\ generation' = Successor
        /\ binding' = next /\ graph' = 0 /\ selected' = NoStep
        /\ inspector' = NewInspector(RunOf(next)) /\ search' = FALSE
        /\ asked' = FALSE /\ top' = 0
    BY <1>1, <1>3 DEF TaskUpdated, AbortReads
  <2>2. /\ inspector' \in Inspectors /\ inspector'.run = RunOf(next)
        /\ inspector'.previous = 0
        /\ inspector'.projection = FALSE /\ inspector'.plan.revision = 0
    BY <2>1, NewInspectorType, RunOfType
  <2>3. OneRead' /\ ~Pending'
    BY <2>1, ReadsEnded
  <2>4. Belongs'
    BY <1>1, <2>1, <2>2 DEF Belongs, RunOf
  <2>5. Wanted' /\ Ordered' /\ Selecting'
    BY <2>1, <2>2, <2>3 DEF Wanted, Ordered, Selecting, HasContent
  <2>6. /\ request' \in Requests /\ graphRequest' \in Requests
        /\ generation' \in 0..(Generations - 1)
    BY <2>1, ReadsType, ViewTypes
  <2>7. /\ graph' \in 0..Steps /\ selected' \in 0..Steps /\ top' \in 0..Revisions
    BY <2>1, BoundsAssumption DEF NoStep
  <2>8. accepted' \in BOOLEAN
    <3>1. accepted' = (next # None)
      BY <1>1
    <3>2. QED
      BY <3>1, Zenon
  <2>9. asked' \in BOOLEAN /\ search' \in BOOLEAN
    BY <2>1
  <2>10. InspectorTypeOK'
    BY <1>1, <1>2, <2>1, <2>2, <2>6, <2>7, <2>8, <2>9 DEF ViewInv, InspectorTypeOK, Inspectors, Event
  <2>11. QED
    BY <1>2, <2>3, <2>4, <2>5, <2>10, EventKeeps DEF Held
<1>4. CASE next = binding /\ next # None
  <2>1. UNCHANGED <<binding, content, reads, search, asked, top>>
    BY <1>1, <1>4 DEF TaskUpdated
  <2>2. Belongs'
    BY <1>1, <1>4, <2>1 DEF ViewInv, Held, Belongs, content, RunOf
  <2>3. OneRead'
    BY <1>2, <2>1 DEF ViewInv, Held, OneRead, reads, InScope
  <2>4. Wanted' /\ Ordered' /\ Selecting'
    BY <2>1 DEF ViewInv, Held, Wanted, Ordered, Selecting, HasContent, Pending, Readable,
                RunOf, content, reads
  <2>5. InspectorTypeOK'
    BY <1>1, <1>2, <2>1 DEF ViewInv, InspectorTypeOK, Event, content, reads
  <2>6. QED
    BY <1>2, <2>2, <2>3, <2>4, <2>5, EventKeeps DEF Held
<1>5. QED
  BY <1>3, <1>4

LEMMA CompleteGraphKeeps == ViewInv /\ CompleteGraph => ViewInv'
<1> SUFFICES ASSUME ViewInv, CompleteGraph PROVE ViewInv'
  OBVIOUS
<1>1. /\ Event /\ graphRequest' = NoRead /\ graphRequest.phase = "done"
      /\ UNCHANGED <<accepted, bound, binding, request, generation, modes, asked, top>>
  BY DEF CompleteGraph
<1>2. graphRequest # NoRead /\ request = NoRead /\ asked /\ Readable
  BY <1>1, ReadsType DEF ViewInv, Held, OneRead, Wanted, Pending
<1>3. OneRead' /\ ~Pending' /\ Readable' = Readable
  BY <1>1, <1>2, ReadsEnded DEF Readable, RunOf
<1>4. Wanted'
  BY <1>1, <1>2, <1>3 DEF Wanted
<1>5. /\ Belongs' /\ Ordered' /\ Selecting'
      /\ inspector' \in Inspectors /\ graph' \in 0..Steps /\ selected' \in 0..Steps
  <2>1. CASE ClearRead
    BY <1>1, <2>1, ContentCleared
  <2>2. CASE graph' = graphRequest.result.steps /\ selected' = 0 /\ inspector' = Cleared(inspector)
    <3>1. graphRequest.result.steps \in 0..Steps
      BY ViewTypes DEF Requests, Results
    <3>2. /\ inspector' \in Inspectors /\ inspector'.run = inspector.run
          /\ inspector'.previous = inspector.previous /\ inspector'.plan.revision = 0
      BY <2>2, ViewTypes, ClearedType
    <3>3. Belongs' /\ Ordered'
      BY <1>1, <3>2 DEF ViewInv, Held, Belongs, Ordered, RunOf
    <3>4. Selecting' /\ selected' \in 0..Steps
      BY <2>2, <3>1, BoundsAssumption DEF Selecting
    <3>5. QED
      BY <2>2, <3>1, <3>2, <3>3, <3>4
  <2>3. QED
    BY <2>1, <2>2 DEF CompleteGraph
<1>6. InspectorTypeOK'
  BY <1>1, <1>5, ReadsType DEF ViewInv, InspectorTypeOK, Inspectors, Event, modes
<1>7. QED
  BY <1>1, <1>3, <1>4, <1>5, <1>6, EventKeeps DEF Held

LEMMA CompleteSummaryKeeps == ViewInv /\ CompleteSummary => ViewInv'
<1> SUFFICES ASSUME ViewInv, CompleteSummary PROVE ViewInv'
  OBVIOUS
<1>1. /\ Event /\ graphRequest' = NoRead /\ request' = NoRead /\ request.phase = "done"
      /\ inspector' = AcceptRead(inspector, RunOf(request.scope), request.result)
      /\ UNCHANGED <<accepted, bound, binding, graph, selected, generation, modes, asked, top>>
  BY DEF CompleteSummary
<1>2. request # NoRead /\ asked /\ Readable
  BY <1>1, ReadsType DEF ViewInv, Held, Wanted, Pending
<1>3. OneRead' /\ ~Pending' /\ Readable' = Readable
  BY <1>1, ReadsEnded DEF Readable, RunOf
<1>4. request.result \in Results
  BY ViewTypes DEF Requests
<1>5. /\ inspector' \in Inspectors /\ inspector'.run = inspector.run
      /\ inspector'.previous >= inspector.previous
      /\ inspector'.plan.revision \in {0, inspector'.previous}
  BY <1>1, <1>4, ViewTypes, AcceptReadType
<1>6. Belongs'
  BY <1>1, <1>5 DEF ViewInv, Held, Belongs, RunOf
<1>7. Ordered'
  <2>1. top \in Nat /\ inspector.previous \in Nat /\ inspector'.previous \in Nat
    BY <1>5, ViewTypes, BoundsAssumption DEF Inspectors
  <2>2. QED
    BY <1>1, <1>5, <2>1 DEF ViewInv, Held, Ordered
<1>8. Wanted' /\ Selecting'
  BY <1>1, <1>2, <1>3 DEF ViewInv, Held, Wanted, Selecting
<1>9. InspectorTypeOK'
  BY <1>1, <1>5, ReadsType DEF ViewInv, InspectorTypeOK, Inspectors, Event, modes
<1>10. QED
  BY <1>1, <1>3, <1>6, <1>7, <1>8, <1>9, EventKeeps DEF Held
-----------------------------------------------------------------------------
(***************************************************************************)
(* Answers and the clock, between any two steps of the loop.  A read that  *)
(* is answered stays a read, and nothing is read while a frame shows       *)
(* something.                                                              *)
(***************************************************************************)
SameRead(old, new) ==
  /\ new.scope = old.scope /\ new.generation = old.generation
  /\ new = NoRead <=> old = NoRead

LEMMA BesidesKeeps ==
  ASSUME ViewInv, UNCHANGED viewVars,
         request' \in Requests, graphRequest' \in Requests, inspector' \in Inspectors,
         SameRead(request, request'), SameRead(graphRequest, graphRequest'),
         inspector' = [inspector EXCEPT !.plan = inspector'.plan],
         inspector'.plan.revision = inspector.plan.revision
  PROVE  ViewInv'
<1>1. /\ inspector'.run = inspector.run /\ inspector'.projection = inspector.projection
      /\ inspector'.previous = inspector.previous
  BY ViewTypes DEF Inspectors
<1>2. Pending' = Pending /\ HasContent' = HasContent /\ Readable' = Readable
  BY <1>1 DEF Pending, HasContent, Readable, RunOf, SameRead, viewVars
<1>3. OneRead'
  BY DEF ViewInv, Held, OneRead, InScope, SameRead, viewVars, modes
<1>4. Belongs' /\ Wanted' /\ Ordered' /\ Selecting'
  BY <1>1, <1>2 DEF ViewInv, Held, Belongs, Wanted, Ordered, Selecting, RunOf, viewVars, history
<1>5. InspectorTypeOK'
  BY DEF ViewInv, InspectorTypeOK, Inspectors, viewVars, modes, history
<1>6. Drawn' = Drawn /\ shown' = shown
  BY DEF Drawn, viewVars
<1>7. SelectionIsAStep' /\ OnlyWhatWasAsked'
  BY <1>2, <1>6 DEF ViewInv, SelectionIsAStep, OnlyWhatWasAsked, viewVars, history
<1>8. RevisionsAdvance' /\ ProtectedDataIsBound'
  BY <1>6 DEF ViewInv, RevisionsAdvance, ProtectedDataIsBound, viewVars, history, modes
<1>9. QED
  BY <1>3, <1>4, <1>5, <1>7, <1>8 DEF ViewInv, Held

LEMMA AnswerKeeps == ViewInv /\ Answer => ViewInv'
<1> SUFFICES ASSUME ViewInv, Answer PROVE ViewInv'
  OBVIOUS
<1>1. /\ request \in Requests /\ graphRequest \in Requests /\ inspector \in Inspectors
      /\ inspector = [inspector EXCEPT !.plan = inspector.plan]
  BY ViewTypes DEF Inspectors
<1>2. ASSUME NEW read \in Requests, read.phase = "reading", NEW result \in Results,
             NEW new, new = [read EXCEPT !.phase = "done", !.result = result]
      PROVE  new \in Requests /\ SameRead(read, new)
  BY <1>2, ReadsType DEF Requests, SameRead
<1>3. SameRead(request, request) /\ SameRead(graphRequest, graphRequest)
  BY DEF SameRead
<1>4. CASE /\ request.phase = "reading"
           /\ \E result \in Results : request' = [request EXCEPT !.phase = "done", !.result = result]
           /\ UNCHANGED <<graphRequest, inspector, viewVars>>
  BY <1>1, <1>2, <1>3, <1>4, BesidesKeeps
<1>5. CASE /\ graphRequest.phase = "reading"
           /\ \E result \in Results :
                graphRequest' = [graphRequest EXCEPT !.phase = "done", !.result = result]
           /\ UNCHANGED <<request, inspector, viewVars>>
  BY <1>1, <1>2, <1>3, <1>5, BesidesKeeps
<1>6. /\ \A plan \in [revision : 1..Revisions, left : 1..Validity] : Read(plan) \in Results
      /\ Refused \in Results /\ Read(NoPlan) \in Results
      /\ \A steps \in 1..Steps : Graph(steps) \in Results
  BY AnswersType, BoundsAssumption DEF Plans
<1>7. QED
  BY <1>4, <1>5, <1>6 DEF Answer

LEMMA TickKeeps == ViewInv /\ Tick => ViewInv'
<1> SUFFICES ASSUME ViewInv, Tick PROVE ViewInv'
  OBVIOUS
<1>1. /\ inspector' = [inspector EXCEPT !.plan = Sooner(inspector.plan)]
      /\ request' = [request EXCEPT !.result.plan = Sooner(request.result.plan)]
      /\ UNCHANGED <<graphRequest, viewVars>>
  BY DEF Tick
<1>2. /\ request \in Requests /\ graphRequest \in Requests /\ inspector \in Inspectors
      /\ inspector.plan \in Plans
  BY ViewTypes DEF Inspectors
<1>3. /\ inspector' \in Inspectors /\ inspector' = [inspector EXCEPT !.plan = inspector'.plan]
      /\ inspector'.plan.revision = inspector.plan.revision
  BY <1>1, <1>2, PlansType DEF Inspectors
<1>4. request.result \in Results /\ request.result.plan \in Plans
  BY <1>2 DEF Requests, Results
<1>5. request' = [request EXCEPT !.result = [request.result EXCEPT !.plan = Sooner(@)]]
  BY <1>1, <1>2, <1>4 DEF Requests, Results
<1>6. [request.result EXCEPT !.plan = Sooner(@)] \in Results
  BY <1>4, PlansType DEF Results
<1>7. request' \in Requests /\ request'.scope = request.scope /\ request'.phase = request.phase
      /\ request'.generation = request.generation
  BY <1>2, <1>5, <1>6 DEF Requests
<1>8. request' = NoRead <=> request = NoRead
  <2>1. ASSUME request = NoRead PROVE request' = NoRead
    <3>1. request.result.plan = NoPlan /\ Sooner(NoPlan) = NoPlan
      BY <2>1 DEF NoRead, Refused, NoPlan, Sooner
    <3>2. request' = request
      BY <1>1, <1>2, <1>4, <3>1 DEF Requests, Results
    <3>3. QED
      BY <2>1, <3>2
  <2>2. ASSUME request' = NoRead PROVE request = NoRead
    <3>1. request.result.plan \in Plans /\ Sooner(request.result.plan) = NoPlan
      BY <1>4, <1>5, <1>6, <1>2, <2>2 DEF Requests, Results, NoRead, Refused
    <3>2. request.result.plan = NoPlan
      BY <3>1, BoundsAssumption DEF Plans, Sooner, NoPlan
    <3>3. request' = request
      BY <1>1, <1>2, <1>4, <3>1, <3>2 DEF Requests, Results
    <3>4. QED
      BY <2>2, <3>3
  <2>3. QED
    BY <2>1, <2>2
<1>9. SameRead(request, request') /\ SameRead(graphRequest, graphRequest') /\ graphRequest' \in Requests
  BY <1>1, <1>2, <1>7, <1>8 DEF SameRead
<1>10. QED
  BY <1>1, <1>3, <1>7, <1>9, BesidesKeeps
-----------------------------------------------------------------------------
(***************************************************************************)
(* Drawing.                                                                *)
(***************************************************************************)
\* What is drawn was held, and its plan is the accepted one and not expired.
LEMMA FrameShows ==
  ASSUME ViewInv, Draw
  PROVE  /\ shown'.what # "nothing" => open /\ HasContent
         /\ shown'.what \in {"list", "map"} => shown'.at < shown'.steps
         /\ shown'.plan.revision # 0 =>
              /\ inspector.plan.left > 0
              /\ shown'.plan.revision = inspector.previous
         /\ shown'.plan \in Plans
         /\ shown' \in [what : {"nothing", "summary", "list", "map"}, plan : Plans,
                        steps : 0..Steps, at : 0..Steps]
<1> DEFINE Types == [what : {"nothing", "summary", "list", "map"}, plan : Plans,
                     steps : 0..Steps, at : 0..Steps]
<1>1. PICK fits \in BOOLEAN : shown' = Frame(fits)
  BY DEF Draw
<1>2. NoPlan \in Plans /\ NoPlan.revision = 0 /\ NoPlan.left = 0
  BY PlansType
<1>3. Steps \in Nat /\ NoStep \in 0..Steps /\ 0 \in 0..Steps
  BY BoundsAssumption DEF NoStep
<1>4. CASE shown' = Nothing
  BY <1>2, <1>3, <1>4 DEF Nothing
<1>5. CASE open /\ graphMode /\ graph # 0
  <2>1. shown' = [what |-> IF MapVisible(fits) THEN "map" ELSE "list", plan |-> NoPlan,
                  steps |-> graph, at |-> IF selected = NoStep THEN 0 ELSE selected]
    BY <1>1, <1>5 DEF Frame
  <2>2. graph \in 0..Steps /\ selected \in 0..Steps
    BY ViewTypes
  <2>3. selected < graph
    BY <1>5 DEF ViewInv, Held, Selecting
  <2>4. shown'.at < shown'.steps /\ shown' \in Types
    BY <1>2, <1>3, <1>5, <2>1, <2>2, <2>3
  <2>5. shown'.plan = NoPlan
    BY <2>1
  <2>6. QED
    BY <1>2, <1>5, <2>4, <2>5 DEF HasContent
<1>6. CASE open /\ ~graphMode /\ inspector.projection
  <2>1. shown' = [what |-> "summary", plan |-> inspector'.plan, steps |-> 0, at |-> NoStep]
    BY <1>1, <1>6 DEF Frame
  <2>2. inspector' = IF inspector.plan.left = 0 THEN [inspector EXCEPT !.plan = NoPlan]
                                                ELSE inspector
    BY <1>6 DEF Draw, Expired
  <2>3. inspector.plan \in Plans /\ inspector.plan.left \in Nat
    BY ViewTypes, PlansType, BoundsAssumption DEF Inspectors
  <2>4. inspector'.plan = IF inspector.plan.left = 0 THEN NoPlan ELSE inspector.plan
    BY <2>2, ViewTypes DEF Inspectors
  <2>5. shown' \in Types /\ shown'.plan = inspector'.plan /\ shown'.what = "summary"
    BY <1>2, <1>3, <2>1, <2>3, <2>4
  <2>6. inspector.plan.revision # 0 => inspector.plan.revision = inspector.previous
    BY DEF ViewInv, Held, Ordered
  <2>7. QED
    BY <1>2, <1>6, <2>3, <2>4, <2>5, <2>6 DEF HasContent
<1>7. QED
  BY <1>1, <1>4, <1>5, <1>6 DEF Frame

LEMMA DrawKeeps == ViewInv /\ Draw => ViewInv'
<1> SUFFICES ASSUME ViewInv, Draw PROVE ViewInv'
  OBVIOUS
<1>1. /\ turn' = "select"
      /\ inspector' = IF open /\ ~graphMode THEN Expired(inspector) ELSE inspector
      /\ top' = Higher(top, shown'.plan.revision)
      /\ topEver' = Higher(topEver, shown'.plan.revision)
      /\ UNCHANGED <<bound, binding, reads, modes, graph, selected, accepted, asked>>
  BY DEF Draw
<1>2. /\ inspector' \in Inspectors /\ inspector'.run = inspector.run
      /\ inspector'.projection = inspector.projection
      /\ inspector'.previous = inspector.previous
      /\ inspector'.plan.revision \in {0, inspector.plan.revision}
  BY <1>1, ViewTypes, PlansType DEF Inspectors, Expired
<1>3. shown'.plan.revision \in 0..Revisions /\ inspector.previous \in 0..Revisions
  BY FrameShows, PlansType, ViewTypes DEF Inspectors
<1>4. /\ top' \in 0..Revisions /\ topEver' \in 0..Revisions
      /\ top' <= inspector.previous
      /\ shown'.plan.revision # 0 => shown'.plan.revision >= top'
  <2>1. top \in 0..Revisions /\ topEver \in 0..Revisions /\ top <= inspector.previous
    BY DEF ViewInv, InspectorTypeOK, Held, Ordered
  <2>2. shown'.plan.revision # 0 => shown'.plan.revision = inspector.previous
    BY FrameShows
  <2>3. QED
    BY <1>1, <1>3, <2>1, <2>2, BoundsAssumption DEF Higher
<1>5. HasContent' = HasContent /\ Pending' = Pending /\ Readable' = Readable
  BY <1>1, <1>2 DEF HasContent, Pending, Readable, RunOf, reads
<1>6. Belongs' /\ Wanted' /\ Ordered' /\ Selecting'
  BY <1>1, <1>2, <1>4, <1>5 DEF ViewInv, Held, Belongs, Wanted, Ordered, Selecting, RunOf
<1>7. OneRead'
  BY <1>1 DEF ViewInv, Held, OneRead, InScope, reads, modes
<1>8. shown'.what # "nothing" => open /\ asked /\ ~Pending /\ Readable
  BY FrameShows DEF ViewInv, Held, Wanted
<1>9. OnlyWhatWasAsked'
  BY <1>1, <1>5, <1>8 DEF OnlyWhatWasAsked
<1>10. ProtectedDataIsBound'
  <2>1. Readable => accepted /\ binding # None /\ binding = bound /\ bound.run # NoRun
    BY DEF Readable, RunOf, ViewInv, Held, Belongs
  <2>2. QED
    BY <1>1, <1>8, <2>1 DEF ProtectedDataIsBound, modes
<1>11. SelectionIsAStep' /\ RevisionsAdvance'
  BY <1>4, FrameShows DEF SelectionIsAStep, RevisionsAdvance
<1>12. InspectorTypeOK'
  BY <1>1, <1>2, <1>4, FrameShows DEF ViewInv, InspectorTypeOK, Inspectors, reads, modes
<1>13. QED
  BY <1>6, <1>7, <1>9, <1>10, <1>11, <1>12 DEF ViewInv, Held
-----------------------------------------------------------------------------
(***************************************************************************)
(* The invariant, and what follows.                                        *)
(***************************************************************************)
LEMMA InitHolds == Init => ViewInv
<1> SUFFICES ASSUME Init PROVE ViewInv
  OBVIOUS
<1>1. /\ inspector \in Inspectors /\ inspector.run = NoRun /\ inspector.previous = 0
      /\ inspector.projection = FALSE /\ inspector.plan.revision = 0
  BY NewInspectorType DEF Init
<1>2. NoRead \in Requests /\ Nothing.plan \in Plans /\ Nothing.what = "nothing"
  BY ReadsType, PlansType DEF Nothing
<1>3. Nothing \in [what : {"nothing", "summary", "list", "map"}, plan : Plans,
                   steps : 0..Steps, at : 0..Steps]
  BY <1>2, BoundsAssumption DEF Nothing, NoStep
<1>4. /\ 0 \in 0..(Generations - 1) /\ 0 \in 0..Steps /\ NoStep \in 0..Steps
      /\ 0 \in 0..Revisions /\ None \in Bindings
  BY BoundsAssumption DEF NoStep, Bindings
<1>5. InspectorTypeOK
  BY <1>1, <1>2, <1>3, <1>4 DEF Init, InspectorTypeOK, Inspectors
<1>6. Belongs
  <2>1. accepted = FALSE /\ (binding # None) = FALSE
    BY DEF Init
  <2>2. QED
    BY <1>1, <2>1 DEF Init, Belongs, RunOf
<1>7. Wanted /\ OneRead /\ Ordered /\ Selecting
  BY <1>1 DEF Init, Wanted, OneRead, Ordered, Selecting, HasContent, Pending
<1>8. OnlyWhatWasAsked /\ SelectionIsAStep /\ RevisionsAdvance /\ ProtectedDataIsBound
  BY <1>2 DEF Init, OnlyWhatWasAsked, SelectionIsAStep, RevisionsAdvance, ProtectedDataIsBound,
              Drawn
<1>9. QED
  BY <1>5, <1>6, <1>7, <1>8 DEF ViewInv, Held

LEMMA StutterKeeps == ViewInv /\ UNCHANGED vars => ViewInv'
  BY DEF ViewInv, InspectorTypeOK, Held, Belongs, Wanted, OneRead, Ordered, Selecting,
         HasContent, Pending, Readable, RunOf, InScope, OnlyWhatWasAsked, SelectionIsAStep,
         RevisionsAdvance, ProtectedDataIsBound, Drawn, vars, content, reads, modes, history

LEMMA StepKeeps == ViewInv /\ [Next]_vars => ViewInv'
  BY AnswerKeeps, TickKeeps, DrawKeeps, TaskReadKeeps, KeyOpenKeeps, KeyRefreshKeeps,
     KeyGraphKeeps, OtherKeysKeep, KeySelectKeeps, KeyCancelKeeps, CompleteGraphKeeps,
     CompleteSummaryKeeps, StutterKeeps DEF Next, Keys

LEMMA Invariance == Spec => []ViewInv
<1>1. QED
  BY InitHolds, StepKeeps, PTL DEF Spec

\* Whatever keys, answers and task reads come, and in whatever order: frames
\* show only what was asked for and answered, one read is in flight and in
\* scope, the marked step is a step of the drawn graph, and no drawn revision
\* of the plan is older than one drawn before.
THEOREM InspectorIsConsistent == Spec => []InspectorInvariant
<1>1. ViewInv => InspectorInvariant
  BY DEF ViewInv, Held, InspectorInvariant
<1>2. QED
  BY <1>1, Invariance, PTL

\* Protected data is on screen only over the bound task and its run.
THEOREM ProtectedDataStaysBound == Spec => []ProtectedDataIsBound
<1>1. ViewInv => ProtectedDataIsBound
  BY DEF ViewInv
<1>2. QED
  BY <1>1, Invariance, PTL

\* No frame shows a plan past its deadline.
THEOREM PlansAreFresh == Spec => PlanIsFresh
<1>1. ViewInv /\ [Next]_vars => [Draw => (shown'.plan.revision # 0 => inspector.plan.left > 0)]_vars
  BY FrameShows
<1>2. QED
  BY <1>1, Invariance, PTL DEF Spec, PlanIsFresh
=============================================================================
