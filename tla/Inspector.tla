------------------------------ MODULE Inspector ------------------------------
(***************************************************************************)
(* The run inspector of the task view: native/tuig/src/inspector_view.rs   *)
(* with the presentation boundary run_inspector.rs and the reads of        *)
(* run_inspector_client.rs and execution_graph.rs.                         *)
(*                                                                         *)
(* The view follows the task reads of the main loop.  It shows protected   *)
(* data: the summary of the bound run with its current plan, or the        *)
(* execution graph, each from one asynchronous read.  Every turn of the    *)
(* main loop draws and then handles one event; a plan expires meanwhile.   *)
(* A plan is its revision (0: none) and the time it has left; a graph is   *)
(* its number of steps (0: none).                                          *)
(***************************************************************************)
EXTENDS Naturals, TaskCorrelation

CONSTANTS Revisions,     \* bound: plan revisions are 1..Revisions
          Validity,      \* bound: a plan is valid for at most so many ticks
          Steps,         \* MAX_NODES, 64 in the code
          Generations    \* values of `generation`, 2^64 in the code

ASSUME BoundsAssumption ==
  /\ Revisions \in Nat /\ Validity \in Nat
  /\ Steps \in Nat \ {0} /\ Generations \in Nat \ {0}

VARIABLES
  turn,           \* the main loop is about to "draw" or to "select" an event
  bound,          \* the binding of the main loop
  binding,        \* binding
  inspector,      \* the RunInspector: run, projection, plan and comparison token
  request,        \* request: the read of the summary
  graphRequest,   \* graph_request, with its scope
  generation,     \* generation
  graphMode,      \* graph_mode
  graph,          \* graph and, laid out, spatial
  selected,       \* selected_step
  spatialMode,    \* spatial_mode
  open,           \* open
  search,         \* search.is_some()
  shown,          \* what the last frame shows of the protected data
  accepted,       \* history: the last task read was accepted
  asked,          \* history: the user asked for what may be shown now
  top,            \* history: highest revision drawn since the run was selected
  topEver         \* history: highest revision ever drawn

content == <<inspector, graph, selected>>
reads   == <<request, graphRequest, generation>>
modes   == <<graphMode, spatialMode, open, search>>
history == <<accepted, asked, top, topEver>>
vars == <<turn, bound, binding, content, reads, modes, shown, history>>

NoStep  == Steps
NoPlan  == [revision |-> 0, left |-> 0]
Plans   == [revision : 1..Revisions, left : 0..Validity] \cup {NoPlan}

Refused      == [ok |-> FALSE, plan |-> NoPlan, steps |-> 0]
Read(plan)   == [ok |-> TRUE, plan |-> plan, steps |-> 0]
Graph(steps) == [ok |-> TRUE, plan |-> NoPlan, steps |-> steps]
Results      == [ok : BOOLEAN, plan : Plans, steps : 0..Steps]

NoRead == [phase |-> "none", scope |-> None, generation |-> 0, result |-> Refused]
Spawned(gen) ==
  [phase |-> "reading", scope |-> binding, generation |-> gen, result |-> Refused]

Nothing == [what |-> "nothing", plan |-> NoPlan, steps |-> 0, at |-> NoStep]

NewInspector(run) ==
  [run |-> run, projection |-> FALSE, plan |-> NoPlan, previous |-> 0]

RunOf(b) == IF b = None THEN NoRun ELSE b.run

Pending == request # NoRead \/ graphRequest # NoRead

Init ==
  /\ turn = "draw"
  /\ bound = None /\ binding = None
  /\ inspector = NewInspector(NoRun)
  /\ request = NoRead /\ graphRequest = NoRead /\ generation = 0
  /\ graphMode = FALSE /\ spatialMode = FALSE /\ open = FALSE /\ search = FALSE
  /\ graph = 0 /\ selected = NoStep
  /\ shown = Nothing
  /\ accepted = FALSE /\ asked = FALSE /\ top = 0 /\ topEver = 0
-----------------------------------------------------------------------------
(***************************************************************************)
(* RunInspector.                                                           *)
(***************************************************************************)
\* RunInspector::accept of a refusal: the comparison token alone is kept.
Cleared(ri) == [ri EXCEPT !.projection = FALSE, !.plan = NoPlan]

\* SnapshotValidity::validate and the deadline check of accept.
PlanAccepted(ri, plan) ==
  plan.revision # 0 /\ plan.left > 0 /\ plan.revision >= ri.previous

\* RunInspector::accept_read
AcceptRead(ri, run, result) ==
  CASE ~result.ok \/ run # ri.run -> Cleared(ri)
    [] result.ok /\ run = ri.run /\ ~PlanAccepted(ri, result.plan) ->
         [ri EXCEPT !.projection = TRUE, !.plan = NoPlan]
    [] OTHER ->
         [ri EXCEPT !.projection = TRUE, !.plan = result.plan,
                    !.previous = result.plan.revision]

\* Mutant: a plan that is on display stays there.
ExpiredNever(ri) == ri

\* RunInspector::text: drawing drops a plan whose deadline has passed.
Expired(ri) == IF ri.plan.left = 0 THEN [ri EXCEPT !.plan = NoPlan] ELSE ri
-----------------------------------------------------------------------------
(***************************************************************************)
(* Arbora and the clock.                                                   *)
(***************************************************************************)
viewVars == <<turn, bound, binding, generation, graph, selected, modes, shown, history>>

\* get_run and get_execution_graph end: refused or unavailable; a summary, or
\* the current plan alone, still valid when it is decoded; or a valid graph.
Answer ==
  \/ /\ request.phase = "reading"
     /\ \E result \in {Refused, Read(NoPlan)}
                 \cup {Read(plan) : plan \in [revision : 1..Revisions, left : 1..Validity]} :
          request' = [request EXCEPT !.phase = "done", !.result = result]
     /\ UNCHANGED <<graphRequest, inspector, viewVars>>
  \/ /\ graphRequest.phase = "reading"
     /\ \E result \in {Refused} \cup {Graph(steps) : steps \in 1..Steps} :
          graphRequest' = [graphRequest EXCEPT !.phase = "done", !.result = result]
     /\ UNCHANGED <<request, inspector, viewVars>>

Sooner(plan) == [plan EXCEPT !.left = IF @ = 0 THEN 0 ELSE @ - 1]

\* Time passes for the accepted plan and for the one that is waiting.
Tick ==
  /\ inspector.plan.left > 0 \/ request.result.plan.left > 0
  /\ inspector' = [inspector EXCEPT !.plan = Sooner(@)]
  /\ request' = [request EXCEPT !.result.plan = Sooner(@)]
  /\ UNCHANGED <<graphRequest, viewVars>>
-----------------------------------------------------------------------------
(***************************************************************************)
(* Drawing, the first step of every turn of the loop.                      *)
(***************************************************************************)
\* The map needs a graph, its layout and 72x20 cells, and no search.
MapVisible(fits) == spatialMode /\ graphMode /\ graph # 0 /\ ~search /\ fits

Frame(fits) ==
  CASE ~open     -> Nothing
    [] open /\ graphMode /\ graph # 0 ->
         [what |-> IF MapVisible(fits) THEN "map" ELSE "list",
          plan |-> NoPlan, steps |-> graph,
          at |-> IF selected = NoStep THEN 0 ELSE selected]
    [] open /\ ~graphMode /\ inspector.projection ->
         [what |-> "summary", plan |-> inspector'.plan, steps |-> 0, at |-> NoStep]
    [] OTHER     -> Nothing

Higher(a, b) == IF a >= b THEN a ELSE b

Draw ==
  /\ turn = "draw"
  /\ turn' = "select"
  /\ inspector' = IF open /\ ~graphMode THEN Expired(inspector) ELSE inspector
  /\ \E fits \in BOOLEAN : shown' = Frame(fits)
  /\ top' = Higher(top, shown'.plan.revision)
  /\ topEver' = Higher(topEver, shown'.plan.revision)
  /\ UNCHANGED <<bound, binding, reads, modes, graph, selected, accepted, asked>>
-----------------------------------------------------------------------------
(***************************************************************************)
(* Events.  Each is handled by one turn of the loop.                       *)
(***************************************************************************)
Event == turn = "select" /\ turn' = "draw" /\ UNCHANGED <<shown, topEver>>

\* Mutants: the old content stays while a new read is under way; the token
\* goes with the plan.
ClearReadKeepsContent == UNCHANGED content
ClearReadForgets ==
  /\ graph' = 0 /\ selected' = NoStep
  /\ inspector' = NewInspector(inspector.run)

ClearRead ==
  /\ graph' = 0 /\ selected' = NoStep
  /\ inspector' = Cleared(inspector)

Successor == (generation + 1) % Generations

\* Mutant: abort leaves the read of the summary alone.
AbortReadsGraphOnly == graphRequest' = NoRead /\ generation' = Successor /\ UNCHANGED request

AbortReads == graphRequest' = NoRead /\ request' = NoRead /\ generation' = Successor

Abort == AbortReads /\ ClearRead

\* refresh: the graph is read again at once; a summary that is being read is
\* waited for, and a new one hides the old content.  Without a run there is
\* nothing to read.
RefreshGraph(gen) ==
  /\ generation' = gen
  /\ request' = NoRead
  /\ graphRequest' = IF RunOf(binding) = NoRun THEN NoRead ELSE Spawned(gen)
  /\ ClearRead

Readable == RunOf(binding) # NoRun

ReadSummary ==
  /\ request' = Spawned(generation)
  /\ graphRequest' = NoRead
  /\ ClearRead

MayReadSummary == Readable /\ ~Pending

Refresh ==
  IF graphMode
  THEN RefreshGraph(Successor)
  ELSE IF MayReadSummary
       THEN ReadSummary /\ UNCHANGED generation
       ELSE UNCHANGED <<content, reads>>

\* Mutant: a refused task read leaves the view as it is.
TaskUpdatedIfBound(next) ==
  IF next \notin {None, binding}
  THEN /\ AbortReads
       /\ binding' = next /\ graph' = 0 /\ selected' = NoStep
       /\ inspector' = NewInspector(RunOf(next)) /\ search' = FALSE
       /\ asked' = FALSE /\ top' = 0
  ELSE UNCHANGED <<binding, content, reads, search, asked, top>>

\* task_updated: a refused task read, and the first accepted one after it,
\* empty the view and start another RunInspector.
TaskUpdated(next) ==
  IF next # binding \/ next = None
  THEN /\ AbortReads
       /\ binding' = next /\ graph' = 0 /\ selected' = NoStep
       /\ inspector' = NewInspector(RunOf(next)) /\ search' = FALSE
       /\ asked' = FALSE /\ top' = 0
  ELSE UNCHANGED <<binding, content, reads, search, asked, top>>

\* A task read of the main loop was accepted or refused.
TaskRead ==
  /\ Event
  /\ \/ bound = None /\ bound' \in Correlation /\ TaskUpdated(bound') /\ accepted' = TRUE
     \/ bound # None /\ UNCHANGED bound /\ TaskUpdated(bound) /\ accepted' = TRUE
     \/ UNCHANGED bound /\ TaskUpdated(None) /\ accepted' = FALSE
  /\ UNCHANGED <<graphMode, spatialMode, open>>

\* i in the task view, r or i in the inspector.
KeyOpen ==
  /\ Event /\ ~open
  /\ open' = TRUE
  /\ Refresh
  /\ asked' = TRUE
  /\ UNCHANGED <<accepted, bound, binding, graphMode, spatialMode, search, top>>

KeyRefresh ==
  /\ Event /\ open /\ ~search
  /\ Refresh
  /\ asked' = TRUE
  /\ UNCHANGED <<accepted, bound, binding, modes, top>>

\* g: abort, switch between summary and graph, and read the other one.
KeyGraph ==
  /\ Event /\ open /\ ~search
  /\ graphMode' = ~graphMode
  /\ IF graphMode
     THEN /\ generation' = Successor /\ graphRequest' = NoRead /\ ClearRead
          /\ request' = IF Readable THEN Spawned(Successor) ELSE NoRead
     ELSE RefreshGraph((generation + 2) % Generations)
  /\ asked' = TRUE
  /\ UNCHANGED <<accepted, bound, binding, spatialMode, open, search, top>>

KeyMap ==
  /\ Event /\ open /\ ~search /\ graphMode
  /\ spatialMode' = ~spatialMode
  /\ UNCHANGED <<accepted, bound, binding, content, reads, graphMode, open, search, asked, top>>

\* Mutant: the selection does not wrap.
NextStepUnbounded(step) == selected + step

NextStep(step) == (selected + step) % graph

\* Tab and Shift+Tab
KeySelect ==
  /\ Event /\ open /\ ~search /\ graphMode /\ graph # 0
  /\ \E step \in {1, graph - 1} : selected' = NextStep(step)
  /\ UNCHANGED <<accepted, bound, binding, inspector, graph, reads, modes, asked, top>>

\* c: cancel the local read.
KeyCancel ==
  /\ Event /\ open /\ ~search
  /\ Abort
  /\ asked' = FALSE
  /\ UNCHANGED <<accepted, bound, binding, modes, top>>

\* Escape
KeyClose ==
  /\ Event /\ open /\ ~search
  /\ Abort
  /\ open' = FALSE /\ graphMode' = FALSE /\ spatialMode' = FALSE /\ search' = FALSE
  /\ asked' = FALSE
  /\ UNCHANGED <<accepted, bound, binding, top>>

\* Ctrl+F opens the search, which takes every key until Escape.
KeySearch ==
  /\ Event /\ open
  /\ search' = ~search
  /\ UNCHANGED <<accepted, bound, binding, content, reads, graphMode, spatialMode, open, asked, top>>

\* The redraw tick, a mouse event, or a key that changes nothing here.
Redraw ==
  /\ Event
  /\ UNCHANGED <<accepted, bound, binding, content, reads, modes, asked, top>>

\* The scope of a graph read against the view it comes back to.
InScope(read) == open /\ graphMode /\ read.generation = generation /\ read.scope = binding

\* complete, for the graph first.
CompleteGraph ==
  /\ Event /\ graphRequest.phase = "done"
  /\ graphRequest' = NoRead
  /\ LET result == graphRequest.result IN
       IF InScope(graphRequest) /\ result.ok
       THEN graph' = result.steps /\ selected' = 0 /\ inspector' = Cleared(inspector)
       ELSE ClearRead
  /\ UNCHANGED <<accepted, bound, binding, request, generation, modes, asked, top>>

\* Mutant: the finished handle stays in place.
CompleteSummaryKeepsHandle ==
  /\ Event /\ graphRequest = NoRead /\ request.phase = "done"
  /\ inspector' = AcceptRead(inspector, RunOf(request.scope), request.result)
  /\ UNCHANGED <<accepted, bound, binding, graph, selected, reads, modes, asked, top>>

CompleteSummary ==
  /\ Event /\ graphRequest = NoRead /\ request.phase = "done"
  /\ request' = NoRead
  /\ inspector' = AcceptRead(inspector, RunOf(request.scope), request.result)
  /\ UNCHANGED <<accepted, bound, binding, graph, selected, graphRequest, generation, modes, asked, top>>

Keys == KeyOpen \/ KeyRefresh \/ KeyGraph \/ KeyMap \/ KeySelect \/ KeyCancel \/ KeyClose
        \/ KeySearch \/ Redraw

Next == Answer \/ Tick \/ Draw \/ TaskRead \/ Keys \/ CompleteGraph \/ CompleteSummary

\* The client has timeouts, the loop draws, and select! picks among the ready
\* arms at random, so a finished read is not passed over forever.
Spec == /\ Init /\ [][Next]_vars
        /\ WF_vars(Answer) /\ WF_vars(Draw) /\ SF_vars(CompleteGraph \/ CompleteSummary)
-----------------------------------------------------------------------------
(***************************************************************************)
(* Properties.                                                             *)
(***************************************************************************)
Requests == [phase : {"none", "reading", "done"}, scope : Bindings,
             generation : 0..(Generations - 1), result : Results]

\* The type of the state.
InspectorTypeOK ==
  /\ turn \in {"draw", "select"}
  /\ bound \in Bindings /\ binding \in Bindings
  /\ inspector \in [run : Runs \cup {NoRun}, projection : BOOLEAN, plan : Plans,
                    previous : 0..Revisions]
  /\ request \in Requests /\ graphRequest \in Requests
  /\ generation \in 0..(Generations - 1)
  /\ graph \in 0..Steps /\ selected \in 0..Steps
  /\ graphMode \in BOOLEAN /\ spatialMode \in BOOLEAN
  /\ open \in BOOLEAN /\ search \in BOOLEAN
  /\ shown \in [what : {"nothing", "summary", "list", "map"}, plan : Plans,
                steps : 0..Steps, at : 0..Steps]
  /\ accepted \in BOOLEAN /\ asked \in BOOLEAN
  /\ top \in 0..Revisions /\ topEver \in 0..Revisions

Drawn == turn = "select"

\* Protected data is on screen only while the view is open over the bound task
\* and its run: the frame after a refused task read or a close is empty,
\* whatever was being read at the time.
ProtectedDataIsBound ==
  Drawn /\ shown.what # "nothing" =>
    open /\ accepted /\ binding # None /\ binding = bound /\ bound.run # NoRun

\* Protected data on screen was asked for and answered: not while a new read is
\* under way, and not after the read was cancelled, even if the answer had
\* already arrived.
OnlyWhatWasAsked == Drawn /\ shown.what # "nothing" => asked /\ ~Pending

\* One read is in flight, the one the mode asks for.  `complete` finishes a
\* graph read first: a summary beside it would wait.
OneRead ==
  /\ request # NoRead => graphRequest = NoRead /\ ~graphMode /\ request.scope = binding
  /\ graphRequest # NoRead => graphMode /\ InScope(graphRequest)

\* A frame never shows a plan past its deadline, however long the answer
\* waited and whichever view was drawn in between.
PlanIsFresh == [][Draw => (shown'.plan.revision # 0 => inspector.plan.left > 0)]_vars

\* The step a frame marks is a step of the graph in that frame: the map
\* indexes the nodes with it.
SelectionIsAStep == shown.what \in {"list", "map"} => shown.at < shown.steps

\* While one run stays selected, no frame shows an older revision of its plan
\* than an earlier frame did: refreshes, cancelled reads, closing, refusals and
\* the graph in between do not lose the comparison token.
RevisionsAdvance == Drawn /\ shown.plan.revision # 0 => shown.plan.revision >= top

\* What no frame and no key may upset, in whatever order answers, keys and
\* task reads come.
InspectorInvariant == InspectorTypeOK /\ OnlyWhatWasAsked /\ OneRead /\ SelectionIsAStep
                        /\ RevisionsAdvance

\* What requirement R010.4 asks for: a regressing plan reveals no items, also
\* after a task read was refused.
RegressionStaysHidden ==
  Drawn /\ shown.plan.revision # 0 => shown.plan.revision >= topEver

\* A summary being read comes to an end: it is shown, refused or aborted.
SummaryReadsEnd == request # NoRead ~> request = NoRead
=============================================================================
