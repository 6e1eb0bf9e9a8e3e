--------------------------- MODULE TaskLoopProofs ---------------------------
(***************************************************************************)
(* Proofs about TaskLoop, for every set of contexts and runs.              *)
(***************************************************************************)
EXTENDS TaskLoop, TLAPS

\* A result that is accepted carries a correlation, and its state is a state.
LEMMA AcceptedIsTyped ==
  ASSUME NEW result \in Results, Accepted(result)
  PROVE  result.corr \in Correlation /\ result.state \in TaskStates
BY DEF Results, Snapshots, Card, Refused, Cancelled, Accepted

LEMMA StatusIsTyped ==
  ASSUME NEW result \in Results
  PROVE  StatusOf(result) \in Messages \cup TaskStates
BY AcceptedIsTyped DEF StatusOf, Messages, Results, Snapshots, Card, Refused, Cancelled

LEMMA BindIsTyped ==
  ASSUME NEW result \in Results, binding \in Bindings, Bind(result)
  PROVE  binding' \in Bindings
BY AcceptedIsTyped DEF Bind, Bindings

LEMMA RequestCompletedIsTyped ==
  ASSUME TypeOK, NEW result \in Results, NEW c \in BOOLEAN, RequestCompleted(result, c)
  PROVE  cancellation' \in Cancellation /\ status' \in Messages \cup TaskStates
         /\ binding' \in Bindings
BY StatusIsTyped, BindIsTyped DEF TypeOK, RequestCompleted, Cancellation, Messages

LEMMA SubmissionCompletedIsTyped ==
  ASSUME TypeOK, NEW result \in Results, SubmissionCompleted(result)
  PROVE  /\ cancellation' \in Cancellation /\ status' \in Messages \cup TaskStates
         /\ binding' \in Bindings
         /\ taskSelected' \in BOOLEAN /\ submissionUnknown' \in BOOLEAN
         /\ submitting' \in BOOLEAN
BY RequestCompletedIsTyped DEF TypeOK, SubmissionCompleted, SubmissionFlags,
   Cancellation, Messages, Bindings

\* What the client hands to the loop, and what awaiting an aborted handle gives.
LEMMA ClientResultIsTyped ==
  ASSUME TypeOK, NEW reply \in Snapshots \cup {Card},
         reply = Card <=> request.kind = "discover"
  PROVE  ClientResult(reply) \in Results
<1>1. request.kind \in {"refresh", "cancel"} => request.target \in Correlation
  BY DEF TypeOK, Requests, Bindings
<1>2. reply \in Results /\ Refused \in Results
  BY DEF Results
<1>3. CASE request.kind \in {"refresh", "cancel"}
  <2>1. reply \in Snapshots
    BY <1>3
  <2>2. Snapshot(request.target, reply.state) \in Results
    BY <1>1, <1>3, <2>1 DEF Snapshot, Snapshots, Results
  <2> QED
    BY <1>2, <1>3, <2>2 DEF ClientResult
<1>4. CASE request.kind \notin {"refresh", "cancel"}
  BY <1>2, <1>4 DEF ClientResult
<1> QED
  BY <1>3, <1>4

LEMMA AbortedResultIsTyped ==
  ASSUME TypeOK
  PROVE  request.result \in Results /\ AbortedResult \in Results
BY DEF TypeOK, Requests, AbortedResult, Results

\* Drawing writes one of the six frames.
LEMMA DrawIsTyped ==
  ASSUME TypeOK, overlay' \in {"none", "logs", "inspector"}, Draw
  PROVE  /\ frame' \in {"composer", "confirm", "cramped", "task", "logs", "inspector"}
         /\ fits' = fits /\ mode' = mode
BY DEF Draw, TypeOK

\* A request just spawned is a request.
LEMMA SpawnedIsTyped ==
  ASSUME NEW kind \in Kinds, NEW target \in Bindings,
         kind \in {"refresh", "cancel"} => target # None
  PROVE  Spawned(kind, target) \in Requests
BY DEF Spawned, Requests, Results, Refused, Phases

LEMMA ReadIsTyped ==
  ASSUME TypeOK, StartRead
  PROVE  /\ request' \in Requests /\ pending' \in BOOLEAN /\ remoteCancel' \in BOOLEAN
         /\ cancellation' \in Cancellation
BY SpawnedIsTyped DEF StartRead, ReadKind, ReadStarted, TypeOK, Kinds, Reads, Cancellation

LEMMA HandleTakenIsTyped ==
  ASSUME TypeOK, HandleTaken
  PROVE  request' \in Requests /\ pending' \in BOOLEAN
BY DEF HandleTaken, TypeOK, Requests, Phases

\* Each group of variables left alone keeps its type.
LEMMA InitTypeOK == Init => TypeOK
<1> SUFFICES ASSUME Init PROVE TypeOK
  OBVIOUS
<1>1. request \in Requests
  BY SpawnedIsTyped DEF Init, InitialKind, Kinds, Reads, Bindings, Modes
<1>2. task \in [corr : Correlation, state : TaskStates \cup {"absent"}]
  BY DEF Init
<1>3. /\ composer \in BOOLEAN /\ canCompose \in BOOLEAN /\ submitting \in BOOLEAN
      /\ taskSelected \in BOOLEAN /\ automatic \in BOOLEAN /\ observing \in BOOLEAN
  BY DEF Init, Observe
<1>4. /\ frame \in {"composer", "confirm", "cramped", "task", "logs", "inspector"}
      /\ deadline \in {"none", "armed", "passed"} /\ sends \in Nat
  BY DEF Init
<1>5. /\ cancellation \in Cancellation /\ status \in Messages \cup TaskStates
      /\ binding \in Bindings /\ viewBinding \in Bindings
  BY DEF Init, Cancellation, Messages, Bindings
<1> QED
  BY <1>1, <1>2, <1>3, <1>4, <1>5 DEF Init, TypeOK

LEMMA EnvironmentTypeOK == TypeOK /\ Environment => TypeOK'
<1> SUFFICES ASSUME TypeOK, Environment PROVE TypeOK'
  OBVIOUS
<1>1. CASE Serve
  <2>1. PICK after \in Afterwards, reply \in Snapshots \cup {Card} :
          /\ reply = Card <=> request.kind = "discover"
          /\ task' = [task EXCEPT !.state = after]
          /\ request' = [request EXCEPT !.phase = "served", !.result = ClientResult(reply)]
    BY <1>1 DEF Serve
  <2>2. request' \in Requests
    BY <2>1, ClientResultIsTyped DEF TypeOK, Requests, Phases
  <2>3. task' \in [corr : Correlation, state : TaskStates \cup {"absent"}]
    BY <2>1 DEF TypeOK, Afterwards, TaskStates, Active, Terminal
  <2>4. UNCHANGED loopVars
    BY <1>1 DEF Serve
  <2> QED
    BY <2>2, <2>3, <2>4 DEF TypeOK, loopVars, ui, screen, effects, watch, history
<1>2. CASE Deliver
  BY <1>2 DEF Deliver, TypeOK, Requests, Phases, loopVars, ui, screen, effects, watch, history
<1>3. CASE Fail
  <2>1. request' \in Requests
    BY <1>3 DEF Fail, TypeOK, Requests, Phases, Results
  <2> QED
    BY <1>3, <2>1 DEF Fail, TypeOK, loopVars, ui, screen, effects, watch, history
<1>4. CASE RemoteProgress
  BY <1>4 DEF RemoteProgress, TypeOK, loopVars, ui, screen, effects, watch, history
<1>5. CASE ClockPassesDeadline
  BY <1>5 DEF ClockPassesDeadline, TypeOK, ui, screen, effects, history
<1>6. CASE Resize
  BY <1>6 DEF Resize, TypeOK, ui, effects, watch, history
<1> QED
  BY <1>1, <1>2, <1>3, <1>4, <1>5, <1>6 DEF Environment

LEMMA CompleteTypeOK == TypeOK /\ Complete => TypeOK'
<1> SUFFICES ASSUME TypeOK, Complete PROVE TypeOK'
  OBVIOUS
<1> DEFINE result == request.result
<1>1. result \in Results
  BY AbortedResultIsTyped
<1>2. cancellation' \in Cancellation /\ status' \in Messages \cup TaskStates
      /\ binding' \in Bindings /\ taskSelected' \in BOOLEAN
      /\ submissionUnknown' \in BOOLEAN /\ submitting' \in BOOLEAN
  BY <1>1, RequestCompletedIsTyped, SubmissionCompletedIsTyped DEF Complete, TypeOK
<1>3. observing' \in BOOLEAN /\ unreconciled' \in BOOLEAN
  BY DEF Complete, Reconcile, TypeOK, Accepted
<1>4. viewBinding' \in Bindings
  BY <1>2 DEF Complete, ViewsUpdated, Bindings
<1>5. request' \in Requests /\ pending' \in BOOLEAN
  BY HandleTakenIsTyped DEF Complete
<1>6. frame' \in {"composer", "confirm", "cramped", "task", "logs", "inspector"}
      /\ fits' = fits /\ mode' = mode
  BY DrawIsTyped DEF Complete, ui, TypeOK
<1> QED
  BY <1>2, <1>3, <1>4, <1>5, <1>6 DEF Complete, TypeOK, ui

LEMMA TickTypeOK == TypeOK /\ ObservationTick => TypeOK'
<1> SUFFICES ASSUME TypeOK, ObservationTick PROVE TypeOK'
  OBVIOUS
<1>1. frame' \in {"composer", "confirm", "cramped", "task", "logs", "inspector"}
      /\ fits' = fits /\ mode' = mode
  BY DrawIsTyped DEF ObservationTick, ui, TypeOK
<1>2. /\ request' \in Requests /\ pending' \in BOOLEAN /\ remoteCancel' \in BOOLEAN
      /\ cancellation' \in Cancellation /\ observing' \in BOOLEAN
  BY ReadIsTyped DEF ObservationTick, TypeOK
<1> QED
  BY <1>1, <1>2 DEF ObservationTick, TypeOK, ui, history
\* A key that only moves between screens leaves everything else well-typed.
LEMMA ScreenKeyTypeOK ==
  ASSUME TypeOK, mode' = mode, fits' = fits,
         frame' \in {"composer", "confirm", "cramped", "task", "logs", "inspector"},
         composer' \in BOOLEAN, canCompose' = canCompose,
         overlay' \in {"none", "logs", "inspector"},
         UNCHANGED <<request, pending, effects, binding, taskSelected, watch, status,
                     viewBinding, exited, task, history>>
  PROVE  TypeOK'
<1>1. /\ request' \in Requests
      /\ task' \in [corr : Correlation, state : TaskStates \cup {"absent"}]
      /\ status' \in Messages \cup TaskStates
  BY DEF TypeOK
<1>2. /\ pending' \in BOOLEAN /\ submitting' \in BOOLEAN /\ remoteCancel' \in BOOLEAN
      /\ submissionUnknown' \in BOOLEAN /\ cancellation' \in Cancellation
  BY DEF TypeOK, effects
<1>3. /\ binding' \in Bindings /\ viewBinding' \in Bindings /\ taskSelected' \in BOOLEAN
      /\ automatic' \in BOOLEAN /\ observing' \in BOOLEAN
      /\ deadline' \in {"none", "armed", "passed"}
  BY DEF TypeOK, watch
<1>4. exited' \in BOOLEAN /\ sends' \in Nat /\ unreconciled' \in BOOLEAN
  BY DEF TypeOK, history
<1>5. mode' \in Modes /\ canCompose' \in BOOLEAN /\ fits' \in BOOLEAN
  BY DEF TypeOK
<1> QED
  BY <1>1, <1>2, <1>3, <1>4, <1>5 DEF TypeOK

LEMMA ScreenKeysTypeOK ==
  TypeOK /\ (ComposerEscape \/ KeyP \/ OpenOverlay \/ CloseOverlay \/ Redraw) => TypeOK'
<1> SUFFICES ASSUME TypeOK, ComposerEscape \/ KeyP \/ OpenOverlay \/ CloseOverlay \/ Redraw
             PROVE  TypeOK'
  OBVIOUS
<1>1. /\ overlay' \in {"none", "logs", "inspector"} /\ composer' \in BOOLEAN
      /\ canCompose' = canCompose
  BY DEF ComposerEscape, KeyP, OpenOverlay, CloseOverlay, Redraw, ui, TypeOK
<1>2. frame' \in {"composer", "confirm", "cramped", "task", "logs", "inspector"}
      /\ fits' = fits /\ mode' = mode
  BY <1>1, DrawIsTyped DEF ComposerEscape, KeyP, OpenOverlay, CloseOverlay, Redraw
<1>3. UNCHANGED <<request, pending, effects, binding, taskSelected, watch, status,
                  viewBinding, exited, task, history>>
  BY DEF ComposerEscape, KeyP, OpenOverlay, CloseOverlay, Redraw
<1> QED
  BY <1>1, <1>2, <1>3, ScreenKeyTypeOK

LEMMA ComposerSubmitTypeOK == TypeOK /\ ComposerSubmit => TypeOK'
<1> SUFFICES ASSUME TypeOK, ComposerSubmit PROVE TypeOK'
  OBVIOUS
<1>1. frame' \in {"composer", "confirm", "cramped", "task", "logs", "inspector"}
      /\ fits' = fits /\ mode' = mode
  BY DrawIsTyped DEF ComposerSubmit, TypeOK
<1>2. request' \in Requests
  BY SpawnedIsTyped DEF ComposerSubmit, Kinds, Bindings
<1>3. status' \in Messages \cup TaskStates
  BY DEF ComposerSubmit, Messages
<1>4. /\ composer' \in BOOLEAN /\ canCompose' \in BOOLEAN /\ submitting' \in BOOLEAN
      /\ pending' \in BOOLEAN /\ automatic' \in BOOLEAN
      /\ deadline' \in {"none", "armed", "passed"}
  BY DEF ComposerSubmit, ComposerClosed
<1>5. /\ task' \in [corr : Correlation, state : TaskStates \cup {"absent"}]
      /\ binding' \in Bindings /\ viewBinding' \in Bindings /\ cancellation' \in Cancellation
  BY DEF ComposerSubmit, TypeOK
<1>6. sends' \in Nat
  BY DEF ComposerSubmit, TypeOK
<1> QED
  BY <1>1, <1>2, <1>3, <1>4, <1>5, <1>6 DEF ComposerSubmit, TypeOK

LEMMA KeyCTypeOK == TypeOK /\ KeyC => TypeOK'
<1> SUFFICES ASSUME TypeOK, KeyC PROVE TypeOK'
  OBVIOUS
<1>1. AbortedResult \in Results
  BY AbortedResultIsTyped
<1>2. cancellation' \in Cancellation /\ status' \in Messages \cup TaskStates
      /\ binding' \in Bindings /\ taskSelected' \in BOOLEAN
      /\ submissionUnknown' \in BOOLEAN /\ submitting' \in BOOLEAN
  BY <1>1, RequestCompletedIsTyped, SubmissionCompletedIsTyped
     DEF KeyC, TypeOK, Cancellation, Messages
<1>3. unreconciled' \in BOOLEAN
  BY DEF KeyC, Reconcile, TypeOK, Accepted
<1>4. request' \in Requests /\ pending' \in BOOLEAN
  BY HandleTakenIsTyped DEF KeyC
<1>5. frame' \in {"composer", "confirm", "cramped", "task", "logs", "inspector"}
      /\ fits' = fits /\ mode' = mode
  BY DrawIsTyped DEF KeyC, ui, TypeOK
<1> QED
  BY <1>2, <1>3, <1>4, <1>5 DEF KeyC, TypeOK, ui, Bindings

LEMMA DialogKeysTypeOK ==
  TypeOK /\ (KeyR \/ KeyX \/ KeyN \/ KeyY) => TypeOK'
<1> SUFFICES ASSUME TypeOK, KeyR \/ KeyX \/ KeyN \/ KeyY PROVE TypeOK'
  OBVIOUS
<1>1. frame' \in {"composer", "confirm", "cramped", "task", "logs", "inspector"}
      /\ fits' = fits /\ mode' = mode
  BY DrawIsTyped DEF KeyR, KeyX, KeyN, KeyY, ui, TypeOK
<1>2. CASE KeyR
  BY <1>1, <1>2, ReadIsTyped DEF KeyR, TypeOK, ui, watch, history, Messages
<1>3. CASE KeyX \/ KeyN
  BY <1>1, <1>3 DEF KeyX, KeyN, TypeOK, Cancellation, ui, watch, history
<1>4. CASE KeyY
  <2>1. request' \in Requests
    BY <1>4, SpawnedIsTyped DEF KeyY, TypeOK, Kinds
  <2>2. status' \in Messages \cup TaskStates /\ cancellation' \in Cancellation
    BY <1>4 DEF KeyY, Messages, TypeOK, Cancellation
  <2>3. /\ pending' \in BOOLEAN /\ remoteCancel' \in BOOLEAN /\ unreconciled' \in BOOLEAN
        /\ composer' \in BOOLEAN /\ canCompose' \in BOOLEAN
        /\ overlay' \in {"none", "logs", "inspector"}
    BY <1>4 DEF KeyY, TypeOK, ui
  <2>4. /\ task' \in [corr : Correlation, state : TaskStates \cup {"absent"}]
        /\ automatic' \in BOOLEAN /\ observing' \in BOOLEAN
        /\ deadline' \in {"none", "armed", "passed"}
    BY <1>4 DEF KeyY, TypeOK, watch
  <2> QED
    BY <1>1, <1>4, <2>1, <2>2, <2>3, <2>4 DEF KeyY, TypeOK
<1> QED
  BY <1>2, <1>3, <1>4

LEMMA QuitTypeOK == TypeOK /\ Quit => TypeOK'
<1> SUFFICES ASSUME TypeOK, Quit PROVE TypeOK'
  OBVIOUS
<1>1. cancellation' \in Cancellation /\ status' \in Messages \cup TaskStates
      /\ binding' \in Bindings /\ taskSelected' \in BOOLEAN
      /\ submissionUnknown' \in BOOLEAN /\ submitting' \in BOOLEAN
      /\ remoteCancel' \in BOOLEAN
  BY AbortedResultIsTyped, SubmissionCompletedIsTyped DEF Quit, TypeOK, effects
<1>2. request' \in Requests /\ pending' \in BOOLEAN
  BY HandleTakenIsTyped DEF Quit
<1> QED
  BY <1>1, <1>2 DEF Quit, TypeOK, ui, screen, watch, history

LEMMA NextTypeOK == TypeOK /\ [Next]_vars => TypeOK'
<1> SUFFICES ASSUME TypeOK, [Next]_vars PROVE TypeOK'
  OBVIOUS
<1>1. CASE UNCHANGED vars
  BY <1>1 DEF TypeOK, vars, ui, screen, effects, watch, history
<1> QED
  BY <1>1, EnvironmentTypeOK, CompleteTypeOK, TickTypeOK, ScreenKeysTypeOK,
     ComposerSubmitTypeOK, KeyCTypeOK, DialogKeysTypeOK, QuitTypeOK DEF Next, Keys

\* The state is well-typed in every behaviour of the loop.
THEOREM TypeCorrect == Spec => []TypeOK
<1>1. Init => TypeOK
  BY InitTypeOK
<1>2. TypeOK /\ [Next]_vars => TypeOK'
  BY NextTypeOK
<1> QED
  BY <1>1, <1>2, PTL DEF Spec
-----------------------------------------------------------------------------
(***************************************************************************)
(* The inductive invariant Phased.                                         *)
(***************************************************************************)
LEMMA InitPhased == Init => Phased
<1> SUFFICES ASSUME Init PROVE Phased
  OBVIOUS
<1>1. TypeOK
  BY InitTypeOK
<1>2. /\ request.kind = InitialKind /\ request.phase = "spawned"
      /\ request.result.kind = "refused"
  BY DEF Init, Spawned, Refused
<1>3. /\ mode = "prompt"  => submitting /\ sends = 1 /\ ~canCompose
      /\ mode # "prompt" => ~submitting /\ sends = 0
      /\ pending /\ ~submissionUnknown /\ (mode = "prompt" => ~observing)
      /\ binding = None /\ cancellation = "Unavailable"
  BY DEF Init, Observe
<1>4. HandleLive /\ AtMostOneSend /\ SubmissionAccounted
  BY <1>2, <1>3 DEF HandleLive, AtMostOneSend, SubmissionAccounted
<1>5. ComposePhase
  BY <1>2 DEF Init, ComposePhase, InitialKind, Observe
<1>6. SubmitPhase
  <2>1. request.kind = "submit" <=> mode = "prompt"
    BY <1>2 DEF InitialKind
  <2> QED
    BY <1>3, <2>1 DEF SubmitPhase
<1>7. CancelPhase
  BY <1>2 DEF Init, CancelPhase, InitialKind, Modes
<1> QED
  BY <1>1, <1>4, <1>5, <1>6, <1>7 DEF Phased

\* The environment changes the stage and the result of the request only, and
\* gives no snapshot to a discovery.
LEMMA EnvironmentOnRequest ==
  ASSUME TypeOK, Environment
  PROVE  /\ request'.kind = request.kind /\ request'.target = request.target
         /\ request'.phase = "taken" <=> request.phase = "taken"
         /\ request'.phase = "spawned" => request.phase = "spawned"
         /\ request.kind = "discover" /\ request.result.kind # "snapshot"
              => request'.result.kind # "snapshot"
<1>1. CASE Serve
  <2>1. PICK reply \in Snapshots \cup {Card} :
          /\ reply = Card <=> request.kind = "discover"
          /\ request' = [request EXCEPT !.phase = "served", !.result = ClientResult(reply)]
    BY <1>1 DEF Serve
  <2>2. request.kind = "discover" => ClientResult(reply).kind = "card"
    BY <2>1 DEF ClientResult, Card
  <2> QED
    BY <1>1, <2>1, <2>2 DEF Serve, TypeOK, Requests
<1>2. CASE Deliver
  BY <1>2 DEF Deliver, TypeOK, Requests
<1>3. CASE Fail
  BY <1>3 DEF Fail, TypeOK, Requests, Refused
<1>4. CASE RemoteProgress \/ ClockPassesDeadline \/ Resize
  BY <1>4 DEF RemoteProgress, ClockPassesDeadline, Resize
<1> QED
  BY <1>1, <1>2, <1>3, <1>4 DEF Environment

LEMMA EnvironmentPhased == Phased /\ Environment => Phased'
<1> SUFFICES ASSUME Phased, Environment PROVE Phased'
  OBVIOUS
<1>1. TypeOK'
  BY EnvironmentTypeOK DEF Phased
<1>2. /\ UNCHANGED <<mode, composer, canCompose, pending, submitting, remoteCancel,
                     submissionUnknown, cancellation, binding, taskSelected, automatic>>
      /\ UNCHANGED <<observing, status, exited, sends, unreconciled>>
  BY DEF Environment, Serve, Deliver, Fail, RemoteProgress, ClockPassesDeadline, Resize,
         loopVars, ui, effects, watch, history
<1>3. /\ request'.kind = request.kind
      /\ request'.phase = "taken" <=> request.phase = "taken"
      /\ request.kind = "discover" /\ request.result.kind # "snapshot"
           => request'.result.kind # "snapshot"
  BY EnvironmentOnRequest DEF Phased
<1>4. HandleLive' /\ AtMostOneSend' /\ SubmissionAccounted'
  BY <1>2, <1>3 DEF Phased, HandleLive, AtMostOneSend, SubmissionAccounted
<1>5. ComposePhase'
  BY <1>2, <1>3 DEF Phased, ComposePhase
<1>6. SubmitPhase'
  BY <1>2, <1>3 DEF Phased, SubmitPhase
<1>7. CancelPhase'
  BY <1>2, <1>3 DEF Phased, CancelPhase, Observe
<1> QED
  BY <1>1, <1>4, <1>5, <1>6, <1>7 DEF Phased

\* How a submission comes out: the binding is new, or the outcome is unknown.
LEMMA SubmissionOutcome ==
  ASSUME Phased, submitting, NEW result \in Results, SubmissionCompleted(result)
  PROVE  /\ ~submitting'
         /\ submissionUnknown' <=> binding' = None
         /\ binding' = None => /\ status' = "submissionUnknown"
                               /\ ~Accepted(result)
         /\ binding' # None => cancellation' \in {"Ready", "Unavailable"}
         /\ cancellation' # "Unavailable" => binding' # None /\ cancellation' = "Ready"
<1>1. binding = None /\ cancellation = "Unavailable"
  BY DEF Phased, SubmitPhase
<1>2. CASE result.kind = "snapshot"
  <2>1. Accepted(result) /\ result.corr \in Correlation /\ result.corr # None
    BY <1>1, <1>2, AcceptedIsTyped, NoneAssumption DEF Accepted
  <2> QED
    BY <1>1, <1>2, <2>1 DEF SubmissionCompleted, RequestCompleted, Bind, SubmissionFlags
<1>3. CASE result.kind # "snapshot"
  BY <1>1, <1>3 DEF SubmissionCompleted, SubmissionFlags, Accepted
<1> QED
  BY <1>2, <1>3

\* How a read or a cancellation comes out.
LEMMA RequestOutcome ==
  ASSUME Phased, ~submitting, pending, ~exited, NEW result \in Results,
         RequestCompleted(result, remoteCancel), Reconcile(result)
  PROVE  /\ cancellation' \in {"Ready", "Unavailable", "Unknown"}
         /\ cancellation' # "Unavailable" => binding' # None
         /\ cancellation' = "Unknown" => status' = "cancellationUnknown"
         /\ unreconciled' => cancellation' = "Unknown"
         /\ binding # None => binding' = binding
         /\ binding = None /\ binding' # None => Accepted(result)
<1>1. ~remoteCancel => cancellation # "Pending"
  BY DEF Phased, CancelPhase
<1>2. /\ remoteCancel => cancellation = "Pending"
      /\ cancellation # "Unavailable" => binding # None
      /\ unreconciled => cancellation \in {"Pending", "Unknown"}
  BY DEF Phased, CancelPhase
<1>3. Accepted(result) => result.corr # None
  BY AcceptedIsTyped, NoneAssumption
<1>4. CASE /\ cancellation' = "Unknown" /\ status' = "cancellationUnknown"
           /\ UNCHANGED binding
           /\ remoteCancel \/ cancellation = "Unknown"
  BY <1>2, <1>4
<1>5. CASE /\ cancellation' = IF Accepted(result) /\ result.state \in Active
                              THEN "Ready" ELSE "Unavailable"
           /\ Bind(result)
           /\ remoteCancel \/ cancellation = "Unknown" => Accepted(result)
  BY <1>1, <1>2, <1>3, <1>5 DEF Bind, Reconcile
<1> QED
  BY <1>4, <1>5 DEF RequestCompleted

\* The handle is taken: whatever it carried, its phases are over.
LEMMA TakenPhases ==
  ASSUME Phased, pending, HandleTaken, ~submitting',
         UNCHANGED <<mode, composer, canCompose, exited, sends, automatic>>
  PROVE  /\ HandleLive' /\ AtMostOneSend'
         /\ request'.kind = request.kind /\ request'.result = request.result
         /\ ~pending'
<1>1. request' = [request EXCEPT !.phase = "taken"] /\ ~pending'
  BY DEF HandleTaken
<1>2. request'.kind = request.kind /\ request'.result = request.result
  BY <1>1 DEF Phased, TypeOK, Requests
<1>3. HandleLive' /\ AtMostOneSend'
  BY <1>1 DEF Phased, HandleLive, AtMostOneSend
<1> QED
  BY <1>1, <1>2, <1>3

\* While the composer may open, an answer binds nothing.
LEMMA ComposeBindsNothing ==
  ASSUME Phased, canCompose, pending, NEW result \in {request.result, Cancelled},
         RequestCompleted(result, remoteCancel)
  PROVE  ~Accepted(result) /\ binding' = None /\ cancellation' = "Unavailable"
<1>1. /\ binding = None /\ cancellation = "Unavailable" /\ ~remoteCancel
      /\ result.kind # "snapshot"
  BY DEF Phased, ComposePhase, Cancelled
<1> QED
  BY <1>1 DEF RequestCompleted, Bind, Accepted

\* An answer that ends a submission, at the loop or at the exit.
LEMMA SubmissionPhased ==
  ASSUME Phased, TypeOK', submitting, NEW result \in Results, SubmissionCompleted(result),
         HandleTaken, Reconcile(result) \/ unreconciled' = unreconciled,
         observing' => Accepted(result) \/ observing,
         UNCHANGED <<mode, composer, canCompose, sends, automatic, remoteCancel>>
  PROVE  Phased'
<1>1. /\ sends = 1 /\ ~canCompose /\ pending /\ ~observing /\ ~unreconciled
  BY DEF Phased, SubmitPhase, CancelPhase, HandleLive
<1>2. ~unreconciled'
  BY <1>1 DEF Reconcile
<1>3. /\ ~submitting'
      /\ submissionUnknown' <=> binding' = None
      /\ binding' = None => status' = "submissionUnknown" /\ ~Accepted(result)
      /\ cancellation' # "Unavailable" => binding' # None /\ cancellation' = "Ready"
  BY SubmissionOutcome
<1>4. HandleLive' /\ AtMostOneSend' /\ ~pending'
  BY <1>1, <1>3 DEF HandleTaken, HandleLive, AtMostOneSend, Phased
<1>5. SubmissionAccounted'
  BY <1>1, <1>3, <1>4 DEF SubmissionAccounted
<1>6. ComposePhase'
  BY <1>1 DEF Phased, ComposePhase
<1>7. SubmitPhase'
  BY <1>1, <1>3, <1>4 DEF SubmitPhase
<1>8. CancelPhase'
  BY <1>2, <1>3, <1>4 DEF CancelPhase
<1> QED
  BY <1>4, <1>5, <1>6, <1>7, <1>8 DEF Phased

\* An answer that ends a read or a cancellation.
LEMMA ReadPhased ==
  ASSUME Phased, TypeOK', ~submitting, pending, ~exited,
         NEW result \in Results, result \in {request.result, Cancelled},
         RequestCompleted(result, remoteCancel), Reconcile(result), HandleTaken,
         observing' => automatic /\ Accepted(result),
         UNCHANGED <<mode, composer, canCompose, sends, automatic, remoteCancel, exited,
                     submitting, submissionUnknown, taskSelected>>
  PROVE  Phased'
<1>1. /\ cancellation' \in {"Ready", "Unavailable", "Unknown"}
      /\ cancellation' # "Unavailable" => binding' # None
      /\ cancellation' = "Unknown" => status' = "cancellationUnknown"
      /\ unreconciled' => cancellation' = "Unknown"
      /\ binding # None => binding' = binding
  BY RequestOutcome
<1>2. /\ HandleLive' /\ AtMostOneSend' /\ ~pending'
      /\ request'.kind = request.kind /\ request'.result = request.result
  BY TakenPhases
<1>3. ~submissionUnknown /\ (sends > 0 => binding # None)
  BY DEF Phased, SubmissionAccounted
<1>4. SubmissionAccounted'
  BY <1>1, <1>3 DEF SubmissionAccounted
<1>5. ComposePhase'
  <2>1. canCompose => binding' = None /\ cancellation' = "Unavailable" /\ ~observing'
    BY ComposeBindsNothing
  <2> QED
    BY <1>2, <2>1 DEF Phased, ComposePhase
<1>6. SubmitPhase'
  BY <1>2 DEF Phased, SubmitPhase
<1>7. CancelPhase'
  BY <1>1, <1>2 DEF CancelPhase
<1> QED
  BY <1>2, <1>4, <1>5, <1>6, <1>7 DEF Phased

LEMMA CompletePhased == Phased /\ Complete => Phased'
<1> SUFFICES ASSUME Phased, Complete PROVE Phased'
  OBVIOUS
<1>1. TypeOK' /\ request.result \in Results
  BY CompleteTypeOK, AbortedResultIsTyped DEF Phased
<1>2. /\ HandleTaken /\ Reconcile(request.result) /\ pending /\ ~exited
      /\ UNCHANGED <<mode, composer, canCompose, sends, automatic, remoteCancel, exited>>
      /\ observing' => automatic /\ Accepted(request.result)
  BY DEF Complete, ui, Draw, Looping
<1>3. CASE submitting
  BY <1>1, <1>2, <1>3, SubmissionPhased DEF Complete
<1>4. CASE ~submitting
  <2>1. /\ RequestCompleted(request.result, remoteCancel)
        /\ UNCHANGED <<submitting, submissionUnknown, taskSelected>>
    BY <1>4 DEF Complete
  <2> QED
    BY <1>1, <1>2, <1>4, <2>1, ReadPhased
<1> QED
  BY <1>3, <1>4

LEMMA KeyCPhased == Phased /\ KeyC => Phased'
<1> SUFFICES ASSUME Phased, KeyC PROVE Phased'
  OBVIOUS
<1>1. /\ TypeOK' /\ AbortedResult \in Results
      /\ AbortedResult \in {request.result, Cancelled}
  BY KeyCTypeOK, AbortedResultIsTyped DEF Phased, AbortedResult
<1>2. /\ HandleTaken /\ pending /\ ~exited /\ observing' = FALSE
      /\ UNCHANGED <<mode, composer, canCompose, sends, automatic, remoteCancel, exited>>
  BY DEF KeyC, ui, Draw, KeysReachTask, Looping
<1>3. CASE submitting
  BY <1>1, <1>2, <1>3, SubmissionPhased DEF KeyC
<1>4. CASE ~submitting /\ ~remoteCancel
  <2>1. /\ RequestCompleted(AbortedResult, remoteCancel) /\ Reconcile(AbortedResult)
        /\ UNCHANGED <<submitting, submissionUnknown, taskSelected>>
    BY <1>4 DEF KeyC, Phased, TypeOK
  <2> QED
    BY <1>1, <1>2, <1>4, <2>1, ReadPhased
<1>5. CASE ~submitting /\ remoteCancel
  <2>1. /\ cancellation' = "Unknown" /\ status' = "cancellationUnknown"
        /\ UNCHANGED <<binding, taskSelected, submissionUnknown, submitting, unreconciled>>
    BY <1>5 DEF KeyC
  <2>2. /\ HandleLive' /\ AtMostOneSend' /\ ~pending'
        /\ request'.kind = request.kind /\ request'.result = request.result
    BY <1>2, <1>5, <2>1, TakenPhases
  <2>3. binding # None /\ ~canCompose /\ ~submissionUnknown
    BY <1>2, <1>5 DEF Phased, CancelPhase, ComposePhase, SubmissionAccounted
  <2>4. SubmissionAccounted'
    BY <2>1, <2>3 DEF Phased, SubmissionAccounted
  <2>5. ComposePhase' /\ SubmitPhase'
    BY <1>2, <2>1, <2>2, <2>3 DEF Phased, ComposePhase, SubmitPhase
  <2>6. CancelPhase'
    BY <2>1, <2>2, <2>3 DEF CancelPhase
  <2> QED
    BY <1>1, <2>2, <2>4, <2>5, <2>6 DEF Phased
<1> QED
  BY <1>3, <1>4, <1>5

\* A read that starts with nothing in flight, by a tick or by r.
LEMMA StartReadPhased ==
  ASSUME Phased, TypeOK', ~pending, ~submitting, ~submissionUnknown, ~exited, StartRead,
         UNCHANGED <<mode, composer, canCompose, submitting, submissionUnknown, binding,
                     taskSelected, exited, sends, unreconciled>>,
         UNCHANGED <<automatic, observing>>
  PROVE  Phased'
<1>1. /\ request'.kind = ReadKind /\ request'.phase = "spawned"
      /\ request'.result.kind = "refused" /\ pending' /\ ~remoteCancel'
      /\ cancellation' = IF cancellation = "Unknown" THEN "Unknown" ELSE "Unavailable"
  BY DEF StartRead, Spawned, Refused, ReadStarted
<1>2. ReadKind \in Reads /\ (binding = None /\ ~taskSelected => ReadKind = "discover")
  BY DEF ReadKind, Reads
<1>3. cancellation # "Pending"
  BY DEF Phased, CancelPhase
<1>4. HandleLive' /\ AtMostOneSend' /\ SubmissionAccounted'
  BY <1>1 DEF Phased, HandleLive, AtMostOneSend, SubmissionAccounted
<1>5. ComposePhase'
  BY <1>1, <1>2 DEF Phased, ComposePhase
<1>6. SubmitPhase'
  BY <1>1, <1>2 DEF Phased, SubmitPhase, Reads
<1>7. CancelPhase'
  BY <1>1, <1>2, <1>3 DEF Phased, CancelPhase, Reads, Observe
<1> QED
  BY <1>4, <1>5, <1>6, <1>7 DEF Phased

LEMMA TickPhased == Phased /\ ObservationTick => Phased'
<1> SUFFICES ASSUME Phased, ObservationTick PROVE Phased'
  OBVIOUS
<1>1. TypeOK'
  BY TickTypeOK DEF Phased
<1>2. /\ observing /\ ~pending /\ cancellation # "Confirming" /\ ~exited
      /\ ~submitting /\ ~canCompose /\ ~submissionUnknown
  BY DEF ObservationTick, ObservationReady, Looping, Phased, ComposePhase, HandleLive,
         SubmissionAccounted
<1>3. UNCHANGED <<mode, composer, canCompose, submitting, submissionUnknown, binding,
                  taskSelected, automatic, status, exited, sends, unreconciled>>
  BY DEF ObservationTick, ui, Draw, history
<1>4. CASE ObservationExpired
  <2>1. /\ UNCHANGED <<request, pending, remoteCancel, cancellation>>
        /\ observing' = FALSE
    BY <1>4 DEF ObservationTick
  <2> QED
    BY <1>1, <1>2, <1>3, <2>1 DEF Phased, HandleLive, AtMostOneSend, SubmissionAccounted,
       ComposePhase, SubmitPhase, CancelPhase, Observe
<1>5. CASE ~ObservationExpired
  <2>1. StartRead /\ UNCHANGED observing
    BY <1>5 DEF ObservationTick
  <2> QED
    BY <1>1, <1>2, <1>3, <2>1, StartReadPhased
<1> QED
  BY <1>4, <1>5

LEMMA ScreenKeysPhased ==
  Phased /\ (ComposerEscape \/ KeyP \/ OpenOverlay \/ CloseOverlay \/ Redraw) => Phased'
<1> SUFFICES ASSUME Phased, ComposerEscape \/ KeyP \/ OpenOverlay \/ CloseOverlay \/ Redraw
             PROVE  Phased'
  OBVIOUS
<1>1. TypeOK'
  BY ScreenKeysTypeOK DEF Phased
<1>2. /\ UNCHANGED <<mode, canCompose, request, pending, submitting, remoteCancel,
                     submissionUnknown, cancellation, binding, taskSelected, automatic>>
      /\ UNCHANGED <<observing, status, exited, sends, unreconciled>>
  BY DEF ComposerEscape, KeyP, OpenOverlay, CloseOverlay, Redraw, ui, effects, watch,
         history, Draw
<1>3. composer' => canCompose'
  BY DEF ComposerEscape, KeyP, OpenOverlay, CloseOverlay, Redraw, ui, Phased, ComposePhase
<1>4. HandleLive' /\ AtMostOneSend' /\ SubmissionAccounted'
  BY <1>2 DEF Phased, HandleLive, AtMostOneSend, SubmissionAccounted
<1>5. ComposePhase'
  BY <1>2, <1>3 DEF Phased, ComposePhase
<1>6. SubmitPhase' /\ CancelPhase'
  BY <1>2 DEF Phased, SubmitPhase, CancelPhase, Observe
<1> QED
  BY <1>1, <1>4, <1>5, <1>6 DEF Phased

LEMMA ComposerSubmitPhased == Phased /\ ComposerSubmit => Phased'
<1> SUFFICES ASSUME Phased, ComposerSubmit PROVE Phased'
  OBVIOUS
<1>1. TypeOK'
  BY ComposerSubmitTypeOK DEF Phased
<1>2. /\ sends = 0 /\ ~submissionUnknown /\ ~remoteCancel /\ binding = None /\ ~observing
      /\ cancellation = "Unavailable" /\ ~unreconciled
  BY DEF ComposerSubmit, Phased, ComposePhase, CancelPhase
<1>3. /\ request'.kind = "submit" /\ request'.phase = "spawned"
      /\ ~canCompose' /\ ~composer' /\ submitting' /\ pending' /\ sends' = sends + 1
      /\ UNCHANGED <<mode, remoteCancel, submissionUnknown, cancellation, binding,
                     observing, exited, unreconciled>>
  BY DEF ComposerSubmit, ComposerClosed, Spawned, Draw
<1>4. HandleLive' /\ SubmissionAccounted'
  BY <1>2, <1>3 DEF HandleLive, SubmissionAccounted
<1>5. sends' = 1
  BY <1>2, <1>3
<1>6. AtMostOneSend' /\ ComposePhase' /\ SubmitPhase'
  BY <1>2, <1>3, <1>5 DEF AtMostOneSend, ComposePhase, SubmitPhase
<1>7. CancelPhase'
  BY <1>2, <1>3 DEF CancelPhase
<1> QED
  BY <1>1, <1>4, <1>6, <1>7 DEF Phased

LEMMA DialogKeysPhased == Phased /\ (KeyR \/ KeyX \/ KeyN \/ KeyY) => Phased'
<1> SUFFICES ASSUME Phased, KeyR \/ KeyX \/ KeyN \/ KeyY PROVE Phased'
  OBVIOUS
<1>1. TypeOK'
  BY DialogKeysTypeOK DEF Phased
<1>2. CASE KeyR
  <2>1. /\ ~pending /\ ~submissionUnknown /\ ~exited /\ StartRead
        /\ UNCHANGED <<automatic, observing>>
        /\ UNCHANGED <<mode, composer, canCompose, submitting, submissionUnknown, binding,
                       taskSelected, exited, sends, unreconciled>>
    BY <1>2 DEF KeyR, ReadAllowed, KeysReachTask, Looping, ui, watch, history, Draw
  <2>2. ~submitting
    BY <2>1 DEF Phased, HandleLive
  <2> QED
    BY <1>1, <2>1, <2>2, StartReadPhased
<1>3. CASE KeyX \/ KeyN
  <2>1. /\ UNCHANGED <<mode, composer, canCompose, request, pending, submitting,
                       remoteCancel, submissionUnknown, binding, taskSelected>>
        /\ UNCHANGED <<automatic, observing, status, exited, sends, unreconciled>>
    BY <1>3 DEF KeyX, KeyN, ui, watch, history, Draw
  <2>2. \/ cancellation = "Ready" /\ cancellation' = "Confirming" /\ ~Observe
        \/ cancellation = "Confirming" /\ cancellation' = "Ready"
    BY <1>3 DEF KeyX, KeyN, Armable
  <2>3. HandleLive' /\ AtMostOneSend' /\ SubmissionAccounted'
    BY <2>1 DEF Phased, HandleLive, AtMostOneSend, SubmissionAccounted
  <2>4. ComposePhase' /\ SubmitPhase'
    BY <2>1, <2>2 DEF Phased, ComposePhase, SubmitPhase
  <2>5. CancelPhase'
    BY <2>1, <2>2 DEF Phased, CancelPhase, Observe
  <2> QED
    BY <1>1, <2>3, <2>4, <2>5 DEF Phased
<1>4. CASE KeyY
  <2>1. /\ cancellation = "Confirming" /\ binding # None /\ ~Observe /\ ~exited /\ ~pending
    BY <1>4 DEF KeyY, ConfirmVisible, Phased, CancelPhase, KeysReachTask, Looping
  <2>2. /\ ~canCompose /\ ~submitting
        /\ ~submissionUnknown
    <3>1. ~canCompose /\ ~submitting
      BY <2>1 DEF Phased, ComposePhase, SubmitPhase
    <3>2. sends = 0 \/ sends > 0
      BY DEF Phased, TypeOK
    <3> QED
      BY <2>1, <3>1, <3>2 DEF Phased, SubmitPhase, SubmissionAccounted
  <2>3. /\ cancellation' = "Pending" /\ pending' /\ remoteCancel' /\ unreconciled'
        /\ request'.kind = "cancel" /\ request'.phase = "spawned"
        /\ UNCHANGED <<mode, composer, canCompose, submitting, submissionUnknown, binding>>
        /\ UNCHANGED <<observing, exited, sends>>
    BY <1>4, <2>1 DEF KeyY, Spawned, ui, watch, Draw
  <2>4. HandleLive' /\ AtMostOneSend' /\ SubmissionAccounted'
    BY <2>1, <2>2, <2>3 DEF Phased, HandleLive, AtMostOneSend, SubmissionAccounted
  <2>5. ComposePhase' /\ SubmitPhase'
    BY <2>1, <2>2, <2>3 DEF Phased, ComposePhase, SubmitPhase
  <2>6. CancelPhase'
    BY <2>1, <2>3 DEF CancelPhase, Observe
  <2> QED
    BY <1>1, <2>4, <2>5, <2>6 DEF Phased
<1> QED
  BY <1>2, <1>3, <1>4

LEMMA QuitPhased == Phased /\ Quit => Phased'
<1> SUFFICES ASSUME Phased, Quit PROVE Phased'
  OBVIOUS
<1>1. /\ TypeOK' /\ AbortedResult \in Results
  BY QuitTypeOK, AbortedResultIsTyped DEF Phased
<1>2. /\ HandleTaken /\ exited'
      /\ UNCHANGED <<mode, composer, canCompose, sends, unreconciled, automatic, observing>>
  BY DEF Quit, ui, watch, history
<1>3. CASE submitting
  BY <1>1, <1>2, <1>3, SubmissionPhased DEF Quit
<1>4. CASE ~submitting
  <2>1. UNCHANGED <<submitting, remoteCancel, submissionUnknown, cancellation, binding,
                    taskSelected, status>>
    BY <1>4 DEF Quit, effects
  <2>2. request' = [request EXCEPT !.phase = "taken"] /\ ~pending'
    BY <1>2 DEF HandleTaken
  <2>3. request'.kind = request.kind /\ request'.result = request.result
    BY <2>2 DEF Phased, TypeOK, Requests
  <2>4. HandleLive' /\ AtMostOneSend' /\ SubmissionAccounted'
    BY <1>2, <1>4, <2>1, <2>2 DEF Phased, HandleLive, AtMostOneSend, SubmissionAccounted
  <2>5. ComposePhase' /\ SubmitPhase'
    BY <1>2, <2>1, <2>2, <2>3 DEF Phased, ComposePhase, SubmitPhase
  <2>6. CancelPhase'
    BY <1>2, <2>1, <2>2 DEF Phased, CancelPhase, Observe
  <2> QED
    BY <1>1, <2>4, <2>5, <2>6 DEF Phased
<1> QED
  BY <1>3, <1>4

LEMMA NextPhased == Phased /\ [Next]_vars => Phased'
<1> SUFFICES ASSUME Phased, [Next]_vars PROVE Phased'
  OBVIOUS
<1>1. CASE UNCHANGED vars
  <2>1. TypeOK'
    BY <1>1, NextTypeOK DEF Phased
  <2>2. /\ UNCHANGED <<mode, composer, canCompose, request, pending, submitting, remoteCancel,
                       submissionUnknown, cancellation, binding, taskSelected>>
        /\ UNCHANGED <<automatic, observing, status, exited, sends, unreconciled>>
    BY <1>1 DEF vars, ui, effects, watch, history
  <2> QED
    BY <2>1, <2>2 DEF Phased, HandleLive, AtMostOneSend, SubmissionAccounted,
       ComposePhase, SubmitPhase, CancelPhase, Observe
<1> QED
  BY <1>1, EnvironmentPhased, CompletePhased, TickPhased, ScreenKeysPhased,
     ComposerSubmitPhased, KeyCPhased, DialogKeysPhased, QuitPhased DEF Next, Keys

\* Phased is an invariant of the loop.
THEOREM PhasedInvariant == Spec => []Phased
<1>1. Init => Phased
  BY InitPhased
<1>2. Phased /\ [Next]_vars => Phased'
  BY NextPhased
<1> QED
  BY <1>1, <1>2, PTL DEF Spec

\* The loop never polls a handle it has taken.
THEOREM HandleIsLive == Spec => []HandleLive
<1>1. Phased => HandleLive
  BY DEF Phased
<1> QED
  BY <1>1, PhasedInvariant, PTL

\* A process submits at most once.
THEOREM SendsAtMostOnce == Spec => []AtMostOneSend
<1>1. Phased => AtMostOneSend
  BY DEF Phased
<1> QED
  BY <1>1, PhasedInvariant, PTL

\* A submission ends in a binding or in a lasting announcement.
THEOREM SubmissionIsAccounted == Spec => []SubmissionAccounted
<1>1. Phased => SubmissionAccounted
  BY DEF Phased
<1> QED
  BY <1>1, PhasedInvariant, PTL

\* The dialog is open over a settled, bound task only.
THEOREM DialogStaysSafe == Spec => []DialogIsSafe
<1>1. Phased => DialogIsSafe
  BY DEF Phased, DialogIsSafe, CancelPhase, HandleLive
<1> QED
  BY <1>1, PhasedInvariant, PTL

\* An unaccounted cancellation is announced as long as the loop is idle.
THEOREM UnknownIsAnnounced == Spec => []UnknownStaysVisible
<1>1. Phased => UnknownStaysVisible
  BY DEF Phased, UnknownStaysVisible, CancelPhase
<1> QED
  BY <1>1, PhasedInvariant, PTL

-----------------------------------------------------------------------------
(***************************************************************************)
(* Action properties, from the same invariant.                             *)
(***************************************************************************)
\* What each action of the loop does to the handle.
LEMMA HandleSteps ==
  ASSUME Phased, [Next]_vars
  PROVE  \/ request' = request
         \/ Environment \/ Complete \/ KeyC \/ Quit
         \/ ~pending /\ request' = Spawned(ReadKind, binding)
         \/ canCompose /\ request' = Spawned("submit", None)
         \/ KeyY /\ request' = Spawned("cancel", binding)
<1>1. CASE UNCHANGED vars
  BY <1>1 DEF vars
<1>2. CASE ComposerEscape \/ KeyP \/ OpenOverlay \/ CloseOverlay \/ Redraw \/ KeyX \/ KeyN
  BY <1>2 DEF ComposerEscape, KeyP, OpenOverlay, CloseOverlay, Redraw, KeyX, KeyN
<1>3. CASE ObservationTick
  BY <1>3 DEF ObservationTick, ObservationReady, StartRead
<1>4. CASE KeyR
  BY <1>4 DEF KeyR, ReadAllowed, StartRead
<1>5. CASE ComposerSubmit
  BY <1>5 DEF ComposerSubmit, Phased, ComposePhase
<1>6. CASE KeyY
  BY <1>6 DEF KeyY
<1> QED
  BY <1>1, <1>2, <1>3, <1>4, <1>5, <1>6 DEF Next, Keys

\* Taking the handle leaves what it carried.
LEMMA TakenHandle ==
  ASSUME Phased, Complete \/ KeyC \/ Quit
  PROVE  /\ request'.kind = request.kind /\ request'.target = request.target
         /\ request'.phase = "taken"
<1>1. request' = [request EXCEPT !.phase = "taken"]
  BY DEF Complete, KeyC, Quit, HandleTaken
<1> QED
  BY <1>1 DEF Phased, TypeOK, Requests

\* No tick and no key overwrites a submission or a cancellation in flight.
THEOREM EffectsAreNotDropped == Spec => EffectsKeepTheHandle
<1>1. ASSUME Phased, [Next]_vars, pending, request.kind \in {"submit", "cancel"}
      PROVE  /\ request'.kind = request.kind /\ request'.target = request.target
             /\ request'.phase = "spawned" => request.phase = "spawned"
  <2>1. CASE Environment
    BY <1>1, <2>1, EnvironmentOnRequest DEF Phased
  <2>2. CASE Complete \/ KeyC \/ Quit
    BY <1>1, <2>2, TakenHandle
  <2>3. ~canCompose /\ ~KeyY
    BY <1>1 DEF Phased, ComposePhase, KeyY
  <2> QED
    BY <1>1, <2>1, <2>2, <2>3, HandleSteps
<1>2. Phased /\ [Next]_vars => [pending /\ request.kind \in {"submit", "cancel"} =>
           /\ request'.kind = request.kind /\ request'.target = request.target
           /\ request'.phase = "spawned" => request.phase = "spawned"]_vars
  BY <1>1
<1> QED
  BY <1>2, PhasedInvariant, PTL DEF Spec, EffectsKeepTheHandle

\* A cancellation is sent from a dialog on screen, over a settled bound task.
THEOREM CancelsAreSeen == Spec => CancelOnlyWhenSeen
<1>1. ASSUME Phased, [Next]_vars,
             request'.kind = "cancel", request'.phase = "spawned", request' # request
      PROVE  \/ /\ frame = "confirm" /\ fits /\ ~Observe
                /\ ~pending /\ ~unreconciled
                /\ binding # None /\ request'.target = binding
             \/ request.kind = "cancel" /\ request.phase = "spawned" /\ Environment
  <2>1. CASE Environment
    BY <1>1, <2>1, EnvironmentOnRequest DEF Phased
  <2>2. ~(Complete \/ KeyC \/ Quit)
    BY <1>1, TakenHandle
  <2>3. request' # Spawned(ReadKind, binding) /\ request' # Spawned("submit", None)
    BY <1>1 DEF Spawned, ReadKind
  <2>4. CASE KeyY /\ request' = Spawned("cancel", binding)
    <3>1. cancellation = "Confirming" /\ frame = "confirm" /\ fits /\ ~Observe /\ ~pending
      BY <2>4 DEF KeyY, ConfirmVisible
    <3>2. binding # None /\ ~unreconciled
      BY <1>1, <3>1 DEF Phased, CancelPhase
    <3>3. request'.target = binding
      BY <2>4 DEF Spawned
    <3> QED
      BY <3>1, <3>2, <3>3
  <2> QED
    BY <1>1, <2>1, <2>2, <2>3, <2>4, HandleSteps
<1>2. ASSUME Phased, Environment, request'.phase = "spawned"
      PROVE  request' = request
  BY <1>2 DEF Environment, Serve, Deliver, Fail, RemoteProgress, ClockPassesDeadline, Resize,
     Phased, TypeOK, Requests
<1>3. Phased /\ [Next]_vars =>
        [(request'.kind = "cancel" /\ request'.phase = "spawned" /\ request' # request) =>
           /\ frame = "confirm" /\ fits /\ ~Observe
           /\ ~pending /\ ~unreconciled
           /\ binding # None /\ request'.target = binding]_vars
  BY <1>1, <1>2
<1> QED
  BY <1>3, PhasedInvariant, PTL DEF Spec, CancelOnlyWhenSeen

-----------------------------------------------------------------------------
(***************************************************************************)
(* The loop implements the ledger of effects, step by step.                *)
(***************************************************************************)
ledgerVars == <<LedgerSubmission, LedgerCancel, binding>>

\* A step that leaves the flags, the stages and the binding alone stutters.
LEMMA LedgerStutters ==
  ASSUME UNCHANGED <<submitting, sends, submissionUnknown, cancellation, binding>>
  PROVE  UNCHANGED ledgerVars
BY DEF ledgerVars, LedgerSubmission, LedgerCancel

\* The end of the submission acknowledges it or loses it.
LEMMA LedgerSubmissionEnds ==
  ASSUME Phased, submitting, NEW result \in Results, SubmissionCompleted(result),
         sends' = sends, binding' \in Bindings
  PROVE  Ledger!Next
<1>1. binding = None /\ cancellation = "Unavailable" /\ sends = 1
  BY DEF Phased, SubmitPhase
<1>2. /\ ~submitting'
      /\ submissionUnknown' <=> binding' = None
      /\ cancellation' \in {"Ready", "Unavailable"}
  BY SubmissionOutcome
<1>3. LedgerCancel = "idle" /\ LedgerCancel' = "idle" /\ LedgerSubmission = "outstanding"
  BY <1>1, <1>2 DEF LedgerCancel, LedgerSubmission
<1>4. LedgerSubmission' = IF binding' = None THEN "unknown" ELSE "acknowledged"
  BY <1>1, <1>2 DEF LedgerSubmission
<1>5. CASE binding' = None
  BY <1>1, <1>3, <1>4, <1>5 DEF Ledger!Next, Ledger!LoseSubmission
<1>6. CASE binding' # None
  BY <1>3, <1>4, <1>6 DEF Ledger!Next, Ledger!Acknowledge, Bindings
<1> QED
  BY <1>5, <1>6

\* The end of a read learns the binding or reconciles; that of a cancellation
\* settles it.
LEMMA LedgerRequestEnds ==
  ASSUME Phased, ~submitting, pending, ~exited, NEW result \in Results,
         RequestCompleted(result, remoteCancel), Reconcile(result), binding' \in Bindings,
         UNCHANGED <<submitting, sends, submissionUnknown>>
  PROVE  Ledger!Next \/ UNCHANGED ledgerVars
<1>1. /\ cancellation' \in {"Ready", "Unavailable", "Unknown"}
      /\ cancellation' # "Unavailable" => binding' # None
      /\ binding # None => binding' = binding
  BY RequestOutcome
<1>2. /\ cancellation \in {"Unavailable", "Pending", "Unknown"}
      /\ cancellation = "Unavailable" => ~remoteCancel
      /\ cancellation # "Unavailable" => binding # None
  BY DEF Phased, CancelPhase, TypeOK, Cancellation
<1>3. LedgerSubmission' = LedgerSubmission
  BY DEF LedgerSubmission
<1>4. cancellation = "Unavailable" => cancellation' # "Unknown"
  BY <1>2 DEF RequestCompleted
<1>5. CASE cancellation = "Unavailable" /\ binding' = binding
  BY <1>1, <1>3, <1>4, <1>5 DEF ledgerVars, LedgerCancel
<1>6. CASE cancellation = "Unavailable" /\ binding' # binding
  <2>1. binding = None /\ binding' \in Correlation
    BY <1>1, <1>6 DEF Bindings
  <2>2. sends = 0
    <3>1. sends = 0 \/ sends > 0
      BY DEF Phased, TypeOK
    <3> QED
      BY <2>1, <3>1 DEF Phased, SubmissionAccounted
  <2>3. LedgerSubmission = "none"
    BY <2>2 DEF LedgerSubmission
  <2>4. LedgerCancel' = LedgerCancel
    BY <1>1, <1>4, <1>6 DEF LedgerCancel
  <2> QED
    BY <1>3, <2>1, <2>3, <2>4 DEF Ledger!Next, Ledger!Learn
<1>7. CASE cancellation = "Pending"
  BY <1>1, <1>2, <1>3, <1>7
     DEF LedgerCancel, Ledger!Next, Ledger!Confirmed, Ledger!LoseCancel
<1>8. CASE cancellation = "Unknown"
  BY <1>1, <1>2, <1>3, <1>8 DEF ledgerVars, LedgerCancel, Ledger!Next, Ledger!Reconciled
<1> QED
  BY <1>2, <1>5, <1>6, <1>7, <1>8

\* Starting a read only gives up a dialog, if one is open.
LEMMA LedgerReadStarts ==
  ASSUME Phased, ~pending, ~exited, StartRead,
         UNCHANGED <<submitting, sends, submissionUnknown, binding>>
  PROVE  Ledger!Next \/ UNCHANGED ledgerVars
<1>1. /\ LedgerSubmission' = LedgerSubmission
      /\ cancellation # "Pending"
      /\ cancellation' = IF cancellation = "Unknown" THEN "Unknown" ELSE "Unavailable"
  BY DEF LedgerSubmission, StartRead, ReadStarted, Phased, CancelPhase
<1>2. CASE cancellation = "Confirming"
  BY <1>1, <1>2 DEF LedgerCancel, Ledger!Next, Ledger!Withdraw
<1>3. CASE cancellation # "Confirming"
  BY <1>1, <1>3 DEF LedgerCancel, ledgerVars
<1> QED
  BY <1>2, <1>3

\* The keys of the dialog ask, withdraw and cancel.
LEMMA LedgerDialogKeys ==
  ASSUME Phased, KeyX \/ KeyN \/ KeyY
  PROVE  Ledger!Next
<1>1. /\ UNCHANGED <<submitting, sends, submissionUnknown, binding>>
      /\ LedgerSubmission' = LedgerSubmission
  BY DEF KeyX, KeyN, KeyY, history, LedgerSubmission
<1>2. CASE KeyX
  <2>1. cancellation = "Ready" /\ cancellation' = "Confirming" /\ ~pending
    BY <1>2 DEF KeyX, Armable
  <2>2. binding # None /\ ~submitting
    BY <2>1 DEF Phased, CancelPhase, SubmitPhase
  <2>3. LedgerSubmission # "outstanding"
    BY <2>2 DEF LedgerSubmission
  <2> QED
    BY <1>1, <2>1, <2>2, <2>3 DEF LedgerCancel, Ledger!Next, Ledger!Ask, Ledger!Settled
<1>3. CASE KeyN
  BY <1>1, <1>3 DEF KeyN, LedgerCancel, Ledger!Next, Ledger!Withdraw
<1>4. CASE KeyY
  BY <1>1, <1>4 DEF KeyY, ConfirmVisible, LedgerCancel, Ledger!Next, Ledger!Cancel
<1> QED
  BY <1>2, <1>3, <1>4

\* Enter in the composer is the ledger's only submission.
LEMMA LedgerComposerSubmits ==
  ASSUME Phased, ComposerSubmit
  PROVE  Ledger!Next
<1>1. sends = 0 /\ ~submitting /\ binding = None /\ binding' = binding /\ submitting'
      /\ cancellation' = cancellation
  BY DEF ComposerSubmit, Phased, ComposePhase
<1>2. LedgerSubmission = "none" /\ LedgerSubmission' = "outstanding"
      /\ LedgerCancel' = LedgerCancel
  BY <1>1 DEF LedgerSubmission, LedgerCancel
<1> QED
  BY <1>1, <1>2 DEF Ledger!Next, Ledger!Submit

LEMMA LedgerNext ==
  ASSUME Phased, [Next]_vars
  PROVE  Ledger!Next \/ UNCHANGED ledgerVars
<1>1. TypeOK' /\ binding' \in Bindings
  <2>1. TypeOK'
    BY NextTypeOK DEF Phased
  <2> QED
    BY <2>1 DEF TypeOK
<1>2. request.result \in Results /\ AbortedResult \in Results
  BY AbortedResultIsTyped DEF Phased
<1>3. CASE \/ UNCHANGED vars \/ Environment
           \/ ComposerEscape \/ KeyP \/ OpenOverlay \/ CloseOverlay \/ Redraw
  <2>1. UNCHANGED <<submitting, sends, submissionUnknown, cancellation, binding>>
    BY <1>3 DEF vars, Environment, Serve, Deliver, Fail, RemoteProgress, ClockPassesDeadline,
       Resize, ComposerEscape, KeyP, OpenOverlay, CloseOverlay, Redraw, loopVars, effects,
       history
  <2> QED
    BY <2>1, LedgerStutters
<1>4. CASE Complete
  <2>1. sends' = sends /\ pending /\ ~exited
    BY <1>4 DEF Complete, Looping
  <2>2. CASE submitting
    BY <1>1, <1>2, <1>4, <2>1, <2>2, LedgerSubmissionEnds DEF Complete
  <2>3. CASE ~submitting
    <3>1. /\ RequestCompleted(request.result, remoteCancel) /\ Reconcile(request.result)
          /\ UNCHANGED <<submitting, sends, submissionUnknown>>
      BY <1>4, <2>1, <2>3 DEF Complete
    <3> QED
      BY <1>1, <1>2, <2>1, <2>3, <3>1, LedgerRequestEnds
  <2> QED
    BY <2>2, <2>3
<1>5. CASE KeyC
  <2>1. sends' = sends /\ pending /\ ~exited
    BY <1>5 DEF KeyC, KeysReachTask, Looping
  <2>2. CASE submitting
    BY <1>1, <1>2, <1>5, <2>1, <2>2, LedgerSubmissionEnds DEF KeyC
  <2>3. CASE ~submitting /\ ~remoteCancel
    <3>1. /\ RequestCompleted(AbortedResult, remoteCancel) /\ Reconcile(AbortedResult)
          /\ UNCHANGED <<submitting, sends, submissionUnknown>>
      BY <1>5, <2>1, <2>3 DEF KeyC, Phased, TypeOK
    <3> QED
      BY <1>1, <1>2, <2>1, <2>3, <3>1, LedgerRequestEnds
  <2>4. CASE ~submitting /\ remoteCancel
    <3>1. /\ cancellation = "Pending" /\ cancellation' = "Unknown"
          /\ UNCHANGED <<submitting, sends, submissionUnknown, binding>>
      BY <1>5, <2>1, <2>4 DEF KeyC, Phased, CancelPhase
    <3>2. LedgerSubmission' = LedgerSubmission
      BY <3>1 DEF LedgerSubmission
    <3> QED
      BY <3>1, <3>2 DEF LedgerCancel, Ledger!Next, Ledger!LoseCancel
  <2> QED
    BY <2>2, <2>3, <2>4
<1>6. CASE ObservationTick \/ KeyR
  <2>1. ~pending /\ ~exited
    BY <1>6 DEF ObservationTick, ObservationReady, KeyR, ReadAllowed, KeysReachTask, Looping
  <2>2. UNCHANGED <<submitting, sends, submissionUnknown, binding>>
    BY <1>6 DEF ObservationTick, KeyR, history
  <2>3. StartRead \/ cancellation' = cancellation
    BY <1>6 DEF ObservationTick, KeyR
  <2> QED
    BY <2>1, <2>2, <2>3, LedgerReadStarts, LedgerStutters
<1>7. CASE KeyX \/ KeyN \/ KeyY
  BY <1>7, LedgerDialogKeys
<1>8. CASE ComposerSubmit
  BY <1>8, LedgerComposerSubmits
<1>9. CASE Quit
  <2>1. CASE submitting
    <3>1. SubmissionCompleted(AbortedResult) /\ sends' = sends
      BY <1>9, <2>1 DEF Quit, history
    <3> QED
      BY <1>1, <1>2, <2>1, <3>1, LedgerSubmissionEnds
  <2>2. CASE ~submitting
    <3>1. UNCHANGED <<submitting, sends, submissionUnknown, cancellation, binding>>
      BY <1>9, <2>2 DEF Quit, effects, history
    <3> QED
      BY <3>1, LedgerStutters
  <2> QED
    BY <2>1, <2>2
<1> QED
  BY <1>3, <1>4, <1>5, <1>6, <1>7, <1>8, <1>9 DEF Next, Keys

\* Every step of the loop is a step of the ledger or changes nothing in it:
\* one submission before any binding, settled once; an immutable binding; and
\* cancellations asked for, sent and settled one at a time.
THEOREM LedgerIsImplemented == Spec => StepsOfLedger
<1>1. Init => Ledger!Init
  <2> SUFFICES ASSUME Init PROVE Ledger!Init
    OBVIOUS
  <2>1. binding = None /\ cancellation = "Unavailable" /\ ~submissionUnknown
        /\ (submitting \/ sends = 0)
    BY DEF Init
  <2> QED
    BY <2>1 DEF Ledger!Init, LedgerSubmission, LedgerCancel
<1>2. Phased /\ [Next]_vars => [Ledger!Next]_(Ledger!vars)
  BY LedgerNext DEF ledgerVars, Ledger!vars
<1> QED
  BY <1>1, <1>2, PhasedInvariant, PTL DEF Spec, StepsOfLedger, Ledger!SafeSpec

-----------------------------------------------------------------------------
(***************************************************************************)
(* What is shown is true.  An answer waits in the handle while the task    *)
(* goes on, so the invariant ties the task to the answer (Answered), to    *)
(* the binding (Bound), and says that a submission that was not served has *)
(* no task yet (Unborn).                                                   *)
(***************************************************************************)
Answered ==
  request.phase \in {"served", "done"} /\ request.result.kind = "snapshot" =>
    /\ Concerns(request.result.corr)
    /\ request.result.state \in Terminal => task.state = request.result.state

Bound ==
  /\ binding # None => Concerns(binding)
  /\ request.kind \in {"refresh", "cancel"} => Concerns(request.target)

Unborn ==
  /\ canCompose => task.state = "absent"
  /\ request.kind = "submit" /\ request.phase = "spawned" => task.state = "absent"

Truth == Answered /\ Bound /\ Unborn /\ FinalStatusIsTrue /\ ViewsFollowBinding

\* What a final status, a new binding and an error say about the result.
LEMMA Interpreted ==
  ASSUME TypeOK, NEW result \in Results, NEW c \in BOOLEAN,
         RequestCompleted(result, c) \/ SubmissionCompleted(result)
  PROVE  /\ status' \in Terminal => Accepted(result) /\ status' = result.state
         /\ binding' = binding \/ (binding = None /\ Accepted(result) /\ binding' = result.corr)
         /\ status' \in {"error", "localCanceled", "submissionUnknown"} => ~Accepted(result)
<1>1. Accepted(result) => result.kind = "snapshot" /\ result.state \in TaskStates
  BY AcceptedIsTyped DEF Accepted
<1>2. /\ StatusOf(result) \in Terminal => Accepted(result) /\ StatusOf(result) = result.state
      /\ StatusOf(result) \in {"error", "localCanceled", "submissionUnknown"} => ~Accepted(result)
  BY <1>1 DEF StatusOf, Terminal, Active, TaskStates
<1>3. ASSUME NEW cancelling \in BOOLEAN, RequestCompleted(result, cancelling)
      PROVE  /\ status' = "cancellationUnknown" \/ status' = StatusOf(result)
             /\ binding' = binding
                  \/ (binding = None /\ Accepted(result) /\ binding' = result.corr)
  BY <1>3 DEF RequestCompleted, Bind
<1>4. CASE RequestCompleted(result, c) \/ RequestCompleted(result, FALSE)
  BY <1>2, <1>3, <1>4 DEF Terminal
<1>5. CASE result.kind # "snapshot" /\ status' = "submissionUnknown" /\ UNCHANGED binding
  BY <1>1, <1>5 DEF Terminal
<1> QED
  BY <1>4, <1>5 DEF SubmissionCompleted

\* What the task becomes: it keeps its correlation and its end.
LEMMA TaskSteps ==
  ASSUME Phased, Unborn, Environment
  PROVE  /\ task'.corr = task.corr
         /\ task.state \in Terminal => task'.state = task.state
         /\ \/ task'.state = task.state
            \/ ~canCompose /\ (request'.phase = "spawned" => request.kind # "submit")
<1>1. TypeOK
  BY DEF Phased
<1>2. CASE Serve
  <2>1. PICK after \in Afterwards, reply \in Snapshots \cup {Card} :
          /\ task' = [task EXCEPT !.state = after]
          /\ request' = [request EXCEPT !.phase = "served", !.result = ClientResult(reply)]
    BY <1>2 DEF Serve
  <2>2. task'.corr = task.corr /\ task'.state = after /\ request'.phase = "served"
    BY <1>1, <2>1 DEF TypeOK, Requests
  <2>3. CASE request.kind = "submit"
    BY <1>2, <2>2, <2>3 DEF Serve, Unborn, Terminal, Phased, ComposePhase
  <2>4. CASE request.kind # "submit"
    BY <2>2, <2>4 DEF Afterwards, Active, Terminal, Phased, ComposePhase
  <2> QED
    BY <2>3, <2>4
<1>3. CASE Deliver \/ Fail \/ ClockPassesDeadline \/ Resize
  BY <1>3 DEF Deliver, Fail, ClockPassesDeadline, Resize
<1>4. CASE RemoteProgress
  <2>1. task'.corr = task.corr /\ task.state \notin Terminal
    BY <1>1, <1>4 DEF RemoteProgress, TypeOK, Active, Terminal
  <2>2. task.state = "absent" => ~canCompose /\ request.phase # "spawned"
    BY <1>4 DEF RemoteProgress, Active, Phased, ComposePhase, TypeOK
  <2>3. canCompose => task.state = "absent"
    BY DEF Unborn
  <2>4. request.kind = "submit" /\ request.phase = "spawned" => task.state = "absent"
    BY DEF Unborn
  <2> QED
    BY <1>4, <2>1, <2>2, <2>3, <2>4 DEF RemoteProgress
<1> QED
  BY <1>2, <1>3, <1>4 DEF Environment

\* What the client passes on is about the task, and a final state is the task's.
LEMMA ServedIsTrue ==
  ASSUME TypeOK, Bound, NEW reply \in Snapshots \cup {Card}, NEW after,
         reply = Card <=> request.kind = "discover",
         reply # Card /\ Concerns(reply.corr) => reply.state = after,
         request.kind \in {"submit", "get"} => Concerns(reply.corr),
         ClientResult(reply).kind = "snapshot"
  PROVE  Concerns(ClientResult(reply).corr) /\ ClientResult(reply).state = after
<1>1. CASE request.kind = "refresh"
  <2>1. /\ SameTask(request.target, reply.corr) /\ reply.corr.run = request.target.run
        /\ ClientResult(reply) = Snapshot(request.target, reply.state)
    BY <1>1 DEF ClientResult, Refused
  <2>2. Concerns(request.target) /\ Concerns(reply.corr)
    BY <1>1, <2>1 DEF Bound, Concerns, SameTask
  <2> QED
    BY <1>1, <2>1, <2>2 DEF Snapshot
<1>2. CASE request.kind = "cancel"
  <2>1. /\ SameTask(request.target, reply.corr)
        /\ ClientResult(reply) = Snapshot(request.target, reply.state)
    BY <1>2 DEF ClientResult, Refused
  <2>2. Concerns(request.target) /\ Concerns(reply.corr)
    BY <1>2, <2>1 DEF Bound, Concerns, SameTask
  <2> QED
    BY <1>2, <2>1, <2>2 DEF Snapshot
<1>3. CASE request.kind \in {"submit", "get"}
  BY <1>3 DEF ClientResult
<1>4. CASE request.kind = "discover"
  BY <1>4 DEF ClientResult, Card
<1> QED
  BY <1>1, <1>2, <1>3, <1>4 DEF TypeOK, Requests, Kinds, Reads

LEMMA EnvironmentTruth == Phased /\ Truth /\ Environment => Truth'
<1> SUFFICES ASSUME Phased, Truth, Environment PROVE Truth'
  OBVIOUS
<1>0. TypeOK /\ Answered /\ Bound /\ Unborn
  BY DEF Phased, Truth
<1>1. /\ task'.corr = task.corr
      /\ task.state \in Terminal => task'.state = task.state
      /\ \/ task'.state = task.state
         \/ ~canCompose /\ (request'.phase = "spawned" => request.kind # "submit")
  BY <1>0, TaskSteps
<1>2. UNCHANGED <<canCompose, binding, status, viewBinding>>
  BY DEF Environment, Serve, Deliver, Fail, RemoteProgress, ClockPassesDeadline, Resize,
         loopVars, ui
<1>3. /\ request'.kind = request.kind /\ request'.target = request.target
      /\ request'.phase = "spawned" => request.phase = "spawned"
  BY <1>0, EnvironmentOnRequest
<1>4. \A corr : Concerns(corr)' <=> Concerns(corr)
  BY <1>1 DEF Concerns
<1>5. Bound' /\ Unborn' /\ FinalStatusIsTrue' /\ ViewsFollowBinding'
  BY <1>0, <1>1, <1>2, <1>3 DEF Truth, Bound, Unborn, FinalStatusIsTrue, ViewsFollowBinding, Concerns
<1>6. Answered'
  <2>1. CASE Serve
    <3>1. PICK after \in Afterwards, reply \in Snapshots \cup {Card} :
            /\ reply = Card <=> request.kind = "discover"
            /\ reply # Card /\ Concerns(reply.corr) => reply.state = after
            /\ request.kind \in {"submit", "get"} => Concerns(reply.corr)
            /\ task' = [task EXCEPT !.state = after]
            /\ request' = [request EXCEPT !.phase = "served", !.result = ClientResult(reply)]
      BY <2>1 DEF Serve
    <3>2. task'.state = after /\ request'.result = ClientResult(reply)
      BY <1>0, <3>1 DEF TypeOK, Requests
    <3>3. ClientResult(reply).kind = "snapshot" =>
            Concerns(ClientResult(reply).corr) /\ ClientResult(reply).state = after
      BY <1>0, <3>1, ServedIsTrue
    <3> QED
      BY <1>1, <3>2, <3>3 DEF Answered, Concerns
  <2>2. CASE Deliver
    BY <1>0, <2>2 DEF Deliver, Answered, Concerns, TypeOK, Requests
  <2>3. CASE Fail
    BY <1>0, <2>3 DEF Fail, Answered, Refused, TypeOK, Requests
  <2>4. CASE RemoteProgress \/ ClockPassesDeadline \/ Resize
    <3>1. request' = request
      BY <2>4 DEF RemoteProgress, ClockPassesDeadline, Resize
    <3> QED
      BY <1>0, <1>1, <3>1 DEF Answered, Concerns
  <2> QED
    BY <2>1, <2>2, <2>3, <2>4 DEF Environment
<1> QED
  BY <1>5, <1>6 DEF Truth

\* The handle's result is interpreted, and the handle is taken.
LEMMA TakenTruth ==
  ASSUME Phased, Truth, NEW result \in Results, NEW c \in BOOLEAN,
         RequestCompleted(result, c) \/ SubmissionCompleted(result),
         (result = request.result /\ request.phase = "done") \/ result = Cancelled,
         HandleTaken, UNCHANGED <<canCompose, task>>,
         \/ viewBinding' = None
         \/ viewBinding' = IF Accepted(result) THEN binding' ELSE None
  PROVE  Truth'
<1>1. TypeOK /\ Answered /\ Bound /\ Unborn
  BY DEF Phased, Truth
<1>2. /\ status' \in Terminal => Accepted(result) /\ status' = result.state
      /\ binding' = binding \/ (binding = None /\ Accepted(result) /\ binding' = result.corr)
      /\ status' \in {"error", "localCanceled", "submissionUnknown"} => ~Accepted(result)
  BY <1>1, Interpreted
<1>3. /\ request'.kind = request.kind /\ request'.target = request.target
      /\ request'.phase = "taken"
  BY <1>1 DEF HandleTaken, TypeOK, Requests
<1>4. Accepted(result) => /\ Concerns(result.corr)
                          /\ result.state \in Terminal => task.state = result.state
  BY <1>1 DEF Accepted, Answered, Cancelled
<1>5. Answered' /\ Bound' /\ Unborn'
  BY <1>1, <1>2, <1>3, <1>4 DEF Answered, Bound, Unborn, Concerns
<1>6. FinalStatusIsTrue'
  BY <1>2, <1>4 DEF FinalStatusIsTrue
<1>7. ViewsFollowBinding'
  BY <1>2 DEF ViewsFollowBinding
<1> QED
  BY <1>5, <1>6, <1>7 DEF Truth

\* A step that interprets nothing: it may spawn a request for the binding, and
\* the status is kept or one of the loop's own words.
LEMMA OtherTruth ==
  ASSUME Phased, Truth,
         UNCHANGED <<task, binding, viewBinding>>,
         canCompose' => canCompose,
         status' \in {status, "loading", "cancellationUnknown"},
         \/ request' = request
         \/ request' = [request EXCEPT !.phase = "taken"]
         \/ request' = Spawned(ReadKind, binding)
         \/ request' = Spawned("cancel", binding) /\ binding # None
         \/ request' = Spawned("submit", None) /\ canCompose
  PROVE  Truth'
<1>1. TypeOK /\ Answered /\ Bound /\ Unborn
  BY DEF Phased, Truth
<1>2. Unborn'
  BY <1>1 DEF Unborn, Spawned, ReadKind, TypeOK, Requests
<1>3. Answered'
  BY <1>1 DEF Answered, Concerns, Spawned, Refused, TypeOK, Requests
<1>4. Bound'
  BY <1>1 DEF Bound, Concerns, Spawned, ReadKind, TypeOK, Requests
<1>5. FinalStatusIsTrue' /\ ViewsFollowBinding'
  BY DEF Truth, FinalStatusIsTrue, ViewsFollowBinding, Terminal
<1> QED
  BY <1>2, <1>3, <1>4, <1>5 DEF Truth

LEMMA CompleteTruth == Phased /\ Truth /\ Complete => Truth'
<1> SUFFICES ASSUME Phased, Truth, Complete PROVE Truth'
  OBVIOUS
<1> DEFINE result == request.result
<1>1. result \in Results /\ remoteCancel \in BOOLEAN /\ request.phase = "done"
  BY AbortedResultIsTyped DEF Phased, TypeOK, Complete
<1>2. RequestCompleted(result, remoteCancel) \/ SubmissionCompleted(result)
  BY DEF Complete
<1>3. /\ HandleTaken /\ UNCHANGED <<canCompose, task>>
      /\ viewBinding' = IF Accepted(result) THEN binding' ELSE None
  BY DEF Complete, ui, ViewsUpdated
<1> HIDE DEF result
<1>4. result = request.result
  BY DEF result
<1> QED
  BY <1>1, <1>2, <1>3, <1>4, TakenTruth

LEMMA KeyCTruth == Phased /\ Truth /\ KeyC => Truth'
<1> SUFFICES ASSUME Phased, Truth, KeyC PROVE Truth'
  OBVIOUS
<1> DEFINE result == AbortedResult
<1>1. /\ result \in Results
      /\ (result = request.result /\ request.phase = "done") \/ result = Cancelled
  BY AbortedResultIsTyped DEF Phased, AbortedResult
<1>2. HandleTaken /\ UNCHANGED <<canCompose, task>> /\ viewBinding' = None
  BY DEF KeyC, ui
<1>3. CASE RequestCompleted(result, FALSE) \/ SubmissionCompleted(result)
  <2> HIDE DEF result
  <2> QED
    BY <1>1, <1>2, <1>3, TakenTruth
<1>4. CASE status' = "cancellationUnknown" /\ UNCHANGED binding
  <2>1. TypeOK /\ Answered /\ Bound /\ Unborn
    BY DEF Phased, Truth
  <2>2. /\ request'.kind = request.kind /\ request'.target = request.target
        /\ request'.phase = "taken"
    BY <1>2, <2>1 DEF HandleTaken, TypeOK, Requests
  <2> QED
    BY <1>2, <1>4, <2>1, <2>2
    DEF Truth, Answered, Bound, Unborn, Concerns, FinalStatusIsTrue, ViewsFollowBinding, Terminal
<1> QED
  BY <1>3, <1>4 DEF KeyC

LEMMA QuitTruth == Phased /\ Truth /\ Quit => Truth'
<1> SUFFICES ASSUME Phased, Truth, Quit PROVE Truth'
  OBVIOUS
<1>1. HandleTaken /\ UNCHANGED <<canCompose, task, viewBinding>>
  BY DEF Quit, ui
<1>2. CASE submitting
  <2>1. binding = None
    BY <1>2 DEF Phased, SubmitPhase
  <2>2. viewBinding' = None
    BY <1>1, <2>1 DEF Truth, ViewsFollowBinding
  <2>3. SubmissionCompleted(AbortedResult)
    BY <1>2 DEF Quit
  <2>4. /\ AbortedResult \in Results
        /\ (AbortedResult = request.result /\ request.phase = "done") \/ AbortedResult = Cancelled
    BY AbortedResultIsTyped DEF Phased, AbortedResult
  <2> QED
    BY <1>1, <2>2, <2>3, <2>4, TakenTruth
<1>3. CASE ~submitting
  <2>1. UNCHANGED <<binding, status>> /\ request' = [request EXCEPT !.phase = "taken"]
    BY <1>1, <1>3 DEF Quit, HandleTaken
  <2> QED
    BY <1>1, <2>1, OtherTruth
<1> QED
  BY <1>2, <1>3

LEMMA NextTruth == Phased /\ Truth /\ [Next]_vars => Truth'
<1> SUFFICES ASSUME Phased, Truth, [Next]_vars PROVE Truth'
  OBVIOUS
<1>1. CASE Environment
  BY <1>1, EnvironmentTruth
<1>2. CASE Complete
  BY <1>2, CompleteTruth
<1>3. CASE KeyC
  BY <1>3, KeyCTruth
<1>4. CASE Quit
  BY <1>4, QuitTruth
<1>5. CASE ObservationTick
  BY <1>5, OtherTruth DEF ObservationTick, StartRead, ui
<1>6. CASE ComposerEscape \/ KeyP \/ OpenOverlay \/ CloseOverlay \/ Redraw \/ KeyX \/ KeyN
  BY <1>6, OtherTruth DEF ComposerEscape, KeyP, OpenOverlay, CloseOverlay, Redraw, KeyX, KeyN, ui
<1>7. CASE ComposerSubmit
  <2>1. canCompose
    BY <1>7 DEF ComposerSubmit, Phased, ComposePhase
  <2> QED
    BY <1>7, <2>1, OtherTruth DEF ComposerSubmit, ComposerClosed
<1>8. CASE KeyR
  BY <1>8, OtherTruth DEF KeyR, StartRead, ui
<1>9. CASE KeyY
  BY <1>9, OtherTruth DEF KeyY, ui
<1>10. CASE UNCHANGED vars
  BY <1>10, OtherTruth DEF vars, ui
<1> QED
  BY <1>1, <1>2, <1>3, <1>4, <1>5, <1>6, <1>7, <1>8, <1>9, <1>10 DEF Next, Keys

LEMMA InitTruth == Init => Truth
<1> SUFFICES ASSUME Init PROVE Truth
  OBVIOUS
<1>1. /\ request.phase = "spawned" /\ request.kind \in {"submit", "discover", "get"}
      /\ request.kind = "submit" => mode = "prompt"
  BY DEF Init, Spawned, InitialKind
<1>2. mode \in {"compose", "prompt"} => task.state = "absent"
  BY DEF Init
<1> QED
  BY <1>1, <1>2 DEF Init, Truth, Answered, Bound, Unborn, FinalStatusIsTrue,
     ViewsFollowBinding, Terminal

LEMMA TruthInvariant == Spec => [](Phased /\ Truth)
<1>1. Init => Phased /\ Truth
  BY InitPhased, InitTruth
<1>2. Phased /\ Truth /\ [Next]_vars => (Phased /\ Truth)'
  BY NextPhased, NextTruth
<1> QED
  BY <1>1, <1>2, PTL DEF Spec

\* A final state is shown only of a task that has ended in it, whatever was
\* lost, answered late or about another task.
THEOREM FinalStatusHolds == Spec => []FinalStatusIsTrue
<1>1. Truth => FinalStatusIsTrue
  BY DEF Truth
<1> QED
  BY <1>1, TruthInvariant, PTL

\* The protected views show the bound task or nothing.
THEOREM ViewsStayBound == Spec => []ViewsFollowBinding
<1>1. Truth => ViewsFollowBinding
  BY DEF Truth
<1> QED
  BY <1>1, TruthInvariant, PTL

\* Only the user's n, r and y close the dialog.
THEOREM DialogIsTheUsers == Spec => DialogWaitsForTheUser
<1>1. ASSUME Phased, [Next]_vars, cancellation = "Confirming", cancellation' # "Confirming"
      PROVE  KeyN \/ KeyR \/ KeyY
  <2>1. ~pending /\ ~submitting
    BY <1>1 DEF Phased, CancelPhase, HandleLive
  <2>2. ~Environment
    BY <1>1 DEF Environment, Serve, Deliver, Fail, RemoteProgress, ClockPassesDeadline, Resize,
       loopVars, effects
  <2>3. ~Complete /\ ~KeyC /\ ~Quit /\ ~ObservationTick
    BY <1>1, <2>1 DEF Complete, KeyC, Quit, ObservationTick, ObservationReady, effects
  <2>4. ~(ComposerEscape \/ KeyP \/ ComposerSubmit \/ OpenOverlay \/ CloseOverlay \/ Redraw \/ KeyX)
    BY <1>1 DEF ComposerEscape, KeyP, ComposerSubmit, OpenOverlay, CloseOverlay, Redraw, KeyX,
       effects
  <2> QED
    BY <1>1, <2>2, <2>3, <2>4 DEF Next, Keys, vars, effects
<1>2. Phased /\ [Next]_vars =>
        [(cancellation = "Confirming" /\ cancellation' # "Confirming") =>
           KeyN \/ KeyR \/ KeyY]_vars
  BY <1>1
<1> QED
  BY <1>2, PhasedInvariant, PTL DEF Spec, DialogWaitsForTheUser
=============================================================================
