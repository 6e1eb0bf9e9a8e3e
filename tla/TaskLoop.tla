------------------------------ MODULE TaskLoop ------------------------------
(***************************************************************************)
(* The interactive central mode of tuig: the event loop `run` of           *)
(* native/tuig/src/main.rs, the one request it may have in flight, and the *)
(* Arbora task that request acts on.                                       *)
(*                                                                         *)
(* The loop owns a single JoinHandle `request`.  A request is an effect    *)
(* ("submit", "cancel") or a read ("discover", "get", "refresh").  It runs *)
(* on another thread: it is spawned, the server may serve it, and it ends  *)
(* with a result, an HTTP failure or a timeout.  The effect of a served    *)
(* request stands even when its answer is lost or the handle is aborted.   *)
(*                                                                         *)
(* Task states are kept by the classes the loop tells apart:               *)
(*   running  = Submitted, Working          blocked = Input/AuthRequired   *)
(*   ended    = Completed, Failed, Rejected canceled = Canceled            *)
(***************************************************************************)
EXTENDS Naturals, TaskCorrelation

VARIABLES
  mode,               \* how the process was started; never changes
  composer,           \* composer.open
  canCompose,         \* can_compose
  overlay,            \* which read-only view is open over the task view
  frame,              \* what the last drawn frame shows
  fits,               \* the terminal is large enough for the dialog now
  request,            \* the JoinHandle, what it asked and how far it is
  pending,            \* pending
  submitting,         \* submitting
  remoteCancel,       \* remote_cancel
  submissionUnknown,  \* submission_unknown
  cancellation,       \* cancellation
  binding,            \* binding
  taskSelected,       \* task_id.is_some()
  automatic,          \* automatic_observation
  observing,          \* observation_active
  deadline,           \* observation_deadline, with the clock folded in
  status,             \* what the status text says
  viewBinding,        \* the binding the inspector and the details hold
  exited,             \* the loop has returned
  task,               \* the remote task: its correlation and its state
  sends,              \* history: message/send requests spawned
  unreconciled        \* history: a cancel was spawned and no later answer
                      \* about the task has been accepted

ui      == <<composer, canCompose, overlay>>
screen  == <<frame, fits>>
effects == <<submitting, remoteCancel, submissionUnknown, cancellation>>
watch   == <<automatic, observing, deadline>>
history == <<sends, unreconciled>>
vars == <<mode, ui, screen, request, pending, effects, binding, taskSelected,
          watch, status, viewBinding, exited, task, history>>

Modes        == {"compose", "prompt", "observe", "task"}
Active       == {"running", "blocked"}
Terminal     == {"ended", "canceled"}
TaskStates   == Active \cup Terminal
Cancellation == {"Unavailable", "Ready", "Confirming", "Pending", "Unknown"}
Reads        == {"discover", "get", "refresh"}
Kinds        == Reads \cup {"submit", "cancel"}
Phases       == {"spawned", "served", "done", "taken"}
Messages     == {"loading", "card", "error", "localCanceled",
                 "submissionUnknown", "cancellationUnknown"}

Card      == [kind |-> "card",      corr |-> None, state |-> "none"]
Refused   == [kind |-> "refused",   corr |-> None, state |-> "none"]
Cancelled == [kind |-> "cancelled", corr |-> None, state |-> "none"]
Snapshots == [kind : {"snapshot"}, corr : Correlation, state : TaskStates]
Results   == Snapshots \cup {Card, Refused, Cancelled}

Observe == mode = "observe"

(***************************************************************************)
(* Starting the process.  `submission` is given by --prompt, `observe` by  *)
(* --observe-task and the task identifier by either AGENT_TASK_ID or       *)
(* --observe-task.                                                         *)
(***************************************************************************)
Spawned(kind, target) ==
  [kind |-> kind, target |-> target, phase |-> "spawned", result |-> Refused]

InitialKind == CASE mode = "prompt"  -> "submit"
                 [] mode = "compose" -> "discover"
                 [] OTHER            -> "get"

Init ==
  /\ mode \in Modes
  /\ composer = (mode = "compose")
  /\ canCompose = (mode = "compose")
  /\ overlay = "none"
  /\ frame = IF mode = "compose" THEN "composer" ELSE "task"
  /\ fits \in BOOLEAN
  /\ request = Spawned(InitialKind, None)
  /\ pending = TRUE
  /\ submitting = (mode = "prompt")
  /\ remoteCancel = FALSE
  /\ submissionUnknown = FALSE
  /\ cancellation = "Unavailable"
  /\ binding = None
  /\ taskSelected = (mode \in {"observe", "task"})
  /\ automatic = (mode \in {"observe", "prompt"})
  /\ observing = Observe
  /\ deadline = IF mode = "prompt" THEN "armed" ELSE "none"
  /\ status = "loading"
  /\ viewBinding = None
  /\ exited = FALSE
  /\ task \in [corr : Correlation,
               state : IF mode \in {"observe", "task"} THEN TaskStates
                                                       ELSE {"absent"}]
  /\ sends = IF mode = "prompt" THEN 1 ELSE 0
  /\ unreconciled = FALSE
-----------------------------------------------------------------------------
(***************************************************************************)
(* The remote task and the transport: everything that is not the loop.     *)
(***************************************************************************)
loopVars == <<mode, ui, screen, pending, effects, binding, taskSelected, watch,
              status, viewBinding, exited, history>>

Snapshot(corr, state) == [kind |-> "snapshot", corr |-> corr, state |-> state]

\* What the client makes of a reply: a refresh must match the binding it was
\* given, its run included; a cancellation must match it and report the task
\* canceled; both then carry the binding itself.
ClientResult(reply) ==
  CASE request.kind = "refresh" ->
         IF SameTask(request.target, reply.corr) /\ reply.corr.run = request.target.run
         THEN Snapshot(request.target, reply.state) ELSE Refused
    [] request.kind = "cancel" ->
         IF SameTask(request.target, reply.corr) /\ reply.state = "canceled"
         THEN Snapshot(request.target, reply.state) ELSE Refused
    [] OTHER -> reply

Concerns(corr) ==
  corr.context = task.corr.context /\ corr.run \in {NoRun, task.corr.run}

\* The states the task may be in once the server has served the request.
Afterwards ==
  CASE request.kind = "submit" -> TaskStates
    [] request.kind = "cancel" /\ task.state \in Active -> {task.state, "canceled"}
    [] OTHER -> {task.state}

\* The server serves the request and the effect, if any, takes place now.
\* The first answer about a task defines its binding; a later one may carry
\* a foreign correlation, which the client has to notice.
Serve ==
  /\ request.phase = "spawned"
  /\ \E after \in Afterwards, reply \in Snapshots \cup {Card} :
       /\ reply = Card <=> request.kind = "discover"
       /\ reply # Card /\ Concerns(reply.corr) => reply.state = after
       /\ request.kind \in {"submit", "get"} => Concerns(reply.corr)
       /\ task' = [task EXCEPT !.state = after]
       /\ request' = [request EXCEPT !.phase = "served", !.result = ClientResult(reply)]
  /\ UNCHANGED loopVars

\* The answer arrives and the spawned future is ready.
Deliver ==
  /\ request.phase = "served"
  /\ request' = [request EXCEPT !.phase = "done"]
  /\ UNCHANGED <<task, loopVars>>

\* Refusal, malformed or interrupted answer, or the client's own timeout,
\* before or after the effect took place.
Fail ==
  /\ request.phase \in {"spawned", "served"}
  /\ request' = [request EXCEPT !.phase = "done", !.result = Refused]
  /\ UNCHANGED <<task, loopVars>>

\* The task moves by itself or by another client until it is terminal; a
\* submission the client gave up on may still be admitted.
RemoteProgress ==
  /\ \/ task.state \in Active
     \/ task.state = "absent" /\ sends > 0 /\ request.phase \in {"done", "taken"}
  /\ \E next \in TaskStates \ {task.state} : task' = [task EXCEPT !.state = next]
  /\ UNCHANGED <<request, loopVars>>

ClockPassesDeadline ==
  /\ deadline = "armed"
  /\ deadline' = "passed"
  /\ UNCHANGED <<mode, ui, screen, request, pending, effects, binding, taskSelected,
                 automatic, observing, status, viewBinding, exited, task, history>>

\* The terminal changes size; the frame on screen is still the old one.
Resize ==
  /\ ~exited
  /\ fits' = ~fits
  /\ UNCHANGED <<mode, ui, frame, request, pending, effects, binding, taskSelected,
                 watch, status, viewBinding, exited, task, history>>
-----------------------------------------------------------------------------
(***************************************************************************)
(* Drawing.  Every turn of the loop starts by drawing, so every action of  *)
(* the loop ends with the frame of the state it leaves.                    *)
(***************************************************************************)
Draw ==
  /\ frame' = CASE composer'                               -> "composer"
                [] ~composer' /\ cancellation' = "Confirming" ->
                     (IF fits THEN "confirm" ELSE "cramped")
                [] OTHER -> IF overlay' = "none" THEN "task" ELSE overlay'
  /\ UNCHANGED <<fits, mode>>

Looping == ~exited

(***************************************************************************)
(* Interpreting a result: request_completed, completed_status,             *)
(* submission_completed, observation_continues.                            *)
(***************************************************************************)
Accepted(result) ==
  result.kind = "snapshot" /\ (binding = None \/ SameTask(binding, result.corr))

StatusOf(result) ==
  CASE result.kind = "snapshot"  -> IF Accepted(result) THEN result.state ELSE "error"
    [] result.kind = "card"      -> "card"
    [] result.kind = "cancelled" -> "localCanceled"
    [] OTHER                     -> "error"

Bind(result) ==
  binding' = IF binding = None /\ Accepted(result) THEN result.corr ELSE binding

RequestCompleted(result, cancelling) ==
  IF \/ cancelling /\ (binding = None \/ ~Accepted(result) \/ result.state # "canceled")
     \/ ~cancelling /\ cancellation = "Unknown" /\ ~Accepted(result)
  THEN /\ cancellation' = "Unknown"
       /\ status' = "cancellationUnknown"
       /\ UNCHANGED binding
  ELSE /\ cancellation' = IF Accepted(result) /\ result.state \in Active
                          THEN "Ready" ELSE "Unavailable"
       /\ status' = StatusOf(result)
       /\ Bind(result)

\* Mutant: the flags are set from the binding the loop had before the answer.
SubmissionFlagsFromOldBinding ==
  /\ taskSelected' = (binding # None)
  /\ submissionUnknown' = (binding = None)
  /\ submitting' = FALSE

SubmissionFlags ==
  /\ taskSelected' = (binding' # None)
  /\ submissionUnknown' = (binding' = None)
  /\ submitting' = FALSE

SubmissionCompleted(result) ==
  /\ IF result.kind = "snapshot"
     THEN RequestCompleted(result, FALSE)
     ELSE /\ cancellation' = "Unavailable"
          /\ status' = "submissionUnknown"
          /\ UNCHANGED binding
  /\ SubmissionFlags

Reconcile(result) == unreconciled' = (unreconciled /\ ~Accepted(result))

\* inspector.task_updated and details.task_updated: only an accepted task
\* read leaves them a binding.
ViewsUpdated(result) == viewBinding' = IF Accepted(result) THEN binding' ELSE None

\* Mutant: the flag that guards the handle is not cleared.
HandleTakenStillPending ==
  request' = [request EXCEPT !.phase = "taken"] /\ UNCHANGED pending

HandleTaken == request' = [request EXCEPT !.phase = "taken"] /\ pending' = FALSE

\* The select! arm of the request: the handle is consumed.
Complete ==
  /\ Looping /\ pending /\ request.phase = "done"
  /\ LET result == request.result IN
       /\ observing' = (automatic /\ Accepted(result) /\ result.state = "running")
       /\ IF submitting
          THEN SubmissionCompleted(result)
          ELSE /\ RequestCompleted(result, remoteCancel)
               /\ UNCHANGED <<taskSelected, submissionUnknown, submitting>>
       /\ ViewsUpdated(result)
       /\ Reconcile(result)
  /\ HandleTaken
  /\ UNCHANGED <<ui, remoteCancel, automatic, deadline, exited, task, sends>>
  /\ Draw

\* read_status: the bound task, else the selected one, else discovery.
ReadKind == IF binding # None THEN "refresh" ELSE IF taskSelected THEN "get" ELSE "discover"

\* Mutant: starting a read forgets that the cancellation is unknown.
ReadStartedForgets == cancellation' = "Unavailable"

\* Cancellation::read_started
ReadStarted == cancellation' = IF cancellation = "Unknown" THEN "Unknown" ELSE "Unavailable"

StartRead ==
  /\ request' = Spawned(ReadKind, binding)
  /\ pending' = TRUE
  /\ remoteCancel' = FALSE
  /\ ReadStarted

\* Mutants: a tick while a request is in flight, and a deadline that no longer
\* counts once the task asked for observation.
ObservationReadyWhilePending == observing /\ cancellation # "Confirming"
ObservationExpiredNever == deadline = "passed" /\ ~automatic

\* observation_ready, observation_expired and the observation tick: the deadline ends automatic
\* reads, otherwise the next one starts.
ObservationReady == observing /\ ~pending /\ cancellation # "Confirming"

ObservationExpired == deadline = "passed"

ObservationTick ==
  /\ Looping /\ ObservationReady
  /\ IF ObservationExpired
     THEN /\ observing' = FALSE
          /\ UNCHANGED <<request, pending, remoteCancel, cancellation>>
     ELSE StartRead /\ UNCHANGED observing
  /\ UNCHANGED <<ui, submitting, submissionUnknown, binding, taskSelected, automatic,
                 deadline, status, viewBinding, exited, task, history>>
  /\ Draw
-----------------------------------------------------------------------------
(***************************************************************************)
(* Keys.  The composer takes every key while it is open; an open log view  *)
(* or inspector takes every key unless the confirmation dialog is up.      *)
(***************************************************************************)
KeysReachTask == Looping /\ ~composer /\ (cancellation = "Confirming" \/ overlay = "none")

ComposerEscape ==
  /\ Looping /\ composer
  /\ composer' = FALSE
  /\ UNCHANGED <<canCompose, overlay, request, pending, effects, binding, taskSelected,
                 watch, status, viewBinding, exited, task, history>>
  /\ Draw

KeyP ==
  /\ Looping /\ ~composer /\ canCompose /\ overlay = "none"
  /\ composer' = TRUE
  /\ UNCHANGED <<canCompose, overlay, request, pending, effects, binding, taskSelected,
                 watch, status, viewBinding, exited, task, history>>
  /\ Draw

\* Mutant: the composer can be opened again.
ComposerClosedReopens == composer' = FALSE /\ UNCHANGED canCompose

ComposerClosed == composer' = FALSE /\ canCompose' = FALSE

\* Enter in the composer: whatever read is in flight is aborted and dropped.
ComposerSubmit ==
  /\ Looping /\ composer
  /\ request' = Spawned("submit", None)
  /\ ComposerClosed
  /\ submitting' = TRUE
  /\ pending' = TRUE
  /\ automatic' = TRUE
  /\ deadline' = "armed"
  /\ status' = "loading"
  /\ sends' = sends + 1
  /\ UNCHANGED <<overlay, remoteCancel, submissionUnknown, cancellation, binding,
                 taskSelected, observing, viewBinding, exited, task, unreconciled>>
  /\ Draw

OpenOverlay ==
  /\ Looping /\ ~composer /\ cancellation # "Confirming" /\ overlay = "none"
  /\ \/ overlay' = "logs"
     \/ overlay' = "inspector" /\ ~pending
  /\ UNCHANGED <<composer, canCompose, request, pending, effects, binding, taskSelected,
                 watch, status, viewBinding, exited, task, history>>
  /\ Draw

CloseOverlay ==
  /\ Looping /\ ~composer /\ cancellation # "Confirming" /\ overlay # "none"
  /\ overlay' = "none"
  /\ UNCHANGED <<composer, canCompose, request, pending, effects, binding, taskSelected,
                 watch, status, viewBinding, exited, task, history>>
  /\ Draw

\* What awaiting an aborted handle returns: the result if the request had
\* already finished, else a JoinError.
AbortedResult == IF request.phase = "done" THEN request.result ELSE Cancelled

\* c: cancel the local request.  A remote cancellation that was interrupted
\* is unknown whatever its handle returns.
KeyC ==
  /\ KeysReachTask /\ pending
  /\ LET result == AbortedResult IN
       CASE submitting -> SubmissionCompleted(result) /\ Reconcile(result)
         [] ~submitting /\ remoteCancel ->
              /\ cancellation' = "Unknown"
              /\ status' = "cancellationUnknown"
              /\ UNCHANGED <<binding, taskSelected, submissionUnknown, submitting, unreconciled>>
         [] OTHER ->
              /\ RequestCompleted(result, FALSE)
              /\ Reconcile(result)
              /\ UNCHANGED <<taskSelected, submissionUnknown, submitting>>
  /\ observing' = FALSE
  /\ viewBinding' = None
  /\ HandleTaken
  /\ UNCHANGED <<ui, remoteCancel, automatic, deadline, exited, task, sends>>
  /\ Draw

\* Mutant: r is not refused after an unknown submission.
ReadAllowedAlways == KeysReachTask /\ ~pending

ReadAllowed == KeysReachTask /\ ~pending /\ ~submissionUnknown

\* r: read again; it also leaves the confirmation dialog.
KeyR ==
  /\ ReadAllowed
  /\ StartRead
  /\ status' = "loading"
  /\ UNCHANGED <<ui, submitting, submissionUnknown, binding, taskSelected, watch,
                 viewBinding, exited, task, history>>
  /\ Draw

\* Mutant: --observe-task does not withhold the dialog.
ArmableInObservation == cancellation = "Ready" /\ ~pending

Armable == cancellation = "Ready" /\ ~pending /\ ~Observe

\* x, n / Escape: Cancellation::arm and Cancellation::dismiss.
KeyX ==
  /\ KeysReachTask /\ Armable
  /\ cancellation' = "Confirming"
  /\ UNCHANGED <<ui, request, pending, submitting, remoteCancel, submissionUnknown, binding,
                 taskSelected, watch, status, viewBinding, exited, task, history>>
  /\ Draw

KeyN ==
  /\ KeysReachTask /\ cancellation = "Confirming"
  /\ cancellation' = "Ready"
  /\ UNCHANGED <<ui, request, pending, submitting, remoteCancel, submissionUnknown, binding,
                 taskSelected, watch, status, viewBinding, exited, task, history>>
  /\ Draw

\* Mutant: the frame on screen is not consulted.
ConfirmVisibleUnseen == fits /\ cancellation = "Confirming"

\* confirm_visible: the dialog was in the frame on screen, it would still fit
\* now, and Cancellation::confirm finds it open.
ConfirmVisible == frame = "confirm" /\ fits /\ cancellation = "Confirming"

\* y: the one place a tasks/cancel request is spawned.
KeyY ==
  /\ KeysReachTask /\ ~Observe /\ ~pending /\ ConfirmVisible
  /\ cancellation' = "Pending"
  /\ IF binding # None
     THEN /\ request' = Spawned("cancel", binding)
          /\ pending' = TRUE
          /\ remoteCancel' = TRUE
          /\ status' = "loading"
          /\ unreconciled' = TRUE
     ELSE UNCHANGED <<request, pending, remoteCancel, status, unreconciled>>
  /\ UNCHANGED <<ui, submitting, submissionUnknown, binding, taskSelected, watch,
                 viewBinding, exited, task, sends>>
  /\ Draw

\* A resize event or any other key only draws again.
Redraw ==
  /\ Looping
  /\ UNCHANGED <<ui, request, pending, effects, binding, taskSelected, watch, status,
                 viewBinding, exited, task, history>>
  /\ Draw

\* q, Ctrl+C, or an input or drawing error: the loop ends, the request is
\* aborted, and an unfinished submission is awaited and reported.
Quit ==
  /\ Looping
  /\ exited' = TRUE
  /\ IF submitting
     THEN SubmissionCompleted(AbortedResult) /\ UNCHANGED remoteCancel
     ELSE UNCHANGED <<effects, binding, taskSelected, status>>
  /\ HandleTaken
  /\ UNCHANGED <<mode, ui, screen, watch, viewBinding, task, history>>
-----------------------------------------------------------------------------
Keys == \/ ComposerEscape \/ KeyP \/ ComposerSubmit \/ OpenOverlay \/ CloseOverlay
        \/ KeyC \/ KeyR \/ KeyX \/ KeyN \/ KeyY \/ Redraw \/ Quit

Environment == Serve \/ Deliver \/ Fail \/ RemoteProgress \/ ClockPassesDeadline \/ Resize

Next == Environment \/ Complete \/ ObservationTick \/ Keys

\* Requests end (every one has a client-side timeout), the clock advances, and
\* the loop takes a ready handle and a due tick: select! polls its arms in
\* random order, so a tick that keeps becoming ready is not passed over forever.
Fairness == /\ WF_vars(Deliver \/ Fail)
            /\ WF_vars(ClockPassesDeadline)
            /\ WF_vars(Complete)
            /\ SF_vars(ObservationTick)

Spec == Init /\ [][Next]_vars /\ Fairness
-----------------------------------------------------------------------------
(***************************************************************************)
(* Properties.                                                             *)
(***************************************************************************)
Requests == { r \in [kind : Kinds, target : Bindings, phase : Phases, result : Results] :
                r.kind \in {"refresh", "cancel"} => r.target # None }

\* The type of the state.
TypeOK ==
  /\ mode \in Modes
  /\ composer \in BOOLEAN /\ canCompose \in BOOLEAN
  /\ overlay \in {"none", "logs", "inspector"}
  /\ frame \in {"composer", "confirm", "cramped", "task", "logs", "inspector"}
  /\ fits \in BOOLEAN
  /\ request \in Requests
  /\ pending \in BOOLEAN /\ submitting \in BOOLEAN /\ remoteCancel \in BOOLEAN
  /\ submissionUnknown \in BOOLEAN
  /\ cancellation \in Cancellation
  /\ binding \in Bindings /\ viewBinding \in Bindings
  /\ taskSelected \in BOOLEAN /\ automatic \in BOOLEAN /\ observing \in BOOLEAN
  /\ deadline \in {"none", "armed", "passed"}
  /\ status \in Messages \cup TaskStates
  /\ exited \in BOOLEAN
  /\ task \in [corr : Correlation, state : TaskStates \cup {"absent"}]
  /\ sends \in Nat
  /\ unreconciled \in BOOLEAN

\* A JoinHandle may not be polled after it gave its result: the select! arm
\* and the final await of a submission reach the handle only while it is live.
HandleLive == /\ pending => request.phase # "taken"
              /\ submitting => pending

\* One process sends at most one message/send, however reads, keys, timeouts
\* and the reopened composer interleave.
AtMostOneSend == sends <= 1

\* The dialog is open only over a settled task: bound, nothing in flight, no
\* earlier cancellation unaccounted for, never in --observe-task.
DialogIsSafe ==
  cancellation = "Confirming" =>
    binding # None /\ ~pending /\ ~submitting /\ ~unreconciled /\ ~Observe

\* The submission's outcome is either a binding or announced as unknown, and
\* an unknown submission stops every read for good: nothing replaces the
\* announcement on screen and nothing resubmits.
SubmissionAccounted ==
  /\ sends > 0 /\ ~submitting => (submissionUnknown <=> binding = None)
  /\ submissionUnknown => ~pending /\ ~observing /\ status = "submissionUnknown"

\* After a cancellation was sent, and until an answer about the task has been
\* accepted, the loop says that the outcome is unknown whenever it is idle:
\* refused, lost, aborted or foreign answers and failed reads cannot hide it.
UnknownStaysVisible ==
  unreconciled /\ ~pending /\ ~exited =>
    cancellation = "Unknown" /\ status = "cancellationUnknown"

\* "Canceled" and the other final states are shown only if the task is there:
\* no foreign context, no lost answer and no race with the task's own progress
\* makes the loop report an end that did not happen.
FinalStatusIsTrue == status \in Terminal => task.state = status

\* Protected views are emptied with every refused, failed or aborted request
\* and never show a task other than the bound one.
ViewsFollowBinding ==
  /\ viewBinding # None => viewBinding = binding
  /\ status \in {"error", "localCanceled", "submissionUnknown"} => viewBinding = None

\* What holds while the composer may still be opened: only the Agent Card is
\* read, so no task can be bound.
ComposePhase ==
  /\ composer => canCompose
  /\ canCompose =>
       /\ sends = 0 /\ ~submitting /\ ~submissionUnknown /\ ~remoteCancel
       /\ binding = None /\ ~taskSelected /\ ~automatic /\ ~observing
       /\ cancellation = "Unavailable"
       /\ request.kind = "discover" /\ request.result.kind # "snapshot"

\* What holds while the submission is in flight.
SubmitPhase ==
  /\ submitting => /\ sends = 1 /\ request.kind = "submit" /\ ~canCompose
                   /\ binding = None /\ ~observing /\ ~submissionUnknown
                   /\ cancellation = "Unavailable"
  /\ pending /\ request.kind = "submit" => submitting
  /\ sends = 0 => ~submitting /\ ~submissionUnknown

\* How the stage of a cancellation, the handle and the binding go together.
CancelPhase ==
  /\ cancellation # "Unavailable" => binding # None
  /\ cancellation \in {"Ready", "Confirming"} => ~pending
  /\ cancellation = "Pending" /\ ~exited => pending /\ remoteCancel
  /\ cancellation = "Unknown" /\ ~pending /\ ~exited => status = "cancellationUnknown"
  /\ pending => (remoteCancel <=> request.kind = "cancel")
  /\ pending /\ remoteCancel => cancellation = "Pending"
  /\ unreconciled => cancellation \in {"Pending", "Unknown"}
  /\ Observe => cancellation # "Confirming"

\* The inductive invariant behind the safety properties: the three phases
\* exclude each other and fix what the single handle is carrying.
Phased == /\ TypeOK /\ HandleLive /\ AtMostOneSend /\ SubmissionAccounted
          /\ ComposePhase /\ SubmitPhase /\ CancelPhase

\* A tasks/cancel leaves the process only from a dialog that was on screen in
\* the last frame and still fits, for the bound task, with no request in
\* flight and no earlier cancellation unaccounted for.
CancelOnlyWhenSeen ==
  [][(request'.kind = "cancel" /\ request'.phase = "spawned" /\ request' # request) =>
       /\ frame = "confirm" /\ fits /\ ~Observe
       /\ ~pending /\ ~unreconciled
       /\ binding # None /\ request'.target = binding]_vars

\* A submission or cancellation in flight keeps the handle until it is done
\* or the user (or the exit) takes it: no tick and no key overwrites it.
EffectsKeepTheHandle ==
  [][(pending /\ request.kind \in {"submit", "cancel"}) =>
       /\ request'.kind = request.kind /\ request'.target = request.target
       /\ request'.phase = "spawned" => request.phase = "spawned"]_vars

\* Only the user closes the dialog: no automatic read and no late answer
\* takes it away or answers it.
DialogWaitsForTheUser ==
  [][(cancellation = "Confirming" /\ cancellation' # "Confirming") =>
       KeyN \/ KeyR \/ KeyY]_vars

\* Every request comes to an end, whatever the server does.
RequestsSettle == pending ~> ~pending

\* Automatic observation ends after its four hours unless a dialog pauses it.
ObservationEnds ==
  (observing /\ deadline = "passed") ~> (~observing \/ cancellation = "Confirming" \/ exited)

(***************************************************************************)
(* The loop implements the ledger of effects.                              *)
(***************************************************************************)
LedgerSubmission == IF submitting THEN "outstanding"
                    ELSE IF sends = 0 THEN "none"
                    ELSE IF submissionUnknown THEN "unknown" ELSE "acknowledged"

LedgerCancel == CASE cancellation = "Confirming" -> "asked"
                  [] cancellation = "Pending"    -> "outstanding"
                  [] cancellation = "Unknown"    -> "unknown"
                  [] OTHER                       -> "idle"

Ledger == INSTANCE EffectLedger WITH submission <- LedgerSubmission,
                                     cancel <- LedgerCancel,
                                     bound <- binding

\* Every behaviour of the loop is one of the ledger: one submission, sent
\* before any task is bound and settled once, an immutable binding, and
\* cancellations that are asked for, sent and settled one at a time.
ImplementsLedger == Ledger!Spec

\* The same without the ledger's fairness.
StepsOfLedger == Ledger!SafeSpec
=============================================================================
