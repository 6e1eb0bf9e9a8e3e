------------------------------ MODULE Headless ------------------------------
(***************************************************************************)
(* The headless mode: `run` of native/tuig/src/headless.rs over the reads  *)
(* of TaskRead.  It submits one task, or takes one by its identifier, and  *)
(* reads it every half second until it can decide the exit code.           *)
(***************************************************************************)
EXTENDS TaskRead

VARIABLES
  step,      \* submitting, reading, sleeping or finished
  submits,   \* a submission was given
  bound,     \* binding
  printed,   \* the task state in the last line written, or none
  code,      \* the exit code: none, success or failure
  hours,     \* the four hours of the observation have passed
  task       \* the remote task

runVars == <<step, submits, bound, printed, code, hours, task>>
allVars == <<readVars, runVars>>

Exit(value) == step' = "finished" /\ code' = value

Concerns(corr) ==
  corr.context = task.corr.context /\ corr.run \in {NoRun, task.corr.run}

\* A reply about the task tells its state, or an earlier one it has left.
Honest(reply) ==
  reply.kind = "task" =>
    /\ target = None => Concerns(reply.corr)
    /\ Concerns(reply.corr) => reply.state \in {task.state, "running"}

RunInit ==
  /\ ReadInit
  /\ submits \in BOOLEAN
  /\ step = IF submits THEN "submitting" ELSE "first"
  /\ bound = None /\ printed = "none" /\ code = "none" /\ hours = FALSE
  /\ task \in [corr : Correlation, state : IF submits THEN {"absent"} ELSE TaskStates]

\* Mutant: every final state is a success.
VerdictIfFinal(state) ==
  CASE state = "running"                       -> "none"
    [] state \in {"completed", "unsuccessful"} -> "success"
    [] OTHER                                   -> "failure"

\* result: only a completed task is a success; one that waits for input,
\* approval or authentication is not answered.
Verdict(state) ==
  CASE state = "running"   -> "none"
    [] state = "completed" -> "success"
    [] OTHER               -> "failure"

\* The body of the loop, from the checks of the binding to the sleep.  A line
\* is written if it differs from the last one, and that may fail.
Observe(binding, corr, state) ==
  \/ /\ SameTask(binding, corr)
     /\ printed' = state
     /\ IF Verdict(state) = "none" THEN step' = "sleeping" /\ UNCHANGED code
                                   ELSE Exit(Verdict(state))
  \/ Exit("failure") /\ UNCHANGED printed

\* The one submission: admitted with a binding, or unknown.  The server may
\* have admitted it in either case.
Admitted ==
  /\ step = "submitting"
  /\ \E state \in TaskStates :
       /\ task' = [task EXCEPT !.state = state]
       /\ \E corr \in {c \in Correlation : Concerns(c)}, told \in {state, "running"} :
            bound' = corr /\ Observe(corr, corr, told)
  /\ UNCHANGED <<readVars, submits, hours>>

\* Mutant: an unknown submission is read as if it had been admitted.
UnknownReads ==
  /\ step = "submitting"
  /\ step' = "first"
  /\ UNCHANGED <<readVars, submits, bound, printed, code, hours, task>>

SubmissionUnknown ==
  /\ step = "submitting"
  /\ \E state \in TaskStates \cup {"absent"} : task' = [task EXCEPT !.state = state]
  /\ Exit("failure")
  /\ UNCHANGED <<readVars, submits, bound, printed, hours>>

\* get_task, and refresh_task after half a second.
FirstRead ==
  /\ step = "first"
  /\ StartRead(None)
  /\ step' = "reading"
  /\ UNCHANGED <<submits, bound, printed, code, hours, task>>

Refresh ==
  /\ step = "sleeping"
  /\ StartRead(bound)
  /\ step' = "reading"
  /\ UNCHANGED <<submits, bound, printed, code, hours, task>>

ReadProceeds ==
  /\ step = "reading"
  /\ Timers \/ Tick \/ \E reply \in Replies : Honest(reply) /\ RequestEnds(reply)
  /\ UNCHANGED runVars

ReadReturns ==
  /\ step = "reading" /\ stage = "over"
  /\ IF result.kind = "snapshot"
     THEN /\ bound' = IF bound = None THEN result.corr ELSE bound
          /\ Observe(bound', result.corr, result.state)
     ELSE Exit("failure") /\ UNCHANGED <<bound, printed>>
  /\ stage' = "idle"
  /\ UNCHANGED <<target, attempt, clock, lap, result, replies, submits, hours, task>>

\* Mutant: there is no time limit around the observation.
HoursPassNever == FALSE /\ UNCHANGED allVars

HoursPass ==
  /\ step # "finished"
  /\ hours' = TRUE
  /\ Exit("failure")
  /\ UNCHANGED <<readVars, submits, bound, printed, task>>

RemoteProgress ==
  /\ task.state \in {"running", "blocked"}
  /\ \E state \in TaskStates \ {task.state} : task' = [task EXCEPT !.state = state]
  /\ UNCHANGED <<readVars, step, submits, bound, printed, code, hours>>

RunNext == \/ Admitted \/ SubmissionUnknown \/ FirstRead \/ Refresh \/ ReadProceeds
           \/ ReadReturns \/ HoursPass \/ RemoteProgress

\* The four hours pass.  Nothing else is needed for the process to end.
RunSpec == RunInit /\ [][RunNext]_allVars /\ WF_allVars(HoursPass)
-----------------------------------------------------------------------------
(***************************************************************************)
(* Properties.                                                             *)
(***************************************************************************)
\* The type of the state.
RunTypeOK ==
  /\ ReadTypeOK
  /\ step \in {"submitting", "first", "reading", "sleeping", "finished"}
  /\ submits \in BOOLEAN /\ hours \in BOOLEAN
  /\ bound \in Bindings
  /\ printed \in TaskStates \cup {"none"}
  /\ code \in {"none", "success", "failure"} /\ (code # "none" <=> step = "finished")
  /\ task \in [corr : Correlation, state : TaskStates \cup {"absent"}]

\* What the reads of a run spend on the server, and when.
RetriesAreEarned == RunTypeOK /\ EffortBounded /\ RefusalIsFinal /\ GivingUpIsEarned

\* Success is reported only if the bound task itself is completed: no stale or
\* foreign reply, lost answer or other final state is taken for it.
SuccessIsCompletion ==
  code = "success" => task.state = "completed" /\ printed = "completed" /\ Concerns(bound)

\* Every read is of the admitted task: none follows a submission whose outcome
\* is unknown, and after the first reply none may change context or run.
ReadsAreBound ==
  Reading => /\ submits => bound # None
             /\ target = bound

\* A read asks about the task the user has, and returns what it asked about.
ReadsStayBound == ReadsAreBound /\ SnapshotIsBound

\* The process ends, whatever the server does.
ObservationEnds == <>(step = "finished")
=============================================================================
