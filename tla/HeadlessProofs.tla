--------------------------- MODULE HeadlessProofs ---------------------------
(***************************************************************************)
(* Proofs about the reads of a task and the headless mode that makes them, *)
(* for every limit, timer, task and run.  A read is sound because the      *)
(* replies it has are as many as its requests and all but the last were    *)
(* interruptions (Paced); a run is sound because every snapshot it holds   *)
(* tells a state of the task that it cannot leave (Truthful).              *)
(***************************************************************************)
EXTENDS Headless, TLAPS

\* One reply for each request, but for the one that is being made.
Paced ==
  /\ Len(replies) <= attempt
  /\ stage = "requesting" => Len(replies) + 1 = attempt
  /\ stage = "pausing" => Len(replies) = attempt /\ attempt < Attempts
  /\ Reading => result = Nothing

ReadInv == ReadTypeOK /\ Paced /\ RefusalIsFinal /\ SnapshotIsBound /\ GivingUpIsEarned

\* When a run reads, and which task.
Placed ==
  /\ step = "submitting" => submits
  /\ step = "first" => ~submits /\ bound = None
  /\ step = "sleeping" => bound # None
  /\ step = "reading" /\ submits => bound # None
  /\ Reading => step \in {"reading", "finished"} /\ target = bound

\* What a run holds is about the task; what it takes for its end is the end.
Truthful ==
  /\ bound # None => Concerns(bound)
  /\ step = "submitting" => result = Nothing
  /\ result.kind = "snapshot" =>
       /\ Concerns(result.corr)
       /\ result.state = "completed" => task.state = "completed"
  /\ step = "reading" /\ stage = "over" => target = bound

RunInv == RunTypeOK /\ ReadInv /\ Placed /\ ReadsAreBound /\ Truthful /\ SuccessIsCompletion
-----------------------------------------------------------------------------
(***************************************************************************)
(* One read.                                                               *)
(***************************************************************************)
LEMMA ResultsType ==
  /\ {Recoverable, Refused, Invalid, Nothing} \subseteq Results
  /\ \A corr \in Correlation, state \in TaskStates :
       [kind |-> "snapshot", state |-> state, corr |-> corr] \in Results
  /\ Recoverable.kind = "recoverable" /\ Refused.kind = "refused"
  /\ Invalid.kind = "invalid" /\ Nothing.kind = "nothing"
  BY DEF Results, Recoverable, Refused, Invalid, Nothing, Failure

LEMMA RepliesType ==
  /\ {Unreachable, Gateway, Denied, Malformed} \subseteq Replies
  /\ Unreachable.kind = "unreachable" /\ Gateway.kind = "gateway"
  /\ Denied.kind = "denied" /\ Malformed.kind = "malformed"
  /\ \A reply \in Replies : reply.kind \in {"unreachable", "gateway", "denied", "malformed", "task"}
  /\ \A reply \in Replies : reply.kind = "task" => reply \in Tasks
  BY DEF Replies, Tasks, Unreachable, Gateway, Denied, Malformed, Reply

\* What a reply means: only an interruption is recoverable, and a snapshot is
\* about the task that was asked for.
LEMMA ReadOnceMeans ==
  ASSUME target \in Bindings, NEW reply \in Replies
  PROVE  /\ ReadOnce(reply) \in Results
         /\ ReadOnce(reply) = Recoverable => reply.kind \in {"unreachable", "gateway"}
         /\ ReadOnce(reply).kind = "snapshot" =>
              /\ reply.kind = "task" /\ ReadOnce(reply).state = reply.state
              /\ EventFits(reply.event, ReadOnce(reply).corr)
              /\ target = None => ReadOnce(reply).corr = reply.corr
              /\ target # None => ReadOnce(reply).corr = target /\ reply.corr = target
<1>1. CASE reply.kind \in {"unreachable", "gateway"}
  <2>1. ReadOnce(reply) = Recoverable
    BY <1>1 DEF ReadOnce
  <2>2. QED
    BY <1>1, <2>1, ResultsType
<1>2. CASE reply.kind = "denied"
  <2>1. ReadOnce(reply) = Refused
    BY <1>2 DEF ReadOnce
  <2>2. QED
    BY <2>1, ResultsType DEF Refused, Recoverable, Failure
<1>3. CASE reply.kind = "malformed"
  <2>1. ReadOnce(reply) = Invalid
    BY <1>3 DEF ReadOnce
  <2>2. QED
    BY <2>1, ResultsType DEF Invalid, Recoverable, Failure
<1>4. CASE reply.kind = "task"
  <2> DEFINE corr == IF target = None THEN reply.corr ELSE target
             snapshot == [kind |-> "snapshot", state |-> reply.state, corr |-> corr]
  <2>1. reply \in Tasks
    BY <1>4, RepliesType
  <2>2. corr \in Correlation /\ reply.state \in TaskStates
    BY <2>1 DEF Tasks, Bindings
  <2>3. snapshot \in Results
    BY <2>2, ResultsType
  <2>4. CASE EventFits(reply.event, reply.corr) /\ TargetFits(reply)
    <3>1. ReadOnce(reply) = snapshot
      BY <1>4, <2>4 DEF ReadOnce
    <3>2. snapshot.kind = "snapshot" /\ snapshot.state = reply.state /\ snapshot.corr = corr
      OBVIOUS
    <3>3. snapshot # Recoverable
      BY <3>2, ResultsType
    <3>4. ASSUME target # None PROVE reply.corr = target /\ EventFits(reply.event, target)
      <4>1. /\ target.run = reply.corr.run /\ reply.corr.context = target.context
            /\ EventFits(reply.event, target)
        BY <2>4, <3>4 DEF TargetFits, SameTask
      <4>2. target \in Correlation /\ reply.corr \in Correlation
        BY <2>1, <3>4 DEF Bindings, Tasks
      <4>3. QED
        BY <4>1, <4>2 DEF Correlation
    <3>5. EventFits(reply.event, corr)
      BY <2>4, <3>4
    <3>6. target = None => corr = reply.corr
      OBVIOUS
    <3>7. target # None => corr = target
      OBVIOUS
    <3> HIDE DEF snapshot, corr
    <3>8. QED
      BY <1>4, <2>3, <3>1, <3>2, <3>3, <3>4, <3>5, <3>6, <3>7
  <2>5. CASE ~(EventFits(reply.event, reply.corr) /\ TargetFits(reply))
    <3>1. ReadOnce(reply) = Invalid
      BY <1>4, <2>5 DEF ReadOnce
    <3>2. QED
      BY <3>1, ResultsType DEF Invalid, Recoverable, Failure
  <2>6. QED
    BY <2>4, <2>5
<1>5. QED
  BY <1>1, <1>2, <1>3, <1>4, RepliesType

\* A new read has nothing to account for.
LEMMA StartKeeps ==
  ASSUME ReadInv, NEW binding \in Bindings, StartRead(binding) PROVE ReadInv'
<1>1. /\ stage' = "requesting" /\ target' = binding /\ attempt' = 1 /\ clock' = 0 /\ lap' = 0
      /\ result' = Nothing /\ replies' = <<>>
  BY DEF StartRead
<1>2. Nothing # Recoverable /\ Nothing.kind # "snapshot" /\ Nothing \in Results
  BY ResultsType
<1>3. Len(<<>>) = 0 /\ <<>> \in Seq(Replies) /\ Attempts \in Nat /\ Attempts >= 1 /\ TotalLimit \in Nat
  BY LimitsAssumption
<1>4. ReadTypeOK'
  BY <1>1, <1>2, <1>3 DEF ReadTypeOK
<1>5. Paced'
  BY <1>1, <1>3 DEF Paced
<1>6. RefusalIsFinal' /\ SnapshotIsBound' /\ GivingUpIsEarned'
  BY <1>1, <1>2, <1>3 DEF RefusalIsFinal, SnapshotIsBound, GivingUpIsEarned
<1>7. QED
  BY <1>4, <1>5, <1>6 DEF ReadInv

\* A request that is answered, or that times out.
LEMMA AnsweredKeeps ==
  ASSUME ReadInv, NEW reply \in Replies, stage = "requesting", Answered(reply)
  PROVE  ReadInv' /\ (stage' = "over" => result' = ReadOnce(reply)) /\ UNCHANGED target
                  /\ (stage' # "over" => result' = Nothing)
<1>1. /\ target \in Bindings /\ attempt \in 0..Attempts /\ attempt \in Nat /\ Attempts \in Nat
      /\ replies \in Seq(Replies) /\ Len(replies) + 1 = attempt /\ result = Nothing
      /\ clock \in 0..TotalLimit /\ lap \in 0..clock
  BY LimitsAssumption DEF ReadInv, ReadTypeOK, Paced, Reading
<1>2. /\ replies' = Append(replies, reply) /\ replies' \in Seq(Replies)
      /\ Len(replies') = attempt /\ replies'[Len(replies')] = reply
      /\ \A i \in 1..Len(replies) : replies'[i] = replies[i]
  BY <1>1 DEF Answered
<1>3. \A i \in 1..Len(replies) : replies[i].kind \in {"unreachable", "gateway"}
  BY <1>1 DEF ReadInv, RefusalIsFinal
<1>4. UNCHANGED <<target, clock, attempt>>
  BY DEF Answered, Finish
<1>5. CASE MoreAttempts(ReadOnce(reply))
  <2>1. stage' = "pausing" /\ lap' = 0 /\ UNCHANGED result
    BY <1>5 DEF Answered
  <2>2. attempt < Attempts /\ reply.kind \in {"unreachable", "gateway"}
    BY <1>1, <1>5, ReadOnceMeans DEF MoreAttempts
  <2>3. ReadTypeOK' /\ Paced'
    BY <1>1, <1>2, <1>4, <2>1, <2>2, ResultsType DEF ReadTypeOK, Paced, ReadInv
  <2>4. RefusalIsFinal'
    BY <1>1, <1>2, <1>3, <2>2 DEF RefusalIsFinal
  <2>5. SnapshotIsBound' /\ GivingUpIsEarned'
    BY <1>1, <2>1, ResultsType DEF SnapshotIsBound, GivingUpIsEarned
  <2>6. QED
    BY <1>1, <1>4, <2>1, <2>3, <2>4, <2>5 DEF ReadInv
<1>6. CASE ~MoreAttempts(ReadOnce(reply))
  <2>1. stage' = "over" /\ result' = ReadOnce(reply) /\ UNCHANGED lap
    BY <1>6 DEF Answered, Finish
  <2>2. ReadTypeOK' /\ Paced'
    BY <1>1, <1>2, <1>4, <2>1, ReadOnceMeans DEF ReadTypeOK, Paced, Reading
  <2>3. RefusalIsFinal'
    BY <1>1, <1>2, <1>3, <1>4, <2>1 DEF RefusalIsFinal
  <2>4. SnapshotIsBound'
    BY <1>1, <1>2, <1>4, <2>1, ReadOnceMeans DEF SnapshotIsBound, EventFits
  <2>5. GivingUpIsEarned'
    BY <1>1, <1>2, <1>6, <2>1 DEF GivingUpIsEarned, MoreAttempts
  <2>6. QED
    BY <1>4, <2>1, <2>2, <2>3, <2>4, <2>5 DEF ReadInv
<1>7. QED
  BY <1>5, <1>6

\* The pauses, the clock and the timeout of the whole read.
LEMMA WaitingKeeps ==
  ASSUME ReadInv, NextAttempt \/ TotalTimeout \/ Tick
  PROVE  /\ ReadInv' /\ UNCHANGED target /\ Reading
         /\ result' \in {Nothing, Recoverable}
<1>1. /\ Attempts \in Nat /\ TotalLimit \in Nat /\ attempt \in Nat /\ attempt <= Attempts
      /\ clock \in 0..TotalLimit /\ lap \in 0..clock /\ Len(replies) \in Nat
      /\ replies \in Seq(Replies)
  BY LimitsAssumption DEF ReadInv, ReadTypeOK
<1>2. Nothing \in Results /\ Recoverable \in Results /\ Nothing # Recoverable
      /\ Nothing.kind # "snapshot" /\ Recoverable.kind # "snapshot"
  BY ResultsType
<1>3. CASE NextAttempt
  <2>1. /\ stage = "pausing" /\ stage' = "requesting" /\ attempt' = attempt + 1 /\ lap' = 0
        /\ UNCHANGED <<target, clock, result, replies>>
    BY <1>3 DEF NextAttempt, PauseDue
  <2>2. Len(replies) = attempt /\ attempt < Attempts /\ result = Nothing
    BY <2>1 DEF ReadInv, Paced, Reading
  <2>3. ReadTypeOK' /\ Paced'
    BY <1>1, <2>1, <2>2 DEF ReadInv, ReadTypeOK, Paced
  <2>4. RefusalIsFinal'
    BY <1>1, <2>1, <2>2 DEF ReadInv, RefusalIsFinal
  <2>5. SnapshotIsBound' /\ GivingUpIsEarned'
    BY <1>2, <2>1, <2>2 DEF SnapshotIsBound, GivingUpIsEarned
  <2>6. QED
    BY <2>1, <2>2, <2>3, <2>4, <2>5 DEF ReadInv, Reading
<1>4. CASE TotalTimeout
  <2>1. /\ Reading /\ clock = TotalLimit /\ stage' = "over" /\ result' = Recoverable
        /\ UNCHANGED <<target, clock, attempt, lap, replies>>
    BY <1>4 DEF TotalTimeout, TotalDue, Finish
  <2>2. ReadTypeOK' /\ Paced'
    BY <1>1, <1>2, <2>1 DEF ReadInv, ReadTypeOK, Paced, Reading
  <2>3. RefusalIsFinal'
    BY <1>1, <2>1 DEF ReadInv, RefusalIsFinal
  <2>4. SnapshotIsBound' /\ GivingUpIsEarned'
    BY <1>2, <2>1 DEF SnapshotIsBound, GivingUpIsEarned
  <2>5. QED
    BY <2>1, <2>2, <2>3, <2>4 DEF ReadInv
<1>5. CASE Tick
  <2>1. /\ Reading /\ clock # TotalLimit /\ clock' = clock + 1 /\ lap' = lap + 1
        /\ UNCHANGED <<stage, target, attempt, result, replies>>
    BY <1>5 DEF Tick, TotalDue
  <2>2. clock' \in 0..TotalLimit /\ lap' \in 0..clock'
    BY <1>1, <2>1
  <2>3. ReadTypeOK' /\ Paced' /\ result = Nothing
    BY <2>1, <2>2 DEF ReadInv, ReadTypeOK, Paced, Reading
  <2>4. RefusalIsFinal' /\ SnapshotIsBound' /\ GivingUpIsEarned'
    BY <1>2, <2>1, <2>3 DEF ReadInv, RefusalIsFinal, SnapshotIsBound, GivingUpIsEarned
  <2>5. QED
    BY <2>1, <2>3, <2>4 DEF ReadInv
<1>6. QED
  BY <1>3, <1>4, <1>5

LEMMA ReadInitHolds == ReadInit => ReadInv
<1> SUFFICES ASSUME ReadInit PROVE ReadInv
  OBVIOUS
<1>1. Nothing \in Results /\ Nothing # Recoverable /\ Nothing.kind # "snapshot"
  BY ResultsType
<1>2. /\ <<>> \in Seq(Replies) /\ Len(<<>>) = 0 /\ None \in Bindings
      /\ Attempts \in Nat /\ TotalLimit \in Nat
  BY LimitsAssumption DEF Bindings
<1>3. QED
  BY <1>1, <1>2 DEF ReadInit, ReadInv, ReadTypeOK, Paced, Reading, RefusalIsFinal,
                    SnapshotIsBound, GivingUpIsEarned

LEMMA ReadSame == ReadInv /\ UNCHANGED readVars => ReadInv'
  BY DEF ReadInv, ReadTypeOK, Paced, Reading, RefusalIsFinal, SnapshotIsBound,
         GivingUpIsEarned, readVars, EventFits

LEMMA ReadStepKeeps == ReadInv /\ [Next]_readVars => ReadInv'
<1>1. ASSUME ReadInv, RequestTimeout PROVE ReadInv'
  BY <1>1, AnsweredKeeps, RepliesType DEF RequestTimeout, RequestDue
<1>2. ASSUME ReadInv, NEW reply \in Replies, RequestEnds(reply) PROVE ReadInv'
  BY <1>2, AnsweredKeeps DEF RequestEnds
<1>3. QED
  BY <1>1, <1>2, WaitingKeeps, StartKeeps, ReadSame DEF Next, ReadNext, Timers

LEMMA ReadInvariance == Spec => []ReadInv
  BY ReadInitHolds, ReadStepKeeps, PTL DEF Spec

\* A read costs at most its requests and its time, another request follows
\* only an interruption, giving up is earned by either limit, and a snapshot
\* is about the task and the run that were asked for.
THEOREM ReadsAreSound ==
  Spec => [](EffortBounded /\ RefusalIsFinal /\ GivingUpIsEarned /\ SnapshotIsBound)
<1>1. ReadInv => EffortBounded /\ RefusalIsFinal /\ GivingUpIsEarned /\ SnapshotIsBound
  BY LimitsAssumption DEF ReadInv, ReadTypeOK, Paced, EffortBounded
<1>2. QED
  BY <1>1, ReadInvariance, PTL
-----------------------------------------------------------------------------
(***************************************************************************)
(* The run.                                                                *)
(***************************************************************************)
\* Nothing is being read: the limits of the read are not in question.
LEMMA ReadRests ==
  ASSUME ReadInv, stage' = "idle", UNCHANGED <<target, attempt, clock, lap, result, replies>>
  PROVE  ReadInv'
  BY DEF ReadInv, ReadTypeOK, Paced, Reading, RefusalIsFinal, SnapshotIsBound,
         GivingUpIsEarned, EventFits

LEMMA RunInitHolds == RunInit => RunInv
<1> SUFFICES ASSUME RunInit PROVE RunInv
  OBVIOUS
<1>1. ReadInv /\ ~Reading /\ result = Nothing /\ stage = "idle"
  BY ReadInitHolds DEF RunInit, ReadInit, Reading
<1>2. task \in [corr : Correlation, state : TaskStates \cup {"absent"}]
  BY DEF RunInit
<1>3. RunTypeOK
  BY <1>1, <1>2 DEF RunInit, RunTypeOK, ReadInv, Bindings
<1>4. Placed /\ ReadsAreBound
  BY <1>1 DEF RunInit, Placed, ReadsAreBound
<1>5. Truthful /\ SuccessIsCompletion
  BY <1>1, ResultsType DEF RunInit, Truthful, SuccessIsCompletion
<1>6. QED
  BY <1>1, <1>3, <1>4, <1>5 DEF RunInv

\* The verdict on a state of the task: what Observe leaves.
LEMMA ObserveMeans ==
  ASSUME RunTypeOK, step # "finished", NEW binding, NEW corr, NEW state \in TaskStates,
         Observe(binding, corr, state)
  PROVE  /\ step' \in {"sleeping", "finished"}
         /\ printed' \in TaskStates \cup {"none"}
         /\ code' = "success" => state = "completed" /\ printed' = "completed"
         /\ code' \in {"none", "success", "failure"} /\ (code' # "none" <=> step' = "finished")
  BY DEF Observe, Verdict, Exit, RunTypeOK, TaskStates

LEMMA FirstStepsKeep ==
  ASSUME RunInv, FirstRead \/ Refresh PROVE RunInv'
<1>1. PICK binding \in Bindings :
        /\ StartRead(binding) /\ step' = "reading" /\ binding = bound
        /\ UNCHANGED <<submits, bound, printed, code, hours, task>>
        /\ (submits => bound # None) /\ step \in {"first", "sleeping"}
  BY DEF RunInv, Placed, FirstRead, Refresh, RunTypeOK, Bindings
<1>2. ReadInv'
  BY <1>1, StartKeeps DEF RunInv
<1>3. target' = bound /\ stage' = "requesting" /\ result' = Nothing
  BY <1>1 DEF StartRead
<1>4. RunTypeOK'
  BY <1>1, <1>2 DEF RunInv, RunTypeOK, ReadInv
<1>5. Placed' /\ ReadsAreBound'
  BY <1>1, <1>3 DEF Placed, ReadsAreBound
<1>6. Truthful' /\ SuccessIsCompletion'
  BY <1>1, <1>3, ResultsType DEF RunInv, Truthful, SuccessIsCompletion, Concerns
<1>7. QED
  BY <1>2, <1>4, <1>5, <1>6 DEF RunInv

LEMMA AdmittedKeeps == ASSUME RunInv, Admitted PROVE RunInv'
<1>1. PICK state \in TaskStates, corr \in Correlation, told \in TaskStates :
        /\ told \in {state, "running"}
        /\ task' = [task EXCEPT !.state = state] /\ Concerns(corr)
        /\ bound' = corr /\ Observe(corr, corr, told)
  BY DEF Admitted, TaskStates
<1>2. step = "submitting" /\ UNCHANGED <<readVars, submits, hours>>
  BY DEF Admitted
<1>3. told \in TaskStates /\ bound' # None /\ bound' \in Bindings
  BY <1>1, NoneAssumption DEF TaskStates, Bindings
<1>4. /\ step' \in {"sleeping", "finished"}
      /\ printed' \in TaskStates \cup {"none"}
      /\ code' = "success" => told = "completed" /\ printed' = "completed"
      /\ code' \in {"none", "success", "failure"} /\ (code' # "none" <=> step' = "finished")
  BY <1>1, <1>2, <1>3, ObserveMeans DEF RunInv
<1>5. /\ task' \in [corr : Correlation, state : TaskStates \cup {"absent"}]
      /\ task'.corr = task.corr /\ task'.state = state
  BY <1>1 DEF RunInv, RunTypeOK
<1>6. ReadInv' /\ ~Reading /\ ~Reading' /\ result' = result /\ result = Nothing
  BY <1>2, ReadSame DEF RunInv, Placed, Truthful, Reading, readVars
<1>7. RunTypeOK'
  BY <1>2, <1>3, <1>4, <1>5, <1>6 DEF RunInv, RunTypeOK, ReadInv
<1>8. Placed' /\ ReadsAreBound'
  BY <1>3, <1>4, <1>6 DEF Placed, ReadsAreBound
<1>9. Concerns(bound)'
  BY <1>1, <1>5 DEF Concerns
<1>10. Truthful'
  BY <1>4, <1>6, <1>9, ResultsType DEF Truthful
<1>11. SuccessIsCompletion'
  BY <1>1, <1>4, <1>5, <1>9 DEF SuccessIsCompletion
<1>12. QED
  BY <1>6, <1>7, <1>8, <1>10, <1>11 DEF RunInv

LEMMA EndsKeep == ASSUME RunInv, SubmissionUnknown \/ HoursPass PROVE RunInv'
<1>1. /\ step' = "finished" /\ code' = "failure" /\ hours' \in BOOLEAN
      /\ UNCHANGED <<readVars, submits, bound, printed>>
  BY DEF SubmissionUnknown, HoursPass, Exit, RunInv, RunTypeOK
<1>2. /\ task' \in [corr : Correlation, state : TaskStates \cup {"absent"}]
      /\ task'.corr = task.corr /\ (task' = task \/ step = "submitting")
  BY DEF SubmissionUnknown, HoursPass, RunInv, RunTypeOK
<1>3. ReadInv' /\ result' = result /\ Reading' = Reading /\ target' = target
  BY <1>1, ReadSame DEF RunInv, Reading, readVars
<1>4. RunTypeOK'
  BY <1>1, <1>2, <1>3 DEF RunInv, RunTypeOK, ReadInv
<1>5. Placed' /\ ReadsAreBound' /\ SuccessIsCompletion'
  BY <1>1, <1>3 DEF RunInv, Placed, ReadsAreBound, SuccessIsCompletion
<1>6. Truthful'
  <2>1. CASE step = "submitting"
    <3>1. result.kind # "snapshot"
      BY <2>1, ResultsType DEF RunInv, Truthful
    <3>2. QED
      BY <1>1, <1>2, <1>3, <3>1 DEF RunInv, Truthful, Concerns
  <2>2. CASE task' = task
    BY <1>1, <1>3, <2>2 DEF RunInv, Truthful, Concerns
  <2>3. QED
    BY <1>2, <2>1, <2>2
<1>7. QED
  BY <1>3, <1>4, <1>5, <1>6 DEF RunInv

\* The request of the run proceeds; an honest reply tells where the task is.
LEMMA ReadProceedsKeeps == ASSUME RunInv, ReadProceeds PROVE RunInv'
<1>1. step = "reading" /\ UNCHANGED <<step, submits, bound, printed, code, hours, task>>
  BY DEF ReadProceeds, runVars
<1>2. /\ ReadInv' /\ target' = target /\ Reading
      /\ \/ result'.kind # "snapshot"
         \/ \E reply \in Replies : Honest(reply) /\ result' = ReadOnce(reply)
  <2>1. ASSUME NEW reply \in Replies, stage = "requesting", Answered(reply)
        PROVE  /\ ReadInv' /\ target' = target /\ Reading
               /\ result'.kind # "snapshot" \/ result' = ReadOnce(reply)
    BY <2>1, AnsweredKeeps, ResultsType DEF RunInv, Reading
  <2>2. CASE RequestTimeout
    <3>1. Unreachable \in Replies /\ stage = "requesting" /\ Answered(Unreachable)
      BY <2>2, RepliesType DEF RequestTimeout, RequestDue
    <3>2. target \in Bindings
      BY DEF RunInv, ReadInv, ReadTypeOK
    <3>3. ReadOnce(Unreachable).kind # "snapshot"
      BY <3>1, <3>2, ReadOnceMeans, RepliesType
    <3>4. QED
      BY <2>1, <3>1, <3>3
  <2>3. CASE NextAttempt \/ TotalTimeout \/ Tick
    BY <2>3, WaitingKeeps, ResultsType DEF RunInv
  <2>4. CASE \E reply \in Replies : Honest(reply) /\ RequestEnds(reply)
    BY <2>1, <2>4 DEF RequestEnds
  <2>5. QED
    BY <2>2, <2>3, <2>4 DEF ReadProceeds, Timers
<1>3. RunTypeOK'
  BY <1>1, <1>2 DEF RunInv, RunTypeOK, ReadInv
<1>4. target = bound
  BY <1>2 DEF RunInv, Placed
<1>5. Placed' /\ ReadsAreBound' /\ SuccessIsCompletion'
  BY <1>1, <1>2, <1>4 DEF RunInv, Placed, ReadsAreBound, SuccessIsCompletion, Concerns
<1>6. ASSUME result'.kind = "snapshot"
      PROVE  Concerns(result'.corr) /\ (result'.state = "completed" => task.state = "completed")
  <2>1. PICK reply \in Replies : Honest(reply) /\ result' = ReadOnce(reply)
    BY <1>2, <1>6
  <2>2. /\ reply.kind = "task" /\ result'.state = reply.state
        /\ target = None => result'.corr = reply.corr
        /\ target # None => result'.corr = target /\ reply.corr = target
    BY <1>6, <2>1, ReadOnceMeans DEF RunInv, ReadInv, ReadTypeOK
  <2>3. Concerns(reply.corr) /\ result'.corr = reply.corr
    BY <1>4, <2>1, <2>2 DEF Honest, RunInv, Truthful
  <2>4. reply.state \in {task.state, "running"}
    BY <2>1, <2>2, <2>3 DEF Honest
  <2>5. QED
    BY <2>2, <2>3, <2>4
<1>7. Truthful'
  BY <1>1, <1>2, <1>4, <1>6 DEF RunInv, Truthful, Concerns
<1>8. QED
  BY <1>2, <1>3, <1>5, <1>7 DEF RunInv

LEMMA ReadReturnsKeeps == ASSUME RunInv, ReadReturns PROVE RunInv'
<1>1. /\ step = "reading" /\ stage = "over" /\ stage' = "idle"
      /\ UNCHANGED <<target, attempt, clock, lap, result, replies, submits, hours, task>>
  BY DEF ReadReturns
<1>2. ReadInv' /\ ~Reading'
  BY <1>1, ReadRests DEF RunInv, Reading
<1>3. CASE result.kind = "snapshot"
  <2>1. /\ bound' = IF bound = None THEN result.corr ELSE bound
        /\ Observe(bound', result.corr, result.state)
    BY <1>3 DEF ReadReturns
  <2>2. result.corr \in Correlation /\ result.state \in TaskStates
    BY <1>3, ResultsType DEF RunInv, ReadInv, ReadTypeOK, Results
  <2>3. bound' \in Bindings /\ bound' # None
    BY <2>1, <2>2, NoneAssumption DEF RunInv, RunTypeOK, Bindings
  <2>4. Concerns(bound') /\ (result.state = "completed" => task.state = "completed")
    BY <1>3, <2>1 DEF RunInv, Truthful
  <2>5. /\ step' \in {"sleeping", "finished"}
        /\ printed' \in TaskStates \cup {"none"}
        /\ code' = "success" => result.state = "completed" /\ printed' = "completed"
        /\ code' \in {"none", "success", "failure"} /\ (code' # "none" <=> step' = "finished")
    BY <1>1, <2>1, <2>2, ObserveMeans DEF RunInv
  <2>6. RunTypeOK'
    BY <1>1, <1>2, <2>3, <2>5 DEF RunInv, RunTypeOK, ReadInv
  <2>7. Placed' /\ ReadsAreBound'
    BY <1>2, <2>3, <2>5 DEF Placed, ReadsAreBound
  <2>8. Truthful' /\ SuccessIsCompletion'
    BY <1>1, <2>4, <2>5 DEF RunInv, Truthful, SuccessIsCompletion, Concerns
  <2>9. QED
    BY <1>2, <2>6, <2>7, <2>8 DEF RunInv
<1>4. CASE result.kind # "snapshot"
  <2>1. step' = "finished" /\ code' = "failure" /\ UNCHANGED <<bound, printed>>
    BY <1>4 DEF ReadReturns, Exit
  <2>2. RunTypeOK'
    BY <1>1, <1>2, <2>1 DEF RunInv, RunTypeOK, ReadInv
  <2>3. Placed' /\ ReadsAreBound' /\ Truthful' /\ SuccessIsCompletion'
    BY <1>1, <1>2, <1>4, <2>1
       DEF RunInv, Placed, ReadsAreBound, Truthful, SuccessIsCompletion, Concerns
  <2>4. QED
    BY <1>2, <2>2, <2>3 DEF RunInv
<1>5. QED
  BY <1>3, <1>4

\* The task moves on, but not from an end.
LEMMA RemoteProgressKeeps == ASSUME RunInv, RemoteProgress PROVE RunInv'
<1>1. /\ task.state \in {"running", "blocked"}
      /\ UNCHANGED <<readVars, step, submits, bound, printed, code, hours>>
  BY DEF RemoteProgress
<1>2. /\ task' \in [corr : Correlation, state : TaskStates \cup {"absent"}]
      /\ task'.corr = task.corr
  BY DEF RemoteProgress, RunInv, RunTypeOK
<1>3. ReadInv' /\ result' = result /\ Reading' = Reading /\ target' = target /\ stage' = stage
  BY <1>1, ReadSame DEF RunInv, Reading, readVars
<1>4. RunTypeOK' /\ Placed' /\ ReadsAreBound'
  BY <1>1, <1>2, <1>3 DEF RunInv, RunTypeOK, ReadInv, Placed, ReadsAreBound
<1>5. Truthful' /\ SuccessIsCompletion'
  BY <1>1, <1>2, <1>3 DEF RunInv, Truthful, SuccessIsCompletion, Concerns
<1>6. QED
  BY <1>3, <1>4, <1>5 DEF RunInv

LEMMA RunStepKeeps == RunInv /\ [RunNext]_allVars => RunInv'
<1>1. ASSUME RunInv, UNCHANGED allVars PROVE RunInv'
  <2>1. ReadInv' /\ Reading' = Reading
    BY <1>1, ReadSame DEF RunInv, allVars, Reading, readVars
  <2>2. RunTypeOK' /\ Placed' /\ ReadsAreBound'
    BY <1>1, <2>1 DEF RunInv, RunTypeOK, ReadInv, Placed, ReadsAreBound, allVars, runVars,
                      readVars
  <2>3. Truthful' /\ SuccessIsCompletion'
    BY <1>1 DEF RunInv, Truthful, SuccessIsCompletion, Concerns, allVars, runVars, readVars
  <2>4. QED
    BY <2>1, <2>2, <2>3 DEF RunInv
<1>2. QED
  BY <1>1, AdmittedKeeps, EndsKeep, FirstStepsKeep, ReadProceedsKeeps, ReadReturnsKeeps,
     RemoteProgressKeeps DEF RunNext

LEMMA RunInvariance == RunSpec => []RunInv
  BY RunInitHolds, RunStepKeeps, PTL DEF RunSpec

\* What the reads of a run spend on the server, and when.
THEOREM RunRetriesAreEarned == RunSpec => []RetriesAreEarned
<1>1. RunInv => RetriesAreEarned
  BY LimitsAssumption
     DEF RunInv, RunTypeOK, ReadInv, ReadTypeOK, Paced, RetriesAreEarned, EffortBounded
<1>2. QED
  BY <1>1, RunInvariance, PTL

\* Success is reported only if the bound task itself is completed.
THEOREM SuccessMeansCompletion == RunSpec => []SuccessIsCompletion
<1>1. RunInv => SuccessIsCompletion
  BY DEF RunInv
<1>2. QED
  BY <1>1, RunInvariance, PTL

\* Every read asks about the task the user has, and returns what it asked about.
THEOREM RunReadsStayBound == RunSpec => []ReadsStayBound
<1>1. RunInv => ReadsStayBound
  BY DEF RunInv, ReadInv, ReadsStayBound
<1>2. QED
  BY <1>1, RunInvariance, PTL
=============================================================================
