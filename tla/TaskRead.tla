------------------------------ MODULE TaskRead ------------------------------
(***************************************************************************)
(* One read of a remote task: ArboraClient::read_task and read_task_once   *)
(* of native/tuig/src/recovery.rs.  A read is up to three tasks/get        *)
(* requests with growing pauses between them, within twelve seconds; only  *)
(* an interrupted request is followed by another.                          *)
(*                                                                         *)
(* Time is counted in steps; the limits are the code's up to scale.        *)
(***************************************************************************)
EXTENDS Naturals, Sequences, TaskCorrelation

CONSTANTS Attempts,      \* requests one read may make, 3 in the code
          RequestLimit,  \* the HTTP client's timeout, 10 s
          TotalLimit,    \* the timeout around the whole read, 12 s
          Pause          \* the first pause, 0.1 s; it doubles

ASSUME LimitsAssumption ==
  /\ Attempts \in Nat \ {0}
  /\ RequestLimit \in Nat \ {0} /\ TotalLimit \in Nat \ {0} /\ Pause \in Nat \ {0}

VARIABLES
  stage,    \* idle, requesting, pausing or over
  target,   \* the binding given to read_task, or None
  attempt,  \* requests made so far
  clock,    \* time since the read began
  lap,      \* time since the request or the pause began
  result,   \* what read_task returns
  replies   \* history: what the server answered to each request

readVars == <<stage, target, attempt, clock, lap, result, replies>>

TaskStates == {"running", "blocked", "completed", "unsuccessful"}

\* The states of a task that can be settled by a committed terminal event are
\* the terminal ones; the event names its run.
Reply(kind, corr, state, event) ==
  [kind |-> kind, corr |-> corr, state |-> state, event |-> event]

\* No answer, 502 to 504, another refusal, or an answer that cannot be used.
Unreachable == Reply("unreachable", None, "none", NoRun)
Gateway     == Reply("gateway",     None, "none", NoRun)
Denied      == Reply("denied",      None, "none", NoRun)
Malformed   == Reply("malformed",   None, "none", NoRun)

Tasks == [kind : {"task"}, corr : Correlation, state : TaskStates, event : Runs \cup {NoRun}]

Replies == Tasks \cup {Unreachable, Gateway, Denied, Malformed}

Failure(why) == [kind |-> why, corr |-> None, state |-> "none"]
Recoverable  == Failure("recoverable")
Refused      == Failure("refused")
Invalid      == Failure("invalid")
Nothing      == Failure("nothing")

Results == {Recoverable, Refused, Invalid, Nothing}
             \cup [kind : {"snapshot"}, corr : Correlation, state : TaskStates]

\* TerminalEvent::validate_binding
EventFits(event, corr) == event \in {NoRun, corr.run}

\* Mutant: a binding without a run takes any.
TargetFitsLoosely(reply) ==
  target # None => SameTask(target, reply.corr) /\ EventFits(reply.event, target)

\* A bound read wants the very run, the task and an event of that run.
TargetFits(reply) ==
  target # None =>
    /\ target.run = reply.corr.run
    /\ SameTask(target, reply.corr)
    /\ EventFits(reply.event, target)

\* read_task_once, from the reply to the result; parsing the task refuses an
\* event of another run.
ReadOnce(reply) ==
  CASE reply.kind \in {"unreachable", "gateway"} -> Recoverable
    [] reply.kind = "denied"                     -> Refused
    [] reply.kind = "malformed"                  -> Invalid
    [] OTHER ->
         IF EventFits(reply.event, reply.corr) /\ TargetFits(reply)
         THEN [kind |-> "snapshot", state |-> reply.state,
               corr |-> IF target = None THEN reply.corr ELSE target]
         ELSE Invalid

ReadInit ==
  /\ stage = "idle" /\ target = None
  /\ attempt = 0 /\ clock = 0 /\ lap = 0
  /\ result = Nothing /\ replies = <<>>

StartRead(binding) ==
  /\ stage' = "requesting"
  /\ target' = binding
  /\ attempt' = 1 /\ clock' = 0 /\ lap' = 0
  /\ result' = Nothing /\ replies' = <<>>

Finish(value) ==
  /\ stage' = "over" /\ result' = value
  /\ UNCHANGED <<target, clock, attempt, lap>>

\* Mutants: one request too few, one after every failure.
MoreAttemptsLess(value) == value = Recoverable /\ attempt + 1 < Attempts
MoreAttemptsAlways(value) == value.kind # "snapshot" /\ attempt < Attempts

MoreAttempts(value) == value = Recoverable /\ attempt < Attempts

\* What follows a request: a pause and another one, or the end.
Answered(reply) ==
  /\ replies' = Append(replies, reply)
  /\ IF MoreAttempts(ReadOnce(reply))
     THEN /\ stage' = "pausing" /\ lap' = 0
          /\ UNCHANGED <<target, clock, attempt, result>>
     ELSE Finish(ReadOnce(reply))

RequestEnds(reply) == stage = "requesting" /\ Answered(reply)

Reading == stage \in {"requesting", "pausing"}

Doubled == [n \in 0..Attempts |-> Pause * 2 ^ n]

RequestDue == stage = "requesting" /\ lap = RequestLimit
PauseDue   == stage = "pausing" /\ lap = Doubled[attempt - 1]

\* Mutant: the timeout covers each request and not the whole read.
TotalDueNever == FALSE

TotalDue == Reading /\ clock = TotalLimit

RequestTimeout == RequestDue /\ Answered(Unreachable)

NextAttempt ==
  /\ PauseDue
  /\ stage' = "requesting" /\ attempt' = attempt + 1 /\ lap' = 0
  /\ UNCHANGED <<target, clock, result, replies>>

TotalTimeout == TotalDue /\ Finish(Recoverable) /\ UNCHANGED replies

\* Time does not pass a timer that is due.
Tick ==
  /\ Reading /\ ~RequestDue /\ ~PauseDue /\ ~TotalDue
  /\ clock' = clock + 1 /\ lap' = lap + 1
  /\ UNCHANGED <<stage, target, attempt, result, replies>>

Timers == RequestTimeout \/ NextAttempt \/ TotalTimeout

ReadNext == Timers \/ Tick \/ \E reply \in Replies : RequestEnds(reply)

ReadFairness == WF_readVars(Timers) /\ WF_readVars(Tick)

\* Reads alone, one after the other.
Next == \/ ReadNext
        \/ ~Reading /\ \E binding \in Bindings : StartRead(binding)

Spec == ReadInit /\ [][Next]_readVars /\ ReadFairness
-----------------------------------------------------------------------------
(***************************************************************************)
(* Properties.                                                             *)
(***************************************************************************)
\* The type of the state.
ReadTypeOK ==
  /\ stage \in {"idle", "requesting", "pausing", "over"}
  /\ target \in Bindings
  /\ attempt \in 0..Attempts
  /\ clock \in 0..TotalLimit /\ lap \in 0..clock
  /\ result \in Results
  /\ replies \in Seq(Replies)

\* A read costs at most three requests and twelve seconds, however slowly and
\* in whatever way they fail.
EffortBounded == Len(replies) <= attempt /\ attempt <= Attempts /\ clock <= TotalLimit

\* Only an interrupted request is followed by another: a refusal, an invalid
\* or foreign answer and a good one are final.
RefusalIsFinal ==
  \A i \in 1..Len(replies) :
    (i < attempt \/ stage = "pausing") => replies[i].kind \in {"unreachable", "gateway"}

\* A snapshot that a bound read returns is about the bound task and run, and
\* the terminal event it may carry too; it came from the last request.
SnapshotIsBound ==
  result.kind = "snapshot" =>
    LET last == replies[Len(replies)] IN
      /\ last.kind = "task" /\ result.state = last.state
      /\ EventFits(last.event, result.corr)
      /\ target = None => result.corr = last.corr
      /\ target # None => result.corr = target /\ last.corr = target

\* A read that gives up was interrupted each time, or ran out of time.
GivingUpIsEarned ==
  result = Recoverable =>
    (Len(replies) = Attempts \/ clock = TotalLimit)

\* Requirement R002.1.4: a known run is kept if a later snapshot omits it.
KnownRunIsKept ==
  (stage = "over" /\ replies # <<>> /\ target # None) =>
    LET last == replies[Len(replies)] IN
      (last.kind = "task" /\ SameTask(target, last.corr) /\ last.event = NoRun) =>
        result.kind = "snapshot"
=============================================================================
