---------------------------- MODULE LocalSession ----------------------------
(***************************************************************************)
(* The local conversation: native/tuig/src/local_session.rs with the ACP   *)
(* text client (acp.rs) and the owned backend process (local_runtime.rs).  *)
(*                                                                         *)
(* Two tasks share one thread.  The user interface reads keys and the      *)
(* display queue; the worker owns the backend and runs one turn after the  *)
(* other.  They share a command queue of one, a bounded display queue and  *)
(* the watch flags `cancel` and `quit`.  The backend is a child process    *)
(* behind two pipes; it may be slow, break the protocol, exit or hang.     *)
(*                                                                         *)
(* A turn is named by its number, which is also its request identifier.    *)
(***************************************************************************)
EXTENDS Naturals, Sequences, SequencesExt

CONSTANTS TurnLimit,    \* TURN_LIMIT, 64 in the code
          DisplayCap,   \* capacity of the display queue, 16 in the code
          ChunkLimit    \* bound: chunks in the pipe from the backend

ASSUME LimitsAssumption ==
  TurnLimit \in Nat \ {0} /\ DisplayCap \in Nat \ {0} /\ ChunkLimit \in Nat

VARIABLES
  ui,          \* the user interface: running, quitting (awaits the worker), done
  composing,   \* composer.open
  ready,       \* ready: the next turn may be submitted
  active,      \* active: a turn is running
  starting,    \* starting: no Ready has been shown yet
  initial,     \* a prompt was given on the command line
  workerDone,  \* worker_done
  told,        \* the turn the display is at
  report,      \* what run_ui returns: its loop's result and the worker's
  command,     \* the command queue: <<>> or the one turn submitted
  display,     \* the display queue of Text and Ready updates
  cancel,      \* the cancel flag
  quit,        \* the quit flag
  phase,       \* where the worker is
  turn,        \* the last turn the worker has taken
  pending,     \* TextClient.pending: a request has no response yet
  turnReady,   \* TextClient.turn_ready
  partial,     \* TextClient.frame holds a part of a frame
  outcome,     \* the result of session
  closable,    \* close_supported
  toBackend,   \* the pipe to the backend
  toClient,    \* the pipe from the backend
  working,     \* the turn the backend is running, 0 if none
  child,       \* the child process
  asked,       \* history: the turn in which the user asked to cancel
  acked        \* history: the last turn whose own acknowledgement was read

screen   == <<composing, ready, active, starting, initial, workerDone, told, report>>
queues   == <<command, display>>
signals  == <<cancel, quit>>
client   == <<pending, turnReady, partial>>
worker   == <<phase, turn, outcome, closable>>
pipes    == <<toBackend, toClient>>
backend  == <<working, child>>
vars == <<ui, screen, queues, signals, client, worker, pipes, backend, asked, acked>>

Turns  == 1..TurnLimit
Phases == {"init", "announce", "wait", "prompt", "respond", "cancel", "drain",
           "close", "closing", "reap", "over"}

Chunk(t)        == [kind |-> "chunk",  turn |-> t, reason |-> "none"]
Stop(t, reason) == [kind |-> "stop",   turn |-> t, reason |-> reason]
Part            == [kind |-> "part",   turn |-> 0, reason |-> "none"]
Alien           == [kind |-> "alien",  turn |-> 0, reason |-> "none"]
Closed          == [kind |-> "closed", turn |-> 0, reason |-> "none"]
Prompt(t)       == [kind |-> "prompt", turn |-> t]
Cancel(t)       == [kind |-> "cancel", turn |-> t]
Close           == [kind |-> "close",  turn |-> 0]
Torn            == [kind |-> "torn",   turn |-> 0]
Text(t)         == [kind |-> "text",   turn |-> t]
Ready(t)        == [kind |-> "ready",  turn |-> t]

Acknowledged == {"end_turn", "cancelled"}
Reasons      == Acknowledged \cup {"other", "error"}

\* spawn_backend succeeded; a failure before it starts nothing.
Init ==
  /\ ui = "running"
  /\ composing = FALSE /\ ready = FALSE /\ active = FALSE /\ starting = TRUE
  /\ initial \in BOOLEAN
  /\ workerDone = FALSE /\ told = 0 /\ report = "none"
  /\ command = <<>> /\ display = <<>>
  /\ cancel = FALSE /\ quit = FALSE
  /\ phase = "init" /\ turn = 0 /\ outcome = "ok" /\ closable = FALSE
  /\ pending = FALSE /\ turnReady = TRUE /\ partial = FALSE
  /\ toBackend = <<>> /\ toClient = <<>>
  /\ working = 0 /\ child = "running"
  /\ asked = 0 /\ acked = 0
-----------------------------------------------------------------------------
(***************************************************************************)
(* The backend process.                                                    *)
(***************************************************************************)
backendOnly == <<ui, screen, queues, signals, client, worker, asked, acked>>

Running == child = "running"

\* What it writes is lost once the client has dropped its end.
Write(messages) ==
  toClient' = IF phase \in {"reap", "over"} THEN toClient ELSE toClient \o messages

\* It reads its next message; a cancellation ends the turn it is running, if
\* any, now or later.  Behind a message that was torn nothing can be read.
BackendReads ==
  /\ Running /\ toBackend # <<>>
  /\ LET m == Head(toBackend) IN
       /\ toBackend' = Tail(toBackend)
       /\ \/ m.kind = "prompt" /\ working' = m.turn /\ UNCHANGED toClient
          \/ m.kind = "cancel" /\ UNCHANGED <<working, toClient>>
          \/ m.kind = "cancel" /\ working # 0 /\ working' = 0
             /\ Write(<<Stop(working, "cancelled")>>)
          \/ m.kind = "close" /\ Write(<<Closed>>)
             /\ UNCHANGED working
  /\ UNCHANGED <<child, backendOnly>>

\* Text of the running turn, whole or up to the middle of a frame.
BackendSpeaks ==
  /\ Running /\ working # 0 /\ Len(toClient) < ChunkLimit
  /\ \/ Write(<<Chunk(working)>>)
     \/ Write(<<Part, Chunk(working)>>)
  /\ UNCHANGED <<toBackend, working, child, backendOnly>>

\* The turn is over, with whatever reason or with an error.
BackendStops ==
  /\ Running /\ working # 0
  /\ \E reason \in Reasons : Write(<<Stop(working, reason)>>)
  /\ working' = 0
  /\ UNCHANGED <<toBackend, child, backendOnly>>

\* A broken backend repeats an old answer, asks for a capability, exceeds a
\* limit, sends something unreadable, or only the beginning of a frame.
BackendStrays ==
  /\ Running /\ Len(toClient) < ChunkLimit
  /\ \/ acked > 0 /\ Write(<<Stop(acked, "end_turn")>>)
     \/ Write(<<Alien>>)
     \/ Write(<<Part>>)
  /\ UNCHANGED <<toBackend, working, child, backendOnly>>

\* It exits at any time, with or without success.
BackendExits ==
  /\ Running
  /\ child' \in {"exited", "failed"}
  /\ working' = 0
  /\ UNCHANGED <<pipes, backendOnly>>

Backend == BackendReads \/ BackendSpeaks \/ BackendStops \/ BackendStrays \/ BackendExits
-----------------------------------------------------------------------------
(***************************************************************************)
(* The worker: session and turn.                                           *)
(***************************************************************************)
Finish(result) == phase' = "close" /\ outcome' = result

workerRest == <<ui, screen, asked, closable>>

\* TextClient::read: end of file once the child is gone and the pipe empty.
EndOfFile == child # "running" /\ toClient = <<>>

\* The next read completes a frame.  Bound: a frame comes in one piece or two,
\* a third piece is over MAX_FRAME_BYTES and ends the read with an error.
FrameEnds == toClient # <<>> /\ (Head(toClient) = Part => partial)

\* A part of a frame is kept in the client between calls.
ReadPart ==
  /\ phase \in {"wait", "respond", "drain", "closing"}
  /\ toClient # <<>> /\ ~FrameEnds
  /\ phase = "wait" => ~quit
  /\ phase = "respond" => ~quit /\ ~cancel
  /\ toClient' = Tail(toClient)
  /\ partial' = TRUE
  /\ UNCHANGED <<ui, screen, queues, signals, pending, turnReady, worker, toBackend,
                 backend, asked, acked>>

\* initialize, with its two requests, or its refusal, end of file or timeout.
Initialize ==
  /\ phase = "init"
  /\ \/ quit /\ Finish("ok") /\ UNCHANGED closable
     \/ ~quit /\ Finish("err") /\ UNCHANGED closable
     \/ ~quit /\ Running /\ phase' = "announce" /\ closable' \in BOOLEAN /\ UNCHANGED outcome
  /\ UNCHANGED <<ui, screen, asked, queues, signals, client, turn, pipes, backend, acked>>

RoomOnDisplay == Len(display) < DisplayCap

\* Mutant: the session goes on after its last turn.
TurnsLeftAlways == TRUE

\* The loop over the turns is not exhausted.
TurnsLeft == turn # TurnLimit

\* deliver(Ready): blocked while the display queue is full, unless quitting.
Announce ==
  /\ phase = "announce"
  /\ IF quit
     THEN Finish("err") /\ UNCHANGED display
     ELSE /\ RoomOnDisplay
          /\ display' = Append(display, Ready(turn))
          /\ IF TurnsLeft THEN phase' = "wait" /\ UNCHANGED outcome
                         ELSE Finish("err")
  /\ UNCHANGED <<workerRest, command, signals, client, turn, pipes, backend, acked>>

\* Between turns.  select! is biased: quit, then anything the backend sends
\* or its end, then the next command.
WaitQuit ==
  /\ phase = "wait" /\ quit
  /\ Finish("ok")
  /\ UNCHANGED <<workerRest, queues, signals, client, turn, pipes, backend, acked>>

Idle ==
  /\ phase = "wait" /\ ~quit
  /\ \/ FrameEnds /\ toClient' = Tail(toClient)
     \/ EndOfFile /\ UNCHANGED toClient
  /\ partial' = FALSE
  /\ turnReady' = FALSE
  /\ Finish("err")
  /\ UNCHANGED <<workerRest, queues, signals, pending, turn, toBackend, backend, acked>>

TakeCommand ==
  /\ phase = "wait" /\ ~quit /\ toClient = <<>> /\ ~EndOfFile
  /\ command # <<>>
  /\ turn' = Head(command)
  /\ command' = <<>>
  /\ phase' = "prompt"
  /\ UNCHANGED <<workerRest, display, signals, client, outcome, pipes, backend, acked>>

\* turn, first half: the submission.  One that is interrupted, late, refused by
\* the client or cannot be written closes the session.
Interrupted == quit \/ cancel

PromptFails ==
  /\ phase = "prompt"
  /\ Finish("err")
  /\ UNCHANGED <<workerRest, queues, signals, client, turn, pipes, backend, acked>>

PromptAllowed == turnReady /\ ~pending /\ ~partial

SendPrompt ==
  /\ phase = "prompt" /\ ~Interrupted /\ Running /\ PromptAllowed
  /\ toBackend' = Append(toBackend, Prompt(turn))
  /\ pending' = TRUE
  /\ turnReady' = FALSE
  /\ phase' = "respond"
  /\ UNCHANGED <<workerRest, queues, signals, partial, turn, outcome, toClient, backend, acked>>

\* The response of the turn.  The signals are polled before the pipe.
ResponseInterrupted ==
  /\ phase = "respond" /\ Interrupted
  /\ phase' = "cancel"
  /\ UNCHANGED <<workerRest, queues, signals, client, turn, outcome, pipes, backend, acked>>

\* Mutant: the response has no time limit.
ResponseTimeoutNever == FALSE /\ UNCHANGED vars

\* 330 seconds have passed: the best effort to cancel cannot save the session.
ResponseTimeout ==
  /\ phase = "respond" /\ ~Interrupted
  /\ phase' = "cancel" /\ outcome' = "err"
  /\ UNCHANGED <<workerRest, queues, signals, client, turn, pipes, backend, acked>>

\* A chunk is shown before the next message is read; the queue may be full.
ShowChunk ==
  /\ phase = "respond" /\ ~Interrupted
  /\ toClient # <<>> /\ Head(toClient).kind = "chunk"
  /\ RoomOnDisplay
  /\ display' = Append(display, Text(Head(toClient).turn))
  /\ toClient' = Tail(toClient)
  /\ partial' = FALSE
  /\ UNCHANGED <<workerRest, command, signals, pending, turnReady, worker, toBackend,
                 backend, acked>>

\* While draining, chunks are dropped.
DropChunk ==
  /\ phase = "drain"
  /\ toClient # <<>> /\ Head(toClient).kind = "chunk"
  /\ toClient' = Tail(toClient)
  /\ partial' = FALSE
  /\ UNCHANGED <<workerRest, queues, signals, pending, turnReady, worker, toBackend,
                 backend, acked>>

\* cancel() and then response() for the same turn, within five seconds.
SendCancel ==
  /\ phase = "cancel" /\ Running
  /\ toBackend' = Append(toBackend, Cancel(turn))
  /\ phase' = "drain"
  /\ UNCHANGED <<workerRest, queues, signals, client, turn, outcome, toClient, backend, acked>>

\* Mutant: the identifier of the response is not compared.
OwnStopOfAnyTurn(m) == m.kind = "stop"

OwnStop(m) == m.kind = "stop" /\ m.turn = turn

\* What a turn ends with: the acknowledged reasons allow another turn.
TurnEnds(reason) ==
  IF reason \in Acknowledged /\ outcome = "ok"
  THEN IF quit THEN Finish("ok") ELSE phase' = "announce" /\ UNCHANGED outcome
  ELSE Finish("err")

\* The response, an error, or anything else but a chunk.
Receive ==
  /\ phase \in {"respond", "drain"} /\ (phase = "respond" => ~Interrupted)
  /\ FrameEnds /\ Head(toClient).kind # "chunk"
  /\ toClient' = Tail(toClient)
  /\ partial' = FALSE
  /\ LET m == Head(toClient) IN
       IF OwnStop(m)
       THEN /\ pending' = FALSE
            /\ turnReady' = (m.reason \in Acknowledged)
            /\ acked' = IF m.turn = turn THEN turn ELSE acked
            /\ TurnEnds(m.reason)
       ELSE Finish("err") /\ UNCHANGED <<pending, turnReady, acked>>
  /\ UNCHANGED <<workerRest, queues, signals, turn, toBackend, backend>>

\* The pipes break when the child is gone.
BrokenPipe ==
  /\ \/ phase \in {"respond", "drain"} /\ EndOfFile /\ (phase = "respond" => ~Interrupted)
     \/ phase = "cancel" /\ ~Running
  /\ Finish("err")
  /\ UNCHANGED <<workerRest, queues, signals, client, turn, pipes, backend, acked>>

\* Mutant: a drain that timed out counts as a cancellation.
DrainTimeoutContinues ==
  /\ phase \in {"cancel", "drain"}
  /\ phase' = "announce" /\ UNCHANGED outcome
  /\ pending' = FALSE /\ turnReady' = TRUE
  /\ UNCHANGED <<workerRest, queues, signals, partial, turn, pipes, backend, acked>>

DrainTimeout ==
  /\ phase \in {"cancel", "drain"}
  /\ Finish("err")
  /\ UNCHANGED <<workerRest, queues, signals, client, turn, pipes, backend, acked>>

\* A message that is being written when its time or a signal comes is torn.
TearsWrite ==
  /\ phase = "cancel" \/ (phase = "prompt" /\ PromptAllowed)
  /\ Running
  /\ toBackend' = Append(toBackend, Torn)
  /\ UNCHANGED <<workerRest, queues, signals, client, turn, toClient, backend, acked>>

\* Mutant: a prompt that was interrupted counts as not sent.
CutOffForgotten ==
  TearsWrite /\ phase' = "announce" /\ UNCHANGED outcome

\* The client does not know that it has written anything: `pending` is set after
\* the write.  The session is closed all the same.
CutOff ==
  TearsWrite /\ Finish("err")
-----------------------------------------------------------------------------
(***************************************************************************)
(* finish_backend: close, drop the pipes, wait, kill, reap.                *)
(***************************************************************************)
ClientDropped == phase' = "reap" /\ toClient' = <<>>

CloseRequest ==
  /\ phase = "close" /\ closable /\ ~pending /\ Running
  /\ toBackend' = Append(toBackend, Close)
  /\ pending' = TRUE
  /\ phase' = "closing"
  /\ UNCHANGED <<workerRest, queues, signals, turnReady, partial, turn, outcome, toClient,
                 backend, acked>>

\* Without the capability the pipe is just closed; with it the response is
\* awaited.  Anything unexpected, or two seconds, makes the close a failure.
CloseEnds ==
  /\ \/ phase = "close" /\ ~closable /\ UNCHANGED outcome
     \/ phase = "closing" /\ toClient # <<>> /\ Head(toClient) = Closed /\ UNCHANGED outcome
     \/ phase \in {"close", "closing"} /\ outcome' = "err"
  /\ ClientDropped
  /\ UNCHANGED <<workerRest, queues, signals, client, turn, toBackend, backend, acked>>

\* Two seconds after the pipes were dropped.
Kill ==
  /\ phase = "reap" /\ Running
  /\ child' = "failed"
  /\ working' = 0
  /\ UNCHANGED <<workerRest, queues, signals, client, phase, turn, outcome, pipes, acked>>

Reap ==
  /\ phase = "reap" /\ ~Running
  /\ child' = "reaped"
  /\ outcome' = IF child = "failed" THEN "err" ELSE outcome
  /\ phase' = "over"
  /\ UNCHANGED <<workerRest, queues, signals, client, turn, pipes, working, acked>>

Turning == \/ Announce \/ WaitQuit \/ Idle \/ TakeCommand \/ PromptFails \/ SendPrompt
           \/ ReadPart \/ ResponseInterrupted \/ ResponseTimeout \/ ShowChunk \/ DropChunk
           \/ SendCancel \/ Receive \/ BrokenPipe \/ DrainTimeout \/ CutOff
           \/ Initialize
Finishing == CloseRequest \/ CloseEnds \/ Kill \/ Reap
Worker == Turning \/ Finishing
-----------------------------------------------------------------------------
(***************************************************************************)
(* The user interface: run_ui.                                             *)
(***************************************************************************)
uiRest == <<initial, report, client, worker, pipes, backend, acked>>

Looping == ui = "running"

\* try_send and what the interface notes about the turn it started.
Submit ==
  /\ command' = <<told + 1>>
  /\ told' = told + 1
  /\ ready' = FALSE
  /\ active' = TRUE

Sendable == command = <<>> /\ phase # "over"

Leave == ui' = "quitting" /\ quit' = TRUE /\ command' = <<>> /\ display' = <<>>

UiText ==
  /\ Looping /\ display # <<>> /\ Head(display).kind = "text"
  /\ display' = Tail(display)
  /\ UNCHANGED <<ui, composing, ready, active, starting, workerDone, told, command, signals,
                 asked, uiRest>>

\* Mutant: a Ready leaves the cancel flag as it is.
CancelKept == UNCHANGED cancel

CancelReset == cancel' = FALSE

\* Ready: the first one submits the prompt of the command line or opens the
\* composer.
UiReady ==
  /\ Looping /\ display # <<>> /\ Head(display).kind = "ready"
  /\ starting' = FALSE
  /\ CancelReset
  /\ IF starting /\ initial /\ ~Sendable
     THEN /\ Leave
          /\ ready' = TRUE /\ active' = FALSE
          /\ UNCHANGED <<composing, told>>
     ELSE /\ display' = Tail(display)
          /\ IF starting /\ initial
             THEN Submit /\ UNCHANGED composing
             ELSE /\ ready' = TRUE /\ active' = FALSE
                  /\ composing' = (starting \/ composing)
                  /\ UNCHANGED <<command, told>>
          /\ UNCHANGED <<ui, quit>>
  /\ UNCHANGED <<workerDone, asked, uiRest>>

\* The worker has dropped its end of the display queue.
UiClosed ==
  /\ Looping /\ ~workerDone /\ display = <<>> /\ phase = "over"
  /\ workerDone' = TRUE
  /\ ready' = FALSE /\ active' = FALSE /\ composing' = FALSE
  /\ UNCHANGED <<ui, starting, told, queues, signals, asked, uiRest>>

\* Keys are polled after the display queue.
KeyArrives == Looping /\ (workerDone \/ (display = <<>> /\ phase # "over"))

KeyEnter ==
  /\ KeyArrives /\ composing /\ ready /\ Sendable
  /\ Submit
  /\ composing' = FALSE
  /\ UNCHANGED <<ui, starting, workerDone, display, signals, asked, uiRest>>

KeyEscape ==
  /\ KeyArrives /\ composing
  /\ composing' = FALSE
  /\ UNCHANGED <<ui, ready, active, starting, workerDone, told, queues, signals, asked,
                 uiRest>>

KeyP ==
  /\ KeyArrives /\ ~composing /\ ready
  /\ composing' = TRUE
  /\ UNCHANGED <<ui, ready, active, starting, workerDone, told, queues, signals, asked,
                 uiRest>>

KeyC ==
  /\ KeyArrives /\ ~composing /\ active
  /\ cancel' = TRUE
  /\ asked' = told
  /\ UNCHANGED <<ui, composing, ready, active, starting, workerDone, told, queues, quit,
                 uiRest>>

\* q, Ctrl+C, a signal or a terminal failure.
Quit ==
  /\ Looping
  /\ Leave
  /\ UNCHANGED <<composing, ready, active, starting, workerDone, told, cancel, asked,
                 uiRest>>

\* The loop failed if the queue did not take the first prompt.  Otherwise a key
\* or a signal ended it, or a terminal that cannot be read or drawn.
LoopResults == IF initial /\ ~starting /\ told = 0 THEN {"err"} ELSE {"ok", "err"}

\* Mutant: the result of the worker is dropped.
BothOfLoop(loop) == loop

\* result.and(outcome): a failure of either is the failure of the process.
Both(loop) == IF loop = "ok" THEN outcome ELSE loop

\* The worker is awaited before the process ends.
Done ==
  /\ ui = "quitting" /\ phase = "over"
  /\ ui' = "done"
  /\ \E loop \in LoopResults : report' = Both(loop)
  /\ UNCHANGED <<composing, ready, active, starting, initial, workerDone, told, queues, signals,
                 client, worker, pipes, backend, asked, acked>>

Display == UiText \/ UiReady \/ UiClosed \/ Done
Keys    == KeyEnter \/ KeyEscape \/ KeyP \/ KeyC \/ Quit

Next == Backend \/ Worker \/ Display \/ Keys

\* The worker and the display are scheduled, and every wait of the worker but
\* the one between turns has a timeout that fires.  Neither the backend nor
\* the user owes anything.
Fairness == /\ WF_vars(Turning)
            /\ WF_vars(ResponseTimeout)
            /\ WF_vars(DrainTimeout)
            /\ WF_vars(Finishing)
            /\ WF_vars(Display)

Spec == Init /\ [][Next]_vars /\ Fairness
-----------------------------------------------------------------------------
(***************************************************************************)
(* Properties.                                                             *)
(***************************************************************************)
Taken == 0..TurnLimit

ToClient == {Part, Alien, Closed} \cup {Chunk(t) : t \in Turns}
              \cup {Stop(t, r) : t \in Turns, r \in Reasons}

ToBackend == {Close, Torn} \cup {Prompt(t) : t \in Turns} \cup {Cancel(t) : t \in Turns}

Updates == {Text(t) : t \in Turns} \cup {Ready(t) : t \in Taken}

\* The type of the state.
TypeOK ==
  /\ ui \in {"running", "quitting", "done"}
  /\ composing \in BOOLEAN /\ ready \in BOOLEAN /\ active \in BOOLEAN
  /\ starting \in BOOLEAN /\ initial \in BOOLEAN /\ workerDone \in BOOLEAN
  /\ told \in 0..(TurnLimit + 1) /\ report \in {"none", "ok", "err"}
  /\ command \in {<<>>} \cup {<<t>> : t \in 1..(TurnLimit + 1)}
  /\ display \in Seq(Updates) /\ Len(display) <= DisplayCap
  /\ cancel \in BOOLEAN /\ quit \in BOOLEAN
  /\ phase \in Phases
  /\ turn \in Taken
  /\ pending \in BOOLEAN /\ turnReady \in BOOLEAN /\ partial \in BOOLEAN
  /\ outcome \in {"ok", "err"} /\ closable \in BOOLEAN
  /\ toBackend \in Seq(ToBackend) /\ toClient \in Seq(ToClient)
  /\ working \in Taken
  /\ child \in {"running", "exited", "failed", "reaped"}
  /\ asked \in 0..(TurnLimit + 1) /\ acked \in Taken

\* The user is invited to compose only when the last turn submitted has its
\* own acknowledgement: not after a timeout, a stray answer or a lost one.
ReadyIsTrue == ready => acked = told /\ command = <<>>

\* Text is shown in the turn it belongs to, while that turn is running: what
\* is left in the pipes and the display queue never reaches a later turn.
TextInItsTurn ==
  \A i \in DOMAIN display :
    display[i].kind = "text" => display[i].turn = told /\ active

\* A turn is interrupted only by a key of the same turn, however the key and
\* the end of the turn before it raced.
CancelIsForThisTurn ==
  cancel /\ phase \in {"prompt", "respond"} => asked = turn

\* A prompt is written only after every earlier one was acknowledged, to a
\* backend that is running no turn, never twice and never behind a torn one.
PromptsAreSequential ==
  [][\A t \in Turns :
       (Len(toBackend') > Len(toBackend) /\ Last(toBackend') = Prompt(t)) =>
         /\ acked = t - 1 /\ working = 0
         /\ \A i \in DOMAIN toBackend : toBackend[i].kind \notin {"prompt", "torn"}]_vars

\* The conversation as turns taken by the user and the backend.
Talk == INSTANCE TurnTaking WITH
          Limit <- TurnLimit, submitted <- told, taken <- turn, settled <- acked,
          invited <- ready,
          running <- (phase \in {"respond", "cancel", "drain"}),
          over <- (phase \in {"close", "closing", "reap", "over"}),
          verdict <- (IF phase = "over" THEN outcome ELSE "none")

\* No interleaving of keys, display, worker and backend departs from the plain
\* order of turns, and the prompts on the wire follow it.
TurnsAreTaken == Talk!Spec /\ PromptsAreSequential

\* The process succeeds only if every prompt it wrote was acknowledged and the
\* worker, which may go on after the interface has ended, did not fail; it never
\* leaves its backend behind.
SuccessMeansSettled ==
  ui = "done" => child = "reaped" /\ (report = "ok" => outcome = "ok" /\ acked = turn)

\* What holds of the turns in every state: none of them is mistaken for another.
TurnsAreKeptApart == TypeOK /\ ReadyIsTrue /\ TextInItsTurn /\ CancelIsForThisTurn
                       /\ SuccessMeansSettled
=============================================================================
