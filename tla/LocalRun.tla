------------------------------ MODULE LocalRun ------------------------------
(***************************************************************************)
(* The one-shot local run: `run` of native/tuig/src/local_runtime.rs with  *)
(* --headless, over the ACP text client of acp.rs.                         *)
(*                                                                         *)
(* One process starts the backend, makes the requests initialize and       *)
(* session/new, sends one prompt and copies the text of the turn to its    *)
(* standard output, which it has made nonblocking: a write may take only a *)
(* part, or nothing for now.  Ctrl+C, thirty seconds without a session and *)
(* 330 seconds in all drop that exchange wherever it is; the turn is then  *)
(* cancelled, drained for five seconds, and the backend closed, waited     *)
(* for, killed and reaped.                                                 *)
(*                                                                         *)
(* The n-th chunk of the backend prints the bytes <<n, 1>>, <<n, 2>>, ...: *)
(* those terminal_text leaves of it.  What the client answers to a callback*)
(* of the backend is left out: the callback is refused and the turn fails. *)
(***************************************************************************)
EXTENDS Naturals, Sequences, SequencesExt

CONSTANTS ChunkBytes,   \* bound: bytes in a chunk
          MaxFrames,    \* bound: unrequested frames of the backend
          OutputLimit   \* MAX_OUTPUT_BYTES, 4 MiB in the code

VARIABLES
  phase,        \* where `run` is
  turn,         \* the result of the exchange: none, ok, err
  closed,       \* the result of close
  exit,         \* what `run` returns
  pending,      \* TextClient.pending, by the method of the request
  session,      \* TextClient.session is known
  closable,     \* close_supported
  counted,      \* output_bytes
  remaining,    \* what is left of the chunk being written
  stdout,       \* what the standard output has taken
  reader,       \* the other end of the standard output: open, closed
  nonblocking,  \* the output has other flags than the terminal gave it
  sent,         \* what was written to the backend
  toClient,     \* the pipe from the backend
  heard,        \* how much of `sent` the backend has read
  owed,         \* the requests it has read and not answered
  frames,       \* the unrequested frames it has written
  spoken,       \* history: the printable text of the turn
  ended,        \* history: its answer to the prompt
  child,        \* the child: none, running, exited with success, failed
  reaped        \* its status was collected

client  == <<turn, closed, exit, session, closable>>
request == <<pending, sent>>
output  == <<remaining, stdout>>
speech  == <<heard, owed, frames, spoken, ended>>
process == <<child, reaped>>
vars == <<phase, client, request, counted, output, reader, nonblocking, toClient, speech, process>>

Requests == {"initialize", "new", "prompt", "close"}
Exchange == {"initialize", "new", "prompt", "respond", "write"}
Phases   == Exchange \cup {"start", "cancel", "drain", "close", "closing", "wait", "done"}

\* What a request may be answered with; "refused" is an error or a result
\* without what the client needs.
Answers == [initialize |-> {"plain", "closable", "refused"},
            new        |-> {"session", "refused"},
            prompt     |-> {"end_turn", "cancelled", "other", "refused"},
            close      |-> {"closed", "refused"}]

Reply(r, a)     == [kind |-> "reply", to |-> r, answer |-> a]
Chunk(raw, txt) == [kind |-> "chunk", raw |-> raw, text |-> txt]
Alien           == [kind |-> "alien"]

Init ==
  /\ phase = "start" /\ turn = "none" /\ closed = "none" /\ exit = "none"
  /\ pending = "none" /\ session = FALSE /\ closable = FALSE /\ counted = 0
  /\ remaining = <<>> /\ stdout = <<>> /\ reader = "open"
  /\ nonblocking = FALSE
  /\ sent = <<>> /\ toClient = <<>>
  /\ heard = 0 /\ owed = {} /\ frames = 0 /\ spoken = <<>> /\ ended = "none"
  /\ child = "none" /\ reaped = FALSE

Running == child = "running"
Piped   == phase \notin {"start", "wait", "done"}
-----------------------------------------------------------------------------
(***************************************************************************)
(* The backend and the reader of the output.                               *)
(***************************************************************************)
byRun == <<phase, client, request, counted, output, nonblocking, reaped>>

\* It reads whole lines: a message that was cut off spoils what follows.
BackendHears ==
  /\ Running /\ Piped /\ heard < Len(sent) /\ sent[heard + 1] # "part"
  /\ heard' = heard + 1
  /\ owed' = owed \cup ({sent[heard + 1]} \cap Requests)
  /\ UNCHANGED <<byRun, reader, toClient, frames, spoken, ended, child>>

BackendAnswers ==
  /\ Running /\ Piped
  /\ \E r \in owed : \E a \in Answers[r] :
       /\ toClient' = Append(toClient, Reply(r, a))
       /\ owed' = owed \ {r}
       /\ ended' = IF r = "prompt" THEN a ELSE ended
  /\ UNCHANGED <<byRun, reader, heard, frames, spoken, child>>

\* Text of the session; what comes after the answer is not part of the turn.
BackendSpeaks ==
  /\ Running /\ Piped /\ frames < MaxFrames
  /\ heard >= 2 /\ "new" \notin owed
  /\ \E raw \in 1..ChunkBytes : \E safe \in 0..raw :
       LET text == [i \in 1..safe |-> <<frames + 1, i>>] IN
         /\ toClient' = Append(toClient, Chunk(raw, text))
         /\ spoken' = IF ended = "none" THEN spoken \o text ELSE spoken
  /\ frames' = frames + 1
  /\ UNCHANGED <<byRun, reader, heard, owed, ended, child>>

\* A callback, a foreign session or identifier, a frame too long, no JSON.
BackendStrays ==
  /\ Running /\ Piped /\ frames < MaxFrames
  /\ toClient' = Append(toClient, Alien)
  /\ frames' = frames + 1
  /\ UNCHANGED <<byRun, reader, heard, owed, spoken, ended, child>>

BackendExits ==
  /\ Running
  /\ child' \in {"exited", "failed"}
  /\ UNCHANGED <<byRun, reader, toClient, speech>>

ReaderCloses ==
  /\ reader = "open" /\ phase # "done"
  /\ reader' = "closed"
  /\ UNCHANGED <<byRun, toClient, speech, child>>

Environment == BackendHears \/ BackendAnswers \/ BackendSpeaks \/ BackendStrays
                 \/ BackendExits \/ ReaderCloses
-----------------------------------------------------------------------------
(***************************************************************************)
(* The exchange.                                                           *)
(***************************************************************************)
outside == <<reader, speech>>

\* The future of the exchange is dropped.  Without a session cancel() fails
\* before it writes anything.
GiveUp ==
  /\ turn' = "err"
  /\ remaining' = <<>>
  /\ phase' = IF session THEN "cancel" ELSE "close"

\* Dropping the output restores its flags.
Return(result) ==
  /\ phase' = "done"
  /\ exit' = result
  /\ nonblocking' = FALSE

Start ==
  /\ phase = "start"
  /\ \/ /\ Return("err")
        /\ UNCHANGED child
     \/ /\ phase' = "initialize"
        /\ nonblocking' = TRUE
        /\ child' = "running"
        /\ UNCHANGED exit
  /\ UNCHANGED <<outside, turn, closed, session, closable, request, counted, output, toClient,
                 reaped>>

Request(r) ==
  /\ pending = "none"
  /\ pending' = r
  /\ sent' = Append(sent, r)

MakeRequest ==
  /\ phase \in {"initialize", "new", "prompt"} /\ Running
  /\ Request(phase)
  /\ phase' = IF phase = "prompt" THEN "respond" ELSE phase
  /\ UNCHANGED <<outside, client, counted, output, nonblocking, toClient, process>>

\* The message does not fit a frame, or the backend no longer reads.
RequestFails ==
  /\ phase \in {"initialize", "new", "prompt"} /\ pending = "none"
  /\ GiveUp
  /\ UNCHANGED <<outside, closed, exit, session, closable, request, counted, stdout,
                 nonblocking, toClient, process>>

Waiting == phase \in {"initialize", "new", "respond"} /\ pending # "none"

\* One frame is read.
Take == toClient # <<>> /\ toClient' = Tail(toClient)

Answered(r) ==
  /\ Waiting /\ pending = r
  /\ Take
  /\ Head(toClient).kind = "reply" /\ Head(toClient).to = r
  /\ pending' = "none"

Initialized ==
  /\ Answered("initialize")
  /\ LET a == Head(toClient).answer IN
       IF a = "refused"
       THEN GiveUp /\ UNCHANGED closable
       ELSE phase' = "new" /\ closable' = (a = "closable") /\ UNCHANGED <<turn, remaining>>
  /\ UNCHANGED <<outside, closed, exit, session, sent, counted, stdout, nonblocking, process>>

Created ==
  /\ Answered("new")
  /\ IF Head(toClient).answer = "refused"
     THEN GiveUp /\ UNCHANGED session
     ELSE phase' = "prompt" /\ session' = TRUE /\ UNCHANGED <<turn, remaining>>
  /\ UNCHANGED <<outside, closed, exit, closable, sent, counted, stdout, nonblocking, process>>

\* completed(): the answer of the turn decides unless it was a refusal.
TurnEnds ==
  /\ Answered("prompt")
  /\ LET a == Head(toClient).answer IN
       IF a = "refused"
       THEN GiveUp
       ELSE /\ phase' = "close"
            /\ turn' = IF a = "end_turn" THEN "ok" ELSE "err"
            /\ UNCHANGED remaining
  /\ UNCHANGED <<outside, closed, exit, session, closable, sent, counted, stdout, nonblocking,
                 process>>

Fits(raw) == counted + raw <= OutputLimit

ReadChunk ==
  /\ phase = "respond" /\ Take /\ Head(toClient).kind = "chunk"
  /\ LET m == Head(toClient) IN
       IF Fits(m.raw)
       THEN /\ counted' = counted + m.raw
            /\ remaining' = m.text
            /\ phase' = IF m.text = <<>> THEN "respond" ELSE "write"
            /\ UNCHANGED turn
       ELSE GiveUp /\ UNCHANGED counted
  /\ UNCHANGED <<outside, closed, exit, session, closable, request, stdout, nonblocking,
                 process>>

\* Anything else the client does not wait for, and the end of the pipe.
ReadFails ==
  /\ Waiting
  /\ \/ /\ Take
        /\ \/ Head(toClient).kind = "alien"
           \/ Head(toClient).kind = "reply" /\ Head(toClient).to # pending
           \/ Head(toClient).kind = "chunk" /\ phase # "respond"
     \/ toClient = <<>> /\ ~Running /\ UNCHANGED toClient
  /\ GiveUp
  /\ UNCHANGED <<outside, closed, exit, session, closable, request, counted, stdout,
                 nonblocking, process>>

\* Mutant: after a short write the text is written again from its start.
RestAgain(n) == IF n = Len(remaining) THEN <<>> ELSE remaining

\* What is left of the text when the output has taken n bytes.
Rest(n) == SubSeq(remaining, n + 1, Len(remaining))

WriteSome ==
  /\ phase = "write" /\ reader = "open"
  /\ \E n \in 1..Len(remaining) :
       /\ stdout' = stdout \o SubSeq(remaining, 1, n)
       /\ remaining' = Rest(n)
  /\ phase' = IF remaining' = <<>> THEN "respond" ELSE "write"
  /\ UNCHANGED <<outside, client, request, counted, nonblocking, toClient, process>>

WriteFails ==
  /\ phase = "write" /\ reader = "closed"
  /\ GiveUp
  /\ UNCHANGED <<outside, closed, exit, session, closable, request, counted, stdout,
                 nonblocking, toClient, process>>

\* A message that is being written when its future is dropped is cut off,
\* perhaps before its first byte.
CutOff == sent' = Append(sent, "part")

\* Mutant: the output blocks, and with it the process.
InterruptedUnlessWriting ==
  /\ phase \in Exchange \ {"write"}
  /\ \/ UNCHANGED sent
     \/ phase \in {"initialize", "new", "prompt"} /\ pending = "none" /\ CutOff
  /\ GiveUp
  /\ UNCHANGED <<outside, closed, exit, session, closable, pending, counted, stdout,
                 nonblocking, toClient, process>>

\* Ctrl+C, thirty seconds for the session, 330 seconds for all of it.
Interrupted ==
  /\ phase \in Exchange
  /\ \/ UNCHANGED sent
     \/ phase \in {"initialize", "new", "prompt"} /\ pending = "none" /\ CutOff
  /\ GiveUp
  /\ UNCHANGED <<outside, closed, exit, session, closable, pending, counted, stdout,
                 nonblocking, toClient, process>>
-----------------------------------------------------------------------------
(***************************************************************************)
(* Cancelling and draining, for five seconds; their failure is ignored.    *)
(***************************************************************************)
SendCancel ==
  /\ phase = "cancel" /\ Running
  /\ sent' = Append(sent, "cancel")
  /\ phase' = IF pending = "prompt" THEN "drain" ELSE "close"
  /\ UNCHANGED <<outside, client, pending, counted, output, nonblocking, toClient, process>>

CancelFails ==
  /\ phase = "cancel"
  /\ \/ ~Running /\ UNCHANGED sent
     \/ CutOff
  /\ phase' = "close"
  /\ UNCHANGED <<outside, client, pending, counted, output, nonblocking, toClient, process>>

\* Text is counted and dropped; the answer, or what should not be there, ends
\* the draining.
Drain ==
  /\ phase = "drain" /\ Take
  /\ LET m == Head(toClient) IN
       IF m.kind = "chunk" /\ Fits(m.raw)
       THEN counted' = counted + m.raw /\ UNCHANGED <<phase, pending>>
       ELSE /\ phase' = "close"
            /\ pending' = IF m.kind = "reply" /\ m.to = "prompt" THEN "none" ELSE pending
            /\ UNCHANGED counted
  /\ UNCHANGED <<outside, client, sent, output, nonblocking, process>>

\* Five seconds, or the end of the pipe.
DrainEnds ==
  /\ phase = "drain"
  /\ phase' = "close"
  /\ UNCHANGED <<outside, client, request, counted, output, nonblocking, toClient, process>>
-----------------------------------------------------------------------------
(***************************************************************************)
(* finish_backend.                                                         *)
(***************************************************************************)
CloseRequest ==
  /\ phase = "close" /\ closable /\ session /\ Running
  /\ Request("close")
  /\ phase' = "closing"
  /\ UNCHANGED <<outside, client, counted, output, nonblocking, toClient, process>>

\* The client is dropped, and with it its ends of the pipes.
CloseEnds(result) ==
  /\ closed' = result
  /\ phase' = "wait"
  /\ toClient' = <<>>
  /\ UNCHANGED <<outside, turn, exit, session, closable, request, counted, output,
                 nonblocking, process>>

\* The input is shut down, after the answer to session/close if there is one.
CloseSucceeds ==
  /\ \/ phase = "close" /\ ~closable
     \/ phase = "closing" /\ toClient # <<>> /\ Head(toClient) = Reply("close", "closed")
  /\ CloseEnds("ok")

\* No session, a request still pending, another frame, no frame, two seconds.
CloseFails ==
  /\ phase = "closing" \/ (phase = "close" /\ closable)
  /\ CloseEnds("err")

\* Mutant: after two seconds the run returns without its child.
KillNobody ==
  /\ phase = "wait" /\ Running
  /\ Return("err")
  /\ UNCHANGED <<outside, turn, closed, session, closable, request, counted, output, toClient,
                 process>>

\* Two seconds later.
Kill ==
  /\ phase = "wait" /\ Running
  /\ child' = "failed"
  /\ UNCHANGED <<phase, outside, client, request, counted, output, nonblocking, toClient,
                 reaped>>

\* Mutant: the status of the child is not looked at.
VerdictOfTurn == IF turn = "ok" /\ closed = "ok" THEN "ok" ELSE "err"

Verdict == IF turn = "ok" /\ closed = "ok" /\ child = "exited" THEN "ok" ELSE "err"

Reap ==
  /\ phase = "wait" /\ ~Running
  /\ reaped' = TRUE
  /\ Return(Verdict)
  /\ UNCHANGED <<outside, turn, closed, session, closable, request, counted, output, toClient,
                 child>>

Exchanging == \/ MakeRequest \/ RequestFails \/ Initialized \/ Created \/ TurnEnds
              \/ ReadChunk \/ ReadFails \/ WriteSome \/ WriteFails
Cancelling == SendCancel \/ CancelFails \/ Drain \/ DrainEnds
Finishing  == CloseRequest \/ CloseSucceeds \/ CloseFails \/ Kill \/ Reap

Next == Start \/ Exchanging \/ Interrupted \/ Cancelling \/ Finishing \/ Environment

\* What the scheduler and the timers force, in every phase: 330 seconds end the
\* exchange, five the draining, two the closing and two the waiting.  Neither
\* the backend nor the reader of the output owes anything.
Forced == \/ Start \/ Interrupted \/ CancelFails \/ DrainEnds
          \/ CloseSucceeds \/ CloseFails \/ Kill \/ Reap

Spec == Init /\ [][Next]_vars /\ WF_vars(Forced)
-----------------------------------------------------------------------------
(***************************************************************************)
(* Properties.                                                             *)
(***************************************************************************)
Bytes == (1..MaxFrames) \X (1..ChunkBytes)

IsFrame(m) ==
  \/ m.kind = "alien"
  \/ m.kind = "chunk" /\ m.raw \in 0..ChunkBytes /\ m.text \in Seq(Bytes)
  \/ m.kind = "reply" /\ m.to \in Requests /\ m.answer \in Answers[m.to]

\* The type of the state; the text of a turn, drained or not, is bounded.
LocalRunTypeOK ==
  /\ phase \in Phases /\ pending \in Requests \cup {"none"}
  /\ turn \in {"none", "ok", "err"} /\ closed \in {"none", "ok", "err"}
  /\ exit \in {"none", "ok", "err"}
  /\ session \in BOOLEAN /\ closable \in BOOLEAN /\ counted \in 0..OutputLimit
  /\ remaining \in Seq(Bytes) /\ stdout \in Seq(Bytes) /\ spoken \in Seq(Bytes)
  /\ reader \in {"open", "closed"} /\ nonblocking \in BOOLEAN
  /\ sent \in Seq(Requests \cup {"cancel", "part"}) /\ heard \in 0..Len(sent)
  /\ \A i \in DOMAIN toClient : IsFrame(toClient[i])
  /\ owed \subseteq Requests /\ frames \in 0..MaxFrames
  /\ ended \in {"none"} \cup Answers.prompt
  /\ child \in {"none", "running", "exited", "failed"} /\ reaped \in BOOLEAN

\* Whatever the output takes at a time, and wherever the run is interrupted,
\* the output is the beginning of the text of the turn: nothing is repeated,
\* left out in the middle or printed while draining.
TextIsAPrefix == IsPrefix(stdout, spoken)

\* Success means that all of the turn's text was printed, that the backend
\* ended the turn, and that it then exited by itself with success.
SuccessIsComplete ==
  exit = "ok" => /\ stdout = spoken
                 /\ ended = "end_turn"
                 /\ child = "exited"

\* However the run ends, its child was reaped and the output it inherited is
\* as it was: "Close or kill and reap the owned child on every outcome".
NothingLeftBehind ==
  phase = "done" => (child # "none" => reaped) /\ ~nonblocking

\* A prompt is not left unanswered without a cancellation, unless the backend
\* is gone or does not take it.
NoSilentAbandon ==
  phase \in {"close", "closing", "wait"} /\ pending = "prompt" =>
    "cancel" \in ToSet(sent) \/ Last(sent) = "part" \/ ~Running

\* The session is asked to close only once its turn was answered: a late
\* answer is never taken for that of another request.
CloseIsClean ==
  LET wrote == ToSet(sent) IN
    {"prompt", "close"} \subseteq wrote => ended # "none"

\* What one run owes its user, its backend and its terminal, on every path.
RunIsAccountedFor == LocalRunTypeOK /\ NothingLeftBehind /\ NoSilentAbandon /\ CloseIsClean
=============================================================================
