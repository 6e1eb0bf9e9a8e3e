------------------------- MODULE LocalRuntimeProofs -------------------------
(***************************************************************************)
(* Proofs about the local runtime, for every limit, queue and backend: the *)
(* turns of a conversation are kept apart (LocalSession), and a one-shot   *)
(* run prints the text of its turn and accounts for its child (LocalRun).  *)
(***************************************************************************)
EXTENDS LocalRuntime, TLAPS

InTurn == {"prompt", "respond", "cancel", "drain"}
Before == {"init", "announce"}
After  == {"close", "closing", "reap", "over"}

\* Where a turn is: submitted, taken, acknowledged.  At most one is open.
TurnIsHeld ==
  /\ turn \in {acked, acked + 1} /\ told \in {turn, turn + 1}
  /\ phase \in Before \cup {"wait"} => turn = acked
  /\ phase \in Before \cup InTurn => told = turn
  /\ phase \in InTurn => turn = acked + 1
  /\ phase = "wait" => turn < TurnLimit
  /\ command # <<>> => command = <<told>> /\ told = turn + 1 /\ turn = acked /\ ~ready
  /\ ready => told = turn /\ turn = acked /\ phase \notin Before

\* A Ready is the last thing on its way to the display, and text belongs to
\* the turn the display is at.
DisplayIsInOrder ==
  \A i \in DOMAIN display :
    /\ display[i].kind = "ready" =>
         /\ i = Len(display) /\ command = <<>> /\ ~ready
         /\ told = turn /\ turn = acked /\ phase \notin Before
    /\ display[i].kind = "text" => display[i].turn = told /\ active

\* What the user asked for is about the turn the display is at.
UserIsHeard ==
  /\ cancel => asked = told /\ ~ready
  /\ ready => ~active
  /\ workerDone => display = <<>> /\ phase = "over"
  /\ quit = (ui # "running")
  /\ phase \in InTurn /\ ui = "running" => active
  /\ command # <<>> => active \/ phase = "over"

Unread == {i \in DOMAIN toBackend : toBackend[i].kind = "prompt"}

\* The turn that is open is in one place: a prompt, a running turn or an
\* answer; text precedes its answer.
BackendIsBehind ==
  /\ \A i \in Unread : toBackend[i].turn = turn /\ turn = acked + 1
  /\ \A i, j \in Unread : i = j
  /\ working # 0 => working = turn /\ turn = acked + 1 /\ Unread = {}
  /\ phase = "prompt" => working = 0 /\ Unread = {}
  /\ \A i \in DOMAIN toClient :
       /\ toClient[i].kind = "chunk" =>
            toClient[i].turn = turn /\ turn = acked + 1 /\ phase # "prompt"
       /\ toClient[i].kind = "stop" =>
            \/ toClient[i].turn <= acked
            \/ /\ toClient[i].turn = turn /\ phase # "prompt"
               /\ working = 0 /\ Unread = {}
               /\ \A j \in DOMAIN toClient : j > i => toClient[j].kind # "chunk"

\* The session reports success only between turns and outlives its child; the
\* process does not succeed where the session failed.
SessionEnds ==
  /\ ui = "done" => phase = "over"
  /\ ui = "done" /\ report = "ok" => outcome = "ok"
  /\ phase = "over" => child = "reaped"
  /\ phase \in After /\ outcome = "ok" => turn = acked
  /\ \A i \in DOMAIN toBackend : toBackend[i].kind = "torn" => phase \in After

SessionInv == TypeOK /\ TurnIsHeld /\ DisplayIsInOrder /\ UserIsHeard /\ BackendIsBehind
                /\ SessionEnds
-----------------------------------------------------------------------------
(***************************************************************************)
(* What holds of a one-shot run.                                           *)
(***************************************************************************)
Frames == {Run!Alien}
            \cup {Run!Chunk(raw, text) : raw \in 0..ChunkBytes, text \in Seq(Run!Bytes)}
            \cup UNION {{Run!Reply(r, a) : a \in Run!Answers[r]} : r \in Run!Requests}

Open == Run!Exchange \cup {"start"}

AnswersPrompt(m) == m.kind = "reply" /\ m.to = "prompt"

Answered(i) == \E j \in 1..i : AnswersPrompt(backendPipe[j])

\* The i-th frame in the pipe comes after the first at[i] bytes of the turn:
\* the output, what is being written and the chunks up to the answer are the
\* text of the turn, in pieces.
Accounts(at) ==
  /\ at[1] = Len(stdout) + Len(remaining)
  /\ at[Len(backendPipe) + 1] = Len(spoken)
  /\ \A k \in 1..Len(remaining) : remaining[k] = spoken[Len(stdout) + k]
  /\ \A i \in 1..Len(backendPipe) :
       LET m == backendPipe[i] IN
         /\ Answered(i) => at[i] = Len(spoken) /\ at[i + 1] = Len(spoken)
         /\ ~Answered(i) /\ m.kind = "chunk" =>
              /\ at[i + 1] = at[i] + Len(m.text)
              /\ \A k \in 1..Len(m.text) : m.text[k] = spoken[at[i] + k]
         /\ ~Answered(i) /\ m.kind # "chunk" => at[i + 1] = at[i]

TextIsAccounted ==
  /\ \A k \in 1..Len(stdout) : stdout[k] = spoken[k]
  /\ Len(stdout) <= Len(spoken)
  /\ runPhase \in Open \ {"write"} => remaining = <<>>
  /\ runPhase \in Open =>
       \E at \in [1..(Len(backendPipe) + 1) -> 0..Len(spoken)] : Accounts(at)

Sent(what) == \E i \in DOMAIN sent : sent[i] = what

\* The prompt is sent once, answered once, and its answer read or in the pipe.
AnswerIsKnown ==
  /\ \A i \in DOMAIN backendPipe :
       AnswersPrompt(backendPipe[i]) => ended = backendPipe[i].answer
  /\ runPhase \in Open /\ ended # "none" => Answered(Len(backendPipe))
  /\ "prompt" \in owed => ended = "none"
  /\ "prompt" \in owed \/ ended # "none" => \E i \in 1..heard : sent[i] = "prompt"
  /\ \A i, j \in DOMAIN sent : sent[i] = "prompt" /\ sent[j] = "prompt" => i = j
  /\ runPhase \in {"start", "initialize", "new", "prompt"} => ~Sent("prompt")
  /\ Sent("prompt") /\ awaited # "prompt" => ended # "none"
  /\ Sent("close") => awaited = "close" /\ runPhase \in {"closing", "wait", "done"}

\* What the run reports, and what it has done before it ends.
TurnIsSettled ==
  /\ runPhase \in Open => exchange = "none"
  /\ exchange = "ok" => stdout = spoken /\ ended = "end_turn"
  /\ exit = "ok" => exchange = "ok" /\ runChild = "exited"
  /\ runPhase = "start" => runChild = "none"
  /\ runPhase = "done" => (runChild # "none" => reaped) /\ ~nonblocking
  /\ runPhase \in {"respond", "write"} => awaited = "prompt"
  /\ awaited = "prompt" \/ runPhase = "prompt" => session
  /\ runPhase = "drain" => Sent("cancel")
  /\ runPhase \in {"close", "closing", "wait"} /\ awaited = "prompt" =>
       Sent("cancel") \/ (sent # <<>> /\ Last(sent) = "part") \/ ~Run!Running

OneShotInv == Run!LocalRunTypeOK /\ backendPipe \in Seq(Frames)
                /\ TextIsAccounted /\ AnswerIsKnown /\ TurnIsSettled
-----------------------------------------------------------------------------
(***************************************************************************)
(* Messages and queues.                                                    *)
(***************************************************************************)
LEMMA MessagesType ==
  /\ {Part, Alien, Closed} \subseteq ToClient /\ Close \in ToBackend /\ Torn \in ToBackend
  /\ \A t \in Turns : Chunk(t) \in ToClient /\ Prompt(t) \in ToBackend /\ Cancel(t) \in ToBackend
                        /\ Text(t) \in Updates
  /\ \A t \in Turns, r \in Reasons : Stop(t, r) \in ToClient
  /\ \A t \in Taken : Ready(t) \in Updates
  BY DEF ToClient, ToBackend, Updates

LEMMA MessageKinds ==
  /\ \A m \in ToClient : /\ m.kind \in {"chunk", "stop"} => m.turn \in Turns
                         /\ m.kind = "chunk" => m = Chunk(m.turn)
                         /\ m.kind = "stop" => m.reason \in Reasons
  /\ \A m \in ToBackend : m.kind \in {"prompt", "cancel"} => m.turn \in Turns
  /\ \A u \in Updates : /\ u.kind \in {"text", "ready"} /\ u.turn \in Taken
                        /\ u.kind = "text" => u.turn \in Turns
  BY LimitsAssumption DEF ToClient, ToBackend, Updates, Part, Alien, Closed, Chunk, Stop, Close,
     Torn, Prompt, Cancel, Text, Ready, Turns, Taken

LEMMA TailOf ==
  ASSUME NEW S, NEW s \in Seq(S), s # <<>>
  PROVE  /\ Tail(s) \in Seq(S) /\ Head(s) \in S /\ Head(s) = s[1] /\ 1 \in DOMAIN s
         /\ Len(s) \in Nat \ {0} /\ DOMAIN s = 1..Len(s)
         /\ Len(Tail(s)) = Len(s) - 1 /\ DOMAIN Tail(s) = 1..(Len(s) - 1)
         /\ \A i \in DOMAIN Tail(s) : i + 1 \in DOMAIN s /\ Tail(s)[i] = s[i + 1]
  OBVIOUS

LEMMA AppendOf ==
  ASSUME NEW S, NEW s \in Seq(S), NEW e \in S
  PROVE  /\ Append(s, e) \in Seq(S) /\ Len(Append(s, e)) = Len(s) + 1
         /\ Len(s) \in Nat /\ DOMAIN s = 1..Len(s) /\ DOMAIN Append(s, e) = 1..(Len(s) + 1)
         /\ \A i \in DOMAIN s : Append(s, e)[i] = s[i]
         /\ Append(s, e)[Len(s) + 1] = e
  OBVIOUS

\* What the backend writes comes after what is in the pipe, or nowhere.
LEMMA Written ==
  ASSUME TypeOK, NEW messages \in Seq(ToClient), Write(messages)
  PROVE  /\ toClient' \in Seq(ToClient)
         /\ \A i \in DOMAIN toClient : i \in DOMAIN toClient' /\ toClient'[i] = toClient[i]
         /\ \A i \in DOMAIN toClient' :
              \/ i \in DOMAIN toClient
              \/ \E k \in DOMAIN messages : toClient'[i] = messages[k]
         /\ \A i \in DOMAIN toClient, j \in DOMAIN toClient' : j \notin DOMAIN toClient => j > i
<1>1. toClient \in Seq(ToClient)
  BY DEF TypeOK
<1>2. CASE toClient' = toClient
  BY <1>1, <1>2
<1>3. CASE toClient' = toClient \o messages
  <2>1. DOMAIN toClient' = 1..(Len(toClient) + Len(messages))
    BY <1>1, <1>3
  <2>2. ASSUME NEW i \in DOMAIN toClient', i \notin DOMAIN toClient
        PROVE  i - Len(toClient) \in DOMAIN messages
                 /\ toClient'[i] = messages[i - Len(toClient)]
    BY <1>1, <1>3, <2>1, <2>2
  <2>3. QED
    BY <1>1, <1>3, <2>1, <2>2
<1>4. QED
  BY <1>2, <1>3 DEF Write
-----------------------------------------------------------------------------
(***************************************************************************)
(* The type of the conversation.                                           *)
(***************************************************************************)
LEMMA SessionBegins ==
  Init => SessionInv
<1> SUFFICES ASSUME Init PROVE SessionInv
  OBVIOUS
<1>1. TypeOK
  <2>1. command \in {<<>>} /\ display \in Seq(Updates) /\ Len(display) <= DisplayCap
          /\ toBackend \in Seq(ToBackend) /\ toClient \in Seq(ToClient)
    BY LimitsAssumption DEF Init
  <2>2. told \in 0..(TurnLimit + 1) /\ asked \in 0..(TurnLimit + 1)
          /\ turn \in Taken /\ working \in Taken /\ acked \in Taken
    BY LimitsAssumption DEF Init, Taken
  <2>3. QED
    BY <2>1, <2>2 DEF Init, TypeOK, Phases
<1>2. quit = (ui # "running")
  BY DEF Init
<1>3. DOMAIN display = {} /\ DOMAIN toBackend = {} /\ DOMAIN toClient = {}
  BY DEF Init
<1>4. TurnIsHeld /\ SessionEnds
  BY <1>3, LimitsAssumption DEF Init, TurnIsHeld, SessionEnds, InTurn, Before, After
<1>5. DisplayIsInOrder /\ UserIsHeard /\ BackendIsBehind
  BY <1>2, <1>3 DEF Init, DisplayIsInOrder, UserIsHeard, BackendIsBehind, Unread, InTurn
<1>6. QED
  BY <1>1, <1>4, <1>5 DEF SessionInv

LEMMA BackendKeepsTypes ==
  ASSUME TypeOK, Backend
  PROVE  TypeOK'
<1>1. /\ toBackend' \in Seq(ToBackend) /\ toClient' \in Seq(ToClient)
      /\ working' \in Taken /\ child' \in {"running", "exited", "failed", "reaped"}
  <2>1. CASE BackendReads
    <3>1. Tail(toBackend) \in Seq(ToBackend) /\ Head(toBackend) \in ToBackend
      BY <2>1, TailOf DEF BackendReads, TypeOK
    <3>2. ASSUME working # 0
          PROVE <<Stop(working, "cancelled")>> \in Seq(ToClient)
      BY <3>2, MessagesType DEF TypeOK, Taken, Turns, Reasons, Acknowledged
    <3>3. <<Closed>> \in Seq(ToClient)
      BY MessagesType
    <3>4. CASE Head(toBackend).kind = "prompt" /\ working' = Head(toBackend).turn
                 /\ UNCHANGED toClient
      BY <2>1, <3>1, <3>4, MessageKinds DEF BackendReads, TypeOK, Taken, Turns
    <3>5. CASE UNCHANGED <<working, toClient>>
      BY <2>1, <3>1, <3>5 DEF BackendReads, TypeOK
    <3>6. CASE working # 0 /\ working' = 0 /\ Write(<<Stop(working, "cancelled")>>)
      <4>1. toClient' \in Seq(ToClient)
        BY <3>2, <3>6, Written
      <4>2. QED
        BY <2>1, <3>1, <3>6, <4>1, LimitsAssumption DEF BackendReads, TypeOK, Taken
    <3>7. CASE Write(<<Closed>>) /\ UNCHANGED working
      BY <2>1, <3>1, <3>3, <3>7, Written DEF BackendReads, TypeOK
    <3>8. QED
      BY <2>1, <3>4, <3>5, <3>6, <3>7 DEF BackendReads
  <2>2. CASE BackendSpeaks
    <3>1. <<Chunk(working)>> \in Seq(ToClient) /\ <<Part, Chunk(working)>> \in Seq(ToClient)
      BY <2>2, MessagesType DEF BackendSpeaks, TypeOK, Taken, Turns
    <3>2. QED
      BY <2>2, <3>1, Written DEF BackendSpeaks, TypeOK
  <2>3. CASE BackendStops
    <3>1. \A reason \in Reasons : <<Stop(working, reason)>> \in Seq(ToClient)
      BY <2>3, MessagesType DEF BackendStops, TypeOK, Taken, Turns
    <3>2. PICK reason \in Reasons : Write(<<Stop(working, reason)>>)
      BY <2>3 DEF BackendStops
    <3>3. toClient' \in Seq(ToClient)
      BY <3>1, <3>2, Written
    <3>4. QED
      BY <2>3, <3>3, LimitsAssumption DEF BackendStops, TypeOK, Taken
  <2>4. CASE BackendStrays
    <3>1. /\ acked > 0 => <<Stop(acked, "end_turn")>> \in Seq(ToClient)
          /\ <<Alien>> \in Seq(ToClient) /\ <<Part>> \in Seq(ToClient)
      BY MessagesType DEF TypeOK, Taken, Turns, Reasons, Acknowledged
    <3>2. QED
      BY <2>4, <3>1, Written DEF BackendStrays, TypeOK
  <2>5. CASE BackendExits
    BY <2>5, LimitsAssumption DEF BackendExits, TypeOK, Taken, pipes
  <2>6. QED
    BY <2>1, <2>2, <2>3, <2>4, <2>5 DEF Backend
<1>2. UNCHANGED backendOnly
  BY DEF Backend, BackendReads, BackendSpeaks, BackendStops, BackendStrays, BackendExits
<1>3. QED
  BY <1>1, <1>2 DEF TypeOK, backendOnly, screen, queues, signals, client, worker

LEMMA WorkerKeepsTypes ==
  ASSUME SessionInv, Worker
  PROVE  TypeOK'
<1> USE DEF SessionInv
<1>1. UNCHANGED <<ui, screen, asked>>
  BY DEF Worker, Turning, Finishing, workerRest, Announce, WaitQuit, Idle, TakeCommand, PromptFails,
     SendPrompt, ReadPart, ResponseInterrupted, ResponseTimeout, ShowChunk, DropChunk,
     SendCancel, Receive, BrokenPipe, DrainTimeout, CutOff, TearsWrite,
     Initialize, CloseRequest, CloseEnds, Kill,
     Reap
<1>2. ui \in {"running", "quitting", "done"} /\ composing \in BOOLEAN /\ ready \in BOOLEAN
        /\ active \in BOOLEAN /\ starting \in BOOLEAN /\ initial \in BOOLEAN
        /\ workerDone \in BOOLEAN /\ told \in 0..(TurnLimit + 1)
        /\ report \in {"none", "ok", "err"} /\ asked \in 0..(TurnLimit + 1)
  BY DEF TypeOK
<1>3. /\ command' \in {<<>>} \cup {<<t>> : t \in 1..(TurnLimit + 1)}
      /\ display' \in Seq(Updates) /\ Len(display') <= DisplayCap
  <2>1. CASE Announce
    <3>1. Ready(turn) \in Updates /\ display \in Seq(Updates)
      BY MessagesType DEF TypeOK
    <3>2. UNCHANGED display \/ (RoomOnDisplay /\ display' = Append(display, Ready(turn)))
      BY <2>1 DEF Announce
    <3>3. display' \in Seq(Updates) /\ Len(display') <= DisplayCap
      BY <3>1, <3>2, AppendOf, LimitsAssumption DEF TypeOK, RoomOnDisplay
    <3>4. QED
      BY <2>1, <3>3 DEF Announce, TypeOK
  <2>2. CASE ShowChunk
    <3>1. Text(Head(toClient).turn) \in Updates
      BY <2>2, TailOf, MessageKinds, MessagesType DEF ShowChunk, TypeOK
    <3>2. QED
      BY <2>2, <3>1, AppendOf, LimitsAssumption DEF ShowChunk, TypeOK, RoomOnDisplay
  <2>3. CASE TakeCommand
    BY <2>3 DEF TakeCommand, TypeOK
  <2>4. CASE UNCHANGED queues
    BY <2>4 DEF queues, TypeOK
  <2>5. QED
    BY <2>1, <2>2, <2>3, <2>4
       DEF Worker, Turning, Finishing, WaitQuit, Idle, PromptFails, SendPrompt, ReadPart,
           ResponseInterrupted, ResponseTimeout, DropChunk, SendCancel, Receive, BrokenPipe,
           DrainTimeout, CutOff, TearsWrite, Initialize, CloseRequest, CloseEnds, Kill, Reap
<1>4. UNCHANGED signals /\ phase' \in Phases /\ outcome' \in {"ok", "err"}
  BY DEF Worker, Turning, Finishing, Announce, WaitQuit, Idle, TakeCommand, PromptFails,
     SendPrompt, ReadPart, ResponseInterrupted, ResponseTimeout, ShowChunk, DropChunk,
     SendCancel, Receive, BrokenPipe, DrainTimeout, CutOff, TearsWrite,
     Initialize, CloseRequest, CloseEnds, Kill,
     Reap, Finish, TurnEnds, ClientDropped, worker, TypeOK, Phases
<1>5. turn' \in Taken /\ closable' \in BOOLEAN
  <2>1. CASE TakeCommand
    BY <2>1, LimitsAssumption DEF TakeCommand, TurnIsHeld, TypeOK, Taken, workerRest
  <2>2. CASE Initialize
    BY <2>2 DEF Initialize, TypeOK
  <2>3. CASE UNCHANGED <<turn, closable>>
    BY <2>3 DEF TypeOK
  <2>4. QED
    BY <2>1, <2>2, <2>3
       DEF Worker, Turning, Finishing, Announce, WaitQuit, Idle, PromptFails,
           SendPrompt, ReadPart, ResponseInterrupted, ResponseTimeout, ShowChunk, DropChunk,
           SendCancel, Receive, BrokenPipe, DrainTimeout, CutOff, TearsWrite,
           CloseRequest, CloseEnds, Kill,
           Reap, worker, workerRest
<1>6. /\ pending' \in BOOLEAN /\ turnReady' \in BOOLEAN /\ partial' \in BOOLEAN
      /\ acked' \in Taken
  <2>1. CASE Receive
    <3>1. pending' \in {pending, FALSE} /\ partial' = FALSE /\ acked' \in {acked, turn}
      BY <2>1 DEF Receive
    <3>2. turnReady' = turnReady \/ turnReady' = (Head(toClient).reason \in Acknowledged)
      BY <2>1 DEF Receive
    <3>3. turnReady' \in BOOLEAN
      <4>1. CASE turnReady' = turnReady
        BY <4>1 DEF TypeOK
      <4>2. CASE turnReady' = (Head(toClient).reason \in Acknowledged)
        <5>1. (Head(toClient).reason \in Acknowledged) \in BOOLEAN
          OBVIOUS
        <5>2. QED
          BY <4>2, <5>1, Zenon
      <4>3. QED
        BY <3>2, <4>1, <4>2
    <3>4. QED
      BY <3>1, <3>3 DEF TypeOK
  <2>2. CASE ~Receive
    <3>1. UNCHANGED acked
      BY <2>2 DEF Worker, Turning, Finishing, Announce, WaitQuit, Idle, TakeCommand, PromptFails,
         SendPrompt, ReadPart, ResponseInterrupted, ResponseTimeout, ShowChunk, DropChunk,
         SendCancel, BrokenPipe, DrainTimeout, CutOff, TearsWrite,
         Initialize, CloseRequest, CloseEnds, Kill,
         Reap
    <3>2. pending' \in {pending, TRUE} /\ turnReady' \in {turnReady, FALSE}
            /\ partial' \in {partial, FALSE, TRUE}
      BY <2>2 DEF Worker, Turning, Finishing, Announce, WaitQuit, Idle, TakeCommand, PromptFails,
         SendPrompt, ReadPart, ResponseInterrupted, ResponseTimeout, ShowChunk, DropChunk,
         SendCancel, BrokenPipe, DrainTimeout, CutOff, TearsWrite,
         Initialize, CloseRequest, CloseEnds, Kill,
         Reap, client
    <3>3. QED
      BY <3>1, <3>2 DEF TypeOK
  <2>3. QED
    BY <2>1, <2>2
<1>7. toBackend' \in Seq(ToBackend) /\ toClient' \in Seq(ToClient)
  <2>1. CASE SendPrompt
    <3>1. Prompt(turn) \in ToBackend
      BY <2>1, MessagesType, LimitsAssumption
         DEF SendPrompt, TurnIsHeld, TypeOK, InTurn, Taken, Turns
    <3>2. QED
      BY <2>1, <3>1, AppendOf DEF SendPrompt, TypeOK
  <2>2. CASE SendCancel
    <3>1. Cancel(turn) \in ToBackend
      BY <2>2, MessagesType, LimitsAssumption
         DEF SendCancel, TurnIsHeld, TypeOK, InTurn, Taken, Turns
    <3>2. QED
      BY <2>2, <3>1, AppendOf DEF SendCancel, TypeOK
  <2>3. CASE CloseRequest \/ CutOff
    <3>1. PICK m \in ToBackend : toBackend' = Append(toBackend, m)
      BY <2>3, MessagesType DEF CloseRequest, CutOff, TearsWrite
    <3>2. UNCHANGED toClient
      BY <2>3 DEF CloseRequest, CutOff, TearsWrite
    <3>3. QED
      BY <3>1, <3>2, AppendOf DEF TypeOK
  <2>4. CASE UNCHANGED toBackend /\ toClient' \in {toClient, <<>>}
    <3>1. <<>> \in Seq(ToClient)
      OBVIOUS
    <3>2. QED
      BY <2>4, <3>1 DEF TypeOK
  <2>5. CASE UNCHANGED toBackend /\ toClient # <<>> /\ toClient' = Tail(toClient)
    BY <2>5, TailOf DEF TypeOK
  <2>6. QED
    BY <2>1, <2>2, <2>3, <2>4, <2>5
       DEF Worker, Turning, Finishing, Announce, WaitQuit, Idle, TakeCommand, PromptFails,
           ReadPart, ResponseInterrupted, ResponseTimeout, ShowChunk, DropChunk,
           Receive, BrokenPipe, DrainTimeout, Initialize, CloseEnds, Kill,
           Reap, pipes, FrameEnds, ClientDropped
<1>8. working' \in Taken /\ child' \in {"running", "exited", "failed", "reaped"}
  <2>1. working' \in {working, 0} /\ child' \in {child, "failed", "reaped"}
    BY DEF Worker, Turning, Finishing, Announce, WaitQuit, Idle, TakeCommand, PromptFails,
       SendPrompt, ReadPart, ResponseInterrupted, ResponseTimeout, ShowChunk, DropChunk,
       SendCancel, Receive, BrokenPipe, DrainTimeout, CutOff, TearsWrite,
       Initialize, CloseRequest, CloseEnds, Kill,
       Reap, backend
  <2>2. QED
    BY <2>1, LimitsAssumption DEF TypeOK, Taken
<1>9. QED
  BY <1>1, <1>2, <1>3, <1>4, <1>5, <1>6, <1>7, <1>8 DEF TypeOK, screen, signals

LEMMA UserKeepsTypes ==
  ASSUME SessionInv, Display \/ Keys
  PROVE  TypeOK'
<1> USE DEF SessionInv
<1>1. UNCHANGED <<initial, client, worker, pipes, backend, acked>>
  BY DEF Display, Keys, UiText, UiReady, UiClosed, Done, KeyEnter, KeyEscape, KeyP, KeyC, Quit,
     uiRest
<1>2. ui' \in {"running", "quitting", "done"} /\ starting' \in BOOLEAN /\ workerDone' \in BOOLEAN
        /\ cancel' \in BOOLEAN /\ quit' \in BOOLEAN
  BY DEF TypeOK, Display, Keys, UiText, UiReady, UiClosed, Done, KeyEnter, KeyEscape, KeyP, KeyC,
     Quit, signals, CancelReset, Leave
<1>3. composing' \in {composing, TRUE, FALSE, starting \/ composing} /\ ready' \in {ready, TRUE, FALSE}
        /\ active' \in {active, TRUE, FALSE}
  BY DEF Display, Keys, UiText, UiReady, UiClosed, Done, KeyEnter, KeyEscape, KeyP, KeyC,
     Quit, Submit
<1>4. composing' \in BOOLEAN /\ ready' \in BOOLEAN /\ active' \in BOOLEAN
  BY <1>3 DEF TypeOK
<1>5. \/ Submit /\ told \in Taken
      \/ UNCHANGED told /\ command' \in {command, <<>>}
  <2>1. CASE UiReady
    <3>1. 1 \in DOMAIN display /\ display[1].kind = "ready"
      BY <2>1, TailOf DEF UiReady, TypeOK
    <3>2. told \in Taken
      BY <3>1 DEF DisplayIsInOrder, TypeOK
    <3>3. QED
      BY <2>1, <3>2 DEF UiReady, Leave
  <2>2. CASE KeyEnter
    BY <2>2 DEF KeyEnter, TurnIsHeld, TypeOK
  <2>3. QED
    BY <2>1, <2>2 DEF Display, Keys, UiText, UiClosed, Done, KeyEscape, KeyP, KeyC, Quit, queues,
       Leave
<1>6. told' \in 0..(TurnLimit + 1) /\ command' \in {<<>>} \cup {<<t>> : t \in 1..(TurnLimit + 1)}
  BY <1>5, LimitsAssumption DEF Submit, TypeOK, Taken
<1>7. asked' \in 0..(TurnLimit + 1)
  BY DEF TypeOK, Display, Keys, UiText, UiReady, UiClosed, Done, KeyEnter, KeyEscape, KeyP, KeyC,
     Quit
<1>8. display' \in Seq(Updates) /\ Len(display') <= DisplayCap
  <2>1. display' = display \/ display' = <<>> \/ (display # <<>> /\ display' = Tail(display))
    BY DEF Display, Keys, UiText, UiReady, UiClosed, Done, KeyEnter, KeyEscape, KeyP, KeyC,
       Quit, queues, Leave
  <2>2. QED
    <3>1. <<>> \in Seq(Updates) /\ Len(<<>>) = 0
      OBVIOUS
    <3>2. display \in Seq(Updates) /\ Len(display) <= DisplayCap /\ Len(display) \in Nat
      BY DEF TypeOK
    <3>3. CASE display # <<>> /\ display' = Tail(display)
      BY <3>2, <3>3, TailOf, LimitsAssumption
    <3>4. QED
      <4>1. CASE display' = <<>>
        BY <3>1, <4>1, LimitsAssumption
      <4>2. CASE display' = display
        BY <3>2, <4>2
      <4>3. QED
        BY <2>1, <3>3, <4>1, <4>2
<1>9. report' \in {"none", "ok", "err"}
  BY DEF Display, Keys, UiText, UiReady, UiClosed, Done, KeyEnter, KeyEscape, KeyP, KeyC, Quit,
     uiRest, LoopResults, Both, TypeOK
<1>10. QED
  BY <1>1, <1>2, <1>4, <1>6, <1>7, <1>8, <1>9 DEF TypeOK, client, worker, pipes, backend
-----------------------------------------------------------------------------
(***************************************************************************)
(* The turn, from the key to its acknowledgement.                          *)
(***************************************************************************)

\* The worker ends the session, or moves on within a turn.
Closes == /\ phase' \in After
          /\ outcome' = "err" \/ phase = "wait" \/ (phase \in After /\ UNCHANGED outcome)
GoesOn == phase \in InTurn /\ phase' \in InTurn \ {"prompt"} /\ (UNCHANGED outcome \/ outcome' = "err")

turned == <<acked, turn, told, command, ready>>

LEMMA WorkerSteps ==
  ASSUME TypeOK, Worker
  PROVE  \/ Announce \/ TakeCommand \/ Receive \/ Initialize
         \/ Closes /\ UNCHANGED turned
         \/ GoesOn /\ UNCHANGED turned
         \/ UNCHANGED <<phase, outcome>> /\ UNCHANGED turned
<1>1. CASE WaitQuit \/ Idle \/ PromptFails \/ BrokenPipe \/ DrainTimeout \/ CutOff
  BY <1>1 DEF WaitQuit, Idle, PromptFails, BrokenPipe, DrainTimeout, CutOff, TearsWrite,
     Finish, Closes, After, turned,
     queues, worker, workerRest, screen
<1>2. CASE CloseRequest \/ CloseEnds \/ Reap
  BY <1>2 DEF CloseRequest, CloseEnds, Reap, ClientDropped, Closes, After, turned,
     queues, worker, workerRest, screen
<1>3. CASE SendPrompt \/ ResponseInterrupted \/ ResponseTimeout \/ SendCancel
  BY <1>3 DEF SendPrompt, ResponseInterrupted, ResponseTimeout, SendCancel, GoesOn, InTurn, turned,
     queues, worker, workerRest, screen
<1>4. CASE ReadPart \/ ShowChunk \/ DropChunk \/ Kill
  BY <1>4 DEF ReadPart, ShowChunk, DropChunk, Kill, turned, queues, worker, workerRest, screen
<1>5. QED
  BY <1>1, <1>2, <1>3, <1>4 DEF Worker, Turning, Finishing

\* What the user can do to the turn.
LEMMA UserSteps ==
  ASSUME Display \/ Keys
  PROVE  \/ UiReady \/ UiClosed \/ KeyEnter \/ Quit
         \/ UiText /\ UNCHANGED turned
         \/ (KeyEscape \/ KeyP \/ KeyC \/ Done) /\ UNCHANGED turned /\ UNCHANGED display
  BY DEF Display, Keys, UiText, KeyEscape, KeyP, KeyC, Done, turned, uiRest, worker, queues

\* The head of the display queue, and what is behind it.
LEMMA HeadIsReady ==
  ASSUME SessionInv, display # <<>>, Head(display).kind = "ready"
  PROVE  /\ Tail(display) = <<>> /\ command = <<>> /\ ~ready
         /\ told = turn /\ turn = acked /\ phase \notin Before
<1>1. display \in Seq(Updates) /\ 1 \in DOMAIN display /\ display[1].kind = "ready"
  BY TailOf DEF SessionInv, TypeOK
<1>2. 1 = Len(display) /\ command = <<>> /\ ~ready /\ told = turn /\ turn = acked
        /\ phase \notin Before
  BY <1>1 DEF SessionInv, DisplayIsInOrder
<1>3. Tail(display) = <<>>
  BY <1>1, <1>2
<1>4. QED
  BY <1>2, <1>3

LEMMA TurnStaysHeld ==
  ASSUME SessionInv, TypeOK', Next
  PROVE  TurnIsHeld'
<1> USE DEF SessionInv
<1>1. CASE UNCHANGED turned /\ UNCHANGED phase
  BY <1>1 DEF TurnIsHeld, turned
<1>2. CASE UNCHANGED turned /\ Closes
  BY <1>2 DEF TurnIsHeld, turned, Closes, InTurn, Before, After
<1>3. CASE UNCHANGED turned /\ GoesOn
  BY <1>3 DEF TurnIsHeld, turned, GoesOn, InTurn, Before
<1>4. CASE Backend
  <2>1. UNCHANGED turned /\ UNCHANGED phase
    BY <1>4 DEF Backend, BackendReads, BackendSpeaks, BackendStops, BackendStrays, BackendExits,
       backendOnly, turned, queues, worker, screen
  <2>2. QED
    BY <1>1, <2>1
<1>5. CASE Announce \/ Initialize
  <2>1. UNCHANGED turned /\ phase \in Before
    BY <1>5 DEF Announce, Initialize, Before, turned, workerRest, screen, queues
  <2>2. phase' \in {"announce", "close"} \/ (phase' = "wait" /\ turn # TurnLimit)
    BY <1>5 DEF Announce, TurnsLeft, Initialize, Finish
  <2>3. QED
    BY <2>1, <2>2, LimitsAssumption DEF TurnIsHeld, InTurn, Before, turned, TypeOK, Taken
<1>6. CASE TakeCommand
  <2>1. command = <<told>> /\ told = turn + 1 /\ turn = acked /\ ~ready
    BY <1>6 DEF TakeCommand, TurnIsHeld
  <2>2. QED
    BY <1>6, <2>1 DEF TakeCommand, TurnIsHeld, InTurn, Before, workerRest, screen, TypeOK
<1>7. CASE Receive
  <2>1. phase \in InTurn /\ told = turn /\ turn = acked + 1 /\ command = <<>> /\ ~ready
    BY <1>7 DEF Receive, TurnIsHeld, InTurn, TypeOK, Taken
  <2>2. UNCHANGED <<turn, told, command, ready>>
    BY <1>7 DEF Receive, workerRest, screen, queues
  <2>3. acked' \in {acked, turn} /\ (phase' = "announce" => acked' = turn)
          /\ phase' \in {"announce", "close"}
    BY <1>7 DEF Receive, TurnEnds, Finish, OwnStop
  <2>4. QED
    BY <2>1, <2>2, <2>3 DEF TurnIsHeld, InTurn, Before, TypeOK, Taken
<1>8. CASE UiReady
  <2>1. command = <<>> /\ ~ready /\ told = turn /\ turn = acked /\ phase \notin Before
    BY <1>8, HeadIsReady DEF UiReady
  <2>2. UNCHANGED <<acked, turn, phase>>
    BY <1>8 DEF UiReady, uiRest, worker
  <2>3. \/ ready' = FALSE /\ told' = told + 1 /\ command' = <<told + 1>>
        \/ told' = told /\ command' = <<>>
    BY <1>8, <2>1 DEF UiReady, Submit, Leave
  <2>4. QED
    BY <2>1, <2>2, <2>3 DEF TurnIsHeld, InTurn, Before, TypeOK, Taken
<1>9. CASE KeyEnter
  <2>1. ready /\ told = turn /\ turn = acked /\ phase \notin Before
    BY <1>9 DEF KeyEnter, TurnIsHeld
  <2>2. UNCHANGED <<acked, turn, phase>>
    BY <1>9 DEF KeyEnter, uiRest, worker
  <2>3. ready' = FALSE /\ told' = told + 1 /\ command' = <<told + 1>>
    BY <1>9 DEF KeyEnter, Submit
  <2>4. QED
    BY <2>1, <2>2, <2>3 DEF TurnIsHeld, InTurn, Before, TypeOK, Taken
<1>10. CASE UiClosed \/ Quit
  BY <1>10 DEF TurnIsHeld, UiClosed, Quit, Leave, uiRest, worker, queues
<1>11. QED
  <2>1. UNCHANGED turned => (KeyEscape \/ KeyP \/ KeyC \/ Done \/ UiText => UNCHANGED phase)
    BY DEF KeyEscape, KeyP, KeyC, Done, UiText, uiRest, worker
  <2>2. QED
    BY <1>1, <1>2, <1>3, <1>4, <1>5, <1>6, <1>7, <1>8, <1>9, <1>10, <2>1, WorkerSteps, UserSteps
       DEF Next
-----------------------------------------------------------------------------
(***************************************************************************)
(* The display and the user.                                               *)
(***************************************************************************)
LEMMA WorkerLeavesTheUser ==
  ASSUME Worker
  PROVE  UNCHANGED <<ui, screen, signals, asked>> /\ phase # "over"
  BY DEF Worker, Turning, Finishing, workerRest, Announce, WaitQuit, Idle, TakeCommand, PromptFails,
     SendPrompt, ReadPart, ResponseInterrupted, ResponseTimeout, ShowChunk, DropChunk,
     SendCancel, Receive, BrokenPipe, DrainTimeout, CutOff, TearsWrite,
     Initialize, CloseRequest, CloseEnds, Kill,
     Reap

LEMMA UserLeavesTheWorker ==
  ASSUME Display \/ Keys
  PROVE  UNCHANGED <<initial, client, worker, pipes, backend, acked>>
  BY DEF Display, Keys, UiText, UiReady, UiClosed, Done, KeyEnter, KeyEscape, KeyP, KeyC, Quit,
     uiRest

LEMMA DisplayStaysInOrder ==
  ASSUME SessionInv, TypeOK', TurnIsHeld', Next
  PROVE  DisplayIsInOrder'
<1> USE DEF SessionInv
<1>1. display \in Seq(Updates) /\ display' \in Seq(Updates) /\ DOMAIN display = 1..Len(display)
  BY DEF TypeOK
<1>2. CASE Backend
  BY <1>2 DEF Backend, BackendReads, BackendSpeaks, BackendStops, BackendStrays, BackendExits,
     backendOnly, queues, worker, screen, DisplayIsInOrder
<1>3. CASE Worker
  <2>1. UNCHANGED <<ready, active, told>>
    BY <1>3, WorkerLeavesTheUser DEF screen
  <2>2. CASE Announce
    <3>1. phase \in Before /\ UNCHANGED <<turn, acked, command>> /\ phase' \notin Before
      BY <2>2 DEF Announce, Before, Finish
    <3>2. told = turn /\ turn = acked /\ command = <<>> /\ ~ready
      BY <3>1 DEF TurnIsHeld, TypeOK, Taken
    <3>3. CASE UNCHANGED display
      BY <2>1, <3>1, <3>3 DEF DisplayIsInOrder
    <3>4. CASE display' = Append(display, Ready(turn))
      <4>1. Ready(turn) \in Updates /\ Ready(turn).kind = "ready"
        BY MessagesType DEF TypeOK, Ready
      <4>2. QED
        BY <1>1, <2>1, <3>1, <3>2, <3>4, <4>1, AppendOf DEF DisplayIsInOrder
    <3>5. QED
      BY <2>2, <3>3, <3>4 DEF Announce
  <2>3. CASE ShowChunk
    <3>1. phase = "respond" /\ phase' = "respond" /\ ~quit /\ UNCHANGED <<turn, acked, command>>
            /\ toClient # <<>> /\ Head(toClient).kind = "chunk"
            /\ display' = Append(display, Text(Head(toClient).turn))
      BY <2>3 DEF ShowChunk, Interrupted, worker
    <3>2. told = turn /\ turn = acked + 1 /\ active
      BY <3>1 DEF TurnIsHeld, UserIsHeard, InTurn
    <3>3. Head(toClient).turn = turn
      BY <3>1, TailOf DEF BackendIsBehind, TypeOK
    <3>4. Text(turn) \in Updates /\ Text(turn).kind = "text" /\ Text(turn).turn = turn
      BY <3>2, MessagesType DEF TypeOK, Text, Taken, Turns
    <3>5. \A i \in DOMAIN display : display[i].kind # "ready"
      BY <3>2 DEF DisplayIsInOrder, TypeOK, Taken
    <3>6. QED
      BY <1>1, <2>1, <3>1, <3>2, <3>3, <3>4, <3>5, AppendOf DEF DisplayIsInOrder
  <2>4. CASE ~Announce /\ ~ShowChunk
    <3>1. UNCHANGED display
      BY <1>3, <2>4
         DEF Worker, Turning, Finishing, WaitQuit, Idle, TakeCommand, PromptFails,
             SendPrompt, ReadPart, ResponseInterrupted, ResponseTimeout, DropChunk,
             SendCancel, Receive, BrokenPipe, DrainTimeout, CutOff, TearsWrite,
             Initialize, CloseRequest, CloseEnds,
             Kill, Reap, queues
    <3>2. \/ UNCHANGED <<turn, acked, command>> /\ (phase' = phase \/ phase' \in After)
          \/ phase \in InTurn \cup Before \/ command # <<>>
      BY <1>3, <2>4, WorkerSteps
         DEF TakeCommand, Receive, Initialize, turned, Closes, GoesOn, InTurn, Before, After
    <3>3. CASE UNCHANGED <<turn, acked, command>> /\ (phase' = phase \/ phase' \in After)
      BY <2>1, <3>1, <3>3 DEF DisplayIsInOrder, Before, After
    <3>4. CASE phase \in InTurn \cup Before \/ command # <<>>
      <4>1. \A i \in DOMAIN display : display[i].kind # "ready"
        BY <3>4 DEF DisplayIsInOrder, TurnIsHeld, TypeOK, Taken
      <4>2. QED
        BY <2>1, <3>1, <4>1 DEF DisplayIsInOrder
    <3>5. QED
      BY <3>2, <3>3, <3>4
  <2>5. QED
    BY <2>2, <2>3, <2>4
<1>4. CASE Display \/ Keys
  <2>1. UNCHANGED <<phase, turn, acked>>
    BY <1>4, UserLeavesTheWorker DEF worker
  <2>2. CASE UiText
    <3>1. display # <<>> /\ display' = Tail(display) /\ UNCHANGED <<ready, active, told, command>>
      BY <2>2 DEF UiText
    <3>2. QED
      BY <1>1, <2>1, <3>1, TailOf DEF DisplayIsInOrder
  <2>3. CASE UiReady \/ UiClosed \/ KeyEnter \/ Quit
    <3>1. display' = <<>>
      BY <2>3, HeadIsReady
         DEF UiReady, UiClosed, KeyEnter, Quit, Leave, KeyArrives, Sendable, UserIsHeard, queues
    <3>2. DOMAIN display' = {}
      BY <3>1
    <3>3. QED
      BY <3>2 DEF DisplayIsInOrder
  <2>4. CASE KeyEscape \/ KeyP \/ KeyC \/ Done
    BY <2>1, <2>4 DEF KeyEscape, KeyP, KeyC, Done, queues, DisplayIsInOrder
  <2>5. QED
    BY <1>4, <2>2, <2>3, <2>4 DEF Display, Keys
<1>5. QED
  BY <1>2, <1>3, <1>4 DEF Next

LEMMA UserStaysHeard ==
  ASSUME SessionInv, TypeOK', TurnIsHeld', Next
  PROVE  UserIsHeard'
<1> USE DEF SessionInv
<1>1. CASE Backend
  BY <1>1 DEF Backend, BackendReads, BackendSpeaks, BackendStops, BackendStrays, BackendExits,
     backendOnly, queues, worker, screen, signals, UserIsHeard
<1>2. CASE Worker
  <2>1. UNCHANGED <<ui, ready, active, told, workerDone, cancel, quit, asked>> /\ phase # "over"
    BY <1>2, WorkerLeavesTheUser DEF screen, signals
  <2>2. ~workerDone
    BY <2>1 DEF UserIsHeard
  <2>3. command' \in {command, <<>>}
    BY <1>2, WorkerSteps DEF Announce, TakeCommand, Receive, Initialize, queues, turned
  <2>4. phase' \in InTurn => phase \in InTurn \/ command # <<>>
    BY <1>2, WorkerSteps
       DEF Announce, TakeCommand, Receive, Initialize, Finish, TurnEnds, Closes, GoesOn, InTurn, After
  <2>5. QED
    BY <2>1, <2>2, <2>3, <2>4 DEF UserIsHeard
<1>3. CASE Display \/ Keys
  <2>1. UNCHANGED phase
    BY <1>3, UserLeavesTheWorker DEF worker
  <2>2. CASE UiText
    BY <2>1, <2>2 DEF UiText, UserIsHeard, signals
  <2>3. CASE UiReady
    <3>1. told = turn /\ turn = acked /\ command = <<>> /\ ~workerDone /\ phase \notin InTurn
      BY <2>3, HeadIsReady DEF UiReady, UserIsHeard, TurnIsHeld, TypeOK, Taken
    <3>2. cancel' = FALSE /\ UNCHANGED workerDone
      BY <2>3 DEF UiReady, CancelReset
    <3>3. quit' = (ui' # "running")
      BY <2>3 DEF UiReady, Leave, UserIsHeard, Looping
    <3>4. \/ ready' = TRUE /\ active' = FALSE /\ command' = <<>>
          \/ ready' = FALSE /\ active' = TRUE
      BY <2>3, <3>1 DEF UiReady, Leave, Submit
    <3>5. QED
      BY <2>1, <3>1, <3>2, <3>3, <3>4 DEF UserIsHeard
  <2>4. CASE KeyEnter
    <3>1. ready /\ ~workerDone
      BY <2>4 DEF KeyEnter, Sendable, UserIsHeard
    <3>2. ready' = FALSE /\ active' = TRUE /\ UNCHANGED <<ui, workerDone, cancel, quit>>
      BY <2>4 DEF KeyEnter, Submit, signals
    <3>3. QED
      BY <2>1, <3>1, <3>2 DEF UserIsHeard
  <2>5. CASE UiClosed
    BY <2>1, <2>5 DEF UiClosed, UserIsHeard, signals, queues, InTurn
  <2>6. CASE Quit
    BY <2>1, <2>6 DEF Quit, Leave, UserIsHeard
  <2>7. CASE KeyC
    BY <2>1, <2>7 DEF KeyC, UserIsHeard, queues
  <2>8. CASE KeyEscape \/ KeyP \/ Done
    BY <2>1, <2>8 DEF KeyEscape, KeyP, Done, UserIsHeard, signals, queues
  <2>9. QED
    BY <1>3, <2>2, <2>3, <2>4, <2>5, <2>6, <2>7, <2>8 DEF Display, Keys
<1>4. QED
  BY <1>1, <1>2, <1>3 DEF Next

LEMMA SessionStaysEnded ==
  ASSUME SessionInv, TypeOK', TurnIsHeld', Next
  PROVE  SessionEnds'
<1> USE DEF SessionInv
<1>1. CASE Backend
  <2>1. UNCHANGED <<ui, report, phase, turn, outcome, acked>> /\ (phase # "over" \/ UNCHANGED child)
    BY <1>1 DEF Backend, BackendReads, BackendSpeaks, BackendStops, BackendStrays, BackendExits,
       Running, backendOnly, worker, screen, SessionEnds
  <2>2. UNCHANGED toBackend \/ (toBackend # <<>> /\ toBackend' = Tail(toBackend))
    BY <1>1 DEF Backend, BackendReads, BackendSpeaks, BackendStops, BackendStrays, BackendExits, pipes
  <2>3. \A i \in DOMAIN toBackend' : toBackend'[i].kind = "torn" => phase \in After
    <3>1. CASE UNCHANGED toBackend
      BY <3>1 DEF SessionEnds
    <3>2. CASE toBackend # <<>> /\ toBackend' = Tail(toBackend)
      <4>1. \A i \in DOMAIN toBackend' : i + 1 \in DOMAIN toBackend /\ toBackend'[i] = toBackend[i + 1]
        BY <3>2, TailOf DEF TypeOK
      <4>2. QED
        BY <4>1 DEF SessionEnds
    <3>3. QED
      BY <2>2, <3>1, <3>2
  <2>4. QED
    BY <2>1, <2>3 DEF SessionEnds
<1>2. CASE Worker
  <2>1. UNCHANGED ui /\ phase # "over"
    BY <1>2, WorkerLeavesTheUser
  <2>2. phase' = "over" => child' = "reaped"
    <3>1. CASE Reap
      BY <3>1 DEF Reap
    <3>2. CASE ~Reap
      BY <1>2, <2>1, <3>2
         DEF Worker, Turning, Finishing, Announce, WaitQuit, Idle, TakeCommand, PromptFails,
             SendPrompt, ReadPart, ResponseInterrupted, ResponseTimeout, ShowChunk, DropChunk,
             SendCancel, Receive, BrokenPipe, DrainTimeout, CutOff, TearsWrite,
             Initialize, CloseRequest, CloseEnds,
             Kill, Finish, TurnEnds, ClientDropped, worker
    <3>3. QED
      BY <3>1, <3>2
  <2>3. phase' \in After /\ outcome' = "ok" => turn' = acked'
    <3>1. CASE Announce \/ Initialize
      BY <3>1 DEF Announce, Initialize, TurnIsHeld, Before
    <3>2. CASE TakeCommand
      BY <3>2 DEF TakeCommand, After
    <3>3. CASE Receive
      BY <3>3 DEF Receive, TurnEnds, OwnStop, Finish
    <3>4. CASE UNCHANGED turned /\ (Closes \/ GoesOn \/ UNCHANGED <<phase, outcome>>)
      BY <3>4 DEF turned, Closes, GoesOn, InTurn, After, SessionEnds, TurnIsHeld
    <3>5. QED
      BY <1>2, <3>1, <3>2, <3>3, <3>4, WorkerSteps
  <2>4. ui' # "done"
    BY <2>1 DEF SessionEnds
  <2>5. \A i \in DOMAIN toBackend' : toBackend'[i].kind = "torn" => phase' \in After
    <3>1. CASE CutOff
      BY <3>1 DEF CutOff, Finish, After
    <3>2. CASE SendPrompt \/ SendCancel \/ CloseRequest
      <4>1. PICK m \in ToBackend : toBackend' = Append(toBackend, m) /\ m.kind # "torn"
        <5>1. turn \in Turns => {Prompt(turn), Cancel(turn)} \subseteq ToBackend
          BY MessagesType
        <5>2. Close \in ToBackend
          BY MessagesType
        <5>3. SendPrompt \/ SendCancel => turn \in Turns
          BY LimitsAssumption DEF SendPrompt, SendCancel, TurnIsHeld, InTurn, TypeOK, Taken, Turns
        <5>4. Prompt(turn).kind # "torn" /\ Cancel(turn).kind # "torn" /\ Close.kind # "torn"
          BY DEF Prompt, Cancel, Close
        <5>5. QED
          BY <3>2, <5>1, <5>2, <5>3, <5>4 DEF SendPrompt, SendCancel, CloseRequest
      <4>2. \A i \in DOMAIN toBackend' :
              toBackend'[i].kind = "torn" => i \in DOMAIN toBackend /\ toBackend[i].kind = "torn"
        BY <4>1, AppendOf DEF TypeOK
      <4>3. phase \in After => phase' \in After
        BY <3>2 DEF SendPrompt, SendCancel, CloseRequest, After
      <4>4. QED
        BY <4>2, <4>3 DEF SessionEnds
    <3>3. CASE ~(CutOff \/ SendPrompt \/ SendCancel \/ CloseRequest)
      <4>1. UNCHANGED toBackend
        BY <1>2, <3>3
           DEF Worker, Turning, Finishing, Announce, WaitQuit, Idle, TakeCommand, PromptFails,
               ReadPart, ResponseInterrupted, ResponseTimeout, ShowChunk, DropChunk, Receive,
               BrokenPipe, DrainTimeout, Initialize, CloseEnds, Kill, Reap, pipes
      <4>2. phase \in After => phase' \in After
        BY <1>2, <3>3
           DEF Worker, Turning, Finishing, Announce, WaitQuit, Idle, TakeCommand, PromptFails,
               ReadPart, ResponseInterrupted, ResponseTimeout, ShowChunk, DropChunk, Receive,
               BrokenPipe, DrainTimeout, Initialize, CloseEnds, Kill, Reap, worker, After,
               ClientDropped
      <4>3. QED
        BY <4>1, <4>2 DEF SessionEnds
    <3>4. QED
      BY <3>1, <3>2, <3>3
  <2>6. QED
    BY <2>2, <2>3, <2>4, <2>5 DEF SessionEnds
<1>3. CASE Display \/ Keys
  <2>1. UNCHANGED <<phase, turn, outcome, acked, child, toBackend>>
    BY <1>3, UserLeavesTheWorker DEF worker, backend, pipes
  <2>2. ui' = "done" => ui = "done" \/ phase = "over"
    BY <1>3 DEF Display, Keys, UiText, UiReady, UiClosed, Done, KeyEnter, KeyEscape, KeyP, KeyC, Quit,
       Leave
  <2>3. ui' = "done" /\ report' = "ok" => outcome = "ok"
    <3>1. CASE Done
      BY <3>1 DEF Done, Both
    <3>2. CASE ~Done
      BY <1>3, <3>2 DEF Display, Keys, UiText, UiReady, UiClosed, KeyEnter, KeyEscape, KeyP, KeyC,
         Quit, Leave, Looping, KeyArrives
    <3>3. QED
      BY <3>1, <3>2
  <2>4. QED
    BY <2>1, <2>2, <2>3 DEF SessionEnds
<1>4. QED
  BY <1>1, <1>2, <1>3 DEF Next
-----------------------------------------------------------------------------
(***************************************************************************)
(* The pipes.                                                              *)
(***************************************************************************)

\* The rest of the pipe is as good as the pipe.
LEMMA PipeIsRead ==
  ASSUME SessionInv, TypeOK', toClient # <<>>, toClient' = Tail(toClient),
         UNCHANGED <<toBackend, working, turn, acked>>, phase' # "prompt"
  PROVE  BackendIsBehind'
<1>1. Unread' = Unread
  BY DEF Unread
<1>2. \A i \in DOMAIN toClient' : i + 1 \in DOMAIN toClient /\ toClient'[i] = toClient[i + 1]
  BY TailOf DEF SessionInv, TypeOK
<1>3. \A i, j \in DOMAIN toClient' : i \in Int /\ j \in Int /\ (j > i => j + 1 > i + 1)
  BY DEF TypeOK
<1>4. QED
  BY <1>1, <1>2, <1>3 DEF SessionInv, BackendIsBehind

\* What the backend adds to the pipe is text of its turn, the answer that ends
\* it, an old answer, or nothing the client waits for.
Follows(messages) ==
  \A k \in DOMAIN messages :
    \/ messages[k].kind \notin {"chunk", "stop"}
    \/ messages[k].kind = "stop" /\ messages[k].turn <= acked
    \/ messages[k] = Chunk(working) /\ working # 0
    \/ /\ messages[k].kind = "stop" /\ messages[k].turn = working
       /\ working # 0 /\ working' = 0
       /\ \A l \in DOMAIN messages : messages[l].kind # "chunk"

LEMMA OneFollows ==
  ASSUME NEW m,
         \/ m.kind \notin {"chunk", "stop"}
         \/ m.kind = "stop" /\ m.turn <= acked
         \/ m = Chunk(working) /\ working # 0
         \/ m.kind = "stop" /\ m.turn = working /\ working # 0 /\ working' = 0
  PROVE  Follows(<<m>>)
<1>1. \A k \in DOMAIN <<m>> : <<m>>[k] = m
  OBVIOUS
<1> DEFINE one == <<m>>
<1>2. \A k \in DOMAIN one : one[k] = m
  BY <1>1
<1> HIDE DEF one
<1>3. Follows(one)
  BY <1>2 DEF Follows
<1>4. QED
  BY <1>3 DEF one

LEMMA PipeIsWritten ==
  ASSUME SessionInv, TypeOK', NEW messages \in Seq(ToClient), Write(messages),
         UNCHANGED <<turn, acked, phase>>, working' \in {working, 0},
         \A i \in Unread' : toBackend'[i].turn = turn /\ turn = acked + 1,
         \A i, j \in Unread' : i = j,
         Unread = {} => Unread' = {},
         Follows(messages)
  PROVE  BackendIsBehind'
<1> USE DEF SessionInv, BackendIsBehind
<1>1. \A i \in Unread' : toBackend'[i].turn = turn' /\ turn' = acked' + 1
  OBVIOUS
<1>2. /\ \A i, j \in Unread' : i = j
      /\ working' # 0 => working' = turn' /\ turn' = acked' + 1 /\ Unread' = {}
      /\ phase' = "prompt" => working' = 0 /\ Unread' = {}
  OBVIOUS
<1>3. ASSUME NEW i \in DOMAIN toClient'
      PROVE  /\ toClient'[i].kind = "chunk" =>
                  toClient'[i].turn = turn' /\ turn' = acked' + 1 /\ phase' # "prompt"
             /\ toClient'[i].kind = "stop" =>
                  \/ toClient'[i].turn <= acked'
                  \/ /\ toClient'[i].turn = turn' /\ phase' # "prompt"
                     /\ working' = 0 /\ Unread' = {}
                     /\ \A j \in DOMAIN toClient' : j > i => toClient'[j].kind # "chunk"
  <2>1. CASE i \in DOMAIN toClient
    <3>1. toClient'[i] = toClient[i]
      BY <2>1, Written
    <3>2. ASSUME toClient[i].kind = "stop", ~(toClient[i].turn <= acked)
          PROVE  /\ toClient[i].turn = turn /\ phase # "prompt" /\ working = 0 /\ Unread = {}
                 /\ \A j \in DOMAIN toClient' : j > i => toClient'[j].kind # "chunk"
      <4>1. /\ toClient[i].turn = turn /\ phase # "prompt" /\ working = 0 /\ Unread = {}
            /\ \A j \in DOMAIN toClient : j > i => toClient[j].kind # "chunk"
        BY <2>1, <3>2
      <4>2. \A k \in DOMAIN messages : messages[k].kind # "chunk"
        BY <4>1 DEF Follows, Chunk
      <4>3. QED
        BY <4>1, <4>2, Written
    <3>3. QED
      BY <2>1, <3>1, <3>2
  <2>2. CASE i \notin DOMAIN toClient
    <3>1. PICK k \in DOMAIN messages : toClient'[i] = messages[k]
      BY <2>2, Written
    <3>2. CASE messages[k] = Chunk(working) /\ working # 0
      BY <3>1, <3>2 DEF Chunk
    <3>3. CASE /\ messages[k].kind = "stop" /\ messages[k].turn = working
               /\ working # 0 /\ working' = 0
               /\ \A l \in DOMAIN messages : messages[l].kind # "chunk"
      <4>1. ASSUME NEW j \in DOMAIN toClient', j > i
            PROVE  toClient'[j].kind # "chunk"
        <5>1. DOMAIN toClient' = 1..Len(toClient') /\ toClient' \in Seq(ToClient)
          BY DEF TypeOK
        <5>2. j \notin DOMAIN toClient
          BY <2>2, <4>1, <5>1, Written
        <5>3. QED
          BY <3>3, <5>2, Written
      <4>2. QED
        BY <3>1, <3>3, <4>1
    <3>4. QED
      BY <3>1, <3>2, <3>3 DEF Follows
  <2>3. QED
    BY <2>1, <2>2
<1>4. QED
  BY <1>1, <1>2, <1>3

LEMMA BackendStaysBehind ==
  ASSUME SessionInv, TypeOK', Backend
  PROVE  BackendIsBehind'
<1> USE DEF SessionInv
<1>1. UNCHANGED <<turn, acked, phase>>
  BY DEF Backend, BackendReads, BackendSpeaks, BackendStops, BackendStrays, BackendExits,
     backendOnly, worker
<1>2. CASE BackendReads
  <2>1. /\ toBackend # <<>> /\ toBackend' = Tail(toBackend) /\ Head(toBackend) = toBackend[1]
        /\ 1 \in DOMAIN toBackend
        /\ \A i \in DOMAIN toBackend' : i + 1 \in DOMAIN toBackend /\ toBackend'[i] = toBackend[i + 1]
    BY <1>2, TailOf DEF BackendReads, TypeOK
  <2>2. \A i \in DOMAIN toBackend' : i \in Nat \ {0} /\ (i \in Unread' <=> i + 1 \in Unread)
    BY <2>1 DEF Unread, TypeOK
  <2>3. \A i \in Unread' : toBackend'[i].turn = turn /\ turn = acked + 1
    BY <2>1, <2>2 DEF BackendIsBehind, Unread
  <2>4. \A i, j \in Unread' : i = j
    BY <2>2 DEF BackendIsBehind, Unread
  <2>5. Unread = {} => Unread' = {}
    BY <2>2 DEF Unread
  <2>6. CASE Head(toBackend).kind = "prompt" /\ working' = Head(toBackend).turn /\ UNCHANGED toClient
    <3>1. 1 \in Unread /\ working' = turn /\ turn = acked + 1 /\ phase # "prompt"
      BY <2>1, <2>6 DEF Unread, BackendIsBehind
    <3>2. Unread' = {}
      BY <2>2, <3>1 DEF BackendIsBehind, Unread
    <3>3. QED
      BY <1>1, <2>6, <3>1, <3>2 DEF BackendIsBehind
  <2>7. CASE UNCHANGED <<working, toClient>>
    BY <1>1, <2>3, <2>4, <2>5, <2>7 DEF BackendIsBehind
  <2>8. CASE Head(toBackend).kind # "prompt"
    <3>1. CASE working # 0 /\ working' = 0 /\ Write(<<Stop(working, "cancelled")>>)
      <4>1. <<Stop(working, "cancelled")>> \in Seq(ToClient)
        BY <3>1, MessagesType DEF TypeOK, Taken, Turns, Reasons, Acknowledged
      <4>2. Stop(working, "cancelled").kind = "stop" /\ Stop(working, "cancelled").turn = working
        BY DEF Stop
      <4>3. QED
        BY <1>1, <2>3, <2>4, <2>5, <3>1, <4>1, <4>2, OneFollows, PipeIsWritten
    <3>2. CASE Write(<<Closed>>) /\ UNCHANGED working
      <4>1. <<Closed>> \in Seq(ToClient) /\ Closed.kind = "closed"
        BY MessagesType DEF Closed
      <4>2. QED
        BY <1>1, <2>3, <2>4, <2>5, <3>2, <4>1, OneFollows, PipeIsWritten
    <3>3. QED
      BY <1>2, <2>6, <2>7, <3>1, <3>2 DEF BackendReads
  <2>9. QED
    BY <1>2, <2>6, <2>7, <2>8 DEF BackendReads
<1>3. CASE BackendSpeaks
  <2>1. working # 0 /\ UNCHANGED <<toBackend, working>> /\ Unread = {} /\ Unread' = {}
    BY <1>3 DEF BackendSpeaks, Unread, BackendIsBehind
  <2>2. <<Chunk(working)>> \in Seq(ToClient) /\ <<Part, Chunk(working)>> \in Seq(ToClient)
          /\ Part.kind = "part"
    BY <2>1, MessagesType DEF TypeOK, Taken, Turns, Part
  <2>3. QED
    <3>1. CASE Write(<<Chunk(working)>>)
      BY <1>1, <2>1, <2>2, <3>1, OneFollows, PipeIsWritten
    <3>2. CASE Write(<<Part, Chunk(working)>>)
      <4> DEFINE both == <<Part, Chunk(working)>>
      <4>1. \A k \in DOMAIN both : both[k] \in {Part, Chunk(working)}
        OBVIOUS
      <4>2. both \in Seq(ToClient) /\ Write(both)
        BY <2>2, <3>2
      <4> HIDE DEF both
      <4>3. Follows(both)
        BY <2>1, <2>2, <4>1 DEF Follows
      <4>4. QED
        BY <1>1, <2>1, <4>2, <4>3, PipeIsWritten
    <3>3. QED
      BY <1>3, <3>1, <3>2 DEF BackendSpeaks
<1>4. CASE BackendStops
  <2>1. working # 0 /\ working' = 0 /\ UNCHANGED toBackend /\ Unread = {} /\ Unread' = {}
    BY <1>4 DEF BackendStops, Unread, BackendIsBehind
  <2>2. PICK reason \in Reasons : Write(<<Stop(working, reason)>>)
    BY <1>4 DEF BackendStops
  <2>3. <<Stop(working, reason)>> \in Seq(ToClient)
    BY <2>1, MessagesType DEF TypeOK, Taken, Turns
  <2>4. Stop(working, reason).kind = "stop" /\ Stop(working, reason).turn = working
    BY DEF Stop
  <2>5. QED
    BY <1>1, <2>1, <2>2, <2>3, <2>4, OneFollows, PipeIsWritten
<1>5. CASE BackendStrays
  <2>1. UNCHANGED <<toBackend, working>> /\ Unread' = Unread
          /\ (\A i \in Unread' : toBackend'[i].turn = turn /\ turn = acked + 1)
          /\ (\A i, j \in Unread' : i = j)
    BY <1>5 DEF BackendStrays, Unread, BackendIsBehind
  <2>2. acked > 0 => <<Stop(acked, "end_turn")>> \in Seq(ToClient)
    BY MessagesType DEF TypeOK, Taken, Turns, Reasons, Acknowledged
  <2>5. Stop(acked, "end_turn").kind = "stop" /\ Stop(acked, "end_turn").turn = acked /\ acked <= acked
    BY LimitsAssumption DEF TypeOK, Taken, Stop
  <2>3. /\ <<Alien>> \in Seq(ToClient) /\ Alien.kind = "alien"
        /\ <<Part>> \in Seq(ToClient) /\ Part.kind = "part"
    BY MessagesType DEF Alien, Part
  <2>4. QED
    <3>1. CASE acked > 0 /\ Write(<<Stop(acked, "end_turn")>>)
      BY <1>1, <2>1, <2>2, <2>5, <3>1, OneFollows, PipeIsWritten
    <3>2. CASE Write(<<Alien>>)
      BY <1>1, <2>1, <2>3, <3>2, OneFollows, PipeIsWritten
    <3>3. CASE Write(<<Part>>)
      BY <1>1, <2>1, <2>3, <3>3, OneFollows, PipeIsWritten
    <3>4. QED
      BY <1>5, <3>1, <3>2, <3>3 DEF BackendStrays
<1>6. CASE BackendExits
  BY <1>1, <1>6 DEF BackendExits, pipes, BackendIsBehind, Unread
<1>7. QED
  BY <1>2, <1>3, <1>4, <1>5, <1>6 DEF Backend

LEMMA WorkerStaysAhead ==
  ASSUME SessionInv, TypeOK', TurnIsHeld', Worker
  PROVE  BackendIsBehind'
<1> USE DEF SessionInv
<1>1. CASE TakeCommand
  <2>1. turn = acked /\ turn' = acked + 1 /\ toClient = <<>> /\ phase' = "prompt"
          /\ UNCHANGED <<acked, working, toBackend, toClient>>
    BY <1>1 DEF TakeCommand, TurnIsHeld, TypeOK, pipes, backend
  <2>2. Unread = {} /\ working = 0 /\ Unread' = Unread /\ DOMAIN toClient' = {}
    BY <2>1 DEF BackendIsBehind, TypeOK, Taken, Unread
  <2>3. QED
    BY <2>1, <2>2 DEF BackendIsBehind
<1>2. CASE SendPrompt
  <2>1. /\ phase = "prompt" /\ phase' = "respond" /\ UNCHANGED <<turn, acked, working, toClient>>
        /\ toBackend' = Append(toBackend, Prompt(turn))
    BY <1>2 DEF SendPrompt, backend
  <2>2. turn = acked + 1 /\ Unread = {} /\ working = 0
    BY <2>1 DEF TurnIsHeld, InTurn, BackendIsBehind
  <2>3. Prompt(turn) \in ToBackend /\ Prompt(turn).turn = turn
    BY <2>2, MessagesType DEF TypeOK, Taken, Turns, Prompt
  <2>4. Unread' \subseteq {Len(toBackend) + 1} /\ \A i \in Unread' : toBackend'[i].turn = turn
    BY <2>1, <2>2, <2>3, AppendOf DEF TypeOK, Unread
  <2>5. QED
    BY <2>1, <2>2, <2>4 DEF BackendIsBehind
<1>3. CASE SendCancel \/ CloseRequest \/ CutOff
  <2>1. PICK m \in ToBackend : toBackend' = Append(toBackend, m) /\ m.kind # "prompt"
    <3>1. turn \in Turns => Cancel(turn) \in ToBackend /\ Cancel(turn).kind # "prompt"
      BY MessagesType DEF Cancel
    <3>2. /\ Close \in ToBackend /\ Close.kind # "prompt"
          /\ Torn \in ToBackend /\ Torn.kind # "prompt"
      BY MessagesType DEF Close, Torn
    <3>3. SendCancel => turn \in Turns
      BY DEF SendCancel, TurnIsHeld, InTurn, TypeOK, Taken, Turns
    <3>4. QED
      BY <1>3, <3>1, <3>2, <3>3 DEF SendCancel, CloseRequest, CutOff, TearsWrite
  <2>2. UNCHANGED <<turn, acked, working, toClient>> /\ phase' # "prompt"
    BY <1>3 DEF SendCancel, CloseRequest, CutOff, TearsWrite, Finish, backend
  <2>3. Unread' = Unread /\ \A i \in Unread : toBackend'[i] = toBackend[i]
    BY <2>1, AppendOf DEF TypeOK, Unread
  <2>4. QED
    BY <2>2, <2>3 DEF BackendIsBehind
<1>4. CASE ReadPart \/ ShowChunk \/ DropChunk
  <2>1. toClient # <<>> /\ toClient' = Tail(toClient) /\ phase' # "prompt"
          /\ UNCHANGED <<toBackend, working, turn, acked>>
    BY <1>4 DEF ReadPart, ShowChunk, DropChunk, backend, worker
  <2>2. QED
    BY <2>1, PipeIsRead
<1>5. CASE Idle
  <2>1. phase' # "prompt" /\ UNCHANGED <<toBackend, working, turn, acked>>
    BY <1>5 DEF Idle, Finish, backend
  <2>2. CASE UNCHANGED toClient
    BY <2>1, <2>2 DEF BackendIsBehind, Unread
  <2>3. CASE FrameEnds /\ toClient' = Tail(toClient)
    BY <2>1, <2>3, PipeIsRead DEF FrameEnds
  <2>4. QED
    BY <1>5, <2>2, <2>3 DEF Idle
<1>6. CASE Receive
  <2>1. /\ toClient # <<>> /\ toClient' = Tail(toClient)
        /\ UNCHANGED <<toBackend, working, turn>> /\ phase' # "prompt"
    BY <1>6 DEF Receive, FrameEnds, TurnEnds, Finish, backend
  <2>2. CASE UNCHANGED acked
    BY <2>1, <2>2, PipeIsRead
  <2>3. CASE OwnStop(Head(toClient)) /\ acked' = turn
    <3>1. /\ Head(toClient) = toClient[1] /\ 1 \in DOMAIN toClient
          /\ \A i \in DOMAIN toClient' : /\ i + 1 \in DOMAIN toClient
                                         /\ toClient'[i] = toClient[i + 1] /\ i + 1 > 1
      BY <2>1, TailOf DEF TypeOK
    <3>2. turn = acked + 1
      BY <1>6 DEF Receive, TurnIsHeld, InTurn
    <3>3. /\ working = 0 /\ Unread = {}
          /\ \A j \in DOMAIN toClient : j > 1 => toClient[j].kind # "chunk"
      <4>1. toClient[1].kind = "stop" /\ ~(toClient[1].turn <= acked)
        BY <2>3, <3>1, <3>2 DEF OwnStop, TypeOK, Taken
      <4>2. QED
        BY <3>1, <4>1 DEF BackendIsBehind
    <3>4. \A i \in DOMAIN toClient' : toClient'[i].kind = "stop" => toClient'[i].turn <= turn
      <4>1. \A j \in DOMAIN toClient : toClient[j].kind = "stop" => toClient[j].turn \in Nat
        BY MessageKinds DEF TypeOK, Turns
      <4>2. ASSUME NEW j \in DOMAIN toClient, toClient[j].kind = "stop"
            PROVE  toClient[j].turn <= turn
        <5>1. toClient[j].turn <= acked \/ toClient[j].turn = turn
          BY <4>2 DEF BackendIsBehind
        <5>2. toClient[j].turn \in Nat /\ acked \in Nat
          BY <4>1, <4>2, LimitsAssumption DEF TypeOK, Taken
        <5>3. QED
          BY <3>2, <5>1, <5>2
      <4>3. QED
        BY <3>1, <4>2
    <3>5. Unread' = Unread
      BY <2>1 DEF Unread
    <3>6. QED
      BY <2>1, <2>3, <3>1, <3>3, <3>4, <3>5 DEF BackendIsBehind
  <2>4. QED
    BY <1>6, <2>2, <2>3 DEF Receive, OwnStop
<1>7. CASE CloseEnds
  <2>1. UNCHANGED <<toBackend, working, turn, acked>> /\ phase' = "reap" /\ DOMAIN toClient' = {}
    BY <1>7 DEF CloseEnds, ClientDropped, backend
  <2>2. QED
    BY <2>1 DEF BackendIsBehind, Unread
<1>8. CASE \/ Announce \/ Initialize \/ WaitQuit \/ PromptFails \/ ResponseInterrupted
           \/ ResponseTimeout \/ BrokenPipe \/ DrainTimeout \/ Kill \/ Reap
  <2>1. UNCHANGED <<toBackend, toClient, turn, acked>> /\ working' \in {working, 0}
          /\ phase' # "prompt"
    BY <1>8
       DEF Announce, Initialize, WaitQuit, PromptFails, ResponseInterrupted, ResponseTimeout,
           BrokenPipe, DrainTimeout, Kill, Reap, Finish, backend, pipes
  <2>2. QED
    BY <2>1 DEF BackendIsBehind, Unread
<1>9. QED
  BY <1>1, <1>2, <1>3, <1>4, <1>5, <1>6, <1>7, <1>8 DEF Worker, Turning, Finishing

LEMMA PipesStayInOrder ==
  ASSUME SessionInv, TypeOK', TurnIsHeld', Next
  PROVE  BackendIsBehind'
<1>1. CASE Display \/ Keys
  <2>1. UNCHANGED <<toBackend, toClient, turn, acked, working, phase>>
    BY <1>1, UserLeavesTheWorker DEF worker, pipes, backend
  <2>2. QED
    BY <2>1 DEF SessionInv, BackendIsBehind, Unread
<1>2. QED
  BY <1>1, BackendStaysBehind, WorkerStaysAhead DEF Next
-----------------------------------------------------------------------------
(***************************************************************************)
(* The conversation.                                                       *)
(***************************************************************************)
LEMMA SessionStep ==
  SessionInv /\ [Next]_vars => SessionInv'
<1> SUFFICES ASSUME SessionInv, [Next]_vars PROVE SessionInv'
  OBVIOUS
<1>1. CASE Next
  <2>1. TypeOK'
    BY <1>1, BackendKeepsTypes, WorkerKeepsTypes, UserKeepsTypes DEF SessionInv, Next
  <2>2. TurnIsHeld'
    BY <1>1, <2>1, TurnStaysHeld
  <2>3. QED
    BY <1>1, <2>1, <2>2, DisplayStaysInOrder, UserStaysHeard, SessionStaysEnded, PipesStayInOrder
       DEF SessionInv
<1>2. CASE UNCHANGED vars
  BY <1>2 DEF vars, screen, queues, signals, client, worker, pipes, backend, SessionInv, TypeOK,
     TurnIsHeld, DisplayIsInOrder, UserIsHeard, BackendIsBehind, Unread, SessionEnds
<1>3. QED
  BY <1>1, <1>2

LEMMA SessionIsKeptApart ==
  ASSUME SessionInv
  PROVE  TurnsAreKeptApart
<1> USE DEF SessionInv
<1>1. ReadyIsTrue
  BY DEF ReadyIsTrue, TurnIsHeld
<1>2. TextInItsTurn
  BY DEF TextInItsTurn, DisplayIsInOrder
<1>3. CancelIsForThisTurn
  BY DEF CancelIsForThisTurn, UserIsHeard, TurnIsHeld, InTurn
<1>4. SuccessMeansSettled
  BY DEF SuccessMeansSettled, SessionEnds, After
<1>5. QED
  BY <1>1, <1>2, <1>3, <1>4 DEF TurnsAreKeptApart

\* Only SendPrompt adds a prompt to what the backend has to read.
LEMMA PromptStep ==
  ASSUME SessionInv, SessionInv', [Next]_vars, NEW t \in Turns,
         Len(toBackend') > Len(toBackend), Last(toBackend') = Prompt(t)
  PROVE  /\ acked = t - 1 /\ working = 0
         /\ \A i \in DOMAIN toBackend : toBackend[i].kind \notin {"prompt", "torn"}
<1>1. toBackend \in Seq(ToBackend) /\ toBackend' \in Seq(ToBackend) /\ ~(Len(toBackend) > Len(toBackend))
  BY DEF SessionInv, TypeOK
<1>2. ~Backend
  <2>1. Backend => UNCHANGED toBackend \/ (toBackend # <<>> /\ toBackend' = Tail(toBackend))
    BY DEF Backend, BackendReads, BackendSpeaks, BackendStops, BackendStrays, BackendExits, pipes
  <2>2. QED
    BY <1>1, <2>1, TailOf
<1>3. ~(Display \/ Keys) /\ ~UNCHANGED vars
  BY <1>1, UserLeavesTheWorker DEF pipes, vars
<1>4. CASE SendPrompt
  <2>1. Last(toBackend') = Prompt(turn) /\ phase = "prompt" /\ turn \in Nat
    BY <1>1, <1>4, AppendOf, MessagesType, LimitsAssumption
       DEF SendPrompt, Last, SessionInv, TypeOK, Taken, Turns, TurnIsHeld, InTurn
  <2>2. turn = t
    BY <2>1 DEF Prompt
  <2>3. /\ turn = acked + 1 /\ working = 0 /\ Unread = {}
        /\ \A i \in DOMAIN toBackend : toBackend[i].kind # "torn"
    BY <2>1 DEF SessionInv, TurnIsHeld, InTurn, BackendIsBehind, SessionEnds, After
  <2>4. acked \in Nat
    BY LimitsAssumption DEF SessionInv, TypeOK, Taken
  <2>5. QED
    BY <2>2, <2>3, <2>4 DEF Unread
<1>5. CASE SendCancel \/ CloseRequest \/ CutOff
  <2>1. PICK m : m \in {Cancel(turn), Close, Torn} /\ toBackend' = Append(toBackend, m)
    BY <1>5 DEF SendCancel, CloseRequest, CutOff, TearsWrite
  <2>2. Last(toBackend') = m
    BY <1>1, <2>1 DEF Last
  <2>3. QED
    BY <2>1, <2>2 DEF Cancel, Close, Torn, Prompt
<1>6. CASE Worker /\ ~SendPrompt /\ ~SendCancel /\ ~CloseRequest /\ ~CutOff
  <2>1. UNCHANGED toBackend
    BY <1>6
       DEF Worker, Turning, Finishing, Announce, WaitQuit, Idle, TakeCommand, PromptFails,
           ReadPart, ResponseInterrupted, ResponseTimeout, ShowChunk, DropChunk, Receive,
           BrokenPipe, DrainTimeout, Initialize, CloseEnds, Kill, Reap, pipes
  <2>2. QED
    BY <1>1, <2>1
<1>7. QED
  BY <1>2, <1>3, <1>4, <1>5, <1>6 DEF Next

-----------------------------------------------------------------------------
(***************************************************************************)
(* The type of a one-shot run.                                             *)
(***************************************************************************)
LEMMA FramesType ==
  /\ \A m \in Frames : /\ Run!IsFrame(m) /\ m.kind \in {"alien", "chunk", "reply"}
                       /\ m.kind = "chunk" => m.raw \in 0..ChunkBytes /\ m.text \in Seq(Run!Bytes)
                       /\ m.kind = "reply" => m.to \in Run!Requests /\ m.answer \in Run!Answers[m.to]
  /\ Run!Alien \in Frames
  /\ \A raw \in 0..ChunkBytes, text \in Seq(Run!Bytes) : Run!Chunk(raw, text) \in Frames
  /\ \A r \in Run!Requests : \A a \in Run!Answers[r] : Run!Reply(r, a) \in Frames
<1>1. ASSUME NEW raw \in 0..ChunkBytes, NEW text \in Seq(Run!Bytes)
      PROVE  /\ Run!Chunk(raw, text) \in Frames /\ Run!IsFrame(Run!Chunk(raw, text))
             /\ Run!Chunk(raw, text).kind = "chunk" /\ Run!Chunk(raw, text).raw = raw
             /\ Run!Chunk(raw, text).text = text
  BY DEF Frames, Run!IsFrame, Run!Chunk
<1>2. ASSUME NEW r \in Run!Requests, NEW a \in Run!Answers[r]
      PROVE  /\ Run!Reply(r, a) \in Frames /\ Run!IsFrame(Run!Reply(r, a))
             /\ Run!Reply(r, a).kind = "reply" /\ Run!Reply(r, a).to = r
             /\ Run!Reply(r, a).answer = a
  BY DEF Frames, Run!IsFrame, Run!Reply
<1>3. Run!Alien \in Frames /\ Run!IsFrame(Run!Alien) /\ Run!Alien.kind = "alien"
  BY DEF Frames, Run!IsFrame, Run!Alien
<1>4. ASSUME NEW m \in Frames
      PROVE  /\ Run!IsFrame(m) /\ m.kind \in {"alien", "chunk", "reply"}
             /\ m.kind = "chunk" => m.raw \in 0..ChunkBytes /\ m.text \in Seq(Run!Bytes)
             /\ m.kind = "reply" => m.to \in Run!Requests /\ m.answer \in Run!Answers[m.to]
  <2>1. \/ m = Run!Alien
        \/ \E raw \in 0..ChunkBytes, text \in Seq(Run!Bytes) : m = Run!Chunk(raw, text)
        \/ \E r \in Run!Requests : \E a \in Run!Answers[r] : m = Run!Reply(r, a)
    BY DEF Frames
  <2>2. QED
    BY <1>1, <1>2, <1>3, <2>1
<1>5. QED
  BY <1>1, <1>2, <1>3, <1>4

LEMMA RunBegins ==
  Run!Init => OneShotInv
<1> SUFFICES ASSUME Run!Init PROVE OneShotInv
  OBVIOUS
<1> USE DEF Run!Init
<1>1. backendPipe \in Seq(Frames) /\ DOMAIN backendPipe = {} /\ DOMAIN sent = {} /\ Len(stdout) = 0
        /\ Len(remaining) = 0 /\ Len(spoken) = 0 /\ Len(backendPipe) = 0
  OBVIOUS
<1>2. Run!LocalRunTypeOK
  <2>1. counted \in 0..OutputLimit /\ frames \in 0..MaxFrames /\ heard \in 0..Len(sent)
    BY RunLimitsAssumption
  <2>2. remaining \in Seq(Run!Bytes) /\ stdout \in Seq(Run!Bytes) /\ spoken \in Seq(Run!Bytes)
          /\ sent \in Seq(Run!Requests \cup {"cancel", "part"})
    OBVIOUS
  <2>3. QED
    BY <1>1, <2>1, <2>2 DEF Run!LocalRunTypeOK, Run!Phases, Run!Exchange
<1>3. TextIsAccounted
  <2>1. [i \in 1..1 |-> 0] \in [1..(Len(backendPipe) + 1) -> 0..Len(spoken)]
          /\ Accounts([i \in 1..1 |-> 0])
    BY <1>1 DEF Accounts
  <2>2. QED
    BY <1>1, <2>1 DEF TextIsAccounted
<1>4. AnswerIsKnown /\ TurnIsSettled
  BY <1>1 DEF AnswerIsKnown, TurnIsSettled, Sent
<1>5. QED
  BY <1>1, <1>2, <1>3, <1>4 DEF OneShotInv

\* What the client reads, and what the backend adds.
LEMMA PipeTypes ==
  ASSUME OneShotInv, Run!Next
  PROVE  backendPipe' \in Seq(Frames)
<1>1. backendPipe \in Seq(Frames)
  BY DEF OneShotInv
<1>2. CASE Run!Environment
  <2>1. CASE Run!BackendAnswers
    <3>1. PICK r \in owed : \E a \in Run!Answers[r] :
                 backendPipe' = Append(backendPipe, Run!Reply(r, a))
      BY <2>1 DEF Run!BackendAnswers
    <3>2. r \in Run!Requests
      BY DEF OneShotInv, Run!LocalRunTypeOK
    <3>3. QED
      BY <1>1, <3>1, <3>2, FramesType, AppendOf
  <2>2. CASE Run!BackendSpeaks
    <3>1. PICK raw \in 1..ChunkBytes : \E safe \in 0..raw :
                 backendPipe' = Append(backendPipe,
                                       Run!Chunk(raw, [i \in 1..safe |-> <<frames + 1, i>>]))
      BY <2>2 DEF Run!BackendSpeaks
    <3>2. PICK safe \in 0..raw :
                 backendPipe' = Append(backendPipe,
                                       Run!Chunk(raw, [i \in 1..safe |-> <<frames + 1, i>>]))
      BY <3>1
    <3>3. [i \in 1..safe |-> <<frames + 1, i>>] \in Seq(Run!Bytes)
      <4>1. frames + 1 \in 1..MaxFrames /\ safe \in Nat /\ safe <= ChunkBytes
        BY <2>2, RunLimitsAssumption DEF Run!BackendSpeaks, OneShotInv, Run!LocalRunTypeOK
      <4>2. \A i \in 1..safe : <<frames + 1, i>> \in Run!Bytes
        BY <4>1, RunLimitsAssumption DEF Run!Bytes
      <4>3. QED
        BY <4>1, <4>2
    <3>4. Run!Chunk(raw, [i \in 1..safe |-> <<frames + 1, i>>]) \in Frames
      <4>1. raw \in 0..ChunkBytes
        BY RunLimitsAssumption
      <4>2. QED
        BY <3>3, <4>1, FramesType
    <3>5. QED
      BY <1>1, <3>2, <3>4, AppendOf
  <2>3. CASE Run!BackendStrays
    BY <1>1, <2>3, FramesType, AppendOf DEF Run!BackendStrays
  <2>4. CASE Run!BackendHears \/ Run!BackendExits \/ Run!ReaderCloses
    BY <1>1, <2>4 DEF Run!BackendHears, Run!BackendExits, Run!ReaderCloses
  <2>5. QED
    BY <1>2, <2>1, <2>2, <2>3, <2>4 DEF Run!Environment
<1>3. CASE backendPipe # <<>> /\ backendPipe' = Tail(backendPipe)
  BY <1>1, <1>3, TailOf
<1>4. CASE backendPipe' = <<>>
  BY <1>4
<1>5. QED
  BY <1>1, <1>2, <1>3, <1>4
     DEF Run!Next, Run!Exchanging, Run!Cancelling, Run!Finishing, Run!Start, Run!MakeRequest,
         Run!RequestFails, Run!Initialized, Run!Created, Run!TurnEnds, Run!ReadChunk, Run!ReadFails,
         Run!WriteSome, Run!WriteFails, Run!Interrupted, Run!SendCancel, Run!CancelFails, Run!Drain,
         Run!DrainEnds, Run!CloseRequest, Run!CloseSucceeds, Run!CloseFails, Run!CloseEnds,
         Run!Kill, Run!Reap, Run!Answered, Run!Take

\* What the run writes to the backend.
LEMMA SentTypes ==
  ASSUME OneShotInv, Run!Next
  PROVE  \/ UNCHANGED sent
         \/ \E r \in Run!Requests \cup {"cancel", "part"} : sent' = Append(sent, r) /\ UNCHANGED heard
<1>1. CASE Run!Environment
  BY <1>1 DEF Run!Environment, Run!BackendHears, Run!BackendAnswers, Run!BackendSpeaks,
     Run!BackendStrays, Run!BackendExits, Run!ReaderCloses, Run!byRun, Run!request
<1>2. CASE Run!MakeRequest \/ Run!CloseRequest
  BY <1>2 DEF Run!MakeRequest, Run!CloseRequest, Run!Request, Run!Requests, Run!outside, Run!speech
<1>3. CASE Run!SendCancel
  BY <1>3 DEF Run!SendCancel, Run!outside, Run!speech
<1>4. CASE Run!Interrupted \/ Run!CancelFails
  BY <1>4 DEF Run!Interrupted, Run!CancelFails, Run!CutOff, Run!outside, Run!speech
<1>5. QED
  BY <1>1, <1>2, <1>3, <1>4
     DEF Run!Next, Run!Exchanging, Run!Cancelling, Run!Finishing, Run!Start,
         Run!RequestFails, Run!Initialized, Run!Created, Run!TurnEnds, Run!ReadChunk, Run!ReadFails,
         Run!WriteSome, Run!WriteFails, Run!Drain, Run!DrainEnds, Run!CloseSucceeds, Run!CloseFails,
         Run!CloseEnds, Run!Kill, Run!Reap, Run!request

\* What the backend and the reader of the output do.
LEMMA EnvironmentTypes ==
  ASSUME OneShotInv, Run!Environment
  PROVE  /\ UNCHANGED <<runPhase, exchange, closed, exit, session, closeSupported, awaited, sent,
                        counted, remaining, stdout, nonblocking, reaped>>
         /\ heard' \in 0..Len(sent) /\ owed' \subseteq Run!Requests /\ frames' \in 0..MaxFrames
         /\ spoken' \in Seq(Run!Bytes) /\ ended' \in {"none"} \cup Run!Answers.prompt
         /\ runChild' \in {"none", "running", "exited", "failed"} /\ reader' \in {"open", "closed"}
<1> USE DEF OneShotInv
<1>1. UNCHANGED Run!byRun
  BY DEF Run!Environment, Run!BackendHears, Run!BackendAnswers, Run!BackendSpeaks, Run!BackendStrays,
     Run!BackendExits, Run!ReaderCloses
<1>2. CASE Run!BackendHears
  <2>1. heard \in 0..Len(sent) /\ Len(sent) \in Nat
    BY DEF Run!LocalRunTypeOK
  <2>2. heard' = heard + 1 /\ heard < Len(sent)
    BY <1>2 DEF Run!BackendHears
  <2>3. heard' \in 0..Len(sent)
    BY <2>1, <2>2
  <2>4. QED
    BY <1>1, <1>2, <2>3 DEF Run!BackendHears, Run!LocalRunTypeOK, Run!byRun, Run!client, Run!request,
       Run!output
<1>3. CASE Run!BackendAnswers
  <2>1. PICK r \in owed : \E a \in Run!Answers[r] :
          owed' = owed \ {r} /\ ended' = IF r = "prompt" THEN a ELSE ended
    BY <1>3 DEF Run!BackendAnswers
  <2>2. ended' \in {"none"} \cup Run!Answers.prompt
    BY <2>1 DEF Run!LocalRunTypeOK
  <2>3. QED
    BY <1>1, <1>3, <2>1, <2>2
       DEF Run!BackendAnswers, Run!LocalRunTypeOK, Run!byRun, Run!client, Run!request, Run!output
<1>4. CASE Run!BackendSpeaks
  <2>1. frames < MaxFrames /\ frames' = frames + 1 /\ UNCHANGED <<reader, heard, owed, ended, runChild>>
    BY <1>4 DEF Run!BackendSpeaks
  <2>2. frames + 1 \in 1..MaxFrames /\ frames' \in 0..MaxFrames
    BY <2>1, RunLimitsAssumption DEF Run!LocalRunTypeOK
  <2>3. PICK raw \in 1..ChunkBytes : \E safe \in 0..raw :
          spoken' = IF ended = "none" THEN spoken \o [i \in 1..safe |-> <<frames + 1, i>>] ELSE spoken
    BY <1>4 DEF Run!BackendSpeaks
  <2>4. PICK safe \in 0..raw :
          spoken' = IF ended = "none" THEN spoken \o [i \in 1..safe |-> <<frames + 1, i>>] ELSE spoken
    BY <2>3
  <2>5. [i \in 1..safe |-> <<frames + 1, i>>] \in Seq(Run!Bytes)
    <3>1. \A i \in 1..safe : <<frames + 1, i>> \in Run!Bytes
      BY <2>2, RunLimitsAssumption DEF Run!Bytes
    <3>2. QED
      BY <3>1, RunLimitsAssumption
  <2>6. spoken' \in Seq(Run!Bytes)
    BY <2>4, <2>5 DEF Run!LocalRunTypeOK
  <2>7. QED
    BY <1>1, <2>1, <2>2, <2>6
       DEF Run!LocalRunTypeOK, Run!byRun, Run!client, Run!request, Run!output
<1>5. CASE Run!BackendStrays
  <2>1. frames' \in 0..MaxFrames
    BY <1>5, RunLimitsAssumption DEF Run!BackendStrays, Run!LocalRunTypeOK
  <2>2. QED
    BY <1>1, <1>5, <2>1
       DEF Run!BackendStrays, Run!LocalRunTypeOK, Run!byRun, Run!client, Run!request, Run!output
<1>6. CASE Run!BackendExits \/ Run!ReaderCloses
  BY <1>1, <1>6
     DEF Run!BackendExits, Run!ReaderCloses, Run!LocalRunTypeOK, Run!byRun, Run!client, Run!request,
         Run!output, Run!speech
<1>7. QED
  BY <1>2, <1>3, <1>4, <1>5, <1>6 DEF Run!Environment

\* What the run itself holds.
LEMMA RunTypes ==
  ASSUME OneShotInv, Run!Next, ~Run!Environment
  PROVE  /\ runPhase' \in Run!Phases /\ awaited' \in Run!Requests \cup {"none"}
         /\ exchange' \in {"none", "ok", "err"} /\ closed' \in {"none", "ok", "err"}
         /\ exit' \in {"none", "ok", "err"} /\ session' \in BOOLEAN /\ closeSupported' \in BOOLEAN
         /\ counted' \in 0..OutputLimit /\ remaining' \in Seq(Run!Bytes) /\ stdout' \in Seq(Run!Bytes)
         /\ nonblocking' \in BOOLEAN /\ runChild' \in {"none", "running", "exited", "failed"}
         /\ reaped' \in BOOLEAN /\ UNCHANGED <<heard, owed, frames, spoken, ended, reader>>
<1> USE DEF OneShotInv
<1>1. /\ backendPipe # <<>> => Head(backendPipe) \in Frames
      /\ Run!LocalRunTypeOK
  BY TailOf
<1>2. UNCHANGED <<heard, owed, frames, spoken, ended, reader>>
  BY DEF Run!Next, Run!Exchanging, Run!Cancelling, Run!Finishing, Run!Start, Run!MakeRequest,
         Run!RequestFails, Run!Initialized, Run!Created, Run!TurnEnds, Run!ReadChunk,
         Run!ReadFails, Run!WriteSome, Run!WriteFails, Run!Interrupted, Run!SendCancel,
         Run!CancelFails, Run!Drain, Run!DrainEnds, Run!CloseRequest, Run!CloseSucceeds,
         Run!CloseFails, Run!CloseEnds, Run!Kill, Run!Reap, Run!outside, Run!speech
<1>3. runPhase' \in Run!Phases /\ nonblocking' \in BOOLEAN /\ reaped' \in BOOLEAN
        /\ exchange' \in {"none", "ok", "err"} /\ closed' \in {"none", "ok", "err"}
        /\ session' \in BOOLEAN /\ runChild' \in {"none", "running", "exited", "failed"}
  BY <1>1
     DEF Run!Next, Run!Exchanging, Run!Cancelling, Run!Finishing, Run!Start, Run!MakeRequest,
         Run!RequestFails, Run!Initialized, Run!Created, Run!TurnEnds, Run!ReadChunk,
         Run!ReadFails, Run!WriteSome, Run!WriteFails, Run!Interrupted, Run!SendCancel,
         Run!CancelFails, Run!Drain, Run!DrainEnds, Run!CloseRequest, Run!CloseSucceeds,
         Run!CloseFails, Run!CloseEnds, Run!Kill, Run!Reap, Run!GiveUp, Run!Return, Run!client,
         Run!process, Run!Phases, Run!Exchange, Run!LocalRunTypeOK
<1>4. exit' \in {"none", "ok", "err"} /\ awaited' \in Run!Requests \cup {"none"}
  BY <1>1
     DEF Run!Next, Run!Exchanging, Run!Cancelling, Run!Finishing, Run!Start, Run!MakeRequest,
         Run!RequestFails, Run!Initialized, Run!Created, Run!TurnEnds, Run!ReadChunk,
         Run!ReadFails, Run!WriteSome, Run!WriteFails, Run!Interrupted, Run!SendCancel,
         Run!CancelFails, Run!Drain, Run!DrainEnds, Run!CloseRequest, Run!CloseSucceeds,
         Run!CloseFails, Run!CloseEnds, Run!Kill, Run!Reap, Run!GiveUp, Run!Return, Run!Verdict,
         Run!Request, Run!Requests, Run!Answered, Run!client, Run!request, Run!LocalRunTypeOK
<1>5. closeSupported' \in BOOLEAN
  <2>1. CASE Run!Initialized
    <3>1. \/ UNCHANGED closeSupported
          \/ closeSupported' = (Head(backendPipe).answer = "closable")
      BY <2>1 DEF Run!Initialized
    <3>2. (Head(backendPipe).answer = "closable") \in BOOLEAN
      OBVIOUS
    <3>3. CASE closeSupported' = (Head(backendPipe).answer = "closable")
      BY <3>2, <3>3, Zenon
    <3>4. QED
      BY <1>1, <3>1, <3>3 DEF Run!LocalRunTypeOK
  <2>2. CASE ~Run!Initialized
    <3>1. UNCHANGED closeSupported
      BY <2>2
         DEF Run!Next, Run!Exchanging, Run!Cancelling, Run!Finishing, Run!Start,
             Run!MakeRequest, Run!RequestFails, Run!Created, Run!TurnEnds, Run!ReadChunk,
             Run!ReadFails, Run!WriteSome, Run!WriteFails, Run!Interrupted, Run!SendCancel,
             Run!CancelFails, Run!Drain, Run!DrainEnds, Run!CloseRequest, Run!CloseSucceeds,
             Run!CloseFails, Run!CloseEnds, Run!Kill, Run!Reap, Run!client
    <3>2. QED
      BY <1>1, <3>1 DEF Run!LocalRunTypeOK
  <2>3. QED
    BY <2>1, <2>2
<1>6. counted' \in 0..OutputLimit
  <2>1. \/ UNCHANGED counted
        \/ /\ backendPipe # <<>> /\ Head(backendPipe).kind = "chunk"
           /\ Run!Fits(Head(backendPipe).raw) /\ counted' = counted + Head(backendPipe).raw
    BY DEF Run!Next, Run!Exchanging, Run!Cancelling, Run!Finishing, Run!Start, Run!MakeRequest,
         Run!RequestFails, Run!Initialized, Run!Created, Run!TurnEnds, Run!ReadChunk,
         Run!ReadFails, Run!WriteSome, Run!WriteFails, Run!Interrupted, Run!SendCancel,
         Run!CancelFails, Run!Drain, Run!DrainEnds, Run!CloseRequest, Run!CloseSucceeds,
         Run!CloseFails, Run!CloseEnds, Run!Kill, Run!Reap, Run!Take
  <2>2. CASE /\ backendPipe # <<>> /\ Head(backendPipe).kind = "chunk"
             /\ Run!Fits(Head(backendPipe).raw) /\ counted' = counted + Head(backendPipe).raw
    <3>1. Head(backendPipe).raw \in 0..ChunkBytes
      BY <1>1, <2>2, FramesType
    <3>2. QED
      BY <1>1, <2>2, <3>1, RunLimitsAssumption DEF Run!Fits, Run!LocalRunTypeOK
  <2>3. QED
    BY <1>1, <2>1, <2>2 DEF Run!LocalRunTypeOK
<1>7. remaining' \in Seq(Run!Bytes) /\ stdout' \in Seq(Run!Bytes)
  <2>1. CASE Run!WriteSome
    <3>1. remaining \in Seq(Run!Bytes) /\ stdout \in Seq(Run!Bytes)
      BY <1>1 DEF Run!LocalRunTypeOK
    <3>2. PICK n \in 1..Len(remaining) :
            /\ stdout' = stdout \o SubSeq(remaining, 1, n)
            /\ remaining' = SubSeq(remaining, n + 1, Len(remaining))
      BY <2>1 DEF Run!WriteSome, Run!Rest
    <3>3. SubSeq(remaining, 1, n) \in Seq(Run!Bytes)
            /\ SubSeq(remaining, n + 1, Len(remaining)) \in Seq(Run!Bytes)
      BY <3>1
    <3>4. QED
      BY <3>1, <3>2, <3>3
  <2>2. CASE Run!ReadChunk
    <3>1. Head(backendPipe).text \in Seq(Run!Bytes) /\ <<>> \in Seq(Run!Bytes)
      BY <1>1, <2>2, FramesType DEF Run!ReadChunk, Run!Take
    <3>2. UNCHANGED stdout /\ remaining' \in {Head(backendPipe).text, <<>>}
      BY <2>2 DEF Run!ReadChunk, Run!GiveUp
    <3>3. QED
      BY <1>1, <3>1, <3>2 DEF Run!LocalRunTypeOK
  <2>3. CASE ~Run!WriteSome /\ ~Run!ReadChunk
    <3>1. UNCHANGED stdout /\ (remaining' = remaining \/ remaining' = <<>>)
      BY <2>3
         DEF Run!Next, Run!Exchanging, Run!Cancelling, Run!Finishing, Run!Start,
             Run!MakeRequest, Run!RequestFails, Run!Initialized, Run!Created, Run!TurnEnds,
             Run!ReadFails, Run!WriteFails, Run!Interrupted, Run!SendCancel, Run!CancelFails,
             Run!Drain, Run!DrainEnds, Run!CloseRequest, Run!CloseSucceeds, Run!CloseFails,
             Run!CloseEnds, Run!Kill, Run!Reap, Run!GiveUp, Run!output
    <3>2. <<>> \in Seq(Run!Bytes)
      OBVIOUS
    <3>3. QED
      BY <1>1, <3>1, <3>2 DEF Run!LocalRunTypeOK
  <2>4. QED
    BY <2>1, <2>2, <2>3
<1>8. QED
  BY <1>2, <1>3, <1>4, <1>5, <1>6, <1>7

LEMMA RunKeepsTypes ==
  ASSUME OneShotInv, Run!Next
  PROVE  Run!LocalRunTypeOK' /\ backendPipe' \in Seq(Frames)
<1> USE DEF OneShotInv
<1>1. backendPipe' \in Seq(Frames) /\ \A i \in DOMAIN backendPipe' : Run!IsFrame(backendPipe'[i])
  BY PipeTypes, FramesType
<1>2. sent' \in Seq(Run!Requests \cup {"cancel", "part"}) /\ heard' \in 0..Len(sent')
  <2>1. sent \in Seq(Run!Requests \cup {"cancel", "part"}) /\ heard \in 0..Len(sent)
    BY DEF Run!LocalRunTypeOK
  <2>2. CASE UNCHANGED sent
    BY <2>1, <2>2, EnvironmentTypes, RunTypes
  <2>3. CASE ~UNCHANGED sent
    BY <2>1, <2>3, SentTypes, AppendOf
  <2>4. QED
    BY <2>2, <2>3
<1>3. CASE Run!Environment
  BY <1>1, <1>2, <1>3, EnvironmentTypes DEF Run!LocalRunTypeOK
<1>4. CASE ~Run!Environment
  BY <1>1, <1>2, <1>4, RunTypes DEF Run!LocalRunTypeOK
<1>5. QED
  BY <1>3, <1>4

-----------------------------------------------------------------------------
(***************************************************************************)
(* The text of the turn.                                                   *)
(***************************************************************************)
Accounting == [1..(Len(backendPipe) + 1) -> 0..Len(spoken)]

\* The first frame is read, and it is not the answer.
LEMMA FrameIsRead ==
  ASSUME OneShotInv, NEW at \in Accounting, Accounts(at),
         backendPipe # <<>>, backendPipe' = Tail(backendPipe), ~AnswersPrompt(Head(backendPipe)),
         UNCHANGED <<stdout, spoken>>,
         at[2] = Len(stdout) + Len(remaining'),
         \A n \in 1..Len(remaining') : remaining'[n] = spoken[Len(stdout) + n]
  PROVE  \E next \in Accounting' : Accounts(next)'
<1>1. /\ backendPipe \in Seq(Frames) /\ Len(backendPipe) \in Nat \ {0}
      /\ Len(backendPipe') = Len(backendPipe) - 1
      /\ Head(backendPipe) = backendPipe[1]
      /\ \A i \in 1..Len(backendPipe') :
           i + 1 \in 1..Len(backendPipe) /\ backendPipe'[i] = backendPipe[i + 1]
  BY TailOf DEF OneShotInv
<1>2. PICK next : next = [i \in 1..Len(backendPipe) |-> at[i + 1]]
  OBVIOUS
<1>3. next \in Accounting'
  BY <1>1, <1>2 DEF Accounting
<1>4. ASSUME NEW i \in 1..Len(backendPipe')
      PROVE  Answered(i)' <=> Answered(i + 1)
  <2>1. ASSUME NEW j \in 1..i, AnswersPrompt(backendPipe'[j]) PROVE Answered(i + 1)
    <3>1. j + 1 \in 1..(i + 1) /\ backendPipe'[j] = backendPipe[j + 1]
      BY <1>1
    <3>2. QED
      BY <2>1, <3>1 DEF Answered
  <2>2. ASSUME NEW j \in 1..(i + 1), AnswersPrompt(backendPipe[j]) PROVE Answered(i)'
    <3>1. j # 1
      BY <1>1, <2>2
    <3>2. j - 1 \in 1..i /\ backendPipe'[j - 1] = backendPipe[j]
      BY <1>1, <3>1
    <3>3. QED
      BY <2>2, <3>2 DEF Answered, AnswersPrompt
  <2>3. QED
    BY <2>1, <2>2 DEF Answered, AnswersPrompt
<1>5. next[1] = Len(stdout') + Len(remaining')
  BY <1>1, <1>2
<1>6. next[Len(backendPipe') + 1] = Len(spoken')
  BY <1>1, <1>2 DEF Accounts
<1>7. ASSUME NEW i \in 1..Len(backendPipe')
      PROVE  LET m == backendPipe'[i] IN
               /\ Answered(i)' => next[i] = Len(spoken') /\ next[i + 1] = Len(spoken')
               /\ ~Answered(i)' /\ m.kind = "chunk" =>
                    /\ next[i + 1] = next[i] + Len(m.text)
                    /\ \A n \in 1..Len(m.text) : m.text[n] = spoken'[next[i] + n]
               /\ ~Answered(i)' /\ m.kind # "chunk" => next[i + 1] = next[i]
  <2>1. next[i] = at[i + 1] /\ next[i + 1] = at[i + 2] /\ i + 1 \in 1..Len(backendPipe)
          /\ backendPipe'[i] = backendPipe[i + 1] /\ (i + 1) + 1 = i + 2
    BY <1>1, <1>2
  <2>2. QED
    BY <1>4, <2>1 DEF Accounts
<1>8. Accounts(next)'
  BY <1>5, <1>6, <1>7 DEF Accounts
<1>9. QED
  BY <1>3, <1>8

\* A frame is written: after the answer it is not part of the turn.
LEMMA FrameIsWritten ==
  ASSUME OneShotInv, NEW at \in Accounting, Accounts(at),
         NEW m \in Frames, backendPipe' = Append(backendPipe, m), UNCHANGED <<stdout, remaining>>,
         \/ spoken' = spoken /\ (m.kind # "chunk" \/ Answered(Len(backendPipe)))
         \/ spoken' = spoken \o m.text /\ m.kind = "chunk" /\ ~Answered(Len(backendPipe))
  PROVE  \E next \in Accounting' : Accounts(next)'
<1>0. PICK last : last = Len(backendPipe)
  OBVIOUS
<1>1. /\ last = Len(backendPipe) /\ last \in Nat /\ Len(backendPipe') = last + 1 /\ backendPipe'[last + 1] = m
      /\ \A i \in 1..last : backendPipe'[i] = backendPipe[i]
  BY <1>0, AppendOf DEF OneShotInv
<1>2. /\ spoken \in Seq(Run!Bytes) /\ Len(spoken) \in Nat
      /\ stdout \in Seq(Run!Bytes) /\ remaining \in Seq(Run!Bytes)
      /\ m.kind = "chunk" => m.text \in Seq(Run!Bytes)
  BY FramesType DEF OneShotInv, Run!LocalRunTypeOK
<1>3. /\ Len(spoken') \in Nat /\ Len(spoken) <= Len(spoken')
      /\ \A n \in 1..Len(spoken) : spoken'[n] = spoken[n]
  BY <1>2
<1>4. PICK next : next = [i \in 1..(last + 2) |-> IF i = last + 2 THEN Len(spoken') ELSE at[i]]
  OBVIOUS
<1>5. /\ next \in Accounting' /\ \A i \in 1..(last + 1) : next[i] = at[i]
      /\ next[last + 2] = Len(spoken') /\ next[last + 1] = Len(spoken)
  BY <1>1, <1>2, <1>3, <1>4 DEF Accounting, Accounts
<1>6. \A i \in 1..last : Answered(i)' <=> Answered(i)
  BY <1>1 DEF Answered, AnswersPrompt
<1>7. \A i \in 1..last : Answered(i) => Answered(last)
  BY <1>1 DEF Answered
<1>8. \A n \in 1..Len(remaining') : remaining'[n] = spoken'[Len(stdout') + n]
  <2>1. \A n \in 1..Len(remaining) : Len(stdout) + n \in 1..Len(spoken)
    <3>1. at[1] \in 0..Len(spoken)
      BY <1>1 DEF Accounting
    <3>2. QED
      BY <1>2, <3>1 DEF Accounts
  <2>2. QED
    BY <1>3, <2>1 DEF Accounts
<1>9. ASSUME NEW i \in 1..last
      PROVE  LET f == backendPipe'[i] IN
               /\ Answered(i)' => next[i] = Len(spoken') /\ next[i + 1] = Len(spoken')
               /\ ~Answered(i)' /\ f.kind = "chunk" =>
                    /\ next[i + 1] = next[i] + Len(f.text)
                    /\ \A n \in 1..Len(f.text) : f.text[n] = spoken'[next[i] + n]
               /\ ~Answered(i)' /\ f.kind # "chunk" => next[i + 1] = next[i]
  <2>1. next[i] = at[i] /\ next[i + 1] = at[i + 1] /\ backendPipe'[i] = backendPipe[i]
          /\ i + 1 \in 1..(last + 1) /\ at[i] \in 0..Len(spoken) /\ at[i + 1] \in 0..Len(spoken)
    <3>1. i \in 1..(last + 1) /\ i + 1 \in 1..(last + 1)
      BY <1>1
    <3>2. at[i] \in 0..Len(spoken) /\ at[i + 1] \in 0..Len(spoken)
      BY <1>1, <3>1 DEF Accounting
    <3>3. QED
      BY <1>1, <1>5, <3>1, <3>2
  <2>2. Answered(i) => spoken' = spoken
    BY <1>1, <1>7
  <2>3. ASSUME ~Answered(i), backendPipe[i].kind = "chunk", NEW n \in 1..Len(backendPipe[i].text)
        PROVE  spoken'[at[i] + n] = spoken[at[i] + n]
    <3>1. backendPipe[i].text \in Seq(Run!Bytes)
      BY <1>1, <2>3, FramesType DEF OneShotInv
    <3>2. at[i] + Len(backendPipe[i].text) <= Len(spoken)
      BY <1>1, <2>1, <2>3 DEF Accounts
    <3>3. at[i] + n \in 1..Len(spoken)
      BY <1>2, <2>1, <3>1, <3>2
    <3>4. QED
      BY <1>3, <3>3
  <2>4. /\ Answered(i) => at[i] = Len(spoken) /\ at[i + 1] = Len(spoken)
        /\ ~Answered(i) /\ backendPipe[i].kind = "chunk" =>
             /\ at[i + 1] = at[i] + Len(backendPipe[i].text)
             /\ \A n \in 1..Len(backendPipe[i].text) : backendPipe[i].text[n] = spoken[at[i] + n]
        /\ ~Answered(i) /\ backendPipe[i].kind # "chunk" => at[i + 1] = at[i]
    BY <1>1 DEF Accounts
  <2>5. QED
    BY <1>6, <2>1, <2>2, <2>3, <2>4
<1>10. LET f == backendPipe'[last + 1] IN
         /\ Answered(last + 1)' => next[last + 1] = Len(spoken') /\ next[last + 2] = Len(spoken')
         /\ ~Answered(last + 1)' /\ f.kind = "chunk" =>
              /\ next[last + 2] = next[last + 1] + Len(f.text)
              /\ \A n \in 1..Len(f.text) : f.text[n] = spoken'[next[last + 1] + n]
         /\ ~Answered(last + 1)' /\ f.kind # "chunk" => next[last + 2] = next[last + 1]
  <2>1. Answered(last + 1)' <=> Answered(last) \/ AnswersPrompt(m)
    <3>1. \A j \in 1..(last + 1) : j \in 1..last \/ j = last + 1
      BY <1>1
    <3>2. last + 1 \in 1..(last + 1) /\ \A j \in 1..last : j \in 1..(last + 1)
      BY <1>1
    <3>3. QED
      BY <1>1, <3>1, <3>2 DEF Answered, AnswersPrompt
  <2>2. CASE spoken' = spoken /\ (m.kind # "chunk" \/ Answered(last))
    BY <1>1, <1>5, <2>1, <2>2
  <2>3. CASE spoken' = spoken \o m.text /\ m.kind = "chunk" /\ ~Answered(last)
    BY <1>1, <1>2, <1>5, <2>1, <2>3 DEF AnswersPrompt
  <2>4. QED
    BY <1>1, <2>2, <2>3
<1>11. next[1] = Len(stdout') + Len(remaining') /\ next[Len(backendPipe') + 1] = Len(spoken')
  BY <1>1, <1>5 DEF Accounts
<1>12. \A i \in 1..Len(backendPipe') : i \in 1..last \/ i = last + 1
  BY <1>1
<1>13. (last + 1) + 1 = last + 2
  BY <1>1
<1>14. Accounts(next)'
  <2>1. ASSUME NEW i \in 1..Len(backendPipe')
        PROVE  LET f == backendPipe'[i] IN
                 /\ Answered(i)' => next[i] = Len(spoken') /\ next[i + 1] = Len(spoken')
                 /\ ~Answered(i)' /\ f.kind = "chunk" =>
                      /\ next[i + 1] = next[i] + Len(f.text)
                      /\ \A n \in 1..Len(f.text) : f.text[n] = spoken'[next[i] + n]
                 /\ ~Answered(i)' /\ f.kind # "chunk" => next[i + 1] = next[i]
    <3>1. CASE i = last + 1
      BY <1>10, <1>13, <3>1
    <3>2. QED
      BY <1>9, <1>12, <3>1
  <2>2. QED
    BY <1>8, <1>11, <2>1 DEF Accounts
<1>15. QED
  BY <1>5, <1>14

\* What the run does with the text.
LEMMA TextSteps ==
  ASSUME OneShotInv, Run!Next, ~Run!Environment
  PROVE  /\ UNCHANGED spoken
         /\ \/ Run!WriteSome
            \/ UNCHANGED stdout /\ runPhase' \notin Open
            \/ /\ UNCHANGED <<stdout, remaining, backendPipe>>
               /\ runPhase \in Open \ {"write"} /\ runPhase' \in Open
            \/ /\ UNCHANGED <<stdout, remaining>> /\ runPhase \in {"initialize", "new", "respond"}
               /\ backendPipe # <<>> /\ backendPipe' = Tail(backendPipe)
               /\ Head(backendPipe).kind = "reply" /\ Head(backendPipe).to # "prompt"
            \/ /\ UNCHANGED stdout /\ runPhase = "respond"
               /\ backendPipe # <<>> /\ backendPipe' = Tail(backendPipe)
               /\ Head(backendPipe).kind = "chunk" /\ remaining' = Head(backendPipe).text
               /\ runPhase' = IF remaining' = <<>> THEN "respond" ELSE "write"
<1>1. UNCHANGED spoken
  BY RunTypes
<1>2. CASE Run!Start
  BY <1>1, <1>2 DEF Run!Start, Run!Return, Run!output, Open, Run!Exchange
<1>3. CASE Run!MakeRequest
  BY <1>1, <1>3 DEF Run!MakeRequest, Run!output, Open, Run!Exchange
<1>4. CASE Run!Initialized
  BY <1>1, <1>4 DEF Run!Initialized, Run!Answered, Run!Waiting, Run!Take, Run!GiveUp, Open, Run!Exchange
<1>5. CASE Run!Created
  BY <1>1, <1>5 DEF Run!Created, Run!Answered, Run!Waiting, Run!Take, Run!GiveUp, Open, Run!Exchange
<1>6. CASE Run!ReadChunk
  BY <1>1, <1>6 DEF Run!ReadChunk, Run!Take, Run!GiveUp, Open, Run!Exchange
<1>7. CASE Run!RequestFails \/ Run!TurnEnds \/ Run!ReadFails \/ Run!WriteFails \/ Run!Interrupted
  BY <1>1, <1>7
     DEF Run!RequestFails, Run!TurnEnds, Run!ReadFails, Run!WriteFails, Run!Interrupted, Run!GiveUp,
         Open, Run!Exchange
<1>8. CASE Run!Cancelling \/ Run!Finishing
  BY <1>1, <1>8
     DEF Run!Cancelling, Run!Finishing, Run!SendCancel, Run!CancelFails, Run!Drain, Run!DrainEnds,
         Run!CloseRequest, Run!CloseSucceeds, Run!CloseFails, Run!CloseEnds, Run!Kill, Run!Reap,
         Run!Return, Run!output, Open, Run!Exchange
<1>9. QED
  BY <1>1, <1>2, <1>3, <1>4, <1>5, <1>6, <1>7, <1>8 DEF Run!Next, Run!Exchanging

LEMMA OutputTypes ==
  ASSUME OneShotInv
  PROVE  /\ stdout \in Seq(Run!Bytes) /\ remaining \in Seq(Run!Bytes) /\ spoken \in Seq(Run!Bytes)
         /\ Len(stdout) \in Nat /\ Len(remaining) \in Nat /\ Len(spoken) \in Nat
         /\ backendPipe \in Seq(Frames) /\ Len(backendPipe) \in Nat
  BY DEF OneShotInv, Run!LocalRunTypeOK

\* A part of what remains is written.
LEMMA TextIsWritten ==
  ASSUME OneShotInv, Run!WriteSome
  PROVE  TextIsAccounted'
<1>1. PICK n \in 1..Len(remaining) :
        /\ stdout' = stdout \o SubSeq(remaining, 1, n)
        /\ remaining' = SubSeq(remaining, n + 1, Len(remaining))
  BY DEF Run!WriteSome, Run!Rest
<1>2. UNCHANGED <<backendPipe, spoken>> /\ runPhase = "write"
        /\ runPhase' = IF remaining' = <<>> THEN "respond" ELSE "write"
  BY DEF Run!WriteSome, Run!outside, Run!speech
<1>3. /\ Len(stdout') = Len(stdout) + n /\ Len(remaining') = Len(remaining) - n
      /\ \A k \in 1..Len(stdout) : stdout'[k] = stdout[k]
      /\ \A k \in 1..n : stdout'[Len(stdout) + k] = remaining[k]
      /\ \A k \in 1..(Len(remaining) - n) : remaining'[k] = remaining[n + k]
  <2>1. /\ Len(SubSeq(remaining, 1, n)) = n
        /\ \A k \in 1..n : SubSeq(remaining, 1, n)[k] = remaining[k]
        /\ SubSeq(remaining, 1, n) \in Seq(Run!Bytes)
    BY OutputTypes
  <2>2. /\ Len(remaining') = Len(remaining) - n
        /\ \A k \in 1..(Len(remaining) - n) : remaining'[k] = remaining[n + k]
    BY <1>1, OutputTypes
  <2>3. PICK part \in Seq(Run!Bytes) : part = SubSeq(remaining, 1, n)
    BY <2>1
  <2>4. /\ Len(stdout \o part) = Len(stdout) + n
        /\ \A k \in 1..Len(stdout) : (stdout \o part)[k] = stdout[k]
        /\ \A k \in 1..n : (stdout \o part)[Len(stdout) + k] = part[k]
    BY <2>1, <2>3, OutputTypes
  <2>5. QED
    BY <1>1, <2>1, <2>2, <2>3, <2>4
<1>4. PICK at \in Accounting : Accounts(at)
  BY <1>2 DEF OneShotInv, TextIsAccounted, Open, Run!Exchange, Accounting
<1>5. /\ at[1] = Len(stdout) + Len(remaining)
      /\ \A k \in 1..Len(remaining) : remaining[k] = spoken[Len(stdout) + k]
      /\ at[1] <= Len(spoken)
  <2>1. 1 \in 1..(Len(backendPipe) + 1)
    BY OutputTypes
  <2>2. QED
    <3>1. at[1] \in 0..Len(spoken)
      BY <2>1 DEF Accounting
    <3>2. QED
      BY <1>4, <3>1, OutputTypes DEF Accounts
<1>6. at[1] = Len(stdout') + Len(remaining') /\ Len(stdout') <= Len(spoken')
  BY <1>2, <1>3, <1>5, OutputTypes
<1>7. ASSUME NEW k \in 1..Len(remaining') PROVE remaining'[k] = spoken'[Len(stdout') + k]
  <2>1. n + k \in 1..Len(remaining) /\ Len(stdout) + (n + k) = Len(stdout') + k
    BY <1>3, OutputTypes
  <2>2. QED
    BY <1>2, <1>3, <1>5, <2>1
<1>8. ASSUME NEW k \in 1..Len(stdout') PROVE stdout'[k] = spoken'[k]
  <2>1. CASE k \in 1..Len(stdout)
    BY <1>2, <1>3, <2>1 DEF OneShotInv, TextIsAccounted
  <2>2. CASE k \notin 1..Len(stdout)
    <3>1. k - Len(stdout) \in 1..n /\ k - Len(stdout) \in 1..Len(remaining)
            /\ Len(stdout) + (k - Len(stdout)) = k
      BY <1>1, <1>3, <2>2, OutputTypes
    <3>2. QED
      BY <1>2, <1>3, <1>5, <3>1
  <2>3. QED
    BY <2>1, <2>2
<1>9. Accounts(at)' /\ at \in Accounting'
  BY <1>2, <1>4, <1>6, <1>7 DEF Accounts, Accounting, Answered, AnswersPrompt
<1>10. QED
  BY <1>2, <1>6, <1>8, <1>9 DEF TextIsAccounted, Accounting, Open

LEMMA TextIsSpoken ==
  ASSUME OneShotInv, Run!Environment
  PROVE  TextIsAccounted'
<1> USE DEF OneShotInv
<1>1. UNCHANGED <<runPhase, stdout, remaining>>
  BY EnvironmentTypes
<1>2. CASE UNCHANGED <<backendPipe, spoken>>
  BY <1>1, <1>2 DEF TextIsAccounted, Accounts, Answered, AnswersPrompt
<1>3. ASSUME NEW m \in Frames, backendPipe' = Append(backendPipe, m),
             \/ spoken' = spoken /\ (m.kind # "chunk" \/ ended # "none")
             \/ spoken' = spoken \o m.text /\ m.kind = "chunk" /\ ended = "none"
      PROVE  TextIsAccounted'
  <2>1. /\ Len(spoken') \in Nat /\ Len(spoken) <= Len(spoken')
        /\ \A n \in 1..Len(spoken) : spoken'[n] = spoken[n]
    BY <1>3, FramesType, OutputTypes
  <2>2. Len(stdout') <= Len(spoken') /\ \A n \in 1..Len(stdout') : stdout'[n] = spoken'[n]
    BY <1>1, <2>1, OutputTypes DEF TextIsAccounted
  <2>3. ASSUME runPhase \in Open PROVE \E next \in Accounting' : Accounts(next)'
    <3>1. PICK at \in Accounting : Accounts(at)
      BY <2>3 DEF TextIsAccounted, Accounting
    <3>2. ended # "none" <=> Answered(Len(backendPipe))
      <4>1. ended # "none" => Answered(Len(backendPipe))
        BY <2>3 DEF AnswerIsKnown
      <4>2. ASSUME NEW j \in 1..Len(backendPipe), AnswersPrompt(backendPipe[j]) PROVE ended # "none"
        <5>1. backendPipe[j] \in Frames /\ ended = backendPipe[j].answer
          BY <4>2, OutputTypes DEF AnswerIsKnown
        <5>2. backendPipe[j].answer \in Run!Answers["prompt"]
          BY <4>2, <5>1, FramesType DEF AnswersPrompt
        <5>3. QED
          BY <5>1, <5>2 DEF Run!Answers
      <4>3. QED
        BY <4>1, <4>2 DEF Answered
    <3>3. QED
      BY <1>1, <1>3, <3>1, <3>2, FrameIsWritten
  <2>4. QED
    BY <1>1, <2>2, <2>3 DEF TextIsAccounted, Accounting, Open
<1>4. CASE Run!BackendAnswers
  <2>1. PICK r \in owed : \E a \in Run!Answers[r] :
               backendPipe' = Append(backendPipe, Run!Reply(r, a))
    BY <1>4 DEF Run!BackendAnswers
  <2>2. r \in Run!Requests /\ UNCHANGED spoken
    BY <1>4 DEF Run!LocalRunTypeOK, Run!BackendAnswers
  <2>3. \A a : Run!Reply(r, a).kind # "chunk"
    BY DEF Run!Reply
  <2>4. QED
    BY <1>3, <2>1, <2>2, <2>3, FramesType
<1>5. CASE Run!BackendSpeaks
  <2>1. PICK raw \in 1..ChunkBytes : \E safe \in 0..raw :
          LET text == [i \in 1..safe |-> <<frames + 1, i>>] IN
            /\ backendPipe' = Append(backendPipe, Run!Chunk(raw, text))
            /\ spoken' = IF ended = "none" THEN spoken \o text ELSE spoken
    BY <1>5 DEF Run!BackendSpeaks
  <2>2. PICK text :
            /\ text \in Seq(Run!Bytes)
            /\ backendPipe' = Append(backendPipe, Run!Chunk(raw, text))
            /\ spoken' = IF ended = "none" THEN spoken \o text ELSE spoken
    <3>1. PICK safe \in 0..raw :
          LET text == [i \in 1..safe |-> <<frames + 1, i>>] IN
            /\ backendPipe' = Append(backendPipe, Run!Chunk(raw, text))
            /\ spoken' = IF ended = "none" THEN spoken \o text ELSE spoken
      BY <2>1
    <3>2. \A i \in 1..safe : <<frames + 1, i>> \in Run!Bytes
      <4>1. frames + 1 \in 1..MaxFrames
        BY <1>5, RunLimitsAssumption DEF Run!BackendSpeaks, Run!LocalRunTypeOK
      <4>2. QED
        BY <4>1, RunLimitsAssumption DEF Run!Bytes
    <3>3. [i \in 1..safe |-> <<frames + 1, i>>] \in Seq(Run!Bytes)
      BY <3>2, RunLimitsAssumption
    <3>4. QED
      BY <3>1, <3>3
  <2>3. Run!Chunk(raw, text) \in Frames
    <3>1. raw \in 0..ChunkBytes
      BY RunLimitsAssumption
    <3>2. QED
      BY <2>2, <3>1, FramesType
  <2>4. Run!Chunk(raw, text).kind = "chunk" /\ Run!Chunk(raw, text).text = text
    BY DEF Run!Chunk
  <2>5. QED
    BY <1>3, <2>2, <2>3, <2>4
<1>6. CASE Run!BackendStrays
  <2>1. backendPipe' = Append(backendPipe, Run!Alien) /\ UNCHANGED spoken /\ Run!Alien.kind # "chunk"
    BY <1>6 DEF Run!BackendStrays, Run!Alien
  <2>2. QED
    BY <1>3, <2>1, FramesType
<1>7. CASE Run!BackendHears \/ Run!BackendExits \/ Run!ReaderCloses
  BY <1>2, <1>7 DEF Run!BackendHears, Run!BackendExits, Run!ReaderCloses, Run!speech
<1>8. QED
  BY <1>4, <1>5, <1>6, <1>7 DEF Run!Environment

LEMMA TextStaysAccounted ==
  ASSUME OneShotInv, Run!Next
  PROVE  TextIsAccounted'
<1> USE DEF OneShotInv
<1>1. CASE Run!Environment
  BY <1>1, TextIsSpoken
<1>2. CASE Run!WriteSome
  BY <1>2, TextIsWritten
<1>3. CASE ~Run!Environment /\ UNCHANGED stdout /\ runPhase' \notin Open
  BY <1>3, TextSteps DEF TextIsAccounted, Open
<1>4. CASE /\ ~Run!Environment /\ UNCHANGED <<stdout, remaining, backendPipe>>
           /\ runPhase \in Open \ {"write"} /\ runPhase' \in Open
  <2>1. UNCHANGED <<stdout, remaining, backendPipe, spoken>>
    BY <1>4, TextSteps
  <2>2. PICK at \in Accounting : Accounts(at)
    BY <1>4 DEF TextIsAccounted, Accounting
  <2>3. at \in Accounting' /\ Accounts(at)'
    BY <2>1, <2>2 DEF Accounts, Accounting, Answered, AnswersPrompt
  <2>4. QED
    BY <1>4, <2>1, <2>3 DEF TextIsAccounted, Accounting
<1>5. ASSUME ~Run!Environment, UNCHANGED stdout, runPhase \in Open \ {"write"},
             backendPipe # <<>>, backendPipe' = Tail(backendPipe),
             \/ /\ UNCHANGED remaining /\ Head(backendPipe).kind = "reply"
                /\ Head(backendPipe).to # "prompt"
             \/ /\ Head(backendPipe).kind = "chunk" /\ remaining' = Head(backendPipe).text
                /\ runPhase' = IF remaining' = <<>> THEN "respond" ELSE "write"
      PROVE  TextIsAccounted'
  <2>1. UNCHANGED spoken /\ remaining = <<>> /\ Len(remaining) = 0
    BY <1>5, TextSteps DEF TextIsAccounted
  <2>2. PICK at \in Accounting : Accounts(at)
    BY <1>5 DEF TextIsAccounted, Accounting
  <2>3. /\ backendPipe[1] = Head(backendPipe) /\ 1 \in 1..Len(backendPipe)
        /\ Head(backendPipe) \in Frames
        /\ ~AnswersPrompt(Head(backendPipe)) /\ ~Answered(1)
    BY <1>5, TailOf DEF AnswersPrompt, Answered
  <2>4. at[1] = Len(stdout) /\ at[1] \in Nat
    BY <2>1, <2>2, OutputTypes DEF Accounts
  <2>5. /\ Head(backendPipe).kind = "chunk" =>
             /\ at[2] = at[1] + Len(Head(backendPipe).text)
             /\ \A k \in 1..Len(Head(backendPipe).text) :
                  Head(backendPipe).text[k] = spoken[at[1] + k]
        /\ Head(backendPipe).kind # "chunk" => at[2] = at[1]
    <3>1. 1 + 1 = 2
      OBVIOUS
    <3>2. QED
      BY <2>2, <2>3, <3>1 DEF Accounts
  <2>6. /\ at[2] = Len(stdout) + Len(remaining')
        /\ \A n \in 1..Len(remaining') : remaining'[n] = spoken[Len(stdout) + n]
    <3>1. CASE Head(backendPipe).kind = "chunk"
      BY <1>5, <2>4, <2>5, <3>1
    <3>2. CASE Head(backendPipe).kind = "reply"
      BY <1>5, <2>1, <2>4, <2>5, <3>2
    <3>3. QED
      BY <1>5, <3>1, <3>2
  <2>7. \E next \in Accounting' : Accounts(next)'
    BY <1>5, <2>1, <2>2, <2>3, <2>6, FrameIsRead
  <2>8. runPhase' \in Open \ {"write"} => remaining' = <<>>
    BY <1>5, <2>1
  <2>9. QED
    BY <1>5, <2>1, <2>7, <2>8 DEF TextIsAccounted, Accounting
<1>6. QED
  <2>1. {"initialize", "new", "respond"} \subseteq Open \ {"write"}
    BY DEF Open, Run!Exchange
  <2>2. QED
    BY <1>1, <1>2, <1>3, <1>4, <1>5, <2>1, TextSteps

-----------------------------------------------------------------------------
(***************************************************************************)
(* The answer to the prompt.                                               *)
(***************************************************************************)
Early == {"start", "initialize", "new", "prompt"}
Late  == {"closing", "wait", "done"}

\* What the run does with its requests.
LEMMA RequestSteps ==
  ASSUME OneShotInv, Run!Next, ~Run!Environment
  PROVE  \/ Run!MakeRequest \/ Run!CloseRequest
         \/ /\ sent' \in {sent, Append(sent, "part"), Append(sent, "cancel")}
            /\ runPhase' \in Early => runPhase \in Early
            /\ runPhase \in Late => runPhase' \in Late
            /\ \/ UNCHANGED awaited
               \/ /\ runPhase \notin Late
                  /\ backendPipe # <<>> /\ awaited' = "none"
                  /\ Head(backendPipe).kind = "reply"
                  /\ Head(backendPipe).to = "prompt" \/ awaited # "prompt"
<1>1. CASE Run!Start
  BY <1>1 DEF Run!Start, Run!Return, Run!request, Early, Late
<1>2. CASE Run!Initialized \/ Run!Created \/ Run!TurnEnds
  <2>1. PICK r \in {"initialize", "new", "prompt"} : Run!Answered(r) /\ UNCHANGED sent
    BY <1>2 DEF Run!Initialized, Run!Created, Run!TurnEnds
  <2>2. /\ runPhase \in {"initialize", "new", "respond"} /\ awaited = r /\ awaited' = "none"
        /\ backendPipe # <<>> /\ Head(backendPipe).kind = "reply" /\ Head(backendPipe).to = r
    BY <2>1 DEF Run!Answered, Run!Waiting, Run!Take
  <2>3. runPhase' \in {"new", "prompt", "close", "cancel"}
    BY <1>2 DEF Run!Initialized, Run!Created, Run!TurnEnds, Run!GiveUp
  <2>4. CASE r = "prompt"
    <3>1. runPhase' \in Early => runPhase \in Early
      BY <1>2, <2>2, <2>4
         DEF Run!Initialized, Run!Created, Run!TurnEnds, Run!Answered, Run!GiveUp, Early
    <3>2. QED
      BY <2>1, <2>2, <2>4, <3>1 DEF Late
  <2>5. CASE r # "prompt"
    <3>1. runPhase # "respond"
      BY <2>2, <2>5 DEF OneShotInv, TurnIsSettled
    <3>2. QED
      BY <2>1, <2>2, <2>3, <2>5, <3>1 DEF Early, Late
  <2>6. QED
    BY <2>4, <2>5
<1>3. CASE Run!RequestFails \/ Run!ReadChunk \/ Run!ReadFails \/ Run!WriteFails
  BY <1>3
     DEF Run!RequestFails, Run!ReadChunk, Run!ReadFails, Run!WriteFails, Run!Waiting, Run!GiveUp,
         Run!request, Early, Late
<1>4. CASE Run!WriteSome
  BY <1>4 DEF Run!WriteSome, Run!request, Early, Late
<1>5. CASE Run!Interrupted
  BY <1>5 DEF Run!Interrupted, Run!CutOff, Run!GiveUp, Run!Exchange, Early, Late
<1>6. CASE Run!Cancelling
  BY <1>6
     DEF Run!Cancelling, Run!SendCancel, Run!CancelFails, Run!CutOff, Run!Drain, Run!DrainEnds,
         Run!Take, Run!request, Early, Late
<1>7. CASE Run!CloseSucceeds \/ Run!CloseFails \/ Run!Kill \/ Run!Reap
  BY <1>7
     DEF Run!CloseSucceeds, Run!CloseFails, Run!CloseEnds, Run!Kill, Run!Reap, Run!Return,
         Run!request, Early, Late
<1>8. QED
  BY <1>1, <1>2, <1>3, <1>4, <1>5, <1>6, <1>7 DEF Run!Next, Run!Exchanging, Run!Finishing

\* An answer in the pipe is the answer the backend gave.
LEMMA AnswersAreGiven ==
  ASSUME OneShotInv, NEW i \in DOMAIN backendPipe, AnswersPrompt(backendPipe[i])
  PROVE  ended = backendPipe[i].answer /\ ended # "none"
<1>1. ended = backendPipe[i].answer /\ backendPipe[i] \in Frames
  BY DEF OneShotInv, AnswerIsKnown
<1>2. backendPipe[i].answer \in Run!Answers["prompt"]
  BY <1>1, FramesType DEF AnswersPrompt
<1>3. QED
  BY <1>1, <1>2 DEF Run!Answers

LEMMA BackendKnowsTheAnswer ==
  ASSUME OneShotInv, Run!Environment
  PROVE  AnswerIsKnown'
<1> USE DEF OneShotInv
<1>1. UNCHANGED <<runPhase, sent, awaited>> /\ sent \in Seq(Run!Requests \cup {"cancel", "part"})
        /\ heard \in 0..Len(sent) /\ Len(sent) \in Nat
  BY EnvironmentTypes DEF Run!LocalRunTypeOK
<1>2. CASE Run!BackendHears
  <2>1. UNCHANGED <<backendPipe, ended>> /\ heard' = heard + 1 /\ heard + 1 \in DOMAIN sent
          /\ ("prompt" \in owed' => "prompt" \in owed \/ sent[heard + 1] = "prompt")
    BY <1>1, <1>2 DEF Run!BackendHears
  <2>2. 1..heard \subseteq 1..heard' /\ heard + 1 \in 1..heard' /\ 1..heard \subseteq DOMAIN sent
          /\ heard + 1 \notin 1..heard
    BY <1>1, <2>1
  <2>3. "prompt" \in owed' => ended' = "none"
    BY <2>1, <2>2 DEF AnswerIsKnown
  <2>4. "prompt" \in owed' \/ ended' # "none" => \E i \in 1..heard' : sent'[i] = "prompt"
    BY <1>1, <2>1, <2>2 DEF AnswerIsKnown
  <2>5. QED
    BY <1>1, <2>1, <2>3, <2>4 DEF AnswerIsKnown, Sent, Answered, AnswersPrompt, Open
<1>3. ASSUME NEW m \in Frames, backendPipe' = Append(backendPipe, m), UNCHANGED heard,
             \/ ~AnswersPrompt(m) /\ UNCHANGED ended /\ owed' \subseteq owed
             \/ /\ AnswersPrompt(m) /\ ended' = m.answer
                /\ "prompt" \in owed /\ owed' = owed \ {"prompt"}
      PROVE  AnswerIsKnown'
  <2>1. /\ Len(backendPipe) \in Nat /\ Len(backendPipe') = Len(backendPipe) + 1
        /\ DOMAIN backendPipe = 1..Len(backendPipe) /\ DOMAIN backendPipe' = 1..(Len(backendPipe) + 1)
        /\ backendPipe'[Len(backendPipe) + 1] = m
        /\ \A i \in DOMAIN backendPipe : backendPipe'[i] = backendPipe[i]
    BY <1>3, AppendOf
  <2>2. \A i \in DOMAIN backendPipe' : i \in DOMAIN backendPipe \/ i = Len(backendPipe) + 1
    BY <2>1
  <2>3. Answered(Len(backendPipe)) \/ AnswersPrompt(m) => Answered(Len(backendPipe))'
    BY <2>1 DEF Answered, AnswersPrompt
  <2>4. CASE ~AnswersPrompt(m) /\ UNCHANGED ended /\ owed' \subseteq owed
    <3>1. \A i \in DOMAIN backendPipe' :
            AnswersPrompt(backendPipe'[i]) => ended' = backendPipe'[i].answer
      BY <2>1, <2>2, <2>4 DEF AnswerIsKnown
    <3>2. QED
      BY <1>1, <1>3, <2>3, <2>4, <3>1 DEF AnswerIsKnown, Sent, Open, AnswersPrompt
  <2>5. CASE /\ AnswersPrompt(m) /\ ended' = m.answer
             /\ "prompt" \in owed /\ owed' = owed \ {"prompt"}
    <3>1. \A i \in DOMAIN backendPipe : ~AnswersPrompt(backendPipe[i])
      BY <2>5, AnswersAreGiven DEF AnswerIsKnown
    <3>2. m.answer # "none"
      <4>1. m.answer \in Run!Answers["prompt"]
        BY <2>5, FramesType DEF AnswersPrompt
      <4>2. QED
        BY <4>1 DEF Run!Answers
    <3>3. \A i \in DOMAIN backendPipe' :
            AnswersPrompt(backendPipe'[i]) => ended' = backendPipe'[i].answer
      BY <2>1, <2>2, <2>5, <3>1 DEF AnswersPrompt
    <3>4. QED
      BY <1>1, <1>3, <2>3, <2>5, <3>2, <3>3 DEF AnswerIsKnown, Sent, Open, AnswersPrompt
  <2>6. QED
    BY <1>3, <2>4, <2>5
<1>4. CASE Run!BackendAnswers
  <2>1. PICK r \in owed : \E a \in Run!Answers[r] :
               /\ backendPipe' = Append(backendPipe, Run!Reply(r, a))
               /\ owed' = owed \ {r} /\ ended' = IF r = "prompt" THEN a ELSE ended
    BY <1>4 DEF Run!BackendAnswers
  <2>2. PICK a \in Run!Answers[r] :
               /\ backendPipe' = Append(backendPipe, Run!Reply(r, a))
               /\ owed' = owed \ {r} /\ ended' = IF r = "prompt" THEN a ELSE ended
    BY <2>1
  <2>3. /\ Run!Reply(r, a) \in Frames /\ UNCHANGED heard
        /\ AnswersPrompt(Run!Reply(r, a)) <=> r = "prompt"
        /\ Run!Reply(r, a).answer = a
    BY <1>4, FramesType DEF Run!LocalRunTypeOK, Run!BackendAnswers, Run!Reply, AnswersPrompt
  <2>4. QED
    BY <1>3, <2>2, <2>3
<1>5. CASE Run!BackendSpeaks \/ Run!BackendStrays
  <2>1. PICK m : backendPipe' = Append(backendPipe, m) /\ m.kind # "reply"
    <3>1. CASE Run!BackendSpeaks
      <4>1. PICK raw, text : backendPipe' = Append(backendPipe, Run!Chunk(raw, text))
        BY <3>1 DEF Run!BackendSpeaks
      <4>2. QED
        BY <4>1 DEF Run!Chunk
    <3>2. CASE Run!BackendStrays
      BY <3>2 DEF Run!BackendStrays, Run!Alien
    <3>3. QED
      BY <1>5, <3>1, <3>2
  <2>2. m \in Frames
    <3>1. backendPipe' \in Seq(Frames) /\ Len(backendPipe) \in Nat
      BY <1>5, PipeTypes DEF Run!Next, Run!Environment
    <3>2. Len(backendPipe) + 1 \in DOMAIN backendPipe' /\ backendPipe'[Len(backendPipe) + 1] = m
      BY <2>1
    <3>3. QED
      BY <3>1, <3>2
  <2>3. UNCHANGED <<heard, ended, owed>>
    BY <1>5 DEF Run!BackendSpeaks, Run!BackendStrays
  <2>4. QED
    BY <1>3, <2>1, <2>2, <2>3 DEF AnswersPrompt
<1>6. CASE Run!BackendExits \/ Run!ReaderCloses
  BY <1>1, <1>6
     DEF Run!BackendExits, Run!ReaderCloses, Run!speech, AnswerIsKnown, Sent, Answered, AnswersPrompt,
         Open
<1>7. QED
  BY <1>2, <1>4, <1>5, <1>6 DEF Run!Environment

LEMMA RunKnowsTheAnswer ==
  ASSUME OneShotInv, Run!Next, ~Run!Environment
  PROVE  AnswerIsKnown'
<1> USE DEF OneShotInv
<1>1. UNCHANGED <<heard, owed, ended>> /\ sent \in Seq(Run!Requests \cup {"cancel", "part"})
        /\ heard \in 0..Len(sent) /\ Len(sent) \in Nat
  BY RunTypes DEF Run!LocalRunTypeOK
<1>2. \A i \in DOMAIN backendPipe' :
        AnswersPrompt(backendPipe'[i]) => ended' = backendPipe'[i].answer
  <2>1. \/ UNCHANGED backendPipe \/ backendPipe' = <<>>
        \/ backendPipe # <<>> /\ backendPipe' = Tail(backendPipe)
    BY DEF Run!Next, Run!Exchanging, Run!Cancelling, Run!Finishing, Run!Start, Run!MakeRequest,
       Run!RequestFails, Run!Initialized, Run!Created, Run!TurnEnds, Run!ReadChunk, Run!ReadFails,
       Run!WriteSome, Run!WriteFails, Run!Interrupted, Run!SendCancel, Run!CancelFails, Run!Drain,
       Run!DrainEnds, Run!CloseRequest, Run!CloseSucceeds, Run!CloseFails, Run!CloseEnds,
       Run!Kill, Run!Reap, Run!Answered, Run!Take
  <2>2. \A i \in DOMAIN backendPipe' : \E j \in DOMAIN backendPipe : backendPipe'[i] = backendPipe[j]
    BY <2>1, TailOf
  <2>3. QED
    BY <1>1, <2>2 DEF AnswerIsKnown, AnswersPrompt
<1>3. runPhase' \in Open /\ ended' # "none" => Answered(Len(backendPipe))'
  <2>1. SUFFICES ASSUME runPhase' \in Open, ended # "none"
                 PROVE  Answered(Len(backendPipe))'
    BY <1>1
  <2>2. CASE UNCHANGED backendPipe /\ runPhase \in Open
    BY <2>1, <2>2 DEF AnswerIsKnown, Answered, AnswersPrompt
  <2>3. CASE /\ runPhase \in {"initialize", "new", "respond"}
             /\ backendPipe # <<>> /\ backendPipe' = Tail(backendPipe)
             /\ ~AnswersPrompt(Head(backendPipe))
    <3>1. runPhase \in Open /\ Len(backendPipe) \in Nat
      BY <2>3 DEF Open, Run!Exchange
    <3>2. PICK j \in 1..Len(backendPipe) : AnswersPrompt(backendPipe[j])
      BY <2>1, <3>1 DEF AnswerIsKnown, Answered
    <3>3. j # 1
      BY <2>3, <3>2, TailOf
    <3>4. j - 1 \in 1..Len(backendPipe') /\ backendPipe'[j - 1] = backendPipe[j]
      BY <2>3, <3>1, <3>3, TailOf
    <3>5. QED
      BY <3>2, <3>4 DEF Answered, AnswersPrompt
  <2>4. CASE Run!WriteSome
    BY <2>2, <2>4 DEF Run!WriteSome, Open, Run!Exchange
  <2>5. QED
    BY <2>1, <2>2, <2>3, <2>4, TextSteps DEF AnswersPrompt
<1>4. /\ "prompt" \in owed' => ended' = "none"
      /\ "prompt" \in owed' \/ ended' # "none" => \E i \in 1..heard' : sent'[i] = "prompt"
  <2>1. \A i \in 1..heard : i \in DOMAIN sent /\ sent'[i] = sent[i]
    BY <1>1, SentTypes, AppendOf
  <2>2. QED
    BY <1>1, <2>1 DEF AnswerIsKnown
<1>5. /\ \A i, j \in DOMAIN sent' : sent'[i] = "prompt" /\ sent'[j] = "prompt" => i = j
      /\ runPhase' \in Early => ~Sent("prompt")'
      /\ Sent("prompt")' /\ awaited' # "prompt" => ended' # "none"
      /\ Sent("close")' => awaited' = "close" /\ runPhase' \in Late
  <2>1. ASSUME NEW r \in Run!Requests \cup {"cancel", "part"}, sent' = Append(sent, r)
        PROVE  /\ DOMAIN sent = 1..Len(sent) /\ DOMAIN sent' = 1..(Len(sent) + 1)
               /\ sent'[Len(sent) + 1] = r /\ \A i \in DOMAIN sent : sent'[i] = sent[i]
               /\ \A i \in DOMAIN sent' : i \in DOMAIN sent \/ i = Len(sent) + 1
               /\ \A what : Sent(what)' <=> Sent(what) \/ what = r
    BY <1>1, <2>1, AppendOf DEF Sent
  <2>2. CASE Run!MakeRequest
    <3>1. /\ runPhase \in {"initialize", "new", "prompt"} /\ awaited' = runPhase
          /\ sent' = Append(sent, runPhase)
          /\ runPhase' = IF runPhase = "prompt" THEN "respond" ELSE runPhase
      BY <2>2 DEF Run!MakeRequest, Run!Request
    <3>2. ~Sent("prompt") /\ ~Sent("close")
      BY <3>1 DEF AnswerIsKnown
    <3>3. runPhase \in Run!Requests \cup {"cancel", "part"}
      BY <3>1 DEF Run!Requests
    <3>4. \A i \in DOMAIN sent' : sent'[i] = "prompt" => i = Len(sent) + 1
      BY <2>1, <3>1, <3>2, <3>3 DEF Sent
    <3>5. QED
      BY <2>1, <3>1, <3>2, <3>3, <3>4 DEF Early
  <2>3. CASE Run!CloseRequest
    <3>1. awaited = "none" /\ awaited' = "close" /\ sent' = Append(sent, "close")
            /\ runPhase' = "closing" /\ "close" \in Run!Requests \cup {"cancel", "part"}
      BY <2>3 DEF Run!CloseRequest, Run!Request, Run!Requests
    <3>2. \A i \in DOMAIN sent' : sent'[i] = "prompt" => i \in DOMAIN sent /\ sent[i] = "prompt"
      BY <2>1, <3>1
    <3>3. QED
      BY <1>1, <2>1, <3>1, <3>2 DEF AnswerIsKnown, Early, Late
  <2>4. CASE /\ sent' \in {sent, Append(sent, "part"), Append(sent, "cancel")}
             /\ runPhase' \in Early => runPhase \in Early
             /\ runPhase \in Late => runPhase' \in Late
             /\ \/ UNCHANGED awaited
                \/ /\ runPhase \notin Late
                   /\ backendPipe # <<>> /\ awaited' = "none"
                   /\ Head(backendPipe).kind = "reply"
                   /\ Head(backendPipe).to = "prompt" \/ awaited # "prompt"
    <3>1. /\ \A i \in DOMAIN sent' : sent'[i] = "prompt" => i \in DOMAIN sent /\ sent[i] = "prompt"
          /\ \A what \in {"prompt", "close"} : Sent(what)' <=> Sent(what)
      <4>1. CASE UNCHANGED sent
        BY <4>1 DEF Sent
      <4>2. CASE sent' = Append(sent, "part") \/ sent' = Append(sent, "cancel")
        BY <2>1, <4>2
      <4>3. QED
        BY <2>4, <4>1, <4>2
    <3>2. backendPipe # <<>> /\ Head(backendPipe).kind = "reply" /\ Head(backendPipe).to = "prompt"
            => ended # "none"
      BY TailOf, AnswersAreGiven DEF AnswersPrompt
    <3>3. QED
      BY <1>1, <2>4, <3>1, <3>2 DEF AnswerIsKnown, Early, Late
  <2>5. QED
    BY <2>2, <2>3, <2>4, RequestSteps
<1>6. QED
  BY <1>2, <1>3, <1>4, <1>5 DEF AnswerIsKnown, Early, Late

-----------------------------------------------------------------------------
(***************************************************************************)
(* The end of the run.                                                     *)
(***************************************************************************)
LEMMA SentStays ==
  ASSUME OneShotInv, Run!Next, NEW what, Sent(what)
  PROVE  Sent(what)'
<1>1. sent \in Seq(Run!Requests \cup {"cancel", "part"})
  BY DEF OneShotInv, Run!LocalRunTypeOK
<1>2. \A i \in DOMAIN sent : i \in DOMAIN sent' /\ sent'[i] = sent[i]
  BY <1>1, SentTypes, AppendOf
<1>3. QED
  BY <1>2 DEF Sent

\* All the text is printed when the answer is the next frame.
LEMMA TextIsComplete ==
  ASSUME OneShotInv, runPhase = "respond", backendPipe # <<>>, AnswersPrompt(Head(backendPipe))
  PROVE  stdout = spoken
<1>1. runPhase \in Open \ {"write"}
  BY DEF Open, Run!Exchange
<1>2. PICK at \in Accounting : Accounts(at)
  BY <1>1 DEF OneShotInv, TextIsAccounted, Accounting
<1>3. 1 \in 1..Len(backendPipe) /\ Answered(1)
  <2>1. 1 \in 1..1 /\ 1 \in 1..Len(backendPipe) /\ backendPipe[1] = Head(backendPipe)
    BY TailOf DEF OneShotInv
  <2>2. QED
    BY <2>1 DEF Answered, AnswersPrompt
<1>4. Len(spoken) = Len(stdout) + Len(remaining) /\ remaining = <<>>
  BY <1>1, <1>2, <1>3 DEF Accounts, OneShotInv, TextIsAccounted
<1>5. Len(stdout) = Len(spoken) /\ \A k \in 1..Len(stdout) : stdout[k] = spoken[k]
  BY <1>4, OutputTypes DEF OneShotInv, TextIsAccounted
<1>6. QED
  BY <1>5, OutputTypes

LEMMA VerdictIsEarned ==
  ASSUME OneShotInv, Run!Next
  PROVE  /\ runPhase' \in Open => exchange' = "none"
         /\ exchange' = "ok" => stdout' = spoken' /\ ended' = "end_turn"
         /\ exit' = "ok" => exchange' = "ok" /\ runChild' = "exited"
<1> USE DEF OneShotInv
<1>1. CASE Run!Environment
  <2>1. UNCHANGED <<runPhase, exchange, exit, stdout>>
    BY <1>1, EnvironmentTypes
  <2>2. exit = "ok" => UNCHANGED runChild
    BY <1>1
       DEF TurnIsSettled, Run!Environment, Run!BackendHears, Run!BackendAnswers, Run!BackendSpeaks,
           Run!BackendStrays, Run!BackendExits, Run!ReaderCloses, Run!Running
  <2>3. ended # "none" => UNCHANGED <<spoken, ended>>
    <3>1. CASE Run!BackendAnswers
      BY <3>1 DEF AnswerIsKnown, Run!BackendAnswers
    <3>2. CASE ~Run!BackendAnswers
      BY <1>1, <3>2
         DEF Run!Environment, Run!BackendHears, Run!BackendSpeaks, Run!BackendStrays,
             Run!BackendExits, Run!ReaderCloses, Run!speech
    <3>3. QED
      BY <3>1, <3>2
  <2>4. QED
    BY <2>1, <2>2, <2>3 DEF TurnIsSettled
<1>2. CASE ~Run!Environment
  <2>1. UNCHANGED <<spoken, ended>>
    BY <1>2, RunTypes
  <2>2. CASE Run!TurnEnds
    <3>1. /\ runPhase \in {"initialize", "new", "respond"} /\ awaited = "prompt"
          /\ backendPipe # <<>> /\ AnswersPrompt(Head(backendPipe))
      BY <2>2 DEF Run!TurnEnds, Run!Answered, Run!Waiting, Run!Take, AnswersPrompt
    <3>2. ended = Head(backendPipe).answer /\ UNCHANGED <<stdout, exit>>
            /\ runPhase' \in {"close", "cancel"} /\ exit = exit'
            /\ exchange' = IF Head(backendPipe).answer = "end_turn" THEN "ok" ELSE "err"
      BY <2>2, <3>1, TailOf DEF Run!TurnEnds, AnswerIsKnown, Run!GiveUp
    <3>3. exchange = "none"
      BY <3>1 DEF TurnIsSettled, Open, Run!Exchange
    <3>4. runPhase = "respond"
      <4>1. 1 \in DOMAIN backendPipe /\ AnswersPrompt(backendPipe[1])
        BY <3>1, TailOf
      <4>2. PICK i \in 1..heard : sent[i] = "prompt"
        BY <4>1, AnswersAreGiven DEF AnswerIsKnown
      <4>3. i \in DOMAIN sent
        BY DEF Run!LocalRunTypeOK
      <4>4. QED
        BY <3>1, <4>2, <4>3 DEF AnswerIsKnown, Sent
    <3>5. QED
      BY <2>1, <3>1, <3>2, <3>3, <3>4, TextIsComplete DEF TurnIsSettled, Open, Run!Exchange
  <2>3. CASE Run!Reap
    BY <2>1, <2>3
       DEF Run!Reap, Run!Return, Run!Verdict, Run!output, TurnIsSettled, Open, Run!Exchange
  <2>4. CASE Run!Start
    BY <2>1, <2>4
       DEF Run!Start, Run!Return, Run!output, TurnIsSettled, Open, Run!Exchange
  <2>5. CASE ~Run!TurnEnds /\ ~Run!Reap /\ ~Run!Start
    <3>1. \/ UNCHANGED exchange /\ (runPhase' \in Open => runPhase \in Open)
          \/ exchange' = "err" /\ runPhase' \in {"close", "cancel"}
      BY <1>2, <2>5
         DEF Run!Next, Run!Exchanging, Run!Cancelling, Run!Finishing, Run!MakeRequest,
             Run!RequestFails, Run!Initialized, Run!Created, Run!ReadChunk, Run!ReadFails,
             Run!WriteSome, Run!WriteFails, Run!Interrupted, Run!SendCancel, Run!CancelFails,
             Run!Drain, Run!DrainEnds, Run!CloseRequest, Run!CloseSucceeds, Run!CloseFails,
             Run!CloseEnds, Run!Kill, Run!GiveUp, Run!client, Run!Answered, Run!Waiting, Open, Run!Exchange
    <3>2. UNCHANGED exit /\ (UNCHANGED runChild \/ runChild = "running")
      BY <1>2, <2>5
         DEF Run!Next, Run!Exchanging, Run!Cancelling, Run!Finishing, Run!MakeRequest,
             Run!RequestFails, Run!Initialized, Run!Created, Run!ReadChunk, Run!ReadFails,
             Run!WriteSome, Run!WriteFails, Run!Interrupted, Run!SendCancel, Run!CancelFails,
             Run!Drain, Run!DrainEnds, Run!CloseRequest, Run!CloseSucceeds, Run!CloseFails,
             Run!CloseEnds, Run!Kill, Run!GiveUp, Run!client, Run!process, Run!Running
    <3>3. UNCHANGED stdout \/ runPhase \in Open
      BY <1>2, TextSteps DEF Run!WriteSome, Open, Run!Exchange
    <3>4. exit # "ok" \/ UNCHANGED exchange
      <4>1. CASE exit = "ok"
        <5>1. exchange = "ok" /\ runPhase \notin Open
          BY <4>1 DEF TurnIsSettled
        <5>2. QED
          BY <1>2, <2>5, <5>1
             DEF Run!Next, Run!Exchanging, Run!Cancelling, Run!Finishing, Run!MakeRequest,
                 Run!RequestFails, Run!Initialized, Run!Created, Run!ReadChunk, Run!ReadFails,
                 Run!WriteSome, Run!WriteFails, Run!Interrupted, Run!SendCancel, Run!CancelFails,
                 Run!Drain, Run!DrainEnds, Run!CloseRequest, Run!CloseSucceeds, Run!CloseFails,
                 Run!CloseEnds, Run!Kill, Run!client, Run!Answered, Run!Waiting, Open, Run!Exchange
      <4>2. QED
        BY <4>1
    <3>5. QED
      <4>1. runPhase' \in Open => exchange' = "none"
        BY <3>1 DEF TurnIsSettled, Open, Run!Exchange
      <4>2. exchange' = "ok" => stdout' = spoken' /\ ended' = "end_turn"
        BY <2>1, <3>1, <3>3 DEF TurnIsSettled
      <4>3. exit' = "ok" => exchange' = "ok" /\ runChild' = "exited"
        BY <3>2, <3>4 DEF TurnIsSettled
      <4>4. QED
        BY <4>1, <4>2, <4>3
  <2>6. QED
    BY <2>2, <2>3, <2>4, <2>5
<1>3. QED
  BY <1>1, <1>2

LEMMA RequestIsOwned ==
  ASSUME OneShotInv, Run!Next
  PROVE  /\ runPhase' \in {"respond", "write"} => awaited' = "prompt"
         /\ awaited' = "prompt" \/ runPhase' = "prompt" => session'
<1> USE DEF OneShotInv, TurnIsSettled
<1>1. CASE Run!Environment
  BY <1>1, EnvironmentTypes
<1>2. CASE Run!MakeRequest
  BY <1>2 DEF Run!MakeRequest, Run!Request, Run!client
<1>3. CASE Run!Initialized \/ Run!Created \/ Run!TurnEnds
  BY <1>3 DEF Run!Initialized, Run!Created, Run!TurnEnds, Run!GiveUp, Run!Answered
<1>4. CASE Run!CloseRequest
  BY <1>4 DEF Run!CloseRequest, Run!Request
<1>5. CASE /\ UNCHANGED session /\ awaited' \in {awaited, "none"}
           /\ runPhase' \in {"respond", "write"} => runPhase \in {"respond", "write"} /\ UNCHANGED awaited
           /\ runPhase' = "prompt" => runPhase = "prompt"
  BY <1>5
<1>6. CASE Run!Exchanging \/ Run!Start \/ Run!Interrupted
  BY <1>2, <1>3, <1>5, <1>6
     DEF Run!Exchanging, Run!Start, Run!Interrupted, Run!RequestFails, Run!ReadChunk, Run!ReadFails,
         Run!WriteSome, Run!WriteFails, Run!Return, Run!GiveUp, Run!client, Run!request
<1>7. CASE Run!Cancelling \/ Run!Finishing
  BY <1>4, <1>5, <1>7
     DEF Run!Cancelling, Run!Finishing, Run!SendCancel, Run!CancelFails, Run!Drain, Run!DrainEnds,
         Run!CloseSucceeds, Run!CloseFails, Run!CloseEnds, Run!Kill, Run!Reap, Run!Return,
         Run!client, Run!request
<1>8. QED
  BY <1>1, <1>6, <1>7 DEF Run!Next

LEMMA ChildIsOwned ==
  ASSUME OneShotInv, Run!Next
  PROVE  /\ runPhase' = "start" => runChild' = "none"
         /\ runPhase' = "done" => (runChild' # "none" => reaped') /\ ~nonblocking'
<1> USE DEF OneShotInv, TurnIsSettled
<1>1. CASE Run!Environment
  <2>1. UNCHANGED <<runPhase, nonblocking, reaped>>
    BY <1>1, EnvironmentTypes
  <2>2. UNCHANGED runChild \/ runChild = "running"
    BY <1>1
       DEF Run!Environment, Run!BackendHears, Run!BackendAnswers, Run!BackendSpeaks,
           Run!BackendStrays, Run!BackendExits, Run!ReaderCloses, Run!Running
  <2>3. QED
    BY <2>1, <2>2
<1>2. CASE Run!Start
  BY <1>2 DEF Run!Start, Run!Return
<1>3. CASE Run!Reap
  BY <1>3 DEF Run!Reap, Run!Return
<1>4. CASE ~Run!Environment /\ ~Run!Start /\ ~Run!Reap
  <2>1. runPhase' \notin {"start", "done"}
    BY <1>4
       DEF Run!Next, Run!Exchanging, Run!Cancelling, Run!Finishing, Run!MakeRequest,
           Run!RequestFails, Run!Initialized, Run!Created, Run!TurnEnds, Run!ReadChunk, Run!ReadFails,
           Run!WriteSome, Run!WriteFails, Run!Interrupted, Run!SendCancel, Run!CancelFails,
           Run!Drain, Run!DrainEnds, Run!CloseRequest, Run!CloseSucceeds, Run!CloseFails,
           Run!CloseEnds, Run!Kill, Run!GiveUp
  <2>2. QED
    BY <2>1
<1>5. QED
  BY <1>1, <1>2, <1>3, <1>4

\* A prompt that is left is cancelled, cut off or lost with the backend.
LEMMA CancelIsSent ==
  ASSUME OneShotInv, Run!Next
  PROVE  /\ runPhase' = "drain" => Sent("cancel")'
         /\ runPhase' \in {"close", "closing", "wait"} /\ awaited' = "prompt" =>
              Sent("cancel")' \/ (sent' # <<>> /\ Last(sent') = "part") \/ ~Run!Running'
<1> USE DEF OneShotInv, TurnIsSettled
<1>1. sent \in Seq(Run!Requests \cup {"cancel", "part"})
  BY DEF Run!LocalRunTypeOK
<1>2. Sent("cancel") => Sent("cancel")'
  BY SentStays
<1>3. ASSUME UNCHANGED sent, runPhase \in {"close", "closing", "wait"}, ~Run!Running => ~Run!Running'
      PROVE  awaited = "prompt" =>
               Sent("cancel")' \/ (sent' # <<>> /\ Last(sent') = "part") \/ ~Run!Running'
  BY <1>2, <1>3
<1>4. CASE Run!Environment
  <2>1. UNCHANGED <<runPhase, sent, awaited>>
    BY <1>4, EnvironmentTypes
  <2>2. ~Run!Running => ~Run!Running'
    BY <1>4
       DEF Run!Environment, Run!BackendHears, Run!BackendAnswers, Run!BackendSpeaks,
           Run!BackendStrays, Run!BackendExits, Run!ReaderCloses, Run!Running
  <2>3. QED
    BY <1>2, <1>3, <2>1, <2>2
<1>5. CASE Run!SendCancel
  <2>1. sent' = Append(sent, "cancel")
    BY <1>5 DEF Run!SendCancel
  <2>2. Sent("cancel")'
    BY <1>1, <2>1, AppendOf DEF Sent
  <2>3. QED
    BY <2>2
<1>6. CASE Run!CancelFails
  <2>1. CASE ~Run!Running
    BY <1>6, <2>1 DEF Run!CancelFails, Run!Running, Run!process
  <2>2. CASE sent' = Append(sent, "part")
    <3>1. sent' # <<>> /\ Last(sent') = "part"
      BY <1>1, <2>2 DEF Last
    <3>2. QED
      BY <1>6, <3>1 DEF Run!CancelFails
  <2>3. QED
    BY <1>6, <2>1, <2>2 DEF Run!CancelFails, Run!CutOff
<1>7. CASE Run!Drain \/ Run!DrainEnds
  BY <1>2, <1>7 DEF Run!Drain, Run!DrainEnds
<1>8. CASE Run!CloseRequest
  BY <1>8 DEF Run!CloseRequest, Run!Request
<1>9. CASE Run!CloseSucceeds \/ Run!CloseFails
  <2>1. UNCHANGED <<sent, awaited, runChild>> /\ runPhase \in {"close", "closing"} /\ runPhase' = "wait"
    BY <1>9 DEF Run!CloseSucceeds, Run!CloseFails, Run!CloseEnds, Run!request, Run!process
  <2>2. QED
    BY <1>3, <2>1 DEF Run!Running
<1>10. CASE Run!Kill
  BY <1>10 DEF Run!Kill, Run!Running
<1>11. CASE Run!Reap \/ Run!Start
  BY <1>11 DEF Run!Reap, Run!Start, Run!Return
<1>12. CASE Run!Exchanging \/ Run!Interrupted
  <2>1. runPhase' # "drain" /\ runPhase' \notin {"closing", "wait"}
    BY <1>12
       DEF Run!Exchanging, Run!Interrupted, Run!MakeRequest, Run!RequestFails, Run!Initialized,
           Run!Created, Run!TurnEnds, Run!ReadChunk, Run!ReadFails, Run!WriteSome, Run!WriteFails,
           Run!GiveUp
  <2>2. runPhase' = "close" => ~session \/ awaited' = "none"
    BY <1>12
       DEF Run!Exchanging, Run!Interrupted, Run!MakeRequest, Run!RequestFails, Run!Initialized,
           Run!Created, Run!TurnEnds, Run!ReadChunk, Run!ReadFails, Run!WriteSome, Run!WriteFails,
           Run!GiveUp, Run!Answered
  <2>3. ~session /\ runPhase' = "close" => awaited' # "prompt"
    <3>1. runPhase' = "close" => awaited' \in {awaited, "none"}
      BY <1>12
         DEF Run!Exchanging, Run!Interrupted, Run!MakeRequest, Run!RequestFails, Run!Initialized,
             Run!Created, Run!TurnEnds, Run!ReadChunk, Run!ReadFails, Run!WriteSome, Run!WriteFails,
             Run!GiveUp, Run!Answered, Run!request
    <3>2. QED
      BY <3>1
  <2>4. QED
    BY <2>1, <2>2, <2>3
<1>13. QED
  BY <1>4, <1>5, <1>6, <1>7, <1>8, <1>9, <1>10, <1>11, <1>12
     DEF Run!Next, Run!Cancelling, Run!Finishing

LEMMA OneShotStep ==
  OneShotInv /\ [Run!Next]_runVars => OneShotInv'
<1> SUFFICES ASSUME OneShotInv, [Run!Next]_runVars PROVE OneShotInv'
  OBVIOUS
<1>1. CASE Run!Next
  <2>1. TurnIsSettled'
    BY <1>1, VerdictIsEarned, RequestIsOwned, ChildIsOwned, CancelIsSent DEF TurnIsSettled
  <2>2. AnswerIsKnown'
    BY <1>1, BackendKnowsTheAnswer, RunKnowsTheAnswer
  <2>3. QED
    BY <1>1, <2>1, <2>2, RunKeepsTypes, TextStaysAccounted DEF OneShotInv
<1>2. CASE UNCHANGED runVars
  <2>1. Run!LocalRunTypeOK' /\ backendPipe' \in Seq(Frames)
    BY <1>2 DEF runVars, OneShotInv, Run!LocalRunTypeOK
  <2>2. TextIsAccounted' /\ AnswerIsKnown'
    BY <1>2 DEF runVars, OneShotInv, TextIsAccounted, Accounts, AnswerIsKnown, Answered,
       AnswersPrompt, Sent
  <2>3. TurnIsSettled'
    BY <1>2 DEF runVars, OneShotInv, TurnIsSettled, Sent, Run!Running, Last
  <2>4. QED
    BY <2>1, <2>2, <2>3 DEF OneShotInv
<1>3. QED
  BY <1>1, <1>2

LEMMA OneShotIsKept ==
  RuntimeInit => OneShotInv
  BY RunBegins DEF RuntimeInit

\* What was printed is the beginning of what was said.
LEMMA OutputIsAPrefix ==
  ASSUME OneShotInv
  PROVE  TextIsAPrefix
<1>1. Len(stdout) <= Len(spoken) /\ \A n \in 1..Len(stdout) : stdout[n] = spoken[n]
  BY DEF OneShotInv, TextIsAccounted
<1>2. SubSeq(stdout, 1, Len(stdout)) = SubSeq(spoken, 1, Len(stdout))
  BY <1>1, OutputTypes
<1>3. QED
  BY <1>1, <1>2 DEF TextIsAPrefix, Run!TextIsAPrefix, Run!IsPrefix

LEMMA RunSettlesItsAccounts ==
  ASSUME OneShotInv
  PROVE  RunIsAccountedFor
<1> USE DEF OneShotInv
<1>1. \A what : Sent(what) <=> what \in Run!ToSet(sent)
  BY DEF Sent, Run!ToSet
<1>2. Run!NothingLeftBehind
  BY DEF TurnIsSettled, Run!NothingLeftBehind
<1>3. Run!NoSilentAbandon
  BY <1>1 DEF TurnIsSettled, Run!NoSilentAbandon, Run!Last, Last
<1>4. Run!CloseIsClean
  BY <1>1 DEF AnswerIsKnown, Run!CloseIsClean
<1>5. QED
  BY <1>2, <1>3, <1>4 DEF RunIsAccountedFor, Run!RunIsAccountedFor
-----------------------------------------------------------------------------
(***************************************************************************)
(* The conversation takes turns.                                           *)
(***************************************************************************)

\* Before the first Ready is shown nothing has been submitted.
Opening == starting => told = 0 /\ ~ready

LEMMA OpeningStep ==
  Opening /\ [Next]_vars => Opening'
<1> SUFFICES ASSUME Opening, [Next]_vars PROVE Opening'
  OBVIOUS
<1>1. CASE Backend \/ Worker \/ UNCHANGED vars
  <2>1. UNCHANGED screen
    BY <1>1, WorkerLeavesTheUser
       DEF Backend, BackendReads, BackendSpeaks, BackendStops, BackendStrays, BackendExits,
           backendOnly, vars
  <2>2. QED
    BY <2>1 DEF Opening, screen
<1>2. CASE Display \/ Keys
  BY <1>2 DEF Opening, Display, Keys, UiText, UiReady, UiClosed, Done, KeyEnter, KeyEscape, KeyP,
     KeyC, Quit, uiRest
<1>3. QED
  BY <1>1, <1>2 DEF Next

LEMMA TalkBegins ==
  ASSUME Init
  PROVE  Talk!Init /\ Opening
  BY DEF Init, Talk!Init, Opening

\* A worker that ends its session early gives up, or has given up.
LEMMA WorkerGivesUp ==
  ASSUME UNCHANGED turned, Closes, phase # "over", phase' # "over"
  PROVE  Talk!Next \/ UNCHANGED Talk!talk
<1>1. CASE phase \in After
  BY <1>1 DEF turned, Closes, After, Talk!talk
<1>2. CASE phase \notin After
  BY <1>2 DEF turned, Closes, After, Talk!Next, Talk!GiveUp
<1>3. QED
  BY <1>1, <1>2

\* What the worker does is the plain order of turns, step by step.
LEMMA TalkOfTheWorker ==
  ASSUME SessionInv, SessionInv', Worker
  PROVE  Talk!Next \/ UNCHANGED Talk!talk
<1>1. phase # "over" /\ UNCHANGED <<told, ready>>
  BY WorkerLeavesTheUser DEF screen
<1>2. CASE Announce \/ Initialize
  <2>1. UNCHANGED turned /\ phase \in Before /\ phase' \in {"announce", "wait", "close"}
    BY <1>2 DEF Announce, Initialize, Before, Finish, turned, workerRest, screen, queues
  <2>2. CASE phase' = "close"
    BY <2>1, <2>2 DEF turned, Before, Talk!Next, Talk!GiveUp
  <2>3. CASE phase' # "close"
    BY <2>1, <2>3 DEF turned, Before, Talk!talk
  <2>4. QED
    BY <2>2, <2>3
<1>3. CASE TakeCommand
  <2>1. phase = "wait" /\ phase' = "prompt" /\ UNCHANGED acked
    BY <1>3 DEF TakeCommand
  <2>2. turn < TurnLimit /\ turn = acked /\ told = turn + 1 /\ turn' = told
    BY <1>3 DEF TakeCommand, SessionInv, TurnIsHeld
  <2>3. QED
    BY <1>1, <2>1, <2>2 DEF Talk!Next, Talk!TakeUp
<1>4. CASE Receive
  <2>1. phase \in {"respond", "drain"} /\ phase' \in {"announce", "close"} /\ UNCHANGED turn
    BY <1>4 DEF Receive, TurnEnds, Finish
  <2>2. CASE acked' = turn
    BY <1>1, <2>1, <2>2 DEF Talk!Next, Talk!Settle
  <2>3. CASE acked' # turn
    <3>1. phase' = "close" /\ UNCHANGED acked
      BY <1>4, <2>3 DEF Receive, OwnStop, Finish
    <3>2. QED
      BY <1>1, <2>1, <3>1 DEF Talk!Next, Talk!GiveUp
  <2>4. QED
    BY <2>2, <2>3
<1>5. CASE Reap
  <2>1. phase = "reap" /\ phase' = "over" /\ UNCHANGED <<turn, acked>>
    BY <1>5 DEF Reap
  <2>2. outcome' = "err" \/ (outcome' = "ok" /\ turn = acked)
    BY <1>5, <2>1 DEF Reap, SessionInv, SessionEnds, After, TypeOK
  <2>3. QED
    BY <1>1, <2>1, <2>2 DEF Talk!Next, Talk!Report
<1>6. CASE UNCHANGED turned /\ Closes /\ ~Reap
  <2>1. phase' # "over"
    BY <1>1, <1>6
       DEF Worker, Turning, Finishing, Announce, WaitQuit, Idle, TakeCommand, PromptFails,
           SendPrompt, ReadPart, ResponseInterrupted, ResponseTimeout, ShowChunk, DropChunk,
           SendCancel, Receive, BrokenPipe, DrainTimeout, CutOff, TearsWrite,
           Initialize, CloseRequest, CloseEnds,
           Kill, Finish, TurnEnds, ClientDropped, worker
  <2>2. QED
    BY <1>1, <1>6, <2>1, WorkerGivesUp
<1>7. CASE UNCHANGED turned /\ GoesOn
  <2>1. CASE phase = "prompt"
    <3>1. turn = acked + 1 /\ phase' \in {"respond", "cancel", "drain"}
      BY <1>7, <2>1 DEF GoesOn, SessionInv, TurnIsHeld, InTurn
    <3>2. QED
      BY <1>7, <2>1, <3>1 DEF turned, Talk!Next, Talk!Run
  <2>2. CASE phase # "prompt"
    BY <1>7, <2>2 DEF turned, GoesOn, InTurn, Talk!talk
  <2>3. QED
    BY <2>1, <2>2
<1>8. CASE UNCHANGED turned /\ UNCHANGED <<phase, outcome>>
  BY <1>8 DEF turned, Talk!talk
<1>9. QED
  BY <1>2, <1>3, <1>4, <1>5, <1>6, <1>7, <1>8, WorkerSteps DEF SessionInv

\* So is what the user does, invited or with the prompt of the command line.
LEMMA TalkOfTheUser ==
  ASSUME SessionInv, Opening, Display \/ Keys
  PROVE  Talk!Next \/ UNCHANGED Talk!talk
<1>1. UNCHANGED <<turn, acked, phase, outcome>>
  BY UserLeavesTheWorker DEF worker
<1>2. CASE UNCHANGED <<told, ready>>
  BY <1>1, <1>2 DEF Talk!talk
<1>3. CASE UiReady
  <2>1. ~ready /\ told = acked
    BY <1>3, HeadIsReady DEF UiReady
  <2>2. CASE ready' = TRUE /\ told' = told
    BY <1>1, <2>1, <2>2 DEF Talk!Next, Talk!Invite
  <2>3. CASE ready' = FALSE /\ told' = told + 1 /\ starting
    <3>1. told = 0
      BY <2>3 DEF Opening
    <3>2. QED
      BY <1>1, <2>1, <2>3, <3>1 DEF Talk!Next, Talk!Submit
  <2>4. QED
    BY <1>3, <2>2, <2>3 DEF UiReady, Submit
<1>4. CASE KeyEnter
  <2>1. ready /\ told = acked /\ ready' = FALSE /\ told' = told + 1
    BY <1>4 DEF KeyEnter, Submit, SessionInv, TurnIsHeld
  <2>2. QED
    BY <1>1, <2>1 DEF Talk!Next, Talk!Submit
<1>5. CASE UiClosed
  <2>1. phase = "over" /\ ready' = FALSE /\ told' = told /\ outcome \in {"ok", "err"}
    BY <1>5 DEF UiClosed, SessionInv, TypeOK
  <2>2. QED
    BY <1>1, <2>1 DEF Talk!Next, Talk!Withdraw
<1>6. QED
  BY <1>2, <1>3, <1>4, <1>5 DEF Display, Keys, UiText, Done, KeyEscape, KeyP, KeyC, Quit

\* Every step of the conversation is a turn taken, or none.
LEMMA TalkStep ==
  SessionInv /\ SessionInv' /\ Opening /\ [Next]_vars => [Talk!Next]_Talk!talk
<1> SUFFICES ASSUME SessionInv, SessionInv', Opening, [Next]_vars
             PROVE  Talk!Next \/ UNCHANGED Talk!talk
  OBVIOUS
<1>1. CASE Backend \/ UNCHANGED vars
  <2>1. UNCHANGED <<told, turn, acked, ready, phase, outcome>>
    BY <1>1
       DEF Backend, BackendReads, BackendSpeaks, BackendStops, BackendStrays, BackendExits,
           backendOnly, vars, screen, worker
  <2>2. QED
    BY <2>1 DEF Talk!talk
<1>2. QED
  BY <1>1, TalkOfTheWorker, TalkOfTheUser DEF Next
-----------------------------------------------------------------------------
(***************************************************************************)
(* The runtime.                                                            *)
(***************************************************************************)

\* Either half of the runtime leaves the other alone.
LEMMA HalfSteps ==
  [RuntimeNext]_runtimeVars => [Next]_vars /\ [Run!Next]_runVars
  BY DEF RuntimeNext, OneShot, Conversation, runtimeVars

\* Whatever the keys, the backend and the two queues do to each other, no turn
\* of a conversation is mistaken for another: run_ui and session of
\* local_session.rs.
THEOREM ConversationKeepsTurnsApart == RuntimeSpec => []TurnsAreKeptApart
<1>1. RuntimeInit => SessionInv
  BY SessionBegins DEF RuntimeInit
<1>2. SessionInv /\ [RuntimeNext]_runtimeVars => SessionInv'
  BY HalfSteps, SessionStep
<1>3. SessionInv => TurnsAreKeptApart
  BY SessionIsKeptApart
<1>4. QED
  BY <1>1, <1>2, <1>3, PTL DEF RuntimeSpec

\* The worker writes a prompt only to an idle backend that has acknowledged
\* every prompt before it: TextClient::prompt and turn.
THEOREM ConversationPromptsAreSequential == RuntimeSpec => PromptsAreSequential
<1>1. RuntimeInit => SessionInv
  BY SessionBegins DEF RuntimeInit
<1>2. SessionInv /\ [RuntimeNext]_runtimeVars => SessionInv'
  BY HalfSteps, SessionStep
<1>3. SessionInv /\ SessionInv' /\ [RuntimeNext]_runtimeVars =>
        [\A t \in Turns :
           (Len(toBackend') > Len(toBackend) /\ Last(toBackend') = Prompt(t)) =>
             /\ acked = t - 1 /\ working = 0
             /\ \A i \in DOMAIN toBackend : toBackend[i].kind \notin {"prompt", "torn"}]_vars
  BY HalfSteps, PromptStep
<1>4. QED
  BY <1>1, <1>2, <1>3, PTL DEF RuntimeSpec, PromptsAreSequential

\* Whatever the keys, the display, the worker and the backend do, the user and
\* the backend take turns, and a prompt is written only to an idle backend that
\* has acknowledged every prompt before it: run_ui, session and turn of
\* local_session.rs with TextClient::prompt.
THEOREM ConversationTakesTurns == RuntimeSpec => TurnsAreTaken
<1> DEFINE Told == SessionInv /\ Opening
<1>1. RuntimeInit => Told /\ Talk!Init
  BY SessionBegins, TalkBegins DEF RuntimeInit
<1>2. Told /\ [RuntimeNext]_runtimeVars => Told'
  BY HalfSteps, SessionStep, OpeningStep
<1>3. Told /\ Told' /\ [RuntimeNext]_runtimeVars => [Talk!Next]_Talk!talk
  BY HalfSteps, TalkStep
<1> HIDE DEF Told
<1>4. QED
  BY <1>1, <1>2, <1>3, ConversationPromptsAreSequential, PTL
     DEF RuntimeSpec, TurnsAreTaken, Talk!Spec

\* However the output takes its bytes and wherever the run is interrupted, it
\* prints the beginning of the text of its turn: write_stdout and `run` of
\* local_runtime.rs.
THEOREM OutputStaysAPrefix == RuntimeSpec => []TextIsAPrefix
<1>1. OneShotInv /\ [RuntimeNext]_runtimeVars => OneShotInv'
  BY HalfSteps, OneShotStep
<1>2. OneShotInv => TextIsAPrefix
  BY OutputIsAPrefix
<1>3. QED
  BY <1>1, <1>2, OneShotIsKept, PTL DEF RuntimeSpec

\* A run reports success only for a turn that the backend ended, all of whose
\* text was printed, and a backend that exited by itself.
THEOREM RunSuccessIsComplete == RuntimeSpec => []SuccessIsComplete
<1>1. OneShotInv /\ [RuntimeNext]_runtimeVars => OneShotInv'
  BY HalfSteps, OneShotStep
<1>2. OneShotInv => SuccessIsComplete
  BY DEF OneShotInv, TurnIsSettled, SuccessIsComplete, Run!SuccessIsComplete
<1>3. QED
  BY <1>1, <1>2, OneShotIsKept, PTL DEF RuntimeSpec

\* On every path the child is reaped, the terminal restored, and a prompt
\* answered, cancelled or lost before the session is closed: finish_backend.
THEOREM RunStaysAccountedFor == RuntimeSpec => []RunIsAccountedFor
<1>1. OneShotInv /\ [RuntimeNext]_runtimeVars => OneShotInv'
  BY HalfSteps, OneShotStep
<1>2. OneShotInv => RunIsAccountedFor
  BY RunSettlesItsAccounts
<1>3. QED
  BY <1>1, <1>2, OneShotIsKept, PTL DEF RuntimeSpec
=============================================================================
