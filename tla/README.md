# A verification of tuig

tuig is a terminal client, written in Rust, for agent tasks run by an Arbora
server or by a local ACP backend. This directory holds TLA+ models of its
protocols and state machines, the TLC runs that check them, and TLAPS proofs.
Sources named below are under `native/tuig/src/` of the repository.

Contents: [inventory](#inventory), [modules](#modules), [runs](#runs),
[bounds](#bounds), [fairness](#fairness), [proofs](#proofs),
[findings](#findings), [limits](#what-is-not-modelled), [plan](#plan).

## Inventory

| Component | State | Operations | Talks to |
|---|---|---|---|
| Central loop (`main.rs`) | one `request` handle with `pending`, `submitting`, `remote_cancel`; `binding`, `cancellation`, observation flags and deadline; composer and overlays | keys, request completion, 500 ms observation tick, redraw, quit | the client (spawned futures), the inspector, log and detail views (`task_updated`, `complete`, `tick`) |
| Client (`lib.rs`, `recovery.rs`, `correlation.rs`, `terminal_event.rs`) | none between calls | discover, submit, get, refresh, cancel; retries of reads; validation of replies against a binding | Arbora over HTTP |
| Headless (`headless.rs`) | binding, last line, last snapshot | submit or read once, refresh every 500 ms, verdict | the client, stdout |
| Local conversation (`local_session.rs`, `acp.rs`) | UI: `ready`, `active`, composer, transcript. Worker: turn. Client: `pending`, `turn_ready`, partial frame. Shared: queue of one command, queue of sixteen updates, flags `cancel`, `quit` | initialize, prompt, stream, cancel, drain, close, kill, reap; keys | the child `arbora-acp` over two pipes |
| One local prompt, backend process (`local_runtime.rs`, `acp.rs`) | the child, the exchange, the flags of standard output, the bytes still to be written | spawn, initialize, prompt, write, cancel, drain, close, kill, reap | the child, stdout, signals |
| Run inspector (`inspector_view.rs`, `run_inspector.rs`, `run_inspector_client.rs`) | binding, `RunInspector` (projection, plan deadline, comparison token), two read handles, generation, graph and selected step, modes, search | task_updated, open, refresh, complete, keys, draw | the loop, the client, the clock |
| Execution graph and map (`execution_graph.rs`, `spatial_graph.rs`) | decoded graph; layers, pan and focus | decode, layout, draw, pan | the inspector |
| Public details (`public_details_view.rs`, `public_run_events.rs`) | folds, records, cursor, `terminal`, `paused`, one read handle | toggle, tick, complete, replay, cancel | the loop, the client |
| Host logs (`host_log_view.rs`, `host_logs.rs`) | receipt, cursor, expiry, 1000 lines, one read handle | open, tick, complete, close, draw | the loop, the client |
| Stream decoder (`task_stream.rs`) | line, data, pending and accepted cursor | feed, finish | nothing in the binary |
| Coding approvals (`coding_approval.rs`) | pending request, records, `connected` | receive, preview, decide | nothing in the binary |
| Viewports, keys and themes (`presentation.rs`) | requested and visible row, theme | measure, reveal, handle, filter of key events | every view |
| Composer, command line, output and usage (`composer.rs`, `cli.rs`, `task_output.rs`, `turn_usage.rs`) | draft text; none; none | editing, parsing, formatting | the loops |

What is hard, and what correctness means for each component:

- **Central loop.** Keys, ticks and answers interleave freely; one handle is
  reused for five kinds of request; effects stand even when their answer is
  lost, late or foreign. Correct means: one submission per process; a
  cancellation is sent only for what the user saw; an unknown outcome is
  announced until an answer about the task arrives; a final state is shown only
  if the task is in it; a finished handle is never polled again.
- **Reads, headless.** Timeouts, retries and refusals race. Correct means:
  bounded effort, no retry of a refusal, only snapshots of the bound task and
  run; exit status 0 only for a completed task, nothing read after a submission
  whose outcome is unknown, an end after four hours.
- **Local conversation.** Two tasks, one child process, level-triggered flags,
  bounded queues and six timeouts. Correct means: prompts are sequential, text
  and cancellations belong to their turn, the user is invited only after an
  acknowledgement, and quitting always ends and reaps the child.
- **One local prompt.** Output that takes part of a write, interrupts between
  two writes, a backend that stops anywhere. Correct means: what is printed is
  the beginning of the answer, and success means all of it.
- **Inspector.** Protected data has three clocks (reply, acceptance, frame) and
  two asynchronous reads. Correct means: a frame shows only what the bound run's
  reader asked for and may still see, and what the user selected or searched for
  is on the screen, in the list and on the map, after a resize, an expiry or an
  answer.
- **Execution graph, map.** The producer's graph is untrusted and its layout
  works in u16. Correct means: exactly plans are accepted, the layout does not
  depend on the order of the walk, and no line crosses a card.
- **Public details, host logs.** Pages with a cursor, a bounded window, and log
  lines under a receipt that expires. Correct means: what is shown is the end of
  the log of the validated run, or lines of an admitted receipt.
- **Task view.** Clicks and keys refer to the frame the user saw, drawn before
  the answer that arrives in between. Correct means: they act on that frame.
- **Stream decoder, approvals.** Correct means: a cursor of an event that was
  not accepted is not resumed from, and no event is lost or repeated; a decision
  is for exactly what was previewed, once, and different requests look different,
  up to the digest of a command, which no preview shows.

The complete list of hazards, each at its line with the properties that cover
it or the reason why none does, is in `PROJECT.json`.

## Modules

| Module | Models |
|---|---|
| `TaskCorrelation` | which reply is about which task (`correlation.rs`); shared |
| `TaskLoop` | the central loop, its request and the remote task |
| `EffectLedger` | abstract specification: what the loop promises about submissions and cancellations |
| `TaskRead`, `Headless` | one `read_task`; the headless process, whose reads are `TaskRead`'s steps |
| `TurnTaking` | abstract specification: the turns of a conversation, one after the other |
| `LocalSession` | interface, worker, ACP client and child process |
| `LocalRun`, `LocalRuntime` | one prompt with `--headless`; both kinds of local run side by side |
| `Inspector` | the run inspector between the loop, the reads and the clock |
| `Viewport` | the rows of a text that are on the screen |
| `InspectorScreen` | the inspector's texts, search, list and map on the screen |
| `TaskScreen` | the task view with its folds, and the views that cover it |
| `PublicRunEvents`, `PublicDetails` | pages of public events; the view that reads them |
| `HostLogs` | the host logs: admission, reader and view |
| `Views` | public details and host logs side by side, as the loop polls them |
| `ResumableStream`, `TaskStream` | what a resumable stream promises (abstract); the decoder over connections that break |
| `CodingApproval`, `ApprovalPreview` | the decisions of a coding session; the text they are made on |
| `StepGraph`, `ExecutionGraph` | what a plan is (abstract); `ExecutionGraph::decode` |
| `LayeredLayout`, `PlanMap` | layers, cards and strokes of the map; decoder and layout composed |
| `MC...` | finite sets for TLC; `MCScreens` also puts two components side by side |
| `TaskLoopProofs`, `HeadlessProofs`, `InspectorProofs`, `LocalRuntimeProofs` | theorems about the module of that name and those it composes |
| `ScreenProofs`, `PlanMapProofs` | theorems about the two screens; decoder and map |
| `ViewProofs`, `LibraryProofs` | theorems about `Views`; task stream and approvals |

Definitions carry the names of the code where TLA+ allows it; the map in
`PROJECT.json` gives the lines of each. Definitions marked *Mutant* are never
part of a specification: they are the bugs each property is known to detect.

**TaskLoop.** A turn of the `select!` loop is one action: the request arm
(`Complete`), the observation tick, or one key. Every action ends with the
drawing that starts the next turn, because the confirmation dialog depends on
what the last frame showed (`Draw`, `confirm_visible`). The `JoinHandle` is a
record with its kind, its target and its phase: *spawned*, *served* (the server
has acted), *done* (the future is ready), *taken* (its result has been
consumed). Aborting it in phase *served* loses the answer and not the effect.
The remote task moves by itself at any time. Task states are kept by the four
classes the loop tells apart. The first answer about a task defines its binding;
later answers may carry any context and run.

**EffectLedger.** A submission is none, outstanding, acknowledged or unknown; a
cancellation is idle, asked, outstanding or unknown; a binding is set once.
`TaskLoop` refines it with the mapping at the end of that module.

**TaskRead, Headless.** Time is counted in ticks, with the code's ten-second
request limit, doubling pauses and twelve-second limit in the same proportions.
A reply may be about any context and run, and may omit the run. `Headless`
drives these reads against a task that moves by itself; a reply about the task
may report an earlier state.

**LocalSession.** The interface task, the worker task and the child are three
actors. `select!` is `biased` here, and the guards follow its order. The pipes
carry whole frames, or a part of one. A turn is named by its number, which is
also the request identifier. The child may answer, stream, repeat an old answer,
send anything else, stop in the middle of a frame, exit or hang. A write that a
signal or a timeout interrupts leaves a torn message (`CutOff`), behind which the
child can read nothing, while the client, which sets `pending` after the write,
believes that nothing was sent. `report` is what the process returns: the result
of the interface's loop and, if that is a success, the worker's.

**TurnTaking.** A turn is submitted, taken up, run and settled; the user is
invited to the next one when the last is settled. A turn that is given up is the
last, and success is reported only if every turn taken up is settled. Three
counters, three flags and a verdict, no queue and no pipe. `LocalSession`
implements it: `told`, `turn` and `acked` are the counters, `ready` is the
invitation, and the phase of the worker tells whether a turn runs and whether
the conversation is over. A prompt that was cut off in the middle of its write is
a turn given up. The display becomes ready after the last permitted
turn too, so one more turn than the limit may be submitted; it is never taken up.

**LocalRun.** The exchange is a future that a signal or a limit drops at any
await: in the handshake, between reading a frame and printing it, or between two
writes of the same text. A write takes any part, nothing for now, or fails
because the reader has closed. What follows (cancel, drain, close, wait, kill,
reap, the restoring of the terminal's flags) is a phase each. `LocalRuntime`
chooses between it and `LocalSession` as the option does.

**Inspector.** The loop draws and then handles one event, so `turn` alternates.
What a frame shows is recorded in `shown`; the history variables record what was
accepted, asked for and shown before. The client identity check of
`client_updated` has no counterpart: the process has one client.

**Viewport, InspectorScreen, TaskScreen.** Drawing measures the text, then moves
the window if something is to be revealed, as `measure` and `reveal` do; every
event falls between two drawings. In `InspectorScreen` a line is its letters and
the cells it takes, so that wrapping, searching and marking are those of the
code; which content may be shown is left to `Inspector`. In `TaskScreen` a part
of the text is the rows it takes at a width. The regions in which a click counts
are computed as `draw_task_viewport` does, and compared with where ratatui puts
the rows, which is written down independently (`Rendered`).

**PublicDetails.** The log of a run grows; a read returns a page after the
cursor, which `PublicPage::parse` checks event by event. A page may be wrong,
denied or fail. The view's window drops its oldest events when it exceeds either
limit. Task reads end with any binding, as the interface of the view allows.

**HostLogs.** Binding to a host and each read are a request and an answer, and
the clock can overtake either: a receipt is checked when it is parsed, before a
read is sent, after its answer and before drawing. The reader keeps a cursor, and
the server drops its oldest records, so that a read can meet a gap.

**TaskStream.** A byte is a line terminator or the text of a whole line, because
the decoder looks into a line only at its end. Connections break at any byte,
and lines and envelopes may be wrong in every way the code distinguishes. The
reader that reconnects with the last accepted cursor, and the server that
resumes from it, are outside the repository.

**CodingApproval, ApprovalPreview.** The decisions depend on previews only
through their identity with the content; that is why the text of a preview is
modelled separately, as a sequence of characters with the escapes of
`escape_default`, from the session in the header to the request for a decision,
and shown to determine the request. The text of a file is listed with a prefix
before each of its lines; everything else is a literal, in which every control
character and the backslash are escaped. `split_terminator` is modelled by where a
line begins and how many there are, and the prefixing works character by
character; a number in decimal is one symbol, given by the constant `Decimal`, and
so is what follows the `u` of an escaped control character (`Hex`). A command has
one field that `ApprovalPreview::text` leaves out: its digest. Two requests that
differ in it alone have the same preview. R011.13
(`specs/terminal-runtime/requirements.md`) lists the command, the directory and
the danger level for the preview and not the digest, while the test
`command_choice_binds_every_preview_field` counts it among the preview's fields.
A decision is bound to it all the same: `decide` compares whole requests, and
`AnswersAreSettled` says that the request answered is the one admitted. A record
names the path of a write or the digest of a command (`Target`).

**ExecutionGraph, LayeredLayout.** Both sorts keep their ready steps on a stack;
here it is a set, so that results are shown not to depend on the order.
`StepGraph` defines what an acyclic graph is by a ranking, without a walk.

## Runs

| Run | Question | Distinct states |
|---|---|---|
| `task_loop` | the central loop in all four start modes: safety, progress, and the ledger with its liveness | 92 296 |
| `local_runtime` | two turns, or one prompt, over a misbehaving backend; both end | 708 606 |
| `headless` | effort of reads, binding, success, end of the process | 866 240 |
| `inspector` | what a frame may show | 17 640 |
| `views` | what public details and host logs may show, and that an open fold catches up | 414 022 |
| `task_stream` | the decoder implements a resumable stream, and everything arrives | 89 484 |
| `approvals` | one answer per request; requests have the same preview exactly if they differ in nothing but a command's digest | 5 189 |
| `plan_map` | exactly plans are accepted; every accepted plan is drawn clearly and truly | 111 339 |
| `screens` | what was selected, chosen, found or scrolled to is in sight; clicks mean what is shown | 788 034 |
| `task_read_known_run` | *violation*: a reply that omits the run is refused | |
| `inspector_regression` | *violation*: an older plan after a refused task read | |
| `inspector_search` | *violation*: the selected match is off screen | |

The properties of each are named in its `.cfg` and stated in the module. Some
are conjunctions of named parts, each with its own comment (`Phased`,
`TurnsAreKeptApart`, `InspectorInvariant`, `ScreenIsKept` and others). In the
passing runs every action and every disjunct is taken. Each property fails for
at least one mutated definition, listed in `PROJECT.json`.

`local_runtime`, `views` and `screens` check two components that share no state
in one run: a variable chooses the side, and the other side stays in one of its
initial states. This is not a composition; it only saves runs. Compositions are
`Headless` over `TaskRead`, `PublicDetails` over `PublicRunEvents`, and
`PlanMap`.

Deadlock is checked in `inspector`, `approvals`, `plan_map` and `screens`. It is
not checked where the modelled process ends or a bounded environment runs out:
`task_loop`, `local_runtime`, `headless`, `views`, `task_stream`.

## Bounds

- Two contexts and one run (`TaskLoop`, `Headless`), two runs (`TaskRead`):
  enough to tell *the* task from another one and an omitted run from a changed
  one. The proofs hold for any sets.
- `Attempts` 3 is the value of the code. `RequestLimit` 6, `TotalLimit` 8 and
  `Pause` 1 keep what matters of 10 s, 12 s and 0.1 s: two requests that time
  out do not fit, a pause does.
- `TurnLimit` 2 (64): the second turn is the one that can inherit something
  from an earlier one, and also the last. `DisplayCap` 1 (16): a full queue is
  the interesting queue. `ChunkLimit` 2: text of a turn before and after a
  cancellation. `LocalRun`: `MaxFrames` 2 unrequested frames of up to
  `ChunkBytes` 2 bytes, so that a write can be cut inside a text, and an
  `OutputLimit` of 3, which the second full frame exceeds. A torn message needs no
  bound: the session ends with it.
- `Revisions` 2, `Validity` 2, `Steps` 3, `Generations` 2: a regression, a plan
  that expires before acceptance, before drawing or on screen, a Tab that
  differs from Shift+Tab. The generation has 64 bits and no session uses them up;
  counting it modulo two makes the model finite, and is enough because an aborted
  read loses its handle, so that one generation at a time has a read.
- `views`: a log of four events and a window of two (by number or by size), so
  that events are dropped twice; four keys and one bad page. Four log records,
  two per read, three lines kept, receipts that expire at any of three times.
- `task_stream`: three events, two faults: a connection that resumed can break
  again. `MaxEvent` 12 is above the largest event and below two of them.
- `approvals`: two identifiers, a repeated and a changed request; texts of two
  characters hold a last line with and without its end, and the paths hold every
  kind of escape beside the characters it consists of. Two digests; headers whose
  fields are exchanged or run on.
- `plan_map`: `MAX_NODES` 4, `MAX_EDGES` 6: every graph over four steps, every
  odd record over fewer, headers with every field wrong. Cards and gutters have
  the sizes of the code.
- `screens`: terminals that hold the map with room to spare, just, and not at
  all; texts of up to five lines that wrap differently in each; six keys in the
  inspector, four in the task view. The map's minimum is 8x13 instead of 72x20
  and its cards are smaller; nothing depends on the ratio. `MaxRow` 40 (65 535)
  is exceeded by the longest task text.
- No counter of `TaskLoop` is bounded: `sends` stays at one because the code
  keeps it there.

## Fairness

- `TaskLoop`: a spawned request ends (the HTTP client has a timeout), the clock
  advances, a finished handle is taken (weak fairness). The observation tick
  needs strong fairness: `select!` polls in random order, so an arm that is ready
  again and again is not passed over forever. The server and the user owe
  nothing.
- `TaskRead`, `Headless`: timers fire and time passes.
- `LocalSession`: the worker and the interface are scheduled on their
  `LocalSet`, and the timeouts of a response (330 s), of a drain (5 s) and of
  the close, wait and kill (2 s each) fire. Neither the child nor the user is
  fair: with the waits *between* turns nothing need happen.
- `LocalRun`: the same limits fire (`Forced`). Neither the backend nor the
  reader of the output owes anything: a pipe may stay full for ever.
- `Inspector`: as `TaskLoop`; a finished read is strongly fair.
  A graph read is restarted by every `r`, so that graph reads end is *not*
  claimed; a summary read is waited for, and does.
- `PublicDetails`: the loop's branches are taken, requests are answered, and the
  log is written to its end. The claim is conditional on no denied or canceled
  read and no misread page.
- `TaskStream`: the server sends, a broken connection is noticed and the reader
  reconnects; faults are bounded, so in the end a connection lasts.
- The other components are driven by calls and promise no progress.

## Proofs

Nothing is bounded in the theorems, and the sets are arbitrary. The assumptions
are the named ones of the modules: markers such as `None` are not themselves
identifiers, sizes are natural numbers, `MaxRow` is positive, graphs are acyclic
and have room for their cards (which is what `PlanMap` shows of the decoder and
the layout).

**TaskLoopProofs.** Type correctness, `Phased`, `HandleLive`, `AtMostOneSend`,
`SubmissionAccounted`, `DialogIsSafe`, `UnknownStaysVisible`,
`FinalStatusIsTrue`, `ViewsFollowBinding`; the action properties
`EffectsKeepTheHandle`, `CancelOnlyWhenSeen` and `DialogWaitsForTheUser`; and
that every step of the loop is a step of `EffectLedger` or leaves it unchanged.
None of these is inductive. The handle is safe because `submitting` implies
`pending`; that holds because the composer is not available after a submission;
and that in turn depends on what the request may be carrying. The inductive
invariant `Phased` says it in three parts. *ComposePhase*: while the composer may
be opened, only the Agent Card is being read, nothing is bound and nothing has
been sent. *SubmitPhase*: while a submission is in flight, it is the handle's
request and the dialog is unavailable. *CancelPhase*: the stage of the
cancellation determines whether the handle is live, whether the task is bound
and what is announced. A final status needs a second invariant on top (`Truth`):
an answer in the handle is about the task it was asked for (*Answered*), the
binding is the remote task's (*Bound*), and before a submission there is no task
(*Unborn*).

**HeadlessProofs.** `Truthful`: what a run holds is about its task, and a state
it may take for the end is the task's end. *Placed* says when a run reads and
which task: a reading run has a binding, or it was started with a task. *Paced*
counts the replies of one read against its attempts, so that an attempt is only
ever spent on an interrupted request. From the three together follow
`RetriesAreEarned`, `ReadsStayBound` and `SuccessIsCompletion`; and, for
`TaskRead` alone, the parts of its own properties (`ReadsAreSound`).

**InspectorProofs.** `InspectorInvariant` and `ProtectedDataIsBound` are not
inductive, because a frame may be drawn at any time over what earlier answers
left behind. The strengthening says what is left: the inspector is of the run of
the accepted task (*Belongs*); content is held, or a read is in flight, only
while the run is known and the user asked for it, and never both (*Wanted*);
there is one read at a time and it is of the current generation (*OneRead*); the
comparison token is at least every revision drawn (*Ordered*); the selected step
is one of the graph's (*Selecting*). `PlanIsFresh` is an action property from
the same invariant.

**LocalRuntimeProofs.** Both kinds of local run. For the conversation,
`SessionInv` relates the two tasks, the flags and the queues: whose turn the
backend, the worker and the display are in (*TurnIsHeld*), that the display
queue carries the updates of at most the current turn in order
(*DisplayIsInOrder*), that a cancellation still to be seen belongs to the turn
it was pressed in (*UserIsHeard*), that the backend never runs ahead of what the
client wrote (*BackendIsBehind*), and what is left when either task has ended, or
a write was torn (*SessionEnds*). From it `TurnsAreKeptApart` and the action property
`PromptsAreSequential`. With one more fact, that nothing has been submitted
before the first Ready is shown (*Opening*), it also gives the refinement: every
step of the worker, the display, the keys or the backend is a step of
`TurnTaking` or leaves it unchanged (`ConversationTakesTurns`). The fact is
needed because the prompt of the command line is submitted without an
invitation. For one prompt, `OneShotInv` says that what was printed
and what is still to be written make up the text received so far, with a
position in the answer for every byte printed (*TextIsAccounted*), what the
exchange knows of the answer (*AnswerIsKnown*), and in which phase the prompt
has been answered, cancelled or left (*TurnIsSettled*). From it
`TextIsAPrefix`, `SuccessIsComplete` and `RunIsAccountedFor`. Both are carried
through `LocalRuntime`, where the kind of run is chosen. Assumed is only that
the sizes are natural numbers.

**LibraryProofs, stream.** `StreamIsImplemented`: every step of decoder, server
and resuming reader is a step of `ResumableStream` or leaves it unchanged. The
invariant compares the decoder with the server byte by byte. *InStep*: both are
within the same line, and a carriage return whose line feed is still owed is
remembered. *Assembled*: the data lines held are what the server has sent of
this event, or contain a line that no server sends, and then the event will be
refused. *Identified*: a pending cursor is the one the server named. *Counted*:
the count is at least what is held, so the limit of one event holds.
`DecoderIsSound` is the run's invariant.

**LibraryProofs, approvals.** `AnswersAreSettled` is inductive as it stands: the
pending request was admitted and is not answered. `PendingIsKept`: only its own
answer removes a pending request.

**LibraryProofs, previews.** `PreviewIsMeant`: for texts of every length, requests
have the same preview exactly if they are the same up to the digest of a command.
That the digest changes nothing is a look at the text (`AlikeLookTheSame`); the
other direction (`PreviewsDecode`) reads a preview from the left. What a character
is written as tells which one it is and where it ends, and is never a line feed
(`LiteralsDiffer`), so a literal up to the line feed after it says which text it
is of (`LiteralsDecode`); with its label that is a line of the header or of a
command (`LabelledDecodes`, `ThreeDecode`), and the label tells a write from a
command (`KindsDiffer`). A line of a file text begins with its prefix, which is
not what follows the text, whether that is the new text, the note that the last
line has no end, or the closing words (`LinesDecode`). From each part of a preview
on, what is left of it is the same for both requests. Assumed is only that a text
has a length, that paths and headers are texts, that control characters are
written differently, and that no decimal number is a line feed
(`PreviewAssumption`).

**PlanMapProofs, decoder.** The counter of a step is the number of its
predecessors not yet visited (*DegreesCounted*), so a step is pushed only when all
were visited (*ReadySettled*), and the turns of the sort rank the dependencies
(*Ranked*): an accepted graph is acyclic. In the other direction nothing but a
cycle is refused by the sort: whatever waits for nothing is ready or visited
(*ReadyFront*), and in an acyclic graph something always waits for nothing. What
is accepted are the plans (`PlansAreExact`): `IsPlan` is said of the reply as a
whole, with cardinalities, where decode compares each entry with those before it,
so the proof relates values that are counted to values that differ in pairs
(*StepsDiffer*, `ListedOnce`). No plan is refused for its number of dependencies,
for an acyclic graph has at most one for each two steps (`AcyclicIsSmall`).
Assumed is what the constants of the code satisfy: MAX_EDGES leaves room for an
acyclic graph over MAX_NODES steps, as 2016 does for 64.

**PlanMapProofs, map.** A step is left only after all its predecessors, so the
column it is left from is final (*Ahead*), and the walk leaves none out. Hence
every edge leads to the right, `x2 - 2` does not wrap, cards do not overlap, and
lines run between cards. A column that is not the first is next to one that a
predecessor was left from (*Justified*), so the columns are the longest chains,
and those are unique in an acyclic graph: the map does not depend on the order of
the walk (`DrawingStaysTrue`). For the two modules together (`PlanMap`) nothing is
assumed of the graphs that are drawn: `EveryMapIsClear`, `EveryMapIsTrue`, and
`MapsShowTheReply` for the way from the reply to the columns.

**ScreenProofs.** Both screens rest on the same facts about a viewport: after
`measure` and `reveal` the rows that were asked for are in the window, as many
as fit and as far as a viewport can count. For the map, *Placed* says that the
card is in both windows, or a focus is requested, until the user pans; it
survives everything that does not draw the map. For the task view, *Faithful*
ties the clickable regions to the rows of the last frame, and *Waiting* says
that a chosen header still has its request when the next frame is drawn.
`MovesWhatIsShown`, `WheelScrollsWhatIsShown` and `HeldKeysOnlyScroll` are proved
and are not repeated in a run.

**ViewProofs, details.** An answer that was accepted fits the run and the cursor
its request was sent with (*AnswerFits*), and between the request and the answer
neither changes without the request being aborted (*ReadIsWanted*). So it
continues what is retained, which is a run of consecutive events that ends at the
cursor (*RetainedIsTheLog*), and the window only drops events from its front.
What the window drops is a sum over the events, hence an induction.

**ViewProofs, host logs.** A reader is in the view or in its task. Wherever it is
until the host answers, its cursor is the record the lines end with, and from the
first read on its receipt is that of the lines (*GoesOn*). A batch then continues
the lines or brings the mark of a gap, and it is empty only if the receipt, or
the empty screen, stays as it is (*Answers*). The order of the lines follows by
induction over the records of a batch. That an empty batch can neither replace
the receipt of what a frame still shows was the part that had to be added.

The library's induction theorems cannot be cited here, for they take an operator.
`ViewProofs` and `ScreenProofs` get the same from sets of numbers: a non-empty
one has a least element, which the theorem about well-founded relations gives
(`LeastNumber`, `NumbersByInduction`), and `LibraryProofs` does the same for texts.

Only model-checked: the liveness properties (fairness and ENABLED are out of the
prover's reach), hence the liveness half of the refinement of `EffectLedger`.
Every invariant, every action property and the safety part
of every refinement that a passing run checks is also a theorem.

## Findings

1. `task_read_known_run`. R002.1.4 (`specs/terminal-runtime/requirements.md:95`)
   says to keep a known run ID if a later snapshot omits it, and
   `validate_binding` allows the omission; `read_task_once` refuses such a reply.
   A test in `native/tuig/tests/recovery.rs` asserts the refusal, so the
   documents disagree with each other.
2. `inspector_regression`. R010.4 says a regressing plan reveals no items.
   `task_updated(None)`, called for every failed, refused or aborted task read,
   drops the comparison token with the rest of the `RunInspector`. Within one
   selection the token survives everything else (`InspectorInvariant`).
3. `inspector_search`. R010.10 asks that the selected match be revealed and
   matches be recomputed after a resize or an expiry. They are recomputed, but
   `draw` gives up the request to reveal if there is no match yet: a query typed
   while a read is in flight leaves its match off screen. That a frame right
   after an edit shows its match is checked (`MatchIsRevealed`).

## What is not modelled

- Wording, colours and themes; parsing of JSON fields, except for which outcome
  a reply leads to. A reply that fits no outcome is *refused*. `task_output.rs`
  and `turn_usage.rs` are such parsing and formatting and keep no state; so is
  most of `terminal_event.rs`.
- `cli.rs`: a parser of arguments that runs once. Its outcomes are the start
  modes of `TaskLoop`, `Headless` and `LocalRuntime`.
- Editing in the composer: the draft is a string nobody else reads; opening,
  leaving and sending it are modelled.
- In `LocalSession` the backend's text belongs to the turn it is running. Chunks
  carry no turn in ACP, so a backend that goes on talking about an old turn
  after acknowledging its end is shown in the next turn; the client cannot tell.
- Quitting with a remote cancellation in flight prints nothing. No document asks
  for a message, so there is no property to check.
- A command entered after the last permitted turn is not sent and the session
  closes with the turn limit; a c pressed before the worker has taken a command
  closes the session with an unknown outcome. Both are conservative, and no
  document says otherwise.
- `main.rs` outside the loop (logging in to the terminal, restoring it) and the
  build, capture and release scripts.

## Plan

Done: all components whose state the properties depend on; the abstract
specifications of the effects, the turns, the stream and the plan; and the proofs
of every safety property that a passing run checks. Left, in this order:

1. The composer's editing and the terminal events that were read after a replay
   gap, which are only modelled as far as other components depend on them.
2. A composition of the central loop with the inspector and the views it polls
   (`Views` and `Inspector` take the loop's calls as their environment).
