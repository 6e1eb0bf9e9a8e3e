---------------------------- MODULE PublicDetails ----------------------------
(***************************************************************************)
(* The collapsed public details of the task view: PublicDetailsView of     *)
(* native/tuig/src/public_details_view.rs.  Two folds of a validated run's *)
(* public events, read page by page while one is open, and dropped when    *)
(* the binding changes or a page is refused.                               *)
(*                                                                         *)
(* The task reads that validate a binding are the main loop's (TaskLoop);  *)
(* here they end with any binding, as the view's interface allows.  The    *)
(* folds are 0, the summaries, and 1, the execution trace.                 *)
(***************************************************************************)
EXTENDS PublicRunEvents

CONSTANTS None,      \* no binding, no request, no fold
          MaxBytes,  \* MAX_VIEW_BYTES
          Summaries, \* the events of a log that are public summaries
          Acts,      \* bound: keys, clicks and task reads
          Faults     \* bound: pages that are wrong or refused

ASSUME BoundsAssumption ==
  /\ MaxBytes \in Nat /\ Acts \in Nat /\ Faults \in Nat
  /\ None \notin PublicRuns /\ None # NoRun

Bindings == PublicRuns \cup {NoRun}   \* a task may have no run
Folds == {0, 1}

VARIABLES
  binding,   \* binding
  choice,    \* choice_binding
  request,   \* request: what is read and, once it is there, the answer
  records,   \* records
  cursor,    \* cursor
  terminal,  \* terminal
  paused,    \* paused
  expanded,  \* expanded
  selected,  \* selected
  waiting    \* next_read is in the future

windowVars == <<request, records, cursor, terminal, paused, waiting>>
foldVars   == <<choice, expanded, selected>>
view       == <<binding, windowVars, foldVars>>

VARIABLES
  reading,   \* the main loop reads the task
  written,   \* the server: how much of the runs' logs there is
  ends,      \* the server: the logs have a terminal event
  acts, faults,
  refused,   \* history: the user canceled, or a page was denied, and nothing since
  misled     \* history: a page was denied, or was wrong in a way that parses

serverVars == <<written, ends, faults, misled>>
envVars == <<reading, serverVars, acts, refused>>
vars == <<view, envVars>>

Spawned(run, after) == [run |-> run, after |-> after, done |-> FALSE, result |-> Unparsed]

Pending == request # None

Active == ~paused /\ binding \in PublicRuns /\ \E fold \in Folds : expanded[fold]

Init ==
  /\ binding = None /\ choice = None /\ request = None /\ records = <<>>
  /\ cursor = 0 /\ terminal = FALSE /\ paused = FALSE /\ waiting = FALSE
  /\ expanded = [fold \in Folds |-> FALSE] /\ selected = None
  /\ reading \in BOOLEAN /\ written = 0 /\ ends \in BOOLEAN
  /\ acts = Acts /\ faults = Faults
  /\ refused = FALSE /\ misled = FALSE
-----------------------------------------------------------------------------
\* The window of retained events.

\* abort, and what its callers set afterwards.
Cleared(pause, wait) ==
  /\ request' = None /\ records' = <<>> /\ cursor' = 0 /\ terminal' = FALSE
  /\ paused' = pause /\ waiting' = wait

\* The bytes of the first events, by their number.
Bytes(events) ==
  LET upto[n \in 0 .. Len(events)] == IF n = 0 THEN 0 ELSE upto[n - 1] + events[n].size
  IN upto

Size(events) == Bytes(events)[Len(events)]

Without(events, n) == SubSeq(events, n + 1, Len(events))

\* Mutant: only the number of events is limited.
WindowOfEvents(events) ==
  Without(events, IF Len(events) > MaxEvents THEN Len(events) - MaxEvents ELSE 0)

\* The two loops that drop the oldest events, no more than both limits ask for.
Window(events) ==
  LET enough == {n \in 0 .. Len(events) : /\ Len(Without(events, n)) <= MaxEvents
                                          /\ Size(Without(events, n)) <= MaxBytes}
  IN Without(events, CHOOSE n \in enough : \A m \in enough : n <= m)

\* Mutant: what was retained is not compared with the page.
ContinuesAny(page) == TRUE

\* The checks of apply: nothing follows a terminal event, a sequence or an
\* identifier is not repeated.
Continues(page) ==
  page.events # <<>> =>
    /\ ~terminal
    /\ page.events[1].seq = cursor + 1
    /\ \A i \in DOMAIN page.events, j \in DOMAIN records : page.events[i].id # records[j].id

Apply(page) ==
  \/ ~Continues(page) /\ Cleared(TRUE, FALSE)
  \/ /\ Continues(page)
     /\ records' = Window(records \o page.events)
     /\ cursor' = page.next /\ terminal' = page.terminal
     /\ waiting' = ~page.more
     /\ request' = None /\ UNCHANGED paused

\* Mutant: a failed read is treated like a denied one.
FailedPauses(result) == Cleared(TRUE, FALSE)

\* The refusals of complete: a denied read is not repeated, others are tried
\* again after a second.
Failed(result) == Cleared(result.denied, ~result.denied)

\* complete
Complete ==
  /\ Pending /\ request.done
  /\ \/ request.result.ok /\ Apply(request.result)
     \/ ~request.result.ok /\ Failed(request.result)
  /\ refused' = (refused \/ request.result = Denied)
  /\ UNCHANGED <<binding, foldVars, reading, serverVars, acts>>

\* tick, every quarter of a second while the view is active.
Tick ==
  /\ Active /\ ~Pending /\ ~terminal /\ ~waiting
  /\ request' = Spawned(binding, cursor)
  /\ UNCHANGED <<binding, records, cursor, terminal, paused, waiting, foldVars, envVars>>

\* A second passes.
Second ==
  /\ waiting /\ waiting' = FALSE
  /\ UNCHANGED <<binding, request, records, cursor, terminal, paused, foldVars, envVars>>
-----------------------------------------------------------------------------
\* The binding and the folds.

\* Folds are kept without a binding and for the run they were chosen for.
FoldsKept(new) == new = None \/ new = choice

\* task_updated
TaskUpdated(new) ==
  \/ new = binding /\ UNCHANGED view
  \/ /\ new # binding
     /\ Cleared(FALSE, FALSE) /\ binding' = new
     /\ \/ FoldsKept(new) /\ UNCHANGED foldVars
        \/ /\ ~FoldsKept(new) /\ choice' = new
           /\ expanded' = [fold \in Folds |-> FALSE] /\ selected' = None

\* Mutant: closing the last fold leaves the read running.
ClosedReads(fold) == UNCHANGED request

\* toggle: without an open fold the read ends.
ClosedEnds(fold) ==
  request' = IF binding \in PublicRuns /\ \E f \in Folds : expanded'[f] THEN request ELSE None

Toggle(fold) ==
  /\ binding # None
  /\ selected' = fold /\ paused' = FALSE
  /\ expanded' = [expanded EXCEPT ![fold] = ~@]
  /\ ClosedEnds(fold)
  /\ UNCHANGED <<binding, choice, records, cursor, terminal, waiting>>

Select ==
  /\ binding # None
  /\ \/ selected' = (IF selected = None THEN 0 ELSE (selected + 1) % 2)   \* Tab
     \/ selected' = (IF selected = None THEN 1 ELSE (selected + 1) % 2)   \* BackTab
     \/ selected # None /\ selected' = None                               \* Escape
  /\ UNCHANGED <<binding, windowVars, choice, expanded>>

\* Mutant: a canceled read is not canceled.
CancelReadOnly == Cleared(FALSE, FALSE)

\* Mutant: events are said to be omitted once more were read than fit.
OmissionByCount == cursor > MaxEvents

Omission == records # <<>> /\ records[1].seq > 1

\* append_lines: what stands under the title of a fold, in the order of the log.
Drawn(fold) ==
  CASE ~expanded[fold]          -> [events |-> {}, omitted |-> FALSE, told |-> "closed"]
    [] expanded[fold] /\ binding \notin PublicRuns ->
         [events |-> {}, omitted |-> FALSE, told |-> "no validated run"]
    [] OTHER ->
         LET events == {records[i] : i \in {i \in DOMAIN records :
                                             (records[i].seq \in Summaries) = (fold = 0)}} IN
         [events |-> events, omitted |-> fold = 1 /\ events # {} /\ Omission,
          told |-> IF events = {} THEN "unavailable" ELSE "events"]

\* cancel_read
CancelRead == Cleared(TRUE, FALSE)

\* replay
Replay == Cleared(FALSE, FALSE)
-----------------------------------------------------------------------------
\* The user and the main loop.

Act == acts > 0 /\ acts' = acts - 1 /\ UNCHANGED serverVars

\* Enter or Space on the selected title, a click on either.
PressFold ==
  /\ Act /\ \E fold \in Folds : Toggle(fold)
  /\ refused' = FALSE /\ UNCHANGED reading

PressKey == Act /\ Select /\ UNCHANGED <<reading, refused>>

\* c: the task read is canceled first.
PressCancel ==
  /\ Act
  /\ \/ reading /\ TaskUpdated(None) /\ reading' = FALSE /\ UNCHANGED refused
     \/ ~reading /\ Pending /\ CancelRead /\ refused' = TRUE /\ UNCHANGED <<binding, foldVars, reading>>

\* r: refresh the task.
PressRefresh ==
  /\ Act /\ ~reading /\ reading' = TRUE
  /\ Replay /\ refused' = FALSE /\ UNCHANGED <<binding, foldVars>>

\* A task read that the observation, a submission or a cancellation starts.
TaskReadStarts == Act /\ ~reading /\ reading' = TRUE /\ UNCHANGED <<view, refused>>

\* The main loop's read validates a binding, or none.
TaskReadEnds ==
  /\ reading /\ reading' = FALSE
  /\ \E new \in Bindings \cup {None} :
       /\ TaskUpdated(new)
       /\ refused' = (refused /\ new = binding)
  /\ UNCHANGED <<serverVars, acts>>
-----------------------------------------------------------------------------
\* The server.

Answered(result) ==
  /\ request' = [request EXCEPT !.done = TRUE, !.result = result]
  /\ UNCHANGED <<binding, records, cursor, terminal, paused, waiting, foldVars>>
  /\ UNCHANGED <<reading, written, ends, acts, refused>>

PageOf(upto) == Page(request.run, request.after, written, ends, upto)

Uptos == {upto \in request.after .. written :
            /\ upto <= request.after + MaxEvents
            /\ upto > request.after \/ written = request.after}

Serve ==
  /\ Pending /\ ~request.done
  /\ \E upto \in Uptos : Answered(Parse(PageOf(upto), request.run, request.after))
  /\ UNCHANGED <<faults, misled>>

Misbehave ==
  /\ Pending /\ ~request.done
  /\ faults > 0 /\ faults' = faults - 1
  /\ \/ Answered(Denied) \/ Answered(Unparsed)
     \/ \E upto \in Uptos : \E page \in WrongPages(PageOf(upto)) :
          Answered(Parse(page, request.run, request.after))
  /\ misled' = (misled \/ request'.result # Unparsed)

Publish ==
  /\ written < Last /\ written' = written + 1
  /\ UNCHANGED <<view, reading, ends, acts, faults, misled, refused>>

ReadNext == Tick \/ Second \/ Complete
UserNext == PressFold \/ PressKey \/ PressCancel \/ PressRefresh \/ TaskReadStarts
Next == ReadNext \/ UserNext \/ TaskReadEnds \/ Serve \/ Misbehave \/ Publish

Spec == Init /\ [][Next]_vars

\* The loop's branches are taken in random order; requests are answered.
LiveSpec ==
  /\ Spec /\ WF_vars(Tick) /\ WF_vars(Second) /\ WF_vars(Complete) /\ WF_vars(TaskReadEnds)
  /\ WF_vars(Serve) /\ WF_vars(Publish)
-----------------------------------------------------------------------------
\* Properties.

\* The view keeps a window within both limits, a cursor, and its folds.
DetailsTypeOK ==
  /\ binding \in Bindings \cup {None} /\ choice \in Bindings \cup {None}
  /\ Len(records) <= MaxEvents /\ Size(records) <= MaxBytes
  /\ cursor \in 0 .. Last /\ selected \in Folds \cup {None}
  /\ expanded \in [Folds -> BOOLEAN]
  /\ terminal \in BOOLEAN /\ paused \in BOOLEAN /\ waiting \in BOOLEAN

\* What is retained is the end of the validated run's log as far as it was
\* read: no other run's event, none repeated, none left out, and no more
\* dropped than the limits ask for (apply, task_updated).
RetainedIsTheLog ==
  LET kept == Len(records) IN
  /\ cursor > 0 => binding \in PublicRuns
  /\ \A i \in 1 .. kept :
       records[i].run = binding /\ records[i].seq = cursor - kept + i
  /\ \A i, j \in 1 .. kept : records[i].id = records[j].id => i = j
  /\ cursor > kept =>
       Len(records) = MaxEvents \/ Size(records) + Sizes[cursor - kept] > MaxBytes

\* A trace shows every step before one it shows, or says that steps were
\* omitted, which the window has dropped (append_lines).
OmissionIsTold ==
  LET trace == Drawn(1) IN
  \A event \in trace.events, n \in 1 .. Last :
    n < event.seq /\ n \notin Summaries =>
      trace.omitted \/ \E earlier \in trace.events : earlier.seq = n

\* A read belongs to what is on display: to the validated run, at the view's
\* cursor, with a fold open; whatever ends one of them ends the read (toggle,
\* cancel_read, replay, task_updated).
ReadIsWanted ==
  Pending => /\ Active /\ ~terminal
             /\ request.run = binding /\ request.after = cursor

\* After a cancellation, and after a denied page, no page is read until the
\* user opens or closes a fold or refreshes, or a task read ends with another
\* binding (complete, cancel_read, tick).
RefusalStopsReads == refused => ~Pending

\* What a fold shows is the log, as far as it says, and no other.
DetailsAreTheLog == DetailsTypeOK /\ RetainedIsTheLog /\ OmissionIsTold

\* A page is read only for what the user has on display and did not end.
ReadsAreTheUsers == ReadIsWanted /\ RefusalStopsReads

\* An open fold gets to the end of the run's log, over reads that fail and
\* pages that do not parse, unless a read was canceled or denied.
OpenFoldCatchesUp ==
  <>[](/\ binding \in PublicRuns /\ \E fold \in Folds : expanded[fold]
       /\ ~refused /\ ~misled
       => cursor = Last)
=============================================================================
