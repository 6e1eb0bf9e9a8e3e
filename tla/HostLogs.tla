------------------------------ MODULE HostLogs ------------------------------
(***************************************************************************)
(* The host logs: the admission and the reads of                           *)
(* native/tuig/src/host_logs.rs, and the view of                           *)
(* native/tuig/src/host_log_view.rs that reads them again and again while  *)
(* it is open.  A host's receipt admits the terminal to its log until the  *)
(* receipt expires, by the wall clock of the terminal.                     *)
(*                                                                         *)
(* The log's records are 1, 2, ... and the server drops the oldest.  A     *)
(* cursor is the last record read, 0 is none.  A line is one of a record's *)
(* lines, or the mark of a gap, record 0.                                  *)
(***************************************************************************)
EXTENDS Naturals, Sequences, SequencesExt

CONSTANTS None,
          Records,   \* bound: records the host writes
          Tall,      \* the records whose message has two lines
          Limit,     \* records of one read, 128 in the code
          MaxLines,  \* lines the view keeps, 1000 in the code
          Time       \* bound: the wall clock runs from 0 to Time

Receipts == [fields : {"good", "bad"}, mode : {"terminal", "both", "web"},
             endpoint : {"own", "other"}, generations : {"own", "other"},
             expires : 0 .. Time + 1]

VARIABLES
  authenticated,  \* the client has credentials
  open, request, reader, lines, status, expires,   \* HostLogView
  now,            \* the wall clock
  written,        \* the host: the last record
  oldest,         \* the host: the first one it retains
  shown,          \* history: the last frame, its lines and its time
  admitted,       \* history: the receipt of the lines
  denied          \* history: a read was refused, and the view not opened since

viewVars == <<authenticated, open, request, reader, lines, status, expires>>
hostVars == <<written, oldest>>
history  == <<shown, admitted, denied>>
vars == <<viewVars, now, hostVars, history>>

Blank == [lines |-> <<>>, at |-> 0]

Init ==
  /\ authenticated \in BOOLEAN
  /\ open = FALSE /\ request = None /\ reader = None /\ lines = <<>>
  /\ status = "none" /\ expires = 0
  /\ now = 0 /\ written \in 0 .. 1 /\ oldest = 1
  /\ shown = Blank /\ admitted = None /\ denied = FALSE
-----------------------------------------------------------------------------
\* Admission and reads, in the task the view spawns: it is at "bind" or
\* "read" until the host has answered, at "start" when a read is to be sent,
\* and then "ok", "gap" or "refused".

Task(stage, r) == [stage |-> stage, reader |-> r, records |-> <<>>, gap |-> FALSE]

\* HostLaunchReceipt::parse
Parses(receipt) ==
  /\ receipt.fields = "good" /\ receipt.mode \in {"terminal", "both"}
  /\ receipt.expires > now

\* run_host_terminal
Admits(receipt) == Parses(receipt) /\ authenticated /\ receipt.endpoint = "own"

Valid(r) == r.expires > now

\* bind: nothing is sent without credentials.
BindEnds ==
  /\ request # None /\ request.stage = "bind"
  /\ \/ request' = Task("refused", None)
     \/ /\ authenticated     \* post
        /\ \E receipt \in Receipts :
             request' = IF Admits(receipt)
                        THEN Task("start", [receipt |-> receipt, expires |-> receipt.expires,
                                            cursor |-> 0])
                        ELSE Task("refused", None)
  /\ UNCHANGED <<authenticated, open, reader, lines, status, expires, now, hostVars, history>>

ReadStarts ==
  /\ request # None /\ request.stage = "start"
  /\ request' = IF Valid(request.reader) THEN Task("read", request.reader) ELSE Task("refused", None)
  /\ UNCHANGED <<authenticated, open, reader, lines, status, expires, now, hostVars, history>>

\* What the host has after a cursor: it tells when records are missing.
Missing(cursor) == cursor # 0 /\ cursor + 1 < oldest
From(cursor) == IF cursor + 1 < oldest THEN oldest ELSE cursor + 1
Upto(cursor) ==
  {last \in 0 .. written : last < From(cursor) + Limit /\ last + 1 >= From(cursor)
                           /\ (last >= From(cursor) \/ last = written)}
Batches(cursor) ==
  {[records |-> [i \in 1 .. last - From(cursor) + 1 |-> From(cursor) + i - 1],
    cursor |-> last, gap |-> Missing(cursor)] : last \in Upto(cursor)}

\* The cursor of the batch is the next read's.
CursorMoves(r, batch) == [r EXCEPT !.cursor = batch.cursor]

\* batch: the records' host instances are the receipt's.
FromSources(r, batch) == batch.records = <<>> \/ r.receipt.generations = "own"

\* read_inner, after the answer: the receipt may have expired meanwhile.
ReadEnds ==
  /\ request # None /\ request.stage = "read"
  /\ \/ request' = Task("refused", None)
     \/ Missing(request.reader.cursor) /\ request' = Task("gap", None)
     \/ \E batch \in Batches(request.reader.cursor) :
          request' = IF Valid(request.reader) /\ FromSources(request.reader, batch)
                     THEN [stage |-> "ok", reader |-> CursorMoves(request.reader, batch),
                           records |-> batch.records, gap |-> batch.gap]
                     ELSE Task("refused", None)
  /\ UNCHANGED <<authenticated, open, reader, lines, status, expires, now, hostVars, history>>
-----------------------------------------------------------------------------
\* The view.

\* close, and what its callers set afterwards.
Closed(opened, task) ==
  /\ request' = task /\ reader' = None /\ lines' = <<>> /\ expires' = 0 /\ open' = opened

Refuse(told) == Closed(TRUE, None) /\ status' = told

Open ==
  /\ ~open
  /\ Closed(TRUE, Task("bind", None)) /\ status' = "reading" /\ denied' = FALSE
  /\ UNCHANGED <<authenticated, now, hostVars, shown, admitted>>

\* Escape, l, or the end of the program.
Close ==
  /\ open /\ Closed(FALSE, None)
  /\ UNCHANGED <<authenticated, status, now, hostVars, history>>

Expired == expires # 0 /\ ~(expires > now)

\* tick, every quarter of a second while the view is open.
Tick ==
  /\ open
  /\ \/ Expired /\ Refuse("refused") /\ denied' = TRUE
     \/ /\ ~Expired /\ request = None /\ reader # None
        /\ request' = Task("start", reader) /\ reader' = None
        /\ UNCHANGED <<open, lines, status, expires, denied>>
  /\ UNCHANGED <<authenticated, now, hostVars, shown, admitted>>

LinesOf(record) ==
  IF record \in Tall THEN <<[record |-> record, line |-> 1], [record |-> record, line |-> 2]>>
                     ELSE <<[record |-> record, line |-> 1]>>
GapLine == [record |-> 0, line |-> 1]

\* Mutant: a gap is not marked.
BatchWithoutMark(task) == FlattenSeq([i \in DOMAIN task.records |-> LinesOf(task.records[i])])

BatchLines(task) ==
  (IF task.gap THEN <<GapLine>> ELSE <<>>)
  \o FlattenSeq([i \in DOMAIN task.records |-> LinesOf(task.records[i])])

Newest(all) == IF Len(all) > MaxLines THEN SubSeq(all, Len(all) - MaxLines + 1, Len(all)) ELSE all

\* Mutant: a refused read is tried again.
FailedRetries(told) ==
  /\ request' = None /\ reader' = [receipt |-> admitted, expires |-> expires, cursor |-> 0]
  /\ status' = told /\ UNCHANGED <<open, lines, expires>>

\* The other arms of complete.
Failed(told) == Refuse(told)

Complete ==
  /\ request # None /\ request.stage \in {"ok", "gap", "refused"}
  /\ \/ /\ request.stage = "ok" /\ Valid(request.reader)
        /\ expires' = request.reader.expires /\ reader' = request.reader /\ request' = None
        /\ status' = "logs" /\ lines' = Newest(lines \o BatchLines(request))
        /\ admitted' = request.reader.receipt
        /\ UNCHANGED <<open, denied>>
     \/ /\ request.stage = "gap"
        /\ Failed("gap") /\ denied' = TRUE /\ UNCHANGED admitted
     \/ /\ request.stage # "gap" /\ ~(request.stage = "ok" /\ Valid(request.reader))
        /\ Failed("refused") /\ denied' = TRUE /\ UNCHANGED admitted
  /\ UNCHANGED <<authenticated, now, hostVars, shown>>

\* Mutant: drawing does not look at the receipt.
DrawExpiredNever == FALSE

DrawExpired == Expired

\* draw, of a view that is open.
Draw ==
  /\ open
  /\ \/ /\ DrawExpired /\ Refuse("refused") /\ denied' = TRUE
        /\ shown' = [lines |-> <<>>, at |-> now]
     \/ /\ ~DrawExpired /\ shown' = [lines |-> lines, at |-> now]
        /\ UNCHANGED <<open, request, reader, lines, status, expires, denied>>
  /\ UNCHANGED <<authenticated, now, hostVars, admitted>>

\* Another view, or the task, is drawn.
DrawOther ==
  /\ ~open /\ shown' = Blank
  /\ UNCHANGED <<viewVars, now, hostVars, admitted, denied>>
-----------------------------------------------------------------------------
\* The host and the clock.

Write ==
  /\ written < Records /\ written' = written + 1
  /\ oldest' \in {oldest, written'}
  /\ UNCHANGED <<viewVars, now, history>>

Clock ==
  /\ now < Time /\ now' = now + 1
  /\ UNCHANGED <<viewVars, hostVars, history>>

Next ==
  \/ BindEnds \/ ReadStarts \/ ReadEnds
  \/ Open \/ Close \/ Tick \/ Complete \/ Draw \/ DrawOther
  \/ Write \/ Clock

Spec == Init /\ [][Next]_vars
-----------------------------------------------------------------------------
\* Properties.

Line == [record : 0 .. Records, line : {1, 2}]
Readers == [receipt : Receipts, expires : 0 .. Time + 1, cursor : 0 .. Records]

\* The view keeps so many lines; a reader is the view's or its task's.
HostLogsTypeOK ==
  /\ lines \in Seq(Line) /\ Len(lines) <= MaxLines
  /\ reader \in Readers \cup {None} /\ (reader # None => request = None /\ open)
  /\ request # None => /\ open
                       /\ request.reader \in Readers \cup {None}
                       /\ request.stage \in {"bind", "start", "read", "ok", "gap", "refused"}
  /\ status \in {"none", "reading", "logs", "refused", "gap"}
  /\ expires \in 0 .. Time + 1

\* The lines follow one another as they do in the host's log, over every
\* read: none is shown twice, and where records are missing there is the mark
\* of a gap (read_inner's cursor, complete).
Follows(a, b) ==
  \/ b.record = a.record /\ a.record # 0 /\ b.line = a.line + 1
  \/ /\ b.record = a.record + 1 /\ a.record # 0 /\ b.line = 1
     /\ a.line = IF a.record \in Tall THEN 2 ELSE 1
  \/ b = GapLine \/ a = GapLine
LinesAreTheLog ==
  /\ \A i \in 1 .. Len(lines) - 1 : Follows(lines[i], lines[i + 1])
  /\ \A i, j \in DOMAIN lines :
       i < j /\ lines[i] # GapLine /\ lines[j] # GapLine =>
         \/ lines[i].record < lines[j].record
         \/ lines[i].record = lines[j].record /\ lines[i].line < lines[j].line

\* No frame shows lines of a receipt that has expired, is another host's or
\* does not admit a terminal, nor lines of another source (complete, draw).
FramesAreAdmitted ==
  shown.lines # <<>> =>
    /\ authenticated
    /\ shown.at < admitted.expires
    /\ admitted.mode # "web" /\ admitted.endpoint = "own"
    /\ (admitted.generations = "own" \/ \A i \in DOMAIN shown.lines : shown.lines[i] = GapLine)

\* After a refusal, a gap the host does not bridge or the end of the receipt,
\* the lines are gone and nothing is read until the user opens the view again.
RefusalEndsReading ==
  denied => lines = <<>> /\ request = None /\ reader = None

\* What is on display was admitted, and a refusal is the end of it.
LogsAreAdmitted == HostLogsTypeOK /\ FramesAreAdmitted /\ RefusalEndsReading
=============================================================================
