----------------------------- MODULE TaskStream -----------------------------
(***************************************************************************)
(* The decoder of a task's event stream, native/tuig/src/task_stream.rs,   *)
(* with the validation of correlation.rs, on connections that break.       *)
(*                                                                         *)
(* A byte is a line terminator or the text of one line: the decoder does   *)
(* nothing with the inside of a line before its end.  Cursor 0 is both no  *)
(* cursor and the empty one, which ask for the log from its start.  The    *)
(* server and the reader, who keeps the cursors and reconnects, are        *)
(* outside the repository.                                                 *)
(***************************************************************************)
EXTENDS Naturals, Sequences

CONSTANTS Last,       \* the log holds the events 1..Last
          MaxEvent,   \* MAX_EVENT_BYTES, in bytes of this model
          Faults      \* how often server and network misbehave

ASSUME BoundsAssumption == Last \in Nat \ {0} /\ MaxEvent \in Nat /\ Faults \in Nat

VARIABLES
  dec,       \* TaskStreamDecoder
  result,    \* what the last feed or finish returned
  seen,      \* the reader has accepted every event up to this one
  resume,    \* the cursor of the last accepted event that has one
  at,        \* the last event accepted of this connection
  wire,      \* the server's side of the connection
  faults     \* misbehaviour left

vars == <<dec, result, seen, resume, at, wire, faults>>

-----------------------------------------------------------------------------
\* What lines carry.  An event comes whole, or in two data lines.

\* TaskCorrelation::validate: the bound task, no conflicting alias, the run
\* unless it is omitted, and a status or a text artifact.
Validates(body) ==
  /\ body.task = "own" /\ body.context = "own"
  /\ body.run \in {"own", "none"}
  /\ body.alias \in {"own", "none"}
  /\ body.content = "good"

Honest(k) ==
  [task |-> "own", alias |-> "none", context |-> "own", run |-> "own",
   content |-> "good", of |-> k]

Strange ==
  {[Honest(0) EXCEPT !.task = "foreign"], [Honest(0) EXCEPT !.alias = "foreign"],
   [Honest(0) EXCEPT !.context = "foreign"], [Honest(0) EXCEPT !.run = "foreign"],
   [Honest(0) EXCEPT !.content = "bad"]}

\* A JSON-RPC envelope, or the first or second line of one.
Envelope(part, id, error, bodies) ==
  [part |-> part, id |-> id, error |-> error, bodies |-> bodies]
Result(part, k) == Envelope(part, "request", FALSE, {Honest(k)})

Junk ==
  {Envelope("torn", "request", FALSE, {}), Envelope("whole", "other", FALSE, {}),
   Envelope("whole", "request", FALSE, {})}
  \cup {Envelope("whole", "request", TRUE, bodies) : bodies \in {{}, {Honest(0)}}}
  \cup {Envelope("whole", "request", FALSE, {body}) : body \in Strange}

Text(field, value) == [kind |-> "text", field |-> field, value |-> value, bom |-> FALSE]
CR == [kind |-> "cr"]
LF == [kind |-> "lf"]

\* Lines that are ignored, and lines that are refused.
Ignored == {Text("other", 0)}
Refused == {Text("bytes", 0), Text("nul", 0), Text("long", 0)}

\* The data lines joined: an envelope, if the parser takes the text.
Parsed(data) ==
  IF Len(data) = 1 /\ data[1].part = "whole" THEN {data[1]}
  ELSE {e \in {[data[1] EXCEPT !.part = "whole"]} :
          Len(data) = 2 /\ data = <<[e EXCEPT !.part = "first"], [e EXCEPT !.part = "second"]>>}

\* validate_event: the error of an event, or none.
Verdict(data) ==
  IF Parsed(data) = {} THEN "InvalidEnvelope"
  ELSE LET envelope == CHOOSE e \in Parsed(data) : TRUE IN
    CASE envelope.id # "request"                              -> "InvalidEnvelope"
      [] envelope.id = "request" /\ envelope.error            ->
           IF envelope.bodies = {} THEN "Refused" ELSE "InvalidEnvelope"
      [] envelope.id = "request" /\ ~envelope.error /\ envelope.bodies = {} -> "InvalidEnvelope"
      [] OTHER -> IF \A body \in envelope.bodies : Validates(body)
                  THEN "event" ELSE "Correlation"

EventOf(data) == (CHOOSE body \in data[1].bodies : TRUE).of
-----------------------------------------------------------------------------
\* The decoder.

NoLine == [kind |-> "none"]

\* TaskStreamDecoder::new
Fresh ==
  [line |-> NoLine, data |-> <<>>, hasData |-> FALSE, pending |-> {}, cursor |-> 0,
   bytes |-> 0, afterCr |-> FALSE, firstLine |-> TRUE, stopped |-> FALSE]

Accepts(event, cursor) ==
  /\ at' = event
  /\ seen' = IF event > seen THEN event ELSE seen
  /\ resume' = IF cursor = 0 THEN resume ELSE cursor

Nothing == UNCHANGED <<seen, resume, at>>

Goes(d) == dec' = d /\ result' = "ok"

\* feed's error path.
Fails(d, error) ==
  /\ dec' = [d EXCEPT !.stopped = TRUE, !.line = NoLine, !.data = <<>>, !.pending = {}]
  /\ result' = error /\ Nothing

\* Mutant: the size of an event is never reset.
NextEventKeepsSize(d) == [d EXCEPT !.data = <<>>, !.hasData = FALSE]

NextEvent(d) == [d EXCEPT !.data = <<>>, !.hasData = FALSE, !.bytes = 0]

\* end_line at an empty line: the event, if there is one.
Dispatch(d) ==
  \/ ~d.hasData /\ Goes(NextEvent(d)) /\ Nothing
  \/ /\ d.hasData /\ Verdict(d.data) = "event"
     /\ LET cursor == IF d.pending = {} THEN d.cursor ELSE CHOOSE c \in d.pending : TRUE
        IN /\ Goes([NextEvent(d) EXCEPT !.cursor = cursor])
           /\ Accepts(EventOf(d.data), cursor)
  \/ d.hasData /\ Verdict(d.data) # "event" /\ Fails(d, Verdict(d.data))

\* Mutant: the cursor moves with the id line, before the event is there.
IdAtOnce(d, line) ==
  /\ Goes([d EXCEPT !.pending = {line.value}, !.cursor = line.value])
  /\ resume' = line.value /\ UNCHANGED <<seen, at>>

Id(d, line) == Goes([d EXCEPT !.pending = {line.value}]) /\ Nothing

\* Mutant: the byte order mark is not removed.
FieldWithMark(d) == IF d.line.bom THEN "other" ELSE d.line.field

\* The field of the line, after the byte order mark of the first one.
Field(d) == IF d.line.bom /\ ~d.firstLine THEN "other" ELSE d.line.field

\* end_line
EndLine(d) ==
  LET next == [d EXCEPT !.firstLine = FALSE, !.line = NoLine] IN
  \/ d.line = NoLine /\ Dispatch(next)
  \/ /\ d.line # NoLine
     /\ CASE Field(d) = "bytes" -> Fails(next, "InvalidUtf8")
          [] Field(d) = "nul"   -> Fails(next, "InvalidCursor")
          [] Field(d) = "id"    -> Id(next, d.line)
          [] Field(d) = "data"  -> /\ Goes([next EXCEPT !.data = Append(@, d.line.value),
                                                        !.hasData = TRUE])
                                   /\ Nothing
          [] OTHER              -> Goes(next) /\ Nothing

\* byte, one of a chunk that feed was given.
Feed(byte) ==
  LET d == [dec EXCEPT !.bytes = @ + 1, !.afterCr = byte.kind = "cr"] IN
  /\ ~dec.stopped
  /\ \/ d.bytes > MaxEvent /\ Fails(d, "Limit")
     \/ d.bytes <= MaxEvent /\ dec.afterCr /\ byte = LF /\ Goes(d) /\ Nothing
     \/ d.bytes <= MaxEvent /\ byte \in {CR, LF} /\ ~(dec.afterCr /\ byte = LF) /\ EndLine(d)
     \/ /\ d.bytes <= MaxEvent /\ byte \notin {CR, LF}
        /\ IF byte.field = "long" THEN Fails(d, "Limit")
                                  ELSE Goes([d EXCEPT !.line = byte]) /\ Nothing

\* Mutant: the end of the stream completes the event.
FinishDispatches ==
  /\ ~dec.stopped
  /\ IF dec.hasData /\ Verdict(dec.data) = "event"
     THEN Dispatch([dec EXCEPT !.stopped = TRUE])
     ELSE dec' = [dec EXCEPT !.stopped = TRUE] /\ result' = "ok" /\ Nothing

\* finish
Finish ==
  /\ ~dec.stopped
  /\ dec' = [dec EXCEPT !.stopped = TRUE]
  /\ result' = IF dec.line # NoLine \/ dec.hasData THEN "Truncated" ELSE "ok"
  /\ Nothing
-----------------------------------------------------------------------------
\* The server: identifier, if its events have one, data, empty line, with line
\* ends of one of three kinds.

Connection(from) ==
  [next : {from + 1}, part : {"id"}, open : {FALSE}, owed : {<<>>}, first : {TRUE},
   ends : {<<LF>>, <<CR>>, <<CR, LF>>}, ids : BOOLEAN]

Sends(text, part) ==
  /\ ~wire.open /\ wire.owed = <<>>
  /\ \E mark \in {FALSE, wire.first} : Feed([text EXCEPT !.bom = mark])
  /\ wire' = [wire EXCEPT !.open = TRUE, !.part = part, !.first = FALSE]

\* The first byte of a line end; a second one is owed.
WireEndsLine(w) ==
  /\ Feed(wire.ends[1])
  /\ wire' = [w EXCEPT !.open = FALSE, !.owed = Tail(wire.ends)]

Serve ==
  /\ ~dec.stopped
  /\ wire.next <= Last \/ wire.open \/ wire.owed # <<>>
  /\ \/ wire.part = "id" /\ wire.ids /\ Sends(Text("id", wire.next), "data")
     \/ /\ wire.part = "data" \/ (wire.part = "id" /\ ~wire.ids)
        /\ \/ Sends(Text("data", Result("whole", wire.next)), "end")
           \/ Sends(Text("data", Result("first", wire.next)), "second")
     \/ wire.part = "second" /\ Sends(Text("data", Result("second", wire.next)), "end")
     \/ wire.open /\ WireEndsLine(wire)
     \/ wire.owed # <<>> /\ Feed(wire.owed[1]) /\ wire' = [wire EXCEPT !.owed = <<>>]
     \/ /\ wire.part = "end" /\ ~wire.open /\ wire.owed = <<>>
        /\ WireEndsLine([wire EXCEPT !.part = "id", !.next = @ + 1, !.first = FALSE])
  /\ UNCHANGED faults

\* Lines that do not belong there, an empty line before the data, the
\* identifier of the event before.
Misbehave ==
  /\ faults > 0 /\ faults' = faults - 1 /\ ~dec.stopped
  /\ \/ \E text \in Ignored \cup Refused : Sends(text, wire.part)
     \/ \E junk \in Junk : Sends(Text("data", junk), wire.part)
     \/ wire.part = "id" /\ wire.ids /\ Sends(Text("id", wire.next - 1), "id")
     \/ /\ wire.part \in {"id", "data"} /\ ~wire.open /\ wire.owed = <<>>
        /\ WireEndsLine([wire EXCEPT !.first = FALSE])

\* Bytes that arrive after an error, in a later chunk.
FeedStopped ==
  /\ dec.stopped /\ result' = "Stopped"
  /\ UNCHANGED <<dec, seen, resume, at, wire, faults>>

\* The connection is closed, by the server or, anywhere, by the network.
Closed ==
  /\ Finish
  /\ \/ wire.part = "id" /\ wire.next > Last /\ ~wire.open /\ UNCHANGED faults
     \/ faults > 0 /\ faults' = faults - 1
  /\ UNCHANGED wire

\* The reader, who has not got everything, connects again.
Reconnect ==
  /\ dec.stopped /\ at < Last
  /\ dec' = Fresh /\ result' = "ok" /\ at' = resume
  /\ wire' \in {w \in Connection(resume) : w.ids = wire.ids}
  /\ UNCHANGED <<seen, resume, faults>>

Init ==
  /\ dec = Fresh /\ result = "ok"
  /\ seen = 0 /\ resume = 0 /\ at = 0
  /\ wire \in Connection(0) /\ faults = Faults

Next == Serve \/ Misbehave \/ FeedStopped \/ Closed \/ Reconnect

Spec == Init /\ [][Next]_vars

\* A server with nothing to send closes; the reader connects again.
LiveSpec == Spec /\ WF_vars(Serve) /\ WF_vars(Closed) /\ WF_vars(Reconnect)
-----------------------------------------------------------------------------
\* Properties.

\* The decoder keeps a line, at most an event, and a size within its limit.
TypeOK ==
  /\ dec.bytes \in 0 .. MaxEvent + 1 /\ dec.cursor \in 0 .. Last
  /\ 2 * Len(dec.data) <= dec.bytes
  /\ dec.pending \subseteq 0 .. Last
  /\ dec.hasData \in BOOLEAN /\ dec.afterCr \in BOOLEAN
  /\ dec.firstLine \in BOOLEAN /\ dec.stopped \in BOOLEAN
  /\ result \in {"ok", "Limit", "InvalidUtf8", "InvalidEnvelope", "Refused",
                 "Correlation", "InvalidCursor", "Truncated", "Stopped"}

\* Whatever a broken or misbehaving stream carries, the reader gets the
\* events in order, a new connection at the last accepted cursor leaves none
\* out, and a cursor is only handed on with an event (validate_event).
Promise == INSTANCE ResumableStream
ImplementsStream == Promise!StreamSpec

\* A stream that ends without an error has not cut an event: no data line,
\* nor a part of a line, was received that no event accounts for (finish).
CutsAreTold ==
  dec.stopped /\ result = "ok" => wire.part \in {"id", "data"} /\ ~wire.open /\ at = wire.next - 1

\* What holds of a decoder at every byte.
DecoderInvariant == TypeOK /\ CutsAreTold

\* When the stream has stopped misbehaving, every event of the log arrives:
\* long streams do not run into the limit of one event, and without cursors
\* the log is read from its start (end_line).
EverythingArrives == <>(seen = Last)
=============================================================================
