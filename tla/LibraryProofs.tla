----------------------------- MODULE LibraryProofs -----------------------------
(***************************************************************************)
(* Theorems about the parts of the library that the program itself does    *)
(* not use: the decoder of a task's stream (TaskStream), for logs of any   *)
(* length, any limit of an event and any number of faults, the decisions   *)
(* of a coding session (CodingApproval), for every set of requests,        *)
(* contents and actors, and what is read before one (ApprovalPreview), for *)
(* every set of texts.                                                     *)
(***************************************************************************)
EXTENDS TaskStream, CodingApproval, ApprovalPreview, SequenceTheorems, FiniteSetTheorems,
        WellFoundedInduction, TLAPS

(***************************************************************************)
(* The decoder.  While it runs, what it holds of an event is what the      *)
(* server has sent of it, or contains a line that spoils it, so that no    *)
(* event is accepted but the next one.                                     *)
(***************************************************************************)

USE BoundsAssumption

Envelopes == Junk \cup {Result(part, k) : part \in {"whole", "first", "second"}, k \in 1 .. Last}

LineTexts ==
  [kind : {"text"}, field : {"id", "other", "bytes", "nul"}, value : 0 .. Last, bom : BOOLEAN]
  \cup [kind : {"text"}, field : {"data"}, value : Envelopes, bom : BOOLEAN]

Decoders ==
  [line : LineTexts \cup {NoLine}, data : Seq(Envelopes), hasData : BOOLEAN,
   pending : SUBSET (0 .. Last), cursor : 0 .. Last, bytes : 0 .. MaxEvent + 1,
   afterCr : BOOLEAN, firstLine : BOOLEAN, stopped : BOOLEAN]

Wires ==
  [next : 1 .. Last + 1, part : {"id", "data", "second", "end"}, open : BOOLEAN,
   owed : {<<>>, <<LF>>}, first : BOOLEAN, ends : {<<LF>>, <<CR>>, <<CR, LF>>}, ids : BOOLEAN]

Shapes ==
  /\ dec \in Decoders /\ wire \in Wires
  /\ seen \in 0 .. Last /\ resume \in 0 .. Last /\ at \in 0 .. Last /\ faults \in Nat
  /\ result \in {"ok", "Limit", "InvalidUtf8", "InvalidEnvelope", "Refused",
                 "Correlation", "InvalidCursor", "Truncated", "Stopped"}

\* A line is being received.
HasLine(d) == d.line # NoLine

\* The data lines of the event, with the one that is being received.
Held(d) == IF HasLine(d) /\ d.line.field = "data" THEN Append(d.data, d.line.value) ELSE d.data

\* The identifier that the event will have.
Named(d) == IF HasLine(d) /\ d.line.field = "id" THEN {d.line.value} ELSE d.pending

\* Decoder and server are in the same line, of the event after the last one.
InStep(d, w) ==
  /\ w.part # "id" => w.next <= Last
  /\ w.open = HasLine(d)
  /\ w.open => ~w.first
  /\ w.owed # <<>> => d.afterCr
  /\ w.ends = <<LF>> => ~d.afterCr
  /\ w.first => d.firstLine
  /\ HasLine(d) /\ d.line.bom => d.firstLine
  /\ d.hasData = (d.data # <<>>)

\* The bytes of an event pay for its lines.
Counted(d) == d.bytes <= MaxEvent /\ 2 * Len(d.data) + (IF HasLine(d) THEN 1 ELSE 0) <= d.bytes

Spoiled(data) == \E i \in DOMAIN data : data[i] \in Junk

\* The lines the server has sent of an event.
Sent(w) ==
  CASE w.part \in {"id", "data"} -> {<<>>}
    [] w.part = "second" -> {<<Result("first", w.next)>>}
    [] w.part = "end" -> {<<Result("whole", w.next)>>,
                          <<Result("first", w.next), Result("second", w.next)>>}

Assembled(d, w) == Spoiled(Held(d)) \/ Held(d) \in Sent(w)

Identified(d, w) ==
  IF w.ids THEN IF w.part = "id" THEN Named(d) \subseteq {w.next - 1} ELSE Named(d) = {w.next}
           ELSE Named(d) = {} /\ d.cursor = 0

Running ==
  /\ at = wire.next - 1 /\ resume <= at
  /\ InStep(dec, wire) /\ Counted(dec) /\ Assembled(dec, wire) /\ Identified(dec, wire)

StreamInv ==
  /\ Shapes /\ 2 * Len(dec.data) <= dec.bytes /\ CutsAreTold
  /\ ~dec.stopped => Running
-----------------------------------------------------------------------------
\* What the lines of an event parse to.

LEMMA OneBody == \A body : (CHOOSE b \in {body} : TRUE) = body
  BY Zenon

\* An envelope, bad ones included, is the record of its four fields.
LEMMA EnvelopesAreRecords ==
  ASSUME NEW e \in Envelopes
  PROVE  e = [part |-> e.part, id |-> e.id, error |-> e.error, bodies |-> e.bodies]
<1>1. \A part, id, error, bodies :
        e = Envelope(part, id, error, bodies) =>
          e = [part |-> e.part, id |-> e.id, error |-> e.error, bodies |-> e.bodies]
  BY DEF Envelope
<1>2. CASE e \in Junk
  BY <1>1, <1>2 DEF Junk
<1>3. CASE \E part \in {"whole", "first", "second"}, k \in 1 .. Last : e = Result(part, k)
  BY <1>1, <1>3 DEF Result
<1> QED
  BY <1>2, <1>3 DEF Envelopes

\* A data line that is not the server's keeps an event from being accepted.
LEMMA SpoiledIsRefused ==
  ASSUME NEW data \in Seq(Envelopes), Spoiled(data)
  PROVE  Verdict(data) # "event"
<1>1. PICK i \in DOMAIN data : data[i] \in Junk
  BY DEF Spoiled
<1>2. data[i].part \in {"whole", "torn"}
  BY <1>1 DEF Junk, Envelope
<1>3. CASE Len(data) # 1
  <2>1. Parsed(data) = {}
    <3> SUFFICES ASSUME NEW e \in Parsed(data) PROVE FALSE
      OBVIOUS
    <3>1. /\ e = [data[1] EXCEPT !.part = "whole"]
          /\ data = <<[e EXCEPT !.part = "first"], [e EXCEPT !.part = "second"]>>
      BY <1>3 DEF Parsed
    <3>2. i \in {1, 2}
      BY <3>1
    <3>3. data[1] \in Envelopes
      BY <3>2, <1>3
    <3>4. \A part : [e EXCEPT !.part = part].part = part
      BY <3>1, <3>3, EnvelopesAreRecords
    <3>5. data[1] = [e EXCEPT !.part = "first"] /\ data[2] = [e EXCEPT !.part = "second"]
      BY <3>1
    <3>6. data[1].part = "first" /\ data[2].part = "second"
      BY <3>4, <3>5
    <3> QED
      BY <1>2, <3>2, <3>6
  <2> QED
    BY <2>1 DEF Verdict
<1>4. CASE Len(data) = 1
  <2>1. i = 1
    BY <1>4
  <2>2. CASE data[1].part # "whole"
    <3>1. Parsed(data) = {}
      BY <1>4, <2>2 DEF Parsed
    <3> QED
      BY <3>1 DEF Verdict
  <2>3. CASE data[1].part = "whole"
    <3>1. Parsed(data) = {data[1]}
      BY <1>4, <2>3 DEF Parsed
    <3>2. (CHOOSE e \in Parsed(data) : TRUE) = data[1]
      BY <3>1, OneBody
    <3>3. data[1].id # "request" \/ data[1].error \/ data[1].bodies = {}
            \/ \E body \in Strange : data[1].bodies = {body}
      BY <1>1, <2>1, <2>3 DEF Junk, Envelope
    <3>4. \A body \in Strange : ~Validates(body)
      BY DEF Strange, Honest, Validates
    <3> QED
      BY <3>1, <3>2, <3>3, <3>4 DEF Verdict
  <2> QED
    BY <2>2, <2>3
<1> QED
  BY <1>3, <1>4

\* An event of the server, whole or in two lines, is accepted as that event.
LEMMA SentIsAccepted ==
  ASSUME NEW k \in 1 .. Last, NEW data,
         data \in {<<Result("whole", k)>>, <<Result("first", k), Result("second", k)>>}
  PROVE  EventOf(data) = k
<1>1. data[1].bodies = {Honest(k)}
  BY DEF Result, Envelope
<1>2. (CHOOSE body \in data[1].bodies : TRUE) = Honest(k)
  BY <1>1, OneBody
<1>3. EventOf(data) = Honest(k).of
  BY <1>2 DEF EventOf
<1> QED
  BY <1>3 DEF Honest
-----------------------------------------------------------------------------
\* What a byte does to the decoder.

Errors == {"Limit", "InvalidUtf8", "InvalidEnvelope", "Refused", "Correlation", "InvalidCursor"}

\* The decoder has stopped with an error.
Stops ==
  /\ dec' \in Decoders /\ dec'.stopped /\ dec'.data = <<>>
  /\ result' \in Errors
  /\ UNCHANGED <<seen, resume, at>>

\* A failure of the decoder stops it and clears what it held.
LEMMA FailureStops ==
  ASSUME NEW d \in Decoders, NEW error \in Errors, Fails(d, error)
  PROVE  Stops
<1>1. <<>> \in Seq(Envelopes) /\ {} \in SUBSET (0 .. Last) /\ NoLine \in LineTexts \cup {NoLine}
  OBVIOUS
<1>2. dec' = [d EXCEPT !.stopped = TRUE, !.line = NoLine, !.data = <<>>, !.pending = {}]
  BY DEF Fails
<1>3. dec' \in Decoders /\ dec'.stopped /\ dec'.data = <<>>
  BY <1>1, <1>2 DEF Decoders
<1> QED
  BY <1>3 DEF Fails, Nothing, Stops

\* A stopped decoder has nothing left that the invariant is about.
LEMMA StopsKeeps ==
  ASSUME StreamInv, Stops, wire' \in Wires, faults' \in Nat
  PROVE  StreamInv'
<1>1. Shapes' /\ dec'.bytes \in Nat /\ Len(dec'.data) = 0
  BY DEF StreamInv, Shapes, Stops, Errors, Decoders
<1>2. CutsAreTold'
  BY DEF Stops, Errors, CutsAreTold
<1> QED
  BY <1>1, <1>2 DEF Stops, StreamInv

\* The decoder has taken a byte and goes on.
Counts(d, byte) == [d EXCEPT !.bytes = @ + 1, !.afterCr = byte.kind = "cr"]

\* Counting one more byte keeps the decoder's type.
LEMMA CountsKeepsShape ==
  ASSUME NEW byte, Shapes, dec.bytes <= MaxEvent
  PROVE  Counts(dec, byte) \in Decoders
<1>1. PICK cr \in BOOLEAN : cr = (byte.kind = "cr")
  BY Zenon
<1>2. dec \in Decoders /\ dec.bytes + 1 \in 0 .. MaxEvent + 1
  BY DEF Shapes, Decoders
<1>3. [dec EXCEPT !.bytes = dec.bytes + 1, !.afterCr = cr] \in Decoders
  BY <1>2 DEF Decoders
<1>4. Counts(dec, byte) = [dec EXCEPT !.bytes = dec.bytes + 1, !.afterCr = cr]
  BY <1>1 DEF Counts
<1> QED
  BY <1>3, <1>4

\* The text of a line.
LEMMA TextIsTaken ==
  ASSUME StreamInv, ~dec.stopped, NEW text, Feed(text),
         text.kind = "text", text.field = "long" \/ text \in LineTexts
  PROVE  \/ Stops
         \/ /\ text \in LineTexts /\ dec.bytes + 1 <= MaxEvent
            /\ dec' = [Counts(dec, text) EXCEPT !.line = text]
            /\ result' = "ok" /\ UNCHANGED <<seen, resume, at>>
<1> DEFINE d == Counts(dec, text)
<1>1. d \in Decoders /\ d.bytes = dec.bytes + 1
  BY CountsKeepsShape DEF StreamInv, Running, Counted, Counts, Shapes, Decoders
<1>2. text \notin {CR, LF}
  BY DEF CR, LF
<1>3. CASE Fails(d, "Limit")
  BY <1>1, <1>3, FailureStops DEF Errors
<1>4. CASE text.field # "long" /\ d.bytes <= MaxEvent /\ Goes([d EXCEPT !.line = text]) /\ Nothing
  BY <1>1, <1>4 DEF Goes, Nothing
<1> QED
  BY <1>2, <1>3, <1>4 DEF Feed, Counts

\* The field of a line is what it says: only the first line can have a mark.
LEMMA FieldIsTrue ==
  ASSUME NEW d, NEW w, InStep(d, w), HasLine(d)
  PROVE  Field(d) = d.line.field
  BY DEF Field, InStep

\* The end of a line that has text.
LEMMA LineIsTaken ==
  ASSUME StreamInv, ~dec.stopped, HasLine(dec), NEW byte \in {CR, LF}, Feed(byte),
         ~(dec.afterCr /\ byte = LF)
  PROVE  \/ Stops
         \/ /\ dec.bytes + 1 <= MaxEvent
            /\ dec' = [Counts(dec, byte) EXCEPT
                         !.firstLine = FALSE, !.line = NoLine, !.data = Held(dec),
                         !.hasData = (@ \/ dec.line.field = "data"), !.pending = Named(dec)]
            /\ result' = "ok" /\ UNCHANGED <<seen, resume, at>>
<1> DEFINE d == Counts(dec, byte)
           next == [d EXCEPT !.firstLine = FALSE, !.line = NoLine]
<1>1. d \in Decoders /\ d.bytes = dec.bytes + 1 /\ next \in Decoders
  <2>1. d \in Decoders
    BY CountsKeepsShape DEF StreamInv, Running, Counted
  <2>2. d.bytes = dec.bytes + 1
    BY DEF Counts, StreamInv, Shapes, Decoders
  <2>3. next \in Decoders
    BY <2>1 DEF Decoders
  <2> QED
    BY <2>1, <2>2, <2>3
<1>2. Field(d) = dec.line.field /\ dec.line \in LineTexts /\ d.line = dec.line
  <2>1. dec \in Decoders
    BY DEF StreamInv, Shapes
  <2>2. Field(dec) = dec.line.field
    BY FieldIsTrue DEF StreamInv, Running
  <2>3. d.line = dec.line /\ d.firstLine = dec.firstLine
    BY <2>1 DEF Counts, Decoders
  <2> QED
    BY <2>1, <2>2, <2>3 DEF HasLine, Field, Decoders
<1>3. CASE Fails(d, "Limit")
  BY <1>1, <1>3, FailureStops DEF Errors
<1>4. CASE d.bytes <= MaxEvent /\ EndLine(d)
  <2>1. CASE dec.line.field \in {"bytes", "nul"}
    <3>1. Fails(next, "InvalidUtf8") \/ Fails(next, "InvalidCursor")
      BY <1>2, <1>4, <2>1 DEF EndLine, HasLine
    <3> QED
      BY <1>1, <3>1, FailureStops DEF Errors
  <2>2. CASE dec.line.field = "id"
    <3>1. Goes([next EXCEPT !.pending = {dec.line.value}]) /\ Nothing
      BY <1>2, <1>4, <2>2 DEF EndLine, HasLine, Id
    <3>2. /\ Held(dec) = next.data /\ Named(dec) = {dec.line.value}
          /\ next.hasData = (dec.hasData \/ dec.line.field = "data")
      BY <2>2 DEF Held, Named, Counts, StreamInv, Shapes, Decoders
    <3> QED
      BY <1>1, <1>4, <3>1, <3>2 DEF Goes, Nothing, Decoders
  <2>3. CASE dec.line.field = "data"
    <3>1. Goes([next EXCEPT !.data = Append(@, dec.line.value), !.hasData = TRUE]) /\ Nothing
      BY <1>2, <1>4, <2>3 DEF EndLine, HasLine
    <3>2. /\ Held(dec) = Append(next.data, dec.line.value) /\ Named(dec) = next.pending
          /\ (next.hasData \/ dec.line.field = "data") = TRUE
      BY <2>3 DEF Held, Named, Counts, StreamInv, Shapes, Decoders
    <3> QED
      BY <1>1, <1>4, <3>1, <3>2 DEF Goes, Nothing, Decoders
  <2>4. CASE dec.line.field = "other"
    <3>1. Goes(next) /\ Nothing
      BY <1>2, <1>4, <2>4 DEF EndLine, HasLine
    <3>2. /\ Held(dec) = next.data /\ Named(dec) = next.pending
          /\ next.hasData = (dec.hasData \/ dec.line.field = "data")
      BY <2>4 DEF Held, Named, Counts, StreamInv, Shapes, Decoders
    <3> QED
      BY <1>1, <1>4, <3>1, <3>2 DEF Goes, Nothing, Decoders
  <2> QED
    BY <1>2, <2>1, <2>2, <2>3, <2>4 DEF LineTexts
<1> QED
  BY <1>3, <1>4 DEF Feed, Counts

\* The cursor of the event that is dispatched.
CursorOf(d) == IF d.pending = {} THEN d.cursor ELSE CHOOSE c \in d.pending : TRUE

\* An empty line ends the event, if there is one.
Dispatched(byte) ==
  /\ dec' = [Counts(dec, byte) EXCEPT
               !.firstLine = FALSE, !.line = NoLine, !.data = <<>>, !.hasData = FALSE,
               !.bytes = 0, !.cursor = IF dec.hasData THEN CursorOf(dec) ELSE @]
  /\ result' = "ok"
  /\ IF dec.hasData THEN Verdict(dec.data) = "event" /\ Accepts(EventOf(dec.data), CursorOf(dec))
                    ELSE UNCHANGED <<seen, resume, at>>

\* An empty line stops the decoder or dispatches the event.
LEMMA EmptyLineIsTaken ==
  ASSUME StreamInv, ~dec.stopped, ~HasLine(dec), NEW byte \in {CR, LF}, Feed(byte),
         ~(dec.afterCr /\ byte = LF)
  PROVE  Stops \/ Dispatched(byte)
<1> DEFINE d == Counts(dec, byte)
           next == [d EXCEPT !.firstLine = FALSE, !.line = NoLine]
<1>1. d \in Decoders /\ next \in Decoders
  BY CountsKeepsShape DEF StreamInv, Running, Counted, Shapes, Decoders
<1>2. /\ d.line = NoLine /\ next.data = dec.data /\ next.hasData = dec.hasData
      /\ next.pending = dec.pending /\ next.cursor = dec.cursor
  BY DEF StreamInv, Shapes, HasLine, Counts, Decoders
<1>3. CASE Fails(d, "Limit")
  BY <1>1, <1>3, FailureStops DEF Errors
<1>4. CASE EndLine(d)
  <2>1. Dispatch(next)
    BY <1>2, <1>4 DEF EndLine
  <2>2. CASE ~dec.hasData /\ Goes(NextEvent(next)) /\ Nothing
    BY <1>1, <2>2 DEF Goes, Nothing, NextEvent, Dispatched, Decoders, Counts
  <2>3. CASE /\ dec.hasData /\ Verdict(dec.data) = "event"
             /\ Goes([NextEvent(next) EXCEPT !.cursor = CursorOf(dec)])
             /\ Accepts(EventOf(dec.data), CursorOf(dec))
    BY <1>1, <2>3 DEF Goes, NextEvent, Dispatched, Decoders, Counts
  <2>4. CASE Verdict(dec.data) # "event" /\ Fails(next, Verdict(dec.data))
    <3>1. Verdict(dec.data) \in Errors
      BY <2>4 DEF Verdict, Errors
    <3> QED
      BY <1>1, <2>4, <3>1, FailureStops
  <2> QED
    BY <1>2, <2>1, <2>2, <2>3, <2>4 DEF Dispatch, CursorOf
<1> QED
  BY <1>3, <1>4 DEF Feed, Counts
-----------------------------------------------------------------------------
\* What the server and the reader do to the invariant.

\* A decoder that goes on keeps the invariant, if what it holds is in step.
LEMMA GoingOnKeeps ==
  ASSUME dec' \in Decoders, wire' \in Wires, faults' \in Nat, ~dec'.stopped, result' = "ok",
         seen' \in 0 .. Last, resume' \in 0 .. Last, at' \in 0 .. Last, Running'
  PROVE  StreamInv'
<1>1. dec'.bytes \in Nat /\ Len(dec'.data) \in Nat /\ 2 * Len(dec'.data) <= dec'.bytes
  BY DEF Running, Counted, Decoders
<1>2. Shapes' /\ CutsAreTold'
  BY DEF Shapes, CutsAreTold
<1> QED
  BY <1>1, <1>2 DEF StreamInv

\* A line begins that the server may send there: its data continue the event
\* or spoil it, and its identifier is that of the event, or of the last one.
Continues(text, part) ==
  /\ part # "id" => wire.next <= Last
  /\ text.field = "data" =>
       text.value \in Junk
         \/ \A held \in Sent(wire) : Append(held, text.value) \in Sent([wire EXCEPT !.part = part])
  /\ text.field # "data" => Sent([wire EXCEPT !.part = part]) = Sent(wire)
  /\ text.field = "id" =>
       wire.ids /\ text.value = IF part = "id" THEN wire.next - 1 ELSE wire.next
  /\ text.field # "id" /\ wire.ids => (part = "id") = (wire.part = "id")

\* A text of the server, or a bad one in its place, keeps the invariant.
LEMMA SendKeeps ==
  ASSUME StreamInv, ~dec.stopped, NEW text, text \in LineTexts \/ text = Text("long", 0),
         NEW part \in {"id", "data", "second", "end"}, Sends(text, part), Continues(text, part),
         faults' \in Nat
  PROVE  StreamInv' /\ UNCHANGED <<seen, resume, at>>
<1>1. PICK mark \in {FALSE, wire.first} : Feed([text EXCEPT !.bom = mark])
  BY DEF Sends
<1> DEFINE t == [text EXCEPT !.bom = mark]
<1>2. /\ ~wire.open /\ wire.owed = <<>> /\ wire \in Wires /\ dec \in Decoders /\ ~HasLine(dec)
      /\ wire' = [wire EXCEPT !.open = TRUE, !.part = part, !.first = FALSE]
  BY DEF Sends, StreamInv, Shapes, Running, InStep
<1>3. wire' \in Wires
  BY <1>2 DEF Wires
<1>4. /\ t.kind = "text" /\ t.field = text.field /\ t.value = text.value /\ t.bom = mark
      /\ (text.field = "long" \/ t \in LineTexts)
  <2>1. mark \in BOOLEAN
    BY <1>2 DEF Wires
  <2> QED
    BY <2>1 DEF LineTexts, Text
<1>5. CASE Stops
  BY <1>3, <1>5, StopsKeeps DEF Stops
<1>6. CASE /\ t \in LineTexts /\ dec.bytes + 1 <= MaxEvent
           /\ dec' = [Counts(dec, t) EXCEPT !.line = t]
           /\ result' = "ok" /\ UNCHANGED <<seen, resume, at>>
  <2>1. Counts(dec, t) \in Decoders
    BY CountsKeepsShape DEF StreamInv, Running, Counted
  <2>2. dec' \in Decoders
    BY <1>6, <2>1 DEF Decoders
  <2>3. /\ dec'.line = t /\ dec'.data = dec.data /\ dec'.pending = dec.pending
        /\ dec'.bytes = dec.bytes + 1 /\ dec'.afterCr = FALSE /\ dec'.firstLine = dec.firstLine
        /\ dec'.hasData = dec.hasData /\ dec'.stopped = FALSE /\ dec'.cursor = dec.cursor
    BY <1>2, <1>4, <1>6, <2>1 DEF Decoders, Counts
  <2>4. HasLine(dec')
    BY <1>4, <2>3 DEF HasLine, NoLine
  <2>5. /\ wire'.next = wire.next /\ wire'.ids = wire.ids /\ wire'.part = part
        /\ wire'.ends = wire.ends /\ wire'.owed = <<>> /\ wire'.open = TRUE /\ wire'.first = FALSE
    BY <1>2 DEF Wires
  <2>6. InStep(dec', wire')
    BY <1>4, <2>3, <2>4, <2>5 DEF InStep, StreamInv, Running, Continues
  <2>7. Counted(dec')
    <3>1. dec.bytes \in Nat /\ Len(dec.data) \in Nat /\ 2 * Len(dec.data) <= dec.bytes
      BY DEF StreamInv, Shapes, Decoders
    <3> QED
      BY <1>6, <2>3, <2>4, <3>1 DEF Counted
  <2>8. Held(dec) = dec.data /\ Named(dec) = dec.pending
    BY <1>2 DEF Held, Named
  <2>9. Sent(wire') = Sent([wire EXCEPT !.part = part])
    BY <1>2, <2>5 DEF Sent, Wires
  <2>10. Assembled(dec', wire')
    <3>1. CASE text.field # "data"
      <4>1. Held(dec') = Held(dec)
        BY <1>4, <2>3, <2>8, <3>1 DEF Held
      <4> QED
        BY <2>9, <3>1, <4>1 DEF Assembled, Continues, StreamInv, Running
    <3>2. CASE text.field = "data"
      <4>1. Held(dec') = Append(Held(dec), text.value)
        BY <1>4, <2>3, <2>4, <2>8, <3>2 DEF Held
      <4>2. /\ Held(dec) \in Seq(Envelopes)
            /\ DOMAIN Held(dec') = DOMAIN Held(dec) \cup {Len(Held(dec)) + 1}
            /\ Held(dec')[Len(Held(dec)) + 1] = text.value
            /\ \A i \in DOMAIN Held(dec) : Held(dec')[i] = Held(dec)[i]
        BY <1>2, <2>8, <4>1 DEF Decoders
      <4>3. Spoiled(Held(dec)) \/ text.value \in Junk => Spoiled(Held(dec'))
        BY <4>2 DEF Spoiled
      <4> QED
        BY <2>9, <3>2, <4>1, <4>3 DEF Assembled, Continues, StreamInv, Running
    <3> QED
      BY <3>1, <3>2
  <2>11. Identified(dec', wire')
    <3>1. CASE text.field # "id"
      <4>1. Named(dec') = Named(dec)
        BY <1>4, <2>3, <2>8, <3>1 DEF Named
      <4> QED
        BY <2>3, <2>5, <3>1, <4>1 DEF Identified, Continues, StreamInv, Running
    <3>2. CASE text.field = "id"
      <4>1. Named(dec') = {text.value}
        BY <1>4, <2>3, <2>4, <3>2 DEF Named
      <4> QED
        BY <2>5, <3>2, <4>1 DEF Identified, Continues
    <3> QED
      BY <3>1, <3>2
  <2>12. Running'
    BY <1>6, <2>5, <2>6, <2>7, <2>10, <2>11 DEF Running, StreamInv
  <2> QED
    BY <1>3, <1>6, <2>2, <2>3, <2>12, GoingOnKeeps DEF StreamInv, Shapes
<1> QED
  BY <1>1, <1>4, <1>5, <1>6, TextIsTaken

\* The terminators of lines, and that they are not taken for half of another.
LEMMA LineEndsAreTaken ==
  ASSUME StreamInv, ~dec.stopped
  PROVE  /\ wire.ends[1] \in {CR, LF} /\ ~(dec.afterCr /\ wire.ends[1] = LF)
         /\ Tail(wire.ends) \in {<<>>, <<LF>>}
         /\ Tail(wire.ends) # <<>> => wire.ends[1].kind = "cr"
         /\ wire.ends = <<LF>> => wire.ends[1].kind # "cr"
<1>1. wire.ends \in {<<LF>>, <<CR>>, <<CR, LF>>} /\ (wire.ends = <<LF>> => ~dec.afterCr)
  BY DEF StreamInv, Shapes, Running, InStep, Wires
<1>2. CASE wire.ends = <<LF>>
  BY <1>1, <1>2 DEF CR, LF
<1>3. CASE wire.ends = <<CR>>
  BY <1>3 DEF CR, LF
<1>4. CASE wire.ends = <<CR, LF>>
  BY <1>4 DEF CR, LF
<1> QED
  BY <1>1, <1>2, <1>3, <1>4

\* The end of a line keeps the invariant: its field is added to the event.
LEMMA LineEndKeeps ==
  ASSUME StreamInv, ~dec.stopped, wire.open, WireEndsLine(wire), faults' \in Nat
  PROVE  StreamInv' /\ UNCHANGED <<seen, resume, at>>
<1> DEFINE byte == wire.ends[1]
<1>1. /\ wire \in Wires /\ dec \in Decoders /\ HasLine(dec)
      /\ wire' = [wire EXCEPT !.open = FALSE, !.owed = Tail(wire.ends)]
      /\ Feed(byte) /\ byte \in {CR, LF} /\ ~(dec.afterCr /\ byte = LF)
  BY LineEndsAreTaken DEF WireEndsLine, StreamInv, Shapes, Running, InStep
<1>2. wire' \in Wires
  BY <1>1, LineEndsAreTaken DEF Wires
<1>3. CASE Stops
  BY <1>2, <1>3, StopsKeeps DEF Stops
<1>4. CASE /\ dec.bytes + 1 <= MaxEvent
           /\ dec' = [Counts(dec, byte) EXCEPT
                        !.firstLine = FALSE, !.line = NoLine, !.data = Held(dec),
                        !.hasData = (@ \/ dec.line.field = "data"), !.pending = Named(dec)]
           /\ result' = "ok" /\ UNCHANGED <<seen, resume, at>>
  <2>1. Counts(dec, byte) \in Decoders
    BY CountsKeepsShape DEF StreamInv, Running, Counted
  <2>2. dec.line \in LineTexts
    BY <1>1 DEF HasLine, Decoders
  <2>3. Held(dec) \in Seq(Envelopes) /\ Len(Held(dec)) <= Len(dec.data) + 1
    BY <1>1, <2>2 DEF Held, LineTexts, Decoders
  <2>4. Named(dec) \in SUBSET (0 .. Last)
    BY <1>1, <2>2 DEF Named, LineTexts, Decoders
  <2>5. PICK data \in BOOLEAN : data = (dec.hasData \/ dec.line.field = "data")
    BY Zenon
  <2>6. dec' = [Counts(dec, byte) EXCEPT !.firstLine = FALSE, !.line = NoLine, !.data = Held(dec),
                                         !.hasData = data, !.pending = Named(dec)]
    BY <1>1, <1>4, <2>5 DEF Counts, Decoders
  <2>7. dec' \in Decoders
    BY <2>1, <2>3, <2>4, <2>6 DEF Decoders
  <2>8. /\ dec'.line = NoLine /\ dec'.data = Held(dec) /\ dec'.pending = Named(dec)
        /\ dec'.bytes = dec.bytes + 1 /\ dec'.firstLine = FALSE /\ dec'.hasData = data
        /\ dec'.stopped = FALSE /\ dec'.cursor = dec.cursor
        /\ dec'.afterCr = (byte.kind = "cr")
    BY <1>1, <2>1, <2>6 DEF Decoders, Counts
  <2>9. ~HasLine(dec') /\ Held(dec') = Held(dec) /\ Named(dec') = Named(dec)
    BY <2>8 DEF HasLine, Held, Named
  <2>10. /\ wire'.next = wire.next /\ wire'.ids = wire.ids /\ wire'.part = wire.part
         /\ wire'.ends = wire.ends /\ wire'.owed = Tail(wire.ends) /\ wire'.open = FALSE
         /\ wire'.first = wire.first
    BY <1>1 DEF Wires
  <2>11. data = (Held(dec) # <<>>)
    <3>1. dec.hasData = (dec.data # <<>>)
      BY DEF StreamInv, Running, InStep
    <3>2. CASE dec.line.field = "data"
      BY <1>1, <2>2, <2>5, <3>2 DEF Held, LineTexts, Decoders
    <3>3. CASE dec.line.field # "data"
      BY <2>5, <3>1, <3>3 DEF Held
    <3> QED
      BY <3>2, <3>3
  <2>12. InStep(dec', wire')
    <3>1. ~wire.first
      BY DEF StreamInv, Running, InStep
    <3>2. /\ wire'.owed # <<>> => dec'.afterCr
          /\ wire'.ends = <<LF>> => ~dec'.afterCr
      BY <2>8, <2>10, LineEndsAreTaken
    <3>3. wire'.part # "id" => wire'.next <= Last
      BY <2>10 DEF InStep, StreamInv, Running
    <3>4. wire'.open = HasLine(dec')
      BY <2>8, <2>10 DEF HasLine
    <3>5. dec'.hasData = (dec'.data # <<>>)
      BY <2>8, <2>11, Zenon
    <3> QED
      BY <2>9, <2>10, <3>1, <3>2, <3>3, <3>4, <3>5 DEF InStep
  <2>13. Counted(dec')
    <3>1. /\ dec.bytes \in Nat /\ Len(dec.data) \in Nat /\ Len(Held(dec)) \in Nat
          /\ 2 * Len(dec.data) + 1 <= dec.bytes
      BY <1>1, <2>3 DEF StreamInv, Running, Counted, Decoders
    <3>2. CASE dec.line.field = "data"
      BY <1>4, <2>3, <2>8, <2>9, <3>1, <3>2 DEF Counted
    <3> QED
      BY <1>4, <2>3, <2>8, <2>9, <3>1 DEF Counted
  <2>14. Sent(wire') = Sent(wire)
    BY <2>10 DEF Sent
  <2>15. Assembled(dec', wire') /\ Identified(dec', wire')
    BY <2>8, <2>9, <2>10, <2>14 DEF Assembled, Identified, StreamInv, Running
  <2>16. Running'
    BY <1>4, <2>10, <2>12, <2>13, <2>15 DEF Running, StreamInv
  <2> QED
    BY <1>2, <1>4, <2>7, <2>8, <2>16, GoingOnKeeps DEF StreamInv, Shapes
<1> QED
  BY <1>1, <1>3, <1>4, LineIsTaken

\* What is left of an event after it was dispatched.
LEMMA DispatchedClears ==
  ASSUME StreamInv, ~dec.stopped, NEW byte, Dispatched(byte), NEW c \in 0 .. Last,
         c = IF dec.hasData THEN CursorOf(dec) ELSE dec.cursor
  PROVE  /\ dec' \in Decoders /\ dec'.stopped = FALSE /\ dec'.line = NoLine /\ dec'.data = <<>>
         /\ dec'.hasData = FALSE /\ dec'.bytes = 0 /\ dec'.firstLine = FALSE
         /\ dec'.pending = dec.pending /\ dec'.cursor = c /\ dec'.afterCr = (byte.kind = "cr")
<1>1. Counts(dec, byte) \in Decoders /\ dec \in Decoders
  BY CountsKeepsShape DEF StreamInv, Running, Counted, Shapes
<1>2. dec' = [Counts(dec, byte) EXCEPT !.firstLine = FALSE, !.line = NoLine, !.data = <<>>,
                                       !.hasData = FALSE, !.bytes = 0, !.cursor = c]
  BY <1>1 DEF Dispatched, Counts, Decoders
<1>3. <<>> \in Seq(Envelopes) /\ 0 \in 0 .. MaxEvent + 1 /\ NoLine \in LineTexts \cup {NoLine}
  OBVIOUS
<1>4. dec' \in Decoders
  BY <1>1, <1>2, <1>3 DEF Decoders
<1> QED
  BY <1>1, <1>2, <1>4 DEF Counts, Decoders

\* The empty line after the data of an event is accepted as that event, the
\* next one, with its identifier.
LEMMA EventKeeps ==
  ASSUME StreamInv, ~dec.stopped, wire.part = "end", ~wire.open,
         WireEndsLine([wire EXCEPT !.part = "id", !.next = @ + 1, !.first = FALSE]),
         faults' \in Nat
  PROVE  StreamInv' /\ [Promise!StreamNext]_<<seen, at, resume>>
<1> DEFINE byte == wire.ends[1]
<1>1. /\ wire \in Wires /\ dec \in Decoders /\ ~HasLine(dec) /\ wire.next <= Last
      /\ wire' = [wire EXCEPT !.part = "id", !.next = @ + 1, !.first = FALSE,
                              !.open = FALSE, !.owed = Tail(wire.ends)]
      /\ Feed(byte) /\ byte \in {CR, LF} /\ ~(dec.afterCr /\ byte = LF)
  BY LineEndsAreTaken DEF WireEndsLine, StreamInv, Shapes, Running, InStep
<1>2. wire' \in Wires
  <2>1. wire.next + 1 \in 1 .. Last + 1
    BY <1>1 DEF Wires
  <2>2. wire' = [wire EXCEPT !.part = "id", !.next = wire.next + 1, !.first = FALSE,
                             !.open = FALSE, !.owed = Tail(wire.ends)]
    BY <1>1
  <2> QED
    BY <1>1, <2>1, <2>2, LineEndsAreTaken DEF Wires
<1>3. CASE Stops
  BY <1>2, <1>3, StopsKeeps DEF Stops
<1>4. CASE Dispatched(byte)
  <2>1. Held(dec) = dec.data /\ Named(dec) = dec.pending
    BY <1>1 DEF Held, Named
  <2>2. Spoiled(dec.data) \/ dec.data \in {<<Result("whole", wire.next)>>,
                                           <<Result("first", wire.next),
                                             Result("second", wire.next)>>}
    BY <2>1 DEF StreamInv, Running, Assembled, Sent
  <2>3. dec.hasData
    <3>1. \A a, b : <<a>> # <<>> /\ <<a, b>> # <<>>
      OBVIOUS
    <3>2. ~Spoiled(<<>>)
      BY DEF Spoiled
    <3>3. dec.data # <<>>
      BY <2>2, <3>1, <3>2
    <3> QED
      BY <3>3 DEF StreamInv, Running, InStep
  <2>4. Verdict(dec.data) = "event" /\ Accepts(EventOf(dec.data), CursorOf(dec))
    BY <1>4, <2>3 DEF Dispatched
  <2>5. EventOf(dec.data) = wire.next
    <3>1. ~Spoiled(dec.data) /\ wire.next \in 1 .. Last
      BY <1>1, <2>4, SpoiledIsRefused DEF Decoders, Wires
    <3> QED
      BY <2>2, <3>1, SentIsAccepted
  <2>6. IF wire.ids THEN CursorOf(dec) = wire.next ELSE CursorOf(dec) = 0
    <3>1. IF wire.ids THEN dec.pending = {wire.next} ELSE dec.pending = {} /\ dec.cursor = 0
      BY <2>1 DEF StreamInv, Running, Identified
    <3> QED
      BY <3>1, OneBody DEF CursorOf
  <2>7. wire.next \in 1 .. Last /\ at = wire.next - 1 /\ resume \in 0 .. at /\ seen \in 0 .. Last
    BY <1>1 DEF StreamInv, Shapes, Running, Wires
  <2>8. /\ at' = wire.next /\ at' = at + 1 /\ at < Last
        /\ seen' = IF at' > seen THEN at' ELSE seen
        /\ resume' = IF CursorOf(dec) = 0 THEN resume ELSE CursorOf(dec)
    BY <2>4, <2>5, <2>7 DEF Accepts
  <2>9. /\ resume' \in resume .. at'
        /\ seen' \in 0 .. Last /\ at' \in 0 .. Last /\ resume' \in 0 .. Last
    BY <2>6, <2>7, <2>8
  <2>10. CursorOf(dec) \in 0 .. Last
    BY <2>6, <2>7
  <2>11. /\ dec' \in Decoders /\ dec'.stopped = FALSE /\ dec'.line = NoLine /\ dec'.data = <<>>
         /\ dec'.hasData = FALSE /\ dec'.bytes = 0 /\ dec'.firstLine = FALSE
         /\ dec'.pending = dec.pending /\ dec'.cursor = CursorOf(dec)
         /\ dec'.afterCr = (byte.kind = "cr")
    BY <1>4, <2>3, <2>10, DispatchedClears
  <2>12. /\ wire'.next = wire.next + 1 /\ wire'.ids = wire.ids /\ wire'.part = "id"
         /\ wire'.ends = wire.ends /\ wire'.owed = Tail(wire.ends) /\ wire'.open = FALSE
         /\ wire'.first = FALSE
    BY <1>1 DEF Wires
  <2>13. ~HasLine(dec') /\ Held(dec') = <<>> /\ Named(dec') = dec.pending
    BY <2>11 DEF HasLine, Held, Named
  <2>14. InStep(dec', wire')
    <3>1. /\ wire'.owed # <<>> => dec'.afterCr
          /\ wire'.ends = <<LF>> => ~dec'.afterCr
      BY <2>11, <2>12, LineEndsAreTaken
    <3>2. wire'.open = HasLine(dec')
      BY <2>11, <2>12 DEF HasLine
    <3>3. dec'.hasData = (dec'.data # <<>>)
      BY <2>11
    <3> QED
      BY <2>11, <2>12, <2>13, <3>1, <3>2, <3>3 DEF InStep
  <2>15. Counted(dec') /\ Assembled(dec', wire')
    BY <2>11, <2>12, <2>13 DEF Counted, Assembled, Sent
  <2>16. Identified(dec', wire')
    <3>1. IF wire.ids THEN dec.pending = {wire.next} ELSE dec.pending = {}
      BY <2>1 DEF StreamInv, Running, Identified
    <3> QED
      BY <2>6, <2>7, <2>11, <2>12, <2>13, <3>1 DEF Identified
  <2>17. Running'
    <3>1. at' = wire.next
      BY <2>8, Zenon
    <3>2. wire.next \in Nat /\ at' = wire'.next - 1
      BY <2>7, <2>12, <3>1
    <3>3. resume' <= at'
      BY <2>7, <2>9, <3>1
    <3> QED
      BY <2>14, <2>15, <2>16, <3>2, <3>3 DEF Running
  <2>18. StreamInv'
    BY <1>2, <1>4, <2>9, <2>11, <2>17, GoingOnKeeps DEF Dispatched
  <2>19. Promise!StreamNext
    BY <2>8, <2>9 DEF Promise!StreamNext, Promise!Deliver
  <2> QED
    BY <2>18, <2>19
<1> QED
  BY <1>1, <1>3, <1>4, EmptyLineIsTaken DEF Stops

\* An empty line before the data of an event ends no event: there is none, or
\* it is refused.
LEMMA EarlyEmptyLineKeeps ==
  ASSUME StreamInv, ~dec.stopped, wire.part \in {"id", "data"}, ~wire.open,
         WireEndsLine([wire EXCEPT !.first = FALSE]), faults' \in Nat
  PROVE  StreamInv' /\ UNCHANGED <<seen, resume, at>>
<1> DEFINE byte == wire.ends[1]
<1>1. /\ wire \in Wires /\ dec \in Decoders /\ ~HasLine(dec)
      /\ wire' = [wire EXCEPT !.first = FALSE, !.open = FALSE, !.owed = Tail(wire.ends)]
      /\ Feed(byte) /\ byte \in {CR, LF} /\ ~(dec.afterCr /\ byte = LF)
  BY LineEndsAreTaken DEF WireEndsLine, StreamInv, Shapes, Running, InStep
<1>2. wire' \in Wires
  BY <1>1, LineEndsAreTaken DEF Wires
<1>3. CASE Stops
  BY <1>2, <1>3, StopsKeeps DEF Stops
<1>4. CASE Dispatched(byte)
  <2>1. Held(dec) = dec.data /\ Named(dec) = dec.pending
    BY <1>1 DEF Held, Named
  <2>2. Spoiled(dec.data) \/ dec.data = <<>>
    BY <2>1 DEF StreamInv, Running, Assembled, Sent
  <2>3. ~dec.hasData
    <3>1. Spoiled(dec.data) => Verdict(dec.data) # "event"
      BY <1>1, SpoiledIsRefused DEF Decoders
    <3> QED
      BY <1>4, <2>2, <3>1 DEF Dispatched, StreamInv, Running, InStep
  <2>4. dec.cursor \in 0 .. Last
    BY <1>1 DEF Decoders
  <2>5. /\ dec' \in Decoders /\ dec'.stopped = FALSE /\ dec'.line = NoLine /\ dec'.data = <<>>
        /\ dec'.hasData = FALSE /\ dec'.bytes = 0 /\ dec'.firstLine = FALSE
        /\ dec'.pending = dec.pending /\ dec'.cursor = dec.cursor
        /\ dec'.afterCr = (byte.kind = "cr")
    BY <1>4, <2>3, <2>4, DispatchedClears
  <2>6. /\ wire'.next = wire.next /\ wire'.ids = wire.ids /\ wire'.part = wire.part
        /\ wire'.ends = wire.ends /\ wire'.owed = Tail(wire.ends) /\ wire'.open = FALSE
        /\ wire'.first = FALSE
    BY <1>1 DEF Wires
  <2>7. ~HasLine(dec') /\ Held(dec') = <<>> /\ Named(dec') = dec.pending
    BY <2>5 DEF HasLine, Held, Named
  <2>8. InStep(dec', wire')
    <3>1. /\ wire'.owed # <<>> => dec'.afterCr
          /\ wire'.ends = <<LF>> => ~dec'.afterCr
      BY <2>5, <2>6, LineEndsAreTaken
    <3>2. wire'.part # "id" => wire'.next <= Last
      BY <2>6 DEF InStep, StreamInv, Running
    <3>3. wire'.open = HasLine(dec')
      BY <2>5, <2>6 DEF HasLine
    <3>4. dec'.hasData = (dec'.data # <<>>)
      BY <2>5
    <3> QED
      BY <2>5, <2>6, <2>7, <3>1, <3>2, <3>3, <3>4 DEF InStep
  <2>9. Counted(dec') /\ Assembled(dec', wire')
    BY <2>5, <2>6, <2>7 DEF Counted, Assembled, Sent
  <2>10. Identified(dec', wire')
    BY <2>1, <2>5, <2>6, <2>7 DEF Identified, StreamInv, Running
  <2>11. UNCHANGED <<seen, resume, at>> /\ result' = "ok"
    BY <1>4, <2>3 DEF Dispatched
  <2>12. Running'
    BY <2>6, <2>8, <2>9, <2>10, <2>11 DEF Running, StreamInv
  <2> QED
    BY <1>2, <2>5, <2>11, <2>12, GoingOnKeeps DEF StreamInv, Shapes
<1> QED
  BY <1>1, <1>3, <1>4, EmptyLineIsTaken DEF Stops

\* The second byte of a terminator belongs to the first.
LEMMA OwedKeeps ==
  ASSUME StreamInv, ~dec.stopped, wire.owed # <<>>, Feed(wire.owed[1]),
         wire' = [wire EXCEPT !.owed = <<>>], faults' \in Nat
  PROVE  StreamInv' /\ UNCHANGED <<seen, resume, at>>
<1>1. wire \in Wires /\ dec \in Decoders /\ dec.afterCr /\ wire.owed[1] = LF /\ wire' \in Wires
  BY DEF StreamInv, Shapes, Running, InStep, Wires
<1> DEFINE d == Counts(dec, LF)
<1>2. d \in Decoders
  BY CountsKeepsShape DEF StreamInv, Running, Counted
<1>3. CASE Fails(d, "Limit")
  BY <1>1, <1>2, <1>3, FailureStops, StopsKeeps DEF Errors, Stops
<1>4. CASE d.bytes <= MaxEvent /\ dec' = d /\ result' = "ok" /\ UNCHANGED <<seen, resume, at>>
  <2>1. /\ dec'.line = dec.line /\ dec'.data = dec.data /\ dec'.pending = dec.pending
        /\ dec'.bytes = dec.bytes + 1 /\ dec'.firstLine = dec.firstLine
        /\ dec'.hasData = dec.hasData /\ dec'.stopped = FALSE /\ dec'.cursor = dec.cursor
        /\ dec'.afterCr = FALSE
    BY <1>1, <1>4 DEF Counts, Decoders, LF
  <2>2. HasLine(dec') = HasLine(dec) /\ Held(dec') = Held(dec) /\ Named(dec') = Named(dec)
    BY <2>1 DEF HasLine, Held, Named
  <2>3. /\ wire'.next = wire.next /\ wire'.ids = wire.ids /\ wire'.part = wire.part
        /\ wire'.ends = wire.ends /\ wire'.owed = <<>> /\ wire'.open = wire.open
        /\ wire'.first = wire.first
    BY <1>1 DEF Wires
  <2>4. InStep(dec', wire')
    BY <2>1, <2>2, <2>3 DEF InStep, StreamInv, Running
  <2>5. Counted(dec')
    <3>1. dec.bytes \in Nat /\ Len(dec.data) \in Nat /\ dec.bytes + 1 <= MaxEvent
      BY <1>1, <1>4, <2>1 DEF Decoders
    <3>2. 2 * Len(dec.data) + (IF HasLine(dec) THEN 1 ELSE 0) <= dec.bytes
      BY DEF Counted, StreamInv, Running
    <3>3. CASE HasLine(dec)
      BY <2>1, <2>2, <3>1, <3>2, <3>3 DEF Counted
    <3>4. CASE ~HasLine(dec)
      BY <2>1, <2>2, <3>1, <3>2, <3>4 DEF Counted
    <3> QED
      BY <3>3, <3>4
  <2>6. Sent(wire') = Sent(wire)
    BY <2>3 DEF Sent
  <2>7. Assembled(dec', wire') /\ Identified(dec', wire')
    BY <2>1, <2>2, <2>3, <2>6 DEF Assembled, Identified, StreamInv, Running
  <2>8. Running'
    BY <1>4, <2>3, <2>4, <2>5, <2>7 DEF Running, StreamInv
  <2> QED
    BY <1>1, <1>2, <1>4, <2>1, <2>8, GoingOnKeeps DEF StreamInv, Shapes
<1>5. LF.kind # "cr" /\ CR # LF
  BY DEF CR, LF
<1> QED
  BY <1>1, <1>3, <1>4, <1>5 DEF Feed, Counts, Goes, Nothing
-----------------------------------------------------------------------------
\* The steps of the stream.

StreamSteps == [Promise!StreamNext]_<<seen, at, resume>>

\* Every text the server sends, and every bad one, is a text of a line.
LEMMA SentTexts ==
  /\ \A value \in 0 .. Last : Text("id", value) \in LineTexts
  /\ \A value \in Envelopes : Text("data", value) \in LineTexts
  /\ \A text \in Ignored \cup Refused :
       /\ text \in LineTexts \/ text = Text("long", 0)
       /\ text.field \notin {"id", "data"}
  BY DEF Text, LineTexts, Ignored, Refused

\* What has been sent of an event depends on the wire's part only.
LEMMA SentIsOf ==
  ASSUME NEW w \in Wires, NEW part \in {"id", "data", "second", "end"}
  PROVE  Sent([w EXCEPT !.part = part]) =
           CASE part \in {"id", "data"} -> {<<>>}
             [] part = "second" -> {<<Result("first", w.next)>>}
             [] part = "end" -> {<<Result("whole", w.next)>>,
                                 <<Result("first", w.next), Result("second", w.next)>>}
<1>1. [w EXCEPT !.part = part].part = part /\ [w EXCEPT !.part = part].next = w.next
  BY DEF Wires
<1> QED
  BY <1>1 DEF Sent

\* A step of a server that sends its log keeps the invariant.
LEMMA ServeKeeps ==
  ASSUME StreamInv, Serve
  PROVE  StreamInv' /\ StreamSteps
<1>1. ~dec.stopped /\ faults' \in Nat /\ wire \in Wires
  BY DEF Serve, StreamInv, Shapes
<1>2. /\ wire.part # "id" => wire.next <= Last
      /\ wire.next <= Last \/ wire.open \/ wire.owed # <<>>
      /\ wire.next \in 1 .. Last + 1
  BY <1>1 DEF Serve, StreamInv, Running, InStep, Wires
<1>3. CASE wire.part = "id" /\ wire.ids /\ Sends(Text("id", wire.next), "data")
  <2>1. wire.next <= Last
    BY <1>2, <1>3 DEF Sends
  <2>2. Continues(Text("id", wire.next), "data")
    BY <1>1, <1>3, <2>1, SentIsOf DEF Continues, Text, Sent
  <2> QED
    BY <1>1, <1>2, <1>3, <2>1, <2>2, SendKeeps, SentTexts DEF StreamSteps
<1>4. CASE wire.part = "data" \/ (wire.part = "id" /\ ~wire.ids)
  <2>1. ASSUME Sends(Text("data", Result("whole", wire.next)), "end")
        PROVE  StreamInv' /\ StreamSteps
    <3>1. wire.next \in 1 .. Last
      BY <1>2, <2>1 DEF Sends
    <3>2. Append(<<>>, Result("whole", wire.next)) = <<Result("whole", wire.next)>>
      OBVIOUS
    <3>3. Sent(wire) = {<<>>}
      BY <1>4 DEF Sent
    <3>4. <<Result("whole", wire.next)>> \in Sent([wire EXCEPT !.part = "end"])
      BY <1>1, SentIsOf
    <3>5. Continues(Text("data", Result("whole", wire.next)), "end")
      BY <1>4, <3>1, <3>2, <3>3, <3>4 DEF Continues, Text
    <3>6. Result("whole", wire.next) \in Envelopes
      BY <3>1 DEF Envelopes
    <3> QED
      BY <1>1, <2>1, <3>5, <3>6, SendKeeps, SentTexts DEF StreamSteps
  <2>2. ASSUME Sends(Text("data", Result("first", wire.next)), "second")
        PROVE  StreamInv' /\ StreamSteps
    <3>1. wire.next \in 1 .. Last
      BY <1>2, <2>2 DEF Sends
    <3>2. Append(<<>>, Result("first", wire.next)) = <<Result("first", wire.next)>>
      OBVIOUS
    <3>3. Sent(wire) = {<<>>}
      BY <1>4 DEF Sent
    <3>4. <<Result("first", wire.next)>> \in Sent([wire EXCEPT !.part = "second"])
      BY <1>1, SentIsOf
    <3>5. Continues(Text("data", Result("first", wire.next)), "second")
      BY <1>4, <3>1, <3>2, <3>3, <3>4 DEF Continues, Text
    <3>6. Result("first", wire.next) \in Envelopes
      BY <3>1 DEF Envelopes
    <3> QED
      BY <1>1, <2>2, <3>5, <3>6, SendKeeps, SentTexts DEF StreamSteps
  <2>3. CASE wire.open /\ WireEndsLine(wire)
    BY <1>1, <2>3, LineEndKeeps DEF StreamSteps
  <2>4. CASE wire.owed # <<>> /\ Feed(wire.owed[1]) /\ wire' = [wire EXCEPT !.owed = <<>>]
    BY <1>1, <2>4, OwedKeeps DEF StreamSteps
  <2> QED
    BY <1>4, <2>1, <2>2, <2>3, <2>4 DEF Serve
<1>5. CASE wire.part = "second" /\ Sends(Text("data", Result("second", wire.next)), "end")
  <2>1. wire.next \in 1 .. Last
    BY <1>2, <1>5
  <2>2. Append(<<Result("first", wire.next)>>, Result("second", wire.next))
          = <<Result("first", wire.next), Result("second", wire.next)>>
    <3> DEFINE a == Result("first", wire.next)
               b == Result("second", wire.next)
    <3> HIDE DEF a, b
    <3>1. <<a>> \in Seq({a, b}) /\ Len(<<a>>) = 1 /\ <<a>>[1] = a
      OBVIOUS
    <3>2. /\ Append(<<a>>, b) \in Seq({a, b}) /\ Len(Append(<<a>>, b)) = 2
          /\ Append(<<a>>, b)[1] = a /\ Append(<<a>>, b)[2] = b
      BY <3>1
    <3>3. Append(<<a>>, b) = <<a, b>>
      <4>1. /\ <<a, b>> \in Seq({a, b}) /\ Len(<<a, b>>) = 2
            /\ <<a, b>>[1] = a /\ <<a, b>>[2] = b
        OBVIOUS
      <4>2. \A i \in 1 .. 2 : Append(<<a>>, b)[i] = <<a, b>>[i]
        BY <3>2, <4>1
      <4> QED
        BY <3>2, <4>1, <4>2, SeqEqual
    <3> QED
      BY <3>3 DEF a, b
  <2>3. Continues(Text("data", Result("second", wire.next)), "end")
    <3>1. Sent(wire) = {<<Result("first", wire.next)>>}
      BY <1>5 DEF Sent
    <3>2. <<Result("first", wire.next), Result("second", wire.next)>>
            \in Sent([wire EXCEPT !.part = "end"])
      BY <1>1, SentIsOf
    <3>3. \A held \in Sent(wire) :
            Append(held, Result("second", wire.next)) \in Sent([wire EXCEPT !.part = "end"])
      BY <2>2, <3>1, <3>2, Zenon
    <3> QED
      BY <1>5, <2>1, <3>3 DEF Continues, Text
  <2>4. Result("second", wire.next) \in Envelopes
    BY <2>1 DEF Envelopes
  <2> QED
    BY <1>1, <1>5, <2>3, <2>4, SendKeeps, SentTexts DEF StreamSteps
<1>6. CASE wire.open /\ WireEndsLine(wire)
  BY <1>1, <1>6, LineEndKeeps DEF StreamSteps
<1>7. CASE wire.owed # <<>> /\ Feed(wire.owed[1]) /\ wire' = [wire EXCEPT !.owed = <<>>]
  BY <1>1, <1>7, OwedKeeps DEF StreamSteps
<1>8. CASE /\ wire.part = "end" /\ ~wire.open /\ wire.owed = <<>>
           /\ WireEndsLine([wire EXCEPT !.part = "id", !.next = @ + 1, !.first = FALSE])
  BY <1>1, <1>8, EventKeeps DEF StreamSteps
<1> QED
  BY <1>3, <1>4, <1>5, <1>6, <1>7, <1>8 DEF Serve

\* A step of a server that breaks the protocol keeps the invariant.
LEMMA MisbehaveKeeps ==
  ASSUME StreamInv, Misbehave
  PROVE  StreamInv' /\ StreamSteps
<1>1. ~dec.stopped /\ faults' \in Nat /\ wire \in Wires
  BY DEF Misbehave, StreamInv, Shapes
<1>2. /\ wire.part # "id" => wire.next <= Last
      /\ wire.next \in 1 .. Last + 1 /\ wire.part \in {"id", "data", "second", "end"}
  BY <1>1 DEF StreamInv, Running, InStep, Wires
<1>3. Sent([wire EXCEPT !.part = wire.part]) = Sent(wire)
  BY <1>1, <1>2, SentIsOf DEF Sent
<1>4. ASSUME NEW text \in Ignored \cup Refused, Sends(text, wire.part)
      PROVE  StreamInv' /\ StreamSteps
  <2>1. Continues(text, wire.part)
    BY <1>2, <1>3, SentTexts DEF Continues
  <2> QED
    BY <1>1, <1>2, <1>4, <2>1, SendKeeps, SentTexts DEF StreamSteps
<1>5. ASSUME NEW junk \in Junk, Sends(Text("data", junk), wire.part)
      PROVE  StreamInv' /\ StreamSteps
  <2>1. Continues(Text("data", junk), wire.part)
    BY <1>2 DEF Continues, Text
  <2>2. junk \in Envelopes
    BY DEF Envelopes
  <2> QED
    BY <1>1, <1>2, <1>5, <2>1, <2>2, SendKeeps, SentTexts DEF StreamSteps
<1>6. CASE wire.part = "id" /\ wire.ids /\ Sends(Text("id", wire.next - 1), "id")
  <2>1. Continues(Text("id", wire.next - 1), "id")
    BY <1>3, <1>6 DEF Continues, Text
  <2>2. wire.next - 1 \in 0 .. Last
    BY <1>2
  <2> QED
    BY <1>1, <1>6, <2>1, <2>2, SendKeeps, SentTexts DEF StreamSteps
<1>7. CASE /\ wire.part \in {"id", "data"} /\ ~wire.open /\ wire.owed = <<>>
           /\ WireEndsLine([wire EXCEPT !.first = FALSE])
  BY <1>1, <1>7, EarlyEmptyLineKeeps DEF StreamSteps
<1> QED
  BY <1>4, <1>5, <1>6, <1>7 DEF Misbehave

\* A connection that ends tells whether it has cut an event.
LEMMA ClosedKeeps ==
  ASSUME StreamInv, Closed
  PROVE  StreamInv' /\ StreamSteps
<1>1. /\ ~dec.stopped /\ dec' = [dec EXCEPT !.stopped = TRUE] /\ dec \in Decoders
      /\ result' = IF dec.line # NoLine \/ dec.hasData THEN "Truncated" ELSE "ok"
      /\ UNCHANGED <<seen, resume, at, wire>>
  BY DEF Closed, Finish, Nothing, StreamInv, Shapes
<1>2. faults' \in Nat
  BY DEF Closed, StreamInv, Shapes
<1>3. dec' \in Decoders /\ dec'.stopped /\ dec'.data = dec.data /\ dec'.bytes = dec.bytes
  BY <1>1 DEF Decoders
<1>4. CutsAreTold'
  <2> SUFFICES ASSUME result' = "ok"
               PROVE  wire.part \in {"id", "data"} /\ ~wire.open /\ at = wire.next - 1
    BY <1>1 DEF CutsAreTold
  <2>1. ~HasLine(dec) /\ ~dec.hasData
    BY <1>1 DEF HasLine
  <2>2. dec.hasData = (dec.data # <<>>)
    BY <1>1 DEF StreamInv, Running, InStep
  <2>3. Held(dec) = <<>>
    BY <2>1, <2>2 DEF Held
  <2>4. ~Spoiled(<<>>)
    BY DEF Spoiled
  <2>5. <<>> \in Sent(wire)
    BY <1>1, <2>3, <2>4 DEF StreamInv, Running, Assembled
  <2>6. \A a, b : <<a>> # <<>> /\ <<a, b>> # <<>>
    OBVIOUS
  <2>7. wire.part \in {"id", "data"}
    BY <2>5, <2>6 DEF Sent, StreamInv, Shapes, Wires
  <2> QED
    BY <1>1, <2>1, <2>7 DEF StreamInv, Running, InStep
<1>5. Shapes'
  BY <1>1, <1>2, <1>3 DEF Shapes, StreamInv
<1> QED
  BY <1>1, <1>3, <1>4, <1>5 DEF StreamInv, StreamSteps

\* TaskStreamDecoder::new
FreshIsClear(d) ==
  /\ d \in Decoders /\ d.line = NoLine /\ d.data = <<>> /\ d.hasData = FALSE /\ d.pending = {}
  /\ d.cursor = 0 /\ d.bytes = 0 /\ d.afterCr = FALSE /\ d.firstLine = TRUE /\ d.stopped = FALSE

\* TaskStreamDecoder::new holds nothing.
LEMMA NewDecoders == FreshIsClear(Fresh)
<1>1. <<>> \in Seq(Envelopes) /\ {} \in SUBSET (0 .. Last) /\ NoLine \in LineTexts \cup {NoLine}
  OBVIOUS
<1> QED
  BY <1>1 DEF FreshIsClear, Fresh, Decoders

\* Decoder and server begin a connection together.
LEMMA ConnectionsBegin ==
  ASSUME NEW from \in 0 .. Last, NEW w \in Connection(from), NEW d, FreshIsClear(d)
  PROVE  /\ w \in Wires /\ w.next = from + 1
         /\ InStep(d, w) /\ Counted(d) /\ Assembled(d, w) /\ Identified(d, w)
<1>1. from + 1 \in 1 .. Last + 1 /\ "id" \in {"id", "data", "second", "end"}
  OBVIOUS
<1>2. w \in Wires
  BY <1>1 DEF Connection, Wires
<1>3. /\ w.next = from + 1 /\ w.part = "id" /\ w.open = FALSE /\ w.owed = <<>> /\ w.first = TRUE
  BY DEF Connection
<1>4. ~HasLine(d) /\ Held(d) = <<>> /\ Named(d) = {}
  BY DEF FreshIsClear, HasLine, Held, Named
<1>5. InStep(d, w)
  <2>1. w.open = HasLine(d)
    BY <1>3 DEF FreshIsClear, HasLine
  <2>2. d.hasData = (d.data # <<>>)
    BY DEF FreshIsClear
  <2> QED
    BY <1>3, <1>4, <2>1, <2>2 DEF InStep, FreshIsClear
<1>6. Counted(d)
  <2>1. d.bytes = 0 /\ Len(d.data) = 0
    BY DEF FreshIsClear
  <2> QED
    BY <1>4, <2>1 DEF Counted
<1>7. Assembled(d, w) /\ Identified(d, w)
  BY <1>3, <1>4 DEF Assembled, Sent, Identified, FreshIsClear
<1> QED
  BY <1>2, <1>3, <1>5, <1>6, <1>7

\* A new connection starts after the last event that has a cursor.
LEMMA ReconnectKeeps ==
  ASSUME StreamInv, Reconnect
  PROVE  StreamInv' /\ StreamSteps
<1>1. /\ dec' = Fresh /\ result' = "ok" /\ at' = resume
      /\ wire' \in Connection(resume) /\ UNCHANGED <<seen, resume, faults>>
      /\ seen \in 0 .. Last /\ resume \in 0 .. Last /\ faults \in Nat
  BY DEF Reconnect, StreamInv, Shapes
<1>2. /\ wire' \in Wires /\ wire'.next = resume + 1 /\ FreshIsClear(dec')
      /\ InStep(dec', wire') /\ Counted(dec')
      /\ Assembled(dec', wire') /\ Identified(dec', wire')
  BY <1>1, NewDecoders, ConnectionsBegin
<1>3. Running'
  BY <1>1, <1>2 DEF Running
<1>4. StreamInv'
  BY <1>1, <1>2, <1>3, GoingOnKeeps DEF FreshIsClear
<1> QED
  BY <1>1, <1>4 DEF StreamSteps, Promise!StreamNext, Promise!Reconnect

\* The first connection satisfies the invariant and starts the promised reading.
LEMMA StreamBegins == Init => StreamInv /\ Promise!StreamInit
<1> SUFFICES ASSUME Init PROVE StreamInv /\ Promise!StreamInit
  OBVIOUS
<1>1. /\ seen = 0 /\ resume = 0 /\ at = 0 /\ result = "ok" /\ faults \in Nat
      /\ wire \in Connection(0) /\ FreshIsClear(dec)
  BY NewDecoders DEF Init
<1>2. /\ wire \in Wires /\ wire.next = 0 + 1 /\ InStep(dec, wire) /\ Counted(dec)
      /\ Assembled(dec, wire) /\ Identified(dec, wire)
  <2>1. 0 \in 0 .. Last
    OBVIOUS
  <2> QED
    BY <1>1, <2>1, ConnectionsBegin
<1>3. Running
  BY <1>1, <1>2 DEF Running
<1>4. Shapes /\ CutsAreTold /\ 2 * Len(dec.data) <= dec.bytes
  BY <1>1, <1>2 DEF Shapes, CutsAreTold, FreshIsClear
<1> QED
  BY <1>1, <1>3, <1>4 DEF StreamInv, Promise!StreamInit

\* Every step keeps the invariant and is a step of the promised reading.
LEMMA StreamKeeps == StreamInv /\ [Next]_vars => StreamInv' /\ StreamSteps
<1> SUFFICES ASSUME StreamInv, [Next]_vars PROVE StreamInv' /\ StreamSteps
  OBVIOUS
<1>1. CASE Serve
  BY <1>1, ServeKeeps
<1>2. CASE Misbehave
  BY <1>2, MisbehaveKeeps
<1>3. CASE FeedStopped
  <2>1. dec.stopped /\ result' = "Stopped" /\ UNCHANGED <<dec, seen, resume, at, wire, faults>>
    BY <1>3 DEF FeedStopped
  <2> QED
    BY <2>1 DEF StreamInv, Shapes, CutsAreTold, StreamSteps
<1>4. CASE Closed
  BY <1>4, ClosedKeeps
<1>5. CASE Reconnect
  BY <1>5, ReconnectKeeps
<1>6. CASE UNCHANGED vars
  BY <1>6 DEF vars, StreamInv, Shapes, CutsAreTold, Running, StreamSteps
<1> QED
  BY <1>1, <1>2, <1>3, <1>4, <1>5, <1>6 DEF Next

\* The inductive invariant implies the one the run checks.
LEMMA DecoderIsKept == StreamInv => DecoderInvariant
  BY DEF StreamInv, Shapes, Decoders, DecoderInvariant, TypeOK

\* At every byte of every connection, the decoder keeps no more than an event
\* and tells of an event that was cut: feed, end_line and finish of
\* task_stream.rs.
THEOREM DecoderIsSound == Spec => []DecoderInvariant
  BY StreamBegins, StreamKeeps, DecoderIsKept, PTL DEF Spec

\* Whatever lines a stream carries and wherever it breaks, the decoder and a
\* reader that resumes at the last accepted cursor implement a resumable stream.
THEOREM StreamIsImplemented == Spec => ImplementsStream
<1>1. Init => Promise!StreamInit
  BY StreamBegins
<1>2. StreamInv /\ [Next]_vars => [Promise!StreamNext]_(Promise!streamVars)
  BY StreamKeeps DEF StreamSteps, Promise!streamVars
<1> QED
  BY <1>1, <1>2, StreamBegins, StreamKeeps, PTL DEF Spec, ImplementsStream, Promise!StreamSpec
-----------------------------------------------------------------------------
(***************************************************************************)
(* The decisions of a coding session.  AnswersAreSettled is inductive: it  *)
(* says of the pending request that it was admitted and is not answered,   *)
(* which the rest needs.                                                   *)
(***************************************************************************)

USE IdAssumption, NoneAssumption, NobodyAssumption

\* The session starts with nothing asked and nothing answered (new).
LEMMA InitSettled == DecisionInit => AnswersAreSettled
<1> SUFFICES ASSUME DecisionInit PROVE AnswersAreSettled
  OBVIOUS
<1>1. /\ records \in Seq(Records) /\ decided \in Seq(Requests)
      /\ DOMAIN records = {} /\ Len(decided) = Len(records)
  BY DEF DecisionInit
<1>2. DecisionTypeOK
  BY <1>1 DEF DecisionInit, DecisionTypeOK
<1>3. OneAnswer /\ DecidedIsAdmitted /\ PendingIsOpen
  BY <1>1 DEF DecisionInit, OneAnswer, DecidedIsAdmitted, PendingIsOpen
<1> QED BY <1>2, <1>3 DEF AnswersAreSettled

\* A request that receive takes is admitted, new and within the session's
\* capabilities; one that it refuses changes nothing.
LEMMA ReceiveKeeps ==
  ASSUME AnswersAreSettled, NEW request \in Requests, Receive(request)
  PROVE  AnswersAreSettled'
<1>1. CASE ReceiveError(request) = "ok"
  <2>1. /\ request.scope = "own" /\ request.id # NoId
        /\ Capability(request.content) \in Granted /\ ~Answered(request.id)
    BY <1>1 DEF ReceiveError
  <2>2. /\ pending' = request /\ admitted' = admitted \cup {request} /\ told' = "ok"
        /\ UNCHANGED <<connected, records, decided>>
    BY <1>1 DEF Receive
  <2>3. DecisionTypeOK'
    BY <2>2 DEF AnswersAreSettled, DecisionTypeOK
  <2>4. OneAnswer' /\ DecidedIsAdmitted'
    BY <2>2 DEF AnswersAreSettled, OneAnswer, DecidedIsAdmitted, Record, Capability
  <2>5. PendingIsOpen'
    BY <2>1, <2>2 DEF PendingIsOpen, Answered, Capability
  <2> QED BY <2>3, <2>4, <2>5 DEF AnswersAreSettled
<1>2. CASE ReceiveError(request) # "ok"
  <2>1. UNCHANGED <<connected, pending, records, admitted, decided>>
    BY <1>2 DEF Receive
  <2>2. told' \in {"ok", "GatewayUnavailable", "WrongSession", "InvalidMetadata",
                   "CapabilityNotGranted", "AlreadyAnswered", "RequestChanged",
                   "PendingRequestExists"}
    BY DEF Receive, ReceiveError
  <2> QED BY <2>1, <2>2 DEF AnswersAreSettled, DecisionTypeOK, OneAnswer, DecidedIsAdmitted,
                            PendingIsOpen, Record, Capability, Answered
<1> QED BY <1>1, <1>2

\* A decision that is taken answers the pending request, whose identifier no
\* record has; one that is refused changes nothing.
LEMMA DecideKeeps ==
  ASSUME AnswersAreSettled, NEW preview \in Requests, NEW choice \in Choices,
         NEW actor \in Actors \cup {Nobody}, Decide(preview, choice, actor)
  PROVE  AnswersAreSettled'
<1>1. CASE DecideError(preview, actor) = "ok"
  <2> DEFINE record == Record(preview, choice, actor)
  <2>1. pending = preview /\ pending # None /\ actor \in Actors
    BY <1>1 DEF DecideError
  <2>2. /\ records' = Append(records, record) /\ decided' = Append(decided, preview)
        /\ pending' = None /\ told' = "ok" /\ UNCHANGED <<connected, admitted>>
    BY <1>1 DEF Decide, Answer
  <2>3. /\ preview \in admitted /\ preview.scope = "own" /\ preview.id \in Ids
        /\ Capability(preview.content) \in Granted
        /\ \A i \in DOMAIN records : records[i].id # preview.id
    BY <2>1 DEF AnswersAreSettled, PendingIsOpen, Answered, Requests
  <2>4. record \in Records /\ record.id = preview.id
    BY <2>1, <2>3 DEF Record, Records, Requests
  <2>5. DecisionTypeOK'
    BY <2>2, <2>4 DEF AnswersAreSettled, DecisionTypeOK
  <2>6. /\ Len(records') = Len(records) + 1
        /\ \A i \in DOMAIN records : records'[i] = records[i] /\ decided'[i] = decided[i]
        /\ records'[Len(records) + 1] = record /\ decided'[Len(records) + 1] = preview
        /\ DOMAIN records' = DOMAIN records \cup {Len(records) + 1}
        /\ Len(decided') = Len(records')
    BY <2>2, <2>4 DEF AnswersAreSettled, DecisionTypeOK, DecidedIsAdmitted
  <2>7. OneAnswer'
    BY <2>3, <2>4, <2>6 DEF AnswersAreSettled, OneAnswer
  <2>8. DecidedIsAdmitted'
    <3>1. record = Record(preview, record.choice, record.actor)
      BY DEF Record
    <3> HIDE DEF record
    <3> QED BY <2>2, <2>3, <2>6, <3>1 DEF AnswersAreSettled, DecidedIsAdmitted, Record, Capability
  <2> QED BY <2>2, <2>5, <2>7, <2>8 DEF AnswersAreSettled, PendingIsOpen
<1>2. CASE DecideError(preview, actor) # "ok"
  <2>1. UNCHANGED <<connected, pending, records, admitted, decided>>
    BY <1>2 DEF Decide
  <2>2. told' \in {"ok", "GatewayUnavailable", "InvalidMetadata", "RequestChanged"}
    BY DEF Decide, DecideError
  <2> QED BY <2>1, <2>2 DEF AnswersAreSettled, DecisionTypeOK, OneAnswer, DecidedIsAdmitted,
                            PendingIsOpen, Record, Capability, Answered
<1> QED BY <1>1, <1>2

\* The invariant holds after every step.
LEMMA NextSettled == AnswersAreSettled /\ [DecisionNext]_decisionVars => AnswersAreSettled'
<1> SUFFICES ASSUME AnswersAreSettled, [DecisionNext]_decisionVars PROVE AnswersAreSettled'
  OBVIOUS
<1>1. CASE SetConnected
  BY <1>1 DEF SetConnected, AnswersAreSettled, DecisionTypeOK, OneAnswer, DecidedIsAdmitted,
              PendingIsOpen, Record, Capability, Answered
<1>2. CASE \E request \in Requests : Receive(request)
  BY <1>2, ReceiveKeeps
<1>3. CASE \E preview \in Requests, choice \in Choices, actor \in Actors \cup {Nobody} :
             Decide(preview, choice, actor)
  BY <1>3, DecideKeeps
<1>4. CASE UNCHANGED decisionVars
  BY <1>4 DEF decisionVars, stateVars, AnswersAreSettled, DecisionTypeOK,
            OneAnswer, DecidedIsAdmitted,
              PendingIsOpen, Record, Capability, Answered
<1> QED BY <1>1, <1>2, <1>3, <1>4 DEF DecisionNext

\* The inductive invariant of the approvals holds for every set of requests.
THEOREM ApprovalInvariant == DecisionSpec => []AnswersAreSettled
BY InitSettled, NextSettled, PTL DEF DecisionSpec

\* Every record has the identifier, capability and choice of a well-formed
\* request of this session.
THEOREM ApprovalTypes == DecisionSpec => []DecisionTypeOK
<1>1. AnswersAreSettled => DecisionTypeOK
  BY DEF AnswersAreSettled
<1> QED BY <1>1, ApprovalInvariant, PTL

\* A request identifier is answered once, however often it is asked.
THEOREM AnsweredOnce == DecisionSpec => []OneAnswer
<1>1. AnswersAreSettled => OneAnswer
  BY DEF AnswersAreSettled
<1> QED BY <1>1, ApprovalInvariant, PTL

\* Every answer is for what this session was asked, with its exact content.
THEOREM AnswersAreAdmitted == DecisionSpec => []DecidedIsAdmitted
<1>1. AnswersAreSettled => DecidedIsAdmitted
  BY DEF AnswersAreSettled
<1> QED BY <1>1, ApprovalInvariant, PTL

\* Nothing but its own answer removes a pending request.
THEOREM PendingIsKept == DecisionSpec => OnlyAnAnswerSettles
<1> DEFINE Settled == pending # None /\ pending' # pending =>
             /\ Len(records') = Len(records) + 1
             /\ records'[Len(records')].id = pending.id
<1>1. AnswersAreSettled /\ [DecisionNext]_decisionVars => [Settled]_decisionVars
  <2> SUFFICES ASSUME AnswersAreSettled, DecisionNext, pending # None, pending' # pending
               PROVE  Settled
    OBVIOUS
  <2>1. ASSUME NEW request \in Requests, Receive(request) PROVE FALSE
    BY <2>1 DEF Receive, ReceiveError, FitsPending
  <2>2. ASSUME NEW preview \in Requests, NEW choice \in Choices,
               NEW actor \in Actors \cup {Nobody}, Decide(preview, choice, actor)
        PROVE  Settled
    <3>1. preview = pending /\ records' = Append(records, Record(preview, choice, actor))
      BY <2>2 DEF Decide, DecideError, Answer
    <3> QED BY <3>1 DEF AnswersAreSettled, DecisionTypeOK, Record
  <2> QED BY <2>1, <2>2 DEF DecisionNext, SetConnected
<1> QED BY <1>1, ApprovalInvariant, PTL DEF DecisionSpec, OnlyAnAnswerSettles

HIDE BoundsAssumption

(***************************************************************************)
(* The text that is read before a decision.  A literal and a line of a     *)
(* preview are taken apart from the left, one character at a time: what a  *)
(* character is written as tells which one it is, and where a literal or   *)
(* a text ends is told by the line feed, and the prefix, that follow.      *)
(***************************************************************************)

\* Every non-empty set of numbers has a least one.
LEMMA LeastNumber ==
  ASSUME NEW T, T \subseteq Nat, T # {}
  PROVE  \E x \in T : \A y \in T : x <= y
<1>1. PICK x \in T : \A y \in T : ~(<<y, x>> \in OpToRel(<, Nat))
  BY NatLessThanWellFounded, WFMin
<1>2. \A y \in T : ~(y < x)
  BY <1>1 DEF OpToRel
<1> QED
  BY <1>2

\* Induction, for a set of numbers.
LEMMA NumbersByInduction ==
  ASSUME NEW S, 0 \in S, \A n \in Nat : n \in S => n + 1 \in S
  PROVE  Nat \subseteq S
<1> SUFFICES ASSUME Nat \ S # {} PROVE FALSE
  OBVIOUS
<1>1. PICK x \in Nat \ S : \A y \in Nat \ S : x <= y
  BY LeastNumber
<1>2. x - 1 \in Nat /\ x - 1 \in S
  BY <1>1
<1> QED
  BY <1>1, <1>2

\* Two sequences, one after the other.
LEMMA JoinedAre ==
  ASSUME NEW S, NEW s \in Seq(S), NEW t \in Seq(S)
  PROVE  /\ s \o t \in Seq(S) /\ Len(s \o t) = Len(s) + Len(t)
         /\ \A i \in 1 .. Len(s) : (s \o t)[i] = s[i]
         /\ \A i \in 1 .. Len(t) : (s \o t)[Len(s) + i] = t[i]
  OBVIOUS

IsFlat(f, seqs, m) == f = [i \in 1 .. m |-> IF i = 1 THEN seqs[1] ELSE f[i - 1] \o seqs[i]]

\* The recursion of FlattenSeq is well defined.
LEMMA FlatExists ==
  ASSUME NEW S, NEW seqs \in Seq(Seq(S))
  PROVE  \E f \in [1 .. Len(seqs) -> Seq(S)] : IsFlat(f, seqs, Len(seqs))
<1> DEFINE T == {m \in Nat : m <= Len(seqs) => \E f \in [1 .. m -> Seq(S)] : IsFlat(f, seqs, m)}
<1>1. 0 \in T
  <2> DEFINE f == [i \in 1 .. 0 |-> <<>>]
  <2>1. f \in [1 .. 0 -> Seq(S)] /\ IsFlat(f, seqs, 0)
    BY DEF IsFlat
  <2> QED
    BY <2>1
<1>2. ASSUME NEW m \in Nat, m \in T PROVE m + 1 \in T
  <2> SUFFICES ASSUME m + 1 <= Len(seqs)
               PROVE  \E g \in [1 .. m + 1 -> Seq(S)] : IsFlat(g, seqs, m + 1)
    OBVIOUS
  <2>1. PICK f \in [1 .. m -> Seq(S)] : IsFlat(f, seqs, m)
    BY <1>2
  <2>2. PICK last \in Seq(S) : last = IF m = 0 THEN seqs[1] ELSE f[m] \o seqs[m + 1]
    <3>1. seqs[m + 1] \in Seq(S) /\ (m # 0 => f[m] \in Seq(S)) /\ (m = 0 => seqs[1] \in Seq(S))
      OBVIOUS
    <3> QED
      BY <3>1, ConcatProperties
  <2> DEFINE g == [i \in 1 .. m + 1 |-> IF i <= m THEN f[i] ELSE last]
  <2>3. g \in [1 .. m + 1 -> Seq(S)]
    OBVIOUS
  <2>4. ASSUME NEW i \in 1 .. m + 1
        PROVE  g[i] = IF i = 1 THEN seqs[1] ELSE g[i - 1] \o seqs[i]
    <3>1. CASE i <= m
      <4>1. i \in 1 .. m /\ g[i] = f[i] /\ (i # 1 => g[i - 1] = f[i - 1])
        BY <3>1
      <4>2. f[i] = IF i = 1 THEN seqs[1] ELSE f[i - 1] \o seqs[i]
        BY <2>1, <4>1 DEF IsFlat
      <4> QED
        BY <4>1, <4>2
    <3>2. CASE i = m + 1
      <4>1. g[i] = last /\ (m # 0 => g[i - 1] = f[m]) /\ (i = 1 <=> m = 0)
        BY <3>2
      <4> QED
        BY <2>2, <3>2, <4>1
    <3> QED
      BY <3>1, <3>2
  <2> HIDE DEF g
  <2>5. IsFlat(g, seqs, m + 1)
    BY <2>3, <2>4 DEF IsFlat
  <2> QED
    BY <2>3, <2>5
<1>3. Nat \subseteq T
  <2> HIDE DEF T
  <2> QED
    BY <1>1, <1>2, NumbersByInduction
<1> QED
  BY <1>3

\* What FlattenSeq puts together, up to each of the sequences.
LEMMA FlatIs ==
  ASSUME NEW S, NEW seqs \in Seq(Seq(S)), Len(seqs) # 0
  PROVE  \E f \in [1 .. Len(seqs) -> Seq(S)] :
           /\ Seqs!FlattenSeq(seqs) = f[Len(seqs)]
           /\ f[1] = seqs[1]
           /\ \A i \in 2 .. Len(seqs) : f[i] = f[i - 1] \o seqs[i]
<1> DEFINE f == CHOOSE f : f = [i \in 1 .. Len(seqs) |->
                                 IF i = 1 THEN seqs[i] ELSE f[i - 1] \o seqs[i]]
<1>1. PICK g \in [1 .. Len(seqs) -> Seq(S)] : IsFlat(g, seqs, Len(seqs))
  BY FlatExists
<1>2. g = [i \in 1 .. Len(seqs) |-> IF i = 1 THEN seqs[i] ELSE g[i - 1] \o seqs[i]]
  BY <1>1 DEF IsFlat
<1>3. f = [i \in 1 .. Len(seqs) |-> IF i = 1 THEN seqs[i] ELSE f[i - 1] \o seqs[i]]
  BY <1>2
<1>4. Seqs!FlattenSeq(seqs) = f[Len(seqs)]
  BY DEF Seqs!FlattenSeq
<1> HIDE DEF f
<1>10. f = [i \in 1 .. Len(seqs) |-> f[i]]
  BY <1>3
<1>11. \A i \in 1 .. Len(seqs) : f[i] = IF i = 1 THEN seqs[i] ELSE f[i - 1] \o seqs[i]
  BY <1>3
<1> DEFINE T == {n \in Nat : n \in 1 .. Len(seqs) => f[n] \in Seq(S)}
<1>5. 0 \in T
  OBVIOUS
<1>6. ASSUME NEW n \in Nat, n \in T PROVE n + 1 \in T
  <2> SUFFICES ASSUME n + 1 \in 1 .. Len(seqs) PROVE f[n + 1] \in Seq(S)
    OBVIOUS
  <2>1. seqs[n + 1] \in Seq(S)
    OBVIOUS
  <2>4. (n + 1 = 1 <=> n = 0) /\ (n + 1) - 1 = n
    OBVIOUS
  <2>5. f[n + 1] = IF n + 1 = 1 THEN seqs[n + 1] ELSE f[(n + 1) - 1] \o seqs[n + 1]
    BY <1>11
  <2>2. f[n + 1] = IF n = 0 THEN seqs[n + 1] ELSE f[n] \o seqs[n + 1]
    BY <2>4, <2>5
  <2>3. n # 0 => f[n] \in Seq(S)
    BY <1>6
  <2> QED
    BY <2>1, <2>2, <2>3, ConcatProperties
<1>7. \A n \in 1 .. Len(seqs) : f[n] \in Seq(S)
  <2>1. Nat \subseteq T
    <3> HIDE DEF T
    <3> QED
      BY <1>5, <1>6, NumbersByInduction
  <2> QED
    BY <2>1
<1>8. f \in [1 .. Len(seqs) -> Seq(S)]
  BY <1>7, <1>10
<1>9. f[1] = seqs[1] /\ \A i \in 2 .. Len(seqs) : f[i] = f[i - 1] \o seqs[i]
  <2>1. 1 \in 1 .. Len(seqs) /\ \A i \in 2 .. Len(seqs) : i \in 1 .. Len(seqs) /\ i # 1
    OBVIOUS
  <2> QED
    BY <1>11, <2>1
<1> QED
  BY <1>4, <1>8, <1>9

\* What follows the same beginning is the same.
LEMMA JoinedAgain ==
  ASSUME NEW S, NEW a \in Seq(S), NEW b \in Seq(S), NEW c \in Seq(S)
  PROVE  a \o (b \o c) = (a \o b) \o c
  BY ConcatAssociative

LEMMA SameRest ==
  ASSUME NEW S, NEW a \in Seq(S), NEW b \in Seq(S), NEW c \in Seq(S), a \o b = a \o c
  PROVE  b = c
<1>1. Len(b) = Len(c)
  BY JoinedAre
<1>2. \A i \in 1 .. Len(b) : b[i] = c[i]
  BY <1>1, JoinedAre
<1> QED
  BY <1>1, <1>2, SeqEqual

\* A sequence of one.
LEMMA SingleIsSeq ==
  ASSUME NEW S, NEW c \in S
  PROVE  <<c>> \in Seq(S) /\ Len(<<c>>) = 1 /\ <<c>>[1] = c
  OBVIOUS

\* What begins with one element, and what with two.
LEMMA FirstIs ==
  ASSUME NEW S, NEW c \in S, NEW r \in Seq(S)
  PROVE  /\ <<c>> \o r \in Seq(S) /\ Len(<<c>> \o r) = 1 + Len(r) /\ (<<c>> \o r)[1] = c
<1>1. <<c>> \in Seq(S) /\ Len(<<c>>) = 1 /\ <<c>>[1] = c
  BY SingleIsSeq
<1> QED
  BY <1>1, JoinedAre

\* Pieces put together before r: what is left from each piece on.
IsRest(rest, seqs, n, whole, r) ==
  /\ rest[1] = whole /\ rest[n + 1] = r
  /\ \A k \in 1 .. n : rest[k] = seqs[k] \o rest[k + 1]

LEMMA RestExists ==
  ASSUME NEW S, NEW seqs \in Seq(Seq(S)), NEW r \in Seq(S)
  PROVE  \E rest \in [1 .. Len(seqs) + 1 -> Seq(S)] :
           IsRest(rest, seqs, Len(seqs), Seqs!FlattenSeq(seqs) \o r, r)
<1>1. CASE Len(seqs) = 0
  <2>1. Seqs!FlattenSeq(seqs) = <<>>
    BY <1>1 DEF Seqs!FlattenSeq
  <2>2. <<>> \o r = r
    BY ConcatEmptySeq
  <2> DEFINE rest == [k \in 1 .. Len(seqs) + 1 |-> r]
  <2>3. rest \in [1 .. Len(seqs) + 1 -> Seq(S)] /\ rest[1] = r /\ rest[Len(seqs) + 1] = r
    BY <1>1
  <2> HIDE DEF rest
  <2> QED
    BY <1>1, <2>1, <2>2, <2>3 DEF IsRest
<1>3. \A a, b, c \in Seq(S) : a \o (b \o c) = (a \o b) \o c
  BY JoinedAgain
<1>2. CASE Len(seqs) # 0
  <2>1. PICK f \in [1 .. Len(seqs) -> Seq(S)] :
          /\ Seqs!FlattenSeq(seqs) = f[Len(seqs)]
          /\ f[1] = seqs[1]
          /\ \A i \in 2 .. Len(seqs) : f[i] = f[i - 1] \o seqs[i]
    BY <1>2, FlatIs
  <2> DEFINE T == {m \in Nat : m + 1 <= Len(seqs) =>
                     \A t \in Seq(S) : \E rest \in [1 .. m + 2 -> Seq(S)] :
                       IsRest(rest, seqs, m + 1, f[m + 1] \o t, t)}
  <2>2. 0 \in T
    <3> SUFFICES ASSUME NEW t \in Seq(S)
                 PROVE  \E rest \in [1 .. 0 + 2 -> Seq(S)] :
                          IsRest(rest, seqs, 0 + 1, f[0 + 1] \o t, t)
      OBVIOUS
    <3>1. seqs[1] \in Seq(S)
      BY <1>2
    <3>2. seqs[1] \o t \in Seq(S)
      BY <3>1, ConcatProperties
    <3> DEFINE rest == [k \in 1 .. 0 + 2 |-> IF k = 1 THEN seqs[1] \o t ELSE t]
    <3>3. rest \in [1 .. 0 + 2 -> Seq(S)] /\ rest[1] = seqs[1] \o t /\ rest[2] = t
      BY <3>2
    <3> HIDE DEF rest
    <3>5. 0 + 1 = 1 /\ 0 + 1 + 1 = 2 /\ 1 .. 0 + 1 = {1} /\ 1 + 1 = 2
      OBVIOUS
    <3>4. IsRest(rest, seqs, 0 + 1, f[0 + 1] \o t, t)
      BY <2>1, <3>3, <3>5, ZenonT(30) DEF IsRest
    <3> QED
      BY <3>3, <3>4
  <2>3. ASSUME NEW m \in Nat, m \in T PROVE m + 1 \in T
    <3> SUFFICES ASSUME m + 1 + 1 <= Len(seqs), NEW t \in Seq(S)
                 PROVE  \E rest \in [1 .. m + 1 + 2 -> Seq(S)] :
                          IsRest(rest, seqs, m + 1 + 1, f[m + 1 + 1] \o t, t)
      OBVIOUS
    <3> HIDE DEF T
    <3>1. PICK piece \in Seq(S) : piece = seqs[m + 1 + 1]
      OBVIOUS
    <3>14. m + 1 \in 1 .. Len(seqs) /\ m + 1 + 1 \in 2 .. Len(seqs) /\ (m + 1 + 1) - 1 = m + 1
      OBVIOUS
    <3>2. PICK last \in Seq(S) : last = f[m + 1]
      <4>1. f[m + 1] \in Seq(S)
        BY <3>14
      <4> QED
        BY <4>1
    <3>3. f[m + 1 + 1] = last \o piece
      <4>1. f[m + 1 + 1] = f[(m + 1 + 1) - 1] \o seqs[m + 1 + 1]
        BY <2>1, <3>14
      <4> QED
        BY <3>1, <3>2, <3>14, <4>1
    <3>4. last \o (piece \o t) = f[m + 1 + 1] \o t
      <4>1. last \o (piece \o t) = (last \o piece) \o t
        BY <1>3, Zenon
      <4> QED
        BY <3>3, <4>1
    <3>5. piece \o t \in Seq(S)
      BY ConcatProperties
    <3>6. PICK old \in [1 .. m + 2 -> Seq(S)] :
            IsRest(old, seqs, m + 1, f[m + 1] \o (piece \o t), piece \o t)
      <4>1. m + 1 <= Len(seqs)
        BY <3>14
      <4> QED
        BY <2>3, <3>5, <4>1 DEF T
    <3> DEFINE rest == [k \in 1 .. m + 1 + 2 |-> IF k <= m + 2 THEN old[k] ELSE t]
    <3>7. rest \in [1 .. m + 1 + 2 -> Seq(S)]
      OBVIOUS
    <3>8. rest[1] = old[1] /\ rest[m + 1 + 1] = old[m + 1 + 1] /\ rest[m + 1 + 1 + 1] = t
      OBVIOUS
    <3>9. \A k \in 1 .. m + 1 : rest[k] = old[k] /\ rest[k + 1] = old[k + 1]
      OBVIOUS
    <3> HIDE DEF rest
    <3>10. old[1] = last \o (piece \o t) /\ old[m + 1 + 1] = piece \o t
           /\ \A k \in 1 .. m + 1 : old[k] = seqs[k] \o old[k + 1]
      BY <3>2, <3>6 DEF IsRest
    <3>11. rest[1] = f[m + 1 + 1] \o t
      BY <3>4, <3>8, <3>10
    <3>12. ASSUME NEW k \in 1 .. m + 1 + 1 PROVE rest[k] = seqs[k] \o rest[k + 1]
      <4>1. CASE k \in 1 .. m + 1
        BY <3>9, <3>10, <4>1
      <4>2. CASE k = m + 1 + 1
        BY <3>1, <3>8, <3>10, <4>2
      <4>3. k \in 1 .. m + 1 \/ k = m + 1 + 1
        OBVIOUS
      <4> QED
        BY <4>1, <4>2, <4>3
    <3>13. IsRest(rest, seqs, m + 1 + 1, f[m + 1 + 1] \o t, t)
      BY <3>8, <3>11, <3>12 DEF IsRest
    <3> QED
      BY <3>7, <3>13
  <2>4. Nat \subseteq T
    <3> HIDE DEF T
    <3> QED
      BY <2>2, <2>3, NumbersByInduction
  <2>5. PICK m \in Nat : Len(seqs) = m + 1
    <3>1. Len(seqs) - 1 \in Nat /\ Len(seqs) = (Len(seqs) - 1) + 1
      BY <1>2
    <3> QED
      BY <3>1
  <2>6. \E rest \in [1 .. m + 2 -> Seq(S)] : IsRest(rest, seqs, m + 1, f[m + 1] \o r, r)
    BY <2>4, <2>5
  <2>7. 1 .. m + 2 = 1 .. Len(seqs) + 1
    BY <2>5
  <2> QED
    BY <2>1, <2>5, <2>6, <2>7
<1> QED
  BY <1>1, <1>2

LEMMA FlatIsSeq ==
  ASSUME NEW S, NEW seqs \in Seq(Seq(S))
  PROVE  Seqs!FlattenSeq(seqs) \in Seq(S)
<1>1. CASE Len(seqs) = 0
  <2>1. Seqs!FlattenSeq(seqs) = <<>>
    BY <1>1 DEF Seqs!FlattenSeq
  <2> QED
    BY <2>1
<1>2. CASE Len(seqs) # 0
  <2>1. PICK f \in [1 .. Len(seqs) -> Seq(S)] : Seqs!FlattenSeq(seqs) = f[Len(seqs)]
    BY <1>2, FlatIs
  <2>2. Len(seqs) \in 1 .. Len(seqs)
    BY <1>2
  <2> QED
    BY <2>1, <2>2
<1> QED
  BY <1>1, <1>2

-----------------------------------------------------------------------------
\* What the pieces of a preview are.

\* What stands after the last field of a preview.
Closing == "Explicit approve or deny"

\* What previews consist of.
Symbols ==
  Characters \cup Escaped \cup
  {"t", "r", "n", "u", "-", "+", "No newline", "0,0", "1,", "@@ -", " +", Closing,
   "Session: ", "Request: ", "Workspace: ", "Write: ", "Command: ", "Working directory: ",
   "Danger: "}
  \cup {Decimal[n] : n \in 1 .. MaxText} \cup {Hex[c] : c \in Controls}

Line == Seq(Symbols)

\* What is written with a backslash, and what follows it.
Coded == Escaped \cup Controls
Code(c) ==
  CASE c = "TAB" -> "t" [] c = "CR" -> "r" [] c = "LF" -> "n" [] c = "\\" -> "\\" [] OTHER -> "u"

LEMMA LiteralOfIs ==
  ASSUME NEW c \in Symbols
  PROVE  /\ LiteralOf(c) \in Line
         /\ c \in Escaped => LiteralOf(c) = <<"\\", Code(c)>>
         /\ c \in Controls => LiteralOf(c) = <<"\\", "u", Hex[c]>>
         /\ c \notin Coded => LiteralOf(c) = <<c>>
<1>1. "\\" \in Symbols /\ "t" \in Symbols /\ "r" \in Symbols /\ "n" \in Symbols /\ "u" \in Symbols
  BY DEF Symbols, Escaped
<1>2. CASE c \in Escaped
  <2>1. c \notin Controls
    BY <1>2, PreviewAssumption
  <2>2. LiteralOf(c) = <<"\\", Code(c)>> /\ Code(c) \in Symbols
    <3>1. CASE c = "TAB"
      <4>1. LiteralOf(c) = <<"\\", "t">>
        BY <2>1, <3>1 DEF LiteralOf
      <4>2. Code(c) = "t"
        BY <3>1 DEF Code
      <4> QED
        BY <1>1, <4>1, <4>2
    <3>2. CASE c = "CR"
      <4>1. LiteralOf(c) = <<"\\", "r">>
        BY <2>1, <3>2 DEF LiteralOf
      <4>2. Code(c) = "r"
        BY <3>2 DEF Code
      <4> QED
        BY <1>1, <4>1, <4>2
    <3>3. CASE c = "LF"
      <4>1. LiteralOf(c) = <<"\\", "n">>
        BY <2>1, <3>3 DEF LiteralOf
      <4>2. Code(c) = "n"
        BY <3>3 DEF Code
      <4> QED
        BY <1>1, <4>1, <4>2
    <3>4. CASE c = "\\"
      <4>1. LiteralOf(c) = <<"\\", "\\">>
        BY <2>1, <3>4 DEF LiteralOf
      <4>2. Code(c) = "\\"
        BY <3>4 DEF Code
      <4> QED
        BY <1>1, <4>1, <4>2
    <3> QED
      BY <1>2, <3>1, <3>2, <3>3, <3>4 DEF Escaped
  <2> QED
    BY <1>1, <1>2, <2>1, <2>2 DEF Line, Coded
<1>3. CASE c \in Controls
  <2>1. c \notin Escaped
    BY <1>3, PreviewAssumption
  <2>2. LiteralOf(c) = <<"\\", "u", Hex[c]>> /\ Hex[c] \in Symbols
    BY <1>3, <2>1 DEF LiteralOf, Escaped, Symbols
  <2> QED
    BY <1>1, <1>3, <2>1, <2>2 DEF Line, Coded
<1>4. CASE c \notin Coded
  <2>1. LiteralOf(c) = <<c>>
    BY <1>4 DEF LiteralOf, Escaped, Coded
  <2> QED
    BY <1>4, <2>1 DEF Line, Coded
<1> QED
  BY <1>2, <1>3, <1>4 DEF Coded

\* What a character is written as tells which one it is.
LEMMA CodesDiffer ==
  ASSUME NEW c \in Coded, NEW d \in Coded, Code(c) = Code(d),
         c \in Controls /\ d \in Controls => Hex[c] = Hex[d]
  PROVE  c = d
<1>1. Controls \cap Escaped = {} /\ \A a, b \in Controls : Hex[a] = Hex[b] => a = b
  BY PreviewAssumption
<1>2. CASE c \in Escaped
  <2>1. Code(c) # "u"
    BY <1>2 DEF Code, Escaped
  <2>2. d \in Escaped
    BY <1>1, <2>1 DEF Code, Escaped, Coded
  <2> QED
    BY <1>2, <2>2 DEF Code, Escaped
<1>3. CASE c \in Controls
  <2>1. Code(c) = "u"
    BY <1>1, <1>3 DEF Code, Escaped
  <2>2. d \notin Escaped
    BY <2>1 DEF Code, Escaped
  <2> QED
    BY <1>1, <1>3, <2>2 DEF Coded
<1> QED
  BY <1>2, <1>3 DEF Coded

\* What a text begins with that begins with a literal character.
LEMMA LiteralBegins ==
  ASSUME NEW x \in Symbols, NEW w \in Line
  PROVE  /\ LiteralOf(x) \o w \in Line /\ Len(LiteralOf(x) \o w) # 0
         /\ (LiteralOf(x) \o w)[1] = IF x \in Coded THEN "\\" ELSE x
         /\ x \in Coded => (LiteralOf(x) \o w)[2] = Code(x)
         /\ x \in Controls => (LiteralOf(x) \o w)[3] = Hex[x]
<1>1. PICK s \in Line : s = LiteralOf(x)
  BY LiteralOfIs
<1>2. s \o w \in Line /\ Len(s \o w) = Len(s) + Len(w) /\ \A i \in 1 .. Len(s) : (s \o w)[i] = s[i]
  BY JoinedAre DEF Line
<1>3. Len(w) \in Nat
  BY DEF Line
<1>4. CASE x \in Escaped
  <2>1. x \notin Controls /\ x \in Coded
    BY <1>4, PreviewAssumption DEF Coded
  <2>2. s = <<"\\", Code(x)>>
    BY <1>1, <1>4, LiteralOfIs
  <2>3. Len(s) = 2 /\ s[1] = "\\" /\ s[2] = Code(x)
    BY <2>2
  <2> QED
    BY <1>1, <1>2, <1>3, <2>1, <2>3
<1>5. CASE x \in Controls
  <2>1. x \notin Escaped /\ x \in Coded
    BY <1>5, PreviewAssumption DEF Coded
  <2>2. s = <<"\\", "u", Hex[x]>>
    BY <1>1, <1>5, LiteralOfIs
  <2>3. Len(s) = 3 /\ s[1] = "\\" /\ s[2] = "u" /\ s[3] = Hex[x]
    BY <2>2
  <2>4. Code(x) = "u"
    BY <2>1 DEF Code, Escaped
  <2> QED
    BY <1>1, <1>2, <1>3, <2>1, <2>3, <2>4
<1>6. CASE x \notin Coded
  <2>1. s = <<x>> /\ x \notin Controls
    BY <1>1, <1>6, LiteralOfIs DEF Coded
  <2>2. Len(s) = 1 /\ s[1] = x
    BY <2>1
  <2> QED
    BY <1>1, <1>2, <1>3, <1>6, <2>1, <2>2
<1> QED
  BY <1>4, <1>5, <1>6 DEF Coded

\* Two characters are written in different ways, neither of them a line feed.
LEMMA LiteralsDiffer ==
  ASSUME NEW c \in Symbols, NEW d \in Symbols, NEW u \in Line, NEW v \in Line
  PROVE  /\ LiteralOf(c) \o u \in Line /\ Len(LiteralOf(c) \o u) # 0
         /\ (LiteralOf(c) \o u)[1] # "LF"
         /\ LiteralOf(c) \o u = LiteralOf(d) \o v => c = d
<1>1. "LF" \in Coded /\ "\\" \in Coded
  BY DEF Coded, Escaped
<1>2. (LiteralOf(c) \o u)[1] # "LF"
  BY <1>1, LiteralBegins
<1>3. ASSUME LiteralOf(c) \o u = LiteralOf(d) \o v
      PROVE  c = d
  <2>1. (IF c \in Coded THEN "\\" ELSE c) = IF d \in Coded THEN "\\" ELSE d
    BY <1>3, LiteralBegins
  <2>2. CASE c \in Coded /\ d \in Coded
    <3>1. Code(c) = Code(d)
      BY <1>3, <2>2, LiteralBegins
    <3>2. ASSUME c \in Controls, d \in Controls PROVE Hex[c] = Hex[d]
      <4>1. (LiteralOf(c) \o u)[3] = Hex[c]
        BY <3>2, LiteralBegins
      <4>2. (LiteralOf(d) \o v)[3] = Hex[d]
        BY <3>2, LiteralBegins
      <4> QED
        BY <1>3, <4>1, <4>2
    <3> QED
      BY <2>2, <3>1, <3>2, CodesDiffer
  <2>3. CASE ~(c \in Coded /\ d \in Coded)
    BY <1>1, <2>1, <2>3
  <2> QED
    BY <2>2, <2>3
<1> QED
  BY <1>2, <1>3, LiteralBegins

\* One text and then another.
Follows(w, a, b) == w = a \o b

\* The pieces of a literal.
LiteralPieces(text) == [i \in DOMAIN text |-> LiteralOf(text[i])]

LEMMA LiteralPiecesAre ==
  ASSUME NEW text \in Line
  PROVE  /\ LiteralPieces(text) \in Seq(Line) /\ Len(LiteralPieces(text)) = Len(text)
         /\ \A i \in 1 .. Len(text) : LiteralPieces(text)[i] = LiteralOf(text[i])
<1>1. \A i \in 1 .. Len(text) : text[i] \in Symbols
  BY DEF Line
<1>2. \A i \in 1 .. Len(text) : LiteralOf(text[i]) \in Line
  BY <1>1, LiteralOfIs
<1>3. DOMAIN text = 1 .. Len(text)
  BY DEF Line
<1> QED
  BY <1>2, <1>3 DEF LiteralPieces

\* What is left of a text that begins with a literal, from each character on.
IsLiteral(rest, x, w, t) ==
  /\ rest \in [1 .. Len(x) + 1 -> Line] /\ rest[1] = w /\ rest[Len(x) + 1] = t
  /\ \A k \in 1 .. Len(x) : Follows(rest[k], LiteralOf(x[k]), rest[k + 1])

LEMMA LiteralIs ==
  ASSUME NEW x \in Line, NEW t \in Line
  PROVE  \E rest : IsLiteral(rest, x, Literal(x) \o t, t)
<1>1. Literal(x) = Seqs!FlattenSeq(LiteralPieces(x))
  BY DEF Literal, LiteralPieces
<1>2. LiteralPieces(x) \in Seq(Seq(Symbols)) /\ t \in Seq(Symbols)
  BY LiteralPiecesAre DEF Line
<1>3. \E rest \in [1 .. Len(LiteralPieces(x)) + 1 -> Seq(Symbols)] :
        IsRest(rest, LiteralPieces(x), Len(LiteralPieces(x)),
               Seqs!FlattenSeq(LiteralPieces(x)) \o t, t)
  BY <1>2, RestExists
<1>4. PICK rest \in [1 .. Len(x) + 1 -> Line] :
        IsRest(rest, LiteralPieces(x), Len(x), Literal(x) \o t, t)
  BY <1>1, <1>3, LiteralPiecesAre DEF Line
<1>5. \A k \in 1 .. Len(x) : rest[k] = LiteralOf(x[k]) \o rest[k + 1]
  BY <1>4, LiteralPiecesAre DEF IsRest
<1> QED
  BY <1>4, <1>5 DEF IsLiteral, IsRest, Follows

LEMMA LiteralInLine ==
  ASSUME NEW x \in Line
  PROVE  Literal(x) \in Line
  BY LiteralPiecesAre, FlatIsSeq DEF Line, Literal, LiteralPieces

\* The same text at one character of both is the same character, and goes on
\* the same.
LEMMA SameCharacter ==
  ASSUME NEW c \in Symbols, NEW d \in Symbols, NEW u \in Line, NEW v \in Line, NEW w,
         Follows(w, LiteralOf(c), u), Follows(w, LiteralOf(d), v)
  PROVE  c = d /\ u = v
<1>1. c = d
  BY LiteralsDiffer DEF Follows
<1>2. LiteralOf(c) \in Line
  BY LiteralOfIs
<1> QED
  BY <1>1, <1>2, SameRest DEF Line, Follows

LEMMA SameSoFar ==
  ASSUME NEW x \in Line, NEW y \in Line, NEW rest, NEW last, NEW w, NEW t, NEW s,
         IsLiteral(rest, x, w, t), IsLiteral(last, y, w, s)
  PROVE  \A m \in Nat : m <= Len(x) /\ m <= Len(y) =>
           rest[m + 1] = last[m + 1] /\ \A i \in 1 .. m : x[i] = y[i]
<1> DEFINE T == {m \in Nat : m <= Len(x) /\ m <= Len(y) =>
                   rest[m + 1] = last[m + 1] /\ \A i \in 1 .. m : x[i] = y[i]}
<1>1. 0 \in T
  BY DEF IsLiteral
<1>2. ASSUME NEW m \in Nat, m \in T PROVE m + 1 \in T
  <2> SUFFICES ASSUME m + 1 <= Len(x), m + 1 <= Len(y)
               PROVE  rest[m + 1 + 1] = last[m + 1 + 1] /\ \A i \in 1 .. m + 1 : x[i] = y[i]
    OBVIOUS
  <2>1. rest[m + 1] = last[m + 1] /\ \A i \in 1 .. m : x[i] = y[i]
    BY <1>2
  <2> HIDE DEF T
  <2>2. m + 1 \in 1 .. Len(x) /\ m + 1 \in 1 .. Len(y)
    OBVIOUS
  <2>3. PICK c \in Symbols : c = x[m + 1]
    BY <2>2 DEF Line
  <2>4. PICK d \in Symbols : d = y[m + 1]
    BY <2>2 DEF Line
  <2>5. PICK u \in Line : u = rest[m + 1 + 1]
    BY <2>2 DEF IsLiteral
  <2>6. PICK v \in Line : v = last[m + 1 + 1]
    BY <2>2 DEF IsLiteral
  <2>7. Follows(rest[m + 1], LiteralOf(c), u) /\ Follows(rest[m + 1], LiteralOf(d), v)
    BY <2>1, <2>2, <2>3, <2>4, <2>5, <2>6 DEF IsLiteral
  <2>8. c = d /\ u = v
    BY <2>7, SameCharacter
  <2>9. \A i \in 1 .. m + 1 : i \in 1 .. m \/ i = m + 1
    OBVIOUS
  <2> QED
    BY <2>1, <2>3, <2>4, <2>5, <2>6, <2>8, <2>9
<1>3. Nat \subseteq T
  <2> HIDE DEF T
  <2> QED
    BY <1>1, <1>2, NumbersByInduction
<1> QED
  BY <1>3

\* A shorter literal is followed by a character of the longer one.
LEMMA NotShorter ==
  ASSUME NEW x \in Line, NEW y \in Line, NEW rest, NEW last, NEW w, NEW t, NEW s,
         IsLiteral(rest, x, w, t), IsLiteral(last, y, w, s), t[1] = "LF"
  PROVE  ~(Len(x) < Len(y))
<1> SUFFICES ASSUME Len(x) < Len(y) PROVE FALSE
  OBVIOUS
<1>1. PICK n \in Nat : n = Len(x)
  BY DEF Line
<1>2. Len(y) \in Nat /\ n + 1 \in 1 .. Len(y)
  BY <1>1 DEF Line
<1>3. rest[n + 1] = last[n + 1]
  BY <1>1, <1>2, SameSoFar
<1>4. PICK c \in Symbols : c = y[n + 1]
  BY <1>2 DEF Line
<1>5. PICK v \in Line : v = last[n + 1 + 1]
  BY <1>2 DEF IsLiteral
<1>6. Follows(t, LiteralOf(c), v)
  BY <1>1, <1>2, <1>3, <1>4, <1>5 DEF IsLiteral
<1>7. t[1] # "LF"
  BY <1>6, LiteralsDiffer DEF Follows
<1> QED
  BY <1>7

\* A literal up to a line feed says which text it is of.
LEMMA LiteralsDecode ==
  ASSUME NEW x \in Line, NEW y \in Line, NEW t \in Line, NEW s \in Line,
         t[1] = "LF", s[1] = "LF", NEW w, Follows(w, Literal(x), t), Follows(w, Literal(y), s)
  PROVE  x = y /\ t = s
<1>1. PICK rest : IsLiteral(rest, x, w, t)
  BY LiteralIs DEF Follows
<1>2. PICK last : IsLiteral(last, y, w, s)
  BY LiteralIs DEF Follows
<1>3. ~(Len(x) < Len(y))
  BY <1>1, <1>2, NotShorter
<1>4. ~(Len(y) < Len(x))
  BY <1>1, <1>2, NotShorter
<1>5. Len(x) \in Nat /\ Len(y) \in Nat
  BY DEF Line
<1>6. Len(x) = Len(y)
  BY <1>3, <1>4, <1>5
<1>7. rest[Len(x) + 1] = last[Len(x) + 1] /\ \A i \in 1 .. Len(x) : x[i] = y[i]
  BY <1>1, <1>2, <1>5, <1>6, SameSoFar
<1>8. t = s
  BY <1>1, <1>2, <1>6, <1>7 DEF IsLiteral
<1>9. x = y
  BY <1>6, <1>7, SeqEqual DEF Line
<1> QED
  BY <1>8, <1>9

\* A character of a line, or its end.
Body(c) == IF c = "LF" THEN <<"LF">> ELSE LiteralOf(c)
Ending(text) == IF Ended(text) THEN <<>> ELSE <<"LF", "\\", "No newline", "LF">>
Prefixes == {"-", "+"}

LEMMA BodyIs ==
  ASSUME NEW c \in Symbols, NEW u \in Line, NEW w, Follows(w, Body(c), u)
  PROVE  /\ Body(c) \in Line /\ w \in Line /\ Len(w) # 0
         /\ c = "LF" <=> w[1] = "LF"
         /\ c = "LF" => Len(w) = 1 + Len(u) /\ \A i \in 1 .. Len(u) : w[1 + i] = u[i]
<1>1. CASE c = "LF"
  <2>0. "LF" \in Symbols
    BY DEF Symbols, Escaped
  <2>1. PICK b \in Line : b = <<"LF">> /\ Len(b) = 1 /\ b[1] = "LF"
    BY <2>0, SingleIsSeq DEF Line
  <2>2. Body(c) = b
    BY <1>1, <2>1 DEF Body
  <2>3. w = b \o u
    BY <2>2 DEF Follows
  <2>4. b \o u \in Line /\ Len(b \o u) = 1 + Len(u) /\ (b \o u)[1] = "LF"
        /\ \A i \in 1 .. Len(u) : (b \o u)[1 + i] = u[i]
    BY <2>1, JoinedAre DEF Line
  <2>5. Len(u) \in Nat
    BY DEF Line
  <2> QED
    BY <1>1, <2>2, <2>3, <2>4, <2>5
<1>2. CASE c # "LF"
  <2>1. w = LiteralOf(c) \o u /\ Body(c) = LiteralOf(c)
    BY <1>2 DEF Follows, Body
  <2> QED
    BY <1>2, <2>1, LiteralsDiffer, LiteralOfIs
<1> QED
  BY <1>1, <1>2

LEMMA SameBody ==
  ASSUME NEW c \in Symbols, NEW d \in Symbols, NEW u \in Line, NEW v \in Line, NEW w,
         Follows(w, Body(c), u), Follows(w, Body(d), v)
  PROVE  c = d /\ u = v
<1>1. CASE c = "LF"
  <2>1. d = "LF"
    BY <1>1, BodyIs
  <2>2. Body(c) \in Line /\ Body(c) = Body(d)
    BY <1>1, <2>1, BodyIs
  <2> QED
    BY <1>1, <2>1, <2>2, SameRest DEF Line, Follows
<1>2. CASE c # "LF"
  <2>1. d # "LF"
    BY <1>2, BodyIs
  <2>2. Body(c) = LiteralOf(c) /\ Body(d) = LiteralOf(d)
    BY <1>2, <2>1 DEF Body
  <2> QED
    BY <2>2, SameCharacter
<1> QED
  BY <1>1, <1>2

LEMMA PrefixIs ==
  ASSUME NEW p \in Prefixes, NEW u \in Line
  PROVE  <<p>> \in Line /\ <<p>> \o u \in Line /\ Len(<<p>> \o u) # 0 /\ (<<p>> \o u)[1] = p
<1>1. p \in Symbols
  BY DEF Prefixes, Symbols
<1>2. <<p>> \in Line /\ <<p>> \o u \in Line /\ Len(<<p>> \o u) = 1 + Len(u) /\ (<<p>> \o u)[1] = p
  BY <1>1, FirstIs, SingleIsSeq DEF Line
<1>3. Len(u) \in Nat
  BY DEF Line
<1> QED
  BY <1>2, <1>3

LEMMA FourAreSeq ==
  ASSUME NEW S, NEW a \in S, NEW b \in S, NEW c \in S, NEW d \in S
  PROVE  /\ <<a, b, c, d>> \in Seq(S) /\ Len(<<a, b, c, d>>) = 4
         /\ <<a, b, c, d>>[1] = a /\ <<a, b, c, d>>[2] = b
  OBVIOUS

LEMMA EndingIs ==
  ASSUME NEW x, NEW r \in Line
  PROVE  /\ Ending(x) \in Line /\ Ending(x) \o r \in Line
         /\ Ended(x) => Ending(x) \o r = r
         /\ ~Ended(x) => /\ Len(Ending(x) \o r) >= 4 /\ (Ending(x) \o r)[1] = "LF"
                         /\ (Ending(x) \o r)[2] = "\\"
<1>1. CASE Ended(x)
  <2>1. Ending(x) = <<>>
    BY <1>1 DEF Ending
  <2>2. <<>> \in Line /\ <<>> \o r = r
    BY ConcatEmptySeq DEF Line
  <2> QED
    BY <1>1, <2>1, <2>2
<1>2. CASE ~Ended(x)
  <2>1. "LF" \in Symbols /\ "\\" \in Symbols /\ "No newline" \in Symbols
    BY DEF Symbols, Escaped
  <2>2. PICK e \in Line : e = Ending(x) /\ Len(e) = 4 /\ e[1] = "LF" /\ e[2] = "\\"
    <3>1. Ending(x) = <<"LF", "\\", "No newline", "LF">>
      BY <1>2 DEF Ending
    <3>2. <<"LF", "\\", "No newline", "LF">> \in Line
      BY <2>1, FourAreSeq DEF Line
    <3> QED
      BY <3>1, <3>2
  <2>3. e \o r \in Line /\ Len(e \o r) = 4 + Len(r) /\ (e \o r)[1] = "LF" /\ (e \o r)[2] = "\\"
    <3>1. e \o r \in Line /\ Len(e \o r) = Len(e) + Len(r)
          /\ \A i \in 1 .. Len(e) : (e \o r)[i] = e[i]
      BY JoinedAre DEF Line
    <3>2. 1 \in 1 .. Len(e) /\ 2 \in 1 .. Len(e)
      BY <2>2
    <3> QED
      BY <2>2, <3>1, <3>2
  <2>4. Len(r) \in Nat
    BY DEF Line
  <2> QED
    BY <1>2, <2>2, <2>3, <2>4
<1> QED
  BY <1>1, <1>2

\* What is left of a text that begins with prefixed lines, from each character
\* of the lines on.
Starts(w, p, begins, u) == IF begins THEN Follows(w, <<p>>, u) ELSE w = u

IsPrefixed(rest, p, x, w, t) ==
  /\ rest \in [1 .. Len(x) + 1 -> Line] /\ rest[1] = w /\ rest[Len(x) + 1] = t
  /\ \A k \in 1 .. Len(x) : \E u \in Line :
       Starts(rest[k], p, Begins(x, k), u) /\ Follows(u, Body(x[k]), rest[k + 1])

Pieces(p, x) == [i \in DOMAIN x |-> (IF Begins(x, i) THEN <<p>> ELSE <<>>) \o Body(x[i])]

LEMMA PieceIs ==
  ASSUME NEW c \in Symbols, NEW p \in Prefixes, NEW begins \in BOOLEAN, NEW v \in Line
  PROVE  LET start == IF begins THEN <<p>> ELSE <<>> IN
         /\ start \o Body(c) \in Line
         /\ \E u \in Line : Follows(u, Body(c), v) /\ Starts((start \o Body(c)) \o v, p, begins, u)
<1> DEFINE start == IF begins THEN <<p>> ELSE <<>>
<1>1. Body(c) \in Line /\ Body(c) \o v \in Line
  BY BodyIs DEF Follows
<1>2. <<p>> \in Line /\ <<>> \in Line
  BY PrefixIs DEF Line
<1>3. start \in Line
  BY <1>2
<1>4. start \o Body(c) \in Line
  BY <1>1, <1>3, JoinedAre DEF Line
<1>5. (start \o Body(c)) \o v = start \o (Body(c) \o v)
  <2>1. \A a, b, d \in Line : (a \o b) \o d = a \o (b \o d)
    BY ConcatAssociative DEF Line
  <2> HIDE DEF start
  <2> QED
    BY <1>1, <1>3, <2>1, Zenon
<1>6. <<>> \o (Body(c) \o v) = Body(c) \o v
  BY <1>1, ConcatEmptySeq DEF Line
<1>7. Starts((start \o Body(c)) \o v, p, begins, Body(c) \o v)
  BY <1>5, <1>6 DEF Starts, Follows
<1> HIDE DEF start
<1>8. \E u \in Line : Follows(u, Body(c), v) /\ Starts((start \o Body(c)) \o v, p, begins, u)
  BY <1>1, <1>7 DEF Follows
<1> QED
  BY <1>4, <1>8 DEF start

LEMMA PiecesAre ==
  ASSUME NEW x \in Line, NEW p \in Prefixes
  PROVE  /\ Pieces(p, x) \in Seq(Line) /\ Len(Pieces(p, x)) = Len(x)
         /\ \A i \in 1 .. Len(x) :
              Pieces(p, x)[i] = (IF Begins(x, i) THEN <<p>> ELSE <<>>) \o Body(x[i])
<1>1. \A i \in 1 .. Len(x) : x[i] \in Symbols
  BY DEF Line
<1>2. ASSUME NEW i \in 1 .. Len(x)
      PROVE  (IF Begins(x, i) THEN <<p>> ELSE <<>>) \o Body(x[i]) \in Line
  <2>1. PICK c \in Symbols : c = x[i]
    BY <1>1
  <2>2. PICK begins \in BOOLEAN : begins = Begins(x, i)
    BY DEF Begins
  <2>3. <<>> \in Line
    BY DEF Line
  <2>4. (IF begins THEN <<p>> ELSE <<>>) \o Body(c) \in Line
    BY <2>3, PieceIs
  <2> QED
    BY <2>1, <2>2, <2>4
<1>3. DOMAIN x = 1 .. Len(x)
  BY DEF Line
<1> QED
  BY <1>2, <1>3 DEF Pieces

LEMMA PrefixedIs ==
  ASSUME NEW x \in Line, NEW p \in Prefixes, NEW r \in Line
  PROVE  /\ Prefixed(p, x) \o r \in Line
         /\ \E rest : IsPrefixed(rest, p, x, Prefixed(p, x) \o r, Ending(x) \o r)
<1> DEFINE flat == Seqs!FlattenSeq(Pieces(p, x))
           t == Ending(x) \o r
<1>1. Prefixed(p, x) = flat \o Ending(x)
  BY DEF Prefixed, Pieces, Body, Ending
<1>2. Pieces(p, x) \in Seq(Seq(Symbols)) /\ t \in Seq(Symbols) /\ Ending(x) \in Seq(Symbols)
  BY PiecesAre, EndingIs DEF Line
<1>3. \E rest \in [1 .. Len(Pieces(p, x)) + 1 -> Seq(Symbols)] :
        IsRest(rest, Pieces(p, x), Len(Pieces(p, x)), flat \o t, t)
  <2> HIDE DEF t
  <2> QED
    BY <1>2, RestExists
<1>4. PICK rest \in [1 .. Len(x) + 1 -> Line] : IsRest(rest, Pieces(p, x), Len(x), flat \o t, t)
  BY <1>3, PiecesAre DEF Line
<1>5. flat \in Seq(Symbols)
  BY <1>2, FlatIsSeq
<1>6. flat \o t = Prefixed(p, x) \o r
  <2> HIDE DEF flat
  <2> QED
    <3>1. \A a, b, d \in Line : (a \o b) \o d = a \o (b \o d)
      BY ConcatAssociative DEF Line
    <3>2. flat \in Line /\ Ending(x) \in Line
      BY <1>2, <1>5 DEF Line
    <3>3. (flat \o Ending(x)) \o r = flat \o (Ending(x) \o r)
      BY <3>1, <3>2, Zenon
    <3> QED
      BY <1>1, <3>3
<1>7. Prefixed(p, x) \o r \in Line
  <2>1. flat \o t \in Seq(Symbols)
    <3> HIDE DEF flat, t
    <3> QED
      BY <1>2, <1>5, JoinedAre
  <2> QED
    BY <1>6, <2>1 DEF Line
<1>8. ASSUME NEW k \in 1 .. Len(x)
      PROVE  \E u \in Line :
               Starts(rest[k], p, Begins(x, k), u) /\ Follows(u, Body(x[k]), rest[k + 1])
  <2>1. PICK c \in Symbols : c = x[k]
    BY DEF Line
  <2>2. PICK begins \in BOOLEAN : begins = Begins(x, k)
    BY DEF Begins
  <2>3. PICK v \in Line : v = rest[k + 1]
    OBVIOUS
  <2>4. rest[k] = ((IF begins THEN <<p>> ELSE <<>>) \o Body(c)) \o v
    BY <1>4, <2>1, <2>2, <2>3, PiecesAre DEF IsRest
  <2>5. \E u \in Line : Follows(u, Body(c), v) /\ Starts(rest[k], p, begins, u)
    BY <2>4, PieceIs
  <2> QED
    BY <2>1, <2>2, <2>3, <2>5
<1>9. IsPrefixed(rest, p, x, flat \o t, t)
  BY <1>4, <1>8 DEF IsPrefixed, IsRest
<1> QED
  BY <1>6, <1>7, <1>9

LEMMA PrefixedInLine ==
  ASSUME NEW x \in Line, NEW p \in Prefixes
  PROVE  Prefixed(p, x) \in Line
<1>1. Pieces(p, x) \in Seq(Seq(Symbols)) /\ Seqs!FlattenSeq(Pieces(p, x)) \in Line
  BY PiecesAre, FlatIsSeq DEF Line
<1>2. Ending(x) \in Line
  BY EndingIs DEF Line
<1>3. Seqs!FlattenSeq(Pieces(p, x)) \o Ending(x) \in Line
  BY <1>1, <1>2, JoinedAre DEF Line
<1>4. Prefixed(p, x) = Seqs!FlattenSeq(Pieces(p, x)) \o Ending(x)
  BY DEF Prefixed, Pieces, Body, Ending
<1> QED
  BY <1>3, <1>4

\* Prefixed lines of two texts that are the same agree as far as both go.
LEMMA SameLines ==
  ASSUME NEW x \in Line, NEW y \in Line, NEW p \in Prefixes, NEW rest, NEW last,
         NEW w, NEW t, NEW s, IsPrefixed(rest, p, x, w, t), IsPrefixed(last, p, y, w, s)
  PROVE  \A m \in Nat : m <= Len(x) /\ m <= Len(y) =>
           rest[m + 1] = last[m + 1] /\ \A i \in 1 .. m : x[i] = y[i]
<1> DEFINE T == {m \in Nat : m <= Len(x) /\ m <= Len(y) =>
                   rest[m + 1] = last[m + 1] /\ \A i \in 1 .. m : x[i] = y[i]}
<1>1. 0 \in T
  BY DEF IsPrefixed
<1>2. ASSUME NEW m \in Nat, m \in T PROVE m + 1 \in T
  <2> SUFFICES ASSUME m + 1 <= Len(x), m + 1 <= Len(y)
               PROVE  rest[m + 1 + 1] = last[m + 1 + 1] /\ \A i \in 1 .. m + 1 : x[i] = y[i]
    OBVIOUS
  <2>1. rest[m + 1] = last[m + 1] /\ \A i \in 1 .. m : x[i] = y[i]
    BY <1>2
  <2> HIDE DEF T
  <2>2. m + 1 \in 1 .. Len(x) /\ m + 1 \in 1 .. Len(y)
    OBVIOUS
  <2>3. PICK c \in Symbols : c = x[m + 1]
    BY <2>2 DEF Line
  <2>4. PICK d \in Symbols : d = y[m + 1]
    BY <2>2 DEF Line
  <2>5. Begins(x, m + 1) = Begins(y, m + 1)
    <3>1. CASE m = 0
      BY <3>1 DEF Begins
    <3>2. CASE m # 0
      <4>1. m \in 1 .. m /\ (m + 1) - 1 = m /\ m + 1 # 1
        BY <3>2
      <4> QED
        BY <2>1, <4>1 DEF Begins
    <3> QED
      BY <3>1, <3>2
  <2>6. PICK u \in Line : Starts(rest[m + 1], p, Begins(x, m + 1), u)
                          /\ Follows(u, Body(c), rest[m + 1 + 1])
    BY <2>2, <2>3 DEF IsPrefixed
  <2>7. PICK v \in Line : Starts(last[m + 1], p, Begins(y, m + 1), v)
                          /\ Follows(v, Body(d), last[m + 1 + 1])
    BY <2>2, <2>4 DEF IsPrefixed
  <2>8. u = v
    <3>1. CASE Begins(x, m + 1)
      <4>1. <<p>> \o u = <<p>> \o v
        BY <2>1, <2>5, <2>6, <2>7, <3>1 DEF Starts, Follows
      <4> QED
        BY <4>1, PrefixIs, SameRest DEF Line
    <3>2. CASE ~Begins(x, m + 1)
      BY <2>1, <2>5, <2>6, <2>7, <3>2 DEF Starts
    <3> QED
      BY <3>1, <3>2
  <2>9. rest[m + 1 + 1] \in Line /\ last[m + 1 + 1] \in Line
    <3>1. m + 1 + 1 \in 1 .. Len(x) + 1 /\ m + 1 + 1 \in 1 .. Len(y) + 1
      BY <2>2
    <3> QED
      BY <3>1 DEF IsPrefixed
  <2>10. c = d /\ rest[m + 1 + 1] = last[m + 1 + 1]
    BY <2>6, <2>7, <2>8, <2>9, SameBody
  <2>11. \A i \in 1 .. m + 1 : i \in 1 .. m \/ i = m + 1
    OBVIOUS
  <2> QED
    BY <2>1, <2>3, <2>4, <2>10, <2>11
<1>3. Nat \subseteq T
  <2> HIDE DEF T
  <2> QED
    BY <1>1, <1>2, NumbersByInduction
<1> QED
  BY <1>3

\* What may follow prefixed lines: after the old text the new one, or the end.
MayFollow(p, r) ==
  /\ r \in Line /\ Len(r) # 0
  /\ r[1] = Closing \/ (p = "-" /\ r[1] = "+")

LEMMA NoShorterLines ==
  ASSUME NEW x \in Line, NEW y \in Line, NEW p \in Prefixes, NEW rest, NEW last,
         NEW w, NEW t, NEW s, IsPrefixed(rest, p, x, w, t), IsPrefixed(last, p, y, w, s),
         NEW r, NEW q, MayFollow(p, r), MayFollow(p, q),
         Follows(t, Ending(x), r), Follows(s, Ending(y), q)
  PROVE  ~(Len(x) < Len(y))
<1> SUFFICES ASSUME Len(x) < Len(y) PROVE FALSE
  OBVIOUS
<1>1. PICK n \in Nat : n = Len(x)
  BY DEF Line
<1>2. Len(y) \in Nat /\ n + 1 \in 1 .. Len(y)
  BY <1>1 DEF Line
<1>3. rest[n + 1] = last[n + 1] /\ \A i \in 1 .. n : x[i] = y[i]
  BY <1>1, <1>2, SameLines
<1>4. PICK c \in Symbols : c = y[n + 1]
  BY <1>2 DEF Line
<1>5. PICK v \in Line : v = last[n + 1 + 1]
  <2>1. n + 1 + 1 \in 1 .. Len(y) + 1
    BY <1>2
  <2> QED
    BY <2>1 DEF IsPrefixed
<1>6. PICK u \in Line : Starts(t, p, Begins(y, n + 1), u) /\ Follows(u, Body(c), v)
  BY <1>1, <1>2, <1>3, <1>4, <1>5 DEF IsPrefixed
<1>7. r \in Line /\ q \in Line
  BY DEF MayFollow
<1>8. CASE Ended(x)
  <2>1. t = r
    BY <1>7, <1>8, EndingIs DEF Follows
  <2>2. Begins(y, n + 1)
    <3>1. CASE n = 0
      BY <3>1 DEF Begins
    <3>2. CASE n # 0
      <4>1. n \in 1 .. n /\ (n + 1) - 1 = n
        BY <3>2
      <4>2. x # <<>>
        BY <1>1, <3>2
      <4>3. y[n] = "LF"
        BY <1>1, <1>3, <1>8, <4>1, <4>2 DEF Ended
      <4> QED
        BY <4>1, <4>3 DEF Begins
    <3> QED
      BY <3>1, <3>2
  <2>3. Follows(t, <<p>>, u)
    BY <1>6, <2>2 DEF Starts
  <2>4. Len(t) # 0 /\ t[1] = p
    BY <2>3, PrefixIs DEF Follows
  <2> QED
    BY <2>1, <2>4 DEF MayFollow, Closing, Prefixes
<1>9. CASE ~Ended(x)
  <2>1. Len(t) >= 4 /\ t[1] = "LF" /\ t[2] = "\\"
    BY <1>7, <1>9, EndingIs DEF Follows
  <2>2. ~Begins(y, n + 1)
    <3>1. x # <<>> /\ x[n] # "LF"
      BY <1>1, <1>9 DEF Ended
    <3>2. n # 0
      BY <1>1, <3>1 DEF Line
    <3>3. n \in 1 .. n /\ (n + 1) - 1 = n /\ n + 1 # 1
      BY <3>2
    <3> QED
      BY <1>3, <3>1, <3>3 DEF Begins
  <2>3. t = u
    BY <1>6, <2>2 DEF Starts
  <2>4. c = "LF"
    BY <1>6, <2>1, <2>3, BodyIs
  <2>5. Len(u) = 1 + Len(v) /\ \A i \in 1 .. Len(v) : u[1 + i] = v[i]
    BY <1>6, <2>4, BodyIs
  <2>6. Len(v) \in Nat
    BY DEF Line
  <2>7. 1 \in 1 .. Len(v)
    BY <2>1, <2>3, <2>5, <2>6
  <2>8. Len(v) # 0 /\ v[1] = "\\"
    BY <2>1, <2>3, <2>5, <2>7
  <2>9. CASE n + 1 = Len(y)
    <3>1. Ended(y)
      BY <1>4, <2>4, <2>9 DEF Ended
    <3>2. s = q
      BY <1>7, <3>1, EndingIs DEF Follows
    <3>3. v = s
      BY <1>5, <2>9 DEF IsPrefixed
    <3> QED
      BY <2>8, <3>2, <3>3 DEF MayFollow, Closing
  <2>10. CASE n + 1 # Len(y)
    <3>1. n + 1 + 1 \in 1 .. Len(y) /\ (n + 1 + 1) - 1 = n + 1
      BY <1>2, <2>10
    <3>2. Begins(y, n + 1 + 1)
      BY <1>4, <2>4, <3>1 DEF Begins
    <3>3. PICK z \in Line : Starts(v, p, Begins(y, n + 1 + 1), z)
      BY <1>5, <3>1 DEF IsPrefixed
    <3>4. v[1] = p
      BY <3>2, <3>3, PrefixIs DEF Starts, Follows
    <3> QED
      BY <2>8, <3>4 DEF Prefixes
  <2> QED
    BY <2>9, <2>10
<1> QED
  BY <1>8, <1>9

\* Prefixed lines say which text they are of, and what follows them.
LEMMA LinesDecode ==
  ASSUME NEW x \in Line, NEW y \in Line, NEW p \in Prefixes, NEW r, NEW q,
         MayFollow(p, r), MayFollow(p, q), NEW w,
         Follows(w, Prefixed(p, x), r), Follows(w, Prefixed(p, y), q)
  PROVE  x = y /\ r = q
<1>0. r \in Line /\ q \in Line
  BY DEF MayFollow
<1> DEFINE t == Ending(x) \o r
           s == Ending(y) \o q
<1>1. PICK rest : IsPrefixed(rest, p, x, w, t)
  BY <1>0, PrefixedIs DEF Follows
<1>2. PICK last : IsPrefixed(last, p, y, w, s)
  BY <1>0, PrefixedIs DEF Follows
<1>3. Follows(t, Ending(x), r) /\ Follows(s, Ending(y), q)
  BY DEF Follows
<1> HIDE DEF t, s
<1>4. ~(Len(x) < Len(y))
  BY <1>1, <1>2, <1>3, NoShorterLines
<1>5. ~(Len(y) < Len(x))
  BY <1>1, <1>2, <1>3, NoShorterLines
<1>6. Len(x) \in Nat /\ Len(y) \in Nat
  BY DEF Line
<1>7. Len(x) = Len(y)
  BY <1>4, <1>5, <1>6
<1>8. rest[Len(x) + 1] = last[Len(x) + 1] /\ \A i \in 1 .. Len(x) : x[i] = y[i]
  BY <1>1, <1>2, <1>6, <1>7, SameLines
<1>9. t = s
  BY <1>1, <1>2, <1>7, <1>8 DEF IsPrefixed
<1>10. x = y
  BY <1>7, <1>8, SeqEqual DEF Line
<1>11. Ending(x) \o r = Ending(x) \o q
  BY <1>3, <1>9, <1>10 DEF Follows
<1>12. r = q
  BY <1>0, <1>11, EndingIs, SameRest DEF Line
<1> QED
  BY <1>10, <1>12

LEMMA CharactersAre ==
  /\ \A x \in Texts : x \in Line /\ Len(x) <= MaxText
  /\ \A x \in Paths : x \in Line
  /\ \A header \in Headers :
       header.session \in Line /\ header.id \in Line /\ header.root \in Line
<1>1. Characters \subseteq Symbols
  BY DEF Symbols, Escaped
<1>2. \A x \in Seq(Characters) : x \in Line
  BY <1>1 DEF Line
<1> QED
  BY <1>2, PreviewAssumption

LEMMA TwoAreSeq ==
  ASSUME NEW S, NEW a \in S, NEW b \in S
  PROVE  <<a, b>> \in Seq(S) /\ Len(<<a, b>>) = 2 /\ <<a, b>>[1] = a /\ <<a, b>>[2] = b
  OBVIOUS

\* A range has no line feed.
LEMMA RangeIs ==
  ASSUME NEW x \in Texts
  PROVE  LineRange(x) \in Line /\ \A i \in 1 .. Len(LineRange(x)) : LineRange(x)[i] # "LF"
<1>1. x \in Line /\ Len(x) \in Nat /\ Len(x) <= MaxText /\ MaxText \in Nat /\ DOMAIN x = 1 .. Len(x)
  BY CharactersAre, PreviewAssumption DEF Line
<1>2. CASE LineEnds(x) = {}
  <2>1. "0,0" \in Symbols /\ "0,0" # "LF"
    BY DEF Symbols, Escaped
  <2>2. PICK line \in Line : line = <<"0,0">> /\ Len(line) = 1 /\ line[1] = "0,0"
    BY <2>1, SingleIsSeq DEF Line
  <2>3. LineRange(x) = line
    BY <1>2, <2>2 DEF LineRange
  <2> QED
    <3>3. \A i \in 1 .. 1 : i = 1
      OBVIOUS
    <3>1. \A i \in 1 .. Len(line) : i = 1
      BY <2>2, <3>3, Zenon
    <3>2. \A i \in 1 .. Len(line) : line[i] # "LF"
      BY <2>1, <2>2, <3>1
    <3> QED
      BY <2>3, <3>2
<1>3. CASE LineEnds(x) # {}
  <2>1. LineEnds(x) \subseteq 1 .. Len(x)
    BY <1>1 DEF LineEnds
  <2>2. IsFiniteSet(1 .. Len(x)) /\ Cardinality(1 .. Len(x)) = Len(x)
    <3>1. 1 \in Int /\ Len(x) \in Int /\ (Len(x) - 1) + 1 = Len(x)
          /\ (1 > Len(x) => Len(x) = 0)
      BY <1>1
    <3>2. IsFiniteSet(1 .. Len(x))
          /\ Cardinality(1 .. Len(x)) = IF 1 > Len(x) THEN 0 ELSE Len(x) - 1 + 1
      BY <3>1, FS_Interval
    <3> QED
      BY <1>1, <3>1, <3>2
  <2>3. IsFiniteSet(LineEnds(x)) /\ Cardinality(LineEnds(x)) <= Len(x)
    BY <2>1, <2>2, FS_Subset
  <2>4. Cardinality(LineEnds(x)) \in Nat /\ Cardinality(LineEnds(x)) # 0
    BY <1>3, <2>3, FS_CardinalityType, FS_EmptySet
  <2>5. PICK n \in 1 .. MaxText : n = Cardinality(LineEnds(x))
    BY <1>1, <2>3, <2>4
  <2>6. PICK d \in Symbols : d = Decimal[n] /\ d # "LF"
    <3>1. Decimal[n] \in {Decimal[k] : k \in 1 .. MaxText}
      OBVIOUS
    <3>2. Decimal[n] \in Symbols
      BY <3>1 DEF Symbols
    <3>3. Decimal[n] # "LF"
      BY PreviewAssumption
    <3> QED
      BY <3>2, <3>3
  <2>7. "1," \in Symbols /\ "1," # "LF"
    BY DEF Symbols, Escaped
  <2>8. PICK line \in Line : line = <<"1,", d>> /\ Len(line) = 2 /\ line[1] = "1," /\ line[2] = d
    <3>1. <<"1,", d>> \in Seq(Symbols) /\ Len(<<"1,", d>>) = 2
          /\ <<"1,", d>>[1] = "1," /\ <<"1,", d>>[2] = d
      BY <2>7, TwoAreSeq
    <3> QED
      BY <3>1, Zenon DEF Line
  <2>9. LineRange(x) = line
    BY <1>3, <2>5, <2>6, <2>8 DEF LineRange
  <2> QED
    <3>3. \A i \in 1 .. 2 : i = 1 \/ i = 2
      OBVIOUS
    <3>1. \A i \in 1 .. Len(line) : i = 1 \/ i = 2
      BY <2>8, <3>3, Zenon
    <3>2. \A i \in 1 .. Len(line) : line[i] # "LF"
      BY <2>6, <2>7, <2>8, <3>1
    <3> QED
      BY <2>9, <3>2
<1> QED
  BY <1>2, <1>3

\* What stands before the first line feed is followed by the same.
LEMMA AfterFirstLine ==
  ASSUME NEW h \in Line, NEW g \in Line, NEW t \in Line, NEW s \in Line, NEW w,
         Follows(w, h, t), Follows(w, g, s), Len(t) # 0, Len(s) # 0, t[1] = "LF", s[1] = "LF",
         \A i \in 1 .. Len(h) : h[i] # "LF", \A i \in 1 .. Len(g) : g[i] # "LF"
  PROVE  t = s
<1>1. Len(h) \in Nat /\ Len(g) \in Nat /\ Len(t) \in Nat /\ Len(s) \in Nat
  BY DEF Line
<1>2. /\ \A i \in 1 .. Len(h) : w[i] = h[i]
      /\ \A i \in 1 .. Len(t) : w[Len(h) + i] = t[i]
      /\ \A i \in 1 .. Len(g) : w[i] = g[i]
      /\ \A i \in 1 .. Len(s) : w[Len(g) + i] = s[i]
      /\ Len(w) = Len(h) + Len(t) /\ Len(w) = Len(g) + Len(s)
  <2>1. h \in Seq(Symbols) /\ g \in Seq(Symbols) /\ t \in Seq(Symbols) /\ s \in Seq(Symbols)
    BY DEF Line
  <2>2. /\ Len(h \o t) = Len(h) + Len(t)
        /\ \A i \in 1 .. Len(h) : (h \o t)[i] = h[i]
        /\ \A i \in 1 .. Len(t) : (h \o t)[Len(h) + i] = t[i]
    BY <2>1, JoinedAre
  <2>3. /\ Len(g \o s) = Len(g) + Len(s)
        /\ \A i \in 1 .. Len(g) : (g \o s)[i] = g[i]
        /\ \A i \in 1 .. Len(s) : (g \o s)[Len(g) + i] = s[i]
    BY <2>1, JoinedAre
  <2>4. w = h \o t /\ w = g \o s
    BY DEF Follows
  <2> QED
    BY <2>2, <2>3, <2>4
<1>3. w[Len(h) + 1] = "LF" /\ w[Len(g) + 1] = "LF"
  BY <1>1, <1>2
<1>4. ~(Len(h) < Len(g))
  <2> SUFFICES ASSUME Len(h) < Len(g) PROVE FALSE
    OBVIOUS
  <2>1. Len(h) + 1 \in 1 .. Len(g)
    BY <1>1
  <2> QED
    BY <1>2, <1>3, <2>1
<1>5. ~(Len(g) < Len(h))
  <2> SUFFICES ASSUME Len(g) < Len(h) PROVE FALSE
    OBVIOUS
  <2>1. Len(g) + 1 \in 1 .. Len(h)
    BY <1>1
  <2> QED
    BY <1>2, <1>3, <2>1
<1>6. Len(h) = Len(g)
  BY <1>1, <1>4, <1>5
<1>7. Len(t) = Len(s) /\ \A i \in 1 .. Len(t) : t[i] = s[i]
  BY <1>1, <1>2, <1>6
<1> QED
  BY <1>7, SeqEqual DEF Line

\* New lines begin with their prefix, if there are any; the end follows them.
LEMMA LinesFollow ==
  ASSUME NEW x \in Line, NEW r, MayFollow("+", r), NEW w, Follows(w, Prefixed("+", x), r)
  PROVE  MayFollow("-", w)
<1>1. "+" \in Prefixes /\ r \in Line /\ Len(r) # 0 /\ r[1] = Closing
  BY DEF Prefixes, MayFollow
<1>2. PICK rest : IsPrefixed(rest, "+", x, Prefixed("+", x) \o r, Ending(x) \o r)
  BY <1>1, PrefixedIs
<1>3. w \in Line /\ w = Prefixed("+", x) \o r
  BY <1>1, PrefixedIs DEF Follows
<1>4. CASE Len(x) = 0
  <2>1. x = <<>> /\ Ended(x)
    BY <1>4 DEF Line, Ended
  <2>2. Ending(x) \o r = r
    BY <1>1, <2>1, EndingIs
  <2>3. w = r
    BY <1>2, <1>3, <1>4, <2>2 DEF IsPrefixed
  <2> QED
    BY <1>1, <2>3 DEF MayFollow
<1>5. CASE Len(x) # 0
  <2>1. 1 \in 1 .. Len(x)
    BY <1>5 DEF Line
  <2>2. Begins(x, 1)
    BY DEF Begins
  <2>3. PICK u \in Line : Starts(rest[1], "+", Begins(x, 1), u)
    BY <1>2, <2>1 DEF IsPrefixed
  <2>4. w = <<"+">> \o u
    BY <1>2, <1>3, <2>2, <2>3 DEF IsPrefixed, Starts, Follows
  <2>5. Len(<<"+">> \o u) # 0 /\ (<<"+">> \o u)[1] = "+"
    BY <1>1, PrefixIs
  <2> QED
    BY <1>3, <2>4, <2>5 DEF MayFollow
<1> QED
  BY <1>4, <1>5

-----------------------------------------------------------------------------
\* A text in parts, from the left and from the right.

LEMMA Shifted ==
  ASSUME NEW k \in Line, NEW a \in Line, NEW b \in Line, NEW w, NEW l, NEW r,
         Follows(w, l, b), Follows(l, k, a), Follows(r, a, b)
  PROVE  Follows(w, k, r)
<1>1. (k \o a) \o b = k \o (a \o b)
  BY ConcatAssociative DEF Line
<1> QED
  BY <1>1 DEF Follows

LEMMA FollowsIs ==
  ASSUME NEW a \in Line, NEW b \in Line
  PROVE  \E w \in Line : Follows(w, a, b) /\ w = a \o b
  BY JoinedAre DEF Line, Follows

LEMMA Singles ==
  ASSUME NEW c \in Symbols
  PROVE  <<c>> \in Line /\ Len(<<c>>) = 1 /\ <<c>>[1] = c
  BY SingleIsSeq DEF Line

\* Text without a line feed.
OnOneLine(s) == s \in Line /\ \A i \in 1 .. Len(s) : s[i] # "LF"

LEMMA OneLineAndAnother ==
  ASSUME NEW s, NEW t, OnOneLine(s), OnOneLine(t)
  PROVE  OnOneLine(s \o t)
<1>1. s \in Seq(Symbols) /\ t \in Seq(Symbols)
  BY DEF Line, OnOneLine
<1>2. /\ s \o t \in Seq(Symbols) /\ Len(s \o t) = Len(s) + Len(t)
      /\ \A i \in 1 .. Len(s) : (s \o t)[i] = s[i]
      /\ \A i \in 1 .. Len(t) : (s \o t)[Len(s) + i] = t[i]
  BY <1>1, JoinedAre
<1>3. Len(s) \in Nat /\ Len(t) \in Nat
  BY <1>1
<1>4. ASSUME NEW i \in 1 .. Len(s) + Len(t)
      PROVE  i \in 1 .. Len(s) \/ (i - Len(s) \in 1 .. Len(t) /\ i = Len(s) + (i - Len(s)))
  BY <1>3
<1>5. ASSUME NEW i \in 1 .. Len(s \o t) PROVE (s \o t)[i] # "LF"
  BY <1>2, <1>4 DEF OnOneLine
<1> QED
  BY <1>2, <1>5 DEF Line, OnOneLine

LEMMA OneSymbol ==
  ASSUME NEW c \in Symbols, c # "LF"
  PROVE  OnOneLine(<<c>>)
<1>1. PICK s \in Line : s = <<c>> /\ Len(s) = 1 /\ s[1] = c
  BY Singles
<1>2. \A i \in 1 .. 1 : i = 1
  OBVIOUS
<1>3. \A i \in 1 .. Len(s) : i = 1
  BY <1>1, <1>2, Zenon
<1> QED
  BY <1>1, <1>3 DEF OnOneLine

LEMMA HunkIs ==
  ASSUME NEW content \in WriteTexts
  PROVE  OnOneLine(Hunk(content))
<1>1. content.old \in Texts /\ content.new \in Texts
  BY DEF WriteTexts
<1>2. PICK a : a = LineRange(content.old) /\ OnOneLine(a)
  BY <1>1, RangeIs DEF OnOneLine
<1>3. PICK b : b = LineRange(content.new) /\ OnOneLine(b)
  BY <1>1, RangeIs DEF OnOneLine
<1>4. PICK mark : mark = <<"@@ -">> /\ OnOneLine(mark)
  BY OneSymbol DEF Symbols
<1>5. PICK plus : plus = <<" +">> /\ OnOneLine(plus)
  BY OneSymbol DEF Symbols
<1>6. PICK g : g = mark \o a /\ OnOneLine(g)
  BY <1>2, <1>4, OneLineAndAnother
<1>7. PICK h : h = g \o plus /\ OnOneLine(h)
  BY <1>5, <1>6, OneLineAndAnother
<1>8. OnOneLine(h \o b)
  BY <1>3, <1>7, OneLineAndAnother
<1>9. Hunk(content) = h \o b
  BY <1>2, <1>3, <1>4, <1>5, <1>6, <1>7 DEF Hunk
<1> QED
  BY <1>8, <1>9

LEMMA LineFeedIs ==
  ASSUME NEW w, NEW b \in Line, Follows(w, <<"LF">>, b)
  PROVE  w \in Line /\ Len(w) # 0 /\ w[1] = "LF" /\ <<"LF">> \in Line
<1>1. "LF" \in Symbols
  BY DEF Symbols, Escaped
<1>2. /\ <<"LF">> \o b \in Line /\ Len(<<"LF">> \o b) = 1 + Len(b)
      /\ (<<"LF">> \o b)[1] = "LF"
  BY <1>1, FirstIs DEF Line
<1>3. Len(b) \in Nat
  BY DEF Line
<1> QED
  BY <1>1, <1>2, <1>3, Singles DEF Follows

LEMMA SameAfter ==
  ASSUME NEW w, NEW a \in Line, NEW r \in Line, NEW q \in Line, Follows(w, a, r), Follows(w, a, q)
  PROVE  r = q
<1>1. a \o r = a \o q
  BY DEF Follows
<1> QED
  BY <1>1, SameRest DEF Line

LEMMA FirstFollows ==
  ASSUME NEW c \in Symbols, NEW r \in Line, NEW w, Follows(w, <<c>>, r)
  PROVE  w[1] = c
  BY FirstIs DEF Follows, Line

\* Two parts of a text, one after the other.
LEMMA InParts ==
  ASSUME NEW a \in Line, NEW b \in Line, NEW r \in Line, NEW w, Follows(w, a \o b, r)
  PROVE  \E q \in Line : Follows(w, a, q) /\ Follows(q, b, r)
<1>1. PICK l \in Line : Follows(l, a, b) /\ l = a \o b
  BY FollowsIs
<1>2. PICK q \in Line : Follows(q, b, r)
  BY FollowsIs
<1> QED
  BY <1>1, <1>2, Shifted

\* A line with a label says which label and which text it is of.
LEMMA LabelledInLine ==
  ASSUME NEW label \in Symbols, NEW x \in Line
  PROVE  Labelled(label, x) \in Line
<1>1. PICK a \in Line : a = <<label>>
  BY Singles
<1>2. PICK b \in Line : b = Literal(x)
  BY LiteralInLine
<1>3. PICK c \in Line : c = <<"LF">>
  BY Singles DEF Symbols, Escaped
<1>4. PICK l \in Line : l = a \o b
  BY FollowsIs
<1>5. l \o c \in Line
  BY FollowsIs
<1> QED
  BY <1>1, <1>2, <1>3, <1>4, <1>5 DEF Labelled

LEMMA LabelledIs ==
  ASSUME NEW label \in Symbols, NEW x \in Line, NEW r \in Line, NEW w,
         Follows(w, Labelled(label, x), r)
  PROVE  \E p, q \in Line : /\ Follows(w, <<label>>, p) /\ Follows(p, Literal(x), q)
                            /\ Follows(q, <<"LF">>, r)
<1>1. PICK a \in Line : a = <<label>>
  BY Singles
<1>2. PICK b \in Line : b = Literal(x)
  BY LiteralInLine
<1>3. PICK c \in Line : c = <<"LF">>
  BY Singles DEF Symbols, Escaped
<1>4. PICK l \in Line : l = a \o b
  BY FollowsIs
<1>5. Labelled(label, x) = l \o c
  BY <1>1, <1>2, <1>3, <1>4 DEF Labelled
<1>6. PICK q \in Line : Follows(w, l, q) /\ Follows(q, c, r)
  BY <1>5, InParts
<1>7. PICK p \in Line : Follows(w, a, p) /\ Follows(p, b, q)
  BY <1>4, <1>6, InParts
<1> QED
  BY <1>1, <1>2, <1>3, <1>6, <1>7

LEMMA LabelledDecodes ==
  ASSUME NEW label \in Symbols, NEW x \in Line, NEW y \in Line, NEW r \in Line, NEW s \in Line,
         NEW w, Follows(w, Labelled(label, x), r), Follows(w, Labelled(label, y), s)
  PROVE  x = y /\ r = s
<1>1. PICK p \in Line, q \in Line :
        Follows(w, <<label>>, p) /\ Follows(p, Literal(x), q) /\ Follows(q, <<"LF">>, r)
  BY LabelledIs
<1>2. PICK u \in Line, v \in Line :
        Follows(w, <<label>>, u) /\ Follows(u, Literal(y), v) /\ Follows(v, <<"LF">>, s)
  BY LabelledIs
<1>3. <<label>> \in Line /\ <<"LF">> \in Line
  BY Singles DEF Symbols, Escaped
<1>4. p = u
  BY <1>1, <1>2, <1>3, SameAfter
<1>5. q[1] = "LF" /\ v[1] = "LF"
  BY <1>1, <1>2, LineFeedIs
<1>6. x = y /\ q = v
  BY <1>1, <1>2, <1>4, <1>5, LiteralsDecode
<1> QED
  BY <1>1, <1>2, <1>3, <1>6, SameAfter

LEMMA LabelledBegins ==
  ASSUME NEW label \in Symbols, NEW x \in Line, NEW r \in Line, NEW w,
         Follows(w, Labelled(label, x), r)
  PROVE  w[1] = label
<1>1. PICK p \in Line : Follows(w, <<label>>, p)
  BY LabelledIs
<1> QED
  BY <1>1, FirstFollows

\* Three of them: a header, and a command.
Three(l, x, m, y, n, z) == Labelled(l, x) \o Labelled(m, y) \o Labelled(n, z)

LEMMA ThreeInLine ==
  ASSUME NEW l \in Symbols, NEW m \in Symbols, NEW n \in Symbols,
         NEW x \in Line, NEW y \in Line, NEW z \in Line
  PROVE  Three(l, x, m, y, n, z) \in Line
<1>1. PICK a \in Line : a = Labelled(l, x)
  BY LabelledInLine
<1>2. PICK b \in Line : b = Labelled(m, y)
  BY LabelledInLine
<1>3. PICK c \in Line : c = Labelled(n, z)
  BY LabelledInLine
<1>4. PICK k \in Line : k = a \o b
  BY FollowsIs
<1>5. k \o c \in Line
  BY FollowsIs
<1> QED
  BY <1>1, <1>2, <1>3, <1>4, <1>5 DEF Three

\* What follows the first of them, and the second.
IsThree(w, l, x, m, y, n, z, r, p, q) ==
  /\ p \in Line /\ q \in Line
  /\ Follows(w, Labelled(l, x), p)
  /\ Follows(p, Labelled(m, y), q)
  /\ Follows(q, Labelled(n, z), r)

LEMMA ThreeAre ==
  ASSUME NEW l \in Symbols, NEW m \in Symbols, NEW n \in Symbols,
         NEW x \in Line, NEW y \in Line, NEW z \in Line, NEW r \in Line,
         NEW w, Follows(w, Three(l, x, m, y, n, z), r)
  PROVE  \E p, q : IsThree(w, l, x, m, y, n, z, r, p, q)
<1>1. PICK a \in Line : a = Labelled(l, x)
  BY LabelledInLine
<1>2. PICK b \in Line : b = Labelled(m, y)
  BY LabelledInLine
<1>3. PICK c \in Line : c = Labelled(n, z)
  BY LabelledInLine
<1>4. PICK k \in Line : k = a \o b
  BY FollowsIs
<1>5. Three(l, x, m, y, n, z) = k \o c
  BY <1>1, <1>2, <1>3, <1>4 DEF Three
<1>6. PICK q \in Line : Follows(w, k, q) /\ Follows(q, c, r)
  BY <1>5, InParts
<1>7. PICK p \in Line : Follows(w, a, p) /\ Follows(p, b, q)
  BY <1>4, <1>6, InParts
<1>8. IsThree(w, l, x, m, y, n, z, r, p, q)
  BY <1>1, <1>2, <1>3, <1>6, <1>7 DEF IsThree
<1> QED
  BY <1>8

LEMMA ThreeDecode ==
  ASSUME NEW l \in Symbols, NEW m \in Symbols, NEW n \in Symbols,
         NEW x \in Line, NEW y \in Line, NEW z \in Line,
         NEW a \in Line, NEW b \in Line, NEW c \in Line,
         NEW r \in Line, NEW s \in Line, NEW w,
         Follows(w, Three(l, x, m, y, n, z), r), Follows(w, Three(l, a, m, b, n, c), s)
  PROVE  x = a /\ y = b /\ z = c /\ r = s
<1>1. PICK p, q : IsThree(w, l, x, m, y, n, z, r, p, q)
  BY ThreeAre
<1>2. PICK u, v : IsThree(w, l, a, m, b, n, c, s, u, v)
  BY ThreeAre
<1>3. x = a /\ p = u
  BY <1>1, <1>2, LabelledDecodes DEF IsThree
<1>4. y = b /\ q = v
  BY <1>1, <1>2, <1>3, LabelledDecodes DEF IsThree
<1>5. z = c /\ r = s
  BY <1>1, <1>2, <1>4, LabelledDecodes DEF IsThree
<1> QED
  BY <1>3, <1>4, <1>5

LEMMA LabelsAre ==
  /\ "Session: " \in Symbols /\ "Request: " \in Symbols /\ "Workspace: " \in Symbols
  /\ "Write: " \in Symbols /\ "Command: " \in Symbols /\ "Working directory: " \in Symbols
  /\ "Danger: " \in Symbols /\ Closing \in Symbols
  BY DEF Symbols, Escaped

\* A write: a labelled path, a hunk, a line feed, the old text and the new one.
IsWrite(w, content, r, p, q, u, v) ==
  /\ p \in Line /\ q \in Line /\ u \in Line /\ v \in Line
  /\ Follows(w, Labelled("Write: ", content.path), p)
  /\ Follows(p, Hunk(content), q)
  /\ Follows(q, <<"LF">>, u)
  /\ Follows(u, Prefixed("-", content.old), v)
  /\ Follows(v, Prefixed("+", content.new), r)

LEMMA WriteIs ==
  ASSUME NEW content \in WriteTexts
  PROVE  /\ ContentText(content) \in Line
         /\ \A w : \A r \in Line : Follows(w, ContentText(content), r) =>
              \E p, q, u, v : IsWrite(w, content, r, p, q, u, v)
<1>0. /\ content.kind = "write" /\ content.path \in Line
      /\ content.old \in Line /\ content.new \in Line
  BY CharactersAre DEF WriteTexts
<1>1. PICK a1 \in Line : a1 = Labelled("Write: ", content.path)
  BY <1>0, LabelledInLine, LabelsAre
<1>2. PICK a2 \in Line : a2 = Hunk(content)
  BY HunkIs DEF OnOneLine
<1>3. PICK a3 \in Line : a3 = <<"LF">>
  BY Singles DEF Symbols, Escaped
<1>4. PICK a4 \in Line : a4 = Prefixed("-", content.old)
  BY <1>0, PrefixedInLine DEF Prefixes
<1>5. PICK a5 \in Line : a5 = Prefixed("+", content.new)
  BY <1>0, PrefixedInLine DEF Prefixes
<1>6. PICK l2 \in Line : l2 = a1 \o a2
  BY FollowsIs
<1>7. PICK l3 \in Line : l3 = l2 \o a3
  BY FollowsIs
<1>8. PICK l4 \in Line : l4 = l3 \o a4
  BY FollowsIs
<1>9. ContentText(content) = l4 \o a5
  BY <1>0, <1>1, <1>2, <1>3, <1>4, <1>5, <1>6, <1>7, <1>8 DEF ContentText
<1>10. l4 \o a5 \in Line
  BY FollowsIs
<1>11. ASSUME NEW w, NEW r \in Line, Follows(w, l4 \o a5, r)
       PROVE  \E p, q, u, v : IsWrite(w, content, r, p, q, u, v)
  <2>1. PICK v \in Line : Follows(w, l4, v) /\ Follows(v, a5, r)
    BY <1>11, InParts
  <2>2. PICK u \in Line : Follows(w, l3, u) /\ Follows(u, a4, v)
    BY <1>8, <2>1, InParts
  <2>3. PICK q \in Line : Follows(w, l2, q) /\ Follows(q, a3, u)
    BY <1>7, <2>2, InParts
  <2>4. PICK p \in Line : Follows(w, a1, p) /\ Follows(p, a2, q)
    BY <1>6, <2>3, InParts
  <2>5. IsWrite(w, content, r, p, q, u, v)
    BY <1>1, <1>2, <1>3, <1>4, <1>5, <2>1, <2>2, <2>3, <2>4 DEF IsWrite
  <2> QED
    BY <2>5
<1> QED
  BY <1>9, <1>10, <1>11

\* Two writes with the same text are the same write.
LEMMA WritesDecode ==
  ASSUME NEW c \in WriteTexts, NEW d \in WriteTexts, NEW w, NEW r, MayFollow("+", r),
         Follows(w, ContentText(c), r), Follows(w, ContentText(d), r)
  PROVE  c = d
<1>0. r \in Line
  BY DEF MayFollow
<1>1. PICK p, q, u, v : IsWrite(w, c, r, p, q, u, v)
  BY <1>0, WriteIs
<1>2. PICK e, f, g, h : IsWrite(w, d, r, e, f, g, h)
  BY <1>0, WriteIs
<1>3. /\ c.path \in Line /\ c.old \in Line /\ c.new \in Line
      /\ d.path \in Line /\ d.old \in Line /\ d.new \in Line
  BY CharactersAre DEF WriteTexts
<1>4. c.path = d.path /\ p = e
  <2>1. p \in Line /\ e \in Line
    BY <1>1, <1>2 DEF IsWrite
  <2>2. Follows(w, Labelled("Write: ", c.path), p) /\ Follows(w, Labelled("Write: ", d.path), e)
    BY <1>1, <1>2 DEF IsWrite
  <2> QED
    BY <1>3, <2>1, <2>2, LabelledDecodes, LabelsAre
<1>5. q = f
  <2>1. OnOneLine(Hunk(c)) /\ OnOneLine(Hunk(d))
    BY HunkIs
  <2>2. q \in Line /\ f \in Line /\ u \in Line /\ g \in Line
    BY <1>1, <1>2 DEF IsWrite
  <2>3. Len(q) # 0 /\ q[1] = "LF" /\ Len(f) # 0 /\ f[1] = "LF"
    BY <1>1, <1>2, <2>2, LineFeedIs DEF IsWrite
  <2>4. Follows(p, Hunk(c), q) /\ Follows(p, Hunk(d), f)
    BY <1>1, <1>2, <1>4 DEF IsWrite
  <2> QED
    BY <2>1, <2>2, <2>3, <2>4, AfterFirstLine DEF OnOneLine
<1>6. u = g
  <2>1. <<"LF">> \in Line
    BY Singles DEF Symbols, Escaped
  <2> QED
    BY <1>1, <1>2, <1>5, <2>1, SameAfter DEF IsWrite
<1>7. "-" \in Prefixes /\ "+" \in Prefixes
  BY DEF Prefixes
<1>8. c.old = d.old /\ v = h
  <2>1. MayFollow("-", v) /\ MayFollow("-", h)
    BY <1>1, <1>2, <1>3, LinesFollow DEF IsWrite
  <2>2. Follows(u, Prefixed("-", c.old), v) /\ Follows(u, Prefixed("-", d.old), h)
    BY <1>1, <1>2, <1>6 DEF IsWrite
  <2> QED
    BY <1>3, <1>7, <2>1, <2>2, LinesDecode
<1>9. c.new = d.new
  <2>1. Follows(v, Prefixed("+", c.new), r) /\ Follows(v, Prefixed("+", d.new), r)
    BY <1>1, <1>2, <1>8 DEF IsWrite
  <2> QED
    BY <1>3, <1>7, <2>1, LinesDecode
<1> QED
  BY <1>4, <1>8, <1>9 DEF WriteTexts

\* Two commands with the same text are the same but for the digest.
LEMMA CommandIs ==
  ASSUME NEW c \in CommandTexts
  PROVE  /\ c.kind = "command"
         /\ c.command \in Line /\ c.directory \in Line /\ c.danger \in Line
         /\ ContentText(c) = Three("Command: ", c.command, "Working directory: ", c.directory,
                                   "Danger: ", c.danger)
<1>1. c.kind = "command" /\ c.command \in Paths /\ c.directory \in Paths /\ c.danger \in Paths
  BY DEF CommandTexts
<1> QED
  BY <1>1, CharactersAre DEF ContentText, Three

LEMMA CommandsDecode ==
  ASSUME NEW c \in CommandTexts, NEW d \in CommandTexts, NEW w, NEW r \in Line,
         Follows(w, ContentText(c), r), Follows(w, ContentText(d), r)
  PROVE  c.command = d.command /\ c.directory = d.directory /\ c.danger = d.danger
<1>1. PICK l \in Symbols, m \in Symbols, n \in Symbols :
        l = "Command: " /\ m = "Working directory: " /\ n = "Danger: "
  BY LabelsAre
<1>2. PICK x \in Line, y \in Line, z \in Line :
        x = c.command /\ y = c.directory /\ z = c.danger
  BY CommandIs
<1>3. PICK e \in Line, f \in Line, g \in Line :
        e = d.command /\ f = d.directory /\ g = d.danger
  BY CommandIs
<1>4. Follows(w, Three(l, x, m, y, n, z), r)
  BY <1>1, <1>2, CommandIs
<1>5. Follows(w, Three(l, e, m, f, n, g), r)
  BY <1>1, <1>3, CommandIs
<1>6. x = e /\ y = f /\ z = g
  BY <1>4, <1>5, ThreeDecode
<1> QED
  BY <1>2, <1>3, <1>6

\* A write begins with another label than a command.
LEMMA KindsDiffer ==
  ASSUME NEW c \in WriteTexts, NEW d \in CommandTexts, NEW w, NEW r \in Line,
         Follows(w, ContentText(c), r), Follows(w, ContentText(d), r)
  PROVE  FALSE
<1>1. PICK p, q, u, v : IsWrite(w, c, r, p, q, u, v)
  BY WriteIs
<1>2. c.path \in Line
  BY CharactersAre DEF WriteTexts
<1>3. w[1] = "Write: "
  BY <1>1, <1>2, LabelledBegins, LabelsAre DEF IsWrite
<1>4. PICK s \in Line : Follows(w, Labelled("Command: ", d.command), s)
  <2>1. Follows(w, Three("Command: ", d.command, "Working directory: ", d.directory,
                         "Danger: ", d.danger), r)
    BY CommandIs
  <2>2. d.command \in Line /\ d.directory \in Line /\ d.danger \in Line
    BY CommandIs
  <2>3. PICK s, t : IsThree(w, "Command: ", d.command, "Working directory: ", d.directory,
                            "Danger: ", d.danger, r, s, t)
    BY <2>1, <2>2, ThreeAre, LabelsAre
  <2> QED
    BY <2>3 DEF IsThree
<1>5. w[1] = "Command: "
  BY <1>4, CommandIs, LabelledBegins, LabelsAre
<1> QED
  BY <1>3, <1>5

\* A preview: a header, a content, and the end.
LEMMA PreviewIs ==
  ASSUME NEW request \in Asked
  PROVE  LET h == request.header IN
         /\ h.session \in Line /\ h.id \in Line /\ h.root \in Line
         /\ \E body \in Line :
              /\ Follows(PreviewText(request),
                         Three("Session: ", h.session, "Request: ", h.id, "Workspace: ", h.root),
                         body)
              /\ Follows(body, ContentText(request.content), <<Closing>>)
<1> DEFINE h == request.header
<1>1. h.session \in Line /\ h.id \in Line /\ h.root \in Line
  BY CharactersAre DEF Asked
<1>2. PICK a \in Line :
        a = Three("Session: ", h.session, "Request: ", h.id, "Workspace: ", h.root)
  BY <1>1, ThreeInLine, LabelsAre
<1>3. ContentText(request.content) \in Line
  <2>1. request.content \in WriteTexts \/ request.content \in CommandTexts
    BY DEF Asked
  <2>2. CASE request.content \in WriteTexts
    BY <2>2, WriteIs
  <2>3. CASE request.content \in CommandTexts
    <3>1. PICK c : c = request.content
      OBVIOUS
    <3>2. /\ c.command \in Line /\ c.directory \in Line /\ c.danger \in Line
          /\ ContentText(c) = Three("Command: ", c.command, "Working directory: ", c.directory,
                                    "Danger: ", c.danger)
      BY <2>3, <3>1, CommandIs
    <3>3. ContentText(c) \in Line
      <4>1. Three("Command: ", c.command, "Working directory: ", c.directory,
                  "Danger: ", c.danger) \in Line
        BY <3>2, ThreeInLine, LabelsAre
      <4> QED
        BY <3>2, <4>1
    <3> QED
      BY <3>1, <3>3
  <2> QED
    BY <2>1, <2>2, <2>3
<1>4. PICK b \in Line : b = ContentText(request.content)
  BY <1>3
<1>5. PICK c \in Line : c = <<Closing>>
  BY Singles, LabelsAre
<1>6. a = HeaderText(h)
  BY <1>2 DEF HeaderText, Three
<1>7. PICK l \in Line : l = a \o b
  BY FollowsIs
<1>8. PreviewText(request) = l \o c
  BY <1>4, <1>5, <1>6, <1>7 DEF PreviewText, Closing
<1>9. Follows(PreviewText(request), l, c)
  BY <1>8 DEF Follows
<1>10. PICK body \in Line : Follows(PreviewText(request), a, body) /\ Follows(body, b, c)
  BY <1>7, <1>9, InParts
<1> QED
  BY <1>1, <1>2, <1>4, <1>5, <1>10

\* A preview is of one request only, up to the digest of a command.
LEMMA PreviewsDecode ==
  ASSUME NEW c \in Asked, NEW d \in Asked, PreviewText(c) = PreviewText(d)
  PROVE  Alike(c, d)
<1>0. /\ c = [header |-> c.header, content |-> c.content]
      /\ d = [header |-> d.header, content |-> d.content]
      /\ c.header \in Headers /\ d.header \in Headers
      /\ c.content \in WriteTexts \cup CommandTexts /\ d.content \in WriteTexts \cup CommandTexts
  BY DEF Asked
<1>1. PICK p \in Line :
        /\ Follows(PreviewText(c), Three("Session: ", c.header.session, "Request: ", c.header.id,
                                         "Workspace: ", c.header.root), p)
        /\ Follows(p, ContentText(c.content), <<Closing>>)
  BY PreviewIs
<1>2. PICK q \in Line :
        /\ Follows(PreviewText(c), Three("Session: ", d.header.session, "Request: ", d.header.id,
                                         "Workspace: ", d.header.root), q)
        /\ Follows(q, ContentText(d.content), <<Closing>>)
  BY PreviewIs
<1>3. /\ c.header.session = d.header.session /\ c.header.id = d.header.id
      /\ c.header.root = d.header.root /\ p = q
  <2>1. PICK l \in Symbols, m \in Symbols, n \in Symbols :
          l = "Session: " /\ m = "Request: " /\ n = "Workspace: "
    BY LabelsAre
  <2>2. PICK x \in Line, y \in Line, z \in Line :
          x = c.header.session /\ y = c.header.id /\ z = c.header.root
    BY PreviewIs
  <2>3. PICK e \in Line, f \in Line, g \in Line :
          e = d.header.session /\ f = d.header.id /\ g = d.header.root
    BY PreviewIs
  <2>4. PICK w : w = PreviewText(c)
    OBVIOUS
  <2>5. Follows(w, Three(l, x, m, y, n, z), p)
    BY <1>1, <2>1, <2>2, <2>4
  <2>6. Follows(w, Three(l, e, m, f, n, g), q)
    BY <1>2, <2>1, <2>3, <2>4
  <2>7. x = e /\ y = f /\ z = g /\ p = q
    BY <2>5, <2>6, ThreeDecode
  <2> QED
    BY <2>2, <2>3, <2>7
<1>4. c.header = d.header
  <2>1. /\ c.header = [session |-> c.header.session, id |-> c.header.id, root |-> c.header.root]
        /\ d.header = [session |-> d.header.session, id |-> d.header.id, root |-> d.header.root]
    BY <1>0, PreviewAssumption
  <2> QED
    BY <1>3, <2>1
<1>5. PICK r \in Line : r = <<Closing>> /\ MayFollow("+", r)
  <2>1. PICK r \in Line : r = <<Closing>> /\ Len(r) = 1 /\ r[1] = Closing
    BY Singles, LabelsAre
  <2>2. MayFollow("+", r)
    BY <2>1 DEF MayFollow
  <2> QED
    BY <2>1, <2>2
<1>6. CASE c.content \in WriteTexts /\ d.content \in WriteTexts
  <2>1. c.content = d.content
    BY <1>1, <1>2, <1>3, <1>5, <1>6, WritesDecode
  <2> QED
    BY <1>0, <1>4, <2>1 DEF Alike
<1>7. CASE c.content \in CommandTexts /\ d.content \in CommandTexts
  <2>1. /\ c.content.command = d.content.command /\ c.content.directory = d.content.directory
        /\ c.content.danger = d.content.danger
    BY <1>1, <1>2, <1>3, <1>5, <1>7, CommandsDecode
  <2>2. d.content = [c.content EXCEPT !.digest = d.content.digest]
        /\ d.content.digest \in Digests /\ c.content.kind = "command"
    BY <1>7, <2>1 DEF CommandTexts
  <2>3. d = [c EXCEPT !.content = [c.content EXCEPT !.digest = d.content.digest]]
    BY <1>0, <1>4, <2>2
  <2> QED
    BY <2>2, <2>3 DEF Alike
<1>8. CASE ~(c.content \in WriteTexts <=> d.content \in WriteTexts)
  BY <1>0, <1>1, <1>2, <1>3, <1>5, <1>8, KindsDiffer
<1> QED
  BY <1>0, <1>6, <1>7, <1>8

\* The digest of a command is not to be seen.
LEMMA AlikeLookTheSame ==
  ASSUME NEW c \in Asked, NEW d, Alike(c, d)
  PROVE  PreviewText(c) = PreviewText(d)
<1>1. CASE d = c
  BY <1>1
<1>2. ASSUME c.content.kind = "command", NEW digest, d = [c EXCEPT !.content.digest = digest]
      PROVE  PreviewText(c) = PreviewText(d)
  <2>1. c.content \in CommandTexts
    BY <1>2 DEF Asked, WriteTexts
  <2>2. d.header = c.header /\ d.content = [c.content EXCEPT !.digest = digest]
    BY <1>2 DEF Asked
  <2>3. /\ d.content.kind = c.content.kind /\ d.content.command = c.content.command
        /\ d.content.directory = c.content.directory /\ d.content.danger = c.content.danger
    BY <2>1, <2>2 DEF CommandTexts
  <2> QED
    BY <1>2, <2>2, <2>3 DEF PreviewText, ContentText
<1> QED
  BY <1>1, <1>2 DEF Alike

LEMMA ShownIsAsked == PreviewSpec => [](shown \in Asked)
<1>1. PreviewInit => shown \in Asked
  BY DEF PreviewInit
<1>2. shown \in Asked /\ [PreviewNext]_shown => (shown \in Asked)'
  <2> SUFFICES ASSUME shown \in Asked, [PreviewNext]_shown PROVE shown' \in Asked
    OBVIOUS
  <2>1. CASE UNCHANGED shown
    BY <2>1
  <2>2. ASSUME shown.content.kind = "write", NEW text \in Texts,
               shown' = [shown EXCEPT !.content.new = text]
        PROVE  shown' \in Asked
    BY <2>2 DEF Asked, WriteTexts, CommandTexts
  <2>3. ASSUME shown.content.kind = "command", NEW digest \in Digests,
               shown' = [shown EXCEPT !.content.digest = digest]
        PROVE  shown' \in Asked
    BY <2>3 DEF Asked, WriteTexts, CommandTexts
  <2> QED
    BY <2>1, <2>2, <2>3 DEF PreviewNext
<1> QED
  BY <1>1, <1>2, PTL DEF PreviewSpec

\* Whatever the texts, paths, headers and lengths: what the person reads
\* before a decision is one request and no other, up to the digest of a
\* command, and the digest is never to be read (ApprovalPreview::text).
THEOREM PreviewIsMeant == PreviewSpec => []SeenIsMeant
<1>1. ASSUME shown \in Asked PROVE SeenIsMeant
  <2>1. \A request \in Asked : PreviewText(request) = PreviewText(shown) <=> Alike(shown, request)
    BY <1>1, PreviewsDecode, AlikeLookTheSame
  <2> QED
    BY <2>1 DEF SeenIsMeant, Drawn
<1> QED
  BY <1>1, ShownIsAsked, PTL
=============================================================================
