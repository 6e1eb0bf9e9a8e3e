--------------------------- MODULE PublicRunEvents ---------------------------
(***************************************************************************)
(* Pages of a run's public events: PublicPage::parse and the read of       *)
(* native/tuig/src/public_run_events.rs.  An event is its run, sequence,   *)
(* identifier, the size of its text and whether it ends the run; its run   *)
(* is NoRun if it fails PublicEvent::parse.                                *)
(***************************************************************************)
EXTENDS Naturals, Sequences

CONSTANTS PublicRuns,   \* runs
          NoRun,        \* no run
          MaxEvents,    \* MAX_EVENTS, of a page and of the view
          Sizes         \* the size of each event of a run, in the order of the log

ASSUME LimitAssumption ==
  MaxEvents \in Nat \ {0} /\ NoRun \notin PublicRuns /\ Sizes \in Seq(Nat)

Last == Len(Sizes)

\* The log of a run; `ends` if its last event is a terminal one.
Event(run, n, ends) ==
  [run |-> run, seq |-> n, id |-> n, size |-> Sizes[n], terminal |-> ends /\ n = Last]

Final(events) == events # <<>> /\ events[Len(events)].terminal

Unparsed == [ok |-> FALSE, denied |-> FALSE]
Denied   == [ok |-> FALSE, denied |-> TRUE]

\* Sequences follow `after` one by one.
Contiguous(events, after) == \A i \in DOMAIN events : events[i].seq = after + i

\* The loop over the raw events.
EventsFit(events, run, after) ==
  /\ Len(events) <= MaxEvents
  /\ \A i \in DOMAIN events : events[i].run = run
  /\ Contiguous(events, after)
  /\ \A i, j \in DOMAIN events : events[i].id = events[j].id => i = j
  /\ \A i \in DOMAIN events : events[i].terminal => i = Len(events)

NextAfter(events, after) == IF events = <<>> THEN after ELSE events[Len(events)].seq

\* An empty page can say that the run has ended, once it has begun.
Ended(page, after) == Final(page.events) \/ (page.events = <<>> /\ after > 0 /\ page.terminal)

\* PublicPage::parse
Parse(page, run, after) ==
  IF /\ page.run = run /\ page.after = after
     /\ EventsFit(page.events, run, after)
     /\ page.next = NextAfter(page.events, after)
     /\ page.terminal = Ended(page, after)
     /\ page.more => page.events # <<>> /\ ~page.terminal
  THEN [ok |-> TRUE, events |-> page.events, next |-> page.next,
        more |-> page.more, terminal |-> page.terminal]
  ELSE Unparsed

\* The page a server sends that has written so much of the log.
Page(run, after, written, ends, upto) ==
  LET events == [i \in 1 .. upto - after |-> Event(run, after + i, ends)] IN
  [run |-> run, after |-> after, events |-> events, next |-> upto,
   more |-> upto < written, terminal |-> Final(events)]

\* Pages that are wrong in one respect: they are another run's, another
\* cursor's, they leave out or repeat an event, are not the last or claim to.
WrongPages(page) ==
  LET n == Len(page.events) IN
  {[page EXCEPT !.run = run] : run \in PublicRuns \cup {NoRun}}
  \cup {[page EXCEPT !.after = @ + 1], [page EXCEPT !.next = @ + 1],
        [page EXCEPT !.more = ~@], [page EXCEPT !.terminal = ~@]}
  \cup {[page EXCEPT !.events[i].run = run] : i \in 1 .. n, run \in PublicRuns \cup {NoRun}}
  \cup {[page EXCEPT !.events[i].id = id] : i \in 1 .. n, id \in 1 .. Last}
  \cup (IF n > 0 THEN {[page EXCEPT !.events = Tail(@)]} ELSE {})
  \cup {[page EXCEPT !.events[i].terminal = TRUE, !.terminal = TRUE, !.more = FALSE] : i \in 1 .. n}
=============================================================================
