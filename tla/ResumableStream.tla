--------------------------- MODULE ResumableStream ---------------------------
(***************************************************************************)
(* What a resumable event stream promises a reader: the events 1..Last of  *)
(* a task's log arrive in order, a broken stream is resumed from a         *)
(* position the reader has reached, and nothing between the two is lost.   *)
(***************************************************************************)
EXTENDS Naturals

CONSTANT Last   \* the number of events in the log

VARIABLES
  seen,      \* the reader has every event up to this one
  at,        \* the last event of this connection
  resume     \* where the next connection starts

streamVars == <<seen, at, resume>>

StreamInit == seen = 0 /\ at = 0 /\ resume = 0

\* The next event arrives; it may be one that was seen before the break.
Deliver ==
  /\ at < Last
  /\ at' = at + 1
  /\ seen' = IF at' > seen THEN at' ELSE seen
  /\ resume' \in resume .. at'

Reconnect ==
  /\ at' = resume
  /\ UNCHANGED <<seen, resume>>

StreamNext == Deliver \/ Reconnect

StreamSpec == StreamInit /\ [][StreamNext]_streamVars
=============================================================================
