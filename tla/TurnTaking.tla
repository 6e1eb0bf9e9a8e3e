----------------------------- MODULE TurnTaking -----------------------------
(***************************************************************************)
(* What the local conversation promises: the user and the backend take     *)
(* turns.  One turn is submitted, taken, run and settled before the user   *)
(* is invited to the next one; a turn that cannot be settled is the last   *)
(* one that runs, and success is reported only when every turn that was    *)
(* taken is settled.                                                       *)
(***************************************************************************)
EXTENDS Naturals

CONSTANT Limit   \* turns in a conversation

VARIABLES submitted,   \* the last turn the user has submitted
          taken,       \* the last turn that was taken up
          settled,     \* the last turn that has its own acknowledgement
          invited,     \* the user may submit the next turn
          running,     \* the turn taken up is in the hands of the backend
          over,        \* no turn will be taken up any more
          verdict      \* what the conversation reports at its end

talk == <<submitted, taken, settled, invited, running, over, verdict>>

Init ==
  /\ submitted = 0 /\ taken = 0 /\ settled = 0
  /\ invited = FALSE /\ running = FALSE /\ over = FALSE
  /\ verdict = "none"

Invite ==
  /\ ~invited /\ submitted = settled
  /\ invited' = TRUE
  /\ UNCHANGED <<submitted, taken, settled, running, over, verdict>>

\* The first turn may be submitted without an invitation.
Submit ==
  /\ submitted = settled
  /\ invited \/ submitted = 0
  /\ submitted' = submitted + 1
  /\ invited' = FALSE
  /\ UNCHANGED <<taken, settled, running, over, verdict>>

TakeUp ==
  /\ ~over /\ submitted = taken + 1 /\ taken = settled /\ taken < Limit
  /\ taken' = submitted
  /\ UNCHANGED <<submitted, settled, invited, running, over, verdict>>

Run ==
  /\ ~over /\ ~running /\ taken = settled + 1
  /\ running' = TRUE
  /\ UNCHANGED <<submitted, taken, settled, invited, over, verdict>>

\* The acknowledgement of the turn that runs; it may be the end of them all.
Settle ==
  /\ running
  /\ settled' = taken
  /\ running' = FALSE
  /\ over' \in BOOLEAN
  /\ UNCHANGED <<submitted, taken, invited, verdict>>

GiveUp ==
  /\ ~over
  /\ over' = TRUE
  /\ running' = FALSE
  /\ UNCHANGED <<submitted, taken, settled, invited, verdict>>

Report ==
  /\ over /\ verdict = "none"
  /\ \/ verdict' = "ok" /\ settled = taken
     \/ verdict' = "err"
  /\ UNCHANGED <<submitted, taken, settled, invited, running, over>>

\* After the report there is nobody to submit a turn to.
Withdraw ==
  /\ verdict # "none"
  /\ invited' = FALSE
  /\ UNCHANGED <<submitted, taken, settled, running, over, verdict>>

Next == Invite \/ Submit \/ TakeUp \/ Run \/ Settle \/ GiveUp \/ Report \/ Withdraw

Spec == Init /\ [][Next]_talk
=============================================================================
