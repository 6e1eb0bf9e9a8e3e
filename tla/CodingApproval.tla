--------------------------- MODULE CodingApproval ---------------------------
(***************************************************************************)
(* The decisions of a coding session: CodingApprovalState of               *)
(* native/tuig/src/coding_approval.rs.  The gateway connects and breaks    *)
(* off, sends requests, the same one again, one with changed content, one  *)
(* of another session; the person decides with a preview, which may be old *)
(* or come from another session.                                           *)
(***************************************************************************)
EXTENDS Naturals, Sequences

CONSTANTS Ids,        \* request identifiers, the empty one left out
          NoId,       \* the empty identifier
          Writes,     \* contents of write requests
          Commands,   \* contents of command requests, with their digest
          Target,     \* the path of a write, the digest of a command
          NoTarget,   \* an empty path or digest
          Granted,    \* capabilities of the session
          Actors,     \* who decides
          Nobody,     \* an actor of blanks only
          None        \* no pending request

Contents == Writes \cup Commands
Scopes == {"own", "otherSession", "otherRoot"}
Requests == [scope : Scopes, id : Ids \cup {NoId}, content : Contents]
Choices == {"Approve", "Deny"}

ASSUME IdAssumption == NoId \notin Ids
ASSUME NoneAssumption == None \notin Requests
ASSUME NobodyAssumption == Nobody \notin Actors

VARIABLES
  connected,  \* the adapter has authorized the session
  pending,    \* the request that waits for an answer, or None
  records,    \* the decisions
  told        \* what the last call returned

stateVars == <<connected, pending, records, told>>

VARIABLES
  admitted,   \* history: the requests receive took
  decided     \* history: the previews decide took, one for each record

decisionVars == <<stateVars, admitted, decided>>

Capability(content) == IF content \in Writes THEN "WriteText" ELSE "CreateTerminal"

Answered(id) == \E i \in DOMAIN records : records[i].id = id

DecisionInit ==
  /\ connected = FALSE /\ pending = None /\ records = <<>> /\ told = "ok"
  /\ admitted = {} /\ decided = <<>>

SetConnected ==
  /\ connected' = ~connected
  /\ UNCHANGED <<pending, records, told, admitted, decided>>

\* receive: the request may be taken, or is the pending one.
FitsPending(request) == pending = None \/ pending = request

\* The checks of receive in their order.
ReceiveError(request) ==
  IF ~connected THEN "GatewayUnavailable"
  ELSE IF request.scope # "own" THEN "WrongSession"
  ELSE IF request.id = NoId \/ Target[request.content] = NoTarget THEN "InvalidMetadata"
  ELSE IF Capability(request.content) \notin Granted THEN "CapabilityNotGranted"
  ELSE IF Answered(request.id) THEN "AlreadyAnswered"
  ELSE IF FitsPending(request) THEN "ok"
  ELSE IF pending.id = request.id THEN "RequestChanged" ELSE "PendingRequestExists"

Receive(request) ==
  /\ told' = ReceiveError(request)
  /\ \/ /\ ReceiveError(request) = "ok"
        /\ pending' = request /\ admitted' = admitted \cup {request}
     \/ ReceiveError(request) # "ok" /\ UNCHANGED <<pending, admitted>>
  /\ UNCHANGED <<connected, records, decided>>

\* Mutant: the preview is only compared by its identifier.
DecideErrorById(preview, actor) ==
  IF ~connected THEN "GatewayUnavailable"
  ELSE IF actor = Nobody THEN "InvalidMetadata"
  ELSE IF pending = None \/ pending.id # preview.id THEN "RequestChanged" ELSE "ok"

\* The checks of decide in their order.
DecideError(preview, actor) ==
  IF ~connected THEN "GatewayUnavailable"
  ELSE IF actor = Nobody THEN "InvalidMetadata"
  ELSE IF pending # preview THEN "RequestChanged" ELSE "ok"

Record(request, choice, actor) ==
  [id |-> request.id, method |-> Capability(request.content),
   target |-> Target[request.content], choice |-> choice, actor |-> actor]

\* Mutant: the request stays pending after its answer.
AnswerKeeps(preview, choice, actor) ==
  /\ records' = Append(records, Record(preview, choice, actor))
  /\ decided' = Append(decided, preview)
  /\ UNCHANGED pending

Answer(preview, choice, actor) ==
  /\ records' = Append(records, Record(preview, choice, actor))
  /\ decided' = Append(decided, preview)
  /\ pending' = None

Decide(preview, choice, actor) ==
  /\ told' = DecideError(preview, actor)
  /\ \/ DecideError(preview, actor) = "ok" /\ Answer(preview, choice, actor)
     \/ DecideError(preview, actor) # "ok" /\ UNCHANGED <<pending, records, decided>>
  /\ UNCHANGED <<connected, admitted>>

DecisionNext ==
  \/ SetConnected
  \/ \E request \in Requests : Receive(request)
  \/ \E preview \in Requests, choice \in Choices, actor \in Actors \cup {Nobody} :
       Decide(preview, choice, actor)

DecisionSpec == DecisionInit /\ [][DecisionNext]_decisionVars
-----------------------------------------------------------------------------
\* Properties.

Records == [id : Ids, method : Granted, target : {Target[content] : content \in Contents}, choice : Choices, actor : Actors]

DecisionTypeOK ==
  /\ connected \in BOOLEAN
  /\ pending \in Requests \cup {None}
  /\ records \in Seq(Records)
  /\ decided \in Seq(Requests)
  /\ admitted \subseteq Requests
  /\ told \in {"ok", "GatewayUnavailable", "WrongSession", "InvalidMetadata",
               "CapabilityNotGranted", "AlreadyAnswered", "RequestChanged",
               "PendingRequestExists"}

\* However often, and in whatever form, the gateway asks, and whatever old
\* preview the person decides with: a request identifier is answered once.
OneAnswer ==
  \A i, j \in DOMAIN records : records[i].id = records[j].id => i = j

\* What was decided is what this session was asked, in its root, with a
\* capability it has: an answer is never for a preview that has changed, nor
\* for one of another session.
DecidedIsAdmitted ==
  /\ Len(decided) = Len(records)
  /\ \A i \in DOMAIN records :
       /\ decided[i] \in admitted
       /\ decided[i].scope = "own"
       /\ records[i] = Record(decided[i], records[i].choice, records[i].actor)

\* The pending request was admitted by this session and has no record yet.
PendingIsOpen ==
  pending # None =>
    /\ pending \in admitted /\ pending.scope = "own"
    /\ pending.id # NoId /\ Capability(pending.content) \in Granted
    /\ ~Answered(pending.id)

\* The inductive invariant: identifiers are answered once, answers are for what
\* was admitted, and what waits for one is admitted and open.
AnswersAreSettled == DecisionTypeOK /\ OneAnswer /\ DecidedIsAdmitted /\ PendingIsOpen

\* A pending request is lost by nothing but its own answer: not by a broken
\* connection, another request, a changed one or a refused decision.
OnlyAnAnswerSettles ==
  [][pending # None /\ pending' # pending =>
       /\ Len(records') = Len(records) + 1
       /\ records'[Len(records')].id = pending.id]_decisionVars
=============================================================================
