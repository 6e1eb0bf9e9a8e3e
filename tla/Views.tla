-------------------------------- MODULE Views --------------------------------
(***************************************************************************)
(* The two views that read on their own beside the task, the public        *)
(* details and the host logs.  The main loop keeps both and polls them in  *)
(* branches of their own; they share no state, so a behaviour is one of    *)
(* the first or one of the second.                                         *)
(***************************************************************************)
EXTENDS PublicDetails

CONSTANTS Records, Tall, Limit, MaxLines, Time   \* of HostLogs

ASSUME LogAssumption ==
  Records \in Nat \ {0} /\ Limit \in Nat /\ MaxLines \in Nat /\ Time \in Nat

VARIABLES
  side,   \* details, logs
  authenticated, open, logRequest, reader, lines, status, expires, now, logWritten,
  oldest, shown, admitted, denied

Logs == INSTANCE HostLogs WITH request <- logRequest, written <- logWritten

logVars == <<authenticated, open, logRequest, reader, lines, status, expires, now,
             logWritten, oldest, shown, admitted, denied>>

\* The side that is not taken stays as it is, in one of its initial states.
ViewsInit ==
  /\ side \in {"details", "logs"}
  /\ Init /\ (side = "logs" => written = 0 /\ ends)
  /\ Logs!Init /\ (side = "details" => ~authenticated /\ logWritten = 0)

OfDetails == side = "details" /\ Next /\ UNCHANGED <<side, logVars>>
OfLogs    == side = "logs" /\ Logs!Next /\ UNCHANGED <<side, vars>>

ViewsNext == OfDetails \/ OfLogs

ViewsSpec == ViewsInit /\ [][ViewsNext]_<<side, vars, logVars>>

\* The fairness of PublicDetails, on its side.
ViewsLiveSpec ==
  /\ ViewsSpec
  /\ WF_vars(side = "details" /\ Tick) /\ WF_vars(side = "details" /\ Second)
  /\ WF_vars(side = "details" /\ Complete) /\ WF_vars(side = "details" /\ TaskReadEnds)
  /\ WF_vars(side = "details" /\ Serve) /\ WF_vars(side = "details" /\ Publish)

\* The lines are the host's log, with its gaps marked.
LinesAreTheLog == Logs!LinesAreTheLog

\* Lines are shown under a receipt that admits them, until a refusal.
LogsAreAdmitted == Logs!LogsAreAdmitted
=============================================================================
