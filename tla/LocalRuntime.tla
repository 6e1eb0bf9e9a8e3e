---------------------------- MODULE LocalRuntime ----------------------------
(***************************************************************************)
(* `run` of native/tuig/src/local_runtime.rs: with --headless one prompt   *)
(* is run to its end (LocalRun), without it the process is handed to the   *)
(* conversation of local_session.rs (LocalSession).  Both own a backend    *)
(* and finish it; one process is one or the other.                         *)
(***************************************************************************)
EXTENDS LocalSession

CONSTANTS ChunkBytes, MaxFrames, OutputLimit

ASSUME RunLimitsAssumption ==
  ChunkBytes \in Nat /\ MaxFrames \in Nat /\ OutputLimit \in Nat

VARIABLES
  headless,   \* options.headless
  runPhase, exchange, closed, exit, awaited, session, closeSupported, counted,
  remaining, stdout, reader, nonblocking, sent, backendPipe, heard,
  owed, frames, spoken, ended, runChild, reaped

Run == INSTANCE LocalRun WITH phase <- runPhase, turn <- exchange, pending <- awaited,
                              closable <- closeSupported, toClient <- backendPipe,
                              child <- runChild

runVars == <<runPhase, exchange, closed, exit, awaited, session, closeSupported, counted,
             remaining, stdout, reader, nonblocking, sent, backendPipe, heard,
             owed, frames, spoken, ended, runChild, reaped>>
runtimeVars == <<headless, vars, runVars>>

\* The half that is not taken stays as it is, in one of its initial states.
RuntimeInit ==
  /\ headless \in BOOLEAN
  /\ Init /\ (headless => ~initial)
  /\ Run!Init

OneShot      == headless /\ Run!Next /\ UNCHANGED <<headless, vars>>
Conversation == ~headless /\ Next /\ UNCHANGED <<headless, runVars>>

RuntimeNext == OneShot \/ Conversation

\* The fairness of the half that runs.
RuntimeSpec ==
  /\ RuntimeInit /\ [][RuntimeNext]_runtimeVars
  /\ WF_runVars(headless /\ Run!Forced)
  /\ WF_vars(~headless /\ Turning)
  /\ WF_vars(~headless /\ ResponseTimeout)
  /\ WF_vars(~headless /\ DrainTimeout)
  /\ WF_vars(~headless /\ Finishing)
  /\ WF_vars(~headless /\ Display)
-----------------------------------------------------------------------------
(***************************************************************************)
(* The properties of LocalRun, of a run with --headless; those of          *)
(* LocalSession are stated there.                                          *)
(***************************************************************************)

\* The output is the beginning of the text of the turn.
TextIsAPrefix == Run!TextIsAPrefix

\* Success means all of the text, the end of the turn and of the backend.
SuccessIsComplete == Run!SuccessIsComplete

\* Cancellation, close, child and terminal are accounted for on every path.
RunIsAccountedFor == Run!RunIsAccountedFor

\* A one-shot run that has not ended, a turn that runs or a session that was
\* asked to quit: all that the user may be waiting for.
Busy == IF headless THEN runPhase # "done" ELSE (active \/ quit) /\ ui # "done"

\* None of them lasts for ever: a silent backend, one that ignores the closed
\* pipes and an output nobody reads cannot hold the process.
NothingHangs == Busy ~> ~Busy
=============================================================================
