-------------------------- MODULE TaskCorrelation --------------------------
(***************************************************************************)
(* The identity of a remote task: native/tuig/src/correlation.rs.  The     *)
(* task identifier is fixed by the request (parse_task_snapshot), so a     *)
(* correlation is the context and the run, which a task may not have.      *)
(***************************************************************************)
CONSTANTS Contexts,   \* context identifiers a reply may carry
          Runs,       \* run identifiers a reply may carry
          NoRun,      \* the reply omits the run
          None        \* no correlation is bound

Correlation == [context : Contexts, run : Runs \cup {NoRun}]

ASSUME NoneAssumption == None \notin Correlation
ASSUME NoRunAssumption == NoRun \notin Runs

Bindings == Correlation \cup {None}

\* Mutant: the context is not compared.
SameTaskAnyContext(bound, corr) == corr.run \in {NoRun, bound.run}

\* TaskCorrelation::validate_binding: a later reply may omit the run.
SameTask(bound, corr) ==
  corr.context = bound.context /\ corr.run \in {NoRun, bound.run}
=============================================================================
