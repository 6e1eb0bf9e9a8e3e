\* The interactive loop in every start mode: safety, progress and the
\* refinement of the ledger of effects.
CONSTANTS
  c1 = c1
  c2 = c2
  r1 = r1
  Contexts <- MCContexts
  Runs <- MCRuns
  NoRun = NoRun
  None = None
SPECIFICATION Spec
INVARIANTS
  Phased
  UnknownStaysVisible
  FinalStatusIsTrue
  DialogIsSafe
PROPERTIES
  CancelOnlyWhenSeen
  ImplementsLedger
  RequestsSettle
  ObservationEnds
CHECK_DEADLOCK FALSE
