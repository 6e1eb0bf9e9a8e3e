\* Two revisions that outlive an event or two, three steps to go round with Tab, and
\* a generation counter that wraps every second time.
CONSTANTS
  c1 = c1
  r1 = r1
  Contexts <- MCContexts
  Runs <- MCRuns
  NoRun = NoRun
  None = None
  Revisions = 2
  Validity = 2
  Steps = 3
  Generations = 2
SPECIFICATION Spec
INVARIANTS
  InspectorInvariant
  ProtectedDataIsBound
PROPERTIES
  PlanIsFresh
  SummaryReadsEnd
