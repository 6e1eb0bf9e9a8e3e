\* What requirement R002.1.4 says of a reply that omits the run.
CONSTANTS
  c1 = c1
  c2 = c2
  r1 = r1
  r2 = r2
  Contexts <- MCContexts
  Runs <- MCRuns
  NoRun = NoRun
  None = None
  Attempts = 3
  RequestLimit = 6
  TotalLimit = 8
  Pause = 1
SPECIFICATION Spec
INVARIANTS
  KnownRunIsKept
