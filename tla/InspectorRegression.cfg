\* What requirement R010.4 says of regressing plans.
CONSTANTS
  c1 = c1
  r1 = r1
  Contexts <- MCContexts
  Runs <- MCRuns
  NoRun = NoRun
  None = None
  Revisions = 2
  Validity = 2
  Steps = 3
  Generations = 2
SPECIFICATION Spec
INVARIANTS
  RegressionStaysHidden
