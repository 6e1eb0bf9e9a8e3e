\* Reads of three requests; a request that times out leaves too little time
\* for another.
CONSTANTS
  c1 = c1
  c2 = c2
  r1 = r1
  Contexts <- MCContexts
  Runs <- MCRuns
  NoRun = NoRun
  None = None
  Attempts = 3
  RequestLimit = 6
  TotalLimit = 8
  Pause = 1
SPECIFICATION RunSpec
INVARIANTS
  RetriesAreEarned
  SuccessIsCompletion
  ReadsStayBound
PROPERTIES
  ObservationEnds
CHECK_DEADLOCK FALSE
