\* Two runs with logs of four events; the window holds two events or two
\* units of text, so that both limits drop events.  Four records, two per
\* read, three lines kept; receipts that are expired, expire after one or two
\* ticks, or do not expire in the run.
CONSTANTS
  r1 = r1
  r2 = r2
  PublicRuns <- MCRuns
  NoRun = NoRun
  None = None
  MaxEvents = 2
  MaxBytes = 2
  Sizes <- MCSizes
  Summaries <- MCSummaries
  Acts = 4
  Faults = 1
  Records = 4
  Tall <- MCTall
  Limit = 2
  MaxLines = 3
  Time = 2
SPECIFICATION ViewsLiveSpec
INVARIANTS
  DetailsAreTheLog
  ReadsAreTheUsers
  LinesAreTheLog
  LogsAreAdmitted
PROPERTIES
  OpenFoldCatchesUp
CHECK_DEADLOCK FALSE
