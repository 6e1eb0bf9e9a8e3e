\* The map needs 8x13 cells instead of 72x20, and a card has 3x2 cells instead of 22x4;
\* no text of the inspector has MaxRow rows, the longest of the task view has more;
\* a query has up to two of two letters.
CONSTANTS
  MaxRow = 40
  Sizes <- MCSizes
  MinWidth = 8
  MinHeight = 13
  CardWidth = 3
  CardHeight = 2
  Summaries <- MCSummaries
  Unavailable <- MCUnavailable
  ReadingNote <- MCReadingNote
  MapNote <- MCMapNote
  Help <- MCHelp
  Graphs <- MCGraphs
  Letters = {"a", "b"}
  MaxQuery = 2
  Acts = 6
  Windows <- MCWindows
  Statuses <- MCStatuses
  Bodies <- MCBodies
  HeaderRows <- MCHeader
  HelpRows <- MCHelpRows
  NoFold = NoFold
  Inputs = 4
SPECIFICATION ScreensSpec
INVARIANTS
  MapShowsSelection
  ScreenIsKept
  ChosenIsInSight
PROPERTIES
  ClickMeansWhatIsShown
