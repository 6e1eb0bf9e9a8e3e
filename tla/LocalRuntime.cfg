\* Two turns and a display queue of one; two unrequested frames of up to two
\* bytes, and a limit that a second full chunk exceeds.
CONSTANTS
  TurnLimit = 2
  DisplayCap = 1
  ChunkLimit = 2
  ChunkBytes = 2
  MaxFrames = 2
  OutputLimit = 3
SPECIFICATION RuntimeSpec
INVARIANTS
  TurnsAreKeptApart
  TextIsAPrefix
  SuccessIsComplete
  RunIsAccountedFor
PROPERTIES
  TurnsAreTaken
  NothingHangs
CHECK_DEADLOCK FALSE
