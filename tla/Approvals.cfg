\* Two identifiers, two writes of a file and one without a path, a granted and an ungranted capability.
\* Texts of two characters hold a final and a missing line feed, and paths every
\* kind of escape beside the characters it consists of.
CONSTANTS
  i1 = i1
  i2 = i2
  w1 = w1
  w2 = w2
  w3 = w3
  run1 = run1
  alice = alice
  Ids <- MCIds
  NoId = NoId
  Writes <- MCWrites
  Commands <- MCCommands
  path1 = path1
  digest1 = digest1
  none = none
  Target <- MCTarget
  NoTarget = none
  Granted <- MCGranted
  Actors <- MCActors
  Nobody = Nobody
  None = None
  Characters <- MCCharacters
  MaxText = 2
  Controls <- MCControls
  Hex <- MCHex
  Texts <- MCTexts
  Paths <- MCPaths
  Digests <- MCDigests
  Headers <- MCHeaders
  Decimal <- MCDecimal
SPECIFICATION ApprovalsSpec
INVARIANTS
  AnswersAreSettled
  SeenIsMeant
