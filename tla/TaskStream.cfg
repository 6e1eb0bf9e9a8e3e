\* Three events of up to eleven bytes each, two faults: the second connection
\* can break again, and two events can be seen twice.
CONSTANTS
  Last = 3
  MaxEvent = 12
  Faults = 2
SPECIFICATION LiveSpec
INVARIANTS
  DecoderInvariant
PROPERTIES
  ImplementsStream
  EverythingArrives
CHECK_DEADLOCK FALSE
