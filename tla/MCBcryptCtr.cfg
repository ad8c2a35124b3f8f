CONSTANTS
  Block = 3
  IntMax = 9
  CounterMax = 7
  InitCounters <- MCInitCounters
  MaxChunk = 7
  MaxFed = 11
  MaxMsg = 2
  Spaces <- MCSpaces
SPECIFICATION Spec
INVARIANTS
  CounterMode
  KeystreamUsedOnce
  GoodMeansUsable
PROPERTIES
  ImplementsStream
CHECK_DEADLOCK FALSE
