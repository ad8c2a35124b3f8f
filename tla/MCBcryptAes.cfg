CONSTANTS
  Block = 2
  IntMax = 6
  MaxChunk = 5
  MaxFed = 9
  MaxMsg = 2
  Spaces <- MCSpaces
SPECIFICATION Spec
INVARIANTS
  NothingLost
  ProviderContract
  GoodMeansUsable
  TagOfMostRecentEncrypt
PROPERTIES
  DocumentedRoomInGcm
  ImplementsStream
CHECK_DEADLOCK FALSE
