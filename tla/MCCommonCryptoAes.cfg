CONSTANTS
  Block = 3
  IntMax = 7
  MaxChunk = 5
  MaxFed = 7
  MaxMsg = 2
  Spaces <- MCSpaces
SPECIFICATION Spec
INVARIANTS
  ProviderHasRoom
  OpenMeansReady
  TagOfMostRecentEncrypt
PROPERTIES
  ImplementsStream
