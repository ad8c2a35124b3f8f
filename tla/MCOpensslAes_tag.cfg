CONSTANTS
  Block = 2
  IntMax = 5
  MaxChunk = 4
  MaxFed = 4
  MaxMsg = 2
  Spaces <- MCSpaces
SPECIFICATION Spec
INVARIANTS
  TagOfMostRecentEncrypt
