CONSTANTS
  Block = 2
  IntMax = 5
  MaxChunk = 4
  MaxFed = 4
  MaxMsg = 3
  Spaces <- MCSpaces
SPECIFICATION Spec
INVARIANTS
  NoOverrun
  OpenMeansReady
  DecryptorArmed
PROPERTIES
  ImplementsStream
