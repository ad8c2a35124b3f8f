CONSTANTS
  DigestSize = 2
  LenMod = 3
  MaxChunk = 4
  MaxFed = 6
  Truncs <- MCTruncs
  Spaces <- MCSpaces
SPECIFICATION Spec
INVARIANTS
  OneDigestOfAllInput
PROPERTIES
  ErrorsAreFinalExceptRoom
  OneShotCompletes
