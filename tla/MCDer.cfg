CONSTANTS
  INT8_MAX = 4
  UINT8_MAX = 9
  UINT16_MAX = 99
  Integers_ <- MCIntegers
  BitStrings <- MCBitStrings
  OctetStrings <- MCOctetStrings
  Capacities <- MCCapacities
  Tails <- MCTails
  MaxCalls = 8
  MaxDepth = 3
  ListCapacity = 3
SPECIFICATION Spec
INVARIANTS
  WellFormed
  RoundTrip
  AcceptsEncodings
  CountsUntilTheListMoves
PROPERTY
  ParseEnds
