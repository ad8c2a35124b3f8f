SPECIFICATION Spec
CONSTANTS
  Block = 2
  IntMax = 15
  ByteMod = 32
  INTEGRITY_VALUE = 22
  HeaderSize = 3
  EVP_EncryptUpdate <- MCEncrypt
  EVP_DecryptUpdate <- MCDecrypt
  KeyLengths <- MCKeyLengths
  Keys <- MCKeys
  Befores <- MCBefores
  Spaces <- MCSpaces
INVARIANTS
  RoundTrip
  WrapIsRfc3394
  AcceptedWasWrapped
  OutputAppended
CHECK_DEADLOCK FALSE
