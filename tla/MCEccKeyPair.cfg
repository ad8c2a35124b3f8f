CONSTANTS
  Thread = {t1, t2}
  Slot = {s1}
  Keys = {"a", "b", "c"}
  CurveOf <- MCCurveOf
  D <- MCD
  X <- MCX
  Y <- MCY
  CoordinateBytes <- MCCoordinateBytes
  Scalars <- MCScalars
  Backend = {"libcrypto", "windows", "darwin"}
  MaxSignatures = 1
SPECIFICATION Spec
INVARIANTS
  RefInv
  PartsAreTheKeys
  SignaturesTravel
  SignatureFits
  NothingLeaks
PROPERTIES
  LastReleaseFrees
CHECK_DEADLOCK FALSE
