CONSTANTS
  Worker = {w1, w2}
  NumLocks = 2
  Builds = {"1.0.2", "1.1.1", "LC", "BORINGSSL", "native"}
  Kinds = {"1.0.2", "1.1.1", "LC", "BORINGSSL"}
  Files = {"1.0.2", "1.1.0", "1.1.1", "LC", "BORINGSSL"}
  MaxInits = 2
SPECIFICATION Spec
INVARIANTS
  Resolved
  LocksWork
  NothingLeftBehind
PROPERTIES
  CallsReturn
CHECK_DEADLOCK FALSE
