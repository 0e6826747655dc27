CONSTANTS
  Scenarios <- MCStopped
  PageSize = 1
  MaxRev = 1
  MaxLog = 2
  MaxTime = 1
SPECIFICATION Spec
INVARIANTS Converges
CHECK_DEADLOCK FALSE
