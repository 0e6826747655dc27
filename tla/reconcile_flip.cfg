CONSTANTS
  NumRecords = 2
  MaxRev = 3
  MaxBoot = 4
  MayFlip = {"settled", "retracting"}
SPECIFICATION ReconcileSpec
INVARIANTS SettledInSync
CHECK_DEADLOCK FALSE
