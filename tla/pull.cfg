CONSTANTS
  Scenarios <- MCScenarios
  PageSize = 2
  MaxRev = 3
  MaxLog = 4
  MaxTime = 3
  Records = {ra, rb}
  Window = 4
  Reach = 3
  Retention = 6
  Reland = 2
  Night = 2
  ArchiveAge = 2
  Silence = 2
  Flight = 1
  Limit = 1
  MaxClock = 10
  MaxEntries = 3
SPECIFICATION PullSpec
INVARIANTS ErasedStays Converges NothingFallsBetween
PROPERTIES RevisionNeverBack
CHECK_DEADLOCK FALSE
