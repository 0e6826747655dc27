CONSTANTS
  Records = {ra, rb}
  Window = 4
  Reach = 3
  Retention = 6
  Reland = 2
  Night = 2
  ArchiveAge = 2
  Silence = 2
  Flight = 1
  Limit = 1
  MaxClock = 10
  MaxEntries = 4
CHECK_DEADLOCK FALSE
SPECIFICATION BackfillSpec
SYMMETRY Symmetry
INVARIANTS EndsHeard
