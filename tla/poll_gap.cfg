CONSTANTS
  Feeds <- JustWindowed
  Skips = FALSE
  Overlap = 0
  MaxWall = 3
  MaxChanges = 2
SPECIFICATION PollSpec
INVARIANTS WindowMissesNone
CHECK_DEADLOCK FALSE
