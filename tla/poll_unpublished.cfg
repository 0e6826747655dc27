CONSTANTS
  Feeds <- JustPlain
  Skips = FALSE
  Overlap = 0
  MaxWall = 3
  MaxChanges = 2
SPECIFICATION PollSpec
INVARIANTS FailureMadeGood
CHECK_DEADLOCK FALSE
