CONSTANTS
  Procs = {p, q}
  Cells = {c, d}
  Slots = 1
  ClaimTicks = 2
  TtlTicks = 1
  BackoffTicks = 1
  Cost = 1
  Burst = 2
  PerTick = 1
  PerDay = 3
  DayTicks = 3
  MaxTime = 3
  Records = {r1, r2}
  Drain = drain
  Others = {pass}
  NoTarget = NoTarget
  DrainLimit = 1
  MaxRevision = 2
  MaxSpine = 2
  Feeds <- MCFeeds
  Skips = TRUE
  Overlap = 1
  MaxWall = 3
  MaxChanges = 2
SPECIFICATION IngestSpec
SYMMETRY Symmetry
INVARIANTS OneFetcher BucketKept ServedIsOfItsGraph WorkIsKept RequestsServed AskingMissesNone AcceptedIsPublished IndexIsPublished
PROPERTIES AnswerNeverOlder StartsDue FreshLasts LastGoodKept
CHECK_DEADLOCK FALSE
