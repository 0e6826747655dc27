CONSTANTS
  w1 = w1
  w2 = w2
  p1 = p1
  p2 = p2
  s1 = s1
  s2 = s2
  ra = ra
  rb = rb
  None = None
  Writer = {w1, w2}
  Puller = {p1}
  Source = {s1, s2}
  Record = {ra, rb}
  SourceOf <- MCSourceOf
  Wanted = {ra}
  Limit = 1
  MaxXid = 2
  MaxSeq = 2
  Ticks = {t1, t2}
  PageLimit = 2
  HighWater = 2
  MaxLen = 5
  t1 = t1
  t2 = t2
SPECIFICATION DeliverySpec
INVARIANTS WrittenOnce Backpressure
PROPERTIES PumpFeed EverythingLands CatchesUp
CHECK_DEADLOCK FALSE
