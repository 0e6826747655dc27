CONSTANTS
  w1 = w1
  w2 = w2
  p1 = p1
  p2 = p2
  s1 = s1
  s2 = s2
  ra = ra
  rb = rb
  None = None
  Writer = {w1, w2}
  Puller = {p1, p2}
  Source = {s1, s2}
  Record = {ra, rb}
  SourceOf <- MCSourceOf
  Wanted = {ra}
  Limit = 2
  MaxXid = 2
  MaxSeq = 2
SPECIFICATION Spec
SYMMETRY Symmetry
INVARIANTS GapFree RecordOrder ErasureFinal LandsInOrder
PROPERTIES FeedSpec FencedGrows
