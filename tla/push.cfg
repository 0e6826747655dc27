CONSTANTS
  Cycles = {c1, c2}
  Inboxes = {a, b}
  a = a
  b = b
  closure = closure
  works = works
  slow = slow
  Kinds = {closure, works, slow}
  Priority <- MCPriority
  Asked <- MCAsked
  Threshold = 2
  PageLimit = 1
  MaxLen = 2
  MaxEvents = 2
  None = None
SPECIFICATION FairSpec
INVARIANTS DisabledWhenDeserved
PROPERTIES CursorEarned PushCatchesUp
CHECK_DEADLOCK FALSE
