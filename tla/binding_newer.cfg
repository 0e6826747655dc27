CONSTANTS
  Records = {r1}
  Drain = drain
  Others = {pass}
  NoTarget = NoTarget
  DrainLimit = 1
  MaxRevision = 2
  MaxSpine = 1
SPECIFICATION BindingSpec
INVARIANTS NewerWorkStays
CHECK_DEADLOCK FALSE
