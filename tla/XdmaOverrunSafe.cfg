CONSTANTS
  Sync = {s1}
  Async = {a1}
  RingSize = 3
  Sizes = {1, 2}
  MaxDesc = 2
  Timeouts = {}
  EarlyErrors = FALSE
  HotPlug = FALSE
  None = None
  s1 = s1
  a1 = a1
SPECIFICATION Spec
SYMMETRY Symmetry
INVARIANTS
  QueueWellFormed
PROPERTIES
  FifoOrder
CHECK_DEADLOCK FALSE
