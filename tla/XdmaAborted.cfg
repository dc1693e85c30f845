CONSTANTS
  Sync = {s1, s2}
  Async = {}
  RingSize = 2
  Sizes = {1, 2}
  MaxDesc = 2
  Timeouts = {s1, s2}
  EarlyErrors = TRUE
  HotPlug = TRUE
  None = None
  s1 = s1
  s2 = s2
SPECIFICATION Spec
SYMMETRY Symmetry
INVARIANTS
  QueueWellFormed
  ShutdownStopsEngine
PROPERTIES
  ReturnsWhatMoved
