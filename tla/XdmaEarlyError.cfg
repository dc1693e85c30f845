CONSTANTS
  Sync = {s1}
  Async = {}
  RingSize = 2
  Sizes = {1}
  MaxDesc = 1
  Timeouts = {}
  EarlyErrors = TRUE
  HotPlug = FALSE
  None = None
  s1 = s1
SPECIFICATION Spec
INVARIANT
  NoLostWakeup
