CONSTANTS
  Sync = {s1, s2}
  Async = {}
  RingSize = 4
  Sizes = {1, 2}
  MaxDesc = 2
  Timeouts = {s1}
  EarlyErrors = FALSE
  HotPlug = FALSE
  None = None
  s1 = s1
  s2 = s2
SPECIFICATION Spec
PROPERTY
  FailsOnlyIfStopped
