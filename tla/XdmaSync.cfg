CONSTANTS
  Sync = {s1, s2}
  Async = {}
  RingSize = 3
  Sizes = {1, 2, 3, 4}
  MaxDesc = 4
  Timeouts = {}
  EarlyErrors = FALSE
  HotPlug = FALSE
  None = None
  s1 = s1
  s2 = s2
SPECIFICATION FairSpec
PROPERTIES
  ReturnsWhatMoved
  EveryCallReturns
