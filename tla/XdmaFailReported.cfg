CONSTANTS
  Sync = {}
  Async = {a1}
  RingSize = 4
  Sizes = {1, 2}
  MaxDesc = 2
  Timeouts = {}
  EarlyErrors = FALSE
  HotPlug = FALSE
  None = None
  a1 = a1
SPECIFICATION Spec
PROPERTY
  FailureReported
