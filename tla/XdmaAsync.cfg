CONSTANTS
  Sync = {}
  Async = {a1, a2, a3}
  RingSize = 6
  Sizes = {1, 2}
  MaxDesc = 2
  Timeouts = {}
  EarlyErrors = FALSE
  HotPlug = FALSE
  None = None
  a1 = a1
  a2 = a2
  a3 = a3
SPECIFICATION FairSpec
INVARIANTS
  TypeOK
  QueueWellFormed
  RunsHead
  NoLostWakeup
  ChainIntact
  NoStrayDma
PROPERTIES
  ReturnsWhatMoved
  FailsOnlyIfStopped
  FifoService
