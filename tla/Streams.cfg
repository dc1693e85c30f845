CONSTANTS
  Output = o
  Captures = {c1}
  MaxFrames = 2
  MaxSignals = 1
  Engines = {1, 2}
  ThreadCnt = 2
  MaxCalls = 5
  MaxInterrupts = 1
  MaxAnnounced = 2
SPECIFICATION FairSpec
INVARIANTS
  TypeOK
  Accounted
  QuietAfterStop
  NobodySleepsOn
  TasksOnce
  
PROPERTIES
  FramesInOrder
  BuffersServed
  StopReturns
CHECK_DEADLOCK FALSE
