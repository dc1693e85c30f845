CONSTANTS
  MaxRefusals = 1
  MaxHeld = 2
  MaxSwitches = 2
  MaxVmas = 2
  Buffers = {b1, b2, b3}
  b1 = b1
  b2 = b2
  b3 = b3
  MinBuffers = 2
  Formats <- SmallFormats
  HAlign = 64
  VAlign = 1
  PageSize = 4096
  MaxFailures = 1
  MaxSignals = 1
  Files <- SmallFiles
  NewLine = 0
  Block = 2
  Sizes = {1, 3}
  N = 4
  Outputs = {1, 2}
  Numbered = {2, 3}
  Settings <- SmallSettings
  MaxRejected = 2
SPECIFICATION Spec
INVARIANTS
  TypeOK
  ReleasedOnce
  NothingOutlives
  AllOrNothing
  NothingLeft
  BufferWhileUsed
  Accounted
  SizesAgree
  ReadsFile
  WellConnected
