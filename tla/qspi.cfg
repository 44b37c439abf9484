\* Spans at every offset of a page, and lengths whose end passes 2^32.
CONSTANTS
  Null = Null
  Bits = {1, 2}
  PageSize = 2
  SectorSize = 4
  FlashSize = 16
  Word = 32
  WriteFloor = 4
  WriteCeil = 12
  StateAddr = 12
  Sources <- MCSources
  Contents <- MCContents
  CallAddrs = {0, 3, 4, 5, 8, 11, 12, 31}
  CallLens = {0, 1, 3, 4, 8, 9, 31}
  PollMax = 2
  MaxCalls = 2
  MaxFaults = 1
SPECIFICATION FairSpec
INVARIANTS
  ControllerMode
PROPERTIES
  OnlyTheSpanChanges
  FlashPromise
  CallsReturn
CHECK_DEADLOCK FALSE
