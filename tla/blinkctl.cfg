\* CTRL, BLINK_DIV by an aliased address, written and read.
CONSTANTS
  None = None
  Word = 4
  Version = 3
  DivReset = 2
  ScratchReset = 3
  Addrs = {1, 18}
  ReadAddrs = {2}
  Values = {0, 3}
  MaxWrites = 2
  MaxResets = 1
SPECIFICATION FairSpec
INVARIANTS
  WriteExecutesOnce
PROPERTIES
  LedPeriod
  BusAnswers
