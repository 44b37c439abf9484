\* Files of up to four full blocks, past the wrap of the block number, two faults of any
\* kind, and what is under way to the client repeated without end.
CONSTANTS
  short = short
  exact = exact
  big = big
  Missing = Missing
  Files = {short, exact, big}
  FullBlocks <- Full
  TailLen <- Tails
  BlockSize = 2
  Wrap = 4
  ServerSends = 2
  MaxSessions = 2
  MaxFaults = 2
  Echoes = 2
  DstLen = 8
  RrqRetries = 2
  AckRetries = 1
SPECIFICATION FairSpec
INVARIANTS
  OkMeansWhole
  DoneMeansStored
  TooBigIsTooBig
  ProtoNeedsDisorder
  RetriesOutlast
PROPERTIES
  TransferEnds
  TransferPromise
CHECK_DEADLOCK FALSE
