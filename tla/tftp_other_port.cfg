\* A datagram from another port of the server during a transfer.
CONSTANTS
  short = short
  exact = exact
  big = big
  Missing = Missing
  Files = {short, exact, big}
  FullBlocks <- Full
  TailLen <- Tails
  BlockSize = 2
  Wrap = 4
  ServerSends = 2
  MaxSessions = 2
  MaxFaults = 3
  Echoes = 0
  DstLen = 8
  RrqRetries = 2
  AckRetries = 1
SPECIFICATION Spec
PROPERTIES
  OtherPortsIgnored
CHECK_DEADLOCK FALSE
