\* Two hosts that ask at the same time, and one datagram delivered twice.
CONSTANTS
  a = a
  b = b
  NoSocket = NoSocket
  Operators = {a, b}
  Texts = {"STATUS", "UPDATE", "SWITCH"}
  MaxOpens = 1
  MaxCopies = 1
  MaxEras = 1
  RingSlots = 1
  StatusTries = 2
  WatchRounds = 0
SPECIFICATION Spec
SYMMETRY HostSymmetry
INVARIANTS
  ChannelInv
  AnswersMatch
  OneShotVerbsRunOnce
PROPERTIES
  VerbKeepsRequester
CHECK_DEADLOCK FALSE
