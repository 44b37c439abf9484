\* One host, two sockets: a verb that resets and the STATUS that follows.
CONSTANTS
  a = a
  b = b
  NoSocket = NoSocket
  Operators = {a}
  Texts = {"STATUS", "SWITCH", "unknown", "long"}
  MaxOpens = 2
  MaxCopies = 0
  MaxEras = 1
  RingSlots = 1
  StatusTries = 2
  WatchRounds = 2
SPECIFICATION FairSpec
PROPERTIES
  HealthyMeansRebooted
  VerbsEnd
  ScriptsEnd
CHECK_DEADLOCK FALSE
