\* A request that reaches the MAC after the last poll of UPDATE and before ctrl_done.
CONSTANTS
  a = a
  b = b
  NoSocket = NoSocket
  Operators = {a, b}
  Texts = {"STATUS", "UPDATE", "SWITCH"}
  MaxOpens = 1
  MaxCopies = 1
  MaxEras = 1
  RingSlots = 1
  StatusTries = 2
  WatchRounds = 0
SPECIFICATION Spec
PROPERTIES
  NeverQueued
CHECK_DEADLOCK FALSE
