CONSTANTS
  w1 = w1
  w2 = w2
  w3 = w3
  Writer = {w1, w2, w3}
  Oversized = {w3}
  Confs <- AllConfs
  MaxFaults = 2
  MaxEpoch = 2
  MaxCrashes = 1
SPECIFICATION FairSpec
CHECK_DEADLOCK FALSE
INVARIANTS
  AckedDurable
  SinceOrdered
PROPERTIES
  JournalRefined
  WaiterReleased
