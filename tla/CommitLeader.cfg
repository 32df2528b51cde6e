CONSTANTS
  n1 = n1
  n2 = n2
  n3 = n3
  e1 = e1
  None = None
  Node = {n1, n2, n3}
  Entry = {e1}
  Txn = {e1}
  MaxTerm = 2
  MaxRuns = 2
  MaxBeats = 0
  MaxSeq = 1
  MaxCalls = 1
SPECIFICATION CrashSpec
SYMMETRY Symmetry
CHECK_DEADLOCK FALSE
INVARIANTS
  LeaderComplete
