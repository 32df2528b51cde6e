CONSTANTS
  n1 = n1
  n2 = n2
  n3 = n3
  e1 = e1
  e2 = e2
  None = None
  Node = {n1, n2, n3}
  Entry = {e1, e2}
  Txn = {e1}
  MaxCalls = 1
  MaxTerm = 2
  MaxRuns = 2
  MaxBeats = 0
  MaxSeq = 1
SPECIFICATION CommitSpec
SYMMETRY Symmetry
CHECK_DEADLOCK FALSE
INVARIANTS
  ElectionSafety
  CommittedOnQuorum
  AckedOrDeposed
PROPERTIES
  TermAndVoteStable
  ElectionRefined
