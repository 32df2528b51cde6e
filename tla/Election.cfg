CONSTANTS
  n1 = n1
  n2 = n2
  e1 = e1
  None = None
  Node = {n1, n2}
  Entry = {e1}
  MaxTerm = 2
  MaxRuns = 2
  MaxBeats = 1
  MaxSeq = 1
SPECIFICATION FairSpec
CHECK_DEADLOCK FALSE
INVARIANTS
  LeaderWonItsTerm
PROPERTIES
  CampaignEnds
  OvertakenLeaderStepsDown
