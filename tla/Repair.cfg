CONSTANTS
  d1 = d1
  d2 = d2
  d3 = d3
  d4 = d4
  a1 = a1
  a2 = a2
  a3 = a3
  b1 = b1
  b2 = b2
  b3 = b3
  r1 = r1
  r2 = r2
  k1 = k1
  k2 = k2
  DN = {d1, d2, d3, d4}
  Chunk = {a1, a2, a3, b1, b2, b3, r1, r2}
  Key = {k1, k2}
  AddrOrder <- AddrOrderDef
  ChunkOrder <- ChunkOrderDef
  BucketOf <- BucketDef
  Rank <- RankDef
  Setups <- AllSetups
SPECIFICATION FairSpec
CHECK_DEADLOCK FALSE
INVARIANTS
  HealTypeOK
  LossesAreFaults
  StripeSpread
  CapBound
  GivenUpRightly
PROPERTIES
  Healed
  StripesPlaced
