CONSTANTS
  e1 = e1
  e2 = e2
  c1 = c1
  c2 = c2
  k1 = k1
  k2 = k2
  u1 = u1
  d1 = d1
  x = x
  y = y
  Nil = Nil
  Edge = {e1, e2}
  Client = {c1, c2}
  Key = {k1, k2}
  Upload = {u1}
  DN = {d1}
  Setups <- SteadySetup
  MaxFails = 1
SPECIFICATION FairSpec
CHECK_DEADLOCK FALSE
PROPERTIES
  FollowerConverges
