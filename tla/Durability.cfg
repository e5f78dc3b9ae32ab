SPECIFICATION FairSpec
CONSTANTS
  k1 = k1
  k2 = k2
  r1 = r1
  r2 = r2
  Calls = {1, 2, 3}
  Keys = {k1, k2}
  Entries = {1, 2}
  Replicas = {r1, r2}
  Required = 1
  Trials <- EachPart
INVARIANTS PoolIsSound  ProjectedInOrder
PROPERTY EveryCallIsAnswered
CHECK_DEADLOCK FALSE
