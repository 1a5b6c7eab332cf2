SPECIFICATION FairSpec
CONSTANTS
  Width = 6  Height = 4  Bucket = 2
  Walls <- MCWalls
  Straight = 100  Diagonal = 141
  N = 2
  Start <- MCStart
  Targets <- MCTargets
  MaxIterations = 8
  MaxPathfinds = 1
  MaxCached = 1
  MaxOrders = 3
INVARIANT CacheIsExact
PROPERTIES ArrivesNear WalkEnds
