SPECIFICATION FairSpec
CONSTANTS
  v1 = v1
  v2 = v2
  Pf = Pf
  Vfs = {v1}
  TotalQ = 2
  Sizes = {1, 2}
  CountMod = 3
  MaxExpired = 1
INVARIANTS TypeOK Partition  
PROPERTY EveryCommandEnds
