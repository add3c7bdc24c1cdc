SPECIFICATION Spec
CONSTANTS
  NumPages = 4
  PageSize = 2
  IntPools = 16
  DevPools = 2
  MaxPools = 2
  Sizes = {0, 1, 9}
INVARIANTS TypeOK IInv
CHECK_DEADLOCK FALSE
