SPECIFICATION Spec
CONSTANTS
  NumPages = 2
  PageSize = 2
  IntPools = 4
  DevPools = 3
  MaxPools = 6
  Sizes = {0, 16}
INVARIANT InDevice
CHECK_DEADLOCK FALSE
