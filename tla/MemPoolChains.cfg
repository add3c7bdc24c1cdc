SPECIFICATION Spec
CONSTANTS
  NumPages = 2
  PageSize = 2
  IntPools = 16
  DevPools = 4
  MaxPools = 5
  Sizes = {0, 1, 5, 9, 13}
INVARIANTS Disjoint InDevice BooksBalance FreeNeverFaults
PROPERTIES Refines FreeIsLocal
CHECK_DEADLOCK FALSE
