SPECIFICATION Spec
CONSTANTS
  f1 = f1
  f2 = f2
  b1 = b1
  b2 = b2
  b3 = b3
  NULL = NULL
  Files = {f1, f2}
  Buffers = {b1, b2, b3}
  Lengths = {1, 2, 3}
  Limit = 3
INVARIANTS TypeOK MappingsBacked CopiesBetweenOwn NothingLost
SYMMETRY Symmetry
CHECK_DEADLOCK FALSE
