SPECIFICATION Spec
CONSTANTS
  Reg = 4
  Width = 4
  Banks = 2
  Burst = 2
  Step = 4
  Channels = 2
  Chunk = 8
  Huge = 32
  Calls <- ScaledCalls
INVARIANTS Addressed OutputOnce TileComplete CodesFit
CHECK_DEADLOCK FALSE
