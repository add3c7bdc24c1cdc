SPECIFICATION FairSpec
CONSTANTS
  c1 = c1
  c2 = c2
  ch1 = ch1
  ch2 = ch2
  Clients = {c1, c2}
  Channels = {ch1, ch2}
  Chunk = 2
  Lengths = {0, 3}
  MaxLength = 3
  MaxCalls = 3
INVARIANTS TypeOK SuccessMeansCopied SuccessLosesNothing
PROPERTIES EveryCopyReturns
CHECK_DEADLOCK FALSE
