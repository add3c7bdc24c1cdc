SPECIFICATION Spec
CONSTANTS
  r1 = r1
  r2 = r2
  r3 = r3
  Reqs = {r1, r2}
  Thread = Thread
  Nobody = Nobody
  PageCounts = {1, 2}
  RngSz = 3
  MaxStarts = 2
INVARIANTS TypeOK DoneMeansExecuted RingBooks BuffersStayPinned
PROPERTIES ServedInOrder EveryCallReturns
CHECK_DEADLOCK FALSE
