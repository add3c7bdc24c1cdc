SPECIFICATION FairSpec
CONSTANTS
  c1 = c1
  c2 = c2
  p1 = p1
  p2 = p2
  Clients = {c1, c2}
  NoClient = NoClient
  Processes = {p1}
  ProcOf <- OneProcess
  MaxDesc = 2
  MaxPolls = 2
  MaxJobs = 2
  MaxRaceJobs = 1
INVARIANTS TypeOK DoneInTurns NothingLeftOver NeverUnattended
PROPERTIES EveryCallReturns
CHECK_DEADLOCK FALSE
