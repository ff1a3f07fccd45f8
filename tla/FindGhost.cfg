CONSTANTS
  a = a
  b = b
  c = c
  c1 = c1
  c2 = c2
  none = none
  ib = ib
  bad = bad
  RunIds <- TwoRuns
  Clients <- OneClient
  Fabrics <- MCFabrics
  KnownFabrics <- MCKnownFabrics
  NoFabric <- none
  Requests <- Unknown
  Injections <- LongFaults
  MaxRuns = 2
  MaxSteps = 3
  MaxTime = 0
  ClockMayRegress = FALSE
  MaxStep = 2
  MaxEvents = 0
  TotalSteps = 2
  CkptInterval = 2
CHECK_DEADLOCK FALSE
SPECIFICATION SimSpec
INVARIANT NoGhost
