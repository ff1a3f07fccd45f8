CONSTANTS
  a = a
  b = b
  c = c
  c1 = c1
  c2 = c2
  none = none
  ib = ib
  bad = bad
  RunIds <- ThreeRuns
  Clients <- OneClient
  Fabrics <- MCFabrics
  KnownFabrics <- MCKnownFabrics
  NoFabric <- none
  Requests <- Mixed
  Injections <- SomeFaults
  MaxRuns = 2
  MaxSteps = 1
  MaxTime = 0
  ClockMayRegress = FALSE
  MaxStep = 2
  MaxEvents = 0
  TotalSteps = 1
  CkptInterval = 1
CHECK_DEADLOCK FALSE
SPECIFICATION SimFairSpec
INVARIANT EndedRunsAreMarked
PROPERTIES
  SimImplementsRunLife
  TasksEnd
