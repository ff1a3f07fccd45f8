CONSTANTS
  a = a
  b = b
  c = c
  c1 = c1
  c2 = c2
  none = none
  ib = ib
  bad = bad
  RunIds <- OneRun
  Clients <- MCClients
  Fabrics <- MCFabrics
  KnownFabrics <- MCKnownFabrics
  NoFabric <- none
  Requests <- Mixed
  Injections <- LongFaults
  MaxRuns = 1
  MaxSteps = 3
  MaxTime = 0
  ClockMayRegress = FALSE
  MaxStep = 5
  MaxEvents = 2
  TotalSteps = 5
  CkptInterval = 2
CHECK_DEADLOCK FALSE
SYMMETRY Symmetry
SPECIFICATION SimSpec
INVARIANTS
  HistoryComplete
  DoneMeansAllSteps
  StopBoundsProgress
  RecoveredOnce
  LostSinceSave
  LongFaultsCharged
