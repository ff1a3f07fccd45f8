CONSTANTS
  a = a
  b = b
  none = none
  RunIds <- MCRunIds
  Fabrics <- MCFabrics
  NoFabric = none
  Injections <- MCInjections
  MaxRuns = 1
  MaxSteps = 2
  MaxTime = 0
  ClockMayRegress = FALSE
  MaxStep = 0
  MaxEvents = 0
  TotalSteps = 2
CHECK_DEADLOCK FALSE
SPECIFICATION TrainerFairSpec
INVARIANTS
  CleanRunsAreTrue
  StoppedMeansDeleted
PROPERTIES
  ImplementsRunLife
  TrainersEnd
