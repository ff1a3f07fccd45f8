CONSTANTS
  NumJobs = 4
  Pool = 2
  Inputs <- MCInputs
  Prios = {1, 2}
  MinGpus = 1
  Submits = {0, 1}
  Durations = {0, 2}
  Preemption = {TRUE, FALSE}
  Ends = {2}
  LongSubmits = {0, 1, 2, 3}
  LongDurations = {1, 3}
  Workloads <- MCWorkloads
  StageEnds = {0, 2, 4, 8}
  Targets = {0, 24, 72}
  MaxStages = 3
  EvalIntervals = {2, 3}
  Windows = {2, 4}
  Utilizations = {70}
  MostReplicas = 7
  Ticks = {1, 2}
  PoolSizes = {1, 2}
  Wanted <- MCWanted
  MaxMigRequests = 4
CHECK_DEADLOCK FALSE
SPECIFICATION EngineSpec
INVARIANTS
  GpusConserved
  QueuedWaitsOnRunning
  NoIdleFit
  TimelineFits
  TimeAddsUp
  PointsAreTrue
  PackingIsFirstFit
PROPERTIES
  PreemptsOnlyLower
  AllComplete
