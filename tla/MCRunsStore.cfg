CONSTANTS
  a = a
  b = b
  c = c
  none = none
  RunIds <- MCRunIds
  Fabrics <- MCFabrics
  NoFabric <- none
  Injections <- MCInjections
  MaxRuns = 2
  MaxSteps = 1
  MaxTime = 2
  ClockMayRegress = FALSE
  MaxStep = 1
  MaxEvents = 1
SYMMETRY MCSymmetry
SPECIFICATION StoreSpec
INVARIANTS
  CapHolds
PROPERTY EvictsOldest
