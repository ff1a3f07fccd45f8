CONSTANTS
  Runs <- MCRuns
  NoRun = 0
  K8sAvailable = TRUE
  MayForget = FALSE
  InOrder = TRUE
  MaxPolls = 1
  MaxRequests = 1
CHECK_DEADLOCK FALSE
SPECIFICATION LiveFairSpec
INVARIANT SettledIsOver
PROPERTIES
  SelectionSticks
  OverIsShown
  StillRunningIsShown
