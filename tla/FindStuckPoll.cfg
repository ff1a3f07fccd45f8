CONSTANTS
  Runs <- MCRuns
  NoRun = 0
  K8sAvailable = TRUE
  MayForget = FALSE
  InOrder = FALSE
  MaxPolls = 2
  MaxRequests = 0
CHECK_DEADLOCK FALSE
SPECIFICATION LiveSpec
INVARIANT SettledIsOver
