CONSTANTS
  MAX_LANES = 3
  MaxLaneId = 3
  MaxTokens = 1
  MaxStale = 1
  MaxDisturbed = 1
CHECK_DEADLOCK FALSE
SPECIFICATION PlayFairSpec
INVARIANTS
  PrefillsQueue
  ShownIsStreamed
PROPERTIES
  EndsWhenAllDone
  UndisturbedRunsEnd
