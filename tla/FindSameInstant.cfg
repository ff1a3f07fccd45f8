CONSTANTS
  NumJobs = 2
  Pool = 2
  Inputs <- MCInputs
  Prios = {1, 2}
  MinGpus = 1
  Submits = {0, 1}
  Durations = {1}
  Preemption = {TRUE, FALSE}
  Ends = {}
  LongSubmits = {}
  LongDurations = {}
CHECK_DEADLOCK FALSE
SPECIFICATION SchedSpec
PROPERTY FinishingFreesFirst
