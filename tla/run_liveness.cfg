\* Every run ID is used up and every removal done: the instance stops there.
SPECIFICATION FairSpec
CONSTANTS
  TaskIds = {a}
  Packages = {p}
  RunIds = {r1, r2}
  Reloaders = {h1}
  Gateable = {}
  MaxConcurrentRuns = 2
  MaxRunsPerTask = 1
  MaxGeneration = 3
  None = None
PROPERTIES
  RunsComplete
  RemovedRunsTerminate
  CancellationReaches
CHECK_DEADLOCK FALSE
