\* Every run ID is used up and every removal done: the instance stops there.
SPECIFICATION Spec
CONSTANTS
  TaskIds = {a, b}
  Packages = {p}
  RunIds = {r1, r2, r3}
  Reloaders = {h1}
  Gateable = {}
  MaxConcurrentRuns = 2
  MaxRunsPerTask = 1
  MaxGeneration = 2
  None = None
SYMMETRY Symmetry
INVARIANTS
  NoOverlap
CHECK_DEADLOCK FALSE
