\* Every run ID is used up and every removal done: the instance stops there.
SPECIFICATION Spec
CONSTANTS
  TaskIds = {a, b}
  Packages = {p, q}
  RunIds = {r1, r2}
  Reloaders = {h1, h2}
  Gateable = {a, b}
  MaxConcurrentRuns = 1
  MaxRunsPerTask = 1
  MaxGeneration = 2
  None = None
SYMMETRY Symmetry
INVARIANTS
  SlotOwned
  SlotsBoundScripts
  ListingIsSound
  ScriptsAreReachable
  HistoryCurrent
PROPERTIES
  KeepsSlots
CHECK_DEADLOCK FALSE
