\* No caller has to act: when the bounds are reached, all may rest.
SPECIFICATION Spec
CONSTANTS
  Callers = {c1, c2}
  Stoppers = {}
  MaxCalls = 2
  MaxUpdates = 1
  Unauthorized = {}
  Limit = 1
  Fits = 1
  MaxCrashes = 0
SYMMETRY Symmetry
INVARIANTS
  StopTerminates
CHECK_DEADLOCK FALSE
