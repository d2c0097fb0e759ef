\* No caller has to act: when the bounds are reached, all may rest.
SPECIFICATION OnlineSpec
CONSTANTS
  Callers = {}
  Stoppers = {}
  MaxCalls = 0
  MaxUpdates = 3
  Unauthorized = {}
  Limit = 3
  Fits = 2
  MaxCrashes = 0
PROPERTIES
  EveryBacklogDrains
CHECK_DEADLOCK FALSE
