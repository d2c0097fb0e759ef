\* No caller has to act: when the bounds are reached, all may rest.
SPECIFICATION OnlineSpec
CONSTANTS
  Callers = {c1, c2, main}
  Stoppers = {main}
  MaxCalls = 2
  MaxUpdates = 3
  Unauthorized = {3}
  Limit = 1
  Fits = 2
  MaxCrashes = 1
INVARIANTS
  OneLoop
  EachUpdateOnce
  StopEndsItsLoop
PROPERTIES
  CallsReturn
  UpdatesAreHandled
CHECK_DEADLOCK FALSE
