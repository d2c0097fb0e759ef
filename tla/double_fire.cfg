\* The bound on the clock ends every behaviour.
SPECIFICATION Spec
CONSTANTS
  home = home
  west = west
  Zones = {home}
  TaskIds = {a}
  Callers = {h1}
  MaxClock = 3
  Labels = {0, 1}
  Local <- ThreeMinutes
  Schedules <- EveryMinute
  None = None
INVARIANTS
  NoDoubleFire
CHECK_DEADLOCK FALSE
