\* The bound on the clock ends every behaviour.
SPECIFICATION Spec
CONSTANTS
  home = home
  west = west
  Zones = {home, west}
  TaskIds = {a}
  Callers = {h1, h2}
  MaxClock = 4
  Labels = {0, 1, 2}
  Local <- RepeatedText
  Schedules <- TwoSchedules
  None = None
SYMMETRY Symmetry
INVARIANTS
  DoubleFireNeedsPriming
  PassedOverForAReason
  LoaderAgreesWithScheduler
  CronFollowsSchema
  AdmittedManifestsRun
CHECK_DEADLOCK FALSE
