\* The bounds end every behaviour, and a daemon nobody talks to may rest.
SPECIFICATION Spec
CONSTANTS
  TaskIds = {a, b}
  Managed = {a}
  Fragile = {}
  RunIds = {}
  Handlers = {h1}
  Main = Main
  LoadMayFail = FALSE
  MaxCrashes = 2
  None = None
INVARIANTS
  TasksSurvive
CHECK_DEADLOCK FALSE
