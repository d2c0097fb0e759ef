\* The bounds end every behaviour, and a daemon nobody talks to may rest.
SPECIFICATION Spec
CONSTANTS
  TaskIds = {a, b}
  Managed = {a}
  Fragile = {b}
  RunIds = {r1}
  Handlers = {h1, h2}
  Main = Main
  LoadMayFail = TRUE
  MaxCrashes = 1
  None = None
SYMMETRY Symmetry
INVARIANTS
  AcknowledgedIsDurable
  ScriptsAreAccountedFor
  HistoryServesDependencies
PROPERTIES
  SavesAreAtomic
CHECK_DEADLOCK FALSE
