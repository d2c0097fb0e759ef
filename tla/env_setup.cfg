\* A daemon nobody talks to may rest, and the bounds end every behaviour.
SPECIFICATION FairSpec
CONSTANTS
  a = a
  b = b
  dir = dir
  TaskIds = {a}
  Packages = {dir}
  Home <- OneId
  Workers = {w1, w2, w3}
  Checks = {c1}
  MaxGen = 3
  None = None
INVARIANTS
  ReadyMeansBuilt
  WorkersMatchState
PROPERTIES
  SetupSettles
CHECK_DEADLOCK FALSE
