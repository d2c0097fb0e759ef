\* A daemon nobody talks to may rest, and the bounds end every behaviour.
SPECIFICATION Spec
CONSTANTS
  a = a
  b = b
  dir = dir
  TaskIds = {a}
  Packages = {dir}
  Home <- OneId
  Workers = {w1, w2}
  Checks = {c1}
  MaxGen = 3
  None = None
SYMMETRY Symmetry
INVARIANTS
  ReadyIsBuilt
CHECK_DEADLOCK FALSE
