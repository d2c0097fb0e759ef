\* A daemon nobody talks to may rest, and the bounds end every behaviour.
SPECIFICATION Spec
CONSTANTS
  a = a
  b = b
  dir = dir
  TaskIds = {a, b}
  Packages = {dir}
  Home <- ImportedTwice
  Workers = {w1, w2}
  Checks = {}
  MaxGen = 2
  None = None
SYMMETRY Symmetry
INVARIANTS
  ReadyIsBuilt
CHECK_DEADLOCK FALSE
