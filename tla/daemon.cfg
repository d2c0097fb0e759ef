\* Every process is started once: when all have ended nothing happens.
CONSTANTS
  Daemons = {d1, d2}
  Probes = {p1}
  Changes = {1, 2, 3}
  Tasks = {1, 2}
  Connections = {stream}
  Nobody = nobody
SPECIFICATION Spec
INVARIANTS HolderIsNamed
PROPERTIES SavedIsKept ShutdownEnds
CHECK_DEADLOCK FALSE
