SPECIFICATION Spec
CONSTANTS
  m1 = m1
  p1 = p1
  p2 = p2
  Runs = {m1, p1}
  ManagedRuns = {m1}
  Files = {f1}
  a = a
  b = b
  Contents = {a, b}
  Absent = absent
  Developer = developer
  Retain = TRUE
  Executing = {m1, p1}
  MaxMoves = 2
  MaxWorkers = 2
  MaxRetries <- Redraft
PROPERTIES
  HostChangeBlocksMerge
CHECK_DEADLOCK FALSE
