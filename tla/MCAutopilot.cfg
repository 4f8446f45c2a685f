SPECIFICATION Spec
CONSTANTS
  m1 = m1
  p1 = p1
  p2 = p2
  Runs = {p1, p2}
  ManagedRuns = {}
  Files = {f1}
  a = a
  b = b
  Contents = {a, b}
  Absent = absent
  Developer = developer
  Retain = TRUE
  Executing = {p1, p2}
  MaxMoves = 2
  MaxWorkers = 1
  MaxRetries <- OneDraft
INVARIANTS
  TypeOK
  SessionGivenUp
PROPERTIES
  MergedStays
SYMMETRY Interchangeable
CHECK_DEADLOCK FALSE
