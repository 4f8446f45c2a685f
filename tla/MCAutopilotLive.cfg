SPECIFICATION FairSpec
CONSTANTS
  m1 = m1
  p1 = p1
  p2 = p2
  Runs = {m1, p1}
  ManagedRuns = {m1}
  Files = {}
  a = a
  b = b
  Contents = {a}
  Absent = absent
  Developer = developer
  Retain = FALSE
  Executing = {p1}
  MaxMoves = 1
  MaxWorkers = 2
  MaxRetries <- Redraft
INVARIANTS
  MergedWasValidated
PROPERTIES
  RunsEnd
CHECK_DEADLOCK FALSE
