SPECIFICATION Spec
CONSTANTS
  Sessions = {s1, s2}
  Clients = {c1}
  Cleaner = cleaner
  Nobody = nobody
  Retained = {s2}
  MaxStarts = 1
INVARIANTS
  Persisted
  TerminatedIsClean
  ContainersKnown
CHECK_DEADLOCK FALSE
