SPECIFICATION FairSpec
CONSTANTS
  Sessions = {s1}
  Clients = {c1, c2}
  Cleaner = cleaner
  Nobody = nobody
  Retained = {}
  MaxStarts = 2
INVARIANTS
  TypeOK
  Provisioning
  Persisted
  TerminatedIsClean
  ContainersKnown
PROPERTIES
  StaleCleaned
  RunAnswered
CHECK_DEADLOCK FALSE
