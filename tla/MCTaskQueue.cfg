SPECIFICATION FairSpec
CONSTANTS
  NumTasks = 3
  Clients = {c1, c2}
  MaxConcurrent = 2
  MaxCompleted = 1
  Endless = {2}
INVARIANTS
  TypeOK
  Pool
  Filed
PROPERTIES
  Retention
  ImplementsLifecycle
  QueuedLeaves
  CancelAnswered
  ShutdownEnds
CHECK_DEADLOCK FALSE
