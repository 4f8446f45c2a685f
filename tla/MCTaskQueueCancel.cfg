SPECIFICATION Spec
CONSTANTS
  NumTasks = 3
  Clients = {c1, c2}
  MaxConcurrent = 1
  MaxCompleted = 2
  Endless = {2}
INVARIANT CancelReturnsTerminal
CHECK_DEADLOCK FALSE
