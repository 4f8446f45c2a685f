SPECIFICATION FairSpec
CONSTANTS
  Sessions = {s1}
  Clients = {c1, c2}
  Cleaner = cleaner
  Nobody = nobody
  Retained = {}
  MaxStarts = 2
PROPERTY RestartRecovers
CHECK_DEADLOCK FALSE
