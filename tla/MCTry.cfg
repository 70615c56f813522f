CONSTANTS
  Threads = {t1, t2}
  Cap = 2
  Laps = 8
  First = 0
  Last = 3
  MaxBulk = 2
  None = None
SPECIFICATION FairSpec
PROPERTY TryCallsReturn
CHECK_DEADLOCK FALSE
