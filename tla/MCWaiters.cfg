CONSTANTS
  Threads = {t1, t2, t3}
  Cap = 2
  Laps = 4
  First = 0
  Last = 3
  MaxBulk = 2
  None = None
SPECIFICATION FairSpec
PROPERTIES WaitersServed DrainsReturn
CHECK_DEADLOCK FALSE
