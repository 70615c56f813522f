\* One worker that can always run, three sessions of one operation each.
CONSTANTS
  Workers = {w1}
  Acceptor = a
  Cap = 2
  Laps = 4
  NSessions = 3
  MaxIo = 1
  None = None
SPECIFICATION FairSpec
PROPERTIES
  FinishedReclaimed
  NotificationServed
  WorkersExit
CHECK_DEADLOCK FALSE
