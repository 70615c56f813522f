\* One worker: the notification of its only session can go unheard.
CONSTANTS
  Workers = {w1}
  Acceptor = a
  Cap = 2
  Laps = 4
  NSessions = 1
  MaxIo = 1
  None = None
SPECIFICATION FairSpec
PROPERTY IdleThreadsTakeSessions
CHECK_DEADLOCK FALSE
