\* Tasks three deep, with five awaits between them.  Without symmetry, which
\* liveness does not allow.
CONSTANTS
  Waiter = waiter
  Executors = {e1, e2}
  MaxDepth = 3
  MaxAwaits = 5
  None = None
SPECIFICATION FairSpec
INVARIANTS
  TypeOK
  FramesLive
PROPERTY
  ImplementsCall
CHECK_DEADLOCK FALSE
