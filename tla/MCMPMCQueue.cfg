\* Two-slot queue, five positions across the overflow of the counters (the
\* eighth position is word 0 again), all operations.
CONSTANTS
  Threads = {t1, t2, t3}
  Cap = 2
  Laps = 4
  First = 5
  Last = 10
  MaxBulk = 2
  None = None
SPECIFICATION Spec
SYMMETRY ThreadSymmetry
INVARIANTS
  TypeOK
  SlotExclusive
  AccessesLive
  IInv
  InOrder
  DestructorFrees
PROPERTY ImplementsFifo
CHECK_DEADLOCK FALSE
