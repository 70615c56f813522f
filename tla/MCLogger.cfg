\* More records than the queue has places, so that log waits on a full queue;
\* two files and two entries, so that a file is added twice.  Without
\* symmetry, which liveness does not allow.
CONSTANTS
  Users = {u1, u2}
  Bg = bg
  Owner = owner
  Files = {out, f1}
  Stdout = out
  QCap = 2
  NRecords = 3
  MaxOutputs = 2
  None = None
SPECIFICATION FairSpec
INVARIANTS
  TypeOK
  SecondPoller
  WrittenInOrder
  NothingLost
PROPERTY
  RecordsWritten
CHECK_DEADLOCK FALSE
