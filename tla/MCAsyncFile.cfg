\* The kernel's completion queue is twice the submission queue: small enough
\* that three coroutines fill both and the backlog.
CONSTANTS
  Coros = {c1, c2, c3}
  Depth = 1
  CqSize = 2
  MaxOps = 2
  None = None
SPECIFICATION FairFileSpec
INVARIANTS
  FileTypeOK
  OneOperationEach
  WaitsForKernel
  OneStatx
PROPERTIES
  ImplementsAsyncIo
  Resumed
CHECK_DEADLOCK FALSE
