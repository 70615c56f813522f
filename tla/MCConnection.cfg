\* Two workers; two numbers for three clients, so that numbers are reused.
CONSTANTS
  Workers = {w1, w2}
  NConns = 3
  Fds = {3, 4}
  BufCap = 2
  SizeMax = 3
  None = None
SPECIFICATION Spec
SYMMETRY WorkerSymmetry
INVARIANTS
  TypeOK
  DestroyedMeansClosed
  LostToDoubleClose
  EchoesWhatItRead
CHECK_DEADLOCK FALSE
