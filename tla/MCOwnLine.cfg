\* The smallest instance in which a closed number is handed out again.
CONSTANTS
  Workers = {w1, w2}
  NConns = 3
  Fds = {3, 4}
  BufCap = 2
  SizeMax = 3
  None = None
SPECIFICATION Spec
SYMMETRY WorkerSymmetry
INVARIANT OwnLine
CHECK_DEADLOCK FALSE
