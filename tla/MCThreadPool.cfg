\* Two workers, two sessions of up to two operations, a queue of two slots.
CONSTANTS
  Workers = {w1, w2}
  Acceptor = a
  Cap = 2
  Laps = 4
  NSessions = 2
  MaxIo = 2
  None = None
SPECIFICATION Spec
SYMMETRY WorkerSymmetry
INVARIANTS
  TypeOK
  CompletionsLive
  RingsPrivate
  StartedOnce
  LeftBehind
PROPERTY UsesQueue
CHECK_DEADLOCK FALSE
