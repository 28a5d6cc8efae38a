SPECIFICATION Spec
CONSTANTS
  Threads = {t1, t2}
  Irps = {i1, i2}
  Head = Head
  None = None
  Concurrent = TRUE
SYMMETRY Symmetry
CHECK_DEADLOCK FALSE
INVARIANT CleanUpProcessesQueue
