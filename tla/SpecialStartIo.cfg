SPECIFICATION SspFairSpec
CONSTANTS
  Threads = {t1, t2, t3}
  Irps = {i1, i2}
  NoIrp = NoIrp
CHECK_DEADLOCK FALSE
INVARIANTS OneAtATime TwiceOnlyIfCancelled
PROPERTY EveryReadCompletes
