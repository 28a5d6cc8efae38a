SPECIFICATION FairSpec
CONSTANTS
  Threads = {t1, t2, t3}
  Irps = {i1, i2}
  NoIrp = NoIrp
  ReuseStale = FALSE
PROPERTIES EveryReadCompletes
