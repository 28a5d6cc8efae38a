SPECIFICATION FairSpec
CONSTANTS
  Threads = {t1, t2, t3}
  Irps = {i1, i2, i3}
  NoIrp = NoIrp
  ReuseStale = FALSE
INVARIANTS CompletedOnce QueueCancellable
PROPERTIES KeepsContract ReadsComplete
