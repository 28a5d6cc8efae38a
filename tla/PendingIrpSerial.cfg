SPECIFICATION FairSpec
CONSTANTS
  Threads = {t1, t2}
  Irps = {i1, i2, i3}
  Head = Head
  None = None
  Concurrent = FALSE
INVARIANTS ListHoldsPending CleanUpProcessesQueue
PROPERTIES KeepsContract CloseReleasesDevice
