SPECIFICATION FairSpec
CONSTANTS
  Threads = {t1}
  Requests = {1}
  LongRange = 128
  Uniprocessor = FALSE
  StopFirst = TRUE
CHECK_DEADLOCK FALSE
PROPERTY StopStops
