SPECIFICATION TimersSpec
CONSTANTS
  Threads = {t1, t2, t3}
  Requests = {1, 12}
  LongRange = 128
  Uniprocessor = TRUE
  StopFirst = TRUE
  IotThreads = {t1, t2}
  TIMER_OUT = 3
CHECK_DEADLOCK FALSE
INVARIANTS PollingAlive DueAfterRequest QuietAfterUnload
PROPERTIES StopStops TimeoutOnTime TimeoutsGoOn
