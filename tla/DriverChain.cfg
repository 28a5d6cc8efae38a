SPECIFICATION FairSpec
CONSTANTS
  Threads = {t1, t2, t3}
  Nobody = Nobody
  Other = Other
  Uniprocessor = TRUE
INVARIANTS SlotHoldsWhatIsOwed UnloadFindsTimerIdle
PROPERTY ReadsOfBReturn
CHECK_DEADLOCK FALSE
