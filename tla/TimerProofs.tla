---------------------------- MODULE TimerProofs ----------------------------
(***************************************************************************)
(* Proofs about DpcTimer, for every set of threads and of intervals and    *)
(* every width of a LONG, and about IoTimer, for every set of threads and  *)
(* every TIMER_OUT.                                                        *)
(***************************************************************************)
EXTENDS DpcTimer, IoTimer, TLAPS

\* Polling goes on from START to STOP, on any number of processors and whether
\* or not the process stops the timer: whenever the timer is not set, the DPC
\* that sets it again (Source.cpp:48-52) is queued.
THEOREM PollingStaysAlive == Spec => []PollingAlive
<1>1. Init => PollingAlive
  BY DEF Init, PollingAlive
<1>2. ASSUME PollingAlive, [Next]_vars
      PROVE  PollingAlive'
  <2>1. CASE UNCHANGED vars
    BY <1>2, <2>1 DEF vars, PollingAlive
  <2>2. CASE OpenDevice \/ CloseDevice \/ HelloDDKUnload
    BY <1>2, <2>2 DEF OpenDevice, CloseDevice, HelloDDKUnload, PollingAlive
  <2>3. ASSUME NEW t \in Threads, DeviceIOControl(t) \/ StoreInterval(t)
        PROVE  PollingAlive'
    BY <1>2, <2>3 DEF DeviceIOControl, StoreInterval, PollingAlive
  <2>4. ASSUME NEW t \in Threads, StartTimer(t) \/ StopTimer(t)
        PROVE  PollingAlive'
    BY <2>4 DEF StartTimer, StopTimer, PollingAlive
  <2>5. CASE TimerExpires \/ PollingTimerDpc
    BY <2>5 DEF TimerExpires, PollingTimerDpc, PollingAlive
  <2> QED
    BY <1>2, <2>1, <2>2, <2>3, <2>4, <2>5 DEF Next, RequestStep
<1> QED
  BY <1>1, <1>2, PTL DEF Spec

-----------------------------------------------------------------------------
(***************************************************************************)
(* One processor.  QuietAfterUnload alone is not inductive: the unloading  *)
(* must find the timer at rest already, because the process has stopped it *)
(* and no DPC was queued when it did.                                      *)
(***************************************************************************)

\* Every step keeps QuietInv on one processor.
LEMMA QuietStep ==
  ASSUME Uniprocessor = TRUE, StopFirst = TRUE, QuietInv, [Next]_vars
  PROVE  QuietInv'
<1>1. CASE UNCHANGED vars
  BY <1>1 DEF vars, QuietInv
<1>2. CASE OpenDevice
  BY <1>2 DEF OpenDevice, QuietInv
<1>3. CASE CloseDevice
  BY <1>3 DEF CloseDevice, QuietInv
<1>4. CASE HelloDDKUnload
  BY <1>4 DEF HelloDDKUnload, QuietInv
<1>5. ASSUME NEW t \in Threads, DeviceIOControl(t)
      PROVE  QuietInv'
  BY <1>5 DEF DeviceIOControl, QuietInv
<1>6. ASSUME NEW t \in Threads, RequestStep(t)
      PROVE  QuietInv'
  <2>1. device = "open" /\ device' = device
    BY <1>6 DEF RequestStep, StoreInterval, StartTimer, StopTimer, QuietInv
  <2>2. CASE StoreInterval(t)
    BY <2>1, <2>2 DEF StoreInterval, QuietInv
  <2>3. CASE StartTimer(t)
    BY <2>1, <2>3 DEF StartTimer, QuietInv
  <2>4. CASE StopTimer(t)
    BY <2>1, <2>4 DEF StopTimer, ThreadsRun, QuietInv
  <2> QED
    BY <1>6, <2>2, <2>3, <2>4 DEF RequestStep
<1>7. CASE TimerExpires
  BY <1>7 DEF TimerExpires, QuietInv
<1>8. CASE PollingTimerDpc
  BY <1>8 DEF PollingTimerDpc, QuietInv
<1> QED
  BY <1>1, <1>2, <1>3, <1>4, <1>5, <1>6, <1>7, <1>8 DEF Next

\* On one processor, if the process stops the timer before it closes the
\* device, HelloDDKUnload deletes a device whose timer and DPC are at rest
\* (Source.cpp:125).
THEOREM UnloadIsQuiet ==
  ASSUME Uniprocessor = TRUE, StopFirst = TRUE
  PROVE  Spec => []QuietAfterUnload
<1>1. Init => QuietInv
  BY DEF Init, QuietInv
<1>2. QuietInv /\ [Next]_vars => QuietInv'
  BY QuietStep
<1>3. QuietInv => QuietAfterUnload
  BY DEF QuietInv, QuietAfterUnload
<1> QED
  BY <1>1, <1>2, <1>3, PTL DEF Spec

-----------------------------------------------------------------------------
(***************************************************************************)
(* The interval: what DueTime makes of it, and who stores it when.         *)
(***************************************************************************)

\* A product that fits is converted as it is.
LEMMA DueTimeFits ==
  ASSUME NEW us \in Requests, us > 0, 10 * us <= LongRange
  PROVE  DueTime(us) = -(10 * us)
<1>1. us \in Int /\ LongRange \in Nat \ {0}
  BY DpcTimerAssumption
<1> DEFINE d == 2 * LongRange
           x == us * (-10)
<1>2. d \in Nat \ {0} /\ x \in Int /\ -LongRange <= x /\ x < 0
  BY <1>1
<1>3. x % d = x + d
  <2>1. x + d \in 0 .. d - 1
    BY <1>1, <1>2
  <2> HIDE DEF d, x
  <2> QED
    BY <1>2, <2>1
<1> QED
  BY <1>1, <1>2, <1>3 DEF DueTime

\* DueTime makes a LONG.
LEMMA DueTimeIsLong ==
  ASSUME NEW us \in Requests
  PROVE  DueTime(us) \in Longs
<1>1. us \in Int /\ LongRange \in Nat \ {0}
  BY DpcTimerAssumption
<1> DEFINE p == (us * (-10)) % (2 * LongRange)
<1>2. p \in 0 .. 2 * LongRange - 1
  <2>1. us * (-10) \in Int /\ 2 * LongRange \in Nat \ {0}
    BY <1>1
  <2> QED
    BY <2>1
<1>3. DueTime(us) = IF p < LongRange THEN p ELSE p - 2 * LongRange
  BY DEF DueTime
<1> HIDE DEF p
<1> QED
  BY <1>1, <1>2, <1>3 DEF Longs

\* The variables keep their types.
THEOREM DpcTypeCorrect == Spec => []TypeOK
<1>1. Init => TypeOK
  <2>1. 0 \in Longs
    BY DpcTimerAssumption DEF Longs
  <2> QED
    BY <2>1 DEF Init, TypeOK
<1>2. ASSUME TypeOK, [Next]_vars
      PROVE  TypeOK'
  <2>1. CASE UNCHANGED vars
    BY <1>2, <2>1 DEF vars, TypeOK
  <2>2. CASE OpenDevice \/ CloseDevice \/ HelloDDKUnload
    BY <1>2, <2>2 DEF OpenDevice, CloseDevice, HelloDDKUnload, TypeOK
  <2>3. ASSUME NEW t \in Threads, DeviceIOControl(t)
        PROVE  TypeOK'
    BY <1>2, <2>3 DEF DeviceIOControl, TypeOK
  <2>4. ASSUME NEW t \in Threads, StoreInterval(t)
        PROVE  TypeOK'
    <3>1. interval' \in Longs
      BY <2>4, DueTimeIsLong DEF StoreInterval
    <3> QED
      BY <1>2, <2>4, <3>1 DEF StoreInterval, TypeOK
  <2>5. ASSUME NEW t \in Threads, StartTimer(t) \/ StopTimer(t)
        PROVE  TypeOK'
    BY <1>2, <2>5 DEF StartTimer, StopTimer, TypeOK
  <2>6. CASE TimerExpires \/ PollingTimerDpc
    BY <1>2, <2>6 DEF TimerExpires, PollingTimerDpc, TypeOK
  <2> QED
    BY <1>2, <2>1, <2>2, <2>3, <2>4, <2>5, <2>6 DEF Next, RequestStep
<1> QED
  BY <1>1, <1>2, PTL DEF Spec

\* Every step keeps IntervalInv, on any number of processors.
LEMMA IntervalStep ==
  ASSUME ShortRequests, IntervalInv, [Next]_vars
  PROVE  IntervalInv'
<1> USE DEF IntervalInv
<1>1. CASE UNCHANGED vars
  BY <1>1 DEF vars, Asked
<1>2. CASE OpenDevice \/ CloseDevice \/ HelloDDKUnload
  BY <1>2 DEF OpenDevice, CloseDevice, HelloDDKUnload, Asked
<1>3. ASSUME NEW t \in Threads, DeviceIOControl(t)
      PROVE  IntervalInv'
  <2>1. \A u \in Threads : pc'[u] = "set" => pc[u] = "set"
    BY <1>3 DEF DeviceIOControl
  <2> QED
    BY <1>3, <2>1 DEF DeviceIOControl, Asked
<1>4. ASSUME NEW t \in Threads, StoreInterval(t)
      PROVE  IntervalInv'
  <2>1. PICK us \in Requests : interval' = DueTime(us)
    BY <1>4 DEF StoreInterval
  <2>2. Asked(interval')
    BY <2>1, DueTimeFits DEF ShortRequests, Asked
  <2> QED
    BY <1>4, <2>2 DEF StoreInterval, Asked
<1>5. ASSUME NEW t \in Threads, StartTimer(t)
      PROVE  IntervalInv'
  BY <1>5 DEF StartTimer, Asked
<1>6. ASSUME NEW t \in Threads, StopTimer(t)
      PROVE  IntervalInv'
  <2>1. \A u \in Threads : pc'[u] = "set" => pc[u] = "set"
    BY <1>6 DEF StopTimer
  <2> QED
    BY <1>6, <2>1 DEF StopTimer, Asked
<1>7. CASE TimerExpires \/ PollingTimerDpc
  BY <1>7 DEF TimerExpires, PollingTimerDpc, Asked
<1> QED
  BY <1>1, <1>2, <1>3, <1>4, <1>5, <1>6, <1>7 DEF Next, RequestStep

\* If the intervals asked for are positive and at most LongRange / 10
\* microseconds (214 seconds), the timer is set for one of them and never for a
\* time in the past (Source.cpp:221).
THEOREM DueAsAsked ==
  ASSUME ShortRequests
  PROVE  Spec => []DueAfterRequest
<1>1. Init => IntervalInv
  BY DEF Init, IntervalInv
<1>2. IntervalInv /\ [Next]_vars => IntervalInv'
  BY IntervalStep
<1>3. IntervalInv => DueAfterRequest
  BY DEF IntervalInv, Asked, DueAfterRequest
<1> QED
  BY <1>1, <1>2, <1>3, PTL DEF Spec

-----------------------------------------------------------------------------
(***************************************************************************)
(* IoTimer: the sum of the count and of the seconds since the last START   *)
(* or timeout is what the code never writes down.                          *)
(***************************************************************************)

IotIInv == IotTypeOK /\ CountInv

\* The initial state: the timer does not run and nobody is about to start it.
LEMMA CountStart == IotInit => IotIInv
<1> SUFFICES ASSUME IotInit
             PROVE  IotIInv
  OBVIOUS
<1>1. 0 \in 0 .. TIMER_OUT
  BY IoTimerAssumption
<1>2. IotTypeOK
  BY <1>1 DEF IotInit, IotTypeOK
<1>3. CountInv
  BY DEF IotInit, CountInv
<1> QED
  BY <1>2, <1>3 DEF IotIInv

\* Every step keeps the sum.
LEMMA CountStep ==
  ASSUME IotIInv, [IotNext]_iotVars
  PROVE  IotIInv'
<1> USE IoTimerAssumption DEF IotIInv, IotTypeOK, CountInv
<1>1. CASE UNCHANGED iotVars
  BY <1>1 DEF iotVars
<1>2. ASSUME NEW t \in IotThreads, IotControl(t)
      PROVE  IotIInv'
  BY <1>2 DEF IotControl
<1>3. ASSUME NEW t \in IotThreads, ResetCount(t)
      PROVE  IotIInv'
  BY <1>3 DEF ResetCount
<1>4. ASSUME NEW t \in IotThreads, IoStartTimer(t)
      PROVE  IotIInv'
  <2>1. lTimerCount + seconds = TIMER_OUT /\ (lTimerCount = 0 => ticking)
    BY <1>4 DEF IoStartTimer
  <2> QED
    BY <1>4, <2>1 DEF IoStartTimer
<1>5. ASSUME NEW t \in IotThreads, IoStopTimer(t)
      PROVE  IotIInv'
  <2>1. IotTypeOK'
    BY <1>5 DEF IoStopTimer
  <2>2. \A u \in IotThreads : iotPc'[u] = "begin" => iotPc[u] = "begin"
    BY <1>5 DEF IoStopTimer
  <2>3. CountInv'
    BY <1>5, <2>2 DEF IoStopTimer
  <2> QED
    BY <2>1, <2>3
<1>6. CASE OnTimerCounts
  BY <1>6 DEF OnTimerCounts
<1>7. CASE OnTimerReports
  <2>1. lTimerCount + seconds = TIMER_OUT
    BY <1>7 DEF OnTimerReports
  <2>2. CASE lTimerCount = 0
    <3>1. lTimerCount' = TIMER_OUT /\ seconds' = 0
      BY <1>7, <2>2 DEF OnTimerReports
    <3>2. iotStarted' \in BOOLEAN /\ ticking' \in BOOLEAN
      BY <1>7 DEF OnTimerReports
    <3>3. iotPc' = iotPc
      BY <1>7 DEF OnTimerReports
    <3> QED
      BY <3>1, <3>2, <3>3
  <2>3. CASE lTimerCount # 0
    <3>1. lTimerCount' = lTimerCount /\ seconds' = seconds
      BY <1>7, <2>3 DEF OnTimerReports
    <3>2. iotStarted' \in BOOLEAN /\ ticking' \in BOOLEAN
      BY <1>7 DEF OnTimerReports
    <3>3. iotPc' = iotPc
      BY <1>7 DEF OnTimerReports
    <3> QED
      BY <2>1, <2>3, <3>1, <3>2, <3>3
  <2> QED
    BY <2>2, <2>3
<1> QED
  BY <1>1, <1>2, <1>3, <1>4, <1>5, <1>6, <1>7 DEF IotNext, IotRequestStep

\* The variables keep their types; the count stays between 0 and TIMER_OUT.
THEOREM IotTypeCorrect == IotSpec => []IotTypeOK
<1>1. IotInit => IotIInv
  BY CountStart
<1>2. IotIInv /\ [IotNext]_iotVars => IotIInv'
  BY CountStep
<1>3. IotIInv => IotTypeOK
  BY DEF IotIInv
<1> QED
  BY <1>1, <1>2, <1>3, PTL DEF IotSpec

\* A timeout comes TIMER_OUT seconds after the last one or after the last
\* START, whenever a START stores its count (Source.cpp:212).
THEOREM TimeoutsComeOnTime == IotSpec => TimeoutOnTime
<1>1. IotInit => IotIInv
  BY CountStart
<1>2. IotIInv /\ [IotNext]_iotVars => IotIInv'
  BY CountStep
<1>3. IotIInv /\ [IotNext]_iotVars => [Timeout => seconds = TIMER_OUT]_iotVars
  BY IoTimerAssumption DEF IotIInv, IotTypeOK, CountInv, Timeout, OnTimerReports
<1> QED
  BY <1>1, <1>2, <1>3, PTL DEF IotSpec, TimeoutOnTime
=============================================================================
