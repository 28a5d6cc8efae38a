------------------------------- MODULE IoTimer -------------------------------
(***************************************************************************)
(* chap10/IoTimerTest: the I/O timer calls OnTimer once a second while it  *)
(* is started.  OnTimer counts down from TIMER_OUT with an interlocked     *)
(* decrement, and an interlocked compare-and-exchange that reports a       *)
(* timeout and starts over at zero; IOCTL_START_TIMER stores TIMER_OUT     *)
(* with a plain assignment and starts the timer, IOCTL_STOP stops it.      *)
(*                                                                         *)
(* The I/O manager calls OnTimer under its timer lock, which IoStartTimer  *)
(* and IoStopTimer take too: only the plain store falls between the two    *)
(* steps of OnTimer.                                                       *)
(***************************************************************************)
LOCAL INSTANCE Integers

CONSTANTS
  IotThreads,    \* the threads that control the timer
  TIMER_OUT   \* the seconds between two timeouts

ASSUME IoTimerAssumption == TIMER_OUT \in Nat \ {0}

VARIABLES
  lTimerCount,  \* the count in the device extension
  iotStarted,      \* is the I/O timer of the device started?
  ticking,      \* is OnTimer between its two interlocked operations?
  seconds,      \* the calls of OnTimer since the timeout or the START last seen
  iotPc            \* iotPc[t]: "idle", or the request thread t is in

iotVars == <<lTimerCount, iotStarted, ticking, seconds, iotPc>>

IotTypeOK ==
  /\ lTimerCount \in 0 .. TIMER_OUT
  /\ iotStarted \in BOOLEAN
  /\ ticking \in BOOLEAN
  /\ seconds \in 0 .. TIMER_OUT
  /\ iotPc \in [IotThreads -> {"idle", "start", "begin", "stop"}]

\* CreateDevice initialises the timer; the extension is zeroed.
IotInit ==
  /\ lTimerCount = 0
  /\ iotStarted = FALSE
  /\ ticking = FALSE
  /\ seconds = 0
  /\ iotPc = [t \in IotThreads |-> "idle"]

-----------------------------------------------------------------------------
\* IOCTL_START_TIMER or IOCTL_STOP reaches HelloDDKDeviceIOControl.
IotControl(t) ==
  /\ iotPc[t] = "idle"
  /\ \E request \in {"start", "stop"} : iotPc' = [iotPc EXCEPT ![t] = request]
  /\ UNCHANGED <<lTimerCount, iotStarted, ticking, seconds>>

\* Mutant of ResetCount: the count is one too small.
ResetCountShort(t) ==
  /\ iotPc[t] = "start"
  /\ lTimerCount' = TIMER_OUT - 1
  /\ seconds' = 0
  /\ iotPc' = [iotPc EXCEPT ![t] = "begin"]
  /\ UNCHANGED <<iotStarted, ticking>>

\* START stores TIMER_OUT, not interlocked.
ResetCount(t) ==
  /\ iotPc[t] = "start"
  /\ lTimerCount' = TIMER_OUT
  /\ seconds' = 0
  /\ iotPc' = [iotPc EXCEPT ![t] = "begin"]
  /\ UNCHANGED <<iotStarted, ticking>>

\* START starts the timer, which may run already.
IoStartTimer(t) ==
  /\ iotPc[t] = "begin"
  /\ ~ticking
  /\ iotStarted' = TRUE
  /\ iotPc' = [iotPc EXCEPT ![t] = "idle"]
  /\ UNCHANGED <<lTimerCount, ticking, seconds>>

\* STOP stops the timer.
IoStopTimer(t) ==
  /\ iotPc[t] = "stop"
  /\ ~ticking
  /\ iotStarted' = FALSE
  /\ iotPc' = [iotPc EXCEPT ![t] = "idle"]
  /\ UNCHANGED <<lTimerCount, ticking, seconds>>

\* A second has passed: OnTimer decrements the count.
OnTimerCounts ==
  /\ iotStarted
  /\ ~ticking
  /\ lTimerCount' = lTimerCount - 1
  /\ seconds' = seconds + 1
  /\ ticking' = TRUE
  /\ UNCHANGED <<iotStarted, iotPc>>

\* Mutant of OnTimerReports: the old count is compared with 1 instead of 0.
OnTimerReportsEarly ==
  /\ ticking
  /\ lTimerCount' = IF lTimerCount = 1 THEN TIMER_OUT ELSE lTimerCount
  /\ seconds' = IF lTimerCount = 1 THEN 0 ELSE seconds
  /\ ticking' = FALSE
  /\ UNCHANGED <<iotStarted, iotPc>>

\* OnTimer exchanges a zero count for TIMER_OUT and then reports a timeout.
OnTimerReports ==
  /\ ticking
  /\ lTimerCount' = IF lTimerCount = 0 THEN TIMER_OUT ELSE lTimerCount
  /\ seconds' = IF lTimerCount = 0 THEN 0 ELSE seconds
  /\ ticking' = FALSE
  /\ UNCHANGED <<iotStarted, iotPc>>

\* What thread t does next in its request.
IotRequestStep(t) == ResetCount(t) \/ IoStartTimer(t) \/ IoStopTimer(t)

IotNext ==
  \/ \E t \in IotThreads : IotControl(t) \/ IotRequestStep(t)
  \/ OnTimerCounts
  \/ OnTimerReports

IotSpec == IotInit /\ [][IotNext]_iotVars

\* Seconds pass, and OnTimer runs to its end.
IotFairness == WF_iotVars(OnTimerCounts) /\ WF_iotVars(OnTimerReports)

-----------------------------------------------------------------------------
(***************************************************************************)
(* Properties.                                                             *)
(***************************************************************************)

Timeout == OnTimerReports /\ lTimerCount = 0

\* A timeout is reported TIMER_OUT seconds after the last one or after the
\* last START, and never sooner, even if a START stores its count between the
\* two interlocked operations of OnTimer.
TimeoutOnTime == [][Timeout => seconds = TIMER_OUT]_iotVars

\* What makes it true: from the first START on, the count and the seconds add
\* up to TIMER_OUT, and the count is zero only within OnTimer.  Before, the
\* timer does not run.
CountInv ==
  \/ /\ lTimerCount + seconds = TIMER_OUT
     /\ lTimerCount = 0 => ticking
  \/ /\ lTimerCount = 0 /\ seconds = 0 /\ ~iotStarted /\ ~ticking
     /\ \A t \in IotThreads : iotPc[t] # "begin"

\* A running timer that nobody starts or stops any more times out again and
\* again.
TimeoutsGoOn ==
  <>[](iotStarted /\ \A t \in IotThreads : iotPc[t] = "idle")
    => []<><<Timeout>>_iotVars
=============================================================================
