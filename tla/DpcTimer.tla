------------------------------ MODULE DpcTimer ------------------------------
(***************************************************************************)
(* chap10/DPCTimer: a driver that polls with a one-shot kernel timer.      *)
(* IOCTL_START_TIMER arms the timer; when it expires the kernel queues the *)
(* deferred procedure call (DPC) PollingTimerDpc, which arms the timer     *)
(* again; IOCTL_STOP_TIMER cancels the timer, and HelloDDKUnload deletes   *)
(* the device object, which holds both the timer and the DPC.              *)
(*                                                                         *)
(* A DPC runs before any thread goes on, but only on its own processor: on *)
(* a multiprocessor it interleaves with the threads of the others.         *)
(***************************************************************************)
EXTENDS Integers, TLC

CONSTANTS
  Threads,       \* the threads that control the timer
  Requests,      \* the intervals a START may ask for, in microseconds
  LongRange,     \* a LONG is at least -LongRange and less than LongRange (2^31 in
                 \* the code), a ULONG less than twice that
  Uniprocessor,  \* does the machine have one processor?
  StopFirst      \* does the process stop the timer before it closes the device,
                 \* as the test program does?

ASSUME DpcTimerAssumption ==
  /\ LongRange \in Nat \ {0}
  /\ Requests \subseteq 0 .. 2 * LongRange - 1
  /\ Uniprocessor \in BOOLEAN
  /\ StopFirst \in BOOLEAN

VARIABLES
  armed,     \* is pollingTimer set?
  due,       \* the due time the timer was last set with
  dpc,       \* is pollingDPC queued?
  interval,  \* pollingInterval
  device,    \* the device object: "closed", "open" or "deleted"
  wanted,    \* was the last request to take effect a START?
  pc         \* pc[t]: "idle", or where thread t is in a request

vars == <<armed, due, dpc, interval, device, wanted, pc>>

\* A LARGE_INTEGER here always holds a LONG.
Longs == -LongRange .. LongRange - 1

TypeOK ==
  /\ armed \in BOOLEAN
  /\ due \in Longs
  /\ dpc \in BOOLEAN
  /\ interval \in Longs
  /\ device \in {"closed", "open", "deleted"}
  /\ wanted \in BOOLEAN
  /\ pc \in [Threads -> {"idle", "start", "set", "stop"}]

\* CreateDevice initialises the timer and the DPC; IoCreateDevice has zeroed
\* the rest of the device extension.
Init ==
  /\ armed = FALSE
  /\ due = 0
  /\ dpc = FALSE
  /\ interval = 0
  /\ device = "closed"
  /\ wanted = FALSE
  /\ pc = [t \in Threads |-> "idle"]

-----------------------------------------------------------------------------
\* May a thread go on?  Not past a DPC of its own processor.
ThreadsRun == Uniprocessor => ~dpc

\* Mutant of DueTime: the product is not converted to a signed number.
DueTimeUnsigned(us) == (us * (-10)) % (2 * LongRange)

\* RtlConvertLongToLargeInteger(us * (-10)): the product wraps as a ULONG and is
\* read as a LONG.
DueTime(us) ==
  LET product == (us * (-10)) % (2 * LongRange)
  IN  IF product < LongRange THEN product ELSE product - 2 * LongRange

OpenDevice ==
  /\ ThreadsRun
  /\ device = "closed"
  /\ device' = "open"
  /\ UNCHANGED <<armed, due, dpc, interval, wanted, pc>>

CloseDevice ==
  /\ ThreadsRun
  /\ device = "open"
  /\ \A t \in Threads : pc[t] = "idle"
  /\ StopFirst => ~wanted
  /\ device' = "closed"
  /\ UNCHANGED <<armed, due, dpc, interval, wanted, pc>>

\* IOCTL_START_TIMER or IOCTL_STOP_TIMER reaches HelloDDKDeviceIOControl.
DeviceIOControl(t) ==
  /\ ThreadsRun
  /\ device = "open"
  /\ pc[t] = "idle"
  /\ \E request \in {"start", "stop"} : pc' = [pc EXCEPT ![t] = request]
  /\ UNCHANGED <<armed, due, dpc, interval, device, wanted>>

\* START stores the interval.
StoreInterval(t) ==
  /\ ThreadsRun
  /\ pc[t] = "start"
  /\ \E us \in Requests : interval' = DueTime(us)
  /\ pc' = [pc EXCEPT ![t] = "set"]
  /\ UNCHANGED <<armed, due, dpc, device, wanted>>

\* START sets the timer (again).
StartTimer(t) ==
  /\ ThreadsRun
  /\ pc[t] = "set"
  /\ armed' = TRUE
  /\ due' = interval
  /\ wanted' = TRUE
  /\ pc' = [pc EXCEPT ![t] = "idle"]
  /\ UNCHANGED <<dpc, interval, device>>

\* Mutant of StopTimer: the timer is not cancelled.
StopTimerForgotten(t) ==
  /\ ThreadsRun
  /\ pc[t] = "stop"
  /\ wanted' = FALSE
  /\ pc' = [pc EXCEPT ![t] = "idle"]
  /\ UNCHANGED <<armed, due, dpc, interval, device>>

\* STOP cancels the timer, but not a DPC that is already queued.
StopTimer(t) ==
  /\ ThreadsRun
  /\ pc[t] = "stop"
  /\ armed' = FALSE
  /\ wanted' = FALSE
  /\ pc' = [pc EXCEPT ![t] = "idle"]
  /\ UNCHANGED <<due, dpc, interval, device>>

\* The timer expires and the kernel queues the DPC, unless it is queued
\* already.
TimerExpires ==
  /\ armed
  /\ armed' = FALSE
  /\ dpc' = TRUE
  /\ UNCHANGED <<due, interval, device, wanted, pc>>

\* Mutant of PollingTimerDpc: the timer is not set again.
PollingTimerDpcOnce ==
  /\ dpc
  /\ dpc' = FALSE
  /\ UNCHANGED <<armed, due, interval, device, wanted, pc>>

\* The kernel calls PollingTimerDpc, which sets the timer for the next poll.
PollingTimerDpc ==
  /\ dpc
  /\ dpc' = FALSE
  /\ armed' = TRUE
  /\ due' = interval
  /\ UNCHANGED <<interval, device, wanted, pc>>

\* HelloDDKUnload deletes the device; nothing stops the timer.
HelloDDKUnload ==
  /\ ThreadsRun
  /\ device = "closed"
  /\ device' = "deleted"
  /\ UNCHANGED <<armed, due, dpc, interval, wanted, pc>>

\* What thread t does next in its request.
RequestStep(t) == StoreInterval(t) \/ StartTimer(t) \/ StopTimer(t)

Next ==
  \/ OpenDevice \/ CloseDevice \/ HelloDDKUnload
  \/ \E t \in Threads : DeviceIOControl(t) \/ RequestStep(t)
  \/ TimerExpires \/ PollingTimerDpc

Spec == Init /\ [][Next]_vars

\* Time passes, the kernel runs its DPCs, and between two DPCs of its
\* processor a thread gets on with its request.
Fairness ==
  /\ WF_vars(TimerExpires)
  /\ WF_vars(PollingTimerDpc)
  /\ \A t \in Threads : SF_vars(RequestStep(t))

FairSpec == Spec /\ Fairness

-----------------------------------------------------------------------------
(***************************************************************************)
(* Properties.                                                             *)
(***************************************************************************)

\* Polling never dies by itself: from a START to a STOP the timer is set, or
\* its DPC is about to set it, whatever the order of requests, expiries and
\* DPCs on several processors.
PollingAlive == wanted => armed \/ dpc

\* The timer is only ever set to expire after one of the intervals asked for,
\* never at an absolute time (a due time that is not negative): the interval
\* survives the conversion at line 221 and is stored before the DPC uses it.
DueAfterRequest == armed => \E us \in Requests : us > 0 /\ due = -(10 * us)

\* After the last STOP the timer comes to rest ("IOCTL_STOP_TIMER", sent by the
\* test program at TestDPC.cpp:36 before it closes the device).
StopStops == <>[]~wanted => <>[]~armed

\* The deleted device's timer and DPC are out of the kernel's hands.
QuietAfterUnload == device = "deleted" => ~armed /\ ~dpc

-----------------------------------------------------------------------------
(***************************************************************************)
(* The inductive invariants.                                               *)
(***************************************************************************)

\* The timer is busy only while it is wanted, and nobody wants it or is about
\* to while the device is not open: on one processor, if the process stops the
\* timer first.
QuietInv ==
  /\ ~wanted => ~armed /\ ~dpc
  /\ device # "open" => ~wanted /\ \A t \in Threads : pc[t] = "idle"

\* The intervals asked for are positive, and so short that the product fits.
ShortRequests == \A us \in Requests : us > 0 /\ 10 * us <= LongRange

\* Whoever sets the timer finds an interval that was asked for: the DPC is
\* queued and a START past line 221 only after one was stored.
Asked(time) == \E us \in Requests : us > 0 /\ time = -(10 * us)
IntervalInv ==
  /\ armed => Asked(due)
  /\ armed \/ dpc \/ (\E t \in Threads : pc[t] = "set") => Asked(interval)
=============================================================================
