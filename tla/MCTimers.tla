------------------------------ MODULE MCTimers ------------------------------
(***************************************************************************)
(* The two timer drivers of chap10, checked together: either DPCTimer or   *)
(* IoTimerTest is loaded, as both want the device name MyDDKDevice.        *)
(***************************************************************************)
EXTENDS DpcTimer, IoTimer

VARIABLE timerDriver    \* the driver that is loaded

TimersInit == Init /\ IotInit /\ timerDriver \in {"DPCTimer", "IoTimerTest"}

TimersNext ==
  \/ timerDriver = "DPCTimer" /\ Next /\ UNCHANGED <<timerDriver, iotVars>>
  \/ timerDriver = "IoTimerTest" /\ IotNext /\ UNCHANGED <<timerDriver, vars>>

\* The fair actions of the driver that is not loaded are never enabled.
TimersSpec ==
  TimersInit /\ [][TimersNext]_<<timerDriver, vars, iotVars>> /\ Fairness /\ IotFairness
=============================================================================
