----------------------------- MODULE IrpContract -----------------------------
(***************************************************************************)
(* What a queueing driver owes the I/O manager, whatever its queue: every  *)
(* I/O request packet (IRP) it was given is completed exactly once before  *)
(* the I/O manager may reuse its memory, the hardware serves one packet at *)
(* a time, and a packet that is being served is completed by whoever       *)
(* serves it.  The detailed models of the drivers are shown to implement   *)
(* this specification.                                                     *)
(***************************************************************************)

CONSTANT Irps   \* the packets (memory blocks) the I/O manager allocates from

VARIABLES
  life,    \* life[i]: "free", "live" (issued, not completed) or "done"
  served   \* the set of packets the hardware works on

vars == <<life, served>>

Init ==
  /\ life = [i \in Irps |-> "free"]
  /\ served = {}

\* The I/O manager allocates a packet and hands it to the driver.
Issue(i) ==
  /\ life[i] = "free"
  /\ life' = [life EXCEPT ![i] = "live"]
  /\ UNCHANGED served

\* The driver begins to serve a packet: only when the hardware is idle.
Start(i) ==
  /\ life[i] = "live"
  /\ served = {}
  /\ served' = {i}
  /\ UNCHANGED life

\* The driver completes the packet it serves.
Finish(i) ==
  /\ life[i] = "live"
  /\ served = {i}
  /\ served' = {}
  /\ life' = [life EXCEPT ![i] = "done"]

\* The driver completes a packet that it is not serving (a cancellation).
Refuse(i) ==
  /\ life[i] = "live"
  /\ i \notin served
  /\ life' = [life EXCEPT ![i] = "done"]
  /\ UNCHANGED served

\* The I/O manager takes the memory of a completed packet back.
Reclaim(i) ==
  /\ life[i] = "done"
  /\ life' = [life EXCEPT ![i] = "free"]
  /\ UNCHANGED served

Next ==
  \E i \in Irps : Issue(i) \/ Start(i) \/ Finish(i) \/ Refuse(i) \/ Reclaim(i)

Spec == Init /\ [][Next]_vars
=============================================================================
