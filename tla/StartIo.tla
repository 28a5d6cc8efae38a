------------------------------- MODULE StartIo -------------------------------
(***************************************************************************)
(* chap09/StartIoTest: a driver that lets the I/O manager serialise its    *)
(* reads.  HelloDDKRead queues the packet with IoStartPacket, the I/O      *)
(* manager calls HelloDDKStartIo for one packet after the other, and       *)
(* OnCancelIRP takes a packet back at any point.                           *)
(*                                                                         *)
(* A thread is any kernel thread that enters the driver: one that reads,   *)
(* one that cancels, or one that does both in turn.  The sections under    *)
(* the cancel spin lock are single steps; everything between two of them   *)
(* interleaves.  HelloDDKStartIo calls IoStartNextPacket last, and that    *)
(* calls HelloDDKStartIo again, so a thread may serve a whole queue; only  *)
(* OnCancelIRP has work left to do when that chain returns (victim).       *)
(*                                                                         *)
(* IoStartPacket, IoStartNextPacket, IoCancelIrp and IoCompleteRequest are *)
(* the I/O manager's: they are modelled by what the driver relies on.      *)
(***************************************************************************)
EXTENDS Naturals, Sequences, SequencesExt

CONSTANTS
  Threads,      \* the kernel threads that enter the driver
  Irps,         \* the packets (memory blocks) the I/O manager allocates from
  NoIrp,        \* the NULL packet
  ReuseStale    \* may a completed packet be reused while CurrentIrp or a late
                \* HelloDDKStartIo still points to it?

ASSUME StartIoAssumption ==
  /\ NoIrp \notin Irps
  /\ ReuseStale \in BOOLEAN

VARIABLES
  life,      \* life[i]: "free", "live", "done", or "twice" (completed again)
  cancel,    \* the packets whose Cancel flag is set
  routine,   \* the packets whose cancel routine is OnCancelIRP (not NULL)
  queue,     \* DeviceObject->DeviceQueue, its entries in order
  busy,      \* DeviceObject->DeviceQueue.Busy
  current,   \* DeviceObject->CurrentIrp
  pc,        \* pc[t]: where thread t is
  irp,       \* irp[t]: the packet HelloDDKRead or HelloDDKStartIo of t works on
  victim     \* victim[t]: the packet OnCancelIRP of t still has to complete

vars == <<life, cancel, routine, queue, busy, current, pc, irp, victim>>

Labels ==
  {"idle",        \* outside the driver
   "read",        \* in HelloDDKRead, the packet marked pending
   "startIo",     \* in HelloDDKStartIo, before it takes the cancel lock
   "work",        \* in HelloDDKStartIo, the three seconds of work
   "startNext",   \* in HelloDDKStartIo, the packet completed
   "cancelNext",  \* in OnCancelIRP of the current packet, lock released
   "cancelEnd"}   \* in OnCancelIRP, before it completes the packet

TypeOK ==
  /\ life \in [Irps -> {"free", "live", "done", "twice"}]
  /\ cancel \in SUBSET Irps
  /\ routine \in SUBSET Irps
  /\ queue \in Seq(Irps)
  /\ busy \in BOOLEAN
  /\ current \in Irps \cup {NoIrp}
  /\ pc \in [Threads -> Labels]
  /\ irp \in [Threads -> Irps \cup {NoIrp}]
  /\ victim \in [Threads -> Irps \cup {NoIrp}]

\* What DriverEntry and CreateDevice leave: a device whose queue is idle.
Init ==
  /\ life = [i \in Irps |-> "free"]
  /\ cancel = {}
  /\ routine = {}
  /\ queue = <<>>
  /\ busy = FALSE
  /\ current = NoIrp
  /\ pc = [t \in Threads |-> "idle"]
  /\ irp = [t \in Threads |-> NoIrp]
  /\ victim = [t \in Threads |-> NoIrp]

-----------------------------------------------------------------------------
(***************************************************************************)
(* The kernel's part.                                                      *)
(***************************************************************************)

InQueue(q, i) == \E k \in 1 .. Len(q) : q[k] = i

\* KeRemoveEntryDeviceQueue: takes the packet out wherever it is.
RemoveEntry(q, i) ==
  IF InQueue(q, i)
  THEN RemoveAt(q, CHOOSE k \in 1 .. Len(q) : q[k] = i)
  ELSE q

\* IoCompleteRequest: the packet goes back to the I/O manager.
CompleteRequest(i) ==
  life' = [life EXCEPT ![i] = IF @ = "live" THEN "done" ELSE "twice"]

\* The innermost HelloDDKStartIo of t returns: to OnCancelIRP, or out of the
\* driver.
ReturnFromStartIo(t) ==
  /\ pc' = [pc EXCEPT ![t] = IF victim[t] = NoIrp THEN "idle" ELSE "cancelEnd"]
  /\ irp' = [irp EXCEPT ![t] = NoIrp]

\* IoStartNextPacket(DeviceObject, TRUE), under the cancel lock; it calls
\* HelloDDKStartIo for the packet it dequeues.
IoStartNextPacket(t) ==
  \/ /\ queue = <<>>
     /\ busy' = FALSE
     /\ current' = NoIrp
     /\ ReturnFromStartIo(t)
     /\ UNCHANGED queue
  \/ /\ queue # <<>>
     /\ current' = Head(queue)
     /\ queue' = Tail(queue)
     /\ pc' = [pc EXCEPT ![t] = "startIo"]
     /\ irp' = [irp EXCEPT ![t] = Head(queue)]
     /\ UNCHANGED busy

\* The I/O manager takes the memory of a completed packet back.
Reclaim(i) ==
  /\ life[i] = "done"
  /\ ReuseStale \/ (current # i /\ \A t \in Threads : irp[t] # i)
  /\ life' = [life EXCEPT ![i] = "free"]
  /\ UNCHANGED <<cancel, routine, queue, busy, current, pc, irp, victim>>

-----------------------------------------------------------------------------
(***************************************************************************)
(* The driver.                                                             *)
(***************************************************************************)

\* Mutant of OnCancelIRP: a queued packet is left in the device queue.
OnCancelIRPKeepsEntry(t, i, q) ==
  /\ victim' = [victim EXCEPT ![t] = i]
  /\ irp' = [irp EXCEPT ![t] = NoIrp]
  /\ pc' = [pc EXCEPT ![t] = IF i = current THEN "cancelNext" ELSE "cancelEnd"]
  /\ queue' = q

\* OnCancelIRP of thread t for packet i up to its IoReleaseCancelSpinLock: q
\* is the device queue when it is called, with the cancel lock held.
OnCancelIRP(t, i, q) ==
  /\ victim' = [victim EXCEPT ![t] = i]
  /\ irp' = [irp EXCEPT ![t] = NoIrp]
  /\ \/ /\ i = current
        /\ pc' = [pc EXCEPT ![t] = "cancelNext"]
        /\ queue' = q
     \/ /\ i # current
        /\ pc' = [pc EXCEPT ![t] = "cancelEnd"]
        /\ queue' = RemoveEntry(q, i)

\* ReadFile reaches HelloDDKRead, which marks the packet pending.
HelloDDKRead(t, i) ==
  /\ pc[t] = "idle"
  /\ life[i] = "free"
  /\ life' = [life EXCEPT ![i] = "live"]
  /\ cancel' = cancel \ {i}
  /\ pc' = [pc EXCEPT ![t] = "read"]
  /\ irp' = [irp EXCEPT ![t] = i]
  /\ UNCHANGED <<routine, queue, busy, current, victim>>

\* IoStartPacket(pDevObj, pIrp, 0, OnCancelIRP) finds the device idle.
StartPacketIdle(t) ==
  /\ pc[t] = "read"
  /\ ~busy
  /\ busy' = TRUE
  /\ current' = irp[t]
  /\ routine' = routine \cup {irp[t]}
  /\ pc' = [pc EXCEPT ![t] = "startIo"]
  /\ UNCHANGED <<life, cancel, queue, irp, victim>>

\* Mutant of StartPacketBusy: IoStartPacket is given no cancel routine.
StartPacketNoRoutine(t) ==
  /\ pc[t] = "read"
  /\ busy
  /\ irp[t] \notin cancel
  /\ queue' = Append(queue, irp[t])
  /\ pc' = [pc EXCEPT ![t] = "idle"]
  /\ irp' = [irp EXCEPT ![t] = NoIrp]
  /\ UNCHANGED <<life, cancel, routine, busy, current, victim>>

\* Mutant of StartPacketBusy: the newest packet goes to the head of the queue.
StartPacketAtHead(t) ==
  /\ pc[t] = "read"
  /\ busy
  /\ irp[t] \notin cancel
  /\ routine' = routine \cup {irp[t]}
  /\ queue' = <<irp[t]>> \o queue
  /\ pc' = [pc EXCEPT ![t] = "idle"]
  /\ irp' = [irp EXCEPT ![t] = NoIrp]
  /\ UNCHANGED <<life, cancel, busy, current, victim>>

\* IoStartPacket finds the device busy: the packet waits in the device queue.
StartPacketBusy(t) ==
  /\ pc[t] = "read"
  /\ busy
  /\ irp[t] \notin cancel
  /\ routine' = routine \cup {irp[t]}
  /\ queue' = Append(queue, irp[t])
  /\ pc' = [pc EXCEPT ![t] = "idle"]
  /\ irp' = [irp EXCEPT ![t] = NoIrp]
  /\ UNCHANGED <<life, cancel, busy, current, victim>>

\* IoStartPacket finds the device busy and the packet already cancelled: it
\* calls the cancel routine itself.
StartPacketCancelled(t) ==
  /\ pc[t] = "read"
  /\ busy
  /\ irp[t] \in cancel
  /\ OnCancelIRP(t, irp[t], Append(queue, irp[t]))
  /\ UNCHANGED <<life, cancel, routine, busy, current>>

\* HelloDDKStartIo takes the cancel lock and finds its packet cancelled, or
\* no longer the current one: it leaves the packet to OnCancelIRP.
StartIoGivesUp(t) ==
  /\ pc[t] = "startIo"
  /\ irp[t] # current \/ irp[t] \in cancel
  /\ ReturnFromStartIo(t)
  /\ UNCHANGED <<life, cancel, routine, queue, busy, current, victim>>

\* Mutant of StartIoBegins: the Cancel flag is not tested.
StartIoBeginsCancelled(t) ==
  /\ pc[t] = "startIo"
  /\ irp[t] = current
  /\ routine' = routine \ {irp[t]}
  /\ pc' = [pc EXCEPT ![t] = "work"]
  /\ UNCHANGED <<life, cancel, queue, busy, current, irp, victim>>

\* HelloDDKStartIo clears the cancel routine and begins the work.
StartIoBegins(t) ==
  /\ pc[t] = "startIo"
  /\ irp[t] = current
  /\ irp[t] \notin cancel
  /\ routine' = routine \ {irp[t]}
  /\ pc' = [pc EXCEPT ![t] = "work"]
  /\ UNCHANGED <<life, cancel, queue, busy, current, irp, victim>>

\* The three seconds are over: HelloDDKStartIo completes its packet.
StartIoCompletes(t) ==
  /\ pc[t] = "work"
  /\ CompleteRequest(irp[t])
  /\ pc' = [pc EXCEPT ![t] = "startNext"]
  /\ irp' = [irp EXCEPT ![t] = NoIrp]
  /\ UNCHANGED <<cancel, routine, queue, busy, current, victim>>

\* Mutant of StartIoNext: HelloDDKStartIo returns without IoStartNextPacket.
StartIoNextForgotten(t) ==
  /\ pc[t] = "startNext"
  /\ ReturnFromStartIo(t)
  /\ UNCHANGED <<life, cancel, routine, queue, busy, current, victim>>

\* HelloDDKStartIo calls IoStartNextPacket.
StartIoNext(t) ==
  /\ pc[t] = "startNext"
  /\ IoStartNextPacket(t)
  /\ UNCHANGED <<life, cancel, routine, victim>>

\* IoCancelIrp finds no cancel routine: it only sets the flag, also of a packet
\* that IoStartPacket does not have yet.
IoCancelIrpFlag(t, i) ==
  /\ pc[t] = "idle"
  /\ life[i] = "live"
  /\ i \notin routine
  /\ cancel' = cancel \cup {i}
  /\ UNCHANGED <<life, routine, queue, busy, current, pc, irp, victim>>

\* IoCancelIrp sets the flag, takes the cancel routine and calls it with the
\* cancel lock held.
IoCancelIrp(t, i) ==
  /\ pc[t] = "idle"
  /\ life[i] = "live"
  /\ i \in routine
  /\ cancel' = cancel \cup {i}
  /\ routine' = routine \ {i}
  /\ OnCancelIRP(t, i, queue)
  /\ UNCHANGED <<life, busy, current>>

\* OnCancelIRP has taken the current packet: it starts the next one.
OnCancelNext(t) ==
  /\ pc[t] = "cancelNext"
  /\ IoStartNextPacket(t)
  /\ UNCHANGED <<life, cancel, routine, victim>>

\* OnCancelIRP completes the packet with STATUS_CANCELLED.
OnCancelCompletes(t) ==
  /\ pc[t] = "cancelEnd"
  /\ CompleteRequest(victim[t])
  /\ victim' = [victim EXCEPT ![t] = NoIrp]
  /\ pc' = [pc EXCEPT ![t] = "idle"]
  /\ UNCHANGED <<cancel, routine, queue, busy, current, irp>>

\* What a thread inside the driver does next.
Step(t) ==
  \/ StartPacketIdle(t)
  \/ StartPacketBusy(t)
  \/ StartPacketCancelled(t)
  \/ StartIoGivesUp(t)
  \/ StartIoBegins(t)
  \/ StartIoCompletes(t)
  \/ StartIoNext(t)
  \/ OnCancelNext(t)
  \/ OnCancelCompletes(t)

Next ==
  \/ \E t \in Threads : Step(t)
  \/ \E t \in Threads, i \in Irps :
        HelloDDKRead(t, i) \/ IoCancelIrpFlag(t, i) \/ IoCancelIrp(t, i)
  \/ \E i \in Irps : Reclaim(i)

Spec == Init /\ [][Next]_vars

\* The kernel schedules every thread that is inside the driver; nobody has to
\* read or to cancel.
FairSpec == Spec /\ \A t \in Threads : WF_vars(Step(t))

-----------------------------------------------------------------------------
(***************************************************************************)
(* Properties.                                                             *)
(***************************************************************************)

\* No packet is completed a second time, although HelloDDKStartIo (line 35)
\* and OnCancelIRP (line 231) both complete packets outside the lock.
CompletedOnce == \A i \in Irps : life[i] # "twice"

\* The reason for a StartIo routine: two reads are never in their three
\* seconds of work together, although cancelling the current packet starts the
\* next one while HelloDDKStartIo of the old one may still be on its way.
OneAtATime ==
  \A t, u \in Threads : pc[t] = "work" /\ pc[u] = "work" => t = u

\* A packet in the device queue is uncompleted, and a cancellation reaches it:
\* its cancel routine is set and its Cancel flag is not, so IoCancelIrp cannot
\* set the flag and leave the packet where it is.
QueueCancellable ==
  \A k \in 1 .. Len(queue) :
    /\ life[queue[k]] = "live"
    /\ queue[k] \in routine
    /\ queue[k] \notin cancel

\* Thread t will move the device on to the next packet.
AdvancesDevice(t) ==
  \/ pc[t] \in {"work", "startNext", "cancelNext"}
  \/ pc[t] = "startIo" /\ irp[t] = current /\ current \notin cancel

\* The packets in their three seconds of work.
Served == {irp[t] : t \in {u \in Threads : pc[u] = "work"}}

Contract == INSTANCE IrpContract WITH served <- Served

\* The driver implements the contract of a queueing driver: every packet is
\* completed exactly once per issue, and they are served one at a time.
KeepsContract == Contract!Spec

\* From some point on, nobody reads any more.
ReadsStop ==
  <>[][\A t \in Threads, i \in Irps : ~ HelloDDKRead(t, i)]_vars

\* When the readers stop, every read is completed, cancelled or not: what the
\* test program waits for (Test_startio.cpp:19).
EveryReadCompletes ==
  ReadsStop => \A i \in Irps : life[i] = "live" ~> life[i] = "done"

\* Even if new reads never stop, a read that nobody cancels is completed: the
\* device queue is served first come, first served.
UncancelledReadCompletes ==
  \A i \in Irps :
    (life[i] = "live" /\ i \notin cancel) ~> (life[i] = "done" \/ i \in cancel)

\* A packet is cancelled only once IoStartPacket has it.
CancelledOnlyWhenQueued == \A t \in Threads : pc[t] = "read" => irp[t] \notin cancel

\* Unless a packet is cancelled between IoMarkIrpPending and IoStartPacket, the
\* early return of HelloDDKStartIo (lines 13-18), which neither completes the
\* packet nor moves the device on, can count on OnCancelIRP: every read is
\* completed when the readers stop, and one that nobody cancels even if new
\* reads never stop.
ReadsComplete ==
  []CancelledOnlyWhenQueued => EveryReadCompletes /\ UncancelledReadCompletes

-----------------------------------------------------------------------------
(***************************************************************************)
(* The inductive invariant behind CompletedOnce and OneAtATime, when       *)
(* ReuseStale is FALSE.  Its idea: the duty to move the device on          *)
(* (AdvancesDevice) is held by at most one thread and handed over under    *)
(* the cancel lock, and every uncompleted packet is in one place only: in  *)
(* HelloDDKRead, in the queue, current, or the victim of one thread.       *)
(***************************************************************************)

\* Where a thread is tells which packets it holds.
FrameInv ==
  \A t \in Threads :
    /\ irp[t] # NoIrp <=> pc[t] \in {"read", "startIo", "work"}
    /\ pc[t] \in {"cancelNext", "cancelEnd"} => victim[t] # NoIrp
    /\ pc[t] \in {"idle", "read"} => victim[t] = NoIrp

\* No two threads hold the same packet.
UniqueInv ==
  \A t, u \in Threads :
    /\ irp[t] = irp[u] /\ irp[t] # NoIrp => t = u
    /\ victim[t] = victim[u] /\ victim[t] # NoIrp => t = u
    /\ AdvancesDevice(t) /\ AdvancesDevice(u) => t = u

NoDuplicates(q) == \A j, k \in 1 .. Len(q) : q[j] = q[k] => j = k

QueueInv ==
  /\ NoDuplicates(queue)
  /\ queue # <<>> => busy
  /\ \A i \in Irps : InQueue(queue, i) =>
       /\ life[i] = "live" /\ i \in routine /\ i \notin cancel /\ i # current
       /\ \A t \in Threads : irp[t] # i /\ victim[t] # i

CurrentInv ==
  /\ busy <=> current # NoIrp
  /\ current \in Irps => life[current] \in {"live", "done"}
  /\ \A t \in Threads : AdvancesDevice(t) => busy

\* A cancel routine is set only on a packet in the queue, or on the current one
\* while nobody moves the device on.
RoutineInv ==
  \A i \in routine :
    \/ InQueue(queue, i)
    \/ /\ i = current
       /\ life[i] = "live"
       /\ \A t \in Threads : pc[t] \notin {"work", "startNext", "cancelNext"}

HeldInv ==
  \A t \in Threads :
    /\ pc[t] = "read" =>
         /\ life[irp[t]] = "live"
         /\ irp[t] \notin routine
         /\ irp[t] # current
         /\ \A u \in Threads : victim[u] # irp[t]
    /\ pc[t] = "startIo" =>
         /\ life[irp[t]] \in {"live", "done"}
         /\ irp[t] = current => life[current] = "live"
         /\ irp[t] = current => current \in routine \cup cancel
    /\ pc[t] = "work" =>
         /\ irp[t] = current
         /\ life[current] = "live"
         /\ current \notin routine
    /\ pc[t] = "startNext" => life[current] = "done"
    /\ victim[t] # NoIrp =>
         /\ life[victim[t]] = "live"
         /\ victim[t] \in cancel
         /\ victim[t] \notin routine
         /\ victim[t] = current <=> pc[t] = "cancelNext"

IInv ==
  /\ TypeOK
  /\ CompletedOnce
  /\ FrameInv
  /\ UniqueInv
  /\ QueueInv
  /\ CurrentInv
  /\ RoutineInv
  /\ HeldInv
=============================================================================
