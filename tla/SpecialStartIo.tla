--------------------------- MODULE SpecialStartIo ---------------------------
(***************************************************************************)
(* chap09/SpecialStartIo: the driver has a device queue of its own.  The   *)
(* reader that finds it idle runs MyStartIo in HelloDDKRead and serves its *)
(* packet and every packet queued meanwhile; the other readers only queue  *)
(* theirs.  OnCancelIRP completes a packet wherever it is: it neither      *)
(* takes it out of the queue nor tells MyStartIo.                          *)
(*                                                                         *)
(* A second completion of a packet (a bug check of the I/O manager) is     *)
(* recorded in life and leaves the packet out of use.  The I/O manager     *)
(* takes back a completed packet at once, also one that is still in the    *)
(* device queue or that a thread still works on, and allocates the memory  *)
(* again as the packet of another read: such memory is stale from then on. *)
(* When the memory of an entry that is queued is allocated again, or an    *)
(* entry is queued a second time, the links of the list are overwritten:   *)
(* broken, after which the kernel may do anything and the model stops.     *)
(*                                                                         *)
(* KeInsertDeviceQueue and KeRemoveDeviceQueue are the kernel's and atomic *)
(* (the queue has a lock); all else interleaves.                           *)
(***************************************************************************)
EXTENDS Naturals, Sequences

CONSTANTS
  Threads,   \* the kernel threads that enter the driver
  Irps,      \* the packets the I/O manager allocates from
  NoIrp      \* the NULL packet

ASSUME SpecialStartIoAssumption == NoIrp \notin Irps

VARIABLES
  life,      \* life[i]: "free", "live", "done", or "twice" (completed again)
  cancel,    \* the packets whose Cancel flag is set
  routine,   \* the packets whose cancel routine is OnCancelIRP
  queue,     \* device_queue, its entries in order
  busy,      \* device_queue.Busy
  pc,        \* pc[t]: where thread t is
  irp,       \* irp[t]: the packet it works on
  stale,     \* history: the packets taken back while the driver used them
  broken     \* the links of device_queue are overwritten

sspVars == <<life, cancel, routine, queue, busy, pc, irp, stale, broken>>

Labels ==
  {"idle",    \* outside the driver
   "read",    \* in HelloDDKRead, before IoSetCancelRoutine
   "insert",  \* in HelloDDKRead, before KeInsertDeviceQueue
   "work",    \* in MyStartIo, the three seconds of work
   "next",    \* in MyStartIo, before KeRemoveDeviceQueue
   "cancel"}  \* in OnCancelIRP, the cancel lock released

SspTypeOK ==
  /\ life \in [Irps -> {"free", "live", "done", "twice"}]
  /\ cancel \in SUBSET Irps
  /\ routine \in SUBSET Irps
  /\ queue \in Seq(Irps)
  /\ busy \in BOOLEAN
  /\ pc \in [Threads -> Labels]
  /\ irp \in [Threads -> Irps \cup {NoIrp}]
  /\ stale \in SUBSET Irps
  /\ broken \in BOOLEAN

\* What DriverEntry and CreateDevice leave: a device whose queue is idle.
SspInit ==
  /\ life = [i \in Irps |-> "free"]
  /\ cancel = {}
  /\ routine = {}
  /\ queue = <<>>
  /\ busy = FALSE
  /\ pc = [t \in Threads |-> "idle"]
  /\ irp = [t \in Threads |-> NoIrp]
  /\ stale = {}
  /\ broken = FALSE

-----------------------------------------------------------------------------
\* IoCompleteRequest: the packet goes back to the I/O manager.
CompleteRequest(i) ==
  life' = [life EXCEPT ![i] = IF @ = "live" THEN "done" ELSE "twice"]

\* The driver still uses a packet that is in its queue or that a thread has
\* yet to mark, to queue or to complete.
Queued(i) == \E k \in 1 .. Len(queue) : queue[k] = i

Uses(t, i) == pc[t] \in {"read", "insert", "work", "cancel"} /\ irp[t] = i

InUse(i) == Queued(i) \/ \E t \in Threads : Uses(t, i)

\* The I/O manager takes back a completed packet, in use or not.
Reclaim(i) ==
  /\ life[i] = "done"
  /\ life' = [life EXCEPT ![i] = "free"]
  /\ stale' = stale \cup {j \in {i} : InUse(j)}
  /\ UNCHANGED <<cancel, routine, queue, busy, pc, irp, broken>>

\* ReadFile reaches HelloDDKRead with a packet allocated and cleared for it,
\* links of its queue entry included; HelloDDKRead marks it pending.
HelloDDKRead(t, i) ==
  /\ pc[t] = "idle"
  /\ life[i] = "free"
  /\ life' = [life EXCEPT ![i] = "live"]
  /\ cancel' = cancel \ {i}
  /\ routine' = routine \ {i}
  /\ pc' = [pc EXCEPT ![t] = "read"]
  /\ irp' = [irp EXCEPT ![t] = i]
  /\ broken' = Queued(i)
  /\ UNCHANGED <<queue, busy, stale>>

SetCancelRoutine(t) ==
  /\ pc[t] = "read"
  /\ routine' = routine \cup {irp[t]}
  /\ pc' = [pc EXCEPT ![t] = "insert"]
  /\ UNCHANGED <<life, cancel, queue, busy, irp, stale, broken>>

\* Mutant of InsertBusy: the newest packet goes to the head of the queue.
InsertBusyAtHead(t) ==
  /\ pc[t] = "insert"
  /\ busy
  /\ queue' = <<irp[t]>> \o queue
  /\ pc' = [pc EXCEPT ![t] = "idle"]
  /\ irp' = [irp EXCEPT ![t] = NoIrp]
  /\ UNCHANGED <<life, cancel, routine, busy, stale, broken>>

\* KeInsertDeviceQueue finds the queue busy and takes the packet: a packet
\* that is queued already breaks the list.
InsertBusy(t) ==
  /\ pc[t] = "insert"
  /\ busy
  /\ queue' = Append(queue, irp[t])
  /\ pc' = [pc EXCEPT ![t] = "idle"]
  /\ irp' = [irp EXCEPT ![t] = NoIrp]
  /\ broken' = Queued(irp[t])
  /\ UNCHANGED <<life, cancel, routine, busy, stale>>

\* Mutant of InsertIdle: the queue is not marked busy.
InsertIdleUnmarked(t) ==
  /\ pc[t] = "insert"
  /\ ~busy
  /\ pc' = [pc EXCEPT ![t] = "work"]
  /\ UNCHANGED <<life, cancel, routine, queue, busy, irp, stale, broken>>

\* KeInsertDeviceQueue finds the queue idle and marks it busy: the reader
\* calls MyStartIo.
InsertIdle(t) ==
  /\ pc[t] = "insert"
  /\ ~busy
  /\ busy' = TRUE
  /\ pc' = [pc EXCEPT ![t] = "work"]
  /\ UNCHANGED <<life, cancel, routine, queue, irp, stale, broken>>

\* MyStartIo's three seconds are over: it completes the packet.
MyStartIoCompletes(t) ==
  /\ pc[t] = "work"
  /\ CompleteRequest(irp[t])
  /\ pc' = [pc EXCEPT ![t] = "next"]
  /\ UNCHANGED <<cancel, routine, queue, busy, irp, stale, broken>>

\* Mutant of MyStartIoNext: the packet just completed is served once more.
MyStartIoNextSame(t) ==
  /\ pc[t] = "next"
  /\ queue # <<>>
  /\ queue' = Tail(queue)
  /\ pc' = [pc EXCEPT ![t] = "work"]
  /\ UNCHANGED <<life, cancel, routine, busy, irp, stale, broken>>

\* KeRemoveDeviceQueue yields the next packet: MyStartIo goes on.
MyStartIoNext(t) ==
  /\ pc[t] = "next"
  /\ queue # <<>>
  /\ irp' = [irp EXCEPT ![t] = Head(queue)]
  /\ queue' = Tail(queue)
  /\ pc' = [pc EXCEPT ![t] = "work"]
  /\ UNCHANGED <<life, cancel, routine, busy, stale, broken>>

\* KeRemoveDeviceQueue finds the queue empty and marks it idle: HelloDDKRead
\* returns.
MyStartIoEnds(t) ==
  /\ pc[t] = "next"
  /\ queue = <<>>
  /\ busy' = FALSE
  /\ pc' = [pc EXCEPT ![t] = "idle"]
  /\ irp' = [irp EXCEPT ![t] = NoIrp]
  /\ UNCHANGED <<life, cancel, routine, queue, stale, broken>>

\* IoCancelIrp finds no cancel routine: it only sets the flag.
IoCancelIrpFlag(t, i) ==
  /\ pc[t] = "idle"
  /\ life[i] = "live"
  /\ i \notin routine
  /\ cancel' = cancel \cup {i}
  /\ UNCHANGED <<life, routine, queue, busy, pc, irp, stale, broken>>

\* IoCancelIrp takes the cancel routine and calls OnCancelIRP, which releases
\* the cancel lock at once.
IoCancelIrp(t, i) ==
  /\ pc[t] = "idle"
  /\ life[i] = "live"
  /\ i \in routine
  /\ cancel' = cancel \cup {i}
  /\ routine' = routine \ {i}
  /\ pc' = [pc EXCEPT ![t] = "cancel"]
  /\ irp' = [irp EXCEPT ![t] = i]
  /\ UNCHANGED <<life, queue, busy, stale, broken>>

\* OnCancelIRP completes the packet with STATUS_CANCELLED.
OnCancelCompletes(t) ==
  /\ pc[t] = "cancel"
  /\ CompleteRequest(irp[t])
  /\ pc' = [pc EXCEPT ![t] = "idle"]
  /\ irp' = [irp EXCEPT ![t] = NoIrp]
  /\ UNCHANGED <<cancel, routine, queue, busy, stale, broken>>

\* What a thread inside the driver does next.
Step(t) ==
  /\ ~broken
  /\ \/ SetCancelRoutine(t)
     \/ InsertBusy(t)
     \/ InsertIdle(t)
     \/ MyStartIoCompletes(t)
     \/ MyStartIoNext(t)
     \/ MyStartIoEnds(t)
     \/ OnCancelCompletes(t)

SspNext ==
  \/ \E t \in Threads : Step(t)
  \/ /\ ~broken
     /\ \E t \in Threads, i \in Irps :
          HelloDDKRead(t, i) \/ IoCancelIrpFlag(t, i) \/ IoCancelIrp(t, i)
  \/ ~broken /\ \E i \in Irps : Reclaim(i)

SspSpec == SspInit /\ [][SspNext]_sspVars

\* The kernel schedules every thread that is inside the driver; nobody has to
\* read or to cancel.
SspFairSpec == SspSpec /\ \A t \in Threads : WF_sspVars(Step(t))

-----------------------------------------------------------------------------
(***************************************************************************)
(* Properties.                                                             *)
(***************************************************************************)

\* MyStartIo runs in one reader at a time, cancellations or not: what the
\* device queue's busy flag is for (lines 244-245).
OneAtATime ==
  \A t, u \in Threads : pc[t] = "work" /\ pc[u] = "work" => t = u

\* A packet is completed a second time, or taken back while the driver still
\* uses it, only if it was cancelled: OnCancelIRP completes it (line 218) and
\* leaves it in the queue, where MyStartIo completes it again (line 32).  The
\* read that gets the memory of such a packet next may be hit without being
\* cancelled itself; cancellation is where every such chain begins.
TwiceOnlyIfCancelled ==
  \A i \in Irps : life[i] = "twice" \/ (life[i] = "done" /\ InUse(i)) =>
    i \in cancel \cup stale

-----------------------------------------------------------------------------
(***************************************************************************)
(* The inductive invariant of the first two.                               *)
(***************************************************************************)

\* The device queue is busy while a reader is in MyStartIo, one at a time.
Serving(t) == pc[t] \in {"work", "next"}

ServingInv ==
  /\ \A t \in Threads : Serving(t) => busy
  /\ \A t, u \in Threads : Serving(t) /\ Serving(u) => t = u

\* A thread in the driver has a packet; the driver uses no free packet
\* that is not stale.
OwnerInv ==
  /\ \A t \in Threads : pc[t] # "idle" => irp[t] \in Irps
  /\ \A i \in Irps \ stale : life[i] = "free" => ~InUse(i)

\* A packet that is neither cancelled nor stale is in one place at most, and not
\* completed while it is there.
Holds(t, i) == pc[t] \in {"read", "insert", "work"} /\ irp[t] = i

OnePlaceInv ==
  \A i \in Irps \ (cancel \cup stale) :
    /\ life[i] # "twice"
    /\ \A t \in Threads :
         /\ ~(pc[t] = "cancel" /\ irp[t] = i)
         /\ Holds(t, i) => life[i] = "live"
    /\ \A t, u \in Threads : Holds(t, i) /\ Holds(u, i) => t = u
    /\ \A k \in 1 .. Len(queue) : queue[k] = i =>
         /\ life[i] = "live"
         /\ \A t \in Threads : ~Holds(t, i)
         /\ \A m \in 1 .. Len(queue) : queue[m] = i => m = k

SspInv == SspTypeOK /\ ServingInv /\ OwnerInv /\ OnePlaceInv

-----------------------------------------------------------------------------
\* Every read is completed, cancelled or not, even if new reads never stop: the
\* queue is served first come, first served (Test_specialstartio.cpp:20).  Once
\* the list is broken nothing is known.
EveryReadCompletes ==
  \A i \in Irps : life[i] = "live" ~> life[i] # "live" \/ broken
=============================================================================
