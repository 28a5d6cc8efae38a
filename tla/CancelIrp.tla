------------------------------ MODULE CancelIrp ------------------------------
(***************************************************************************)
(* chap09/CancelIRPTest: a driver that keeps every read pending until it   *)
(* is cancelled.  HelloDDKRead sets the cancel routine and marks the       *)
(* packet pending; CancelReadIRP, called with the cancel spin lock held,   *)
(* completes the packet and only then releases the lock, at the interrupt  *)
(* level (IRQL) it reads from the packet it has just given away.           *)
(*                                                                         *)
(* CancelIo cancels the packets of the calling thread and waits for them;  *)
(* CancelIoEx lets a thread cancel a packet of another one.  A completed   *)
(* packet is freed by an asynchronous procedure call (APC) to the thread   *)
(* that issued it, which runs only when that thread is at PASSIVE_LEVEL.   *)
(***************************************************************************)
EXTENDS TLC

CONSTANTS
  Readers,   \* the threads that read, and cancel their reads with CancelIo
  Others,    \* the threads that cancel packets of the readers with CancelIoEx
  Irps,      \* the packets (memory blocks) the I/O manager allocates from
  None       \* no thread, no packet

ASSUME CancelIrpAssumption ==
  /\ None \notin Readers \cup Others \cup Irps
  /\ Readers \cap Others = {}

Threads == Readers \cup Others

VARIABLES
  life,        \* life[i]: "free", "live", "done", or "twice" (completed again)
  owner,       \* owner[i]: the reader that issued packet i last
  routine,     \* the packets whose cancel routine is CancelReadIRP (not NULL)
  cancelIrql,  \* cancelIrql[i]: the CancelIrql field of packet i
  lock,        \* the holder of the cancel spin lock
  irql,        \* irql[t]: the interrupt level thread t runs at
  pc,          \* pc[t]: where thread t is
  irp,         \* irp[t]: the packet the driver works on in thread t
  todo         \* todo[t]: the packets CancelIo of reader t has not reached yet

vars == <<life, owner, routine, cancelIrql, lock, irql, pc, irp, todo>>

Irqls == {"passive", "apc", "dispatch"}

Labels ==
  {"idle",     \* in neither the driver nor CancelIo
   "read",     \* in HelloDDKRead, before IoSetCancelRoutine
   "mark",     \* in HelloDDKRead, before IoMarkIrpPending
   "walk",     \* in CancelIo, going through the packets of the reader
   "cancel",   \* in CancelReadIRP, before it completes the packet
   "release",  \* in CancelReadIRP, before IoReleaseCancelSpinLock
   "wait"}     \* in CancelIo, waiting for the packets of the reader

TypeOK ==
  /\ life \in [Irps -> {"free", "live", "done", "twice"}]
  /\ owner \in [Irps -> Readers \cup {None}]
  /\ routine \in SUBSET Irps
  /\ cancelIrql \in [Irps -> Irqls]
  /\ lock \in Threads \cup {None}
  /\ irql \in [Threads -> Irqls]
  /\ pc \in [Threads -> Labels]
  /\ irp \in [Threads -> Irps \cup {None}]
  /\ todo \in [Readers -> SUBSET Irps]

\* The device DriverEntry and CreateDevice leave.
Init ==
  /\ life = [i \in Irps |-> "free"]
  /\ owner = [i \in Irps |-> None]
  /\ routine = {}
  /\ cancelIrql = [i \in Irps |-> "passive"]
  /\ lock = None
  /\ irql = [t \in Threads |-> "passive"]
  /\ pc = [t \in Threads |-> "idle"]
  /\ irp = [t \in Threads |-> None]
  /\ todo = [t \in Readers |-> {}]

\* Where thread t goes on when the cancel routine returns.
AfterCancel(t) == IF t \in Others THEN "idle" ELSE "walk"

-----------------------------------------------------------------------------
(***************************************************************************)
(* The driver.                                                             *)
(***************************************************************************)

\* ReadFile: the I/O manager zeroes a packet, puts it on the list of the
\* thread and calls HelloDDKRead.
HelloDDKRead(t, i) ==
  /\ pc[t] = "idle"
  /\ life[i] = "free"
  /\ life' = [life EXCEPT ![i] = "live"]
  /\ owner' = [owner EXCEPT ![i] = t]
  /\ cancelIrql' = [cancelIrql EXCEPT ![i] = "passive"]
  /\ pc' = [pc EXCEPT ![t] = "read"]
  /\ irp' = [irp EXCEPT ![t] = i]
  /\ UNCHANGED <<routine, lock, irql, todo>>

\* Mutant of SetCancelRoutine: the packet gets no cancel routine.
SetCancelRoutineForgotten(t) ==
  /\ pc[t] = "read"
  /\ pc' = [pc EXCEPT ![t] = "mark"]
  /\ UNCHANGED <<life, owner, routine, cancelIrql, lock, irql, irp, todo>>

SetCancelRoutine(t) ==
  /\ pc[t] = "read"
  /\ routine' = routine \cup {irp[t]}
  /\ pc' = [pc EXCEPT ![t] = "mark"]
  /\ UNCHANGED <<life, owner, cancelIrql, lock, irql, irp, todo>>

\* Mutant of MarkPending: the packet is completed as well.
MarkPendingAndComplete(t) ==
  /\ pc[t] = "mark"
  /\ life' = [life EXCEPT ![irp[t]] = IF @ = "live" THEN "done" ELSE "twice"]
  /\ pc' = [pc EXCEPT ![t] = "idle"]
  /\ irp' = [irp EXCEPT ![t] = None]
  /\ UNCHANGED <<owner, routine, cancelIrql, lock, irql, todo>>

\* IoMarkIrpPending writes to the packet; HelloDDKRead returns STATUS_PENDING.
MarkPending(t) ==
  /\ pc[t] = "mark"
  /\ pc' = [pc EXCEPT ![t] = "idle"]
  /\ irp' = [irp EXCEPT ![t] = None]
  /\ UNCHANGED <<life, owner, routine, cancelIrql, lock, irql, todo>>

\* CancelReadIRP completes the packet with STATUS_CANCELLED, under the lock.
CancelReadCompletes(t) ==
  /\ pc[t] = "cancel"
  /\ life' = [life EXCEPT ![irp[t]] = IF @ = "live" THEN "done" ELSE "twice"]
  /\ pc' = [pc EXCEPT ![t] = "release"]
  /\ UNCHANGED <<owner, routine, cancelIrql, lock, irql, irp, todo>>

\* Mutant of CancelReadReleases: the lock is released at DISPATCH_LEVEL.
CancelReadStaysHigh(t) ==
  /\ pc[t] = "release"
  /\ lock' = None
  /\ pc' = [pc EXCEPT ![t] = AfterCancel(t)]
  /\ irp' = [irp EXCEPT ![t] = None]
  /\ UNCHANGED <<life, owner, routine, cancelIrql, irql, todo>>

\* CancelReadIRP reads the CancelIrql of the packet it has completed and
\* releases the lock; the caller goes on at that level.
CancelReadReleases(t) ==
  /\ pc[t] = "release"
  /\ lock' = None
  /\ irql' = [irql EXCEPT ![t] = cancelIrql[irp[t]]]
  /\ pc' = [pc EXCEPT ![t] = AfterCancel(t)]
  /\ irp' = [irp EXCEPT ![t] = None]
  /\ UNCHANGED <<life, owner, routine, cancelIrql, todo>>

-----------------------------------------------------------------------------
(***************************************************************************)
(* The I/O manager.                                                        *)
(***************************************************************************)

\* CancelIo: the reader raises itself to APC_LEVEL and goes through its list.
CancelIo(t) ==
  /\ pc[t] = "idle"
  /\ todo' = [todo EXCEPT ![t] =
       {i \in Irps : owner[i] = t /\ life[i] \in {"live", "done"}}]
  /\ irql' = [irql EXCEPT ![t] = "apc"]
  /\ pc' = [pc EXCEPT ![t] = "walk"]
  /\ UNCHANGED <<life, owner, routine, cancelIrql, lock, irp>>

\* IoCancelIrp takes the cancel lock and the cancel routine, and calls it.
CallCancelRoutine(t, i) ==
  /\ lock = None
  /\ i \in routine
  /\ lock' = t
  /\ routine' = routine \ {i}
  /\ cancelIrql' = [cancelIrql EXCEPT ![i] = irql[t]]
  /\ irql' = [irql EXCEPT ![t] = "dispatch"]
  /\ pc' = [pc EXCEPT ![t] = "cancel"]
  /\ irp' = [irp EXCEPT ![t] = i]
  /\ UNCHANGED <<life, owner>>

\* CancelIo cancels a packet of its list.
WalkCancels(t, i) ==
  /\ pc[t] = "walk"
  /\ i \in todo[t]
  /\ todo' = [todo EXCEPT ![t] = @ \ {i}]
  /\ CallCancelRoutine(t, i)

\* CancelIo finds a packet without a cancel routine: IoCancelIrp only sets the
\* Cancel flag, which this driver never reads.
WalkPasses(t, i) ==
  /\ pc[t] = "walk"
  /\ i \in todo[t]
  /\ lock = None
  /\ i \notin routine
  /\ todo' = [todo EXCEPT ![t] = @ \ {i}]
  /\ UNCHANGED <<life, owner, routine, cancelIrql, lock, irql, pc, irp>>

\* CancelIoEx cancels a packet of any reader: the packet is uncompleted when
\* IoCancelIrp begins, and nothing is assumed about its memory afterwards.
CancelIoEx(t, i) ==
  /\ pc[t] = "idle"
  /\ life[i] = "live"
  /\ CallCancelRoutine(t, i)
  /\ UNCHANGED todo

\* All packets of the list are cancelled: the reader goes back to
\* PASSIVE_LEVEL and waits for them.
WalkEnds(t) ==
  /\ pc[t] = "walk"
  /\ todo[t] = {}
  /\ irql' = [irql EXCEPT ![t] = "passive"]
  /\ pc' = [pc EXCEPT ![t] = "wait"]
  /\ UNCHANGED <<life, owner, routine, cancelIrql, lock, irp, todo>>

\* The packets of the reader are gone: CancelIo returns.
CancelIoEnds(t) ==
  /\ pc[t] = "wait"
  /\ \A i \in Irps : owner[i] = t => life[i] = "free"
  /\ pc' = [pc EXCEPT ![t] = "idle"]
  /\ UNCHANGED <<life, owner, routine, cancelIrql, lock, irql, irp, todo>>

\* The APC to the issuing thread frees the packet; the memory may be given any
\* contents.
FreeIrp(i) ==
  /\ life[i] = "done"
  /\ irql[owner[i]] = "passive"
  /\ life' = [life EXCEPT ![i] = "free"]
  /\ \E l \in Irqls : cancelIrql' = [cancelIrql EXCEPT ![i] = l]
  /\ UNCHANGED <<owner, routine, lock, irql, pc, irp, todo>>

\* What a reader inside a call does next.
ReaderStep(t) ==
  \/ SetCancelRoutine(t)
  \/ MarkPending(t)
  \/ \E i \in Irps : WalkCancels(t, i) \/ WalkPasses(t, i)
  \/ WalkEnds(t)
  \/ CancelIoEnds(t)

\* What a thread inside the cancel routine does next.
CancelStep(t) == CancelReadCompletes(t) \/ CancelReadReleases(t)

Next ==
  \/ \E t \in Readers : ReaderStep(t) \/ CancelIo(t)
  \/ \E t \in Readers, i \in Irps : HelloDDKRead(t, i)
  \/ \E t \in Others, i \in Irps : CancelIoEx(t, i)
  \/ \E t \in Threads : CancelStep(t)
  \/ \E i \in Irps : FreeIrp(i)

Spec == Init /\ [][Next]_vars

\* The kernel schedules every thread that is inside a call and delivers the
\* APCs; the cancel lock is a queued spin lock: a thread that spins on it gets
\* it if it is free again and again.
FairSpec ==
  /\ Spec
  /\ \A t \in Readers : SF_vars(ReaderStep(t))
  /\ \A t \in Threads : WF_vars(CancelStep(t))
  /\ \A i \in Irps : WF_vars(FreeIrp(i))

-----------------------------------------------------------------------------
(***************************************************************************)
(* Properties.                                                             *)
(***************************************************************************)

\* The cancel routine gives a reader back the interrupt level it was called at,
\* although line 175 reads that level from the packet completed at line 173: a
\* packet of the reader is not freed in between.  (A packet of somebody else
\* is: the threads that call CancelIoEx are not covered.)
IrqlRestored ==
  \A t \in Readers :
    /\ irql[t] = "apc" <=> pc[t] = "walk"
    /\ irql[t] = "dispatch" <=> pc[t] \in {"cancel", "release"}

\* Every uncompleted packet can still be cancelled: HelloDDKRead is about to
\* set its cancel routine, it is set, or the routine is about to complete it.
StillCancellable ==
  \A i \in Irps :
    life[i] = "live" =>
      \/ i \in routine
      \/ \E t \in Threads : irp[t] = i /\ pc[t] \in {"read", "cancel"}

Contract == INSTANCE IrpContract WITH served <- {}

\* The driver implements the contract of a queueing driver that serves nothing:
\* every packet is completed exactly once per issue, whoever cancels.
KeepsContract == Contract!Spec

\* CancelIo returns: the cancel routine completes every packet it waits for,
\* as the test program expects (Test/Source.cpp:43).
CancelIoReturns == \A t \in Readers : pc[t] = "walk" ~> pc[t] = "idle"
-----------------------------------------------------------------------------
(***************************************************************************)
(* The inductive invariant behind the safety properties; CancelIrpProofs   *)
(* proves it for every set of threads and packets.                         *)
(***************************************************************************)

InRoutine(t) == pc[t] \in {"cancel", "release"}

\* Thread t is in the cancel routine only with the cancel lock, for a packet;
\* a thread that only cancels is nowhere else.
LockInv ==
  /\ \A t \in Threads : InRoutine(t) => lock = t /\ irp[t] \in Irps
  /\ \A t \in Threads : pc[t] \in {"read", "mark"} => irp[t] \in Irps
  /\ \A t \in Others : pc[t] = "idle" \/ InRoutine(t)

\* A packet is completed at most once per issue, and knows its reader.
LifeInv ==
  \A i \in Irps :
    /\ life[i] # "twice"
    /\ life[i] # "free" => owner[i] \in Readers

\* Only one of HelloDDKRead, the cancel routine that is set and the cancel
\* routine that runs has the duty to see to a live packet.
DutyInv ==
  /\ \A i \in routine : life[i] = "live"
  /\ \A t \in Threads :
       pc[t] \in {"read", "cancel"} =>
         life[irp[t]] = "live" /\ irp[t] \notin routine
  /\ \A t \in Threads : pc[t] = "read" => owner[irp[t]] = t
  /\ \A t, u \in Threads :
       pc[t] = "read" /\ pc[u] = "cancel" => irp[t] # irp[u]

\* The packets a reader cancels stay its own, and stay allocated, until it is
\* back at PASSIVE_LEVEL.
WalkInv ==
  /\ \A t \in Readers :
       pc[t] = "walk" \/ InRoutine(t) =>
         \A i \in todo[t] : owner[i] = t /\ life[i] # "free"
  /\ \A t \in Readers :
       InRoutine(t) =>
         /\ owner[irp[t]] = t
         /\ life[irp[t]] # "free"
         /\ cancelIrql[irp[t]] = "apc"

IInv ==
  /\ TypeOK
  /\ IrqlRestored
  /\ StillCancellable
  /\ LockInv
  /\ LifeInv
  /\ DutyInv
  /\ WalkInv
=============================================================================
