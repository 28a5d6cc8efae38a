----------------------------- MODULE DriverChain -----------------------------
(***************************************************************************)
(* chap11: a read of driver B opens DriverA, sends it a read of its own    *)
(* and waits for it.  DriverA parks the packet in currentPendingIRP, its   *)
(* only slot, sets a timer and completes the packet in the timer's DPC.    *)
(* Driver B comes in three variants: Test1 waits inside ZwReadFile, Test2  *)
(* for an event that an APC routine sets, Test5 builds the packet itself.  *)
(*                                                                         *)
(* Several threads may be in driver B (its handle may be used without      *)
(* waiting).  What protects the slot of DriverA is that its device is      *)
(* exclusive: it has one file object at a time, which lives until its      *)
(* handle is closed and its packets have come back.  When the opening      *)
(* fails, Test1 and Test2 close an uninitialised handle: it may be no      *)
(* handle at all, or the one that another thread has open.                 *)
(***************************************************************************)
CONSTANTS
  Threads,      \* the threads that read from driver B
  Nobody,       \* no thread
  Other,        \* a process that opens DriverA itself (\\??\HelloDDKA)
  Uniprocessor  \* does a queued DPC run before any thread goes on?

ASSUME ChainAssumption ==
  /\ Nobody \notin Threads /\ Other \notin Threads /\ Nobody # Other
  /\ Uniprocessor \in BOOLEAN

VARIABLES
  variant,  \* the driver B that is loaded
  pc,       \* pc[t]: where the read of thread t is
  opener,   \* whose handle of DriverA is open
  packet,   \* packet[t]: the packet that t has sent to DriverA
  slot,     \* currentPendingIRP of DriverA, as the thread that sent it
  armed,    \* is pollingTimer set?
  dpc,      \* "none", "queued", or "tail": the packet completed, not returned
  event,    \* the threads whose event is signalled
  loaded,   \* is DriverA loaded?
  strayed   \* history: an uninitialised handle has hit an open one

vars ==
  <<variant, pc, opener, packet, slot, armed, dpc, event, loaded, strayed>>

TypeOK ==
  /\ variant \in {"Test1", "Test2", "Test5"}
  /\ pc \in [Threads ->
       {"idle",    \* outside driver B
        "open",    \* in HelloDDKRead of B
        "read",    \* DriverA opened
        "timer",   \* in HelloDDKRead of A, the packet in the slot
        "wait",    \* A has returned STATUS_PENDING
        "close",   \* about to close hDevice (or dereference FileObject)
        "stray"}]  \* the same, hDevice never set
  /\ opener \in Threads \cup {Nobody, Other}
  /\ packet \in [Threads -> {"free", "live", "done", "twice"}]
  /\ slot \in Threads \cup {Nobody}
  /\ armed \in BOOLEAN
  /\ dpc \in {"none", "queued", "tail"}
  /\ event \in SUBSET Threads
  /\ loaded \in BOOLEAN
  /\ strayed \in BOOLEAN

\* Both drivers are loaded.  CreateDevice of A makes an exclusive device, with
\* a timer that is not set; the extension is zeroed.
Init ==
  /\ variant \in {"Test1", "Test2", "Test5"}
  /\ pc = [t \in Threads |-> "idle"]
  /\ opener = Nobody
  /\ packet = [t \in Threads |-> "free"]
  /\ slot = Nobody
  /\ armed = FALSE
  /\ dpc = "none"
  /\ event = {}
  /\ loaded = TRUE
  /\ strayed = FALSE

-----------------------------------------------------------------------------
\* A thread goes on: on one processor not before the DPCs have run.
ThreadRuns == Uniprocessor => dpc = "none"

\* Nobody has a file object of DriverA: no handle is open, no packet is out.
NoFileObject == opener = Nobody /\ \A t \in Threads : packet[t] = "free"

Go(t, label) == pc' = [pc EXCEPT ![t] = label]

\* Does hDevice of thread t name the open handle?  It does not when a stray
\* close has closed it, unless the number has been given out again since.
MayName(t) == opener \in Threads
NamesFor(t) == opener = t

\* ReadFile reaches HelloDDKRead of driver B.
EnterB(t) ==
  /\ ThreadRuns
  /\ pc[t] = "idle"
  /\ Go(t, "open")
  /\ UNCHANGED <<variant, opener, packet, slot, armed, dpc, event, loaded, strayed>>

\* Mutant of CanOpen: the device is not exclusive.
CanOpenShared == loaded

\* ZwCreateFile of an exclusive device.
CanOpen == loaded /\ NoFileObject

\* Driver B opens DriverA; the thread goes to `refused` if it cannot.
OpenA(t, refused) ==
  /\ ThreadRuns
  /\ pc[t] = "open"
  /\ \/ CanOpen /\ opener' = t /\ Go(t, "read")
     \/ ~CanOpen /\ Go(t, refused) /\ UNCHANGED opener
  /\ UNCHANGED <<variant, packet, slot, armed, dpc, event, loaded, strayed>>

\* Test1 ignores the failure until ZwClose.
OpenTest1(t) == variant = "Test1" /\ OpenA(t, "stray")

\* So does Test2.
OpenTest2(t) == variant = "Test2" /\ OpenA(t, "stray")

\* Test5 (IoGetDeviceObjectPointer) completes its packet with an error.
OpenTest5(t) == variant = "Test5" /\ OpenA(t, "idle")

\* HelloDDKRead of DriverA up to the slot.
HelloDDKReadA(t) ==
  /\ packet' = [packet EXCEPT ![t] = "live"]
  /\ slot' = t
  /\ Go(t, "timer")

\* The handle is gone: ZwReadFile fails.
ReadFails(t) ==
  /\ ~NamesFor(t)
  /\ Go(t, "close")
  /\ UNCHANGED <<packet, slot>>

\* Test1: the file object is synchronous, one read after the other.
ReadTest1(t) ==
  /\ ThreadRuns
  /\ variant = "Test1" /\ pc[t] = "read"
  /\ \/ MayName(t) /\ (\A u \in Threads : packet[u] = "free") /\ HelloDDKReadA(t)
     \/ ReadFails(t)
  /\ UNCHANGED <<variant, opener, armed, dpc, event, loaded, strayed>>

\* Test2: ZwReadFile with an APC routine.
ReadTest2(t) ==
  /\ ThreadRuns
  /\ variant = "Test2" /\ pc[t] = "read"
  /\ (MayName(t) /\ HelloDDKReadA(t)) \/ ReadFails(t)
  /\ UNCHANGED <<variant, opener, armed, dpc, event, loaded, strayed>>

\* Test5: IoBuildSynchronousFsdRequest and IoCallDriver.
ReadTest5(t) ==
  /\ ThreadRuns
  /\ variant = "Test5" /\ pc[t] = "read"
  /\ HelloDDKReadA(t)
  /\ UNCHANGED <<variant, opener, armed, dpc, event, loaded, strayed>>

\* Mutant of SetTimer: the timer is forgotten.
SetTimerForgotten(t) ==
  /\ ThreadRuns
  /\ pc[t] = "timer"
  /\ Go(t, "wait")
  /\ UNCHANGED <<variant, opener, packet, slot, armed, dpc, event, loaded, strayed>>

\* HelloDDKRead of DriverA sets the timer and returns STATUS_PENDING.
SetTimer(t) ==
  /\ ThreadRuns
  /\ pc[t] = "timer"
  /\ armed' = TRUE
  /\ Go(t, "wait")
  /\ UNCHANGED <<variant, opener, packet, slot, dpc, event, loaded, strayed>>

\* Three seconds later the timer queues its DPC, once.
TimerExpires ==
  /\ armed
  /\ dpc # "tail"
  /\ armed' = FALSE
  /\ dpc' = "queued"
  /\ UNCHANGED <<variant, pc, opener, packet, slot, event, loaded, strayed>>

\* Mutant of OnTimerDpc: the timer is set again, as in chap10.
OnTimerDpcAgain ==
  /\ dpc = "queued"
  /\ packet' = [packet EXCEPT ![slot] = IF @ = "live" THEN "done" ELSE "twice"]
  /\ dpc' = "tail"
  /\ armed' = TRUE
  /\ UNCHANGED <<variant, pc, opener, slot, event, loaded, strayed>>

\* OnTimerDpc completes the packet in the slot.
OnTimerDpc ==
  /\ dpc = "queued"
  /\ packet' = [packet EXCEPT ![slot] = IF @ = "live" THEN "done" ELSE "twice"]
  /\ dpc' = "tail"
  /\ UNCHANGED <<variant, pc, opener, slot, armed, event, loaded, strayed>>

\* OnTimerDpc returns.
DpcReturns ==
  /\ dpc = "tail"
  /\ dpc' = "none"
  /\ UNCHANGED <<variant, pc, opener, packet, slot, armed, event, loaded, strayed>>

\* The completion reaches the thread in an APC: the packet is freed, and the
\* event is signalled by the I/O manager (Test1, Test5) or by
\* CompleteDriverA_read (Test2).
CompleteDriverA_read(t) ==
  /\ ThreadRuns
  /\ packet[t] = "done"
  /\ packet' = [packet EXCEPT ![t] = "free"]
  /\ event' = event \cup {t}
  /\ UNCHANGED <<variant, pc, opener, slot, armed, dpc, loaded, strayed>>

\* KeWaitForSingleObject (or the wait inside ZwReadFile) is over.
WaitEnds(t) ==
  /\ ThreadRuns
  /\ pc[t] = "wait"
  /\ t \in event
  /\ event' = event \ {t}
  /\ Go(t, "close")
  /\ UNCHANGED <<variant, opener, packet, slot, armed, dpc, loaded, strayed>>

\* ZwClose(hDevice), or ObDereferenceObject; B completes its packet.
CloseA(t) ==
  /\ ThreadRuns
  /\ pc[t] = "close"
  /\ \/ MayName(t) /\ opener' = Nobody
     \/ ~NamesFor(t) /\ UNCHANGED opener
  /\ Go(t, "idle")
  /\ UNCHANGED <<variant, packet, slot, armed, dpc, event, loaded, strayed>>

\* ZwClose of an uninitialised handle: nothing happens, or the handle of
\* another thread is closed.
CloseStray(t) ==
  /\ ThreadRuns
  /\ pc[t] = "stray"
  /\ \/ UNCHANGED <<opener, strayed>>
     \/ opener \in Threads /\ opener' = Nobody /\ strayed' = TRUE
  /\ Go(t, "idle")
  /\ UNCHANGED <<variant, packet, slot, armed, dpc, event, loaded>>

\* Another process opens DriverA, and closes it.
OtherOpens ==
  /\ ThreadRuns
  /\ CanOpen
  /\ opener' = Other
  /\ UNCHANGED <<variant, pc, packet, slot, armed, dpc, event, loaded, strayed>>

OtherCloses ==
  /\ ThreadRuns
  /\ opener = Other
  /\ opener' = Nobody
  /\ UNCHANGED <<variant, pc, packet, slot, armed, dpc, event, loaded, strayed>>

\* The I/O manager calls HelloDDKUnload of A once nobody has a file object.
UnloadA ==
  /\ ThreadRuns
  /\ loaded
  /\ NoFileObject
  /\ loaded' = FALSE
  /\ UNCHANGED <<variant, pc, opener, packet, slot, armed, dpc, event, strayed>>

\* What thread t does next in driver B or A.
Step(t) ==
  \/ OpenTest1(t) \/ OpenTest2(t) \/ OpenTest5(t)
  \/ ReadTest1(t) \/ ReadTest2(t) \/ ReadTest5(t)
  \/ SetTimer(t)
  \/ CompleteDriverA_read(t)
  \/ WaitEnds(t)
  \/ CloseA(t) \/ CloseStray(t)

Clock == TimerExpires \/ OnTimerDpc \/ DpcReturns

Next ==
  \/ \E t \in Threads : EnterB(t) \/ Step(t)
  \/ Clock
  \/ OtherOpens
  \/ OtherCloses
  \/ UnloadA

Spec == Init /\ [][Next]_vars

\* Time passes, DPCs run, and the kernel schedules every thread, DPCs and the
\* reads of others notwithstanding (hence strong fairness).
FairSpec == Spec /\ WF_vars(Clock) /\ \A t \in Threads : SF_vars(Step(t))

-----------------------------------------------------------------------------
(***************************************************************************)
(* Properties.                                                             *)
(***************************************************************************)

\* Two reads of Test2 can meet in DriverA only after a stray close: its file
\* object is not synchronous.
Sound == variant = "Test2" => ~strayed

\* DriverA has room for one packet (line 129) and needs no more: a packet that
\* it owes is the one in the slot, on its way to the timer or timed, and none
\* is completed twice.
SlotHoldsWhatIsOwed ==
  Sound =>
    \A t \in Threads :
      /\ packet[t] # "twice"
      /\ packet[t] = "live" =>
           slot = t /\ (pc[t] = "timer" \/ armed \/ dpc = "queued")

\* HelloDDKUnload deletes the device that holds the timer and the DPC without
\* cancelling them (lines 104-113): neither can be pending then.
UnloadFindsTimerIdle == Sound /\ ~loaded => ~armed /\ dpc = "none"

-----------------------------------------------------------------------------
(***************************************************************************)
(* The inductive invariant, which says how the slot comes to be enough.    *)
(***************************************************************************)

InB(t) == pc[t] \in {"read", "timer", "wait", "close"}

\* A packet is out only while its thread is in DriverA or waits; the event of
\* a thread is signalled when its packet is back.
PacketInv ==
  \A t \in Threads :
    /\ packet[t] # "free" => pc[t] \in {"timer", "wait"}
    /\ pc[t] = "timer" => packet[t] = "live"
    /\ t \in event => pc[t] = "wait" /\ packet[t] = "free"

\* One packet is out at a time.
OnePacketInv ==
  \A t, u \in Threads : packet[t] # "free" /\ packet[u] # "free" => t = u

\* The timer runs, and its DPC is queued, for the packet in the slot.
TimerInv ==
  /\ armed \/ dpc = "queued" =>
       slot \in Threads /\ packet[slot] = "live" /\ pc[slot] # "timer"
  /\ ~(armed /\ dpc = "queued")

\* A thread that has opened DriverA has its handle; Test1 alone works without,
\* for its reads wait for each other.
HandleInv ==
  /\ variant # "Test1" => \A t \in Threads : InB(t) => opener = t
  /\ variant = "Test5" => \A t \in Threads : pc[t] # "stray"

\* DriverA is unloaded when nobody uses it.
UnloadedInv == ~loaded => opener = Nobody /\ \A t \in Threads : packet[t] = "free"

ChainInv ==
  /\ PacketInv /\ OnePacketInv /\ TimerInv /\ HandleInv /\ UnloadedInv
  /\ SlotHoldsWhatIsOwed
  /\ Uniprocessor => UnloadFindsTimerIdle

IInv == TypeOK /\ (Sound => ChainInv)

-----------------------------------------------------------------------------
\* Every read of driver B comes back.
ReadsOfBReturn ==
  []Sound => \A t \in Threads : pc[t] # "idle" ~> pc[t] = "idle"
=============================================================================
