----------------------------- MODULE PendingIrp -----------------------------
(***************************************************************************)
(* chap09/PendingIRPTest: a driver that parks its reads in a doubly linked *)
(* list and completes them when the handle is closed.  HelloDDKRead        *)
(* inserts a new entry at the head with InsertHeadList, HelloDDKCleanUp    *)
(* empties the list with RemoveHeadList.  No lock protects the list, so    *)
(* both macros are modelled store by store.                                *)
(*                                                                         *)
(* The device is exclusive: one handle is open at a time, but any thread   *)
(* of the process may read from it, and one of them closes it, possibly    *)
(* while another is still inside HelloDDKRead.  With Concurrent FALSE the  *)
(* process makes one call after the other, as the test program does.       *)
(***************************************************************************)
EXTENDS Naturals, FiniteSets, TLC

CONSTANTS
  Threads,     \* the threads of the process that has the device open
  Irps,        \* the packets; the entry of a packet has its name
  Head,        \* the list head of the device extension
  None,        \* no packet, no entry
  Concurrent   \* may two threads be inside the driver at once?

ASSUME PendingIrpAssumption ==
  /\ Head \notin Irps
  /\ None \notin Irps \cup {Head}
  /\ IsFiniteSet(Irps)
  /\ Concurrent \in BOOLEAN

Nodes == Irps \cup {Head}

VARIABLES
  life,     \* life[i]: "free", "live", "done", or "twice" (completed again)
  flink,    \* flink[n]: n->Flink
  blink,    \* blink[n]: n->Blink
  handle,   \* "open", "closing" (the last handle is closed), "closed"
  owed,     \* the packets HelloDDKRead had returned when the handle was closed
  pc,       \* pc[t]: where thread t is
  irp,      \* irp[t]: the packet HelloDDKRead of t works on
  entry,    \* entry[t]: the entry RemoveHeadList of t has taken
  next      \* next[t]: the local copy of a Flink in the macros

vars == <<life, flink, blink, handle, owed, pc, irp, entry, next>>

Labels ==
  {"idle",      \* outside the driver
   "insert",    \* in InsertHeadList, before it reads the head
   "back",      \* in InsertHeadList, before it sets the old first entry's Blink
   "forth",     \* in InsertHeadList, before it sets the head's Flink
   "mark",      \* in HelloDDKRead, before IoMarkIrpPending
   "test",      \* in HelloDDKCleanUp, before IsListEmpty
   "remove",    \* in RemoveHeadList, before it reads the head
   "unlink",    \* in RemoveHeadList, before it sets the head's Flink
   "relink",    \* in RemoveHeadList, before it sets the next entry's Blink
   "complete"}  \* in HelloDDKCleanUp, before it completes the entry's packet

TypeOK ==
  /\ life \in [Irps -> {"free", "live", "done", "twice"}]
  /\ flink \in [Nodes -> Nodes \cup {None}]
  /\ blink \in [Nodes -> Nodes \cup {None}]
  /\ handle \in {"open", "closing", "closed"}
  /\ owed \in SUBSET Irps
  /\ pc \in [Threads -> Labels]
  /\ irp \in [Threads -> Irps \cup {None}]
  /\ entry \in [Threads -> Irps \cup {None}]
  /\ next \in [Threads -> Nodes \cup {None}]

\* CreateDevice initialises the list: the head points to itself.
Init ==
  /\ life = [i \in Irps |-> "free"]
  /\ flink = [n \in Nodes |-> IF n = Head THEN Head ELSE None]
  /\ blink = [n \in Nodes |-> IF n = Head THEN Head ELSE None]
  /\ handle = "closed"
  /\ owed = {}
  /\ pc = [t \in Threads |-> "idle"]
  /\ irp = [t \in Threads |-> None]
  /\ entry = [t \in Threads |-> None]
  /\ next = [t \in Threads |-> None]

-----------------------------------------------------------------------------
\* n->Flink; a freed entry, or no entry at all, has no links.
Follow(n) == IF n \in Nodes THEN flink[n] ELSE None

\* May thread t call the driver now?
MayEnter(t) ==
  /\ pc[t] = "idle"
  /\ Concurrent \/ \A u \in Threads : pc[u] = "idle"

\* ReadFile reaches HelloDDKRead, which allocates an entry for the packet.
HelloDDKRead(t, i) ==
  /\ MayEnter(t)
  /\ handle = "open"
  /\ life[i] = "free"
  /\ life' = [life EXCEPT ![i] = "live"]
  /\ pc' = [pc EXCEPT ![t] = "insert"]
  /\ irp' = [irp EXCEPT ![t] = i]
  /\ UNCHANGED <<flink, blink, handle, owed, entry, next>>

\* InsertHeadList: Flink = ListHead->Flink, and the new entry's two links.
InsertReads(t) ==
  /\ pc[t] = "insert"
  /\ next' = [next EXCEPT ![t] = flink[Head]]
  /\ flink' = [flink EXCEPT ![irp[t]] = flink[Head]]
  /\ blink' = [blink EXCEPT ![irp[t]] = Head]
  /\ pc' = [pc EXCEPT ![t] = "back"]
  /\ UNCHANGED <<life, handle, owed, irp, entry>>

\* Mutant of InsertBack: the old first entry keeps its Blink.
InsertBackForgotten(t) ==
  /\ pc[t] = "back"
  /\ pc' = [pc EXCEPT ![t] = "forth"]
  /\ UNCHANGED <<life, flink, blink, handle, owed, irp, entry, next>>

\* Flink->Blink = Entry
InsertBack(t) ==
  /\ pc[t] = "back"
  /\ blink' = [blink EXCEPT ![next[t]] = irp[t]]
  /\ pc' = [pc EXCEPT ![t] = "forth"]
  /\ UNCHANGED <<life, flink, handle, owed, irp, entry, next>>

\* ListHead->Flink = Entry
InsertForth(t) ==
  /\ pc[t] = "forth"
  /\ flink' = [flink EXCEPT ![Head] = irp[t]]
  /\ next' = [next EXCEPT ![t] = None]
  /\ pc' = [pc EXCEPT ![t] = "mark"]
  /\ UNCHANGED <<life, blink, handle, owed, irp, entry>>

\* Mutant of MarkPending: the packet in the list is completed as well.
MarkPendingAndComplete(t) ==
  /\ pc[t] = "mark"
  /\ life' = [life EXCEPT ![irp[t]] = "done"]
  /\ pc' = [pc EXCEPT ![t] = "idle"]
  /\ irp' = [irp EXCEPT ![t] = None]
  /\ UNCHANGED <<flink, blink, handle, owed, entry, next>>

\* IoMarkIrpPending; HelloDDKRead returns STATUS_PENDING.
MarkPending(t) ==
  /\ pc[t] = "mark"
  /\ pc' = [pc EXCEPT ![t] = "idle"]
  /\ irp' = [irp EXCEPT ![t] = None]
  /\ UNCHANGED <<life, flink, blink, handle, owed, entry, next>>

\* The last handle is closed: the I/O manager calls HelloDDKCleanUp.
CloseHandle(t) ==
  /\ MayEnter(t)
  /\ handle = "open"
  /\ handle' = "closing"
  /\ owed' = {i \in Irps : life[i] = "live" /\ \A u \in Threads : irp[u] # i}
  /\ pc' = [pc EXCEPT ![t] = "test"]
  /\ UNCHANGED <<life, flink, blink, irp, entry, next>>

\* IsListEmpty: there is an entry to remove.
ListNotEmpty(t) ==
  /\ pc[t] = "test"
  /\ flink[Head] # Head
  /\ pc' = [pc EXCEPT ![t] = "remove"]
  /\ UNCHANGED <<life, flink, blink, handle, owed, irp, entry, next>>

\* RemoveHeadList: Entry = ListHead->Flink; Flink = Entry->Flink
RemoveReads(t) ==
  /\ pc[t] = "remove"
  /\ entry' = [entry EXCEPT ![t] = flink[Head]]
  /\ next' = [next EXCEPT ![t] = Follow(flink[Head])]
  /\ pc' = [pc EXCEPT ![t] = "unlink"]
  /\ UNCHANGED <<life, flink, blink, handle, owed, irp>>

\* ListHead->Flink = Flink
RemoveForth(t) ==
  /\ pc[t] = "unlink"
  /\ flink' = [flink EXCEPT ![Head] = next[t]]
  /\ pc' = [pc EXCEPT ![t] = "relink"]
  /\ UNCHANGED <<life, blink, handle, owed, irp, entry, next>>

\* Flink->Blink = ListHead
RemoveBack(t) ==
  /\ pc[t] = "relink"
  /\ blink' = [blink EXCEPT ![next[t]] = Head]
  /\ next' = [next EXCEPT ![t] = None]
  /\ pc' = [pc EXCEPT ![t] = "complete"]
  /\ UNCHANGED <<life, flink, handle, owed, irp, entry>>

\* Mutant of CleanUpCompletes: the entry is freed without its packet.
CleanUpFreesOnly(t) ==
  /\ pc[t] = "complete"
  /\ flink' = [flink EXCEPT ![entry[t]] = None]
  /\ blink' = [blink EXCEPT ![entry[t]] = None]
  /\ entry' = [entry EXCEPT ![t] = None]
  /\ pc' = [pc EXCEPT ![t] = "test"]
  /\ UNCHANGED <<life, handle, owed, irp, next>>

\* HelloDDKCleanUp completes the packet of the entry and frees the entry.
CleanUpCompletes(t) ==
  /\ pc[t] = "complete"
  /\ life' = [life EXCEPT ![entry[t]] = IF @ = "live" THEN "done" ELSE "twice"]
  /\ flink' = [flink EXCEPT ![entry[t]] = None]
  /\ blink' = [blink EXCEPT ![entry[t]] = None]
  /\ entry' = [entry EXCEPT ![t] = None]
  /\ pc' = [pc EXCEPT ![t] = "test"]
  /\ UNCHANGED <<handle, owed, irp, next>>

\* Mutant of CleanUpEnds: the queue is looked at only once.
CleanUpEndsEarly(t) ==
  /\ pc[t] = "test"
  /\ handle' = "closed"
  /\ pc' = [pc EXCEPT ![t] = "idle"]
  /\ UNCHANGED <<life, flink, blink, owed, irp, entry, next>>

\* IsListEmpty: HelloDDKCleanUp completes the IRP_MJ_CLEANUP and returns.
CleanUpEnds(t) ==
  /\ pc[t] = "test"
  /\ flink[Head] = Head
  /\ handle' = "closed"
  /\ pc' = [pc EXCEPT ![t] = "idle"]
  /\ UNCHANGED <<life, flink, blink, owed, irp, entry, next>>

\* A completed packet is freed, but not before it is marked pending.
FreeIrp(i) ==
  /\ life[i] = "done"
  /\ \A t \in Threads : irp[t] # i
  /\ life' = [life EXCEPT ![i] = "free"]
  /\ UNCHANGED <<flink, blink, handle, owed, pc, irp, entry, next>>

\* The device can be opened again when no packet keeps the file object alive.
OpenHandle ==
  /\ handle = "closed"
  /\ \A i \in Irps : life[i] = "free"
  /\ \A t \in Threads : pc[t] = "idle"
  /\ handle' = "open"
  /\ owed' = {}
  /\ UNCHANGED <<life, flink, blink, pc, irp, entry, next>>

\* What a thread inside the driver does next.
Step(t) ==
  \/ InsertReads(t)
  \/ InsertBack(t)
  \/ InsertForth(t)
  \/ MarkPending(t)
  \/ ListNotEmpty(t)
  \/ RemoveReads(t)
  \/ RemoveForth(t)
  \/ RemoveBack(t)
  \/ CleanUpCompletes(t)
  \/ CleanUpEnds(t)

Next ==
  \/ \E t \in Threads : Step(t) \/ CloseHandle(t)
  \/ \E t \in Threads, i \in Irps : HelloDDKRead(t, i)
  \/ \E i \in Irps : FreeIrp(i)
  \/ OpenHandle

Spec == Init /\ [][Next]_vars

\* The kernel schedules every thread inside the driver and frees completed
\* packets; nobody has to read, to open or to close.
FairSpec ==
  /\ Spec
  /\ \A t \in Threads : WF_vars(Step(t))
  /\ \A i \in Irps : WF_vars(FreeIrp(i))

-----------------------------------------------------------------------------
(***************************************************************************)
(* Properties.                                                             *)
(***************************************************************************)

Pending == {i \in Irps : life[i] = "live"}

\* The k-th node of the list, counted from the head.
Nth[k \in 0 .. Cardinality(Irps)] ==
  IF k = 0 THEN Head ELSE Follow(Nth[k - 1])

\* While nobody is inside the driver, the list is well formed in both
\* directions and its entries are those of the uncompleted packets: no entry
\* is lost and none is left behind.
ListHoldsPending ==
  (\A t \in Threads : pc[t] = "idle") =>
    /\ {Nth[k] : k \in 0 .. Cardinality(Pending)} = Pending \cup {Head}
    /\ \A n \in Pending \cup {Head} :
         flink[n] \in Nodes /\ blink[flink[n]] = n

\* HelloDDKCleanUp completes every packet that HelloDDKRead had put in the
\* queue ("take the IRPs in the queue out one by one, and process them",
\* line 206).
CleanUpProcessesQueue ==
  handle = "closed" => \A i \in owed : life[i] # "live"

Contract == INSTANCE IrpContract WITH served <- {}

\* The driver implements the contract of a queueing driver that serves nothing:
\* every packet is completed at most once per issue.
KeepsContract == Contract!Spec

\* After the handle is closed every packet is completed and freed, so that the
\* device can be opened again.
CloseReleasesDevice == handle = "closing" ~> \A i \in Irps : life[i] = "free"

-----------------------------------------------------------------------------
(***************************************************************************)
(* The inductive invariant of the safety properties when one call follows  *)
(* the other (Concurrent FALSE).  In the middle of a macro the links are   *)
(* those of a list but for one pointer; the shape says which, store by     *)
(* store.                                                                  *)
(***************************************************************************)

\* The links f and b are a list of the packets S, s being its nodes in order.
Links(f, b, S, s) ==
  LET n == Cardinality(S) IN
    /\ s[0] = Head
    /\ \A k \in 1 .. n : s[k] \in S
    /\ \A i \in S : \E k \in 1 .. n : s[k] = i
    /\ \A j, k \in 0 .. n : s[j] = s[k] => j = k
    /\ \A k \in 1 .. n : f[s[k - 1]] = s[k] /\ b[s[k]] = s[k - 1]
    /\ f[s[n]] = Head /\ b[Head] = s[n]

ListOf(f, b, S) == \E s \in [0 .. Cardinality(S) -> S \cup {Head}] : Links(f, b, S, s)

\* What has become of the list when thread t is at a label.
Shape(t) ==
  CASE pc[t] \in {"mark", "test"} -> ListOf(flink, blink, Pending)
    [] pc[t] = "remove" -> ListOf(flink, blink, Pending) /\ flink[Head] # Head
    [] pc[t] = "insert" -> ListOf(flink, blink, Pending \ {irp[t]})
    [] pc[t] = "back" ->
         /\ ListOf(flink, blink, Pending \ {irp[t]})
         /\ next[t] = flink[Head] /\ flink[irp[t]] = next[t] /\ blink[irp[t]] = Head
    [] pc[t] = "forth" ->
         /\ ListOf(flink, [blink EXCEPT ![next[t]] = Head], Pending \ {irp[t]})
         /\ next[t] = flink[Head] /\ flink[irp[t]] = next[t] /\ blink[irp[t]] = Head
         /\ blink[next[t]] = irp[t]
    [] pc[t] = "unlink" ->
         /\ ListOf(flink, blink, Pending)
         /\ entry[t] = flink[Head] /\ next[t] = flink[entry[t]]
    [] pc[t] = "relink" ->
         /\ ListOf([flink EXCEPT ![Head] = entry[t]], blink, Pending)
         /\ next[t] = flink[entry[t]] /\ flink[Head] = next[t]
    [] pc[t] = "complete" -> ListOf(flink, blink, Pending \ {entry[t]})
    [] OTHER -> TRUE

\* Where a thread can be, and the packet it holds there.
ThreadInv(t) ==
  /\ IF pc[t] \in {"insert", "back", "forth", "mark"}
       THEN irp[t] \in Pending /\ handle = "open"
       ELSE irp[t] = None
  /\ pc[t] \in {"test", "remove", "unlink", "relink", "complete"} => handle = "closing"
  /\ IF pc[t] \in {"unlink", "relink", "complete"}
       THEN entry[t] \in Pending
       ELSE entry[t] = None
  /\ Shape(t)

SerialInv ==
  /\ TypeOK
  /\ \A i \in Irps : life[i] # "twice"
  /\ \A t, u \in Threads : pc[t] # "idle" /\ pc[u] # "idle" => t = u
  /\ (\A t \in Threads : pc[t] = "idle") =>
       ListOf(flink, blink, Pending) /\ handle # "closing"
  /\ \A t \in Threads : ThreadInv(t)
  /\ handle = "closed" => Pending = {}
=============================================================================
