------------------------------- MODULE KeyCap -------------------------------
(***************************************************************************)
(* LyyKeyCap: a filter driver above the keyboard class driver.             *)
(* c2pDispatchRead counts a read in gC2pKeyCount, sets the completion      *)
(* routine c2pReadComplete on it and passes it down; the read stays below  *)
(* until a key is pressed, and c2pReadComplete counts it out.  c2pUnload   *)
(* detaches the filter devices and then waits for the count to be zero,    *)
(* so that the driver's code is not freed before its completion routines   *)
(* have run.                                                               *)
(*                                                                         *)
(* The raw input thread reads all keyboards; completion routines run in    *)
(* deferred procedure calls, which interrupt it.  gC2pKeyCount++ and       *)
(* gC2pKeyCount-- are a load and a store: on one processor nothing comes   *)
(* between the two, on a multiprocessor anything may.                      *)
(***************************************************************************)
EXTENDS Integers, FiniteSets

CONSTANTS
  Keyboards,       \* the devices of the keyboard class driver
  None,            \* no keyboard
  CountValues,     \* how many values gC2pKeyCount has (2^32 in the code)
  Multiprocessor,  \* may two accesses to gC2pKeyCount overlap?
  EntryRaces       \* may c2pUnload detach a device that c2pDispatchRead is in?

ASSUME KeyCapAssumption ==
  /\ None \notin Keyboards
  /\ IsFiniteSet(Keyboards)
  /\ CountValues \in Nat /\ Cardinality(Keyboards) < CountValues
  /\ Multiprocessor \in BOOLEAN
  /\ EntryRaces \in BOOLEAN

VARIABLES
  count,     \* gC2pKeyCount
  attached,  \* the keyboards with a filter device on top
  read,      \* read[k]: where the read of keyboard k is
  thread,    \* where the raw input thread is
  keyboard,  \* the keyboard it is in c2pDispatchRead for
  register,  \* the value of the count an access has loaded, by accessing party
  unload     \* where c2pUnload is

vars == <<count, attached, read, thread, keyboard, register, unload>>

\* The raw input thread (None) and the completion routine of each keyboard
\* access the count.
Parties == Keyboards \cup {None}

Counts == 0 .. CountValues - 1

TypeOK ==
  /\ count \in Counts
  /\ attached \in SUBSET Keyboards
  /\ read \in [Keyboards ->
       {"none",      \* not issued
        "plain",     \* below, passed down without the filter
        "filtered",  \* below, with c2pReadComplete as its completion routine
        "load",      \* in c2pReadComplete, before gC2pKeyCount--
        "store",     \* in the middle of gC2pKeyCount--
        "tail"}]     \* in c2pReadComplete, after gC2pKeyCount--
  /\ thread \in
       {"out",       \* outside the driver
        "load",      \* in c2pDispatchRead, before gC2pKeyCount++
        "store",     \* in the middle of gC2pKeyCount++
        "call",      \* before IoCallDriver
        "tail"}      \* returning from c2pDispatchRead
  /\ keyboard \in Parties
  /\ register \in [Parties -> Counts]
  /\ unload \in {"loaded", "detach", "wait", "gone"}

\* c2pAttachDevice has put a filter device on every keyboard.
Init ==
  /\ count = 0
  /\ attached = Keyboards
  /\ read = [k \in Keyboards |-> "none"]
  /\ thread = "out"
  /\ keyboard = None
  /\ register = [p \in Parties |-> 0]
  /\ unload = "loaded"

-----------------------------------------------------------------------------
\* The parties in the middle of an access to the count.
Accessing ==
  {k \in Keyboards : read[k] = "store"}
    \cup (IF thread = "store" THEN {None} ELSE {})

\* May anything but the store of party p happen now?
Runs == Multiprocessor \/ Accessing = {}

\* On one processor a completion routine, once begun, runs to its end.
ThreadRuns ==
  /\ Runs
  /\ Multiprocessor \/ \A k \in Keyboards : read[k] \notin {"load", "tail"}

\* The raw input thread issues the next read of a keyboard: to the filter
\* device if there is one, else to the keyboard itself.
IssueRead(k) ==
  /\ ThreadRuns
  /\ thread = "out"
  /\ read[k] = "none"
  /\ \/ /\ k \in attached
        /\ thread' = "load"
        /\ keyboard' = k
        /\ UNCHANGED read
     \/ /\ k \notin attached
        /\ read' = [read EXCEPT ![k] = "plain"]
        /\ UNCHANGED <<thread, keyboard>>
  /\ UNCHANGED <<count, attached, register, unload>>

\* gC2pKeyCount++ loads the count.
LoadUp ==
  /\ ThreadRuns
  /\ thread = "load"
  /\ register' = [register EXCEPT ![None] = count]
  /\ thread' = "store"
  /\ UNCHANGED <<count, attached, read, keyboard, unload>>

\* Mutant of StoreUp: the read is not counted.
StoreUpForgotten ==
  /\ thread = "store"
  /\ thread' = "call"
  /\ UNCHANGED <<count, attached, read, keyboard, register, unload>>

\* gC2pKeyCount++ stores it.
StoreUp ==
  /\ thread = "store"
  /\ count' = (register[None] + 1) % CountValues
  /\ register' = [register EXCEPT ![None] = 0]
  /\ thread' = "call"
  /\ UNCHANGED <<attached, read, keyboard, unload>>

\* c2pDispatchRead sets the completion routine and passes the read down.
CallDriver ==
  /\ ThreadRuns
  /\ thread = "call"
  /\ read' = [read EXCEPT ![keyboard] = "filtered"]
  /\ thread' = "tail"
  /\ UNCHANGED <<count, attached, keyboard, register, unload>>

\* c2pDispatchRead returns.
DispatchReturns ==
  /\ ThreadRuns
  /\ thread = "tail"
  /\ thread' = "out"
  /\ keyboard' = None
  /\ UNCHANGED <<count, attached, read, register, unload>>

\* A key is pressed: the read below is completed, through c2pReadComplete if it
\* came from the filter.
PressKey(k) ==
  /\ ThreadRuns
  /\ \/ read[k] = "filtered" /\ read' = [read EXCEPT ![k] = "load"]
     \/ read[k] = "plain" /\ read' = [read EXCEPT ![k] = "none"]
  /\ UNCHANGED <<count, attached, thread, keyboard, register, unload>>

\* gC2pKeyCount-- loads the count.
LoadDown(k) ==
  /\ Runs
  /\ read[k] = "load"
  /\ register' = [register EXCEPT ![k] = count]
  /\ read' = [read EXCEPT ![k] = "store"]
  /\ UNCHANGED <<count, attached, thread, keyboard, unload>>

\* Mutant of StoreDown: the read is not counted out.
StoreDownForgotten(k) ==
  /\ read[k] = "store"
  /\ read' = [read EXCEPT ![k] = "tail"]
  /\ UNCHANGED <<count, attached, thread, keyboard, register, unload>>

\* gC2pKeyCount-- stores it.
StoreDown(k) ==
  /\ read[k] = "store"
  /\ count' = (register[k] - 1) % CountValues
  /\ register' = [register EXCEPT ![k] = 0]
  /\ read' = [read EXCEPT ![k] = "tail"]
  /\ UNCHANGED <<attached, thread, keyboard, unload>>

\* Mutant of CompleteReturns: the completion routine keeps the read
\* (STATUS_MORE_PROCESSING_REQUIRED).
CompleteReturnsKeeps(k) ==
  /\ Runs
  /\ read[k] = "tail"
  /\ UNCHANGED vars

\* c2pReadComplete returns, and the read is back with the raw input thread.
CompleteReturns(k) ==
  /\ Runs
  /\ read[k] = "tail"
  /\ read' = [read EXCEPT ![k] = "none"]
  /\ UNCHANGED <<count, attached, thread, keyboard, register, unload>>

\* The I/O manager calls c2pUnload.
BeginUnload ==
  /\ ThreadRuns
  /\ unload = "loaded"
  /\ unload' = "detach"
  /\ UNCHANGED <<count, attached, read, thread, keyboard, register>>

\* c2pDetach of one filter device.
Detach(k) ==
  /\ ThreadRuns
  /\ unload = "detach"
  /\ k \in attached
  /\ EntryRaces \/ keyboard # k
  /\ attached' = attached \ {k}
  /\ UNCHANGED <<count, read, thread, keyboard, register, unload>>

\* Every filter device is detached.
DetachEnds ==
  /\ ThreadRuns
  /\ unload = "detach"
  /\ attached = {}
  /\ unload' = "wait"
  /\ UNCHANGED <<count, attached, read, thread, keyboard, register>>

\* c2pUnload finds the count at zero and returns; the driver's code is freed.
UnloadEnds ==
  /\ ThreadRuns
  /\ unload = "wait"
  /\ count = 0
  /\ unload' = "gone"
  /\ UNCHANGED <<count, attached, read, thread, keyboard, register>>

\* What the raw input thread does next inside the driver.
DispatchRead == LoadUp \/ StoreUp \/ CallDriver \/ DispatchReturns

\* What c2pReadComplete does next.
ReadComplete(k) == LoadDown(k) \/ StoreDown(k) \/ CompleteReturns(k)

Unload ==
  \/ \E k \in Keyboards : Detach(k)
  \/ DetachEnds
  \/ UnloadEnds

Next ==
  \/ \E k \in Keyboards : IssueRead(k) \/ PressKey(k) \/ ReadComplete(k)
  \/ DispatchRead
  \/ BeginUnload
  \/ Unload

Spec == Init /\ [][Next]_vars

\* The kernel runs everybody who is inside the driver, and every key is
\* pressed now and then.
FairSpec ==
  /\ Spec
  /\ SF_vars(DispatchRead)
  /\ SF_vars(Unload)
  /\ \A k \in Keyboards : WF_vars(ReadComplete(k)) /\ SF_vars(PressKey(k))

-----------------------------------------------------------------------------
(***************************************************************************)
(* Properties.                                                             *)
(***************************************************************************)

\* The reads that c2pDispatchRead has counted and c2pReadComplete has not
\* counted out.
Outstanding ==
  {k \in Keyboards :
     \/ read[k] \in {"filtered", "load", "store"}
     \/ thread = "call" /\ keyboard = k}

\* "The global key counter is incremented by 1" (ttt.c:353) for each read: no
\* increment or decrement is lost to another one.
CountsReads == Accessing = {} => count = Cardinality(Outstanding)

\* The driver's code is not freed while a completion routine is due to run or
\* running, or the raw input thread is in c2pDispatchRead: what c2pUnload waits
\* for at lines 209-212.
CodeNotFreedInUse ==
  unload = "gone" =>
    /\ thread = "out"
    /\ \A k \in Keyboards : read[k] \in {"none", "plain"}

\* The count is right, and so may stand for the driver's code being in use.
CountGuardsUnload == CountsReads /\ CodeNotFreedInUse

-----------------------------------------------------------------------------
(***************************************************************************)
(* The inductive invariant of CountGuardsUnload, on one processor.         *)
(***************************************************************************)

\* One party at a time accesses the count, with its current value in hand.
AccessInv ==
  /\ \A k \in Keyboards : read[k] = "store" =>
       /\ register[k] = count /\ thread # "store"
       /\ \A l \in Keyboards : read[l] = "store" => l = k
  /\ thread = "store" => register[None] = count

\* The raw input thread in c2pDispatchRead has an attached keyboard whose read
\* is with it until it is passed down.
DispatchInv ==
  /\ thread = "out" => keyboard = None
  /\ thread # "out" => keyboard \in attached
  /\ thread \in {"load", "store", "call"} => read[keyboard] = "none"

DetachedInv == unload \in {"wait", "gone"} => attached = {}

IInv ==
  /\ TypeOK /\ AccessInv /\ DispatchInv /\ DetachedInv
  /\ count = Cardinality(Outstanding)
  /\ CodeNotFreedInUse

-----------------------------------------------------------------------------
\* Detached or not, no read is lost: once keys are pressed on its keyboard it
\* comes back to the raw input thread.
ReadsComeBack == \A k \in Keyboards : read[k] = "filtered" ~> read[k] = "none"

\* If keys are pressed, c2pUnload comes to its end.
UnloadReturns == unload = "detach" ~> unload = "gone"
=============================================================================
