----------------------------- MODULE KbdFilter -----------------------------
(***************************************************************************)
(* The keyboard filter driver from its loading to its unloading, in its    *)
(* three copies: LyyKeyCap.c, ttt.c and PKeyCap.c.  DriverEntry attaches a *)
(* filter device to every keyboard of the class driver, which may go wrong *)
(* at any of them; the filter counts reads, passes everything else down,   *)
(* and goes away with a keyboard that is removed; c2pUnload detaches what  *)
(* is left and waits for the reads that are still counted.  KeyCap has the *)
(* two accesses to the count apart; here each is one step.                 *)
(*                                                                         *)
(* A DriverEntry that fails detaches nothing: the filters attached before  *)
(* the failure stay where they are, and from then on it is the kernel's    *)
(* choice when the image goes.  A request or a read that enters it then    *)
(* ends the system ("crash").                                              *)
(***************************************************************************)
EXTENDS Integers, FiniteSets

CONSTANTS
  Boards,     \* how many devices the class driver has: 1 .. Boards
  Intact      \* does NextDevice of a device just deleted still lead on?

ASSUME KbdAssumption == Boards \in Nat /\ Intact \in BOOLEAN

VARIABLES
  kbdCopy,    \* which source is loaded
  phase,      \* "out", "attach", "loaded", "refused" (DriverEntry has failed),
              \*   "detach", "wait", "gone", or "crash"
  turnKbd,    \* the keyboard that c2pAttachDevice or c2pUnload is at
  board,      \* board[k]: "plain", "filtered" by a filter device, or "removed"
  classStack, \* StackSize of the devices of the class driver
  readKbd,    \* readKbd[k]: "none", "plain" or "filtered" (c2pReadComplete set)
  keyCount    \* gC2pKeyCount

kbdVars == <<kbdCopy, phase, turnKbd, board, classStack, readKbd, keyCount>>
Kbds == 1 .. Boards

KbdTypeOK ==
  /\ kbdCopy \in {"LyyKeyCap", "ttt", "PKeyCap"}
  /\ phase \in {"out", "attach", "loaded", "refused", "detach", "wait", "gone", "crash"}
  /\ turnKbd \in 1 .. Boards + 1
  /\ board \in [Kbds -> {"plain", "filtered", "removed"}]
  /\ readKbd \in [Kbds -> {"none", "plain", "filtered"}]
  /\ classStack \in {1, 2} /\ keyCount \in 0 .. Boards

KbdInit ==
  /\ kbdCopy = "ttt" /\ phase = "out" /\ turnKbd = 1
  /\ board = [k \in Kbds |-> "plain"]
  /\ classStack = 1
  /\ readKbd = [k \in Kbds |-> "none"]
  /\ keyCount = 0

-----------------------------------------------------------------------------
\* DriverEntry sets the dispatch table and calls c2pAttachDevice.
EntryKbd(c) ==
  /\ phase = "out"
  /\ phase' = "attach" /\ kbdCopy' = c
  /\ classStack' \in {1, 2}
  /\ UNCHANGED <<turnKbd, board, readKbd, keyCount>>

\* One round of the loop of c2pAttachDevice: the filter is attached; or
\* IoCreateDevice fails and so does DriverEntry, with the filters of the
\* keyboards before this one left attached; or the attachment fails, and
\* c2pAttachDevice returns the status of IoCreateDevice, which is success.
AttachKbd ==
  /\ phase = "attach" /\ turnKbd <= Boards
  /\ \/ /\ board' = [board EXCEPT ![turnKbd] = IF @ = "plain" THEN "filtered" ELSE @]
        /\ turnKbd' = turnKbd + 1
        /\ UNCHANGED phase
     \/ phase' = "refused" /\ UNCHANGED <<board, turnKbd>>
     \/ phase' = "loaded" /\ turnKbd' = Boards + 1 /\ UNCHANGED board
  /\ UNCHANGED <<kbdCopy, classStack, readKbd, keyCount>>

AttachedKbds ==
  /\ phase = "attach" /\ turnKbd = Boards + 1
  /\ phase' = "loaded"
  /\ UNCHANGED <<kbdCopy, turnKbd, board, classStack, readKbd, keyCount>>

\* The filter's own StackSize: of the three copies only ttt.c adds the location
\* that the filter uses.
StackLyyKeyCap == classStack
StackTtt == classStack + 1
StackPKeyCap == classStack
StackSize ==
  CASE kbdCopy = "LyyKeyCap" -> StackLyyKeyCap
    [] kbdCopy = "ttt" -> StackTtt
    [] kbdCopy = "PKeyCap" -> StackPKeyCap

\* c2pDispatchRead refuses a read that has no stack location left, else counts
\* it, sets c2pReadComplete and passes it down.
DispatchReadKbd(k) ==
  /\ board[k] = "filtered" /\ readKbd[k] = "none" /\ phase # "crash"
  /\ StackSize > 1
  /\ readKbd' = [readKbd EXCEPT ![k] = "filtered"]
  /\ keyCount' = keyCount + 1
  /\ UNCHANGED <<kbdCopy, phase, turnKbd, board, classStack>>

\* A read of a keyboard without a filter.
ReadPlain(k) ==
  /\ board[k] = "plain" /\ readKbd[k] = "none" /\ phase # "crash"
  /\ readKbd' = [readKbd EXCEPT ![k] = "plain"]
  /\ UNCHANGED <<kbdCopy, phase, turnKbd, board, classStack, keyCount>>

KeyPlain(k) ==
  /\ readKbd[k] = "plain" /\ phase # "crash"
  /\ readKbd' = [readKbd EXCEPT ![k] = "none"]
  /\ UNCHANGED <<kbdCopy, phase, turnKbd, board, classStack, keyCount>>

\* Mutant of ReadCompleteKbd: a read that fails is not counted out.
ReadCompleteKbdSuccess(k) ==
  /\ readKbd[k] = "filtered" /\ phase # "crash"
  /\ readKbd' = [readKbd EXCEPT ![k] = "none"]
  /\ keyCount' = IF board[k] = "removed" THEN keyCount ELSE keyCount - 1
  /\ UNCHANGED <<kbdCopy, phase, turnKbd, board, classStack>>

\* c2pReadComplete counts the read out, whether or not it succeeded.
ReadCompleteKbd(k) ==
  /\ readKbd[k] = "filtered" /\ phase # "crash"
  /\ readKbd' = [readKbd EXCEPT ![k] = "none"]
  /\ keyCount' = keyCount - 1
  /\ UNCHANGED <<kbdCopy, phase, turnKbd, board, classStack>>

\* c2pPnP passes IRP_MN_REMOVE_DEVICE down (the class driver fails the reads of
\* the keyboard, later), detaches the filter and deletes it.
RemoveKbd(k) ==
  /\ board[k] = "filtered" /\ phase \in {"loaded", "refused"}
  /\ board' = [board EXCEPT ![k] = "removed"]
  /\ UNCHANGED <<kbdCopy, phase, turnKbd, classStack, readKbd, keyCount>>

\* c2pDispatchGeneral and c2pPower, and c2pPnP for any other request, pass it
\* to the class driver and keep nothing of it.
PassKbd(k) ==
  /\ board[k] = "filtered" /\ phase # "crash"
  /\ UNCHANGED kbdVars

\* A filter of a driver that failed to load or is unloaded is sent a request, or
\* a read comes back to its c2pReadComplete, when the image is gone.
LateCall(k) ==
  /\ phase \in {"refused", "gone"}
  /\ board[k] = "filtered" \/ readKbd[k] = "filtered"
  /\ phase' = "crash"
  /\ UNCHANGED <<kbdCopy, turnKbd, board, classStack, readKbd, keyCount>>

-----------------------------------------------------------------------------
\* c2pUnload walks the devices of the driver; c2pDetach detaches and deletes
\* one, whose NextDevice is then read.
BeginUnloadKbd ==
  /\ phase = "loaded"
  /\ phase' = "detach" /\ turnKbd' = 1
  /\ UNCHANGED <<kbdCopy, board, classStack, readKbd, keyCount>>

DetachKbd ==
  /\ phase = "detach" /\ turnKbd <= Boards
  /\ board' = [board EXCEPT ![turnKbd] = IF @ = "filtered" THEN "plain" ELSE @]
  /\ turnKbd' \in IF Intact \/ board[turnKbd] # "filtered"
                  THEN {turnKbd + 1} ELSE {turnKbd + 1, Boards + 1}
  /\ UNCHANGED <<kbdCopy, phase, classStack, readKbd, keyCount>>

AllDetachedKbd ==
  /\ phase = "detach" /\ turnKbd = Boards + 1
  /\ phase' = "wait"
  /\ UNCHANGED <<kbdCopy, turnKbd, board, classStack, readKbd, keyCount>>

\* Mutant of UnloadedKbd: the reads are not waited for.
UnloadedKbdAtOnce ==
  /\ phase = "wait"
  /\ phase' = "gone"
  /\ UNCHANGED <<kbdCopy, turnKbd, board, classStack, readKbd, keyCount>>

UnloadedKbd ==
  /\ phase = "wait" /\ keyCount = 0
  /\ phase' = "gone"
  /\ UNCHANGED <<kbdCopy, turnKbd, board, classStack, readKbd, keyCount>>

-----------------------------------------------------------------------------
\* The functions of the three copies.
EntryLyyKeyCap == EntryKbd("LyyKeyCap")
EntryTtt == EntryKbd("ttt")
EntryPKeyCap == EntryKbd("PKeyCap")

AttachLyyKeyCap == kbdCopy = "LyyKeyCap" /\ (AttachKbd \/ AttachedKbds)
AttachTtt == kbdCopy = "ttt" /\ (AttachKbd \/ AttachedKbds)
AttachPKeyCap == kbdCopy = "PKeyCap" /\ (AttachKbd \/ AttachedKbds)

ReadLyyKeyCap(k) == kbdCopy = "LyyKeyCap" /\ DispatchReadKbd(k)
ReadTtt(k) == kbdCopy = "ttt" /\ DispatchReadKbd(k)
ReadPKeyCap(k) == kbdCopy = "PKeyCap" /\ DispatchReadKbd(k)

CompleteLyyKeyCap(k) == kbdCopy = "LyyKeyCap" /\ ReadCompleteKbd(k)
CompleteTtt(k) == kbdCopy = "ttt" /\ ReadCompleteKbd(k)
CompletePKeyCap(k) == kbdCopy = "PKeyCap" /\ ReadCompleteKbd(k)

PassLyyKeyCap(k) == kbdCopy = "LyyKeyCap" /\ PassKbd(k)
PassTtt(k) == kbdCopy = "ttt" /\ PassKbd(k)
PassPKeyCap(k) == kbdCopy = "PKeyCap" /\ PassKbd(k)

PnpLyyKeyCap(k) == kbdCopy = "LyyKeyCap" /\ RemoveKbd(k)
PnpTtt(k) == kbdCopy = "ttt" /\ RemoveKbd(k)
PnpPKeyCap(k) == kbdCopy = "PKeyCap" /\ RemoveKbd(k)

UnloadLyyKeyCap == kbdCopy = "LyyKeyCap" /\ (BeginUnloadKbd \/ AllDetachedKbd \/ UnloadedKbd)
UnloadTtt == kbdCopy = "ttt" /\ (BeginUnloadKbd \/ AllDetachedKbd \/ UnloadedKbd)
UnloadPKeyCap == kbdCopy = "PKeyCap" /\ (BeginUnloadKbd \/ AllDetachedKbd \/ UnloadedKbd)

DetachLyyKeyCap == kbdCopy = "LyyKeyCap" /\ DetachKbd
DetachTtt == kbdCopy = "ttt" /\ DetachKbd
DetachPKeyCap == kbdCopy = "PKeyCap" /\ DetachKbd

KbdNext ==
  \/ EntryLyyKeyCap \/ EntryTtt \/ EntryPKeyCap
  \/ AttachLyyKeyCap \/ AttachTtt \/ AttachPKeyCap
  \/ \E k \in Kbds :
       \/ ReadLyyKeyCap(k) \/ ReadTtt(k) \/ ReadPKeyCap(k)
       \/ CompleteLyyKeyCap(k) \/ CompleteTtt(k) \/ CompletePKeyCap(k)
       \/ PassLyyKeyCap(k) \/ PassTtt(k) \/ PassPKeyCap(k)
       \/ PnpLyyKeyCap(k) \/ PnpTtt(k) \/ PnpPKeyCap(k)
       \/ ReadPlain(k) \/ KeyPlain(k) \/ LateCall(k)
  \/ UnloadLyyKeyCap \/ UnloadTtt \/ UnloadPKeyCap
  \/ DetachLyyKeyCap \/ DetachTtt \/ DetachPKeyCap

KbdSpec == KbdInit /\ [][KbdNext]_kbdVars

-----------------------------------------------------------------------------
(***************************************************************************)
(* Properties.                                                             *)
(***************************************************************************)

\* The count is the number of reads that will come back through
\* c2pReadComplete, also after keyboards were removed or only some attached.
KbdCounts == keyCount = Cardinality({k \in Kbds : readKbd[k] = "filtered"})

\* When c2pUnload has returned, no filter is on a keyboard and no read will
\* come back to the driver, whatever was removed or not attached before.  The
\* one way into code that is gone is through IoCreateDevice failing for a
\* keyboard after the first (LyyKeyCap.c:111-115, ttt.c:125-129 and
\* PKeyCap.c:80-84 return with the filters before it attached).
KbdUnloadSafe ==
  /\ phase = "gone" => \A k \in Kbds : board[k] # "filtered" /\ readKbd[k] # "filtered"
  /\ phase = "crash" => turnKbd \in 2 .. Boards

KbdOutlivesReads == KbdCounts /\ KbdUnloadSafe

-----------------------------------------------------------------------------
\* The inductive invariant, when Intact is TRUE: c2pUnload leaves no filter
\* behind it, and c2pAttachDevice has none on the keyboards it has not reached.
DetachInv ==
  /\ phase \in {"attach", "refused"} =>
       \A k \in Kbds : k >= turnKbd => board[k] # "filtered" /\ readKbd[k] # "filtered"
  /\ phase = "out" => /\ turnKbd = 1
                      /\ \A k \in Kbds : board[k] # "filtered" /\ readKbd[k] # "filtered"
  /\ phase = "refused" => turnKbd <= Boards
  /\ phase = "detach" => \A k \in Kbds : k < turnKbd => board[k] # "filtered"
  /\ phase \in {"wait", "gone"} => \A k \in Kbds : board[k] # "filtered"

KbdInv == KbdTypeOK /\ DetachInv /\ KbdOutlivesReads
=============================================================================
