------------------------------- MODULE WdmPnp -------------------------------
(***************************************************************************)
(* The plug-and-play skeleton of the WDM drivers, in its four copies:      *)
(* chap01 HelloWDMDriver.c and MyDriver1, chap04 HelloWDM and WDMDriver.   *)
(* AddDevice creates a device of a fixed name over a physical device and a *)
(* symbolic link to it; IRP_MN_REMOVE_DEVICE takes both away again; every  *)
(* other plug-and-play request is passed down.  The name lets one device   *)
(* exist at a time, whatever the number of physical devices.  An AddDevice *)
(* that cannot make the link leaves its device behind, attached, with the  *)
(* name and never ready, until the plug-and-play manager removes it.       *)
(***************************************************************************)
LOCAL INSTANCE Naturals

CONSTANTS
  Pdos,     \* the physical devices the bus may report
  NoPdo     \* none of them

ASSUME WdmAssumption == NoPdo \notin Pdos

VARIABLES
  wdmCopy,  \* which of the four sources is loaded
  pdo,      \* pdo[p]: what the plug-and-play manager knows of p
  fdo,      \* the physical device under \Device\MyWDMDevice
  ready,    \* is DO_DEVICE_INITIALIZING cleared?
  wdmLink,  \* does \DosDevices\HelloWDM exist?
  opened,   \* has an application opened the device?
  noMemory  \* history: had the kernel no memory for the link of this device?

wdmVars == <<wdmCopy, pdo, fdo, ready, wdmLink, opened, noMemory>>

WdmTypeOK ==
  /\ wdmCopy \in {"HelloWDMDriver", "MyDriver1", "HelloWDM", "WDMDriver"}
  /\ pdo \in [Pdos -> {"absent", "present", "failed", "added", "started"}]
  /\ fdo \in Pdos \cup {NoPdo}
  /\ ready \in BOOLEAN /\ wdmLink \in BOOLEAN /\ opened \in BOOLEAN
  /\ noMemory \in BOOLEAN

WdmInit ==
  /\ wdmCopy = "WDMDriver"
  /\ pdo = [p \in Pdos |-> "absent"]
  /\ fdo = NoPdo
  /\ ready = FALSE /\ wdmLink = FALSE /\ opened = FALSE
  /\ noMemory = FALSE

\* DriverEntry of the four copies: another one may be loaded while there is
\* neither a device nor a link.
LoadWdm(c) ==
  /\ fdo = NoPdo /\ ~wdmLink
  /\ wdmCopy' = c
  /\ UNCHANGED <<pdo, fdo, ready, wdmLink, opened, noMemory>>

EntryHelloWDMDriver == LoadWdm("HelloWDMDriver")
EntryMyDriver1 == LoadWdm("MyDriver1")
EntryHelloWDM == LoadWdm("HelloWDM")
EntryWDMDriver == LoadWdm("WDMDriver")

\* The bus reports p.
Plug(p) ==
  /\ pdo[p] = "absent"
  /\ pdo' = [pdo EXCEPT ![p] = "present"]
  /\ UNCHANGED <<wdmCopy, fdo, ready, wdmLink, opened, noMemory>>

\* IoCreateDevice fails: the name is taken, or there is no memory.
AddCollides(p) ==
  /\ pdo' = [pdo EXCEPT ![p] = "failed"]
  /\ UNCHANGED <<fdo, ready, wdmLink, noMemory>>

\* Mutant of LinkAgain: no second attempt.
LinkAgainNot(memory) == memory /\ ~wdmLink

\* IoCreateSymbolicLink succeeds at once, or after the old link is deleted,
\* unless there is no memory for a link.
LinkAgain(memory) == memory

\* The device is created, attached and linked to, and is ready; without a link
\* AddDevice fails and it stays, attached and never ready.
AddCreates(p) ==
  /\ fdo = NoPdo
  /\ fdo' = p
  /\ \E memory \in BOOLEAN :
       /\ noMemory' = ~memory
       /\ wdmLink' = LinkAgain(memory) /\ ready' = LinkAgain(memory)
       /\ pdo' = [pdo EXCEPT ![p] = IF LinkAgain(memory) THEN "added" ELSE "failed"]

AddDevice(p) ==
  /\ pdo[p] = "present"
  /\ AddCollides(p) \/ AddCreates(p)
  /\ UNCHANGED <<wdmCopy, opened>>

\* HelloWDMAddDevice of the four copies.
AddMyDriver1(p) == wdmCopy = "MyDriver1" /\ AddDevice(p)
AddHelloWDMDriver(p) == wdmCopy = "HelloWDMDriver" /\ AddDevice(p)
AddHelloWDM(p) == wdmCopy = "HelloWDM" /\ AddDevice(p)
AddWDMDriver(p) == wdmCopy = "WDMDriver" /\ AddDevice(p)

\* DefaultPnpHandler: IRP_MN_START_DEVICE is passed down, the bus starts p.
StartDevice(p) ==
  /\ pdo[p] = "added"
  /\ pdo' = [pdo EXCEPT ![p] = "started"]
  /\ UNCHANGED <<wdmCopy, fdo, ready, wdmLink, opened, noMemory>>

\* HelloWDMPnp of the four copies: the table sends every function but one to
\* DefaultPnpHandler; those after the start change nothing here.
PnpHelloWDMDriver(p) == wdmCopy = "HelloWDMDriver" /\ StartDevice(p)
PnpMyDriver1(p) == wdmCopy = "MyDriver1" /\ StartDevice(p)
PnpHelloWDM(p) == wdmCopy = "HelloWDM" /\ StartDevice(p)
PnpWDMDriver(p) == wdmCopy = "WDMDriver" /\ StartDevice(p)

\* IRP_MN_REMOVE_DEVICE comes when nobody has the device open, also to the device
\* that a failed AddDevice left attached: it is passed down, the link deleted
\* (unless the driver `forgets`), the device detached and deleted.
RemoveDevice(p, forgets) ==
  /\ pdo[p] \in {"added", "started"} \/ fdo = p
  /\ ~opened
  /\ pdo' = [pdo EXCEPT ![p] = "absent"]
  /\ wdmLink' \in IF forgets THEN {FALSE, wdmLink} ELSE {FALSE}
  /\ fdo' = NoPdo /\ ready' = FALSE /\ noMemory' = FALSE
  /\ UNCHANGED <<wdmCopy, opened>>

\* In HelloWDMDriver.c the extension points to the name of the link on the
\* stack of AddDevice, long gone: the link may be deleted or not.
RemoveHelloWDMDriver(p) == wdmCopy = "HelloWDMDriver" /\ RemoveDevice(p, TRUE)
RemoveMyDriver1(p) == wdmCopy = "MyDriver1" /\ RemoveDevice(p, FALSE)
RemoveHelloWDM(p) == wdmCopy = "HelloWDM" /\ RemoveDevice(p, FALSE)
RemoveWDMDriver(p) == wdmCopy = "WDMDriver" /\ RemoveDevice(p, FALSE)

\* A physical device without a function device goes away.
Unplug(p) ==
  /\ pdo[p] \in {"present", "failed"} /\ fdo # p
  /\ pdo' = [pdo EXCEPT ![p] = "absent"]
  /\ UNCHANGED <<wdmCopy, fdo, ready, wdmLink, opened, noMemory>>

\* An application opens and closes \\.\HelloWDM.
OpenWdm ==
  /\ wdmLink /\ fdo # NoPdo /\ ready /\ ~opened
  /\ opened' = TRUE
  /\ UNCHANGED <<wdmCopy, pdo, fdo, ready, wdmLink, noMemory>>

CloseWdm ==
  /\ opened
  /\ opened' = FALSE
  /\ UNCHANGED <<wdmCopy, pdo, fdo, ready, wdmLink, noMemory>>

\* HelloWDMDispatchRoutine of the four copies completes the request at once.
DispatchHelloWDMDriver == wdmCopy = "HelloWDMDriver" /\ (OpenWdm \/ CloseWdm)
DispatchMyDriver1 == wdmCopy = "MyDriver1" /\ (OpenWdm \/ CloseWdm)
DispatchHelloWDM == wdmCopy = "HelloWDM" /\ (OpenWdm \/ CloseWdm)
DispatchWDMDriver == wdmCopy = "WDMDriver" /\ (OpenWdm \/ CloseWdm)

WdmNext ==
  \/ EntryHelloWDMDriver \/ EntryMyDriver1 \/ EntryHelloWDM \/ EntryWDMDriver
  \/ \E p \in Pdos :
       \/ Plug(p) \/ Unplug(p)
       \/ AddHelloWDMDriver(p) \/ AddMyDriver1(p) \/ AddHelloWDM(p) \/ AddWDMDriver(p)
       \/ PnpHelloWDMDriver(p) \/ PnpMyDriver1(p) \/ PnpHelloWDM(p) \/ PnpWDMDriver(p)
       \/ RemoveHelloWDMDriver(p) \/ RemoveMyDriver1(p)
       \/ RemoveHelloWDM(p) \/ RemoveWDMDriver(p)
  \/ DispatchHelloWDMDriver \/ DispatchMyDriver1 \/ DispatchHelloWDM \/ DispatchWDMDriver

WdmSpec == WdmInit /\ [][WdmNext]_wdmVars

-----------------------------------------------------------------------------
(***************************************************************************)
(* Properties.                                                             *)
(***************************************************************************)

\* The device that holds the name is complete and one that the plug-and-play
\* manager has added, also when an earlier removal left its link behind.  Only
\* when the kernel had no memory for the link, twice, is it half-made
\* (WDMDriver Source.cpp:114-118 returns with the device attached): then it has
\* no link, is never ready, and blocks every other AddDevice until its removal.
WdmNameComesBack ==
  fdo # NoPdo =>
    IF noMemory
    THEN ~ready /\ ~wdmLink /\ pdo[fdo] = "failed"
    ELSE ready /\ wdmLink /\ pdo[fdo] \in {"added", "started"}

\* It is inductive.
WdmInv == WdmTypeOK /\ WdmNameComesBack
=============================================================================
