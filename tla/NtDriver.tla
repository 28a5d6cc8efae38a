------------------------------ MODULE NtDriver ------------------------------
(***************************************************************************)
(* What the NT-style drivers of the book have in common: DriverEntry makes *)
(* a device and a symbolic link with fixed names, the dispatch routines    *)
(* serve the one application that has the device open, HelloDDKUnload      *)
(* takes the link and the device away.  Eleven of the drivers want the     *)
(* same device name, so what one of them leaves behind stops the others.   *)
(***************************************************************************)
LOCAL INSTANCE Naturals

CONSTANT NtScarce    \* may IoCreateDevice and IoCreateSymbolicLink run out of memory?

ASSUME NtAssumption == NtScarce \in BOOLEAN

VARIABLES
  loaded,    \* the drivers whose DriverEntry succeeded
  ntDevice,  \* ntDevice[n]: the driver whose device has the name n, or "none"
  ntLink,    \* ntLink[l]: the device that \??\l leads to, or "none"
  app        \* the application: the device it has open and its request

ntVars == <<loaded, ntDevice, ntLink, app>>

NtNames == {"MyDDKDevice", "MyDDKDeviceA", "MyDDKDevicB", "MyDDKDevice11111", "MyDDKDevice22222"}
NtLinks == {"HelloDDK", "MyDDKHello", "HEEEEEE", "HelloDDKA", "HelloDDKB", "HelloDDK11111",
            "HelloDDK22222"}
NotOpen == [dev |-> "none", request |-> "none"]

Leftovers == {"left by StartIoTest", "left by DriverStructrue"}

NtTypeOK ==
  /\ \A n \in NtNames : ntDevice[n] \in loaded \cup {"none"} \cup Leftovers
  /\ ntLink \in [NtLinks -> NtNames \cup {"none"}]
  /\ app \in [dev : NtNames \cup {"none"}, request : {"none", "create", "read", "close"}]

NtInit ==
  /\ loaded = {}
  /\ ntDevice = [n \in NtNames |-> "none"]
  /\ ntLink = [l \in NtLinks |-> "none"]
  /\ app = NotOpen

-----------------------------------------------------------------------------
\* CreateDevice of a driver: IoCreateDevice and IoCreateSymbolicLink both
\* succeed, or the first is refused, or the second.
Creates(n, l) == ntDevice[n] = "none" /\ ntLink[l] = "none"
DeviceRefused(n) == ntDevice[n] # "none" \/ NtScarce
LinkRefused(n, l) == ntDevice[n] = "none" /\ (ntLink[l] # "none" \/ NtScarce)

\* Mutant of AfterRefusal: the device is not deleted.
AfterRefusalKept(d, n) == [ntDevice EXCEPT ![n] = d]

\* The devices after a refused link: IoDeleteDevice takes the new one away.
AfterRefusal(d, n) == ntDevice

\* DriverEntry: a driver that made its device and link stays loaded.
NtLoad(d, n, l, refused) ==
  /\ d \notin loaded
  /\ \/ /\ Creates(n, l)
        /\ ntDevice' = [ntDevice EXCEPT ![n] = d]
        /\ ntLink' = [ntLink EXCEPT ![l] = n]
        /\ loaded' = loaded \cup {d}
     \/ DeviceRefused(n) /\ UNCHANGED <<loaded, ntDevice, ntLink>>
     \/ LinkRefused(n, l) /\ ntDevice' = refused /\ UNCHANGED <<loaded, ntLink>>
  /\ UNCHANGED app

LoadClean(d, n, l) == NtLoad(d, n, l, AfterRefusal(d, n))

LoadNtDriver == LoadClean("NT_Driver", "MyDDKDevice", "MyDDKHello")
LoadLinkList == LoadClean("LinkList", "MyDDKDevice", "HEEEEEE")
LoadLookaside == LoadClean("Lookaside", "MyDDKDevice", "HelloDDK")
LoadRtlTest == LoadClean("RtlTest", "MyDDKDevice", "HelloDDK")
LoadBufferRead == LoadClean("buffer_read", "MyDDKDevice", "HelloDDK")
LoadCancelIRPTest == LoadClean("CancelIRPTest", "MyDDKDevice", "HelloDDK")
LoadPendingIRPTest == LoadClean("PendingIRPTest", "MyDDKDevice", "HelloDDK")
LoadSpecialStartIo == LoadClean("SpecialStartIo", "MyDDKDevice", "HelloDDK")
LoadDPCTimer == LoadClean("DPCTimer", "MyDDKDevice", "HelloDDK")
LoadIoTimerTest == LoadClean("IoTimerTest", "MyDDKDevice", "HelloDDK")
LoadDriverA == LoadClean("DriverA", "MyDDKDeviceA", "HelloDDKA")
LoadTest1 == LoadClean("Test1", "MyDDKDevicB", "HelloDDKB")
LoadTest2 == LoadClean("Test2", "MyDDKDevicB", "HelloDDKB")
LoadTest5 == LoadClean("Test5", "MyDDKDevicB", "HelloDDKB")

\* StartIoTest calls IoDetachDevice where the others delete the device: it
\* stays (or IoDetachDevice faults, nothing being attached, and all is over).
LoadStartIoTest ==
  NtLoad("StartIoTest", "MyDDKDevice", "HelloDDK",
         [ntDevice EXCEPT !["MyDDKDevice"] = "left by StartIoTest"])

\* DriverStructrue makes two devices, each with what may go wrong with it; the
\* status of the first is overwritten by that of the second.
LoadDriverStructrue ==
  /\ "DriverStructrue" \notin loaded
  /\ \E made \in SUBSET {<<"MyDDKDevice11111", "HelloDDK11111">>,
                         <<"MyDDKDevice22222", "HelloDDK22222">>} :
       /\ ~NtScarce => made = {m \in {<<"MyDDKDevice11111", "HelloDDK11111">>,
                         <<"MyDDKDevice22222", "HelloDDK22222">>} : Creates(m[1], m[2])}
       /\ \A m \in made : Creates(m[1], m[2])
       /\ ntLink' = [l \in NtLinks |-> IF \E m \in made : m[2] = l
                                     THEN (CHOOSE m \in made : m[2] = l)[1] ELSE ntLink[l]]
       /\ loaded' = IF \E m \in made : m[1] = "MyDDKDevice22222"
                    THEN loaded \cup {"DriverStructrue"} ELSE loaded
       /\ ntDevice' = [n \in NtNames |-> IF \A m \in made : m[1] # n THEN ntDevice[n]
                       ELSE IF "DriverStructrue" \in loaded' THEN "DriverStructrue"
                       ELSE "left by DriverStructrue"]
  /\ UNCHANGED app

-----------------------------------------------------------------------------
\* HelloDDKUnload walks the devices of the driver and deletes the link of each
\* and the device; it is called when no application has one of them open.
NtUnload(d, deletesLink) ==
  LET mine == {n \in NtNames : ntDevice[n] = d} IN
  /\ d \in loaded /\ app.dev \notin mine
  /\ ntDevice' = [n \in NtNames |-> IF n \in mine THEN "none" ELSE ntDevice[n]]
  /\ ntLink' = [l \in NtLinks |-> IF ntLink[l] \in mine /\ deletesLink THEN "none" ELSE ntLink[l]]
  /\ loaded' = loaded \ {d}
  /\ UNCHANGED app

\* NT_Driver has the call of IoDeleteSymbolicLink commented out.
UnloadNtDriver == NtUnload("NT_Driver", FALSE)
UnloadLinkList == NtUnload("LinkList", TRUE)
UnloadLookaside == NtUnload("Lookaside", TRUE)
UnloadRtlTest == NtUnload("RtlTest", TRUE)
UnloadBufferRead == NtUnload("buffer_read", TRUE)
UnloadCancelIRPTest == NtUnload("CancelIRPTest", TRUE)
UnloadPendingIRPTest == NtUnload("PendingIRPTest", TRUE)
UnloadSpecialStartIo == NtUnload("SpecialStartIo", TRUE)
UnloadStartIoTest == NtUnload("StartIoTest", TRUE)
UnloadDPCTimer == NtUnload("DPCTimer", TRUE)
UnloadIoTimerTest == NtUnload("IoTimerTest", TRUE)
UnloadDriverA == NtUnload("DriverA", TRUE)
UnloadTest1 == NtUnload("Test1", TRUE)
UnloadTest2 == NtUnload("Test2", TRUE)
UnloadTest5 == NtUnload("Test5", TRUE)
UnloadDriverStructrue == NtUnload("DriverStructrue", TRUE)

-----------------------------------------------------------------------------
\* The application opens a device by its link; the device is exclusive.
OpenApp(l) ==
  /\ app = NotOpen
  /\ ntLink[l] # "none" /\ ntDevice[ntLink[l]] # "none"
  /\ app' = [dev |-> ntLink[l], request |-> "create"]
  /\ UNCHANGED <<loaded, ntDevice, ntLink>>

AskApp(r) ==
  /\ app # NotOpen /\ app.request = "none"
  /\ app' = [app EXCEPT !.request = r]
  /\ UNCHANGED <<loaded, ntDevice, ntLink>>

\* A dispatch routine of driver d completes the request with success at once;
\* after a close the application has nothing open.
NtDispatch(d, serves) ==
  /\ app.request \in serves /\ ntDevice[app.dev] = d
  /\ app' = IF app.request = "close" THEN NotOpen ELSE [app EXCEPT !.request = "none"]
  /\ UNCHANGED <<loaded, ntDevice, ntLink>>

NtRequests == {"create", "read", "close"}
DispatchNtDriver == NtDispatch("NT_Driver", NtRequests)
DispatchLinkList == NtDispatch("LinkList", NtRequests)
DispatchLookaside == NtDispatch("Lookaside", NtRequests)
DispatchRtlTest == NtDispatch("RtlTest", NtRequests)
DispatchBufferRead == NtDispatch("buffer_read", NtRequests)
DispatchDriverStructrue == NtDispatch("DriverStructrue", NtRequests)

\* Reads of these drivers are pended; the modules on them say how they end.
DispatchCancelIRPTest == NtDispatch("CancelIRPTest", NtRequests)
DispatchPendingIRPTest == NtDispatch("PendingIRPTest", NtRequests)
DispatchSpecialStartIo == NtDispatch("SpecialStartIo", NtRequests)
DispatchStartIoTest == NtDispatch("StartIoTest", NtRequests)
DispatchDPCTimer == NtDispatch("DPCTimer", NtRequests)
DispatchIoTimerTest == NtDispatch("IoTimerTest", NtRequests)

\* In chap11 opening and closing have routines of their own.
DispatchDriverA == NtDispatch("DriverA", {"read"})
CreateDriverA == NtDispatch("DriverA", {"create"})
CloseDriverA == NtDispatch("DriverA", {"close"})
DispatchTest1 == NtDispatch("Test1", {"read"})
CreateTest1 == NtDispatch("Test1", {"create"})
CloseTest1 == NtDispatch("Test1", {"close"})
DispatchTest2 == NtDispatch("Test2", {"read"})
CreateTest2 == NtDispatch("Test2", {"create"})
CloseTest2 == NtDispatch("Test2", {"close"})
DispatchTest5 == NtDispatch("Test5", {"read"})
CreateTest5 == NtDispatch("Test5", {"create"})
CloseTest5 == NtDispatch("Test5", {"close"})

-----------------------------------------------------------------------------
NtNext ==
  \/ LoadNtDriver \/ LoadLinkList \/ LoadLookaside \/ LoadRtlTest \/ LoadBufferRead
  \/ LoadCancelIRPTest \/ LoadPendingIRPTest \/ LoadSpecialStartIo \/ LoadStartIoTest
  \/ LoadDPCTimer \/ LoadIoTimerTest \/ LoadDriverStructrue
  \/ LoadDriverA \/ LoadTest1 \/ LoadTest2 \/ LoadTest5
  \/ UnloadNtDriver \/ UnloadLinkList \/ UnloadLookaside \/ UnloadRtlTest \/ UnloadBufferRead
  \/ UnloadCancelIRPTest \/ UnloadPendingIRPTest \/ UnloadSpecialStartIo \/ UnloadStartIoTest
  \/ UnloadDPCTimer \/ UnloadIoTimerTest \/ UnloadDriverStructrue
  \/ UnloadDriverA \/ UnloadTest1 \/ UnloadTest2 \/ UnloadTest5
  \/ \E l \in NtLinks : OpenApp(l)
  \/ AskApp("read") \/ AskApp("close")
  \/ DispatchNtDriver \/ DispatchLinkList \/ DispatchLookaside \/ DispatchRtlTest
  \/ DispatchBufferRead \/ DispatchDriverStructrue \/ DispatchCancelIRPTest
  \/ DispatchPendingIRPTest \/ DispatchSpecialStartIo \/ DispatchStartIoTest
  \/ DispatchDPCTimer \/ DispatchIoTimerTest
  \/ DispatchDriverA \/ CreateDriverA \/ CloseDriverA
  \/ DispatchTest1 \/ CreateTest1 \/ CloseTest1
  \/ DispatchTest2 \/ CreateTest2 \/ CloseTest2
  \/ DispatchTest5 \/ CreateTest5 \/ CloseTest5

NtSpec == NtInit /\ [][NtNext]_ntVars

-----------------------------------------------------------------------------
(***************************************************************************)
(* Properties.                                                             *)
(***************************************************************************)

\* A failed DriverEntry leaves no device behind, so that the next driver can
\* have the name: but for StartIoTest, and DriverStructrue whose first device
\* stays when only the second one fails.
NtNoLeftover == \A n \in NtNames : ntDevice[n] \in loaded \cup {"none"} \cup Leftovers

\* A link leads to the device of a driver that is there, but for the link that
\* NT_Driver does not delete; and a loaded driver can be opened by name.
NtLinksLead ==
  /\ \A l \in NtLinks \ {"MyDDKHello"} : ntLink[l] # "none" => ntDevice[ntLink[l]] # "none"
  /\ \A n \in NtNames : ntDevice[n] \in loaded => \E l \in NtLinks : ntLink[l] = n

\* An open device is served by a driver that is loaded, or is one of those left
\* behind (to which the link that NT_Driver keeps may lead).
NtServedWhileOpen == app # NotOpen => ntDevice[app.dev] \in loaded \cup Leftovers

NtNamesFollowDrivers == NtNoLeftover /\ NtLinksLead /\ NtServedWhileOpen

-----------------------------------------------------------------------------
(***************************************************************************)
(* What makes the property hold.                                           *)
(***************************************************************************)

\* Only the link of NT_Driver leads to a device of NT_Driver, so that no other
\* link is left by its unload routine.
LinksOwned ==
  \A l \in NtLinks \ {"MyDDKHello"} : ntLink[l] # "none" =>
    ntDevice[ntLink[l]] \in (loaded \ {"NT_Driver"}) \cup Leftovers

NtInv ==
  /\ loaded \cap (Leftovers \cup {"none"}) = {}
  /\ ntDevice \in [NtNames -> loaded \cup {"none"} \cup Leftovers]
  /\ ntLink \in [NtLinks -> NtNames \cup {"none"}]
  /\ app = NotOpen \/ (app.dev \in NtNames /\ ntDevice[app.dev] # "none")
  /\ app \in [dev : NtNames \cup {"none"}, request : {"none", "create", "read", "close"}]
  /\ LinksOwned
  /\ \A n \in NtNames : ntDevice[n] \in loaded => \E l \in NtLinks : ntLink[l] = n
=============================================================================
