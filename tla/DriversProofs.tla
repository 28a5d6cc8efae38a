---------------------------- MODULE DriversProofs ----------------------------
(***************************************************************************)
(* Proofs about the drivers that are modelled from loading to unloading:   *)
(* WdmPnp for any physical devices, Passthrough for any threads and any    *)
(* bound of its counter, KbdFilter for any number of keyboards, ComCap for *)
(* any number of ports and of threads that use them, KeyCap for any finite *)
(* set of keyboards, Ramdisk for any clients, any size of the image and    *)
(* any registry parameters in range, NtDriver for the drivers of the book; *)
(* and about SpecialStartIo, for any threads and packets.                  *)
(***************************************************************************)
EXTENDS MCDrivers, KeyCap, SpecialStartIo, FiniteSetTheorems, TLAPS

-----------------------------------------------------------------------------
(***************************************************************************)
(* WdmPnp.                                                                 *)
(***************************************************************************)

\* Adding a device keeps WdmInv: none is created, or the link is made in the
\* second attempt at the latest, or the kernel had no memory for it.
LEMMA AddDeviceStep ==
  ASSUME WdmInv, NEW p \in Pdos, AddDevice(p)
  PROVE  WdmInv'
<1> USE WdmAssumption DEF WdmInv, WdmTypeOK, WdmNameComesBack
<1>1. CASE AddCollides(p)
  BY <1>1 DEF AddDevice, AddCollides, AddCreates
<1>2. CASE AddCreates(p)
  <2>1. PICK memory \in BOOLEAN :
          /\ noMemory' = ~memory
          /\ wdmLink' = memory /\ ready' = memory
          /\ pdo' = [pdo EXCEPT ![p] = IF memory THEN "added" ELSE "failed"]
    BY <1>2 DEF AddCreates, LinkAgain
  <2>2. fdo = NoPdo /\ fdo' = p /\ UNCHANGED <<wdmCopy, opened>>
    BY <1>2 DEF AddDevice, AddCreates
  <2>3. CASE memory
    BY <2>1, <2>2, <2>3
  <2>4. CASE ~memory
    BY <2>1, <2>2, <2>4
  <2> QED
    BY <2>3, <2>4
<1> QED
  BY <1>1, <1>2 DEF AddDevice

\* Every step keeps WdmInv.
LEMMA WdmStep ==
  ASSUME WdmInv, [WdmNext]_wdmVars
  PROVE  WdmInv'
<1> USE WdmAssumption DEF WdmInv, WdmTypeOK, WdmNameComesBack
<1>1. CASE UNCHANGED wdmVars
  BY <1>1 DEF wdmVars
<1>2. CASE EntryHelloWDMDriver \/ EntryMyDriver1 \/ EntryHelloWDM \/ EntryWDMDriver
  BY <1>2 DEF EntryHelloWDMDriver, EntryMyDriver1, EntryHelloWDM, EntryWDMDriver, LoadWdm
<1>3. ASSUME NEW p \in Pdos, Plug(p) \/ Unplug(p)
      PROVE  WdmInv'
  BY <1>3 DEF Plug, Unplug
<1>4. ASSUME NEW p \in Pdos, StartDevice(p)
      PROVE  WdmInv'
  BY <1>4 DEF StartDevice
<1>5. ASSUME NEW p \in Pdos, NEW forgets \in BOOLEAN, RemoveDevice(p, forgets)
      PROVE  WdmInv'
  <2>1. /\ fdo' = NoPdo /\ UNCHANGED <<wdmCopy, opened>>
        /\ ready' = FALSE /\ noMemory' = FALSE
        /\ pdo' \in [Pdos -> {"absent", "present", "failed", "added", "started"}]
    BY <1>5 DEF RemoveDevice
  <2>2. wdmLink' \in BOOLEAN
    BY <1>5 DEF RemoveDevice
  <2> QED
    BY <2>1, <2>2
<1>6. CASE OpenWdm \/ CloseWdm
  <2>1. opened' \in BOOLEAN /\ UNCHANGED <<wdmCopy, pdo, fdo, ready, wdmLink, noMemory>>
    BY <1>6 DEF OpenWdm, CloseWdm
  <2> QED
    BY <2>1
<1> HIDE DEF WdmInv
<1>7. ASSUME NEW p \in Pdos,
             AddHelloWDMDriver(p) \/ AddMyDriver1(p) \/ AddHelloWDM(p) \/ AddWDMDriver(p)
      PROVE  WdmInv'
  BY <1>7, AddDeviceStep DEF AddHelloWDMDriver, AddMyDriver1, AddHelloWDM, AddWDMDriver
<1>8. ASSUME NEW p \in Pdos,
             PnpHelloWDMDriver(p) \/ PnpMyDriver1(p) \/ PnpHelloWDM(p) \/ PnpWDMDriver(p)
      PROVE  WdmInv'
  BY <1>4, <1>8 DEF PnpHelloWDMDriver, PnpMyDriver1, PnpHelloWDM, PnpWDMDriver
<1>9. ASSUME NEW p \in Pdos,
             RemoveHelloWDMDriver(p) \/ RemoveMyDriver1(p) \/ RemoveHelloWDM(p) \/ RemoveWDMDriver(p)
      PROVE  WdmInv'
  BY <1>5, <1>9 DEF RemoveHelloWDMDriver, RemoveMyDriver1, RemoveHelloWDM, RemoveWDMDriver
<1>10. CASE DispatchHelloWDMDriver \/ DispatchMyDriver1 \/ DispatchHelloWDM \/ DispatchWDMDriver
  BY <1>6, <1>10 DEF DispatchHelloWDMDriver, DispatchMyDriver1, DispatchHelloWDM, DispatchWDMDriver
<1> QED
  BY <1>1, <1>2, <1>3, <1>7, <1>8, <1>9, <1>10 DEF WdmNext

\* The name of the device comes back with every removal (WDMDriver
\* Source.cpp:150): the device that has it is complete, or is the half-made one
\* that lines 114-118 leave when the kernel has no memory for the link.
THEOREM WdmNameReturns == WdmSpec => []WdmNameComesBack
<1>1. WdmInit => WdmInv
  BY WdmAssumption DEF WdmInit, WdmInv, WdmTypeOK, WdmNameComesBack
<1>2. WdmInv /\ [WdmNext]_wdmVars => WdmInv'
  BY WdmStep
<1>3. WdmInv => WdmNameComesBack
  BY DEF WdmInv
<1> QED
  BY <1>1, <1>2, <1>3, PTL DEF WdmSpec

-----------------------------------------------------------------------------
(***************************************************************************)
(* KbdFilter.                                                              *)
(***************************************************************************)

\* The reads that come back through c2pReadComplete.
Below == {k \in Kbds : readKbd[k] = "filtered"}

LEMMA BelowIsFinite == IsFiniteSet(Below) /\ Cardinality(Below) \in 0 .. Boards
<1>1. IsFiniteSet(Kbds) /\ Cardinality(Kbds) = Boards
  BY KbdAssumption, FS_Interval DEF Kbds
<1>2. Below \subseteq Kbds
  BY DEF Below
<1>3. IsFiniteSet(Below) /\ Cardinality(Below) <= Cardinality(Kbds)
  BY <1>1, <1>2, FS_Subset
<1>4. Cardinality(Below) \in Nat
  BY <1>3, FS_CardinalityType
<1> QED
  BY <1>1, <1>3, <1>4, KbdAssumption

\* A read that is passed down is counted.
LEMMA DispatchReadStep ==
  ASSUME KbdInv, NEW k \in Kbds, DispatchReadKbd(k)
  PROVE  KbdInv'
<1> USE DEF KbdInv, KbdTypeOK
<1>1. Below' = Below \cup {k} /\ k \notin Below
  BY DEF DispatchReadKbd, Below
<1>2. Cardinality(Below') = Cardinality(Below) + 1
  BY <1>1, BelowIsFinite, FS_AddElement
<1>3. Cardinality(Below') \in 0 .. Boards
  <2>1. IsFiniteSet(Below') /\ Below' \subseteq Kbds
    BY <1>1, BelowIsFinite, FS_AddElement DEF Below
  <2>2. IsFiniteSet(Kbds) /\ Cardinality(Kbds) = Boards
    BY KbdAssumption, FS_Interval DEF Kbds
  <2>3. Cardinality(Below') <= Boards /\ Cardinality(Below') \in Nat
    BY <2>1, <2>2, FS_Subset, FS_CardinalityType
  <2> QED
    BY <2>3, KbdAssumption
<1>4. keyCount' = Cardinality(Below')
  BY <1>2 DEF DispatchReadKbd, KbdOutlivesReads, KbdCounts, Below
<1>5. KbdTypeOK'
  BY <1>3, <1>4 DEF DispatchReadKbd
<1>6. DetachInv'
  <2>1. /\ phase' = phase /\ turnKbd' = turnKbd /\ board' = board
        /\ board[k] = "filtered"
        /\ \A j \in Kbds : readKbd'[j] = "filtered" => j = k \/ readKbd[j] = "filtered"
    BY DEF DispatchReadKbd
  <2> QED
    BY <2>1 DEF DetachInv
<1>7. phase \notin {"wait", "gone"}
  BY DEF DispatchReadKbd, DetachInv
<1>8. KbdCounts'
  BY <1>4 DEF KbdCounts, Below
<1>9. KbdUnloadSafe'
  BY <1>7 DEF DispatchReadKbd, KbdUnloadSafe
<1> QED
  BY <1>5, <1>6, <1>8, <1>9 DEF KbdOutlivesReads

\* A read that comes back is counted out, succeeded or failed.
LEMMA ReadCompleteStep ==
  ASSUME KbdInv, NEW k \in Kbds, ReadCompleteKbd(k)
  PROVE  KbdInv'
<1> USE DEF KbdInv, KbdTypeOK
<1>1. Below' = Below \ {k} /\ k \in Below
  BY DEF ReadCompleteKbd, Below
<1>2. Cardinality(Below') = Cardinality(Below) - 1
  BY <1>1, BelowIsFinite, FS_RemoveElement
<1>3. IsFiniteSet(Below')
  BY <1>1, BelowIsFinite, FS_Subset
<1>4. Cardinality(Below') \in 0 .. Boards
  BY <1>2, <1>3, BelowIsFinite, FS_CardinalityType, KbdAssumption
<1>5. keyCount' = Cardinality(Below')
  BY <1>2 DEF ReadCompleteKbd, KbdOutlivesReads, KbdCounts, Below
<1>6. KbdTypeOK'
  BY <1>4, <1>5 DEF ReadCompleteKbd
<1>7. DetachInv'
  <2>1. /\ phase' = phase /\ turnKbd' = turnKbd /\ board' = board
        /\ \A j \in Kbds : readKbd'[j] = "filtered" => readKbd[j] = "filtered"
    BY DEF ReadCompleteKbd
  <2> QED
    BY <2>1 DEF DetachInv
<1>8. KbdCounts'
  BY <1>5 DEF KbdCounts, Below
<1>9. KbdUnloadSafe'
  BY DEF ReadCompleteKbd, KbdUnloadSafe, KbdOutlivesReads
<1> QED
  BY <1>6, <1>7, <1>8, <1>9 DEF KbdOutlivesReads

\* The steps that leave the filter's reads and their count alone.
LEMMA KeepsCount ==
  ASSUME KbdCounts, Below' = Below, keyCount' = keyCount
  PROVE  KbdCounts'
BY DEF KbdCounts, Below

\* Every step keeps KbdInv.
LEMMA KbdStep ==
  ASSUME Intact = TRUE, KbdInv, [KbdNext]_kbdVars
  PROVE  KbdInv'
<1> DEFINE Rest == KbdTypeOK /\ DetachInv /\ KbdUnloadSafe
<1>0. KbdCounts /\ Rest
  BY DEF KbdInv, KbdOutlivesReads
<1>a. ASSUME Rest', Below' = Below, keyCount' = keyCount
      PROVE  KbdInv'
  BY <1>0, <1>a, KeepsCount DEF KbdInv, KbdOutlivesReads
<1>1. CASE UNCHANGED kbdVars
  <2>1. Rest'
    BY <1>0, <1>1 DEF kbdVars, KbdTypeOK, DetachInv, KbdUnloadSafe
  <2> QED
    BY <1>1, <1>a, <2>1 DEF kbdVars, Below
<1>2. ASSUME NEW c \in {"LyyKeyCap", "ttt", "PKeyCap"}, EntryKbd(c)
      PROVE  KbdInv'
  <2>1. Rest'
    BY <1>0, <1>2 DEF EntryKbd, KbdTypeOK, DetachInv, KbdUnloadSafe
  <2> QED
    BY <1>2, <1>a, <2>1 DEF EntryKbd, Below
<1>3. CASE AttachKbd \/ AttachedKbds
  <2>1. KbdTypeOK'
    BY <1>0, <1>3, KbdAssumption DEF AttachKbd, AttachedKbds, KbdTypeOK
  <2>2. \A k \in Kbds : k >= turnKbd' => k >= turnKbd /\ (board'[k] = board[k] \/ k < turnKbd')
    BY <1>0, <1>3, KbdAssumption DEF AttachKbd, AttachedKbds, KbdTypeOK, Kbds
  <2>3. DetachInv' /\ KbdUnloadSafe'
    BY <1>0, <1>3, <2>2, KbdAssumption DEF AttachKbd, AttachedKbds, DetachInv, KbdUnloadSafe,
       KbdTypeOK, Kbds
  <2> QED
    BY <1>3, <1>a, <2>1, <2>3 DEF AttachKbd, AttachedKbds, Below
<1>4. ASSUME NEW k \in Kbds, ReadPlain(k) \/ KeyPlain(k)
      PROVE  KbdInv'
  <2>1. Rest'
    BY <1>0, <1>4 DEF ReadPlain, KeyPlain, KbdTypeOK, DetachInv, KbdUnloadSafe
  <2>2. Below' = Below
    BY <1>0, <1>4 DEF ReadPlain, KeyPlain, KbdTypeOK, Below
  <2> QED
    BY <1>4, <1>a, <2>1, <2>2 DEF ReadPlain, KeyPlain
<1>5. ASSUME NEW k \in Kbds, RemoveKbd(k)
      PROVE  KbdInv'
  <2>1. Rest'
    BY <1>0, <1>5 DEF RemoveKbd, KbdTypeOK, DetachInv, KbdUnloadSafe
  <2> QED
    BY <1>5, <1>a, <2>1 DEF RemoveKbd, Below
<1>6. CASE BeginUnloadKbd
  <2>1. Rest'
    BY <1>0, <1>6, KbdAssumption DEF BeginUnloadKbd, KbdTypeOK, DetachInv, KbdUnloadSafe, Kbds
  <2> QED
    BY <1>6, <1>a, <2>1 DEF BeginUnloadKbd, Below
<1>7. CASE DetachKbd
  <2>1. turnKbd \in Kbds /\ turnKbd' = turnKbd + 1
    BY <1>0, <1>7, KbdAssumption DEF DetachKbd, KbdTypeOK, Kbds
  <2>2. KbdTypeOK'
    BY <1>0, <1>7, <2>1, KbdAssumption DEF DetachKbd, KbdTypeOK, Kbds
  <2>3. \A k \in Kbds : k < turnKbd' => board'[k] # "filtered"
    <3>1. \A k \in Kbds : k < turnKbd' => k = turnKbd \/ k < turnKbd
      BY <2>1 DEF Kbds
    <3> QED
      BY <1>0, <1>7, <3>1 DEF DetachKbd, KbdTypeOK, DetachInv
  <2>4. DetachInv' /\ KbdUnloadSafe'
    BY <1>7, <2>3 DEF DetachKbd, DetachInv, KbdUnloadSafe
  <2> QED
    BY <1>7, <1>a, <2>2, <2>4 DEF DetachKbd, Below
<1>8. CASE AllDetachedKbd
  <2>1. \A k \in Kbds : board[k] # "filtered"
    BY <1>0, <1>8, KbdAssumption DEF AllDetachedKbd, DetachInv, Kbds
  <2>2. Rest'
    BY <1>0, <1>8, <2>1 DEF AllDetachedKbd, KbdTypeOK, DetachInv, KbdUnloadSafe
  <2> QED
    BY <1>8, <1>a, <2>2 DEF AllDetachedKbd, Below
<1>9. CASE UnloadedKbd
  <2>1. Below = {}
    BY <1>0, <1>9, BelowIsFinite, FS_EmptySet DEF UnloadedKbd, KbdCounts, Below
  <2>2. Rest'
    BY <1>0, <1>9, <2>1 DEF UnloadedKbd, KbdTypeOK, DetachInv, KbdUnloadSafe, Below
  <2> QED
    BY <1>9, <1>a, <2>2 DEF UnloadedKbd, Below
<1>18. ASSUME NEW k \in Kbds, LateCall(k)
       PROVE  KbdInv'
  <2>1. phase = "refused"
    BY <1>0, <1>18 DEF LateCall, KbdUnloadSafe
  <2>2. turnKbd \in 2 .. Boards
    BY <1>0, <1>18, <2>1 DEF LateCall, DetachInv, KbdTypeOK, Kbds
  <2>3. Rest'
    BY <1>0, <1>18, <2>2 DEF LateCall, KbdTypeOK, DetachInv, KbdUnloadSafe
  <2> QED
    BY <1>18, <1>a, <2>3 DEF LateCall, Below
<1>10. CASE EntryLyyKeyCap \/ EntryTtt \/ EntryPKeyCap
  BY <1>2, <1>10 DEF EntryLyyKeyCap, EntryTtt, EntryPKeyCap
<1>11. CASE AttachLyyKeyCap \/ AttachTtt \/ AttachPKeyCap
  BY <1>3, <1>11 DEF AttachLyyKeyCap, AttachTtt, AttachPKeyCap
<1>12. ASSUME NEW k \in Kbds, ReadLyyKeyCap(k) \/ ReadTtt(k) \/ ReadPKeyCap(k)
       PROVE  KbdInv'
  BY <1>12, DispatchReadStep DEF ReadLyyKeyCap, ReadTtt, ReadPKeyCap
<1>13. ASSUME NEW k \in Kbds, CompleteLyyKeyCap(k) \/ CompleteTtt(k) \/ CompletePKeyCap(k)
       PROVE  KbdInv'
  BY <1>13, ReadCompleteStep DEF CompleteLyyKeyCap, CompleteTtt, CompletePKeyCap
<1>14. ASSUME NEW k \in Kbds, PassLyyKeyCap(k) \/ PassTtt(k) \/ PassPKeyCap(k)
       PROVE  KbdInv'
  BY <1>1, <1>14 DEF PassLyyKeyCap, PassTtt, PassPKeyCap, PassKbd
<1>15. ASSUME NEW k \in Kbds, PnpLyyKeyCap(k) \/ PnpTtt(k) \/ PnpPKeyCap(k)
       PROVE  KbdInv'
  BY <1>5, <1>15 DEF PnpLyyKeyCap, PnpTtt, PnpPKeyCap
<1>16. CASE UnloadLyyKeyCap \/ UnloadTtt \/ UnloadPKeyCap
  BY <1>6, <1>8, <1>9, <1>16 DEF UnloadLyyKeyCap, UnloadTtt, UnloadPKeyCap
<1>17. CASE DetachLyyKeyCap \/ DetachTtt \/ DetachPKeyCap
  BY <1>7, <1>17 DEF DetachLyyKeyCap, DetachTtt, DetachPKeyCap
<1> HIDE DEF Rest
<1> QED
  BY <1>1, <1>4, <1>10, <1>11, <1>12, <1>13, <1>14, <1>15, <1>16, <1>17, <1>18 DEF KbdNext

\* However many keyboards there are, whichever attachment fails and whichever
\* keyboard is removed, the count is the number of reads below, and c2pUnload
\* (LyyKeyCap.c:195-214) returns with nothing of the driver left in use, as long
\* as the deleted device still leads to the next one.  Code that is gone is
\* entered only when IoCreateDevice failed for a keyboard after the first.
THEOREM KbdOutlives ==
  ASSUME Intact = TRUE
  PROVE  KbdSpec => []KbdOutlivesReads
<1>1. KbdInit => KbdInv
  <2> SUFFICES ASSUME KbdInit
               PROVE  KbdInv
    OBVIOUS
  <2>1. Below = {}
    BY DEF KbdInit, Below
  <2>2. KbdOutlivesReads
    BY <2>1, FS_EmptySet DEF KbdInit, Below, KbdOutlivesReads, KbdCounts, KbdUnloadSafe
  <2>3. KbdTypeOK /\ DetachInv
    BY KbdAssumption DEF KbdInit, KbdTypeOK, DetachInv
  <2> QED
    BY <2>2, <2>3 DEF KbdInv
<1>2. KbdInv /\ [KbdNext]_kbdVars => KbdInv'
  BY KbdStep
<1>3. KbdInv => KbdOutlivesReads
  BY DEF KbdInv
<1> QED
  BY <1>1, <1>2, <1>3, PTL DEF KbdSpec

-----------------------------------------------------------------------------
(***************************************************************************)
(* Passthrough.                                                            *)
(***************************************************************************)

\* An operation that enters below the filter with no number keeps PtInv, if it
\* is called back on an attached volume only.
LEMMA PlainOperationStep ==
  ASSUME PtInv, NEW t \in PtThreads, PtPreOperation(t) \/ PtPreOperationNoPost(t)
  PROVE  PtInv'
<1> USE PtAssumption DEF PtInv, PtTypeOK, NoOp
<1> DEFINE Ops == [at : {"none", "increment", "below"}, ctx : 0 .. PtLast, post : BOOLEAN]
<1>1. PtTypeOK'
  <2>1. \A b \in BOOLEAN : [at |-> "below", ctx |-> 0, post |-> b] \in Ops
    OBVIOUS
  <2>2. PICK b \in BOOLEAN : ptOp' = [ptOp EXCEPT ![t] = [at |-> "below", ctx |-> 0, post |-> b]]
    <3>1. CASE volume = "attached"
      BY <3>1 DEF PtPreOperation, PtPreOperationNoPost
    <3>2. CASE volume # "attached"
      BY <3>2 DEF PtPreOperation, PtPreOperationNoPost
    <3> QED
      BY <3>1, <3>2
  <2>3. ptOp \in [PtThreads -> Ops]
    OBVIOUS
  <2> HIDE DEF Ops
  <2>4. ptOp' \in [PtThreads -> Ops]
    BY <2>1, <2>2, <2>3
  <2> QED
    BY <2>4 DEF PtPreOperation, PtPreOperationNoPost, Ops
<1>2. CtxInv'
  BY DEF PtPreOperation, PtPreOperationNoPost, CtxInv
<1>3. InstanceInv'
  BY DEF PtPreOperation, PtPreOperationNoPost, InstanceInv
<1> QED
  BY <1>1, <1>2, <1>3

\* The first step of the increment is made by one thread at a time,
LEMMA IncrementReadStep ==
  ASSUME PtOneProcessor = TRUE, PtInv, NEW t \in PtThreads, PtDoRequestOperationStatus(t)
  PROVE  PtInv'
<1> USE PtAssumption DEF PtInv, PtTypeOK, NoOp, PtDoRequestOperationStatus
<1>1. PtTypeOK'
  OBVIOUS
<1>2. CtxInv'
  BY DEF CtxInv
<1>3. InstanceInv'
  BY DEF InstanceInv
<1> QED
  BY <1>1, <1>2, <1>3

\* and the number of the second is above all that were given before.
LEMMA IncrementStoreStep ==
  ASSUME PtInv, NEW t \in PtThreads, FltRequestOperationStatusCallback(t)
  PROVE  PtInv'
<1> USE PtAssumption DEF PtInv, PtTypeOK, FltRequestOperationStatusCallback, NextCtx
<1>1. NextCtx(t) = OperationStatusCtx + 1 /\ NextCtx(t) \in 1 .. PtLast
  BY DEF CtxInv
<1>2. PtTypeOK'
  BY <1>1
<1>3. CtxInv'
  BY <1>1 DEF CtxInv
<1>4. InstanceInv'
  BY DEF InstanceInv, CtxInv
<1> QED
  BY <1>2, <1>3, <1>4

\* Every step keeps PtInv.
LEMMA PtStep ==
  ASSUME PtOneProcessor = TRUE, PtInv, [PtNext]_ptVars
  PROVE  PtInv'
<1> USE PtAssumption DEF PtInv, PtTypeOK, NoOp, CtxInv, InstanceInv
<1>1. CASE UNCHANGED ptVars
  BY <1>1 DEF ptVars
<1>2. CASE PtDriverEntry \/ PtUnload
  BY <1>2 DEF PtDriverEntry, PtUnload
<1>3. CASE PtInstanceSetup \/ PtInstanceQueryTeardown \/ PtInstanceTearDownStart
  BY <1>3 DEF PtInstanceSetup, PtInstanceQueryTeardown, PtInstanceTearDownStart
<1>4. CASE PtInstanceTearDownComplete
  BY <1>4 DEF PtInstanceTearDownComplete
<1>5. ASSUME NEW t \in PtThreads, PtOperationStatusCallback(t)
      PROVE  PtInv'
  BY <1>5 DEF PtOperationStatusCallback
<1>6. ASSUME NEW t \in PtThreads, PtPostOperation(t)
      PROVE  PtInv'
  BY <1>6 DEF PtPostOperation
<1> QED
  BY <1>1, <1>2, <1>3, <1>4, <1>5, <1>6, PlainOperationStep, IncrementReadStep,
     IncrementStoreStep DEF PtNext

\* On one processor no two operations in flight have the same number, and the
\* filter is gone only when no operation calls back into it: FltUnregisterFilter
\* waits for the instance, and the instance for its operations.
THEOREM CallbacksTold ==
  ASSUME PtOneProcessor = TRUE
  PROVE  PtSpec => []PtCallbacksTold
<1>1. ASSUME PtInit PROVE PtInv
  <2>1. 1 \in 1 .. PtLast
    BY PtAssumption
  <2> QED
    BY <1>1, <2>1, PtAssumption DEF PtInit, PtInv, PtTypeOK, NoOp, CtxInv, InstanceInv
<1>2. PtInv /\ [PtNext]_ptVars => PtInv'
  BY PtStep
<1>3. PtInv => PtCallbacksTold
  BY DEF PtInv, PtTypeOK, CtxInv, InstanceInv, PtCallbacksTold
<1> QED
  BY <1>1, <1>2, <1>3, PTL DEF PtSpec

-----------------------------------------------------------------------------
(***************************************************************************)
(* ComCap.                                                                 *)
(***************************************************************************)

\* DriverEntry finds the tables null and nobody in the driver.
LEMMA DriverEntryStep ==
  ASSUME ComInv, DriverEntry, copy' \in {"LyyComCap", "comcap", "PComCap"}
  PROVE  ComInv'
<1> USE ComCapAssumption DEF ComInv, DriverEntry, Coms
<1>1. TablesInv'
  BY DEF TablesInv
<1>2. RequestsInv'
  BY DEF TablesInv, RequestsInv, Idle
<1> QED
  BY <1>1, <1>2

\* ccpAttachAllComs takes the ports in turn: the ports behind it have their
\* lower device in the table, the one before it has none yet.
LEMMA AttachStep ==
  ASSUME ComInv, UNCHANGED copy,
         SkipCom \/ AttachFilter \/ StoreNext \/ AllAttached
           \/ \E flag \in {"none", "buffered", "direct"} :
                CreateFilter(flag) /\ FlagFits(flag, turn)
  PROVE  ComInv'
<1> USE ComCapAssumption DEF ComInv, Coms
<1>1. at = "attach" /\ UNCHANGED <<io, call>> /\ at' \in {"attach", "up"}
  BY DEF SkipCom, AttachFilter, StoreNext, AllAttached, CreateFilter
<1>2. RequestsInv'
  BY <1>1 DEF RequestsInv, FlagFits, Idle
<1>3. CASE SkipCom
  <2>1. turn \notin onTop /\ turn + 1 \notin onTop
    BY <1>1, <1>3 DEF TablesInv, SkipCom
  <2>2. TablesInv'
    BY <1>1, <1>3, <2>1 DEF TablesInv, SkipCom, NextCom, FlagFits
  <2> QED
    BY <1>2, <2>2
<1>4. CASE AttachFilter
  <2>1. turn \in Coms /\ turn \notin onTop /\ turn + 1 \notin onTop
    BY <1>1, <1>4 DEF TablesInv, AttachFilter
  <2>2. s_nextobj = onTop /\ onTop \ {turn + 1} = onTop
    BY <1>1, <2>1 DEF TablesInv
  <2>3. CASE onTop' = onTop \cup {turn} /\ UNCHANGED <<turn, s_fltobj>>
    <3>1. onTop' \ {turn'} = onTop
      BY <2>1, <2>3
    <3>2. \A i \in onTop' : i <= turn' /\ s_fltobj'[i] # "null"
      BY <1>1, <1>4, <2>1, <2>3 DEF TablesInv, AttachFilter
    <3> QED
      BY <1>1, <1>2, <1>4, <2>1, <2>2, <2>3, <3>1, <3>2 DEF TablesInv, AttachFilter, FlagFits
  <2>4. CASE /\ s_fltobj' = [s_fltobj EXCEPT ![turn] = "null"]
             /\ NextCom /\ UNCHANGED onTop
    <3>1. \A i \in onTop' : i <= turn' /\ s_fltobj'[i] # "null"
      BY <1>1, <1>4, <2>1, <2>4 DEF TablesInv, NextCom
    <3> QED
      BY <1>1, <1>2, <1>4, <2>1, <2>2, <2>4, <3>1 DEF TablesInv, AttachFilter, NextCom, FlagFits
  <2> QED
    BY <1>4, <2>3, <2>4 DEF AttachFilter
<1>5. CASE StoreNext
  <2>1. turn + 1 \notin onTop /\ onTop = (onTop \ {turn}) \cup {turn}
    BY <1>1, <1>5 DEF TablesInv, StoreNext
  <2>2. TablesInv'
    BY <1>1, <1>5, <2>1 DEF TablesInv, StoreNext, NextCom, FlagFits
  <2> QED
    BY <1>2, <2>2
<1>6. CASE AllAttached
  <2>1. onTop \ {turn} = onTop
    BY <1>6 DEF TablesInv, AllAttached
  <2>2. TablesInv'
    BY <1>1, <1>6, <2>1 DEF TablesInv, AllAttached, FlagFits
  <2> QED
    BY <1>2, <2>2
<1>7. ASSUME NEW flag \in {"none", "buffered", "direct"}, CreateFilter(flag), FlagFits(flag, turn)
      PROVE  ComInv'
  <2>1. TablesInv'
    BY <1>1, <1>7 DEF TablesInv, CreateFilter, FlagFits
  <2> QED
    BY <1>2, <2>1
<1> QED
  BY <1>3, <1>4, <1>5, <1>6, <1>7

\* A new request is prepared for the device that gets it.
LEMMA RequestStep ==
  ASSUME QuietStart = TRUE, ComInv,
         NEW t \in Callers, NEW i \in Coms, NEW k \in {"write", "power", "pnp"}, Request(t, i, k)
  PROVE  ComInv'
<1> USE ComCapAssumption DEF ComInv, Coms
<1>1. TablesInv'
  BY DEF TablesInv, Request, FlagFits
<1>2. at # "attach" /\ ~(at = "gone" /\ turn = 0)
  BY DEF TablesInv, Request
<1>3. i \in onTop => i \in s_nextobj
  BY <1>2 DEF TablesInv
<1>4. i \in onTop => at \notin {"sleep", "gone"}
  BY DEF TablesInv
<1>5. i \in onTop => s_fltobj[i] \in {"none", "buffered", "direct"} /\ FlagFits(s_fltobj[i], i)
  BY DEF TablesInv
<1>6. io[i] \in {"buffered", "direct"} /\ i \in Nat
  BY DEF TablesInv, Request
<1>7. RequestsInv'
  BY <1>2, <1>3, <1>4, <1>5, <1>6 DEF RequestsInv, Request, FlagFits, Idle
<1> QED
  BY <1>1, <1>7

\* A request in ccpDispatch finds its lower device and is passed on as it is.
LEMMA DispatchStep ==
  ASSUME ComInv, NEW t \in Callers, Lookup(t) \/ PassDown(t) \/ Return(t)
  PROVE  ComInv'
<1> USE DEF ComInv
<1>1. TablesInv'
  BY DEF TablesInv, Lookup, PassDown, Return, FlagFits
<1>2. RequestsInv'
  BY DEF RequestsInv, Lookup, PassDown, Return, FlagFits, Idle
<1> QED
  BY <1>1, <1>2

\* ccpUnload takes the filters off the ports in turn and deletes them when
\* nobody is left in ccpDispatch.
LEMMA UnloadStep ==
  ASSUME Prompt = TRUE, ComInv, UNCHANGED copy,
         BeginUnloadCom \/ DetachFilter \/ Sleep \/ DeleteFilters
  PROVE  ComInv'
<1> USE ComCapAssumption DEF ComInv, Coms
<1>1. CASE BeginUnloadCom
  <2>1. s_nextobj = onTop /\ onTop = {i \in s_nextobj : 0 <= i}
    <3>1. s_nextobj = onTop /\ \A i \in s_nextobj : 0 <= i
      BY <1>1 DEF BeginUnloadCom, TablesInv
    <3> QED
      BY <3>1, Zenon
  <2>2. TablesInv'
    BY <1>1, <2>1 DEF BeginUnloadCom, TablesInv, FlagFits
  <2>3. RequestsInv'
    BY <1>1 DEF BeginUnloadCom, RequestsInv, FlagFits, Idle
  <2> QED
    BY <2>2, <2>3
<1>2. CASE DetachFilter
  <2>0. turn \in Coms /\ onTop = {i \in s_nextobj : turn <= i} /\ s_nextobj \subseteq Nat
    BY <1>2 DEF DetachFilter, TablesInv
  <2>1. onTop' = {i \in s_nextobj : turn + 1 <= i}
    <3>1. onTop' = onTop \ {turn}
      BY <1>2, <2>0 DEF DetachFilter
    <3>2. \A i \in s_nextobj : turn + 1 <= i <=> turn <= i /\ i # turn
      BY <2>0
    <3> QED
      BY <2>0, <3>1, <3>2, Zenon
  <2>2. TablesInv'
    BY <1>2, <2>1 DEF DetachFilter, NextCom, TablesInv, FlagFits
  <2>3. RequestsInv'
    BY <1>2 DEF DetachFilter, RequestsInv, FlagFits, Idle
  <2> QED
    BY <2>2, <2>3
<1>3. CASE Sleep
  <2>1. onTop = {}
    BY <1>3 DEF Sleep, TablesInv
  <2>2. TablesInv'
    BY <1>3, <2>1 DEF Sleep, TablesInv, FlagFits
  <2>3. RequestsInv'
    BY <1>3 DEF Sleep, RequestsInv, FlagFits, Idle
  <2> QED
    BY <2>2, <2>3
<1>4. CASE DeleteFilters
  <2>1. TablesInv'
    BY <1>4 DEF DeleteFilters, TablesInv, FlagFits
  <2>2. turn = CCP_MAX_COM_ID
    BY <1>4 DEF DeleteFilters, TablesInv
  <2>3. turn = 0 => \A t \in Callers : call[t] = Idle
    BY <2>2 DEF RequestsInv
  <2>4. RequestsInv'
    BY <1>4, <2>3 DEF DeleteFilters, RequestsInv, FlagFits, Idle
  <2> QED
    BY <2>1, <2>4
<1> QED
  BY <1>1, <1>2, <1>3, <1>4

\* Every step of each copy keeps ComInv: the flag it gives the filter fits.
LEMMA ComStep ==
  ASSUME QuietStart = TRUE, Prompt = TRUE, ComInv, [ComNext]_comVars
  PROVE  ComInv'
<1>1. CASE UNCHANGED comVars
  BY <1>1 DEF comVars, ComInv, TablesInv, RequestsInv, FlagFits, Idle
<1>2. CASE EntryLyyComCap \/ EntryComCap \/ EntryPComCap
  BY <1>2, DriverEntryStep DEF EntryLyyComCap, EntryComCap, EntryPComCap
<1>3. CASE OpenLyyComCap \/ OpenComCap \/ OpenPComCap
  BY <1>3, AttachStep DEF OpenLyyComCap, OpenComCap, OpenPComCap, SkipCom
<1>4. CASE AttachLyyComCap \/ AttachComCap \/ AttachPComCap
  <2>1. UNCHANGED copy
    BY <1>4 DEF AttachLyyComCap, AttachComCap, AttachPComCap, CreateFilter, AttachFilter, StoreNext
  <2>2. CASE AttachFilter \/ StoreNext
    BY <2>1, <2>2, AttachStep
  <2>3. ASSUME NEW flag,
               CreateFilter(flag),
               \/ flag = io[turn]
               \/ copy = "PComCap" /\ flag = IF io[turn] = "buffered" THEN "buffered" ELSE "none"
        PROVE  ComInv'
    <3>1. io[turn] \in {"buffered", "direct"}
      BY <2>3, ComCapAssumption DEF CreateFilter, ComInv, TablesInv, Coms
    <3>2. flag \in {"none", "buffered", "direct"} /\ FlagFits(flag, turn)
      BY <2>3, <3>1 DEF FlagFits
    <3> QED
      BY <2>1, <2>3, <3>2, AttachStep
  <2> QED
    BY <1>4, <2>2, <2>3 DEF AttachLyyComCap, AttachComCap, AttachPComCap,
       FlagLyyComCap, FlagComCap, FlagPComCap
<1>5. CASE AttachAllLyyComCap \/ AttachAllComCap \/ AttachAllPComCap
  BY <1>5, AttachStep DEF AttachAllLyyComCap, AttachAllComCap, AttachAllPComCap, AllAttached
<1>6. ASSUME NEW t \in Callers,
             DispatchLyyComCap(t) \/ DispatchComCap(t) \/ DispatchPComCap(t) \/ Return(t)
      PROVE  ComInv'
  BY <1>6, DispatchStep DEF DispatchLyyComCap, DispatchComCap, DispatchPComCap
<1>7. CASE UnloadLyyComCap \/ UnloadComCap \/ UnloadPComCap
  <2>1. UNCHANGED copy
    BY <1>7 DEF UnloadLyyComCap, UnloadComCap, UnloadPComCap, BeginUnloadCom, DetachFilter,
       Sleep, DeleteFilters
  <2> QED
    BY <1>7, <2>1, UnloadStep DEF UnloadLyyComCap, UnloadComCap, UnloadPComCap
<1> QED
  BY <1>1, <1>2, <1>3, <1>4, <1>5, <1>6, <1>7, RequestStep DEF ComNext

\* A request finds the lower device of its port and reaches it with the buffer
\* the port expects, and none is in ccpDispatch when ccpUnload deletes the
\* filters: as long as nobody uses a port while DriverEntry attaches to it, and
\* ccpDispatch returns within the five seconds that ccpUnload sleeps.
THEOREM ComCapTransparentAndSafe ==
  ASSUME QuietStart = TRUE, Prompt = TRUE
  PROVE  ComSpec => []ComCapFilters
<1>1. ComInit => ComInv
  BY ComCapAssumption DEF ComInit, ComInv, TablesInv, RequestsInv, Coms, Idle
<1>2. ComInv /\ [ComNext]_comVars => ComInv'
  BY ComStep
<1>3. ComInv => ComCapFilters
  BY DEF ComInv, TablesInv, RequestsInv, FlagFits, ComCapFilters, ComCapTransparent, ComCapUnloadSafe
<1> QED
  BY <1>1, <1>2, <1>3, PTL DEF ComSpec

-----------------------------------------------------------------------------
(***************************************************************************)
(* KeyCap, on one processor where c2pUnload does not meet c2pDispatchRead: *)
(* the count is right, and the driver's code is not freed in use.          *)
(***************************************************************************)

LEMMA KeyTypeStep ==
  ASSUME TypeOK, [Next]_vars
  PROVE  TypeOK'
<1> USE KeyCapAssumption DEF TypeOK, Parties, Counts
<1>1. CASE UNCHANGED vars
  BY <1>1 DEF vars
<1>2. ASSUME NEW k \in Keyboards, IssueRead(k) \/ PressKey(k)
      PROVE  TypeOK'
  BY <1>2 DEF IssueRead, PressKey
<1>3. ASSUME NEW k \in Keyboards, ReadComplete(k)
      PROVE  TypeOK'
  <2>1. \A n \in Int : n % CountValues \in 0 .. CountValues - 1
    OBVIOUS
  <2>2. register[k] - 1 \in Int
    OBVIOUS
  <2> QED
    BY <1>3, <2>1, <2>2 DEF ReadComplete, LoadDown, StoreDown, CompleteReturns
<1>4. CASE DispatchRead
  <2>1. \A n \in Int : n % CountValues \in 0 .. CountValues - 1
    OBVIOUS
  <2>2. register[None] + 1 \in Int
    OBVIOUS
  <2> QED
    BY <1>4, <2>1, <2>2 DEF DispatchRead, LoadUp, StoreUp, CallDriver, DispatchReturns
<1>5. CASE BeginUnload \/ Unload
  BY <1>5 DEF BeginUnload, Unload, Detach, DetachEnds, UnloadEnds
<1> QED
  BY <1>1, <1>2, <1>3, <1>4, <1>5 DEF Next

LEMMA KeyInit == Init => TypeOK
<1>1. Cardinality(Keyboards) \in Nat
  BY KeyCapAssumption, FS_CardinalityType
<1> QED
  BY <1>1, KeyCapAssumption DEF Init, TypeOK, Parties, Counts

\* The variables of KeyCap keep their types, on one processor or many
\* (LyyKeyCap.c).
THEOREM KeyTypeCorrect == Spec => []TypeOK
<1>1. Init => TypeOK
  BY KeyInit
<1> QED
  BY <1>1, KeyTypeStep, PTL DEF Spec

-----------------------------------------------------------------------------
\* The conditions of the theorem.
OneProcessor == ~Multiprocessor /\ ~EntryRaces

LEMMA AccessStep ==
  ASSUME OneProcessor, TypeOK, AccessInv, [Next]_vars
  PROVE  AccessInv'
<1> USE KeyCapAssumption DEF TypeOK, AccessInv, OneProcessor, Parties
<1>1. CASE UNCHANGED vars
  BY <1>1 DEF vars
<1>2. ASSUME NEW k \in Keyboards, IssueRead(k) \/ PressKey(k)
      PROVE  AccessInv'
  BY <1>2 DEF IssueRead, PressKey
<1>3. ASSUME NEW k \in Keyboards, ReadComplete(k)
      PROVE  AccessInv'
  BY <1>3 DEF ReadComplete, LoadDown, StoreDown, CompleteReturns, Runs, Accessing
<1>4. CASE DispatchRead
  BY <1>4 DEF DispatchRead, LoadUp, StoreUp, CallDriver, DispatchReturns, ThreadRuns, Runs,
     Accessing
<1>5. CASE BeginUnload \/ Unload
  BY <1>5 DEF BeginUnload, Unload, Detach, DetachEnds, UnloadEnds
<1> QED
  BY <1>1, <1>2, <1>3, <1>4, <1>5 DEF Next

LEMMA KeyDispatchStep ==
  ASSUME OneProcessor, TypeOK, DispatchInv, DetachedInv, [Next]_vars
  PROVE  DispatchInv' /\ DetachedInv'
<1> USE KeyCapAssumption DEF TypeOK, DispatchInv, DetachedInv, OneProcessor
<1>1. CASE UNCHANGED vars
  BY <1>1 DEF vars
<1>2. ASSUME NEW k \in Keyboards, IssueRead(k) \/ PressKey(k)
      PROVE  DispatchInv' /\ DetachedInv'
  BY <1>2 DEF IssueRead, PressKey
<1>3. ASSUME NEW k \in Keyboards, ReadComplete(k)
      PROVE  DispatchInv' /\ DetachedInv'
  BY <1>3 DEF ReadComplete, LoadDown, StoreDown, CompleteReturns
<1>4. CASE DispatchRead
  BY <1>4 DEF DispatchRead, LoadUp, StoreUp, CallDriver, DispatchReturns
<1>5. CASE BeginUnload \/ Unload
  BY <1>5 DEF BeginUnload, Unload, Detach, DetachEnds, UnloadEnds
<1> QED
  BY <1>1, <1>2, <1>3, <1>4, <1>5 DEF Next

\* Every increment and decrement finds the count of the reads outstanding, and
\* does not wrap around.
LEMMA CountStep ==
  ASSUME OneProcessor, TypeOK, AccessInv, DispatchInv, [Next]_vars,
         count = Cardinality(Outstanding)
  PROVE  count' = Cardinality(Outstanding')
<1> USE KeyCapAssumption DEF TypeOK, DispatchInv
<1>1. IsFiniteSet(Outstanding) /\ Cardinality(Outstanding) <= Cardinality(Keyboards)
  BY FS_Subset DEF Outstanding
<1>2. Cardinality(Keyboards) \in Nat /\ Cardinality(Outstanding) \in Nat
  BY <1>1, FS_CardinalityType
<1>3. \A n \in 0 .. CountValues - 1 : n % CountValues = n
  OBVIOUS
<1>4. CASE UNCHANGED vars
  BY <1>4 DEF vars, Outstanding
<1>5. ASSUME NEW k \in Keyboards, IssueRead(k) \/ PressKey(k)
      PROVE  count' = Cardinality(Outstanding')
  <2>1. Outstanding' = Outstanding /\ count' = count
    BY <1>5 DEF IssueRead, PressKey, Outstanding
  <2> QED
    BY <2>1
<1>6. ASSUME NEW k \in Keyboards, LoadDown(k) \/ CompleteReturns(k)
      PROVE  count' = Cardinality(Outstanding')
  <2>1. Outstanding' = Outstanding /\ count' = count
    BY <1>6 DEF LoadDown, CompleteReturns, Outstanding
  <2> QED
    BY <2>1
<1>7. ASSUME NEW k \in Keyboards, StoreDown(k)
      PROVE  count' = Cardinality(Outstanding')
  <2>1. k \in Outstanding /\ Outstanding' = Outstanding \ {k}
    BY <1>7 DEF StoreDown, Outstanding
  <2>2. Cardinality(Outstanding') = Cardinality(Outstanding) - 1
    BY <1>1, <2>1, FS_RemoveElement
  <2>3. Cardinality(Outstanding') \in Nat
    BY <1>1, <2>1, FS_RemoveElement, FS_CardinalityType
  <2>4. register[k] = count
    BY <1>7 DEF StoreDown, AccessInv
  <2> QED
    BY <1>2, <1>3, <1>7, <2>2, <2>3, <2>4 DEF StoreDown, Counts
<1>8. CASE LoadUp \/ CallDriver \/ DispatchReturns
  <2>1. Outstanding' = Outstanding /\ count' = count
    BY <1>8 DEF LoadUp, CallDriver, DispatchReturns, Outstanding
  <2> QED
    BY <2>1
<1>9. CASE StoreUp
  <2>1. /\ keyboard \in Keyboards \ Outstanding
        /\ Outstanding' = Outstanding \cup {keyboard}
    BY <1>9 DEF StoreUp, Outstanding
  <2>2. Cardinality(Outstanding') = Cardinality(Outstanding) + 1
    BY <1>1, <2>1, FS_AddElement
  <2>3. Cardinality(Outstanding') <= Cardinality(Keyboards)
    BY <2>1, FS_Subset DEF Outstanding
  <2>4. register[None] = count
    BY <1>9 DEF StoreUp, AccessInv
  <2> QED
    BY <1>2, <1>3, <1>9, <2>2, <2>3, <2>4 DEF StoreUp, Counts
<1>10. CASE BeginUnload \/ Unload
  <2>1. Outstanding' = Outstanding /\ count' = count
    BY <1>10 DEF BeginUnload, Unload, Detach, DetachEnds, UnloadEnds, Outstanding
  <2> QED
    BY <2>1
<1> QED
  BY <1>4, <1>5, <1>6, <1>7, <1>8, <1>9, <1>10 DEF Next, ReadComplete, DispatchRead

\* The count lets c2pUnload go when nobody is in the driver, and nobody enters
\* it afterwards.
LEMMA KeyUnloadStep ==
  ASSUME OneProcessor, IInv, [Next]_vars
  PROVE  CodeNotFreedInUse'
<1> USE KeyCapAssumption DEF IInv, TypeOK, CodeNotFreedInUse, DispatchInv, DetachedInv
<1>1. CASE UNCHANGED vars
  BY <1>1 DEF vars
<1>2. ASSUME NEW k \in Keyboards, IssueRead(k) \/ PressKey(k)
      PROVE  CodeNotFreedInUse'
  BY <1>2 DEF IssueRead, PressKey
<1>3. ASSUME NEW k \in Keyboards, ReadComplete(k)
      PROVE  CodeNotFreedInUse'
  BY <1>3 DEF ReadComplete, LoadDown, StoreDown, CompleteReturns
<1>4. CASE DispatchRead
  BY <1>4 DEF DispatchRead, LoadUp, StoreUp, CallDriver, DispatchReturns
<1>5. CASE UnloadEnds
  <2>1. thread = "out" /\ Cardinality(Outstanding) = 0
    BY <1>5 DEF UnloadEnds
  <2>2. IsFiniteSet(Outstanding)
    BY FS_Subset DEF Outstanding
  <2>3. Outstanding = {}
    BY <2>1, <2>2, FS_EmptySet
  <2>4. \A k \in Keyboards : read[k] \in {"none", "plain"}
    BY <1>5, <2>3 DEF UnloadEnds, ThreadRuns, OneProcessor, Outstanding
  <2> QED
    BY <1>5, <2>1, <2>4 DEF UnloadEnds
<1>6. CASE BeginUnload \/ (\E k \in Keyboards : Detach(k)) \/ DetachEnds
  BY <1>6 DEF BeginUnload, Detach, DetachEnds
<1> QED
  BY <1>1, <1>2, <1>3, <1>4, <1>5, <1>6 DEF Next, Unload

LEMMA KeyInductive ==
  ASSUME OneProcessor
  PROVE  /\ Init => IInv
         /\ IInv /\ [Next]_vars => IInv'
<1>1. ASSUME Init PROVE IInv
  <2>1. Outstanding = {}
    BY <1>1 DEF Init, Outstanding
  <2>2. count = Cardinality(Outstanding)
    BY <1>1, <2>1, FS_EmptySet DEF Init
  <2>3. AccessInv /\ DispatchInv /\ DetachedInv /\ CodeNotFreedInUse
    BY <1>1 DEF Init, AccessInv, DispatchInv, DetachedInv, CodeNotFreedInUse
  <2> QED
    BY <1>1, <2>2, <2>3, KeyInit DEF IInv
<1>2. ASSUME IInv, [Next]_vars PROVE IInv'
  BY <1>2, KeyTypeStep, AccessStep, KeyDispatchStep, CountStep, KeyUnloadStep DEF IInv
<1> QED
  BY <1>1, <1>2

\* On one processor, gC2pKeyCount is the number of reads below the filter
\* between accesses (LyyKeyCap.c:311, 347), and c2pUnload frees no code in use
\* (lines 209-215), for any keyboards.
THEOREM CountGuards ==
  ASSUME OneProcessor
  PROVE  Spec => []CountGuardsUnload
<1>1. IInv => CountGuardsUnload
  BY DEF IInv, CountGuardsUnload, CountsReads
<1> QED
  BY <1>1, KeyInductive, PTL DEF Spec

-----------------------------------------------------------------------------
(***************************************************************************)
(* Ramdisk: the layout that RamdiskFormatDisk computes.                    *)
(***************************************************************************)

\* What is used of integer division.
LEMMA Quotient ==
  ASSUME NEW n \in Nat, NEW d \in Nat \ {0}
  PROVE  n \div d \in Nat /\ (n \div d) * d <= n /\ n < (n \div d) * d + d
OBVIOUS

\* A quotient is at least q if the dividend is q times the divisor, and falls
\* by no more than the dividend does.
LEMMA QuotientMonotonic ==
  ASSUME NEW n \in Nat, NEW d \in Nat \ {0}
  PROVE  /\ \A q \in Nat : q * d <= n => q <= n \div d
         /\ \A f \in Nat : f <= n => /\ (n - f) \div d <= n \div d
                                     /\ n \div d <= (n - f) \div d + f
<1>1. ASSUME NEW q \in Nat, q * d <= n
      PROVE  q <= n \div d
  <2> DEFINE r == n \div d
  <2>1. r \in Nat /\ n < r * d + d
    BY Quotient
  <2> HIDE DEF r
  <2>2. CASE q > r
    <3>1. PICK e \in Nat : q = r + 1 + e
      BY <2>1, <2>2
    <3>2. q * d = r * d + d + e * d
      BY <2>1, <3>1
    <3>3. e * d >= 0
      BY <3>1
    <3> QED
      BY <1>1, <2>1, <3>2, <3>3
  <2> QED
    BY <2>1, <2>2 DEF r
<1>2. ASSUME NEW f \in Nat, f <= n
      PROVE  (n - f) \div d <= n \div d /\ n \div d <= (n - f) \div d + f
  <2> DEFINE a == (n - f) \div d
             b == n \div d
  <2>1. n - f \in Nat
    BY <1>2
  <2>2. a \in Nat /\ a * d <= n - f /\ n - f < a * d + d
    BY <2>1, Quotient
  <2>3. b \in Nat /\ b * d <= n
    BY Quotient
  <2>4. a <= b
    BY <1>1, <2>2
  <2>5. CASE f <= b
    <3>1. (b - f) * d <= n - f
      <4>1. (b - f) * d = b * d - f * d /\ f * d >= f
        BY <2>3
      <4> QED
        BY <2>3, <4>1
    <3>2. \A q \in Nat : q * d <= n - f => q <= a
      <4>1. ASSUME NEW q \in Nat, q * d <= n - f, q > a
            PROVE  FALSE
        <5>1. PICK e \in Nat : q = a + 1 + e
          BY <2>2, <4>1
        <5>2. q * d = a * d + d + e * d /\ e * d >= 0
          BY <2>2, <5>1
        <5> QED
          BY <2>1, <2>2, <4>1, <5>2
      <4> QED
        BY <2>2, <4>1
    <3>3. b - f \in Nat
      BY <2>3, <2>5
    <3>4. b - f <= a
      BY <3>1, <3>2, <3>3
    <3> QED
      BY <2>2, <2>3, <2>4, <3>4
  <2>6. CASE f > b
    BY <2>2, <2>3, <2>4, <2>6
  <2> QED
    BY <2>3, <2>5, <2>6
<1> QED
  BY <1>1, <1>2

\* The sectors of a FAT hold all of its entries, and are not many more.
LEMMA SectorsHold ==
  ASSUME NEW type \in {12, 16}, NEW e \in Nat
  PROVE  /\ SectorsFor(type, e) \in Nat
         /\ e * type <= SectorsFor(type, e) * 512 * 8
         /\ e >= 1 => SectorsFor(type, e) >= 1
         /\ 256 * SectorsFor(type, e) <= 511 + e
<1>1. CASE type = 12
  BY <1>1 DEF SectorsFor
<1>2. CASE type = 16
  BY <1>2 DEF SectorsFor
<1> QED
  BY <1>1, <1>2

\* With two sectors or more to a cluster a disk has half as many clusters.
LEMMA AtLeastTwice ==
  ASSUME NEW n \in Nat, NEW d \in Nat, d >= 2
  PROVE  2 * n <= n * d
<1>1. PICK e \in Nat : d = 2 + e
  <2>1. d - 2 \in Nat /\ d = 2 + (d - 2)
    OBVIOUS
  <2> QED
    BY <2>1
<1>2. n * d = 2 * n + n * e /\ n * e >= 0
  BY <1>1
<1> QED
  BY <1>2

\* Half of a number of 16 bits.
LEMMA AtMostHalf ==
  ASSUME NEW all \in Nat, NEW used \in Int, NEW data \in Nat,
         2 * all <= used, used <= data, data <= 65535
  PROVE  all <= 65000 /\ all <= data
OBVIOUS

\* There are not more clusters than the 16 bits of a FAT entry can number.
LEMMA ClustersBound ==
  ASSUME NEW data \in Nat, NEW spc \in Nat, spc >= 1, spc = 1 => data <= 65000, data <= 65535,
         NEW all \in Nat, all * spc <= data
  PROVE  all <= 65000 /\ all <= data
<1>1. CASE spc = 1
  BY <1>1
<1>2. CASE spc >= 2
  <2>1. 2 * all <= all * spc
    BY <1>2, AtLeastTwice
  <2>2. all * spc \in Int
    OBVIOUS
  <2> QED
    BY <2>1, <2>2, AtMostHalf
<1> QED
  BY <1>1, <1>2

\* What two rounds of SectorsFor add up to.
LEMMA FatRounds ==
  ASSUME NEW first \in Nat, first >= 2, first <= 65002,
         NEW more \in Nat, more >= 1, 256 * more <= 511 + first,
         NEW fat \in Nat, 256 * fat <= 511 + first + more
  PROVE  /\ first + more <= 65535
         /\ 65536 * fat <= 131327 + 257 * first
OBVIOUS

\* The FAT as the code computes it, in two rounds: it holds the entries of the
\* first round, and no 16-bit quantity overflows.
LEMMA FatSize ==
  ASSUME NEW type \in {12, 16}, NEW first \in Nat, first >= 2, first <= 65002
  PROVE  \E more \in Nat, fat \in Nat :
         /\ more = SectorsFor(type, first) /\ fat = SectorsFor(type, first + more)
         /\ more >= 1 /\ first + more <= 65535
         /\ fat >= 1
         /\ (first + more) * type <= fat * 512 * 8
         /\ 65536 * fat <= 131327 + 257 * first
<1>1. first >= 1
  OBVIOUS
<1>2. /\ SectorsFor(type, first) \in Nat /\ SectorsFor(type, first) >= 1
      /\ 256 * SectorsFor(type, first) <= 511 + first
  BY <1>1, SectorsHold
<1>3. PICK more \in Nat : more = SectorsFor(type, first)
  BY <1>2
<1>4. more >= 1 /\ 256 * more <= 511 + first
  BY <1>2, <1>3
<1>5. PICK entries \in Nat : entries = first + more
  OBVIOUS
<1>6. entries >= 1 /\ 256 * entries <= 257 * first + 511
  BY <1>1, <1>4, <1>5
<1>7. /\ SectorsFor(type, entries) \in Nat /\ SectorsFor(type, entries) >= 1
      /\ 256 * SectorsFor(type, entries) <= 511 + entries
      /\ entries * type <= SectorsFor(type, entries) * 512 * 8
  BY <1>6, SectorsHold
<1>8. PICK fat \in Nat : fat = SectorsFor(type, entries)
  BY <1>7
<1>9. fat >= 1 /\ 256 * fat <= 511 + entries /\ entries * type <= fat * 512 * 8
  BY <1>7, <1>8
<1>10. entries <= 65535 /\ 65536 * fat <= 131327 + 257 * first
  BY <1>6, <1>9
<1>11. /\ more = SectorsFor(type, first) /\ fat = SectorsFor(type, first + more)
       /\ more >= 1 /\ first + more <= 65535
       /\ fat >= 1
       /\ (first + more) * type <= fat * 512 * 8
       /\ 65536 * fat <= 131327 + 257 * first
  BY <1>3, <1>4, <1>5, <1>8, <1>9, <1>10
<1> QED
  BY <1>11

\* The clusters left when the FAT has taken its sectors from the data area:
\* some are, and not many fewer than before.
LEMMA ClusterNumbers ==
  ASSUME NEW data \in Nat, NEW spc \in Nat, spc >= 1, spc <= 13,
         data >= 4 + 2 * spc, data <= 65535,
         NEW all \in Nat, all <= data, all * spc <= data, data < all * spc + spc,
         NEW fat \in Nat, 65536 * fat <= 131327 + 257 * (all + 2)
  PROVE  /\ fat <= data
         /\ (data - fat) \div spc \in Nat
         /\ (data - fat) \div spc >= 1
         /\ (data - fat) \div spc <= all
         /\ all <= (data - fat) \div spc + fat
         /\ all = 4085 /\ fat = 13 => (data - fat) \div spc < 4085
<1>1. fat <= data /\ fat + spc <= data
  OBVIOUS
<1>2. PICK n \in Nat : n = data - fat
  BY <1>1
<1>3. n >= spc
  BY <1>1, <1>2
<1>4. PICK clusters \in Nat : clusters = n \div spc /\ clusters * spc <= n /\ n < clusters * spc + spc
  BY Quotient
<1>5. clusters >= 1
  <2>1. clusters = 0 => clusters * spc = 0
    OBVIOUS
  <2> QED
    BY <1>3, <1>4, <2>1
<1>6. PICK b \in Nat : b = data \div spc /\ b * spc <= data /\ data < b * spc + spc
  BY Quotient
<1>7. b = all
  <2>1. \A q \in Nat : q * spc <= data => q <= b
    BY <1>6, QuotientMonotonic
  <2>2. all <= b
    BY <2>1
  <2>3. PICK e \in Nat : b = all + e
    BY <2>2
  <2>4. b * spc = all * spc + e * spc
    BY <2>3
  <2>5. e >= 1 => e * spc >= spc
    <3>1. ASSUME e >= 1
          PROVE  e * spc >= spc
      <4>1. PICK k \in Nat : e = k + 1
        BY <3>1
      <4>2. e * spc = k * spc + spc /\ k * spc >= 0
        BY <4>1
      <4> QED
        BY <4>2
    <3> QED
      BY <3>1
  <2>6. ~(e >= 1)
    BY <1>6, <2>4, <2>5
  <2> QED
    BY <2>3, <2>6
<1>8. clusters <= all /\ all <= clusters + fat
  <2>1. (data - fat) \div spc <= data \div spc /\ data \div spc <= (data - fat) \div spc + fat
    BY <1>1, QuotientMonotonic
  <2> QED
    BY <2>1, <1>2, <1>4, <1>6, <1>7
<1>9. ASSUME all = 4085, fat = 13
      PROVE  clusters < 4085
  <2>1. CASE clusters >= 4085
    <3>1. clusters = 4085
      BY <1>8, <1>9, <2>1
    <3>2. 4085 * spc <= data - 13 /\ data < 4085 * spc + spc
      BY <1>2, <1>4, <1>9, <3>1
    <3> QED
      BY <3>2
  <2> QED
    BY <2>1
<1> QED
  BY <1>1, <1>2, <1>4, <1>5, <1>8, <1>9

\* What FatLayout returns, and that it fits.
IsLayout(sectors, root, spc, rs, fat, clusters, type) ==
  /\ fat \in Nat /\ clusters \in Nat /\ type \in {12, 16}
  /\ FatLayout(sectors, root, spc) = [type |-> type, fatSectors |-> fat]
  /\ clusters = (sectors - 1 - fat - rs) \div spc
  /\ clusters > 0
  /\ (clusters + 2) * type <= fat * 512 * 8
  /\ clusters >= 4085 => type = 16
  /\ clusters + fat < 4085 => type = 12

\* RegistryInRange, in sectors.
SizesInRange(sectors, root, spc, rs) ==
  /\ spc >= 1 /\ spc <= 13 /\ rs = root \div 16
  /\ sectors >= 5 + rs + 2 * spc /\ sectors <= 65535 /\ (spc = 1 => sectors <= 65000)

\* The layout of a disk in this range is one that a file system accepts.
LEMMA LayoutNumbers ==
  ASSUME NEW sectors \in Nat, NEW root \in Nat, NEW spc \in Nat, NEW rs \in Nat,
         SizesInRange(sectors, root, spc, rs)
  PROVE  \E fat, clusters, type :
           IsLayout(sectors, root, spc, rs, fat, clusters, type)
<1>1. /\ spc >= 1 /\ spc <= 13 /\ rs = root \div 16
      /\ sectors >= 5 + rs + 2 * spc /\ sectors <= 65535 /\ (spc = 1 => sectors <= 65000)
  BY DEF SizesInRange
<1>2. PICK data \in Nat : data = sectors - 1 - rs
  BY <1>1
<1>3. data >= 4 + 2 * spc /\ data <= 65535 /\ (spc = 1 => data <= 65000)
  BY <1>1, <1>2
<1>4. PICK all \in Nat : all = data \div spc /\ all * spc <= data /\ data < all * spc + spc
  BY <1>1, Quotient
<1>5. all <= 65000 /\ all <= data
  BY <1>1, <1>3, <1>4, ClustersBound
<1>6. PICK first \in Nat : first = all + 2 /\ first >= 2 /\ first <= 65002
  BY <1>5
<1>7. first = USHORT((sectors - 1 - root \div 16) \div spc + 2)
  BY <1>1, <1>2, <1>4, <1>6 DEF USHORT
<1>8. PICK type \in {12, 16} : type = IF first > 4087 THEN 16 ELSE 12
  OBVIOUS
<1>9. PICK more \in Nat, fat \in Nat :
         /\ more = SectorsFor(type, first) /\ fat = SectorsFor(type, first + more)
         /\ more >= 1 /\ first + more <= 65535
         /\ fat >= 1
         /\ (first + more) * type <= fat * 512 * 8
         /\ 65536 * fat <= 131327 + 257 * first
  BY <1>6, FatSize
<1>10. USHORT(first + more) = first + more
  BY <1>9 DEF USHORT
<1>11. FatLayout(sectors, root, spc) = [type |-> type, fatSectors |-> fat]
  BY <1>7, <1>8, <1>9, <1>10 DEF FatLayout
<1>12. 65536 * fat <= 131327 + 257 * (all + 2)
  BY <1>6, <1>9
<1>13. /\ fat <= data
       /\ (data - fat) \div spc \in Nat
       /\ (data - fat) \div spc >= 1
       /\ (data - fat) \div spc <= all
       /\ all <= (data - fat) \div spc + fat
       /\ all = 4085 /\ fat = 13 => (data - fat) \div spc < 4085
  BY <1>1, <1>3, <1>4, <1>5, <1>12, ClusterNumbers
<1>14. PICK clusters \in Nat : clusters = (data - fat) \div spc
  BY <1>13
<1>15. clusters = (sectors - 1 - fat - rs) \div spc
  <2>1. data - fat = sectors - 1 - fat - rs
    BY <1>2
  <2> QED
    BY <1>14, <2>1
<1>16. (clusters + 2) * type <= fat * 512 * 8
  <2>1. clusters + 2 <= first + more
    BY <1>6, <1>13, <1>14
  <2>2. CASE type = 12
    BY <1>9, <2>1, <2>2
  <2>3. CASE type = 16
    BY <1>9, <2>1, <2>3
  <2> QED
    BY <2>2, <2>3
<1>17. all = 4085 => fat = 13
  <2>1. ASSUME all = 4085
        PROVE  fat = 13
    <3>1. first = 4087 /\ type = 12
      BY <1>6, <1>8, <2>1
    <3>2. more = 12
      BY <1>9, <3>1 DEF SectorsFor
    <3> QED
      BY <1>9, <3>1, <3>2 DEF SectorsFor
  <2> QED
    BY <2>1
<1>18. clusters >= 4085 => type = 16
  BY <1>6, <1>8, <1>13, <1>14, <1>17
<1>19. clusters + fat < 4085 => type = 12
  BY <1>6, <1>8, <1>13, <1>14
<1>20. clusters > 0
  BY <1>13, <1>14
<1>21. IsLayout(sectors, root, spc, rs, fat, clusters, type)
  BY <1>11, <1>15, <1>16, <1>18, <1>19, <1>20 DEF IsLayout
<1> QED
  BY <1>21

\* The root directory entries are rounded up to whole sectors.
LEMMA RootSectors ==
  ASSUME NEW root \in Nat, root <= 65520
  PROVE  /\ USHORT(RootDirEntries(root)) \in Nat
         /\ USHORT(RootDirEntries(root)) \div 16 = (root + 15) \div 16
<1>1. PICK q \in Nat : q = (root + 15) \div 16 /\ q * 16 <= root + 15
  OBVIOUS
<1>2. q * 16 <= 65535
  BY <1>1
<1>3. USHORT(q * 16) = q * 16
  BY <1>2 DEF USHORT
<1>4. RootDirEntries(root) = q * 16
  BY <1>1 DEF RootDirEntries
<1>5. (q * 16) \div 16 = q
  OBVIOUS
<1> QED
  BY <1>1, <1>3, <1>4, <1>5

\* A number of 16 bits is not truncated.
LEMMA SmallUshort ==
  ASSUME NEW n \in Nat, n <= 65535
  PROVE  USHORT(n) = n
BY DEF USHORT

\* The boot sector that PRamdisk writes.
BootRecord(type, fat, sectors, rs, spc) ==
  [type |-> type, fatSectors |-> fat, sectors |-> sectors, rootSectors |-> rs,
   spc |-> spc, size |-> sectors, reserved |-> 3]

\* The boot sector that is written describes such a layout.
LEMMA BootSectorFits ==
  ASSUME NEW p, RegistryInRange, p \in Registry
  PROVE  /\ Fits(BootSector(p))
         /\ \E type, fat, sectors, rs, spc :
              type \in {12, 16} /\ BootSector(p) = BootRecord(type, fat, sectors, rs, spc)
<1>1. p.size \in Nat /\ p.root \in Nat /\ p.spc \in Nat
  BY DEF RegistryInRange
<1>2. PICK size \in Nat, proot \in Nat, spc \in Nat :
         size = p.size /\ proot = p.root /\ spc = p.spc
  BY <1>1
<1>3. /\ proot <= 65520 /\ spc # 0 /\ spc <= 13
      /\ size \div 512 <= 65535 /\ (spc = 1 => size \div 512 <= 65000)
      /\ size \div 512 >= 5 + (proot + 15) \div 16 + 2 * spc
  BY <1>2 DEF RegistryInRange
<1>4. PICK sectors \in Nat : sectors = size \div 512
  OBVIOUS
<1>5. PICK rs \in Nat : rs = (proot + 15) \div 16
  OBVIOUS
<1>6. /\ proot <= 65520 /\ spc >= 1 /\ spc <= 13
      /\ sectors <= 65535 /\ (spc = 1 => sectors <= 65000)
      /\ sectors >= 5 + rs + 2 * spc
  BY <1>3, <1>4, <1>5
<1>7. /\ USHORT(RootDirEntries(proot)) \in Nat
      /\ USHORT(RootDirEntries(proot)) \div 16 = (proot + 15) \div 16
  BY <1>6, RootSectors
<1>8. PICK root \in Nat : root = USHORT(RootDirEntries(proot))
  BY <1>7
<1>9. root = USHORT(RootDirEntries(proot)) /\ rs = root \div 16
  BY <1>5, <1>7, <1>8
<1>10. USHORT(sectors) = sectors
  BY <1>6, SmallUshort
<1>11. p.spc % 256 = spc
  BY <1>2, <1>6
<1>12. SizesInRange(sectors, root, spc, rs)
  BY <1>6, <1>9 DEF SizesInRange
<1>13. PICK fat, clusters, type :
           IsLayout(sectors, root, spc, rs, fat, clusters, type)
  BY <1>12, LayoutNumbers
<1>14. BootSector(p) = BootRecord(type, fat, sectors, rs, spc)
  <2>1. p.size \div 512 = sectors
    BY <1>2, <1>4
  <2>2. USHORT(p.size \div 512) = sectors
    BY <1>10, <2>1
  <2>3. USHORT(RootDirEntries(p.root)) = root
    BY <1>2, <1>9
  <2>4. FatLayout(sectors, root, spc).type = type /\ FatLayout(sectors, root, spc).fatSectors = fat
    BY <1>13 DEF IsLayout
  <2>5. root \div 16 = rs
    BY <1>9
  <2> QED
    BY <2>1, <2>2, <2>3, <2>4, <2>5, <1>11 DEF BootSector, BootRecord
<1>15. Clusters(BootSector(p)) = clusters
  BY <1>13, <1>14 DEF Clusters, IsLayout, BootRecord
<1>16. Fits(BootSector(p))
  BY <1>13, <1>14, <1>15 DEF Fits, IsLayout, BootRecord
<1>17. type \in {12, 16}
  BY <1>13 DEF IsLayout
<1> QED
  BY <1>14, <1>16, <1>17

\* Four reserved bytes instead of three do not change the layout.
LEMMA ReservedFits ==
  ASSUME NEW type \in {12, 16}, NEW fat, NEW sectors, NEW rs, NEW spc, NEW boot,
         boot = BootRecord(type, fat, sectors, rs, spc),
         Fits(boot), NEW f, f = [boot EXCEPT !.reserved = IF boot.type = 16 THEN 4 ELSE 3]
  PROVE  Fits(f) /\ f.reserved * 8 >= 2 * f.type
<1>1. /\ f.type = boot.type /\ f.fatSectors = boot.fatSectors /\ f.sectors = boot.sectors
      /\ f.rootSectors = boot.rootSectors /\ f.spc = boot.spc /\ f.size = boot.size
  BY DEF BootRecord
<1>2. Clusters(f) = Clusters(boot)
  BY <1>1, Zenon DEF Clusters
<1>3. Fits(f)
  BY <1>1, <1>2 DEF Fits
<1>4. f.reserved * 8 >= 2 * f.type
  <2>1. CASE type = 12
    BY <2>1 DEF BootRecord
  <2>2. CASE type = 16
    BY <2>2 DEF BootRecord
  <2> QED
    BY <2>1, <2>2
<1> QED
  BY <1>3, <1>4


\* Both copies lay the disk out so that a file system finds room for every
\* cluster in the FAT and derives the FAT type that is written, for all
\* parameters of the registry in this range (RamdiskFormatDisk, 250-404).
THEOREM LayoutFits ==
  ASSUME RegistryInRange
  PROVE  LayoutsFit
<1>1. ASSUME NEW f \in LayoutsP
      PROVE  Fits(f)
  BY BootSectorFits, Zenon DEF LayoutsP, FormatDiskP
<1>2. ASSUME NEW f \in LayoutsLyy
      PROVE  Fits(f) /\ f.reserved * 8 >= 2 * f.type
  <2>1. PICK p \in Registry : f = FormatDiskLyy(p)
    BY DEF LayoutsLyy
  <2>2. PICK boot : boot = BootSector(p)
    OBVIOUS
  <2>3. f = [boot EXCEPT !.reserved = IF boot.type = 16 THEN 4 ELSE 3]
    BY <2>1, <2>2 DEF FormatDiskLyy
  <2>4. PICK type, fat, sectors, rs, spc :
          type \in {12, 16} /\ boot = BootRecord(type, fat, sectors, rs, spc)
    BY <2>2, BootSectorFits
  <2>5. Fits(boot)
    BY <2>2, BootSectorFits
  <2> QED
    BY <2>3, <2>4, <2>5, ReservedFits
<1> QED
  BY <1>1, <1>2 DEF LayoutsFit

-----------------------------------------------------------------------------
(***************************************************************************)
(* Ramdisk: the requests.                                                  *)
(***************************************************************************)

\* The initial state satisfies RamInv.
LEMMA RamInitially == RamInit => RamInv
<1>1. ASSUME RamInit
      PROVE  RamInv
  <2> USE <1>1 DEF RamInit
  <2>1. RamTypeOK
    BY DEF RamTypeOK
  <2>2. ASSUME NEW c \in RamClients
        PROVE  RequestInv(c)
    <3>1. ramServing # c
      BY RamAssumption
    <3> QED
      BY <3>1 DEF RequestInv, Requests, NoRequest, Contents
  <2>3. ImageInv
    BY DEF ImageInv
  <2> QED
    BY <2>1, <2>2, <2>3 DEF RamInv
<1> QED
  BY <1>1

\* A request is not disturbed by a step that leaves it alone and, if it is
\* being copied, leaves the memory and the geometry alone.
LEMMA OtherRequest ==
  ASSUME NEW d \in RamClients, RequestInv(d), ramReq'[d] = ramReq[d],
         ramServing' = d <=> ramServing = d,
         ramReq[d].ok => ramSector' = ramSector /\ ramMemory' = ramMemory
  PROVE  RequestInv(d)'
BY DEF RequestInv, CheckParameters

\* The device is added, with an image or without.
LEMMA RamAddStep ==
  ASSUME RamInv, DeviceAddLyy \/ DeviceAddP
  PROVE  RamInv'
<1>1. /\ ramCopy = "none" /\ ramCopy' \in {"LyyRamdisk", "PRamdisk"}
      /\ ramServing = NoClient /\ ramServing' = NoClient /\ ramReq' = ramReq
      /\ ramSector = 0 /\ ramImage = <<>> /\ ramMemory = <<>>
      /\ AddFormatted \/ AddStarved
  BY RamAssumption DEF DeviceAddLyy, DeviceAddP, RamInv
<1>2. \/ ramSector' = 0 /\ ramImage' = <<>> /\ ramMemory' = <<>>
      \/ /\ ramSector' = UnitsPerSector
         /\ ramImage' \in [Units -> Contents] /\ ramMemory' \in [Units -> Contents]
         /\ ramMemory' = ramImage'
  <2>1. CASE AddStarved
    BY <1>1, <2>1 DEF AddStarved
  <2>2. CASE AddFormatted
    BY <2>2 DEF AddFormatted, Contents
  <2> QED
    BY <1>1, <2>1, <2>2
<1>3. RamTypeOK'
  BY <1>1, <1>2 DEF RamTypeOK
<1>4. ASSUME NEW d \in RamClients
      PROVE  RequestInv(d)'
  <2>1. RequestInv(d)
    BY DEF RamInv
  <2>2. ~ramReq[d].ok
    BY <1>1, <2>1, RamAssumption DEF RequestInv
  <2> QED
    BY <1>1, <2>1, <2>2, OtherRequest
<1>5. ImageInv'
  BY <1>1, <1>2 DEF ImageInv
<1> QED
  BY <1>1, <1>2, <1>3, <1>4, <1>5 DEF RamInv

\* A request is sent.
LEMMA RamSendStep ==
  ASSUME RamInv, NEW c \in RamClients, NEW op \in {"read", "write", "partition", "control"},
         NEW off \in Int, NEW len \in Nat, Send(c, op, off, len)
  PROVE  RamInv'
<1> DEFINE r == [op |-> op, off |-> off, len |-> len, done |-> 0, ok |-> FALSE, data |-> <<>>]
<1>1. /\ ramReq[c].op = "none" /\ ramReq' = [ramReq EXCEPT ![c] = r]
      /\ UNCHANGED <<ramCopy, ramImage, ramSector, ramServing, ramMemory>>
  BY DEF Send
<1>2. ramServing # c
  BY <1>1 DEF RamInv, RequestInv
<1>3. DOMAIN ramReq = RamClients /\ DOMAIN ramReq' = RamClients
  BY <1>1 DEF RamInv
<1>4. RequestInv(c)'
  <2>1. ramReq'[c] = r
    BY <1>1, <1>3
  <2>2. <<>> \in Seq(Contents)
    OBVIOUS
  <2>3. r \in Requests
    BY <2>2 DEF Requests
  <2> QED
    BY <1>1, <1>2, <2>1, <2>3 DEF RequestInv, Requests
<1>5. ASSUME NEW d \in RamClients
      PROVE  RequestInv(d)'
  <2>1. CASE d # c
    BY <1>1, <1>3, <2>1, OtherRequest DEF RamInv
  <2> QED
    BY <1>4, <2>1
<1>6. ImageInv'
  <2>1. ramServing # NoClient => ramServing \in RamClients /\ ramReq'[ramServing] = ramReq[ramServing]
    BY <1>1, <1>2, <1>3 DEF RamInv, RamTypeOK
  <2> QED
    BY <1>1, <2>1 DEF ImageInv, RamInv
<1> QED
  BY <1>1, <1>3, <1>5, <1>6 DEF RamInv, RamTypeOK

\* A request is dispatched, or refused.
LEMMA RamDispatchStep ==
  ASSUME RamInv, NEW c \in RamClients, Dispatch(c), ramCopy # "none"
  PROVE  RamInv'
<1>1. /\ ramReq[c].op \in {"read", "write"} /\ ~ramReq[c].ok /\ ramServing = NoClient
      /\ UNCHANGED <<ramCopy, ramImage, ramSector, ramMemory>>
  BY DEF Dispatch, MayDispatch
<1>2. DOMAIN ramReq = RamClients /\ RequestInv(c) /\ c # NoClient
  BY RamAssumption DEF RamInv
<1>3. CASE /\ CheckParameters(ramReq[c].off, ramReq[c].len)
           /\ ramServing' = c
           /\ ramReq' = [ramReq EXCEPT ![c].ok = TRUE]
  <2>1. ramReq'[c] = [ramReq[c] EXCEPT !.ok = TRUE] /\ DOMAIN ramReq' = RamClients
    BY <1>2, <1>3
  <2>2. /\ ramReq[c] \in Requests /\ ramReq[c].done = 0 /\ ramReq[c].data = <<>>
    BY <1>1, <1>2 DEF RequestInv, Requests
  <2>3. /\ ramReq'[c] \in Requests /\ ramReq'[c].op = ramReq[c].op /\ ramReq'[c].off = ramReq[c].off
        /\ ramReq'[c].len = ramReq[c].len /\ ramReq'[c].done = 0 /\ ramReq'[c].data = <<>>
        /\ ramReq'[c].ok = TRUE /\ ramReq'[c].len \in Nat
    BY <2>1, <2>2 DEF Requests
  <2>4. CheckParameters(ramReq[c].off, ramReq[c].len)'
    BY <1>1, <1>3, <2>3 DEF CheckParameters
  <2>5. RequestInv(c)'
    BY <1>1, <1>3, <2>3, <2>4 DEF RequestInv, Requests
  <2>6. ASSUME NEW d \in RamClients
        PROVE  RequestInv(d)'
    <3>1. CASE d # c
      BY <1>1, <1>2, <1>3, <3>1, OtherRequest, RamAssumption DEF RamInv
    <3> QED
      BY <2>5, <3>1
  <2>7. ImageInv'
    <3>1. ramReq'[c].done = 0
      BY <1>1, <1>2, <2>1 DEF RequestInv
    <3>2. ASSUME NEW u \in DOMAIN ramMemory
          PROVE  ramImage[u] = ramMemory[u]
      BY <1>1 DEF RamInv, ImageInv
    <3> QED
      BY <1>1, <1>2, <1>3, <3>1, <3>2 DEF ImageInv
  <2> QED
    BY <1>1, <1>3, <2>1, <2>6, <2>7 DEF RamInv, RamTypeOK
<1>4. CASE ramReq' = [ramReq EXCEPT ![c] = NoRequest] /\ UNCHANGED ramServing
  <2>1. ramReq'[c] = NoRequest /\ DOMAIN ramReq' = RamClients
    BY <1>2, <1>4
  <2>2. RequestInv(c)'
    BY <1>1, <1>2, <1>4, <2>1 DEF RequestInv, Requests, NoRequest
  <2>3. ASSUME NEW d \in RamClients
        PROVE  RequestInv(d)'
    <3>1. CASE d # c
      BY <1>1, <1>2, <1>4, <3>1, OtherRequest DEF RamInv
    <3> QED
      BY <2>2, <3>1
  <2>4. ImageInv'
    BY <1>1, <1>4 DEF RamInv, ImageInv
  <2> QED
    BY <1>1, <1>4, <2>1, <2>3, <2>4 DEF RamInv, RamTypeOK
<1> QED
  BY <1>3, <1>4 DEF Dispatch

\* A request that copies has its copy in the image.
LEMMA CopyInside ==
  ASSUME RamInv, NEW c \in RamClients, ramReq[c].ok,
         NEW k \in Nat, k < ramReq[c].len
  PROVE  /\ ramReq[c].off + k \in Units
         /\ ramImage \in [Units -> Contents] /\ ramMemory \in [Units -> Contents]
<1>1. /\ ramReq[c].off \in Int /\ ramReq[c].len \in Nat
      /\ CheckParameters(ramReq[c].off, ramReq[c].len)
  BY DEF RamInv, RequestInv, Requests
<1>2. PICK off \in Int, len \in Nat : off = ramReq[c].off /\ len = ramReq[c].len
  BY <1>1
<1>3. off >= 0 /\ off <= RamUnits - len /\ (ramSector = 0 => len = 0)
  BY <1>1, <1>2 DEF CheckParameters
<1>4. off + k \in Units
  BY <1>2, <1>3, RamAssumption DEF Units
<1>5. ramSector # 0
  BY <1>2, <1>3
<1> QED
  BY <1>2, <1>4, <1>5 DEF RamInv

\* A unit is read: what is in the memory, because no write is under way.
LEMMA RamReadStep ==
  ASSUME RamInv, NEW c \in RamClients, EvtIoRead(c)
  PROVE  RamInv'
<1>1. PICK r, u, q : /\ r = ramReq[c] /\ u = r.off + r.done
                     /\ q = [r EXCEPT !.done = @ + 1, !.data = Append(@, ramImage[u])]
  OBVIOUS
<1>2. /\ r.op = "read" /\ r.ok /\ r.done < r.len
      /\ ramReq' = [ramReq EXCEPT ![c] = q]
      /\ UNCHANGED <<ramCopy, ramImage, ramSector, ramServing, ramMemory>>
  BY <1>1 DEF EvtIoRead, Copying
<1>3. /\ r \in Requests /\ ramServing = c /\ CheckParameters(r.off, r.len) /\ Len(r.data) = r.done
      /\ \A k \in 1 .. r.done : r.data[k] = ramMemory[r.off + k - 1]
  BY <1>1, <1>2 DEF RamInv, RequestInv
<1>4. r.off \in Int /\ r.len \in Nat /\ r.done \in Nat /\ r.data \in Seq(Contents)
  BY <1>3 DEF Requests
<1>5. u \in Units /\ ramImage \in [Units -> Contents] /\ ramMemory \in [Units -> Contents]
  BY <1>1, <1>2, <1>4, CopyInside
<1>6. ramImage[u] = ramMemory[u] /\ ramImage[u] \in Contents
  <2>1. ImageInv /\ DOMAIN ramMemory = Units
    BY <1>5 DEF RamInv
  <2> QED
    BY <1>1, <1>2, <1>3, <1>5, <2>1 DEF ImageInv
<1>7. DOMAIN ramReq = RamClients /\ DOMAIN ramReq' = RamClients /\ ramReq'[c] = q
  BY <1>2 DEF RamInv
<1>8. PICK old \in Seq(Contents), x \in Contents, n \in Nat :
        old = r.data /\ x = ramImage[u] /\ n = r.done
  BY <1>4, <1>6
<1>9. PICK data \in Seq(Contents) : data = Append(old, x)
  <2>1. Append(old, x) \in Seq(Contents)
    OBVIOUS
  <2> QED
    BY <2>1
<1>10. /\ Len(data) = r.done + 1
       /\ \A k \in 1 .. r.done : data[k] = r.data[k]
       /\ data[r.done + 1] = ramImage[u]
  <2>1. Len(old) = n
    BY <1>3, <1>8
  <2>2. Len(data) = n + 1 /\ (\A k \in 1 .. n : data[k] = old[k]) /\ data[n + 1] = x
    BY <1>9, <2>1
  <2> QED
    BY <1>8, <2>2
<1>11. q = [r EXCEPT !.done = n + 1, !.data = data]
  BY <1>1, <1>8, <1>9
<1>12. /\ q \in Requests /\ q.op = r.op /\ q.off = r.off /\ q.len = r.len /\ q.ok = r.ok
       /\ q.done = r.done + 1 /\ q.data = data
  <2>1. n + 1 \in Nat
    OBVIOUS
  <2> QED
    BY <1>3, <1>8, <1>11, <2>1 DEF Requests
<1>13. \A k \in 1 .. r.done + 1 : data[k] = ramMemory[r.off + k - 1]
  <2>1. ASSUME NEW k \in 1 .. r.done + 1
        PROVE  data[k] = ramMemory[r.off + k - 1]
    <3>1. CASE k = r.done + 1
      <4>1. data[r.done + 1] = ramMemory[u]
        BY <1>6, <1>10
      <4>2. r.off + (r.done + 1) - 1 = u
        BY <1>1, <1>4
      <4> QED
        BY <3>1, <4>1, <4>2
    <3>2. CASE k \in 1 .. r.done
      <4>1. data[k] = r.data[k]
        BY <1>10, <3>2, Zenon
      <4>2. r.data[k] = ramMemory[r.off + k - 1]
        BY <1>3, <3>2, Zenon
      <4> QED
        BY <4>1, <4>2
    <3> QED
      BY <1>4, <3>1, <3>2
  <2> QED
    BY <2>1
<1>14. RequestInv(c)'
  <2>1. q.done <= q.len
    BY <1>2, <1>4, <1>12
  <2>2. Len(q.data) = q.done /\ \A k \in 1 .. q.done : q.data[k] = ramMemory[q.off + k - 1]
    BY <1>10, <1>12, <1>13
  <2>3. CheckParameters(q.off, q.len)'
    BY <1>2, <1>3, <1>12 DEF CheckParameters
  <2> QED
    BY <1>2, <1>3, <1>7, <1>12, <2>1, <2>2, <2>3 DEF RequestInv
<1>15. ASSUME NEW d \in RamClients
       PROVE  RequestInv(d)'
  <2>1. CASE d # c
    BY <1>2, <1>7, <2>1, OtherRequest DEF RamInv
  <2> QED
    BY <1>14, <2>1
<1>16. ImageInv'
  BY <1>1, <1>2, <1>3, <1>7, <1>12 DEF ImageInv, RamInv
<1> QED
  BY <1>2, <1>7, <1>15, <1>16 DEF RamInv, RamTypeOK

\* A unit is written into the image.
LEMMA RamWriteStep ==
  ASSUME RamInv, NEW c \in RamClients, EvtIoWrite(c)
  PROVE  RamInv'
<1>1. PICK r, u, q : /\ r = ramReq[c] /\ u = r.off + r.done
                     /\ q = [r EXCEPT !.done = @ + 1]
  OBVIOUS
<1>2. /\ r.op = "write" /\ r.ok /\ r.done < r.len
      /\ ramReq' = [ramReq EXCEPT ![c] = q]
      /\ ramImage' = [ramImage EXCEPT ![u] = c]
      /\ UNCHANGED <<ramCopy, ramSector, ramServing, ramMemory>>
  BY <1>1 DEF EvtIoWrite, Copying
<1>3. /\ r \in Requests /\ ramServing = c /\ CheckParameters(r.off, r.len) /\ r.data = <<>>
  BY <1>1, <1>2 DEF RamInv, RequestInv
<1>4. r.off \in Int /\ r.len \in Nat /\ r.done \in Nat
  BY <1>3 DEF Requests
<1>5. u \in Units /\ ramImage \in [Units -> Contents] /\ ramMemory \in [Units -> Contents]
  BY <1>1, <1>2, <1>4, CopyInside
<1>6. /\ q \in Requests /\ q.op = r.op /\ q.off = r.off /\ q.len = r.len /\ q.ok = r.ok
      /\ q.done = r.done + 1 /\ q.data = r.data
  BY <1>1, <1>3, <1>4 DEF Requests
<1>7. DOMAIN ramReq = RamClients /\ DOMAIN ramReq' = RamClients /\ ramReq'[c] = q
  BY <1>2 DEF RamInv
<1>8. ramImage' \in [Units -> Contents]
  BY <1>2, <1>5 DEF Contents
<1>9. ASSUME NEW v \in Units
      PROVE  ramImage'[v] = IF v - r.off \in 0 .. r.done THEN c ELSE ramMemory[v]
  <2>1. ramImage[v] = IF v - r.off \in 0 .. r.done - 1 THEN c ELSE ramMemory[v]
    <3>1. ImageInv /\ DOMAIN ramMemory = Units
      BY <1>5 DEF RamInv
    <3>2. c # NoClient
      BY RamAssumption
    <3> QED
      BY <1>1, <1>2, <1>3, <3>1, <3>2 DEF ImageInv
  <2>2. v \in Int /\ u \in Int
    BY <1>1, <1>4, RamAssumption DEF Units
  <2>3. CASE v = u
    BY <1>1, <1>2, <1>4, <1>5, <2>3
  <2>4. CASE v # u
    <3>1. ramImage'[v] = ramImage[v]
      BY <1>2, <1>5, <2>4
    <3>2. v - r.off \in 0 .. r.done <=> v - r.off \in 0 .. r.done - 1
      BY <1>1, <1>4, <2>2, <2>4
    <3> QED
      BY <2>1, <3>1, <3>2
  <2> QED
    BY <2>3, <2>4
<1>10. RequestInv(c)'
  <2>1. q.done <= q.len
    BY <1>2, <1>4, <1>6
  <2>2. CheckParameters(q.off, q.len)'
    BY <1>2, <1>3, <1>6 DEF CheckParameters
  <2> QED
    BY <1>2, <1>3, <1>7, <1>6, <2>1, <2>2 DEF RequestInv
<1>11. ASSUME NEW d \in RamClients
       PROVE  RequestInv(d)'
  <2>1. CASE d # c
    BY <1>2, <1>7, <2>1, OtherRequest DEF RamInv
  <2> QED
    BY <1>10, <2>1
<1>12. ImageInv'
  <2>1. q.done - 1 = r.done /\ q.op = "write" /\ q.off = r.off
    BY <1>2, <1>4, <1>6
  <2>2. ramServing' = c /\ c # NoClient /\ ramMemory' = ramMemory /\ DOMAIN ramMemory = Units
    BY <1>2, <1>3, <1>5, RamAssumption
  <2> QED
    BY <1>7, <1>9, <2>1, <2>2 DEF ImageInv
<1>13. ramSector = UnitsPerSector
  <2>1. r.len > 0
    BY <1>2, <1>4
  <2>2. ramSector # 0
    BY <1>3, <2>1 DEF CheckParameters
  <2> QED
    BY <2>2 DEF RamInv
<1> QED
  BY <1>2, <1>5, <1>7, <1>8, <1>11, <1>12, <1>13 DEF RamInv, RamTypeOK

\* The request is completed: what a write has copied becomes the memory.
LEMMA RamCompleteStep ==
  ASSUME RamInv, NEW c \in RamClients, Complete(c)
  PROVE  RamInv'
<1>1. PICK r, off, len : r = ramReq[c] /\ off = r.off /\ len = r.len
  OBVIOUS
<1>2. /\ r.ok /\ r.done = len
      /\ ramReq' = [ramReq EXCEPT ![c] = NoRequest]
      /\ ramServing' = NoClient
      /\ ramMemory' = IF r.op = "write"
                      THEN [u \in DOMAIN ramMemory |->
                              IF u \in off .. off + len - 1 THEN c ELSE ramMemory[u]]
                      ELSE ramMemory
      /\ UNCHANGED <<ramCopy, ramImage, ramSector>>
  BY <1>1 DEF Complete
<1>3. r \in Requests /\ ramServing = c /\ c # NoClient
  BY <1>1, <1>2, RamAssumption DEF RamInv, RequestInv
<1>4. off \in Int /\ len \in Nat
  BY <1>1, <1>3 DEF Requests
<1>5. DOMAIN ramReq = RamClients /\ DOMAIN ramReq' = RamClients /\ ramReq'[c] = NoRequest
  BY <1>2 DEF RamInv
<1>6. ASSUME NEW d \in RamClients
      PROVE  RequestInv(d)'
  <2>1. CASE d # c
    <3>1. RequestInv(d) /\ ~ramReq[d].ok /\ ramReq'[d] = ramReq[d]
      BY <1>2, <1>3, <1>5, <2>1 DEF RamInv, RequestInv
    <3>2. ramServing' = d <=> ramServing = d
      BY <1>2, <1>3, <2>1, RamAssumption
    <3> QED
      BY <3>1, <3>2, OtherRequest
  <2>2. CASE d = c
    <3>1. NoRequest \in Requests
      <4>1. <<>> \in Seq(Contents)
        OBVIOUS
      <4> QED
        BY <4>1 DEF NoRequest, Requests
    <3> QED
      BY <1>2, <1>3, <1>5, <2>2, <3>1 DEF RequestInv, NoRequest
  <2> QED
    BY <2>1, <2>2
<1>7. \/ ramSector = 0 /\ ramImage = <<>> /\ ramMemory = <<>>
      \/ /\ ramSector = UnitsPerSector
         /\ ramImage \in [Units -> Contents] /\ ramMemory \in [Units -> Contents]
  BY DEF RamInv
<1>8. \/ ramSector' = 0 /\ ramImage' = <<>> /\ ramMemory' = <<>>
      \/ /\ ramSector' = UnitsPerSector
         /\ ramImage' \in [Units -> Contents] /\ ramMemory' \in [Units -> Contents]
  <2>1. CASE ramSector = UnitsPerSector /\ ramImage \in [Units -> Contents]
             /\ ramMemory \in [Units -> Contents]
    <3>1. ramMemory' \in [Units -> Contents]
      BY <1>2, <2>1 DEF Contents
    <3> QED
      BY <1>2, <2>1, <3>1
  <2>2. CASE ramSector = 0 /\ ramImage = <<>> /\ ramMemory = <<>>
    <3>1. ramMemory' = <<>>
      <4>1. [u \in DOMAIN <<>> |-> IF u \in off .. off + len - 1 THEN c ELSE <<>>[u]] = <<>>
        OBVIOUS
      <4> QED
        BY <1>2, <2>2, <4>1
    <3> QED
      BY <1>2, <2>2, <3>1
  <2> QED
    BY <1>7, <2>1, <2>2
<1>9. ImageInv'
  <2>1. ASSUME NEW u \in DOMAIN ramMemory
        PROVE  ramImage[u] = ramMemory'[u]
    <3>1. ramImage[u] = IF r.op = "write" /\ u - off \in 0 .. len - 1 THEN c ELSE ramMemory[u]
      BY <1>1, <1>2, <1>3 DEF RamInv, ImageInv
    <3>2. u \in Int
      BY <1>7, RamAssumption DEF Units
    <3>3. u \in off .. off + len - 1 <=> u - off \in 0 .. len - 1
      BY <1>4, <3>2
    <3> QED
      BY <1>2, <3>1, <3>3
  <2>2. DOMAIN ramMemory' = DOMAIN ramMemory
    BY <1>2
  <2> QED
    BY <1>2, <2>1, <2>2 DEF ImageInv
<1>10. ramCopy # "none"
  BY <1>3 DEF RamInv
<1> QED
  BY <1>2, <1>5, <1>6, <1>8, <1>9, <1>10 DEF RamInv, RamTypeOK

\* A device control is answered.
LEMMA RamControlStep ==
  ASSUME RamInv, NEW c \in RamClients, DeviceControl(c), ramCopy # "none"
  PROVE  RamInv'
<1>1. /\ ramReq[c].op \in {"partition", "control"}
      /\ ramReq' = [ramReq EXCEPT ![c] = NoRequest]
      /\ ramCopy' \in {ramCopy, "bugcheck"} /\ ramServing = NoClient
      /\ UNCHANGED <<ramImage, ramSector, ramServing, ramMemory>>
  BY DEF DeviceControl, MayDispatch
<1>2. DOMAIN ramReq = RamClients /\ DOMAIN ramReq' = RamClients /\ ramReq'[c] = NoRequest
      /\ c # NoClient
  BY <1>1, RamAssumption DEF RamInv
<1>3. ASSUME NEW d \in RamClients
      PROVE  RequestInv(d)'
  <2>1. CASE d # c
    BY <1>1, <1>2, <2>1, OtherRequest DEF RamInv
  <2>2. CASE d = c
    <3>1. NoRequest \in Requests
      <4>1. <<>> \in Seq(Contents)
        OBVIOUS
      <4> QED
        BY <4>1 DEF NoRequest, Requests
    <3> QED
      BY <1>1, <1>2, <2>2, <3>1 DEF RequestInv, NoRequest
  <2> QED
    BY <2>1, <2>2
<1>4. ImageInv'
  BY <1>1 DEF RamInv, ImageInv
<1> QED
  BY <1>1, <1>2, <1>3, <1>4 DEF RamInv, RamTypeOK

\* The device goes when no request is left.
LEMMA RamCleanupStep ==
  ASSUME RamInv, Cleanup
  PROVE  RamInv'
<1>1. /\ ramReq = [c \in RamClients |-> NoRequest] /\ ramReq' = ramReq
      /\ ramCopy' = "none" /\ ramImage' = <<>> /\ ramMemory' = <<>> /\ ramSector' = 0
      /\ ramServing' = ramServing
  BY DEF Cleanup
<1>2. ASSUME NEW d \in RamClients
      PROVE  RequestInv(d) /\ ~ramReq[d].ok /\ ramServing # d
  BY <1>1 DEF RamInv, RequestInv, NoRequest
<1>3. ramServing = NoClient
  BY <1>2 DEF RamInv, RamTypeOK
<1>4. ASSUME NEW d \in RamClients
      PROVE  RequestInv(d)'
  BY <1>1, <1>2, OtherRequest
<1>5. ImageInv'
  BY <1>1 DEF ImageInv
<1> QED
  BY <1>1, <1>3, <1>4, <1>5 DEF RamInv, RamTypeOK

\* Every step keeps RamInv.
LEMMA RamStep ==
  ASSUME RamInv, [RamNext]_ramVars
  PROVE  RamInv'
<1>1. CASE UNCHANGED ramVars
  BY <1>1 DEF ramVars, RamInv, RamTypeOK, RequestInv, ImageInv, CheckParameters
<1>2. CASE DeviceAddLyy \/ DeviceAddP
  BY <1>2, RamAddStep
<1>3. CASE CleanupLyyRamdisk \/ CleanupPRamdisk
  BY <1>3, RamCleanupStep DEF CleanupLyyRamdisk, CleanupPRamdisk
<1>4. ASSUME NEW c \in RamClients, NEW op \in {"read", "write"}, NEW off \in -1 .. RamUnits,
             NEW len \in 0 .. RamUnits + 1, Send(c, op, off, len)
      PROVE  RamInv'
  <2>1. off \in Int /\ len \in Nat /\ op \in {"read", "write", "partition", "control"}
    BY <1>4, RamAssumption
  <2> QED
    BY <1>4, <2>1, RamSendStep
<1>5. ASSUME NEW c \in RamClients, Send(c, "partition", 0, 0) \/ Send(c, "control", 0, 0)
      PROVE  RamInv'
  BY <1>5, RamSendStep
<1>6. ASSUME NEW c \in RamClients, Callbacks(c)
      PROVE  RamInv'
  <2>1. CASE CheckLyyRamdisk(c) \/ CheckPRamdisk(c)
    BY <2>1, RamDispatchStep DEF CheckLyyRamdisk, CheckPRamdisk
  <2>2. CASE ReadLyyRamdisk(c) \/ ReadPRamdisk(c)
    BY <2>2, RamReadStep, RamCompleteStep DEF ReadLyyRamdisk, ReadPRamdisk
  <2>3. CASE WriteLyyRamdisk(c) \/ WritePRamdisk(c)
    BY <2>3, RamWriteStep DEF WriteLyyRamdisk, WritePRamdisk
  <2>4. CASE ControlLyyRamdisk(c) \/ ControlPRamdisk(c)
    BY <2>4, RamControlStep DEF ControlLyyRamdisk, ControlPRamdisk
  <2> QED
    BY <1>6, <2>1, <2>2, <2>3, <2>4 DEF Callbacks
<1> QED
  BY <1>1, <1>2, <1>3, <1>4, <1>5, <1>6 DEF RamNext


\* RamInv holds throughout, for any size of the image and any clients.
THEOREM RamInductive == RamSpec => []RamInv
BY RamInitially, RamStep, PTL DEF RamSpec

\* RamInv gives the two properties of the copies.
LEMMA RamServes ==
  ASSUME RamInv
  PROVE  RamdiskStaysInside /\ RamdiskReadsWhole
<1>1. ASSUME NEW c \in RamClients, ramReq[c].ok, ramReq[c].len > 0
      PROVE  ramReq[c].off .. ramReq[c].off + ramReq[c].len - 1 \subseteq DOMAIN ramImage
  <2>1. ramReq[c].off \in Int /\ ramReq[c].len \in Nat
    BY DEF RamInv, RequestInv, Requests
  <2>2. PICK off \in Int, len \in Nat : off = ramReq[c].off /\ len = ramReq[c].len
    BY <2>1
  <2>3. ASSUME NEW u \in off .. off + len - 1
        PROVE  u \in DOMAIN ramImage
    <3>1. PICK k \in Nat : k = u - off
      BY <2>2
    <3>2. k < len /\ off + k = u
      BY <2>2, <3>1
    <3> QED
      BY <1>1, <2>2, <3>2, CopyInside
  <2> QED
    BY <2>2, <2>3
<1>2. ASSUME NEW c \in RamClients, NEW k \in 1 .. Len(ramReq[c].data)
      PROVE  ramReq[c].data[k] = ramMemory[ramReq[c].off + k - 1]
  <2>1. RequestInv(c)
    BY DEF RamInv
  <2>2. ramReq[c].data # <<>>
    <3>1. Len(<<>>) = 0
      OBVIOUS
    <3> QED
      BY <3>1
  <2>3. ramReq[c].ok /\ ramReq[c].op = "read"
    BY <2>1, <2>2 DEF RequestInv
  <2> QED
    BY <2>1, <2>3 DEF RequestInv
<1> QED
  BY <1>1, <1>2 DEF RamdiskStaysInside, RamdiskReadsWhole

\* The RAM disk serves its clients, for any size of the image, any number of
\* clients and any parameters of the registry in range: what it is formatted
\* with fits, a copy stays in the image, also when there is none, and a read
\* returns what the completed writes have left.
THEOREM DiskServes ==
  ASSUME RegistryInRange
  PROVE  RamSpec => []RamdiskServes
<1>1. LayoutsFit
  BY LayoutFits
<1>2. RamInv => RamdiskServes
  BY <1>1, RamServes DEF RamdiskServes, RamdiskLayoutFits
<1> QED
  BY <1>2, RamInductive, PTL

-----------------------------------------------------------------------------
(***************************************************************************)
(* NtDriver.                                                               *)
(***************************************************************************)


\* Nothing is loaded at first.
LEMMA NtInitially == NtInit => NtInv
BY DEF NtInit, NtInv, LinksOwned, NotOpen

\* NtInv gives the property.
LEMMA NtImplies ==
  ASSUME NtInv
  PROVE  NtTypeOK /\ NtNamesFollowDrivers
<1>1. NtNoLeftover
  BY DEF NtInv, NtNoLeftover
<1>2. NtTypeOK
  BY DEF NtInv, NtTypeOK
<1>3. NtLinksLead
  <2>1. ASSUME NEW l \in NtLinks \ {"MyDDKHello"}, ntLink[l] # "none"
        PROVE  ntDevice[ntLink[l]] # "none"
    <3>1. ntDevice[ntLink[l]] \in loaded \cup Leftovers
      BY <2>1 DEF NtInv, LinksOwned
    <3> QED
      BY <3>1 DEF NtInv, Leftovers
  <2> QED
    BY <2>1 DEF NtInv, NtLinksLead
<1>4. NtServedWhileOpen
  BY DEF NtInv, NtServedWhileOpen
<1> QED
  BY <1>1, <1>2, <1>3, <1>4 DEF NtNamesFollowDrivers

\* A DriverEntry keeps NtInv: what it makes has names that nobody had, and the
\* device that it may leave behind is no driver's.
LEMMA NtLoadStep ==
  ASSUME NtInv, NEW d, NEW n \in NtNames, NEW l \in NtLinks, NEW refused,
         d \notin Leftovers \cup {"none"}, l = "MyDDKHello" <=> d = "NT_Driver",
         \/ refused = ntDevice
         \/ \E left \in Leftovers : refused = [ntDevice EXCEPT ![n] = left],
         NtLoad(d, n, l, refused)
  PROVE  NtInv'
<1>1. CASE UNCHANGED ntVars
  BY <1>1 DEF ntVars, NtInv, LinksOwned
<1>2. CASE /\ d \notin loaded /\ Creates(n, l)
           /\ ntDevice' = [ntDevice EXCEPT ![n] = d]
           /\ ntLink' = [ntLink EXCEPT ![l] = n]
           /\ loaded' = loaded \cup {d} /\ app' = app
  <2>1. LinksOwned'
    <3>1. ASSUME NEW k \in NtLinks \ {"MyDDKHello"}, ntLink'[k] # "none"
          PROVE  ntDevice'[ntLink'[k]] \in (loaded' \ {"NT_Driver"}) \cup Leftovers
      <4>1. CASE k = l
        BY <1>2, <3>1, <4>1 DEF NtInv
      <4>2. CASE k # l
        <5>1. ntLink'[k] = ntLink[k] /\ ntLink[k] \in NtNames
          BY <1>2, <3>1, <4>2 DEF NtInv
        <5>2. ntDevice[ntLink[k]] \in (loaded \ {"NT_Driver"}) \cup Leftovers
          BY <3>1, <5>1 DEF NtInv, LinksOwned
        <5>3. ntLink[k] # n
          BY <1>2, <5>2 DEF NtInv, Creates, Leftovers
        <5> QED
          BY <1>2, <5>1, <5>2, <5>3 DEF NtInv
      <4> QED
        BY <4>1, <4>2
    <3> QED
      BY <3>1 DEF LinksOwned
  <2>2. ASSUME NEW m \in NtNames, ntDevice'[m] \in loaded'
        PROVE  \E k \in NtLinks : ntLink'[k] = m
    <3>1. CASE m = n
      BY <1>2, <3>1 DEF NtInv
    <3>2. CASE m # n
      <4>1. ntDevice[m] \in loaded
        BY <1>2, <2>2, <3>2 DEF NtInv
      <4>2. PICK k \in NtLinks : ntLink[k] = m
        BY <4>1 DEF NtInv
      <4>3. k # l
        BY <1>2, <4>2 DEF Creates, NtNames
      <4> QED
        BY <1>2, <4>2, <4>3 DEF NtInv
    <3> QED
      BY <3>1, <3>2
  <2>3. app' = NotOpen \/ (app'.dev \in NtNames /\ ntDevice'[app'.dev] # "none")
    BY <1>2 DEF NtInv
  <2> QED
    BY <1>2, <2>1, <2>2, <2>3 DEF NtInv
<1>3. ASSUME NEW left \in Leftovers, ntDevice[n] = "none",
             ntDevice' = [ntDevice EXCEPT ![n] = left], UNCHANGED <<loaded, ntLink, app>>
      PROVE  NtInv'
  <2>1. LinksOwned'
    BY <1>3 DEF NtInv, LinksOwned
  <2>2. ASSUME NEW m \in NtNames, ntDevice'[m] \in loaded'
        PROVE  \E k \in NtLinks : ntLink'[k] = m
    BY <1>3, <2>2 DEF NtInv
  <2>3. app' = NotOpen \/ (app'.dev \in NtNames /\ ntDevice'[app'.dev] # "none")
    BY <1>3 DEF NtInv, Leftovers
  <2> QED
    BY <1>3, <2>1, <2>2, <2>3 DEF NtInv
<1> QED
  BY <1>1, <1>2, <1>3 DEF NtLoad, LinkRefused, ntVars

\* HelloDDKUnload keeps NtInv: no link to a device it deletes is left, but for
\* the one of NT_Driver, to whose device no other link leads.
LEMMA NtUnloadStep ==
  ASSUME NtInv, NEW d, NEW deletesLink \in BOOLEAN, ~deletesLink => d = "NT_Driver",
         NtUnload(d, deletesLink)
  PROVE  NtInv'
<1>1. PICK mine : mine = {n \in NtNames : ntDevice[n] = d}
  OBVIOUS
<1>2. /\ d \in loaded /\ app.dev \notin mine
      /\ ntDevice' = [n \in NtNames |-> IF n \in mine THEN "none" ELSE ntDevice[n]]
      /\ ntLink' = [l \in NtLinks |-> IF ntLink[l] \in mine /\ deletesLink THEN "none" ELSE ntLink[l]]
      /\ loaded' = loaded \ {d}
      /\ UNCHANGED app
  BY <1>1, Zenon DEF NtUnload
<1>3. ntDevice' \in [NtNames -> loaded' \cup {"none"} \cup Leftovers]
  BY <1>1, <1>2 DEF NtInv
<1>4. ntLink' \in [NtLinks -> NtNames \cup {"none"}]
  BY <1>2 DEF NtInv
<1>5. LinksOwned'
  <2>1. ASSUME NEW l \in NtLinks \ {"MyDDKHello"}, ntLink'[l] # "none"
        PROVE  ntDevice'[ntLink'[l]] \in (loaded' \ {"NT_Driver"}) \cup Leftovers
    <3>1. ntLink'[l] = ntLink[l] /\ ntLink[l] \in NtNames /\ ~(ntLink[l] \in mine /\ deletesLink)
      BY <1>2, <2>1 DEF NtInv
    <3>2. ntDevice[ntLink[l]] \in (loaded \ {"NT_Driver"}) \cup Leftovers
      BY <2>1, <3>1 DEF NtInv, LinksOwned
    <3>3. ntLink[l] \notin mine
      BY <1>1, <1>2, <3>1, <3>2 DEF NtInv
    <3> QED
      BY <1>1, <1>2, <3>1, <3>2, <3>3
  <2> QED
    BY <2>1 DEF LinksOwned
<1>6. ASSUME NEW m \in NtNames, ntDevice'[m] \in loaded'
      PROVE  \E k \in NtLinks : ntLink'[k] = m
  <2>1. m \notin mine /\ ntDevice[m] \in loaded
    BY <1>2, <1>6 DEF NtInv
  <2>2. PICK k \in NtLinks : ntLink[k] = m
    BY <2>1 DEF NtInv
  <2> QED
    BY <1>2, <2>1, <2>2
<1>7. app' = NotOpen \/ (app'.dev \in NtNames /\ ntDevice'[app'.dev] # "none")
  BY <1>2 DEF NtInv
<1> QED
  BY <1>2, <1>3, <1>4, <1>5, <1>6, <1>7 DEF NtInv

\* The application opens a device, sends a request or has it served.
LEMMA NtUseStep ==
  ASSUME NtInv,
         \/ \E l \in NtLinks : OpenApp(l)
         \/ \E r \in {"read", "close"} : AskApp(r)
         \/ \E d, serves : NtDispatch(d, serves)
  PROVE  NtInv'
<1>1. UNCHANGED <<loaded, ntDevice, ntLink>>
  BY DEF OpenApp, AskApp, NtDispatch
<1>2. /\ app' = NotOpen \/ (app'.dev \in NtNames /\ ntDevice[app'.dev] # "none")
      /\ app' \in [dev : NtNames \cup {"none"}, request : {"none", "create", "read", "close"}]
  <2>1. CASE \E l \in NtLinks : OpenApp(l)
    BY <2>1 DEF OpenApp, NtInv
  <2>2. CASE \E r \in {"read", "close"} : AskApp(r)
    BY <2>2 DEF AskApp, NtInv
  <2>3. CASE \E d, serves : NtDispatch(d, serves)
    BY <2>3 DEF NtDispatch, NtInv, NotOpen
  <2> QED
    BY <2>1, <2>2, <2>3
<1> QED
  BY <1>1, <1>2 DEF NtInv, LinksOwned

\* DriverStructrue keeps NtInv, whichever of its two devices is made.
LEMMA NtStructrueStep ==
  ASSUME NtInv, LoadDriverStructrue
  PROVE  NtInv'
<1>1. PICK made \in SUBSET {<<"MyDDKDevice11111", "HelloDDK11111">>,
                            <<"MyDDKDevice22222", "HelloDDK22222">>} :
        /\ \A m \in made : Creates(m[1], m[2])
        /\ ntLink' = [l \in NtLinks |-> IF \E m \in made : m[2] = l
                                     THEN (CHOOSE m \in made : m[2] = l)[1] ELSE ntLink[l]]
        /\ loaded' = IF \E m \in made : m[1] = "MyDDKDevice22222"
                     THEN loaded \cup {"DriverStructrue"} ELSE loaded
        /\ ntDevice' = [n \in NtNames |-> IF \A m \in made : m[1] # n THEN ntDevice[n]
                        ELSE IF "DriverStructrue" \in loaded' THEN "DriverStructrue"
                        ELSE "left by DriverStructrue"]
        /\ app' = app /\ "DriverStructrue" \notin loaded
  BY Zenon DEF LoadDriverStructrue
<1>2. PICK one, two \in BOOLEAN :
        /\ one <=> <<"MyDDKDevice11111", "HelloDDK11111">> \in made
        /\ two <=> <<"MyDDKDevice22222", "HelloDDK22222">> \in made
  OBVIOUS
<1>3. \A l \in NtLinks :
        ntLink'[l] = IF l = "HelloDDK11111" /\ one THEN "MyDDKDevice11111"
                     ELSE IF l = "HelloDDK22222" /\ two THEN "MyDDKDevice22222"
                     ELSE ntLink[l]
  <2>1. ASSUME NEW l \in NtLinks, NEW m \in made, m[2] = l
        PROVE  ntLink'[l] = m[1]
    <3>1. \A k \in made : k[2] = l => k = m
      BY <2>1
    <3>2. (CHOOSE k \in made : k[2] = l) = m
      BY <2>1, <3>1
    <3> QED
      BY <1>1, <2>1, <3>2
  <2>2. ASSUME NEW l \in NtLinks, \A m \in made : m[2] # l
        PROVE  ntLink'[l] = ntLink[l]
    BY <1>1, <2>2
  <2> QED
    BY <1>2, <2>1, <2>2
<1>4. DOMAIN ntLink' = NtLinks /\ DOMAIN ntDevice' = NtNames
  BY <1>1
<1>5. loaded' = IF two THEN loaded \cup {"DriverStructrue"} ELSE loaded
  <2>1. (\E m \in made : m[1] = "MyDDKDevice22222") <=> two
    <3>1. ASSUME NEW m \in made, m[1] = "MyDDKDevice22222"
          PROVE  m = <<"MyDDKDevice22222", "HelloDDK22222">>
      BY <3>1
    <3>2. <<"MyDDKDevice22222", "HelloDDK22222">>[1] = "MyDDKDevice22222"
      OBVIOUS
    <3> QED
      BY <1>2, <3>1, <3>2, Zenon
  <2> QED
    BY <1>1, <2>1, Zenon
<1>6. \A n \in NtNames :
        ntDevice'[n] = IF (n = "MyDDKDevice11111" /\ one) \/ (n = "MyDDKDevice22222" /\ two)
                       THEN IF two THEN "DriverStructrue" ELSE "left by DriverStructrue"
                       ELSE ntDevice[n]
  <2>1. ASSUME NEW n \in NtNames
        PROVE  (\A m \in made : m[1] # n)
                 <=> ~((n = "MyDDKDevice11111" /\ one) \/ (n = "MyDDKDevice22222" /\ two))
    BY <1>2
  <2>2. "DriverStructrue" \in loaded' <=> two
    BY <1>1, <1>5
  <2> QED
    BY <1>1, <2>1, <2>2
<1>7. /\ one => ntDevice["MyDDKDevice11111"] = "none" /\ ntLink["HelloDDK11111"] = "none"
      /\ two => ntDevice["MyDDKDevice22222"] = "none" /\ ntLink["HelloDDK22222"] = "none"
  BY <1>1, <1>2 DEF Creates
<1>8. ntDevice' \in [NtNames -> loaded' \cup {"none"} \cup Leftovers]
  <2>1. ASSUME NEW n \in NtNames
        PROVE  ntDevice'[n] \in loaded' \cup {"none"} \cup Leftovers
    BY <1>5, <1>6 DEF NtInv, Leftovers
  <2> QED
    BY <1>1, <2>1
<1>9. ntLink' \in [NtLinks -> NtNames \cup {"none"}]
  <2>1. ASSUME NEW l \in NtLinks
        PROVE  ntLink'[l] \in NtNames \cup {"none"}
    BY <1>3 DEF NtInv, NtNames
  <2> QED
    BY <1>1, <2>1
<1>10. loaded' \cap (Leftovers \cup {"none"}) = {}
  BY <1>5 DEF NtInv, Leftovers
<1>11. \A n \in NtNames : ntDevice[n] # "none" => ntDevice'[n] = ntDevice[n]
  BY <1>6, <1>7
<1>12. LinksOwned'
  <2>1. ASSUME NEW l \in NtLinks \ {"MyDDKHello"}, ntLink'[l] # "none"
        PROVE  ntDevice'[ntLink'[l]] \in (loaded' \ {"NT_Driver"}) \cup Leftovers
    <3>1. CASE l = "HelloDDK11111" /\ one
      <4>1. ntLink'[l] = "MyDDKDevice11111" /\ "MyDDKDevice11111" \in NtNames
        BY <1>3, <3>1 DEF NtNames
      <4> QED
        BY <1>5, <1>6, <3>1, <4>1 DEF Leftovers
    <3>2. CASE l = "HelloDDK22222" /\ two
      <4>1. ntLink'[l] = "MyDDKDevice22222" /\ "MyDDKDevice22222" \in NtNames
        BY <1>3, <3>2 DEF NtNames
      <4> QED
        BY <1>5, <1>6, <3>2, <4>1 DEF Leftovers
    <3>3. CASE ntLink'[l] = ntLink[l]
      <4>1. ntDevice[ntLink[l]] \in (loaded \ {"NT_Driver"}) \cup Leftovers /\ ntLink[l] \in NtNames
        BY <2>1, <3>3 DEF NtInv, LinksOwned
      <4>2. ntDevice[ntLink[l]] # "none"
        BY <4>1 DEF NtInv, Leftovers
      <4> QED
        BY <1>5, <1>11, <3>3, <4>1, <4>2
    <3> QED
      BY <1>3, <3>1, <3>2, <3>3
  <2> QED
    BY <2>1 DEF LinksOwned
<1>13. ASSUME NEW m \in NtNames, ntDevice'[m] \in loaded'
       PROVE  \E k \in NtLinks : ntLink'[k] = m
  <2>1. CASE m = "MyDDKDevice11111" /\ one
    BY <1>3, <2>1 DEF NtLinks
  <2>2. CASE m = "MyDDKDevice22222" /\ two
    BY <1>3, <2>2 DEF NtLinks
  <2>3. CASE ~(m = "MyDDKDevice11111" /\ one) /\ ~(m = "MyDDKDevice22222" /\ two)
    <3>1. ntDevice'[m] = ntDevice[m]
      BY <1>6, <2>3
    <3>2. ntDevice[m] \in loaded
      BY <1>1, <1>5, <1>13, <3>1 DEF NtInv, Leftovers
    <3>3. PICK k \in NtLinks : ntLink[k] = m
      BY <3>2 DEF NtInv
    <3>4. ntLink[k] # "none"
      BY <3>3 DEF NtNames
    <3> QED
      BY <1>3, <1>7, <3>3, <3>4
  <2> QED
    BY <2>1, <2>2, <2>3
<1>14. app' = NotOpen \/ (app'.dev \in NtNames /\ ntDevice'[app'.dev] # "none")
  BY <1>1, <1>11 DEF NtInv
<1>15. app' \in [dev : NtNames \cup {"none"}, request : {"none", "create", "read", "close"}]
  BY <1>1 DEF NtInv
<1> QED
  BY <1>8, <1>9, <1>10, <1>12, <1>13, <1>14, <1>15 DEF NtInv

\* The DriverEntry of the fifteen other drivers.
LEMMA NtLoads ==
  ASSUME NtInv,
         \/ LoadNtDriver \/ LoadLinkList \/ LoadLookaside \/ LoadRtlTest \/ LoadBufferRead
         \/ LoadCancelIRPTest \/ LoadPendingIRPTest \/ LoadSpecialStartIo \/ LoadStartIoTest
         \/ LoadDPCTimer \/ LoadIoTimerTest
         \/ LoadDriverA \/ LoadTest1 \/ LoadTest2 \/ LoadTest5
  PROVE  NtInv'
<1>1. PICK d, n, l, refused :
         /\ d \notin Leftovers \cup {"none"} /\ n \in NtNames /\ l \in NtLinks
         /\ l = "MyDDKHello" <=> d = "NT_Driver"
         /\ \/ refused = ntDevice
            \/ \E left \in Leftovers : refused = [ntDevice EXCEPT ![n] = left]
         /\ NtLoad(d, n, l, refused)
  <2>1. CASE LoadStartIoTest
    BY <2>1 DEF LoadStartIoTest, Leftovers, NtNames, NtLinks
  <2>2. ASSUME NEW d, NEW n, NEW l, LoadClean(d, n, l), d \notin Leftovers \cup {"none"},
               n \in NtNames, l \in NtLinks, l = "MyDDKHello" <=> d = "NT_Driver"
        PROVE  \E dd, nn, ll, refused :
         /\ dd \notin Leftovers \cup {"none"} /\ nn \in NtNames /\ ll \in NtLinks
         /\ ll = "MyDDKHello" <=> dd = "NT_Driver"
         /\ \/ refused = ntDevice
            \/ \E left \in Leftovers : refused = [ntDevice EXCEPT ![nn] = left]
         /\ NtLoad(dd, nn, ll, refused)
    BY <2>2 DEF LoadClean, AfterRefusal
  <2> QED
    BY <2>1, <2>2 DEF LoadNtDriver, LoadLinkList, LoadLookaside, LoadRtlTest, LoadBufferRead,
         LoadCancelIRPTest, LoadPendingIRPTest, LoadSpecialStartIo,
         LoadDPCTimer, LoadIoTimerTest,
         LoadDriverA, LoadTest1, LoadTest2, LoadTest5, Leftovers, NtNames, NtLinks
<1> QED
  BY <1>1, NtLoadStep

\* The unload routines.
LEMMA NtUnloads ==
  ASSUME NtInv,
         \/ UnloadNtDriver \/ UnloadLinkList \/ UnloadLookaside \/ UnloadRtlTest
         \/ UnloadBufferRead \/ UnloadCancelIRPTest \/ UnloadPendingIRPTest
         \/ UnloadSpecialStartIo \/ UnloadStartIoTest \/ UnloadDPCTimer \/ UnloadIoTimerTest
         \/ UnloadDriverStructrue \/ UnloadDriverA \/ UnloadTest1 \/ UnloadTest2 \/ UnloadTest5
  PROVE  NtInv'
<1>1. CASE UnloadNtDriver
  BY <1>1, NtUnloadStep DEF UnloadNtDriver
<1>2. CASE \E d : NtUnload(d, TRUE)
  BY <1>2, NtUnloadStep
<1> QED
  BY <1>1, <1>2 DEF UnloadLinkList, UnloadLookaside, UnloadRtlTest, UnloadBufferRead,
     UnloadCancelIRPTest, UnloadPendingIRPTest, UnloadSpecialStartIo, UnloadStartIoTest,
     UnloadDPCTimer, UnloadIoTimerTest, UnloadDriverStructrue, UnloadDriverA, UnloadTest1,
     UnloadTest2, UnloadTest5

\* Every step keeps NtInv.
LEMMA NtStep ==
  ASSUME NtInv, [NtNext]_ntVars
  PROVE  NtInv'
<1>1. CASE UNCHANGED ntVars
  BY <1>1 DEF ntVars, NtInv, LinksOwned
<1>2. CASE LoadDriverStructrue
  BY <1>2, NtStructrueStep
<1>3. CASE \/ DispatchNtDriver \/ DispatchLinkList \/ DispatchLookaside \/ DispatchRtlTest
           \/ DispatchBufferRead \/ DispatchDriverStructrue \/ DispatchCancelIRPTest
           \/ DispatchPendingIRPTest \/ DispatchSpecialStartIo \/ DispatchStartIoTest
           \/ DispatchDPCTimer \/ DispatchIoTimerTest
           \/ DispatchDriverA \/ CreateDriverA \/ CloseDriverA
           \/ DispatchTest1 \/ CreateTest1 \/ CloseTest1
           \/ DispatchTest2 \/ CreateTest2 \/ CloseTest2
           \/ DispatchTest5 \/ CreateTest5 \/ CloseTest5
  <2>1. \E d, serves : NtDispatch(d, serves)
    BY <1>3 DEF DispatchNtDriver, DispatchLinkList, DispatchLookaside, DispatchRtlTest,
      DispatchBufferRead, DispatchDriverStructrue, DispatchCancelIRPTest,
      DispatchPendingIRPTest, DispatchSpecialStartIo, DispatchStartIoTest,
      DispatchDPCTimer, DispatchIoTimerTest, DispatchDriverA, CreateDriverA, CloseDriverA,
      DispatchTest1, CreateTest1, CloseTest1, DispatchTest2, CreateTest2, CloseTest2,
      DispatchTest5, CreateTest5, CloseTest5
  <2> QED
    BY <2>1, NtUseStep
<1>4. CASE (\E l \in NtLinks : OpenApp(l)) \/ AskApp("read") \/ AskApp("close")
  BY <1>4, NtUseStep
<1> QED
  BY <1>1, <1>2, <1>3, <1>4, NtLoads, NtUnloads DEF NtNext

\* A failed load or an unload leaves no name behind that stops the next driver,
\* but for the leftovers named in the property; a link leads to a device that is
\* there, and an open device is served (CreateDevice and HelloDDKUnload of the
\* NT-style drivers), whether or not memory runs out.
THEOREM NtNamesKept == NtSpec => [](NtTypeOK /\ NtNamesFollowDrivers)
<1>1. NtSpec => []NtInv
  BY NtInitially, NtStep, PTL DEF NtSpec
<1> QED
  BY <1>1, NtImplies, PTL

-----------------------------------------------------------------------------
(***************************************************************************)
(* SpecialStartIo: MyStartIo runs in one reader at a time, and that a      *)
(* packet is completed twice begins with a cancellation.                   *)
(***************************************************************************)

LEMMA SspTypeStep ==
  ASSUME SspTypeOK, OwnerInv, [SspNext]_sspVars
  PROVE  SspTypeOK'
<1> USE DEF SspTypeOK, Labels, Queued
<1>1. CASE UNCHANGED sspVars
  BY <1>1 DEF sspVars
<1>2. ASSUME NEW t \in Threads, NEW i \in Irps,
             HelloDDKRead(t, i) \/ IoCancelIrpFlag(t, i) \/ IoCancelIrp(t, i)
      PROVE  SspTypeOK'
  BY <1>2 DEF HelloDDKRead, IoCancelIrpFlag, IoCancelIrp
<1>3. ASSUME NEW i \in Irps, Reclaim(i)
      PROVE  SspTypeOK'
  BY <1>3 DEF Reclaim
<1>4. ASSUME NEW t \in Threads, SetCancelRoutine(t) \/ InsertIdle(t) \/ MyStartIoEnds(t)
      PROVE  SspTypeOK'
  BY <1>4 DEF SetCancelRoutine, InsertIdle, MyStartIoEnds, OwnerInv
<1>5. ASSUME NEW t \in Threads, MyStartIoCompletes(t) \/ OnCancelCompletes(t)
      PROVE  SspTypeOK'
  BY <1>5 DEF MyStartIoCompletes, OnCancelCompletes, CompleteRequest
<1>6. ASSUME NEW t \in Threads, InsertBusy(t)
      PROVE  SspTypeOK'
  <2>1. irp[t] \in Irps
    BY <1>6 DEF InsertBusy, OwnerInv
  <2> QED
    BY <1>6, <2>1 DEF InsertBusy
<1>7. ASSUME NEW t \in Threads, MyStartIoNext(t)
      PROVE  SspTypeOK'
  <2>1. Head(queue) \in Irps /\ Tail(queue) \in Seq(Irps)
    BY <1>7 DEF MyStartIoNext
  <2> QED
    BY <1>7, <2>1 DEF MyStartIoNext
<1> QED
  BY <1>1, <1>2, <1>3, <1>4, <1>5, <1>6, <1>7 DEF SspNext, Step

LEMMA ServingStep ==
  ASSUME SspTypeOK, ServingInv, [SspNext]_sspVars
  PROVE  ServingInv'
<1> USE DEF ServingInv, Serving, SspTypeOK
<1>1. CASE UNCHANGED sspVars
  BY <1>1 DEF sspVars
<1>2. ASSUME NEW t \in Threads, Step(t)
      PROVE  ServingInv'
  BY <1>2 DEF Step, SetCancelRoutine, InsertBusy, InsertIdle, MyStartIoCompletes,
     MyStartIoNext, MyStartIoEnds, OnCancelCompletes
<1>3. ASSUME NEW t \in Threads, NEW i \in Irps,
             HelloDDKRead(t, i) \/ IoCancelIrpFlag(t, i) \/ IoCancelIrp(t, i)
      PROVE  ServingInv'
  BY <1>3 DEF HelloDDKRead, IoCancelIrpFlag, IoCancelIrp
<1>4. ASSUME NEW i \in Irps, Reclaim(i)
      PROVE  ServingInv'
  BY <1>4 DEF Reclaim
<1> QED
  BY <1>1, <1>2, <1>3, <1>4 DEF SspNext

\* Taking the head off a queue moves every other entry up one place.
LEMMA TailMovesUp ==
  ASSUME queue \in Seq(Irps), queue # <<>>
  PROVE  /\ 1 \in 1 .. Len(queue) /\ queue[1] = Head(queue) /\ Head(queue) \in Irps
         /\ \A k \in 1 .. Len(Tail(queue)) :
              k \in Nat /\ k + 1 \in 1 .. Len(queue) /\ k + 1 # 1 /\ Tail(queue)[k] = queue[k + 1]
OBVIOUS

\* A step that brings no packet to a place of its own keeps OwnerInv.
LEMMA NoNewUse ==
  ASSUME SspTypeOK, OwnerInv, stale' = stale,
         \A t \in Threads : pc'[t] # "idle" => irp'[t] \in Irps,
         \A i \in Irps : life'[i] = "free" => life[i] = "free",
         \A i \in Irps : InUse(i)' => InUse(i) \/ life'[i] # "free"
  PROVE  OwnerInv'
BY DEF OwnerInv

LEMMA OwnerStep ==
  ASSUME SspTypeOK, OwnerInv, [SspNext]_sspVars
  PROVE  OwnerInv'
<1> USE SpecialStartIoAssumption DEF SspTypeOK
<1>0. \A t \in Threads : pc[t] # "idle" => irp[t] \in Irps
  BY DEF OwnerInv
<1>1. CASE UNCHANGED sspVars
  BY <1>1 DEF sspVars, OwnerInv, InUse, Queued, Uses
<1>2. ASSUME NEW t \in Threads, NEW i \in Irps,
             HelloDDKRead(t, i) \/ IoCancelIrpFlag(t, i) \/ IoCancelIrp(t, i)
      PROVE  OwnerInv'
  <2>1. /\ stale' = stale
        /\ \A u \in Threads : pc'[u] # "idle" => irp'[u] \in Irps
        /\ \A j \in Irps : life'[j] = "free" => life[j] = "free"
    BY <1>0, <1>2 DEF HelloDDKRead, IoCancelIrpFlag, IoCancelIrp
  <2>2. queue' = queue
    BY <1>2 DEF HelloDDKRead, IoCancelIrpFlag, IoCancelIrp
  <2>3. ASSUME NEW j \in Irps, NEW u \in Threads, Uses(u, j)', ~Uses(u, j)
        PROVE  life'[j] # "free"
    BY <1>2, <2>3 DEF HelloDDKRead, IoCancelIrpFlag, IoCancelIrp, Uses
  <2> QED
    BY <2>1, <2>2, <2>3, NoNewUse DEF InUse, Queued
<1>3. ASSUME NEW i \in Irps, Reclaim(i)
      PROVE  OwnerInv'
  <2>1. \A j \in Irps : InUse(j)' = InUse(j)
    BY <1>3 DEF Reclaim, InUse, Queued, Uses
  <2>2. ASSUME NEW j \in Irps \ stale', life'[j] = "free" PROVE ~InUse(j)
    BY <1>3, <2>2 DEF Reclaim, OwnerInv
  <2>3. \A t \in Threads : pc'[t] # "idle" => irp'[t] \in Irps
    BY <1>0, <1>3 DEF Reclaim
  <2> QED
    BY <2>1, <2>2, <2>3 DEF OwnerInv
<1>4. ASSUME NEW t \in Threads, SetCancelRoutine(t) \/ InsertIdle(t) \/ MyStartIoEnds(t)
      PROVE  OwnerInv'
  <2>1. /\ stale' = stale /\ life' = life /\ queue' = queue
        /\ \A u \in Threads : pc'[u] # "idle" => irp'[u] \in Irps
    BY <1>0, <1>4 DEF SetCancelRoutine, InsertIdle, MyStartIoEnds
  <2>2. \A j \in Irps, u \in Threads : Uses(u, j)' => Uses(u, j)
    BY <1>4 DEF SetCancelRoutine, InsertIdle, MyStartIoEnds, Uses
  <2> QED
    BY <2>1, <2>2, NoNewUse DEF InUse, Queued
<1>5. ASSUME NEW t \in Threads, MyStartIoCompletes(t) \/ OnCancelCompletes(t)
      PROVE  OwnerInv'
  <2>1. /\ stale' = stale /\ queue' = queue
        /\ \A u \in Threads : pc'[u] # "idle" => irp'[u] \in Irps
        /\ \A j \in Irps : life'[j] = "free" => life[j] = "free"
    BY <1>0, <1>5 DEF MyStartIoCompletes, OnCancelCompletes, CompleteRequest
  <2>2. \A j \in Irps, u \in Threads : Uses(u, j)' => Uses(u, j)
    BY <1>5 DEF MyStartIoCompletes, OnCancelCompletes, Uses
  <2> QED
    BY <2>1, <2>2, NoNewUse DEF InUse, Queued
<1>6. ASSUME NEW t \in Threads, InsertBusy(t)
      PROVE  OwnerInv'
  <2>1. irp[t] \in Irps /\ Uses(t, irp[t])
    BY <1>0, <1>6 DEF InsertBusy, Uses
  <2>2. \A k \in 1 .. Len(queue') :
          \/ k \in 1 .. Len(queue) /\ queue'[k] = queue[k]
          \/ queue'[k] = irp[t]
    BY <1>6, <2>1 DEF InsertBusy
  <2>3. /\ stale' = stale /\ life' = life
        /\ \A u \in Threads : pc'[u] # "idle" => irp'[u] \in Irps
    BY <1>0, <1>6 DEF InsertBusy
  <2>4. \A j \in Irps : Queued(j)' => Queued(j) \/ j = irp[t]
    BY <2>2 DEF Queued
  <2>5. \A j \in Irps, u \in Threads : Uses(u, j)' => Uses(u, j)
    BY <1>6 DEF InsertBusy, Uses
  <2> QED
    BY <2>1, <2>3, <2>4, <2>5, NoNewUse DEF InUse
<1>7. ASSUME NEW t \in Threads, MyStartIoNext(t)
      PROVE  OwnerInv'
  <2>1. queue # <<>> /\ queue' = Tail(queue) /\ irp' = [irp EXCEPT ![t] = Head(queue)]
    BY <1>7 DEF MyStartIoNext
  <2>2. Head(queue) \in Irps /\ Queued(Head(queue))
    BY <2>1, TailMovesUp DEF Queued
  <2>3. /\ stale' = stale /\ life' = life
        /\ \A u \in Threads : pc'[u] # "idle" => irp'[u] \in Irps
    BY <1>0, <1>7, <2>2 DEF MyStartIoNext
  <2>4. \A j \in Irps : Queued(j)' => Queued(j)
    BY <2>1, TailMovesUp DEF Queued
  <2>5. \A j \in Irps, u \in Threads : Uses(u, j)' => Uses(u, j) \/ j = Head(queue)
    BY <1>7 DEF MyStartIoNext, Uses
  <2> QED
    BY <2>2, <2>3, <2>4, <2>5, NoNewUse DEF InUse
<1> QED
  BY <1>1, <1>2, <1>3, <1>4, <1>5, <1>6, <1>7 DEF SspNext, Step

LEMMA OnePlaceStep ==
  ASSUME SspTypeOK, OwnerInv, OnePlaceInv, [SspNext]_sspVars
  PROVE  OnePlaceInv'
<1> USE SpecialStartIoAssumption DEF OnePlaceInv, Holds, SspTypeOK
<1>1. CASE UNCHANGED sspVars
  BY <1>1 DEF sspVars
<1>2. ASSUME NEW t \in Threads, NEW i \in Irps, HelloDDKRead(t, i)
      PROVE  OnePlaceInv'
  BY <1>2 DEF HelloDDKRead, OwnerInv, InUse, Queued, Uses
<1>3. ASSUME NEW t \in Threads, NEW i \in Irps, IoCancelIrpFlag(t, i) \/ IoCancelIrp(t, i)
      PROVE  OnePlaceInv'
  BY <1>3 DEF IoCancelIrpFlag, IoCancelIrp
<1>4. ASSUME NEW i \in Irps, Reclaim(i)
      PROVE  OnePlaceInv'
  BY <1>4 DEF Reclaim
<1>5. ASSUME NEW t \in Threads, SetCancelRoutine(t) \/ InsertIdle(t) \/ MyStartIoEnds(t)
      PROVE  OnePlaceInv'
  BY <1>5 DEF SetCancelRoutine, InsertIdle, MyStartIoEnds
<1>6. ASSUME NEW t \in Threads, MyStartIoCompletes(t) \/ OnCancelCompletes(t)
      PROVE  OnePlaceInv'
  BY <1>6 DEF MyStartIoCompletes, OnCancelCompletes, CompleteRequest
<1>7. ASSUME NEW t \in Threads, InsertBusy(t)
      PROVE  OnePlaceInv'
  <2>1. irp[t] \in Irps /\ Len(queue) \in Nat
    BY <1>7 DEF InsertBusy, OwnerInv
  <2>2. \A k \in 1 .. Len(queue') :
          \/ k \in 1 .. Len(queue) /\ queue'[k] = queue[k]
          \/ k = Len(queue) + 1 /\ queue'[k] = irp[t]
    BY <1>7, <2>1 DEF InsertBusy
  <2> QED
    BY <1>7, <2>1, <2>2 DEF InsertBusy
<1>8. ASSUME NEW t \in Threads, MyStartIoNext(t)
      PROVE  OnePlaceInv'
  <2>1. /\ queue # <<>> /\ queue' = Tail(queue)
        /\ irp' = [irp EXCEPT ![t] = Head(queue)] /\ pc' = [pc EXCEPT ![t] = "work"]
        /\ UNCHANGED <<life, cancel, routine, busy, stale>>
    BY <1>8 DEF MyStartIoNext
  <2>2. ASSUME NEW i \in Irps \ (cancel \cup stale), NEW k \in 1 .. Len(queue'), queue'[k] = i
        PROVE  /\ life[i] = "live" /\ Head(queue) # i
               /\ \A u \in Threads : ~Holds(u, i)
               /\ \A m \in 1 .. Len(queue') : queue'[m] = i => m = k
    BY <2>1, <2>2, TailMovesUp
  <2>3. ASSUME NEW i \in Irps \ (cancel \cup stale), Head(queue) = i
        PROVE  /\ life[i] = "live"
               /\ \A u \in Threads : ~Holds(u, i)
    BY <2>1, <2>3, TailMovesUp
  <2> QED
    BY <2>1, <2>2, <2>3
<1> QED
  BY <1>1, <1>2, <1>3, <1>4, <1>5, <1>6, <1>7, <1>8 DEF SspNext, Step

LEMMA SspInductive ==
  /\ SspInit => SspInv
  /\ SspInv /\ [SspNext]_sspVars => SspInv'
<1>1. ASSUME SspInit PROVE SspInv
  <2>1. SspTypeOK
    <3>1. queue \in Seq(Irps)
      BY <1>1 DEF SspInit
    <3>2. irp \in [Threads -> Irps \cup {NoIrp}] /\ pc \in [Threads -> Labels]
      BY <1>1 DEF SspInit, Labels
    <3>3. life \in [Irps -> {"free", "live", "done", "twice"}]
      BY <1>1 DEF SspInit
    <3>4. cancel \in SUBSET Irps /\ routine \in SUBSET Irps /\ busy \in BOOLEAN
      BY <1>1 DEF SspInit
    <3>5. stale \in SUBSET Irps /\ broken \in BOOLEAN
      BY <1>1 DEF SspInit
    <3> QED
      BY <3>1, <3>2, <3>3, <3>4, <3>5 DEF SspTypeOK
  <2>2. ServingInv
    BY <1>1 DEF SspInit, ServingInv, Serving
  <2>3. 1 .. Len(queue) = {}
    BY <1>1 DEF SspInit
  <2>4. OwnerInv
    BY <1>1, <2>3, SpecialStartIoAssumption DEF SspInit, OwnerInv, InUse, Queued, Uses
  <2>5. OnePlaceInv
    BY <1>1, <2>3 DEF SspInit, OnePlaceInv, Holds
  <2> QED
    BY <2>1, <2>2, <2>4, <2>5 DEF SspInv
<1>2. ASSUME SspInv, [SspNext]_sspVars PROVE SspInv'
  BY <1>2, SspTypeStep, ServingStep, OwnerStep, OnePlaceStep DEF SspInv
<1> QED
  BY <1>1, <1>2

\* The variables of SpecialStartIo keep their types.
THEOREM SspTypeCorrect == SspSpec => []SspTypeOK
<1>1. SspInv => SspTypeOK
  BY DEF SspInv
<1> QED
  BY <1>1, SspInductive, PTL DEF SspSpec

\* However many readers there are, MyStartIo runs in one of them at a time
\* (Source.cpp:238-247), cancelled packets or not.
THEOREM BusyFlagExcludes == SspSpec => []OneAtATime
<1>1. SspInv => OneAtATime
  BY DEF SspInv, ServingInv, Serving, OneAtATime
<1> QED
  BY <1>1, SspInductive, PTL DEF SspSpec

\* A packet that MyStartIo (line 32) or OnCancelIRP (line 218) completes a
\* second time, or that is taken back while the driver still uses it, has been
\* cancelled or lies in memory to which this happened before; whatever the
\* readers do and however soon the memory is allocated again.
THEOREM OnlyCancelledTwice == SspSpec => []TwiceOnlyIfCancelled
<1>1. ASSUME SspInv PROVE TwiceOnlyIfCancelled
  <2>1. SUFFICES ASSUME NEW i \in Irps \ (cancel \cup stale)
                 PROVE  life[i] # "twice" /\ (life[i] = "done" => ~InUse(i))
    BY DEF TwiceOnlyIfCancelled
  <2>2. life[i] # "twice"
    BY <1>1 DEF SspInv, OnePlaceInv
  <2>3. Queued(i) => life[i] = "live"
    BY <1>1 DEF SspInv, OnePlaceInv, Queued
  <2>4. \A t \in Threads : Uses(t, i) => life[i] = "live"
    BY <1>1 DEF SspInv, OnePlaceInv, Uses, Holds
  <2> QED
    BY <2>2, <2>3, <2>4 DEF InUse
<1> QED
  BY <1>1, SspInductive, PTL DEF SspSpec
=============================================================================
