--------------------------- MODULE CancelIrpProofs ---------------------------
(***************************************************************************)
(* Proofs about CancelIrp for every set of threads and packets: reads are  *)
(* completed once, can be cancelled until then, and a reader that cancels  *)
(* its reads comes back at the interrupt level it had.                     *)
(***************************************************************************)
EXTENDS CancelIrp, TLAPS

\* IInv without the type invariant.
RestInv ==
  /\ IrqlRestored
  /\ StillCancellable
  /\ LockInv
  /\ LifeInv
  /\ DutyInv
  /\ WalkInv

-----------------------------------------------------------------------------
(***************************************************************************)
(* Type correctness.  IoSetCancelRoutine adds irp[t] to the packets with a *)
(* routine, which LockInv says is a packet.                                *)
(***************************************************************************)

\* Every step keeps every variable in its type.
LEMMA TypeStep == IInv /\ [Next]_vars => TypeOK'
<1> SUFFICES ASSUME IInv, [Next]_vars
             PROVE  TypeOK'
  OBVIOUS
<1> USE CancelIrpAssumption DEF IInv, TypeOK, Threads, Labels, Irqls
<1>1. ASSUME NEW t \in Readers, SetCancelRoutine(t)
      PROVE  TypeOK'
  BY <1>1 DEF SetCancelRoutine, LockInv
<1>2. ASSUME NEW t \in Readers, MarkPending(t)
      PROVE  TypeOK'
  BY <1>2 DEF MarkPending
<1>3. ASSUME NEW t \in Readers, NEW i \in Irps, WalkCancels(t, i)
      PROVE  TypeOK'
  BY <1>3 DEF WalkCancels, CallCancelRoutine
<1>4. ASSUME NEW t \in Readers, NEW i \in Irps, WalkPasses(t, i)
      PROVE  TypeOK'
  BY <1>4 DEF WalkPasses
<1>5. ASSUME NEW t \in Readers, WalkEnds(t)
      PROVE  TypeOK'
  BY <1>5 DEF WalkEnds
<1>6. ASSUME NEW t \in Readers, CancelIoEnds(t)
      PROVE  TypeOK'
  BY <1>6 DEF CancelIoEnds
<1>7. ASSUME NEW t \in Readers, CancelIo(t)
      PROVE  TypeOK'
  BY <1>7 DEF CancelIo
<1>8. ASSUME NEW t \in Readers, NEW i \in Irps, HelloDDKRead(t, i)
      PROVE  TypeOK'
  BY <1>8 DEF HelloDDKRead
<1>9. ASSUME NEW t \in Others, NEW i \in Irps, CancelIoEx(t, i)
      PROVE  TypeOK'
  BY <1>9 DEF CancelIoEx, CallCancelRoutine
<1>10. ASSUME NEW t \in Threads, CancelReadCompletes(t)
       PROVE  TypeOK'
  BY <1>10 DEF CancelReadCompletes
<1>11. ASSUME NEW t \in Threads, CancelReadReleases(t)
       PROVE  TypeOK'
  BY <1>11 DEF CancelReadReleases, AfterCancel, LockInv, InRoutine
<1>12. ASSUME NEW i \in Irps, FreeIrp(i)
       PROVE  TypeOK'
  BY <1>12 DEF FreeIrp
<1>13. CASE UNCHANGED vars
  BY <1>13 DEF vars
<1> QED
  BY <1>1, <1>2, <1>3, <1>4, <1>5, <1>6, <1>7, <1>8, <1>9, <1>10, <1>11,
     <1>12, <1>13 DEF Next, ReaderStep, CancelStep

-----------------------------------------------------------------------------
(***************************************************************************)
(* The other conjuncts: one lemma per action.                              *)
(***************************************************************************)

\* A new packet belongs to its reader, which has the duty to set its routine.
LEMMA HelloDDKReadStep ==
  ASSUME IInv, TypeOK', NEW t \in Readers, NEW i \in Irps, HelloDDKRead(t, i)
  PROVE  RestInv'
<1> USE CancelIrpAssumption
    DEF IInv, TypeOK, Threads, Labels, Irqls, InRoutine, HelloDDKRead
<1>1. IrqlRestored'
  BY DEF IrqlRestored
<1>2. StillCancellable'
  BY DEF StillCancellable, LockInv
<1>3. LockInv'
  BY DEF LockInv
<1>4. LifeInv'
  BY DEF LifeInv
<1>5. DutyInv'
  BY DEF DutyInv, LockInv
<1>6. WalkInv'
  BY DEF WalkInv, LockInv
<1> QED
  BY <1>1, <1>2, <1>3, <1>4, <1>5, <1>6 DEF RestInv

\* IoSetCancelRoutine hands the duty to the cancel routine.
LEMMA SetCancelRoutineStep ==
  ASSUME IInv, TypeOK', NEW t \in Readers, SetCancelRoutine(t)
  PROVE  RestInv'
<1> USE CancelIrpAssumption
    DEF IInv, TypeOK, Threads, Labels, Irqls, InRoutine, SetCancelRoutine
<1>1. IrqlRestored'
  BY DEF IrqlRestored
<1>2. StillCancellable'
  BY DEF StillCancellable
<1>3. LockInv'
  BY DEF LockInv
<1>4. LifeInv'
  BY DEF LifeInv
<1>5. DutyInv'
  BY DEF DutyInv, LockInv
<1>6. WalkInv'
  BY DEF WalkInv
<1> QED
  BY <1>1, <1>2, <1>3, <1>4, <1>5, <1>6 DEF RestInv

\* IoMarkIrpPending moves no duty.
LEMMA MarkPendingStep ==
  ASSUME IInv, TypeOK', NEW t \in Readers, MarkPending(t)
  PROVE  RestInv'
<1> USE CancelIrpAssumption
    DEF IInv, TypeOK, Threads, Labels, Irqls, InRoutine, MarkPending
<1>1. IrqlRestored'
  BY DEF IrqlRestored
<1>2. StillCancellable'
  BY DEF StillCancellable
<1>3. LockInv'
  BY DEF LockInv
<1>4. LifeInv'
  BY DEF LifeInv
<1>5. DutyInv'
  BY DEF DutyInv
<1>6. WalkInv'
  BY DEF WalkInv
<1> QED
  BY <1>1, <1>2, <1>3, <1>4, <1>5, <1>6 DEF RestInv

\* IoCancelIrp on a reader's own packet: the reader is at APC_LEVEL, and that
\* is the level it notes in the packet.
LEMMA WalkCancelsStep ==
  ASSUME IInv, TypeOK', NEW t \in Readers, NEW i \in Irps, WalkCancels(t, i)
  PROVE  RestInv'
<1> USE CancelIrpAssumption
    DEF IInv, TypeOK, Threads, Labels, Irqls, InRoutine, WalkCancels,
        CallCancelRoutine
<1>1. irql[t] = "apc" /\ owner[i] = t /\ life[i] = "live"
  BY DEF IrqlRestored, WalkInv, DutyInv
<1>2. \A u \in Threads : pc[u] \notin {"cancel", "release"}
  BY DEF LockInv
<1>3. IrqlRestored'
  BY DEF IrqlRestored
<1>4. StillCancellable'
  BY <1>2 DEF StillCancellable
<1>5. LockInv'
  BY <1>2 DEF LockInv
<1>6. LifeInv'
  BY DEF LifeInv
<1>7. DutyInv'
  BY <1>1, <1>2 DEF DutyInv
<1>8. WalkInv'
  BY <1>1, <1>2 DEF WalkInv
<1> QED
  BY <1>3, <1>4, <1>5, <1>6, <1>7, <1>8 DEF RestInv

\* IoCancelIrp on a packet without a cancel routine changes only the list.
LEMMA WalkPassesStep ==
  ASSUME IInv, TypeOK', NEW t \in Readers, NEW i \in Irps, WalkPasses(t, i)
  PROVE  RestInv'
<1> USE CancelIrpAssumption
    DEF IInv, TypeOK, Threads, Labels, Irqls, InRoutine, WalkPasses
<1>1. IrqlRestored'
  BY DEF IrqlRestored
<1>2. StillCancellable'
  BY DEF StillCancellable
<1>3. LockInv'
  BY DEF LockInv
<1>4. LifeInv'
  BY DEF LifeInv
<1>5. DutyInv'
  BY DEF DutyInv
<1>6. WalkInv'
  BY DEF WalkInv
<1> QED
  BY <1>1, <1>2, <1>3, <1>4, <1>5, <1>6 DEF RestInv

\* CancelIo begins with packets of the reader that are not free.
LEMMA CancelIoStep ==
  ASSUME IInv, TypeOK', NEW t \in Readers, CancelIo(t)
  PROVE  RestInv'
<1> USE CancelIrpAssumption
    DEF IInv, TypeOK, Threads, Labels, Irqls, InRoutine, CancelIo
<1>1. IrqlRestored'
  BY DEF IrqlRestored
<1>2. StillCancellable'
  BY DEF StillCancellable
<1>3. LockInv'
  BY DEF LockInv
<1>4. LifeInv'
  BY DEF LifeInv
<1>5. DutyInv'
  BY DEF DutyInv
<1>6. WalkInv'
  BY DEF WalkInv
<1> QED
  BY <1>1, <1>2, <1>3, <1>4, <1>5, <1>6 DEF RestInv

\* CancelIo goes on to wait.
LEMMA WalkEndsStep ==
  ASSUME IInv, TypeOK', NEW t \in Readers, WalkEnds(t)
  PROVE  RestInv'
<1> USE CancelIrpAssumption
    DEF IInv, TypeOK, Threads, Labels, Irqls, InRoutine, WalkEnds
<1>1. IrqlRestored'
  BY DEF IrqlRestored
<1>2. StillCancellable'
  BY DEF StillCancellable
<1>3. LockInv'
  BY DEF LockInv
<1>4. LifeInv'
  BY DEF LifeInv
<1>5. DutyInv'
  BY DEF DutyInv
<1>6. WalkInv'
  BY DEF WalkInv
<1> QED
  BY <1>1, <1>2, <1>3, <1>4, <1>5, <1>6 DEF RestInv

\* CancelIo returns.
LEMMA CancelIoEndsStep ==
  ASSUME IInv, TypeOK', NEW t \in Readers, CancelIoEnds(t)
  PROVE  RestInv'
<1> USE CancelIrpAssumption
    DEF IInv, TypeOK, Threads, Labels, Irqls, InRoutine, CancelIoEnds
<1>1. IrqlRestored'
  BY DEF IrqlRestored
<1>2. StillCancellable'
  BY DEF StillCancellable
<1>3. LockInv'
  BY DEF LockInv
<1>4. LifeInv'
  BY DEF LifeInv
<1>5. DutyInv'
  BY DEF DutyInv
<1>6. WalkInv'
  BY DEF WalkInv
<1> QED
  BY <1>1, <1>2, <1>3, <1>4, <1>5, <1>6 DEF RestInv

\* Another thread cancels: the reader's own walk is not disturbed, because the
\* cancel lock was free.
LEMMA CancelIoExStep ==
  ASSUME IInv, TypeOK', NEW t \in Others, NEW i \in Irps, CancelIoEx(t, i)
  PROVE  RestInv'
<1> USE CancelIrpAssumption
    DEF IInv, TypeOK, Threads, Labels, Irqls, InRoutine, CancelIoEx,
        CallCancelRoutine
<1>1. t \notin Readers
  OBVIOUS
<1>2. \A u \in Threads : pc[u] \notin {"cancel", "release"}
  BY DEF LockInv
<1>3. IrqlRestored'
  BY <1>1 DEF IrqlRestored
<1>4. StillCancellable'
  BY <1>2 DEF StillCancellable
<1>5. LockInv'
  BY <1>1, <1>2 DEF LockInv
<1>6. LifeInv'
  BY DEF LifeInv
<1>7. DutyInv'
  BY <1>1, <1>2 DEF DutyInv
<1>8. WalkInv'
  BY <1>1, <1>2 DEF WalkInv
<1> QED
  BY <1>3, <1>4, <1>5, <1>6, <1>7, <1>8 DEF RestInv

\* CancelReadIRP completes a packet that nobody completed before.
LEMMA CancelReadCompletesStep ==
  ASSUME IInv, TypeOK', NEW t \in Threads, CancelReadCompletes(t)
  PROVE  RestInv'
<1> USE CancelIrpAssumption
    DEF IInv, TypeOK, Threads, Labels, Irqls, InRoutine, CancelReadCompletes
<1>1. irp[t] \in Irps /\ life[irp[t]] = "live" /\ irp[t] \notin routine
  BY DEF LockInv, DutyInv
<1>2. \A u \in Threads : pc[u] \in {"cancel", "release"} => u = t
  BY DEF LockInv
<1>3. life' = [life EXCEPT ![irp[t]] = "done"]
  BY <1>1
<1>4. IrqlRestored'
  BY DEF IrqlRestored
<1>5. StillCancellable'
  BY <1>1, <1>2, <1>3 DEF StillCancellable
<1>6. LockInv'
  BY DEF LockInv
<1>7. LifeInv'
  BY <1>1, <1>3 DEF LifeInv
<1>8. DutyInv'
  BY <1>1, <1>2, <1>3 DEF DutyInv, LockInv
<1>9. WalkInv'
  BY <1>1, <1>2, <1>3 DEF WalkInv
<1> QED
  BY <1>4, <1>5, <1>6, <1>7, <1>8, <1>9 DEF RestInv

\* CancelReadIRP gives the level back that the packet still holds.
LEMMA CancelReadReleasesStep ==
  ASSUME IInv, TypeOK', NEW t \in Threads, CancelReadReleases(t)
  PROVE  RestInv'
<1> USE CancelIrpAssumption
    DEF IInv, TypeOK, Threads, Labels, Irqls, InRoutine, CancelReadReleases,
        AfterCancel
<1>1. t \in Readers => cancelIrql[irp[t]] = "apc"
  BY DEF WalkInv
<1>2. \A u \in Threads : pc[u] \in {"cancel", "release"} => u = t
  BY DEF LockInv
<1>3. IrqlRestored'
  BY <1>1 DEF IrqlRestored
<1>4. StillCancellable'
  BY DEF StillCancellable
<1>5. LockInv'
  BY <1>2 DEF LockInv
<1>6. LifeInv'
  BY DEF LifeInv
<1>7. DutyInv'
  BY DEF DutyInv
<1>8. WalkInv'
  BY DEF WalkInv
<1> QED
  BY <1>3, <1>4, <1>5, <1>6, <1>7, <1>8 DEF RestInv

\* A packet is freed only when its reader is at PASSIVE_LEVEL, so it is none of
\* those a reader is cancelling.
LEMMA FreeIrpStep ==
  ASSUME IInv, TypeOK', NEW i \in Irps, FreeIrp(i)
  PROVE  RestInv'
<1> USE CancelIrpAssumption
    DEF IInv, TypeOK, Threads, Labels, Irqls, InRoutine, FreeIrp
<1>1. \A t \in Readers :
        pc[t] \in {"walk", "cancel", "release"} => owner[i] # t
  BY DEF IrqlRestored
<1>2. \A j \in Irps : j # i => cancelIrql'[j] = cancelIrql[j]
  OBVIOUS
<1>3. IrqlRestored'
  BY DEF IrqlRestored
<1>4. StillCancellable'
  BY DEF StillCancellable
<1>5. LockInv'
  BY DEF LockInv
<1>6. LifeInv'
  BY DEF LifeInv
<1>7. DutyInv'
  BY DEF DutyInv, LockInv
<1>8. WalkInv'
  BY <1>1, <1>2 DEF WalkInv, LockInv
<1> QED
  BY <1>3, <1>4, <1>5, <1>6, <1>7, <1>8 DEF RestInv

-----------------------------------------------------------------------------
(***************************************************************************)
(* The inductive invariant.                                                *)
(***************************************************************************)

\* Nothing is issued, held or cancelled at first.
LEMMA InitInv == Init => IInv
  BY CancelIrpAssumption
  DEF Init, IInv, TypeOK, Threads, Labels, Irqls, InRoutine, IrqlRestored,
      StillCancellable, LockInv, LifeInv, DutyInv, WalkInv

\* Every step keeps the inductive invariant.
LEMMA InvStep == IInv /\ [Next]_vars => IInv'
<1> SUFFICES ASSUME IInv, [Next]_vars
             PROVE  RestInv'
  BY TypeStep DEF IInv, RestInv
<1>1. TypeOK'
  BY TypeStep
<1>2. CASE UNCHANGED vars
  BY <1>2 DEF vars, IInv, RestInv, IrqlRestored, StillCancellable, LockInv,
              InRoutine, LifeInv, DutyInv, WalkInv
<1>3. ASSUME NEW t \in Readers, ReaderStep(t) \/ CancelIo(t)
      PROVE  RestInv'
  BY <1>1, <1>3, SetCancelRoutineStep, MarkPendingStep, WalkCancelsStep,
     WalkPassesStep, WalkEndsStep, CancelIoEndsStep, CancelIoStep
  DEF ReaderStep
<1>4. ASSUME NEW t \in Threads, CancelStep(t)
      PROVE  RestInv'
  BY <1>1, <1>4, CancelReadCompletesStep, CancelReadReleasesStep
  DEF CancelStep
<1> QED
  BY <1>1, <1>2, <1>3, <1>4, HelloDDKReadStep, CancelIoExStep, FreeIrpStep
  DEF Next

\* The inductive invariant holds in every behaviour.
THEOREM Invariance == Spec => []IInv
  BY InitInv, InvStep, PTL DEF Spec

\* The variables keep their types in every behaviour, whatever the constants.
THEOREM TypeCorrect == Spec => []TypeOK
<1>1. IInv => TypeOK
  BY DEF IInv
<1> QED
  BY <1>1, Invariance, PTL

\* CancelReadIRP gives a reader that cancels its own packets its interrupt
\* level back (Driver.cpp:175), whatever the other threads do.
THEOREM ReaderGetsItsIrqlBack == Spec => []IrqlRestored
<1>1. IInv => IrqlRestored
  BY DEF IInv
<1> QED
  BY <1>1, Invariance, PTL

\* Until a read is completed somebody has the duty to cancel it.
THEOREM ReadsStayCancellable == Spec => []StillCancellable
<1>1. IInv => StillCancellable
  BY DEF IInv
<1> QED
  BY <1>1, Invariance, PTL

-----------------------------------------------------------------------------
(***************************************************************************)
(* The driver implements the contract of IrpContract.                      *)
(***************************************************************************)

\* Every step issues, completes or frees one packet, or changes none.
LEMMA ContractStep == IInv /\ [Next]_vars => [Contract!Next]_(Contract!vars)
<1> SUFFICES ASSUME IInv, [Next]_vars
             PROVE  Contract!Next \/ life' = life
  BY DEF Contract!vars
<1>1. ASSUME NEW t \in Readers, ReaderStep(t) \/ CancelIo(t)
      PROVE  life' = life
  BY <1>1 DEF ReaderStep, SetCancelRoutine, MarkPending, WalkCancels,
              CallCancelRoutine, WalkPasses, WalkEnds, CancelIoEnds, CancelIo
<1>2. ASSUME NEW t \in Readers, NEW i \in Irps, HelloDDKRead(t, i)
      PROVE  Contract!Next
  BY <1>2 DEF HelloDDKRead, Contract!Next, Contract!Issue
<1>3. ASSUME NEW t \in Others, NEW i \in Irps, CancelIoEx(t, i)
      PROVE  life' = life
  BY <1>3 DEF CancelIoEx, CallCancelRoutine
<1>4. ASSUME NEW t \in Threads, CancelReadCompletes(t)
      PROVE  Contract!Next
  <2>1. irp[t] \in Irps /\ life[irp[t]] = "live"
    BY <1>4 DEF CancelReadCompletes, IInv, LockInv, DutyInv, InRoutine
  <2>2. Contract!Refuse(irp[t])
    BY <1>4, <2>1 DEF CancelReadCompletes, Contract!Refuse
  <2> QED
    BY <2>1, <2>2 DEF Contract!Next
<1>5. ASSUME NEW t \in Threads, CancelReadReleases(t)
      PROVE  life' = life
  BY <1>5 DEF CancelReadReleases
<1>6. ASSUME NEW i \in Irps, FreeIrp(i)
      PROVE  Contract!Next
  BY <1>6 DEF FreeIrp, Contract!Next, Contract!Reclaim
<1> QED
  BY <1>1, <1>2, <1>3, <1>4, <1>5, <1>6 DEF Next, CancelStep, vars

\* CancelIRPTest implements IrpContract: whoever cancels, every packet is
\* completed exactly once before its memory is taken back.
THEOREM CancelIrpImplementsContract == Spec => KeepsContract
<1>1. Init => Contract!Init
  BY DEF Init, Contract!Init
<1>2. IInv /\ [Next]_vars => [Contract!Next]_(Contract!vars)
  BY ContractStep
<1> QED
  BY <1>1, <1>2, Invariance, PTL DEF Spec, KeepsContract, Contract!Spec
=============================================================================
