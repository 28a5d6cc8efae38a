-------------------------- MODULE DriverChainProofs --------------------------
(***************************************************************************)
(* Proofs about DriverChain for any threads: one slot is enough for the    *)
(* packets of DriverA, and on one processor its timer is idle when it is   *)
(* unloaded.                                                               *)
(***************************************************************************)
EXTENDS DriverChain, TLAPS

LEMMA TypeStep ==
  ASSUME TypeOK, [Next]_vars
  PROVE  TypeOK'
<1> USE ChainAssumption DEF TypeOK, Go
<1>1. CASE UNCHANGED vars
  BY <1>1 DEF vars
<1>2. ASSUME NEW t \in Threads, EnterB(t)
      PROVE  TypeOK'
  BY <1>2 DEF EnterB
<1>3. ASSUME NEW t \in Threads, OpenTest1(t) \/ OpenTest2(t) \/ OpenTest5(t)
      PROVE  TypeOK'
  BY <1>3 DEF OpenTest1, OpenTest2, OpenTest5, OpenA
<1>4. ASSUME NEW t \in Threads, ReadTest1(t) \/ ReadTest2(t) \/ ReadTest5(t)
      PROVE  TypeOK'
  BY <1>4 DEF ReadTest1, ReadTest2, ReadTest5, HelloDDKReadA, ReadFails
<1>5. ASSUME NEW t \in Threads, SetTimer(t) \/ WaitEnds(t) \/ CompleteDriverA_read(t)
      PROVE  TypeOK'
  BY <1>5 DEF SetTimer, WaitEnds, CompleteDriverA_read
<1>6. ASSUME NEW t \in Threads, CloseA(t) \/ CloseStray(t)
      PROVE  TypeOK'
  BY <1>6 DEF CloseA, CloseStray
<1>7. CASE Clock
  BY <1>7 DEF Clock, TimerExpires, OnTimerDpc, DpcReturns
<1>8. CASE OtherOpens \/ OtherCloses \/ UnloadA
  BY <1>8 DEF OtherOpens, OtherCloses, UnloadA
<1> QED
  BY <1>1, <1>2, <1>3, <1>4, <1>5, <1>6, <1>7, <1>8 DEF Next, Step

\* What has strayed has strayed for good, and driver B is not replaced.
LEMMA SoundBefore ==
  ASSUME TypeOK, [Next]_vars, Sound'
  PROVE  Sound /\ variant' = variant
<1> USE DEF Sound, TypeOK
<1>1. CASE UNCHANGED vars
  BY <1>1 DEF vars
<1>2. ASSUME NEW t \in Threads, EnterB(t) \/ Step(t)
      PROVE  Sound /\ variant' = variant
  BY <1>2 DEF EnterB, Step, OpenTest1, OpenTest2, OpenTest5, OpenA, ReadTest1,
     ReadTest2, ReadTest5, SetTimer, CompleteDriverA_read, WaitEnds, CloseA, CloseStray
<1>3. CASE Clock \/ OtherOpens \/ OtherCloses \/ UnloadA
  BY <1>3 DEF Clock, TimerExpires, OnTimerDpc, DpcReturns, OtherOpens, OtherCloses, UnloadA
<1> QED
  BY <1>1, <1>2, <1>3 DEF Next

\* DriverA takes a packet when it has none and is loaded.
LEMMA TakesPacket ==
  ASSUME TypeOK, ChainInv, Sound, NEW t \in Threads, pc[t] = "read",
         \A u \in Threads : packet[u] = "free",
         variant # "Test1" => opener = t, loaded,
         HelloDDKReadA(t), UNCHANGED <<variant, opener, armed, dpc, event, loaded, strayed>>
  PROVE  ChainInv'
<1> USE ChainAssumption DEF TypeOK, HelloDDKReadA, Go
<1>1. PacketInv'
  BY DEF ChainInv, PacketInv
<1>2. OnePacketInv'
  BY DEF ChainInv, OnePacketInv
<1>3. TimerInv'
  BY DEF ChainInv, TimerInv
<1>4. HandleInv'
  BY DEF ChainInv, HandleInv, InB
<1>5. UnloadedInv'
  BY DEF ChainInv, UnloadedInv
<1>6. SlotHoldsWhatIsOwed'
  BY DEF SlotHoldsWhatIsOwed
<1>7. UnloadFindsTimerIdle'
  BY DEF UnloadFindsTimerIdle
<1> QED
  BY <1>1, <1>2, <1>3, <1>4, <1>5, <1>6, <1>7 DEF ChainInv

LEMMA ReadStep ==
  ASSUME TypeOK, ChainInv, Sound, NEW t \in Threads,
         ReadTest1(t) \/ ReadTest2(t) \/ ReadTest5(t)
  PROVE  ChainInv'
<1> USE ChainAssumption DEF TypeOK, ChainInv
<1>1. CASE ReadTest1(t) /\ HelloDDKReadA(t)
  <2>1. loaded
    BY <1>1 DEF ReadTest1, MayName, ReadFails, UnloadedInv, NamesFor, HelloDDKReadA, Go
  <2> QED
    BY <1>1, <2>1, TakesPacket DEF ReadTest1, MayName, HelloDDKReadA, ReadFails, Go
<1>2. CASE (ReadTest2(t) \/ ReadTest5(t)) /\ HelloDDKReadA(t)
  <2>1. variant # "Test1" /\ pc[t] = "read"
    BY <1>2 DEF ReadTest2, ReadTest5
  <2>2. opener = t
    BY <2>1 DEF HandleInv, InB
  <2>3. \A u \in Threads : packet[u] = "free"
    BY <2>1, <2>2 DEF HandleInv, InB, PacketInv
  <2>4. loaded
    BY <2>2 DEF UnloadedInv
  <2> QED
    BY <1>2, <2>1, <2>2, <2>3, <2>4, TakesPacket DEF ReadTest2, ReadTest5
<1>3. CASE ~HelloDDKReadA(t)
  <2>1. /\ pc[t] = "read" /\ pc' = [pc EXCEPT ![t] = "close"]
        /\ UNCHANGED <<variant, opener, packet, slot, armed, dpc, event, loaded, strayed>>
    BY <1>3 DEF ReadTest1, ReadTest2, ReadTest5, ReadFails, Go
  <2> QED
    BY <2>1 DEF PacketInv, OnePacketInv, TimerInv, HandleInv, InB, UnloadedInv,
       SlotHoldsWhatIsOwed, UnloadFindsTimerIdle, Sound
<1> QED
  BY <1>1, <1>2, <1>3

LEMMA SetTimerStep ==
  ASSUME TypeOK, ChainInv, Sound, NEW t \in Threads, SetTimer(t)
  PROVE  ChainInv'
<1> USE ChainAssumption DEF TypeOK, SetTimer, Go
<1>1. packet[t] = "live" /\ slot = t /\ dpc # "queued" /\ loaded
  BY DEF ChainInv, PacketInv, SlotHoldsWhatIsOwed, TimerInv, UnloadedInv
<1>2. PacketInv' /\ OnePacketInv'
  BY DEF ChainInv, PacketInv, OnePacketInv
<1>3. TimerInv'
  BY <1>1 DEF TimerInv
<1>4. HandleInv' /\ UnloadedInv'
  BY DEF ChainInv, HandleInv, InB, UnloadedInv
<1>5. SlotHoldsWhatIsOwed'
  BY <1>1 DEF ChainInv, SlotHoldsWhatIsOwed
<1>6. UnloadFindsTimerIdle'
  BY <1>1 DEF UnloadFindsTimerIdle
<1> QED
  BY <1>2, <1>3, <1>4, <1>5, <1>6 DEF ChainInv

\* The thread gets its packet back, its wait ends, and it closes DriverA.
LEMMA BackStep ==
  ASSUME TypeOK, ChainInv, Sound, Sound', NEW t \in Threads,
         EnterB(t) \/ CompleteDriverA_read(t) \/ WaitEnds(t) \/ CloseA(t) \/ CloseStray(t)
  PROVE  ChainInv'
<1> USE ChainAssumption DEF TypeOK, ChainInv, Go
<1>1. CASE EnterB(t) \/ WaitEnds(t)
  BY <1>1 DEF EnterB, WaitEnds, PacketInv, OnePacketInv, TimerInv, HandleInv, InB,
     UnloadedInv, SlotHoldsWhatIsOwed, UnloadFindsTimerIdle, Sound
<1>2. CASE CompleteDriverA_read(t)
  <2>1. pc[t] = "wait"
    BY <1>2 DEF CompleteDriverA_read, PacketInv
  <2> QED
    BY <1>2, <2>1 DEF CompleteDriverA_read, PacketInv, OnePacketInv, TimerInv, HandleInv,
       InB, UnloadedInv, SlotHoldsWhatIsOwed, UnloadFindsTimerIdle, Sound
<1>3. CASE CloseA(t)
  BY <1>3 DEF CloseA, PacketInv, OnePacketInv, TimerInv, HandleInv, InB, UnloadedInv,
     SlotHoldsWhatIsOwed, UnloadFindsTimerIdle, Sound
<1>4. CASE CloseStray(t)
  BY <1>4 DEF CloseStray, PacketInv, OnePacketInv, TimerInv, HandleInv, InB, UnloadedInv,
     SlotHoldsWhatIsOwed, UnloadFindsTimerIdle, Sound
<1> QED
  BY <1>1, <1>2, <1>3, <1>4

LEMMA OpenStep ==
  ASSUME TypeOK, ChainInv, Sound, NEW t \in Threads,
         OpenTest1(t) \/ OpenTest2(t) \/ OpenTest5(t)
  PROVE  ChainInv'
<1> USE ChainAssumption DEF TypeOK, ChainInv, Go, OpenTest1, OpenTest2, OpenTest5
<1>1. CASE CanOpen /\ opener' = t
  <2>1. /\ pc[t] = "open" /\ pc' = [pc EXCEPT ![t] = "read"] /\ loaded
        /\ opener = Nobody
        /\ UNCHANGED <<variant, packet, slot, armed, dpc, event, loaded, strayed>>
    BY <1>1 DEF OpenA, CanOpen, NoFileObject
  <2>2. HandleInv'
    BY <1>1, <2>1 DEF HandleInv, InB
  <2> QED
    BY <1>1, <2>1, <2>2 DEF PacketInv, OnePacketInv, TimerInv, UnloadedInv,
       SlotHoldsWhatIsOwed, UnloadFindsTimerIdle, Sound
<1>2. CASE ~(CanOpen /\ opener' = t)
  <2>1. /\ pc[t] = "open"
        /\ \/ pc' = [pc EXCEPT ![t] = "stray"] /\ variant # "Test5"
           \/ pc' = [pc EXCEPT ![t] = "idle"]
        /\ UNCHANGED <<variant, opener, packet, slot, armed, dpc, event, loaded, strayed>>
    BY <1>2 DEF OpenA
  <2> QED
    BY <2>1 DEF PacketInv, OnePacketInv, TimerInv, HandleInv, InB, UnloadedInv,
       SlotHoldsWhatIsOwed, UnloadFindsTimerIdle, Sound
<1> QED
  BY <1>1, <1>2

LEMMA ClockStep ==
  ASSUME TypeOK, ChainInv, Sound, Clock
  PROVE  ChainInv'
<1> USE ChainAssumption DEF TypeOK, ChainInv
<1>1. CASE TimerExpires
  BY <1>1 DEF TimerExpires, PacketInv, OnePacketInv, TimerInv, HandleInv, InB, UnloadedInv,
     SlotHoldsWhatIsOwed, UnloadFindsTimerIdle, Sound
<1>2. CASE OnTimerDpc
  <2>1. slot \in Threads /\ packet[slot] = "live" /\ ~armed /\ loaded
    BY <1>2 DEF OnTimerDpc, TimerInv, UnloadedInv
  <2>2. packet' = [packet EXCEPT ![slot] = "done"]
    BY <1>2, <2>1 DEF OnTimerDpc
  <2> QED
    BY <1>2, <2>1, <2>2 DEF OnTimerDpc, PacketInv, OnePacketInv, TimerInv, HandleInv, InB,
       UnloadedInv, SlotHoldsWhatIsOwed, UnloadFindsTimerIdle, Sound
<1>3. CASE DpcReturns
  BY <1>3 DEF DpcReturns, PacketInv, OnePacketInv, TimerInv, HandleInv, InB, UnloadedInv,
     SlotHoldsWhatIsOwed, UnloadFindsTimerIdle, Sound
<1> QED
  BY <1>1, <1>2, <1>3 DEF Clock

LEMMA OthersStep ==
  ASSUME TypeOK, ChainInv, Sound, OtherOpens \/ OtherCloses \/ UnloadA
  PROVE  ChainInv'
<1> USE ChainAssumption DEF TypeOK, ChainInv
<1>1. CASE OtherOpens \/ OtherCloses
  BY <1>1 DEF OtherOpens, OtherCloses, CanOpen, NoFileObject, PacketInv, OnePacketInv,
     TimerInv, HandleInv, InB, UnloadedInv, SlotHoldsWhatIsOwed, UnloadFindsTimerIdle, Sound
<1>2. CASE UnloadA
  BY <1>2 DEF UnloadA, ThreadRuns, NoFileObject, PacketInv, OnePacketInv, TimerInv, HandleInv,
     InB, UnloadedInv, SlotHoldsWhatIsOwed, UnloadFindsTimerIdle, Sound
<1> QED
  BY <1>1, <1>2

LEMMA Inductive ==
  ASSUME IInv, [Next]_vars
  PROVE  IInv'
<1>1. TypeOK /\ TypeOK'
  BY TypeStep DEF IInv
<1>2. ASSUME Sound'
      PROVE  ChainInv'
  <2>1. Sound /\ ChainInv
    BY <1>1, <1>2, SoundBefore DEF IInv
  <2>2. CASE UNCHANGED vars
    BY <2>1, <2>2 DEF vars, ChainInv, PacketInv, OnePacketInv, TimerInv, HandleInv, InB,
       UnloadedInv, SlotHoldsWhatIsOwed, UnloadFindsTimerIdle, Sound
  <2>3. ASSUME NEW t \in Threads, EnterB(t) \/ Step(t)
        PROVE  ChainInv'
    BY <1>1, <1>2, <2>1, <2>3, OpenStep, ReadStep, SetTimerStep, BackStep DEF Step
  <2> QED
    BY <1>1, <2>1, <2>2, <2>3, ClockStep, OthersStep DEF Next
<1> QED
  BY <1>1, <1>2 DEF IInv

LEMMA Initial ==
  ASSUME Init
  PROVE  IInv
<1>1. TypeOK
  BY DEF Init, TypeOK
<1>2. ChainInv
  BY ChainAssumption DEF Init, ChainInv, PacketInv, OnePacketInv, TimerInv, HandleInv, InB,
     UnloadedInv, SlotHoldsWhatIsOwed, UnloadFindsTimerIdle
<1> QED
  BY <1>1, <1>2 DEF IInv

\* The variables of DriverChain keep their types (chap11, DriverA and B).
THEOREM ChainTypeCorrect == Spec => []TypeOK
<1>1. IInv => TypeOK
  BY DEF IInv
<1> QED
  BY <1>1, Initial, Inductive, PTL DEF Spec

\* The one slot of DriverA (Source.cpp:129) holds every packet it owes, and no
\* packet is completed twice, however many threads read from driver B.
THEOREM OneSlotIsEnough == Spec => []SlotHoldsWhatIsOwed
<1>1. IInv => SlotHoldsWhatIsOwed
  BY DEF IInv, ChainInv, SlotHoldsWhatIsOwed
<1> QED
  BY <1>1, Initial, Inductive, PTL DEF Spec

\* Where a queued DPC runs before any thread goes on, HelloDDKUnload of DriverA
\* (Source.cpp:104-113) deletes a device whose timer and DPC are idle.
THEOREM TimerIdleAtUnload ==
  ASSUME Uniprocessor
  PROVE  Spec => []UnloadFindsTimerIdle
<1>1. IInv => UnloadFindsTimerIdle
  BY DEF IInv, ChainInv, UnloadFindsTimerIdle
<1> QED
  BY <1>1, Initial, Inductive, PTL DEF Spec
=============================================================================
