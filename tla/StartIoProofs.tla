---------------------------- MODULE StartIoProofs ----------------------------
(***************************************************************************)
(* Proofs about StartIo for every set of threads and packets: the type     *)
(* invariant, and that no packet is completed twice and no two packets are *)
(* served together.                                                        *)
(***************************************************************************)
EXTENDS StartIo, SequenceTheorems, TLAPS

-----------------------------------------------------------------------------
(***************************************************************************)
(* The device queue.                                                       *)
(***************************************************************************)

\* RemoveAt drops one element and moves those behind it up by one place.
LEMMA RemoveAtProperties ==
  ASSUME NEW S, NEW q \in Seq(S), NEW k \in 1 .. Len(q)
  PROVE  /\ RemoveAt(q, k) \in Seq(S)
         /\ Len(RemoveAt(q, k)) = Len(q) - 1
         /\ \A j \in 1 .. Len(q) - 1 :
              RemoveAt(q, k)[j] = IF j < k THEN q[j] ELSE q[j + 1]
<1> DEFINE a == SubSeq(q, 1, k - 1)
           b == SubSeq(q, k + 1, Len(q))
<1>1. Len(q) \in Nat
  BY LenProperties
<1>2. a \in Seq(S) /\ Len(a) = k - 1 /\ \A j \in 1 .. k - 1 : a[j] = q[j]
  BY <1>1, SubSeqProperties
<1>3. /\ b \in Seq(S)
      /\ Len(b) = Len(q) - k
      /\ \A j \in 1 .. Len(q) - k : b[j] = q[k + j]
  BY <1>1, SubSeqProperties
<1>4. RemoveAt(q, k) = a \o b
  BY DEF RemoveAt
<1> HIDE DEF a, b
<1>5. /\ a \o b \in Seq(S)
      /\ Len(a \o b) = Len(a) + Len(b)
      /\ \A j \in 1 .. Len(a) + Len(b) :
           (a \o b)[j] = IF j <= Len(a) THEN a[j] ELSE b[j - Len(a)]
  BY <1>2, <1>3, ConcatProperties
<1>6. ASSUME NEW j \in 1 .. Len(q) - 1
      PROVE  (a \o b)[j] = IF j < k THEN q[j] ELSE q[j + 1]
  BY <1>1, <1>2, <1>3, <1>5
<1> QED
  BY <1>1, <1>2, <1>3, <1>4, <1>5, <1>6

\* What KeRemoveEntryDeviceQueue leaves is a queue of packets.
LEMMA RemoveEntryType ==
  ASSUME NEW S, NEW q \in Seq(S), NEW i
  PROVE  RemoveEntry(q, i) \in Seq(S)
<1>1. CASE ~ InQueue(q, i)
  BY <1>1 DEF RemoveEntry
<1>2. CASE InQueue(q, i)
  <2> DEFINE k == CHOOSE j \in 1 .. Len(q) : q[j] = i
  <2>1. k \in 1 .. Len(q)
    BY <1>2 DEF InQueue
  <2> QED
    BY <1>2, <2>1, RemoveAtProperties DEF RemoveEntry
<1> QED
  BY <1>1, <1>2

\* KeRemoveEntryDeviceQueue takes exactly its packet out.
LEMMA RemoveEntryProperties ==
  ASSUME NEW S, NEW q \in Seq(S), NEW i, NoDuplicates(q)
  PROVE  /\ RemoveEntry(q, i) \in Seq(S)
         /\ NoDuplicates(RemoveEntry(q, i))
         /\ \A x : InQueue(RemoveEntry(q, i), x) <=> InQueue(q, x) /\ x # i
<1> DEFINE k == CHOOSE j \in 1 .. Len(q) : q[j] = i
           r == RemoveAt(q, k)
<1>1. CASE ~ InQueue(q, i)
  BY <1>1 DEF RemoveEntry, InQueue
<1>2. CASE InQueue(q, i)
  <2>1. k \in 1 .. Len(q) /\ q[k] = i
    BY <1>2 DEF InQueue
  <2>2. RemoveEntry(q, i) = r
    BY <1>2 DEF RemoveEntry
  <2> HIDE DEF k
  <2>3. /\ r \in Seq(S)
        /\ Len(r) = Len(q) - 1
        /\ \A j \in 1 .. Len(q) - 1 : r[j] = IF j < k THEN q[j] ELSE q[j + 1]
    BY <2>1, RemoveAtProperties
  <2> HIDE DEF r
  <2>4. Len(q) \in Nat
    BY LenProperties
  <2>5. NoDuplicates(r)
    BY <2>1, <2>3, <2>4 DEF NoDuplicates
  <2>6. ASSUME NEW x, InQueue(r, x)
        PROVE  InQueue(q, x) /\ x # i
    <3>1. PICK j \in 1 .. Len(q) - 1 : r[j] = x
      BY <2>3, <2>6 DEF InQueue
    <3>2. CASE j < k
      BY <3>1, <3>2, <2>1, <2>3, <2>4 DEF InQueue, NoDuplicates
    <3>3. CASE ~ (j < k)
      BY <3>1, <3>3, <2>1, <2>3, <2>4 DEF InQueue, NoDuplicates
    <3> QED
      BY <3>2, <3>3
  <2>7. ASSUME NEW x, InQueue(q, x), x # i
        PROVE  InQueue(r, x)
    <3>1. PICK j \in 1 .. Len(q) : q[j] = x
      BY <2>7 DEF InQueue
    <3>2. CASE j < k
      BY <3>1, <3>2, <2>1, <2>3, <2>4 DEF InQueue
    <3>3. CASE j > k
      <4>1. j - 1 \in 1 .. Len(q) - 1 /\ r[j - 1] = x
        BY <3>1, <3>3, <2>1, <2>3, <2>4
      <4> QED
        BY <4>1, <2>3 DEF InQueue
    <3>4. j # k
      BY <3>1, <2>1, <2>7
    <3> QED
      BY <3>1, <3>2, <3>3, <3>4, <2>1, <2>4
  <2> QED
    BY <2>2, <2>3, <2>5, <2>6, <2>7
<1> QED
  BY <1>1, <1>2

\* Append puts one packet in, behind the others.
LEMMA AppendEntryProperties ==
  ASSUME NEW S, NEW q \in Seq(S), NEW i \in S
  PROVE  /\ Append(q, i) \in Seq(S)
         /\ NoDuplicates(q) /\ ~ InQueue(q, i) => NoDuplicates(Append(q, i))
         /\ \A x : InQueue(Append(q, i), x) <=> InQueue(q, x) \/ x = i
<1> DEFINE a == Append(q, i)
<1>1. /\ a \in Seq(S)
      /\ Len(a) = Len(q) + 1
      /\ \A j \in 1 .. Len(q) : a[j] = q[j]
      /\ a[Len(q) + 1] = i
  BY AppendProperties
<1>2. Len(q) \in Nat
  BY LenProperties
<1> HIDE DEF a
<1>3. NoDuplicates(q) /\ ~ InQueue(q, i) => NoDuplicates(a)
  BY <1>1, <1>2 DEF NoDuplicates, InQueue
<1>4. ASSUME NEW x
      PROVE  InQueue(a, x) <=> InQueue(q, x) \/ x = i
  BY <1>1, <1>2 DEF InQueue
<1> QED
  BY <1>1, <1>3, <1>4 DEF a

\* The head of the queue leaves it.
LEMMA TailEntryProperties ==
  ASSUME NEW S, NEW q \in Seq(S), q # <<>>, NoDuplicates(q)
  PROVE  /\ Head(q) \in S
         /\ InQueue(q, Head(q))
         /\ Tail(q) \in Seq(S)
         /\ NoDuplicates(Tail(q))
         /\ \A x : InQueue(Tail(q), x) <=> InQueue(q, x) /\ x # Head(q)
<1>1. /\ Head(q) \in S
      /\ Tail(q) \in Seq(S)
      /\ Len(Tail(q)) = Len(q) - 1
      /\ \A j \in 1 .. Len(Tail(q)) : Tail(q)[j] = q[j + 1]
  BY HeadTailProperties
<1>2. Len(q) \in Nat /\ Len(q) # 0
  BY LenProperties, EmptySeq
<1>3. Head(q) = q[1]
  OBVIOUS
<1>4. InQueue(q, Head(q))
  BY <1>2, <1>3 DEF InQueue
<1>5. NoDuplicates(Tail(q))
  BY <1>1, <1>2 DEF NoDuplicates
<1>6. ASSUME NEW x, InQueue(Tail(q), x)
      PROVE  InQueue(q, x) /\ x # Head(q)
  BY <1>1, <1>2, <1>3, <1>6 DEF InQueue, NoDuplicates
<1>7. ASSUME NEW x, InQueue(q, x), x # Head(q)
      PROVE  InQueue(Tail(q), x)
  <2>1. PICK j \in 1 .. Len(q) : q[j] = x
    BY <1>7 DEF InQueue
  <2>2. j - 1 \in 1 .. Len(Tail(q)) /\ Tail(q)[j - 1] = x
    BY <2>1, <1>1, <1>2, <1>3, <1>7
  <2> QED
    BY <2>2 DEF InQueue
<1> QED
  BY <1>1, <1>4, <1>5, <1>6, <1>7

-----------------------------------------------------------------------------
(***************************************************************************)
(* Type correctness.  TypeOK is not inductive alone: IoStartPacket queues  *)
(* irp[t], which FrameInv says is a packet.                                *)
(***************************************************************************)

TypeInv == TypeOK /\ FrameInv

\* IoStartNextPacket keeps the variables it may change in their types.
LEMMA StartNextType ==
  ASSUME TypeInv, NEW t \in Threads, IoStartNextPacket(t),
         pc[t] \in {"startNext", "cancelNext"},
         UNCHANGED <<life, cancel, routine, victim>>
  PROVE  TypeInv'
<1> USE StartIoAssumption DEF TypeInv, TypeOK, FrameInv, Labels
<1>1. CASE queue = <<>>
  BY <1>1 DEF IoStartNextPacket, ReturnFromStartIo
<1>2. CASE queue # <<>>
  <2>1. Head(queue) \in Irps /\ Tail(queue) \in Seq(Irps)
    BY <1>2, HeadTailProperties
  <2> QED
    BY <1>2, <2>1 DEF IoStartNextPacket
<1> QED
  BY <1>1, <1>2

\* So does OnCancelIRP, on whatever device queue it is called with.
LEMMA OnCancelType ==
  ASSUME TypeInv, NEW t \in Threads, NEW i \in Irps, NEW q \in Seq(Irps),
         OnCancelIRP(t, i, q),
         life' = life, cancel' \in SUBSET Irps, routine' \in SUBSET Irps,
         UNCHANGED <<busy, current>>
  PROVE  TypeInv'
<1> USE StartIoAssumption DEF TypeInv, TypeOK, FrameInv, Labels
<1>1. RemoveEntry(q, i) \in Seq(Irps)
  BY RemoveEntryType
<1> QED
  BY <1>1 DEF OnCancelIRP

\* Every step keeps every variable in its type.
LEMMA TypeStep == TypeInv /\ [Next]_vars => TypeInv'
<1> SUFFICES ASSUME TypeInv, [Next]_vars
             PROVE  TypeInv'
  OBVIOUS
<1> USE StartIoAssumption DEF TypeInv, TypeOK, FrameInv, Labels
<1>1. ASSUME NEW t \in Threads, StartPacketIdle(t)
      PROVE  TypeInv'
  BY <1>1 DEF StartPacketIdle
<1>2. ASSUME NEW t \in Threads, StartPacketBusy(t)
      PROVE  TypeInv'
  <2>1. irp[t] \in Irps
    BY <1>2 DEF StartPacketBusy
  <2>2. Append(queue, irp[t]) \in Seq(Irps)
    BY <2>1, AppendProperties
  <2> QED
    BY <1>2, <2>1, <2>2 DEF StartPacketBusy
<1>3. ASSUME NEW t \in Threads, StartPacketCancelled(t)
      PROVE  TypeInv'
  <2>1. irp[t] \in Irps
    BY <1>3 DEF StartPacketCancelled
  <2>2. Append(queue, irp[t]) \in Seq(Irps)
    BY <2>1, AppendProperties
  <2> QED
    BY <1>3, <2>1, <2>2, OnCancelType DEF StartPacketCancelled
<1>4. ASSUME NEW t \in Threads, StartIoGivesUp(t)
      PROVE  TypeInv'
  BY <1>4 DEF StartIoGivesUp, ReturnFromStartIo
<1>5. ASSUME NEW t \in Threads, StartIoBegins(t)
      PROVE  TypeInv'
  BY <1>5 DEF StartIoBegins
<1>6. ASSUME NEW t \in Threads, StartIoCompletes(t)
      PROVE  TypeInv'
  BY <1>6 DEF StartIoCompletes, CompleteRequest
<1>7. ASSUME NEW t \in Threads, StartIoNext(t) \/ OnCancelNext(t)
      PROVE  TypeInv'
  BY <1>7, StartNextType DEF StartIoNext, OnCancelNext
<1>8. ASSUME NEW t \in Threads, OnCancelCompletes(t)
      PROVE  TypeInv'
  BY <1>8 DEF OnCancelCompletes, CompleteRequest
<1>9. ASSUME NEW t \in Threads, NEW i \in Irps, HelloDDKRead(t, i)
      PROVE  TypeInv'
  BY <1>9 DEF HelloDDKRead
<1>10. ASSUME NEW t \in Threads, NEW i \in Irps, IoCancelIrpFlag(t, i)
       PROVE  TypeInv'
  BY <1>10 DEF IoCancelIrpFlag
<1>11. ASSUME NEW t \in Threads, NEW i \in Irps, IoCancelIrp(t, i)
       PROVE  TypeInv'
  BY <1>11, OnCancelType DEF IoCancelIrp
<1>12. ASSUME NEW i \in Irps, Reclaim(i)
       PROVE  TypeInv'
  BY <1>12 DEF Reclaim
<1>13. CASE UNCHANGED vars
  BY <1>13 DEF vars
<1> QED
  BY <1>1, <1>2, <1>3, <1>4, <1>5, <1>6, <1>7, <1>8, <1>9, <1>10, <1>11,
     <1>12, <1>13 DEF Next, Step

\* The variables keep their types in every behaviour, whatever the constants.
THEOREM TypeCorrect == Spec => []TypeOK
<1>1. Init => TypeInv
  BY StartIoAssumption, EmptySeq DEF Init, TypeInv, TypeOK, FrameInv, Labels
<1>2. TypeInv => TypeOK
  BY DEF TypeInv
<1> QED
  BY <1>1, <1>2, TypeStep, PTL DEF Spec

-----------------------------------------------------------------------------
(***************************************************************************)
(* The inductive invariant.  One lemma per kind of step; TypeOK and        *)
(* FrameInv come from TypeStep.                                            *)
(***************************************************************************)

\* The conjuncts of IInv that TypeStep does not give.
RestInv ==
  /\ CompletedOnce
  /\ UniqueInv
  /\ QueueInv
  /\ CurrentInv
  /\ RoutineInv
  /\ HeldInv

\* IoStartPacket on an idle device makes its packet current: nobody else had
\* the duty to move the device on.
LEMMA StartPacketIdleStep ==
  ASSUME IInv, TypeInv', NEW t \in Threads, StartPacketIdle(t)
  PROVE  RestInv'
<1> USE StartIoAssumption DEF IInv, TypeOK, FrameInv, Labels, StartPacketIdle
<1>1. irp[t] \in Irps /\ current = NoIrp /\ queue = <<>> /\ queue' = queue
  BY DEF CurrentInv, QueueInv
<1>2. CompletedOnce'
  BY DEF CompletedOnce
<1>3. UniqueInv'
  BY <1>1 DEF UniqueInv, CurrentInv, AdvancesDevice
<1>4. QueueInv'
  BY <1>1 DEF QueueInv, InQueue, NoDuplicates
<1>5. CurrentInv'
  BY <1>1 DEF CurrentInv, HeldInv
<1>6. RoutineInv'
  BY <1>1 DEF RoutineInv, HeldInv, CurrentInv, AdvancesDevice, InQueue
<1>7. HeldInv'
  BY <1>1 DEF HeldInv, UniqueInv, CurrentInv, AdvancesDevice
<1> QED
  BY <1>2, <1>3, <1>4, <1>5, <1>6, <1>7 DEF RestInv

\* IoStartPacket on a busy device puts an uncancelled packet into the queue.
LEMMA StartPacketBusyStep ==
  ASSUME IInv, TypeInv', NEW t \in Threads, StartPacketBusy(t)
  PROVE  RestInv'
<1> USE StartIoAssumption DEF IInv, TypeOK, FrameInv, Labels, StartPacketBusy
<1> DEFINE i == irp[t]
<1>1. /\ i \in Irps /\ life[i] = "live" /\ i # current
      /\ ~ InQueue(queue, i)
      /\ \A u \in Threads : victim[u] # i
  BY DEF HeldInv, QueueInv
<1>2. /\ NoDuplicates(queue')
      /\ \A x : InQueue(queue', x) <=> InQueue(queue, x) \/ x = i
  BY <1>1, AppendEntryProperties DEF QueueInv
<1>3. CompletedOnce'
  BY DEF CompletedOnce
<1>4. UniqueInv'
  BY <1>1 DEF UniqueInv, AdvancesDevice
<1>5. QueueInv'
  BY <1>1, <1>2 DEF QueueInv, UniqueInv
<1>6. CurrentInv'
  BY <1>1 DEF CurrentInv, AdvancesDevice
<1>7. RoutineInv'
  BY <1>1, <1>2 DEF RoutineInv
<1>8. HeldInv'
  BY <1>1 DEF HeldInv, UniqueInv
<1> QED
  BY <1>3, <1>4, <1>5, <1>6, <1>7, <1>8 DEF RestInv

\* IoStartPacket gives a packet that is cancelled already to OnCancelIRP,
\* which takes it out of the queue again.
LEMMA StartPacketCancelledStep ==
  ASSUME IInv, TypeInv', NEW t \in Threads, StartPacketCancelled(t)
  PROVE  RestInv'
<1> USE StartIoAssumption
    DEF IInv, TypeOK, FrameInv, Labels, StartPacketCancelled, OnCancelIRP
<1> DEFINE i == irp[t]
<1>1. /\ i \in Irps /\ life[i] = "live" /\ i # current
      /\ ~ InQueue(queue, i)
      /\ \A u \in Threads : victim[u] # i
  BY DEF HeldInv, QueueInv
<1>2. queue' = RemoveEntry(Append(queue, i), i)
  BY <1>1
<1>3. /\ Append(queue, i) \in Seq(Irps)
      /\ NoDuplicates(Append(queue, i))
      /\ \A x : InQueue(Append(queue, i), x) <=> InQueue(queue, x) \/ x = i
  BY <1>1, AppendEntryProperties DEF QueueInv
<1>4. /\ NoDuplicates(queue')
      /\ \A x : InQueue(queue', x) <=> InQueue(queue, x)
  <2> DEFINE a == Append(queue, i)
  <2> HIDE DEF a, i
  <2>1. /\ NoDuplicates(RemoveEntry(a, i))
        /\ \A x : InQueue(RemoveEntry(a, i), x) <=> InQueue(a, x) /\ x # i
    BY <1>3, RemoveEntryProperties DEF a
  <2>2. \A x : InQueue(RemoveEntry(a, i), x) <=> InQueue(queue, x)
    BY <1>1, <1>3, <2>1 DEF a
  <2> QED
    BY <1>2, <2>1, <2>2 DEF a
<1>5. CompletedOnce'
  BY DEF CompletedOnce
<1>6. UniqueInv'
  BY <1>1 DEF UniqueInv, AdvancesDevice
<1>7. QueueInv'
  BY <1>1, <1>4 DEF QueueInv, UniqueInv
<1>8. CurrentInv'
  BY <1>1 DEF CurrentInv, AdvancesDevice
<1>9. RoutineInv'
  BY <1>1, <1>4 DEF RoutineInv
<1>10. HeldInv'
  BY <1>1 DEF HeldInv, UniqueInv
<1> QED
  BY <1>5, <1>6, <1>7, <1>8, <1>9, <1>10 DEF RestInv

\* HelloDDKStartIo's early return touches nothing but its own frame.
LEMMA StartIoGivesUpStep ==
  ASSUME IInv, TypeInv', NEW t \in Threads, StartIoGivesUp(t)
  PROVE  RestInv'
<1> USE StartIoAssumption
    DEF IInv, TypeOK, FrameInv, Labels, StartIoGivesUp, ReturnFromStartIo
<1>1. CompletedOnce'
  BY DEF CompletedOnce
<1>2. UniqueInv'
  BY DEF UniqueInv, AdvancesDevice
<1>3. QueueInv'
  BY DEF QueueInv
<1>4. CurrentInv'
  BY DEF CurrentInv, AdvancesDevice
<1>5. RoutineInv'
  BY DEF RoutineInv
<1>6. HeldInv'
  BY DEF HeldInv
<1> QED
  BY <1>1, <1>2, <1>3, <1>4, <1>5, <1>6 DEF RestInv

\* HelloDDKStartIo begins to work on the current packet.
LEMMA StartIoBeginsStep ==
  ASSUME IInv, TypeInv', NEW t \in Threads, StartIoBegins(t)
  PROVE  RestInv'
<1> USE StartIoAssumption DEF IInv, TypeOK, FrameInv, Labels, StartIoBegins
<1>1. AdvancesDevice(t) /\ current \in Irps /\ ~ InQueue(queue, current)
  BY DEF AdvancesDevice, QueueInv
<1>2. CompletedOnce'
  BY DEF CompletedOnce
<1>3. UniqueInv'
  BY <1>1 DEF UniqueInv, AdvancesDevice
<1>4. QueueInv'
  BY <1>1 DEF QueueInv
<1>5. CurrentInv'
  BY <1>1 DEF CurrentInv, AdvancesDevice
<1>6. RoutineInv'
  BY <1>1 DEF RoutineInv
<1>7. HeldInv'
  BY <1>1 DEF HeldInv, UniqueInv
<1> QED
  BY <1>2, <1>3, <1>4, <1>5, <1>6, <1>7 DEF RestInv

\* HelloDDKStartIo completes the current packet: no thread has it as a victim.
LEMMA StartIoCompletesStep ==
  ASSUME IInv, TypeInv', NEW t \in Threads, StartIoCompletes(t)
  PROVE  RestInv'
<1> USE StartIoAssumption
    DEF IInv, TypeOK, FrameInv, Labels, StartIoCompletes, CompleteRequest
<1>1. /\ AdvancesDevice(t) /\ irp[t] = current /\ current \in Irps
      /\ life[current] = "live" /\ current \notin routine
      /\ ~ InQueue(queue, current)
  BY DEF AdvancesDevice, HeldInv, QueueInv
<1>2. \A u \in Threads : victim[u] # current
  BY <1>1 DEF HeldInv, UniqueInv, AdvancesDevice
<1>3. CompletedOnce'
  BY <1>1 DEF CompletedOnce
<1>4. UniqueInv'
  BY <1>1 DEF UniqueInv, AdvancesDevice
<1>5. QueueInv'
  BY <1>1 DEF QueueInv
<1>6. CurrentInv'
  BY <1>1 DEF CurrentInv, AdvancesDevice
<1>7. RoutineInv'
  BY <1>1 DEF RoutineInv
<1>8. HeldInv'
  BY <1>1, <1>2 DEF HeldInv, UniqueInv
<1> QED
  BY <1>3, <1>4, <1>5, <1>6, <1>7, <1>8 DEF RestInv

\* IoStartNextPacket, called by the one thread with the duty to move the
\* device on, hands that duty to the HelloDDKStartIo of the next packet.
LEMMA StartNextStep ==
  ASSUME IInv, TypeInv', NEW t \in Threads, IoStartNextPacket(t),
         pc[t] \in {"startNext", "cancelNext"},
         UNCHANGED <<life, cancel, routine, victim>>
  PROVE  RestInv'
<1> USE StartIoAssumption DEF IInv, TypeOK, FrameInv, Labels
<1>1. /\ AdvancesDevice(t) /\ busy /\ irp[t] = NoIrp
      /\ \A u \in Threads : AdvancesDevice(u) => u = t
      /\ current \notin routine
  BY DEF AdvancesDevice, UniqueInv, CurrentInv, HeldInv, RoutineInv, QueueInv
<1>2. CompletedOnce'
  BY DEF CompletedOnce
<1>3. CASE queue = <<>>
  <2> USE <1>3 DEF IoStartNextPacket, ReturnFromStartIo
  <2>1. \A x \in Irps : ~ InQueue(queue, x)
    BY DEF InQueue
  <2>2. UniqueInv'
    BY <1>1 DEF UniqueInv, AdvancesDevice
  <2>3. QueueInv'
    BY <1>1 DEF QueueInv
  <2>4. CurrentInv'
    BY <1>1 DEF CurrentInv, AdvancesDevice
  <2>5. RoutineInv'
    BY <1>1, <2>1 DEF RoutineInv
  <2>6. HeldInv'
    BY <1>1 DEF HeldInv, AdvancesDevice
  <2> QED
    BY <1>2, <2>2, <2>3, <2>4, <2>5, <2>6 DEF RestInv
<1>4. CASE queue # <<>>
  <2> DEFINE n == Head(queue)
  <2> USE <1>4 DEF IoStartNextPacket
  <2>1. /\ n \in Irps /\ InQueue(queue, n)
        /\ NoDuplicates(queue')
        /\ \A x : InQueue(queue', x) <=> InQueue(queue, x) /\ x # n
    <3>1. NoDuplicates(queue)
      BY DEF QueueInv
    <3>2. queue' = Tail(queue)
      OBVIOUS
    <3> QED
      BY <3>1, <3>2, TailEntryProperties
  <2>2. /\ life[n] = "live" /\ n \in routine /\ n \notin cancel /\ n # current
        /\ \A u \in Threads : irp[u] # n /\ victim[u] # n
    BY <2>1 DEF QueueInv
  <2>3. current' = n /\ pc' = [pc EXCEPT ![t] = "startIo"]
        /\ irp' = [irp EXCEPT ![t] = n]
    OBVIOUS
  <2> HIDE DEF n
  <2>4. UniqueInv'
    BY <1>1, <2>1, <2>2, <2>3 DEF UniqueInv, AdvancesDevice
  <2>5. QueueInv'
    BY <1>1, <2>1, <2>2, <2>3 DEF QueueInv
  <2>6. CurrentInv'
    BY <1>1, <2>1, <2>2, <2>3 DEF CurrentInv, AdvancesDevice
  <2>7. RoutineInv'
    BY <1>1, <2>1, <2>2, <2>3 DEF RoutineInv, AdvancesDevice
  <2>8. HeldInv'
    BY <1>1, <2>1, <2>2, <2>3 DEF HeldInv, AdvancesDevice
  <2> QED
    BY <1>2, <2>4, <2>5, <2>6, <2>7, <2>8 DEF RestInv
<1> QED
  BY <1>3, <1>4

\* OnCancelIRP completes its victim, which no other thread holds.
LEMMA OnCancelCompletesStep ==
  ASSUME IInv, TypeInv', NEW t \in Threads, OnCancelCompletes(t)
  PROVE  RestInv'
<1> USE StartIoAssumption
    DEF IInv, TypeOK, FrameInv, Labels, OnCancelCompletes, CompleteRequest
<1> DEFINE i == victim[t]
<1>1. /\ i \in Irps /\ life[i] = "live" /\ i # current
      /\ i \notin routine /\ ~ InQueue(queue, i)
      /\ irp[t] = NoIrp
  BY DEF HeldInv, QueueInv
<1>2. /\ \A u \in Threads : u # t => victim[u] # i
      /\ \A u \in Threads : pc[u] \in {"read", "work"} => irp[u] # i
  BY <1>1 DEF UniqueInv, HeldInv
<1>3. CompletedOnce'
  BY <1>1 DEF CompletedOnce
<1>4. UniqueInv'
  BY DEF UniqueInv, AdvancesDevice
<1>5. QueueInv'
  BY <1>1 DEF QueueInv
<1>6. CurrentInv'
  BY <1>1 DEF CurrentInv, AdvancesDevice
<1>7. RoutineInv'
  BY <1>1 DEF RoutineInv
<1>8. HeldInv'
  BY <1>1, <1>2 DEF HeldInv, CurrentInv, AdvancesDevice
<1> QED
  BY <1>3, <1>4, <1>5, <1>6, <1>7, <1>8 DEF RestInv

\* A new read takes a packet that nobody points to.
LEMMA HelloDDKReadStep ==
  ASSUME IInv, TypeInv', ~ ReuseStale,
         NEW t \in Threads, NEW i \in Irps, HelloDDKRead(t, i)
  PROVE  RestInv'
<1> USE StartIoAssumption DEF IInv, TypeOK, FrameInv, Labels, HelloDDKRead
<1>1. /\ i # current /\ i \notin routine /\ ~ InQueue(queue, i)
      /\ \A u \in Threads : victim[u] # i
  BY DEF CurrentInv, RoutineInv, QueueInv, HeldInv
<1>2. \A u \in Threads : irp[u] # i
  BY <1>1 DEF HeldInv
<1>3. CompletedOnce'
  BY DEF CompletedOnce
<1>4. UniqueInv'
  BY <1>1, <1>2 DEF UniqueInv, AdvancesDevice
<1>5. QueueInv'
  BY <1>1 DEF QueueInv
<1>6. CurrentInv'
  BY <1>1, <1>2 DEF CurrentInv, AdvancesDevice
<1>7. RoutineInv'
  BY <1>1 DEF RoutineInv
<1>8. HeldInv'
  BY <1>1, <1>2 DEF HeldInv
<1> QED
  BY <1>3, <1>4, <1>5, <1>6, <1>7, <1>8 DEF RestInv

\* Setting the flag of a packet without a cancel routine: not a queued one,
\* and not one that HelloDDKStartIo is about to begin.
LEMMA IoCancelIrpFlagStep ==
  ASSUME IInv, TypeInv', NEW t \in Threads, NEW i \in Irps,
         IoCancelIrpFlag(t, i)
  PROVE  RestInv'
<1> USE StartIoAssumption DEF IInv, TypeOK, FrameInv, Labels, IoCancelIrpFlag
<1>1. ~ InQueue(queue, i)
  BY DEF QueueInv
<1>2. CompletedOnce'
  BY DEF CompletedOnce
<1>3. UniqueInv'
  BY DEF UniqueInv, AdvancesDevice
<1>4. QueueInv'
  BY <1>1 DEF QueueInv
<1>5. CurrentInv'
  BY DEF CurrentInv, AdvancesDevice
<1>6. RoutineInv'
  BY DEF RoutineInv
<1>7. HeldInv'
  BY DEF HeldInv
<1> QED
  BY <1>2, <1>3, <1>4, <1>5, <1>6, <1>7 DEF RestInv

\* IoCancelIrp takes the packet out of the queue, or takes over the duty to
\* move the device on from the HelloDDKStartIo of the current packet.
LEMMA IoCancelIrpStep ==
  ASSUME IInv, TypeInv', NEW t \in Threads, NEW i \in Irps, IoCancelIrp(t, i)
  PROVE  RestInv'
<1> USE StartIoAssumption
    DEF IInv, TypeOK, FrameInv, Labels, IoCancelIrp, OnCancelIRP
<1>1. \A u \in Threads : victim[u] # i
  BY DEF HeldInv
<1>2. CompletedOnce'
  BY DEF CompletedOnce
<1>3. CASE i = current
  <2>1. queue' = queue /\ ~ InQueue(queue, i) /\ busy
    BY <1>3 DEF QueueInv, CurrentInv
  <2>2. \A u \in Threads : pc[u] \notin {"work", "startNext", "cancelNext"}
    BY <1>3, <2>1 DEF RoutineInv
  <2>3. UniqueInv'
    BY <1>1, <1>3, <2>2 DEF UniqueInv, AdvancesDevice
  <2>4. QueueInv'
    BY <1>3, <2>1 DEF QueueInv
  <2>5. CurrentInv'
    BY <1>3, <2>1 DEF CurrentInv, AdvancesDevice
  <2>6. RoutineInv'
    BY <1>3, <2>1 DEF RoutineInv
  <2>7. HeldInv'
    BY <1>1, <1>3, <2>2 DEF HeldInv
  <2> QED
    BY <1>2, <2>3, <2>4, <2>5, <2>6, <2>7 DEF RestInv
<1>4. CASE i # current
  <2>1. InQueue(queue, i)
    BY <1>4 DEF RoutineInv
  <2>2. \A u \in Threads : irp[u] # i
    BY <2>1 DEF QueueInv
  <2>3. /\ NoDuplicates(queue')
        /\ \A x : InQueue(queue', x) <=> InQueue(queue, x) /\ x # i
    BY <1>4, RemoveEntryProperties DEF QueueInv
  <2>4. queue' # <<>> => queue # <<>>
    <3>1. queue = <<>> => FALSE
      BY <2>1 DEF InQueue
    <3> QED
      BY <3>1
  <2>5. UniqueInv'
    BY <1>1, <1>4 DEF UniqueInv, AdvancesDevice
  <2>6. QueueInv'
    BY <1>1, <1>4, <2>2, <2>3, <2>4 DEF QueueInv
  <2>7. CurrentInv'
    BY <1>4 DEF CurrentInv, AdvancesDevice
  <2>8. RoutineInv'
    BY <1>4, <2>3 DEF RoutineInv
  <2>9. HeldInv'
    BY <1>1, <1>4, <2>2 DEF HeldInv
  <2> QED
    BY <1>2, <2>5, <2>6, <2>7, <2>8, <2>9 DEF RestInv
<1> QED
  BY <1>3, <1>4

\* A completed packet's memory goes back while nobody points to it.
LEMMA ReclaimStep ==
  ASSUME IInv, TypeInv', ~ ReuseStale, NEW i \in Irps, Reclaim(i)
  PROVE  RestInv'
<1> USE StartIoAssumption DEF IInv, TypeOK, FrameInv, Labels, Reclaim
<1>1. CompletedOnce'
  BY DEF CompletedOnce
<1>2. UniqueInv'
  BY DEF UniqueInv, AdvancesDevice
<1>3. QueueInv'
  BY DEF QueueInv
<1>4. CurrentInv'
  BY DEF CurrentInv, AdvancesDevice
<1>5. RoutineInv'
  BY DEF RoutineInv
<1>6. HeldInv'
  BY DEF HeldInv
<1> QED
  BY <1>1, <1>2, <1>3, <1>4, <1>5, <1>6 DEF RestInv

\* IInv is inductive as long as the I/O manager does not reuse a packet that
\* CurrentIrp or a late HelloDDKStartIo still points to.
LEMMA IInvStep ==
  ASSUME ~ ReuseStale, IInv, [Next]_vars
  PROVE  IInv'
<1>1. TypeInv'
  BY TypeStep DEF IInv, TypeInv
<1>2. ASSUME NEW t \in Threads, Step(t)
      PROVE  RestInv'
  <2>1. CASE StartIoNext(t) \/ OnCancelNext(t)
    BY <1>1, <2>1, StartNextStep DEF StartIoNext, OnCancelNext
  <2> QED
    BY <1>1, <1>2, <2>1, StartPacketIdleStep, StartPacketBusyStep,
       StartPacketCancelledStep, StartIoGivesUpStep, StartIoBeginsStep,
       StartIoCompletesStep, OnCancelCompletesStep DEF Step
<1>3. ASSUME NEW t \in Threads, NEW i \in Irps,
             HelloDDKRead(t, i) \/ IoCancelIrpFlag(t, i) \/ IoCancelIrp(t, i)
      PROVE  RestInv'
  BY <1>1, <1>3, HelloDDKReadStep, IoCancelIrpFlagStep, IoCancelIrpStep
<1>4. ASSUME NEW i \in Irps, Reclaim(i)
      PROVE  RestInv'
  BY <1>1, <1>4, ReclaimStep
<1>5. ASSUME UNCHANGED vars
      PROVE  RestInv'
  <2> USE <1>5 DEF vars, IInv
  <2>1. CompletedOnce' /\ HeldInv'
    BY DEF CompletedOnce, HeldInv
  <2>2. UniqueInv' /\ CurrentInv'
    BY DEF UniqueInv, CurrentInv, AdvancesDevice
  <2>3. QueueInv' /\ RoutineInv'
    BY DEF QueueInv, RoutineInv
  <2> QED
    BY <2>1, <2>2, <2>3 DEF RestInv
<1>6. ASSUME Next
      PROVE  RestInv'
  BY <1>2, <1>3, <1>4, <1>6 DEF Next
<1>7. RestInv'
  BY <1>5, <1>6
<1> QED
  BY <1>1, <1>7 DEF IInv, TypeInv, RestInv

\* Before the first read there is nothing in the queue and nobody in the driver.
LEMMA IInvInit == Init => IInv
<1> SUFFICES ASSUME Init
             PROVE  IInv
  OBVIOUS
<1> USE StartIoAssumption DEF Init
<1>1. queue = <<>> /\ queue \in Seq(Irps) /\ Len(queue) = 0
  BY EmptySeq
<1>2. TypeOK
  BY <1>1 DEF TypeOK, Labels
<1>3. FrameInv /\ UniqueInv
  BY DEF FrameInv, UniqueInv, AdvancesDevice
<1>4. QueueInv
  BY <1>1 DEF QueueInv, InQueue, NoDuplicates
<1>5. CompletedOnce /\ CurrentInv /\ RoutineInv
  BY DEF CompletedOnce, CurrentInv, RoutineInv, AdvancesDevice
<1>6. HeldInv
  BY DEF HeldInv
<1> QED
  BY <1>2, <1>3, <1>4, <1>5, <1>6 DEF IInv

\* The inductive invariant holds in every behaviour.
THEOREM Invariance == ASSUME ~ ReuseStale PROVE Spec => []IInv
<1>1. IInv /\ [Next]_vars => IInv'
  BY IInvStep
<1> QED
  BY <1>1, IInvInit, PTL DEF Spec

\* Line 35 and line 231 never complete the same packet, whichever threads
\* read and cancel and whenever they do.
THEOREM NeverCompletedTwice == ASSUME ~ ReuseStale PROVE Spec => []CompletedOnce
<1>1. IInv => CompletedOnce
  BY DEF IInv
<1> QED
  BY <1>1, Invariance, PTL

\* The StartIo routine serves one packet at a time.
THEOREM ServedOneAtATime == ASSUME ~ ReuseStale PROVE Spec => []OneAtATime
<1>1. IInv => OneAtATime
  BY DEF IInv, UniqueInv, OneAtATime, AdvancesDevice
<1> QED
  BY <1>1, Invariance, PTL

\* A cancellation always reaches a packet that waits in the device queue.
THEOREM QueuedCanBeCancelled == ASSUME ~ ReuseStale PROVE Spec => []QueueCancellable
<1>1. ASSUME IInv, NEW k \in 1 .. Len(queue)
      PROVE  /\ life[queue[k]] = "live"
             /\ queue[k] \in routine
             /\ queue[k] \notin cancel
  <2>1. queue[k] \in Irps
    BY <1>1, ElementOfSeq DEF IInv, TypeOK
  <2>2. InQueue(queue, queue[k])
    BY DEF InQueue
  <2> QED
    BY <1>1, <2>1, <2>2 DEF IInv, QueueInv
<1>2. IInv => QueueCancellable
  BY <1>1 DEF QueueCancellable
<1> QED
  BY <1>2, Invariance, PTL

-----------------------------------------------------------------------------
(***************************************************************************)
(* Refinement: StartIo implements IrpContract.                             *)
(***************************************************************************)

\* The packets at work change only where a thread enters or leaves "work".
LEMMA ServedUnchanged ==
  ASSUME \A t \in Threads : pc[t] = "work" <=> pc'[t] = "work",
         \A t \in Threads : pc[t] = "work" => irp'[t] = irp[t]
  PROVE  Served' = Served
  BY DEF Served

\* Every step of the driver is a step of the contract, or changes nothing
\* that the contract speaks of.
LEMMA ContractStep ==
  ASSUME IInv, IInv', ~ ReuseStale, [Next]_vars
  PROVE  [Contract!Next]_Contract!vars
<1> USE StartIoAssumption DEF Contract!vars
<1>1. ASSUME NEW t \in Threads, StartIoBegins(t)
      PROVE  Contract!Next
  <2>1. irp[t] \in Irps /\ life[irp[t]] = "live" /\ life' = life
    BY <1>1 DEF StartIoBegins, IInv, TypeOK, FrameInv, HeldInv
  <2>2. \A u \in Threads : pc[u] # "work"
    BY <1>1 DEF StartIoBegins, IInv, UniqueInv, AdvancesDevice
  <2>3. Served = {}
    BY <2>2 DEF Served
  <2>4. pc' = [pc EXCEPT ![t] = "work"] /\ irp' = irp /\ pc \in [Threads -> Labels]
    BY <1>1 DEF StartIoBegins, IInv, TypeOK
  <2>5. Served' = {irp[t]}
    BY <2>2, <2>4 DEF Served
  <2> QED
    BY <2>1, <2>3, <2>5 DEF Contract!Next, Contract!Start
<1>2. ASSUME NEW t \in Threads, StartIoCompletes(t)
      PROVE  Contract!Next
  <2>1. irp[t] \in Irps /\ life[irp[t]] = "live"
    BY <1>2 DEF StartIoCompletes, IInv, TypeOK, FrameInv, HeldInv
  <2>2. life' = [life EXCEPT ![irp[t]] = "done"]
    BY <1>2, <2>1 DEF StartIoCompletes, CompleteRequest, IInv, TypeOK
  <2>3. \A u \in Threads : pc[u] = "work" <=> u = t
    BY <1>2 DEF StartIoCompletes, IInv, UniqueInv, AdvancesDevice
  <2>4. Served = {irp[t]}
    BY <2>3 DEF Served
  <2>5. pc' = [pc EXCEPT ![t] = "startNext"] /\ pc \in [Threads -> Labels]
    BY <1>2 DEF StartIoCompletes, IInv, TypeOK
  <2>6. Served' = {}
    BY <2>3, <2>5 DEF Served
  <2> QED
    BY <2>1, <2>2, <2>4, <2>6 DEF Contract!Next, Contract!Finish
<1>3. ASSUME NEW t \in Threads, OnCancelCompletes(t)
      PROVE  Contract!Next
  <2> DEFINE i == victim[t]
  <2>1. i \in Irps /\ life[i] = "live" /\ i # current
    BY <1>3 DEF OnCancelCompletes, IInv, TypeOK, FrameInv, HeldInv
  <2>2. life' = [life EXCEPT ![i] = "done"]
    BY <1>3, <2>1 DEF OnCancelCompletes, CompleteRequest, IInv, TypeOK
  <2>3. i \notin Served
    BY <2>1 DEF Served, IInv, HeldInv
  <2>4. Served' = Served
    BY <1>3, ServedUnchanged DEF OnCancelCompletes, IInv, TypeOK
  <2> QED
    BY <2>1, <2>2, <2>3, <2>4 DEF Contract!Next, Contract!Refuse
<1>4. ASSUME NEW t \in Threads, NEW i \in Irps, HelloDDKRead(t, i)
      PROVE  Contract!Next
  <2>1. Served' = Served
    BY <1>4, ServedUnchanged DEF HelloDDKRead, IInv, TypeOK
  <2> QED
    BY <1>4, <2>1 DEF HelloDDKRead, Contract!Next, Contract!Issue
<1>5. ASSUME NEW i \in Irps, Reclaim(i)
      PROVE  Contract!Next
  <2>1. Served' = Served
    BY <1>5, ServedUnchanged DEF Reclaim
  <2> QED
    BY <1>5, <2>1 DEF Reclaim, Contract!Next, Contract!Reclaim
<1>6. ASSUME NEW t \in Threads, StartIoNext(t) \/ OnCancelNext(t)
      PROVE  UNCHANGED Contract!vars
  <2>1. life' = life /\ pc[t] # "work" /\ pc'[t] # "work"
        /\ \A u \in Threads : u # t => pc'[u] = pc[u] /\ irp'[u] = irp[u]
    BY <1>6 DEF StartIoNext, OnCancelNext, IoStartNextPacket,
                ReturnFromStartIo, IInv, TypeOK
  <2> QED
    BY <2>1, ServedUnchanged
<1>7. ASSUME NEW t \in Threads,
             \/ StartPacketIdle(t)
             \/ StartPacketBusy(t)
             \/ StartPacketCancelled(t)
             \/ StartIoGivesUp(t)
      PROVE  UNCHANGED Contract!vars
  <2>1. life' = life /\ pc[t] # "work" /\ pc'[t] # "work"
        /\ \A u \in Threads : u # t => pc'[u] = pc[u] /\ irp'[u] = irp[u]
    BY <1>7 DEF StartPacketIdle, StartPacketBusy, StartPacketCancelled,
                StartIoGivesUp, ReturnFromStartIo, OnCancelIRP, IInv, TypeOK
  <2> QED
    BY <2>1, ServedUnchanged
<1>8. ASSUME NEW t \in Threads, NEW i \in Irps,
             IoCancelIrpFlag(t, i) \/ IoCancelIrp(t, i)
      PROVE  UNCHANGED Contract!vars
  <2>1. life' = life /\ pc[t] # "work" /\ pc'[t] # "work"
        /\ \A u \in Threads : u # t => pc'[u] = pc[u] /\ irp'[u] = irp[u]
    BY <1>8 DEF IoCancelIrpFlag, IoCancelIrp, OnCancelIRP, IInv, TypeOK
  <2> QED
    BY <2>1, ServedUnchanged
<1>9. ASSUME UNCHANGED vars
      PROVE  UNCHANGED Contract!vars
  BY <1>9, ServedUnchanged DEF vars
<1> QED
  BY <1>1, <1>2, <1>3, <1>4, <1>5, <1>6, <1>7, <1>8, <1>9 DEF Next, Step

\* StartIo implements the contract of a queueing driver.
THEOREM StartIoImplementsContract ==
  ASSUME ~ ReuseStale PROVE Spec => KeepsContract
<1>1. Init => Contract!Init
  BY DEF Init, Contract!Init, Served
<1>2. IInv /\ IInv' /\ [Next]_vars => [Contract!Next]_Contract!vars
  BY ContractStep
<1> QED
  BY <1>1, <1>2, Invariance, PTL DEF Spec, KeepsContract, Contract!Spec

=============================================================================
