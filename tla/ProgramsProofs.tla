---------------------------- MODULE ProgramsProofs ----------------------------
(***************************************************************************)
(* Proofs about the programs other than drivers.  ThreadsafeQueue, for any *)
(* number of threads: one notify_one per element is enough, however        *)
(* elements are taken and whoever wakes up for no reason.  Yieldo, for any *)
(* coroutines: put wakes enough consumers.  Ttcp, for any clients: both    *)
(* sides count the same.  Vectors, for any elements and lengths, and       *)
(* RustLists, for any number of lists and nodes: what was put in comes     *)
(* out.  Singletons, for any threads: one object.  CppObjects, for any     *)
(* calls: the queue of two stacks, the stack with a minimum and the        *)
(* strings.  BaoChain, for any handlers: each runs once and in order.  The *)
(* trees are in TreeProofs.                                                *)
(***************************************************************************)
EXTENDS FiniteSetTheorems, SequenceTheorems, WellFoundedInduction, Programs, BaoChain,
        TreeProofs, TLAPS

\* Pushing into a sequence and taking from its front.
LEMMA PushedAndPopped ==
  ASSUME NEW S, NEW s \in Seq(S), NEW e \in S
  PROVE  /\ Append(s, e) \in Seq(S) /\ Len(Append(s, e)) = Len(s) + 1
         /\ <<e>> \o s \in Seq(S) /\ Len(<<e>> \o s) = Len(s) + 1
         /\ s # <<>> => /\ Head(s) \in S /\ Tail(s) \in Seq(S)
                        /\ Len(s) \in Nat \ {0} /\ Len(Tail(s)) = Len(s) - 1
  OBVIOUS

\* The types: nobody sleeps and is awake, the bound holds.
THEOREM TsqTypeCorrect == TsqSpec => []TsqTypeOK
<1>1. TsqInit => TsqTypeOK
  BY TsqAssumption DEF TsqInit, TsqTypeOK
<1>2. ASSUME TsqTypeOK, [TsqNext]_tsqVars
      PROVE  TsqTypeOK'
  <2> USE TsqAssumption DEF TsqTypeOK
  <2>1. CASE UNCHANGED tsqVars
    BY <1>2, <2>1 DEF tsqVars
  <2>2. ASSUME NEW p \in Pushers, Append1(p)
        PROVE  TsqTypeOK'
    <3>1. dataQueue' \in Seq(Pushers) /\ Len(dataQueue') <= QueueMax
      BY <1>2, <2>2, PushedAndPopped DEF Append1
    <3> QED
      BY <1>2, <2>2, <3>1 DEF Append1, NotifyOne
  <2>3. ASSUME NEW p \in Pushers, StackPush(p)
        PROVE  TsqTypeOK'
    BY <1>2, <2>3, PushedAndPopped DEF StackPush
  <2>4. ASSUME NEW t \in Poppers, Front(t), dataQueue # <<>>
        PROVE  /\ dataQueue' \in Seq(Pushers) /\ Len(dataQueue') <= QueueMax
               /\ popped' \in [Poppers -> Pushers \cup {"none", "false", "empty", "throw"}]
    BY <1>2, <2>4, PushedAndPopped DEF Front
  <2>5. ASSUME NEW t \in Poppers, WaitAndPop(t) \/ DataProcessing(t)
        PROVE  TsqTypeOK'
    <3>1. CASE PredicateHolds(t)
      BY <1>2, <2>4, <2>5, <3>1 DEF PredicateHolds, PredicateFails, WaitAndPop, DataProcessing
    <3>2. CASE PredicateFails(t)
      BY <1>2, <3>2 DEF PredicateFails
    <3> QED
      BY <2>5, <3>1, <3>2 DEF WaitAndPop, DataProcessing
  <2>6. ASSUME NEW t \in Poppers, SpuriousWake(t) \/ StackEmpty(t)
        PROVE  TsqTypeOK'
    BY <1>2, <2>6 DEF SpuriousWake, StackEmpty
  <2>7. ASSUME NEW t \in Poppers, TryPop(t) \/ StackPop(t)
        PROVE  TsqTypeOK'
    BY <1>2, <2>4, <2>7 DEF TryPop, StackPop
  <2> QED
    BY <1>2, <2>1, <2>2, <2>3, <2>5, <2>6, <2>7 DEF TsqNext, Push, DataPreparation
<1> QED
  BY <1>1, <1>2, PTL DEF TsqSpec

-----------------------------------------------------------------------------
\* A thread is notified: it joins those that are awake.
LEMMA OneMoreAwake ==
  ASSUME TsqTypeOK, NEW t \in asleep, woken' = woken \cup {t}
  PROVE  Cardinality(woken') = Cardinality(woken) + 1 /\ Cardinality(woken) \in Nat
<1>1. IsFiniteSet(woken) /\ t \notin woken
  BY TsqAssumption, FS_Subset DEF TsqTypeOK
<1> QED
  BY <1>1, FS_AddElement, FS_CardinalityType

\* A thread leaves the lock: at most one fewer is awake.
LEMMA AtMostOneFewerAwake ==
  ASSUME TsqTypeOK, NEW t, woken' = woken \ {t}
  PROVE  Cardinality(woken') >= Cardinality(woken) - 1 /\ Cardinality(woken) \in Nat
         /\ Cardinality(woken') \in Nat
<1>1. IsFiniteSet(woken)
  BY TsqAssumption, FS_Subset DEF TsqTypeOK
<1>2. IsFiniteSet(woken')
  BY <1>1, FS_Subset
<1> QED
  BY <1>1, <1>2, FS_RemoveElement, FS_CardinalityType

\* Every step keeps TakersInv.
LEMMA TakersStep ==
  ASSUME TsqTypeOK, TakersInv, [TsqNext]_tsqVars
  PROVE  TakersInv'
<1> USE DEF TakersInv, ElementsHaveTakers
<1>1. CASE UNCHANGED tsqVars
  BY <1>1 DEF tsqVars
<1>2. ASSUME NEW p \in Pushers, Push(p) \/ DataPreparation(p)
      PROVE  TakersInv'
  <2>1. Append1(p) /\ program # "stack"
    BY <1>2 DEF Push, DataPreparation
  <2>2. Len(dataQueue') = Len(dataQueue) + 1 /\ Len(dataQueue) \in Nat
    BY <2>1, PushedAndPopped DEF Append1, TsqTypeOK
  <2>3. CASE asleep = {}
    BY <2>1, <2>3 DEF Append1, NotifyOne
  <2>4. CASE asleep # {}
    <3>1. PICK t \in asleep : woken' = woken \cup {t}
      BY <2>1, <2>4 DEF Append1, NotifyOne
    <3>2. Cardinality(woken') = Cardinality(woken) + 1 /\ Cardinality(woken) \in Nat
      BY <3>1, OneMoreAwake
    <3> QED
      BY <2>1, <2>2, <2>4, <3>2 DEF Append1
  <2> QED
    BY <2>3, <2>4
<1>3. ASSUME NEW t \in Poppers, WaitAndPop(t) \/ DataProcessing(t)
      PROVE  TakersInv'
  <2>1. program # "stack" /\ UNCHANGED program
    BY <1>3 DEF WaitAndPop, DataProcessing, PredicateHolds, PredicateFails
  <2>2. CASE PredicateHolds(t)
    <3>1. Len(dataQueue') = Len(dataQueue) - 1 /\ Len(dataQueue) \in Nat
      BY <2>2, PushedAndPopped DEF PredicateHolds, Front, TsqTypeOK
    <3>2. Cardinality(woken') >= Cardinality(woken) - 1 /\ Cardinality(woken) \in Nat
            /\ Cardinality(woken') \in Nat
      BY <2>2, AtMostOneFewerAwake DEF PredicateHolds
    <3> QED
      BY <2>1, <2>2, <3>1, <3>2 DEF PredicateHolds
  <2>3. CASE PredicateFails(t)
    <3>1. Len(dataQueue') = 0
      BY <2>3 DEF PredicateFails
    <3>2. Cardinality(woken') \in Nat
      BY <2>3, AtMostOneFewerAwake DEF PredicateFails
    <3> QED
      BY <2>1, <3>1, <3>2
  <2> QED
    BY <1>3, <2>2, <2>3 DEF WaitAndPop, DataProcessing
<1>4. ASSUME NEW t \in Poppers, SpuriousWake(t)
      PROVE  TakersInv'
  <2>1. Cardinality(woken') = Cardinality(woken) + 1 /\ Cardinality(woken) \in Nat
    BY <1>4, OneMoreAwake DEF SpuriousWake
  <2>2. Len(dataQueue) \in Nat
    BY DEF TsqTypeOK
  <2> QED
    BY <1>4, <2>1, <2>2 DEF SpuriousWake
<1>5. ASSUME NEW t \in Poppers, TryPop(t)
      PROVE  TakersInv'
  <2>1. Len(dataQueue') <= Len(dataQueue) /\ Len(dataQueue) \in Nat /\ Len(dataQueue') \in Nat
    BY <1>5, PushedAndPopped DEF TryPop, Front, TsqTypeOK
  <2>2. Cardinality(woken) \in Nat
    BY TsqAssumption, FS_Subset, FS_CardinalityType DEF TsqTypeOK
  <2> QED
    BY <1>5, <2>1, <2>2 DEF TryPop
<1>6. ASSUME NEW t \in Poppers, StackEmpty(t) \/ StackPop(t)
      PROVE  TakersInv'
  BY <1>6 DEF StackEmpty, StackPop
<1>7. ASSUME NEW p \in Pushers, StackPush(p)
      PROVE  TakersInv'
  BY <1>7 DEF StackPush
<1> QED
  BY <1>1, <1>2, <1>3, <1>4, <1>5, <1>6, <1>7 DEF TsqNext

\* While threads sleep in data_cond.wait (listings 4.5 and 4.1) every element
\* of the queue has a thread that is awake to take it: no wake-up is lost.
THEOREM NoWakeUpIsLost == TsqSpec => []ElementsHaveTakers
<1>1. TsqInit => TakersInv
  BY DEF TsqInit, TakersInv, ElementsHaveTakers
<1>2. TakersInv => ElementsHaveTakers
  BY DEF TakersInv
<1> QED
  BY <1>1, <1>2, TsqTypeCorrect, TakersStep, PTL DEF TsqSpec

-----------------------------------------------------------------------------
(***************************************************************************)
(* Yieldo: an item that lies in the queue has a consumer made ready.       *)
(***************************************************************************)

\* The queues are sequences; only consumers wait.
QueuesAreSequences ==
  /\ \E S : ready \in Seq(S)
  /\ waiting \in Seq(Consumers)

\* What makes it inductive: the queues are sequences.
StrandedInv == QueuesAreSequences /\ NoItemStranded

\* A coroutine that is ready stays so when another one takes its turn.
LEMMA OthersStayReady ==
  ASSUME QueuesAreSequences, NEW i \in 1 .. Len(ready), ready[i] \in Consumers,
         Head(ready) \notin Consumers
  PROVE  \E j \in 1 .. Len(Tail(ready)) : Tail(ready)[j] \in Consumers
<1>1. PICK S : ready \in Seq(S)
  BY DEF QueuesAreSequences
<1>2. i - 1 \in 1 .. Len(Tail(ready)) /\ Tail(ready)[i - 1] = ready[i]
  BY <1>1
<1> QED
  BY <1>2

\* Wake makes a waiting consumer ready, and keeps the queues sequences.
LEMMA WakeWakes ==
  ASSUME QueuesAreSequences, ready # <<>>, Wake
  PROVE  /\ QueuesAreSequences'
         /\ waiting # <<>> => \E i \in 1 .. Len(ready') : ready'[i] \in Consumers
         /\ waiting = <<>> => waiting' = <<>>
<1>1. PICK S : ready \in Seq(S)
  BY DEF QueuesAreSequences
<1>2. CASE waiting = <<>>
  <2>1. ready' \in Seq(S) /\ waiting' = <<>>
    BY <1>1, <1>2 DEF Wake
  <2> QED
    BY <1>2, <2>1 DEF QueuesAreSequences
<1>3. CASE waiting # <<>>
  <2>1. Head(waiting) \in Consumers /\ Tail(waiting) \in Seq(Consumers)
    BY <1>3 DEF QueuesAreSequences
  <2>2. Tail(ready) \in Seq(S \cup Consumers)
    BY <1>1
  <2> DEFINE rest == Tail(ready)
  <2>3. /\ ready' = Append(rest, Head(waiting))
        /\ rest \in Seq(S \cup Consumers) /\ Head(waiting) \in S \cup Consumers
    BY <1>3, <2>1, <2>2 DEF Wake
  <2> HIDE DEF rest
  <2>4. /\ ready' \in Seq(S \cup Consumers) /\ Len(ready') = Len(rest) + 1
        /\ ready'[Len(rest) + 1] = Head(waiting) /\ Len(rest) \in Nat
    BY <2>3
  <2>5. /\ ready' \in Seq(S \cup Consumers)
        /\ Len(ready') \in 1 .. Len(ready') /\ ready'[Len(ready')] = Head(waiting)
    BY <2>4
  <2> QED
    BY <1>3, <2>1, <2>5 DEF Wake, QueuesAreSequences
<1> QED
  BY <1>2, <1>3

\* Every turn of run keeps StrandedInv.
LEMMA StrandedStep ==
  ASSUME StrandedInv, [YieNext]_yieVars
  PROVE  StrandedInv'
<1> USE DEF StrandedInv, NoItemStranded
<1>0. PICK S : ready \in Seq(S)
  BY DEF QueuesAreSequences
<1>1. CASE UNCHANGED yieVars \/ Tick
  BY <1>1 DEF yieVars, Tick, QueuesAreSequences
<1>2. CASE RunSleeper
  <2>1. ready' \in Seq({Earliest.coro})
    BY <1>2 DEF RunSleeper
  <2>2. ~(items # <<>> /\ waiting # <<>>)
    BY <1>2 DEF RunSleeper
  <2> QED
    BY <1>2, <2>1, <2>2 DEF RunSleeper, QueuesAreSequences
<1>3. ASSUME NEW c \in Coroutines, Put(c)
      PROVE  StrandedInv'
  <2>1. CASE closed
    <3>1. Head(ready) \notin Consumers
      BY <1>3, YieAssumption DEF Put, Running
    <3>2. ready' = Tail(ready) /\ ready # <<>> /\ UNCHANGED <<items, waiting>>
      BY <1>3, <2>1 DEF Put, Running
    <3>3. ready' \in Seq(S)
      BY <1>0, <3>2
    <3> QED
      BY <3>1, <3>2, <3>3, OthersStayReady DEF QueuesAreSequences
  <2>2. CASE ~closed
    BY <1>3, <2>2, WakeWakes DEF Put, Running
  <2> QED
    BY <2>1, <2>2
<1>4. ASSUME NEW c \in Coroutines, Close(c)
      PROVE  StrandedInv'
  <2>1. CASE items = <<>>
    BY <1>4, <2>1, WakeWakes DEF Close, Running
  <2>2. CASE items # <<>>
    <3>1. Head(ready) \notin Consumers
      BY <1>4, YieAssumption DEF Close, Running
    <3>2. ready' = Tail(ready) /\ ready # <<>> /\ UNCHANGED <<items, waiting>>
      BY <1>4, <2>2 DEF Close, Running
    <3>3. ready' \in Seq(S)
      BY <1>0, <3>2
    <3> QED
      BY <3>1, <3>2, <3>3, OthersStayReady DEF QueuesAreSequences
  <2> QED
    BY <2>1, <2>2
<1>5. ASSUME NEW c \in Coroutines, Get(c)
      PROVE  StrandedInv'
  <2>1. items' = <<>> /\ c \in Consumers /\ ready' = Tail(ready) /\ ready # <<>>
    BY <1>5 DEF Get, Running
  <2>2. ready' \in Seq(S)
    BY <1>0, <2>1
  <2>3. waiting' \in Seq(Consumers)
    <3>1. waiting \in Seq(Consumers)
      BY DEF QueuesAreSequences
    <3>2. waiting' = waiting \/ waiting' = Append(waiting, c)
      BY <1>5 DEF Get
    <3> QED
      BY <2>1, <3>1, <3>2
  <2> QED
    BY <2>1, <2>2, <2>3 DEF QueuesAreSequences
<1>6. ASSUME NEW c \in Coroutines, Countdown(c) \/ Countup(c)
      PROVE  StrandedInv'
  <2>1. Head(ready) \notin Consumers
    BY <1>6, YieAssumption DEF Countdown, Countup, CountBy, Running
  <2>2. ready' = Tail(ready) /\ ready # <<>> /\ UNCHANGED <<items, waiting>>
    BY <1>6 DEF Countdown, Countup, CountBy, Running
  <2>3. ready' \in Seq(S)
    BY <1>0, <2>2
  <2> QED
    BY <2>1, <2>2, <2>3, OthersStayReady DEF QueuesAreSequences
<1> QED
  BY <1>1, <1>2, <1>3, <1>4, <1>5, <1>6 DEF YieNext, Run

\* An item never lies in the queue while consumers wait and none of them is
\* ready (yieldo.py:68-86), whatever producers and consumers there are.
THEOREM PutWakesEnough == YieSpec => []NoItemStranded
<1>1. YieInit => StrandedInv
  <2>1. SUFFICES ASSUME YieInit PROVE StrandedInv
    OBVIOUS
  <2>2. PICK n \in 1 .. Cardinality(Coroutines) : ready \in [1 .. n -> Coroutines]
    BY <2>1 DEF YieInit
  <2>3. ready \in Seq(Coroutines)
    BY <2>2
  <2> QED
    BY <2>1, <2>3 DEF YieInit, StrandedInv, QueuesAreSequences, NoItemStranded
<1>2. StrandedInv => NoItemStranded
  BY DEF StrandedInv
<1> QED
  BY <1>1, <1>2, StrandedStep, PTL DEF YieSpec

-----------------------------------------------------------------------------
(***************************************************************************)
(* Ttcp: what is on its way from a client to the server.                   *)
(***************************************************************************)

\* What stands at place p of what a client sends: the number of messages n,
\* their length l, then a length and a payload for each of them.
Item(n, l, p) == IF p = 1 THEN Word(n) ELSE IF p = 2 \/ p % 2 = 1 THEN Word(l) ELSE Payload

\* A number, or a payload.
Packets == Seq(Int)

\* q is that from behind place a to place b.
Stream(q, a, b, n, l) ==
  /\ q \in Seq(Packets) /\ a + Len(q) = b
  /\ \A k \in Nat : 1 <= k /\ k <= Len(q) => q[k] = Item(n, l, a + k)

\* An item is a packet; the headers carry what they should.
LEMMA ItemIs ==
  ASSUME NEW n \in Int, NEW l \in Int, NEW p \in Nat
  PROVE  Item(n, l, p) \in Packets /\ (p = 1 => Item(n, l, p)[1] = n)
         /\ (p = 2 \/ (p % 2 = 1 /\ p # 1) => Item(n, l, p)[1] = l)
<1>1. Word(n) \in Packets /\ Word(n)[1] = n /\ Word(l) \in Packets /\ Word(l)[1] = l /\ Payload \in Packets
  BY DEF Word, Payload, Packets
<1> QED
  BY <1>1 DEF Item

\* Sending the next item.
LEMMA StreamGrows ==
  ASSUME NEW a \in Nat, NEW b \in Nat, NEW n \in Int, NEW l \in Int, NEW q, Stream(q, a, b, n, l)
  PROVE  Stream(q \o <<Item(n, l, b + 1)>>, a, b + 1, n, l)
<1>1. PICK e \in Packets : e = Item(n, l, b + 1)
  BY ItemIs
<1>2. PICK one : one = <<e>> /\ one \in Seq(Packets) /\ Len(one) = 1 /\ one[1] = e
  <2>1. <<e>> \in Seq(Packets) /\ Len(<<e>>) = 1 /\ <<e>>[1] = e
    OBVIOUS
  <2> QED
    BY <2>1
<1>3. q \in Seq(Packets) /\ Len(q) \in Nat /\ a + Len(q) = b
  BY DEF Stream
<1>4. PICK w : w = q \o one /\ w \in Seq(Packets) /\ Len(w) = Len(q) + 1
  <2>1. q \o one \in Seq(Packets) /\ Len(q \o one) = Len(q) + 1
    BY <1>2, <1>3
  <2> QED
    BY <2>1
<1>5. ASSUME NEW k \in Nat, 1 <= k, k <= Len(w)
      PROVE  w[k] = Item(n, l, a + k)
  <2>1. CASE k <= Len(q)
    <3>1. (q \o one)[k] = q[k]
      BY <1>2, <1>3, <1>5, <2>1
    <3> QED
      BY <1>4, <1>5, <2>1, <3>1 DEF Stream
  <2>2. CASE k = Len(q) + 1
    <3>1. (q \o one)[Len(q) + 1] = one[1]
      BY <1>2, <1>3
    <3>2. a + k = b + 1
      BY <1>3, <2>2
    <3> QED
      BY <1>1, <1>2, <1>4, <2>2, <3>1, <3>2
  <2> QED
    BY <1>3, <1>4, <1>5, <2>1, <2>2
<1>6. Stream(w, a, b + 1, n, l)
  <2>1. a + Len(w) = b + 1
    <3>1. PICK m \in Nat : m = Len(q) /\ a + m = b
      BY <1>3
    <3>2. Len(w) = m + 1
      BY <1>4, <3>1
    <3> HIDE <1>1, <1>2, <1>3, <1>4, <1>5
    <3> QED
      BY <3>1, <3>2
  <2>2. w \in Seq(Packets)
    BY <1>4
  <2>3. \A k \in Nat : 1 <= k /\ k <= Len(w) => w[k] = Item(n, l, a + k)
    BY <1>5
  <2> QED
    BY <2>1, <2>2, <2>3 DEF Stream
<1> QED
  BY <1>1, <1>2, <1>4, <1>6

\* Reading the next item.
LEMMA StreamTail ==
  ASSUME NEW a \in Nat, NEW b \in Nat, NEW n \in Int, NEW l \in Int, NEW q, Stream(q, a, b, n, l), q # <<>>
  PROVE  /\ a < b /\ Head(q) = Item(n, l, a + 1) /\ q[1] = Item(n, l, a + 1)
         /\ Stream(Tail(q), a + 1, b, n, l)
<1>1. q \in Seq(Packets) /\ Len(q) \in Nat /\ Len(q) > 0 /\ a + Len(q) = b
  BY DEF Stream
<1>2. PICK w : w = Tail(q) /\ w \in Seq(Packets) /\ Len(w) = Len(q) - 1
  <2>1. Tail(q) \in Seq(Packets) /\ Len(Tail(q)) = Len(q) - 1
    BY <1>1
  <2> QED
    BY <2>1
<1>3. ASSUME NEW k \in Nat, 1 <= k, k <= Len(w)
      PROVE  w[k] = Item(n, l, a + 1 + k)
  <2>1. Tail(q)[k] = q[k + 1]
    BY <1>1, <1>2, <1>3
  <2>2. k + 1 <= Len(q) /\ k + 1 \in Nat /\ 1 <= k + 1
    BY <1>1, <1>2, <1>3
  <2>3. q[k + 1] = Item(n, l, a + (k + 1))
    BY <2>2 DEF Stream
  <2>4. a + (k + 1) = a + 1 + k
    OBVIOUS
  <2> QED
    BY <1>2, <2>1, <2>3, <2>4
<1>4. Head(q) = q[1] /\ q[1] = Item(n, l, a + 1)
  BY <1>1 DEF Stream
<1>5. a + 1 + Len(w) = b /\ a < b
  BY <1>1, <1>2
<1>6. Stream(w, a + 1, b, n, l)
  BY <1>2, <1>3, <1>5 DEF Stream
<1> QED
  BY <1>2, <1>4, <1>5, <1>6

\* Losing the end of what is on its way: a client that dies.
LEMMA StreamCut ==
  ASSUME NEW a \in Nat, NEW b \in Nat, NEW n \in Int, NEW l \in Int, NEW q, Stream(q, a, b, n, l),
         NEW k \in 0 .. Len(q)
  PROVE  Stream(SubSeq(q, 1, k), a, a + k, n, l)
<1>1. q \in Seq(Packets) /\ Len(q) \in Nat
  BY DEF Stream
<1>2. PICK w : w = SubSeq(q, 1, k) /\ w \in Seq(Packets) /\ Len(w) = k
  <2>1. SubSeq(q, 1, k) \in Seq(Packets) /\ Len(SubSeq(q, 1, k)) = k
    BY <1>1
  <2> QED
    BY <2>1
<1>3. ASSUME NEW j \in Nat, 1 <= j, j <= k
      PROVE  w[j] = Item(n, l, a + j)
  <2>1. SubSeq(q, 1, k)[j] = q[j]
    BY <1>1, <1>3
  <2>2. j <= Len(q)
    BY <1>1, <1>3
  <2> QED
    BY <1>2, <1>3, <2>1, <2>2 DEF Stream
<1> QED
  BY <1>1, <1>2, <1>3 DEF Stream

\* The first two numbers.
LEMMA StreamHeader ==
  ASSUME NEW b \in Nat, NEW n \in Int, NEW l \in Int, NEW q, Stream(q, 0, b, n, l), Len(q) >= 2
  PROVE  q[1][1] = n /\ q[2][1] = l /\ Stream(SubSeq(q, 3, Len(q)), 2, b, n, l)
<1>1. q \in Seq(Packets) /\ Len(q) \in Nat /\ Len(q) = b
  BY DEF Stream
<1>2. PICK w : w = SubSeq(q, 3, Len(q)) /\ w \in Seq(Packets) /\ Len(w) = Len(q) - 2
  <2>1. SubSeq(q, 3, Len(q)) \in Seq(Packets) /\ Len(SubSeq(q, 3, Len(q))) = Len(q) - 2
    BY <1>1
  <2> QED
    BY <2>1
<1>3. ASSUME NEW j \in Nat, 1 <= j, j <= Len(w)
      PROVE  w[j] = Item(n, l, 2 + j)
  <2>1. SubSeq(q, 3, Len(q))[j] = q[2 + j]
    BY <1>1, <1>2, <1>3
  <2>2. 2 + j <= Len(q) /\ 1 <= 2 + j /\ 2 + j \in Nat /\ 0 + (2 + j) = 2 + j
    BY <1>1, <1>2, <1>3
  <2> QED
    BY <1>2, <2>1, <2>2 DEF Stream
<1>4. q[1] = Item(n, l, 1) /\ q[2] = Item(n, l, 2)
  BY <1>1 DEF Stream
<1> QED
  BY <1>1, <1>2, <1>3, <1>4, ItemIs DEF Stream

-----------------------------------------------------------------------------
(***************************************************************************)
(* What holds of a connection: client k, session s, and what is on its way *)
(* up to the server and down to the client.                                *)
(***************************************************************************)
ClientStates ==
  [language : Languages, number : Int, length : Int, sent : Nat,
   at : {"dial", "header", "send", "recv", "done", "dead"}]
\* The states of a session of the server.
SessionStates ==
  [number : Int, length : Int, recvLen : Int, received : Nat,
   at : {"none", "header", "length", "payload", "ack", "closed", "failed"}]

\* How much the client has sent, and how much of it the server has read.
Produced(k) == IF k.at = "dial" THEN 0 ELSE IF k.at = "header" THEN 1 ELSE 2 + 2 * k.sent
\* How many items of the stream a session has read.
Consumed(s) ==
  IF s.at \in {"none", "header"} THEN 0
  ELSE IF s.at = "payload" THEN 3 + 2 * s.received
  ELSE IF s.at = "ack" THEN 4 + 2 * s.received ELSE 2 + 2 * s.received

\* The session has read both words of the header.
HasHeader(s) == s.at \notin {"none", "header"}

\* The number of messages that a number asks for.
Positive(n) == IF n > 0 THEN n ELSE 0

\* A session has received what its state says.
SessionCounts(s) ==
  /\ s \in SessionStates
  /\ s.at \in {"none", "header"} => s.received = 0 /\ s.recvLen = 0
  /\ s.at \in {"length", "payload", "ack"} => s.received < s.number
  /\ s.at = "closed" => s.received = Positive(s.number)

\* A client has sent what its state says.
ClientCounts(k) ==
  /\ k \in ClientStates
  /\ k.at = "send" => k.sent < k.number
  /\ k.at = "recv" => k.sent <= k.number
  /\ k.at = "done" => k.sent = Positive(k.number)
  /\ k.at \in {"dial", "header"} => k.sent = 0

\* A client that lives: what it sent and is not read yet is on its way, in order.
ClientLives(k, s, up, down) ==
  /\ s.at # "failed" /\ (k.at = "dial" => s.at = "none")
  /\ Stream(up, Consumed(s), Produced(k), k.number, k.length)
  /\ HasHeader(s) => s.number = k.number /\ s.length = k.length
  /\ s.at \in {"payload", "ack"} => s.recvLen = k.length
  /\ \A i \in Nat : 1 <= i /\ i <= Len(down) => down[i] = k.length

\* A client that lives, whose session has failed: over its negative length.
FailedLives(k, s, down) ==
  /\ k.length < 0 /\ k.at # "dial" /\ s.received <= k.sent
  /\ \A i \in Nat : 1 <= i /\ i <= Len(down) => down[i] = k.length

\* Of what a dead client had sent a part is there, unless the header was read
\* from less than there should have been.
ClientGone(k, s, up) ==
  \/ up = <<>>
  \/ /\ HasHeader(s) => s.length = k.length
     /\ \E b \in Nat : Stream(up, Consumed(s), b, k.number, k.length)

\* The invariant of one connection.
ConnInv(k, s, up, down) ==
  /\ ClientCounts(k) /\ SessionCounts(s) /\ up \in Seq(Packets) /\ down \in Seq(Int)
  /\ k.at # "dead" => IF s.at = "failed" THEN FailedLives(k, s, down) ELSE ClientLives(k, s, up, down)
  /\ k.at = "dead" /\ s.at # "failed" => ClientGone(k, s, up)

\* recvLen of a Go server that has not ended.
RecvLenAgrees(s) ==
  /\ s.received > 0 \/ s.at \in {"payload", "ack"} => s.recvLen = s.length
  /\ s.received = 0 /\ s.at \in {"none", "header", "length"} => s.recvLen = 0

\* Counting what is read gives a number.
LEMMA ConsumedNat ==
  ASSUME NEW s, SessionCounts(s)
  PROVE  Consumed(s) \in Nat
BY DEF SessionCounts, SessionStates, Consumed

\* A client goes on though its session has failed.
LEMMA FailedKeeps ==
  ASSUME NEW k, NEW s, NEW up, NEW down, ConnInv(k, s, up, down), s.at = "failed",
         NEW k2, ClientCounts(k2), k2.length = k.length, k2.at # "dial", k2.sent >= k.sent,
         NEW up2 \in Seq(Packets), NEW down2 \in Seq(Int), FailedLives(k, s, down2)
  PROVE  ConnInv(k2, s, up2, down2)
<1>1. ClientCounts(k) /\ SessionCounts(s)
  BY DEF ConnInv
<1>2. k.sent \in Nat /\ k2.sent \in Nat /\ s.received \in Nat
  BY <1>1 DEF ClientCounts, ClientStates, SessionCounts, SessionStates
<1>3. FailedLives(k2, s, down2)
  BY <1>1, <1>2 DEF FailedLives
<1> QED
  BY <1>1, <1>3 DEF ConnInv

\* Of a client that lives no more is read than it has sent.
LEMMA ReadWasSent ==
  ASSUME NEW k, NEW s, NEW up, NEW down, ConnInv(k, s, up, down), k.at # "dead"
  PROVE  s.received <= k.sent
<1>1. CASE s.at = "failed"
  BY <1>1 DEF ConnInv, FailedLives
<1>2. CASE s.at # "failed"
  <2>1. ClientLives(k, s, up, down) /\ ClientCounts(k) /\ SessionCounts(s)
    BY <1>2 DEF ConnInv
  <2>2. k.sent \in Nat /\ s.received \in Nat
    BY <2>1 DEF ClientCounts, ClientStates, SessionCounts, SessionStates
  <2>3. Consumed(s) <= Produced(k)
    <3>1. Len(up) \in Nat /\ Consumed(s) + Len(up) = Produced(k)
      BY <2>1 DEF ClientLives, Stream
    <3>2. Consumed(s) \in Nat
      BY <2>1, ConsumedNat
    <3> QED
      BY <3>1, <3>2
  <2>4. CASE HasHeader(s)
    <3>1. Consumed(s) >= 2 + 2 * s.received
      BY <2>2, <2>4 DEF Consumed, HasHeader
    <3>2. Produced(k) <= 2 + 2 * k.sent
      BY <2>2 DEF Produced
    <3>3. Consumed(s) \in Nat /\ Produced(k) \in Nat
      BY <2>1, <2>2, ConsumedNat DEF Produced
    <3> QED
      BY <2>2, <2>3, <3>1, <3>2, <3>3
  <2>5. CASE ~HasHeader(s)
    BY <2>1, <2>2, <2>5 DEF HasHeader, SessionCounts
  <2> QED
    BY <2>4, <2>5
<1> QED
  BY <1>1, <1>2

\* The first word of the header.
LEMMA DialKeeps ==
  ASSUME NEW k, NEW s, NEW up, NEW down, ConnInv(k, s, up, down), k.at = "dial"
  PROVE  ConnInv([k EXCEPT !.at = "header"], s, up \o <<Word(k.number)>>, down)
<1>1. /\ ClientCounts(k) /\ SessionCounts(s) /\ down \in Seq(Int)
      /\ ClientLives(k, s, up, down) /\ k.at = "dial" /\ s.at = "none"
  BY DEF ConnInv, ClientLives, FailedLives
<1>2. PICK n \in Int, l \in Int : k.number = n /\ k.length = l
  BY <1>1 DEF ClientCounts, ClientStates
<1>3. Stream(up, 0, 0, n, l)
  BY <1>1, <1>2 DEF ClientLives, Consumed, Produced
<1>4. Stream(up \o <<Item(n, l, 1)>>, 0, 1, n, l)
  BY <1>3, StreamGrows
<1>5. Item(n, l, 1) = Word(n)
  BY DEF Item
<1>6. PICK more : more = up \o <<Word(n)>> /\ Stream(more, 0, 1, n, l)
  BY <1>4, <1>5
<1>7. PICK k2 : /\ k2 = [k EXCEPT !.at = "header"]
                /\ ClientCounts(k2)
                /\ k2.at = "header" /\ k2.number = n /\ k2.length = l /\ k2.sent = 0
  <2>1. ClientCounts([k EXCEPT !.at = "header"])
    BY <1>1, <1>2 DEF ClientCounts, ClientStates
  <2>2. [k EXCEPT !.at = "header"].at = "header" /\ [k EXCEPT !.at = "header"].number = n /\ [k EXCEPT !.at = "header"].length = l /\ [k EXCEPT !.at = "header"].sent = 0
    BY <1>1, <1>2 DEF ClientCounts, ClientStates
  <2> QED
    BY <2>1, <2>2
<1>8. ClientLives(k2, s, more, down)
  BY <1>1, <1>2, <1>6, <1>7 DEF ClientLives, Consumed, Produced, HasHeader
<1>9. ConnInv(k2, s, more, down)
  BY <1>1, <1>6, <1>7, <1>8 DEF ConnInv, Stream
<1> QED
  BY <1>2, <1>6, <1>7, <1>9

\* The second word of the header: place is where the client goes on from.
LEMMA SendsLengthKeeps ==
  ASSUME NEW k, NEW s, NEW up, NEW down, ConnInv(k, s, up, down), k.at = "header",
         NEW place, place = IF k.number > 0 THEN "send" ELSE "done"
  PROVE  ConnInv([k EXCEPT !.at = place], s, up \o <<Word(k.length)>>, down)
<1>1. ClientCounts(k) /\ SessionCounts(s) /\ down \in Seq(Int) /\ up \in Seq(Packets)
  BY DEF ConnInv
<1>2. PICK n \in Int, l \in Int, a \in Nat : k.number = n /\ k.length = l /\ a = Consumed(s)
  BY <1>1, ConsumedNat DEF ClientCounts, ClientStates
<1>3. PICK k2 : /\ k2 = [k EXCEPT !.at = place]
                /\ ClientCounts(k2)
                /\ k2.at \in {"done", "send"} /\ k2.number = n /\ k2.length = l /\ k2.sent = 0
  <2>1. k \in ClientStates /\ k.sent = 0 /\ place \in {"done", "send"}
    BY <1>1 DEF ClientCounts
  <2>2. PICK w : w = [k EXCEPT !.at = place] /\ w \in ClientStates
                 /\ w.at = place /\ w.number = n /\ w.length = l /\ w.sent = 0
    <3>1. /\ [k EXCEPT !.at = place] \in ClientStates /\ [k EXCEPT !.at = place].at = place
          /\ [k EXCEPT !.at = place].number = n /\ [k EXCEPT !.at = place].length = l
          /\ [k EXCEPT !.at = place].sent = 0
      BY <1>2, <2>1 DEF ClientStates
    <3> QED
      BY <3>1
  <2>3. CASE n > 0
    BY <1>2, <2>1, <2>2, <2>3 DEF ClientCounts
  <2>4. CASE ~(n > 0)
    BY <1>2, <2>1, <2>2, <2>4 DEF ClientCounts, Positive
  <2> QED
    BY <2>3, <2>4
<1>4. CASE s.at = "failed"
  <2>1. up \o <<Word(k.length)>> \in Seq(Packets)
    BY <1>1, <1>2 DEF Word, Packets
  <2>2. FailedLives(k, s, down)
    BY <1>4 DEF ConnInv
  <2>3. k.sent = 0
    BY <1>1 DEF ClientCounts
  <2>4. k2.sent >= k.sent /\ k2.at # "dial" /\ k2.length = k.length
    BY <1>2, <1>3, <2>3
  <2>5. PICK more \in Seq(Packets) : more = up \o <<Word(k.length)>>
    BY <2>1
  <2>6. ConnInv(k2, s, more, down)
    BY <1>1, <1>3, <1>4, <2>2, <2>4, FailedKeeps
  <2> QED
    BY <1>3, <2>5, <2>6
<1>5. CASE s.at # "failed"
  <2>1. ClientLives(k, s, up, down)
    BY <1>5 DEF ConnInv
  <2>2. Stream(up, a, 1, n, l)
    BY <1>2, <2>1 DEF ClientLives, Produced
  <2>3. Stream(up \o <<Item(n, l, 2)>>, a, 2, n, l)
    BY <2>2, StreamGrows
  <2>4. Item(n, l, 2) = Word(l)
    BY DEF Item
  <2>5. PICK more : more = up \o <<Word(l)>> /\ Stream(more, a, 2, n, l)
    BY <2>3, <2>4
  <2>6. ClientLives(k2, s, more, down)
    BY <1>1, <1>2, <1>3, <2>1, <2>5 DEF ClientLives, Produced
  <2>7. ConnInv(k2, s, more, down)
    BY <1>1, <1>3, <1>5, <2>5, <2>6 DEF ConnInv, Stream
  <2> QED
    BY <1>2, <1>3, <2>5, <2>7
<1> QED
  BY <1>4, <1>5

\* Where a client goes on from when it has sent a message.
AfterSending(k) == IF k.language = "go" /\ k.sent + 1 = k.number THEN "done" ELSE "recv"

\* It has sent one more.
LEMMA SentCounts ==
  ASSUME NEW k, ClientCounts(k), k.at = "send",
         NEW k2, k2 = [k EXCEPT !.sent = @ + 1, !.at = AfterSending(k)]
  PROVE  /\ ClientCounts(k2) /\ k2.number = k.number /\ k2.length = k.length
         /\ k2.sent = k.sent + 1 /\ k2.at \in {"done", "recv"}
<1>1. k \in ClientStates /\ k.sent \in Nat /\ k.number \in Int /\ k.sent < k.number
  BY DEF ClientCounts, ClientStates
<1>2. PICK place : /\ place = AfterSending(k) /\ place \in {"done", "recv"}
                   /\ (place = "done" => k.sent + 1 = k.number)
  BY DEF AfterSending
<1>3. /\ k2 \in ClientStates /\ k2.at = place /\ k2.sent = k.sent + 1
      /\ k2.number = k.number /\ k2.length = k.length
  <2>1. PICK more \in Nat : more = k.sent + 1
    BY <1>1
  <2>2. k2 = [k EXCEPT !.sent = more, !.at = place]
    BY <1>2, <2>1
  <2>3. /\ [k EXCEPT !.sent = more, !.at = place] \in ClientStates
        /\ [k EXCEPT !.sent = more, !.at = place].at = place
        /\ [k EXCEPT !.sent = more, !.at = place].sent = more
        /\ [k EXCEPT !.sent = more, !.at = place].number = k.number
        /\ [k EXCEPT !.sent = more, !.at = place].length = k.length
    BY <1>1, <1>2 DEF ClientStates
  <2> QED
    BY <2>1, <2>2, <2>3
<1>4. place = "done" => k2.sent = Positive(k2.number)
  BY <1>1, <1>2, <1>3 DEF Positive
<1>5. k2.sent <= k2.number
  BY <1>1, <1>3
<1> QED
  BY <1>2, <1>3, <1>4, <1>5 DEF ClientCounts

\* A length and a payload, to a session that has failed.
LEMMA SendFailedKeeps ==
  ASSUME NEW k, NEW s, NEW up, NEW down, ConnInv(k, s, up, down), k.at = "send", s.at = "failed",
         NEW k2, k2 = [k EXCEPT !.sent = @ + 1, !.at = AfterSending(k)]
  PROVE  ConnInv(k2, s, up \o <<Word(k.length), Payload>>, down)
<1>1. ClientCounts(k) /\ down \in Seq(Int) /\ up \in Seq(Packets) /\ FailedLives(k, s, down)
  BY DEF ConnInv
<1>3. /\ ClientCounts(k2) /\ k2.length = k.length /\ k2.sent = k.sent + 1
      /\ k2.at \in {"done", "recv"}
  BY <1>1, SentCounts
<1>4. up \o <<Word(k.length), Payload>> \in Seq(Packets)
  <2>1. Word(k.length) \in Packets /\ Payload \in Packets
    BY <1>1 DEF ClientCounts, ClientStates, Word, Payload, Packets
  <2> QED
    BY <1>1, <2>1
<1>5. k2.sent >= k.sent
  BY <1>1, <1>3 DEF ClientCounts, ClientStates
<1> QED
  BY <1>1, <1>3, <1>4, <1>5, FailedKeeps

\* A length and a payload, to one that has not.
LEMMA SendKeeps ==
  ASSUME NEW k, NEW s, NEW up, NEW down, ConnInv(k, s, up, down), k.at = "send",
         s.at # "failed", NEW k2, k2 = [k EXCEPT !.sent = @ + 1, !.at = AfterSending(k)]
  PROVE  ConnInv(k2, s, up \o <<Word(k.length), Payload>>, down)
<1>1. /\ ClientCounts(k) /\ SessionCounts(s) /\ down \in Seq(Int)
      /\ ClientLives(k, s, up, down) /\ k.at = "send"
  BY DEF ConnInv
<1>2. PICK n \in Int, l \in Int, a \in Nat, b \in Nat, t \in Nat :
        k.number = n /\ k.length = l /\ a = Consumed(s) /\ k.sent = t /\ b = 2 + 2 * t /\ t < n
  <2>1. k.number \in Int /\ k.length \in Int /\ k.sent \in Nat /\ k.sent < k.number
    BY <1>1 DEF ClientCounts, ClientStates
  <2>2. Consumed(s) \in Nat
    BY <1>1, ConsumedNat
  <2>3. 2 + 2 * k.sent \in Nat
    BY <2>1
  <2> QED
    BY <2>1, <2>2, <2>3
<1>3. Stream(up, a, b, n, l)
  BY <1>1, <1>2 DEF ClientLives, Produced
<1>4. Item(n, l, b + 1) = Word(l) /\ Item(n, l, b + 2) = Payload
  BY <1>2 DEF Item
<1>5. PICK one : one = up \o <<Word(l)>> /\ Stream(one, a, b + 1, n, l)
  BY <1>3, <1>4, StreamGrows
<1>6. PICK more : more = one \o <<Payload>> /\ Stream(more, a, b + 2, n, l)
  <2>1. b + 1 \in Nat /\ b + 1 + 1 = b + 2
    OBVIOUS
  <2> QED
    BY <1>4, <1>5, <2>1, StreamGrows
<1>7. more = up \o <<Word(l), Payload>>
  <2>1. up \in Seq(Packets) /\ Word(l) \in Packets /\ Payload \in Packets
    BY <1>3 DEF Stream, Word, Payload, Packets
  <2>2. ASSUME NEW x \in Packets, NEW y \in Packets
        PROVE  (up \o <<x>>) \o <<y>> = up \o <<x, y>>
    <3>1. /\ <<x>> \in Seq(Packets) /\ Len(<<x>>) = 1 /\ <<x>>[1] = x
          /\ <<y>> \in Seq(Packets) /\ Len(<<y>>) = 1 /\ <<y>>[1] = y
          /\ <<x, y>> \in Seq(Packets) /\ Len(<<x, y>>) = 2 /\ <<x, y>>[1] = x /\ <<x, y>>[2] = y
      OBVIOUS
    <3>2. <<x>> \o <<y>> = <<x, y>>
      <4>1. PICK p, q : p = <<x>> /\ q = <<y>> /\ p \in Seq(Packets) /\ q \in Seq(Packets)
                        /\ Len(p) = 1 /\ Len(q) = 1 /\ p[1] = x /\ q[1] = y
        BY <3>1
      <4>2. p \o q \in Seq(Packets) /\ Len(p \o q) = 2 /\ (p \o q)[1] = x /\ (p \o q)[2] = y
        BY <4>1, ConcatProperties
      <4>3. \A i \in 1 .. Len(p \o q) : (p \o q)[i] = <<x, y>>[i]
        BY <3>1, <4>2
      <4> QED
        BY <3>1, <4>1, <4>2, <4>3, SeqEqual
    <3>3. (up \o <<x>>) \o <<y>> = up \o (<<x>> \o <<y>>)
      BY <2>1, <3>1, ConcatAssociative
    <3> QED
      BY <3>2, <3>3
  <2> QED
    BY <1>5, <1>6, <2>1, <2>2
<1>9. /\ ClientCounts(k2) /\ k2.number = n /\ k2.length = l /\ k2.sent = t + 1
      /\ k2.at \in {"done", "recv"}
  <2>1. /\ ClientCounts(k2) /\ k2.number = k.number /\ k2.length = k.length
        /\ k2.sent = k.sent + 1 /\ k2.at \in {"done", "recv"}
    BY <1>1, SentCounts
  <2> QED
    BY <1>2, <2>1
<1>10. Produced(k2) = b + 2
  BY <1>2, <1>9 DEF Produced
<1>11. ClientLives(k2, s, more, down)
  BY <1>1, <1>2, <1>6, <1>9, <1>10 DEF ClientLives
<1>12. ConnInv(k2, s, more, down)
  BY <1>1, <1>6, <1>9, <1>11 DEF ConnInv, Stream
<1> QED
  BY <1>2, <1>7, <1>12

\* Where a client goes on from when it has read an answer.
AfterAnswer(k) == IF k.sent = k.number THEN "done" ELSE "send"

\* It has sent as many as before.
LEMMA AnsweredCounts ==
  ASSUME NEW k, ClientCounts(k), k.at = "recv", NEW k2, k2 = [k EXCEPT !.at = AfterAnswer(k)]
  PROVE  /\ ClientCounts(k2) /\ k2.number = k.number /\ k2.length = k.length
         /\ k2.sent = k.sent /\ k2.at \in {"done", "send"}
<1>1. k \in ClientStates /\ k.sent \in Nat /\ k.number \in Int /\ k.sent <= k.number
  BY DEF ClientCounts, ClientStates
<1>2. PICK place : /\ place = AfterAnswer(k) /\ place \in {"done", "send"}
                   /\ (place = "done" <=> k.sent = k.number)
  BY DEF AfterAnswer
<1>3. /\ k2 \in ClientStates /\ k2.at = place /\ k2.sent = k.sent
      /\ k2.number = k.number /\ k2.length = k.length
  BY <1>1, <1>2 DEF ClientStates
<1>4. place = "done" => k2.sent = Positive(k2.number)
  BY <1>1, <1>2, <1>3 DEF Positive
<1>5. place = "send" => k2.sent < k2.number
  BY <1>1, <1>2, <1>3
<1> QED
  BY <1>2, <1>3, <1>4, <1>5 DEF ClientCounts

\* The client reads an answer.
LEMMA ReceiveKeeps ==
  ASSUME NEW k, NEW s, NEW up, NEW down, ConnInv(k, s, up, down), k.at = "recv", down # <<>>,
         NEW k2, k2 = [k EXCEPT !.at = AfterAnswer(k)]
  PROVE  Head(down) = k.length /\ ConnInv(k2, s, up, Tail(down))
<1>1. /\ ClientCounts(k) /\ SessionCounts(s) /\ down \in Seq(Int) /\ up \in Seq(Packets)
      /\ \A i \in Nat : 1 <= i /\ i <= Len(down) => down[i] = k.length
  BY DEF ConnInv, ClientLives, FailedLives
<1>2. Head(down) = k.length
  <2>1. Len(down) \in Nat /\ Len(down) >= 1 /\ Head(down) = down[1]
    BY <1>1
  <2> QED
    BY <1>1, <2>1
<1>3. PICK rest : /\ rest = Tail(down) /\ rest \in Seq(Int)
                  /\ \A i \in Nat : 1 <= i /\ i <= Len(rest) => rest[i] = k.length
  <2>1. Tail(down) \in Seq(Int) /\ Len(Tail(down)) = Len(down) - 1
    BY <1>1
  <2>2. ASSUME NEW i \in Nat, 1 <= i, i <= Len(Tail(down))
        PROVE  Tail(down)[i] = k.length
    <3>1. Tail(down)[i] = down[i + 1]
      BY <1>1, <2>1, <2>2
    <3>2. i + 1 \in Nat /\ 1 <= i + 1 /\ i + 1 <= Len(down)
      BY <1>1, <2>1, <2>2
    <3> QED
      BY <1>1, <3>1, <3>2
  <2> QED
    BY <2>1, <2>2
<1>4. /\ ClientCounts(k2) /\ k2.number = k.number /\ k2.length = k.length
      /\ k2.sent = k.sent /\ k2.at \in {"done", "send"}
  BY <1>1, AnsweredCounts
<1>5. CASE s.at = "failed"
  <2>1. k2.sent >= k.sent
    BY <1>1, <1>4 DEF ClientCounts, ClientStates
  <2>2. FailedLives(k, s, rest)
    BY <1>3, <1>5 DEF ConnInv, FailedLives
  <2>3. ConnInv(k2, s, up, rest)
    BY <1>1, <1>3, <1>4, <1>5, <2>1, <2>2, FailedKeeps
  <2> QED
    BY <1>2, <1>3, <2>3
<1>6. CASE s.at # "failed"
  <2>1. Produced(k2) = Produced(k)
    BY <1>1, <1>4 DEF Produced
  <2>2. ClientLives(k, s, up, down)
    BY <1>6 DEF ConnInv
  <2>3. ClientLives(k2, s, up, rest)
    BY <1>3, <1>4, <2>1, <2>2 DEF ClientLives
  <2>4. ConnInv(k2, s, up, rest)
    BY <1>1, <1>3, <1>4, <1>6, <2>3 DEF ConnInv
  <2> QED
    BY <1>2, <1>3, <2>4
<1> QED
  BY <1>5, <1>6

\* The client dies, and any end of what is on its way with it.
LEMMA DieKeeps ==
  ASSUME NEW k, NEW s, NEW up, NEW down, ConnInv(k, s, up, down), k.at # "dead",
         NEW i \in 0 .. Len(up)
  PROVE  ConnInv([k EXCEPT !.at = "dead"], s, SubSeq(up, 1, i), down)
<1>1. /\ ClientCounts(k) /\ SessionCounts(s) /\ down \in Seq(Int) /\ up \in Seq(Packets)
      /\ Len(up) \in Nat
  BY DEF ConnInv
<1>2. PICK n \in Int, l \in Int, a \in Nat, b \in Nat :
        k.number = n /\ k.length = l /\ a = Consumed(s) /\ b = Produced(k)
  <2>1. k.number \in Int /\ k.length \in Int /\ Produced(k) \in Nat
    BY <1>1 DEF ClientCounts, ClientStates, Produced
  <2>2. Consumed(s) \in Nat
    BY <1>1, ConsumedNat
  <2> QED
    BY <2>1, <2>2
<1>3. PICK k2 : /\ k2 = [k EXCEPT !.at = "dead"]
                /\ ClientCounts(k2)
                /\ k2.at = "dead" /\ k2.number = n /\ k2.length = l
  <2>1. ClientCounts([k EXCEPT !.at = "dead"])
    BY <1>1, <1>2 DEF ClientCounts, ClientStates
  <2>2. [k EXCEPT !.at = "dead"].at = "dead" /\ [k EXCEPT !.at = "dead"].number = n /\ [k EXCEPT !.at = "dead"].length = l
    BY <1>1, <1>2 DEF ClientCounts, ClientStates
  <2> QED
    BY <2>1, <2>2
<1>4. PICK part : part = SubSeq(up, 1, i) /\ part \in Seq(Packets)
  <2>1. SubSeq(up, 1, i) \in Seq(Packets)
    BY <1>1
  <2> QED
    BY <2>1
<1>5. CASE s.at = "failed"
  <2>1. ConnInv(k2, s, part, down)
    BY <1>1, <1>3, <1>4, <1>5 DEF ConnInv
  <2> QED
    BY <1>3, <1>4, <2>1
<1>6. CASE s.at # "failed"
  <2>1. ClientLives(k, s, up, down)
    BY <1>6 DEF ConnInv
  <2>2. Stream(up, a, b, n, l)
    BY <1>2, <2>1 DEF ClientLives
  <2>3. PICK e \in Nat : Stream(part, a, e, n, l)
    <3>1. a + i \in Nat
      BY <1>1
    <3>2. Stream(SubSeq(up, 1, i), a, a + i, n, l)
      BY <2>2, StreamCut
    <3> QED
      BY <1>4, <3>1, <3>2
  <2>4. ClientGone(k2, s, part)
    BY <1>2, <1>3, <2>1, <2>3 DEF ClientGone, ClientLives
  <2>5. ConnInv(k2, s, part, down)
    BY <1>1, <1>3, <1>4, <2>4 DEF ConnInv
  <2> QED
    BY <1>3, <1>4, <2>5
<1> QED
  BY <1>5, <1>6

\* The server accepts the connection.
LEMMA AcceptKeeps ==
  ASSUME NEW k, NEW s, NEW up, NEW down, ConnInv(k, s, up, down), k.at # "dial", s.at = "none"
  PROVE  ConnInv(k, [NoSession EXCEPT !.at = "header"], up, down)
<1>1. PICK s2 : /\ s2 = [NoSession EXCEPT !.at = "header"]
                /\ SessionCounts(s2)
                /\ s2.at = "header"
  <2>1. SessionCounts([NoSession EXCEPT !.at = "header"])
    BY DEF NoSession, SessionCounts, SessionStates
  <2>2. [NoSession EXCEPT !.at = "header"].at = "header"
    BY DEF NoSession, SessionCounts, SessionStates
  <2> QED
    BY <2>1, <2>2
<1>2. Consumed(s2) = 0 /\ Consumed(s) = 0 /\ ~HasHeader(s2) /\ ~HasHeader(s)
  BY <1>1 DEF Consumed, HasHeader
<1>3. ClientLives(k, s, up, down) => ClientLives(k, s2, up, down)
  BY <1>1, <1>2 DEF ClientLives
<1>4. ClientGone(k, s, up) => ClientGone(k, s2, up)
  BY <1>1, <1>2 DEF ClientGone
<1>5. ConnInv(k, s2, up, down)
  BY <1>1, <1>3, <1>4 DEF ConnInv
<1> QED
  BY <1>1, <1>5

-----------------------------------------------------------------------------
(***************************************************************************)
(* The server's side.                                                      *)
(***************************************************************************)

\* A client that is done has sent all there is to read.
LEMMA EndMeansDead ==
  ASSUME NEW k, NEW s, NEW up, NEW down, ConnInv(k, s, up, down),
         s.at \in {"length", "payload"}, up = <<>>, k.at \in {"done", "dead"}
  PROVE  k.at = "dead"
<1> SUFFICES ASSUME k.at = "done" PROVE FALSE
  OBVIOUS
<1>1. ClientCounts(k) /\ SessionCounts(s) /\ ClientLives(k, s, up, down)
  BY DEF ConnInv
<1>2. Stream(up, Consumed(s), Produced(k), k.number, k.length) /\ (s.number = k.number)
  BY <1>1 DEF ClientLives, HasHeader
<1>3. /\ k.sent \in Nat /\ s.received \in Nat /\ k.sent = k.number /\ s.received < s.number
      /\ Produced(k) = 2 + 2 * k.sent
  <2>1. /\ k.sent \in Nat /\ s.received \in Nat /\ k.number \in Int
        /\ k.sent = Positive(k.number) /\ s.received < s.number
    BY <1>1 DEF ClientCounts, ClientStates, SessionCounts, SessionStates
  <2>2. k.sent = k.number
    BY <1>2, <2>1 DEF Positive
  <2> QED
    BY <2>1, <2>2 DEF Produced
<1>4. Consumed(s) = 2 + 2 * s.received \/ Consumed(s) = 3 + 2 * s.received
  BY DEF Consumed
<1>5. Consumed(s) + 0 = Produced(k)
  <2>1. Len(up) = 0
    OBVIOUS
  <2> QED
    BY <1>2, <2>1 DEF Stream
<1> QED
  BY <1>2, <1>3, <1>4, <1>5

\* As long as something is on its way it goes on from what was read, whether
\* the client lives or not.
LEMMA StreamGoesOn ==
  ASSUME NEW k, NEW s, NEW up, NEW down, ConnInv(k, s, up, down), s.at # "failed", up # <<>>
  PROVE  /\ HasHeader(s) => s.length = k.length
         /\ \E b \in Nat : /\ Stream(up, Consumed(s), b, k.number, k.length)
                           /\ k.at # "dead" => b = Produced(k)
<1>1. CASE k.at = "dead"
  BY <1>1 DEF ConnInv, ClientGone
<1>2. CASE k.at # "dead"
  <2>1. ClientLives(k, s, up, down) /\ ClientCounts(k)
    BY <1>2 DEF ConnInv
  <2>2. Produced(k) \in Nat
    BY <2>1 DEF ClientCounts, ClientStates, Produced
  <2> QED
    BY <2>1, <2>2 DEF ClientLives
<1> QED
  BY <1>1, <1>2

\* What a step of the server must keep besides the types and counts.
LEMMA ServerStepKeeps ==
  ASSUME NEW k, NEW s, NEW up, NEW down, ConnInv(k, s, up, down), s.at # "failed",
         NEW s2, SessionCounts(s2), NEW up2 \in Seq(Packets), NEW b \in Nat,
         Stream(up2, Consumed(s2), b, k.number, k.length), k.at # "dead" => b = Produced(k),
         HasHeader(s2) => s2.number = k.number \/ k.at = "dead",
         HasHeader(s2) => s2.length = k.length,
         s2.at \in {"payload", "ack"} => s2.recvLen = k.length \/ k.at = "dead",
         s2.at # "failed", k.at = "dial" => s2.at = "none"
  PROVE  ConnInv(k, s2, up2, down)
<1>1. k.at # "dead" => ClientLives(k, s2, up2, down)
  BY DEF ConnInv, ClientLives
<1>2. k.at = "dead" => ClientGone(k, s2, up2)
  BY DEF ClientGone
<1> QED
  BY <1>1, <1>2 DEF ConnInv

\* The session after its header: numbers n and l were read.
Read(n, l) == [NoSession EXCEPT !.number = n, !.length = l]
\* The session goes on to the next message, or closes after the last.
After(r) == [r EXCEPT !.at = NextMessage(r)]

\* The state after the header.
LEMMA AfterCounts ==
  ASSUME NEW r \in SessionStates, r.received = 0, r.recvLen = 0
  PROVE  /\ SessionCounts(After(r)) /\ RecvLenAgrees(After(r)) /\ HasHeader(After(r))
         /\ Consumed(After(r)) = 2 /\ After(r).number = r.number /\ After(r).length = r.length
         /\ After(r).at \in {"length", "closed"}
<1>1. /\ After(r) \in SessionStates
      /\ After(r).number = r.number /\ After(r).length = r.length /\ After(r).received = 0
      /\ After(r).recvLen = 0
      /\ After(r).at = IF 0 < r.number THEN "length" ELSE "closed"
  BY DEF After, NextMessage, SessionStates
<1>2. r.number \in Int /\ (~(0 < r.number) => Positive(r.number) = 0)
  BY DEF SessionStates, Positive
<1> QED
  BY <1>1, <1>2 DEF SessionCounts, RecvLenAgrees, HasHeader, Consumed

\* A session with the header in hand.
LEMMA ReadIs ==
  ASSUME NEW n \in Int, NEW l \in Int
  PROVE  /\ Read(n, l) \in SessionStates /\ Read(n, l).received = 0 /\ Read(n, l).recvLen = 0
         /\ Read(n, l).number = n /\ Read(n, l).length = l
<1>1. PICK r : r = NoSession /\ r \in SessionStates /\ r.received = 0 /\ r.recvLen = 0
  <2>1. NoSession \in SessionStates /\ NoSession.received = 0 /\ NoSession.recvLen = 0
    BY DEF NoSession, SessionStates
  <2> QED
    BY <2>1
<1>2. /\ [r EXCEPT !.number = n, !.length = l] \in SessionStates
      /\ [r EXCEPT !.number = n, !.length = l].received = 0
      /\ [r EXCEPT !.number = n, !.length = l].recvLen = 0
      /\ [r EXCEPT !.number = n, !.length = l].number = n
      /\ [r EXCEPT !.number = n, !.length = l].length = l
  BY <1>1 DEF SessionStates
<1> QED
  BY <1>1, <1>2 DEF Read

\* The server reads the whole header.
LEMMA HeaderKeeps ==
  ASSUME NEW k, NEW s, NEW up, NEW down, ConnInv(k, s, up, down), s.at = "header", Len(up) >= 2
  PROVE  /\ ConnInv(k, After(Read(up[1][1], up[2][1])), SubSeq(up, 3, Len(up)), down)
         /\ RecvLenAgrees(After(Read(up[1][1], up[2][1])))
<1>1. up # <<>> /\ k.number \in Int /\ k.length \in Int /\ Consumed(s) = 0 /\ k.at # "dial"
  BY DEF ConnInv, ClientCounts, ClientStates, Consumed, ClientLives
<1>2. PICK b \in Nat : Stream(up, 0, b, k.number, k.length) /\ (k.at # "dead" => b = Produced(k))
  BY <1>1, StreamGoesOn
<1>3. up[1][1] = k.number /\ up[2][1] = k.length /\ Stream(SubSeq(up, 3, Len(up)), 2, b, k.number, k.length)
  BY <1>1, <1>2, StreamHeader
<1>4. PICK s2 : /\ s2 = After(Read(up[1][1], up[2][1]))
                /\ SessionCounts(s2) /\ RecvLenAgrees(s2) /\ HasHeader(s2) /\ Consumed(s2) = 2
                /\ s2.number = k.number /\ s2.length = k.length /\ s2.at \in {"length", "closed"}
  <2>1. PICK r \in SessionStates :
          /\ r = Read(up[1][1], up[2][1]) /\ r.received = 0 /\ r.recvLen = 0
          /\ r.number = k.number /\ r.length = k.length
    BY <1>1, <1>3, ReadIs
  <2>2. PICK t : /\ t = After(r)
                 /\ SessionCounts(t) /\ RecvLenAgrees(t) /\ HasHeader(t) /\ Consumed(t) = 2
                 /\ t.number = k.number /\ t.length = k.length /\ t.at \in {"length", "closed"}
    BY <2>1, AfterCounts
  <2> QED
    BY <2>1, <2>2
<1>5. PICK up2 : up2 = SubSeq(up, 3, Len(up)) /\ up2 \in Seq(Packets) /\ Stream(up2, 2, b, k.number, k.length)
  BY <1>3 DEF Stream
<1>6. ConnInv(k, s2, up2, down)
  BY <1>1, <1>2, <1>4, <1>5, ServerStepKeeps
<1> QED
  BY <1>4, <1>5, <1>6

\* A Go server makes do with part of a header.
LEMMA PartKeeps ==
  ASSUME NEW k, NEW s, NEW up, NEW down, ConnInv(k, s, up, down), s.at = "header", k.at = "dead",
         Len(up) < 2,
         NEW r, r = IF up = <<>> THEN NoSession ELSE [NoSession EXCEPT !.number = up[1][1]]
  PROVE  ConnInv(k, After(r), <<>>, down) /\ RecvLenAgrees(After(r))
<1>1. k.number \in Int /\ k.length \in Int /\ Consumed(s) = 0
  BY DEF ConnInv, ClientCounts, ClientStates, Consumed
<1>2. r \in SessionStates /\ r.received = 0 /\ r.recvLen = 0
  <2>1. CASE up = <<>>
    BY <2>1 DEF NoSession, SessionStates
  <2>2. CASE up # <<>>
    <3>1. PICK b \in Nat : Stream(up, 0, b, k.number, k.length)
      BY <1>1, <2>2, StreamGoesOn
    <3>2. up[1] = Item(k.number, k.length, 1)
      BY <1>1, <2>2, <3>1 DEF Stream
    <3>3. up[1][1] = k.number
      BY <1>1, <3>2, ItemIs
    <3> QED
      BY <1>1, <2>2, <3>3 DEF NoSession, SessionStates
  <2> QED
    BY <2>1, <2>2
<1>3. SessionCounts(After(r)) /\ RecvLenAgrees(After(r))
  BY <1>2, AfterCounts
<1>4. ClientGone(k, After(r), <<>>) /\ <<>> \in Seq(Packets)
  BY DEF ClientGone
<1> QED
  BY <1>3, <1>4 DEF ConnInv

\* The server reads the length of a message: it is the one of the header.
LEMMA LengthKeeps ==
  ASSUME NEW k, NEW s, NEW up, NEW down, ConnInv(k, s, up, down), s.at = "length", up # <<>>
  PROVE  /\ Head(up)[1] = s.length
         /\ ConnInv(k, [s EXCEPT !.recvLen = Head(up)[1], !.at = "payload"], Tail(up), down)
<1>1. /\ k.number \in Int /\ k.length \in Int /\ HasHeader(s) /\ SessionCounts(s)
      /\ s \in SessionStates
  BY DEF ConnInv, ClientCounts, ClientStates, SessionCounts, HasHeader
<1>2. PICK a \in Nat : a = Consumed(s) /\ a = 2 + 2 * s.received
  BY <1>1 DEF Consumed, SessionStates
<1>3. PICK b \in Nat : Stream(up, a, b, k.number, k.length) /\ (k.at # "dead" => b = Produced(k))
  BY <1>2, StreamGoesOn
<1>4. Head(up) = Item(k.number, k.length, a + 1) /\ Stream(Tail(up), a + 1, b, k.number, k.length)
  BY <1>1, <1>3, StreamTail
<1>5. Head(up)[1] = k.length /\ s.length = k.length
  <2>1. (a + 1) % 2 = 1 /\ a + 1 # 1 /\ a + 1 \in Nat
    BY <1>1, <1>2 DEF SessionStates
  <2> QED
    BY <1>1, <1>4, <2>1, ItemIs, StreamGoesOn
<1>6. PICK s2 : /\ s2 = [s EXCEPT !.recvLen = Head(up)[1], !.at = "payload"]
                /\ s2 \in SessionStates /\ s2.at = "payload" /\ s2.recvLen = k.length
                /\ s2.length = s.length /\ s2.number = s.number /\ s2.received = s.received
  <2>1. PICK x \in Int : x = Head(up)[1]
    BY <1>1, <1>5
  <2>2. /\ [s EXCEPT !.recvLen = x, !.at = "payload"] \in SessionStates
        /\ [s EXCEPT !.recvLen = x, !.at = "payload"].at = "payload"
        /\ [s EXCEPT !.recvLen = x, !.at = "payload"].recvLen = x
        /\ [s EXCEPT !.recvLen = x, !.at = "payload"].length = s.length
        /\ [s EXCEPT !.recvLen = x, !.at = "payload"].number = s.number
        /\ [s EXCEPT !.recvLen = x, !.at = "payload"].received = s.received
    BY <1>1 DEF SessionStates
  <2> QED
    BY <1>5, <2>1, <2>2
<1>7. SessionCounts(s2) /\ Consumed(s2) = a + 1 /\ HasHeader(s2)
  <2>1. s.received < s.number /\ s.received \in Nat
    BY <1>1 DEF SessionCounts, SessionStates
  <2> QED
    BY <1>2, <1>6, <2>1 DEF SessionCounts, Consumed, HasHeader
<1>8. k.at # "dead" => s.number = k.number /\ k.at # "dial"
  BY <1>1 DEF ConnInv, ClientLives
<1>9. PICK up2 : up2 = Tail(up) /\ up2 \in Seq(Packets) /\ Stream(up2, a + 1, b, k.number, k.length)
  BY <1>4 DEF Stream
<1>10. ConnInv(k, s2, up2, down)
  BY <1>3, <1>5, <1>6, <1>7, <1>8, <1>9, ServerStepKeeps
<1> QED
  BY <1>5, <1>6, <1>9, <1>10

\* A Go server goes on without a length when the stream has ended.
LEMMA NoLengthKeeps ==
  ASSUME NEW k, NEW s, NEW up, NEW down, ConnInv(k, s, up, down), s.at = "length",
         up = <<>>, k.at = "dead"
  PROVE  ConnInv(k, [s EXCEPT !.recvLen = s.recvLen, !.at = "payload"], up, down)
<1>1. s \in SessionStates /\ s.received < s.number
  BY DEF ConnInv, SessionCounts
<1>2. SessionCounts([s EXCEPT !.recvLen = s.recvLen, !.at = "payload"])
  BY <1>1 DEF SessionCounts, SessionStates
<1>3. ClientGone(k, [s EXCEPT !.recvLen = s.recvLen, !.at = "payload"], up)
  BY DEF ClientGone
<1> QED
  BY <1>2, <1>3 DEF ConnInv

\* The server reads a payload, or learns that none comes.
LEMMA PayloadKeeps ==
  ASSUME NEW k, NEW s, NEW up, NEW down, ConnInv(k, s, up, down), s.at = "payload",
         up # <<>> \/ k.at \in {"done", "dead"}
  PROVE  ConnInv(k, [s EXCEPT !.at = "ack"], IF up = <<>> THEN up ELSE Tail(up), down)
<1>1. /\ k.number \in Int /\ k.length \in Int /\ HasHeader(s) /\ SessionCounts(s)
      /\ s \in SessionStates
  BY DEF ConnInv, ClientCounts, ClientStates, SessionCounts, HasHeader
<1>2. PICK s2 : /\ s2 = [s EXCEPT !.at = "ack"]
                /\ s2 \in SessionStates /\ s2.at = "ack" /\ s2.recvLen = s.recvLen
                /\ s2.length = s.length /\ s2.number = s.number /\ s2.received = s.received
  <2>1. /\ [s EXCEPT !.at = "ack"] \in SessionStates
        /\ [s EXCEPT !.at = "ack"].at = "ack"
        /\ [s EXCEPT !.at = "ack"].recvLen = s.recvLen
        /\ [s EXCEPT !.at = "ack"].length = s.length
        /\ [s EXCEPT !.at = "ack"].number = s.number
        /\ [s EXCEPT !.at = "ack"].received = s.received
    BY <1>1 DEF SessionStates
  <2> QED
    BY <2>1
<1>3. s.received < s.number /\ s.received \in Nat
  BY <1>1 DEF SessionCounts, SessionStates
<1>4. SessionCounts(s2) /\ HasHeader(s2)
  BY <1>2, <1>3 DEF SessionCounts, HasHeader
<1>5. CASE up = <<>>
  <2>1. k.at = "dead"
    BY <1>5, EndMeansDead
  <2>2. ConnInv(k, s2, up, down)
    BY <1>2, <1>4, <1>5, <2>1 DEF ConnInv, ClientGone
  <2> QED
    BY <1>2, <1>5, <2>2
<1>6. CASE up # <<>>
  <2>1. PICK a \in Nat : a = Consumed(s) /\ a = 3 + 2 * s.received /\ Consumed(s2) = a + 1
    BY <1>1, <1>2, <1>3 DEF Consumed
  <2>2. PICK b \in Nat : Stream(up, a, b, k.number, k.length) /\ (k.at # "dead" => b = Produced(k))
    BY <1>6, <2>1, StreamGoesOn
  <2>3. PICK up2 : up2 = Tail(up) /\ up2 \in Seq(Packets) /\ Stream(up2, a + 1, b, k.number, k.length)
    <3>1. Stream(Tail(up), a + 1, b, k.number, k.length)
      BY <1>1, <1>6, <2>2, StreamTail
    <3> QED
      BY <3>1 DEF Stream
  <2>4. k.at # "dead" => s.number = k.number /\ k.at # "dial" /\ s.recvLen = k.length
    BY <1>1 DEF ConnInv, ClientLives
  <2>5. s.length = k.length
    BY <1>1, <1>6, StreamGoesOn
  <2>6. ConnInv(k, s2, up2, down)
    BY <1>2, <1>4, <2>1, <2>2, <2>3, <2>4, <2>5, ServerStepKeeps
  <2> QED
    BY <1>2, <1>6, <2>3, <2>6
<1> QED
  BY <1>5, <1>6

\* The session one message on.
Answered(s) ==
  LET t == [s EXCEPT !.received = @ + 1]
  IN  [t EXCEPT !.at = NextMessage(t)]

\* The server answers, with either length: they are the same.
LEMMA AnswerKeeps ==
  ASSUME NEW k, NEW s, NEW up, NEW down, ConnInv(k, s, up, down), s.at = "ack",
         NEW x \in {s.length, s.recvLen}
  PROVE  /\ ConnInv(k, Answered(s), up, Append(down, x))
         /\ RecvLenAgrees(s) => RecvLenAgrees(Answered(s))
<1>1. /\ k.number \in Int /\ k.length \in Int /\ HasHeader(s) /\ SessionCounts(s) /\ down \in Seq(Int)
      /\ s \in SessionStates /\ x \in Int /\ s.received \in Nat /\ s.received < s.number /\ s.number \in Int
  BY DEF ConnInv, ClientCounts, ClientStates, SessionCounts, SessionStates, HasHeader
<1>2. PICK s2 : /\ s2 = Answered(s)
                /\ s2 \in SessionStates /\ s2.recvLen = s.recvLen
                /\ s2.length = s.length /\ s2.number = s.number /\ s2.received = s.received + 1
                /\ s2.at = IF s.received + 1 < s.number THEN "length" ELSE "closed"
  <2>1. PICK t : /\ t = [s EXCEPT !.received = @ + 1] /\ t \in SessionStates /\ t.recvLen = s.recvLen
                 /\ t.length = s.length /\ t.number = s.number /\ t.received = s.received + 1
    <3>1. /\ [s EXCEPT !.received = @ + 1] \in SessionStates
          /\ [s EXCEPT !.received = @ + 1].recvLen = s.recvLen
          /\ [s EXCEPT !.received = @ + 1].length = s.length
          /\ [s EXCEPT !.received = @ + 1].number = s.number
          /\ [s EXCEPT !.received = @ + 1].received = s.received + 1
      BY <1>1 DEF SessionStates
    <3> QED
      BY <3>1
  <2>2. PICK place : /\ place = NextMessage(t) /\ place \in {"length", "closed"}
                     /\ place = IF s.received + 1 < s.number THEN "length" ELSE "closed"
    BY <2>1 DEF NextMessage
  <2>3. /\ [t EXCEPT !.at = place] \in SessionStates
        /\ [t EXCEPT !.at = place].at = place
        /\ [t EXCEPT !.at = place].recvLen = t.recvLen
        /\ [t EXCEPT !.at = place].length = t.length
        /\ [t EXCEPT !.at = place].number = t.number
        /\ [t EXCEPT !.at = place].received = t.received
    BY <2>1, <2>2 DEF SessionStates
  <2>4. Answered(s) = [t EXCEPT !.at = place]
    BY <2>1, <2>2 DEF Answered
  <2> QED
    BY <2>1, <2>2, <2>3, <2>4
<1>3. SessionCounts(s2) /\ HasHeader(s2) /\ Consumed(s2) = Consumed(s) /\ s2.at \notin {"payload", "ack", "failed"}
  <2>1. s2.at = "closed" => s2.received = Positive(s2.number)
    BY <1>1, <1>2 DEF Positive
  <2> QED
    BY <1>1, <1>2, <2>1 DEF SessionCounts, HasHeader, Consumed
<1>4. RecvLenAgrees(s) => RecvLenAgrees(s2)
  BY <1>1, <1>2 DEF RecvLenAgrees
<1>5. PICK more : more = Append(down, x) /\ more \in Seq(Int) /\ Len(more) = Len(down) + 1
  <2>1. Append(down, x) \in Seq(Int) /\ Len(Append(down, x)) = Len(down) + 1
    BY <1>1
  <2> QED
    BY <2>1
<1>6. CASE k.at # "dead"
  <2>1. ClientLives(k, s, up, down)
    BY <1>6 DEF ConnInv
  <2>2. x = k.length
    BY <1>1, <2>1 DEF ClientLives
  <2>3. ASSUME NEW i \in Nat, 1 <= i, i <= Len(more)
        PROVE  more[i] = k.length
    <3>1. CASE i <= Len(down)
      <4>1. Append(down, x)[i] = down[i]
        BY <1>1, <2>3, <3>1
      <4> QED
        BY <1>5, <2>1, <2>3, <3>1, <4>1 DEF ClientLives
    <3>2. CASE i = Len(down) + 1
      <4>1. Append(down, x)[Len(down) + 1] = x
        BY <1>1
      <4> QED
        BY <1>5, <2>2, <3>2, <4>1
    <3> QED
      BY <1>1, <1>5, <2>3, <3>1, <3>2
  <2>4. ClientLives(k, s2, up, more)
    BY <1>1, <1>2, <1>3, <2>1, <2>3 DEF ClientLives
  <2>5. ConnInv(k, s2, up, more)
    BY <1>3, <1>5, <1>6, <2>4 DEF ConnInv
  <2> QED
    BY <1>2, <1>4, <1>5, <2>5
<1>7. CASE k.at = "dead"
  <2>1. ClientGone(k, s, up)
    BY <1>7 DEF ConnInv
  <2>2. ClientGone(k, s2, up)
    BY <1>1, <1>2, <1>3, <2>1 DEF ClientGone
  <2>3. ConnInv(k, s2, up, more)
    BY <1>3, <1>5, <1>7, <2>2 DEF ConnInv
  <2> QED
    BY <1>2, <1>4, <1>5, <2>3
<1> QED
  BY <1>6, <1>7

\* A session fails only with its client, or over a negative length.
LEMMA FailKeeps ==
  ASSUME NEW k, NEW s, NEW up, NEW down, ConnInv(k, s, up, down),
         \/ s.at \in {"header", "ack"} /\ k.at = "dead"
         \/ s.at \in {"length", "payload"} /\ up = <<>> /\ k.at \in {"done", "dead"}
         \/ s.at = "payload" /\ s.recvLen < 0
         \/ s.at = "header" /\ k.length < 0
  PROVE  (k.at = "dead" \/ k.length < 0) /\ ConnInv(k, [s EXCEPT !.at = "failed"], up, down)
<1>1. k.at = "dead" \/ (ClientLives(k, s, up, down) /\ k.length < 0)
  <2>1. SUFFICES ASSUME k.at # "dead" PROVE ClientLives(k, s, up, down) /\ k.length < 0
    OBVIOUS
  <2>2. ~(s.at \in {"length", "payload"} /\ up = <<>> /\ k.at \in {"done", "dead"})
    BY <2>1, EndMeansDead
  <2>3. s.at \in {"payload", "header"}
    BY <2>1, <2>2
  <2>4. ClientLives(k, s, up, down)
    BY <2>1, <2>3 DEF ConnInv
  <2>5. s.at = "payload" => s.recvLen = k.length
    BY <2>4 DEF ClientLives
  <2> QED
    BY <2>1, <2>2, <2>4, <2>5
<1>2. s \in SessionStates
  BY DEF ConnInv, SessionCounts
<1>3. PICK s2 : /\ s2 = [s EXCEPT !.at = "failed"]
                /\ s2 \in SessionStates /\ s2.at = "failed" /\ s2.received = s.received
  <2>1. /\ [s EXCEPT !.at = "failed"] \in SessionStates
        /\ [s EXCEPT !.at = "failed"].at = "failed"
        /\ [s EXCEPT !.at = "failed"].received = s.received
    BY <1>2 DEF SessionStates
  <2> QED
    BY <2>1
<1>4. SessionCounts(s2)
  BY <1>3 DEF SessionCounts
<1>5. k.at # "dead" => FailedLives(k, s2, down)
  BY <1>1, <1>3, ReadWasSent DEF ClientLives, FailedLives
<1>6. ConnInv(k, s2, up, down)
  BY <1>3, <1>4, <1>5 DEF ConnInv
<1> QED
  BY <1>1, <1>3, <1>6

-----------------------------------------------------------------------------
(***************************************************************************)
(* All connections, and what has become of the server.                     *)
(***************************************************************************)
TtcpInv ==
  /\ server \in Languages /\ serverUp \in BOOLEAN
  /\ client \in [TtcpClients -> ClientStates] /\ session \in [TtcpClients -> SessionStates]
  /\ toServer \in [TtcpClients -> Seq(Packets)] /\ toClient \in [TtcpClients -> Seq(Int)]
  /\ \A c \in TtcpClients :
       /\ ConnInv(client[c], session[c], toServer[c], toClient[c])
       /\ server = "go" /\ serverUp => RecvLenAgrees(session[c])
  /\ TtcpSurvives

\* A step of a client leaves the dead dead and the sessions alone.
LEMMA ClientStepKeeps ==
  ASSUME TtcpInv, NEW c \in TtcpClients, client[c].at # "dead", NEW k2, NEW up2, NEW down2,
         ConnInv(k2, session[c], up2, down2), k2.length = client[c].length,
         client' = [client EXCEPT ![c] = k2], toServer' = [toServer EXCEPT ![c] = up2],
         toClient' = [toClient EXCEPT ![c] = down2], UNCHANGED <<server, serverUp, session>>
  PROVE  TtcpInv'
<1>1. k2 \in ClientStates /\ up2 \in Seq(Packets) /\ down2 \in Seq(Int)
  BY DEF ConnInv, ClientCounts
<1>2. /\ client' \in [TtcpClients -> ClientStates]
      /\ toServer' \in [TtcpClients -> Seq(Packets)] /\ toClient' \in [TtcpClients -> Seq(Int)]
  BY <1>1 DEF TtcpInv
<1>3. ASSUME NEW d \in TtcpClients
      PROVE  /\ ConnInv(client'[d], session'[d], toServer'[d], toClient'[d])
             /\ server' = "go" /\ serverUp' => RecvLenAgrees(session'[d])
             /\ client[d].at = "dead" => client'[d].at = "dead"
             /\ client'[d].length = client[d].length
  BY <1>3 DEF TtcpInv
<1>4. TtcpSurvives'
  BY <1>3 DEF TtcpInv, TtcpSurvives, At
<1> QED
  BY <1>2, <1>3, <1>4 DEF TtcpInv

\* A step of the server ends it only as it may.
LEMMA SessionStepKeeps ==
  ASSUME TtcpInv, serverUp, NEW c \in TtcpClients, NEW s2, NEW up2, NEW down2,
         ConnInv(client[c], s2, up2, down2),
         session' = [session EXCEPT ![c] = s2], toServer' = [toServer EXCEPT ![c] = up2],
         toClient' = [toClient EXCEPT ![c] = down2], UNCHANGED <<server, client>>,
         serverUp' \in BOOLEAN, server = "go" /\ serverUp' => RecvLenAgrees(s2),
         ~serverUp' => \/ client[c].length < 0 /\ s2.at = "failed" /\ server # "python"
                       \/ /\ client[c].at = "dead"
                          /\ \/ server = "rust" /\ s2.at = "failed"
                             \/ server = "go" /\ s2.received = 0 /\ s2.length # 0
  PROVE  TtcpInv'
<1>1. s2 \in SessionStates /\ up2 \in Seq(Packets) /\ down2 \in Seq(Int)
  BY DEF ConnInv, SessionCounts
<1>2. /\ session' \in [TtcpClients -> SessionStates]
      /\ toServer' \in [TtcpClients -> Seq(Packets)] /\ toClient' \in [TtcpClients -> Seq(Int)]
  BY <1>1 DEF TtcpInv
<1>3. ASSUME NEW d \in TtcpClients
      PROVE  /\ ConnInv(client'[d], session'[d], toServer'[d], toClient'[d])
             /\ server' = "go" /\ serverUp' => RecvLenAgrees(session'[d])
  BY <1>3 DEF TtcpInv
<1>4. session'[c] = s2
  BY DEF TtcpInv
<1>5. TtcpSurvives'
  BY <1>4 DEF TtcpInv, TtcpSurvives, At
<1> QED
  BY <1>2, <1>3, <1>5 DEF TtcpInv

\* A step of a client keeps the invariant of every connection.
LEMMA ClientsKeep ==
  ASSUME TtcpInv, NEW c \in TtcpClients, ClientStep(c) \/ ClientDies(c) \/ ClientLosesServer(c)
  PROVE  TtcpInv'
<1>1. PICK k, s, up, down :
        /\ k = client[c] /\ s = session[c] /\ up = toServer[c] /\ down = toClient[c]
        /\ ConnInv(k, s, up, down) /\ k \in ClientStates
  BY DEF TtcpInv
<1>2. /\ client = [client EXCEPT ![c] = k] /\ session = [session EXCEPT ![c] = s]
      /\ toServer = [toServer EXCEPT ![c] = up] /\ toClient = [toClient EXCEPT ![c] = down]
  BY <1>1 DEF TtcpInv
<1>3. ASSUME NEW place \in {"header", "send", "recv", "done", "dead"}
      PROVE  [k EXCEPT !.at = place].length = k.length
  BY <1>1 DEF ClientStates
<1>4. ASSUME NEW i \in 0 .. Len(up), k.at # "dead"
      PROVE  ConnInv([k EXCEPT !.at = "dead"], s, SubSeq(up, 1, i), down)
  BY <1>1, <1>4, DieKeeps
<1>5. CASE ClientDials(c)
  <2>1. ConnInv([k EXCEPT !.at = "header"], s, up \o <<Word(k.number)>>, down)
    BY <1>1, <1>5, DialKeeps DEF ClientDials, At
  <2>2. /\ client' = [client EXCEPT ![c] = [k EXCEPT !.at = "header"]]
        /\ toServer' = [toServer EXCEPT ![c] = up \o <<Word(k.number)>>]
        /\ toClient' = [toClient EXCEPT ![c] = down] /\ UNCHANGED <<server, serverUp, session>>
        /\ client[c].at # "dead"
    BY <1>1, <1>2, <1>5 DEF ClientDials, GoTo, SendServer, At, TtcpInv
  <2> QED
    BY <1>1, <1>3, <2>1, <2>2, ClientStepKeeps
<1>6. CASE ClientSendsLength(c)
  <2>1. PICK place : place = IF k.number > 0 THEN "send" ELSE "done"
    OBVIOUS
  <2>2. PICK more : more = up \o <<Word(k.length)>>
    OBVIOUS
  <2>3. ConnInv([k EXCEPT !.at = place], s, more, down)
    BY <1>1, <1>6, <2>1, <2>2, SendsLengthKeeps DEF ClientSendsLength, At
  <2>4. /\ toServer' = [toServer EXCEPT ![c] = more]
        /\ toClient' = [toClient EXCEPT ![c] = down] /\ UNCHANGED <<server, serverUp, session>>
        /\ client[c].at # "dead"
    BY <1>1, <1>2, <1>6, <2>2 DEF ClientSendsLength, SendServer, At, TtcpInv
  <2>5. CASE k.language = "rust" /\ k.length < 0
    <3>1. PICK k1 : k1 = [k EXCEPT !.at = place] /\ k1.at # "dead" /\ k1 \in ClientStates
      <4>1. place \in {"done", "send"}
        BY <2>1
      <4>2. /\ [k EXCEPT !.at = place].at = place
            /\ [k EXCEPT !.at = place] \in ClientStates
        BY <1>1, <4>1 DEF ClientStates
      <4> QED
        BY <4>1, <4>2
    <3>2. Len(more) \in 0 .. Len(more) /\ SubSeq(more, 1, Len(more)) = more
      BY <2>3 DEF ConnInv
    <3>3. ConnInv([k1 EXCEPT !.at = "dead"], s, more, down)
      BY <2>3, <3>1, <3>2, DieKeeps
    <3>4. [k1 EXCEPT !.at = "dead"] = [k EXCEPT !.at = "dead"]
      BY <1>1, <3>1 DEF ClientStates
    <3>5. client' = [client EXCEPT ![c] = [k EXCEPT !.at = "dead"]]
      BY <1>1, <1>6, <2>5 DEF ClientSendsLength, GoTo, TtcpInv
    <3> QED
      BY <1>1, <1>3, <2>4, <3>3, <3>4, <3>5, ClientStepKeeps
  <2>6. CASE ~(k.language = "rust" /\ k.length < 0)
    <3>1. client' = [client EXCEPT ![c] = [k EXCEPT !.at = place]]
      BY <1>1, <1>6, <2>1, <2>6 DEF ClientSendsLength, GoTo, TtcpInv
    <3> QED
      BY <1>1, <1>3, <2>1, <2>3, <2>4, <3>1, ClientStepKeeps
  <2> QED
    BY <2>5, <2>6
<1>7. CASE ClientSends(c)
  <2>1. PICK k2 : k2 = [k EXCEPT !.sent = @ + 1, !.at = AfterSending(k)]
    OBVIOUS
  <2>2. ConnInv(k2, s, up \o <<Word(k.length), Payload>>, down) /\ k2.length = k.length
    <3>1. k.at = "send" /\ ClientCounts(k)
      BY <1>1, <1>7 DEF ClientSends, At, ConnInv
    <3>2. k2.length = k.length
      BY <2>1, <3>1, SentCounts
    <3> QED
      BY <1>1, <2>1, <3>1, <3>2, SendKeeps, SendFailedKeeps
  <2>3. client' = [client EXCEPT ![c] = k2]
    BY <1>1, <1>7, <2>1 DEF ClientSends, AfterSending, TtcpInv
  <2>4. /\ toServer' = [toServer EXCEPT ![c] = up \o <<Word(k.length), Payload>>]
        /\ toClient' = [toClient EXCEPT ![c] = down] /\ UNCHANGED <<server, serverUp, session>>
        /\ client[c].at # "dead"
    BY <1>1, <1>2, <1>7 DEF ClientSends, SendServer, At, TtcpInv
  <2> QED
    BY <1>1, <2>2, <2>3, <2>4, ClientStepKeeps
<1>8. CASE ClientReceives(c)
  <2>1. PICK k2 : k2 = [k EXCEPT !.at = AfterAnswer(k)]
    OBVIOUS
  <2>2. k.at = "recv" /\ down # <<>> /\ ClientCounts(k)
    BY <1>1, <1>8 DEF ClientReceives, At, ConnInv
  <2>3. Head(down) = k.length /\ ConnInv(k2, s, up, Tail(down)) /\ k2.length = k.length
    BY <1>1, <2>1, <2>2, ReceiveKeeps, AnsweredCounts
  <2>4. ~ClientRefuses(c)
    BY <1>1, <2>3 DEF ClientRefuses
  <2>5. client' = [client EXCEPT ![c] = k2]
    BY <1>1, <1>8, <2>1, <2>4 DEF ClientReceives, GoTo, AfterAnswer, TtcpInv
  <2>6. /\ toServer' = [toServer EXCEPT ![c] = up] /\ toClient' = [toClient EXCEPT ![c] = Tail(down)]
        /\ UNCHANGED <<server, serverUp, session>> /\ client[c].at # "dead"
    BY <1>1, <1>2, <1>8, <2>2 DEF ClientReceives, TtcpInv
  <2> QED
    BY <1>1, <2>3, <2>5, <2>6, ClientStepKeeps
<1>9. CASE ClientDies(c)
  <2>1. PICK i \in 0 .. Len(up) : toServer' = [toServer EXCEPT ![c] = SubSeq(up, 1, i)]
    BY <1>1, <1>9 DEF ClientDies, TtcpInv
  <2>2. ConnInv([k EXCEPT !.at = "dead"], s, SubSeq(up, 1, i), down)
    BY <1>1, <1>4, <1>9 DEF ClientDies
  <2>3. /\ client' = [client EXCEPT ![c] = [k EXCEPT !.at = "dead"]]
        /\ toClient' = [toClient EXCEPT ![c] = down]
        /\ UNCHANGED <<server, serverUp, session>> /\ client[c].at # "dead"
    BY <1>1, <1>2, <1>9 DEF ClientDies, GoTo, TtcpInv
  <2> QED
    BY <1>1, <1>3, <2>1, <2>2, <2>3, ClientStepKeeps
<1>10. CASE ClientLosesServer(c)
  <2>1. k.at # "dead" /\ up \in Seq(Packets)
    BY <1>1, <1>10 DEF ClientLosesServer, At, ConnInv
  <2>2. Len(up) \in 0 .. Len(up) /\ SubSeq(up, 1, Len(up)) = up
    BY <2>1
  <2>3. ConnInv([k EXCEPT !.at = "dead"], s, up, down)
    BY <1>4, <2>1, <2>2
  <2>4. /\ client' = [client EXCEPT ![c] = [k EXCEPT !.at = "dead"]]
        /\ toServer' = [toServer EXCEPT ![c] = up] /\ toClient' = [toClient EXCEPT ![c] = down]
        /\ UNCHANGED <<server, serverUp, session>> /\ client[c].at # "dead"
    BY <1>1, <1>2, <1>10, <2>1 DEF ClientLosesServer, GoTo, TtcpInv
  <2> QED
    BY <1>1, <1>3, <2>3, <2>4, ClientStepKeeps
<1> QED
  BY <1>5, <1>6, <1>7, <1>8, <1>9, <1>10 DEF ClientStep

\* So does a step of the server, which may end all sessions.
LEMMA ServerKeepsInv ==
  ASSUME TtcpInv, NEW c \in TtcpClients, ServerStep(c)
  PROVE  TtcpInv'
<1>1. PICK k, s, up, down :
        /\ k = client[c] /\ s = session[c] /\ up = toServer[c] /\ down = toClient[c]
        /\ ConnInv(k, s, up, down) /\ (server = "go" /\ serverUp => RecvLenAgrees(s))
  BY DEF TtcpInv
<1>2. /\ toServer = [toServer EXCEPT ![c] = up] /\ toClient = [toClient EXCEPT ![c] = down]
      /\ serverUp \in BOOLEAN
  BY <1>1 DEF TtcpInv
<1>3. CASE ServerAccepts(c)
  <2>1. /\ ConnInv(k, [NoSession EXCEPT !.at = "header"], up, down)
        /\ RecvLenAgrees([NoSession EXCEPT !.at = "header"])
    BY <1>1, <1>3, AcceptKeeps DEF ServerAccepts, Serving, At, NoSession, RecvLenAgrees
  <2>2. /\ session' = [session EXCEPT ![c] = [NoSession EXCEPT !.at = "header"]]
        /\ toServer' = [toServer EXCEPT ![c] = up] /\ toClient' = [toClient EXCEPT ![c] = down]
        /\ UNCHANGED <<server, client, serverUp>> /\ serverUp
    BY <1>2, <1>3 DEF ServerAccepts, Session, ServerKeeps, Serving
  <2> QED
    BY <1>1, <1>2, <2>1, <2>2, SessionStepKeeps
<1>4. CASE ServerReadsHeader(c)
  <2>1. PICK s2 : /\ s2 = After(Read(up[1][1], up[2][1]))
                  /\ ConnInv(k, s2, SubSeq(up, 3, Len(up)), down) /\ RecvLenAgrees(s2)
    BY <1>1, <1>4, HeaderKeeps DEF ServerReadsHeader, Serving
  <2>2. session' = [session EXCEPT ![c] = s2]
    BY <1>1, <1>4, <2>1, Zenon DEF ServerReadsHeader, Session, After, Read
  <2>3. /\ toServer' = [toServer EXCEPT ![c] = SubSeq(up, 3, Len(up))]
        /\ toClient' = [toClient EXCEPT ![c] = down]
        /\ UNCHANGED <<server, client, serverUp>> /\ serverUp
    BY <1>1, <1>2, <1>4 DEF ServerReadsHeader, ServerKeeps, Serving, TtcpInv
  <2> QED
    BY <1>1, <1>2, <2>1, <2>2, <2>3, SessionStepKeeps
<1>5. CASE GoReadsPartOfHeader(c)
  <2>1. PICK r : r = IF up = <<>> THEN NoSession ELSE [NoSession EXCEPT !.number = up[1][1]]
    OBVIOUS
  <2>2. PICK s2 : s2 = After(r) /\ ConnInv(k, s2, <<>>, down) /\ RecvLenAgrees(s2)
    BY <1>1, <1>5, <2>1, PartKeeps DEF GoReadsPartOfHeader, Serving, At
  <2>4. session' = [session EXCEPT ![c] = s2]
    BY <1>1, <1>5, <2>1, <2>2, Zenon DEF GoReadsPartOfHeader, Session, After
  <2>5. /\ toServer' = [toServer EXCEPT ![c] = <<>>] /\ toClient' = [toClient EXCEPT ![c] = down]
        /\ UNCHANGED <<server, client, serverUp>> /\ serverUp
    BY <1>1, <1>2, <1>5 DEF GoReadsPartOfHeader, ServerKeeps, Serving
  <2> QED
    BY <1>1, <1>2, <2>2, <2>4, <2>5, SessionStepKeeps
<1>6. CASE GoReadsLength(c)
  <2>1. /\ s.at = "length" /\ server = "go" /\ serverUp /\ RecvLenAgrees(s) /\ s \in SessionStates
        /\ UNCHANGED <<server, client>> /\ toClient' = [toClient EXCEPT ![c] = down]
    BY <1>1, <1>2, <1>6 DEF GoReadsLength, Serving, ServerKeeps, TtcpInv
  <2>2. CASE up # <<>>
    <3>1. ~EndOfStream(c)
      BY <1>1, <2>2 DEF EndOfStream
    <3>2. PICK s2 : /\ s2 = [s EXCEPT !.recvLen = Head(up)[1], !.at = "payload"]
                    /\ Head(up)[1] = s.length /\ ConnInv(k, s2, Tail(up), down)
      BY <1>1, <2>1, <2>2, LengthKeeps
    <3>3. session' = [session EXCEPT ![c] = s2] /\ serverUp' = TRUE
      BY <1>1, <1>6, <3>1, <3>2 DEF GoReadsLength, Session
    <3>4. toServer' = [toServer EXCEPT ![c] = Tail(up)]
      BY <1>1, <1>6, <2>2 DEF GoReadsLength, TtcpInv
    <3>5. RecvLenAgrees(s2)
      BY <2>1, <3>2 DEF RecvLenAgrees, SessionStates
    <3> QED
      BY <1>1, <2>1, <3>2, <3>3, <3>4, <3>5, SessionStepKeeps
  <2>3. CASE up = <<>>
    <3>1. EndOfStream(c) /\ k.at \in {"done", "dead"}
      BY <1>1, <1>6, <2>3 DEF GoReadsLength, EndOfStream
    <3>2. k.at = "dead"
      BY <1>1, <2>1, <2>3, <3>1, EndMeansDead
    <3>3. PICK s2 : /\ s2 = [s EXCEPT !.recvLen = s.recvLen, !.at = "payload"]
                    /\ ConnInv(k, s2, up, down)
      BY <1>1, <2>1, <2>3, <3>2, NoLengthKeeps
    <3>4. session' = [session EXCEPT ![c] = s2] /\ serverUp' = (s.recvLen = s.length)
      BY <1>1, <1>6, <3>1, <3>3 DEF GoReadsLength, Session
    <3>5. toServer' = [toServer EXCEPT ![c] = up]
      BY <1>1, <1>2, <1>6, <2>3 DEF GoReadsLength
    <3>6. s2.received = s.received /\ s2.length = s.length /\ s2.recvLen = s.recvLen /\ s2.at = "payload"
      BY <2>1, <3>3 DEF SessionStates
    <3>7. serverUp' => RecvLenAgrees(s2)
      BY <3>4, <3>6 DEF RecvLenAgrees
    <3>8. ASSUME ~serverUp'
          PROVE  s2.received = 0 /\ s2.length # 0
      <4>1. s.recvLen # s.length
        BY <3>4, <3>8
      <4>2. s.received \in Nat
        BY <2>1 DEF SessionStates
      <4> QED
        BY <2>1, <3>6, <4>1, <4>2 DEF RecvLenAgrees
    <3> QED
      BY <1>1, <2>1, <3>2, <3>3, <3>4, <3>5, <3>7, <3>8, SessionStepKeeps
  <2> QED
    BY <2>2, <2>3
<1>7. CASE ServerReadsLength(c)
  <2>1. PICK s2 : /\ s2 = [s EXCEPT !.recvLen = Head(up)[1], !.at = "payload"]
                  /\ ConnInv(k, s2, Tail(up), down)
    BY <1>1, <1>7, LengthKeeps DEF ServerReadsLength, Serving
  <2>2. /\ session' = [session EXCEPT ![c] = s2] /\ toServer' = [toServer EXCEPT ![c] = Tail(up)]
        /\ toClient' = [toClient EXCEPT ![c] = down]
        /\ UNCHANGED <<server, client, serverUp>> /\ serverUp /\ server # "go"
    BY <1>1, <1>2, <1>7, <2>1 DEF ServerReadsLength, Session, Took, ServerKeeps, Serving, TtcpInv
  <2> QED
    BY <1>1, <1>2, <2>1, <2>2, SessionStepKeeps
<1>8. CASE ServerReadsPayload(c)
  <2>1. s.at = "payload" /\ (up # <<>> \/ k.at \in {"done", "dead"}) /\ s \in SessionStates
    BY <1>1, <1>8 DEF ServerReadsPayload, Serving, EndOfStream, TtcpInv
  <2>2. PICK s2 : /\ s2 = [s EXCEPT !.at = "ack"]
                  /\ ConnInv(k, s2, IF up = <<>> THEN up ELSE Tail(up), down)
    BY <1>1, <2>1, PayloadKeeps
  <2>3. /\ session' = [session EXCEPT ![c] = s2]
        /\ toServer' = [toServer EXCEPT ![c] = IF up = <<>> THEN up ELSE Tail(up)]
        /\ toClient' = [toClient EXCEPT ![c] = down]
        /\ UNCHANGED <<server, client, serverUp>> /\ serverUp
    BY <1>1, <1>2, <1>8, <2>2 DEF ServerReadsPayload, Session, ServerKeeps, Serving, TtcpInv
  <2>4. RecvLenAgrees(s) => RecvLenAgrees(s2)
    BY <2>1, <2>2 DEF RecvLenAgrees, SessionStates
  <2> QED
    BY <1>1, <1>2, <2>2, <2>3, <2>4, SessionStepKeeps
<1>9. CASE ServerAnswers(c)
  <2>1. PICK x \in {s.length, s.recvLen} : toClient' = [toClient EXCEPT ![c] = Append(down, x)]
    BY <1>1, <1>9 DEF ServerAnswers, TtcpInv
  <2>2. PICK s2 : /\ s2 = Answered(s) /\ ConnInv(k, s2, up, Append(down, x))
                  /\ (RecvLenAgrees(s) => RecvLenAgrees(s2))
    BY <1>1, <1>9, AnswerKeeps DEF ServerAnswers, Serving
  <2>3. session' = [session EXCEPT ![c] = s2]
    BY <1>1, <1>9, <2>2 DEF ServerAnswers, Session, Answered
  <2>4. toServer' = [toServer EXCEPT ![c] = up] /\ UNCHANGED <<server, client, serverUp>> /\ serverUp
    BY <1>2, <1>9 DEF ServerAnswers, Serving
  <2> QED
    BY <1>1, <1>2, <2>1, <2>2, <2>3, <2>4, SessionStepKeeps
<1>10. CASE ServerFails(c)
  <2>1. \/ s.at \in {"header", "ack"} /\ k.at = "dead"
        \/ s.at \in {"length", "payload"} /\ up = <<>> /\ k.at \in {"done", "dead"}
        \/ s.at = "payload" /\ s.recvLen < 0
    BY <1>1, <1>10 DEF ServerFails, At, EndOfStream
  <2>2. PICK s2 : /\ s2 = [s EXCEPT !.at = "failed"] /\ (k.at = "dead" \/ k.length < 0)
                  /\ ConnInv(k, s2, up, down)
    BY <1>1, <2>1, FailKeeps
  <2>3. /\ session' = [session EXCEPT ![c] = s2] /\ toServer' = [toServer EXCEPT ![c] = up]
        /\ toClient' = [toClient EXCEPT ![c] = down]
        /\ UNCHANGED <<server, client>> /\ serverUp /\ server # "go" /\ serverUp' = (server # "rust")
    BY <1>1, <1>2, <1>10, <2>2 DEF ServerFails, Session, Unwrap, ServerKeeps
  <2>4. s2.at = "failed" /\ serverUp' \in BOOLEAN
    <3>1. s \in SessionStates
      BY <1>1 DEF TtcpInv
    <3> QED
      BY <2>2, <2>3, <3>1 DEF SessionStates
  <2> QED
    BY <1>1, <2>2, <2>3, <2>4, SessionStepKeeps
<1>11. CASE GoPanics(c)
  <2>1. s.at = "header" /\ Len(up) >= 2 /\ up[2][1] < 0 /\ server = "go" /\ serverUp
    BY <1>1, <1>11 DEF GoPanics, NoSuchBuffer, Serving
  <2>2. k.length < 0
    <3>1. up # <<>> /\ k.number \in Int /\ k.length \in Int /\ Consumed(s) = 0
      BY <1>1, <2>1 DEF ConnInv, ClientCounts, ClientStates, Consumed
    <3>2. PICK b \in Nat : Stream(up, 0, b, k.number, k.length)
      BY <1>1, <2>1, <3>1, StreamGoesOn
    <3>3. up[2][1] = k.length
      BY <2>1, <3>1, <3>2, StreamHeader
    <3> QED
      BY <2>1, <3>3
  <2>3. PICK s2 : s2 = [s EXCEPT !.at = "failed"] /\ ConnInv(k, s2, up, down)
    BY <1>1, <2>1, <2>2, FailKeeps
  <2>4. s2.at = "failed"
    <3>1. s \in SessionStates
      BY <1>1 DEF TtcpInv
    <3> QED
      BY <2>3, <3>1 DEF SessionStates
  <2>5. /\ session' = [session EXCEPT ![c] = s2] /\ toServer' = [toServer EXCEPT ![c] = up]
        /\ toClient' = [toClient EXCEPT ![c] = down]
        /\ UNCHANGED <<server, client>> /\ serverUp' = FALSE
    BY <1>1, <1>2, <1>11, <2>3 DEF GoPanics, Session, ServerKeeps
  <2> QED
    BY <1>1, <2>1, <2>2, <2>3, <2>4, <2>5, SessionStepKeeps
<1> QED
  BY <1>3, <1>4, <1>5, <1>6, <1>7, <1>8, <1>9, <1>10, <1>11 DEF ServerStep

\* Nothing is sent or read at first.
LEMMA TtcpStarts == TtcpInit => TtcpInv
<1> SUFFICES ASSUME TtcpInit PROVE TtcpInv
  OBVIOUS
<1>1. ASSUME NEW c \in TtcpClients
      PROVE  client[c] \in ClientStates /\ client[c].at = "dial" /\ client[c].sent = 0
  <2>1. client[c] \in ClientStarts(c)
    BY DEF TtcpInit
  <2>2. MessageNumbers[c] \subseteq Int /\ Lengths[c] \subseteq Int
    BY TtcpAssumption
  <2> QED
    BY <2>1, <2>2 DEF ClientStarts, ClientStates
<1>2. /\ NoSession \in SessionStates /\ NoSession.at = "none" /\ NoSession.received = 0
      /\ NoSession.recvLen = 0
  BY DEF NoSession, SessionStates
<1>3. <<>> \in Seq(Packets) /\ <<>> \in Seq(Int) /\ Len(<<>>) = 0
  OBVIOUS
<1>4. ASSUME NEW c \in TtcpClients
      PROVE  ConnInv(client[c], NoSession, <<>>, <<>>) /\ RecvLenAgrees(NoSession)
  <2>1. ClientCounts(client[c]) /\ SessionCounts(NoSession) /\ RecvLenAgrees(NoSession)
    BY <1>1, <1>2 DEF ClientCounts, SessionCounts, RecvLenAgrees
  <2>2. Consumed(NoSession) = 0 /\ Produced(client[c]) = 0 /\ ~HasHeader(NoSession)
    BY <1>1, <1>2 DEF Consumed, Produced, HasHeader
  <2>3. Stream(<<>>, 0, 0, client[c].number, client[c].length)
    BY <1>3 DEF Stream
  <2>4. ClientLives(client[c], NoSession, <<>>, <<>>)
    BY <1>2, <1>3, <2>2, <2>3 DEF ClientLives
  <2>5. NoSession.at # "failed" /\ client[c].at # "dead"
    BY <1>1, <1>2
  <2> QED
    BY <1>3, <2>1, <2>4, <2>5 DEF ConnInv
<1>5. /\ client \in [TtcpClients -> ClientStates] /\ session \in [TtcpClients -> SessionStates]
      /\ toServer \in [TtcpClients -> Seq(Packets)] /\ toClient \in [TtcpClients -> Seq(Int)]
  BY <1>1, <1>2, <1>3 DEF TtcpInit
<1> QED
  BY <1>4, <1>5 DEF TtcpInit, TtcpInv, TtcpSurvives

\* The invariant says what both sides count.
LEMMA InvCounts == TtcpInv => TtcpCounts
<1> SUFFICES ASSUME TtcpInv, NEW c \in TtcpClients
    PROVE  /\ client[c].at = "recv" /\ toClient[c] # <<>> => Head(toClient[c]) = client[c].length
           /\ ~At(c, "dead") => session[c].received <= client[c].sent
           /\ At(c, "done") /\ session[c].at = "closed" => session[c].received = client[c].sent
  BY DEF TtcpCounts
<1>1. ConnInv(client[c], session[c], toServer[c], toClient[c])
  BY DEF TtcpInv
<1>2. client[c].at = "recv" /\ toClient[c] # <<>> => Head(toClient[c]) = client[c].length
  <2>1. PICK k2 : k2 = [client[c] EXCEPT !.at = AfterAnswer(client[c])]
    OBVIOUS
  <2> QED
    BY <1>1, <2>1, ReceiveKeeps
<1>3. client[c].at # "dead" => session[c].received <= client[c].sent
  BY <1>1, ReadWasSent
<1>4. ASSUME client[c].at = "done", session[c].at = "closed"
      PROVE  session[c].received = client[c].sent
  BY <1>1, <1>4 DEF ConnInv, ClientLives, HasHeader, ClientCounts, SessionCounts
<1> QED
  BY <1>2, <1>3, <1>4 DEF At

\* Whoever talks to whom and whoever dies, a client gets back the length it
\* sent, the server has received no more messages than it was sent and all of
\* them when it is done, and it ends only with a client that dies or asks for a
\* negative length: for any clients and any numbers and lengths, of either sign
\* (goimpl/main.go:37-114, rustimpl/src/main.rs:7-75, pyimpl/main.py:15-60).
THEOREM TtcpSafe == TtcpSpec => [](TtcpCounts /\ TtcpSurvives)
<1>1. TtcpInit => TtcpInv
  BY TtcpStarts
<1>2. TtcpInv /\ [TtcpNext]_ttcpVars => TtcpInv'
  <2>1. ASSUME TtcpInv, UNCHANGED ttcpVars
        PROVE  TtcpInv'
    BY <2>1 DEF ttcpVars, TtcpInv, TtcpSurvives, At
  <2> QED
    BY <2>1, ClientsKeep, ServerKeepsInv DEF TtcpNext
<1>3. TtcpInv => TtcpCounts /\ TtcpSurvives
  BY InvCounts DEF TtcpInv
<1> QED
  BY <1>1, <1>2, <1>3, PTL DEF TtcpSpec

-----------------------------------------------------------------------------
(***************************************************************************)
(* Singletons.  What each class knows of its threads: those of Singleton1  *)
(* make more than one object only after two have found null together, those*)
(* that lock are alone between the lock and its release, and whoever is    *)
(* about to return has seen an object.                                     *)
(***************************************************************************)
SinPlaces == {"outside", "check", "lock", "locked", "new", "unlock", "return"}
WithinLock == {"locked", "new", "unlock"}

SinTypes ==
  /\ singleton \in Lazy \cup Eager /\ raced \in BOOLEAN
  /\ created \in Nat /\ instance = created
  /\ inCall \in [SinThreads -> SinPlaces]
  /\ got \in [SinThreads -> Nat] /\ \A t \in SinThreads : got[t] <= created

\* Singleton1: unless there was a race, one thread at most makes an object, and
\* none does when there is one.
UnlockedInv ==
  singleton = "Singleton1" =>
    \A t \in SinThreads :
      /\ inCall[t] \in {"outside", "check", "new", "return"}
      /\ inCall[t] = "return" => created > 0
      /\ ~raced /\ inCall[t] = "new" => created = 0 /\ \A u \in SinThreads : inCall[u] = "new" => u = t

\* Singlenton2 and Singleton3: who is within the lock holds it.
LockedInv ==
  singleton \in {"Singlenton2", "Singleton3"} =>
    \A t \in SinThreads :
      /\ inCall[t] \in WithinLock => syncobj = t
      /\ inCall[t] = "new" => created = 0
      /\ inCall[t] \in {"unlock", "return"} => created > 0

EagerInv == singleton \in Eager => \A t \in SinThreads : inCall[t] \in {"outside", "return"}

SinInv ==
  /\ SinTypes /\ UnlockedInv /\ LockedInv /\ EagerInv
  /\ singleton # "Singleton1" \/ ~raced => created <= 1

\* A step keeps the types.
LEMMA SinTypesKept == SinTypes /\ [SinNext]_sinVars => SinTypes'
<1> SUFFICES ASSUME SinTypes, [SinNext]_sinVars PROVE SinTypes'
  OBVIOUS
<1> USE DEF SinTypes, SinPlaces, Advances
<1>1. ASSUME NEW t \in SinThreads, Ask(t) PROVE SinTypes'
  BY <1>1 DEF Ask
<1>2. ASSUME NEW t \in SinThreads, Check(t) PROVE SinTypes'
  <2>1. raced' \in BOOLEAN
    BY <1>2 DEF Check
  <2> QED
    BY <1>2, <2>1 DEF Check
<1>3. ASSUME NEW t \in SinThreads, Lock(t) \/ CheckLocked(t) \/ Unlock(t) PROVE SinTypes'
  BY <1>3 DEF Lock, CheckLocked, Unlock
<1>4. ASSUME NEW t \in SinThreads, New(t) PROVE SinTypes'
  BY <1>4 DEF New
<1>5. ASSUME TypeInit PROVE SinTypes'
  <2>1. /\ created' = created + 1 /\ instance' = created + 1
        /\ singleton' = singleton /\ raced' = raced /\ inCall' = inCall /\ got' = got
    BY <1>5 DEF TypeInit
  <2> QED
    BY <2>1
<1>6. ASSUME NEW t \in SinThreads, Return(t) PROVE SinTypes'
  BY <1>6 DEF Return
<1>7. ASSUME UNCHANGED sinVars PROVE SinTypes'
  BY <1>7 DEF sinVars
<1> QED
  BY <1>1, <1>2, <1>3, <1>4, <1>5, <1>6, <1>7 DEF SinNext

\* A step keeps the rest.
LEMMA SinStep == SinInv /\ [SinNext]_sinVars => SinInv'
<1> SUFFICES ASSUME SinInv, [SinNext]_sinVars PROVE SinInv'
  OBVIOUS
<1>1. SinTypes' /\ singleton' = singleton
  BY SinTypesKept DEF SinInv, SinNext, Ask, Check, Lock, CheckLocked, New, Unlock, TypeInit, Return, sinVars
<1> DEFINE Rest == UnlockedInv /\ LockedInv /\ EagerInv /\ (singleton # "Singleton1" \/ ~raced => created <= 1)
<1> SUFFICES Rest'
  BY <1>1 DEF SinInv
<1> USE SinAssumption DEF SinInv, SinTypes, UnlockedInv, LockedInv, EagerInv, Lazy, Eager, Advances, WithinLock, NullInstance
<1>2. ASSUME NEW t \in SinThreads, Ask(t) PROVE Rest'
  BY <1>2 DEF Ask
<1>3. ASSUME NEW t \in SinThreads, Check(t) PROVE Rest'
  <2>1. CASE singleton = "Singleton1"
    <3>1. ASSUME NEW u \in SinThreads, ~raced', inCall'[u] = "new"
          PROVE  created' = 0 /\ \A w \in SinThreads : inCall'[w] = "new" => w = u
      BY <1>3, <2>1, <3>1 DEF Check
    <3>2. ASSUME NEW u \in SinThreads
          PROVE  /\ inCall'[u] \in {"outside", "check", "new", "return"}
                 /\ inCall'[u] = "return" => created' > 0
      BY <1>3, <2>1 DEF Check
    <3> QED
      BY <1>1, <1>3, <2>1, <3>1, <3>2 DEF Check
  <2>2. CASE singleton # "Singleton1"
    BY <1>3, <2>2 DEF Check
  <2> QED
    BY <2>1, <2>2
<1>4. ASSUME NEW t \in SinThreads, Lock(t) PROVE Rest'
  BY <1>4 DEF Lock
<1>5. ASSUME NEW t \in SinThreads, CheckLocked(t) PROVE Rest'
  BY <1>5 DEF CheckLocked
<1>6. ASSUME NEW t \in SinThreads, New(t) PROVE Rest'
  BY <1>6 DEF New
<1>7. ASSUME NEW t \in SinThreads, Unlock(t) PROVE Rest'
  <2>1. /\ inCall[t] = "unlock" /\ inCall' = [inCall EXCEPT ![t] = "return"] /\ syncobj' = Unlocked
        /\ created' = created /\ singleton' = singleton /\ raced' = raced
    BY <1>7 DEF Unlock
  <2>2. ASSUME NEW u \in SinThreads
        PROVE  inCall'[u] = IF u = t THEN "return" ELSE inCall[u]
    BY <2>1
  <2>3. CASE singleton \in {"Singlenton2", "Singleton3"}
    <3>1. ASSUME NEW u \in SinThreads PROVE inCall'[u] \notin WithinLock
      BY <2>1, <2>2, <2>3
    <3> QED
      BY <2>1, <2>2, <2>3, <3>1
  <2>4. CASE singleton \notin {"Singlenton2", "Singleton3"}
    BY <1>1, <2>1, <2>4
  <2> QED
    BY <2>3, <2>4
<1>8. ASSUME TypeInit PROVE Rest'
  <2>1. created' = created + 1 /\ instance = 0
    BY <1>8 DEF TypeInit
  <2>2. singleton \in Eager /\ singleton' = singleton /\ inCall' = inCall
    BY <1>8 DEF TypeInit
  <2>3. created' = 1
    BY <2>1
  <2> QED
    BY <2>2, <2>3
<1>9. ASSUME NEW t \in SinThreads, Return(t) PROVE Rest'
  BY <1>9 DEF Return
<1>10. ASSUME UNCHANGED sinVars PROVE Rest'
  BY <1>10 DEF sinVars
<1> QED
  BY <1>2, <1>3, <1>4, <1>5, <1>6, <1>7, <1>8, <1>9, <1>10 DEF SinNext

\* Five ways to make a singleton, for any threads: all who ask are given one
\* object, except of Singleton1 after two threads have found null together.
THEOREM OneInstanceOnly == SinSpec => []OneInstance
<1>1. ASSUME SinInit PROVE SinInv
  <2>1. SinTypes /\ created = 0
    <3>1. raced \in BOOLEAN /\ singleton \in Lazy \cup Eager
      BY <1>1 DEF SinInit
    <3>2. got \in [SinThreads -> {0}] /\ inCall \in [SinThreads -> {"outside"}] /\ created = 0 /\ instance = 0
      BY <1>1 DEF SinInit, NullInstance
    <3> QED
      BY <3>1, <3>2 DEF SinTypes, SinPlaces
  <2>2. \A t \in SinThreads : inCall[t] = "outside"
    BY <1>1 DEF SinInit
  <2> QED
    BY <2>1, <2>2 DEF SinInv, UnlockedInv, LockedInv, EagerInv, WithinLock
<1>2. SinInv => OneInstance
  BY DEF SinInv, SinTypes, UnlockedInv, LockedInv, OneInstance, Lazy, NullInstance
<1> QED
  BY <1>1, <1>2, SinStep, PTL DEF SinSpec

-----------------------------------------------------------------------------
\* Items and messages find those who wait for them, for any programs of
\* yieldo.py and any clients and servers of ttcp, and any threads find the same
\* singleton.
THEOREM DeliveriesCount == YieSpec /\ TtcpSpec /\ SinSpec => []DeliveriesAgree
BY PutWakesEnough, TtcpSafe, OneInstanceOnly, PTL DEF DeliveriesAgree

-----------------------------------------------------------------------------
(***************************************************************************)
(* Vectors: elements of sequences, and what the operations make of cells.  *)
(***************************************************************************)

\* n copies of a value.
LEMMA TimesSeq ==
  ASSUME NEW S, NEW n \in Nat, NEW v \in S
  PROVE  /\ Times(n, v) \in Seq(S) /\ Len(Times(n, v)) = n
         /\ \A k \in Nat : 1 <= k /\ k <= n => Times(n, v)[k] = v
BY DEF Times

-----------------------------------------------------------------------------
\* The elements m with n times v put in behind the first i.
Inserted(m, i, n, v) == Slice(m, 0, i) \o Times(n, v) \o Slice(m, i, Len(m))

\* The sequence with n copies inserted at i ...
LEMMA InsertedSeq ==
  ASSUME NEW m \in Seq(VecElems), NEW i \in Nat, i <= Len(m), NEW n \in Nat, NEW v \in VecElems
  PROVE  Inserted(m, i, n, v) \in Seq(VecElems) /\ Len(Inserted(m, i, n, v)) = Len(m) + n
<1>0. Len(m) \in Nat
  OBVIOUS
<1>1. PICK low \in Seq(VecElems) : low = Slice(m, 0, i) /\ Len(low) = i
  <2>1. Slice(m, 0, i) \in Seq(VecElems) /\ Len(Slice(m, 0, i)) = i
    BY DEF Slice
  <2> QED
    BY <2>1
<1>2. PICK new \in Seq(VecElems) : new = Times(n, v) /\ Len(new) = n
  BY TimesSeq
<1>3. PICK up \in Seq(VecElems) : up = Slice(m, i, Len(m)) /\ Len(up) = Len(m) - i
  <2>1. Slice(m, i, Len(m)) \in Seq(VecElems) /\ Len(Slice(m, i, Len(m))) = Len(m) - i
    BY DEF Slice
  <2> QED
    BY <2>1
<1>4. low \o new \o up \in Seq(VecElems) /\ Len(low \o new \o up) = Len(m) + n
  BY <1>0, <1>1, <1>2, <1>3
<1> QED
  BY <1>1, <1>2, <1>3, <1>4 DEF Inserted

\* The element at place k after that.
ElementAfter(m, i, n, v, k) == IF k <= i THEN m[k] ELSE IF k <= i + n THEN v ELSE m[k - n]

\* ... and its element at k.
LEMMA InsertedAt ==
  ASSUME NEW m \in Seq(VecElems), NEW i \in Nat, i <= Len(m), NEW n \in Nat, NEW v \in VecElems,
         NEW k \in Nat, 1 <= k, k <= Len(m) + n
  PROVE  Inserted(m, i, n, v)[k] = ElementAfter(m, i, n, v, k)
<1>0. Len(m) \in Nat
  OBVIOUS
<1>1. PICK low \in Seq(VecElems) : low = Slice(m, 0, i) /\ Len(low) = i
  <2>1. Slice(m, 0, i) \in Seq(VecElems) /\ Len(Slice(m, 0, i)) = i
    BY DEF Slice
  <2> QED
    BY <2>1
<1>2. PICK new \in Seq(VecElems) : new = Times(n, v) /\ Len(new) = n
  BY TimesSeq
<1>3. PICK up \in Seq(VecElems) : up = Slice(m, i, Len(m)) /\ Len(up) = Len(m) - i
  <2>1. Slice(m, i, Len(m)) \in Seq(VecElems) /\ Len(Slice(m, i, Len(m))) = Len(m) - i
    BY DEF Slice
  <2> QED
    BY <2>1
<1>4. PICK all \in Seq(VecElems) : all = low \o new \o up /\ all = Inserted(m, i, n, v)
  <2>1. Inserted(m, i, n, v) = low \o new \o up
    BY <1>1, <1>2, <1>3, Zenon DEF Inserted
  <2>2. Inserted(m, i, n, v) \in Seq(VecElems)
    BY InsertedSeq
  <2> QED
    BY <2>1, <2>2, Zenon
<1>5. CASE k <= i
  <2>1. all[k] = low[k]
    BY <1>1, <1>2, <1>4, <1>5
  <2>2. low[k] = m[k]
    BY <1>1, <1>5 DEF Slice
  <2> QED
    BY <1>4, <1>5, <2>1, <2>2 DEF ElementAfter
<1>6. CASE i < k /\ k <= i + n
  <2>0. PICK j \in Nat : k = i + j /\ 1 <= j /\ j <= n
    BY <1>6
  <2>1. all[Len(low) + j] = new[j]
    <3>1. (low \o new \o up)[Len(low) + j] = new[j]
      BY <1>2, <2>0
    <3> QED
      BY <1>4, <3>1, Zenon
  <2>2. new[j] = v
    BY <1>2, <2>0, TimesSeq
  <2> QED
    BY <1>1, <1>4, <1>6, <2>0, <2>1, <2>2 DEF ElementAfter
<1>7. CASE i + n < k
  <2>0. PICK j \in Nat : k = i + n + j /\ 1 <= j /\ j <= Len(m) - i /\ i + j = k - n
    BY <1>0, <1>7
  <2>1. all[Len(low) + Len(new) + j] = up[j]
    <3>1. (low \o new \o up)[Len(low) + Len(new) + j] = up[j]
      BY <1>3, <2>0
    <3> QED
      BY <1>4, <3>1, Zenon
  <2>2. up[j] = m[i + j]
    BY <1>0, <1>3, <2>0 DEF Slice
  <2> QED
    BY <1>1, <1>2, <1>4, <1>7, <2>0, <2>1, <2>2 DEF ElementAfter
<1> QED
  BY <1>5, <1>6, <1>7

\* The same as a predicate, which a step can cite by its name.
IsInserted(w, m, i, n, v) ==
  /\ w \in Seq(VecElems) /\ Len(w) = Len(m) + n
  /\ \A k \in Nat : 1 <= k /\ k <= Len(m) + n => w[k] = ElementAfter(m, i, n, v, k)

\* Inserting gives what the predicate says.
LEMMA InsertedIs ==
  ASSUME NEW m \in Seq(VecElems), NEW i \in Nat, i <= Len(m), NEW n \in Nat, NEW v \in VecElems
  PROVE  IsInserted(Inserted(m, i, n, v), m, i, n, v)
<1>1. Inserted(m, i, n, v) \in Seq(VecElems) /\ Len(Inserted(m, i, n, v)) = Len(m) + n
  BY InsertedSeq, Zenon
<1>2. ASSUME NEW k \in Nat, 1 <= k, k <= Len(m) + n
      PROVE  Inserted(m, i, n, v)[k] = ElementAfter(m, i, n, v, k)
  BY <1>2, InsertedAt, Zenon
<1> QED
  BY <1>1, <1>2, Zenon DEF IsInserted

-----------------------------------------------------------------------------
(***************************************************************************)
(* What the operations on memory make of a cell.                           *)
(***************************************************************************)

\* s has the n cells behind the first a of c.
IsSlice(s, c, a, n) ==
  /\ s \in Seq(CellContents) /\ Len(s) = n
  /\ \A k \in Nat : 1 <= k /\ k <= n => s[k] = c[a + k]

\* A slice of the cells,
LEMMA SliceIs ==
  ASSUME NEW c \in Seq(CellContents), NEW a \in Nat, NEW b \in Nat, NEW n \in Nat, a + n = b, b <= Len(c)
  PROVE  IsSlice(Slice(c, a, b), c, a, n)
<1>1. Slice(c, a, b) \in Seq(CellContents) /\ Len(Slice(c, a, b)) = n
  BY DEF Slice
<1>2. ASSUME NEW k \in Nat, 1 <= k, k <= n
      PROVE  Slice(c, a, b)[k] = c[a + k]
  BY <1>2 DEF Slice
<1> QED
  BY <1>1, <1>2 DEF IsSlice

\* s is n times x.
IsRun(s, n, x) ==
  /\ s \in Seq(CellContents) /\ Len(s) = n
  /\ \A k \in Nat : 1 <= k /\ k <= n => s[k] = x

\* a run of equal cells,
LEMMA TimesIs ==
  ASSUME NEW n \in Nat, NEW x \in CellContents
  PROVE  IsRun(Times(n, x), n, x)
BY DEF Times, IsRun

\* d is c of l cells, where s has been constructed in the raw cells between
\* a and b.
IsConstructed(d, c, l, a, b, s) ==
  /\ d \in Seq(CellContents) /\ Len(d) = l
  /\ \A k \in Nat : 1 <= k /\ k <= l =>
       /\ a < k /\ k <= b /\ c[k] = NoElement => d[k] = s[k - a]
       /\ ~(a < k /\ k <= b) => d[k] = c[k]

\* cells constructed from values,
LEMMA ConstructIs ==
  ASSUME NEW c \in Seq(CellContents), NEW l \in Nat, Len(c) = l, NEW s \in Seq(CellContents),
         NEW a \in Nat, NEW b \in Nat, a + Len(s) = b
  PROVE  IsConstructed(Construct(c, a, s), c, l, a, b, s)
<1>1. ASSUME NEW k \in Nat, 1 <= k, k <= l
      PROVE  /\ a < k /\ k <= b /\ c[k] = NoElement => Construct(c, a, s)[k] = s[k - a]
             /\ ~(a < k /\ k <= b) => Construct(c, a, s)[k] = c[k]
             /\ Construct(c, a, s)[k] \in CellContents
  BY <1>1 DEF Construct, Within, CellContents
<1>2. Construct(c, a, s) \in [1 .. l -> CellContents]
  BY <1>1 DEF Construct
<1>3. Construct(c, a, s) \in Seq(CellContents) /\ Len(Construct(c, a, s)) = l
  BY <1>2
<1> QED
  BY <1>1, <1>3 DEF IsConstructed

\* d is c of l cells, where s has been assigned to the elements between a and b.
IsAssigned(d, c, l, a, b, s) ==
  /\ d \in Seq(CellContents) /\ Len(d) = l
  /\ \A k \in Nat : 1 <= k /\ k <= l =>
       /\ a < k /\ k <= b /\ c[k] # NoElement => d[k] = s[k - a]
       /\ ~(a < k /\ k <= b) => d[k] = c[k]

\* cells assigned over constructed ones,
LEMMA AssignIs ==
  ASSUME NEW c \in Seq(CellContents), NEW l \in Nat, Len(c) = l, NEW s \in Seq(CellContents),
         NEW a \in Nat, NEW b \in Nat, a + Len(s) = b
  PROVE  IsAssigned(AssignOver(c, a, s), c, l, a, b, s)
<1>1. ASSUME NEW k \in Nat, 1 <= k, k <= l
      PROVE  /\ a < k /\ k <= b /\ c[k] # NoElement => AssignOver(c, a, s)[k] = s[k - a]
             /\ ~(a < k /\ k <= b) => AssignOver(c, a, s)[k] = c[k]
             /\ AssignOver(c, a, s)[k] \in CellContents
  BY <1>1 DEF AssignOver, Within, CellContents
<1>2. AssignOver(c, a, s) \in [1 .. l -> CellContents]
  BY <1>1 DEF AssignOver
<1>3. AssignOver(c, a, s) \in Seq(CellContents) /\ Len(AssignOver(c, a, s)) = l
  BY <1>2
<1> QED
  BY <1>1, <1>3 DEF IsAssigned

\* d is c of l cells, without the elements between a and b.
IsDestroyed(d, c, l, a, b) ==
  /\ d \in Seq(CellContents) /\ Len(d) = l
  /\ \A k \in Nat : 1 <= k /\ k <= l => d[k] = IF a < k /\ k <= b THEN NoElement ELSE c[k]

\* and cells that are destroyed, each cell by cell.
LEMMA DestroyIs ==
  ASSUME NEW c \in Seq(CellContents), NEW l \in Nat, Len(c) = l, NEW a \in Nat, NEW b \in Nat
  PROVE  IsDestroyed(destroy(c, a, b), c, l, a, b)
<1>1. ASSUME NEW k \in Nat, 1 <= k, k <= l
      PROVE  /\ destroy(c, a, b)[k] = IF a < k /\ k <= b THEN NoElement ELSE c[k]
             /\ destroy(c, a, b)[k] \in CellContents
  BY <1>1 DEF destroy, CellContents
<1>2. destroy(c, a, b) \in [1 .. l -> CellContents]
  BY <1>1 DEF destroy
<1>3. destroy(c, a, b) \in Seq(CellContents) /\ Len(destroy(c, a, b)) = l
  BY <1>2
<1> QED
  BY <1>1, <1>3 DEF IsDestroyed

-----------------------------------------------------------------------------
(***************************************************************************)
(* insert.                                                                 *)
(***************************************************************************)

\* Memory c holds the elements m: they come first, nothing lives behind them.
Holds(c, m) ==
  /\ c \in Seq(CellContents) /\ m \in Seq(VecElems) /\ Len(m) <= Len(c)
  /\ \A k \in Nat : 1 <= k /\ k <= Len(c) => c[k] = IF k <= Len(m) THEN m[k] ELSE NoElement

\* The same, cell by cell, for f elements in l cells.
Cellwise(c, l, m, f) ==
  /\ c \in Seq(CellContents) /\ m \in Seq(VecElems) /\ Len(m) = f /\ Len(c) = l /\ f <= l
  /\ \A k \in Nat : 1 <= k /\ k <= l =>
       /\ k <= f => c[k] = m[k] /\ m[k] # NoElement
       /\ k > f => c[k] = NoElement

\* Cell by cell is the same as slice by slice.
LEMMA HoldsCellwise ==
  ASSUME NEW c, NEW m, NEW l \in Nat, NEW f \in Nat, Len(m) = f, Len(c) = l
  PROVE  Holds(c, m) <=> Cellwise(c, l, m, f)
<1>1. ASSUME Holds(c, m), NEW k \in Nat, 1 <= k, k <= f
      PROVE  m[k] # NoElement
  BY <1>1, VecAssumption DEF Holds
<1>2. Holds(c, m) => Cellwise(c, l, m, f)
  BY <1>1 DEF Holds, Cellwise
<1>3. Cellwise(c, l, m, f) => Holds(c, m)
  BY DEF Holds, Cellwise
<1> QED
  BY <1>2, <1>3

\* insert with room, more elements behind the position than new ones,
LEMMA ManyInserted ==
  ASSUME NEW c, NEW m, NEW f \in Nat, NEW l \in Nat, Cellwise(c, l, m, f),
         NEW position \in Nat, NEW n \in Nat, NEW v \in VecElems, position + n < f, f + n <= l,
         cells = c, finish = f
  PROVE  Cellwise(InsertAmongMany(position, n, v), l, Inserted(m, position, n, v), f + n)
<1>0. /\ c \in Seq(CellContents) /\ m \in Seq(VecElems) /\ Len(m) = f /\ Len(c) = l
      /\ v \in CellContents
  BY DEF Cellwise, CellContents
<1>1. PICK low \in Nat, pn \in Nat, r \in Nat, fn \in Nat :
        /\ low = f - n /\ low + n = f /\ pn = position + n /\ fn = f + n
        /\ position + r = low /\ pn + r = f
  <2>1. f - n \in Nat /\ f - n - position \in Nat
    OBVIOUS
  <2> QED
    BY <2>1
<1>2. PICK high : high = Slice(c, low, f) /\ IsSlice(high, c, low, n)
  BY <1>0, <1>1, SliceIs
<1>3. PICK mid : mid = Slice(c, position, low) /\ IsSlice(mid, c, position, r)
  BY <1>0, <1>1, SliceIs
<1>4. PICK up : up = Construct(c, f, high) /\ IsConstructed(up, c, l, f, fn, high)
  BY <1>0, <1>1, <1>2, ConstructIs DEF IsSlice
<1>5. PICK over : over = AssignOver(up, pn, mid) /\ IsAssigned(over, up, l, pn, f, mid)
  BY <1>1, <1>3, <1>4, AssignIs DEF IsSlice, IsConstructed
<1>6. PICK run : run = Times(n, v) /\ IsRun(run, n, v)
  BY <1>0, TimesIs
<1>7. PICK new : new = AssignOver(over, position, run) /\ IsAssigned(new, over, l, position, pn, run)
  BY <1>1, <1>5, <1>6, AssignIs DEF IsRun, IsAssigned
<1>8. new = InsertAmongMany(position, n, v)
  BY <1>1, <1>2, <1>3, <1>4, <1>5, <1>6, <1>7, Zenon DEF InsertAmongMany
<1>9. PICK w : w = Inserted(m, position, n, v) /\ IsInserted(w, m, position, n, v)
  <2>1. position <= Len(m)
    BY <1>0
  <2> QED
    BY <1>0, <2>1, InsertedIs
<1>10. ASSUME NEW k \in Nat, 1 <= k, k <= l
       PROVE  /\ k <= fn => new[k] = w[k]
              /\ k > fn => new[k] = NoElement
  <2>0. \A i \in Nat : 1 <= i /\ i <= l => /\ i <= f => c[i] = m[i] /\ c[i] # NoElement
                                           /\ i > f => c[i] = NoElement
    BY DEF Cellwise
  <2>1. k <= fn => w[k] = ElementAfter(m, position, n, v, k)
    BY <1>0, <1>1, <1>9, <1>10 DEF IsInserted
  <2>2. /\ k <= f => c[k] = m[k] /\ c[k] # NoElement
        /\ k > f => c[k] = NoElement
    BY <1>10, <2>0
  <2>3. /\ f < k /\ k <= fn /\ c[k] = NoElement => up[k] = high[k - f]
        /\ ~(f < k /\ k <= fn) => up[k] = c[k]
    BY <1>4, <1>10 DEF IsConstructed
  <2>4. /\ pn < k /\ k <= f /\ up[k] # NoElement => over[k] = mid[k - pn]
        /\ ~(pn < k /\ k <= f) => over[k] = up[k]
    BY <1>5, <1>10 DEF IsAssigned
  <2>5. /\ position < k /\ k <= pn /\ over[k] # NoElement => new[k] = run[k - position]
        /\ ~(position < k /\ k <= pn) => new[k] = over[k]
    BY <1>7, <1>10 DEF IsAssigned
  <2>6. CASE k <= position
    BY <1>1, <2>1, <2>2, <2>3, <2>4, <2>5, <2>6 DEF ElementAfter
  <2>7. CASE position < k /\ k <= pn
    <3>1. PICK j \in Nat : j = k - position /\ 1 <= j /\ j <= n
      BY <1>1, <2>7
    <3>2. new[k] = run[j]
      BY <1>1, <2>2, <2>3, <2>4, <2>5, <2>7, <3>1
    <3>3. run[j] = v
      BY <1>6, <3>1 DEF IsRun
    <3> QED
      BY <1>1, <2>1, <2>7, <3>2, <3>3 DEF ElementAfter
  <2>8. CASE pn < k /\ k <= f
    <3>1. PICK j \in Nat, i \in Nat :
            j = k - pn /\ 1 <= j /\ j <= r /\ position + j = i /\ i = k - n /\ 1 <= i /\ i <= f
      BY <1>1, <2>8
    <3>2. new[k] = mid[j]
      BY <1>1, <2>2, <2>3, <2>4, <2>5, <2>8, <3>1
    <3>3. mid[j] = c[i]
      BY <1>3, <3>1 DEF IsSlice
    <3>4. c[i] = m[i]
      <4>1. i <= l
        BY <3>1
      <4> QED
        BY <2>0, <3>1, <4>1
    <3>5. k <= fn /\ ElementAfter(m, position, n, v, k) = m[i]
      BY <1>1, <2>8, <3>1 DEF ElementAfter
    <3> QED
      BY <1>1, <2>1, <2>8, <3>2, <3>3, <3>4, <3>5
  <2>9. CASE f < k /\ k <= fn
    <3>1. PICK j \in Nat, i \in Nat :
            j = k - f /\ 1 <= j /\ j <= n /\ low + j = i /\ i = k - n /\ 1 <= i /\ i <= f
      BY <1>1, <2>9
    <3>2. new[k] = high[j]
      BY <1>1, <2>2, <2>3, <2>4, <2>5, <2>9, <3>1
    <3>3. high[j] = c[i]
      BY <1>2, <3>1 DEF IsSlice
    <3>4. c[i] = m[i]
      <4>1. i <= l
        BY <3>1
      <4> QED
        BY <2>0, <3>1, <4>1
    <3>5. ElementAfter(m, position, n, v, k) = m[i]
      BY <1>1, <2>9, <3>1 DEF ElementAfter
    <3> QED
      BY <1>1, <2>1, <2>9, <3>2, <3>3, <3>4, <3>5
  <2>10. CASE fn < k
    BY <1>1, <2>2, <2>3, <2>4, <2>5, <2>10
  <2> QED
    BY <1>1, <2>6, <2>7, <2>8, <2>9, <2>10
<1>11. Holds(new, w) /\ Len(w) = fn /\ Len(new) = l
  BY <1>0, <1>1, <1>7, <1>9, <1>10 DEF Holds, IsAssigned, IsInserted
<1> QED
  BY <1>1, <1>8, <1>9, <1>11, HoldsCellwise

\* with room, fewer elements behind it,
LEMMA FewInserted ==
  ASSUME NEW c, NEW m, NEW f \in Nat, NEW l \in Nat, Cellwise(c, l, m, f),
         NEW position \in Nat, NEW n \in Nat, NEW v \in VecElems,
         position <= f, position + n >= f, f + n <= l, cells = c, finish = f
  PROVE  Cellwise(InsertAmongFew(position, n, v), l, Inserted(m, position, n, v), f + n)
<1>0. /\ c \in Seq(CellContents) /\ m \in Seq(VecElems) /\ Len(m) = f /\ Len(c) = l
      /\ v \in CellContents
  BY DEF Cellwise, CellContents
<1>1. PICK t \in Nat, pn \in Nat, r \in Nat, fn \in Nat :
        /\ r = f - position /\ position + r = f /\ pn = position + n /\ fn = f + n
        /\ t = n - r /\ f + t = pn /\ pn + r = fn
  <2>1. f - position \in Nat /\ n - (f - position) \in Nat
    OBVIOUS
  <2> QED
    BY <2>1
<1>2. PICK extra : extra = Times(t, v) /\ IsRun(extra, t, v)
  BY <1>0, TimesIs
<1>3. PICK more : more = Construct(c, f, extra) /\ IsConstructed(more, c, l, f, pn, extra)
  BY <1>0, <1>1, <1>2, ConstructIs DEF IsRun
<1>4. PICK mid : mid = Slice(c, position, f) /\ IsSlice(mid, c, position, r)
  BY <1>0, <1>1, SliceIs
<1>5. PICK up : up = Construct(more, pn, mid) /\ IsConstructed(up, more, l, pn, fn, mid)
  <2>1. /\ more \in Seq(CellContents) /\ Len(more) = l
        /\ mid \in Seq(CellContents) /\ pn + Len(mid) = fn
    BY <1>1, <1>3, <1>4 DEF IsSlice, IsConstructed
  <2> QED
    BY <2>1, ConstructIs
<1>6. PICK run : run = Times(r, v) /\ IsRun(run, r, v)
  BY <1>0, TimesIs
<1>7. PICK new : new = AssignOver(up, position, run) /\ IsAssigned(new, up, l, position, f, run)
  BY <1>1, <1>5, <1>6, AssignIs DEF IsRun, IsConstructed
<1>8. new = InsertAmongFew(position, n, v)
  BY <1>1, <1>2, <1>3, <1>4, <1>5, <1>6, <1>7, Zenon DEF InsertAmongFew
<1>9. PICK w : w = Inserted(m, position, n, v) /\ IsInserted(w, m, position, n, v)
  <2>1. position <= Len(m)
    BY <1>0
  <2> QED
    BY <1>0, <2>1, InsertedIs
<1>10. ASSUME NEW k \in Nat, 1 <= k, k <= l
       PROVE  /\ k <= fn => new[k] = w[k]
              /\ k > fn => new[k] = NoElement
  <2>0. \A i \in Nat : 1 <= i /\ i <= l => /\ i <= f => c[i] = m[i] /\ c[i] # NoElement
                                           /\ i > f => c[i] = NoElement
    BY DEF Cellwise
  <2>1. k <= fn => w[k] = ElementAfter(m, position, n, v, k)
    BY <1>0, <1>1, <1>9, <1>10 DEF IsInserted
  <2>2. /\ k <= f => c[k] = m[k] /\ c[k] # NoElement
        /\ k > f => c[k] = NoElement
    BY <1>10, <2>0
  <2>3. /\ f < k /\ k <= pn /\ c[k] = NoElement => more[k] = extra[k - f]
        /\ ~(f < k /\ k <= pn) => more[k] = c[k]
    BY <1>3, <1>10 DEF IsConstructed
  <2>4. /\ pn < k /\ k <= fn /\ more[k] = NoElement => up[k] = mid[k - pn]
        /\ ~(pn < k /\ k <= fn) => up[k] = more[k]
    BY <1>5, <1>10 DEF IsConstructed
  <2>5. /\ position < k /\ k <= f /\ up[k] # NoElement => new[k] = run[k - position]
        /\ ~(position < k /\ k <= f) => new[k] = up[k]
    BY <1>7, <1>10 DEF IsAssigned
  <2>6. CASE k <= position
    BY <1>1, <2>1, <2>2, <2>3, <2>4, <2>5, <2>6 DEF ElementAfter
  <2>7. CASE position < k /\ k <= f
    <3>1. PICK j \in Nat : j = k - position /\ 1 <= j /\ j <= r
      BY <1>1, <2>7
    <3>2. new[k] = run[j]
      BY <1>1, <2>2, <2>3, <2>4, <2>5, <2>7, <3>1
    <3>3. run[j] = v
      BY <1>6, <3>1 DEF IsRun
    <3> QED
      BY <1>1, <2>1, <2>7, <3>2, <3>3 DEF ElementAfter
  <2>8. CASE f < k /\ k <= pn
    <3>1. PICK j \in Nat : j = k - f /\ 1 <= j /\ j <= t
      BY <1>1, <2>8
    <3>2. new[k] = extra[j]
      BY <1>1, <2>2, <2>3, <2>4, <2>5, <2>8, <3>1
    <3>3. extra[j] = v
      BY <1>2, <3>1 DEF IsRun
    <3> QED
      BY <1>1, <2>1, <2>8, <3>2, <3>3 DEF ElementAfter
  <2>9. CASE pn < k /\ k <= fn
    <3>1. PICK j \in Nat, i \in Nat :
            j = k - pn /\ 1 <= j /\ j <= r /\ position + j = i /\ i = k - n /\ 1 <= i /\ i <= f
      BY <1>1, <2>9
    <3>2. new[k] = mid[j]
      BY <1>1, <2>2, <2>3, <2>4, <2>5, <2>9, <3>1
    <3>3. mid[j] = c[i]
      BY <1>4, <3>1 DEF IsSlice
    <3>4. c[i] = m[i]
      <4>1. i <= l
        BY <3>1
      <4> QED
        BY <2>0, <3>1, <4>1
    <3>5. ElementAfter(m, position, n, v, k) = m[i]
      BY <1>1, <2>9, <3>1 DEF ElementAfter
    <3> QED
      BY <1>1, <2>1, <2>9, <3>2, <3>3, <3>4, <3>5
  <2>10. CASE fn < k
    BY <1>1, <2>2, <2>3, <2>4, <2>5, <2>10
  <2> QED
    BY <1>1, <2>6, <2>7, <2>8, <2>9, <2>10
<1>11. Holds(new, w) /\ Len(w) = fn /\ Len(new) = l
  BY <1>0, <1>1, <1>7, <1>9, <1>10 DEF Holds, IsAssigned, IsInserted
<1> QED
  BY <1>1, <1>8, <1>9, <1>11, HoldsCellwise

\* and without room, into memory of its own.
LEMMA ElsewhereInserted ==
  ASSUME NEW c, NEW m, NEW f \in Nat, NEW l \in Nat, Cellwise(c, l, m, f),
         NEW position \in Nat, NEW n \in Nat, NEW v \in VecElems, position <= f,
         cells = c, finish = f
  PROVE  \E len \in Nat :
           Cellwise(InsertElsewhere(position, n, v), len, Inserted(m, position, n, v), f + n)
<1>0. /\ c \in Seq(CellContents) /\ m \in Seq(VecElems) /\ Len(m) = f /\ Len(c) = l /\ f <= l
      /\ v \in CellContents /\ NoElement \in CellContents
  BY DEF Cellwise, CellContents
<1>1. PICK len \in Nat, pn \in Nat, r \in Nat, fn \in Nat, zero \in Nat :
        /\ len = f + Larger(f, n) /\ fn = f + n /\ fn <= len /\ position <= fn
        /\ r = f - position /\ position + r = f /\ pn = position + n /\ pn + r = fn
        /\ zero = 0 /\ zero + position = position
  <2>1. f - position \in Nat /\ f + Larger(f, n) \in Nat /\ f + n <= f + Larger(f, n)
    BY DEF Larger
  <2> QED
    BY <2>1
<1>2. PICK empty : empty = allocate(len) /\ IsRun(empty, len, NoElement)
  BY <1>0, TimesIs DEF allocate
<1>3. PICK first : first = Slice(c, zero, position) /\ IsSlice(first, c, zero, position)
  BY <1>0, <1>1, SliceIs
<1>4. PICK low : low = Construct(empty, zero, first) /\ IsConstructed(low, empty, len, zero, position, first)
  BY <1>1, <1>2, <1>3, ConstructIs DEF IsRun, IsSlice
<1>5. PICK run : run = Times(n, v) /\ IsRun(run, n, v)
  BY <1>0, TimesIs
<1>6. PICK mid : mid = Construct(low, position, run) /\ IsConstructed(mid, low, len, position, pn, run)
  <2>1. /\ low \in Seq(CellContents) /\ Len(low) = len
        /\ run \in Seq(CellContents) /\ position + Len(run) = pn
    BY <1>1, <1>4, <1>5 DEF IsRun, IsConstructed
  <2> QED
    BY <2>1, ConstructIs
<1>7. PICK last : last = Slice(c, position, f) /\ IsSlice(last, c, position, r)
  BY <1>0, <1>1, SliceIs
<1>8. PICK new : new = Construct(mid, pn, last) /\ IsConstructed(new, mid, len, pn, fn, last)
  <2>1. /\ mid \in Seq(CellContents) /\ Len(mid) = len
        /\ last \in Seq(CellContents) /\ pn + Len(last) = fn
    BY <1>1, <1>6, <1>7 DEF IsSlice, IsConstructed
  <2> QED
    BY <2>1, ConstructIs
<1>9. new = InsertElsewhere(position, n, v)
  BY <1>1, <1>2, <1>3, <1>4, <1>5, <1>6, <1>7, <1>8, Zenon DEF InsertElsewhere
<1>10. PICK w : w = Inserted(m, position, n, v) /\ IsInserted(w, m, position, n, v)
  <2>1. position <= Len(m)
    BY <1>0
  <2> QED
    BY <1>0, <2>1, InsertedIs
<1>11. ASSUME NEW k \in Nat, 1 <= k, k <= len
       PROVE  /\ k <= fn => new[k] = w[k]
              /\ k > fn => new[k] = NoElement
  <2>0. \A i \in Nat : 1 <= i /\ i <= f => c[i] = m[i]
    BY <1>0 DEF Cellwise
  <2>1. k <= fn => w[k] = ElementAfter(m, position, n, v, k)
    BY <1>0, <1>1, <1>10, <1>11 DEF IsInserted
  <2>2. empty[k] = NoElement
    BY <1>2, <1>11 DEF IsRun
  <2>3. /\ zero < k /\ k <= position /\ empty[k] = NoElement => low[k] = first[k - zero]
        /\ ~(zero < k /\ k <= position) => low[k] = empty[k]
    BY <1>4, <1>11 DEF IsConstructed
  <2>4. /\ position < k /\ k <= pn /\ low[k] = NoElement => mid[k] = run[k - position]
        /\ ~(position < k /\ k <= pn) => mid[k] = low[k]
    BY <1>6, <1>11 DEF IsConstructed
  <2>5. /\ pn < k /\ k <= fn /\ mid[k] = NoElement => new[k] = last[k - pn]
        /\ ~(pn < k /\ k <= fn) => new[k] = mid[k]
    BY <1>8, <1>11 DEF IsConstructed
  <2>6. CASE k <= position
    <3>1. new[k] = first[k]
      BY <1>1, <1>11, <2>2, <2>3, <2>4, <2>5, <2>6
    <3>2. first[k] = c[k]
      BY <1>1, <1>3, <1>11, <2>6 DEF IsSlice
    <3>3. c[k] = m[k]
      BY <1>11, <2>0, <2>6
    <3> QED
      BY <1>1, <2>1, <2>6, <3>1, <3>2, <3>3 DEF ElementAfter
  <2>7. CASE position < k /\ k <= pn
    <3>1. PICK j \in Nat : j = k - position /\ 1 <= j /\ j <= n
      BY <1>1, <2>7
    <3>2. new[k] = run[j]
      BY <1>1, <2>2, <2>3, <2>4, <2>5, <2>7, <3>1
    <3>3. run[j] = v
      BY <1>5, <3>1 DEF IsRun
    <3> QED
      BY <1>1, <2>1, <2>7, <3>2, <3>3 DEF ElementAfter
  <2>8. CASE pn < k /\ k <= fn
    <3>1. PICK j \in Nat, i \in Nat :
            j = k - pn /\ 1 <= j /\ j <= r /\ position + j = i /\ i = k - n /\ 1 <= i /\ i <= f
      BY <1>1, <2>8
    <3>2. new[k] = last[j]
      BY <1>1, <2>2, <2>3, <2>4, <2>5, <2>8, <3>1
    <3>3. last[j] = c[i]
      BY <1>7, <3>1 DEF IsSlice
    <3>4. c[i] = m[i]
      BY <2>0, <3>1
    <3>5. ElementAfter(m, position, n, v, k) = m[i]
      BY <1>1, <2>8, <3>1 DEF ElementAfter
    <3> QED
      BY <1>1, <2>1, <2>8, <3>2, <3>3, <3>4, <3>5
  <2>9. CASE fn < k
    BY <1>1, <1>11, <2>2, <2>3, <2>4, <2>5, <2>9
  <2> QED
    BY <1>1, <2>6, <2>7, <2>8, <2>9
<1>12. Holds(new, w) /\ Len(w) = fn /\ Len(new) = len
  BY <1>0, <1>1, <1>8, <1>10, <1>11 DEF Holds, IsConstructed, IsInserted
<1>13. Cellwise(new, len, w, fn)
  BY <1>12, HoldsCellwise
<1> QED
  BY <1>1, <1>9, <1>10, <1>13

-----------------------------------------------------------------------------
(***************************************************************************)
(* push_back, pop_back, erase.                                             *)
(***************************************************************************)

\* w is the f elements m and v.
IsAppended(w, m, f, v) ==
  /\ w \in Seq(VecElems) /\ Len(w) = f + 1 /\ w[f + 1] = v
  /\ \A k \in Nat : 1 <= k /\ k <= f => w[k] = m[k]

\* Appending gives what the predicate says.
LEMMA AppendedIs ==
  ASSUME NEW m \in Seq(VecElems), NEW f \in Nat, Len(m) = f, NEW v \in VecElems
  PROVE  IsAppended(Append(m, v), m, f, v)
<1>1. Append(m, v) \in Seq(VecElems) /\ Len(Append(m, v)) = f + 1 /\ Append(m, v)[f + 1] = v
  OBVIOUS
<1>2. ASSUME NEW k \in Nat, 1 <= k, k <= f
      PROVE  Append(m, v)[k] = m[k]
  BY <1>2
<1> QED
  BY <1>1, <1>2 DEF IsAppended

\* An element constructed behind the others.
LEMMA PushedInPlace ==
  ASSUME NEW c, NEW m, NEW f \in Nat, NEW l \in Nat, Cellwise(c, l, m, f), f # l, NEW v \in VecElems
  PROVE  Cellwise(Construct(c, f, <<v>>), l, Append(m, v), f + 1)
<1>0. c \in Seq(CellContents) /\ m \in Seq(VecElems) /\ Len(m) = f /\ Len(c) = l /\ f <= l
  BY DEF Cellwise
<1>1. PICK one \in Seq(CellContents) : one = <<v>> /\ Len(one) = 1 /\ one[1] = v
  <2>1. v \in CellContents
    BY DEF CellContents
  <2>2. <<v>> \in Seq(CellContents) /\ Len(<<v>>) = 1 /\ <<v>>[1] = v
    BY <2>1
  <2> QED
    BY <2>2
<1>2. PICK g \in Nat : g = f + 1 /\ g <= l
  BY <1>0
<1>3. PICK new : new = Construct(c, f, one) /\ IsConstructed(new, c, l, f, g, one)
  BY <1>0, <1>1, <1>2, ConstructIs
<1>4. PICK w : w = Append(m, v) /\ IsAppended(w, m, f, v)
  BY <1>0, AppendedIs
<1>5. ASSUME NEW k \in Nat, 1 <= k, k <= l
      PROVE  /\ k <= g => new[k] = w[k]
             /\ k > g => new[k] = NoElement
  <2>1. /\ k <= f => c[k] = m[k]
        /\ k > f => c[k] = NoElement
    BY <1>5 DEF Cellwise
  <2>2. /\ f < k /\ k <= g /\ c[k] = NoElement => new[k] = one[k - f]
        /\ ~(f < k /\ k <= g) => new[k] = c[k]
    BY <1>3, <1>5 DEF IsConstructed
  <2>3. CASE k <= f
    BY <1>2, <1>4, <1>5, <2>1, <2>2, <2>3 DEF IsAppended
  <2>4. CASE k = g
    <3>1. k - f = 1
      BY <1>2, <2>4
    <3> QED
      BY <1>1, <1>2, <1>4, <2>1, <2>2, <2>4, <3>1 DEF IsAppended
  <2>5. CASE k > g
    BY <1>2, <2>1, <2>2, <2>5
  <2> QED
    BY <1>2, <2>3, <2>4, <2>5
<1>6. Holds(new, w) /\ Len(w) = g /\ Len(new) = l
  BY <1>2, <1>3, <1>4, <1>5 DEF Holds, IsConstructed, IsAppended
<1> QED
  BY <1>1, <1>2, <1>3, <1>4, <1>6, HoldsCellwise

\* insert_aux moves the elements and has room for one more.
LEMMA PushedElsewhere ==
  ASSUME NEW c, NEW m, NEW f \in Nat, Cellwise(c, f, m, f), NEW x,
         cells = c, finish = f, Value(x) \in VecElems
  PROVE  \E len \in Nat : Cellwise(insert_aux(x), len, Append(m, Value(x)), f + 1)
<1>0. /\ c \in Seq(CellContents) /\ m \in Seq(VecElems) /\ Len(m) = f /\ Len(c) = f
      /\ NoElement \in CellContents
  BY DEF Cellwise, CellContents
<1>1. PICK len \in Nat, zero \in Nat :
        /\ len = (IF f # 0 THEN 2 * f ELSE 1) /\ f + 1 <= len
        /\ zero = 0 /\ zero + f = f
  OBVIOUS
<1>2. PICK empty : empty = allocate(len) /\ IsRun(empty, len, NoElement)
  BY <1>0, TimesIs DEF allocate
<1>3. PICK old : old = Slice(c, zero, f) /\ IsSlice(old, c, zero, f)
  BY <1>0, <1>1, SliceIs
<1>4. PICK low : low = Construct(empty, zero, old) /\ IsConstructed(low, empty, len, zero, f, old)
  BY <1>1, <1>2, <1>3, ConstructIs DEF IsRun, IsSlice
<1>5. ASSUME NEW k \in Nat, 1 <= k, k <= len
      PROVE  /\ k <= f => low[k] = m[k]
             /\ k > f => low[k] = NoElement
  <2>1. empty[k] = NoElement
    BY <1>2, <1>5 DEF IsRun
  <2>2. /\ zero < k /\ k <= f /\ empty[k] = NoElement => low[k] = old[k - zero]
        /\ ~(zero < k /\ k <= f) => low[k] = empty[k]
    BY <1>4, <1>5 DEF IsConstructed
  <2>3. CASE k <= f
    <3>1. low[k] = old[k]
      BY <1>1, <1>5, <2>1, <2>2, <2>3
    <3>2. old[k] = c[k]
      BY <1>1, <1>3, <1>5, <2>3 DEF IsSlice
    <3>3. c[k] = m[k]
      BY <1>5, <2>3 DEF Cellwise
    <3> QED
      BY <2>3, <3>1, <3>2, <3>3
  <2>4. CASE k > f
    BY <2>1, <2>2, <2>4
  <2> QED
    BY <2>3, <2>4
<1>6. Holds(low, m) /\ Len(low) = len
  BY <1>0, <1>1, <1>4, <1>5 DEF Holds, IsConstructed
<1>7. Cellwise(low, len, m, f)
  BY <1>0, <1>6, HoldsCellwise
<1>8. f # len
  BY <1>1
<1>9. Cellwise(Construct(low, f, <<Value(x)>>), len, Append(m, Value(x)), f + 1)
  BY <1>7, <1>8, PushedInPlace
<1>10. insert_aux(x) = Construct(low, f, <<Value(x)>>)
  BY <1>1, <1>2, <1>3, <1>4, Zenon DEF insert_aux
<1> QED
  BY <1>9, <1>10

\* pop_back: the last cell is destroyed.
LEMMA Popped ==
  ASSUME NEW c, NEW m, NEW f \in Nat, NEW l \in Nat, Cellwise(c, l, m, f), f > 0
  PROVE  Cellwise(destroy(c, f - 1, f), l, SubSeq(m, 1, f - 1), f - 1)
<1>0. c \in Seq(CellContents) /\ m \in Seq(VecElems) /\ Len(m) = f /\ Len(c) = l /\ f <= l
  BY DEF Cellwise
<1>1. PICK g \in Nat : g = f - 1 /\ g + 1 = f
  OBVIOUS
<1>2. PICK new : new = destroy(c, g, f) /\ IsDestroyed(new, c, l, g, f)
  BY <1>0, DestroyIs
<1>3. PICK w \in Seq(VecElems) : /\ w = SubSeq(m, 1, g) /\ Len(w) = g
                                 /\ \A k \in Nat : 1 <= k /\ k <= g => w[k] = m[k]
  <2>1. SubSeq(m, 1, g) \in Seq(VecElems) /\ Len(SubSeq(m, 1, g)) = g
    BY <1>0, <1>1
  <2>2. ASSUME NEW k \in Nat, 1 <= k, k <= g
        PROVE  SubSeq(m, 1, g)[k] = m[k]
    BY <1>0, <1>1, <2>2
  <2> QED
    BY <2>1, <2>2
<1>4. ASSUME NEW k \in Nat, 1 <= k, k <= l
      PROVE  /\ k <= g => new[k] = w[k]
             /\ k > g => new[k] = NoElement
  <2>1. /\ k <= f => c[k] = m[k]
        /\ k > f => c[k] = NoElement
    BY <1>4 DEF Cellwise
  <2>2. new[k] = IF g < k /\ k <= f THEN NoElement ELSE c[k]
    BY <1>2, <1>4 DEF IsDestroyed
  <2> QED
    BY <1>1, <1>3, <1>4, <2>1, <2>2
<1>5. Holds(new, w) /\ Len(w) = g /\ Len(new) = l
  BY <1>0, <1>1, <1>2, <1>3, <1>4 DEF Holds, IsDestroyed
<1> QED
  BY <1>1, <1>2, <1>3, <1>5, HoldsCellwise

\* What is left of m without the elements between a and b.
Erased(m, a, b) == Slice(m, 0, a) \o Slice(m, b, Len(m))

\* w is the first a elements of m, and the r elements behind the first b.
IsErased(w, m, a, b, r) ==
  /\ w \in Seq(VecElems) /\ Len(w) = a + r
  /\ \A k \in Nat : 1 <= k /\ k <= a => w[k] = m[k]
  /\ \A j \in Nat : 1 <= j /\ j <= r => w[a + j] = m[b + j]

\* Erasing gives what the predicate says.
LEMMA ErasedIs ==
  ASSUME NEW m \in Seq(VecElems), NEW a \in Nat, NEW b \in Nat, a <= b, b <= Len(m)
  PROVE  IsErased(Erased(m, a, b), m, a, b, Len(m) - b)
<1>0. Len(m) \in Nat
  OBVIOUS
<1>1. PICK low \in Seq(VecElems) : low = Slice(m, 0, a) /\ Len(low) = a
  <2>1. Slice(m, 0, a) \in Seq(VecElems) /\ Len(Slice(m, 0, a)) = a
    BY DEF Slice
  <2> QED
    BY <2>1
<1>2. PICK up \in Seq(VecElems) : up = Slice(m, b, Len(m)) /\ Len(up) = Len(m) - b
  <2>1. Slice(m, b, Len(m)) \in Seq(VecElems) /\ Len(Slice(m, b, Len(m))) = Len(m) - b
    BY DEF Slice
  <2> QED
    BY <2>1
<1>3. low \o up \in Seq(VecElems) /\ Len(low \o up) = a + (Len(m) - b)
  BY <1>0, <1>1, <1>2
<1>4. PICK all \in Seq(VecElems) :
        /\ all = low \o up /\ all = Erased(m, a, b) /\ Len(all) = a + (Len(m) - b)
  BY <1>1, <1>2, <1>3, Zenon DEF Erased
<1>5. ASSUME NEW k \in Nat, 1 <= k, k <= a
      PROVE  all[k] = m[k]
  <2>1. (low \o up)[k] = low[k]
    BY <1>1, <1>5
  <2>2. low[k] = m[k]
    BY <1>1, <1>5 DEF Slice
  <2> QED
    BY <1>4, <2>1, <2>2, Zenon
<1>6. ASSUME NEW j \in Nat, 1 <= j, j <= Len(m) - b
      PROVE  all[a + j] = m[b + j]
  <2>1. (low \o up)[Len(low) + j] = up[j]
    BY <1>0, <1>2, <1>6
  <2>2. up[j] = m[b + j]
    BY <1>0, <1>2, <1>6 DEF Slice
  <2> QED
    BY <1>1, <1>4, <2>1, <2>2, Zenon
<1> QED
  BY <1>4, <1>5, <1>6 DEF IsErased

\* erase: what follows moves down, the cells behind it are destroyed.
LEMMA ErasedInPlace ==
  ASSUME NEW c, NEW m, NEW f \in Nat, NEW l \in Nat, Cellwise(c, l, m, f),
         NEW a \in Nat, NEW b \in Nat, a <= b, b <= f
  PROVE  Cellwise(destroy(AssignOver(c, a, Slice(c, b, f)), f - (b - a), f), l, Erased(m, a, b), f - (b - a))
<1>0. c \in Seq(CellContents) /\ m \in Seq(VecElems) /\ Len(m) = f /\ Len(c) = l /\ f <= l
  BY DEF Cellwise
<1>1. PICK g \in Nat, r \in Nat : r = f - b /\ b + r = f /\ g = f - (b - a) /\ a + r = g /\ g <= f
  <2>1. f - b \in Nat /\ f - (b - a) \in Nat
    OBVIOUS
  <2> QED
    BY <2>1
<1>2. PICK rest : rest = Slice(c, b, f) /\ IsSlice(rest, c, b, r)
  BY <1>0, <1>1, SliceIs
<1>3. PICK over : over = AssignOver(c, a, rest) /\ IsAssigned(over, c, l, a, g, rest)
  BY <1>0, <1>1, <1>2, AssignIs DEF IsSlice
<1>4. PICK new : new = destroy(over, g, f) /\ IsDestroyed(new, over, l, g, f)
  BY <1>3, DestroyIs DEF IsAssigned
<1>5. PICK w : w = Erased(m, a, b) /\ IsErased(w, m, a, b, r)
  <2>1. b <= Len(m) /\ Len(m) - b = r
    BY <1>0, <1>1
  <2> QED
    BY <1>0, <2>1, ErasedIs
<1>6. ASSUME NEW k \in Nat, 1 <= k, k <= l
      PROVE  /\ k <= g => new[k] = w[k]
             /\ k > g => new[k] = NoElement
  <2>0. \A i \in Nat : 1 <= i /\ i <= l => /\ i <= f => c[i] = m[i] /\ c[i] # NoElement
                                           /\ i > f => c[i] = NoElement
    BY DEF Cellwise
  <2>1. /\ k <= f => c[k] = m[k] /\ c[k] # NoElement
        /\ k > f => c[k] = NoElement
    BY <1>6, <2>0
  <2>2. /\ a < k /\ k <= g /\ c[k] # NoElement => over[k] = rest[k - a]
        /\ ~(a < k /\ k <= g) => over[k] = c[k]
    BY <1>3, <1>6 DEF IsAssigned
  <2>3. new[k] = IF g < k /\ k <= f THEN NoElement ELSE over[k]
    BY <1>4, <1>6 DEF IsDestroyed
  <2>4. CASE k <= a
    BY <1>1, <1>5, <1>6, <2>1, <2>2, <2>3, <2>4 DEF IsErased
  <2>5. CASE a < k /\ k <= g
    <3>1. PICK j \in Nat, i \in Nat : j = k - a /\ a + j = k /\ 1 <= j /\ j <= r /\ i = b + j /\ 1 <= i /\ i <= f
      BY <1>1, <2>5
    <3>2. new[k] = rest[j]
      BY <1>1, <2>1, <2>2, <2>3, <2>5, <3>1
    <3>3. rest[j] = c[i]
      BY <1>2, <3>1 DEF IsSlice
    <3>4. c[i] = m[i]
      BY <1>0, <2>0, <3>1
    <3>5. w[k] = m[i]
      BY <1>5, <3>1 DEF IsErased
    <3> QED
      BY <2>5, <3>2, <3>3, <3>4, <3>5
  <2>6. CASE k > g
    BY <1>1, <2>1, <2>2, <2>3, <2>6
  <2> QED
    BY <1>1, <2>4, <2>5, <2>6
<1>7. Holds(new, w) /\ Len(w) = g /\ Len(new) = l
  BY <1>0, <1>1, <1>4, <1>5, <1>6 DEF Holds, IsDestroyed, IsErased
<1> QED
  BY <1>1, <1>2, <1>3, <1>4, <1>5, <1>7, HoldsCellwise

-----------------------------------------------------------------------------
(***************************************************************************)
(* The invariant.                                                          *)
(***************************************************************************)

\* The part of the invariant that is about a y_vector.
LEMMA YVectorCellwise ==
  ASSUME VecInv, vecKind = "y_vector"
  PROVE  /\ Len(cells) \in Nat /\ finish \in Nat
         /\ Cellwise(cells, Len(cells), meant, finish)
<1>1. Holds(cells, meant)
  BY DEF VecInv, Holds, VecTypeOK
<1>2. Len(cells) \in Nat /\ finish \in Nat /\ Len(meant) = finish
  BY DEF VecInv, VecTypeOK
<1> QED
  BY <1>1, <1>2, HoldsCellwise

\* A step after which the cells hold what is meant keeps the invariant.
LEMMA CellwiseStep ==
  ASSUME VecInv, vecKind = "y_vector", UNCHANGED <<vecKind, moved>>,
         NEW l \in Nat, Cellwise(cells', l, meant', finish'), finish' \in Nat, finish' <= MaxLength
  PROVE  VecInv'
<1>1. /\ cells' \in Seq(CellContents) /\ meant' \in Seq(VecElems) /\ Len(meant') = finish'
      /\ Len(cells') = l /\ finish' <= l
  BY DEF Cellwise
<1>2. ASSUME NEW k \in 1 .. l
      PROVE  cells'[k] = (IF k <= finish' THEN meant'[k] ELSE NoElement) /\ cells'[k] \in CellContents
  BY <1>1, <1>2 DEF Cellwise
<1>3. VecTypeOK'
  BY <1>1, <1>2 DEF VecInv, VecTypeOK
<1> QED
  BY <1>1, <1>2, <1>3 DEF VecInv

\* What is referred to is an element.
LEMMA ValueIs ==
  ASSUME VecInv, NEW x \in References
  PROVE  /\ Value(x) \in CellContents
         /\ vecKind = "y_vector" => Value(x) \in VecElems
<1>1. CASE x \in 1 .. finish
  <2>1. x \in 1 .. Len(cells) /\ Value(x) = cells[x]
    BY <1>1 DEF Value, VecInv, VecTypeOK
  <2>2. vecKind = "y_vector" => cells[x] = meant[x] /\ meant[x] \in VecElems
    BY <1>1, <2>1 DEF VecInv
  <2> QED
    BY <2>1, <2>2 DEF VecInv, VecTypeOK
<1>2. CASE x \notin 1 .. finish
  BY <1>2 DEF Value, References, CellContents
<1> QED
  BY <1>1, <1>2

\* The vectors are empty at first.
LEMMA VecInitHolds == VecInit => VecInv
<1> SUFFICES ASSUME VecInit PROVE VecInv
  OBVIOUS
<1>1. PICK n \in 0 .. MaxLength, x \in VecElems : cells = Times(n, x) /\ meant = Times(n, x)
  BY DEF VecInit
<1>2. /\ cells \in Seq(VecElems) /\ Len(cells) = n /\ n \in Nat /\ finish = n /\ n <= MaxLength
      /\ meant = cells
  BY <1>1, VecAssumption, TimesSeq DEF VecInit
<1>3. cells \in Seq(CellContents)
  BY <1>2 DEF CellContents
<1>4. VecTypeOK
  BY <1>2, <1>3, VecAssumption DEF VecInit, VecTypeOK
<1>5. VectorIntHolds
  BY <1>2 DEF VectorIntHolds
<1> QED
  BY <1>2, <1>3, <1>4, <1>5 DEF VecInit, VecInv

\* push_back, also of an element of the vector itself.
LEMMA PushBackKeeps ==
  ASSUME VecInv, NEW x \in References, push_back_(x)
  PROVE  VecInv'
<1>1. /\ Len(cells) \in Nat /\ finish \in Nat /\ Cellwise(cells, Len(cells), meant, finish)
      /\ Value(x) \in VecElems /\ vecKind = "y_vector" /\ UNCHANGED <<vecKind, moved>>
      /\ finish' = finish + 1 /\ finish' \in Nat /\ finish' <= MaxLength
      /\ meant' = Append(meant, Value(x))
  BY YVectorCellwise, ValueIs, VecAssumption DEF push_back_
<1>2. CASE finish # Len(cells)
  <2>1. Cellwise(Construct(cells, finish, <<Value(x)>>), Len(cells), Append(meant, Value(x)), finish + 1)
    BY <1>1, <1>2, PushedInPlace
  <2>2. cells' = Construct(cells, finish, <<Value(x)>>)
    BY <1>2 DEF push_back_
  <2> QED
    BY <1>1, <2>1, <2>2, CellwiseStep
<1>3. CASE finish = Len(cells)
  <2>1. PICK len \in Nat : Cellwise(insert_aux(x), len, Append(meant, Value(x)), finish + 1)
    BY <1>1, <1>3, PushedElsewhere
  <2>2. cells' = insert_aux(x)
    BY <1>3 DEF push_back_
  <2> QED
    BY <1>1, <2>1, <2>2, CellwiseStep
<1> QED
  BY <1>2, <1>3

\* pop_back.
LEMMA PopBackKeeps ==
  ASSUME VecInv, pop_back_
  PROVE  VecInv'
<1>1. Len(cells) \in Nat /\ finish \in Nat /\ Cellwise(cells, Len(cells), meant, finish) /\ finish > 0
  BY YVectorCellwise DEF pop_back_
<1>2. Cellwise(destroy(cells, finish - 1, finish), Len(cells), SubSeq(meant, 1, finish - 1), finish - 1)
  BY <1>1, Popped
<1>3. finish - 1 \in Nat /\ finish - 1 <= MaxLength
  BY <1>1, VecAssumption DEF VecInv
<1> QED
  BY <1>1, <1>2, <1>3, CellwiseStep DEF pop_back_

\* erase.
LEMMA EraseKeeps ==
  ASSUME VecInv, NEW first \in 0 .. finish, NEW last \in 0 .. finish, erase(first, last)
  PROVE  VecInv'
<1>1. /\ Len(cells) \in Nat /\ finish \in Nat /\ Cellwise(cells, Len(cells), meant, finish)
      /\ first \in Nat /\ last \in Nat /\ first <= last /\ last <= finish
  BY YVectorCellwise DEF erase, VecInv, VecTypeOK
<1>2. PICK f \in Nat : f = finish - (last - first) /\ f <= finish
  BY <1>1
<1>3. Cellwise(destroy(AssignOver(cells, first, Slice(cells, last, finish)), f, finish),
               Len(cells), Erased(meant, first, last), f)
  BY <1>1, <1>2, ErasedInPlace
<1>4. /\ cells' = destroy(AssignOver(cells, first, Slice(cells, last, finish)), f, finish)
      /\ finish' = f /\ meant' = Erased(meant, first, last) /\ UNCHANGED <<vecKind, moved>>
      /\ vecKind = "y_vector"
  BY <1>2 DEF erase, Erased
<1>5. f <= MaxLength
  BY <1>1, <1>2, VecAssumption DEF VecInv
<1> QED
  BY <1>1, <1>3, <1>4, <1>5, CellwiseStep

\* No element inserted.
LEMMA NoneInserted ==
  ASSUME NEW c, NEW m, NEW f \in Nat, NEW l \in Nat, Cellwise(c, l, m, f),
         NEW position \in Nat, position <= f, NEW v \in VecElems
  PROVE  Cellwise(c, l, Inserted(m, position, 0, v), f)
<1>0. c \in Seq(CellContents) /\ m \in Seq(VecElems) /\ Len(m) = f /\ Len(c) = l /\ f <= l
  BY DEF Cellwise
<1>1. PICK zero \in Nat : zero = 0
  OBVIOUS
<1>2. PICK w : w = Inserted(m, position, zero, v) /\ IsInserted(w, m, position, zero, v)
  BY <1>0, <1>1, InsertedIs
<1>3. ASSUME NEW k \in Nat, 1 <= k, k <= f
      PROVE  w[k] = m[k]
  <2>1. w[k] = ElementAfter(m, position, zero, v, k)
    BY <1>0, <1>1, <1>2, <1>3 DEF IsInserted
  <2> QED
    BY <1>1, <1>3, <2>1 DEF ElementAfter
<1>4. w \in Seq(VecElems) /\ Len(w) = f
  BY <1>0, <1>1, <1>2 DEF IsInserted
<1>5. Cellwise(c, l, w, f)
  BY <1>0, <1>3, <1>4 DEF Cellwise
<1> QED
  BY <1>1, <1>2, <1>5

\* insert, whichever way it goes.
LEMMA InsertKeeps ==
  ASSUME VecInv, NEW x \in References, NEW position \in 0 .. finish, NEW n \in Nat,
         insert_(position, n, x)
  PROVE  VecInv'
<1>1. /\ Len(cells) \in Nat /\ finish \in Nat /\ Cellwise(cells, Len(cells), meant, finish)
      /\ position \in Nat /\ position <= finish /\ Value(x) \in VecElems
  <2>1. vecKind = "y_vector"
    BY DEF insert_
  <2>2. Len(cells) \in Nat /\ finish \in Nat /\ Cellwise(cells, Len(cells), meant, finish)
    BY <2>1, YVectorCellwise
  <2>3. position \in Nat /\ position <= finish
    BY <2>2
  <2>4. Value(x) \in VecElems
    BY <2>1, ValueIs
  <2> QED
    BY <2>2, <2>3, <2>4
<1>2. PICK v \in VecElems : v = Value(x)
  BY <1>1
<1>3. /\ meant' = Inserted(meant, position, n, v) /\ finish' = finish + n /\ finish + n <= MaxLength
      /\ UNCHANGED <<vecKind, moved>> /\ vecKind = "y_vector"
  BY <1>2 DEF insert_, Inserted
<1>4. CASE n = 0
  <2>1. Cellwise(cells, Len(cells), Inserted(meant, position, 0, v), finish)
    BY <1>1, NoneInserted
  <2>2. cells' = cells /\ finish' = finish /\ meant' = Inserted(meant, position, 0, v)
    BY <1>1, <1>3, <1>4 DEF insert_
  <2> QED
    BY <1>1, <1>3, <2>1, <2>2, CellwiseStep
<1>5. CASE n # 0 /\ Len(cells) - finish < n
  <2>1. PICK len \in Nat :
          Cellwise(InsertElsewhere(position, n, v), len, Inserted(meant, position, n, v), finish + n)
    BY <1>1, ElsewhereInserted
  <2>2. cells' = InsertElsewhere(position, n, v)
    BY <1>2, <1>5 DEF insert_
  <2> QED
    BY <1>1, <1>3, <2>1, <2>2, CellwiseStep
<1>6. CASE n # 0 /\ ~(Len(cells) - finish < n) /\ finish - position > n
  <2>1. Cellwise(InsertAmongMany(position, n, v), Len(cells), Inserted(meant, position, n, v), finish + n)
    BY <1>1, <1>6, ManyInserted
  <2>2. cells' = InsertAmongMany(position, n, v)
    BY <1>2, <1>6 DEF insert_
  <2> QED
    BY <1>1, <1>3, <2>1, <2>2, CellwiseStep
<1>7. CASE n # 0 /\ ~(Len(cells) - finish < n) /\ ~(finish - position > n)
  <2>1. Cellwise(InsertAmongFew(position, n, v), Len(cells), Inserted(meant, position, n, v), finish + n)
    BY <1>1, <1>7, FewInserted
  <2>2. cells' = InsertAmongFew(position, n, v)
    BY <1>2, <1>7 DEF insert_
  <2> QED
    BY <1>1, <1>3, <2>1, <2>2, CellwiseStep
<1> QED
  BY <1>4, <1>5, <1>6, <1>7

\* resize: an insertion or an erasure at the end.
LEMMA ResizeKeeps ==
  ASSUME VecInv, NEW x \in References, NEW n \in Nat, resize(n, x)
  PROVE  VecInv'
<1>0. finish \in Nat
  BY DEF VecInv, VecTypeOK
<1>1. CASE n < finish
  BY <1>0, <1>1, EraseKeeps DEF resize
<1>2. CASE ~(n < finish)
  <2>1. n - finish \in Nat /\ finish \in 0 .. finish /\ insert_(finish, n - finish, x)
    BY <1>0, <1>2 DEF resize
  <2> QED
    BY <2>1, InsertKeeps
<1> QED
  BY <1>1, <1>2

-----------------------------------------------------------------------------
(***************************************************************************)
(* vector_int.                                                             *)
(***************************************************************************)

\* What the invariant says of a vector_int, cell by cell.
IntHolds(c, m, f, h) ==
  /\ c \in Seq(CellContents) /\ m \in Seq(CellContents) /\ Len(m) = f /\ f <= Len(c)
  /\ \A k \in Nat : 1 <= k /\ k <= f =>
       c[k] = m[k] \/ \E s \in h : k <= s /\ s < 4 * k /\ c[k] = NoElement

\* What the invariant says of vector_int.
LEMMA IntHoldsNow ==
  ASSUME VecInv, vecKind = "vector_int"
  PROVE  finish \in Nat /\ IntHolds(cells, meant, finish, moved)
<1>1. finish \in Nat /\ VectorIntHolds
  BY DEF VecInv, VecTypeOK
<1>2. ASSUME NEW k \in Nat, 1 <= k, k <= finish
      PROVE  cells[k] = meant[k] \/ \E s \in moved : k <= s /\ s < 4 * k /\ cells[k] = NoElement
  BY <1>1, <1>2 DEF VectorIntHolds
<1> QED
  BY <1>1, <1>2 DEF VecInv, VecTypeOK, IntHolds

\* A step after which it holds again keeps the invariant.
LEMMA IntHoldsStep ==
  ASSUME VecInv, vecKind = "vector_int", vecKind' = vecKind,
         IntHolds(cells', meant', finish', moved'), finish' \in Nat, finish' <= MaxLength,
         moved' \subseteq 0 .. MaxLength
  PROVE  VecInv'
<1>1. cells' \in Seq(CellContents) /\ meant' \in Seq(CellContents) /\ Len(meant') = finish'
      /\ finish' <= Len(cells') /\ Len(cells') \in Nat
  BY DEF IntHolds
<1>2. VectorIntHolds'
  BY <1>1 DEF IntHolds, VectorIntHolds
<1>3. VecTypeOK'
  <2>1. \A k \in 1 .. Len(cells') : cells'[k] \in CellContents
    BY <1>1
  <2> QED
    BY <1>1, <2>1 DEF VecInv, VecTypeOK
<1> QED
  BY <1>1, <1>2, <1>3 DEF VecInv

\* The elements that are left when a vector_int moves.
LEMMA MovedIs ==
  ASSUME VecInv, NEW f \in Nat, finish = f
  PROVE  /\ Moved \in Seq(CellContents) /\ Len(Moved) = f
         /\ \A k \in Nat : 1 <= k /\ k <= f =>
              Moved[k] = cells[k] \/ (f < 4 * k /\ Moved[k] = NoElement)
<1>1. ASSUME NEW k \in 1 .. f
      PROVE  (IF 4 * k <= f THEN cells[k] ELSE NoElement) \in CellContents
  <2>1. k \in 1 .. Len(cells)
    BY <1>1 DEF VecInv, VecTypeOK
  <2> QED
    BY <2>1 DEF VecInv, VecTypeOK, CellContents
<1>2. Moved \in [1 .. f -> CellContents]
  BY <1>1 DEF Moved
<1>3. ASSUME NEW k \in Nat, 1 <= k, k <= f
      PROVE  Moved[k] = cells[k] \/ (f < 4 * k /\ Moved[k] = NoElement)
  BY <1>3 DEF Moved
<1> QED
  BY <1>2, <1>3

\* vector_int: push_back moves a quarter of the elements when it grows.
LEMMA IntPushKeeps ==
  ASSUME VecInv, NEW x \in References, vector_int_push_back(x)
  PROVE  VecInv'
<1>1. /\ vecKind = "vector_int" /\ vecKind' = vecKind /\ finish \in Nat /\ finish < MaxLength
      /\ IntHolds(cells, meant, finish, moved) /\ Value(x) \in CellContents
      /\ moved \subseteq 0 .. MaxLength
  BY IntHoldsNow, ValueIs DEF vector_int_push_back, VecInv, VecTypeOK
<1>2. PICK f \in Nat, g \in Nat : f = finish /\ g = f + 1 /\ g <= MaxLength
  BY <1>1, VecAssumption
<1>3. PICK v \in CellContents : v = Value(x)
  BY <1>1
<1>4. PICK w : w = Append(meant, v) /\ w \in Seq(CellContents) /\ Len(w) = g /\ w[g] = v
               /\ \A k \in Nat : 1 <= k /\ k <= f => w[k] = meant[k]
  <2>1. meant \in Seq(CellContents) /\ Len(meant) = f
    BY <1>1, <1>2 DEF IntHolds
  <2>2. Append(meant, v) \in Seq(CellContents) /\ Len(Append(meant, v)) = g /\ Append(meant, v)[g] = v
    BY <1>2, <2>1
  <2>3. ASSUME NEW k \in Nat, 1 <= k, k <= f
        PROVE  Append(meant, v)[k] = meant[k]
    BY <2>1, <2>3
  <2> QED
    BY <2>2, <2>3
<1>5. meant' = w /\ finish' = g
  BY <1>2, <1>3, <1>4 DEF vector_int_push_back
<1>6. CASE finish # Len(cells)
  <2>1. cells' = [cells EXCEPT ![g] = v] /\ moved' = moved
    BY <1>2, <1>3, <1>6 DEF vector_int_push_back
  <2>2. /\ cells \in Seq(CellContents) /\ g <= Len(cells)
    BY <1>1, <1>2, <1>6 DEF IntHolds
  <2>3. cells' \in Seq(CellContents) /\ Len(cells') = Len(cells) /\ cells'[g] = v
    BY <2>1, <2>2, <1>2
  <2>4. ASSUME NEW k \in Nat, 1 <= k, k <= g
        PROVE  cells'[k] = w[k] \/ \E s \in moved : k <= s /\ s < 4 * k /\ cells'[k] = NoElement
    <3>1. CASE k = g
      BY <1>4, <2>3, <3>1
    <3>2. CASE k <= f
      <4>1. cells'[k] = cells[k]
        BY <1>2, <2>1, <2>2, <2>4, <3>2
      <4>2. cells[k] = meant[k] \/ \E s \in moved : k <= s /\ s < 4 * k /\ cells[k] = NoElement
        BY <1>1, <1>2, <2>4, <3>2 DEF IntHolds
      <4> QED
        BY <1>4, <2>4, <3>2, <4>1, <4>2
    <3> QED
      BY <1>2, <2>4, <3>1, <3>2
  <2>5. IntHolds(cells', w, g, moved)
    BY <1>4, <2>2, <2>3, <2>4 DEF IntHolds
  <2> QED
    BY <1>1, <1>2, <1>5, <2>1, <2>5, IntHoldsStep
<1>7. CASE finish = Len(cells)
  <2>1. PICK rest \in Nat : rest = (IF f # 0 THEN 2 * f ELSE 1) - f - 1
    BY <1>2
  <2>2. PICK old : /\ old = Moved /\ old \in Seq(CellContents) /\ Len(old) = f
                   /\ \A k \in Nat : 1 <= k /\ k <= f =>
                        old[k] = cells[k] \/ (f < 4 * k /\ old[k] = NoElement)
    BY <1>2, MovedIs
  <2>3. PICK empty : empty = allocate(rest) /\ empty \in Seq(CellContents) /\ Len(empty) = rest
    <3>1. NoElement \in CellContents
      BY DEF CellContents
    <3> QED
      BY <3>1, TimesIs DEF allocate, IsRun
  <2>4. PICK one : one = <<v>> /\ one \in Seq(CellContents) /\ Len(one) = 1 /\ one[1] = v
    <3>1. <<v>> \in Seq(CellContents) /\ Len(<<v>>) = 1 /\ <<v>>[1] = v
      OBVIOUS
    <3> QED
      BY <3>1
  <2>5. cells' = old \o one \o empty /\ moved' = moved \cup {f}
    BY <1>2, <1>3, <1>7, <2>1, <2>2, <2>3, <2>4 DEF vector_int_push_back
  <2>6. /\ old \o one \o empty \in Seq(CellContents) /\ Len(old \o one \o empty) = g + rest
        /\ (old \o one \o empty)[Len(old) + 1] = one[1]
    BY <1>2, <2>2, <2>3, <2>4
  <2>7. ASSUME NEW k \in Nat, 1 <= k, k <= f
        PROVE  (old \o one \o empty)[k] = old[k]
    BY <2>2, <2>3, <2>4, <2>7
  <2>8. ASSUME NEW k \in Nat, 1 <= k, k <= g
        PROVE  cells'[k] = w[k] \/ \E s \in moved' : k <= s /\ s < 4 * k /\ cells'[k] = NoElement
    <3>1. CASE k = g
      <4>1. cells'[k] = one[1]
        BY <1>2, <2>2, <2>5, <2>6, <3>1
      <4> QED
        BY <1>4, <2>4, <3>1, <4>1
    <3>2. CASE k <= f
      <4>1. cells'[k] = old[k]
        BY <2>5, <2>7, <2>8, <3>2
      <4>2. old[k] = cells[k] \/ (f < 4 * k /\ old[k] = NoElement)
        BY <2>2, <2>8, <3>2
      <4>3. cells[k] = meant[k] \/ \E s \in moved : k <= s /\ s < 4 * k /\ cells[k] = NoElement
        BY <1>1, <1>2, <2>8, <3>2 DEF IntHolds
      <4>4. w[k] = meant[k]
        BY <1>4, <2>8, <3>2
      <4>5. CASE old[k] = cells[k]
        BY <2>5, <4>1, <4>3, <4>4, <4>5
      <4>6. CASE f < 4 * k /\ old[k] = NoElement
        BY <2>5, <3>2, <4>1, <4>6
      <4> QED
        BY <4>2, <4>5, <4>6
    <3> QED
      BY <1>2, <2>8, <3>1, <3>2
  <2>9. cells' \in Seq(CellContents) /\ Len(cells') = g + rest /\ g <= g + rest
    BY <1>2, <2>1, <2>5, <2>6
  <2>10. IntHolds(cells', w, g, moved')
    BY <1>4, <2>8, <2>9 DEF IntHolds
  <2>11. moved' \subseteq 0 .. MaxLength
    BY <1>1, <1>2, <2>5, VecAssumption
  <2> QED
    BY <1>1, <1>2, <1>5, <2>10, <2>11, IntHoldsStep
<1> QED
  BY <1>6, <1>7

\* vector_int: pop_back.
LEMMA IntPopKeeps ==
  ASSUME VecInv, vector_int_pop_back
  PROVE  VecInv'
<1>1. /\ vecKind = "vector_int" /\ vecKind' = vecKind /\ finish \in Nat /\ finish > 0
      /\ IntHolds(cells, meant, finish, moved)
      /\ moved \subseteq 0 .. MaxLength /\ finish <= MaxLength
  BY IntHoldsNow DEF vector_int_pop_back, VecInv, VecTypeOK
<1>2. PICK g \in Nat : g + 1 = finish /\ g = finish - 1 /\ g <= MaxLength
  BY <1>1, VecAssumption
<1>3. PICK w : /\ w = SubSeq(meant, 1, g) /\ w \in Seq(CellContents) /\ Len(w) = g
               /\ \A k \in Nat : 1 <= k /\ k <= g => w[k] = meant[k]
  <2>0. meant \in Seq(CellContents) /\ Len(meant) = finish
    BY <1>1 DEF IntHolds
  <2>1. SubSeq(meant, 1, g) \in Seq(CellContents) /\ Len(SubSeq(meant, 1, g)) = g
    BY <1>2, <2>0
  <2>2. ASSUME NEW k \in Nat, 1 <= k, k <= g
        PROVE  SubSeq(meant, 1, g)[k] = meant[k]
    BY <1>2, <2>0, <2>2
  <2> QED
    BY <2>1, <2>2
<1>4. cells' = cells /\ moved' = moved /\ meant' = w /\ finish' = g
  BY <1>2, <1>3 DEF vector_int_pop_back
<1>5. IntHolds(cells, w, g, moved)
  BY <1>1, <1>2, <1>3 DEF IntHolds
<1> QED
  BY <1>1, <1>2, <1>4, <1>5, IntHoldsStep

-----------------------------------------------------------------------------
\* No step breaks the invariant: the cells of a y_vector are the elements it
\* is meant to have and raw memory, whatever it was asked to insert or erase.
LEMMA VecStepKeeps == VecInv /\ [VecNext]_vecVars => VecInv'
<1> SUFFICES ASSUME VecInv, [VecNext]_vecVars PROVE VecInv'
  OBVIOUS
<1>1. ASSUME NEW x \in References, push_back_(x) \/ vector_int_push_back(x)
      PROVE  VecInv'
  BY <1>1, PushBackKeeps, IntPushKeeps
<1>2. CASE pop_back_ \/ vector_int_pop_back
  BY <1>2, PopBackKeeps, IntPopKeeps
<1>3. ASSUME NEW first \in 0 .. finish, NEW last \in 0 .. finish, erase(first, last)
      PROVE  VecInv'
  BY <1>3, EraseKeeps
<1>4. ASSUME NEW x \in References, NEW position \in 0 .. finish, NEW n \in 0 .. MaxLength,
             insert_(position, n, x)
      PROVE  VecInv'
  BY <1>4, InsertKeeps
<1>5. ASSUME NEW x \in References, NEW n \in 0 .. MaxLength, resize(n, x)
      PROVE  VecInv'
  BY <1>5, ResizeKeeps
<1>6. CASE UNCHANGED vecVars
  BY <1>6 DEF vecVars, VecInv, VecTypeOK, VectorIntHolds
<1> QED
  BY <1>1, <1>2, <1>3, <1>4, <1>5, <1>6 DEF VecNext

\* The invariant says what the runs check.
LEMMA InvHolds == VecInv => VectorsHold
<1> SUFFICES ASSUME VecInv PROVE VectorsHold
  OBVIOUS
<1>1. VecTypeOK
  BY DEF VecInv
<1>2. ASSUME vecKind = "y_vector"
      PROVE  cells = meant \o allocate(Len(cells) - finish)
  <2>1. PICK rest \in Nat : rest = Len(cells) - finish /\ Len(meant) = finish /\ finish \in Nat
    BY <1>1 DEF VecInv, VecTypeOK
  <2>2. PICK empty : /\ empty = allocate(rest) /\ empty \in Seq(CellContents) /\ Len(empty) = rest
                     /\ \A k \in Nat : 1 <= k /\ k <= rest => empty[k] = NoElement
    <3>1. NoElement \in CellContents
      BY DEF CellContents
    <3> QED
      BY <3>1, TimesIs DEF allocate, IsRun
  <2>3. meant \in Seq(CellContents) /\ cells \in Seq(CellContents)
    BY <1>2 DEF VecInv, CellContents
  <2>4. PICK all : all = meant \o empty /\ all \in Seq(CellContents) /\ Len(all) = Len(cells)
    <3>1. meant \o empty \in Seq(CellContents) /\ Len(meant \o empty) = finish + rest
      BY <2>1, <2>2, <2>3
    <3>2. finish + rest = Len(cells)
      BY <2>1, <2>3
    <3> QED
      BY <3>1, <3>2
  <2>5. ASSUME NEW k \in 1 .. Len(cells)
        PROVE  cells[k] = all[k]
    <3>1. cells[k] = IF k <= finish THEN meant[k] ELSE NoElement
      BY <1>2 DEF VecInv
    <3>2. CASE k <= finish
      <4>1. (meant \o empty)[k] = meant[k]
        BY <2>1, <2>2, <2>3, <3>2
      <4> QED
        BY <2>4, <3>1, <3>2, <4>1
    <3>3. CASE k > finish
      <4>1. PICK j \in Nat : k = finish + j /\ 1 <= j /\ j <= rest
        BY <2>1, <2>3, <3>3
      <4>2. (meant \o empty)[Len(meant) + j] = empty[j]
        BY <2>2, <2>3, <4>1
      <4> QED
        BY <2>1, <2>2, <2>4, <3>1, <3>3, <4>1, <4>2
    <3> QED
      BY <2>1, <3>2, <3>3
  <2>6. cells = all
    <3>1. Len(all) = Len(cells) /\ all \in Seq(CellContents) /\ cells \in Seq(CellContents)
      BY <2>3, <2>4
    <3> QED
      BY <2>5, <3>1, SeqEqual
  <2> QED
    BY <2>1, <2>2, <2>4, <2>6
<1>3. VectorIntHolds
  BY DEF VecInv, VectorIntHolds
<1> QED
  BY <1>1, <1>2, <1>3 DEF VectorsHold, YVectorHolds

\* A y_vector holds the elements it was given and nothing behind them, wherever
\* and however many were inserted or erased, those it was given by reference to
\* one of its own included (y_vector.h:78-230); a vector_int has lost nothing but
\* what lay behind the bytes it copied (vector.cpp:56-97).
THEOREM VectorsGiveBack == VecSpec => []VectorsHold
<1>1. VecInit => VecInv
  BY VecInitHolds
<1>2. VecInv /\ [VecNext]_vecVars => VecInv'
  BY VecStepKeeps
<1>3. VecInv => VectorsHold
  BY InvHolds
<1> QED
  BY <1>1, <1>2, <1>3, PTL DEF VecSpec

-----------------------------------------------------------------------------
(***************************************************************************)
(* RustLists: the paths through the heap.                                  *)
(***************************************************************************)

\* A node, and a heap of at most MaxListNodes of them.
ListNode == [elem : Elems, prev : Nat, next : Nat]
IsHeap(heap) == DOMAIN heap \in SUBSET (1 .. MaxListNodes) /\ heap \in [DOMAIN heap -> ListNode]

\* The nodes s, each once, in the order of the next pointers from first on, hold seq.
Chain(s, first, heap, seq) ==
  /\ s \in [1 .. Len(seq) -> DOMAIN heap]
  /\ first = IF seq = <<>> THEN None ELSE s[1]
  /\ \A k \in 1 .. Len(seq) : heap[s[k]].elem = seq[k]
  /\ \A k \in 1 .. Len(seq) : heap[s[k]].next = IF k = Len(seq) THEN None ELSE s[k + 1]
  /\ \A j, k \in 1 .. Len(seq) : s[j] = s[k] => j = k

\* The prev pointers lead back along s.
BackChain(s, last, heap, seq) ==
  /\ last = IF seq = <<>> THEN None ELSE s[Len(seq)]
  /\ \A k \in 1 .. Len(seq) : heap[s[k]].prev = IF k = 1 THEN None ELSE s[k - 1]

\* Every list is a path p[h]; only third.rs shares nodes between lists; no node is
\* outside the paths.
Shape(p) ==
  /\ \A h \in Handles : Chain(p[h], head[h], nodes, content[h])
  /\ \A h \in Handles : listKind = "fourth" => BackChain(p[h], tail[h], nodes, content[h])
  /\ listKind # "third" =>
       \A g, h \in Handles : g # h =>
         \A j \in 1 .. Len(content[g]), k \in 1 .. Len(content[h]) : p[g][j] # p[h][k]
  /\ \A n \in DOMAIN nodes : \E h \in Handles : \E k \in 1 .. Len(content[h]) : p[h][k] = n

\* The types of the variables.
ListTypes ==
  /\ head \in [Handles -> Nat] /\ tail \in [Handles -> Nat]
  /\ content \in [Handles -> Seq(Elems)] /\ IsHeap(nodes)

\* The invariant: there are such paths, until pop_back of the only element panics.
ListInv ==
  IF panicked THEN listKind = "fourth" /\ \E h \in Handles : Len(content[h]) = 1 /\ tail[h] = None
  ELSE ListTypes /\ \E p : Shape(p)

-----------------------------------------------------------------------------
\* An allocation gives a node that is not in the heap.
LEMMA FreshNode ==
  ASSUME IsHeap(nodes), MayAllocate
  PROVE  Fresh \in 1 .. MaxListNodes /\ Fresh \notin DOMAIN nodes
<1>1. IsFiniteSet(1 .. MaxListNodes) /\ Cardinality(1 .. MaxListNodes) = MaxListNodes
  BY ListAssumption, FS_Interval
<1>2. \E n \in 1 .. MaxListNodes : n \notin DOMAIN nodes
  <2> SUFFICES ASSUME \A n \in 1 .. MaxListNodes : n \in DOMAIN nodes
               PROVE  FALSE
    OBVIOUS
  <2>1. DOMAIN nodes = 1 .. MaxListNodes
    BY DEF IsHeap
  <2> QED
    BY <1>1, <2>1, ListAssumption DEF MayAllocate
<1> QED
  BY <1>2 DEF Fresh

\* A path is no longer than the heap: its nodes are distinct.
LEMMA ChainShort ==
  ASSUME NEW s, NEW first, NEW heap, IsHeap(heap), NEW seq \in Seq(Elems), Chain(s, first, heap, seq)
  PROVE  Len(seq) \in Nat /\ Len(seq) <= MaxListNodes
<1> DEFINE n == Len(seq)
<1>1. n \in Nat
  OBVIOUS
<1>2. s \in [1 .. n -> 1 .. MaxListNodes] /\ \A j, k \in 1 .. n : s[j] = s[k] => j = k
  BY DEF Chain, IsHeap
<1> HIDE DEF n
<1>3. IsFiniteSet(1 .. MaxListNodes) /\ Cardinality(1 .. MaxListNodes) = MaxListNodes
  BY ListAssumption, FS_Interval
<1>4. IsFiniteSet(1 .. n) /\ Cardinality(1 .. n) = n
  BY <1>1, FS_Interval
<1>5. s \in Injection(1 .. n, 1 .. MaxListNodes)
  BY <1>2 DEF Injection, IsInjective
<1>6. Cardinality(1 .. n) <= Cardinality(1 .. MaxListNodes)
  BY <1>3, <1>5, FS_Injection
<1> QED
  BY <1>1, <1>3, <1>4, <1>6 DEF n

\* The walk along the next pointers visits the path: no step is the first to leave it.
LEMMA WalkIsChain ==
  ASSUME IsHeap(nodes), NEW h \in Handles, NEW seq \in Seq(Elems), NEW s, NEW m \in Nat,
         Chain(s, head[h], nodes, seq)
  PROVE  Follow(h, m) = IF m < Len(seq) THEN s[m + 1] ELSE None
<1> DEFINE n == Len(seq)
           Goes(w) == w = [i \in Nat |-> IF i = 0 THEN head[h]
                             ELSE IF w[i - 1] = None THEN None ELSE nodes[w[i - 1]].next]
           c == [i \in Nat |-> IF i < n THEN s[i + 1] ELSE None]
<1>0. n \in Nat /\ (seq = <<>> <=> n = 0)
  OBVIOUS
<1>1. head[h] = c[0]
  BY <1>0 DEF Chain
<1>2. ASSUME NEW i \in Nat, i # 0
      PROVE  c[i] = IF c[i - 1] = None THEN None ELSE nodes[c[i - 1]].next
  <2>1. CASE i < n
    <3>1. c[i] = s[i + 1] /\ c[i - 1] = s[i] /\ i \in 1 .. n /\ i # n
      BY <1>0, <1>2, <2>1
    <3>2. s[i] # None
      BY <3>1 DEF Chain, IsHeap, None
    <3> QED
      BY <3>1, <3>2 DEF Chain
  <2>2. CASE i = n
    <3>1. c[i] = None /\ c[i - 1] = s[n] /\ n \in 1 .. n
      BY <1>0, <1>2, <2>2
    <3> QED
      BY <3>1 DEF Chain
  <2>3. CASE i > n
    BY <1>0, <1>2, <2>3
  <2> QED
    BY <1>0, <2>1, <2>2, <2>3
<1> DEFINE Goal(w) == \A i \in Nat : w[i] = c[i]
<1>3. ASSUME NEW w, Goes(w)
      PROVE  Goal(w)
  <2> DEFINE T == {i \in Nat : w[i] # c[i]}
  <2> SUFFICES ASSUME T # {} PROVE FALSE
    OBVIOUS
  <2>1. PICK i \in T : \A j \in T : i <= j
    BY LeastNat
  <2> HIDE DEF c
  <2>2. \A j \in Nat : w[j] = IF j = 0 THEN head[h]
                             ELSE IF w[j - 1] = None THEN None ELSE nodes[w[j - 1]].next
    BY <1>3
  <2>3. i # 0
    BY <1>1, <2>1, <2>2
  <2>4. i - 1 \in Nat /\ ~(i <= i - 1)
    BY <2>1, <2>3
  <2>5. w[i - 1] = c[i - 1]
    BY <2>1, <2>4
  <2> QED
    BY <1>2, <2>1, <2>2, <2>3, <2>5
<1>4. Goes(c)
  <2>1. \A i \in Nat : c[i] = IF i = 0 THEN head[h]
                             ELSE IF c[i - 1] = None THEN None ELSE nodes[c[i - 1]].next
    BY <1>1, <1>2
  <2>2. c = [i \in Nat |-> c[i]]
    OBVIOUS
  <2> HIDE DEF c
  <2> QED
    BY <2>1, <2>2
<1> HIDE DEF c
<1>5. Follow(h, m) = (CHOOSE w : Goes(w))[m]
  BY DEF Follow
<1> HIDE DEF Goes
<1>6. Goes(CHOOSE w : Goes(w))
  BY <1>4
<1>7. Follow(h, m) = c[m]
  BY <1>3, <1>5, <1>6
<1> QED
  BY <1>7 DEF c

\* Empty means of length 0.
LEMMA EmptyByLength ==
  ASSUME NEW S, NEW seq \in Seq(S)
  PROVE  seq = <<>> <=> Len(seq) = 0
OBVIOUS

\* A sequence with one more element in front.
LEMMA SeqFront ==
  ASSUME NEW S, NEW seq \in Seq(S), NEW e \in S
  PROVE  /\ <<e>> \o seq \in Seq(S) /\ Len(<<e>> \o seq) = Len(seq) + 1
         /\ (<<e>> \o seq)[1] = e /\ <<e>> \o seq # <<>>
         /\ \A k \in 1 .. Len(seq) : (<<e>> \o seq)[k + 1] = seq[k]
<1>1. <<e>> \in Seq(S) /\ Len(<<e>>) = 1
  OBVIOUS
<1>2. <<e>> \o seq \in Seq(S) /\ Len(<<e>> \o seq) = Len(seq) + 1
  BY <1>1, ConcatProperties
<1>3. (<<e>> \o seq)[1] = e
  BY <1>1, <1>2, ConcatProperties
<1>4. ASSUME NEW k \in 1 .. Len(seq)
      PROVE  (<<e>> \o seq)[k + 1] = seq[k]
  BY <1>1, <1>2, ConcatProperties
<1> QED
  BY <1>2, <1>3, <1>4

\* The paths say what the runs check of the walks.
LEMMA ShapeHolds ==
  ASSUME ListTypes, NEW p, Shape(p), ~panicked
  PROVE  ListsHold
<1>0. \A h \in Handles : /\ content[h] \in Seq(Elems) /\ Len(content[h]) \in Nat
                         /\ DOMAIN content[h] = 1 .. Len(content[h])
                         /\ (content[h] = <<>> <=> Len(content[h]) = 0)
                         /\ Len(content[h]) <= MaxListNodes
  BY ChainShort DEF ListTypes, Shape
<1>1. \A h \in Handles : Chain(p[h], head[h], nodes, content[h])
  BY DEF Shape
<1>2. \A h \in Handles, m \in Nat :
        Follow(h, m) = IF m < Len(content[h]) THEN p[h][m + 1] ELSE None
  <2> TAKE h \in Handles, m \in Nat
  <2>1. IsHeap(nodes) /\ content[h] \in Seq(Elems) /\ Chain(p[h], head[h], nodes, content[h])
    BY <1>0, <1>1 DEF ListTypes
  <2> QED
    BY <2>1, WalkIsChain
<1>3. \A h \in Handles : \A k \in 1 .. Len(content[h]) :
        /\ k - 1 \in Nat /\ Follow(h, k - 1) = p[h][k] /\ p[h][k] \in DOMAIN nodes
        /\ p[h][k] # None /\ nodes[p[h][k]].elem = content[h][k]
  <2> TAKE h \in Handles
  <2> TAKE k \in 1 .. Len(content[h])
  <2>1. k - 1 \in Nat /\ k - 1 < Len(content[h]) /\ (k - 1) + 1 = k
    BY <1>0
  <2>2. Follow(h, k - 1) = p[h][k]
    BY <1>2, <2>1
  <2>3. p[h][k] \in DOMAIN nodes /\ nodes[p[h][k]].elem = content[h][k]
    BY <1>1 DEF Chain
  <2>4. p[h][k] # None
    BY <2>3 DEF ListTypes, IsHeap, None
  <2> QED
    BY <2>1, <2>2, <2>3, <2>4
<1>4. ASSUME NEW h \in Handles
      PROVE  Follow(h, Len(content[h])) = None
  BY <1>0, <1>2
<1>5. ASSUME NEW h \in Handles, listKind = "fourth"
      PROVE  /\ (head[h] = None) = (tail[h] = None)
             /\ \A k \in DOMAIN content[h] :
                  nodes[Follow(h, k - 1)].prev = IF k = 1 THEN None ELSE Follow(h, k - 2)
             /\ content[h] # <<>> => tail[h] = Follow(h, Len(content[h]) - 1)
  <2>1. BackChain(p[h], tail[h], nodes, content[h])
    BY <1>5 DEF Shape
  <2>2. CASE content[h] = <<>>
    <3>1. head[h] = None /\ tail[h] = None
      BY <1>1, <2>1, <2>2 DEF Chain, BackChain
    <3> QED
      BY <1>0, <2>2, <3>1
  <2>3. CASE content[h] # <<>>
    <3>1. 1 \in 1 .. Len(content[h]) /\ Len(content[h]) \in 1 .. Len(content[h])
      BY <1>0, <2>3
    <3>2. head[h] = p[h][1] /\ tail[h] = p[h][Len(content[h])]
      BY <1>1, <2>1, <2>3 DEF Chain, BackChain
    <3>3. (head[h] = None) = (tail[h] = None)
      <4>1. head[h] # None /\ tail[h] # None
        BY <1>3, <3>1, <3>2
      <4> QED
        BY <4>1
    <3>4. tail[h] = Follow(h, Len(content[h]) - 1)
      BY <1>3, <3>1, <3>2
    <3>5. ASSUME NEW k \in 1 .. Len(content[h])
          PROVE  nodes[Follow(h, k - 1)].prev = IF k = 1 THEN None ELSE Follow(h, k - 2)
      <4>1. nodes[Follow(h, k - 1)].prev = IF k = 1 THEN None ELSE p[h][k - 1]
        BY <1>3, <2>1 DEF BackChain
      <4>2. k # 1 => k - 1 \in 1 .. Len(content[h]) /\ (k - 1) - 1 = k - 2
        BY <1>0
      <4>3. k # 1 => Follow(h, k - 2) = p[h][k - 1]
        BY <1>3, <4>2
      <4> QED
        BY <4>1, <4>3
    <3> QED
      BY <1>0, <3>3, <3>4, <3>5
  <2> QED
    BY <2>2, <2>3
<1>6. DOMAIN nodes = {Follow(h, k) : h \in Handles, k \in 0 .. MaxListNodes} \ {None}
  <2>1. ASSUME NEW n \in DOMAIN nodes
        PROVE  n # None /\ \E h \in Handles, k \in 0 .. MaxListNodes : Follow(h, k) = n
    <3>1. PICK h \in Handles : \E k \in 1 .. Len(content[h]) : p[h][k] = n
      BY DEF Shape
    <3>2. PICK k \in 1 .. Len(content[h]) : p[h][k] = n
      BY <3>1
    <3>3. k - 1 \in 0 .. MaxListNodes /\ Follow(h, k - 1) = n /\ n # None
      BY <1>0, <1>3, <3>2, ListAssumption
    <3> QED
      BY <3>3
  <2>2. ASSUME NEW h \in Handles, NEW k \in 0 .. MaxListNodes, Follow(h, k) # None
        PROVE  Follow(h, k) \in DOMAIN nodes
    <3>1. k \in Nat /\ k < Len(content[h])
      BY <1>2, <2>2, ListAssumption
    <3>2. k + 1 \in 1 .. Len(content[h]) /\ Follow(h, k) = p[h][k + 1]
      BY <1>0, <1>2, <3>1
    <3> QED
      BY <1>3, <3>2
  <2> QED
    BY <2>1, <2>2
<1>7. ASSUME NEW h \in Handles
      PROVE  \A k \in DOMAIN content[h] :
               Follow(h, k - 1) # None /\ nodes[Follow(h, k - 1)].elem = content[h][k]
  BY <1>0, <1>3
<1>8. \A h \in Handles :
        /\ Follow(h, Len(content[h])) = None
        /\ \A k \in DOMAIN content[h] :
             Follow(h, k - 1) # None /\ nodes[Follow(h, k - 1)].elem = content[h][k]
        /\ listKind = "fourth" =>
             /\ (head[h] = None) = (tail[h] = None)
             /\ \A k \in DOMAIN content[h] :
                  nodes[Follow(h, k - 1)].prev = IF k = 1 THEN None ELSE Follow(h, k - 2)
             /\ content[h] # <<>> => tail[h] = Follow(h, Len(content[h]) - 1)
  BY <1>4, <1>5, <1>7, Zenon
<1> QED
  BY <1>6, <1>8 DEF ListsHold

\* What each operation is to show: there are paths after it.
Kept == ListTypes' /\ \E q : Shape(q)'

\* Only list h changes, to the path s; nobody else visits what is freed, or new.
OnlyChanges(p, h, s) ==
  /\ UNCHANGED listKind
  /\ \A g \in Handles : g # h =>
       /\ head'[g] = head[g] /\ tail'[g] = tail[g] /\ content'[g] = content[g]
       /\ \A k \in 1 .. Len(content[g]) :
            p[g][k] \in DOMAIN nodes' /\ nodes'[p[g][k]] = nodes[p[g][k]]
  /\ Chain(s, head'[h], nodes', content'[h])
  /\ listKind = "fourth" => BackChain(s, tail'[h], nodes', content'[h])
  /\ listKind # "third" => \A g \in Handles : g # h =>
       \A j \in 1 .. Len(content[g]), k \in 1 .. Len(content'[h]) : p[g][j] # s[k]
  /\ \A n \in DOMAIN nodes' :
       \/ \E k \in 1 .. Len(content'[h]) : s[k] = n
       \/ \E g \in Handles : g # h /\ \E k \in 1 .. Len(content[g]) : p[g][k] = n

\* Then all lists have their paths.
LEMMA OneListChanges ==
  ASSUME ListTypes', NEW p, Shape(p), NEW h \in Handles, NEW s, OnlyChanges(p, h, s)
  PROVE  Kept
<1> USE DEF OnlyChanges
<1> DEFINE q == [g \in Handles |-> IF g = h THEN s ELSE p[g]]
<1>0. q[h] = s /\ \A g \in Handles : g # h => q[g] = p[g]
  OBVIOUS
<1> HIDE DEF q
<1>1. ASSUME NEW g \in Handles
      PROVE  Chain(q[g], head'[g], nodes', content'[g])
  <2>1. CASE g = h
    BY <1>0, <2>1
  <2>2. CASE g # h
    <3>1. Chain(p[g], head[g], nodes, content[g])
      BY DEF Shape
    <3>2. p[g] \in [1 .. Len(content[g]) -> DOMAIN nodes']
      BY <2>2, <3>1 DEF Chain
    <3>3. \A k \in 1 .. Len(content[g]) : nodes'[p[g][k]] = nodes[p[g][k]]
      BY <2>2
    <3>4. Chain(p[g], head[g], nodes', content[g])
      BY <3>1, <3>2, <3>3 DEF Chain
    <3> QED
      BY <1>0, <2>2, <3>4
  <2> QED
    BY <2>1, <2>2
<1>2. ASSUME NEW g \in Handles, listKind = "fourth"
      PROVE  BackChain(q[g], tail'[g], nodes', content'[g])
  <2>1. CASE g = h
    BY <1>0, <1>2, <2>1
  <2>2. CASE g # h
    <3>1. BackChain(p[g], tail[g], nodes, content[g])
      BY <1>2 DEF Shape
    <3> QED
      BY <1>0, <2>2, <3>1 DEF BackChain
  <2> QED
    BY <2>1, <2>2
<1>3. ASSUME listKind # "third", NEW g \in Handles, NEW f \in Handles, g # f,
             NEW j \in 1 .. Len(content'[g]), NEW k \in 1 .. Len(content'[f])
      PROVE  q[g][j] # q[f][k]
  <2>1. CASE g = h
    BY <1>0, <1>3, <2>1
  <2>2. CASE f = h
    BY <1>0, <1>3, <2>2
  <2>3. CASE g # h /\ f # h
    <3>1. p[g][j] # p[f][k]
      BY <1>3, <2>3 DEF Shape
    <3> QED
      BY <1>0, <2>3, <3>1
  <2> QED
    BY <2>1, <2>2, <2>3
<1>4. ASSUME NEW n \in DOMAIN nodes'
      PROVE  \E g \in Handles : \E k \in 1 .. Len(content'[g]) : q[g][k] = n
  BY <1>0
<1>5. Shape(q)'
  BY <1>1, <1>2, <1>3, <1>4 DEF Shape
<1> QED
  BY <1>5 DEF Kept

\* A node comes into the heap,
LEMMA HeapWith ==
  ASSUME IsHeap(nodes), NEW n \in 1 .. MaxListNodes, n \notin DOMAIN nodes, NEW node \in ListNode
  PROVE  /\ IsHeap(With(n, node)) /\ DOMAIN With(n, node) = DOMAIN nodes \cup {n}
         /\ With(n, node)[n] = node
         /\ \A m \in DOMAIN nodes : With(n, node)[m] = nodes[m]
  BY DEF IsHeap, With

\* and goes.
LEMMA HeapWithout ==
  ASSUME NEW heap, IsHeap(heap), NEW n
  PROVE  /\ IsHeap(Without(n, heap)) /\ DOMAIN Without(n, heap) = DOMAIN heap \ {n}
         /\ \A m \in DOMAIN heap \ {n} : Without(n, heap)[m] = heap[m]
  BY DEF IsHeap, Without

\* t is the path s with the node n in front.
Pushed(t, s, n, after, seq, e) ==
  /\ Chain(t, n, after, <<e>> \o seq) /\ t[1] = n
  /\ \A k \in 1 .. Len(seq) : t[k + 1] = s[k]

\* A new node in front of a path.
LEMMA ChainPush ==
  ASSUME NEW seq \in Seq(Elems), NEW e \in Elems, NEW s, NEW first, NEW heap, NEW after, NEW n,
         Chain(s, first, heap, seq), n \notin DOMAIN heap,
         n \in DOMAIN after, after[n].elem = e, after[n].next = first,
         \A m \in DOMAIN heap : m \in DOMAIN after /\ after[m].elem = heap[m].elem
                                /\ after[m].next = heap[m].next
  PROVE  \E t : Pushed(t, s, n, after, seq, e)
<1> DEFINE N == Len(seq)
           t == [k \in 1 .. N + 1 |-> IF k = 1 THEN n ELSE s[k - 1]]
           longer == <<e>> \o seq
<1>0. N \in Nat /\ (seq = <<>> <=> N = 0) /\ Len(longer) = N + 1 /\ longer # <<>>
      /\ longer[1] = e /\ \A k \in 1 .. N : longer[k + 1] = seq[k]
  BY SeqFront
<1>1. \A k \in 1 .. N : s[k] \in DOMAIN heap /\ s[k] # n
  BY DEF Chain
<1>2. t[1] = n /\ \A k \in 1 .. N : t[k + 1] = s[k]
  BY <1>0
<1>3. t \in [1 .. N + 1 -> DOMAIN after]
  BY <1>0, <1>1
<1> HIDE DEF t, longer, N
<1>4. \A k \in 1 .. N + 1 : k = 1 \/ (k - 1 \in 1 .. N /\ (k - 1) + 1 = k)
  BY <1>0
<1>5. ASSUME NEW k \in 1 .. N + 1
      PROVE  after[t[k]].elem = longer[k]
  <2>1. CASE k = 1
    BY <1>0, <1>2, <2>1
  <2>2. CASE k # 1
    <3>1. PICK j \in 1 .. N : k = j + 1
      BY <1>4, <2>2
    <3>2. heap[s[j]].elem = seq[j]
      BY DEF Chain, N
    <3> QED
      BY <1>0, <1>1, <1>2, <3>1, <3>2
  <2> QED
    BY <2>1, <2>2
<1>6. ASSUME NEW k \in 1 .. N + 1
      PROVE  after[t[k]].next = IF k = N + 1 THEN None ELSE t[k + 1]
  <2>1. CASE k = 1 /\ N = 0
    <3>1. first = None
      BY <1>0, <2>1 DEF Chain
    <3> QED
      BY <1>2, <2>1, <3>1
  <2>2. CASE k = 1 /\ N # 0
    <3>1. first = s[1] /\ 1 \in 1 .. N /\ 1 + 1 = 2 /\ 1 # N + 1
      BY <1>0, <2>2 DEF Chain
    <3> QED
      BY <1>2, <2>2, <3>1
  <2>3. CASE k # 1
    <3>1. PICK j \in 1 .. N : k = j + 1
      BY <1>4, <2>3
    <3>2. heap[s[j]].next = IF j = N THEN None ELSE s[j + 1]
      BY DEF Chain, N
    <3>3. (k = N + 1 <=> j = N) /\ (j # N => j + 1 \in 1 .. N)
      BY <1>0, <3>1
    <3> QED
      BY <1>1, <1>2, <3>1, <3>2, <3>3
  <2> QED
    BY <2>1, <2>2, <2>3
<1>7. ASSUME NEW j \in 1 .. N + 1, NEW k \in 1 .. N + 1, t[j] = t[k]
      PROVE  j = k
  <2>1. \A i, m \in 1 .. N : s[i] = s[m] => i = m
    BY DEF Chain, N
  <2>2. CASE j = 1 \/ k = 1
    BY <1>1, <1>2, <1>4, <1>7, <2>2
  <2>3. CASE j # 1 /\ k # 1
    <3>1. j - 1 \in 1 .. N /\ k - 1 \in 1 .. N /\ t[j] = s[j - 1] /\ t[k] = s[k - 1]
      BY <1>2, <1>4, <2>3
    <3>2. j - 1 = k - 1
      BY <1>7, <2>1, <3>1
    <3> QED
      BY <1>0, <3>2
  <2> QED
    BY <2>2, <2>3
<1>8. Chain(t, n, after, longer)
  BY <1>0, <1>2, <1>3, <1>5, <1>6, <1>7 DEF Chain
<1> QED
  BY <1>2, <1>8 DEF longer, N, Pushed

\* t is the path s without its first node.
Shifted(t, s, second, after, seq) ==
  Chain(t, second, after, Tail(seq)) /\ \A k \in 1 .. Len(seq) - 1 : t[k] = s[k + 1]

\* The first node of a path goes.
LEMMA ChainPop ==
  ASSUME NEW seq \in Seq(Elems), seq # <<>>, NEW s, NEW first, NEW heap, NEW after,
         Chain(s, first, heap, seq),
         \A m \in DOMAIN heap \ {first} : m \in DOMAIN after /\ after[m].elem = heap[m].elem
                                          /\ after[m].next = heap[m].next
  PROVE  /\ first = s[1] /\ first \in DOMAIN heap /\ Tail(seq) \in Seq(Elems)
         /\ Len(Tail(seq)) = Len(seq) - 1
         /\ \E t : Shifted(t, s, heap[first].next, after, seq)
<1> DEFINE N == Len(seq) - 1
           t == [k \in 1 .. N |-> s[k + 1]]
<1>0. /\ N \in Nat /\ Len(seq) = N + 1 /\ Tail(seq) \in Seq(Elems) /\ Len(Tail(seq)) = N
      /\ (Tail(seq) = <<>> <=> N = 0) /\ \A k \in 1 .. N : Tail(seq)[k] = seq[k + 1]
  <2>1. Len(seq) \in Nat \ {0}
    OBVIOUS
  <2>2. Tail(seq) \in Seq(Elems) /\ Len(Tail(seq)) = Len(seq) - 1
    OBVIOUS
  <2>3. \A k \in 1 .. Len(seq) - 1 : Tail(seq)[k] = seq[k + 1]
    OBVIOUS
  <2>4. Tail(seq) = <<>> <=> Len(Tail(seq)) = 0
    BY <2>2, EmptyByLength
  <2> QED
    BY <2>1, <2>2, <2>3, <2>4
<1> HIDE DEF N
<1>1. \A k \in 1 .. N + 1 : s[k] \in DOMAIN heap
  BY <1>0 DEF Chain
<1>2. 1 \in 1 .. N + 1 /\ \A k \in 1 .. N : k + 1 \in 1 .. N + 1 /\ k \in 1 .. N + 1 /\ k + 1 # 1
  BY <1>0
<1>3. first = s[1] /\ \A k \in 1 .. N : s[k + 1] # first
  BY <1>0, <1>2 DEF Chain
<1>4. t \in [1 .. N -> DOMAIN after] /\ \A k \in 1 .. N : t[k] = s[k + 1]
  BY <1>1, <1>2, <1>3
<1> HIDE DEF t
<1>5. heap[first].next = IF N = 0 THEN None ELSE t[1]
  <2>1. heap[s[1]].next = IF 1 = N + 1 THEN None ELSE s[1 + 1]
    BY <1>0, <1>2 DEF Chain
  <2>2. N # 0 => t[1] = s[1 + 1]
    BY <1>0, <1>4
  <2> QED
    BY <1>0, <1>3, <2>1, <2>2
<1>6. ASSUME NEW k \in 1 .. N
      PROVE  /\ after[t[k]].elem = Tail(seq)[k]
             /\ after[t[k]].next = IF k = N THEN None ELSE t[k + 1]
  <2>1. t[k] = s[k + 1] /\ after[t[k]].elem = heap[s[k + 1]].elem /\ after[t[k]].next = heap[s[k + 1]].next
    BY <1>1, <1>2, <1>3, <1>4
  <2>2. /\ heap[s[k + 1]].elem = seq[k + 1]
        /\ heap[s[k + 1]].next = IF k + 1 = N + 1 THEN None ELSE s[(k + 1) + 1]
    BY <1>0, <1>2 DEF Chain
  <2>3. k # N => k + 1 \in 1 .. N /\ t[k + 1] = s[(k + 1) + 1]
    BY <1>0, <1>4
  <2> QED
    BY <1>0, <2>1, <2>2, <2>3
<1>7. ASSUME NEW j \in 1 .. N, NEW k \in 1 .. N, t[j] = t[k]
      PROVE  j = k
  <2>1. j + 1 = k + 1
    BY <1>0, <1>2, <1>4, <1>7 DEF Chain
  <2> QED
    BY <2>1
<1>8. Chain(t, heap[first].next, after, Tail(seq))
  BY <1>0, <1>4, <1>5, <1>6, <1>7 DEF Chain
<1> QED
  BY <1>0, <1>1, <1>2, <1>3, <1>4, <1>8 DEF N, Shifted

\* push of the stacks.
LEMMA PushKeeps ==
  ASSUME ListTypes, NEW p, Shape(p), NEW h \in Handles, NEW e \in Elems,
         listKind # "fourth", push(h, e)
  PROVE  Kept
<1> DEFINE seq == content[h]
           first == head[h]
           node == [elem |-> e, prev |-> None, next |-> first]
<1>0. seq \in Seq(Elems) /\ Len(seq) \in Nat /\ first \in Nat /\ node \in ListNode
      /\ Chain(p[h], first, nodes, seq) /\ IsHeap(nodes)
  BY DEF ListTypes, Shape, ListNode, None
<1>1. PICK n \in 1 .. MaxListNodes : n = Fresh /\ n \notin DOMAIN nodes
  BY <1>0, FreshNode DEF push
<1>2. nodes' = With(n, node)
  BY <1>1 DEF push
<1>3. /\ IsHeap(nodes') /\ DOMAIN nodes' = DOMAIN nodes \cup {n}
      /\ nodes'[n] = node /\ \A m \in DOMAIN nodes : nodes'[m] = nodes[m]
  BY <1>0, <1>1, <1>2, HeapWith
<1>4. nodes'[n].elem = e /\ nodes'[n].next = first
  BY <1>3
<1>5. head' = [head EXCEPT ![h] = n] /\ content' = [content EXCEPT ![h] = <<e>> \o seq]
      /\ UNCHANGED <<listKind, tail, panicked>>
  BY <1>1 DEF push, Elements
<1>6. <<e>> \o seq \in Seq(Elems) /\ Len(<<e>> \o seq) = Len(seq) + 1
  BY <1>0, SeqFront
<1>7. ListTypes'
  BY <1>3, <1>5, <1>6 DEF ListTypes
<1> HIDE DEF node, first, seq
<1>8. PICK t : /\ Chain(t, n, nodes', <<e>> \o seq) /\ t[1] = n
               /\ \A k \in 1 .. Len(seq) : t[k + 1] = p[h][k]
  <2>1. \A m \in DOMAIN nodes : m \in DOMAIN nodes' /\ nodes'[m].elem = nodes[m].elem
                                 /\ nodes'[m].next = nodes[m].next
    BY <1>3
  <2>2. \E t : Pushed(t, p[h], n, nodes', seq, e)
    BY <1>0, <1>1, <1>3, <1>4, <2>1, ChainPush
  <2> QED
    BY <2>2 DEF Pushed
<1>9. head'[h] = n /\ content'[h] = <<e>> \o seq /\ content[h] = seq
  BY <1>5 DEF ListTypes, seq
<1>10. \A g \in Handles : \A k \in 1 .. Len(content[g]) : p[g][k] \in DOMAIN nodes
  BY DEF Shape, Chain
<1>11. \A g \in Handles : g # h =>
           /\ head'[g] = head[g] /\ tail'[g] = tail[g] /\ content'[g] = content[g]
           /\ \A k \in 1 .. Len(content[g]) :
                p[g][k] \in DOMAIN nodes' /\ nodes'[p[g][k]] = nodes[p[g][k]]
  BY <1>3, <1>5, <1>10 DEF ListTypes
<1>12. \A k \in 1 .. Len(seq) + 1 : k = 1 \/ (k - 1 \in 1 .. Len(seq) /\ t[k] = p[h][k - 1])
  BY <1>0, <1>8
<1>13. \A g \in Handles : g # h /\ listKind # "third" =>
           \A j \in 1 .. Len(content[g]), k \in 1 .. Len(content[h]) : p[g][j] # p[h][k]
  BY DEF Shape
<1>14. listKind # "third" => \A g \in Handles : g # h =>
           \A j \in 1 .. Len(content[g]), k \in 1 .. Len(content'[h]) : p[g][j] # t[k]
  <2> SUFFICES ASSUME listKind # "third", NEW g \in Handles, g # h,
                      NEW j \in 1 .. Len(content[g]), NEW k \in 1 .. Len(seq) + 1
               PROVE  p[g][j] # t[k]
    BY <1>6, <1>9
  <2>1. p[g][j] # n
    BY <1>1, <1>10
  <2>2. \A i \in 1 .. Len(seq) : p[g][j] # p[h][i]
    BY <1>9, <1>13
  <2> QED
    BY <1>8, <1>12, <2>1, <2>2
<1>15. \A n1 \in DOMAIN nodes' :
          \/ \E k \in 1 .. Len(content'[h]) : t[k] = n1
          \/ \E g \in Handles : g # h /\ \E k \in 1 .. Len(content[g]) : p[g][k] = n1
  <2> TAKE n1 \in DOMAIN nodes'
  <2>1. CASE n1 = n
    <3>1. Len(content'[h]) = Len(seq) + 1 /\ Len(seq) \in Nat
      BY <1>0, <1>6, <1>9
    <3>2. 1 \in 1 .. Len(content'[h]) /\ t[1] = n1
      BY <1>8, <2>1, <3>1
    <3> QED
      BY <3>2
  <2>2. CASE n1 # n
    <3>1. PICK g \in Handles : \E k \in 1 .. Len(content[g]) : p[g][k] = n1
      BY <1>3, <2>2 DEF Shape
    <3>2. CASE g = h
      <4>1. PICK k \in 1 .. Len(seq) : p[h][k] = n1
        BY <1>9, <3>1, <3>2
      <4>2. k + 1 \in 1 .. Len(seq) + 1 /\ t[k + 1] = n1
        BY <1>0, <1>8, <4>1
      <4> QED
        BY <1>6, <1>9, <4>2
    <3> QED
      BY <3>1, <3>2
  <2> QED
    BY <2>1, <2>2
<1>16. OnlyChanges(p, h, t)
  BY <1>5, <1>8, <1>9, <1>11, <1>14, <1>15 DEF OnlyChanges
<1> QED
  BY <1>7, <1>16, OneListChanges

\* pop of the stacks.
LEMMA PopKeeps ==
  ASSUME ListTypes, NEW p, Shape(p), NEW h \in Handles, listKind \notin {"third", "fourth"}, pop(h)
  PROVE  Kept
<1> DEFINE seq == content[h]
           first == head[h]
<1>0. seq \in Seq(Elems) /\ Len(seq) \in Nat /\ Chain(p[h], first, nodes, seq) /\ IsHeap(nodes)
  BY DEF ListTypes, Shape
<1>1. seq # <<>>
  BY <1>0 DEF pop, Chain
<1>2. /\ head' = [head EXCEPT ![h] = nodes[first].next] /\ content' = [content EXCEPT ![h] = Tail(seq)]
      /\ nodes' = Without(first, nodes) /\ UNCHANGED <<listKind, tail, panicked>>
  BY DEF pop, Elements
<1>3. /\ IsHeap(nodes') /\ DOMAIN nodes' = DOMAIN nodes \ {first}
      /\ \A m \in DOMAIN nodes \ {first} : nodes'[m] = nodes[m]
  BY <1>0, <1>2, HeapWithout
<1>4. \A m \in DOMAIN nodes \ {first} : m \in DOMAIN nodes' /\ nodes'[m].elem = nodes[m].elem
                                        /\ nodes'[m].next = nodes[m].next
  BY <1>3
<1> HIDE DEF first, seq
<1>5. /\ first = p[h][1] /\ first \in DOMAIN nodes /\ Tail(seq) \in Seq(Elems)
      /\ Len(Tail(seq)) = Len(seq) - 1
      /\ \E t : Shifted(t, p[h], nodes[first].next, nodes', seq)
  BY <1>0, <1>1, <1>4, ChainPop
<1>6. PICK t : /\ Chain(t, nodes[first].next, nodes', Tail(seq))
               /\ \A k \in 1 .. Len(seq) - 1 : t[k] = p[h][k + 1]
  BY <1>5 DEF Shifted
<1>7. nodes[first].next \in Nat
  BY <1>0, <1>5 DEF IsHeap, ListNode
<1>8. ListTypes'
  BY <1>2, <1>3, <1>5, <1>7 DEF ListTypes
<1>9. head'[h] = nodes[first].next /\ content'[h] = Tail(seq) /\ content[h] = seq
  BY <1>2 DEF ListTypes, seq
<1>10. \A g \in Handles : \A k \in 1 .. Len(content[g]) : p[g][k] \in DOMAIN nodes
  BY DEF Shape, Chain
<1>11. 1 \in 1 .. Len(content[h]) /\ \A k \in 1 .. Len(seq) - 1 : k + 1 \in 1 .. Len(content[h])
  BY <1>0, <1>1, <1>9, EmptyByLength
<1>12. \A g \in Handles : g # h => \A j \in 1 .. Len(content[g]), k \in 1 .. Len(content[h]) : p[g][j] # p[h][k]
  BY DEF Shape
<1>13. \A g \in Handles : g # h => \A k \in 1 .. Len(content[g]) : p[g][k] # first
  BY <1>5, <1>11, <1>12
<1>14. \A g \in Handles : g # h =>
           /\ head'[g] = head[g] /\ tail'[g] = tail[g] /\ content'[g] = content[g]
           /\ \A k \in 1 .. Len(content[g]) :
                p[g][k] \in DOMAIN nodes' /\ nodes'[p[g][k]] = nodes[p[g][k]]
  BY <1>2, <1>3, <1>10, <1>13 DEF ListTypes
<1>15. listKind # "third" => \A g \in Handles : g # h =>
           \A j \in 1 .. Len(content[g]), k \in 1 .. Len(content'[h]) : p[g][j] # t[k]
  BY <1>5, <1>6, <1>9, <1>11, <1>12
<1>16. \A n \in DOMAIN nodes' :
          \/ \E k \in 1 .. Len(content'[h]) : t[k] = n
          \/ \E g \in Handles : g # h /\ \E k \in 1 .. Len(content[g]) : p[g][k] = n
  <2> TAKE n \in DOMAIN nodes'
  <2>1. PICK g \in Handles : \E k \in 1 .. Len(content[g]) : p[g][k] = n
    BY <1>3 DEF Shape
  <2>2. CASE g = h
    <3>1. PICK k \in 1 .. Len(seq) : p[h][k] = n
      BY <1>9, <2>1, <2>2
    <3>2. k # 1
      BY <1>3, <1>5, <3>1
    <3>3. k - 1 \in 1 .. Len(seq) - 1 /\ (k - 1) + 1 = k
      BY <1>0, <3>1, <3>2
    <3>4. t[k - 1] = n
      BY <1>6, <3>1, <3>3
    <3> QED
      BY <1>5, <1>9, <3>3, <3>4
  <2> QED
    BY <2>1, <2>2
<1>17. OnlyChanges(p, h, t)
  <2>1. Chain(t, head'[h], nodes', content'[h]) /\ UNCHANGED listKind
    BY <1>2, <1>6, <1>9
  <2>2. listKind = "fourth" => BackChain(t, tail'[h], nodes', content'[h])
    OBVIOUS
  <2> QED
    BY <1>14, <1>15, <1>16, <2>1, <2>2 DEF OnlyChanges
<1> QED
  BY <1>8, <1>17, OneListChanges

\* A new value in a node of one list.
LEMMA WriteKeeps ==
  ASSUME ListTypes, NEW p, Shape(p), NEW h \in Handles, NEW e \in Elems,
         listKind # "third", NEW i \in 1 .. Len(content[h]),
         nodes' = [nodes EXCEPT ![p[h][i]].elem = e],
         content' = [content EXCEPT ![h] = [content[h] EXCEPT ![i] = e]],
         UNCHANGED <<listKind, head, tail, panicked>>
  PROVE  Kept
<1> DEFINE seq == content[h]
           n == p[h][i]
           written == [seq EXCEPT ![i] = e]
<1>0. seq \in Seq(Elems) /\ Len(seq) \in Nat /\ Chain(p[h], head[h], nodes, seq) /\ IsHeap(nodes)
  BY DEF ListTypes, Shape
<1>1. /\ written \in Seq(Elems) /\ Len(written) = Len(seq) /\ written[i] = e
      /\ \A k \in 1 .. Len(seq) : k # i => written[k] = seq[k]
  BY <1>0
<1>2. (written = <<>> <=> Len(seq) = 0) /\ (seq = <<>> <=> Len(seq) = 0) /\ i \in 1 .. Len(seq)
  BY <1>0, <1>1, EmptyByLength
<1>3. n \in DOMAIN nodes
  BY <1>0 DEF Chain
<1>4. nodes[n] \in ListNode
  BY <1>0, <1>3 DEF IsHeap
<1>5. [nodes[n] EXCEPT !.elem = e] \in ListNode
  BY <1>4 DEF ListNode
<1>6. /\ DOMAIN nodes' = DOMAIN nodes /\ nodes'[n] = [nodes[n] EXCEPT !.elem = e]
      /\ \A m \in DOMAIN nodes : m # n => nodes'[m] = nodes[m]
  BY <1>0, <1>3 DEF IsHeap
<1>7. nodes'[n].elem = e /\ nodes'[n].next = nodes[n].next /\ nodes'[n].prev = nodes[n].prev
  BY <1>4, <1>6 DEF ListNode
<1>8. IsHeap(nodes')
  <2>1. nodes' = [m \in DOMAIN nodes |-> nodes'[m]]
    BY <1>0 DEF IsHeap
  <2>2. \A m \in DOMAIN nodes : nodes'[m] \in ListNode
    BY <1>0, <1>5, <1>6 DEF IsHeap
  <2> QED
    BY <1>0, <1>6, <2>1, <2>2 DEF IsHeap
<1>9. content' = [content EXCEPT ![h] = written] /\ content[h] = seq
  OBVIOUS
<1> HIDE DEF written, seq, n
<1>10. content'[h] = written
  BY <1>9 DEF ListTypes
<1>11. ListTypes'
  BY <1>1, <1>8, <1>9 DEF ListTypes
<1>12. \A k \in 1 .. Len(seq) : p[h][k] = n => k = i
  BY <1>0, <1>2 DEF Chain, n
<1>13. \A k \in 1 .. Len(seq) : p[h][k] \in DOMAIN nodes
  BY <1>0 DEF Chain
<1>14. ASSUME NEW k \in 1 .. Len(seq)
       PROVE  /\ nodes'[p[h][k]].elem = written[k]
              /\ nodes'[p[h][k]].next = nodes[p[h][k]].next
              /\ nodes'[p[h][k]].prev = nodes[p[h][k]].prev
  <2>1. CASE k = i
    BY <1>1, <1>7, <2>1 DEF n
  <2>2. CASE k # i
    <3>1. nodes'[p[h][k]] = nodes[p[h][k]]
      BY <1>6, <1>12, <1>13, <2>2
    <3>2. nodes[p[h][k]].elem = seq[k]
      BY <1>0 DEF Chain
    <3> QED
      BY <1>1, <2>2, <3>1, <3>2
  <2> QED
    BY <2>1, <2>2
<1>15. Chain(p[h], head'[h], nodes', content'[h])
  BY <1>0, <1>1, <1>2, <1>6, <1>10, <1>14 DEF Chain
<1>16. listKind = "fourth" => BackChain(p[h], tail'[h], nodes', content'[h])
  <2> SUFFICES ASSUME listKind = "fourth"
               PROVE  BackChain(p[h], tail[h], nodes', written)
    BY <1>10
  <2>1. BackChain(p[h], tail[h], nodes, seq)
    BY <1>9 DEF Shape
  <2> QED
    BY <1>1, <1>2, <1>14, <2>1 DEF BackChain
<1>17. \A g \in Handles : g # h => \A j \in 1 .. Len(content[g]), k \in 1 .. Len(seq) : p[g][j] # p[h][k]
  BY <1>9 DEF Shape
<1>18. \A g \in Handles : \A k \in 1 .. Len(content[g]) : p[g][k] \in DOMAIN nodes
  BY DEF Shape, Chain
<1>19. \A g \in Handles : g # h =>
           /\ head'[g] = head[g] /\ tail'[g] = tail[g] /\ content'[g] = content[g]
           /\ \A k \in 1 .. Len(content[g]) :
                p[g][k] \in DOMAIN nodes' /\ nodes'[p[g][k]] = nodes[p[g][k]]
  BY <1>2, <1>6, <1>9, <1>17, <1>18 DEF ListTypes, n
<1>20. \A m \in DOMAIN nodes' :
          \/ \E k \in 1 .. Len(content'[h]) : p[h][k] = m
          \/ \E g \in Handles : g # h /\ \E k \in 1 .. Len(content[g]) : p[g][k] = m
  <2> TAKE m \in DOMAIN nodes'
  <2>1. PICK g \in Handles : \E k \in 1 .. Len(content[g]) : p[g][k] = m
    BY <1>6 DEF Shape
  <2> QED
    BY <1>1, <1>9, <1>10, <2>1
<1>21. OnlyChanges(p, h, p[h])
  <2>1. UNCHANGED listKind /\ Len(content'[h]) = Len(seq)
    BY <1>1, <1>10
  <2>2. listKind # "third" => \A g \in Handles : g # h =>
          \A j \in 1 .. Len(content[g]), k \in 1 .. Len(content'[h]) : p[g][j] # p[h][k]
    BY <1>17, <2>1
  <2> QED
    BY <1>15, <1>16, <1>19, <1>20, <2>1, <2>2 DEF OnlyChanges
<1> QED
  BY <1>11, <1>21, OneListChanges

\* iter_mut writes through the walk.
LEMMA IterMutKeeps ==
  ASSUME ListTypes, NEW p, Shape(p), NEW h \in Handles, NEW e \in Elems, NEW k \in Nat,
         listKind # "third", iter_mut(h, k, e)
  PROVE  Kept
<1>0. content[h] \in Seq(Elems) /\ Len(content[h]) \in Nat /\ IsHeap(nodes)
      /\ Chain(p[h], head[h], nodes, content[h])
  BY DEF ListTypes, Shape
<1>1. Follow(h, k) = IF k < Len(content[h]) THEN p[h][k + 1] ELSE None
  BY <1>0, WalkIsChain
<1>2. k < Len(content[h]) /\ Follow(h, k) = p[h][k + 1] /\ k + 1 \in 1 .. Len(content[h])
  BY <1>0, <1>1 DEF iter_mut
<1> QED
  BY <1>2, WriteKeeps DEF iter_mut, Elements

\* drop frees the nodes of its list only.
LEMMA DropKeeps ==
  ASSUME ListTypes, NEW p, Shape(p), NEW h \in Handles, listKind \notin {"third", "fourth"}, drop(h)
  PROVE  Kept
<1> DEFINE seq == content[h]
           gone == {Follow(h, k) : k \in 0 .. MaxListNodes}
<1>0. seq \in Seq(Elems) /\ Len(seq) \in Nat /\ Chain(p[h], head[h], nodes, seq) /\ IsHeap(nodes)
  BY DEF ListTypes, Shape
<1>1. Len(seq) <= MaxListNodes
  BY <1>0, ChainShort
<1>2. \A k \in Nat : Follow(h, k) = IF k < Len(seq) THEN p[h][k + 1] ELSE None
  BY <1>0, WalkIsChain
<1>3. /\ head' = [head EXCEPT ![h] = None] /\ content' = [content EXCEPT ![h] = <<>>]
      /\ nodes' = [n \in DOMAIN nodes \ gone |-> nodes[n]] /\ UNCHANGED <<listKind, tail, panicked>>
  BY DEF drop, Elements
<1>4. \A k \in 1 .. Len(seq) : p[h][k] \in gone
  <2> TAKE k \in 1 .. Len(seq)
  <2>1. k - 1 \in 0 .. MaxListNodes /\ k - 1 \in Nat /\ k - 1 < Len(seq) /\ (k - 1) + 1 = k
    BY <1>0, <1>1, ListAssumption
  <2> QED
    BY <1>2, <2>1
<1>5. \A n \in gone : n = None \/ \E k \in 1 .. Len(seq) : p[h][k] = n
  <2> TAKE n \in gone
  <2>1. PICK k \in 0 .. MaxListNodes : n = Follow(h, k)
    OBVIOUS
  <2>2. k \in Nat /\ (k < Len(seq) => k + 1 \in 1 .. Len(seq))
    BY <1>0, ListAssumption
  <2> QED
    BY <1>2, <2>1, <2>2
<1> HIDE DEF gone, seq
<1>6. /\ IsHeap(nodes') /\ DOMAIN nodes' = DOMAIN nodes \ gone
      /\ \A n \in DOMAIN nodes \ gone : nodes'[n] = nodes[n]
  BY <1>0, <1>3 DEF IsHeap
<1>7. head'[h] = None /\ content'[h] = <<>> /\ content[h] = seq /\ Len(content'[h]) = 0
  BY <1>3 DEF ListTypes, seq
<1>8. ListTypes'
  BY <1>3, <1>6 DEF ListTypes, None
<1>9. \A g \in Handles : \A k \in 1 .. Len(content[g]) : p[g][k] \in DOMAIN nodes /\ p[g][k] # None
  BY <1>0 DEF Shape, Chain, IsHeap, None
<1>10. \A g \in Handles : g # h => \A j \in 1 .. Len(content[g]), k \in 1 .. Len(seq) : p[g][j] # p[h][k]
  BY <1>7 DEF Shape
<1>11. \A g \in Handles : g # h =>
           /\ head'[g] = head[g] /\ tail'[g] = tail[g] /\ content'[g] = content[g]
           /\ \A k \in 1 .. Len(content[g]) :
                p[g][k] \in DOMAIN nodes' /\ nodes'[p[g][k]] = nodes[p[g][k]]
  <2> TAKE g \in Handles
  <2> HAVE g # h
  <2>1. \A k \in 1 .. Len(content[g]) : p[g][k] \in DOMAIN nodes \ gone
    BY <1>5, <1>9, <1>10
  <2> QED
    BY <1>3, <1>6, <2>1 DEF ListTypes
<1>12. \A n \in DOMAIN nodes' : \E g \in Handles : g # h /\ \E k \in 1 .. Len(content[g]) : p[g][k] = n
  <2> TAKE n \in DOMAIN nodes'
  <2>1. PICK g \in Handles : \E k \in 1 .. Len(content[g]) : p[g][k] = n
    BY <1>6 DEF Shape
  <2>2. g # h
    BY <1>4, <1>6, <1>7, <2>1
  <2> QED
    BY <2>1, <2>2
<1>13. PICK s : s = [k \in 1 .. 0 |-> None]
  OBVIOUS
<1>14. Chain(s, head'[h], nodes', content'[h])
  BY <1>7, <1>13 DEF Chain
<1>15. OnlyChanges(p, h, s)
  <2>1. UNCHANGED listKind /\ (listKind = "fourth" => BackChain(s, tail'[h], nodes', content'[h]))
    BY <1>3
  <2>2. listKind # "third" => \A g \in Handles : g # h =>
          \A j \in 1 .. Len(content[g]), k \in 1 .. Len(content'[h]) : p[g][j] # s[k]
    BY <1>7
  <2>3. \A n \in DOMAIN nodes' :
          \/ \E k \in 1 .. Len(content'[h]) : s[k] = n
          \/ \E g \in Handles : g # h /\ \E k \in 1 .. Len(content[g]) : p[g][k] = n
    BY <1>12
  <2> QED
    BY <1>11, <1>14, <2>1, <2>2, <2>3 DEF OnlyChanges
<1> QED
  BY <1>8, <1>15, OneListChanges

\* The first nodes, and the nodes on the paths con long from them.
Heads(hd) == {hd[f] : f \in Handles}
Chained(q, con, heap) == {n \in DOMAIN heap : \E f \in Handles : \E k \in 1 .. Len(con[f]) : q[f][k] = n}

\* What Rc keeps alive is what the paths visit: the least round in which a node that
\* no path visits is counted cannot be.
LEMMA AliveIsChains ==
  ASSUME NEW hd, NEW heap, IsHeap(heap), NEW con \in [Handles -> Seq(Elems)], NEW q,
         \A f \in Handles : Chain(q[f], hd[f], heap, con[f])
  PROVE  Alive(Heads(hd), heap) = Chained(q, con, heap)
<1> DEFINE from == {hd[f] : f \in Handles}
           Goes(w) == w = [i \in Nat |-> IF i = 0 THEN from \ {None}
                             ELSE w[i - 1] \cup ({heap[n].next : n \in w[i - 1]} \ {None})]
           Upto(i) == {n \in DOMAIN heap : \E f \in Handles : \E k \in 1 .. Len(con[f]) :
                                             k <= i + 1 /\ q[f][k] = n}
           c == [i \in Nat |-> Upto(i)]
<1>0. \A f \in Handles : Len(con[f]) \in Nat /\ Len(con[f]) <= MaxListNodes
                         /\ (con[f] = <<>> <=> Len(con[f]) = 0)
  BY ChainShort, EmptyByLength
<1>1. \A f \in Handles : \A k \in 1 .. Len(con[f]) :
        /\ q[f][k] \in DOMAIN heap /\ q[f][k] # None
        /\ heap[q[f][k]].next = IF k = Len(con[f]) THEN None ELSE q[f][k + 1]
  BY DEF Chain, IsHeap, None
<1>2. from \ {None} = Upto(0)
  <2>1. ASSUME NEW n \in from \ {None}
        PROVE  n \in Upto(0)
    <3>1. PICK f \in Handles : n = hd[f]
      OBVIOUS
    <3>2. con[f] # <<>> /\ n = q[f][1]
      BY <2>1, <3>1 DEF Chain
    <3>3. 1 \in 1 .. Len(con[f]) /\ 1 <= 0 + 1
      BY <1>0, <3>2
    <3> QED
      BY <1>1, <3>2, <3>3
  <2>2. ASSUME NEW n \in Upto(0)
        PROVE  n \in from \ {None}
    <3>1. PICK f \in Handles : \E k \in 1 .. Len(con[f]) : k <= 0 + 1 /\ q[f][k] = n
      OBVIOUS
    <3>2. 1 \in 1 .. Len(con[f]) /\ q[f][1] = n
      BY <1>0, <3>1
    <3>3. hd[f] = n
      BY <1>0, <3>2 DEF Chain
    <3> QED
      BY <1>1, <3>2, <3>3
  <2> QED
    BY <2>1, <2>2
<1>3. ASSUME NEW i \in Nat, i # 0
      PROVE  Upto(i) = Upto(i - 1) \cup ({heap[n].next : n \in Upto(i - 1)} \ {None})
  <2>0. i - 1 \in Nat /\ (i - 1) + 1 = i
    BY <1>3
  <2>1. ASSUME NEW n \in Upto(i), n \notin Upto(i - 1)
        PROVE  n \in {heap[m].next : m \in Upto(i - 1)} \ {None}
    <3>1. PICK f \in Handles : \E k \in 1 .. Len(con[f]) : k <= i + 1 /\ q[f][k] = n
      OBVIOUS
    <3>2. PICK k \in 1 .. Len(con[f]) : k <= i + 1 /\ q[f][k] = n
      BY <3>1
    <3>3. ~(k <= i)
      BY <1>1, <2>0, <2>1, <3>2
    <3>4. k - 1 \in 1 .. Len(con[f]) /\ k - 1 <= i /\ k - 1 # Len(con[f]) /\ (k - 1) + 1 = k
      BY <1>0, <1>3, <3>2, <3>3
    <3>5. q[f][k - 1] \in Upto(i - 1) /\ heap[q[f][k - 1]].next = n /\ n # None
      BY <1>1, <2>0, <3>2, <3>4
    <3> HIDE DEF Upto
    <3> QED
      BY <3>5
  <2>2. ASSUME NEW n \in Upto(i - 1)
        PROVE  n \in Upto(i) /\ (heap[n].next # None => heap[n].next \in Upto(i))
    <3>1. PICK f \in Handles : \E k \in 1 .. Len(con[f]) : k <= (i - 1) + 1 /\ q[f][k] = n
      OBVIOUS
    <3>2. PICK k \in 1 .. Len(con[f]) : k <= i /\ q[f][k] = n
      BY <2>0, <3>1
    <3>3. k <= i + 1 /\ k + 1 <= i + 1 /\ (k # Len(con[f]) => k + 1 \in 1 .. Len(con[f]))
      BY <1>0, <1>3, <3>2
    <3>4. n \in Upto(i)
      BY <1>1, <3>2, <3>3
    <3>5. heap[n].next # None => k # Len(con[f]) /\ heap[n].next = q[f][k + 1]
      BY <1>1, <3>2
    <3> QED
      BY <1>1, <3>3, <3>4, <3>5
  <2> HIDE DEF Upto
  <2> QED
    BY <2>1, <2>2
<1> HIDE DEF Upto, from
<1>4. \A i \in Nat : c[i] = IF i = 0 THEN from \ {None}
                             ELSE c[i - 1] \cup ({heap[n].next : n \in c[i - 1]} \ {None})
  BY <1>2, <1>3
<1>5. Goes(c)
  <2>1. c = [i \in Nat |-> c[i]]
    OBVIOUS
  <2> HIDE DEF c
  <2> QED
    BY <1>4, <2>1
<1> DEFINE Goal(w) == \A i \in Nat : w[i] = c[i]
<1>6. ASSUME NEW w, Goes(w)
      PROVE  Goal(w)
  <2> DEFINE T == {i \in Nat : w[i] # c[i]}
  <2> SUFFICES ASSUME T # {} PROVE FALSE
    OBVIOUS
  <2>1. PICK i \in T : \A j \in T : i <= j
    BY LeastNat
  <2> HIDE DEF c
  <2>2. \A j \in Nat : w[j] = IF j = 0 THEN from \ {None}
                               ELSE w[j - 1] \cup ({heap[n].next : n \in w[j - 1]} \ {None})
    BY <1>6
  <2>3. i # 0
    BY <1>4, <2>1, <2>2
  <2>4. i - 1 \in Nat /\ ~(i <= i - 1)
    BY <2>1, <2>3
  <2>5. w[i - 1] = c[i - 1]
    BY <2>1, <2>4
  <2> QED
    BY <1>4, <2>1, <2>2, <2>3, <2>5
<1> HIDE DEF c
<1>7. Alive(from, heap) = (CHOOSE w : Goes(w))[MaxListNodes]
  BY DEF Alive
<1> HIDE DEF Goes
<1>8. Goes(CHOOSE w : Goes(w))
  BY <1>5
<1>9. Alive(from, heap) = c[MaxListNodes]
  BY <1>6, <1>7, <1>8, ListAssumption
<1>10. c[MaxListNodes] = {n \in DOMAIN heap : \E f \in Handles : \E k \in 1 .. Len(con[f]) : q[f][k] = n}
  <2>1. \A f \in Handles : \A k \in 1 .. Len(con[f]) : k <= MaxListNodes + 1
    BY <1>0, ListAssumption
  <2> QED
    BY <2>1, ListAssumption DEF c, Upto
<1> QED
  BY <1>9, <1>10 DEF from, Heads, Chained

\* third.rs: a handle is given a list, and nodes nobody reaches any more are freed.
LEMMA AssignKeeps ==
  ASSUME ListTypes, NEW p, Shape(p), NEW g \in Handles, listKind = "third",
         NEW first \in Nat, NEW links, NEW seq \in Seq(Elems), NEW s,
         IsHeap(links), Chain(s, first, links, seq),
         \A n \in DOMAIN nodes : n \in DOMAIN links /\ links[n] = nodes[n],
         Assign(g, first, links, seq)
  PROVE  Kept
<1> DEFINE q == [f \in Handles |-> IF f = g THEN s ELSE p[f]]
           hd == [head EXCEPT ![g] = first]
           con == [content EXCEPT ![g] = seq]
           alive == Chained(q, con, links)
<1>0. /\ hd \in [Handles -> Nat] /\ con \in [Handles -> Seq(Elems)]
      /\ hd[g] = first /\ con[g] = seq /\ q[g] = s
      /\ \A f \in Handles : f # g => hd[f] = head[f] /\ con[f] = content[f] /\ q[f] = p[f]
  BY DEF ListTypes
<1>1. head' = hd /\ content' = con /\ UNCHANGED <<listKind, tail, panicked>>
      /\ nodes' = [n \in Alive(Heads(hd), links) |-> links[n]]
  BY DEF Assign, Elements, Heads
<1> HIDE DEF q, hd, con
<1>2. ASSUME NEW f \in Handles
      PROVE  Chain(q[f], hd[f], links, con[f])
  <2>1. CASE f = g
    BY <1>0, <2>1
  <2>2. CASE f # g
    <3>1. Chain(p[f], head[f], nodes, content[f])
      BY DEF Shape
    <3>2. p[f] \in [1 .. Len(content[f]) -> DOMAIN links]
      BY <3>1 DEF Chain
    <3>3. \A k \in 1 .. Len(content[f]) : links[p[f][k]] = nodes[p[f][k]]
      BY <3>1 DEF Chain
    <3>4. Chain(p[f], head[f], links, content[f])
      BY <3>1, <3>2, <3>3 DEF Chain
    <3> QED
      BY <1>0, <2>2, <3>4
  <2> QED
    BY <2>1, <2>2
<1>3. Alive(Heads(hd), links) = alive
  BY <1>0, <1>2, AliveIsChains
<1>4. \A f \in Handles : \A k \in 1 .. Len(con[f]) : q[f][k] \in alive
  BY <1>2 DEF Chain, Chained
<1>5. \A n \in alive : n \in DOMAIN links /\ \E f \in Handles : \E k \in 1 .. Len(con[f]) : q[f][k] = n
  BY DEF Chained
<1> HIDE DEF alive
<1>6. DOMAIN nodes' = alive /\ \A n \in alive : nodes'[n] = links[n]
  BY <1>1, <1>3
<1>7. nodes' = [n \in alive |-> links[n]]
  BY <1>1, <1>3
<1>8. IsHeap(nodes')
  BY <1>5, <1>6, <1>7 DEF IsHeap
<1>9. ListTypes'
  BY <1>0, <1>1, <1>8 DEF ListTypes
<1>10. Chain(s, first, nodes', seq)
  <2>1. s \in [1 .. Len(seq) -> alive]
    BY <1>0, <1>4 DEF Chain
  <2> QED
    BY <1>6, <2>1 DEF Chain
<1>11. \A f \in Handles : f # g =>
           /\ head'[f] = head[f] /\ tail'[f] = tail[f] /\ content'[f] = content[f]
           /\ \A k \in 1 .. Len(content[f]) :
                p[f][k] \in DOMAIN nodes' /\ nodes'[p[f][k]] = nodes[p[f][k]]
  <2> TAKE f \in Handles
  <2> HAVE f # g
  <2>1. \A k \in 1 .. Len(content[f]) : p[f][k] \in alive
    BY <1>0, <1>4
  <2>2. \A k \in 1 .. Len(content[f]) : p[f][k] \in DOMAIN nodes
    BY DEF Shape, Chain
  <2>3. \A k \in 1 .. Len(content[f]) : links[p[f][k]] = nodes[p[f][k]]
    BY <2>2
  <2> QED
    BY <1>0, <1>1, <1>6, <2>1, <2>3
<1>12. \A n \in DOMAIN nodes' :
          \/ \E k \in 1 .. Len(content'[g]) : s[k] = n
          \/ \E f \in Handles : f # g /\ \E k \in 1 .. Len(content[f]) : p[f][k] = n
  <2> TAKE n \in DOMAIN nodes'
  <2>1. PICK f \in Handles : \E k \in 1 .. Len(con[f]) : q[f][k] = n
    BY <1>5, <1>6
  <2>2. CASE f = g
    BY <1>0, <1>1, <2>1, <2>2
  <2>3. CASE f # g
    BY <1>0, <2>1, <2>3
  <2> QED
    BY <2>2, <2>3
<1>13. OnlyChanges(p, g, s)
  BY <1>0, <1>1, <1>10, <1>11, <1>12 DEF OnlyChanges
<1> QED
  BY <1>9, <1>13, OneListChanges

\* append: one node in front of a shared list.
LEMMA AppendKeeps ==
  ASSUME ListTypes, NEW p, Shape(p), NEW g \in Handles, NEW h \in Handles, NEW e \in Elems,
         listKind = "third", append(g, h, e)
  PROVE  Kept
<1> DEFINE seq == content[h]
           first == head[h]
           node == [elem |-> e, prev |-> None, next |-> first]
<1>0. seq \in Seq(Elems) /\ Len(seq) \in Nat /\ first \in Nat /\ node \in ListNode
      /\ Chain(p[h], first, nodes, seq) /\ IsHeap(nodes)
  BY DEF ListTypes, Shape, ListNode, None
<1>1. PICK n \in 1 .. MaxListNodes : n = Fresh /\ n \notin DOMAIN nodes
  BY <1>0, FreshNode DEF append
<1>2. PICK links : links = With(n, node)
  OBVIOUS
<1>3. /\ IsHeap(links) /\ DOMAIN links = DOMAIN nodes \cup {n}
      /\ links[n] = node /\ \A m \in DOMAIN nodes : links[m] = nodes[m]
  BY <1>0, <1>1, <1>2, HeapWith
<1>4. links[n].elem = e /\ links[n].next = first
  BY <1>3
<1>5. Assign(g, n, links, <<e>> \o seq)
  BY <1>1, <1>2 DEF append
<1>6. <<e>> \o seq \in Seq(Elems) /\ n \in Nat
  BY <1>0, SeqFront
<1> HIDE DEF node, first, seq
<1>7. \A m \in DOMAIN nodes : m \in DOMAIN links /\ links[m].elem = nodes[m].elem
                               /\ links[m].next = nodes[m].next
  BY <1>3
<1>8. PICK t : Chain(t, n, links, <<e>> \o seq)
  <2>1. \E t : Pushed(t, p[h], n, links, seq, e)
    BY <1>0, <1>1, <1>3, <1>4, <1>7, ChainPush
  <2> QED
    BY <2>1 DEF Pushed
<1> QED
  BY <1>3, <1>5, <1>6, <1>8, AssignKeeps

\* tail shares the rest of a list; dropping a handle.
LEMMA SharedTailKeeps ==
  ASSUME ListTypes, NEW p, Shape(p), NEW g \in Handles, NEW h \in Handles,
         listKind = "third", tail_(g, h) \/ dropShared(g)
  PROVE  Kept
<1> DEFINE s == [k \in 1 .. 0 |-> None]
<1>1. IsHeap(nodes) /\ content[h] \in Seq(Elems) /\ Chain(p[h], head[h], nodes, content[h])
  BY DEF ListTypes, Shape
<1>2. None \in Nat /\ <<>> \in Seq(Elems) /\ Chain(s, None, nodes, <<>>)
  BY DEF None, Chain
<1> HIDE DEF s
<1>3. CASE Assign(g, None, nodes, <<>>)
  BY <1>1, <1>2, <1>3, AssignKeeps
<1>4. CASE head[h] # None /\ Assign(g, nodes[head[h]].next, nodes, Tail(content[h]))
  <2>1. content[h] # <<>>
    BY <1>1, <1>4 DEF Chain
  <2>2. head[h] \in DOMAIN nodes /\ Tail(content[h]) \in Seq(Elems)
        /\ \E t : Chain(t, nodes[head[h]].next, nodes, Tail(content[h]))
    <3>1. head[h] \in DOMAIN nodes /\ Tail(content[h]) \in Seq(Elems)
          /\ \E t : Shifted(t, p[h], nodes[head[h]].next, nodes, content[h])
      BY <1>1, <2>1, ChainPop
    <3> QED
      BY <3>1 DEF Shifted
  <2>3. nodes[head[h]].next \in Nat
    BY <1>1, <2>2 DEF IsHeap, ListNode
  <2> QED
    BY <1>1, <1>4, <2>2, <2>3, AssignKeeps
<1> QED
  BY <1>3, <1>4 DEF tail_, dropShared

\* The nodes of a path.
Visits(s, seq) == {s[k] : k \in 1 .. Len(seq)}

\* They are in the heap.
LEMMA ShapeNodes ==
  ASSUME NEW p, Shape(p)
  PROVE  \A g \in Handles : \A k \in 1 .. Len(content[g]) : p[g][k] \in DOMAIN nodes
<1> SUFFICES ASSUME NEW g \in Handles, NEW k \in 1 .. Len(content[g])
             PROVE  p[g][k] \in DOMAIN nodes
  OBVIOUS
<1>1. Chain(p[g], head[g], nodes, content[g])
  BY DEF Shape
<1> QED
  BY <1>1 DEF Chain

\* fourth.rs: list h changes to the path s, with the nodes new and without the nodes gone.
DequeStep(p, h, s, new, gone) ==
  /\ UNCHANGED listKind /\ listKind = "fourth"
  /\ \A g \in Handles : g # h => head'[g] = head[g] /\ tail'[g] = tail[g] /\ content'[g] = content[g]
  /\ Chain(s, head'[h], nodes', content'[h]) /\ BackChain(s, tail'[h], nodes', content'[h])
  /\ DOMAIN nodes' = (DOMAIN nodes \cup new) \ gone /\ new \cap DOMAIN nodes = {}
  /\ gone \subseteq Visits(p[h], content[h])
  /\ Visits(s, content'[h]) = (Visits(p[h], content[h]) \cup new) \ gone
  /\ \A m \in DOMAIN nodes : m \notin Visits(p[h], content[h]) => nodes'[m] = nodes[m]

\* Then all lists have their paths.
LEMMA DequeChanges ==
  ASSUME ListTypes', NEW p, Shape(p), NEW h \in Handles, NEW s, NEW new, NEW gone,
         DequeStep(p, h, s, new, gone)
  PROVE  Kept
<1> USE DEF DequeStep
<1>1. \A g \in Handles : \A k \in 1 .. Len(content[g]) : p[g][k] \in DOMAIN nodes
  BY ShapeNodes
<1>2. \A g \in Handles : g # h => \A j \in 1 .. Len(content[g]) : p[g][j] \notin Visits(p[h], content[h])
  BY DEF Shape, Visits
<1>3. \A g \in Handles : g # h =>
           /\ head'[g] = head[g] /\ tail'[g] = tail[g] /\ content'[g] = content[g]
           /\ \A k \in 1 .. Len(content[g]) :
                p[g][k] \in DOMAIN nodes' /\ nodes'[p[g][k]] = nodes[p[g][k]]
  BY <1>1, <1>2
<1>4. \A k \in 1 .. Len(content'[h]) : s[k] \in Visits(s, content'[h])
  BY DEF Visits
<1>5. \A g \in Handles : g # h =>
        \A j \in 1 .. Len(content[g]), k \in 1 .. Len(content'[h]) : p[g][j] # s[k]
  BY <1>1, <1>2, <1>4
<1>6. \A n \in DOMAIN nodes' :
          \/ \E k \in 1 .. Len(content'[h]) : s[k] = n
          \/ \E g \in Handles : g # h /\ \E k \in 1 .. Len(content[g]) : p[g][k] = n
  <2> TAKE n \in DOMAIN nodes'
  <2>1. CASE n \in Visits(s, content'[h])
    BY <2>1 DEF Visits
  <2>2. CASE n \notin Visits(s, content'[h])
    <3>1. n \in DOMAIN nodes /\ n \notin Visits(p[h], content[h])
      BY <2>2
    <3>2. PICK g \in Handles : \E k \in 1 .. Len(content[g]) : p[g][k] = n
      BY <3>1 DEF Shape
    <3>3. g # h
      BY <3>1, <3>2 DEF Visits
    <3> QED
      BY <3>2, <3>3
  <2> QED
    BY <2>1, <2>2
<1>7. OnlyChanges(p, h, s)
  BY <1>3, <1>5, <1>6 DEF OnlyChanges
<1> QED
  BY <1>7, OneListChanges

\* t is the path s with the node n behind it.
Appended(t, s, first, n, after, seq, e) ==
  /\ Chain(t, IF seq = <<>> THEN n ELSE first, after, Append(seq, e))
  /\ t[Len(seq) + 1] = n /\ \A k \in 1 .. Len(seq) : t[k] = s[k]

\* A new node behind the last.
LEMMA ChainAppend ==
  ASSUME NEW seq \in Seq(Elems), NEW e \in Elems, NEW s, NEW first, NEW heap, NEW after, NEW n,
         Chain(s, first, heap, seq), n \notin DOMAIN heap,
         n \in DOMAIN after, after[n].elem = e, after[n].next = None,
         \A m \in DOMAIN heap :
            /\ m \in DOMAIN after /\ after[m].elem = heap[m].elem
            /\ after[m].next = IF seq # <<>> /\ m = s[Len(seq)] THEN n ELSE heap[m].next
  PROVE  \E t : Appended(t, s, first, n, after, seq, e)
<1> DEFINE N == Len(seq)
           t == [k \in 1 .. N + 1 |-> IF k = N + 1 THEN n ELSE s[k]]
           longer == Append(seq, e)
<1>0. N \in Nat /\ (seq = <<>> <=> N = 0) /\ Len(longer) = N + 1 /\ longer # <<>>
      /\ longer[N + 1] = e /\ \A k \in 1 .. N : longer[k] = seq[k]
  <2>1. N \in Nat /\ longer \in Seq(Elems) /\ Len(longer) = N + 1 /\ longer[N + 1] = e
        /\ \A k \in 1 .. N : longer[k] = seq[k]
    OBVIOUS
  <2> QED
    BY <2>1, EmptyByLength
<1>1. \A k \in 1 .. N : s[k] \in DOMAIN heap /\ s[k] # n
  BY DEF Chain
<1>2. t[N + 1] = n /\ \A k \in 1 .. N : t[k] = s[k]
  BY <1>0
<1>3. t \in [1 .. N + 1 -> DOMAIN after]
  BY <1>0, <1>1
<1> HIDE DEF t, longer
<1>4. \A k \in 1 .. N + 1 : k = N + 1 \/ k \in 1 .. N
  BY <1>0
<1>5. \A j, k \in 1 .. N : s[j] = s[k] => j = k
  BY DEF Chain
<1>6. ASSUME NEW k \in 1 .. N
      PROVE  /\ after[s[k]].elem = longer[k]
             /\ after[s[k]].next = IF k = N THEN n ELSE s[k + 1]
  <2>1. heap[s[k]].elem = seq[k] /\ heap[s[k]].next = IF k = N THEN None ELSE s[k + 1]
    BY DEF Chain
  <2>2. seq # <<>> /\ N \in 1 .. N /\ (s[k] = s[N] <=> k = N)
    BY <1>0, <1>5
  <2> QED
    BY <1>0, <1>1, <2>1, <2>2
<1> HIDE DEF N
<1>7. ASSUME NEW k \in 1 .. N + 1
      PROVE  after[t[k]].elem = longer[k] /\ after[t[k]].next = IF k = N + 1 THEN None ELSE t[k + 1]
  <2>1. CASE k = N + 1
    BY <1>0, <1>2, <2>1
  <2>2. CASE k \in 1 .. N
    <3>1. after[t[k]].elem = longer[k] /\ after[t[k]].next = IF k = N THEN n ELSE s[k + 1]
      BY <1>2, <1>6, <2>2
    <3>2. k # N + 1 /\ (k = N => t[k + 1] = n) /\ (k # N => t[k + 1] = s[k + 1])
      BY <1>0, <1>2, <2>2
    <3> QED
      BY <3>1, <3>2
  <2> QED
    BY <1>4, <2>1, <2>2
<1>8. ASSUME NEW j \in 1 .. N + 1, NEW k \in 1 .. N + 1, t[j] = t[k]
      PROVE  j = k
  BY <1>1, <1>2, <1>4, <1>5, <1>8
<1>9. (IF seq = <<>> THEN n ELSE first) = t[1]
  <2>1. CASE N = 0
    BY <1>0, <1>2, <2>1
  <2>2. CASE N # 0
    <3>1. 1 \in 1 .. N /\ seq # <<>>
      BY <1>0, <2>2
    <3> QED
      BY <1>2, <3>1 DEF Chain
  <2> QED
    BY <2>1, <2>2
<1>10. Chain(t, IF seq = <<>> THEN n ELSE first, after, longer)
  BY <1>0, <1>3, <1>7, <1>8, <1>9 DEF Chain
<1> QED
  BY <1>2, <1>10 DEF longer, N, Appended

\* t is the path s without its last node.
Shortened(t, s, first, after, seq) ==
  /\ Chain(t, first, after, SubSeq(seq, 1, Len(seq) - 1))
  /\ \A k \in 1 .. Len(seq) - 1 : t[k] = s[k]

\* The last node of a path goes.
LEMMA ChainDropLast ==
  ASSUME NEW seq \in Seq(Elems), Len(seq) > 1, NEW s, NEW first, NEW heap, NEW after,
         Chain(s, first, heap, seq),
         \A m \in DOMAIN heap \ {s[Len(seq)]} :
            /\ m \in DOMAIN after /\ after[m].elem = heap[m].elem
            /\ after[m].next = IF m = s[Len(seq) - 1] THEN None ELSE heap[m].next
  PROVE  /\ SubSeq(seq, 1, Len(seq) - 1) \in Seq(Elems)
         /\ Len(SubSeq(seq, 1, Len(seq) - 1)) = Len(seq) - 1
         /\ \E t : Shortened(t, s, first, after, seq)
<1> DEFINE N == Len(seq) - 1
           t == [k \in 1 .. N |-> s[k]]
           shorter == SubSeq(seq, 1, N)
<1>0. N \in Nat /\ N >= 1 /\ Len(seq) = N + 1 /\ shorter \in Seq(Elems) /\ Len(shorter) = N
      /\ shorter # <<>> /\ seq # <<>> /\ \A k \in 1 .. N : shorter[k] = seq[k]
  <2>1. N \in Nat /\ N >= 1 /\ Len(seq) = N + 1
    OBVIOUS
  <2> HIDE DEF N
  <2>2. shorter \in Seq(Elems) /\ Len(shorter) = N /\ \A k \in 1 .. N : shorter[k] = seq[k]
    BY <2>1
  <2> HIDE DEF shorter
  <2> QED
    BY <2>1, <2>2, EmptyByLength
<1> HIDE DEF shorter, N
<1>1. \A j, k \in 1 .. N + 1 : s[j] = s[k] => j = k
  BY <1>0 DEF Chain
<1>2. \A k \in 1 .. N : /\ k \in 1 .. N + 1 /\ k # N + 1 /\ N + 1 \in 1 .. N + 1 /\ N \in 1 .. N + 1
                        /\ s[k] \in DOMAIN heap /\ s[k] # s[N + 1]
  <2>1. \A k \in 1 .. N : k \in 1 .. N + 1 /\ k # N + 1 /\ N + 1 \in 1 .. N + 1 /\ N \in 1 .. N + 1
    BY <1>0
  <2>2. \A k \in 1 .. N + 1 : s[k] \in DOMAIN heap
    BY <1>0 DEF Chain
  <2> QED
    BY <1>1, <2>1, <2>2
<1>3. t \in [1 .. N -> DOMAIN after] /\ \A k \in 1 .. N : t[k] = s[k]
  BY <1>0, <1>2
<1> HIDE DEF t
<1>4. ASSUME NEW k \in 1 .. N
      PROVE  after[t[k]].elem = shorter[k] /\ after[t[k]].next = IF k = N THEN None ELSE t[k + 1]
  <2>1. t[k] = s[k] /\ s[k] \in DOMAIN heap \ {s[N + 1]} /\ (s[k] = s[N] <=> k = N)
    BY <1>1, <1>2, <1>3
  <2>2. after[s[k]].elem = heap[s[k]].elem
        /\ after[s[k]].next = IF k = N THEN None ELSE heap[s[k]].next
    BY <1>0, <2>1
  <2>3. heap[s[k]].elem = seq[k] /\ heap[s[k]].next = s[k + 1]
    BY <1>0, <1>2 DEF Chain
  <2>4. k # N => t[k + 1] = s[k + 1]
    BY <1>0, <1>3
  <2> QED
    BY <1>0, <2>1, <2>2, <2>3, <2>4
<1>5. \A j, k \in 1 .. N : t[j] = t[k] => j = k
  BY <1>1, <1>2, <1>3
<1>6. first = t[1]
  <2>1. 1 \in 1 .. N
    BY <1>0
  <2> QED
    BY <1>0, <1>3, <2>1 DEF Chain
<1>7. Chain(t, first, after, shorter)
  BY <1>0, <1>3, <1>4, <1>5, <1>6 DEF Chain
<1> QED
  BY <1>0, <1>3, <1>7 DEF shorter, N, Shortened

\* One node of the heap is replaced.
Patch(f, a, node) == [m \in DOMAIN f |-> IF m = a THEN node ELSE f[m]]

\* g is f with another node at a.
IsPatch(f, g, a, node) ==
  IsHeap(g) /\ DOMAIN g = DOMAIN f /\ g[a] = node /\ \A m \in DOMAIN f : m # a => g[m] = f[m]

\* Replacing a node gives what the predicate says.
LEMMA HeapPatch ==
  ASSUME NEW f, NEW a, NEW node, IsHeap(f), a \in DOMAIN f, node \in ListNode
  PROVE  IsPatch(f, Patch(f, a, node), a, node)
  BY DEF IsHeap, Patch, IsPatch

\* One pointer of a node is written.
SetPrev(f, a, v) == [f EXCEPT ![a].prev = v]
SetNext(f, a, v) == [f EXCEPT ![a].next = v]

\* What writing prev changes,
LEMMA HeapPrev ==
  ASSUME NEW f, NEW g, NEW a, NEW v, IsHeap(f), a \in DOMAIN f, v \in Nat, g = SetPrev(f, a, v)
  PROVE  /\ IsPatch(f, g, a, g[a])
         /\ g[a].elem = f[a].elem /\ g[a].next = f[a].next /\ g[a].prev = v
<1>1. f[a] \in ListNode
  BY DEF IsHeap
<1>2. PICK node : node = [f[a] EXCEPT !.prev = v]
  OBVIOUS
<1>3. node \in ListNode /\ node.prev = v /\ node.elem = f[a].elem /\ node.next = f[a].next
  BY <1>1, <1>2 DEF ListNode
<1>4. g = Patch(f, a, node)
  BY <1>2 DEF SetPrev, Patch, IsHeap
<1>5. IsPatch(f, g, a, node)
  BY <1>3, <1>4, HeapPatch
<1>6. g[a] = node
  BY <1>5 DEF IsPatch
<1> QED
  BY <1>3, <1>5, <1>6

\* and what writing next does.
LEMMA HeapNext ==
  ASSUME NEW f, NEW g, NEW a, NEW v, IsHeap(f), a \in DOMAIN f, v \in Nat, g = SetNext(f, a, v)
  PROVE  /\ IsPatch(f, g, a, g[a])
         /\ g[a].elem = f[a].elem /\ g[a].prev = f[a].prev /\ g[a].next = v
<1>1. f[a] \in ListNode
  BY DEF IsHeap
<1>2. PICK node : node = [f[a] EXCEPT !.next = v]
  OBVIOUS
<1>3. node \in ListNode /\ node.next = v /\ node.elem = f[a].elem /\ node.prev = f[a].prev
  BY <1>1, <1>2 DEF ListNode
<1>4. g = Patch(f, a, node)
  BY <1>2 DEF SetNext, Patch, IsHeap
<1>5. IsPatch(f, g, a, node)
  BY <1>3, <1>4, HeapPatch
<1>6. g[a] = node
  BY <1>5 DEF IsPatch
<1> QED
  BY <1>3, <1>5, <1>6

\* g is f with the link between the neighbours a and b taken out.
IsCut(f, g, a, b) ==
  /\ IsHeap(g) /\ DOMAIN g = DOMAIN f
  /\ \A m \in DOMAIN f :
       /\ g[m].elem = f[m].elem
       /\ g[m].next = IF m = a THEN None ELSE f[m].next
       /\ g[m].prev = IF m = b THEN None ELSE f[m].prev
       /\ m # a /\ m # b => g[m] = f[m]

\* Both orders of the two stores give that.
LEMMA HeapCut ==
  ASSUME NEW f, NEW a, NEW b, IsHeap(f), a \in DOMAIN f, b \in DOMAIN f, a # b
  PROVE  /\ IsCut(f, SetPrev(SetNext(f, a, None), b, None), a, b)
         /\ IsCut(f, SetNext(SetPrev(f, b, None), a, None), a, b)
<1>0. None \in Nat
  BY DEF None
<1>1. PICK g : g = SetNext(f, a, None)
  OBVIOUS
<1>2. IsPatch(f, g, a, g[a]) /\ g[a].elem = f[a].elem /\ g[a].prev = f[a].prev /\ g[a].next = None
  BY <1>0, <1>1, HeapNext
<1>3. IsCut(f, SetPrev(g, b, None), a, b)
  <2>1. PICK d : d = SetPrev(g, b, None)
    OBVIOUS
  <2>2. IsPatch(g, d, b, d[b]) /\ d[b].elem = g[b].elem /\ d[b].next = g[b].next /\ d[b].prev = None
    <3>1. IsHeap(g) /\ b \in DOMAIN g
      BY <1>2 DEF IsPatch
    <3> QED
      BY <1>0, <2>1, <3>1, HeapPrev
  <2>3. IsCut(f, d, a, b)
    BY <1>2, <2>2 DEF IsCut, IsPatch
  <2> QED
    BY <2>1, <2>3
<1>4. PICK c : c = SetPrev(f, b, None)
  OBVIOUS
<1>5. IsPatch(f, c, b, c[b]) /\ c[b].elem = f[b].elem /\ c[b].next = f[b].next /\ c[b].prev = None
  BY <1>0, <1>4, HeapPrev
<1>6. IsCut(f, SetNext(c, a, None), a, b)
  <2>1. PICK d : d = SetNext(c, a, None)
    OBVIOUS
  <2>2. IsPatch(c, d, a, d[a]) /\ d[a].elem = c[a].elem /\ d[a].prev = c[a].prev /\ d[a].next = None
    <3>1. IsHeap(c) /\ a \in DOMAIN c
      BY <1>5 DEF IsPatch
    <3> QED
      BY <1>0, <2>1, <3>1, HeapNext
  <2>3. IsCut(f, d, a, b)
    BY <1>5, <2>2 DEF IsCut, IsPatch
  <2> QED
    BY <2>1, <2>3
<1> QED
  BY <1>1, <1>3, <1>4, <1>6

\* push_front, into an empty deque or not.
LEMMA DequePushFrontKeeps ==
  ASSUME ListTypes, NEW p, Shape(p), NEW h \in Handles, NEW e \in Elems,
         listKind = "fourth", push_front(h, e)
  PROVE  Kept
<1> DEFINE seq == content[h]
           first == head[h]
           N == Len(seq)
           longer == <<e>> \o seq
<1>0. /\ seq \in Seq(Elems) /\ N \in Nat /\ first \in Nat /\ tail[h] \in Nat /\ None \in Nat
      /\ (seq = <<>> <=> N = 0) /\ IsHeap(nodes)
  BY EmptyByLength DEF ListTypes, None
<1>1. Chain(p[h], first, nodes, seq) /\ BackChain(p[h], tail[h], nodes, seq)
  BY DEF Shape
<1>2. \A k \in 1 .. N : p[h][k] \in DOMAIN nodes /\ p[h][k] # None
  BY <1>0, <1>1 DEF Chain, IsHeap, None
<1>3. PICK n \in 1 .. MaxListNodes : n = Fresh /\ n \notin DOMAIN nodes
  BY <1>0, FreshNode DEF push_front
<1>4. /\ head' = [head EXCEPT ![h] = n] /\ content' = [content EXCEPT ![h] = longer]
      /\ tail' = [tail EXCEPT ![h] = IF first = None THEN n ELSE tail[h]]
      /\ UNCHANGED listKind
  <2>1. tail = [tail EXCEPT ![h] = tail[h]]
    BY DEF ListTypes
  <2> QED
    BY <1>3, <2>1 DEF push_front, Only, Elements
<1>5. PICK node, links : node = [elem |-> e, prev |-> None, next |-> first] /\ links = With(n, node)
  OBVIOUS
<1>6. /\ IsHeap(links) /\ DOMAIN links = DOMAIN nodes \cup {n}
      /\ links[n].elem = e /\ links[n].prev = None /\ links[n].next = first
      /\ \A m \in DOMAIN nodes : links[m] = nodes[m]
  <2>1. node \in ListNode /\ node.elem = e /\ node.prev = None /\ node.next = first
    BY <1>0, <1>5 DEF ListNode
  <2>2. /\ IsHeap(links) /\ DOMAIN links = DOMAIN nodes \cup {n} /\ links[n] = node
        /\ \A m \in DOMAIN nodes : links[m] = nodes[m]
    BY <1>0, <1>3, <1>5, <2>1, HeapWith
  <2> QED
    BY <2>1, <2>2
<1>7. first = None <=> N = 0
  BY <1>0, <1>1, <1>2 DEF Chain
<1>8. N # 0 => first = p[h][1] /\ 1 \in 1 .. N /\ N \in 1 .. N /\ first \in DOMAIN nodes
  BY <1>0, <1>1, <1>2 DEF Chain
<1>9. /\ IsHeap(nodes') /\ DOMAIN nodes' = DOMAIN nodes \cup {n}
      /\ nodes'[n].elem = e /\ nodes'[n].prev = None /\ nodes'[n].next = first
      /\ \A m \in DOMAIN nodes :
           /\ nodes'[m].elem = nodes[m].elem /\ nodes'[m].next = nodes[m].next
           /\ nodes'[m].prev = IF m = first THEN n ELSE nodes[m].prev
           /\ m # first => nodes'[m] = nodes[m]
  <2>1. CASE first = None
    <3>1. nodes' = links
      BY <1>3, <1>5, <2>1 DEF push_front
    <3>2. \A m \in DOMAIN nodes : m # first
      BY <1>0, <2>1 DEF IsHeap, None
    <3> QED
      BY <1>6, <3>1, <3>2
  <2>2. CASE first # None
    <3>1. nodes' = SetPrev(links, first, n)
      BY <1>3, <1>5, <2>2 DEF push_front, SetPrev
    <3>2. first \in DOMAIN links /\ n \in Nat /\ first # n
      BY <1>3, <1>6, <1>7, <1>8, <2>2
    <3>3. /\ IsPatch(links, nodes', first, nodes'[first])
          /\ nodes'[first].elem = links[first].elem /\ nodes'[first].next = links[first].next
          /\ nodes'[first].prev = n
      BY <1>6, <3>1, <3>2, HeapPrev
    <3>4. /\ IsHeap(nodes') /\ DOMAIN nodes' = DOMAIN links
          /\ \A m \in DOMAIN links : m # first => nodes'[m] = links[m]
      BY <3>3 DEF IsPatch
    <3>5. nodes'[n] = links[n]
      BY <1>6, <3>2, <3>4
    <3> QED
      BY <1>6, <3>3, <3>4, <3>5
  <2> QED
    BY <2>1, <2>2
<1>10. longer \in Seq(Elems) /\ Len(longer) = N + 1 /\ longer # <<>>
  BY <1>0, SeqFront
<1>11. content[h] = seq /\ Len(content[h]) = N
  OBVIOUS
<1> HIDE DEF seq, longer, N, first
<1>12. ListTypes'
  BY <1>0, <1>3, <1>4, <1>9, <1>10 DEF ListTypes
<1>13. head'[h] = n /\ content'[h] = longer /\ tail'[h] = IF first = None THEN n ELSE tail[h]
  BY <1>4 DEF ListTypes
<1>14. \A m \in DOMAIN nodes : m \in DOMAIN nodes' /\ nodes'[m].elem = nodes[m].elem
                               /\ nodes'[m].next = nodes[m].next
  BY <1>9
<1>15. PICK t : Chain(t, n, nodes', longer) /\ t[1] = n /\ \A k \in 1 .. N : t[k + 1] = p[h][k]
  <2>1. nodes'[n].elem = e /\ nodes'[n].next = first /\ n \in DOMAIN nodes'
    BY <1>9
  <2>2. seq \in Seq(Elems) /\ Chain(p[h], first, nodes, seq)
    BY <1>0, <1>1
  <2>3. \E t : Pushed(t, p[h], n, nodes', seq, e)
    BY <1>3, <1>14, <2>1, <2>2, ChainPush
  <2> QED
    BY <2>3 DEF longer, N, Pushed
<1>16. \A k \in 1 .. N + 1 : k = 1 \/ \E j \in 1 .. N : k = j + 1
  <2> TAKE k \in 1 .. N + 1
  <2>1. k = 1 \/ (k - 1 \in 1 .. N /\ k = (k - 1) + 1)
    BY <1>0
  <2> QED
    BY <2>1
<1>17. ASSUME NEW k \in 1 .. N + 1
       PROVE  nodes'[t[k]].prev = IF k = 1 THEN None ELSE t[k - 1]
  <2>1. CASE k = 1
    BY <1>9, <1>15, <2>1
  <2>2. CASE k # 1
    <3>1. PICK j \in 1 .. N : k = j + 1
      BY <1>16, <2>2
    <3>2. t[k] = p[h][j] /\ k - 1 = j /\ p[h][j] \in DOMAIN nodes
      BY <1>0, <1>2, <1>15, <3>1
    <3>3. CASE j = 1
      <4>1. p[h][j] = first
        BY <1>0, <1>8, <3>3
      <4> QED
        BY <1>9, <1>15, <2>2, <3>2, <3>3, <4>1
    <3>4. CASE j # 1
      <4>1. j - 1 \in 1 .. N /\ (j - 1) + 1 = j /\ 1 \in 1 .. N /\ N # 0
        BY <1>0, <3>4
      <4>2. p[h][j] # first
        BY <1>1, <1>8, <3>4, <4>1 DEF Chain, N
      <4>3. nodes[p[h][j]].prev = p[h][j - 1]
        BY <1>1, <3>4 DEF BackChain, N
      <4>4. t[j] = p[h][j - 1]
        BY <1>15, <4>1
      <4> QED
        BY <1>9, <2>2, <3>2, <4>2, <4>3, <4>4
    <3> QED
      BY <3>3, <3>4
  <2> QED
    BY <2>1, <2>2
<1>18. tail'[h] = t[N + 1]
  <2>1. CASE N = 0
    BY <1>7, <1>13, <1>15, <2>1
  <2>2. CASE N # 0
    <3>1. tail[h] = p[h][N] /\ t[N + 1] = p[h][N]
      BY <1>0, <1>1, <1>8, <1>15, <2>2 DEF BackChain, N
    <3> QED
      BY <1>7, <1>13, <2>2, <3>1
  <2> QED
    BY <2>1, <2>2
<1>19. BackChain(t, tail'[h], nodes', longer)
  BY <1>10, <1>17, <1>18 DEF BackChain
<1>20. Visits(t, longer) = Visits(p[h], seq) \cup {n}
  <2>1. \A k \in 1 .. N + 1 : t[k] \in Visits(p[h], seq) \cup {n}
    <3> TAKE k \in 1 .. N + 1
    <3>1. CASE k = 1
      BY <1>15, <3>1
    <3>2. CASE k # 1
      <4>1. PICK j \in 1 .. N : k = j + 1
        BY <1>16, <3>2
      <4>2. t[k] = p[h][j]
        BY <1>15, <4>1
      <4> QED
        BY <4>2 DEF Visits, N
    <3> QED
      BY <3>1, <3>2
  <2>2. 1 \in 1 .. N + 1 /\ \A k \in 1 .. N : k + 1 \in 1 .. N + 1
    BY <1>0
  <2>3. n \in Visits(t, longer) /\ \A k \in 1 .. N : p[h][k] \in Visits(t, longer)
    BY <1>10, <1>15, <2>2 DEF Visits
  <2> QED
    BY <1>10, <2>1, <2>3 DEF Visits, N
<1>21. \A m \in DOMAIN nodes : m \notin Visits(p[h], seq) => nodes'[m] = nodes[m]
  <2>1. first \in Visits(p[h], seq) \/ first = None
    BY <1>7, <1>8 DEF Visits, N
  <2>2. None \notin DOMAIN nodes
    BY <1>0 DEF IsHeap, None
  <2> QED
    BY <1>9, <2>1, <2>2
<1>22. \A g \in Handles : g # h => head'[g] = head[g] /\ tail'[g] = tail[g] /\ content'[g] = content[g]
  BY <1>4 DEF ListTypes
<1>23. DequeStep(p, h, t, {n}, {})
  BY <1>3, <1>4, <1>9, <1>11, <1>13, <1>15, <1>19, <1>20, <1>21, <1>22 DEF DequeStep
<1> QED
  BY <1>12, <1>23, DequeChanges

\* push_back, into an empty deque or not.
LEMMA DequePushBackKeeps ==
  ASSUME ListTypes, NEW p, Shape(p), NEW h \in Handles, NEW e \in Elems,
         listKind = "fourth", push_back(h, e)
  PROVE  Kept
<1> DEFINE seq == content[h]
           last == tail[h]
           first == head[h]
           N == Len(seq)
           longer == Append(seq, e)
<1>0. /\ seq \in Seq(Elems) /\ N \in Nat /\ first \in Nat /\ last \in Nat /\ None \in Nat
      /\ (seq = <<>> <=> N = 0) /\ IsHeap(nodes)
  BY EmptyByLength DEF ListTypes, None
<1>1. Chain(p[h], first, nodes, seq) /\ BackChain(p[h], last, nodes, seq)
  BY DEF Shape
<1>2. \A k \in 1 .. N : p[h][k] \in DOMAIN nodes /\ p[h][k] # None
  BY <1>0, <1>1 DEF Chain, IsHeap, None
<1>3. PICK n \in 1 .. MaxListNodes : n = Fresh /\ n \notin DOMAIN nodes
  BY <1>0, FreshNode DEF push_back
<1>4. last = None <=> N = 0
  BY <1>0, <1>1, <1>2 DEF BackChain
<1>5. N # 0 => last = p[h][N] /\ 1 \in 1 .. N /\ N \in 1 .. N /\ last \in DOMAIN nodes
  BY <1>0, <1>1, <1>2 DEF BackChain
<1>6. /\ head' = [head EXCEPT ![h] = IF seq = <<>> THEN n ELSE first]
      /\ content' = [content EXCEPT ![h] = longer] /\ tail' = [tail EXCEPT ![h] = n]
      /\ UNCHANGED listKind
  <2>1. head = [head EXCEPT ![h] = first]
    BY DEF ListTypes
  <2> QED
    BY <1>0, <1>3, <1>4, <2>1 DEF push_back, Only, Elements
<1>7. PICK node, links : node = [elem |-> e, prev |-> last, next |-> None] /\ links = With(n, node)
  OBVIOUS
<1>8. /\ IsHeap(links) /\ DOMAIN links = DOMAIN nodes \cup {n}
      /\ links[n].elem = e /\ links[n].prev = last /\ links[n].next = None
      /\ \A m \in DOMAIN nodes : links[m] = nodes[m]
  <2>1. node \in ListNode /\ node.elem = e /\ node.prev = last /\ node.next = None
    BY <1>0, <1>7 DEF ListNode
  <2>2. /\ IsHeap(links) /\ DOMAIN links = DOMAIN nodes \cup {n} /\ links[n] = node
        /\ \A m \in DOMAIN nodes : links[m] = nodes[m]
    BY <1>0, <1>3, <1>7, <2>1, HeapWith
  <2> QED
    BY <2>1, <2>2
<1>9. /\ IsHeap(nodes') /\ DOMAIN nodes' = DOMAIN nodes \cup {n}
      /\ nodes'[n].elem = e /\ nodes'[n].prev = last /\ nodes'[n].next = None
      /\ \A m \in DOMAIN nodes :
           /\ nodes'[m].elem = nodes[m].elem /\ nodes'[m].prev = nodes[m].prev
           /\ nodes'[m].next = IF m = last THEN n ELSE nodes[m].next
           /\ m # last => nodes'[m] = nodes[m]
  <2>1. CASE last = None
    <3>1. nodes' = links
      BY <1>3, <1>7, <2>1 DEF push_back
    <3>2. \A m \in DOMAIN nodes : m # last
      BY <1>0, <2>1 DEF IsHeap, None
    <3> QED
      BY <1>8, <3>1, <3>2
  <2>2. CASE last # None
    <3>1. nodes' = SetNext(links, last, n)
      BY <1>3, <1>7, <2>2 DEF push_back, SetNext
    <3>2. last \in DOMAIN links /\ n \in Nat /\ last # n
      BY <1>3, <1>4, <1>5, <1>8, <2>2
    <3>3. /\ IsPatch(links, nodes', last, nodes'[last])
          /\ nodes'[last].elem = links[last].elem /\ nodes'[last].prev = links[last].prev
          /\ nodes'[last].next = n
      BY <1>8, <3>1, <3>2, HeapNext
    <3>4. /\ IsHeap(nodes') /\ DOMAIN nodes' = DOMAIN links
          /\ \A m \in DOMAIN links : m # last => nodes'[m] = links[m]
      BY <3>3 DEF IsPatch
    <3>5. nodes'[n] = links[n]
      BY <1>8, <3>2, <3>4
    <3> QED
      BY <1>8, <3>3, <3>4, <3>5
  <2> QED
    BY <2>1, <2>2
<1>10. longer \in Seq(Elems) /\ Len(longer) = N + 1 /\ longer # <<>>
  <2>1. longer \in Seq(Elems) /\ Len(longer) = N + 1
    BY <1>0
  <2> HIDE DEF longer
  <2> QED
    BY <1>0, <2>1, EmptyByLength
<1>11. content[h] = seq /\ Len(content[h]) = N
  OBVIOUS
<1> HIDE DEF seq, longer, N, first, last
<1>12. ListTypes'
  BY <1>0, <1>3, <1>6, <1>9, <1>10 DEF ListTypes
<1>13. head'[h] = (IF seq = <<>> THEN n ELSE first) /\ content'[h] = longer /\ tail'[h] = n
  BY <1>6 DEF ListTypes
<1>14. \A m \in DOMAIN nodes :
          /\ m \in DOMAIN nodes' /\ nodes'[m].elem = nodes[m].elem
          /\ nodes'[m].next = IF seq # <<>> /\ m = p[h][Len(seq)] THEN n ELSE nodes[m].next
  <2> TAKE m \in DOMAIN nodes
  <2>1. CASE N = 0
    <3>1. m # last
      BY <1>0, <1>4, <2>1 DEF IsHeap, None
    <3> QED
      BY <1>0, <1>9, <2>1, <3>1
  <2>2. CASE N # 0
    <3>1. seq # <<>> /\ last = p[h][Len(seq)]
      BY <1>0, <1>5, <2>2 DEF N
    <3> QED
      BY <1>9, <3>1
  <2> QED
    BY <2>1, <2>2
<1>15. PICK t : Chain(t, head'[h], nodes', longer) /\ t[N + 1] = n /\ \A k \in 1 .. N : t[k] = p[h][k]
  <2>1. nodes'[n].elem = e /\ nodes'[n].next = None /\ n \in DOMAIN nodes'
    BY <1>9
  <2>2. \E t : Appended(t, p[h], first, n, nodes', seq, e)
    BY <1>0, <1>1, <1>3, <1>14, <2>1, ChainAppend
  <2> QED
    BY <1>13, <2>2 DEF longer, N, Appended
<1>16. \A k \in 1 .. N + 1 : k = N + 1 \/ (k \in 1 .. N /\ k # N + 1)
  BY <1>0
<1>17. ASSUME NEW k \in 1 .. N + 1
       PROVE  nodes'[t[k]].prev = IF k = 1 THEN None ELSE t[k - 1]
  <2>1. CASE k = N + 1
    <3>1. t[k] = n /\ nodes'[n].prev = last /\ k - 1 = N
      BY <1>0, <1>9, <1>15, <2>1
    <3>2. CASE N = 0
      BY <1>4, <2>1, <3>1, <3>2
    <3>3. CASE N # 0
      <4>1. k # 1 /\ t[N] = last
        BY <1>0, <1>5, <1>15, <2>1, <3>3
      <4> QED
        BY <3>1, <4>1
    <3> QED
      BY <3>2, <3>3
  <2>2. CASE k \in 1 .. N
    <3>1. t[k] = p[h][k] /\ nodes'[p[h][k]].prev = nodes[p[h][k]].prev
      BY <1>2, <1>9, <1>15, <2>2
    <3>2. nodes[p[h][k]].prev = IF k = 1 THEN None ELSE p[h][k - 1]
      BY <1>1, <2>2 DEF BackChain, N
    <3>3. k # 1 => t[k - 1] = p[h][k - 1]
      <4>1. k # 1 => k - 1 \in 1 .. N
        BY <1>0, <2>2
      <4> QED
        BY <1>15, <4>1
    <3> QED
      BY <3>1, <3>2, <3>3
  <2> QED
    BY <1>16, <2>1, <2>2
<1>18. BackChain(t, n, nodes', longer)
  BY <1>10, <1>15, <1>17 DEF BackChain
<1>19. Visits(t, longer) = Visits(p[h], seq) \cup {n}
  <2>1. \A k \in 1 .. N + 1 : t[k] \in Visits(p[h], seq) \cup {n}
    BY <1>15, <1>16 DEF Visits, N
  <2>2. N + 1 \in 1 .. N + 1 /\ \A k \in 1 .. N : k \in 1 .. N + 1
    BY <1>0
  <2>3. n \in Visits(t, longer) /\ \A k \in 1 .. N : p[h][k] \in Visits(t, longer)
    BY <1>10, <1>15, <2>2 DEF Visits
  <2> QED
    BY <1>10, <2>1, <2>3 DEF Visits, N
<1>20. \A m \in DOMAIN nodes : m \notin Visits(p[h], seq) => nodes'[m] = nodes[m]
  <2>1. last \in Visits(p[h], seq) \/ last = None
    BY <1>4, <1>5 DEF Visits, N
  <2>2. None \notin DOMAIN nodes
    BY <1>0 DEF IsHeap, None
  <2> QED
    BY <1>9, <2>1, <2>2
<1>21. \A g \in Handles : g # h => head'[g] = head[g] /\ tail'[g] = tail[g] /\ content'[g] = content[g]
  BY <1>6 DEF ListTypes
<1>22. DequeStep(p, h, t, {n}, {})
  BY <1>3, <1>6, <1>9, <1>11, <1>13, <1>15, <1>18, <1>19, <1>20, <1>21 DEF DequeStep
<1> QED
  BY <1>12, <1>22, DequeChanges

\* peek_front_mut and peek_back_mut write the first or the last element.
LEMMA SetEndKeeps ==
  ASSUME ListTypes, NEW p, Shape(p), NEW h \in Handles, NEW e \in Elems, listKind = "fourth",
         peek_front_mut(h, e) \/ peek_back_mut(h, e)
  PROVE  Kept
<1>0. /\ content[h] \in Seq(Elems) /\ Len(content[h]) \in Nat
      /\ (content[h] = <<>> <=> Len(content[h]) = 0)
  BY EmptyByLength DEF ListTypes
<1>1. Chain(p[h], head[h], nodes, content[h]) /\ BackChain(p[h], tail[h], nodes, content[h])
  BY DEF Shape
<1>2. CASE peek_front_mut(h, e)
  <2>1. content[h] # <<>> /\ head[h] = p[h][1]
    BY <1>1, <1>2 DEF peek_front_mut, SetEnd, Chain
  <2>2. 1 \in 1 .. Len(content[h])
    BY <1>0, <2>1
  <2>3. /\ nodes' = [nodes EXCEPT ![p[h][1]].elem = e]
        /\ content' = [content EXCEPT ![h] = [content[h] EXCEPT ![1] = e]]
        /\ UNCHANGED <<listKind, head, tail, panicked>>
    BY <1>2, <2>1 DEF peek_front_mut, SetEnd, Elements
  <2> QED
    BY <2>2, <2>3, WriteKeeps
<1>3. CASE peek_back_mut(h, e)
  <2>1. content[h] # <<>> /\ tail[h] = p[h][Len(content[h])]
    BY <1>1, <1>3 DEF peek_back_mut, SetEnd, BackChain
  <2>2. Len(content[h]) \in 1 .. Len(content[h])
    BY <1>0, <2>1
  <2>3. /\ nodes' = [nodes EXCEPT ![p[h][Len(content[h])]].elem = e]
        /\ content' = [content EXCEPT ![h] = [content[h] EXCEPT ![Len(content[h])] = e]]
        /\ UNCHANGED <<listKind, head, tail, panicked>>
    BY <1>3, <2>1 DEF peek_back_mut, SetEnd, Elements
  <2> QED
    BY <2>2, <2>3, WriteKeeps
<1> QED
  BY <1>2, <1>3

\* Who points to the i-th node of list h: its neighbours, and the ends of the list.
Pointed(p, h, i) ==
  /\ p[h][i] # None /\ p[h][i] \in DOMAIN nodes
  /\ \A g \in Handles : head[g] = p[h][i] => g = h /\ i = 1
  /\ \A g \in Handles : tail[g] = p[h][i] => g = h /\ i = Len(content[h])
  /\ \A m \in DOMAIN nodes : nodes[m].next = p[h][i] => i # 1 /\ m = p[h][i - 1]
  /\ \A m \in DOMAIN nodes : nodes[m].prev = p[h][i] => i # Len(content[h]) /\ m = p[h][i + 1]

\* Nobody else does.
LEMMA PointersOf ==
  ASSUME ListTypes, NEW p, Shape(p), listKind = "fourth", NEW h \in Handles, NEW i \in 1 .. Len(content[h])
  PROVE  Pointed(p, h, i)
<1>0. \A g \in Handles : Len(content[g]) \in Nat /\ (content[g] = <<>> <=> Len(content[g]) = 0)
  BY EmptyByLength DEF ListTypes
<1>1. p[h][i] # None /\ p[h][i] \in DOMAIN nodes
  BY ShapeNodes DEF ListTypes, IsHeap, None
<1>2. \A g \in Handles : Chain(p[g], head[g], nodes, content[g]) /\ BackChain(p[g], tail[g], nodes, content[g])
  BY DEF Shape
<1>3. ASSUME NEW g \in Handles, NEW k \in 1 .. Len(content[g]), p[g][k] = p[h][i]
      PROVE  g = h /\ k = i
  <2>1. g = h
    BY <1>3 DEF Shape
  <2> QED
    BY <1>2, <1>3, <2>1 DEF Chain
<1>4. ASSUME NEW g \in Handles, head[g] = p[h][i]
      PROVE  g = h /\ i = 1
  <2>1. content[g] # <<>> /\ head[g] = p[g][1]
    BY <1>1, <1>2, <1>4 DEF Chain
  <2>2. 1 \in 1 .. Len(content[g])
    BY <1>0, <2>1
  <2> QED
    BY <1>3, <1>4, <2>1, <2>2
<1>5. ASSUME NEW g \in Handles, tail[g] = p[h][i]
      PROVE  g = h /\ i = Len(content[h])
  <2>1. content[g] # <<>> /\ tail[g] = p[g][Len(content[g])]
    BY <1>1, <1>2, <1>5 DEF BackChain
  <2>2. Len(content[g]) \in 1 .. Len(content[g])
    BY <1>0, <2>1
  <2> QED
    BY <1>3, <1>5, <2>1, <2>2
<1>6. ASSUME NEW m \in DOMAIN nodes, nodes[m].next = p[h][i]
      PROVE  i # 1 /\ m = p[h][i - 1]
  <2>1. PICK g \in Handles : \E k \in 1 .. Len(content[g]) : p[g][k] = m
    BY DEF Shape
  <2>2. PICK k \in 1 .. Len(content[g]) : p[g][k] = m
    BY <2>1
  <2>3. k # Len(content[g]) /\ p[g][k + 1] = p[h][i]
    BY <1>1, <1>2, <1>6, <2>2 DEF Chain
  <2>4. k + 1 \in 1 .. Len(content[g]) /\ (k + 1) - 1 = k /\ k + 1 # 1
    BY <1>0, <2>3
  <2> QED
    BY <1>3, <2>2, <2>3, <2>4
<1>7. ASSUME NEW m \in DOMAIN nodes, nodes[m].prev = p[h][i]
      PROVE  i # Len(content[h]) /\ m = p[h][i + 1]
  <2>1. PICK g \in Handles : \E k \in 1 .. Len(content[g]) : p[g][k] = m
    BY DEF Shape
  <2>2. PICK k \in 1 .. Len(content[g]) : p[g][k] = m
    BY <2>1
  <2>3. k # 1 /\ p[g][k - 1] = p[h][i]
    BY <1>1, <1>2, <1>7, <2>2 DEF BackChain
  <2>4. k - 1 \in 1 .. Len(content[g]) /\ (k - 1) + 1 = k /\ k - 1 # Len(content[g])
    BY <1>0, <2>3
  <2> QED
    BY <1>3, <2>2, <2>3, <2>4
<1> QED
  BY <1>1, <1>4, <1>5, <1>6, <1>7 DEF Pointed

\* try_unwrap succeeds for a node nobody points to,
LEMMA UnwrapFrees ==
  ASSUME NEW h, NEW old, NEW heap, NEW seq, TryUnwrap(h, old, heap, seq),
         \A g \in Handles : head'[g] # old /\ tail'[g] # old,
         \A m \in DOMAIN heap : heap[m].prev # old /\ heap[m].next # old
  PROVE  nodes' = Without(old, heap) /\ Elements(h, seq) /\ UNCHANGED panicked
  BY DEF TryUnwrap

\* and fails for one that the head still points to.
LEMMA UnwrapFails ==
  ASSUME NEW h \in Handles, NEW old, NEW heap, NEW seq, TryUnwrap(h, old, heap, seq), head'[h] = old
  PROVE  panicked' = TRUE /\ UNCHANGED content
  BY DEF TryUnwrap

\* The front node is not the only one.
LEMMA PopFrontOfMany ==
  ASSUME ListTypes, NEW p, Shape(p), NEW h \in Handles, listKind = "fourth", pop_front(h),
         nodes[head[h]].next # None
  PROVE  Kept /\ UNCHANGED panicked
<1> DEFINE seq == content[h]
           old == head[h]
           new == nodes[old].next
           N == Len(seq) - 1
<1>0. /\ seq \in Seq(Elems) /\ Len(seq) \in Nat /\ (seq = <<>> <=> Len(seq) = 0)
      /\ IsHeap(nodes) /\ head \in [Handles -> Nat] /\ tail \in [Handles -> Nat]
  BY EmptyByLength DEF ListTypes
<1>1. Chain(p[h], old, nodes, seq) /\ BackChain(p[h], tail[h], nodes, seq)
  BY DEF Shape
<1>2. seq # <<>> /\ old = p[h][1] /\ 1 \in 1 .. Len(seq)
  BY <1>0, <1>1 DEF pop_front, Chain
<1>3. 1 # Len(seq) /\ new = p[h][1 + 1]
  BY <1>1, <1>2 DEF Chain
<1>4. N \in Nat /\ N >= 1 /\ Len(seq) = N + 1 /\ 2 \in 1 .. Len(seq) /\ N + 1 \in 1 .. Len(seq) /\ 1 + 1 = 2
  <2>1. Len(seq) \in Nat /\ Len(seq) >= 1 /\ Len(seq) # 1
    BY <1>0, <1>2, <1>3
  <2>2. \A n \in Nat : n >= 1 /\ n # 1 =>
          n - 1 \in Nat /\ n - 1 >= 1 /\ n = (n - 1) + 1 /\ 2 \in 1 .. n /\ (n - 1) + 1 \in 1 .. n
    OBVIOUS
  <2>3. PICK n \in Nat : n = Len(seq)
    BY <2>1
  <2>4. N = n - 1
    BY <2>3
  <2> HIDE DEF seq, N
  <2> QED
    BY <2>1, <2>2, <2>3, <2>4
<1>5. new = p[h][2] /\ \A j, k \in 1 .. Len(seq) : p[h][j] = p[h][k] => j = k
  BY <1>1, <1>3, <1>4 DEF Chain
<1>6. old \in DOMAIN nodes /\ new \in DOMAIN nodes /\ old # new
  BY <1>1, <1>2, <1>4, <1>5 DEF Chain
<1>29. Pointed(p, h, 1)
  BY <1>2, PointersOf
<1>7. PICK heap : heap = [nodes EXCEPT ![old].next = None, ![new].prev = None]
  OBVIOUS
<1>8. IsCut(nodes, heap, old, new)
  <2>1. heap = SetPrev(SetNext(nodes, old, None), new, None)
    BY <1>7 DEF SetPrev, SetNext
  <2> QED
    BY <1>0, <1>6, <2>1, HeapCut
<1>9. /\ head' = [head EXCEPT ![h] = new] /\ UNCHANGED <<tail, listKind>>
      /\ TryUnwrap(h, old, heap, Tail(seq))
  BY <1>7 DEF pop_front
<1>10. \A g \in Handles : head'[g] # old /\ tail'[g] # old
  <2>1. \A g \in Handles : (head[g] = old => g = h) /\ tail[g] # old
    BY <1>2, <1>3, <1>29 DEF Pointed
  <2> QED
    BY <1>0, <1>6, <1>9, <2>1
<1>11. \A m \in DOMAIN heap : heap[m].prev # old /\ heap[m].next # old
  <2>1. \A m \in DOMAIN nodes : nodes[m].next # old /\ (nodes[m].prev = old => m = p[h][1 + 1])
    BY <1>2, <1>29 DEF Pointed
  <2>2. old # None
    BY <1>2, <1>29 DEF Pointed
  <2> QED
    BY <1>4, <1>5, <1>8, <2>1, <2>2 DEF IsCut
<1>12. nodes' = Without(old, heap) /\ content' = [content EXCEPT ![h] = Tail(seq)] /\ UNCHANGED panicked
  BY <1>9, <1>10, <1>11, UnwrapFrees DEF Elements
<1>13. /\ IsHeap(nodes') /\ DOMAIN nodes' = DOMAIN nodes \ {old}
       /\ \A m \in DOMAIN nodes \ {old} : nodes'[m] = heap[m]
  <2>1. IsHeap(heap) /\ DOMAIN heap = DOMAIN nodes
    BY <1>8 DEF IsCut
  <2>2. /\ IsHeap(Without(old, heap)) /\ DOMAIN Without(old, heap) = DOMAIN heap \ {old}
        /\ \A m \in DOMAIN heap \ {old} : Without(old, heap)[m] = heap[m]
    BY <2>1, HeapWithout
  <2> QED
    BY <1>12, <2>1, <2>2
<1>14. content[h] = seq
  OBVIOUS
<1> HIDE DEF seq, N, old, new
<1>15. \A m \in DOMAIN nodes \ {old} :
          /\ m \in DOMAIN nodes' /\ nodes'[m].elem = nodes[m].elem /\ nodes'[m].next = nodes[m].next
          /\ nodes'[m].prev = IF m = new THEN None ELSE nodes[m].prev
          /\ m # new => nodes'[m] = nodes[m]
  BY <1>8, <1>13 DEF IsCut
<1>16. /\ Tail(seq) \in Seq(Elems) /\ Len(Tail(seq)) = N
       /\ \E t : Shifted(t, p[h], nodes[old].next, nodes', seq)
  <2>1. \A m \in DOMAIN nodes \ {old} : m \in DOMAIN nodes' /\ nodes'[m].elem = nodes[m].elem
                                        /\ nodes'[m].next = nodes[m].next
    BY <1>15
  <2> QED
    BY <1>0, <1>1, <1>2, <2>1, ChainPop DEF N
<1>17. PICK t : Chain(t, new, nodes', Tail(seq)) /\ \A k \in 1 .. N : t[k] = p[h][k + 1]
  BY <1>16 DEF N, new, Shifted
<1>18. new \in Nat
  BY <1>0, <1>6 DEF IsHeap
<1>19. ListTypes'
  BY <1>9, <1>12, <1>13, <1>16, <1>18 DEF ListTypes
<1>20. head'[h] = new /\ tail'[h] = tail[h] /\ content'[h] = Tail(seq)
  BY <1>0, <1>9, <1>12 DEF ListTypes
<1>21. ASSUME NEW k \in 1 .. N
       PROVE  nodes'[t[k]].prev = IF k = 1 THEN None ELSE t[k - 1]
  <2>1. k + 1 \in 1 .. Len(seq) /\ k + 1 # 1 /\ (k + 1) - 1 = k
    BY <1>4
  <2>2. t[k] = p[h][k + 1] /\ p[h][k + 1] \in DOMAIN nodes /\ p[h][k + 1] # old
    <3>1. p[h][k + 1] \in DOMAIN nodes
      BY <1>1, <2>1 DEF Chain
    <3> QED
      BY <1>2, <1>5, <1>17, <2>1, <3>1
  <2>3. nodes[p[h][k + 1]].prev = p[h][k]
    BY <1>1, <2>1 DEF BackChain
  <2>4. CASE k = 1
    BY <1>4, <1>5, <1>15, <2>2, <2>4
  <2>5. CASE k # 1
    <3>1. p[h][k + 1] # new
      BY <1>4, <1>5, <2>1, <2>5
    <3>2. t[k - 1] = p[h][k]
      <4>1. k - 1 \in 1 .. N /\ (k - 1) + 1 = k
        BY <1>4, <2>5
      <4> QED
        BY <1>17, <4>1
    <3> QED
      BY <1>15, <2>2, <2>3, <2>5, <3>1, <3>2
  <2> QED
    BY <2>4, <2>5
<1>22. tail[h] = t[N]
  <2>1. N \in 1 .. N
    BY <1>4
  <2> QED
    BY <1>1, <1>2, <1>4, <1>17, <2>1 DEF BackChain
<1>23. Tail(seq) # <<>>
  <2>1. Tail(seq) \in Seq(Elems) /\ Len(Tail(seq)) = N
    BY <1>16
  <2>2. N # 0
    BY <1>4
  <2> QED
    BY <2>1, <2>2, EmptyByLength
<1>24. BackChain(t, tail[h], nodes', Tail(seq))
  BY <1>16, <1>21, <1>22, <1>23 DEF BackChain
<1>25. Visits(t, Tail(seq)) = Visits(p[h], seq) \ {old}
  <2>1. \A k \in 1 .. N : t[k] \in Visits(p[h], seq) \ {old}
    <3> TAKE k \in 1 .. N
    <3>1. k + 1 \in 1 .. Len(seq) /\ k + 1 # 1 /\ t[k] = p[h][k + 1]
      BY <1>4, <1>17
    <3> QED
      BY <1>2, <1>5, <3>1 DEF Visits
  <2>2. \A k \in 1 .. Len(seq) : p[h][k] = old \/ p[h][k] \in Visits(t, Tail(seq))
    <3> TAKE k \in 1 .. Len(seq)
    <3>1. k = 1 \/ (k - 1 \in 1 .. N /\ (k - 1) + 1 = k)
      BY <1>4
    <3> QED
      BY <1>2, <1>16, <1>17, <3>1 DEF Visits
  <2> QED
    BY <1>16, <2>1, <2>2 DEF Visits
<1>26. old \in Visits(p[h], seq) /\ new \in Visits(p[h], seq)
  BY <1>2, <1>4, <1>5 DEF Visits
<1>27. \A g \in Handles : g # h => head'[g] = head[g] /\ tail'[g] = tail[g] /\ content'[g] = content[g]
  BY <1>9, <1>12 DEF ListTypes
<1>28. DequeStep(p, h, t, {}, {old})
  BY <1>9, <1>13, <1>14, <1>15, <1>17, <1>20, <1>24, <1>25, <1>26, <1>27 DEF DequeStep
<1> QED
  BY <1>12, <1>19, <1>28, DequeChanges

\* The front node is the only one.
LEMMA PopFrontOfOne ==
  ASSUME ListTypes, NEW p, Shape(p), NEW h \in Handles, listKind = "fourth", pop_front(h),
         nodes[head[h]].next = None
  PROVE  Kept /\ UNCHANGED panicked
<1> DEFINE seq == content[h]
           old == head[h]
           s == [k \in 1 .. 0 |-> None]
<1>0. /\ seq \in Seq(Elems) /\ Len(seq) \in Nat /\ (seq = <<>> <=> Len(seq) = 0)
      /\ IsHeap(nodes) /\ head \in [Handles -> Nat] /\ tail \in [Handles -> Nat]
  BY EmptyByLength DEF ListTypes
<1>1. Chain(p[h], old, nodes, seq)
  BY DEF Shape
<1>2. seq # <<>> /\ old = p[h][1] /\ 1 \in 1 .. Len(seq) /\ old # None
  BY <1>0, <1>1 DEF pop_front, Chain
<1>3. Len(seq) = 1
  <2>1. Len(seq) # 1 => 1 + 1 \in 1 .. Len(seq) /\ p[h][1 + 1] = None
    <3>1. nodes[p[h][1]].next = IF 1 = Len(seq) THEN None ELSE p[h][1 + 1]
      BY <1>1, <1>2 DEF Chain
    <3>2. nodes[p[h][1]].next = None
      BY <1>2
    <3>3. \A n \in Nat : n # 1 /\ 1 \in 1 .. n => 1 + 1 \in 1 .. n
      OBVIOUS
    <3> QED
      BY <1>0, <1>2, <3>1, <3>2, <3>3, Zenon
  <2>2. \A k \in 1 .. Len(seq) : p[h][k] # None
    BY ShapeNodes DEF ListTypes, IsHeap, None
  <2> QED
    BY <2>1, <2>2
<1>4. Pointed(p, h, 1)
  BY <1>2, PointersOf
<1>5. /\ head' = [head EXCEPT ![h] = None] /\ tail' = [tail EXCEPT ![h] = None]
      /\ TryUnwrap(h, old, nodes, <<>>) /\ UNCHANGED listKind
  BY DEF pop_front, Only
<1>6. \A g \in Handles : head'[g] # old /\ tail'[g] # old
  <2>1. \A g \in Handles : (head[g] = old => g = h) /\ (tail[g] = old => g = h)
    BY <1>2, <1>4 DEF Pointed
  <2> QED
    BY <1>0, <1>2, <1>5, <2>1
<1>7. \A m \in DOMAIN nodes : nodes[m].prev # old /\ nodes[m].next # old
  BY <1>2, <1>3, <1>4 DEF Pointed
<1>8. nodes' = Without(old, nodes) /\ content' = [content EXCEPT ![h] = <<>>] /\ UNCHANGED panicked
  BY <1>5, <1>6, <1>7, UnwrapFrees DEF Elements
<1>9. /\ IsHeap(nodes') /\ DOMAIN nodes' = DOMAIN nodes \ {old}
      /\ \A m \in DOMAIN nodes \ {old} : nodes'[m] = nodes[m]
  BY <1>0, <1>8, HeapWithout
<1>10. ListTypes'
  BY <1>5, <1>8, <1>9 DEF ListTypes, None
<1>11. head'[h] = None /\ tail'[h] = None /\ content'[h] = <<>>
  BY <1>0, <1>5, <1>8 DEF ListTypes
<1>12. Chain(s, None, nodes', <<>>) /\ BackChain(s, None, nodes', <<>>)
  BY DEF Chain, BackChain
<1>13. Visits(p[h], seq) = {old} /\ Visits(s, <<>>) = {}
  <2>1. 1 .. Len(seq) = {1}
    BY <1>3
  <2>2. Visits(p[h], seq) = {old}
    BY <1>2, <2>1 DEF Visits
  <2>3. Visits(s, <<>>) = {}
    BY DEF Visits
  <2> QED
    BY <2>2, <2>3
<1>14. \A g \in Handles : g # h => head'[g] = head[g] /\ tail'[g] = tail[g] /\ content'[g] = content[g]
  BY <1>5, <1>8 DEF ListTypes
<1>15. content[h] = seq
  OBVIOUS
<1> HIDE DEF seq, old, s
<1>16. DequeStep(p, h, s, {}, {old})
  BY <1>5, <1>9, <1>11, <1>12, <1>13, <1>14, <1>15 DEF DequeStep
<1> QED
  BY <1>8, <1>10, <1>16, DequeChanges

\* The back node is not the only one.
LEMMA PopBackOfMany ==
  ASSUME ListTypes, NEW p, Shape(p), NEW h \in Handles, listKind = "fourth", pop_back(h),
         nodes[tail[h]].prev # None
  PROVE  Kept /\ UNCHANGED panicked
<1> DEFINE seq == content[h]
           old == tail[h]
           new == nodes[old].prev
           N == Len(seq) - 1
           shorter == SubSeq(seq, 1, Len(seq) - 1)
<1>0. /\ seq \in Seq(Elems) /\ Len(seq) \in Nat /\ (seq = <<>> <=> Len(seq) = 0)
      /\ IsHeap(nodes) /\ head \in [Handles -> Nat] /\ tail \in [Handles -> Nat]
  BY EmptyByLength DEF ListTypes
<1>1. Chain(p[h], head[h], nodes, seq) /\ BackChain(p[h], old, nodes, seq)
  BY DEF Shape
<1>2. seq # <<>> /\ old = p[h][Len(seq)] /\ Len(seq) \in 1 .. Len(seq)
  <2>1. old # None
    BY DEF pop_back
  <2>2. seq # <<>> /\ old = p[h][Len(seq)]
    BY <1>1, <2>1 DEF BackChain
  <2> HIDE DEF seq
  <2> QED
    BY <1>0, <2>2
<1>3. 1 # Len(seq) /\ new = p[h][Len(seq) - 1]
  BY <1>1, <1>2 DEF BackChain
<1>4. /\ N \in Nat /\ N >= 1 /\ Len(seq) = N + 1 /\ 1 \in 1 .. N /\ N \in 1 .. N /\ N \in 1 .. Len(seq)
      /\ N # Len(seq) /\ N + 1 = Len(seq) /\ \A k \in 1 .. N : k \in 1 .. Len(seq) /\ k # Len(seq)
  <2>1. Len(seq) \in Nat /\ Len(seq) >= 1 /\ Len(seq) # 1
    BY <1>0, <1>2, <1>3
  <2>2. PICK n \in Nat : n = Len(seq)
    BY <2>1
  <2>3. N = n - 1
    BY <2>2
  <2> HIDE DEF seq, N
  <2>4. N \in Nat /\ N >= 1 /\ n = N + 1
    BY <2>1, <2>2, <2>3
  <2> QED
    BY <2>2, <2>4
<1>5. new = p[h][N] /\ \A j, k \in 1 .. Len(seq) : p[h][j] = p[h][k] => j = k
  BY <1>1, <1>3 DEF Chain
<1>6. old \in DOMAIN nodes /\ new \in DOMAIN nodes /\ old # new
  BY <1>1, <1>2, <1>4, <1>5 DEF Chain
<1>7. Pointed(p, h, Len(seq))
  BY <1>2, PointersOf
<1>8. PICK heap : heap = [nodes EXCEPT ![old].prev = None, ![new].next = None]
  OBVIOUS
<1>9. IsCut(nodes, heap, new, old)
  <2>1. heap = SetNext(SetPrev(nodes, old, None), new, None)
    BY <1>8 DEF SetPrev, SetNext
  <2> QED
    BY <1>0, <1>6, <2>1, HeapCut
<1>10. /\ tail' = [tail EXCEPT ![h] = new] /\ UNCHANGED <<head, listKind>>
       /\ TryUnwrap(h, old, heap, shorter)
  BY <1>8 DEF pop_back
<1>11. \A g \in Handles : head'[g] # old /\ tail'[g] # old
  <2>1. \A g \in Handles : (tail[g] = old => g = h) /\ head[g] # old
    BY <1>2, <1>3, <1>7 DEF Pointed
  <2> QED
    BY <1>0, <1>6, <1>10, <2>1
<1>12. \A m \in DOMAIN heap : heap[m].prev # old /\ heap[m].next # old
  <2>1. \A m \in DOMAIN nodes : nodes[m].prev # old /\ (nodes[m].next = old => m = p[h][Len(seq) - 1])
    BY <1>2, <1>7 DEF Pointed
  <2>2. old # None
    BY <1>2, <1>7 DEF Pointed
  <2> QED
    BY <1>3, <1>9, <2>1, <2>2 DEF IsCut
<1>13. nodes' = Without(old, heap) /\ content' = [content EXCEPT ![h] = shorter] /\ UNCHANGED panicked
  BY <1>10, <1>11, <1>12, UnwrapFrees DEF Elements
<1>14. /\ IsHeap(nodes') /\ DOMAIN nodes' = DOMAIN nodes \ {old}
       /\ \A m \in DOMAIN nodes \ {old} : nodes'[m] = heap[m]
  <2>1. IsHeap(heap) /\ DOMAIN heap = DOMAIN nodes
    BY <1>9 DEF IsCut
  <2>2. /\ IsHeap(Without(old, heap)) /\ DOMAIN Without(old, heap) = DOMAIN heap \ {old}
        /\ \A m \in DOMAIN heap \ {old} : Without(old, heap)[m] = heap[m]
    BY <2>1, HeapWithout
  <2> QED
    BY <1>13, <2>1, <2>2
<1>15. content[h] = seq
  OBVIOUS
<1> HIDE DEF seq, N, old, new
<1>16. \A m \in DOMAIN nodes \ {old} :
          /\ m \in DOMAIN nodes' /\ nodes'[m].elem = nodes[m].elem /\ nodes'[m].prev = nodes[m].prev
          /\ nodes'[m].next = IF m = new THEN None ELSE nodes[m].next
          /\ m # new => nodes'[m] = nodes[m]
  BY <1>9, <1>14 DEF IsCut
<1>17. /\ shorter \in Seq(Elems) /\ Len(shorter) = Len(seq) - 1
       /\ \E t : Shortened(t, p[h], head[h], nodes', seq)
  <2>1. \A m \in DOMAIN nodes \ {p[h][Len(seq)]} :
          /\ m \in DOMAIN nodes' /\ nodes'[m].elem = nodes[m].elem
          /\ nodes'[m].next = IF m = p[h][Len(seq) - 1] THEN None ELSE nodes[m].next
    BY <1>2, <1>3, <1>16
  <2>2. Len(seq) > 1
    BY <1>4
  <2> QED
    BY <1>0, <1>1, <2>1, <2>2, ChainDropLast
<1> HIDE DEF shorter
<1>18. PICK t : Chain(t, head[h], nodes', shorter) /\ \A k \in 1 .. N : t[k] = p[h][k]
  BY <1>17 DEF N, shorter, Shortened
<1>19. Len(shorter) = N /\ shorter # <<>>
  <2>1. Len(shorter) = N
    BY <1>17 DEF N
  <2>2. N # 0
    BY <1>4
  <2> QED
    BY <1>17, <2>1, <2>2, EmptyByLength
<1>20. new \in Nat
  BY <1>0, <1>6 DEF IsHeap
<1>21. ListTypes'
  BY <1>10, <1>13, <1>14, <1>17, <1>20 DEF ListTypes
<1>22. head'[h] = head[h] /\ tail'[h] = new /\ content'[h] = shorter
  BY <1>0, <1>10, <1>13 DEF ListTypes
<1>23. ASSUME NEW k \in 1 .. N
       PROVE  nodes'[t[k]].prev = IF k = 1 THEN None ELSE t[k - 1]
  <2>1. k \in 1 .. Len(seq) /\ k # Len(seq)
    BY <1>4
  <2>2. t[k] = p[h][k] /\ p[h][k] \in DOMAIN nodes /\ p[h][k] # old
    <3>1. p[h][k] \in DOMAIN nodes
      BY <1>1, <2>1 DEF Chain
    <3> QED
      BY <1>2, <1>5, <1>18, <2>1, <3>1
  <2>3. nodes[p[h][k]].prev = IF k = 1 THEN None ELSE p[h][k - 1]
    BY <1>1, <2>1 DEF BackChain
  <2>4. k # 1 => t[k - 1] = p[h][k - 1]
    <3>1. k # 1 => k - 1 \in 1 .. N
      BY <1>4
    <3> QED
      BY <1>18, <3>1
  <2> QED
    BY <1>16, <2>2, <2>3, <2>4
<1>24. BackChain(t, new, nodes', shorter)
  <2>1. new = t[N]
    BY <1>4, <1>5, <1>18
  <2> QED
    BY <1>19, <1>23, <2>1 DEF BackChain
<1>25. Visits(t, shorter) = Visits(p[h], seq) \ {old}
  <2>1. \A k \in 1 .. N : t[k] \in Visits(p[h], seq) \ {old}
    BY <1>2, <1>4, <1>5, <1>18 DEF Visits
  <2>2. \A k \in 1 .. Len(seq) : p[h][k] = old \/ p[h][k] \in Visits(t, shorter)
    <3> TAKE k \in 1 .. Len(seq)
    <3>1. k = Len(seq) \/ k \in 1 .. N
      BY <1>4
    <3> QED
      BY <1>2, <1>18, <1>19, <3>1 DEF Visits
  <2> QED
    BY <1>19, <2>1, <2>2 DEF Visits
<1>26. old \in Visits(p[h], seq) /\ new \in Visits(p[h], seq)
  BY <1>2, <1>4, <1>5 DEF Visits
<1>27. \A g \in Handles : g # h => head'[g] = head[g] /\ tail'[g] = tail[g] /\ content'[g] = content[g]
  BY <1>10, <1>13 DEF ListTypes
<1>28. DequeStep(p, h, t, {}, {old})
  BY <1>10, <1>14, <1>15, <1>16, <1>18, <1>22, <1>24, <1>25, <1>26, <1>27 DEF DequeStep
<1> QED
  BY <1>13, <1>21, <1>28, DequeChanges

\* The back node is the only one: the head still has it, and the unwrap fails.
LEMMA PopBackOfOne ==
  ASSUME ListTypes, NEW p, Shape(p), NEW h \in Handles, listKind = "fourth", pop_back(h),
         nodes[tail[h]].prev = None
  PROVE  panicked' /\ listKind' = "fourth" /\ Len(content'[h]) = 1 /\ tail'[h] = None
<1> DEFINE seq == content[h]
           old == tail[h]
<1>0. /\ seq \in Seq(Elems) /\ Len(seq) \in Nat /\ (seq = <<>> <=> Len(seq) = 0)
      /\ IsHeap(nodes) /\ head \in [Handles -> Nat] /\ tail \in [Handles -> Nat]
  BY EmptyByLength DEF ListTypes
<1>1. Chain(p[h], head[h], nodes, seq) /\ BackChain(p[h], old, nodes, seq)
  BY DEF Shape
<1>2. seq # <<>> /\ old = p[h][Len(seq)] /\ Len(seq) \in 1 .. Len(seq)
  <2>1. old # None
    BY DEF pop_back
  <2>2. seq # <<>> /\ old = p[h][Len(seq)]
    BY <1>1, <2>1 DEF BackChain
  <2> HIDE DEF seq
  <2> QED
    BY <1>0, <2>2
<1>3. Len(seq) = 1
  <2>1. Len(seq) # 1 => Len(seq) - 1 \in 1 .. Len(seq) /\ p[h][Len(seq) - 1] = None
    <3>1. nodes[p[h][Len(seq)]].prev = IF Len(seq) = 1 THEN None ELSE p[h][Len(seq) - 1]
      BY <1>1, <1>2 DEF BackChain
    <3>2. nodes[p[h][Len(seq)]].prev = None
      BY <1>2
    <3>3. \A n \in Nat : n # 1 /\ n \in 1 .. n => n - 1 \in 1 .. n
      OBVIOUS
    <3> QED
      BY <1>0, <1>2, <3>1, <3>2, <3>3, Zenon
  <2>2. \A k \in 1 .. Len(seq) : p[h][k] # None
    BY ShapeNodes DEF ListTypes, IsHeap, None
  <2> QED
    BY <2>1, <2>2
<1>4. head[h] = old
  BY <1>1, <1>2, <1>3 DEF Chain
<1>5. tail' = [tail EXCEPT ![h] = None] /\ UNCHANGED <<head, listKind>>
      /\ TryUnwrap(h, old, nodes, <<>>)
  BY DEF pop_back
<1>6. panicked' = TRUE /\ UNCHANGED content
  BY <1>4, <1>5, UnwrapFails
<1> QED
  BY <1>0, <1>3, <1>5, <1>6

\* Every call keeps the lists, or it is the pop_back that fails.
LEMMA ListStep ==
  ASSUME ListInv, [ListNext]_listVars
  PROVE  ListInv'
<1>1. CASE UNCHANGED listVars
  <2>1. /\ listKind' = listKind /\ head' = head /\ tail' = tail /\ nodes' = nodes
        /\ panicked' = panicked /\ content' = content
    BY <1>1 DEF listVars
  <2>2. ListTypes => ListTypes'
    BY <2>1 DEF ListTypes
  <2>3. ASSUME NEW p, Shape(p)
        PROVE  Shape(p)'
    BY <2>1, <2>3 DEF Shape
  <2> QED
    BY <2>1, <2>2, <2>3 DEF ListInv
<1>2. CASE panicked /\ ListNext
  <2>1. listKind = "fourth"
    BY <1>2 DEF ListInv
  <2> QED
    BY <1>2, <2>1 DEF ListNext, pop_front, pop_back, push_front, push_back, peek_front_mut, peek_back_mut,
                      SetEnd, MayAllocate
<1>3. CASE ~panicked /\ ListNext
  <2>0. PICK p : ListTypes /\ Shape(p)
    BY <1>3 DEF ListInv
  <2> DEFINE Fine == Kept /\ UNCHANGED panicked
             Failed == panicked' /\ listKind' = "fourth" /\ \E h \in Handles : Len(content'[h]) = 1 /\ tail'[h] = None
  <2>1. ASSUME NEW h \in Handles, listKind \in {"first", "second"},
               drop(h) \/ pop(h) \/ \E e \in Elems : push(h, e) \/ peek_mut(h, e) \/ \E k \in 1 .. MaxListNodes : iter_mut(h, k, e)
        PROVE  Fine
    <3>0. listKind # "fourth" /\ listKind # "third"
      BY <2>1
    <3>1. CASE drop(h)
      BY <2>0, <3>0, <3>1, DropKeeps DEF drop
    <3>2. CASE pop(h)
      BY <2>0, <3>0, <3>2, PopKeeps DEF pop
    <3>3. ASSUME NEW e \in Elems, push(h, e)
          PROVE  Fine
      BY <2>0, <3>0, <3>3, PushKeeps DEF push
    <3>4. ASSUME NEW e \in Elems, NEW k \in Nat, iter_mut(h, k, e)
          PROVE  Fine
      <4>1. UNCHANGED panicked
        BY <3>4 DEF iter_mut
      <4> QED
        BY <2>0, <3>0, <3>4, <4>1, IterMutKeeps
    <3>5. 0 \in Nat /\ 1 .. MaxListNodes \subseteq Nat
      BY ListAssumption
    <3> QED
      BY <2>1, <3>1, <3>2, <3>3, <3>4, <3>5 DEF peek_mut
  <2>2. ASSUME NEW h \in Handles, listKind = "third",
               dropShared(h) \/ \E g \in Handles : tail_(g, h) \/ \E e \in Elems : append(g, h, e)
        PROVE  Fine
    <3>1. UNCHANGED panicked
      BY <2>2 DEF dropShared, tail_, append, Assign
    <3>2. CASE dropShared(h)
      BY <2>0, <2>2, <3>1, <3>2, SharedTailKeeps
    <3>3. ASSUME NEW g \in Handles, tail_(g, h)
          PROVE  Fine
      BY <2>0, <2>2, <3>1, <3>3, SharedTailKeeps
    <3>4. ASSUME NEW g \in Handles, NEW e \in Elems, append(g, h, e)
          PROVE  Fine
      BY <2>0, <2>2, <3>1, <3>4, AppendKeeps
    <3> QED
      BY <2>2, <3>2, <3>3, <3>4
  <2>3. ASSUME NEW h \in Handles, listKind = "fourth",
               \/ pop_front(h) \/ pop_back(h)
               \/ \E e \in Elems : push_front(h, e) \/ push_back(h, e) \/ peek_front_mut(h, e) \/ peek_back_mut(h, e)
        PROVE  Fine \/ Failed
    <3>1. CASE pop_front(h)
      BY <2>0, <2>3, <3>1, PopFrontOfOne, PopFrontOfMany
    <3>2. CASE pop_back(h)
      <4>1. CASE nodes[tail[h]].prev = None
        BY <2>0, <2>3, <3>2, <4>1, PopBackOfOne
      <4>2. CASE nodes[tail[h]].prev # None
        BY <2>0, <2>3, <3>2, <4>2, PopBackOfMany
      <4> QED
        BY <4>1, <4>2
    <3>3. ASSUME NEW e \in Elems, push_front(h, e)
          PROVE  Fine
      BY <2>0, <2>3, <3>3, DequePushFrontKeeps DEF push_front
    <3>4. ASSUME NEW e \in Elems, push_back(h, e)
          PROVE  Fine
      BY <2>0, <2>3, <3>4, DequePushBackKeeps DEF push_back
    <3>5. ASSUME NEW e \in Elems, peek_front_mut(h, e) \/ peek_back_mut(h, e)
          PROVE  Fine
      <4>1. UNCHANGED panicked
        BY <3>5 DEF peek_front_mut, peek_back_mut, SetEnd
      <4> QED
        BY <2>0, <2>3, <3>5, <4>1, SetEndKeeps
    <3> QED
      BY <2>3, <3>1, <3>2, <3>3, <3>4, <3>5
  <2>4. Fine \/ Failed
    BY <1>3, <2>1, <2>2, <2>3 DEF ListNext, firstPush, firstPop, firstDrop
  <2>5. Fine => ListInv'
    BY <1>3 DEF ListInv, Kept
  <2>6. Failed => ListInv'
    BY DEF ListInv
  <2> QED
    BY <2>4, <2>5, <2>6
<1> QED
  BY <1>1, <1>2, <1>3

\* However long the lists of rust/lists are and however many share their tails
\* (third.rs), they hold what was put in and not taken out, every node belongs
\* to a list, and only the pop_back of the only element of a deque fails
\* (fourth.rs).
THEOREM ListsAreKept == ListSpec => []ListsHold
<1>1. ListInit => ListInv
  <2> SUFFICES ASSUME ListInit
               PROVE  ListInv
    OBVIOUS
  <2> DEFINE s == [k \in 1 .. 0 |-> None]
             q == [h \in Handles |-> s]
  <2>1. DOMAIN nodes = {} /\ IsHeap(nodes) /\ ~panicked
    BY DEF ListInit, IsHeap
  <2>2. ListTypes
    BY <2>1 DEF ListInit, ListTypes, None
  <2>3. \A h \in Handles : q[h] = s /\ content[h] = <<>> /\ head[h] = None /\ tail[h] = None
    BY DEF ListInit
  <2>4. Chain(s, None, nodes, <<>>) /\ BackChain(s, None, nodes, <<>>)
    BY DEF Chain, BackChain
  <2>5. Len(<<>>) = 0 /\ 1 .. 0 = {}
    OBVIOUS
  <2> HIDE DEF q, s
  <2>6. Shape(q)
    BY <2>1, <2>3, <2>4, <2>5 DEF Shape
  <2> QED
    BY <2>1, <2>2, <2>6 DEF ListInv
<1>2. ListInv /\ [ListNext]_listVars => ListInv'
  BY ListStep
<1>3. ListInv => ListsHold
  <2>1. CASE panicked
    BY <2>1 DEF ListInv, ListsHold
  <2>2. CASE ~panicked
    BY <2>2, ShapeHolds DEF ListInv
  <2> QED
    BY <2>1, <2>2
<1> QED
  BY <1>1, <1>2, <1>3, PTL DEF ListSpec

-----------------------------------------------------------------------------
(***************************************************************************)
(* CppObjects.  A stack turned over, and the three invariants.             *)
(***************************************************************************)
LEMMA StackTurned ==
  ASSUME NEW S, NEW s \in Seq(S)
  PROVE  /\ Turned(s) \in Seq(S) /\ Len(Turned(s)) = Len(s)
         /\ \A k \in 1 .. Len(s) : Turned(s)[k] = s[Len(s) + 1 - k]
<1>1. \A k \in 1 .. Len(s) : s[Len(s) + 1 - k] \in S
  OBVIOUS
<1> QED
  BY <1>1 DEF Turned

\* Twice turned is as before.
LEMMA TurnedTwice ==
  ASSUME NEW S, NEW s \in Seq(S) PROVE Turned(Turned(s)) = s
<1>1. Turned(Turned(s)) \in Seq(S) /\ Len(Turned(Turned(s))) = Len(s)
  BY StackTurned
<1>2. ASSUME NEW k \in 1 .. Len(s) PROVE Turned(Turned(s))[k] = s[k]
  <2>1. Turned(Turned(s))[k] = Turned(s)[Len(s) + 1 - k]
    BY StackTurned
  <2>2. Len(s) + 1 - k \in 1 .. Len(s) /\ Len(s) + 1 - (Len(s) + 1 - k) = k
    OBVIOUS
  <2>3. Turned(s)[Len(s) + 1 - k] = s[Len(s) + 1 - (Len(s) + 1 - k)]
    BY <2>2, StackTurned
  <2> QED
    BY <2>1, <2>2, <2>3
<1> QED
  BY <1>1, <1>2, SeqEqual

\* What a stack gives.
LEMMA StackPopped ==
  ASSUME NEW S, NEW s \in Seq(S), s # <<>>
  PROVE  /\ TopOf(s) \in S /\ WithoutTop(s) \in Seq(S) /\ Len(WithoutTop(s)) = Len(s) - 1
         /\ \A k \in 1 .. Len(s) - 1 : WithoutTop(s)[k] = s[k]
<1>1. PICK n \in Nat : n = Len(s) - 1
  OBVIOUS
<1>2. /\ SubSeq(s, 1, n) \in Seq(S)
      /\ Len(SubSeq(s, 1, n)) = IF 1 <= n THEN n - 1 + 1 ELSE 0
      /\ \A i \in 1 .. n - 1 + 1 : SubSeq(s, 1, n)[i] = s[1 + i - 1]
  BY <1>1, SubSeqProperties
<1>3. TopOf(s) \in S /\ WithoutTop(s) = SubSeq(s, 1, n)
  BY <1>1 DEF TopOf, WithoutTop
<1>4. Len(SubSeq(s, 1, n)) = n /\ \A i \in 1 .. n : SubSeq(s, 1, n)[i] = s[i]
  BY <1>2
<1> QED
  BY <1>1, <1>2, <1>3, <1>4

\* The top comes first in the stack turned over.
LEMMA TopFirst ==
  ASSUME NEW S, NEW s \in Seq(S), s # <<>>
  PROVE  Turned(s) = <<TopOf(s)>> \o Turned(WithoutTop(s))
<1>1. PICK w \in Seq(S) : w = WithoutTop(s) /\ Len(w) = Len(s) - 1 /\ \A k \in 1 .. Len(s) - 1 : w[k] = s[k]
  BY StackPopped
<1>2. PICK t \in Seq(S) : t = Turned(s) /\ Len(t) = Len(s) /\ \A k \in 1 .. Len(s) : t[k] = s[Len(s) + 1 - k]
  BY StackTurned
<1>3. PICK v \in Seq(S) : v = Turned(w) /\ Len(v) = Len(w) /\ \A k \in 1 .. Len(w) : v[k] = w[Len(w) + 1 - k]
  BY StackTurned
<1>4. TopOf(s) \in S /\ Len(s) \in Nat \ {0} /\ TopOf(s) = s[Len(s)]
  BY StackPopped DEF TopOf
<1>5. PICK u \in Seq(S) : u = <<TopOf(s)>> \o v
  BY <1>4, PushedAndPopped
<1>6. Len(u) = Len(s) /\ u[1] = TopOf(s) /\ \A k \in 2 .. Len(s) : u[k] = v[k - 1]
  BY <1>1, <1>3, <1>4, <1>5
<1>7. ASSUME NEW k \in 1 .. Len(s) PROVE u[k] = t[k]
  <2>1. CASE k = 1
    BY <1>2, <1>4, <1>6, <2>1
  <2>2. CASE k # 1
    <3>1. k - 1 \in 1 .. Len(w) /\ Len(w) + 1 - (k - 1) = Len(s) + 1 - k /\ Len(s) + 1 - k \in 1 .. Len(s) - 1
      <4>1. k \in Nat /\ 1 <= k /\ k <= Len(s) /\ Len(s) \in Nat /\ Len(w) = Len(s) - 1
        BY <1>1, <1>4
      <4> HIDE <1>1, <1>2, <1>3, <1>5, <1>6
      <4> QED
        BY <2>2, <4>1, SMTT(30)
    <3>2. u[k] = w[Len(w) + 1 - (k - 1)]
      <4>1. u[k] = v[k - 1]
        BY <1>4, <1>6, <2>2
      <4>2. v[k - 1] = w[Len(w) + 1 - (k - 1)]
        BY <1>3, <3>1
      <4> QED
        BY <4>1, <4>2
    <3> QED
      BY <1>1, <1>2, <3>1, <3>2
  <2> QED
    BY <2>1, <2>2
<1> QED
  BY <1>1, <1>2, <1>3, <1>5, <1>6, <1>7, SeqEqual

QueueInv ==
  /\ stack1 \in Seq(CppElems) /\ stack2 \in Seq(CppElems)
  /\ appended \in Seq(CppElems) /\ taken \in Seq(CppElems)
  /\ QueueHolds

\* CQueue returns in order what was appended.
LEMMA QueueStep == QueueInv /\ [CppNext]_cppVars => QueueInv'
<1> SUFFICES ASSUME QueueInv, [CppNext]_cppVars PROVE QueueInv'
  OBVIOUS
<1>1. ASSUME NEW x \in CppElems, appendTail(x) PROVE QueueInv'
  <2>1. /\ stack1' = Append(stack1, x) /\ stack2' = stack2 /\ appended' = Append(appended, x)
        /\ taken' = taken /\ thrown' = FALSE
    BY <1>1 DEF appendTail, minVars, stringVars
  <2>2. /\ stack1' \in Seq(CppElems) /\ appended' \in Seq(CppElems)
        /\ stack2' \in Seq(CppElems) /\ taken' \in Seq(CppElems)
    BY <2>1, PushedAndPopped DEF QueueInv
  <2>3. PICK t \in Seq(CppElems) : t = taken \o Turned(stack2) /\ appended = t \o stack1
    BY StackTurned, ConcatProperties DEF QueueInv, QueueHolds
  <2>4. Append(t \o stack1, x) = t \o Append(stack1, x)
    <3> stack1 \in Seq(CppElems) /\ <<x>> \in Seq(CppElems) /\ t \o stack1 \in Seq(CppElems)
      BY ConcatProperties DEF QueueInv
    <3>1. Append(t \o stack1, x) = (t \o stack1) \o <<x>> /\ Append(stack1, x) = stack1 \o <<x>>
      BY AppendIsConcat
    <3> QED
      BY <3>1, ConcatAssociative
  <2> QED
    BY <2>1, <2>2, <2>3, <2>4 DEF QueueInv, QueueHolds
<1>2. ASSUME deleteHead PROVE QueueInv'
  <2>1. PICK full \in Seq(CppElems) : full = IF stack2 = <<>> THEN Turned(stack1) ELSE stack2
    BY StackTurned DEF QueueInv
  <2>2. PICK s1 \in Seq(CppElems) : s1 = IF stack2 = <<>> THEN <<>> ELSE stack1
    BY DEF QueueInv
  <2>3. appended = taken \o (Turned(full) \o s1)
    <3>1. CASE stack2 = <<>>
      <4>1. Turned(full) = stack1 /\ Turned(stack2) = <<>> /\ s1 = <<>>
        BY <2>1, <2>2, <3>1, TurnedTwice DEF QueueInv, Turned
      <4>2. taken \o <<>> = taken /\ stack1 \o <<>> = stack1
        BY ConcatEmptySeq DEF QueueInv
      <4> QED
        BY <4>1, <4>2 DEF QueueInv, QueueHolds
    <3>2. CASE stack2 # <<>>
      <4>1. Turned(stack2) \in Seq(CppElems)
        BY StackTurned DEF QueueInv
      <4> QED
        BY <2>1, <2>2, <3>2, <4>1, ConcatAssociative DEF QueueInv, QueueHolds
    <3> QED
      BY <3>1, <3>2
  <2>4. stack1' = s1 /\ appended' = appended
    BY <1>2, <2>2 DEF deleteHead
  <2>5. CASE full = <<>>
    <3>1. stack2' = <<>> /\ taken' = taken
      BY <1>2, <2>1, <2>5 DEF deleteHead
    <3>2. s1 = <<>> /\ Turned(full) = <<>>
      <4>1. stack2 = <<>>
        BY <2>1, <2>5
      <4> QED
        BY <2>2, <2>5, <4>1 DEF Turned
    <3>3. taken = appended /\ taken \o Turned(<<>>) \o <<>> = taken
      BY <2>3, <2>5, <3>2, ConcatEmptySeq DEF QueueInv
    <3> QED
      BY <2>4, <3>1, <3>2, <3>3 DEF QueueInv, QueueHolds
  <2>6. CASE full # <<>>
    <3>1. stack2' = WithoutTop(full) /\ taken' = Append(taken, TopOf(full)) /\ thrown' = FALSE
      BY <1>2, <2>1, <2>6 DEF deleteHead
    <3>2. PICK w \in Seq(CppElems) : w = WithoutTop(full)
      BY <2>6, StackPopped
    <3>3. PICK x \in CppElems : x = TopOf(full)
      BY <2>6, StackPopped
    <3>4. PICK t \in Seq(CppElems) : t = Turned(w)
      BY StackTurned
    <3>5. appended = taken \o ((<<x>> \o t) \o s1)
      BY <2>3, <2>6, <3>2, <3>3, <3>4, TopFirst
    <3>6. taken \o ((<<x>> \o t) \o s1) = (Append(taken, x) \o t) \o s1
      <4>1. taken \in Seq(CppElems) /\ <<x>> \in Seq(CppElems)
        BY DEF QueueInv
      <4>2. taken \o ((<<x>> \o t) \o s1) = ((taken \o <<x>>) \o t) \o s1
        <5>1. PICK a \in Seq(CppElems), b \in Seq(CppElems) : a = taken /\ b = <<x>>
          BY <4>1
        <5>2. a \o ((b \o t) \o s1) = ((a \o b) \o t) \o s1
          BY SMTT(30)
        <5> QED
          BY <5>1, <5>2
      <4>3. taken \o <<x>> = Append(taken, x)
        BY <4>1, AppendIsConcat
      <4> QED
        BY <4>2, <4>3
    <3>7. Append(taken, x) \in Seq(CppElems)
      BY DEF QueueInv
    <3> QED
      BY <2>4, <3>1, <3>2, <3>3, <3>4, <3>5, <3>6, <3>7 DEF QueueInv, QueueHolds
  <2> QED
    BY <2>5, <2>6
<1>3. ASSUME UNCHANGED queueVars PROVE QueueInv'
  BY <1>3 DEF queueVars, QueueInv, QueueHolds
<1>4. ASSUME NEW x \in CppElems, push_min(x) \/ WriteTop(x) PROVE UNCHANGED queueVars
  BY <1>4 DEF push_min, WriteTop
<1>5. ASSUME pop_min \/ StringCalls PROVE UNCHANGED queueVars
  BY <1>5 DEF pop_min, StringCalls, ConstructString, CopyString, AssignString, MoveString,
     SwapStrings, DestroyString, OfStrings
<1>6. ASSUME UNCHANGED cppVars PROVE UNCHANGED queueVars
  BY <1>6 DEF cppVars
<1> QED
  BY <1>1, <1>2, <1>3, <1>4, <1>5, <1>6 DEF CppNext

\* The heights that were written through top are on the stack.
MinInv ==
  /\ m_data \in Seq(Int) /\ m_min \in Seq(Int)
  /\ overwritten \subseteq 1 .. Len(m_data)
  /\ MinHolds

\* Nothing up to height k was written, and m is the least up to there.
NotWritten(k, w) == \A i \in 1 .. k : i \notin w
LeastUpTo(k, m, s) == (\E i \in 1 .. k : m = s[i]) /\ \A i \in 1 .. k : m <= s[i]

\* The same stack up to height k has the same least number.
LEMMA LeastKept ==
  ASSUME NEW k \in Nat, NEW m, NEW s, NEW t, \A i \in 1 .. k : s[i] = t[i]
  PROVE  LeastUpTo(k, m, s) <=> LeastUpTo(k, m, t)
  BY DEF LeastUpTo

\* StackWithMin knows its minimum.
LEMMA MinStep == MinInv /\ [CppNext]_cppVars => MinInv'
<1> SUFFICES ASSUME MinInv, [CppNext]_cppVars PROVE MinInv'
  OBVIOUS
<1> m_data \in Seq(Int) /\ m_min \in Seq(Int) /\ Len(m_min) = Len(m_data) /\ Len(m_data) \in Nat
  BY DEF MinInv, MinHolds
<1>1. \A k \in 1 .. Len(m_data) : NotWritten(k, overwritten) => LeastUpTo(k, m_min[k], m_data)
  BY DEF MinInv, MinHolds, NotWritten, LeastUpTo
<1>2. ASSUME /\ m_data' \in Seq(Int) /\ m_min' \in Seq(Int) /\ Len(m_min') = Len(m_data')
             /\ overwritten' \subseteq 1 .. Len(m_data')
             /\ \A k \in 1 .. Len(m_data') : NotWritten(k, overwritten') => LeastUpTo(k, m_min'[k], m_data')
      PROVE  MinInv'
  BY <1>2 DEF MinInv, MinHolds, NotWritten, LeastUpTo
<1>3. ASSUME NEW value \in CppElems, push_min(value) PROVE MinInv'
  <2>1. value \in Int
    BY CppAssumption
  <2>2. PICK low \in Int : low = IF m_min = <<>> \/ TopOf(m_min) > value THEN value ELSE TopOf(m_min)
    BY <2>1, StackPopped
  <2>3. m_data' = Append(m_data, value) /\ m_min' = Append(m_min, low) /\ overwritten' = overwritten
    BY <1>3, <2>2 DEF push_min
  <2>4. /\ m_data' \in Seq(Int) /\ m_min' \in Seq(Int)
        /\ Len(m_data') = Len(m_data) + 1 /\ Len(m_min') = Len(m_data')
        /\ \A k \in 1 .. Len(m_data) : m_data'[k] = m_data[k] /\ m_min'[k] = m_min[k]
        /\ m_data'[Len(m_data) + 1] = value /\ m_min'[Len(m_data) + 1] = low
    BY <2>1, <2>3, AppendProperties
  <2>5. ASSUME NEW k \in 1 .. Len(m_data'), NotWritten(k, overwritten')
        PROVE  LeastUpTo(k, m_min'[k], m_data')
    <3>1. CASE k \in 1 .. Len(m_data)
      <4>1. LeastUpTo(k, m_min[k], m_data)
        BY <1>1, <2>3, <2>5, <3>1
      <4>2. m_min'[k] = m_min[k] /\ \A i \in 1 .. k : m_data'[i] = m_data[i]
        BY <2>4, <3>1
      <4> QED
        BY <4>1, <4>2 DEF LeastUpTo
    <3>2. CASE k = Len(m_data) + 1 /\ m_min = <<>>
      BY <2>2, <2>4, <3>2 DEF LeastUpTo
    <3>3. CASE k = Len(m_data) + 1 /\ m_min # <<>>
      <4>1. PICK n \in Nat \ {0} : n = Len(m_data) /\ m_min[n] \in Int /\ TopOf(m_min) = m_min[n]
        BY <3>3 DEF TopOf
      <4>2. LeastUpTo(n, m_min[n], m_data)
        BY <1>1, <2>3, <2>5, <3>3, <4>1 DEF NotWritten
      <4>3. low <= value /\ low <= m_min[n] /\ (low = value \/ low = m_min[n])
        BY <2>1, <2>2, <3>3, <4>1
      <4>4. ASSUME NEW i \in 1 .. k PROVE low <= m_data'[i]
        <5>1. CASE i = k
          BY <2>4, <3>3, <4>3, <5>1
        <5>2. CASE i # k
          <6>1. i \in 1 .. n /\ m_data'[i] = m_data[i] /\ m_data[i] \in Int
            BY <2>4, <3>3, <4>1, <5>2
          <6>2. m_min[n] <= m_data[i]
            BY <4>2, <6>1 DEF LeastUpTo
          <6> QED
            BY <4>1, <4>3, <6>1, <6>2
        <5> QED
          BY <5>1, <5>2
      <4>5. \E i \in 1 .. k : low = m_data'[i]
        <5>1. CASE low = value
          BY <2>4, <3>3, <5>1
        <5>2. CASE low = m_min[n]
          <6>1. PICK i \in 1 .. n : m_min[n] = m_data[i]
            BY <4>2 DEF LeastUpTo
          <6> QED
            BY <2>4, <3>3, <4>1, <5>2, <6>1
        <5> QED
          BY <4>3, <5>1, <5>2
      <4> QED
        BY <2>4, <3>3, <4>4, <4>5 DEF LeastUpTo
    <3> QED
      BY <2>4, <3>1, <3>2, <3>3
  <2>6. overwritten' \subseteq 1 .. Len(m_data')
    BY <2>3, <2>4 DEF MinInv
  <2> QED
    BY <1>2, <2>4, <2>5, <2>6
<1>4. ASSUME pop_min PROVE MinInv'
  <2>1. /\ m_data # <<>> /\ m_min # <<>> /\ m_data' = WithoutTop(m_data) /\ m_min' = WithoutTop(m_min)
        /\ overwritten' = overwritten \ {Len(m_data)}
    BY <1>4 DEF pop_min
  <2>2. PICK n \in Nat : n = Len(m_data) - 1
    BY <2>1
  <2>3. /\ m_data' \in Seq(Int) /\ Len(m_data') = n /\ \A k \in 1 .. n : m_data'[k] = m_data[k]
        /\ m_min' \in Seq(Int) /\ Len(m_min') = n /\ \A k \in 1 .. n : m_min'[k] = m_min[k]
    BY <2>1, <2>2, StackPopped
  <2>4. overwritten' \subseteq 1 .. Len(m_data')
    <3>1. ASSUME NEW i \in overwritten' PROVE i \in 1 .. n
      <4>1. i \in 1 .. Len(m_data) /\ i # Len(m_data)
        BY <2>1, <3>1 DEF MinInv
      <4> QED
        BY <2>2, <4>1
    <3> QED
      BY <2>3, <3>1
  <2>5. ASSUME NEW k \in 1 .. n, NotWritten(k, overwritten')
        PROVE  LeastUpTo(k, m_min'[k], m_data')
    <3>1. k \in 1 .. Len(m_data) /\ NotWritten(k, overwritten)
      BY <2>1, <2>2, <2>5 DEF NotWritten
    <3>2. LeastUpTo(k, m_min[k], m_data)
      BY <1>1, <3>1
    <3>3. m_min'[k] = m_min[k] /\ \A i \in 1 .. k : m_data'[i] = m_data[i]
      <4>1. \A i \in 1 .. k : i \in 1 .. n
        BY <2>2
      <4> QED
        BY <2>3, <4>1
    <3> QED
      BY <3>2, <3>3 DEF LeastUpTo
  <2> QED
    BY <1>2, <2>3, <2>4, <2>5
<1>5. ASSUME NEW value \in CppElems, WriteTop(value) PROVE MinInv'
  <2>1. /\ m_data # <<>> /\ m_data' = [m_data EXCEPT ![Len(m_data)] = value]
        /\ m_min' = m_min /\ overwritten' = overwritten \cup {Len(m_data)}
    BY <1>5 DEF WriteTop
  <2>2. PICK n \in Nat \ {0} : n = Len(m_data)
    BY <2>1
  <2>3. value \in Int
    BY CppAssumption
  <2>4. /\ m_data' \in Seq(Int) /\ Len(m_data') = n
        /\ \A k \in 1 .. n - 1 : m_data'[k] = m_data[k]
    BY <2>1, <2>2, <2>3, ExceptSeq
  <2>5. overwritten' \subseteq 1 .. Len(m_data')
    <3>1. ASSUME NEW i \in overwritten' PROVE i \in 1 .. n
      BY <2>1, <2>2, <3>1 DEF MinInv
    <3> QED
      BY <2>4, <3>1
  <2>6. ASSUME NEW k \in 1 .. n, NotWritten(k, overwritten')
        PROVE  LeastUpTo(k, m_min'[k], m_data')
    <3>1. k \in 1 .. n - 1 /\ NotWritten(k, overwritten)
      BY <2>1, <2>2, <2>6 DEF NotWritten
    <3>2. LeastUpTo(k, m_min[k], m_data)
      BY <1>1, <2>2, <3>1
    <3>3. m_min'[k] = m_min[k] /\ \A i \in 1 .. k : m_data'[i] = m_data[i]
      BY <2>1, <2>4, <3>1
    <3> QED
      BY <3>2, <3>3 DEF LeastUpTo
  <2> QED
    BY <1>2, <2>1, <2>2, <2>4, <2>5, <2>6
<1>6. ASSUME UNCHANGED minVars PROVE MinInv'
  BY <1>6 DEF minVars, MinInv, MinHolds
<1>7. ASSUME NEW x \in CppElems, appendTail(x) PROVE UNCHANGED minVars
  BY <1>7 DEF appendTail
<1>8. ASSUME deleteHead \/ StringCalls PROVE UNCHANGED minVars
  BY <1>8 DEF deleteHead, StringCalls, ConstructString, CopyString, AssignString, MoveString,
     SwapStrings, DestroyString, OfStrings
<1>9. ASSUME UNCHANGED cppVars PROVE UNCHANGED minVars
  BY <1>9 DEF cppVars
<1> QED
  BY <1>3, <1>4, <1>5, <1>6, <1>7, <1>8, <1>9 DEF CppNext

\* Every string has a buffer of its own, or none.
OwnsBuffer(s) == m_pData[s] \notin {Null, NoObject}
StringInv ==
  /\ m_pData \in [CppStrings -> {NoObject} \cup 0 .. Len(buffers)]
  /\ says \in [CppStrings -> CppTexts \cup {Silence}]
  /\ buffers \in Seq(CppTexts \cup {Silence})
  /\ \A b : b \in undeleted <=> \E s \in CppStrings : OwnsBuffer(s) /\ m_pData[s] = b
  /\ \A s \in CppStrings : OwnsBuffer(s) => buffers[m_pData[s]] = says[s]
  /\ \A s, r \in CppStrings : OwnsBuffer(s) /\ m_pData[s] = m_pData[r] => s = r

\* What a string with a new buffer needs.
LEMMA StringMade ==
  ASSUME StringInv, NEW s \in CppStrings, NEW text \in CppTexts \cup {Silence},
         m_pData' = [m_pData EXCEPT ![s] = FreshBuffer], buffers' = Append(buffers, text),
         says' = [says EXCEPT ![s] = text], undeleted' = (undeleted \cup {FreshBuffer}) \ {m_pData[s]}
  PROVE  StringInv'
<1>1. PICK n \in Nat : n = Len(buffers)
  BY DEF StringInv
<1>2. /\ buffers' \in Seq(CppTexts \cup {Silence}) /\ Len(buffers') = n + 1
      /\ \A k \in 1 .. n : buffers'[k] = buffers[k]
      /\ buffers'[n + 1] = text
  BY <1>1, AppendProperties DEF StringInv
<1>3. \A r \in CppStrings : m_pData[r] \in {NoObject} \cup 0 .. n
  BY <1>1 DEF StringInv
<1>4. \A r \in CppStrings : /\ m_pData'[r] = IF r = s THEN n + 1 ELSE m_pData[r]
                            /\ says'[r] = IF r = s THEN text ELSE says[r]
  BY <1>1 DEF StringInv, FreshBuffer
<1>5. /\ m_pData' \in [CppStrings -> {NoObject} \cup 0 .. Len(buffers')]
      /\ says' \in [CppStrings -> CppTexts \cup {Silence}]
  <2>1. \A r \in CppStrings : m_pData'[r] \in {NoObject} \cup 0 .. n + 1
    BY <1>3, <1>4
  <2> QED
    BY <1>2, <2>1 DEF StringInv
<1>6. \A r \in CppStrings : OwnsBuffer(r)' <=> r = s \/ OwnsBuffer(r)
  BY <1>3, <1>4 DEF OwnsBuffer, Null, NoObject
<1>7. ASSUME NEW b
      PROVE  b \in undeleted' <=> \E r \in CppStrings : OwnsBuffer(r)' /\ m_pData'[r] = b
  <2>1. b \in undeleted <=> \E r \in CppStrings : OwnsBuffer(r) /\ m_pData[r] = b
    BY DEF StringInv
  <2>2. b \in undeleted' <=> (b \in undeleted \/ b = n + 1) /\ b # m_pData[s]
    BY <1>1 DEF FreshBuffer
  <2>3. m_pData[s] # n + 1 /\ \A r \in CppStrings : m_pData[r] # n + 1
    BY <1>3 DEF NoObject
  <2>4. ASSUME NEW r \in CppStrings, OwnsBuffer(r), m_pData[r] = b, b # m_pData[s]
        PROVE  OwnsBuffer(r)' /\ m_pData'[r] = b
    BY <1>4, <1>6, <2>4
  <2>5. ASSUME NEW r \in CppStrings, OwnsBuffer(r)', m_pData'[r] = b
        PROVE  b = n + 1 \/ (b \in undeleted /\ b # m_pData[s])
    <3>1. CASE r = s
      BY <1>4, <2>5, <3>1
    <3>2. CASE r # s
      <4>1. OwnsBuffer(r) /\ m_pData[r] = b
        BY <1>4, <1>6, <2>5, <3>2
      <4>2. m_pData[r] # m_pData[s]
        BY <3>2, <4>1 DEF StringInv
      <4> QED
        BY <2>1, <4>1, <4>2
    <3> QED
      BY <3>1, <3>2
  <2>6. OwnsBuffer(s)' /\ m_pData'[s] = n + 1
    BY <1>4, <1>6
  <2> QED
    BY <2>1, <2>2, <2>3, <2>4, <2>5, <2>6
<1>8. ASSUME NEW r \in CppStrings, OwnsBuffer(r)' PROVE buffers'[m_pData'[r]] = says'[r]
  <2>1. CASE r = s
    BY <1>2, <1>4, <2>1
  <2>2. CASE r # s
    <3>1. OwnsBuffer(r) /\ m_pData'[r] = m_pData[r] /\ says'[r] = says[r]
      BY <1>4, <1>6, <1>8, <2>2
    <3>2. m_pData[r] \in 1 .. n /\ buffers[m_pData[r]] = says[r]
      BY <1>3, <3>1 DEF StringInv, OwnsBuffer, Null, NoObject
    <3> QED
      BY <1>2, <3>1, <3>2
  <2> QED
    BY <2>1, <2>2
<1>9. ASSUME NEW r \in CppStrings, NEW q \in CppStrings, OwnsBuffer(r)', m_pData'[r] = m_pData'[q] PROVE r = q
  <2>1. \A w \in CppStrings : m_pData[w] # n + 1
    BY <1>3 DEF NoObject
  <2> QED
    BY <1>4, <1>6, <1>9, <2>1 DEF StringInv
<1> QED
  BY <1>2, <1>5, <1>7, <1>8, <1>9 DEF StringInv

\* What strings that exchange buffers need: s gets what r has, r gets p.
LEMMA StringsChanged ==
  ASSUME StringInv, NEW s \in CppStrings, NEW r \in CppStrings, s # r,
         NEW p \in {Null, m_pData[s]}, NEW text \in CppTexts \cup {Silence},
         OwnsBuffer(s) => p = m_pData[s] /\ text = says[s],
         m_pData' = [m_pData EXCEPT ![s] = m_pData[r], ![r] = p],
         says' = [says EXCEPT ![s] = says[r], ![r] = text],
         buffers' = buffers, undeleted' = undeleted
  PROVE  StringInv'
<1>1. PICK n \in Nat : n = Len(buffers)
  BY DEF StringInv
<1>2. \A q \in CppStrings : m_pData[q] \in {NoObject} \cup 0 .. n
  BY <1>1 DEF StringInv
<1>3. \A q \in CppStrings :
         /\ m_pData'[q] = IF q = s THEN m_pData[r] ELSE IF q = r THEN p ELSE m_pData[q]
         /\ says'[q] = IF q = s THEN says[r] ELSE IF q = r THEN text ELSE says[q]
  BY DEF StringInv
<1>4. /\ m_pData' \in [CppStrings -> {NoObject} \cup 0 .. Len(buffers')]
      /\ says' \in [CppStrings -> CppTexts \cup {Silence}]
  <2>1. \A q \in CppStrings : m_pData'[q] \in {NoObject} \cup 0 .. n
    <3>1. p \in {NoObject} \cup 0 .. n
      BY <1>2 DEF Null
    <3>2. m_pData[r] \in {NoObject} \cup 0 .. n
      BY <1>2
    <3> QED
      BY <1>2, <1>3, <3>1, <3>2, Zenon
  <2>2. says' \in [CppStrings -> CppTexts \cup {Silence}]
    BY DEF StringInv
  <2> QED
    BY <1>1, <2>1, <2>2 DEF StringInv
<1>5. /\ OwnsBuffer(s)' <=> OwnsBuffer(r)
      /\ OwnsBuffer(r)' <=> OwnsBuffer(s)
      /\ \A q \in CppStrings \ {s, r} : OwnsBuffer(q)' <=> OwnsBuffer(q)
  BY <1>3 DEF OwnsBuffer
<1>6. /\ m_pData'[s] = m_pData[r] /\ says'[s] = says[r]
      /\ OwnsBuffer(s) => m_pData'[r] = m_pData[s] /\ says'[r] = says[s]
      /\ \A q \in CppStrings \ {s, r} : m_pData'[q] = m_pData[q] /\ says'[q] = says[q]
  BY <1>3
<1>7. ASSUME NEW b
      PROVE  b \in undeleted' <=> \E q \in CppStrings : OwnsBuffer(q)' /\ m_pData'[q] = b
  <2>1. b \in undeleted <=> \E q \in CppStrings : OwnsBuffer(q) /\ m_pData[q] = b
    BY DEF StringInv
  <2> QED
    BY <1>5, <1>6, <2>1
<1>8. ASSUME NEW q \in CppStrings, OwnsBuffer(q)' PROVE buffers'[m_pData'[q]] = says'[q]
  BY <1>5, <1>6, <1>8 DEF StringInv
<1>9. ASSUME NEW q \in CppStrings, NEW w \in CppStrings, OwnsBuffer(q)', m_pData'[q] = m_pData'[w] PROVE q = w
  <2>1. OwnsBuffer(w)'
    BY <1>9 DEF OwnsBuffer
  <2>2. \A x, y \in CppStrings : OwnsBuffer(x) /\ m_pData[x] = m_pData[y] => x = y
    BY DEF StringInv
  <2>3. ASSUME NEW x \in CppStrings, OwnsBuffer(x)'
        PROVE  \E y \in CppStrings : /\ OwnsBuffer(y) /\ m_pData'[x] = m_pData[y]
                                     /\ y = IF x = s THEN r ELSE IF x = r THEN s ELSE x
    BY <1>5, <1>6, <2>3
  <2>4. PICK x \in CppStrings : /\ OwnsBuffer(x) /\ m_pData'[q] = m_pData[x]
                                /\ x = IF q = s THEN r ELSE IF q = r THEN s ELSE q
    BY <1>9, <2>3
  <2>5. PICK y \in CppStrings : /\ OwnsBuffer(y) /\ m_pData'[w] = m_pData[y]
                                /\ y = IF w = s THEN r ELSE IF w = r THEN s ELSE w
    BY <2>1, <2>3
  <2>6. x = y
    BY <1>9, <2>2, <2>4, <2>5
  <2> QED
    BY <2>4, <2>5, <2>6
<1> QED
  BY <1>4, <1>7, <1>8, <1>9 DEF StringInv

\* What a string needs that is destroyed.
LEMMA StringDestroyed ==
  ASSUME StringInv, NEW s \in CppStrings,
         m_pData' = [m_pData EXCEPT ![s] = NoObject], says' = [says EXCEPT ![s] = Silence],
         buffers' = buffers, undeleted' = undeleted \ {m_pData[s]}
  PROVE  StringInv'
<1>1. /\ m_pData' \in [CppStrings -> {NoObject} \cup 0 .. Len(buffers')]
      /\ says' \in [CppStrings -> CppTexts \cup {Silence}]
      /\ \A q \in CppStrings : /\ m_pData'[q] = IF q = s THEN NoObject ELSE m_pData[q]
                               /\ says'[q] = IF q = s THEN Silence ELSE says[q]
  BY DEF StringInv
<1>2. \A q \in CppStrings : OwnsBuffer(q)' <=> q # s /\ OwnsBuffer(q)
  BY <1>1 DEF OwnsBuffer
<1>3. \A x, y \in CppStrings : OwnsBuffer(x) /\ m_pData[x] = m_pData[y] => x = y
  BY DEF StringInv
<1>4. ASSUME NEW b
      PROVE  b \in undeleted' <=> \E q \in CppStrings : OwnsBuffer(q)' /\ m_pData'[q] = b
  <2>1. b \in undeleted <=> \E q \in CppStrings : OwnsBuffer(q) /\ m_pData[q] = b
    BY DEF StringInv
  <2> QED
    BY <1>1, <1>2, <1>3, <2>1
<1>5. ASSUME NEW q \in CppStrings, OwnsBuffer(q)'
      PROVE  /\ buffers'[m_pData'[q]] = says'[q]
             /\ \A w \in CppStrings : m_pData'[q] = m_pData'[w] => q = w
  BY <1>1, <1>2, <1>3, <1>5 DEF StringInv, OwnsBuffer
<1> QED
  BY <1>1, <1>4, <1>5 DEF StringInv

\* Every call keeps the strings.
LEMMA StringStep == StringInv /\ [CppNext]_cppVars => StringInv'
<1> SUFFICES ASSUME StringInv, [CppNext]_cppVars PROVE StringInv'
  OBVIOUS
<1>1. ASSUME NEW s \in CppStrings, ~Exists(s) PROVE ~OwnsBuffer(s) /\ m_pData[s] \notin undeleted
  <2>1. ~OwnsBuffer(s) /\ m_pData[s] = NoObject
    BY <1>1 DEF Exists, OwnsBuffer
  <2> QED
    BY <2>1 DEF StringInv, OwnsBuffer
<1>2. FreshBuffer # NoObject
  BY DEF FreshBuffer, NoObject, StringInv
<1>3. ASSUME NEW s \in CppStrings, Exists(s), m_pData[s] # Null
      PROVE  buffers[m_pData[s]] = says[s] /\ says[s] \in CppTexts \cup {Silence}
  BY <1>3 DEF StringInv, Exists, OwnsBuffer
<1>4. ASSUME NEW s \in CppStrings, NEW text \in CppTexts, ConstructString(s, text) PROVE StringInv'
  <2>1. undeleted' = (undeleted \cup {FreshBuffer}) \ {m_pData[s]}
    BY <1>1, <1>2, <1>4 DEF ConstructString, Exists
  <2> QED
    BY <1>4, <2>1, StringMade DEF ConstructString
<1>5. ASSUME NEW s \in CppStrings, NEW str \in CppStrings, CopyString(s, str) PROVE StringInv'
  <2>1. undeleted' = (undeleted \cup {FreshBuffer}) \ {m_pData[s]}
    BY <1>1, <1>2, <1>5 DEF CopyString, Exists
  <2>2. PICK text \in CppTexts \cup {Silence} : text = says[str] /\ buffers' = Append(buffers, text)
    BY <1>3, <1>5 DEF CopyString
  <2> QED
    BY <1>5, <2>1, <2>2, StringMade DEF CopyString
<1>6. ASSUME NEW s \in CppStrings, NEW str \in CppStrings, AssignString(s, str) PROVE StringInv'
  <2>1. PICK text \in CppTexts \cup {Silence} : text = says[str] /\ buffers' = Append(buffers, text)
    BY <1>3, <1>6 DEF AssignString
  <2> QED
    BY <1>6, <2>1, StringMade DEF AssignString
<1>7. ASSUME NEW s \in CppStrings, NEW rhs \in CppStrings, MoveString(s, rhs) PROVE StringInv'
  <2>1. s # rhs /\ ~OwnsBuffer(s)
    BY <1>1, <1>7 DEF MoveString
  <2> QED
    BY <1>7, <2>1, StringsChanged DEF MoveString
<1>8. ASSUME NEW s \in CppStrings, NEW rhs \in CppStrings, SwapStrings(s, rhs) PROVE StringInv'
  <2>1. CASE s # rhs
    <3>1. PICK p, text : p = m_pData[s] /\ text = says[s]
      OBVIOUS
    <3>2. p \in {Null, m_pData[s]} /\ text \in CppTexts \cup {Silence}
      BY <3>1 DEF StringInv
    <3> QED
      BY <1>8, <2>1, <3>1, <3>2, StringsChanged DEF SwapStrings
  <2>2. CASE s = rhs
    <3>1. m_pData' = m_pData /\ says' = says /\ buffers' = buffers /\ undeleted' = undeleted
      BY <1>8, <2>2 DEF SwapStrings, StringInv
    <3> QED
      BY <3>1 DEF StringInv, OwnsBuffer
  <2> QED
    BY <2>1, <2>2
<1>9. ASSUME NEW s \in CppStrings, DestroyString(s) PROVE StringInv'
  BY <1>9, StringDestroyed DEF DestroyString
<1>10. ASSUME UNCHANGED stringVars PROVE StringInv'
  BY <1>10 DEF stringVars, StringInv, OwnsBuffer
<1>11. ASSUME NEW x \in CppElems, appendTail(x) \/ push_min(x) \/ WriteTop(x) PROVE UNCHANGED stringVars
  BY <1>11 DEF appendTail, push_min, WriteTop
<1>12. ASSUME deleteHead \/ pop_min PROVE UNCHANGED stringVars
  BY <1>12 DEF deleteHead, pop_min
<1>13. ASSUME UNCHANGED cppVars PROVE UNCHANGED stringVars
  BY <1>13 DEF cppVars
<1> QED
  BY <1>4, <1>5, <1>6, <1>7, <1>8, <1>9, <1>10, <1>11, <1>12, <1>13 DEF CppNext, StringCalls

\* The queue of two stacks, the stack with a minimum and the strings keep their
\* promises through any calls.
THEOREM CppObjectsKept == CppSpec => []CppObjectsHold
<1>1. CppInit => QueueInv /\ MinInv /\ StringInv
  <2> SUFFICES ASSUME CppInit PROVE QueueInv /\ MinInv /\ StringInv
    OBVIOUS
  <2>1. QueueInv
    BY DEF CppInit, QueueInv, QueueHolds, Turned
  <2>2. MinInv
    BY DEF CppInit, MinInv, MinHolds
  <2>3. StringInv
    BY DEF CppInit, StringInv, OwnsBuffer
  <2> QED
    BY <2>1, <2>2, <2>3
<1>2. ASSUME QueueInv, MinInv, StringInv PROVE CppObjectsHold
  <2>1. undeleted = {m_pData[s] : s \in {r \in CppStrings : m_pData[r] \notin {Null, NoObject}}}
    BY <1>2 DEF StringInv, OwnsBuffer
  <2>2. StringsHold
    BY <1>2, <2>1 DEF StringInv, OwnsBuffer, StringsHold
  <2> QED
    BY <1>2, <2>2 DEF QueueInv, MinInv, CppObjectsHold
<1> QED
  BY <1>1, <1>2, QueueStep, MinStep, StringStep, PTL DEF CppSpec

-----------------------------------------------------------------------------
\* Vectors, lists, search trees and classes together: what VectorsGiveBack,
\* ListsAreKept, SearchTreeKept and CppObjectsKept say is what the runs check of
\* the containers.
THEOREM ContainersKept == VecSpec /\ ListSpec /\ BstSpec /\ CppSpec => []ContainersGiveBack
  BY VectorsGiveBack, ListsAreKept, SearchTreeKept, CppObjectsKept, PTL DEF ContainersGiveBack

-----------------------------------------------------------------------------
(***************************************************************************)
(* BaoChain, for any chain of handlers behind Recovery.                    *)
(***************************************************************************)

\* The last of some numbers.
LEMMA LastOne ==
  ASSUME NEW n \in Nat, NEW A, A \subseteq 1 .. n, A # {}
  PROVE  \E k \in A : \A j \in A : j <= k
<1> DEFINE D == {n - k : k \in A}
<1>1. D \subseteq Nat /\ D # {}
  <2>1. \A k \in A : k \in 1 .. n /\ n - k \in Nat
    OBVIOUS
  <2> QED
    BY <2>1
<1>2. PICK d \in D : \A e \in D : d <= e
  BY <1>1, LeastNat
<1>3. PICK k \in A : d = n - k
  OBVIOUS
<1>4. ASSUME NEW j \in A PROVE j <= k
  <2>1. n - j \in D /\ j \in Nat /\ k \in Nat
    OBVIOUS
  <2> HIDE DEF D
  <2>2. n - k <= n - j
    BY <1>2, <1>3, <2>1
  <2> QED
    BY <2>1, <2>2
<1> QED
  BY <1>4

\* A call put on the stack, and the calls below one.
LEMMA FramePushed ==
  ASSUME NEW S, NEW s \in Seq(S), NEW e \in S
  PROVE  /\ Append(s, e) \in Seq(S) /\ Len(s) \in Nat /\ Len(Append(s, e)) = Len(s) + 1
         /\ Append(s, e)[Len(s) + 1] = e /\ \A k \in 1 .. Len(s) : Append(s, e)[k] = s[k]
  OBVIOUS

LEMMA FramesBelow ==
  ASSUME NEW S, NEW s \in Seq(S), NEW n \in Nat, n <= Len(s)
  PROVE  /\ SubSeq(s, 1, n) \in Seq(S) /\ Len(SubSeq(s, 1, n)) = n
         /\ \A k \in 1 .. n : SubSeq(s, 1, n)[k] = s[k]
  OBVIOUS

Frame == [at : {"next", "called", "back"}, handler : Nat]

ChainTyped ==
  /\ chain \in Seq(HandlerKinds) /\ index \in Nat /\ frames \in Seq(Frame) /\ ran \in Seq(Nat)
  /\ Len(ran) <= Len(chain) /\ \A k \in 1 .. Len(ran) : ran[k] = k

\* Loops and handlers take turns on the stack; only the last handler has not
\* called Next yet, and the handlers on it have been called.
Stacked(f, r) ==
  /\ f # <<>> => f[1].at = "next"
  /\ \A k \in 1 .. Len(f) : /\ f[k].at # "next" => f[k].handler \in 1 .. r
                            /\ k > 1 => (f[k].at = "next") # (f[k - 1].at = "next")
                            /\ k < Len(f) => f[k].at # "called"

\* The index that the loops share and the number r of handlers that were called.
Counted(f, i, r, n) ==
  f # <<>> => /\ f[Len(f)].at = "next" => i = r + 1 \/ (r = n /\ i > r)
              /\ f[Len(f)].at = "called" => i = r
              /\ f[Len(f)].at = "back" => r = n /\ i > r

\* All have been called, or Recovery is there to catch a panic, or has caught one.
OffStack(f, j) == \A k \in 1 .. Len(f) : f[k].at # "next" => f[k].handler # j
Saved(f, r, c) ==
  \/ r = Len(c)
  \/ r = 0 /\ f = <<NextLoop>>
  \/ Len(f) >= 2 /\ f[2].handler = 1
  \/ \E j \in 1 .. r : Panics(c[j]) /\ OffStack(f, j)

ChainEnded(r, c) ==
  \/ r = Len(c)
  \/ \E j, k \in 1 .. r : j # k /\ Panics(c[j]) /\ Panics(c[k])

ChainInv ==
  /\ ChainTyped
  /\ chain = <<>> => frames = <<>> /\ ran = <<>>
  /\ chain # <<>> => chain[1] = "recovery"
  /\ Stacked(frames, Len(ran)) /\ Counted(frames, index, Len(ran), Len(chain))
  /\ chain # <<>> => IF frames = <<>> THEN ChainEnded(Len(ran), chain) ELSE Saved(frames, Len(ran), chain)

LEMMA ChainStarts ==
  ASSUME ChainInv, NEW c \in Seq(HandlerKinds), c # <<>>, c[1] = "recovery", Starts(c)
  PROVE  ChainInv'
<1>1. chain = <<>> /\ chain' = c /\ index' = 1 /\ frames' = <<NextLoop>> /\ ran' = ran /\ ran = <<>>
  BY DEF Starts, ChainInv
<1>2. NextLoop \in Frame /\ NextLoop.at = "next"
  BY DEF NextLoop, Frame
<1>3. /\ <<NextLoop>> \in Seq(Frame) /\ Len(<<NextLoop>>) = 1 /\ <<NextLoop>> # <<>>
      /\ <<NextLoop>>[1] = NextLoop
  BY <1>2
<1>4. ran' = <<>> /\ Len(ran') = 0 /\ Len(c) \in Nat
  BY <1>1
<1>5. ChainTyped'
  BY <1>1, <1>3, <1>4 DEF ChainTyped
<1>6. Stacked(frames', Len(ran')) /\ Counted(frames', index', Len(ran'), Len(chain'))
  <2>1. Stacked(frames', Len(ran'))
    BY <1>1, <1>2, <1>3, <1>4 DEF Stacked
  <2>2. Counted(frames', index', Len(ran'), Len(chain'))
    BY <1>1, <1>2, <1>3, <1>4 DEF Counted
  <2> QED
    BY <2>1, <2>2
<1>7. Saved(frames', Len(ran'), chain')
  BY <1>1, <1>4 DEF Saved
<1> QED
  BY <1>1, <1>3, <1>5, <1>6, <1>7 DEF ChainInv

\* What is known of the stack while something runs.
LEMMA ChainRunning ==
  ASSUME ChainInv, frames # <<>>
  PROVE  /\ chain # <<>> /\ chain[1] = "recovery" /\ Saved(frames, Len(ran), chain)
         /\ frames[1].at = "next" /\ Len(frames) \in Nat \ {0} /\ Len(ran) \in Nat /\ Len(chain) \in Nat
         /\ Len(ran) <= Len(chain) /\ index \in Nat
         /\ \A k \in 1 .. Len(frames) : frames[k] \in Frame
         /\ Top.at \in {"next", "called", "back"}
<1>1. frames \in Seq(Frame) /\ ran \in Seq(Nat) /\ chain \in Seq(HandlerKinds) /\ index \in Nat
  BY DEF ChainInv, ChainTyped
<1>2. Len(frames) \in Nat \ {0} /\ \A k \in 1 .. Len(frames) : frames[k] \in Frame
  BY <1>1
<1>3. frames[Len(frames)] \in Frame
  BY <1>2
<1>4. Top.at \in {"next", "called", "back"}
  BY <1>3 DEF Top, Frame
<1> QED
  BY <1>1, <1>2, <1>4 DEF ChainInv, ChainTyped, Stacked

LEMMA NextCallsKeeps ==
  ASSUME ChainInv, NextCalls
  PROVE  ChainInv'
<1>0. frames # <<>> /\ Top.at = "next" /\ index' = index /\ chain' = chain
  BY DEF NextCalls
<1>1. /\ chain # <<>> /\ chain[1] = "recovery" /\ Saved(frames, Len(ran), chain)
      /\ Len(frames) \in Nat \ {0} /\ Len(ran) \in Nat /\ Len(chain) \in Nat
      /\ Len(ran) <= Len(chain) /\ index \in Nat
  BY <1>0, ChainRunning
<1>2. index = Len(ran) + 1 \/ (Len(ran) = Len(chain) /\ index > Len(ran))
  BY <1>0 DEF ChainInv, Counted, Top
<1>3. ChainTyped /\ Stacked(frames, Len(ran)) /\ frames \in Seq(Frame) /\ ran \in Seq(Nat)
  BY DEF ChainInv, ChainTyped
<1>4. CASE index <= Len(chain)
  <2> DEFINE e == Call(index, "called")
             f == Append(frames, e)
  <2>1. frames' = f /\ ran' = Append(ran, index) /\ index = Len(ran) + 1
    BY <1>1, <1>2, <1>4 DEF NextCalls
  <2>2. e \in Frame /\ e.at = "called" /\ e.handler = index
    BY <1>1 DEF Call, Frame
  <2> HIDE DEF e
  <2>3. /\ f \in Seq(Frame) /\ Len(f) = Len(frames) + 1 /\ f[Len(frames) + 1] = e
        /\ \A k \in 1 .. Len(frames) : f[k] = frames[k]
    BY <1>3, <2>2, FramePushed
  <2>4. /\ ran' \in Seq(Nat) /\ Len(ran') = Len(ran) + 1 /\ ran'[Len(ran) + 1] = index
        /\ \A k \in 1 .. Len(ran) : ran'[k] = ran[k]
    BY <1>1, <1>3, <2>1, FramePushed
  <2> HIDE DEF f
  <2>5. f # <<>> /\ f[1].at = "next"
    BY <1>0, <1>1, <2>3, ChainRunning
  <2>6. ChainTyped'
    <3>1. \A k \in 1 .. Len(ran') : ran'[k] = k
      BY <1>1, <1>3, <2>1, <2>4 DEF ChainTyped
    <3> QED
      BY <1>0, <1>1, <1>3, <1>4, <2>1, <2>3, <2>4, <3>1 DEF ChainTyped
  <2>7. Stacked(f, Len(ran'))
    <3>1. ASSUME NEW k \in 1 .. Len(f)
          PROVE  /\ f[k].at # "next" => f[k].handler \in 1 .. Len(ran')
                 /\ k > 1 => (f[k].at = "next") # (f[k - 1].at = "next")
                 /\ k < Len(f) => f[k].at # "called"
      <4>1. CASE k = Len(frames) + 1
        <5>1. f[k] = e /\ k - 1 = Len(frames) /\ f[k - 1] = Top
          BY <1>1, <2>3, <4>1 DEF Top
        <5>2. index \in 1 .. Len(ran')
          BY <1>1, <2>1, <2>4
        <5> QED
          BY <1>0, <1>1, <2>2, <2>3, <4>1, <5>1, <5>2
      <4>2. CASE k \in 1 .. Len(frames)
        <5>1. f[k] = frames[k] /\ (k > 1 => f[k - 1] = frames[k - 1])
          BY <1>1, <2>3, <4>2
        <5>2. frames[k].at # "called"
          BY <1>0, <1>1, <1>3, <4>2 DEF Stacked, Top
        <5>3. frames[k].at # "next" => frames[k].handler \in 1 .. Len(ran')
          BY <1>1, <1>3, <2>4, <4>2 DEF Stacked
        <5> QED
          BY <1>3, <4>2, <5>1, <5>2, <5>3 DEF Stacked
      <4> QED
        BY <1>1, <2>3, <4>1, <4>2
    <3> QED
      BY <2>5, <3>1 DEF Stacked
  <2>8. Counted(f, index', Len(ran'), Len(chain'))
    BY <1>0, <1>1, <2>1, <2>2, <2>3, <2>4 DEF Counted
  <2>9. Saved(f, Len(ran'), chain)
    <3>1. CASE Len(ran) = 0 /\ frames = <<NextLoop>>
      <4>1. Len(f) >= 2 /\ f[2] = e /\ index = 1
        BY <2>1, <2>3, <3>1
      <4> QED
        BY <2>2, <4>1 DEF Saved
    <3>2. CASE Len(frames) >= 2 /\ frames[2].handler = 1
      BY <1>1, <2>3, <3>2 DEF Saved
    <3>3. ASSUME NEW j \in 1 .. Len(ran), Panics(chain[j]), OffStack(frames, j)
          PROVE  Saved(f, Len(ran'), chain)
      <4>1. j \in 1 .. Len(ran') /\ index # j
        BY <1>1, <2>1, <2>4
      <4>2. OffStack(f, j)
        BY <1>1, <2>2, <2>3, <3>3, <4>1 DEF OffStack
      <4> QED
        BY <3>3, <4>1, <4>2 DEF Saved
    <3>4. Len(ran) # Len(chain)
      BY <1>1, <1>4, <2>1
    <3> QED
      BY <1>1, <3>1, <3>2, <3>3, <3>4 DEF Saved
  <2> QED
    BY <1>0, <1>1, <2>1, <2>5, <2>6, <2>7, <2>8, <2>9 DEF ChainInv
<1>5. CASE ~(index <= Len(chain))
  <2> DEFINE n == Len(frames) - 1
             f == SubSeq(frames, 1, n)
  <2>1. frames' = f /\ ran' = ran /\ Len(ran) = Len(chain) /\ index > Len(ran)
    BY <1>1, <1>2, <1>5 DEF NextCalls, TopReturns
  <2>2. n \in Nat /\ n <= Len(frames) /\ Len(frames) = n + 1
    BY <1>1
  <2> HIDE DEF n
  <2>3. f \in Seq(Frame) /\ Len(f) = n /\ \A k \in 1 .. n : f[k] = frames[k]
    BY <1>3, <2>2, FramesBelow
  <2> HIDE DEF f
  <2>4. ChainTyped'
    BY <1>0, <1>1, <1>3, <2>1, <2>3 DEF ChainTyped
  <2>5. Stacked(f, Len(ran'))
    <3>1. f # <<>> => n >= 1
      BY <2>2, <2>3
    <3>2. f # <<>> => f[1].at = "next"
      BY <1>0, <2>2, <2>3, <3>1, ChainRunning
    <3>3. \A k \in 1 .. n : k \in 1 .. Len(frames) /\ f[k] = frames[k] /\ (k > 1 => f[k - 1] = frames[k - 1]) /\ k < Len(frames)
      BY <2>2, <2>3
    <3> QED
      BY <1>3, <2>1, <2>3, <3>2, <3>3 DEF Stacked
  <2>6. Counted(f, index', Len(ran'), Len(chain'))
    <3> SUFFICES ASSUME f # <<>>
                 PROVE  Counted(f, index', Len(ran'), Len(chain'))
      BY DEF Counted
    <3>1. n \in 1 .. Len(frames) /\ n + 1 \in 1 .. Len(frames) /\ n < Len(frames) /\ n + 1 > 1 /\ (n + 1) - 1 = n
      BY <2>2, <2>3
    <3>2. frames[n + 1].at = "next"
      BY <1>0, <2>2 DEF Top
    <3>3. frames[n].at # "next" /\ frames[n].at # "called"
      BY <1>3, <3>1, <3>2 DEF Stacked
    <3>4. frames[n] \in Frame
      BY <1>0, <3>1, ChainRunning
    <3>5. f[Len(f)].at = "back"
      <4>1. n \in 1 .. n
        BY <2>2, <3>1
      <4> QED
        BY <2>3, <3>3, <3>4, <4>1 DEF Frame
    <3> QED
      BY <1>0, <2>1, <3>5 DEF Counted
  <2>7. Saved(f, Len(ran'), chain') /\ ChainEnded(Len(ran'), chain')
    BY <1>0, <2>1 DEF Saved, ChainEnded
  <2> QED
    BY <1>0, <1>1, <2>1, <2>4, <2>5, <2>6, <2>7 DEF ChainInv
<1> QED
  BY <1>4, <1>5

\* A call returns: what is below it on the stack.
LEMMA StackedBelow ==
  ASSUME NEW f \in Seq(Frame), NEW r \in Nat, Stacked(f, r), NEW n \in Nat, n <= Len(f)
  PROVE  /\ Stacked(SubSeq(f, 1, n), r) /\ SubSeq(f, 1, n) \in Seq(Frame) /\ Len(SubSeq(f, 1, n)) = n
         /\ \A k \in 1 .. n : SubSeq(f, 1, n)[k] = f[k]
         /\ n < Len(f) => \A k \in 1 .. n : f[k].at # "called"
         /\ SubSeq(f, 1, n) # <<>> => n >= 1
<1> DEFINE g == SubSeq(f, 1, n)
<1>1. g \in Seq(Frame) /\ Len(g) = n /\ (\A k \in 1 .. n : g[k] = f[k]) /\ Len(f) \in Nat
  BY FramesBelow
<1> HIDE DEF g
<1>2. g # <<>> => n >= 1 /\ f # <<>> /\ 1 \in 1 .. n
  BY <1>1
<1>3. g # <<>> => g[1].at = "next"
  BY <1>1, <1>2 DEF Stacked
<1>4. \A k \in 1 .. n : /\ k \in 1 .. Len(f) /\ g[k] = f[k] /\ (k > 1 => g[k - 1] = f[k - 1])
                        /\ k < n => k < Len(f)
  BY <1>1
<1>5. Stacked(g, r)
  BY <1>1, <1>3, <1>4 DEF Stacked
<1>6. n < Len(f) => \A k \in 1 .. n : f[k].at # "called"
  BY <1>1, <1>4 DEF Stacked
<1> QED
  BY <1>1, <1>2, <1>5, <1>6 DEF g

LEMMA HandlerCallsNextKeeps ==
  ASSUME ChainInv, HandlerCallsNext
  PROVE  ChainInv'
<1> DEFINE n == Len(frames)
           b == Call(Top.handler, "back")
           g == [frames EXCEPT ![n] = b]
           f == Append(g, NextLoop)
           r == Len(ran)
<1>0. /\ frames # <<>> /\ Top.at = "called" /\ chain' = chain /\ ran' = ran /\ index' = index + 1
      /\ frames' = f
  BY DEF HandlerCallsNext
<1>1. /\ chain # <<>> /\ chain[1] = "recovery" /\ Saved(frames, r, chain)
      /\ n \in Nat \ {0} /\ r \in Nat /\ Len(chain) \in Nat /\ index \in Nat
      /\ \A k \in 1 .. n : frames[k] \in Frame
  BY <1>0, ChainRunning
<1>2. index = r
  BY <1>0 DEF ChainInv, Counted, Top
<1>3. ChainTyped /\ Stacked(frames, r) /\ frames \in Seq(Frame)
  BY DEF ChainInv, ChainTyped
<1>4. Top = frames[n] /\ n \in 1 .. n
  BY <1>1 DEF Top
<1>5. Top.handler \in 1 .. r /\ Top \in Frame
  BY <1>0, <1>1, <1>3, <1>4 DEF Stacked
<1>6. b \in Frame /\ b.at = "back" /\ b.handler = Top.handler
  BY <1>5 DEF Call, Frame
<1>7. NextLoop \in Frame /\ NextLoop.at = "next"
  BY DEF NextLoop, Frame
<1> HIDE DEF b
<1>8. g \in Seq(Frame) /\ Len(g) = n /\ g[n] = b /\ \A k \in 1 .. n : k # n => g[k] = frames[k]
  BY <1>1, <1>3, <1>4, <1>6
<1> HIDE DEF g
<1>9. f \in Seq(Frame) /\ Len(f) = n + 1 /\ f[n + 1] = NextLoop /\ \A k \in 1 .. n : f[k] = g[k]
  BY <1>7, <1>8, FramePushed
<1> HIDE DEF f, n, r
<1>10. \A k \in 1 .. n : /\ (f[k].at = "next") = (frames[k].at = "next")
                         /\ f[k].at # "next" => f[k].handler = frames[k].handler
  BY <1>0, <1>4, <1>6, <1>8, <1>9
<1>11. f # <<>> /\ f[1].at = "next" /\ 1 \in 1 .. n
  <2>1. 1 \in 1 .. n /\ frames[1].at = "next" /\ n + 1 # 0
    BY <1>0, <1>1, ChainRunning
  <2> QED
    BY <1>9, <1>10, <2>1
<1>12. ASSUME NEW k \in 1 .. n
       PROVE  /\ f[k].at # "next" => f[k].handler \in 1 .. r
              /\ k > 1 => (f[k].at = "next") # (f[k - 1].at = "next")
              /\ f[k].at # "called"
  <2>1. /\ frames[k].at # "next" => frames[k].handler \in 1 .. r
        /\ k > 1 => (frames[k].at = "next") # (frames[k - 1].at = "next")
        /\ k < n => frames[k].at # "called"
    BY <1>3, <1>12 DEF Stacked, n
  <2>2. k > 1 => k - 1 \in 1 .. n
    BY <1>1, <1>12
  <2>3. f[k].at # "called"
    BY <1>1, <1>6, <1>8, <1>9, <1>12, <2>1
  <2> QED
    BY <1>10, <1>12, <2>1, <2>2, <2>3
<1>13. Stacked(f, r)
  <2>1. ASSUME NEW k \in 1 .. Len(f)
        PROVE  /\ f[k].at # "next" => f[k].handler \in 1 .. r
               /\ k > 1 => (f[k].at = "next") # (f[k - 1].at = "next")
               /\ k < Len(f) => f[k].at # "called"
    <3>1. CASE k = n + 1
      <4>1. f[k].at = "next" /\ k - 1 = n /\ f[k - 1].at = "back" /\ ~(k < Len(f))
        BY <1>1, <1>4, <1>6, <1>7, <1>8, <1>9, <3>1
      <4> QED
        BY <4>1
    <3>2. k \in 1 .. n \/ k = n + 1
      BY <1>1, <1>9
    <3> QED
      BY <1>12, <3>1, <3>2
  <2> QED
    BY <1>11, <2>1 DEF Stacked
<1>14. Counted(f, index', r, Len(chain))
  BY <1>0, <1>1, <1>2, <1>7, <1>9 DEF Counted
<1>15. Saved(f, r, chain)
  <2>1. CASE n >= 2 /\ frames[2].handler = 1
    <3>1. 2 \in 1 .. n /\ (frames[2].at = "next") # (frames[2 - 1].at = "next") /\ frames[2 - 1].at = "next"
      <4>1. 2 \in 1 .. n /\ 2 > 1 /\ 2 - 1 = 1
        BY <1>1, <2>1
      <4>2. (frames[2].at = "next") # (frames[2 - 1].at = "next")
        BY <1>3, <4>1 DEF Stacked, n
      <4>3. frames[2 - 1].at = "next"
        BY <1>0, <4>1, ChainRunning
      <4> QED
        BY <4>1, <4>2, <4>3
    <3>2. f[2].handler = 1 /\ Len(f) >= 2
      BY <1>1, <1>9, <1>10, <2>1, <3>1
    <3> QED
      BY <3>2 DEF Saved
  <2>2. ASSUME NEW j \in 1 .. r, Panics(chain[j]), OffStack(frames, j)
        PROVE  Saved(f, r, chain)
    <3>1. ASSUME NEW k \in 1 .. Len(f), f[k].at # "next" PROVE f[k].handler # j
      <4>1. k \in 1 .. n
        BY <1>1, <1>7, <1>9, <3>1
      <4> QED
        BY <1>10, <2>2, <3>1, <4>1 DEF OffStack, n
    <3> QED
      BY <2>2, <3>1 DEF Saved, OffStack
  <2>3. ~(r = 0)
    BY <1>1, <1>5
  <2>4. r = Len(chain) => Saved(f, r, chain)
    BY DEF Saved
  <2>5. Saved(frames, r, chain) /\ n = Len(frames)
    BY <1>1 DEF n
  <2> QED
    BY <2>1, <2>2, <2>3, <2>4, <2>5 DEF Saved
<1>16. ChainTyped'
  BY <1>0, <1>1, <1>3, <1>9 DEF ChainTyped
<1> QED
  BY <1>0, <1>1, <1>11, <1>13, <1>14, <1>15, <1>16 DEF ChainInv, r

\* A handler is over: it is not a loop, and stands above one.
LEMMA ChainOver ==
  ASSUME ChainInv, NEW p, Over(p)
  PROVE  /\ frames # <<>> /\ Top = frames[Len(frames)] /\ Top.at # "next" /\ Top.handler \in 1 .. Len(ran)
         /\ Len(frames) >= 2 /\ Top.at = "called" => ~CallsNext(chain[Top.handler]) /\ index = Len(ran)
         /\ Top.at # "called" => Len(ran) = Len(chain) /\ index > Len(ran)
         /\ Panics(chain[Top.handler]) = p
<1>1. frames # <<>> /\ Top = frames[Len(frames)] /\ Panics(chain[Top.handler]) = p
      /\ (Top.at = "back" \/ (Top.at = "called" /\ ~CallsNext(chain[Top.handler])))
  BY DEF Over, Top
<1>2. frames[1].at = "next" /\ Len(frames) \in Nat \ {0}
  BY <1>1, ChainRunning
<1>3. Len(frames) \in 1 .. Len(frames) /\ Top.at # "next" /\ Len(frames) # 1
  BY <1>1, <1>2
<1>4. Top.handler \in 1 .. Len(ran)
  BY <1>1, <1>3 DEF ChainInv, Stacked
<1>5. /\ Top.at = "called" => index = Len(ran)
      /\ Top.at = "back" => Len(ran) = Len(chain) /\ index > Len(ran)
  BY <1>1 DEF ChainInv, Counted
<1> QED
  BY <1>1, <1>2, <1>3, <1>4, <1>5

\* The stack is cut down to the loop n, which goes on.
LEMMA LoopGoesOn ==
  ASSUME ChainInv, NEW p, Over(p), NEW n \in Nat, 1 <= n, n < Len(frames), frames[n].at = "next",
         frames' = SubSeq(frames, 1, n), index' = index + 1, chain' = chain, ran' = ran,
         Len(ran) # Len(chain) => Saved(SubSeq(frames, 1, n), Len(ran), chain)
  PROVE  ChainInv'
<1> DEFINE f == SubSeq(frames, 1, n)
<1>1. /\ frames # <<>> /\ Top = frames[Len(frames)] /\ Top.at # "next"
      /\ Top.at = "called" => index = Len(ran)
      /\ Top.at # "called" => Len(ran) = Len(chain) /\ index > Len(ran)
  BY ChainOver
<1>2. /\ chain # <<>> /\ chain[1] = "recovery" /\ Len(frames) \in Nat \ {0} /\ Len(ran) \in Nat
      /\ Len(chain) \in Nat /\ index \in Nat
  BY <1>1, ChainRunning
<1>3. ChainTyped /\ Stacked(frames, Len(ran)) /\ frames \in Seq(Frame)
  BY DEF ChainInv, ChainTyped
<1>4. /\ Stacked(f, Len(ran)) /\ f \in Seq(Frame) /\ Len(f) = n
      /\ \A k \in 1 .. n : f[k] = frames[k]
  BY <1>2, <1>3, StackedBelow
<1> HIDE DEF f
<1>5. f # <<>> /\ f[Len(f)].at = "next"
  BY <1>4
<1>6. index' = Len(ran) + 1 \/ (Len(ran) = Len(chain) /\ index' > Len(ran))
  BY <1>1, <1>2
<1>7. Counted(f, index', Len(ran), Len(chain))
  BY <1>5, <1>6 DEF Counted
<1>8. Saved(f, Len(ran), chain)
  BY DEF Saved, f
<1>9. frames' = f
  BY DEF f
<1>10. ChainTyped'
  BY <1>2, <1>3, <1>4, <1>9 DEF ChainTyped
<1> QED
  BY <1>2, <1>4, <1>5, <1>7, <1>8, <1>9, <1>10 DEF ChainInv

LEMMA HandlerReturnsKeeps ==
  ASSUME ChainInv, HandlerReturns
  PROVE  ChainInv'
<1> DEFINE n == Len(frames) - 1
           f == SubSeq(frames, 1, n)
           r == Len(ran)
<1>1. Over(FALSE) /\ frames' = f /\ index' = index + 1 /\ chain' = chain /\ ran' = ran
  BY DEF HandlerReturns, TopReturns
<1>2. /\ frames # <<>> /\ Top = frames[Len(frames)] /\ Top.at # "next" /\ Top.handler \in 1 .. r
      /\ Len(frames) >= 2 /\ Top.at = "called" => ~CallsNext(chain[Top.handler])
      /\ Top.at # "called" => r = Len(chain)
  BY <1>1, ChainOver
<1>3. /\ Saved(frames, r, chain) /\ Len(frames) \in Nat \ {0} /\ r \in Nat /\ chain[1] = "recovery"
      /\ frames[1].at = "next"
  BY <1>2, ChainRunning
<1>4. Stacked(frames, r) /\ frames \in Seq(Frame)
  BY DEF ChainInv, ChainTyped
<1>5. Len(frames) >= 2
  BY <1>2, <1>3
<1>6. n \in Nat /\ 1 <= n /\ n < Len(frames) /\ Len(frames) = n + 1
  BY <1>3, <1>5
<1>7. frames[n].at = "next"
  <2>1. n + 1 \in 1 .. Len(frames) /\ n + 1 > 1 /\ (n + 1) - 1 = n
    BY <1>6
  <2> QED
    BY <1>2, <1>4, <1>6, <2>1 DEF Stacked
<1>8. /\ f \in Seq(Frame) /\ Len(f) = n /\ \A k \in 1 .. n : f[k] = frames[k]
  BY <1>3, <1>4, <1>6, StackedBelow
<1>9. ASSUME r # Len(chain) PROVE Saved(f, r, chain)
  <2>1. Top.at = "called" /\ ~CallsNext(chain[Top.handler])
    BY <1>2, <1>5, <1>9
  <2>2. CASE Len(frames) >= 2 /\ frames[2].handler = 1
    <3>1. Len(frames) # 2
      BY <1>2, <1>3, <2>1, <2>2 DEF CallsNext
    <3> HIDE DEF f, n
    <3>2. n >= 2 /\ 2 \in 1 .. n
      BY <1>6, <2>2, <3>1
    <3> QED
      BY <1>8, <2>2, <3>2 DEF Saved
  <2>3. ASSUME NEW j \in 1 .. r, Panics(chain[j]), OffStack(frames, j)
        PROVE  Saved(f, r, chain)
    <3> HIDE DEF f, n
    <3>1. OffStack(f, j)
      BY <1>6, <1>8, <2>3 DEF OffStack
    <3> QED
      BY <2>3, <3>1 DEF Saved
  <2>4. r # 0
    BY <1>2, <1>3
  <2> QED
    BY <1>3, <1>9, <2>2, <2>3, <2>4 DEF Saved
<1> HIDE DEF n
<1> QED
  BY <1>1, <1>6, <1>7, <1>9, LoopGoesOn

LEMMA RecoversKeeps ==
  ASSUME ChainInv, Recovers
  PROVE  ChainInv'
<1> DEFINE r == Len(ran)
           m == CHOOSE k \in Catching : \A j \in Catching : j <= k
<1>1. /\ Over(TRUE) /\ index' = index + 1 /\ chain' = chain /\ ran' = ran
      /\ frames' = IF Catching = {} THEN <<>> ELSE SubSeq(frames, 1, m - 1)
  BY DEF Recovers
<1>2. /\ frames # <<>> /\ Top = frames[Len(frames)] /\ Top.at # "next" /\ Top.handler \in 1 .. r
      /\ Panics(chain[Top.handler])
  BY <1>1, ChainOver
<1>3. /\ Saved(frames, r, chain) /\ Len(frames) \in Nat \ {0} /\ r \in Nat /\ chain[1] = "recovery"
      /\ frames[1].at = "next" /\ chain # <<>> /\ index \in Nat
  BY <1>2, ChainRunning
<1>4. Stacked(frames, r) /\ frames \in Seq(Frame) /\ ChainTyped
  BY DEF ChainInv, ChainTyped
<1>5. Catching \subseteq 1 .. Len(frames)
  BY <1>4 DEF Catching
<1>6. ASSUME Len(frames) >= 2, frames[2].handler = 1 PROVE 2 \in Catching
  <2>1. 2 \in 1 .. Len(frames) /\ 2 > 1 /\ 2 - 1 = 1
    BY <1>3, <1>6
  <2>2. frames[2].at # "next"
    BY <1>3, <1>4, <2>1 DEF Stacked
  <2>3. DOMAIN frames = 1 .. Len(frames)
    BY <1>4
  <2> QED
    BY <1>3, <1>6, <2>1, <2>2, <2>3 DEF Catching
<1>7. CASE Catching = {}
  <2>1. frames' = <<>>
    BY <1>1, <1>7
  <2>2. ChainEnded(r, chain)
    <3>1. ASSUME NEW j \in 1 .. r, Panics(chain[j]), OffStack(frames, j)
          PROVE  ChainEnded(r, chain)
      <4>1. Len(frames) \in 1 .. Len(frames)
        BY <1>3
      <4>2. Top.handler # j
        BY <1>2, <3>1, <4>1 DEF OffStack
      <4> QED
        BY <1>2, <3>1, <4>2 DEF ChainEnded
    <3>2. r # 0
      BY <1>2, <1>3
    <3> QED
      BY <1>3, <1>6, <1>7, <3>1, <3>2 DEF Saved, ChainEnded
  <2>3. ChainTyped'
    <3>1. <<>> \in Seq(Frame) /\ index + 1 \in Nat
      BY <1>3
    <3> QED
      BY <1>1, <1>4, <2>1, <3>1 DEF ChainTyped
  <2>4. Stacked(<<>>, r) /\ Counted(<<>>, index', r, Len(chain))
    BY DEF Stacked, Counted
  <2> QED
    BY <1>1, <1>3, <2>1, <2>2, <2>3, <2>4 DEF ChainInv
<1>8. CASE Catching # {}
  <2>1. m \in Catching
    <3>1. \E k \in Catching : \A j \in Catching : j <= k
      BY <1>3, <1>5, <1>8, LastOne
    <3> QED
      BY <3>1
  <2>2. \A j \in Catching : j <= m
    <3>1. \E k \in Catching : \A j \in Catching : j <= k
      BY <1>3, <1>5, <1>8, LastOne
    <3> QED
      BY <3>1
  <2> HIDE DEF m
  <2>3. PICK n \in Nat : n = m - 1 /\ m = n + 1 /\ 1 <= n /\ n < Len(frames) /\ m \in 1 .. Len(frames)
    <3>1. m \in 1 .. Len(frames) /\ frames[m].at # "next"
      BY <1>5, <2>1 DEF Catching
    <3>2. m # 1
      BY <1>3, <3>1
    <3> QED
      BY <1>3, <3>1, <3>2
  <2>4. frames[n].at = "next"
    <3>1. frames[m].at # "next" /\ m > 1 /\ m - 1 = n
      BY <2>1, <2>3 DEF Catching
    <3> QED
      BY <1>4, <2>3, <3>1 DEF Stacked
  <2> DEFINE f == SubSeq(frames, 1, n)
  <2>5. f \in Seq(Frame) /\ Len(f) = n /\ \A k \in 1 .. n : f[k] = frames[k]
    BY <1>3, <1>4, <2>3, StackedBelow
  <2>6. frames' = f
    BY <1>1, <1>8, <2>3
  <2> HIDE DEF f
  <2>7. ASSUME r # Len(chain) PROVE Saved(f, r, chain)
    <3>1. CASE n = 1
      <4>1. OffStack(f, Top.handler)
        BY <1>3, <2>5, <3>1 DEF OffStack
      <4> QED
        BY <1>2, <4>1 DEF Saved
    <3>2. CASE Len(frames) >= 2 /\ frames[2].handler = 1 /\ n # 1
      <4>1. n >= 2 /\ 2 \in 1 .. n
        BY <2>3, <3>2
      <4> QED
        BY <2>5, <3>2, <4>1 DEF Saved
    <3>3. ASSUME NEW j \in 1 .. r, Panics(chain[j]), OffStack(frames, j)
          PROVE  Saved(f, r, chain)
      <4>1. OffStack(f, j)
        BY <1>3, <2>3, <2>5, <3>3 DEF OffStack
      <4> QED
        BY <3>3, <4>1 DEF Saved
    <3>4. r # 0
      BY <1>2, <1>3
    <3> QED
      BY <1>3, <2>7, <3>1, <3>2, <3>3, <3>4 DEF Saved
  <2> QED
    BY <1>1, <2>3, <2>4, <2>6, <2>7, LoopGoesOn DEF f
<1> QED
  BY <1>7, <1>8

\* context.go, recovery.go: whatever the handlers do, they are run once each and
\* in order, to the last one unless two of them have panicked.
THEOREM HandlersRun == ChainSpec => []ChainRuns
<1>1. ChainInit => ChainInv
  <2> SUFFICES ASSUME ChainInit PROVE ChainInv
    OBVIOUS
  <2>1. chain = <<>> /\ index = 0 /\ frames = <<>> /\ ran = <<>>
    BY DEF ChainInit
  <2>2. ChainTyped
    BY <2>1 DEF ChainTyped
  <2> QED
    BY <2>1, <2>2 DEF ChainInv, Stacked, Counted
<1>2. ChainInv /\ [ChainNext]_chainVars => ChainInv'
  <2> SUFFICES ASSUME ChainInv, [ChainNext]_chainVars PROVE ChainInv'
    OBVIOUS
  <2>1. CASE UNCHANGED chainVars
    <3>1. chain' = chain /\ index' = index /\ frames' = frames /\ ran' = ran
      BY <2>1 DEF chainVars
    <3>2. ChainTyped'
      BY <3>1 DEF ChainInv, ChainTyped
    <3> QED
      BY <3>1, <3>2 DEF ChainInv
  <2> QED
    BY <2>1, ChainStarts, NextCallsKeeps, HandlerCallsNextKeeps, HandlerReturnsKeeps, RecoversKeeps
       DEF ChainNext, ChainRunsOn
<1>3. ChainInv => ChainRuns
  <2> SUFFICES ASSUME ChainInv PROVE ChainRuns
    OBVIOUS
  <2>1. DOMAIN ran = 1 .. Len(ran) /\ \A k \in 1 .. Len(ran) : ran[k] = k
    BY DEF ChainInv, ChainTyped
  <2> QED
    BY <2>1 DEF ChainInv, ChainRuns, ChainEnded
<1> QED
  BY <1>1, <1>2, <1>3, PTL DEF ChainSpec
=============================================================================
