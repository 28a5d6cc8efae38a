-------------------------- MODULE PendingIrpProofs --------------------------
(***************************************************************************)
(* Proofs about PendingIrp for any threads and packets, one call after the *)
(* other: between two calls the list is well formed and holds exactly the  *)
(* uncompleted packets, closing the handle completes all of them, and the  *)
(* driver keeps the contract of a queueing driver.                         *)
(***************************************************************************)
EXTENDS PendingIrp, Integers, FiniteSetTheorems, WellFoundedInduction, TLAPS

-----------------------------------------------------------------------------
(***************************************************************************)
(* Lists.                                                                  *)
(***************************************************************************)

Pointers == [Nodes -> Nodes \cup {None}]

\* The size of a set of packets, before and after one is added or removed.
LEMMA SizeOf ==
  ASSUME NEW S \in SUBSET Irps
  PROVE  /\ IsFiniteSet(S) /\ Cardinality(S) \in Nat
         /\ \A i \in Irps \ S : Cardinality(S \cup {i}) = Cardinality(S) + 1
         /\ \A i \in S : Cardinality(S \ {i}) = Cardinality(S) - 1
         /\ Cardinality(S) = 0 <=> S = {}
<1>1. IsFiniteSet(S)
  BY PendingIrpAssumption, FS_Subset
<1> QED
  BY <1>1, FS_CardinalityType, FS_AddElement, FS_RemoveElement, FS_EmptySet

\* The empty list: the head points to itself.
LEMMA EmptyList ==
  ASSUME NEW f \in Pointers, NEW b \in Pointers, f[Head] = Head, b[Head] = Head
  PROVE  ListOf(f, b, {})
<1> DEFINE s == [k \in 0 .. 0 |-> Head]
<1>1. Cardinality({}) = 0
  BY FS_EmptySet
<1>2. s \in [0 .. 0 -> {} \cup {Head}] /\ s[0] = Head
  OBVIOUS
<1> HIDE DEF s
<1>3. Links(f, b, {}, s)
  BY <1>1, <1>2 DEF Links
<1> QED
  BY <1>1, <1>2, <1>3 DEF ListOf

\* Links of other nodes do not matter.
LEMMA ListFrame ==
  ASSUME NEW S \in SUBSET Irps, NEW f, NEW b, NEW g, NEW c, ListOf(f, b, S),
         \A n \in S \cup {Head} : g[n] = f[n] /\ c[n] = b[n]
  PROVE  ListOf(g, c, S)
<1> DEFINE n == Cardinality(S)
<1>0. n \in Nat
  BY SizeOf
<1>1. PICK s \in [0 .. n -> S \cup {Head}] : Links(f, b, S, s)
  BY DEF ListOf
<1>2. \A k \in 0 .. n : s[k] \in S \cup {Head}
  BY <1>1
<1>3. \A k \in 1 .. n : k - 1 \in 0 .. n /\ k \in 0 .. n
  BY <1>0
<1>4. n \in 0 .. n
  BY <1>0
<1>5. Links(g, c, S, s)
  BY <1>1, <1>2, <1>3, <1>4 DEF Links
<1> QED
  BY <1>1, <1>5 DEF ListOf

\* The first node of a list is its head's Flink, and its Blink is the head;
\* the list is empty when the head points to itself.
LEMMA ListFirst ==
  ASSUME NEW S \in SUBSET Irps, NEW f, NEW b, ListOf(f, b, S)
  PROVE  /\ f[Head] \in S \cup {Head}
         /\ b[f[Head]] = Head
         /\ f[Head] = Head <=> S = {}
         /\ \A i \in S \cup {Head} : f[i] \in S \cup {Head} /\ b[f[i]] = i
<1> DEFINE n == Cardinality(S)
<1>0. n \in Nat /\ (n = 0 <=> S = {}) /\ Head \notin S
  BY SizeOf, PendingIrpAssumption
<1>1. PICK s \in [0 .. n -> S \cup {Head}] : Links(f, b, S, s)
  BY DEF ListOf
<1> HIDE DEF n
<1>2. ASSUME NEW i \in S \cup {Head}
      PROVE  f[i] \in S \cup {Head} /\ b[f[i]] = i
  <2>1. PICK k \in 0 .. n : s[k] = i
    <3>1. CASE i = Head
      BY <1>0, <1>1, <3>1 DEF Links, n
    <3>2. CASE i \in S
      BY <1>0, <1>1, <3>2 DEF Links, n
    <3> QED
      BY <3>1, <3>2
  <2>2. CASE k = n
    BY <1>1, <2>1, <2>2 DEF Links, n
  <2>3. CASE k # n
    <3>1. k + 1 \in 1 .. n /\ (k + 1) - 1 = k
      BY <1>0, <2>1, <2>3
    <3> QED
      BY <1>1, <2>1, <3>1 DEF Links, n
  <2> QED
    BY <2>2, <2>3
<1>3. f[Head] = Head => S = {}
  <2> SUFFICES ASSUME n # 0, f[Head] = Head
               PROVE  FALSE
    BY <1>0
  <2>1. 1 \in 1 .. n /\ 1 - 1 = 0
    BY <1>0
  <2> QED
    BY <1>0, <1>1, <2>1 DEF Links, n
<1> QED
  BY <1>2, <1>3

\* InsertHeadList: the four stores put a new packet in front of the others.
LEMMA ListInsert ==
  ASSUME NEW S \in SUBSET Irps, NEW i \in Irps \ S, NEW f \in Pointers, NEW b \in Pointers,
         ListOf(f, [b EXCEPT ![f[Head]] = Head], S),
         f[i] = f[Head], b[f[Head]] = i, b[i] = Head
  PROVE  ListOf([f EXCEPT ![Head] = i], b, S \cup {i})
<1> DEFINE n == Cardinality(S)
           T == S \cup {i}
           g == [f EXCEPT ![Head] = i]
           c == [b EXCEPT ![f[Head]] = Head]
<1>0. n \in Nat /\ Cardinality(T) = n + 1 /\ Head \notin T /\ i \notin S /\ T \subseteq Nodes
  BY SizeOf, PendingIrpAssumption DEF Nodes
<1>1. PICK s \in [0 .. n -> S \cup {Head}] : Links(f, c, S, s)
  BY DEF ListOf
<1>2. f[Head] \in S \cup {Head}
  BY ListFirst
<1>3. g[Head] = i /\ (\A x \in S \cup {i} : g[x] = f[x])
  BY <1>0, PendingIrpAssumption DEF Pointers, Nodes
<1>4. \A x \in S \cup {Head} : x # f[Head] => c[x] = b[x]
  BY <1>0 DEF Pointers, Nodes
<1> DEFINE r == [k \in 0 .. n + 1 |-> IF k = 0 THEN Head ELSE IF k = 1 THEN i ELSE s[k - 1]]
<1>5. \A k \in 1 .. n : s[k] \in S
  BY <1>1 DEF Links
<1>6. /\ r \in [0 .. n + 1 -> T \cup {Head}]
      /\ r[0] = Head /\ r[1] = i /\ \A k \in 2 .. n + 1 : r[k] = s[k - 1]
  BY <1>0, <1>5
<1> HIDE DEF r, c, g
<1>7. \A k \in 1 .. n + 1 : r[k] \in T
  BY <1>0, <1>5, <1>6
<1>8. \A x \in T : \E k \in 1 .. n + 1 : r[k] = x
  <2>1. \E k \in 1 .. n + 1 : r[k] = i
    BY <1>0, <1>6
  <2>2. ASSUME NEW x \in S
        PROVE  \E k \in 1 .. n + 1 : r[k] = x
    <3>1. PICK k \in 1 .. n : s[k] = x
      BY <1>1 DEF Links
    <3>2. k + 1 \in 2 .. n + 1 /\ (k + 1) - 1 = k /\ k + 1 \in 1 .. n + 1
      BY <1>0
    <3> QED
      BY <1>6, <3>1, <3>2
  <2> QED
    BY <2>1, <2>2
<1>9. ASSUME NEW j \in 0 .. n + 1, NEW k \in 0 .. n + 1, r[j] = r[k]
      PROVE  j = k
  <2>1. \A l \in 2 .. n + 1 : r[l] \in S /\ l - 1 \in 0 .. n
    BY <1>0, <1>5, <1>6
  <2>2. CASE j \in 2 .. n + 1 /\ k \in 2 .. n + 1
    <3>1. s[j - 1] = s[k - 1] /\ j - 1 \in 0 .. n /\ k - 1 \in 0 .. n
      BY <1>6, <1>9, <2>1, <2>2
    <3>2. j - 1 = k - 1
      BY <1>1, <3>1 DEF Links
    <3> QED
      BY <1>0, <3>2
  <2>3. CASE j \in {0, 1} \/ k \in {0, 1}
    BY <1>0, <1>6, <1>9, <2>1, <2>3
  <2> QED
    BY <1>0, <2>2, <2>3
<1>10. ASSUME NEW k \in 1 .. n + 1
       PROVE  g[r[k - 1]] = r[k] /\ b[r[k]] = r[k - 1]
  <2>1. CASE k = 1
    BY <1>3, <1>6, <2>1
  <2>2. CASE k = 2
    <3>1. 1 \in 1 .. n /\ 1 - 1 = 0 /\ n # 0
      BY <1>0, <2>2
    <3>2. f[s[0]] = s[1] /\ s[0] = Head
      BY <1>1, <3>1 DEF Links
    <3> QED
      BY <1>0, <1>3, <1>6, <2>2, <3>1, <3>2
  <2>3. CASE k > 2
    <3>1. k - 1 \in 2 .. n /\ k - 1 \in 1 .. n /\ (k - 1) - 1 \in 1 .. n
      BY <1>0, <2>3
    <3>2. f[s[(k - 1) - 1]] = s[k - 1] /\ c[s[k - 1]] = s[(k - 1) - 1]
      BY <1>1, <3>1 DEF Links
    <3>3. r[k] = s[k - 1] /\ r[k - 1] = s[(k - 1) - 1]
      BY <1>0, <1>6, <2>3
    <3>4. s[k - 1] # f[Head]
      <4>1. 1 \in 1 .. n /\ 1 - 1 = 0 /\ 1 \in 0 .. n /\ k - 1 \in 0 .. n /\ k - 1 # 1
        BY <1>0, <2>3
      <4>2. f[s[0]] = s[1] /\ s[0] = Head
        BY <1>1, <4>1 DEF Links
      <4> QED
        BY <1>1, <4>1, <4>2 DEF Links
    <3> QED
      BY <1>3, <1>4, <1>5, <3>1, <3>2, <3>3, <3>4
  <2> QED
    BY <1>0, <2>1, <2>2, <2>3
<1>11. g[r[n + 1]] = Head /\ b[Head] = r[n + 1]
  <2>0. f[s[n]] = Head /\ c[Head] = s[n] /\ s[0] = Head
    BY <1>1 DEF Links
  <2>1. CASE n = 0
    BY <1>0, <1>3, <1>6, <2>0, <2>1
  <2>2. CASE n # 0
    <3>1. n + 1 \in 2 .. n + 1 /\ (n + 1) - 1 = n /\ n \in 1 .. n /\ 1 \in 1 .. n /\ 1 - 1 = 0
      BY <1>0, <2>2
    <3>2. f[Head] = s[1] /\ s[1] \in S
      BY <1>1, <1>5, <2>0, <3>1 DEF Links
    <3> QED
      BY <1>0, <1>3, <1>4, <1>5, <1>6, <2>0, <3>1, <3>2
  <2> QED
    BY <2>1, <2>2
<1>12. Links(g, b, T, r)
  BY <1>0, <1>6, <1>7, <1>8, <1>9, <1>10, <1>11 DEF Links
<1>13. ListOf(g, b, T)
  BY <1>0, <1>6, <1>12 DEF ListOf
<1> QED
  BY <1>13 DEF g

\* RemoveHeadList: the two stores take the first packet out.
LEMMA ListRemove ==
  ASSUME NEW S \in SUBSET Irps, NEW f \in Pointers, NEW b \in Pointers, ListOf(f, b, S),
         NEW i \in S, f[Head] = i
  PROVE  ListOf([f EXCEPT ![Head] = f[i]], [b EXCEPT ![f[i]] = Head], S \ {i})
<1> DEFINE n == Cardinality(S)
           T == S \ {i}
           g == [f EXCEPT ![Head] = f[i]]
           c == [b EXCEPT ![f[i]] = Head]
<1>0. /\ n \in Nat \ {0} /\ Cardinality(T) = n - 1 /\ Head \notin S
      /\ S \subseteq Nodes /\ Head \in Nodes
  BY SizeOf, PendingIrpAssumption DEF Nodes
<1>1. PICK s \in [0 .. n -> S \cup {Head}] : Links(f, b, S, s)
  BY DEF ListOf
<1>2. s[0] = Head /\ s[1] = i
  <2>1. 1 \in 1 .. n /\ 1 - 1 = 0
    BY <1>0
  <2> QED
    BY <1>1, <2>1 DEF Links
<1>3. f[i] \in S \cup {Head}
  BY ListFirst
<1>4. g[Head] = f[i] /\ (\A x \in S : g[x] = f[x])
  BY <1>0 DEF Pointers
<1>5. c[f[i]] = Head /\ \A x \in S \cup {Head} : x # f[i] => c[x] = b[x]
  BY <1>0, <1>3 DEF Pointers
<1> DEFINE r == [k \in 0 .. n - 1 |-> IF k = 0 THEN Head ELSE s[k + 1]]
<1> HIDE DEF c, g
<1>6. \A k \in 2 .. n : s[k] \in T /\ k - 1 \in 1 .. n - 1
  <2> SUFFICES ASSUME NEW k \in 2 .. n
               PROVE  s[k] \in T /\ k - 1 \in 1 .. n - 1
    OBVIOUS
  <2>1. k \in 1 .. n /\ 1 \in 0 .. n /\ k \in 0 .. n /\ k # 1 /\ k - 1 \in 1 .. n - 1
    BY <1>0
  <2> QED
    BY <1>1, <1>2, <2>1 DEF Links
<1>7. \A k \in 1 .. n - 1 : k + 1 \in 2 .. n /\ k + 1 \in 1 .. n /\ (k + 1) - 1 = k
  BY <1>0
<1>8. /\ r \in [0 .. n - 1 -> T \cup {Head}]
      /\ r[0] = Head /\ \A k \in 1 .. n - 1 : r[k] = s[k + 1]
  BY <1>0, <1>6, <1>7
<1> HIDE DEF r
<1>9. \A k \in 1 .. n - 1 : r[k] \in T
  BY <1>6, <1>7, <1>8
<1>10. ASSUME NEW x \in T
       PROVE  \E k \in 1 .. n - 1 : r[k] = x
  <2>1. PICK k \in 1 .. n : s[k] = x
    BY <1>1 DEF Links
  <2>2. k # 1
    BY <1>2, <2>1
  <2>3. k - 1 \in 1 .. n - 1 /\ (k - 1) + 1 = k
    BY <1>0, <2>2
  <2> QED
    BY <1>8, <2>1, <2>3
<1>11. ASSUME NEW j \in 0 .. n - 1, NEW k \in 0 .. n - 1, r[j] = r[k]
       PROVE  j = k
  <2>1. CASE j \in 1 .. n - 1 /\ k \in 1 .. n - 1
    <3>1. s[j + 1] = s[k + 1] /\ j + 1 \in 0 .. n /\ k + 1 \in 0 .. n
      BY <1>0, <1>8, <1>11, <2>1
    <3>2. j + 1 = k + 1
      BY <1>1, <3>1 DEF Links
    <3> QED
      BY <1>0, <3>2
  <2>2. CASE j = 0 \/ k = 0
    BY <1>0, <1>8, <1>9, <1>11, <2>2
  <2> QED
    BY <1>0, <2>1, <2>2
<1>12. ASSUME NEW k \in 1 .. n - 1
       PROVE  g[r[k - 1]] = r[k] /\ c[r[k]] = r[k - 1]
  <2>0. f[s[k]] = s[k + 1] /\ b[s[k + 1]] = s[k]
    BY <1>1, <1>7 DEF Links
  <2>1. CASE k = 1
    BY <1>2, <1>4, <1>5, <1>8, <2>0, <2>1
  <2>2. CASE k # 1
    <3>1. k - 1 \in 1 .. n - 1 /\ (k - 1) + 1 = k /\ k \in 2 .. n /\ k \in 0 .. n
      BY <1>0, <2>2
    <3>2. r[k] = s[k + 1] /\ r[k - 1] = s[k]
      BY <1>8, <3>1
    <3>3. s[k] \in S /\ s[k + 1] \in S
      BY <1>6, <1>7, <3>1
    <3>4. s[k + 1] # f[i]
      <4>1. 2 \in 1 .. n /\ 2 - 1 = 1 /\ 2 \in 0 .. n /\ k + 1 \in 0 .. n /\ k + 1 # 2
        BY <1>0, <2>2
      <4>2. f[s[1]] = s[2]
        BY <1>1, <4>1 DEF Links
      <4> QED
        BY <1>1, <1>2, <4>1, <4>2 DEF Links
    <3> QED
      BY <1>4, <1>5, <2>0, <3>2, <3>3, <3>4
  <2> QED
    BY <2>1, <2>2
<1>13. g[r[n - 1]] = Head /\ c[Head] = r[n - 1]
  <2>0. f[s[n]] = Head /\ b[Head] = s[n]
    BY <1>1 DEF Links
  <2>1. CASE n = 1
    BY <1>0, <1>2, <1>4, <1>5, <1>8, <2>0, <2>1
  <2>2. CASE n # 1
    <3>1. n - 1 \in 1 .. n - 1 /\ (n - 1) + 1 = n /\ n \in 2 .. n /\ 2 \in 1 .. n /\ 2 - 1 = 1
      BY <1>0, <2>2
    <3>2. f[i] = s[2] /\ s[2] \in S
      BY <1>1, <1>2, <3>1 DEF Links
    <3> QED
      BY <1>0, <1>4, <1>5, <1>6, <1>8, <2>0, <3>1, <3>2
  <2> QED
    BY <2>1, <2>2
<1>14. Links(g, c, T, r)
  BY <1>0, <1>8, <1>9, <1>10, <1>11, <1>12, <1>13 DEF Links
<1>15. ListOf(g, c, T)
  BY <1>0, <1>8, <1>14 DEF ListOf
<1> QED
  BY <1>15 DEF g, c

-----------------------------------------------------------------------------
(***************************************************************************)
(* The inductive invariant.                                                *)
(***************************************************************************)

\* A thread that comes back from the driver leaves a list of the uncompleted
\* packets behind.
TurnInv(t) ==
  /\ ThreadInv(t)
  /\ pc[t] = "idle" => ListOf(flink, blink, Pending) /\ handle # "closing"

\* What a call of thread t does, from its first step to its last.
Call(t) == Step(t) \/ CloseHandle(t) \/ \E i \in Irps : HelloDDKRead(t, i)

\* Only the calling thread is inside the driver.
LEMMA OthersIdle ==
  ASSUME ~Concurrent, SerialInv, NEW t \in Threads, Call(t), NEW u \in Threads, u # t
  PROVE  /\ pc[u] = "idle" /\ irp[u] = None /\ entry[u] = None
         /\ pc'[u] = "idle" /\ irp'[u] = None /\ entry'[u] = None
<1> USE DEF SerialInv, TypeOK
<1>1. pc[u] = "idle"
  BY DEF Call, Step, CloseHandle, HelloDDKRead, MayEnter, InsertReads, InsertBack, InsertForth,
    MarkPending, ListNotEmpty, RemoveReads, RemoveForth, RemoveBack, CleanUpCompletes, CleanUpEnds
<1>2. irp[u] = None /\ entry[u] = None
  BY <1>1 DEF ThreadInv
<1>3. pc'[u] = pc[u]
  BY DEF Call, Step, CloseHandle, HelloDDKRead, InsertReads, InsertBack, InsertForth,
    MarkPending, ListNotEmpty, RemoveReads, RemoveForth, RemoveBack, CleanUpCompletes, CleanUpEnds
<1>4. irp'[u] = irp[u] /\ entry'[u] = entry[u]
  BY DEF Call, Step, CloseHandle, HelloDDKRead, InsertReads, InsertBack, InsertForth,
    MarkPending, ListNotEmpty, RemoveReads, RemoveForth, RemoveBack, CleanUpCompletes, CleanUpEnds
<1> QED
  BY <1>1, <1>2, <1>3, <1>4

\* HelloDDKRead, from the packet's arrival to IoMarkIrpPending.
LEMMA ReadStep ==
  ASSUME ~Concurrent, SerialInv, NEW t \in Threads,
         \/ \E i \in Irps : HelloDDKRead(t, i)
         \/ InsertReads(t) \/ InsertBack(t) \/ InsertForth(t) \/ MarkPending(t)
  PROVE  /\ TypeOK' /\ TurnInv(t)'
         /\ \A i \in Irps : life'[i] # "twice"
         /\ handle' # "closed"
<1> USE PendingIrpAssumption DEF SerialInv
<1>0. Pending \in SUBSET Irps /\ Head \in Nodes /\ Irps \subseteq Nodes
  BY DEF Pending, Nodes
<1>1. ASSUME NEW i \in Irps, HelloDDKRead(t, i)
      PROVE  TypeOK' /\ TurnInv(t)' /\ (\A j \in Irps : life'[j] # "twice") /\ handle' # "closed"
  <2> USE <1>1 DEF HelloDDKRead, MayEnter
  <2>1. TypeOK'
    BY DEF TypeOK, Labels
  <2>2. i \notin Pending /\ Pending' = Pending \cup {i}
    BY DEF Pending, TypeOK
  <2>3. ListOf(flink, blink, Pending) /\ Pending' \ {i} = Pending
    BY <2>2
  <2>4. irp'[t] = i /\ pc'[t] = "insert" /\ entry'[t] = None
    BY DEF TypeOK, ThreadInv
  <2>5. ListOf(flink', blink', Pending' \ {irp'[t]})
    BY <2>3, <2>4
  <2>6. TurnInv(t)'
    BY <2>2, <2>4, <2>5 DEF TurnInv, ThreadInv, Shape
  <2> QED
    BY <2>1, <2>6 DEF TypeOK
<1>2. ASSUME InsertReads(t)
      PROVE  TypeOK' /\ TurnInv(t)' /\ (\A i \in Irps : life'[i] # "twice") /\ handle' # "closed"
  <2> USE <1>2 DEF InsertReads
  <2> DEFINE S == Pending \ {irp[t]}
  <2>0. S \in SUBSET Irps
    BY <1>0
  <2>1. /\ irp[t] \in Pending /\ entry[t] = None /\ handle = "open"
        /\ ListOf(flink, blink, Pending \ {irp[t]})
    BY DEF ThreadInv, Shape
  <2>2. flink[Head] \in Nodes
    <3>1. flink[Head] \in S \cup {Head}
      BY <2>0, <2>1, ListFirst
    <3> QED
      BY <1>0, <2>0, <3>1
  <2>3. TypeOK'
    BY <1>0, <2>1, <2>2 DEF TypeOK, Labels, Nodes
  <2>4. Pending' = Pending /\ irp'[t] = irp[t] /\ entry'[t] = None /\ pc'[t] = "back"
    BY <2>1 DEF Pending, TypeOK
  <2>5. /\ next'[t] = flink'[Head] /\ flink'[irp[t]] = next'[t] /\ blink'[irp[t]] = Head
        /\ \A n \in S \cup {Head} : flink'[n] = flink[n] /\ blink'[n] = blink[n]
    BY <1>0, <2>1, <2>2 DEF TypeOK
  <2>6. ListOf(flink', blink', S)
    <3> HIDE DEF S
    <3>1. ListOf(flink, blink, S)
      BY <2>1 DEF S
    <3>2. \A n \in S \cup {Head} : flink'[n] = flink[n] /\ blink'[n] = blink[n]
      BY <2>5
    <3> HIDE DEF InsertReads, SerialInv
    <3> QED
      BY <2>0, <3>1, <3>2, ListFrame
  <2>7. TurnInv(t)'
    BY <2>1, <2>4, <2>5, <2>6 DEF TurnInv, ThreadInv, Shape
  <2> QED
    BY <2>1, <2>3, <2>7
<1>3. ASSUME InsertBack(t)
      PROVE  TypeOK' /\ TurnInv(t)' /\ (\A i \in Irps : life'[i] # "twice") /\ handle' # "closed"
  <2> USE <1>3 DEF InsertBack
  <2> DEFINE S == Pending \ {irp[t]}
  <2>0. S \in SUBSET Irps
    BY <1>0
  <2>1. /\ irp[t] \in Pending /\ entry[t] = None /\ handle = "open"
        /\ ListOf(flink, blink, Pending \ {irp[t]})
        /\ next[t] = flink[Head] /\ flink[irp[t]] = next[t] /\ blink[irp[t]] = Head
    BY DEF ThreadInv, Shape
  <2>2. next[t] \in S \cup {Head} /\ blink[next[t]] = Head
    <3> HIDE DEF S
    <3>1. ListOf(flink, blink, S)
      BY <2>1 DEF S
    <3> QED
      BY <2>0, <2>1, <3>1, ListFirst
  <2>3. TypeOK'
    BY <1>0, <2>1, <2>2 DEF TypeOK, Labels, Nodes
  <2>4. /\ Pending' = Pending /\ irp'[t] = irp[t] /\ entry'[t] = None /\ pc'[t] = "forth"
        /\ next'[t] = next[t] /\ flink' = flink
    BY <2>1 DEF Pending, TypeOK
  <2>5. blink'[next[t]] = irp[t] /\ blink'[irp[t]] = Head
    BY <1>0, <2>1, <2>2 DEF TypeOK
  <2>6. [blink' EXCEPT ![next[t]] = Head] = blink
    BY <1>0, <2>2 DEF TypeOK
  <2>7. ListOf(flink', [blink' EXCEPT ![next'[t]] = Head], Pending' \ {irp'[t]})
    BY <2>1, <2>4, <2>6
  <2>8. TurnInv(t)'
    BY <2>1, <2>4, <2>5, <2>7 DEF TurnInv, ThreadInv, Shape
  <2> QED
    BY <2>1, <2>3, <2>8
<1>4. ASSUME InsertForth(t)
      PROVE  TypeOK' /\ TurnInv(t)' /\ (\A i \in Irps : life'[i] # "twice") /\ handle' # "closed"
  <2> USE <1>4 DEF InsertForth
  <2>1. /\ irp[t] \in Pending /\ entry[t] = None /\ handle = "open"
        /\ ListOf(flink, [blink EXCEPT ![next[t]] = Head], Pending \ {irp[t]})
        /\ next[t] = flink[Head] /\ flink[irp[t]] = next[t] /\ blink[irp[t]] = Head
        /\ blink[next[t]] = irp[t]
    BY DEF ThreadInv, Shape
  <2>2. TypeOK'
    BY <1>0, <2>1 DEF TypeOK, Labels, Nodes
  <2>3. Pending' = Pending /\ irp'[t] = irp[t] /\ entry'[t] = None /\ pc'[t] = "mark"
    BY <2>1 DEF Pending, TypeOK
  <2>4. flink \in Pointers /\ blink \in Pointers
    BY DEF TypeOK, Pointers
  <2>5. (Pending \ {irp[t]}) \cup {irp[t]} = Pending /\ irp[t] \notin Pending \ {irp[t]}
    BY <2>1
  <2>6. ListOf([flink EXCEPT ![Head] = irp[t]], blink, (Pending \ {irp[t]}) \cup {irp[t]})
    BY <1>0, <2>1, <2>4, <2>5, ListInsert
  <2>7. TurnInv(t)'
    BY <2>1, <2>3, <2>5, <2>6 DEF TurnInv, ThreadInv, Shape
  <2> QED
    BY <2>1, <2>2, <2>7
<1>5. ASSUME MarkPending(t)
      PROVE  TypeOK' /\ TurnInv(t)' /\ (\A i \in Irps : life'[i] # "twice") /\ handle' # "closed"
  <2> USE <1>5 DEF MarkPending
  <2>1. entry[t] = None /\ handle = "open" /\ ListOf(flink, blink, Pending)
    BY DEF ThreadInv, Shape
  <2>2. TypeOK'
    BY DEF TypeOK, Labels
  <2>3. Pending' = Pending /\ irp'[t] = None /\ entry'[t] = None /\ pc'[t] = "idle"
    BY <2>1 DEF Pending, TypeOK
  <2>4. TurnInv(t)'
    BY <2>1, <2>3 DEF TurnInv, ThreadInv, Shape
  <2> QED
    BY <2>1, <2>2, <2>4
<1> QED
  BY <1>1, <1>2, <1>3, <1>4, <1>5

\* HelloDDKCleanUp, from the closing of the handle to the empty list.
LEMMA CleanUpStep ==
  ASSUME ~Concurrent, SerialInv, NEW t \in Threads,
         \/ CloseHandle(t) \/ ListNotEmpty(t) \/ RemoveReads(t) \/ RemoveForth(t)
         \/ RemoveBack(t) \/ CleanUpCompletes(t) \/ CleanUpEnds(t)
  PROVE  /\ TypeOK' /\ TurnInv(t)'
         /\ \A i \in Irps : life'[i] # "twice"
         /\ handle' = "closed" => Pending' = {}
<1> USE PendingIrpAssumption DEF SerialInv
<1>0. Pending \in SUBSET Irps /\ Head \in Nodes /\ Irps \subseteq Nodes
  BY DEF Pending, Nodes
<1> DEFINE Goal == /\ TypeOK' /\ TurnInv(t)' /\ (\A i \in Irps : life'[i] # "twice")
                   /\ handle' = "closed" => Pending' = {}
<1>1. ASSUME CloseHandle(t)
      PROVE  Goal
  <2> USE <1>1 DEF CloseHandle, MayEnter
  <2>1. irp[t] = None /\ entry[t] = None /\ ListOf(flink, blink, Pending)
    BY DEF ThreadInv
  <2>2. TypeOK'
    BY DEF TypeOK, Labels
  <2>3. /\ Pending' = Pending /\ irp'[t] = None /\ entry'[t] = None /\ pc'[t] = "test"
        /\ handle' = "closing"
    BY <2>1 DEF Pending, TypeOK
  <2>4. TurnInv(t)'
    BY <2>1, <2>3 DEF TurnInv, ThreadInv, Shape
  <2> QED
    BY <2>2, <2>3, <2>4
<1>2. ASSUME ListNotEmpty(t)
      PROVE  Goal
  <2> USE <1>2 DEF ListNotEmpty
  <2>1. irp[t] = None /\ entry[t] = None /\ ListOf(flink, blink, Pending) /\ handle = "closing"
    BY DEF ThreadInv, Shape
  <2>2. TypeOK'
    BY DEF TypeOK, Labels
  <2>3. Pending' = Pending /\ irp'[t] = None /\ entry'[t] = None /\ pc'[t] = "remove"
    BY <2>1 DEF Pending, TypeOK
  <2>4. TurnInv(t)'
    BY <2>1, <2>3 DEF TurnInv, ThreadInv, Shape
  <2> QED
    BY <2>1, <2>2, <2>4
<1>3. ASSUME RemoveReads(t)
      PROVE  Goal
  <2> USE <1>3 DEF RemoveReads
  <2>1. /\ irp[t] = None /\ ListOf(flink, blink, Pending) /\ flink[Head] # Head
        /\ handle = "closing"
    BY DEF ThreadInv, Shape
  <2>2. flink[Head] \in Pending
    BY <1>0, <2>1, ListFirst
  <2>3. Follow(flink[Head]) = flink[flink[Head]] /\ flink[flink[Head]] \in Nodes \cup {None}
    BY <1>0, <2>2 DEF Follow, TypeOK
  <2>4. TypeOK'
    BY <1>0, <2>2, <2>3 DEF TypeOK, Labels
  <2>5. /\ Pending' = Pending /\ irp'[t] = None /\ pc'[t] = "unlink"
        /\ entry'[t] = flink[Head] /\ next'[t] = flink[flink[Head]]
    BY <2>1, <2>3 DEF Pending, TypeOK
  <2>6. TurnInv(t)'
    BY <2>1, <2>2, <2>5 DEF TurnInv, ThreadInv, Shape
  <2> QED
    BY <2>1, <2>4, <2>6
<1>4. ASSUME RemoveForth(t)
      PROVE  Goal
  <2> USE <1>4 DEF RemoveForth
  <2>1. /\ irp[t] = None /\ ListOf(flink, blink, Pending) /\ handle = "closing"
        /\ entry[t] \in Pending /\ entry[t] = flink[Head] /\ next[t] = flink[entry[t]]
    BY DEF ThreadInv, Shape
  <2>2. next[t] \in Nodes
    <3>1. \A i \in Pending \cup {Head} : flink[i] \in Pending \cup {Head}
      BY <1>0, <2>1, ListFirst
    <3> QED
      BY <1>0, <2>1, <3>1
  <2>3. TypeOK'
    BY <1>0, <2>2 DEF TypeOK, Labels
  <2>4. /\ Pending' = Pending /\ irp'[t] = None /\ pc'[t] = "relink"
        /\ entry'[t] = entry[t] /\ next'[t] = next[t] /\ blink' = blink
    BY <2>1 DEF Pending, TypeOK
  <2>5. [flink' EXCEPT ![Head] = entry[t]] = flink
    BY <1>0, <2>1 DEF TypeOK
  <2>6. next[t] = flink'[entry[t]] /\ flink'[Head] = next[t]
    BY <1>0, <2>1 DEF TypeOK
  <2>7. TurnInv(t)'
    BY <2>1, <2>4, <2>5, <2>6 DEF TurnInv, ThreadInv, Shape
  <2> QED
    BY <2>1, <2>3, <2>7
<1>5. ASSUME RemoveBack(t)
      PROVE  Goal
  <2> USE <1>5 DEF RemoveBack
  <2> DEFINE f == [flink EXCEPT ![Head] = entry[t]]
  <2>1. /\ irp[t] = None /\ ListOf(f, blink, Pending) /\ handle = "closing"
        /\ entry[t] \in Pending /\ next[t] = flink[entry[t]] /\ flink[Head] = next[t]
    BY DEF ThreadInv, Shape
  <2>2. f \in Pointers /\ blink \in Pointers /\ f[Head] = entry[t] /\ f[entry[t]] = next[t]
    BY <1>0, <2>1 DEF TypeOK, Pointers
  <2>3. [f EXCEPT ![Head] = next[t]] = flink
    BY <1>0, <2>1 DEF TypeOK
  <2> HIDE DEF f
  <2>4. ListOf([f EXCEPT ![Head] = f[entry[t]]], [blink EXCEPT ![f[entry[t]]] = Head],
               Pending \ {entry[t]})
    BY <1>0, <2>1, <2>2, ListRemove
  <2>5. ListOf(flink, [blink EXCEPT ![next[t]] = Head], Pending \ {entry[t]})
    BY <2>2, <2>3, <2>4
  <2>6. TypeOK'
    BY <1>0 DEF TypeOK, Labels
  <2>7. /\ Pending' = Pending /\ irp'[t] = None /\ pc'[t] = "complete" /\ entry'[t] = entry[t]
    BY <2>1 DEF Pending, TypeOK
  <2>8. TurnInv(t)'
    BY <2>1, <2>5, <2>7 DEF TurnInv, ThreadInv, Shape
  <2> QED
    BY <2>1, <2>6, <2>8
<1>6. ASSUME CleanUpCompletes(t)
      PROVE  Goal
  <2> USE <1>6 DEF CleanUpCompletes
  <2>1. /\ irp[t] = None /\ ListOf(flink, blink, Pending \ {entry[t]})
        /\ handle = "closing" /\ entry[t] \in Pending
    BY DEF ThreadInv, Shape
  <2>2. TypeOK'
    BY <1>0, <2>1 DEF TypeOK, Labels
  <2>3. Pending' = Pending \ {entry[t]} /\ \A i \in Irps : life'[i] # "twice"
    BY <1>0, <2>1 DEF Pending, TypeOK
  <2> DEFINE S == Pending \ {entry[t]}
  <2>4. S \in SUBSET Irps /\ \A n \in S \cup {Head} : flink'[n] = flink[n] /\ blink'[n] = blink[n]
    BY <1>0, <2>1 DEF TypeOK
  <2>5. ListOf(flink', blink', S)
    <3> HIDE DEF S
    <3>1. ListOf(flink, blink, S)
      BY <2>1 DEF S
    <3> QED
      BY <2>4, <3>1, ListFrame
  <2>6. irp'[t] = None /\ entry'[t] = None /\ pc'[t] = "test"
    BY <2>1 DEF TypeOK
  <2>7. TurnInv(t)'
    BY <2>1, <2>3, <2>5, <2>6 DEF TurnInv, ThreadInv, Shape
  <2> QED
    BY <2>1, <2>2, <2>3, <2>7
<1>7. ASSUME CleanUpEnds(t)
      PROVE  Goal
  <2> USE <1>7 DEF CleanUpEnds
  <2>1. irp[t] = None /\ entry[t] = None /\ ListOf(flink, blink, Pending)
    BY DEF ThreadInv, Shape
  <2>2. TypeOK'
    BY DEF TypeOK, Labels
  <2>3. Pending' = Pending /\ irp'[t] = None /\ entry'[t] = None /\ pc'[t] = "idle"
    BY <2>1 DEF Pending, TypeOK
  <2>4. Pending = {}
    BY <1>0, <2>1, ListFirst
  <2>5. TurnInv(t)'
    BY <2>1, <2>3 DEF TurnInv, ThreadInv, Shape
  <2> QED
    BY <2>2, <2>3, <2>4, <2>5
<1> QED
  BY <1>1, <1>2, <1>3, <1>4, <1>5, <1>6, <1>7

\* Every step keeps SerialInv.
LEMMA SerialStep ==
  ASSUME ~Concurrent, SerialInv, [Next]_vars
  PROVE  SerialInv'
<1>1. CASE UNCHANGED vars
  <2>1. Pending' = Pending
    BY <1>1 DEF vars, Pending
  <2>2. \A t \in Threads : ThreadInv(t)' <=> ThreadInv(t)
    BY <1>1, <2>1 DEF vars, ThreadInv, Shape
  <2> QED
    BY <1>1, <2>1, <2>2 DEF vars, SerialInv, TypeOK
<1>2. ASSUME NEW t \in Threads, Call(t)
      PROVE  SerialInv'
  <2>1. \A u \in Threads : u # t =>
          /\ pc[u] = "idle" /\ irp[u] = None /\ entry[u] = None
          /\ pc'[u] = "idle" /\ irp'[u] = None /\ entry'[u] = None
    BY <1>2, OthersIdle
  <2>2. /\ TypeOK' /\ TurnInv(t)'
        /\ \A i \in Irps : life'[i] # "twice"
        /\ handle' = "closed" => Pending' = {}
    <3>1. CASE (\E i \in Irps : HelloDDKRead(t, i)) \/ InsertReads(t) \/ InsertBack(t)
                 \/ InsertForth(t) \/ MarkPending(t)
      BY <3>1, ReadStep
    <3>2. CASE CloseHandle(t) \/ ListNotEmpty(t) \/ RemoveReads(t) \/ RemoveForth(t)
                 \/ RemoveBack(t) \/ CleanUpCompletes(t) \/ CleanUpEnds(t)
      BY <3>2, CleanUpStep
    <3> QED
      BY <1>2, <3>1, <3>2 DEF Call, Step
  <2>3. \A u \in Threads : u # t => ThreadInv(u)'
    BY <2>1 DEF ThreadInv, Shape
  <2>4. \A u \in Threads : ThreadInv(u)'
    BY <2>2, <2>3 DEF TurnInv
  <2>5. \A u, v \in Threads : pc'[u] # "idle" /\ pc'[v] # "idle" => u = v
    BY <2>1
  <2>6. (\A u \in Threads : pc'[u] = "idle") =>
          ListOf(flink', blink', Pending') /\ handle' # "closing"
    BY <2>2 DEF TurnInv
  <2> QED
    BY <2>2, <2>4, <2>5, <2>6 DEF SerialInv
<1>3. ASSUME NEW i \in Irps, FreeIrp(i)
      PROVE  SerialInv'
  <2>1. TypeOK' /\ \A j \in Irps : life'[j] # "twice"
    BY <1>3 DEF FreeIrp, SerialInv, TypeOK
  <2>2. Pending' = Pending
    BY <1>3 DEF FreeIrp, SerialInv, TypeOK, Pending
  <2>3. \A t \in Threads : ThreadInv(t)' <=> ThreadInv(t)
    BY <1>3, <2>2 DEF FreeIrp, ThreadInv, Shape
  <2> QED
    BY <1>3, <2>1, <2>2, <2>3 DEF FreeIrp, SerialInv
<1>4. CASE OpenHandle
  <2>1. TypeOK'
    BY <1>4 DEF OpenHandle, SerialInv, TypeOK
  <2>2. Pending' = Pending
    BY <1>4 DEF OpenHandle, Pending
  <2>3. \A t \in Threads : ThreadInv(t)'
    BY <1>4, <2>2 DEF OpenHandle, SerialInv, ThreadInv, Shape
  <2> QED
    BY <1>4, <2>1, <2>2, <2>3 DEF OpenHandle, SerialInv
<1> QED
  BY <1>1, <1>2, <1>3, <1>4 DEF Next, Call

LEMMA SerialInit == Init => SerialInv
<1> SUFFICES ASSUME Init
             PROVE  SerialInv
  OBVIOUS
<1> USE PendingIrpAssumption DEF Init
<1>1. TypeOK
  BY DEF TypeOK, Nodes, Labels
<1>2. Pending = {}
  BY DEF Pending
<1>3. flink \in Pointers /\ blink \in Pointers /\ flink[Head] = Head /\ blink[Head] = Head
  BY DEF Pointers, Nodes
<1>4. ListOf(flink, blink, Pending)
  BY <1>2, <1>3, EmptyList
<1>5. \A t \in Threads : ThreadInv(t)
  BY DEF ThreadInv, Shape
<1> QED
  BY <1>1, <1>2, <1>4, <1>5 DEF SerialInv

LEMMA SerialInvariant == ASSUME ~Concurrent PROVE Spec => []SerialInv
<1>1. Init => SerialInv
  BY SerialInit
<1>2. SerialInv /\ [Next]_vars => SerialInv'
  BY SerialStep
<1> QED
  BY <1>1, <1>2, PTL DEF Spec

\* One call after the other, closing the handle completes every packet that
\* HelloDDKRead had put in the queue (HelloDDKCleanUp in Driver.cpp).
THEOREM QueueProcessed == ASSUME ~Concurrent PROVE Spec => []CleanUpProcessesQueue
<1>1. SerialInv => CleanUpProcessesQueue
  BY DEF SerialInv, TypeOK, CleanUpProcessesQueue, Pending
<1> QED
  BY <1>1, SerialInvariant, PTL

-----------------------------------------------------------------------------
(***************************************************************************)
(* The walk along the list.                                                *)
(***************************************************************************)

\* A set of naturals has a least element: what the proofs below use in the
\* place of induction.
LEMMA LeastNatural ==
  ASSUME NEW T \in SUBSET Nat, T # {}
  PROVE  \E x \in T : \A y \in T : x <= y
<1> DEFINE R == OpToRel(<, Nat)
<1>1. IsWellFoundedOn(R, Nat)
  BY NatLessThanWellFounded, Zenon
<1>2. \A x, y \in Nat : x < y => <<x, y>> \in R
  BY Zenon DEF OpToRel
<1> HIDE DEF R
<1>3. PICK x \in T : \A y \in T : ~(<<y, x>> \in R)
  BY <1>1, WFMin
<1>4. ASSUME NEW y \in T
      PROVE  x <= y
  <2>1. ~(y < x)
    BY <1>2, <1>3
  <2> QED
    BY <2>1
<1> QED
  BY <1>4

\* The walk starts at the head and follows the Flinks.
LEMMA NthSteps ==
  ASSUME TypeOK
  PROVE  /\ Nth[0] = Head
         /\ \A k \in 1 .. Cardinality(Irps) : Nth[k] = Follow(Nth[k - 1])
<1> DEFINE N == Cardinality(Irps)
           Places == Nodes \cup {None}
           Walk(n) == \E h \in [0 .. n -> Places] :
                        h[0] = Head /\ \A k \in 1 .. n : h[k] = Follow(h[k - 1])
           T == {n \in Nat : ~Walk(n)}
<1>0. N \in Nat
  BY PendingIrpAssumption, FS_CardinalityType
<1>1. \A p \in Places : Follow(p) \in Places
  BY DEF Follow, TypeOK
<1>2. Head \in Places
  BY DEF Nodes
<1> HIDE DEF Places, N
<1>3. T = {}
  <2> SUFFICES ASSUME T # {} PROVE FALSE
    OBVIOUS
  <2>1. PICK n \in T : \A m \in T : n <= m
    BY LeastNatural
  <2>2. Walk(0)
    <3> DEFINE h == [k \in 0 .. 0 |-> Head]
    <3>1. h \in [0 .. 0 -> Places] /\ h[0] = Head
      BY <1>2
    <3> HIDE DEF h
    <3> QED
      BY <3>1
  <2>3. n \in Nat \ {0} /\ n - 1 \in Nat /\ ~(n <= n - 1)
    <3>1. n \in Nat /\ ~Walk(n)
      BY <2>1
    <3>2. n # 0
      BY <2>2, <3>1
    <3> HIDE DEF Walk, T
    <3> QED
      BY <3>1, <3>2
  <2>4. PICK h \in [0 .. n - 1 -> Places] :
               h[0] = Head /\ \A k \in 1 .. n - 1 : h[k] = Follow(h[k - 1])
    BY <2>1, <2>3
  <2> DEFINE g == [k \in 0 .. n |-> IF k = n THEN Follow(h[n - 1]) ELSE h[k]]
  <2>5. g \in [0 .. n -> Places]
    BY <1>1, <2>3, <2>4
  <2>6. g[0] = Head /\ \A k \in 1 .. n : g[k] = Follow(g[k - 1])
    <3>1. g[0] = h[0] /\ g[n] = Follow(h[n - 1]) /\ g[n - 1] = h[n - 1]
      BY <2>3
    <3>2. \A k \in 1 .. n - 1 : g[k] = h[k] /\ g[k - 1] = h[k - 1]
      BY <2>3
    <3>3. ASSUME NEW k \in 1 .. n
          PROVE  k \in 1 .. n - 1 \/ k = n
      BY <2>3
    <3> QED
      BY <2>4, <3>1, <3>2, <3>3
  <2> HIDE DEF g
  <2>7. Walk(n)
    BY <2>5, <2>6
  <2> QED
    BY <2>1, <2>7
<1>4. PICK h \in [0 .. N -> Places] : h[0] = Head /\ \A k \in 1 .. N : h[k] = Follow(h[k - 1])
  BY <1>0, <1>3
<1>5. h = [k \in 0 .. N |-> IF k = 0 THEN Head ELSE Follow(h[k - 1])]
  <2>1. \A k \in 0 .. N : h[k] = IF k = 0 THEN Head ELSE Follow(h[k - 1])
    BY <1>0, <1>4
  <2> QED
    BY <1>4, <2>1
<1>6. Nth = [k \in 0 .. N |-> IF k = 0 THEN Head ELSE Follow(Nth[k - 1])]
  <2>1. \E w : w = [k \in 0 .. N |-> IF k = 0 THEN Head ELSE Follow(w[k - 1])]
    BY <1>5
  <2> QED
    BY <2>1 DEF Nth, N
<1>7. 0 \in 0 .. N /\ \A k \in 1 .. N : k \in 0 .. N /\ k # 0
  BY <1>0
<1> QED
  BY <1>6, <1>7 DEF N

\* Walking along a list of the packets S meets all of them and returns.
LEMMA WalkMeetsAll ==
  ASSUME TypeOK, NEW S \in SUBSET Irps, ListOf(flink, blink, S)
  PROVE  {Nth[k] : k \in 0 .. Cardinality(S)} = S \cup {Head}
<1> DEFINE n == Cardinality(S)
<1>0. n \in Nat /\ n <= Cardinality(Irps) /\ Cardinality(Irps) \in Nat
  BY SizeOf, PendingIrpAssumption, FS_Subset, FS_CardinalityType
<1>1. PICK s \in [0 .. n -> S \cup {Head}] : Links(flink, blink, S, s)
  BY DEF ListOf
<1>2. /\ s[0] = Head
      /\ \A k \in 1 .. n : flink[s[k - 1]] = s[k]
      /\ \A i \in S : \E k \in 1 .. n : s[k] = i
  BY <1>1 DEF Links
<1>3. \A p \in S \cup {Head} : Follow(p) = flink[p]
  BY DEF Follow, Nodes
<1> HIDE DEF n
<1> DEFINE T == {k \in 0 .. n : Nth[k] # s[k]}
<1>4. T = {}
  <2> SUFFICES ASSUME T # {} PROVE FALSE
    OBVIOUS
  <2>0. T \in SUBSET Nat
    BY <1>0
  <2>1. PICK k \in T : \A j \in T : k <= j
    BY <2>0, LeastNatural
  <2>2. k # 0
    BY <1>2, <2>1, NthSteps
  <2>3. k - 1 \in 0 .. n /\ k \in 1 .. n /\ k \in 1 .. Cardinality(Irps) /\ ~(k <= k - 1)
    BY <1>0, <2>1, <2>2
  <2>4. Nth[k - 1] = s[k - 1]
    BY <2>1, <2>3
  <2>5. Nth[k] = Follow(s[k - 1]) /\ s[k - 1] \in S \cup {Head}
    BY <2>3, <2>4, NthSteps
  <2> QED
    BY <1>2, <1>3, <2>1, <2>3, <2>5
<1>5. \A k \in 0 .. n : Nth[k] = s[k]
  BY <1>4
<1>6. {s[k] : k \in 0 .. n} = S \cup {Head}
  <2>1. \A i \in S \cup {Head} : \E k \in 0 .. n : s[k] = i
    <3>1. 0 \in 0 .. n /\ \A k \in 1 .. n : k \in 0 .. n
      BY <1>0
    <3> QED
      BY <1>2, <3>1
  <2> QED
    BY <2>1
<1>7. {Nth[k] : k \in 0 .. n} = {s[k] : k \in 0 .. n}
  BY <1>5
<1> QED
  BY <1>6, <1>7 DEF n

-----------------------------------------------------------------------------
\* One call after the other, while nobody is inside the driver the list is well
\* formed and holds exactly the uncompleted packets (InsertHeadList,
\* RemoveHeadList, Driver.cpp).
THEOREM ListIsPending == ASSUME ~Concurrent PROVE Spec => []ListHoldsPending
<1>1. SerialInv => ListHoldsPending
  <2> SUFFICES ASSUME SerialInv, \A t \in Threads : pc[t] = "idle"
               PROVE  /\ {Nth[k] : k \in 0 .. Cardinality(Pending)} = Pending \cup {Head}
                      /\ \A n \in Pending \cup {Head} : flink[n] \in Nodes /\ blink[flink[n]] = n
    BY DEF ListHoldsPending
  <2>1. TypeOK /\ ListOf(flink, blink, Pending) /\ Pending \in SUBSET Irps
    BY DEF SerialInv, Pending
  <2>2. {Nth[k] : k \in 0 .. Cardinality(Pending)} = Pending \cup {Head}
    BY <2>1, WalkMeetsAll
  <2>3. \A n \in Pending \cup {Head} : flink[n] \in Pending \cup {Head} /\ blink[flink[n]] = n
    BY <2>1, ListFirst
  <2> QED
    BY <2>1, <2>2, <2>3 DEF Nodes
<1> QED
  BY <1>1, SerialInvariant, PTL

\* One call after the other, every packet is completed exactly once before the
\* I/O manager reuses it (HelloDDKRead, HelloDDKCleanUp).
THEOREM ContractKept == ASSUME ~Concurrent PROVE Spec => KeepsContract
<1> USE DEF Contract!Issue, Contract!Refuse, Contract!Reclaim, Contract!Next, Contract!vars
<1>1. Init => Contract!Init
  BY DEF Init, Contract!Init
<1>2. SerialInv /\ [Next]_vars => [Contract!Next]_Contract!vars
  <2> SUFFICES ASSUME SerialInv, [Next]_vars
               PROVE  [Contract!Next]_Contract!vars
    OBVIOUS
  <2>1. ASSUME NEW t \in Threads, CleanUpCompletes(t)
        PROVE  \E i \in Irps : Contract!Refuse(i)
    <3>1. entry[t] \in Irps /\ life[entry[t]] = "live"
      BY <2>1 DEF CleanUpCompletes, SerialInv, ThreadInv, Pending
    <3> QED
      BY <2>1, <3>1 DEF CleanUpCompletes
  <2>2. ASSUME NEW t \in Threads, Step(t) \/ CloseHandle(t), ~CleanUpCompletes(t)
        PROVE  UNCHANGED Contract!vars
    BY <2>2 DEF Step, CloseHandle, InsertReads, InsertBack, InsertForth, MarkPending,
      ListNotEmpty, RemoveReads, RemoveForth, RemoveBack, CleanUpEnds
  <2>3. ASSUME NEW t \in Threads, NEW i \in Irps, HelloDDKRead(t, i)
        PROVE  Contract!Issue(i)
    BY <2>3 DEF HelloDDKRead
  <2>4. ASSUME NEW i \in Irps, FreeIrp(i)
        PROVE  Contract!Reclaim(i)
    BY <2>4 DEF FreeIrp
  <2>5. CASE OpenHandle \/ UNCHANGED vars
    BY <2>5 DEF OpenHandle, vars
  <2> QED
    BY <2>1, <2>2, <2>3, <2>4, <2>5 DEF Next, Step
<1> QED
  BY <1>1, <1>2, SerialInvariant, PTL DEF Spec, KeepsContract, Contract!Spec

-----------------------------------------------------------------------------
(***************************************************************************)
(* Types, one call after the other or not.                                 *)
(***************************************************************************)

Inserting == {"insert", "back", "forth", "mark"}
Cleaning == {"test", "remove", "unlink", "relink", "complete"}

\* One thread at a time cleans up, and nobody else makes the list empty.
TypeInv ==
  /\ TypeOK
  /\ \A t \in Threads : pc[t] \in Inserting => irp[t] \in Irps
  /\ \A t, u \in Threads : pc[t] \in Cleaning /\ pc[u] \in Cleaning => t = u
  /\ \A t \in Threads : pc[t] \in Cleaning => handle = "closing"
  /\ \A t \in Threads : pc[t] = "remove" => flink[Head] # Head

LEMMA TypeStep ==
  ASSUME TypeInv, [Next]_vars
  PROVE  TypeInv'
<1> USE PendingIrpAssumption DEF TypeInv, Nodes, Labels, Inserting, Cleaning
<1>1. CASE UNCHANGED vars
  BY <1>1 DEF vars, TypeOK
<1>2. ASSUME NEW t \in Threads, InsertReads(t)
      PROVE  TypeInv'
  BY <1>2 DEF InsertReads, TypeOK
<1>3. ASSUME NEW t \in Threads, InsertBack(t)
      PROVE  TypeInv'
  BY <1>3 DEF InsertBack, TypeOK
<1>4. ASSUME NEW t \in Threads, InsertForth(t)
      PROVE  TypeInv'
  BY <1>4 DEF InsertForth, TypeOK
<1>5. ASSUME NEW t \in Threads, MarkPending(t) \/ ListNotEmpty(t) \/ CleanUpEnds(t)
      PROVE  TypeInv'
  BY <1>5 DEF MarkPending, ListNotEmpty, CleanUpEnds, TypeOK
<1>6. ASSUME NEW t \in Threads, RemoveReads(t)
      PROVE  TypeInv'
  BY <1>6 DEF RemoveReads, Follow, TypeOK
<1>7. ASSUME NEW t \in Threads, RemoveForth(t)
      PROVE  TypeInv'
  BY <1>7 DEF RemoveForth, TypeOK
<1>8. ASSUME NEW t \in Threads, RemoveBack(t)
      PROVE  TypeInv'
  BY <1>8 DEF RemoveBack, TypeOK
<1>9. ASSUME NEW t \in Threads, CleanUpCompletes(t)
      PROVE  TypeInv'
  BY <1>9 DEF CleanUpCompletes, TypeOK
<1>10. ASSUME NEW t \in Threads, CloseHandle(t)
       PROVE  TypeInv'
  BY <1>10 DEF CloseHandle, MayEnter, TypeOK
<1>11. ASSUME NEW t \in Threads, NEW i \in Irps, HelloDDKRead(t, i)
       PROVE  TypeInv'
  BY <1>11 DEF HelloDDKRead, MayEnter, TypeOK
<1>12. ASSUME NEW i \in Irps, FreeIrp(i)
       PROVE  TypeInv'
  BY <1>12 DEF FreeIrp, TypeOK
<1>13. CASE OpenHandle
  BY <1>13 DEF OpenHandle, TypeOK
<1> QED
  BY <1>1, <1>2, <1>3, <1>4, <1>5, <1>6, <1>7, <1>8, <1>9, <1>10, <1>11, <1>12, <1>13
     DEF Next, Step

\* The variables keep their types, also while several threads are in the
\* unlocked list: RemoveHeadList is never asked for an entry of an empty list,
\* because HelloDDKCleanUp tests for one and nobody else removes.
THEOREM PendingTypeCorrect == Spec => []TypeOK
<1>1. Init => TypeInv
  BY PendingIrpAssumption DEF Init, TypeInv, TypeOK, Nodes, Labels, Inserting, Cleaning
<1>2. TypeInv /\ [Next]_vars => TypeInv'
  BY TypeStep
<1>3. TypeInv => TypeOK
  BY DEF TypeInv
<1> QED
  BY <1>1, <1>2, <1>3, PTL DEF Spec
=============================================================================
