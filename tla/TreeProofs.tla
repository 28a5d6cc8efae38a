------------------------------ MODULE TreeProofs ------------------------------
(***************************************************************************)
(* Proofs about the two search trees, for any keys and any number of       *)
(* nodes.  SearchTree: what was put in comes out.  RbTree: the tree stays  *)
(* red-black.                                                              *)
(***************************************************************************)
EXTENDS FiniteSetTheorems, WellFoundedInduction, SearchTree, RbTree, TLAPS

\* A set of numbers has a least one: induction for the walks below.
LEMMA LeastNat ==
  ASSUME NEW T \in SUBSET Nat, T # {}
  PROVE  \E x \in T : \A y \in T : x <= y
<1> DEFINE R == OpToRel(<, Nat)
<1>1. IsWellFoundedOn(R, Nat)
  BY NatLessThanWellFounded, Zenon
<1>2. \A x, y \in Nat : x < y => <<x, y>> \in R
  BY Zenon DEF OpToRel
<1> HIDE DEF R
<1>3. PICK x \in T : \A y \in T : ~(<<y, x>> \in R)
  BY <1>1, WFMin
<1>4. ASSUME NEW y \in T
      PROVE  x <= y
  <2>1. ~(y < x)
    BY <1>2, <1>3
  <2> QED
    BY <2>1
<1> QED
  BY <1>4

-----------------------------------------------------------------------------
(***************************************************************************)
(* SearchTree, for any keys and any number of nodes.  u[n] is the set of   *)
(* nodes below n; the invariant says that some u makes the links a tree in *)
(* order, in which every node knows its parent, or has none if a key was   *)
(* inserted twice, and which holds every key as often as held says.        *)
(***************************************************************************)

\* The places of the children, and the records the tree is.
Hands == {"left", "right"}
Trees == [root : 0 .. BstNodes, link : [Hands -> [BstIds -> 0 .. BstNodes]],
          parent : [BstIds -> 0 .. BstNodes], key : [BstIds -> BstKeys \cup {0}]]

\* Node n and its children: u[m] is the set of nodes below node m, itself included.
Branches(link, u, n) ==
  /\ \A s \in Hands : link[s][n] \in u[n] \cup {null} /\ n \notin u[link[s][n]]
  /\ u[link["left"][n]] \cap u[link["right"][n]] = {}
  /\ u[n] = {n} \cup u[link["left"][n]] \cup u[link["right"][n]]

\* The nodes below the root are a tree.
IsTree(root, link, u) ==
  /\ u \in [0 .. BstNodes -> SUBSET BstIds] /\ u[null] = {}
  /\ root \in 0 .. BstNodes /\ root \in u[root] \cup {null}
  /\ \A n \in u[root] : Branches(link, u, n)
  /\ \A a, b \in u[root] : a \in u[b] => u[a] \subseteq u[b]
  /\ \A a, b \in u[root] : a \in u[b] /\ b \in u[a] => a = b
  /\ \A a, b, x \in u[root] : x \in u[a] /\ x \in u[b] => a \in u[b] \/ b \in u[a]
  /\ \A y \in u[root] : y # root => \E n \in u[root], s \in Hands : link[s][n] = y

\* Smaller keys are below on the left, others on the right.
IsOrdered(root, link, key, u) ==
  \A n \in u[root] :
    /\ key[n] \in BstKeys
    /\ \A m \in u[link["left"][n]] : key[m] < key[n]
    /\ \A m \in u[link["right"][n]] : key[m] >= key[n]

\* Nodes know their parents, or have none if a key was inserted twice.
KnowParents(root, link, parent, u, twice) ==
  /\ root # null => parent[root] = null
  /\ \A n \in u[root], s \in Hands :
       link[s][n] # null => parent[link[s][n]] = n \/ (twice /\ parent[link[s][n]] = null)

\* A node that is not made yet.
Untouched(b, n) ==
  /\ \A s \in Hands : b.link[s][n] = null
  /\ b.parent[n] = null

Holding(root, key, u, k) == {n \in u[root] : key[n] = k}

BstShape(u) ==
  /\ IsTree(bst.root, bst.link, u)
  /\ IsOrdered(bst.root, bst.link, bst.key, u)
  /\ KnowParents(bst.root, bst.link, bst.parent, u, doubled)
  /\ u[bst.root] \subseteq 1 .. bstMade
  /\ \A n \in BstIds : n > bstMade => Untouched(bst, n)
  /\ \A k \in BstKeys : Cardinality(Holding(bst.root, bst.key, u, k)) = held[k]

BstInv ==
  /\ bst \in Trees /\ bstMade \in 0 .. BstNodes
  /\ held \in [BstKeys -> Int] /\ doubled \in BOOLEAN /\ astray \in BOOLEAN
  /\ IF astray THEN doubled ELSE \E u : BstShape(u)

\* g begins the sequence x, F[x], F[F[x]], ... up to its place k.
Begins(g, F, x, k) == g[0] = x /\ \A i \in 1 .. k : g[i] = F[g[i - 1]]

\* Two such beginnings agree.
LEMMA BeginningsAgree ==
  ASSUME NEW F, NEW x, NEW j \in Nat, NEW k \in Nat, NEW g, NEW h,
         Begins(g, F, x, j), Begins(h, F, x, k), NEW i \in Nat, i <= j, i <= k
  PROVE  g[i] = h[i]
<1> DEFINE T == {m \in Nat : m <= j /\ m <= k /\ g[m] # h[m]}
<1> SUFFICES ASSUME T # {} PROVE FALSE
  OBVIOUS
<1>1. PICK m \in T : \A n \in T : m <= n
  BY LeastNat
<1>2. m # 0
  BY <1>1 DEF Begins
<1>3. m - 1 \in Nat /\ m - 1 <= j /\ m - 1 <= k /\ ~(m <= m - 1) /\ m \in 1 .. j /\ m \in 1 .. k
  BY <1>1, <1>2
<1>4. g[m - 1] = h[m - 1]
  BY <1>1, <1>3
<1> QED
  BY <1>1, <1>3, <1>4 DEF Begins

Iteration(f, F, x) == f[0] = x /\ \A k \in Nat : f[k + 1] = F[f[k]]

\* A function on S can be iterated from any x: what the recursive functions of
\* SearchTree compute exists.
LEMMA Iterates ==
  ASSUME NEW S, NEW F \in [S -> S], NEW x \in S
  PROVE  \E f \in [Nat -> S] : Iteration(f, F, x)
<1> DEFINE Upto(k) == {g \in [0 .. k -> S] : Begins(g, F, x, k)}
           T == {k \in Nat : Upto(k) = {}}
<1>1. T = {}
  <2> SUFFICES ASSUME T # {} PROVE FALSE
    OBVIOUS
  <2>1. PICK k \in T : \A n \in T : k <= n
    BY LeastNat
  <2>2. k # 0
    <3>1. [i \in 0 .. 0 |-> x] \in [0 .. 0 -> S] /\ Begins([i \in 0 .. 0 |-> x], F, x, 0)
      BY DEF Begins
    <3> QED
      BY <2>1, <3>1
  <2>3. k - 1 \in Nat /\ ~(k <= k - 1)
    BY <2>1, <2>2
  <2>4. PICK g \in [0 .. k - 1 -> S] : Begins(g, F, x, k - 1)
    BY <2>1, <2>3
  <2> DEFINE h == [i \in 0 .. k |-> IF i = k THEN F[g[k - 1]] ELSE g[i]]
  <2>5. \A i \in 0 .. k - 1 : g[i] \in S /\ h[i] = g[i]
    BY <2>1, <2>2, <2>4
  <2>6. h \in [0 .. k -> S] /\ h[k] = F[g[k - 1]]
    BY <2>1, <2>2, <2>3, <2>4
  <2>7. Begins(h, F, x, k)
    <3>1. h[0] = x
      BY <2>3, <2>4, <2>5 DEF Begins
    <3>2. ASSUME NEW i \in 1 .. k PROVE h[i] = F[h[i - 1]]
      <4>1. CASE i = k
        BY <2>3, <2>5, <2>6, <4>1
      <4>2. CASE i # k
        <5>1. i \in 1 .. k - 1 /\ i \in 0 .. k - 1 /\ i - 1 \in 0 .. k - 1
          BY <2>3, <4>2
        <5> QED
          BY <2>4, <2>5, <5>1 DEF Begins
      <4> QED
        BY <4>1, <4>2
    <3> QED
      BY <3>1, <3>2 DEF Begins
  <2> QED
    BY <2>1, <2>6, <2>7
<1> DEFINE c(k) == CHOOSE g : g \in Upto(k)
           f == [k \in Nat |-> c(k)[k]]
<1>2. \A k \in Nat : c(k) \in Upto(k)
  BY <1>1
<1> HIDE DEF c
<1>3. \A k \in Nat : c(k) \in [0 .. k -> S] /\ Begins(c(k), F, x, k)
  BY <1>2
<1>4. f \in [Nat -> S]
  BY <1>3
<1>5. f[0] = x
  BY <1>3 DEF Begins
<1>6. ASSUME NEW k \in Nat PROVE f[k + 1] = F[f[k]]
  <2>1. k + 1 \in Nat /\ k + 1 \in 1 .. k + 1 /\ (k + 1) - 1 = k /\ k <= k + 1 /\ k <= k
    OBVIOUS
  <2>2. c(k + 1)[k + 1] = F[c(k + 1)[k]]
    BY <1>3, <2>1 DEF Begins
  <2>3. c(k + 1)[k] = c(k)[k]
    BY <1>3, <2>1, BeginningsAgree
  <2> QED
    BY <2>1, <2>2, <2>3
<1> QED
  BY <1>4, <1>5, <1>6 DEF Iteration

\* What Descend computes: the last of BstNodes steps.
LEMMA DescendIs ==
  ASSUME NEW n \in 0 .. BstNodes, NEW step \in [BstIds -> 0 .. BstNodes]
  PROVE  \E at \in [Nat -> 0 .. BstNodes] :
           /\ Descend(n, step) = at[BstNodes] /\ at[0] = n
           /\ \A k \in Nat : at[k + 1] = IF at[k] = null THEN null ELSE step[at[k]]
<1> DEFINE F == [m \in 0 .. BstNodes |-> IF m = null THEN null ELSE step[m]]
           Goes(w) == w = [k \in Nat |-> IF k = 0 THEN n
                             ELSE IF w[k - 1] = null THEN null ELSE step[w[k - 1]]]
<1>1. F \in [0 .. BstNodes -> 0 .. BstNodes]
  BY BstAssumption DEF BstIds, null
<1> HIDE DEF F
<1>2. PICK f \in [Nat -> 0 .. BstNodes] : Iteration(f, F, n)
  BY <1>1, Iterates, Zenon
<1>3. f[0] = n /\ \A k \in Nat : f[k + 1] = IF f[k] = null THEN null ELSE step[f[k]]
  BY <1>2 DEF F, Iteration
<1>4. Goes(f)
  <2>1. ASSUME NEW k \in Nat
        PROVE  f[k] = IF k = 0 THEN n ELSE IF f[k - 1] = null THEN null ELSE step[f[k - 1]]
    <3>1. CASE k = 0
      BY <1>3, <3>1
    <3>2. CASE k # 0
      <4>1. k - 1 \in Nat /\ (k - 1) + 1 = k
        BY <3>2
      <4> QED
        BY <1>3, <3>2, <4>1
    <3> QED
      BY <3>1, <3>2
  <2> QED
    BY <2>1
<1>5. ASSUME NEW w, Goes(w)
      PROVE  \A k \in Nat : w[k] = f[k]
  <2> DEFINE T == {k \in Nat : w[k] # f[k]}
  <2> SUFFICES ASSUME T # {} PROVE FALSE
    OBVIOUS
  <2>1. PICK k \in T : \A j \in T : k <= j
    BY LeastNat
  <2>2. \A j \in Nat : w[j] = IF j = 0 THEN n ELSE IF w[j - 1] = null THEN null ELSE step[w[j - 1]]
    BY <1>5
  <2>3. k # 0
    BY <1>3, <2>1, <2>2
  <2>4. k - 1 \in Nat /\ ~(k <= k - 1) /\ (k - 1) + 1 = k
    BY <2>1, <2>3
  <2>5. w[k - 1] = f[k - 1]
    BY <2>1, <2>4
  <2> QED
    BY <1>3, <2>1, <2>2, <2>3, <2>4, <2>5
<1>6. Descend(n, step) = (CHOOSE w : Goes(w))[BstNodes]
  BY DEF Descend
<1> HIDE DEF Goes
<1>7. Goes(CHOOSE w : Goes(w))
  BY <1>4
<1>8. Descend(n, step) = f[BstNodes]
  BY <1>5, <1>6, <1>7, BstAssumption
<1> QED
  BY <1>2, <1>3, <1>8

-----------------------------------------------------------------------------
\* A child has fewer nodes below it.
LEMMA FewerBelow ==
  ASSUME NEW root, NEW link, NEW u, IsTree(root, link, u),
         NEW m \in u[root], NEW s \in Hands, link[s][m] # null
  PROVE  /\ link[s][m] \in u[root] /\ m \in u[m] /\ u[link[s][m]] \subseteq u[m]
         /\ m \notin u[link[s][m]] /\ link[s][m] \in u[link[s][m]]
         /\ IsFiniteSet(u[m]) /\ Cardinality(u[m]) \in Nat
         /\ Cardinality(u[link[s][m]]) \in Nat
         /\ Cardinality(u[link[s][m]]) < Cardinality(u[m])
<1> DEFINE c == link[s][m]
<1>0. root \in u[root] /\ root # null
  BY DEF IsTree, null
<1>1. Branches(link, u, m)
  BY DEF IsTree
<1>2. c \in u[m] /\ m \notin u[c] /\ m \in u[m] /\ u[c] \subseteq u[m]
  BY <1>1 DEF Branches, Hands, null
<1>3. u[m] \subseteq u[root]
  BY <1>0 DEF IsTree
<1>4. c \in u[root] /\ Branches(link, u, c)
  BY <1>2, <1>3 DEF IsTree
<1>5. c \in u[c]
  BY <1>4 DEF Branches
<1>6. u[m] \subseteq 1 .. BstNodes /\ IsFiniteSet(1 .. BstNodes)
  <2>1. u[m] \in SUBSET BstIds
    BY <1>3, <1>0 DEF IsTree, BstIds
  <2> QED
    BY <2>1, FS_Interval, BstAssumption DEF BstIds
<1>7. IsFiniteSet(u[m]) /\ IsFiniteSet(u[m] \ {m})
  BY <1>6, FS_Subset
<1>8. Cardinality(u[m]) \in Nat /\ Cardinality(u[m] \ {m}) = Cardinality(u[m]) - 1
  BY <1>2, <1>7, FS_RemoveElement, FS_CardinalityType
<1>9. u[c] \subseteq u[m] \ {m}
  BY <1>2
<1>10. IsFiniteSet(u[c]) /\ Cardinality(u[c]) <= Cardinality(u[m] \ {m})
  BY <1>7, <1>9, FS_Subset
<1>11. Cardinality(u[c]) \in Nat
  BY <1>10, FS_CardinalityType
<1> HIDE DEF c
<1>12. Cardinality(u[c]) < Cardinality(u[m])
  BY <1>8, <1>10, <1>11
<1> QED
  BY <1>2, <1>4, <1>5, <1>7, <1>8, <1>11, <1>12 DEF c

\* A walk by step stays in G, and goes from node to child or stays.
Walks(step, link, G) ==
  \A m \in G : m # null =>
    /\ step[m] \in G
    /\ step[m] = m \/ step[m] = null \/ \E s \in Hands : step[m] = link[s][m]

\* A walk that stays in G and goes from node to child ends within BstNodes
\* steps, at null or where it stays.
LEMMA WalkEnds ==
  ASSUME NEW root, NEW link, NEW u, IsTree(root, link, u),
         NEW step \in [BstIds -> 0 .. BstNodes],
         NEW G \in SUBSET (u[root] \cup {null}), NEW n \in G,
         Walks(step, link, G)
  PROVE  /\ Descend(n, step) \in G
         /\ Descend(n, step) # null => step[Descend(n, step)] = Descend(n, step)
<1> DEFINE N == BstNodes
<1>0. N \in Nat
  BY BstAssumption
<1>10. IsFiniteSet(1 .. N) /\ Cardinality(1 .. N) = N
  <2>1. PICK k \in Nat : k = N
    BY <1>0
  <2>2. IsFiniteSet(1 .. k) /\ Cardinality(1 .. k) = k
    BY FS_Interval
  <2> QED
    BY <2>1, <2>2
<1>1. u[root] \subseteq 1 .. N /\ n \in 0 .. N
  BY <1>0 DEF IsTree, BstIds, null
<1>2. PICK at \in [Nat -> 0 .. N] :
        /\ Descend(n, step) = at[N] /\ at[0] = n
        /\ \A k \in Nat : at[k + 1] = IF at[k] = null THEN null ELSE step[at[k]]
  BY <1>1, DescendIs
<1> DEFINE Good(k) == /\ at[k] \in G
                      /\ \/ at[k] = null
                         \/ step[at[k]] = at[k]
                         \/ Cardinality(u[at[k]]) + k <= N
           T == {k \in Nat : ~Good(k)}
<1>3. ASSUME NEW m \in u[root]
      PROVE  m \in u[m] /\ IsFiniteSet(u[m]) /\ Cardinality(u[m]) \in Nat /\ Cardinality(u[m]) <= N
             /\ Cardinality(u[m]) # 0
  <2>1. m \in u[m]
    BY DEF IsTree, Branches
  <2>2. u[m] \subseteq 1 .. N
    BY <1>1 DEF IsTree, BstIds, null
  <2> QED
    BY <1>10, <2>1, <2>2, FS_Subset, FS_CardinalityType, FS_EmptySet
<1>4. T = {}
  <2> SUFFICES ASSUME T # {} PROVE FALSE
    OBVIOUS
  <2>1. PICK k \in T : \A j \in T : k <= j
    BY LeastNat
  <2>2. k # 0
    <3>1. ASSUME k = 0 PROVE FALSE
      <4>1. CASE n = null
        BY <1>2, <2>1, <3>1, <4>1
      <4>2. CASE n # null
        <5>1. n \in u[root] /\ Cardinality(u[n]) + 0 <= N
          BY <1>0, <1>3, <4>2
        <5> QED
          BY <1>2, <2>1, <3>1, <5>1
      <4> QED
        BY <4>1, <4>2
    <3> QED
      BY <3>1
  <2>3. k \in Nat /\ k - 1 \in Nat /\ ~(k <= k - 1) /\ (k - 1) + 1 = k
    BY <2>1, <2>2
  <2> DEFINE m == at[k - 1]
  <2>4. Good(k - 1) /\ at[k] = IF m = null THEN null ELSE step[m]
    BY <1>2, <2>1, <2>3
  <2>5. CASE m = null
    BY <2>1, <2>4, <2>5
  <2>6. CASE m # null /\ step[m] = m
    BY <2>1, <2>4, <2>6
  <2>7. CASE m # null /\ step[m] # m /\ step[m] = null
    <3>1. null \in G
      BY <2>4, <2>7 DEF Walks
    <3> QED
      BY <2>1, <2>4, <2>7, <3>1
  <2>8. CASE m # null /\ step[m] # m /\ step[m] # null
    <3>1. m \in u[root] /\ step[m] \in G /\ \E s \in Hands : step[m] = link[s][m]
      BY <2>4, <2>8 DEF Walks
    <3>2. PICK s \in Hands : step[m] = link[s][m]
      BY <3>1
    <3>3. /\ Cardinality(u[link[s][m]]) \in Nat /\ Cardinality(u[m]) \in Nat
          /\ Cardinality(u[link[s][m]]) < Cardinality(u[m])
      BY <2>8, <3>1, <3>2, FewerBelow
    <3>4. Cardinality(u[m]) + (k - 1) <= N
      BY <2>4, <2>8
    <3>5. Cardinality(u[step[m]]) + k <= N
      BY <1>0, <2>3, <3>2, <3>3, <3>4
    <3> QED
      BY <2>1, <2>4, <2>8, <3>1, <3>5
  <2> QED
    BY <2>5, <2>6, <2>7, <2>8
<1>5. Good(N)
  BY <1>0, <1>4
<1>6. CASE at[N] = null
  BY <1>2, <1>5, <1>6
<1>7. CASE at[N] # null
  <2>1. at[N] \in u[root]
    BY <1>5, <1>7
  <2>2. ~(Cardinality(u[at[N]]) + N <= N)
    BY <1>0, <1>3, <2>1
  <2> QED
    BY <1>2, <1>5, <1>7, <2>2
<1> QED
  BY <1>6, <1>7

\* A node has one parent.
LEMMA OneParent ==
  ASSUME NEW root, NEW link, NEW u, IsTree(root, link, u),
         NEW a \in u[root], NEW b \in u[root], NEW s \in Hands, NEW t \in Hands,
         link[s][a] # null, link[s][a] = link[t][b]
  PROVE  a = b /\ s = t
<1> DEFINE y == link[s][a]
<1>1. /\ y \in u[root] /\ a \in u[a] /\ u[y] \subseteq u[a] /\ a \notin u[y] /\ y \in u[y]
      /\ b \in u[b] /\ u[y] \subseteq u[b] /\ b \notin u[y]
  BY FewerBelow
<1>2. a \in u[b] \/ b \in u[a]
  BY <1>1 DEF IsTree
<1>3. ASSUME NEW c \in u[root], NEW d \in u[root], NEW v \in Hands, y = link[v][d], d \notin u[y],
             c \notin u[y], y \in u[c], c \in u[d]
      PROVE  c = d
  <2> SUFFICES ASSUME c # d PROVE FALSE
    OBVIOUS
  <2>1. Branches(link, u, d)
    BY DEF IsTree
  <2>2. PICK w \in Hands : c \in u[link[w][d]]
    BY <1>3, <2>1 DEF Branches, Hands
  <2>3. w # v
    BY <1>3, <2>2
  <2>4. link[w][d] # null
    BY <2>2 DEF IsTree
  <2>5. link[w][d] \in u[root]
    BY <2>4, FewerBelow
  <2>6. y \in u[link[w][d]]
    BY <1>3, <2>2, <2>5 DEF IsTree
  <2>7. u[link[w][d]] \cap u[link[v][d]] = {}
    BY <2>1, <2>3 DEF Branches, Hands
  <2> QED
    BY <1>1, <1>3, <2>6, <2>7
<1>4. a = b
  BY <1>1, <1>2, <1>3
<1>5. s = t
  <2> SUFFICES ASSUME s # t PROVE FALSE
    OBVIOUS
  <2>1. u[link[s][a]] \cap u[link[t][a]] = {}
    BY DEF IsTree, Branches, Hands
  <2> QED
    BY <1>1, <1>4, <2>1
<1> QED
  BY <1>4, <1>5

\* Whoever has a child of m below it on one side, and is not m, has m there.
LEMMA ChildIsWhereItsParentIs ==
  ASSUME NEW root, NEW link, NEW u, IsTree(root, link, u),
         NEW m \in u[root], NEW t \in Hands, link[t][m] # null,
         NEW n \in u[root], n # m, NEW s \in Hands, link[t][m] \in u[link[s][n]]
  PROVE  m \in u[link[s][n]]
<1> DEFINE y == link[t][m]
           c == link[s][n]
<1>1. c # null
  BY DEF IsTree
<1>2. /\ c \in u[root] /\ c \in u[c]
      /\ y \in u[root] /\ y \in u[y] /\ y \in u[m] /\ m \notin u[y]
  BY <1>1, FewerBelow
<1>3. CASE m \in u[c]
  BY <1>3
<1>4. CASE m \notin u[c]
  <2>1. c \in u[m]
    BY <1>2, <1>4 DEF IsTree
  <2>2. Branches(link, u, m) /\ c # m
    BY <1>2, <1>4 DEF IsTree
  <2>3. PICK w \in Hands : c \in u[link[w][m]]
    BY <2>1, <2>2 DEF Branches, Hands
  <2>4. CASE w = t
    <3>1. c = y
      BY <1>2, <2>3, <2>4 DEF IsTree
    <3> QED
      BY <1>1, <3>1, OneParent
  <2>5. CASE w # t
    <3>1. u[link[w][m]] \cap u[y] = {}
      BY <2>2, <2>5 DEF Branches, Hands
    <3>2. link[w][m] # null
      BY <2>3 DEF IsTree
    <3>3. link[w][m] \in u[root]
      BY <3>2, FewerBelow
    <3>4. y \in u[link[w][m]]
      BY <1>2, <2>3, <3>3 DEF IsTree
    <3> QED
      BY <1>2, <3>1, <3>4
  <2> QED
    BY <2>4, <2>5
<1> QED
  BY <1>3, <1>4

\* What the invariant says of a node.
LEMMA NodeIs ==
  ASSUME bst \in Trees, NEW u, BstShape(u), NEW m \in u[bst.root]
  PROVE  /\ m \in BstIds /\ m # null /\ m \in u[m] /\ bst.key[m] \in BstKeys /\ bst.key[m] \in Nat
         /\ u[m] = {m} \cup u[bst.link["left"][m]] \cup u[bst.link["right"][m]]
         /\ u[m] \subseteq u[bst.root]
         /\ \A s \in Hands : /\ m \notin u[bst.link[s][m]] /\ bst.link[s][m] \in u[bst.root] \cup {null}
                             /\ bst.link[s][m] # null => bst.link[s][m] \in u[bst.link[s][m]]
                             /\ bst.link[s][m] # m
         /\ \A x \in u[bst.link["left"][m]] : bst.key[x] < bst.key[m]
         /\ \A x \in u[bst.link["right"][m]] : bst.key[x] >= bst.key[m]
<1>1. IsTree(bst.root, bst.link, u) /\ IsOrdered(bst.root, bst.link, bst.key, u)
  BY DEF BstShape
<1>2. m \in BstIds /\ m # null
  BY <1>1 DEF IsTree, BstIds, null
<1>3. Branches(bst.link, u, m) /\ m \in u[m] /\ u[m] \subseteq u[bst.root]
  <2>1. Branches(bst.link, u, m)
    BY <1>1 DEF IsTree
  <2>2. m \in u[m]
    BY <2>1 DEF Branches
  <2>3. bst.root \in u[bst.root]
    BY <1>1 DEF IsTree
  <2> QED
    BY <1>1, <2>1, <2>2, <2>3 DEF IsTree
<1>4. ASSUME NEW s \in Hands
      PROVE  /\ bst.link[s][m] \in u[bst.root] \cup {null} /\ m \notin u[bst.link[s][m]]
             /\ bst.link[s][m] # null => bst.link[s][m] \in u[bst.link[s][m]]
             /\ bst.link[s][m] # m
  <2>1. bst.link[s][m] \in u[m] \cup {null} /\ m \notin u[bst.link[s][m]]
    BY <1>3 DEF Branches
  <2>2. bst.link[s][m] # null => bst.link[s][m] \in u[bst.link[s][m]]
    BY <1>1, FewerBelow
  <2> QED
    BY <1>2, <1>3, <2>1, <2>2
<1>5. bst.key[m] \in BstKeys /\ bst.key[m] \in Nat
  BY <1>1, BstAssumption DEF IsOrdered
<1> QED
  BY <1>1, <1>2, <1>3, <1>4, <1>5 DEF Branches, IsOrdered

\* Links are functions on the nodes.
LEMMA LinkTypes ==
  ASSUME bst \in Trees
  PROVE  /\ bst.root \in 0 .. BstNodes
         /\ \A s \in Hands : bst.link[s] \in [BstIds -> 0 .. BstNodes]
         /\ bst.parent \in [BstIds -> 0 .. BstNodes] /\ bst.key \in [BstIds -> BstKeys \cup {0}]
         /\ "left" \in Hands /\ "right" \in Hands /\ \A s \in Hands : s = "left" \/ s = "right"
  BY DEF Trees, Hands

\* search finds the key, if it is there.
LEMMA SearchFinds ==
  ASSUME bst \in Trees, NEW u, BstShape(u), NEW key \in BstKeys
  PROVE  /\ bstSearch(bst.root, key) \in u[bst.root] \cup {null}
         /\ bstSearch(bst.root, key) # null => bst.key[bstSearch(bst.root, key)] = key
         /\ bstSearch(bst.root, key) = null => \A x \in u[bst.root] : bst.key[x] # key
<1> DEFINE step == [m \in BstIds |-> IF key > bst.key[m] THEN Link("right", m)
                                     ELSE IF key < bst.key[m] THEN Link("left", m) ELSE m]
           G == {m \in u[bst.root] \cup {null} : \A x \in u[bst.root] : bst.key[x] = key => x \in u[m]}
           Z == bstSearch(bst.root, key)
<1>0. key \in Nat
  BY BstAssumption
<1>1. IsTree(bst.root, bst.link, u)
  BY DEF BstShape
<1>2. step \in [BstIds -> 0 .. BstNodes]
  BY LinkTypes, BstAssumption DEF Link, BstIds
<1>3. \A m \in u[bst.root] : step[m] = IF key > bst.key[m] THEN bst.link["right"][m]
                                       ELSE IF key < bst.key[m] THEN bst.link["left"][m] ELSE m
  BY NodeIs DEF Link
<1>4. Z = Descend(bst.root, step)
  BY DEF bstSearch
<1> HIDE DEF step, Z
<1>5. bst.root \in G
  BY <1>1 DEF IsTree
<1>6. ASSUME NEW m \in G, m # null
      PROVE  /\ step[m] \in G
             /\ step[m] = m \/ step[m] = null \/ \E s \in Hands : step[m] = bst.link[s][m]
  <2>1. m \in u[bst.root]
    BY <1>6
  <2>2. step[m] = m \/ \E s \in Hands : step[m] = bst.link[s][m]
    BY <1>3, <2>1, LinkTypes
  <2>3. step[m] \in u[bst.root] \cup {null}
    BY <2>1, <2>2, NodeIs
  <2>4. ASSUME NEW x \in u[bst.root], bst.key[x] = key
        PROVE  x \in u[step[m]]
    <3>1. x \in u[m]
      BY <1>6, <2>4
    <3>2. bst.key[m] \in Nat
      BY <2>1, NodeIs
    <3>3. x = m \/ x \in u[bst.link["left"][m]] \/ x \in u[bst.link["right"][m]]
      BY <2>1, <3>1, NodeIs
    <3>4. x \in u[bst.link["left"][m]] => key < bst.key[m]
      BY <2>1, <2>4, NodeIs
    <3>5. x \in u[bst.link["right"][m]] => key >= bst.key[m]
      BY <2>1, <2>4, NodeIs
    <3>6. CASE key > bst.key[m]
      BY <1>0, <1>3, <2>1, <2>4, <3>2, <3>3, <3>4, <3>6
    <3>7. CASE key < bst.key[m]
      BY <1>0, <1>3, <2>1, <2>4, <3>2, <3>3, <3>5, <3>7
    <3>8. CASE key = bst.key[m]
      BY <1>0, <1>3, <2>1, <3>1, <3>2, <3>8
    <3> QED
      BY <1>0, <3>2, <3>6, <3>7, <3>8
  <2> QED
    BY <2>2, <2>3, <2>4
<1>7. Z \in G /\ (Z # null => step[Z] = Z)
  <2>1. G \in SUBSET (u[bst.root] \cup {null})
    OBVIOUS
  <2> HIDE DEF G
  <2>2. Walks(step, bst.link, G)
    BY <1>6 DEF Walks
  <2> QED
    BY <1>1, <1>2, <1>4, <1>5, <2>1, <2>2, WalkEnds
<1>8. ASSUME Z # null PROVE bst.key[Z] = key
  <2>1. Z \in u[bst.root]
    BY <1>7, <1>8
  <2>2. bst.key[Z] \in Nat /\ bst.link["left"][Z] # Z /\ bst.link["right"][Z] # Z
    BY <2>1, NodeIs, LinkTypes
  <2> QED
    BY <1>0, <1>3, <1>7, <1>8, <2>1, <2>2
<1>9. ASSUME Z = null, NEW x \in u[bst.root] PROVE bst.key[x] # key
  BY <1>1, <1>7, <1>9 DEF IsTree
<1> QED
  BY <1>7, <1>8, <1>9 DEF Z

\* Where insert hangs a new key: on every node above, it goes to the side it
\* would be looked for.
HangsWell(up, key, u) ==
  /\ up \in u[bst.root] /\ bst.link[Side(up, key)][up] = null
  /\ \A n \in u[bst.root], s \in Hands : up \in u[bst.link[s][n]] => s = Side(n, key)

\* insert ends its descent at such a node.
LEMMA AboveHangs ==
  ASSUME bst \in Trees, NEW u, BstShape(u), NEW key \in BstKeys, bst.root # null
  PROVE  HangsWell(Above(key), key, u)
<1> DEFINE step == [m \in BstIds |-> IF Link(Side(m, key), m) = null THEN m ELSE Link(Side(m, key), m)]
           G == {m \in u[bst.root] : \A n \in u[bst.root], s \in Hands :
                                       m \in u[bst.link[s][n]] => s = Side(n, key)}
<1>1. IsTree(bst.root, bst.link, u)
  BY DEF BstShape
<1>2. \A m \in BstIds : Side(m, key) \in Hands
  BY DEF Side, Hands
<1>3. step \in [BstIds -> 0 .. BstNodes]
  BY <1>2, LinkTypes, BstAssumption DEF Link, BstIds
<1>4. \A m \in u[bst.root] : /\ Side(m, key) \in Hands
                             /\ step[m] = IF bst.link[Side(m, key)][m] = null THEN m
                                          ELSE bst.link[Side(m, key)][m]
  BY <1>2, NodeIs DEF Link
<1>5. Above(key) = Descend(bst.root, step)
  BY DEF Above
<1> HIDE DEF step
<1>6. bst.root \in G
  <2>1. bst.root \in u[bst.root]
    BY <1>1 DEF IsTree
  <2>2. ASSUME NEW n \in u[bst.root], NEW s \in Hands, bst.root \in u[bst.link[s][n]]
        PROVE  FALSE
    <3>1. n \notin u[bst.link[s][n]] /\ u[bst.link[s][n]] \subseteq u[n]
      <4>1. n \notin u[bst.link[s][n]]
        BY NodeIs
      <4>2. u[n] = {n} \cup u[bst.link["left"][n]] \cup u[bst.link["right"][n]]
        BY NodeIs
      <4> QED
        BY <4>1, <4>2 DEF Hands
    <3>2. n = bst.root
      BY <1>1, <2>1, <2>2, <3>1 DEF IsTree
    <3> QED
      BY <2>2, <3>1, <3>2
  <2> QED
    BY <2>1, <2>2
<1>7. ASSUME NEW m \in G, m # null
      PROVE  /\ step[m] \in G
             /\ step[m] = m \/ step[m] = null \/ \E s \in Hands : step[m] = bst.link[s][m]
  <2>1. m \in u[bst.root]
    BY <1>7
  <2> DEFINE t == Side(m, key)
  <2>2. t \in Hands
    BY <1>4, <2>1
  <2>3. CASE bst.link[t][m] = null
    BY <1>4, <1>7, <2>1, <2>3
  <2>4. CASE bst.link[t][m] # null
    <3> DEFINE y == bst.link[t][m]
    <3>1. step[m] = y /\ y \in u[bst.root] /\ y \in u[y]
      BY <1>4, <2>1, <2>2, <2>4, NodeIs
    <3>2. ASSUME NEW n \in u[bst.root], NEW s \in Hands, y \in u[bst.link[s][n]]
          PROVE  s = Side(n, key)
      <4>1. CASE n = m
        <5>1. u[bst.link["left"][m]] \cap u[bst.link["right"][m]] = {}
          BY <1>1, <2>1 DEF IsTree, Branches
        <5> QED
          BY <2>2, <3>1, <3>2, <4>1, <5>1 DEF Hands
      <4>2. CASE n # m
        <5>1. m \in u[bst.link[s][n]]
          BY <1>1, <2>1, <2>2, <2>4, <3>2, <4>2, ChildIsWhereItsParentIs
        <5> QED
          BY <1>7, <5>1
      <4> QED
        BY <4>1, <4>2
    <3> QED
      BY <2>2, <3>1, <3>2
  <2> QED
    BY <2>3, <2>4
<1>8. Above(key) \in G /\ (Above(key) # null => step[Above(key)] = Above(key))
  <2>1. G \in SUBSET (u[bst.root] \cup {null})
    OBVIOUS
  <2> HIDE DEF G
  <2>2. Walks(step, bst.link, G)
    BY <1>7 DEF Walks
  <2> QED
    BY <1>1, <1>3, <1>5, <1>6, <2>1, <2>2, WalkEnds
<1>9. Above(key) \in u[bst.root] /\ Above(key) # null
  BY <1>8, NodeIs
<1>10. bst.link[Side(Above(key), key)][Above(key)] # Above(key)
  BY <1>4, <1>9, NodeIs
<1> QED
  BY <1>4, <1>8, <1>9, <1>10 DEF HangsWell

\* searchMin finds a least key below n; nothing hangs on its left.
MinFound(y, n, u) ==
  /\ y \in u[n] /\ bst.link["left"][y] = null
  /\ \A x \in u[n] : bst.key[x] >= bst.key[y]

\* searchMin returns it.
LEMMA MinIs ==
  ASSUME bst \in Trees, NEW u, BstShape(u), NEW n \in u[bst.root]
  PROVE  MinFound(searchMin(n), n, u)
<1> DEFINE step == [m \in BstIds |-> IF Link("left", m) = null THEN m ELSE Link("left", m)]
           G == {m \in u[n] : \A x \in u[n] : x \in u[m] \/ bst.key[x] >= bst.key[m]}
           y == searchMin(n)
<1>1. IsTree(bst.root, bst.link, u) /\ n \in u[n] /\ u[n] \subseteq u[bst.root]
  BY NodeIs DEF BstShape
<1>2. step \in [BstIds -> 0 .. BstNodes]
  BY LinkTypes, BstAssumption DEF Link, BstIds
<1>3. \A m \in u[bst.root] : step[m] = IF bst.link["left"][m] = null THEN m ELSE bst.link["left"][m]
  BY NodeIs DEF Link
<1>4. y = Descend(n, step)
  BY DEF searchMin
<1> HIDE DEF step, y
<1>5. n \in G
  BY <1>1
<1>6. ASSUME NEW m \in G, m # null
      PROVE  /\ step[m] \in G
             /\ step[m] = m \/ step[m] = null \/ \E s \in Hands : step[m] = bst.link[s][m]
  <2>1. m \in u[bst.root] /\ m \in u[n]
    BY <1>1
  <2>2. CASE bst.link["left"][m] = null
    BY <1>3, <1>6, <2>1, <2>2
  <2>3. CASE bst.link["left"][m] # null
    <3> DEFINE c == bst.link["left"][m]
    <3>5. "left" \in Hands
      BY LinkTypes
    <3>6. c \in u[c] /\ c \in u[bst.root]
      BY <2>1, <2>3, <3>5, NodeIs
    <3>1. step[m] = c /\ c \in u[c] /\ c \in u[bst.root]
      BY <1>3, <2>1, <2>3, <3>6
    <3>7. u[m] = {m} \cup u[bst.link["left"][m]] \cup u[bst.link["right"][m]]
      BY <2>1, NodeIs
    <3>8. c \in u[m]
      BY <3>1, <3>7
    <3>9. u[m] \subseteq u[n]
      BY <1>1, <2>1 DEF IsTree
    <3>2. c \in u[m] /\ u[m] \subseteq u[n]
      BY <3>8, <3>9
    <3>3. bst.key[m] >= bst.key[c] /\ bst.key[m] \in Nat /\ bst.key[c] \in Nat
      BY <2>1, <3>1, NodeIs
    <3>4. ASSUME NEW x \in u[n], x \notin u[c]
          PROVE  bst.key[x] >= bst.key[c]
      <4>1. bst.key[x] \in Nat
        BY <1>1, NodeIs
      <4>2. CASE x \in u[m]
        <5>1. x = m \/ x \in u[bst.link["right"][m]]
          BY <2>1, <3>4, <4>2, NodeIs
        <5>2. bst.key[x] >= bst.key[m]
          BY <2>1, <3>3, <4>1, <5>1, NodeIs
        <5> QED
          BY <3>3, <4>1, <5>2
      <4>3. CASE x \notin u[m]
        <5>1. bst.key[x] >= bst.key[m]
          BY <4>3
        <5> QED
          BY <3>3, <4>1, <5>1
      <4> QED
        BY <4>2, <4>3
    <3> QED
      BY <3>1, <3>2, <3>4, LinkTypes
  <2> QED
    BY <2>2, <2>3
<1>7. y \in G /\ (y # null => step[y] = y)
  <2>1. G \in SUBSET (u[bst.root] \cup {null})
    BY <1>1
  <2> HIDE DEF G
  <2>2. Walks(step, bst.link, G)
    BY <1>6 DEF Walks
  <2> QED
    BY <1>1, <1>2, <1>4, <1>5, <2>1, <2>2, WalkEnds
<1>8. y \in u[n] /\ y \in u[bst.root] /\ y # null
  BY <1>1, <1>7, NodeIs
<1>9. bst.link["left"][y] = null
  BY <1>3, <1>7, <1>8, NodeIs, LinkTypes
<1>10. ASSUME NEW x \in u[n]
       PROVE  bst.key[x] >= bst.key[y]
  <2>1. bst.key[x] \in Nat /\ bst.key[y] \in Nat
    BY <1>1, <1>8, NodeIs
  <2>2. CASE x \notin u[y]
    BY <1>7, <2>2
  <2>3. CASE x \in u[y]
    <3>1. u[null] = {}
      BY <1>1 DEF IsTree
    <3>2. x = y \/ x \in u[bst.link["right"][y]]
      BY <1>8, <1>9, <2>3, <3>1, NodeIs
    <3> QED
      BY <1>8, <2>1, <3>2, NodeIs
  <2> QED
    BY <2>2, <2>3
<1> QED
  BY <1>8, <1>9, <1>10 DEF MinFound, y

\* searchMax finds a greatest key below n; nothing hangs on its right.
MaxFound(y, n, u) ==
  /\ y \in u[n] /\ bst.link["right"][y] = null
  /\ \A x \in u[n] : bst.key[x] <= bst.key[y]

\* searchMax returns it.
LEMMA MaxIs ==
  ASSUME bst \in Trees, NEW u, BstShape(u), NEW n \in u[bst.root]
  PROVE  MaxFound(searchMax(n), n, u)
<1> DEFINE step == [m \in BstIds |-> IF Link("right", m) = null THEN m ELSE Link("right", m)]
           G == {m \in u[n] : \A x \in u[n] : x \in u[m] \/ bst.key[x] <= bst.key[m]}
           y == searchMax(n)
<1>1. IsTree(bst.root, bst.link, u) /\ n \in u[n] /\ u[n] \subseteq u[bst.root]
  BY NodeIs DEF BstShape
<1>2. step \in [BstIds -> 0 .. BstNodes]
  BY LinkTypes, BstAssumption DEF Link, BstIds
<1>3. \A m \in u[bst.root] : step[m] = IF bst.link["right"][m] = null THEN m ELSE bst.link["right"][m]
  BY NodeIs DEF Link
<1>4. y = Descend(n, step)
  BY DEF searchMax
<1> HIDE DEF step, y
<1>5. n \in G
  BY <1>1
<1>6. ASSUME NEW m \in G, m # null
      PROVE  /\ step[m] \in G
             /\ step[m] = m \/ step[m] = null \/ \E s \in Hands : step[m] = bst.link[s][m]
  <2>1. m \in u[bst.root] /\ m \in u[n]
    BY <1>1
  <2>2. CASE bst.link["right"][m] = null
    BY <1>3, <1>6, <2>1, <2>2
  <2>3. CASE bst.link["right"][m] # null
    <3> DEFINE c == bst.link["right"][m]
    <3>5. "right" \in Hands
      BY LinkTypes
    <3>6. c \in u[c] /\ c \in u[bst.root]
      BY <2>1, <2>3, <3>5, NodeIs
    <3>1. step[m] = c /\ c \in u[c] /\ c \in u[bst.root]
      BY <1>3, <2>1, <2>3, <3>6
    <3>7. u[m] = {m} \cup u[bst.link["left"][m]] \cup u[bst.link["right"][m]]
      BY <2>1, NodeIs
    <3>8. c \in u[m]
      BY <3>1, <3>7
    <3>9. u[m] \subseteq u[n]
      BY <1>1, <2>1 DEF IsTree
    <3>2. c \in u[m] /\ u[m] \subseteq u[n]
      BY <3>8, <3>9
    <3>3. bst.key[m] <= bst.key[c] /\ bst.key[m] \in Nat /\ bst.key[c] \in Nat
      BY <2>1, <3>1, NodeIs
    <3>4. ASSUME NEW x \in u[n], x \notin u[c]
          PROVE  bst.key[x] <= bst.key[c]
      <4>1. bst.key[x] \in Nat
        BY <1>1, NodeIs
      <4>2. CASE x \in u[m]
        <5>1. x = m \/ x \in u[bst.link["left"][m]]
          BY <2>1, <3>4, <4>2, NodeIs
        <5>2. bst.key[x] <= bst.key[m]
          BY <2>1, <3>3, <4>1, <5>1, NodeIs
        <5> QED
          BY <3>3, <4>1, <5>2
      <4>3. CASE x \notin u[m]
        <5>1. bst.key[x] <= bst.key[m]
          BY <4>3
        <5> QED
          BY <3>3, <4>1, <5>1
      <4> QED
        BY <4>2, <4>3
    <3> QED
      BY <3>1, <3>2, <3>4, LinkTypes
  <2> QED
    BY <2>2, <2>3
<1>7. y \in G /\ (y # null => step[y] = y)
  <2>1. G \in SUBSET (u[bst.root] \cup {null})
    BY <1>1
  <2> HIDE DEF G
  <2>2. Walks(step, bst.link, G)
    BY <1>6 DEF Walks
  <2> QED
    BY <1>1, <1>2, <1>4, <1>5, <2>1, <2>2, WalkEnds
<1>8. y \in u[n] /\ y \in u[bst.root] /\ y # null
  BY <1>1, <1>7, NodeIs
<1>9. bst.link["right"][y] = null
  BY <1>3, <1>7, <1>8, NodeIs, LinkTypes
<1>10. ASSUME NEW x \in u[n]
       PROVE  bst.key[x] <= bst.key[y]
  <2>1. bst.key[x] \in Nat /\ bst.key[y] \in Nat
    BY <1>1, <1>8, NodeIs
  <2>2. CASE x \notin u[y]
    BY <1>7, <2>2
  <2>3. CASE x \in u[y]
    <3>1. u[null] = {}
      BY <1>1 DEF IsTree
    <3>2. x = y \/ x \in u[bst.link["left"][y]]
      BY <1>8, <1>9, <2>3, <3>1, NodeIs
    <3> QED
      BY <1>8, <2>1, <3>2, NodeIs
  <2> QED
    BY <2>2, <2>3
<1> QED
  BY <1>8, <1>9, <1>10 DEF MaxFound, y

-----------------------------------------------------------------------------
\* The recursive definition of what is below a node gives what u says.
LEMMA UnderIs ==
  ASSUME bst \in Trees, NEW u, BstShape(u), NEW n \in u[bst.root] \cup {null}
  PROVE  Under[n] = u[n]
<1> DEFINE S == [0 .. BstNodes -> SUBSET BstIds]
           below(g) == [m \in 0 .. BstNodes |->
                          IF m = null THEN {} ELSE {m} \cup g[Link("left", m)] \cup g[Link("right", m)]]
           F == [g \in S |-> below(g)]
           nothing == [m \in 0 .. BstNodes |-> {}]
           Goes(w) == w = [k \in Nat |->
             [m \in 0 .. BstNodes |->
                IF m = null \/ k = 0 THEN {}
                ELSE {m} \cup w[k - 1][Link("left", m)] \cup w[k - 1][Link("right", m)]]]
<1>1. IsTree(bst.root, bst.link, u)
  BY DEF BstShape
<1>2. \A m \in 0 .. BstNodes : m # null => /\ m \in BstIds
                                           /\ Link("left", m) \in 0 .. BstNodes
                                           /\ Link("right", m) \in 0 .. BstNodes
  BY LinkTypes, BstAssumption DEF Link, BstIds, null
<1>3. F \in [S -> S]
  <2>1. ASSUME NEW g \in S PROVE below(g) \in S
    BY <1>2
  <2> QED
    BY <2>1
<1>4. nothing \in S
  OBVIOUS
<1> HIDE DEF F, nothing, S
<1>5. PICK f \in [Nat -> S] : Iteration(f, F, nothing)
  BY <1>3, <1>4, Iterates, Zenon
<1>6. Goes(f)
  <2>1. f[0] = nothing
    BY <1>5 DEF Iteration
  <2>2. ASSUME NEW k \in Nat, k # 0
        PROVE  f[k] = below(f[k - 1])
    <3>1. k - 1 \in Nat /\ (k - 1) + 1 = k
      BY <2>2
    <3>2. f[k] = F[f[k - 1]] /\ f[k - 1] \in S
      BY <1>5, <3>1 DEF Iteration
    <3> HIDE DEF below
    <3> QED
      BY <3>2 DEF F
  <2>3. ASSUME NEW k \in Nat
        PROVE  f[k] = [m \in 0 .. BstNodes |->
                         IF m = null \/ k = 0 THEN {}
                         ELSE {m} \cup f[k - 1][Link("left", m)] \cup f[k - 1][Link("right", m)]]
    <3>1. CASE k = 0
      BY <2>1, <3>1 DEF nothing
    <3>2. CASE k # 0
      BY <2>2, <3>2
    <3> QED
      BY <3>1, <3>2
  <2> QED
    BY <2>3
<1>7. Under = (CHOOSE w : Goes(w))[BstNodes]
  BY DEF Under
<1>8. PICK w : Goes(w) /\ Under = w[BstNodes]
  <2> HIDE DEF Goes
  <2> QED
    BY <1>6, <1>7
<1>9. \A k \in Nat, m \in 0 .. BstNodes :
        w[k][m] = IF m = null \/ k = 0 THEN {}
                  ELSE {m} \cup w[k - 1][Link("left", m)] \cup w[k - 1][Link("right", m)]
  <2>1. \A k \in Nat : w[k] = [m \in 0 .. BstNodes |->
             IF m = null \/ k = 0 THEN {}
             ELSE {m} \cup w[k - 1][Link("left", m)] \cup w[k - 1][Link("right", m)]]
    BY <1>8
  <2> QED
    BY <2>1
<1>13. \A k \in Nat : w[k][null] = u[null]
  <2>1. null \in 0 .. BstNodes /\ u[null] = {}
    BY <1>1, BstAssumption DEF IsTree, null
  <2> QED
    BY <1>9, <2>1
<1> HIDE DEF Goes
<1> DEFINE Wrong == {k \in Nat : \E m \in u[bst.root] : Cardinality(u[m]) <= k /\ w[k][m] # u[m]}
<1>10. Wrong = {}
  <2> SUFFICES ASSUME Wrong # {} PROVE FALSE
    OBVIOUS
  <2>1. PICK k \in Wrong : \A j \in Wrong : k <= j
    BY LeastNat
  <2>2. PICK m \in u[bst.root] : Cardinality(u[m]) <= k /\ w[k][m] # u[m]
    BY <2>1
  <2>3. m \in u[m] /\ m \in BstIds /\ m # null /\ m \in 0 .. BstNodes /\ u[m] \subseteq u[bst.root]
    BY NodeIs DEF BstIds
  <2>4. IsFiniteSet(u[m]) /\ Cardinality(u[m]) \in Nat /\ Cardinality(u[m]) # 0
    <3>1. u[bst.root] \in SUBSET BstIds
      BY <1>1 DEF IsTree
    <3>2. IsFiniteSet(BstIds)
      BY FS_Interval, BstAssumption DEF BstIds
    <3> QED
      BY <2>3, <3>1, <3>2, FS_Subset, FS_CardinalityType, FS_EmptySet
  <2>5. k \in Nat /\ k # 0 /\ k - 1 \in Nat /\ ~(k <= k - 1)
    BY <2>1, <2>2, <2>4
  <2>6. ASSUME NEW s \in Hands
        PROVE  w[k - 1][bst.link[s][m]] = u[bst.link[s][m]]
    <3>1. CASE bst.link[s][m] = null
      BY <1>13, <2>5, <3>1
    <3>2. CASE bst.link[s][m] # null
      <4>1. /\ bst.link[s][m] \in u[bst.root]
            /\ Cardinality(u[bst.link[s][m]]) \in Nat
            /\ Cardinality(u[bst.link[s][m]]) < Cardinality(u[m])
        BY <1>1, <2>2, <3>2, FewerBelow
      <4>2. Cardinality(u[bst.link[s][m]]) <= k - 1
        BY <2>2, <2>4, <2>5, <4>1
      <4> QED
        BY <2>1, <2>5, <4>1, <4>2
    <3> QED
      BY <3>1, <3>2
  <2>7. w[k][m] = {m} \cup w[k - 1][bst.link["left"][m]] \cup w[k - 1][bst.link["right"][m]]
    BY <1>9, <2>3, <2>5 DEF Link
  <2>8. u[m] = {m} \cup u[bst.link["left"][m]] \cup u[bst.link["right"][m]]
    BY NodeIs
  <2> QED
    BY <2>2, <2>6, <2>7, <2>8, LinkTypes
<1>11. CASE n = null
  BY <1>8, <1>11, <1>13, BstAssumption
<1>12. CASE n \in u[bst.root]
  <2>1. u[n] \subseteq 1 .. BstNodes
    BY <1>1, <1>12, NodeIs DEF IsTree, BstIds
  <2>2. Cardinality(u[n]) <= BstNodes
    <3>1. IsFiniteSet(1 .. BstNodes) /\ Cardinality(1 .. BstNodes) = BstNodes
      <4>1. BstNodes \in Nat
        BY BstAssumption
      <4> QED
        BY <4>1, FS_Interval
    <3> QED
      BY <2>1, <3>1, FS_Subset
  <2> QED
    BY <1>8, <1>10, <1>12, <2>2, BstAssumption
<1> QED
  BY <1>11, <1>12

\* The invariant says what the runs check.
LEMMA BstInvHolds == BstInv => SearchTreeHolds
<1> SUFFICES ASSUME BstInv PROVE SearchTreeHolds
  OBVIOUS
<1>1. BstTypeOK
  BY LinkTypes DEF BstInv, BstTypeOK, Hands
<1>2. CASE astray
  BY <1>1, <1>2 DEF BstInv, SearchTreeHolds
<1>3. CASE ~astray
  <2>1. bst \in Trees
    BY DEF BstInv
  <2>2. PICK u : BstShape(u)
    BY <1>3 DEF BstInv
  <2>3. IsTree(bst.root, bst.link, u) /\ KnowParents(bst.root, bst.link, bst.parent, u, doubled)
    BY <2>2 DEF BstShape
  <2>4. Under[bst.root] = u[bst.root]
    BY <2>1, <2>2, <2>3, UnderIs DEF IsTree
  <2>5. ASSUME NEW n \in u[bst.root], NEW s \in Hands
        PROVE  Under[Link(s, n)] = u[bst.link[s][n]]
    BY <2>1, <2>2, UnderIs, NodeIs DEF Link
  <2>6. ASSUME NEW k \in BstKeys
        PROVE  /\ Cardinality({n \in u[bst.root] : bst.key[n] = k}) = held[k]
               /\ bstSearch(bst.root, k) # null <=> held[k] > 0
    <3>1. Cardinality(Holding(bst.root, bst.key, u, k)) = held[k]
      BY <2>2 DEF BstShape
    <3> DEFINE H == Holding(bst.root, bst.key, u, k)
    <3>2. IsFiniteSet(H) /\ Cardinality(H) \in Nat /\ (Cardinality(H) = 0 <=> H = {})
      <4>1. H \subseteq BstIds
        BY <2>1, <2>2, NodeIs DEF Holding
      <4>2. IsFiniteSet(BstIds)
        BY FS_Interval, BstAssumption DEF BstIds
      <4> QED
        BY <4>1, <4>2, FS_Subset, FS_CardinalityType, FS_EmptySet
    <3>3. held[k] > 0 <=> H # {}
      BY <3>1, <3>2
    <3>4. CASE bstSearch(bst.root, k) = null
      <4>1. H = {}
        BY <2>1, <2>2, <3>4, SearchFinds DEF Holding
      <4> QED
        BY <3>1, <3>3, <3>4, <4>1 DEF Holding
    <3>5. CASE bstSearch(bst.root, k) # null
      <4>1. bstSearch(bst.root, k) \in H
        BY <2>1, <2>2, <3>5, SearchFinds DEF Holding
      <4> QED
        BY <3>1, <3>3, <3>5, <4>1 DEF Holding
    <3> QED
      BY <3>4, <3>5
  <2>7. ASSUME NEW n \in u[bst.root]
        PROVE  /\ \A m \in Under[Link("left", n)] : bst.key[m] < bst.key[n]
               /\ \A m \in Under[Link("right", n)] : bst.key[m] >= bst.key[n]
               /\ bst.key[searchMin(bst.root)] <= bst.key[n]
               /\ bst.key[searchMax(bst.root)] >= bst.key[n]
    <3>1. bst.root \in u[bst.root]
      BY <2>3 DEF IsTree
    <3>2. MinFound(searchMin(bst.root), bst.root, u) /\ MaxFound(searchMax(bst.root), bst.root, u)
      BY <2>1, <2>2, <3>1, MinIs, MaxIs
    <3>3. /\ bst.key[n] \in Nat /\ bst.key[searchMin(bst.root)] \in Nat
          /\ bst.key[searchMax(bst.root)] \in Nat
      BY <2>1, <2>2, <3>2, NodeIs DEF MinFound, MaxFound
    <3>4. /\ bst.key[searchMin(bst.root)] <= bst.key[n]
          /\ bst.key[searchMax(bst.root)] >= bst.key[n]
      BY <3>2, <3>3 DEF MinFound, MaxFound
    <3> QED
      BY <2>1, <2>2, <2>5, <3>4, NodeIs DEF Hands
  <2>8. ASSUME NEW n \in u[bst.root], NEW s \in Hands, Link(s, n) # null
        PROVE  bst.parent[Link(s, n)] \in IF doubled THEN {n, null} ELSE {n}
    BY <2>3, <2>8 DEF KnowParents, Link
  <2> QED
    BY <1>1, <1>3, <2>4, <2>6, <2>7, <2>8 DEF SearchTreeHolds, Hands
<1> QED
  BY <1>2, <1>3

-----------------------------------------------------------------------------
\* A leaf p below up.
Grown(u, v, up, p) ==
  /\ v \in [0 .. BstNodes -> SUBSET BstIds] /\ v[p] = {p}
  /\ \A n \in 0 .. BstNodes : n # p => v[n] = IF up \in u[n] THEN u[n] \cup {p} ELSE u[n]

Linked(link, after, s, up, p) ==
  /\ \A h \in Hands : after[h][p] = null
  /\ after[s][up] = p
  /\ \A h \in Hands, n \in BstIds : n # p /\ (h # s \/ n # up) => after[h][n] = link[h][n]

\* What is below node n and its children then.
GrownAt(root, link, after, u, v, s, up, p, n) ==
  /\ n # p /\ n # null /\ n \in 0 .. BstNodes /\ n \in BstIds /\ u[n] \subseteq u[root] /\ p \notin u[n]
  /\ \A x : x \in v[n] <=> x \in u[n] \/ (x = p /\ up \in u[n])
  /\ \A h \in Hands : \A x : x \in v[after[h][n]] <=>
       x \in u[link[h][n]] \/ (x = p /\ (up \in u[link[h][n]] \/ (h = s /\ n = up)))

\* What is below the nodes of the tree with the new leaf.
LEMMA GrownBelow ==
  ASSUME NEW root, NEW link, NEW u, IsTree(root, link, u), root # null,
         NEW p \in BstIds, p \notin u[root], NEW up \in u[root], NEW s \in Hands, link[s][up] = null,
         NEW v, Grown(u, v, up, p), NEW after, Linked(link, after, s, up, p)
  PROVE  /\ v[null] = {} /\ v[root] = u[root] \cup {p}
         /\ \A n \in u[root] : GrownAt(root, link, after, u, v, s, up, p, n)
<1>1. u[null] = {} /\ root \in u[root] /\ root \in 0 .. BstNodes /\ null \in 0 .. BstNodes
      /\ p # null /\ u[root] \subseteq BstIds /\ BstIds \subseteq 0 .. BstNodes /\ null \notin BstIds
  BY BstAssumption DEF IsTree, BstIds, null
<1>2. v[null] = {}
  BY <1>1 DEF Grown
<1>3. v[root] = u[root] \cup {p}
  BY <1>1 DEF Grown
<1>4. ASSUME NEW n \in u[root]
      PROVE  GrownAt(root, link, after, u, v, s, up, p, n)
  <2>1. n # p /\ n # null /\ n \in 0 .. BstNodes /\ n \in BstIds
    BY <1>1
  <2>2. u[n] \subseteq u[root]
    BY <1>1 DEF IsTree
  <2>3. v[n] = IF up \in u[n] THEN u[n] \cup {p} ELSE u[n]
    BY <2>1 DEF Grown
  <2>4. ASSUME NEW h \in Hands
        PROVE  v[after[h][n]] = IF up \in u[link[h][n]] \/ (h = s /\ n = up)
                                THEN u[link[h][n]] \cup {p} ELSE u[link[h][n]]
    <3>1. CASE h = s /\ n = up
      BY <1>1, <2>1, <3>1 DEF Linked, Grown
    <3>2. CASE ~(h = s /\ n = up)
      <4>1. after[h][n] = link[h][n]
        BY <2>1, <3>2 DEF Linked
      <4>2. link[h][n] \in u[n] \cup {null}
        BY DEF IsTree, Branches
      <4>3. link[h][n] \in 0 .. BstNodes /\ link[h][n] # p
        BY <1>1, <2>2, <4>2
      <4> QED
        BY <3>2, <4>1, <4>3 DEF Grown
    <3> QED
      BY <3>1, <3>2
  <2>5. ASSUME NEW x
        PROVE  x \in v[n] <=> x \in u[n] \/ (x = p /\ up \in u[n])
    BY <2>3
  <2>6. ASSUME NEW h \in Hands, NEW x
        PROVE  x \in v[after[h][n]] <=>
                 x \in u[link[h][n]] \/ (x = p /\ (up \in u[link[h][n]] \/ (h = s /\ n = up)))
    BY <2>4
  <2> QED
    BY <2>1, <2>2, <2>5, <2>6 DEF GrownAt
<1> QED
  BY <1>2, <1>3, <1>4

\* It is a tree again.
LEMMA GrownTree ==
  ASSUME NEW root, NEW link, NEW u, IsTree(root, link, u), root # null,
         NEW p \in BstIds, p \notin u[root], NEW up \in u[root], NEW s \in Hands, link[s][up] = null,
         NEW v, Grown(u, v, up, p), NEW after, Linked(link, after, s, up, p)
  PROVE  IsTree(root, after, v)
<1>1. u[null] = {} /\ root \in u[root] /\ root \in 0 .. BstNodes /\ p # null
  BY BstAssumption DEF IsTree, BstIds, null
<1>2. v[null] = {} /\ v[root] = u[root] \cup {p} /\ v[p] = {p}
  <2>1. v[null] = {} /\ v[root] = u[root] \cup {p}
    BY GrownBelow
  <2>2. v[p] = {p}
    BY DEF Grown
  <2> QED
    BY <2>1, <2>2
<1>20. \A n \in u[root] : GrownAt(root, link, after, u, v, s, up, p, n)
  BY GrownBelow
<1>21. \A n \in u[root] : n # p /\ n # null /\ n \in BstIds /\ u[n] \subseteq u[root] /\ p \notin u[n]
  BY <1>20 DEF GrownAt
<1>22. \A n \in u[root] : \A x : x # p => (x \in v[n] <=> x \in u[n])
  BY <1>20 DEF GrownAt
<1>23. \A n \in u[root] : p \in v[n] <=> up \in u[n]
  BY <1>20 DEF GrownAt
<1>24. \A n \in u[root], h \in Hands : after[h][n] = IF h = s /\ n = up THEN p ELSE link[h][n]
  BY <1>21 DEF Linked
<1>4. \A n \in u[root] : Branches(link, u, n) /\ n \in u[n]
  BY DEF IsTree, Branches
<1>5. \A n \in u[root] : n \in v[n]
  BY <1>21, <1>22, <1>4
<1>6. ASSUME NEW n \in u[root]
      PROVE  Branches(after, v, n)
  <2>1. Branches(link, u, n)
    BY <1>4
  <2>2. \A h \in Hands : u[link[h][n]] \subseteq u[n] /\ n \notin u[link[h][n]]
    BY <2>1 DEF Branches, Hands
  <2>3. ASSUME NEW h \in Hands
        PROVE  after[h][n] \in v[n] \cup {null}
    <3>1. link[h][n] \in u[n] \cup {null}
      BY <2>1 DEF Branches
    <3>2. CASE h = s /\ n = up
      BY <1>4, <1>23, <1>24, <3>2
    <3>3. CASE ~(h = s /\ n = up)
      BY <1>21, <1>22, <1>24, <3>1, <3>3
    <3> QED
      BY <3>2, <3>3
  <2>4. ASSUME NEW h \in Hands, NEW x
        PROVE  x \in v[after[h][n]] <=>
                 x \in u[link[h][n]] \/ (x = p /\ (up \in u[link[h][n]] \/ (h = s /\ n = up)))
    BY <1>20 DEF GrownAt
  <2>5. up \in u[n] <=> n = up \/ up \in u[link["left"][n]] \/ up \in u[link["right"][n]]
    BY <2>1 DEF Branches
  <2>6. n = up => up \notin u[link["left"][n]] /\ up \notin u[link["right"][n]]
    BY <2>2 DEF Hands
  <2>7. u[link["left"][n]] \cap u[link["right"][n]] = {}
        /\ u[n] = {n} \cup u[link["left"][n]] \cup u[link["right"][n]]
    BY <2>1 DEF Branches
  <2>8. p \notin u[link["left"][n]] /\ p \notin u[link["right"][n]] /\ "left" \in Hands /\ "right" \in Hands
        /\ (s = "left" \/ s = "right") /\ n # p
    BY <1>21, <2>2 DEF Hands
  <2>9. v[after["left"][n]] \cap v[after["right"][n]] = {}
    <3> SUFFICES ASSUME NEW x, x \in v[after["left"][n]], x \in v[after["right"][n]] PROVE FALSE
      OBVIOUS
    <3>1. x \in u[link["left"][n]] \/ (x = p /\ (up \in u[link["left"][n]] \/ ("left" = s /\ n = up)))
      BY <2>4, <2>8
    <3>2. x \in u[link["right"][n]] \/ (x = p /\ (up \in u[link["right"][n]] \/ ("right" = s /\ n = up)))
      BY <2>4, <2>8
    <3> QED
      BY <2>6, <2>7, <2>8, <3>1, <3>2
  <2>10. v[n] = {n} \cup v[after["left"][n]] \cup v[after["right"][n]]
    <3>1. ASSUME NEW x
          PROVE  x \in v[n] <=> x = n \/ x \in v[after["left"][n]] \/ x \in v[after["right"][n]]
      <4>1. /\ x \in v[after["left"][n]] <=> x \in u[link["left"][n]]
                  \/ (x = p /\ (up \in u[link["left"][n]] \/ ("left" = s /\ n = up)))
            /\ x \in v[after["right"][n]] <=> x \in u[link["right"][n]]
                  \/ (x = p /\ (up \in u[link["right"][n]] \/ ("right" = s /\ n = up)))
        BY <2>4, <2>8
      <4>2. CASE x = p
        <5>1. x \in v[n] <=> up \in u[n]
          BY <1>23, <4>2
        <5> QED
          BY <2>5, <2>8, <4>1, <4>2, <5>1
      <4>3. CASE x # p
        <5>1. x \in v[n] <=> x \in u[n]
          BY <1>22, <4>3
        <5> QED
          BY <2>7, <4>1, <4>3, <5>1
      <4> QED
        BY <4>2, <4>3
    <3> QED
      BY <3>1
  <2>11. \A h \in Hands : n \notin v[after[h][n]]
    BY <2>2, <2>4, <2>8
  <2> QED
    BY <2>3, <2>9, <2>10, <2>11 DEF Branches
<1>7. Branches(after, v, p)
  BY <1>1, <1>2 DEF Branches, Linked, Hands
<1>8. ASSUME NEW a \in v[root], NEW b \in v[root], a \in v[b]
      PROVE  v[a] \subseteq v[b]
  <2>1. CASE b = p
    BY <1>2, <1>8, <2>1
  <2>2. CASE b # p /\ a = p
    BY <1>2, <1>8, <2>2
  <2>3. CASE b # p /\ a # p
    <3>1. a \in u[root] /\ b \in u[root] /\ a \in u[b]
      BY <1>2, <1>22, <1>8, <2>3
    <3>2. u[a] \subseteq u[b]
      BY <3>1 DEF IsTree
    <3>3. ASSUME NEW x \in v[a] PROVE x \in v[b]
      BY <1>22, <1>23, <3>1, <3>2, <3>3
    <3> QED
      BY <3>3
  <2> QED
    BY <2>1, <2>2, <2>3
<1>9. ASSUME NEW a \in v[root], NEW b \in v[root], a \in v[b], b \in v[a]
      PROVE  a = b
  <2>1. CASE a = p \/ b = p
    BY <1>2, <1>9, <2>1
  <2>2. CASE a # p /\ b # p
    <3>1. a \in u[root] /\ b \in u[root] /\ a \in u[b] /\ b \in u[a]
      BY <1>2, <1>22, <1>9, <2>2
    <3> QED
      BY <3>1 DEF IsTree
  <2> QED
    BY <2>1, <2>2
<1>10. ASSUME NEW a \in v[root], NEW b \in v[root], NEW x \in v[root], x \in v[a], x \in v[b]
       PROVE  a \in v[b] \/ b \in v[a]
  <2>1. CASE a = p \/ b = p
    BY <1>2, <1>10, <2>1
  <2>2. CASE a # p /\ b # p
    <3>1. a \in u[root] /\ b \in u[root]
      BY <1>2, <2>2
    <3> DEFINE y == IF x = p THEN up ELSE x
    <3>2. y \in u[root] /\ y \in u[a] /\ y \in u[b]
      <4>1. CASE x = p
        BY <1>23, <1>10, <3>1, <4>1
      <4>2. CASE x # p
        BY <1>2, <1>22, <1>10, <3>1, <4>2
      <4> QED
        BY <4>1, <4>2
    <3>3. a \in u[b] \/ b \in u[a]
      BY <3>1, <3>2 DEF IsTree
    <3> QED
      BY <1>21, <1>22, <3>1, <3>3
  <2> QED
    BY <2>1, <2>2
<1>11. ASSUME NEW y \in v[root], y # root
       PROVE  \E n \in v[root], h \in Hands : after[h][n] = y
  <2>1. CASE y = p
    BY <1>2, <2>1 DEF Linked
  <2>2. CASE y # p
    <3>1. y \in u[root]
      BY <1>2, <2>2
    <3>2. PICK n \in u[root], h \in Hands : link[h][n] = y
      BY <1>11, <3>1 DEF IsTree
    <3>3. ~(h = s /\ n = up)
      BY <1>21, <3>1, <3>2
    <3>4. after[h][n] = y
      BY <1>24, <3>2, <3>3
    <3> QED
      BY <1>2, <3>2, <3>4
  <2> QED
    BY <2>1, <2>2
<1>12. v \in [0 .. BstNodes -> SUBSET BstIds]
  BY DEF Grown
<1>13. \A n \in v[root] : Branches(after, v, n)
  BY <1>2, <1>6, <1>7
<1> QED
  BY <1>1, <1>2, <1>8, <1>9, <1>10, <1>11, <1>12, <1>13 DEF IsTree

-----------------------------------------------------------------------------
\* What insert does to an empty tree.
LEMMA InsertFirst ==
  ASSUME bst \in Trees, bstMade \in 0 .. BstNodes, NEW key \in BstKeys, insertKey(key),
         bst.root = null, NEW p, p = bstMade + 1
  PROVE  /\ p \in BstIds /\ bst' \in Trees /\ bstMade' = p /\ bst'.root = p
         /\ bst'.link = bst.link /\ bst'.parent = bst.parent
         /\ \A n \in BstIds : bst'.key[n] = IF n = p THEN key ELSE bst.key[n]
<1>1. p \in BstIds /\ p \in 0 .. BstNodes
  BY BstAssumption DEF insertKey, BstIds
<1>2. bst' = [bst EXCEPT !.root = p, !.key[p] = key] /\ bstMade' = p
  BY DEF insertKey
<1>3. bst' \in Trees
  BY <1>1, <1>2 DEF Trees
<1>4. bst'.root = p /\ bst'.link = bst.link /\ bst'.parent = bst.parent
      /\ bst'.key = [bst.key EXCEPT ![p] = key]
  BY <1>2 DEF Trees
<1> QED
  BY <1>1, <1>2, <1>3, <1>4, LinkTypes

\* What it does to another, where up is the node it hangs the key below.
LEMMA InsertBelow ==
  ASSUME bst \in Trees, bstMade \in 0 .. BstNodes, NEW key \in BstKeys, insertKey(key),
         bst.root # null, NEW p, p = bstMade + 1, NEW up \in BstIds, up = Above(key),
         NEW s \in Hands, s = Side(up, key)
  PROVE  /\ p \in BstIds /\ bst' \in Trees /\ bstMade' = p /\ bst'.root = bst.root
         /\ \A h \in Hands, n \in BstIds :
              bst'.link[h][n] = IF h = s /\ n = up THEN p ELSE bst.link[h][n]
         /\ \A n \in BstIds :
              /\ bst'.key[n] = IF n = p THEN key ELSE bst.key[n]
              /\ bst'.parent[n] = IF n # p THEN bst.parent[n]
                                  ELSE IF bst.key[up] # key THEN up ELSE null
<1> DEFINE q == IF bst.key[up] # key THEN up ELSE null
<1>1. p \in BstIds /\ p \in 0 .. BstNodes /\ q \in 0 .. BstNodes
  BY BstAssumption DEF insertKey, BstIds, null
<1>2. bst' = [bst EXCEPT !.key[p] = key, !.link[s][up] = p, !.parent[p] = q] /\ bstMade' = p
  BY DEF insertKey
<1> HIDE DEF q
<1>3. /\ bst'.root = bst.root
      /\ bst'.key = [bst.key EXCEPT ![p] = key]
      /\ bst'.link = [bst.link EXCEPT ![s][up] = p]
      /\ bst'.parent = [bst.parent EXCEPT ![p] = q]
  BY <1>2 DEF Trees
<1>4. \A h \in Hands, n \in BstIds :
        bst'.link[h][n] = IF h = s /\ n = up THEN p ELSE bst.link[h][n]
  BY <1>3 DEF Trees
<1>5. bst' \in Trees
  <2>1. bst'.link \in [Hands -> [BstIds -> 0 .. BstNodes]]
    BY <1>1, <1>3 DEF Trees
  <2>2. bst'.key \in [BstIds -> BstKeys \cup {0}] /\ bst'.parent \in [BstIds -> 0 .. BstNodes]
    BY <1>1, <1>3 DEF Trees
  <2>3. bst' = [root |-> bst'.root, link |-> bst'.link, parent |-> bst'.parent, key |-> bst'.key]
    BY <1>2 DEF Trees
  <2> QED
    BY <1>3, <2>1, <2>2, <2>3, LinkTypes DEF Trees
<1> QED
  BY <1>1, <1>2, <1>3, <1>4, <1>5, LinkTypes DEF q

\* Sets of nodes are finite.
LEMMA HoldingFinite ==
  ASSUME bst \in Trees, NEW u, BstShape(u), NEW k
  PROVE  /\ IsFiniteSet(Holding(bst.root, bst.key, u, k))
         /\ Cardinality(Holding(bst.root, bst.key, u, k)) \in Nat
<1>1. Holding(bst.root, bst.key, u, k) \subseteq BstIds
  BY NodeIs DEF Holding
<1>2. IsFiniteSet(BstIds)
  BY FS_Interval, BstAssumption DEF BstIds
<1> QED
  BY <1>1, <1>2, FS_Subset, FS_CardinalityType

\* insert into an empty tree keeps the invariant.
LEMMA InsertFirstKeeps ==
  ASSUME BstInv, NEW key \in BstKeys, insertKey(key), bst.root = null
  PROVE  BstInv'
<1>1. PICK p : p = bstMade + 1
  OBVIOUS
<1>2. bst \in Trees /\ bstMade \in 0 .. BstNodes /\ ~astray
  BY DEF BstInv, insertKey
<1>3. PICK u : BstShape(u)
  BY <1>2 DEF BstInv
<1>4. PICK v : v = [n \in 0 .. BstNodes |-> IF n = p THEN {p} ELSE {}]
  OBVIOUS
<1>5. /\ p \in BstIds /\ bst' \in Trees /\ bstMade' = p /\ bst'.root = p
      /\ bst'.link = bst.link /\ bst'.parent = bst.parent
      /\ \A n \in BstIds : bst'.key[n] = IF n = p THEN key ELSE bst.key[n]
  BY <1>1, <1>2, InsertFirst
<1>6. /\ \A n \in BstIds : n >= p => Untouched(bst, n)
      /\ \A k \in BstKeys : Cardinality(Holding(bst.root, bst.key, u, k)) = held[k]
  BY <1>1, <1>2, <1>3 DEF BstShape, BstIds
<1>7. /\ v[null] = {} /\ v[p] = {p} /\ p # null /\ p \in 0 .. BstNodes
      /\ v \in [0 .. BstNodes -> SUBSET BstIds]
  BY <1>4, <1>5, BstAssumption DEF BstIds, null
<1>8. \A h \in Hands : bst'.link[h][p] = null
  <2>1. p >= p
    BY <1>5 DEF BstIds
  <2> QED
    BY <1>5, <1>6, <2>1 DEF Untouched
<1>9. IsTree(bst'.root, bst'.link, v)
  <2>1. Branches(bst'.link, v, p)
    BY <1>7, <1>8 DEF Branches, Hands
  <2> QED
    BY <1>5, <1>7, <2>1 DEF IsTree
<1>10. IsOrdered(bst'.root, bst'.link, bst'.key, v)
  BY <1>5, <1>7, <1>8 DEF IsOrdered, Hands
<1>11. KnowParents(bst'.root, bst'.link, bst'.parent, v, doubled')
  <2>1. bst.parent[p] = null
    <3>1. p >= p
      BY <1>5 DEF BstIds
    <3> QED
      BY <1>5, <1>6, <3>1 DEF Untouched
  <2> QED
    BY <1>5, <1>7, <1>8, <2>1 DEF KnowParents
<1>12. v[bst'.root] \subseteq 1 .. bstMade'
  BY <1>2, <1>5, <1>7 DEF BstIds
<1>13. \A n \in BstIds : n > bstMade' => Untouched(bst', n)
  <2> SUFFICES ASSUME NEW n \in BstIds, n > bstMade' PROVE Untouched(bst', n)
    OBVIOUS
  <2>1. n >= p
    BY <1>5 DEF BstIds
  <2> QED
    BY <1>5, <1>6, <2>1 DEF Untouched
<1>14. ASSUME NEW k \in BstKeys
       PROVE  Cardinality(Holding(bst'.root, bst'.key, v, k)) = held'[k]
  <2>1. held[k] = 0
    <3>1. Holding(bst.root, bst.key, u, k) = {}
      BY <1>3 DEF BstShape, IsTree, Holding
    <3> QED
      BY <1>6, <3>1, FS_EmptySet
  <2>2. held'[k] = IF k = key THEN 1 ELSE 0
    BY <2>1 DEF insertKey, BstInv
  <2>3. CASE k = key
    <3>1. Holding(bst'.root, bst'.key, v, k) = {p}
      BY <1>5, <1>7, <2>3 DEF Holding
    <3> QED
      BY <2>2, <2>3, <3>1, FS_Singleton
  <2>4. CASE k # key
    <3>1. Holding(bst'.root, bst'.key, v, k) = {}
      BY <1>5, <1>7, <2>4 DEF Holding
    <3> QED
      BY <2>2, <2>4, <3>1, FS_EmptySet
  <2> QED
    BY <2>3, <2>4
<1>15. BstShape(v)'
  BY <1>9, <1>10, <1>11, <1>12, <1>13, <1>14 DEF BstShape
<1>16. held' \in [BstKeys -> Int] /\ doubled' \in BOOLEAN /\ astray' = FALSE /\ bstMade' \in 0 .. BstNodes
  BY <1>2, <1>5, <1>7 DEF BstInv, insertKey
<1> QED
  BY <1>5, <1>15, <1>16 DEF BstInv

\* So does insert into another.
LEMMA InsertBelowKeeps ==
  ASSUME BstInv, NEW key \in BstKeys, insertKey(key), bst.root # null
  PROVE  BstInv'
<1>1. PICK p : p = bstMade + 1
  OBVIOUS
<1>2. bst \in Trees /\ bstMade \in 0 .. BstNodes /\ ~astray
  BY DEF BstInv, insertKey
<1>3. PICK u : BstShape(u)
  BY <1>2 DEF BstInv
<1>4. PICK up : up = Above(key)
  OBVIOUS
<1>5. HangsWell(up, key, u)
  BY <1>2, <1>3, <1>4, AboveHangs
<1>6. PICK s \in Hands : s = Side(up, key)
  BY DEF Side, Hands
<1>7. up \in u[bst.root] /\ bst.link[s][up] = null /\ up \in BstIds
  BY <1>2, <1>3, <1>5, <1>6, NodeIs DEF HangsWell
<1>8. /\ p \in BstIds /\ bst' \in Trees /\ bstMade' = p /\ bst'.root = bst.root
      /\ \A h \in Hands, n \in BstIds :
           bst'.link[h][n] = IF h = s /\ n = up THEN p ELSE bst.link[h][n]
      /\ \A n \in BstIds :
           /\ bst'.key[n] = IF n = p THEN key ELSE bst.key[n]
           /\ bst'.parent[n] = IF n # p THEN bst.parent[n]
                               ELSE IF bst.key[up] # key THEN up ELSE null
  BY <1>1, <1>2, <1>4, <1>6, <1>7, InsertBelow
<1>9. /\ IsTree(bst.root, bst.link, u)
      /\ KnowParents(bst.root, bst.link, bst.parent, u, doubled)
      /\ u[bst.root] \subseteq 1 .. bstMade
      /\ \A n \in BstIds : n >= p => Untouched(bst, n)
      /\ \A k \in BstKeys : Cardinality(Holding(bst.root, bst.key, u, k)) = held[k]
  BY <1>1, <1>2, <1>3 DEF BstShape, BstIds
<1>10. p \notin u[bst.root] /\ p # up /\ Untouched(bst, p) /\ u[bst.root] \subseteq BstIds
       /\ p # null
  <2>1. p >= p /\ p \notin 1 .. bstMade /\ p # null
    BY <1>1, <1>2, <1>8 DEF BstIds, null
  <2> QED
    BY <1>2, <1>3, <1>7, <1>8, <1>9, <2>1, NodeIs
<1>11. PICK v : v = [n \in 0 .. BstNodes |-> IF n = p THEN {p}
                                            ELSE IF up \in u[n] THEN u[n] \cup {p} ELSE u[n]]
  OBVIOUS
<1>12. Grown(u, v, up, p)
  <2>1. p \in 0 .. BstNodes /\ u \in [0 .. BstNodes -> SUBSET BstIds]
    BY <1>8, <1>9 DEF BstIds, IsTree
  <2> QED
    BY <1>8, <1>11, <2>1 DEF Grown
<1>13. PICK after : after = bst'.link
  OBVIOUS
<1>14. Linked(bst.link, after, s, up, p)
  BY <1>7, <1>8, <1>10, <1>13 DEF Linked, Untouched
<1>15. PICK root : root = bst.root
  OBVIOUS
<1>16. PICK link : link = bst.link
  OBVIOUS
<1>17. IsTree(root, link, u) /\ root # null /\ p \in BstIds /\ p \notin u[root] /\ up \in u[root]
       /\ link[s][up] = null /\ Linked(link, after, s, up, p)
  BY <1>7, <1>8, <1>9, <1>10, <1>14, <1>15, <1>16
<1>18. IsTree(root, after, v)
  BY <1>12, <1>17, GrownTree
<1>19. /\ v[root] = u[root] \cup {p}
       /\ \A n \in u[root] : GrownAt(root, link, after, u, v, s, up, p, n)
  BY <1>12, <1>17, GrownBelow
<1>20. v[bst.root] = u[bst.root] \cup {p} /\ v[null] = {}
  BY <1>15, <1>18, <1>19 DEF IsTree
<1>21. \A n \in u[bst.root], h \in Hands : \A x : x \in v[bst'.link[h][n]] <=>
         x \in u[bst.link[h][n]] \/ (x = p /\ (up \in u[bst.link[h][n]] \/ (h = s /\ n = up)))
  BY <1>13, <1>15, <1>16, <1>19 DEF GrownAt
<1>22. \A h \in Hands : bst'.link[h][p] = null
  BY <1>13, <1>14 DEF Linked
<1>23. IsOrdered(bst'.root, bst'.link, bst'.key, v)
  <2> SUFFICES ASSUME NEW n \in v[bst'.root]
      PROVE  /\ bst'.key[n] \in BstKeys
             /\ \A m \in v[bst'.link["left"][n]] : bst'.key[m] < bst'.key[n]
             /\ \A m \in v[bst'.link["right"][n]] : bst'.key[m] >= bst'.key[n]
    BY DEF IsOrdered
  <2>1. CASE n = p
    BY <1>8, <1>20, <1>22, <2>1 DEF Hands
  <2>2. CASE n # p
    <3>1. n \in u[bst.root] /\ n \in BstIds
      BY <1>8, <1>10, <1>20, <2>2
    <3>2. bst'.key[n] = bst.key[n] /\ bst.key[n] \in BstKeys /\ bst.key[n] \in Nat
          /\ key \in Nat /\ bst'.key[p] = key
      BY <1>2, <1>3, <1>8, <2>2, <3>1, NodeIs, BstAssumption
    <3>3. ASSUME NEW h \in Hands, NEW x \in v[bst'.link[h][n]], x # p
          PROVE  x \in u[bst.link[h][n]] /\ bst'.key[x] = bst.key[x]
      <4>1. x \in u[bst.link[h][n]]
        BY <1>21, <3>1, <3>3
      <4>2. u[bst.link[h][n]] \subseteq u[n] /\ u[n] \subseteq u[bst.root]
        BY <1>2, <1>3, <3>1, NodeIs DEF Hands
      <4> QED
        BY <1>8, <1>10, <3>3, <4>1, <4>2
    <3>4. ASSUME NEW h \in Hands, p \in v[bst'.link[h][n]]
          PROVE  h = Side(n, key)
      <4>1. up \in u[bst.link[h][n]] \/ (h = s /\ n = up) \/ p \in u[bst.link[h][n]]
        BY <1>21, <3>1, <3>4
      <4>2. p \notin u[bst.link[h][n]]
        <5>1. u[bst.link[h][n]] \subseteq u[n] /\ u[n] \subseteq u[bst.root]
          BY <1>2, <1>3, <3>1, NodeIs DEF Hands
        <5> QED
          BY <1>10, <5>1
      <4> QED
        BY <1>5, <1>6, <3>1, <4>1, <4>2 DEF HangsWell
    <3>5. ASSUME NEW m \in v[bst'.link["left"][n]]
          PROVE  bst'.key[m] < bst'.key[n]
      <4>1. CASE m = p
        <5>1. "left" = Side(n, key)
          BY <3>4, <3>5, <4>1 DEF Hands
        <5> QED
          BY <3>2, <4>1, <5>1 DEF Side
      <4>2. CASE m # p
        BY <1>2, <1>3, <3>1, <3>2, <3>3, <3>5, <4>2, NodeIs DEF Hands
      <4> QED
        BY <4>1, <4>2
    <3>6. ASSUME NEW m \in v[bst'.link["right"][n]]
          PROVE  bst'.key[m] >= bst'.key[n]
      <4>1. CASE m = p
        <5>1. "right" = Side(n, key)
          BY <3>4, <3>6, <4>1 DEF Hands
        <5> QED
          BY <3>2, <4>1, <5>1 DEF Side
      <4>2. CASE m # p
        BY <1>2, <1>3, <3>1, <3>2, <3>3, <3>6, <4>2, NodeIs DEF Hands
      <4> QED
        BY <4>1, <4>2
    <3> QED
      BY <3>2, <3>5, <3>6
  <2> QED
    BY <2>1, <2>2
<1>24. doubled' = (doubled \/ held[key] > 0)
  BY DEF insertKey
<1>25. bst.key[up] = key => doubled'
  <2> SUFFICES ASSUME bst.key[up] = key PROVE held[key] > 0
    BY <1>24
  <2> DEFINE H == Holding(bst.root, bst.key, u, key)
  <2>1. up \in H
    BY <1>7 DEF Holding
  <2>2. IsFiniteSet(H) /\ Cardinality(H) \in Nat
    BY <1>2, <1>3, HoldingFinite
  <2>3. Cardinality(H) # 0
    <3> HIDE DEF H
    <3> QED
      BY <2>1, <2>2, FS_EmptySet
  <2> QED
    BY <1>9, <2>2, <2>3
<1>26. KnowParents(bst'.root, bst'.link, bst'.parent, v, doubled')
  <2>1. bst.parent[bst.root] = null /\ bst.root # p /\ bst.root \in BstIds
    BY <1>8, <1>9, <1>10, LinkTypes, <1>2 DEF KnowParents, IsTree
  <2>2. ASSUME NEW n \in v[bst'.root], NEW h \in Hands, bst'.link[h][n] # null
        PROVE  \/ bst'.parent[bst'.link[h][n]] = n
               \/ doubled' /\ bst'.parent[bst'.link[h][n]] = null
    <3>1. n # p /\ n \in u[bst.root] /\ n \in BstIds
      BY <1>8, <1>10, <1>20, <1>22, <2>2
    <3>2. CASE h = s /\ n = up
      BY <1>8, <1>25, <3>1, <3>2
    <3>3. CASE ~(h = s /\ n = up)
      <4>1. bst'.link[h][n] = bst.link[h][n] /\ bst.link[h][n] # null
        BY <1>8, <2>2, <3>1, <3>3
      <4>2. bst.link[h][n] \in u[bst.root] /\ bst.link[h][n] # p /\ bst.link[h][n] \in BstIds
        BY <1>2, <1>3, <1>10, <3>1, <4>1, NodeIs
      <4>3. bst'.parent[bst.link[h][n]] = bst.parent[bst.link[h][n]]
        BY <1>8, <4>2
      <4>4. bst.parent[bst.link[h][n]] = n \/ (doubled /\ bst.parent[bst.link[h][n]] = null)
        BY <1>9, <3>1, <4>1 DEF KnowParents
      <4> QED
        BY <1>24, <4>1, <4>3, <4>4
    <3> QED
      BY <3>2, <3>3
  <2> QED
    BY <1>8, <2>1, <2>2 DEF KnowParents
<1>27. v[bst'.root] \subseteq 1 .. bstMade'
  BY <1>1, <1>2, <1>8, <1>9, <1>20
<1>28. \A n \in BstIds : n > bstMade' => Untouched(bst', n)
  <2> SUFFICES ASSUME NEW n \in BstIds, n > bstMade' PROVE Untouched(bst', n)
    OBVIOUS
  <2>1. n >= p /\ n # p
    BY <1>8 DEF BstIds
  <2>2. n # up
    <3>1. up \in 1 .. bstMade
      BY <1>7, <1>9
    <3> QED
      BY <1>1, <1>2, <2>1, <3>1
  <2> QED
    BY <1>8, <1>9, <2>1, <2>2 DEF Untouched
<1>29. ASSUME NEW k \in BstKeys
       PROVE  Cardinality(Holding(bst'.root, bst'.key, v, k)) = held'[k]
  <2> DEFINE H == Holding(bst.root, bst.key, u, k)
  <2>1. held'[k] = (IF k = key THEN held[k] + 1 ELSE held[k])
    BY DEF insertKey, BstInv
  <2>2. Cardinality(H) = held[k] /\ IsFiniteSet(H) /\ p \notin H
    BY <1>2, <1>3, <1>9, <1>10, HoldingFinite DEF Holding
  <2>3. CASE k = key
    <3>1. Holding(bst'.root, bst'.key, v, k) = H \cup {p}
      BY <1>8, <1>10, <1>20, <2>3 DEF Holding
    <3> HIDE DEF H
    <3>2. Cardinality(H \cup {p}) = Cardinality(H) + 1
      BY <2>2, FS_AddElement
    <3> QED
      BY <2>1, <2>2, <2>3, <3>1, <3>2
  <2>4. CASE k # key
    <3>1. Holding(bst'.root, bst'.key, v, k) = H
      BY <1>8, <1>10, <1>20, <2>4 DEF Holding
    <3> QED
      BY <2>1, <2>2, <2>4, <3>1
  <2> QED
    BY <2>3, <2>4
<1>30. IsTree(bst'.root, bst'.link, v)
  BY <1>8, <1>13, <1>15, <1>18
<1>31. BstShape(v)'
  BY <1>23, <1>26, <1>27, <1>28, <1>29, <1>30 DEF BstShape
<1>32. held' \in [BstKeys -> Int] /\ doubled' \in BOOLEAN /\ astray' = FALSE /\ bstMade' \in 0 .. BstNodes
  BY <1>2, <1>8 DEF BstInv, insertKey, BstIds
<1> QED
  BY <1>8, <1>31, <1>32 DEF BstInv

-----------------------------------------------------------------------------
\* Node Y has the child X or none, so X can take its place.
Replaces(link, Y, X) ==
  \E h \in Hands : X = link[h][Y] /\ \A g \in Hands : g # h => link[g][Y] = null

\* X in the place of Y, and the nodes without Y.
Spliced(root, link, u, Y, X, top, after, v) ==
  /\ top = IF Y = root THEN X ELSE root
  /\ \A h \in Hands, n \in u[root] : n # Y =>
       after[h][n] = IF link[h][n] = Y THEN X ELSE link[h][n]
  /\ v \in [0 .. BstNodes -> SUBSET BstIds]
  /\ \A n \in 0 .. BstNodes : v[n] = u[n] \ {Y}

\* What is below a node and its children then.
SplicedAt(link, after, u, v, Y, n) ==
  /\ v[n] = u[n] \ {Y}
  /\ \A h \in Hands : v[after[h][n]] = u[link[h][n]] \ {Y}

\* What is below X is what is below Y without Y.
LEMMA ReplacedBelow ==
  ASSUME NEW root, NEW link, NEW u, IsTree(root, link, u), NEW Y \in u[root], NEW X,
         Replaces(link, Y, X)
  PROVE  /\ u[X] = u[Y] \ {Y} /\ X \in u[X] \cup {null} /\ X \in 0 .. BstNodes
         /\ X # Y /\ X # root /\ Y \in u[Y] /\ X \in u[root] \cup {null}
<1>1. PICK h \in Hands : X = link[h][Y] /\ \A g \in Hands : g # h => link[g][Y] = null
  BY DEF Replaces
<1>2. /\ Branches(link, u, Y) /\ u[null] = {} /\ u[root] \subseteq BstIds /\ root \in 0 .. BstNodes
      /\ root \in u[root] \cup {null}
  BY DEF IsTree
<1>3. root \in u[root] /\ root # null /\ null \notin BstIds /\ BstIds \subseteq 0 .. BstNodes /\ null \in 0 .. BstNodes
  BY <1>2, BstAssumption DEF BstIds, null
<1>4. u[Y] = {Y} \cup u[X] /\ Y \notin u[X] /\ X \in u[Y] \cup {null}
  BY <1>1, <1>2 DEF Branches, Hands
<1>5. X # null => X \in u[root] /\ X \in u[X] /\ X \in u[Y]
  BY <1>1, FewerBelow
<1>6. X # Y
  BY <1>2, <1>3, <1>4, <1>5
<1>7. X # root
  <2> SUFFICES ASSUME X = root PROVE FALSE
    OBVIOUS
  <2>1. root \in u[Y] /\ Y \in u[root]
    BY <1>3, <1>5
  <2>2. root = Y
    BY <1>3, <2>1 DEF IsTree
  <2> QED
    BY <1>6, <2>2
<1> QED
  BY <1>2, <1>3, <1>4, <1>5, <1>6, <1>7

\* Splicing keeps the sets without Y.
LEMMA SplicedBelow ==
  ASSUME NEW root, NEW link, NEW u, IsTree(root, link, u), NEW Y \in u[root], NEW X,
         Replaces(link, Y, X),
         NEW top, NEW after, NEW v, Spliced(root, link, u, Y, X, top, after, v)
  PROVE  /\ v[null] = {} /\ v[top] = u[root] \ {Y}
         /\ \A n \in u[root] : n # Y => SplicedAt(link, after, u, v, Y, n)
<1>1. /\ u[X] = u[Y] \ {Y} /\ X \in 0 .. BstNodes
  BY ReplacedBelow
<1>2. /\ u[null] = {} /\ u[root] \subseteq BstIds /\ root \in 0 .. BstNodes
      /\ BstIds \subseteq 0 .. BstNodes /\ null \in 0 .. BstNodes
  BY BstAssumption DEF IsTree, BstIds, null
<1>3. \A n \in 0 .. BstNodes : v[n] = u[n] \ {Y}
  BY DEF Spliced
<1>4. v[null] = {}
  BY <1>2, <1>3
<1>5. v[top] = u[root] \ {Y}
  <2>1. CASE Y = root
    BY <1>1, <1>3, <2>1 DEF Spliced
  <2>2. CASE Y # root
    BY <1>2, <1>3, <2>2 DEF Spliced
  <2> QED
    BY <2>1, <2>2
<1>6. ASSUME NEW n \in u[root], n # Y
      PROVE  SplicedAt(link, after, u, v, Y, n)
  <2>1. ASSUME NEW h \in Hands
        PROVE  v[after[h][n]] = u[link[h][n]] \ {Y}
    <3>1. after[h][n] = IF link[h][n] = Y THEN X ELSE link[h][n]
      BY <1>6 DEF Spliced
    <3>2. link[h][n] \in 0 .. BstNodes
      <4>1. CASE link[h][n] = null
        BY <1>2, <4>1
      <4>2. CASE link[h][n] # null
        <5>1. link[h][n] \in u[root]
          BY <4>2, FewerBelow
        <5> QED
          BY <1>2, <5>1
      <4> QED
        BY <4>1, <4>2
    <3> QED
      BY <1>1, <1>3, <3>1, <3>2
  <2>2. v[n] = u[n] \ {Y}
    BY <1>2, <1>3
  <2> QED
    BY <2>1, <2>2 DEF SplicedAt
<1> QED
  BY <1>4, <1>5, <1>6

\* It is a tree again.
LEMMA SplicedTree ==
  ASSUME NEW root, NEW link, NEW u, IsTree(root, link, u), NEW Y \in u[root], NEW X,
         Replaces(link, Y, X),
         NEW top, NEW after, NEW v, Spliced(root, link, u, Y, X, top, after, v)
  PROVE  IsTree(top, after, v)
<1>1. /\ u[X] = u[Y] \ {Y} /\ X \in u[X] \cup {null} /\ X \in 0 .. BstNodes
      /\ X # Y /\ X # root /\ Y \in u[Y] /\ X \in u[root] \cup {null}
  BY ReplacedBelow
<1>2. /\ u[null] = {} /\ u[root] \subseteq BstIds /\ root \in 0 .. BstNodes /\ root \in u[root]
  BY DEF IsTree
<1>3. v[null] = {} /\ v[top] = u[root] \ {Y}
  BY SplicedBelow
<1>4. \A n \in u[root] : n # Y => SplicedAt(link, after, u, v, Y, n)
  BY SplicedBelow
<1>5. \A n \in u[root], h \in Hands : n # Y =>
        after[h][n] = IF link[h][n] = Y THEN X ELSE link[h][n]
  BY DEF Spliced
<1>6. \A n \in u[root] : n # Y => v[n] = u[n] \ {Y}
  BY <1>4 DEF SplicedAt
<1>7. top = IF Y = root THEN X ELSE root
  BY DEF Spliced
<1>8. top \in 0 .. BstNodes /\ top \in v[top] \cup {null}
  BY <1>1, <1>2, <1>3, <1>7
<1>9. ASSUME NEW n \in u[root], n # Y
      PROVE  Branches(after, v, n)
  <2>1. Branches(link, u, n)
    BY DEF IsTree
  <2>2. v[after["left"][n]] = u[link["left"][n]] \ {Y} /\ v[after["right"][n]] = u[link["right"][n]] \ {Y}
    BY <1>4, <1>9 DEF SplicedAt, Hands
  <2>3. ASSUME NEW h \in Hands
        PROVE  after[h][n] \in v[n] \cup {null} /\ n \notin v[after[h][n]]
    <3>1. link[h][n] \in u[n] \cup {null} /\ n \notin u[link[h][n]]
      BY <2>1 DEF Branches
    <3>2. v[after[h][n]] = u[link[h][n]] \ {Y}
      BY <1>4, <1>9 DEF SplicedAt
    <3>3. CASE link[h][n] = Y
      <4>1. CASE Y = null
        BY <1>5, <1>9, <3>1, <3>2, <3>3, <4>1, <1>2, BstAssumption DEF BstIds, null
      <4>2. CASE Y # null
        <5>1. Y \in u[n] /\ u[Y] \subseteq u[n]
          BY <3>3, <4>2, FewerBelow, <3>1
        <5> QED
          BY <1>1, <1>5, <1>6, <1>9, <3>1, <3>2, <3>3, <5>1
      <4> QED
        BY <4>1, <4>2
    <3>4. CASE link[h][n] # Y
      BY <1>5, <1>6, <1>9, <3>1, <3>2, <3>4
    <3> QED
      BY <3>3, <3>4
  <2>4. v[after["left"][n]] \cap v[after["right"][n]] = {}
    BY <2>1, <2>2 DEF Branches
  <2>5. v[n] = {n} \cup v[after["left"][n]] \cup v[after["right"][n]]
    <3>1. u[n] = {n} \cup u[link["left"][n]] \cup u[link["right"][n]]
      BY <2>1 DEF Branches
    <3>2. v[n] = u[n] \ {Y}
      BY <1>6, <1>9
    <3> QED
      BY <1>9, <2>2, <3>1, <3>2
  <2> QED
    BY <2>3, <2>4, <2>5 DEF Branches
<1>10. \A n \in v[top] : n \in u[root] /\ n # Y /\ v[n] = u[n] \ {Y}
  BY <1>3, <1>6
<1>11. \A a, b \in v[top] : a \in v[b] => v[a] \subseteq v[b]
  <2> SUFFICES ASSUME NEW a \in v[top], NEW b \in v[top], a \in v[b] PROVE v[a] \subseteq v[b]
    OBVIOUS
  <2>1. a \in u[root] /\ b \in u[root] /\ a \in u[b] /\ v[a] = u[a] \ {Y} /\ v[b] = u[b] \ {Y}
    BY <1>10
  <2>2. u[a] \subseteq u[b]
    BY <2>1 DEF IsTree
  <2> QED
    BY <2>1, <2>2
<1>12. \A a, b \in v[top] : a \in v[b] /\ b \in v[a] => a = b
  <2> SUFFICES ASSUME NEW a \in v[top], NEW b \in v[top], a \in v[b], b \in v[a] PROVE a = b
    OBVIOUS
  <2>1. a \in u[root] /\ b \in u[root] /\ a \in u[b] /\ b \in u[a]
    BY <1>10
  <2> QED
    BY <2>1 DEF IsTree
<1>13. \A a, b, x \in v[top] : x \in v[a] /\ x \in v[b] => a \in v[b] \/ b \in v[a]
  <2> SUFFICES ASSUME NEW a \in v[top], NEW b \in v[top], NEW x \in v[top], x \in v[a], x \in v[b]
               PROVE  a \in v[b] \/ b \in v[a]
    OBVIOUS
  <2>1. a \in u[root] /\ b \in u[root] /\ x \in u[root] /\ x \in u[a] /\ x \in u[b]
        /\ a # Y /\ b # Y /\ v[a] = u[a] \ {Y} /\ v[b] = u[b] \ {Y}
    BY <1>10
  <2>2. a \in u[b] \/ b \in u[a]
    BY <2>1 DEF IsTree
  <2> QED
    BY <2>1, <2>2
<1>14. ASSUME NEW y \in v[top], y # top
       PROVE  \E n \in v[top], h \in Hands : after[h][n] = y
  <2>1. y \in u[root] /\ y # Y /\ y # root
    BY <1>7, <1>10, <1>14
  <2>2. PICK n \in u[root], h \in Hands : link[h][n] = y
    BY <2>1 DEF IsTree
  <2>3. CASE n # Y
    BY <1>3, <1>5, <2>1, <2>2, <2>3
  <2>4. CASE n = Y
    <3>1. y # null
      BY <1>2, <2>1, BstAssumption DEF BstIds, null
    <3>2. y = X
      BY <2>2, <2>4, <3>1 DEF Replaces
    <3>3. Y # root
      BY <1>7, <1>14, <3>2
    <3>4. PICK m \in u[root], g \in Hands : link[g][m] = Y
      BY <3>3 DEF IsTree
    <3>5. m # Y
      <4>1. Branches(link, u, m)
        BY DEF IsTree
      <4> QED
        BY <1>1, <3>4, <4>1 DEF Branches
    <3>6. after[g][m] = X
      BY <1>5, <3>4, <3>5
    <3> QED
      BY <1>3, <3>2, <3>5, <3>6
  <2> QED
    BY <2>3, <2>4
<1>15. \A n \in v[top] : Branches(after, v, n)
  BY <1>9, <1>10
<1>16. v \in [0 .. BstNodes -> SUBSET BstIds]
  BY DEF Spliced
<1> QED
  BY <1>3, <1>8, <1>11, <1>12, <1>13, <1>14, <1>15, <1>16 DEF IsTree

-----------------------------------------------------------------------------
\* What delete works on: the node Z with the key, the node Y that is unlinked,
\* its child X, and its parent.
Unlinks(key, Z, Y, X, above, side) ==
  /\ Z = bstSearch(bst.root, key)
  /\ Y = IF Link("left", Z) = null \/ Link("right", Z) = null THEN Z ELSE treeSuccessor(Z)
  /\ X = IF Link("left", Y) # null THEN Link("left", Y) ELSE Link("right", Y)
  /\ above = bst.parent[Y]
  /\ side = IF Link("left", above) = Y THEN "left" ELSE "right"

\* What it does to the tree.
LEMMA DeleteIs ==
  ASSUME bst \in Trees, NEW key \in BstKeys, deleteKey(key),
         NEW Z \in BstIds, NEW Y \in BstIds, NEW X \in 0 .. BstNodes, NEW above, NEW side,
         Unlinks(key, Z, Y, X, above, side), bst.key[Y] \in BstKeys
  PROVE  /\ bst' \in Trees /\ above \in 0 .. BstNodes /\ side \in Hands
         /\ bst'.root = IF above = null THEN X ELSE bst.root
         /\ \A h \in Hands, n \in BstIds : bst'.link[h][n] =
              IF above # null /\ n = above /\ h = side THEN X ELSE bst.link[h][n]
         /\ \A n \in BstIds :
              /\ bst'.key[n] = IF n = Z THEN bst.key[Y] ELSE bst.key[n]
              /\ bst'.parent[n] = IF n = X THEN above ELSE bst.parent[n]
         /\ bstMade' = bstMade /\ doubled' = doubled /\ ~astray
         /\ held' = [held EXCEPT ![key] = @ - 1]
         /\ astray' = (above = null /\ Y # bst.root)
<1>1. /\ above \in 0 .. BstNodes /\ side \in Hands
      /\ X # null => X \in BstIds
      /\ above # null => above \in BstIds
      /\ null \notin BstIds
  <2>1. BstNodes \in Nat /\ bst.parent \in [BstIds -> 0 .. BstNodes]
    BY LinkTypes, BstAssumption
  <2>2. above \in 0 .. BstNodes
    BY <2>1 DEF Unlinks
  <2>3. side \in Hands
    BY DEF Unlinks, Hands
  <2> QED
    BY <2>1, <2>2, <2>3 DEF BstIds, null
<1>2. PICK t : t = IF X = null THEN bst ELSE [bst EXCEPT !.parent[X] = above]
  OBVIOUS
<1>3. /\ t \in Trees /\ t.root = bst.root /\ t.link = bst.link /\ t.key = bst.key
      /\ \A n \in BstIds : t.parent[n] = IF n = X THEN above ELSE bst.parent[n]
  <2>1. CASE X = null
    BY <1>1, <1>2, <2>1 DEF Trees
  <2>2. CASE X # null
    <3>1. t = [bst EXCEPT !.parent[X] = above]
      BY <1>2, <2>2
    <3>2. t.root = bst.root /\ t.link = bst.link /\ t.key = bst.key
          /\ t.parent = [bst.parent EXCEPT ![X] = above]
      BY <3>1 DEF Trees
    <3>3. t.parent \in [BstIds -> 0 .. BstNodes]
      BY <1>1, <3>2, LinkTypes
    <3>4. t = [root |-> t.root, link |-> t.link, parent |-> t.parent, key |-> t.key]
      BY <3>1 DEF Trees
    <3>5. t \in Trees
      BY <3>2, <3>3, <3>4 DEF Trees
    <3> QED
      BY <1>1, <2>2, <3>2, <3>5, LinkTypes
  <2> QED
    BY <2>1, <2>2
<1>4. PICK w : w = IF above = null THEN [t EXCEPT !.root = X] ELSE [t EXCEPT !.link[side][above] = X]
  OBVIOUS
<1>5. /\ w \in Trees /\ w.root = (IF above = null THEN X ELSE bst.root) /\ w.key = bst.key
      /\ w.parent = t.parent
      /\ \A h \in Hands, n \in BstIds : w.link[h][n] =
           IF above # null /\ n = above /\ h = side THEN X ELSE bst.link[h][n]
  <2>1. CASE above = null
    BY <1>3, <1>4, <2>1 DEF Trees
  <2>2. CASE above # null
    <3>1. w = [t EXCEPT !.link[side][above] = X]
      BY <1>4, <2>2
    <3>2. w.root = t.root /\ w.key = t.key /\ w.parent = t.parent
          /\ w.link = [t.link EXCEPT ![side][above] = X]
      BY <1>3, <3>1 DEF Trees
    <3>3. w.link \in [Hands -> [BstIds -> 0 .. BstNodes]]
      <4>1. PICK l : l = t.link
        OBVIOUS
      <4>2. l \in [Hands -> [BstIds -> 0 .. BstNodes]]
        BY <1>3, <4>1 DEF Trees
      <4>3. [l EXCEPT ![side][above] = X] \in [Hands -> [BstIds -> 0 .. BstNodes]]
        BY <1>1, <2>2, <4>2
      <4> QED
        BY <3>2, <4>1, <4>3
    <3>4. w = [root |-> w.root, link |-> w.link, parent |-> w.parent, key |-> w.key]
      BY <1>3, <3>1 DEF Trees
    <3>5. w \in Trees
      BY <1>3, <3>2, <3>3, <3>4 DEF Trees
    <3>6. \A h \in Hands, n \in BstIds : w.link[h][n] =
            IF n = above /\ h = side THEN X ELSE t.link[h][n]
      BY <1>1, <1>3, <3>2 DEF Trees
    <3> QED
      BY <1>3, <2>2, <3>2, <3>5, <3>6
  <2> QED
    BY <2>1, <2>2
<1>6. bst' = [w EXCEPT !.key[Z] = bst.key[Y]]
  BY <1>2, <1>4 DEF deleteKey, Unlinks
<1>7. /\ bst'.root = w.root /\ bst'.link = w.link /\ bst'.parent = w.parent
      /\ bst'.key = [w.key EXCEPT ![Z] = bst.key[Y]]
  BY <1>5, <1>6 DEF Trees
<1>8. bst' \in Trees
  <2>1. bst'.key \in [BstIds -> BstKeys \cup {0}]
    BY <1>5, <1>7 DEF Trees
  <2>2. bst' = [root |-> bst'.root, link |-> bst'.link, parent |-> bst'.parent, key |-> bst'.key]
    BY <1>5, <1>6 DEF Trees
  <2> QED
    BY <1>5, <1>7, <2>1, <2>2 DEF Trees
<1>9. \A n \in BstIds : bst'.key[n] = IF n = Z THEN bst.key[Y] ELSE bst.key[n]
  BY <1>5, <1>7, LinkTypes
<1>10. /\ bstMade' = bstMade /\ doubled' = doubled /\ ~astray
       /\ held' = [held EXCEPT ![key] = @ - 1]
       /\ astray' = (above = null /\ Y # bst.root)
  BY DEF deleteKey, Unlinks
<1> QED
  BY <1>1, <1>3, <1>5, <1>7, <1>8, <1>9, <1>10

\* What is known of the nodes it works on.
Unlinked(u, Z, Y, X) ==
  /\ Z \in u[bst.root] /\ Y \in u[bst.root] /\ Replaces(bst.link, Y, X)
  /\ Y # Z => MinFound(Y, bst.link["right"][Z], u) /\ Y \in u[bst.link["right"][Z]]

\* deleteNode finds such nodes.
LEMMA UnlinkedIs ==
  ASSUME bst \in Trees, NEW u, BstShape(u), NEW key \in BstKeys, deleteKey(key),
         NEW Z, NEW Y, NEW X, NEW above, NEW side, Unlinks(key, Z, Y, X, above, side)
  PROVE  Unlinked(u, Z, Y, X) /\ bst.key[Z] = key
<1>1. Z # null
  BY DEF deleteKey, Unlinks
<1>2. Z \in u[bst.root] /\ bst.key[Z] = key
  BY <1>1, SearchFinds DEF Unlinks
<1>3. /\ Y \in u[bst.root] /\ (bst.link["left"][Y] = null \/ bst.link["right"][Y] = null)
      /\ Y # Z => MinFound(Y, bst.link["right"][Z], u) /\ Y \in u[bst.link["right"][Z]]
  <2>1. CASE bst.link["left"][Z] = null \/ bst.link["right"][Z] = null
    BY <1>2, <2>1 DEF Unlinks, Link
  <2>2. CASE ~(bst.link["left"][Z] = null \/ bst.link["right"][Z] = null)
    <3> DEFINE c == bst.link["right"][Z]
    <3>1. Y = searchMin(c)
      BY <2>2 DEF Unlinks, Link, treeSuccessor
    <3>2. c \in u[bst.root]
      BY <1>2, <2>2, NodeIs DEF Hands
    <3>3. MinFound(Y, c, u)
      BY <3>1, <3>2, MinIs
    <3>4. u[c] \subseteq u[bst.root]
      BY <3>2, NodeIs
    <3> QED
      BY <3>3, <3>4 DEF MinFound
  <2> QED
    BY <2>1, <2>2
<1>4. X = IF bst.link["left"][Y] # null THEN bst.link["left"][Y] ELSE bst.link["right"][Y]
  BY DEF Unlinks, Link
<1>5. Replaces(bst.link, Y, X)
  <2>1. CASE bst.link["left"][Y] # null
    BY <1>3, <1>4, <2>1 DEF Replaces, Hands
  <2>2. CASE bst.link["left"][Y] = null
    BY <1>4, <2>2 DEF Replaces, Hands
  <2> QED
    BY <2>1, <2>2
<1> QED
  BY <1>2, <1>3, <1>5 DEF Unlinked

\* The parent of a node, if the tree knows it.
LEMMA ParentIs ==
  ASSUME bst \in Trees, NEW u, BstShape(u), NEW Y \in u[bst.root],
         NEW above, above = bst.parent[Y]
  PROVE  /\ Y = bst.root => above = null
         /\ above = null /\ Y # bst.root => doubled
         /\ above # null => /\ above \in u[bst.root] /\ Y # bst.root
                            /\ \E s \in Hands : bst.link[s][above] = Y
<1>1. /\ IsTree(bst.root, bst.link, u)
      /\ KnowParents(bst.root, bst.link, bst.parent, u, doubled)
  BY DEF BstShape
<1>2. Y # null
  BY NodeIs
<1>3. Y = bst.root => above = null
  BY <1>1, <1>2 DEF KnowParents
<1>4. CASE Y # bst.root
  <2>1. PICK n \in u[bst.root], s \in Hands : bst.link[s][n] = Y
    BY <1>1, <1>4 DEF IsTree
  <2>2. above = n \/ (doubled /\ above = null)
    BY <1>1, <1>2, <2>1 DEF KnowParents
  <2>3. n # null
    BY NodeIs
  <2> QED
    BY <1>4, <2>1, <2>2, <2>3
<1> QED
  BY <1>2, <1>3, <1>4

\* The keys stay in order without Y: its key goes to Z, if they are two.
LEMMA SplicedOrder ==
  ASSUME bst \in Trees, NEW u, BstShape(u), NEW Z, NEW Y, NEW X, Unlinked(u, Z, Y, X),
         NEW top, NEW after, NEW v, Spliced(bst.root, bst.link, u, Y, X, top, after, v),
         NEW key2, \A n \in BstIds : key2[n] = IF n = Z THEN bst.key[Y] ELSE bst.key[n]
  PROVE  IsOrdered(top, after, key2, v)
<1>1. /\ Z \in u[bst.root] /\ Y \in u[bst.root] /\ Replaces(bst.link, Y, X)
      /\ Y # Z => MinFound(Y, bst.link["right"][Z], u) /\ Y \in u[bst.link["right"][Z]]
  BY DEF Unlinked
<1>2. IsTree(bst.root, bst.link, u)
  BY DEF BstShape
<1>3. /\ v[top] = u[bst.root] \ {Y}
      /\ \A n \in u[bst.root] : n # Y => SplicedAt(bst.link, after, u, v, Y, n)
  <2>1. PICK root : root = bst.root
    OBVIOUS
  <2>2. PICK link : link = bst.link
    OBVIOUS
  <2>3. /\ IsTree(root, link, u) /\ Y \in u[root] /\ Replaces(link, Y, X)
        /\ Spliced(root, link, u, Y, X, top, after, v)
    BY <1>1, <1>2, <2>1, <2>2
  <2>4. /\ v[top] = u[root] \ {Y}
        /\ \A n \in u[root] : n # Y => SplicedAt(link, after, u, v, Y, n)
    BY <2>3, SplicedBelow
  <2> QED
    BY <2>1, <2>2, <2>4
<1>4. \A n \in u[bst.root] :
        /\ n \in BstIds /\ bst.key[n] \in BstKeys /\ bst.key[n] \in Nat
        /\ key2[n] \in BstKeys /\ key2[n] \in Nat
        /\ key2[n] = IF n = Z THEN bst.key[Y] ELSE bst.key[n]
  BY <1>1, NodeIs
<1>5. ASSUME NEW n \in u[bst.root], n # Y, NEW h \in Hands, NEW x \in v[after[h][n]]
      PROVE  x \in u[bst.link[h][n]] /\ x # Y /\ x \in u[bst.root]
  <2>1. x \in u[bst.link[h][n]] /\ x # Y
    BY <1>3, <1>5 DEF SplicedAt
  <2>2. u[bst.link[h][n]] \subseteq u[n] /\ u[n] \subseteq u[bst.root]
    BY NodeIs DEF Hands
  <2> QED
    BY <2>1, <2>2
<1>6. ASSUME NEW n \in u[bst.root], NEW h \in Hands, Z \in u[bst.link[h][n]]
      PROVE  Y \in u[bst.link[h][n]]
  <2>1. bst.link[h][n] # null /\ bst.link[h][n] \in u[bst.root]
    <3>1. bst.link[h][n] # null
      BY <1>2, <1>6 DEF IsTree
    <3> QED
      BY <3>1, NodeIs
  <2>2. u[Z] \subseteq u[bst.link[h][n]]
    BY <1>1, <1>2, <1>6, <2>1 DEF IsTree
  <2>3. Y \in u[Z]
    BY <1>1, NodeIs
  <2> QED
    BY <2>2, <2>3
<1>7. Y # Z => bst.key[Z] <= bst.key[Y] /\ \A x \in u[bst.link["right"][Z]] : bst.key[x] >= bst.key[Y]
  <2>1. Y # Z => bst.key[Y] >= bst.key[Z]
    BY <1>1, NodeIs
  <2> QED
    BY <1>1, <1>4, <2>1 DEF MinFound
<1>8. ASSUME NEW n \in u[bst.root], n # Y, NEW x \in v[after["left"][n]]
      PROVE  key2[x] < key2[n]
  <2>1. x \in u[bst.link["left"][n]] /\ x # Y /\ x \in u[bst.root]
    BY <1>5, <1>8 DEF Hands
  <2>2. bst.key[x] < bst.key[n] /\ x # n
    BY <2>1, NodeIs DEF Hands
  <2>3. CASE n = Z
    <3>1. bst.key[Z] <= bst.key[Y] /\ key2[n] = bst.key[Y] /\ key2[x] = bst.key[x]
      BY <1>4, <1>7, <1>8, <2>1, <2>2, <2>3
    <3> QED
      BY <1>1, <1>4, <2>1, <2>2, <2>3, <3>1
  <2>4. CASE n # Z /\ x = Z
    <3>1. Y \in u[bst.link["left"][n]]
      BY <1>6, <2>1, <2>4 DEF Hands
    <3>2. bst.key[Y] < bst.key[n]
      BY <3>1, NodeIs
    <3> QED
      BY <1>4, <2>1, <2>4, <3>2
  <2>5. CASE n # Z /\ x # Z
    BY <1>4, <2>1, <2>2, <2>5
  <2> QED
    BY <2>3, <2>4, <2>5
<1>9. ASSUME NEW n \in u[bst.root], n # Y, NEW x \in v[after["right"][n]]
      PROVE  key2[x] >= key2[n]
  <2>1. x \in u[bst.link["right"][n]] /\ x # Y /\ x \in u[bst.root]
    BY <1>5, <1>9 DEF Hands
  <2>2. bst.key[x] >= bst.key[n] /\ x # n
    BY <2>1, NodeIs DEF Hands
  <2>3. CASE n = Z
    <3>1. bst.key[x] >= bst.key[Y] /\ key2[n] = bst.key[Y] /\ key2[x] = bst.key[x]
      BY <1>4, <1>7, <1>9, <2>1, <2>2, <2>3
    <3> QED
      BY <3>1
  <2>4. CASE n # Z /\ x = Z
    <3>1. Y \in u[bst.link["right"][n]]
      BY <1>6, <2>1, <2>4 DEF Hands
    <3>2. bst.key[Y] >= bst.key[n]
      BY <3>1, NodeIs
    <3> QED
      BY <1>4, <2>1, <2>4, <3>2
  <2>5. CASE n # Z /\ x # Z
    BY <1>4, <2>1, <2>2, <2>5
  <2> QED
    BY <2>3, <2>4, <2>5
<1> QED
  BY <1>3, <1>4, <1>8, <1>9 DEF IsOrdered

\* One node less holds the deleted key.
LEMMA SplicedHolds ==
  ASSUME bst \in Trees, NEW u, BstShape(u), NEW Z, NEW Y, NEW X, Unlinked(u, Z, Y, X),
         NEW key2, \A n \in BstIds : key2[n] = IF n = Z THEN bst.key[Y] ELSE bst.key[n],
         NEW top, NEW v, v[top] = u[bst.root] \ {Y}, NEW k \in BstKeys
  PROVE  Cardinality(Holding(top, key2, v, k)) =
           IF bst.key[Z] = k THEN Cardinality(Holding(bst.root, bst.key, u, k)) - 1
           ELSE Cardinality(Holding(bst.root, bst.key, u, k))
<1> DEFINE H == Holding(bst.root, bst.key, u, k)
           K == Holding(top, key2, v, k)
<1>1. Z \in u[bst.root] /\ Y \in u[bst.root] /\ u[bst.root] \subseteq BstIds
  BY NodeIs DEF Unlinked
<1>2. \A n : n \in K <=> n \in u[bst.root] /\ n # Y /\ (IF n = Z THEN bst.key[Y] = k ELSE bst.key[n] = k)
  BY <1>1 DEF Holding
<1>3. \A n : n \in H <=> n \in u[bst.root] /\ bst.key[n] = k
  BY DEF Holding
<1>4. IsFiniteSet(H) /\ Cardinality(H) \in Nat
  BY HoldingFinite
<1> HIDE DEF H, K
<1>5. CASE bst.key[Y] = k /\ bst.key[Z] = k
  <2>1. K = H \ {Y} /\ Y \in H
    BY <1>1, <1>2, <1>3, <1>5
  <2>2. Cardinality(H \ {Y}) = Cardinality(H) - 1
    BY <1>4, <2>1, FS_RemoveElement
  <2> QED
    BY <1>5, <2>1, <2>2 DEF H, K
<1>6. CASE bst.key[Y] # k /\ bst.key[Z] = k
  <2>1. K = H \ {Z} /\ Z \in H
    BY <1>1, <1>2, <1>3, <1>6
  <2>2. Cardinality(H \ {Z}) = Cardinality(H) - 1
    BY <1>4, <2>1, FS_RemoveElement
  <2> QED
    BY <1>6, <2>1, <2>2 DEF H, K
<1>7. CASE bst.key[Y] = k /\ bst.key[Z] # k
  <2>1. K = (H \ {Y}) \cup {Z} /\ Y \in H /\ Z \notin H \ {Y}
    BY <1>1, <1>2, <1>3, <1>7
  <2>2. IsFiniteSet(H \ {Y}) /\ Cardinality(H \ {Y}) = Cardinality(H) - 1
    BY <1>4, <2>1, FS_RemoveElement
  <2>3. Cardinality((H \ {Y}) \cup {Z}) = Cardinality(H \ {Y}) + 1
    BY <2>1, <2>2, FS_AddElement
  <2>4. Cardinality(K) = Cardinality(H)
    BY <1>4, <2>1, <2>2, <2>3
  <2> QED
    BY <1>7, <2>4 DEF H, K
<1>8. CASE bst.key[Y] # k /\ bst.key[Z] # k
  <2>1. K = H
    BY <1>1, <1>2, <1>3, <1>8
  <2> QED
    BY <1>8, <2>1 DEF H, K
<1> QED
  BY <1>5, <1>6, <1>7, <1>8

\* Every node still knows its parent, or has none.
LEMMA SplicedParents ==
  ASSUME bst \in Trees, NEW u, BstShape(u), NEW Y \in u[bst.root], NEW X, Replaces(bst.link, Y, X),
         NEW above, above = bst.parent[Y], above = null => Y = bst.root,
         NEW top, NEW after, NEW v, Spliced(bst.root, bst.link, u, Y, X, top, after, v),
         v[top] = u[bst.root] \ {Y},
         NEW parent2, \A n \in BstIds : parent2[n] = IF n = X THEN above ELSE bst.parent[n]
  PROVE  KnowParents(top, after, parent2, v, doubled)
<1>1. IsTree(bst.root, bst.link, u) /\ KnowParents(bst.root, bst.link, bst.parent, u, doubled)
  BY DEF BstShape
<1>2. X # Y /\ X # bst.root /\ X \in u[bst.root] \cup {null}
  <2>1. PICK root : root = bst.root
    OBVIOUS
  <2>2. PICK link : link = bst.link
    OBVIOUS
  <2>3. IsTree(root, link, u) /\ Y \in u[root] /\ Replaces(link, Y, X)
    BY <1>1, <2>1, <2>2
  <2>4. X # Y /\ X # root /\ X \in u[root] \cup {null}
    BY <2>3, ReplacedBelow
  <2> QED
    BY <2>1, <2>4
<1>3. Y \in BstIds /\ Y # null /\ u[bst.root] \subseteq BstIds /\ bst.root \in u[bst.root] /\ bst.root # null
  BY <1>1, NodeIs DEF IsTree
<1>4. top = IF Y = bst.root THEN X ELSE bst.root
  BY DEF Spliced
<1>5. top # null => parent2[top] = null
  <2>1. CASE Y = bst.root
    <3>1. above = null
      BY <2>1, ParentIs
    <3> QED
      BY <1>2, <1>3, <1>4, <2>1, <3>1
  <2>2. CASE Y # bst.root
    BY <1>1, <1>2, <1>3, <1>4, <2>2 DEF KnowParents
  <2> QED
    BY <2>1, <2>2
<1>6. ASSUME NEW n \in v[top], NEW h \in Hands, after[h][n] # null
      PROVE  parent2[after[h][n]] = n \/ (doubled /\ parent2[after[h][n]] = null)
  <2>1. n \in u[bst.root] /\ n # Y
    OBVIOUS
  <2>2. after[h][n] = IF bst.link[h][n] = Y THEN X ELSE bst.link[h][n]
    BY <2>1 DEF Spliced
  <2>3. CASE bst.link[h][n] = Y
    <3>1. after[h][n] = X /\ X \in BstIds /\ parent2[X] = above
      BY <1>2, <1>3, <1>6, <2>2, <2>3
    <3>2. above = n \/ (doubled /\ above = null)
      BY <1>1, <1>3, <2>1, <2>3 DEF KnowParents
    <3> QED
      BY <3>1, <3>2
  <2>4. CASE bst.link[h][n] # Y
    <3> DEFINE c == bst.link[h][n]
    <3>1. after[h][n] = c /\ c # null
      BY <1>6, <2>2, <2>4
    <3>2. c \in BstIds
      BY <1>3, <2>1, <3>1, NodeIs
    <3>3. c # X
      <4> SUFFICES ASSUME c = X PROVE FALSE
        OBVIOUS
      <4>1. PICK g \in Hands : X = bst.link[g][Y]
        BY DEF Replaces
      <4>2. bst.link[g][Y] # null /\ bst.link[g][Y] = bst.link[h][n]
        BY <3>1, <4>1
      <4>3. Y = n
        BY <1>1, <2>1, <4>2, OneParent
      <4> QED
        BY <2>1, <4>3
    <3>4. bst.parent[c] = n \/ (doubled /\ bst.parent[c] = null)
      BY <1>1, <2>1, <3>1 DEF KnowParents
    <3> HIDE DEF c
    <3>5. parent2[c] = bst.parent[c]
      BY <3>2, <3>3
    <3> QED
      BY <3>1, <3>4, <3>5
  <2> QED
    BY <2>3, <2>4
<1> QED
  BY <1>5, <1>6 DEF KnowParents

\* delete keeps the invariant.
LEMMA DeleteKeeps ==
  ASSUME BstInv, NEW key \in BstKeys, deleteKey(key)
  PROVE  BstInv'
<1>1. bst \in Trees /\ bstMade \in 0 .. BstNodes /\ ~astray
  BY DEF BstInv, deleteKey
<1>2. PICK u : BstShape(u)
  BY <1>1 DEF BstInv
<1>3. PICK Z : Z = bstSearch(bst.root, key)
  OBVIOUS
<1>4. PICK Y : Y = IF Link("left", Z) = null \/ Link("right", Z) = null THEN Z ELSE treeSuccessor(Z)
  OBVIOUS
<1>5. PICK X : X = IF Link("left", Y) # null THEN Link("left", Y) ELSE Link("right", Y)
  OBVIOUS
<1>6. PICK above : above = bst.parent[Y]
  OBVIOUS
<1>7. PICK side : side = IF Link("left", above) = Y THEN "left" ELSE "right"
  OBVIOUS
<1>8. Unlinks(key, Z, Y, X, above, side)
  BY <1>3, <1>4, <1>5, <1>6, <1>7 DEF Unlinks
<1>9. Unlinked(u, Z, Y, X) /\ bst.key[Z] = key
  BY <1>1, <1>2, <1>8, UnlinkedIs
<1>10. /\ Z \in u[bst.root] /\ Y \in u[bst.root] /\ Replaces(bst.link, Y, X)
       /\ Z \in BstIds /\ Y \in BstIds /\ Y # null /\ bst.key[Y] \in BstKeys
       /\ u[bst.root] \subseteq BstIds
  BY <1>1, <1>2, <1>9, NodeIs DEF Unlinked
<1>11. /\ IsTree(bst.root, bst.link, u)
       /\ u[bst.root] \subseteq 1 .. bstMade
       /\ \A n \in BstIds : n > bstMade => Untouched(bst, n)
       /\ \A k \in BstKeys : Cardinality(Holding(bst.root, bst.key, u, k)) = held[k]
  BY <1>2 DEF BstShape
<1>12. PICK root : root = bst.root
  OBVIOUS
<1>13. PICK link : link = bst.link
  OBVIOUS
<1>14. IsTree(root, link, u) /\ Y \in u[root] /\ Replaces(link, Y, X)
  BY <1>10, <1>11, <1>12, <1>13
<1>15. X \in 0 .. BstNodes /\ X \in u[bst.root] \cup {null}
  BY <1>12, <1>14, ReplacedBelow
<1>16. /\ bst' \in Trees /\ above \in 0 .. BstNodes /\ side \in Hands
       /\ bst'.root = IF above = null THEN X ELSE bst.root
       /\ \A h \in Hands, n \in BstIds : bst'.link[h][n] =
            IF above # null /\ n = above /\ h = side THEN X ELSE bst.link[h][n]
       /\ \A n \in BstIds :
            /\ bst'.key[n] = IF n = Z THEN bst.key[Y] ELSE bst.key[n]
            /\ bst'.parent[n] = IF n = X THEN above ELSE bst.parent[n]
       /\ bstMade' = bstMade /\ doubled' = doubled
       /\ held' = [held EXCEPT ![key] = @ - 1]
       /\ astray' = (above = null /\ Y # bst.root)
  BY <1>1, <1>8, <1>10, <1>15, DeleteIs
<1>17. /\ Y = bst.root => above = null
       /\ above = null /\ Y # bst.root => doubled
       /\ above # null => /\ above \in u[bst.root] /\ Y # bst.root
                          /\ \E s \in Hands : bst.link[s][above] = Y
  BY <1>1, <1>2, <1>6, <1>10, ParentIs
<1>18. held' \in [BstKeys -> Int] /\ doubled' \in BOOLEAN /\ astray' \in BOOLEAN /\ bstMade' \in 0 .. BstNodes
  BY <1>1, <1>16 DEF BstInv
<1>19. CASE above = null /\ Y # bst.root
  BY <1>16, <1>17, <1>18, <1>19 DEF BstInv
<1>20. CASE ~(above = null /\ Y # bst.root)
  <2>1. PICK v : v = [n \in 0 .. BstNodes |-> u[n] \ {Y}]
    OBVIOUS
  <2>2. PICK top : top = bst'.root
    OBVIOUS
  <2>3. PICK after : after = bst'.link
    OBVIOUS
  <2>4. above = null <=> Y = bst.root
    BY <1>17, <1>20
  <2>5. ASSUME NEW h \in Hands, NEW n \in u[bst.root], n # Y
        PROVE  after[h][n] = IF bst.link[h][n] = Y THEN X ELSE bst.link[h][n]
    <3>1. n \in BstIds
      BY <1>10
    <3>2. CASE above = null
      <4>1. bst.link[h][n] # Y
        <5> SUFFICES ASSUME bst.link[h][n] = Y PROVE FALSE
          OBVIOUS
        <5>1. bst.parent[Y] = n \/ bst.parent[Y] = null
          BY <1>2, <1>10 DEF BstShape, KnowParents
        <5>2. link[h][n] = root /\ n \in u[root] /\ link[h][n] # null /\ root \in u[root]
          BY <1>10, <1>12, <1>13, <1>14, <2>4, <3>2 DEF IsTree
        <5>3. n \notin u[root]
          BY <1>14, <5>2, FewerBelow
        <5> QED
          BY <5>2, <5>3
      <4> QED
        BY <1>16, <2>3, <3>1, <3>2, <4>1
    <3>3. CASE above # null
      <4>1. PICK s \in Hands : bst.link[s][above] = Y
        BY <1>17, <3>3
      <4>2. above \in u[bst.root]
        BY <1>17, <3>3
      <4>3. bst.link["left"][above] = Y => s = "left"
        <5> SUFFICES ASSUME bst.link["left"][above] = Y PROVE s = "left"
          OBVIOUS
        <5>1. link["left"][above] = link[s][above] /\ link["left"][above] # null
              /\ above \in u[root] /\ "left" \in Hands
          BY <1>10, <1>12, <1>13, <4>1, <4>2 DEF Hands
        <5> QED
          BY <1>14, <4>1, <5>1, OneParent
      <4>4. side = s
        BY <1>7, <4>1, <4>3 DEF Link, Hands
      <4>5. bst.link[h][n] = Y <=> (n = above /\ h = side)
        <5>1. ASSUME bst.link[h][n] = Y PROVE n = above /\ h = s
          <6>1. link[h][n] = link[s][above] /\ link[h][n] # null /\ above \in u[root] /\ n \in u[root]
            BY <1>10, <1>12, <1>13, <4>1, <4>2, <5>1
          <6> QED
            BY <1>14, <4>1, <6>1, OneParent
        <5> QED
          BY <4>1, <4>4, <5>1
      <4> QED
        BY <1>16, <2>3, <3>1, <3>3, <4>5
    <3> QED
      BY <3>2, <3>3
  <2>6. Spliced(root, link, u, Y, X, top, after, v)
    <3>1. top = IF Y = root THEN X ELSE root
      BY <1>12, <1>16, <2>2, <2>4
    <3>2. v \in [0 .. BstNodes -> SUBSET BstIds] /\ \A n \in 0 .. BstNodes : v[n] = u[n] \ {Y}
      BY <1>11, <2>1 DEF IsTree
    <3> QED
      BY <1>12, <1>13, <2>5, <3>1, <3>2 DEF Spliced
  <2>7. IsTree(top, after, v)
    BY <1>14, <2>6, SplicedTree
  <2>8. v[top] = u[root] \ {Y}
    BY <1>14, <2>6, SplicedBelow
  <2>9. Spliced(bst.root, bst.link, u, Y, X, top, after, v) /\ v[top] = u[bst.root] \ {Y}
    BY <1>12, <1>13, <2>6, <2>8
  <2>10. PICK key2 : key2 = bst'.key
    OBVIOUS
  <2>11. PICK parent2 : parent2 = bst'.parent
    OBVIOUS
  <2>12. /\ \A n \in BstIds : key2[n] = IF n = Z THEN bst.key[Y] ELSE bst.key[n]
         /\ \A n \in BstIds : parent2[n] = IF n = X THEN above ELSE bst.parent[n]
    BY <1>16, <2>10, <2>11
  <2>13. IsOrdered(top, after, key2, v)
    BY <1>1, <1>2, <1>9, <2>9, <2>12, SplicedOrder
  <2>14. KnowParents(top, after, parent2, v, doubled)
    BY <1>1, <1>2, <1>6, <1>10, <2>4, <2>9, <2>12, SplicedParents
  <2>15. ASSUME NEW k \in BstKeys
         PROVE  Cardinality(Holding(top, key2, v, k)) = held'[k]
    <3>1. Cardinality(Holding(top, key2, v, k)) = IF key = k THEN held[k] - 1 ELSE held[k]
      BY <1>1, <1>2, <1>9, <1>11, <2>9, <2>12, SplicedHolds
    <3>2. held'[k] = IF key = k THEN held[k] - 1 ELSE held[k]
      BY <1>16 DEF BstInv
    <3> QED
      BY <3>1, <3>2
  <2>16. \A n \in BstIds : n > bstMade' => Untouched(bst', n)
    <3> SUFFICES ASSUME NEW n \in BstIds, n > bstMade' PROVE Untouched(bst', n)
      OBVIOUS
    <3>1. n \notin u[bst.root] /\ Untouched(bst, n)
      BY <1>1, <1>11, <1>16
    <3>2. n # X /\ ~(above # null /\ n = above)
      <4>1. n # null
        BY BstAssumption DEF BstIds, null
      <4> QED
        BY <1>15, <1>17, <3>1, <4>1
    <3> QED
      BY <1>16, <3>1, <3>2 DEF Untouched
  <2>17. v[top] \subseteq 1 .. bstMade'
    BY <1>11, <1>16, <2>9
  <2>18. BstShape(v)'
    <3>1. IsTree(bst'.root, bst'.link, v) /\ IsOrdered(bst'.root, bst'.link, bst'.key, v)
      BY <2>2, <2>3, <2>7, <2>10, <2>13
    <3>2. KnowParents(bst'.root, bst'.link, bst'.parent, v, doubled')
      BY <1>16, <2>2, <2>3, <2>11, <2>14
    <3>3. /\ v[bst'.root] \subseteq 1 .. bstMade'
          /\ \A k \in BstKeys : Cardinality(Holding(bst'.root, bst'.key, v, k)) = held'[k]
      BY <2>2, <2>10, <2>15, <2>17
    <3> QED
      BY <2>16, <3>1, <3>2, <3>3 DEF BstShape
  <2> QED
    BY <1>16, <1>18, <1>20, <2>18 DEF BstInv
<1> QED
  BY <1>19, <1>20

-----------------------------------------------------------------------------
\* The empty tree is one.
LEMMA BstInitInv == BstInit => BstInv
<1> SUFFICES ASSUME BstInit PROVE BstInv
  OBVIOUS
<1>1. PICK v : v = [n \in 0 .. BstNodes |-> {}]
  OBVIOUS
<1>2. null \in 0 .. BstNodes /\ null \notin BstIds /\ BstNodes \in Nat
  BY BstAssumption DEF null, BstIds
<1>3. bst \in Trees /\ bst.root = null /\ \A n \in BstIds : Untouched(bst, n)
  BY <1>2 DEF BstInit, Trees, Hands, Untouched
<1>4. v[null] = {} /\ v \in [0 .. BstNodes -> SUBSET BstIds]
  BY <1>1, <1>2
<1>5. IsTree(bst.root, bst.link, v)
  BY <1>2, <1>3, <1>4 DEF IsTree
<1>6. IsOrdered(bst.root, bst.link, bst.key, v) /\ KnowParents(bst.root, bst.link, bst.parent, v, doubled)
  BY <1>3, <1>4 DEF IsOrdered, KnowParents
<1>7. ASSUME NEW k \in BstKeys
      PROVE  Cardinality(Holding(bst.root, bst.key, v, k)) = held[k]
  <2>1. Holding(bst.root, bst.key, v, k) = {}
    BY <1>3, <1>4 DEF Holding
  <2> QED
    BY <2>1, FS_EmptySet DEF BstInit
<1>8. BstShape(v)
  BY <1>3, <1>4, <1>5, <1>6, <1>7 DEF BstShape
<1>9. held \in [BstKeys -> Int] /\ bstMade \in 0 .. BstNodes /\ doubled = FALSE /\ astray = FALSE
  BY <1>2 DEF BstInit, null
<1> QED
  BY <1>3, <1>8, <1>9 DEF BstInv

\* Every call keeps the invariant.
LEMMA BstStep == BstInv /\ [BstNext]_bstVars => BstInv'
<1> SUFFICES ASSUME BstInv, [BstNext]_bstVars PROVE BstInv'
  OBVIOUS
<1>1. ASSUME NEW key \in BstKeys, insertKey(key) PROVE BstInv'
  BY <1>1, InsertFirstKeeps, InsertBelowKeeps
<1>2. ASSUME NEW key \in BstKeys, deleteKey(key) PROVE BstInv'
  BY <1>2, DeleteKeeps
<1>3. ASSUME UNCHANGED bstVars PROVE BstInv'
  <2>1. bst' = bst /\ bstMade' = bstMade /\ held' = held /\ doubled' = doubled /\ astray' = astray
    BY <1>3 DEF bstVars
  <2>2. ASSUME NEW u, BstShape(u) PROVE BstShape(u)'
    BY <2>1, <2>2 DEF BstShape, Untouched
  <2> QED
    BY <2>1, <2>2 DEF BstInv
<1> QED
  BY <1>1, <1>2, <1>3 DEF BstNext

\* The search tree of binary_search_tree.cpp keeps its keys in order, holds each
\* as often as it was inserted and not deleted, finds them, and loses nodes only
\* after a key was inserted that was there.
THEOREM SearchTreeKept == BstSpec => []SearchTreeHolds
<1>1. BstSpec => []BstInv
  BY BstInitInv, BstStep, PTL DEF BstSpec
<1> QED
  BY <1>1, BstInvHolds, PTL

-----------------------------------------------------------------------------
(***************************************************************************)
(* RbTree, for any keys and any number of nodes.  span[n] is the set of    *)
(* the keys that searchNode looks for at or below n, h[n] the number of    *)
(* black nodes on the way from n to m_nullNode.                            *)
(***************************************************************************)

RbTrees == [root : Nodes, link : [Sides -> [Nodes -> Nodes]], parent : [Nodes -> Nodes],
            red : [Nodes -> BOOLEAN], key : [Nodes -> Nat]]

\* The keys of n's span that belong to one side of it.
OnSide(s, j, k) == IF s = "left" THEN j < k ELSE k < j
Part(t, span, s, n) == {k \in span[n] : OnSide(s, k, t.key[n])}

\* A place below n in a tree with the nodes N: there is a child that knows its
\* parent, or no key of the tree belongs there.
Place(t, N, span, s, n) ==
  IF t.link[s][n] = nil
  THEN \A m \in N : t.key[m] \notin Part(t, span, s, n)
  ELSE /\ t.link[s][n] \in N /\ span[t.link[s][n]] = Part(t, span, s, n)
       /\ t.parent[t.link[s][n]] = n

\* The nodes N are a search tree without a key twice.
RbGrown(t, N, span) ==
  /\ N \subseteq 1 .. MaxNodes /\ span \in [Nodes -> SUBSET Nat]
  /\ t.root \in N \cup {nil} /\ (t.root = nil => N = {})
  /\ t.root # nil => span[t.root] = Nat /\ t.parent[t.root] = nil
  /\ \A n \in N : t.key[n] \in span[n]
  /\ \A m, n \in N : t.key[m] = t.key[n] => m = n
  /\ \A n \in N, s \in Sides : Place(t, N, span, s, n)
  /\ \A n \in N : n = t.root \/ (t.parent[n] \in N /\ \E s \in Sides : t.link[s][t.parent[n]] = n)

\* What is known of a node and of the child on one of its sides.
LEMMA GrownNode ==
  ASSUME NEW t \in RbTrees, NEW N, NEW span, RbGrown(t, N, span), NEW n \in N
  PROVE  /\ n \in Nodes /\ n # nil /\ nil \notin N /\ span[n] \subseteq Nat /\ t.key[n] \in span[n]
         /\ t.key[n] \in Nat /\ t.parent[n] \in Nodes /\ t.red[n] \in BOOLEAN
         /\ t.root \in N /\ t.root # nil /\ t.parent[t.root] = nil
         /\ (t.parent[n] = nil) = (n = t.root)
         /\ \A s \in Sides : t.link[s][n] \in N \cup {nil} /\ t.link[s][n] \in Nodes
<1>1. n \in 1 .. MaxNodes /\ nil \notin N /\ MaxNodes \in Nat
  BY RbAssumption DEF RbGrown, nil
<1>2. n \in Nodes /\ n # nil
  BY <1>1 DEF Nodes, nil
<1>3. t.key[n] \in Nat /\ t.parent[n] \in Nodes /\ t.red[n] \in BOOLEAN /\ \A s \in Sides : t.link[s][n] \in Nodes
  BY <1>2 DEF RbTrees
<1>4. span[n] \subseteq Nat /\ t.key[n] \in span[n]
  BY <1>2 DEF RbGrown
<1>5. t.root \in N /\ t.root # nil /\ t.parent[t.root] = nil
  BY <1>1 DEF RbGrown
<1>6. (t.parent[n] = nil) = (n = t.root)
  BY <1>1, <1>5 DEF RbGrown
<1>7. ASSUME NEW s \in Sides PROVE t.link[s][n] \in N \cup {nil}
  <2>1. Place(t, N, span, s, n)
    BY DEF RbGrown
  <2> QED
    BY <2>1 DEF Place
<1> QED
  BY <1>1, <1>2, <1>3, <1>4, <1>5, <1>6, <1>7

LEMMA SidesAre == "left" \in Sides /\ "right" \in Sides /\ "left" # "right"
                  /\ \A s \in Sides : /\ s = "left" \/ s = "right"
                                      /\ Other(s) \in Sides /\ Other(s) # s /\ Other(Other(s)) = s
                                      /\ \A u \in Sides : u = s \/ u = Other(s)
  BY DEF Sides, Other

LEMMA GrownChild ==
  ASSUME NEW t \in RbTrees, NEW N, NEW span, RbGrown(t, N, span), NEW n \in N, NEW s \in Sides,
         t.link[s][n] # nil
  PROVE  /\ t.link[s][n] \in N /\ t.link[s][n] # n /\ t.link[s][n] # t.root
         /\ t.parent[t.link[s][n]] = n /\ span[t.link[s][n]] = Part(t, span, s, n)
         /\ t.key[n] \notin span[t.link[s][n]] /\ span[t.link[s][n]] \subseteq span[n]
         /\ t.key[t.link[s][n]] \in Part(t, span, s, n)
         /\ t.link[Other(s)][n] # t.link[s][n]
<1> DEFINE c == t.link[s][n]
<1>1. Place(t, N, span, s, n)
  BY DEF RbGrown
<1>2. c \in N /\ span[c] = Part(t, span, s, n) /\ t.parent[c] = n
  BY <1>1 DEF Place
<1>3. t.key[n] \in Nat /\ n # nil /\ t.key[c] \in span[c] /\ t.parent[t.root] = nil
  BY <1>2, GrownNode
<1>4. t.key[n] \notin Part(t, span, s, n) /\ Part(t, span, s, n) \subseteq span[n]
  BY <1>3 DEF Part, OnSide
<1>5. c # n /\ c # t.root
  BY <1>2, <1>3, <1>4
<1>6. t.link[Other(s)][n] # c
  <2> SUFFICES ASSUME t.link[Other(s)][n] = c PROVE FALSE
    OBVIOUS
  <2>1. Other(s) \in Sides /\ Place(t, N, span, Other(s), n)
    BY SidesAre DEF RbGrown
  <2>2. t.key[c] \in Part(t, span, Other(s), n) /\ t.key[c] \in Part(t, span, s, n)
    BY <1>2, <1>3, <2>1 DEF Place
  <2>3. t.key[c] \in Nat
    BY <1>2, GrownNode
  <2> QED
    BY <1>3, <2>2, <2>3, SidesAre DEF Part, OnSide, Other
<1> QED
  BY <1>2, <1>3, <1>4, <1>5, <1>6

\* A node is the child of its parent on one side.
LEMMA GrownParent ==
  ASSUME NEW t \in RbTrees, NEW N, NEW span, RbGrown(t, N, span), NEW n \in N, n # t.root
  PROVE  /\ t.parent[n] \in N /\ t.parent[n] # n /\ t.parent[n] # nil /\ t.parent[n] \in Nodes
         /\ \E s \in Sides : t.link[s][t.parent[n]] = n
<1>1. t.parent[n] \in N /\ \E s \in Sides : t.link[s][t.parent[n]] = n
  BY DEF RbGrown
<1>2. n # nil
  BY GrownNode
<1> QED
  BY <1>1, <1>2, GrownNode, GrownChild

\* A node is the child of one node, on one side.
LEMMA GrownOnce ==
  ASSUME NEW t \in RbTrees, NEW N, NEW span, RbGrown(t, N, span), NEW m \in N, NEW n \in N,
         NEW s \in Sides, NEW u \in Sides, t.link[s][m] = t.link[u][n], t.link[s][m] # nil
  PROVE  m = n /\ s = u
<1>1. m = n
  BY GrownChild
<1>2. t.link[Other(s)][m] # t.link[s][m]
  BY GrownChild
<1> QED
  BY <1>1, <1>2, SidesAre

\* The nodes of the tree whose keys n's span holds: those at and below n.
UnderNode(t, N, span, n) == {m \in N : t.key[m] \in span[n]}

\* How many they are: at least one, fewer at a child, all at the root.
LEMMA UnderSize ==
  ASSUME NEW t \in RbTrees, NEW N, NEW span, RbGrown(t, N, span), NEW n \in N
  PROVE  /\ n \in UnderNode(t, N, span, n) /\ IsFiniteSet(UnderNode(t, N, span, n))
         /\ Cardinality(UnderNode(t, N, span, n)) \in Nat
         /\ Cardinality(UnderNode(t, N, span, n)) >= 1
         /\ Cardinality(UnderNode(t, N, span, n)) <= MaxNodes
<1>1. n \in UnderNode(t, N, span, n)
  BY GrownNode DEF UnderNode
<1>2. UnderNode(t, N, span, n) \subseteq 1 .. MaxNodes
  BY DEF UnderNode, RbGrown
<1>3. PICK k \in Nat : k = MaxNodes
  BY RbAssumption
<1>4. IsFiniteSet(1 .. k) /\ Cardinality(1 .. k) = k
  BY FS_Interval
<1>5. /\ IsFiniteSet(UnderNode(t, N, span, n)) /\ Cardinality(UnderNode(t, N, span, n)) \in Nat
      /\ Cardinality(UnderNode(t, N, span, n)) <= MaxNodes
  BY <1>2, <1>3, <1>4, FS_Subset, FS_CardinalityType
<1>6. Cardinality(UnderNode(t, N, span, n)) # 0
  BY <1>1, <1>5, FS_EmptySet
<1> QED
  BY <1>1, <1>5, <1>6

\* A set with an element more is larger.
LEMMA OneMoreIsLarger ==
  ASSUME NEW A, NEW B, NEW x, A \subseteq B, x \in B, x \notin A, IsFiniteSet(B)
  PROVE  /\ Cardinality(A) \in Nat /\ Cardinality(B) \in Nat /\ Cardinality(A) + 1 <= Cardinality(B)
<1>1. IsFiniteSet(B \ {x}) /\ Cardinality(B \ {x}) = Cardinality(B) - 1 /\ Cardinality(B) \in Nat
  BY FS_RemoveElement, FS_CardinalityType
<1>2. A \subseteq B \ {x}
  OBVIOUS
<1>3. Cardinality(A) <= Cardinality(B \ {x}) /\ IsFiniteSet(A)
  BY <1>1, <1>2, FS_Subset
<1>4. Cardinality(A) \in Nat
  BY <1>3, FS_CardinalityType
<1> QED
  BY <1>1, <1>3, <1>4

LEMMA UnderChild ==
  ASSUME NEW t \in RbTrees, NEW N, NEW span, RbGrown(t, N, span), NEW n \in N, NEW s \in Sides,
         t.link[s][n] # nil
  PROVE  Cardinality(UnderNode(t, N, span, t.link[s][n])) + 1 <= Cardinality(UnderNode(t, N, span, n))
<1> DEFINE c == t.link[s][n]
<1>1. c \in N /\ t.key[n] \notin span[c] /\ span[c] \subseteq span[n]
  BY GrownChild
<1>2. UnderNode(t, N, span, c) \subseteq UnderNode(t, N, span, n) /\ n \notin UnderNode(t, N, span, c)
  BY <1>1 DEF UnderNode
<1>3. n \in UnderNode(t, N, span, n) /\ IsFiniteSet(UnderNode(t, N, span, n))
  BY UnderSize
<1> HIDE DEF c
<1>4. Cardinality(UnderNode(t, N, span, c)) + 1 <= Cardinality(UnderNode(t, N, span, n))
  BY <1>2, <1>3, OneMoreIsLarger
<1> QED
  BY <1>4 DEF c

-----------------------------------------------------------------------------
\* The walk of searchNode: where it is after k steps.
IsDescent(path, key) ==
  /\ path \in [Nat -> Nodes] /\ path[0] = rb.root
  /\ \A k \in Nat : path[k + 1] = IF path[k] = nil \/ rb.key[path[k]] = key THEN path[k]
                                  ELSE Below(path[k], key)

\* Descent is that walk.
LEMMA DescentIs ==
  ASSUME rb \in RbTrees, NEW key \in Nat
  PROVE  IsDescent(Descent(key), key)
<1> DEFINE F == [m \in Nodes |-> IF m = nil \/ rb.key[m] = key THEN m ELSE Below(m, key)]
           Goes(w) == w = [k \in Nat |-> IF k = 0 THEN rb.root
                             ELSE IF w[k - 1] = nil \/ rb.key[w[k - 1]] = key THEN w[k - 1]
                                  ELSE Below(w[k - 1], key)]
<1>1. F \in [Nodes -> Nodes] /\ rb.root \in Nodes
  BY DEF RbTrees, Below, L, Sides
<1> HIDE DEF F
<1>2. PICK f \in [Nat -> Nodes] : Iteration(f, F, rb.root)
  BY <1>1, Iterates, Zenon
<1>3. f[0] = rb.root
      /\ \A k \in Nat : f[k + 1] = IF f[k] = nil \/ rb.key[f[k]] = key THEN f[k] ELSE Below(f[k], key)
  BY <1>2 DEF F, Iteration
<1>4. Goes(f)
  <2>1. ASSUME NEW k \in Nat
        PROVE  f[k] = IF k = 0 THEN rb.root
                      ELSE IF f[k - 1] = nil \/ rb.key[f[k - 1]] = key THEN f[k - 1]
                           ELSE Below(f[k - 1], key)
    <3>1. CASE k = 0
      BY <1>3, <3>1
    <3>2. CASE k # 0
      <4>1. k - 1 \in Nat /\ (k - 1) + 1 = k
        BY <3>2
      <4> QED
        BY <1>3, <3>2, <4>1
    <3> QED
      BY <3>1, <3>2
  <2> QED
    BY <2>1
<1>5. ASSUME NEW w, Goes(w)
      PROVE  \A k \in Nat : w[k] = f[k]
  <2> DEFINE T == {k \in Nat : w[k] # f[k]}
  <2> SUFFICES ASSUME T # {} PROVE FALSE
    OBVIOUS
  <2>1. PICK k \in T : \A j \in T : k <= j
    BY LeastNat
  <2>2. \A j \in Nat : w[j] = IF j = 0 THEN rb.root
                              ELSE IF w[j - 1] = nil \/ rb.key[w[j - 1]] = key THEN w[j - 1]
                                   ELSE Below(w[j - 1], key)
    BY <1>5
  <2>3. k # 0
    BY <1>3, <2>1, <2>2
  <2>4. k - 1 \in Nat /\ ~(k <= k - 1) /\ (k - 1) + 1 = k
    BY <2>1, <2>3
  <2>5. w[k - 1] = f[k - 1]
    BY <2>1, <2>4
  <2> QED
    BY <1>3, <2>1, <2>2, <2>3, <2>4, <2>5
<1>6. Descent(key) = CHOOSE w : Goes(w)
  BY DEF Descent
<1>7. Goes(CHOOSE w : Goes(w))
  BY <1>4
<1>8. Goes(Descent(key))
  BY <1>6, <1>7
<1>9. \A k \in Nat : Descent(key)[k] = f[k]
  BY <1>5, <1>8
<1>10. Descent(key) \in [Nat -> Nodes]
  <2>1. Descent(key) = [k \in Nat |-> Descent(key)[k]]
    BY <1>8
  <2> HIDE DEF Goes
  <2> QED
    BY <1>9, <2>1
<1> HIDE DEF Goes
<1> QED
  BY <1>3, <1>9, <1>10 DEF IsDescent

\* Where the walk goes from a node it does not end at.
Towards(t, n, key) == IF key < t.key[n] THEN "left" ELSE "right"

LEMMA BelowIs ==
  ASSUME rb \in RbTrees, NEW N, NEW span, RbGrown(rb, N, span), NEW n \in N, NEW key \in span[n],
         rb.key[n] # key
  PROVE  /\ Towards(rb, n, key) \in Sides /\ Below(n, key) = rb.link[Towards(rb, n, key)][n]
         /\ key \in Part(rb, span, Towards(rb, n, key), n)
         /\ \A s \in Sides : key \in Part(rb, span, s, n) => s = Towards(rb, n, key)
<1>1. rb.key[n] \in Nat /\ key \in Nat
  BY GrownNode
<1>2. Towards(rb, n, key) \in Sides
  BY DEF Towards, Sides
<1>3. Below(n, key) = rb.link[Towards(rb, n, key)][n]
  BY DEF Below, L, Towards
<1>4. \A s \in Sides : key \in Part(rb, span, s, n) <=> s = Towards(rb, n, key)
  BY <1>1, SidesAre DEF Part, OnSide, Towards, Sides
<1> QED
  BY <1>2, <1>3, <1>4

\* The walk stays where it ends.
LEMMA WalkStays ==
  ASSUME NEW path, NEW key, IsDescent(path, key), NEW i \in Nat,
         path[i] = nil \/ rb.key[path[i]] = key, NEW j \in Nat, i <= j
  PROVE  path[j] = path[i]
<1> DEFINE T == {m \in Nat : i <= m /\ path[m] # path[i]}
<1> SUFFICES ASSUME T # {} PROVE FALSE
  OBVIOUS
<1>1. PICK m \in T : \A k \in T : m <= k
  BY LeastNat
<1>2. m # i /\ m - 1 \in Nat /\ i <= m - 1 /\ ~(m <= m - 1) /\ (m - 1) + 1 = m
  BY <1>1
<1>3. path[m - 1] = path[i]
  BY <1>1, <1>2
<1> QED
  BY <1>1, <1>2, <1>3 DEF IsDescent

\* After k steps it is at nil, at the key, or at a node with k nodes less
\* below it than there can be, and where the key belongs.
Walking(path, key, N, span, k) ==
  \/ path[k] = nil
  \/ /\ path[k] \in N /\ key \in span[path[k]]
     /\ rb.key[path[k]] = key \/ Cardinality(UnderNode(rb, N, span, path[k])) + k <= MaxNodes

LEMMA WalkGoes ==
  ASSUME rb \in RbTrees, NEW N, NEW span, RbGrown(rb, N, span), NEW path, NEW key \in Nat,
         IsDescent(path, key), NEW i \in Nat
  PROVE  Walking(path, key, N, span, i)
<1> DEFINE T == {m \in Nat : ~Walking(path, key, N, span, m)}
<1> SUFFICES ASSUME T # {} PROVE FALSE
  OBVIOUS
<1>1. PICK k \in T : \A j \in T : k <= j
  BY LeastNat
<1>2. k # 0
  <2>1. Walking(path, key, N, span, 0)
    <3>1. CASE rb.root = nil
      BY <3>1 DEF IsDescent, Walking
    <3>2. CASE rb.root # nil
      <4>1. rb.root \in N /\ span[rb.root] = Nat
        BY <3>2 DEF RbGrown
      <4>2. Cardinality(UnderNode(rb, N, span, rb.root)) + 0 <= MaxNodes
        BY <4>1, UnderSize, RbAssumption
      <4> QED
        BY <4>1, <4>2 DEF IsDescent, Walking
    <3> QED
      BY <3>1, <3>2
  <2> QED
    BY <1>1, <2>1
<1>3. k - 1 \in Nat /\ ~(k <= k - 1) /\ (k - 1) + 1 = k
  BY <1>1, <1>2
<1>4. Walking(path, key, N, span, k - 1)
  BY <1>1, <1>3
<1> DEFINE m == path[k - 1]
<1>5. path[k] = IF m = nil \/ rb.key[m] = key THEN m ELSE Below(m, key)
  BY <1>3 DEF IsDescent
<1>6. CASE m = nil
  BY <1>1, <1>5, <1>6 DEF Walking
<1>7. CASE m # nil /\ rb.key[m] = key
  BY <1>1, <1>4, <1>5, <1>7 DEF Walking
<1>8. CASE m # nil /\ rb.key[m] # key
  <2>1. m \in N /\ key \in span[m] /\ Cardinality(UnderNode(rb, N, span, m)) + (k - 1) <= MaxNodes
    BY <1>4, <1>8 DEF Walking
  <2> DEFINE s == Towards(rb, m, key)
             c == rb.link[s][m]
  <2>2. s \in Sides /\ path[k] = c /\ key \in Part(rb, span, s, m)
    BY <1>5, <1>8, <2>1, BelowIs
  <2>3. CASE c = nil
    BY <1>1, <2>2, <2>3 DEF Walking
  <2>4. CASE c # nil
    <3>1. c \in N /\ key \in span[c]
      BY <2>1, <2>2, <2>4, GrownChild
    <3>2. Cardinality(UnderNode(rb, N, span, c)) + 1 <= Cardinality(UnderNode(rb, N, span, m))
      BY <2>1, <2>2, <2>4, UnderChild
    <3>3. Cardinality(UnderNode(rb, N, span, c)) \in Nat /\ Cardinality(UnderNode(rb, N, span, m)) \in Nat
      BY <2>1, <3>1, UnderSize
    <3> HIDE DEF c
    <3>4. Cardinality(UnderNode(rb, N, span, c)) + k <= MaxNodes
      BY <1>1, <2>1, <3>2, <3>3, RbAssumption
    <3> QED
      BY <1>1, <2>2, <3>1, <3>4 DEF Walking
  <2> QED
    BY <2>3, <2>4
<1> QED
  BY <1>6, <1>7, <1>8

\* It passes every node whose span has the key.
LEMMA WalkMeets ==
  ASSUME rb \in RbTrees, NEW N, NEW span, RbGrown(rb, N, span), NEW path, NEW key \in Nat,
         IsDescent(path, key), NEW n \in N, key \in span[n]
  PROVE  \E i \in Nat : path[i] = n
<1> DEFINE Missed(m) == m \in N /\ key \in span[m] /\ \A i \in Nat : path[i] # m
           C(m) == Cardinality(UnderNode(rb, N, span, m))
           T == {d \in Nat : \E m \in N : Missed(m) /\ C(m) + d = MaxNodes}
<1> SUFFICES ASSUME Missed(n) PROVE FALSE
  OBVIOUS
<1>1. T # {}
  <2>1. C(n) \in Nat /\ C(n) <= MaxNodes
    BY UnderSize
  <2>2. MaxNodes - C(n) \in Nat /\ C(n) + (MaxNodes - C(n)) = MaxNodes
    BY <2>1, RbAssumption
  <2> QED
    BY <2>2
<1>2. PICK d \in T : \A e \in T : d <= e
  BY <1>1, LeastNat
<1>3. PICK m \in N : Missed(m) /\ C(m) + d = MaxNodes
  BY <1>2
<1>4. m # rb.root
  BY <1>3 DEF IsDescent
<1> DEFINE p == rb.parent[m]
<1>5. p \in N /\ m # nil
  BY <1>4, GrownParent, GrownNode
<1>6. PICK s \in Sides : rb.link[s][p] = m
  BY <1>4, GrownParent
<1>7. span[m] = Part(rb, span, s, p) /\ span[m] \subseteq span[p] /\ rb.key[p] \notin span[m]
  BY <1>5, <1>6, GrownChild
<1>8. C(m) + 1 <= C(p) /\ C(m) \in Nat /\ C(p) \in Nat /\ C(p) <= MaxNodes
  BY <1>5, <1>6, UnderChild, UnderSize
<1>9. \E i \in Nat : path[i] = p
  <2> SUFFICES ASSUME \A i \in Nat : path[i] # p PROVE FALSE
    OBVIOUS
  <2>1. Missed(p)
    BY <1>3, <1>5, <1>7
  <2> HIDE DEF Missed, C, p
  <2>2. MaxNodes - C(p) \in Nat /\ C(p) + (MaxNodes - C(p)) = MaxNodes
    BY <1>8, RbAssumption
  <2>3. d <= MaxNodes - C(p)
    BY <1>2, <1>5, <2>1, <2>2
  <2>4. d \in Nat /\ C(m) + d = MaxNodes
    BY <1>2, <1>3
  <2> QED
    BY <1>8, <2>3, <2>4, RbAssumption
<1>10. PICK i \in Nat : path[i] = p
  BY <1>9
<1>11. p # nil /\ rb.key[p] # key /\ key \in span[p]
  BY <1>3, <1>5, <1>7, GrownNode
<1>12. Below(p, key) = m
  BY <1>3, <1>5, <1>6, <1>7, <1>11, BelowIs
<1>13. path[i + 1] = m /\ i + 1 \in Nat
  BY <1>10, <1>11, <1>12 DEF IsDescent
<1> QED
  BY <1>3, <1>13

\* searchNode finds the node with the key, if there is one.
LEMMA SearchNodeIs ==
  ASSUME rb \in RbTrees, NEW N, NEW span, RbGrown(rb, N, span), NEW key \in Nat
  PROVE  /\ searchNode(key) \in N \cup {nil}
         /\ searchNode(key) # nil => rb.key[searchNode(key)] = key
         /\ \A m \in N : rb.key[m] = key => searchNode(key) = m
<1> DEFINE path == Descent(key)
           k == MaxNodes + 1
<1>1. IsDescent(path, key) /\ k \in Nat /\ searchNode(key) = path[k]
  BY DescentIs, RbAssumption DEF searchNode
<1> HIDE DEF path
<1>2. Walking(path, key, N, span, k)
  BY <1>1, WalkGoes
<1>3. path[k] = nil \/ (path[k] \in N /\ rb.key[path[k]] = key)
  <2>1. CASE path[k] = nil
    BY <2>1
  <2>2. CASE path[k] # nil
    <3>1. path[k] \in N
      BY <1>2, <2>2 DEF Walking
    <3>2. Cardinality(UnderNode(rb, N, span, path[k])) \in Nat
      BY <3>1, UnderSize
    <3>3. ~(Cardinality(UnderNode(rb, N, span, path[k])) + k <= MaxNodes)
      BY <3>2, RbAssumption
    <3> QED
      BY <1>2, <2>2, <3>1, <3>3 DEF Walking
  <2> QED
    BY <2>1, <2>2
<1>4. ASSUME NEW m \in N, rb.key[m] = key PROVE path[k] = m
  <2>1. CASE path[k] = nil
    <3>1. PICK i \in Nat : path[i] = m
      BY <1>1, <1>4, WalkMeets, GrownNode
    <3>2. m # nil
      BY GrownNode
    <3>3. CASE i <= k
      BY <1>1, <1>4, <3>1, <3>3, WalkStays
    <3>4. CASE k <= i
      BY <1>1, <2>1, <3>1, <3>2, <3>4, WalkStays
    <3> QED
      BY <1>1, <3>3, <3>4
  <2>2. CASE path[k] # nil
    BY <1>3, <1>4, <2>2 DEF RbGrown
  <2> QED
    BY <2>1, <2>2
<1> QED
  BY <1>1, <1>3, <1>4

\* Where insertNode hangs a new key: the one empty place it belongs to.
HangsAt(t, N, span, Y, key) ==
  /\ Y \in N /\ key \in span[Y] /\ t.key[Y] # key
  /\ Towards(t, Y, key) \in Sides /\ t.link[Towards(t, Y, key)][Y] = nil
  /\ key \in Part(t, span, Towards(t, Y, key), Y)
  /\ \A n \in N, s \in Sides : t.link[s][n] = nil /\ key \in Part(t, span, s, n)
                                 => n = Y /\ s = Towards(t, Y, key)

LEMMA HangIs ==
  ASSUME rb \in RbTrees, NEW N, NEW span, RbGrown(rb, N, span), NEW key \in Nat,
         rb.root # nil, searchNode(key) = nil
  PROVE  HangsAt(rb, N, span, Hang(key), key)
<1> DEFINE path == Descent(key)
           k == MaxNodes + 1
           Last(i) == i \in 0 .. MaxNodes /\ path[i] # nil /\ path[i + 1] = nil
           j == CHOOSE i \in 0 .. MaxNodes : path[i] # nil /\ path[i + 1] = nil
           Y == Hang(key)
<1>1. IsDescent(path, key) /\ k \in Nat /\ searchNode(key) = path[k]
  BY DescentIs, RbAssumption DEF searchNode
<1>2. Y = path[j]
  BY DEF Hang
<1>3. ASSUME NEW n \in N PROVE rb.key[n] # key
  <2>1. rb.key[n] = key => searchNode(key) = n
    BY SearchNodeIs
  <2> QED
    BY <2>1, GrownNode
<1> HIDE DEF path
<1>4. \E i \in Nat : Last(i)
  <2> DEFINE T == {i \in Nat : path[i] = nil}
  <2>1. k \in T
    BY <1>1
  <2>2. PICK i \in T : \A m \in T : i <= m
    BY <2>1, LeastNat
  <2>3. i # 0
    BY <1>1, <2>2 DEF IsDescent
  <2>4. i - 1 \in Nat /\ ~(i <= i - 1) /\ (i - 1) + 1 = i /\ i <= k
    BY <2>1, <2>2, <2>3
  <2>5. path[i - 1] # nil /\ i - 1 \in 0 .. MaxNodes
    BY <2>2, <2>4, RbAssumption
  <2> QED
    BY <2>2, <2>4, <2>5
<1>5. Last(j)
  BY <1>4
<1> HIDE DEF j
<1>6. j \in Nat /\ j + 1 \in Nat /\ path[j] # nil /\ path[j + 1] = nil
  BY <1>5, RbAssumption
<1>7. Y \in N /\ key \in span[Y]
  <2>1. Walking(path, key, N, span, j)
    BY <1>1, <1>6, WalkGoes
  <2> QED
    BY <1>2, <1>6, <2>1 DEF Walking
<1>8. rb.key[Y] # key
  BY <1>3, <1>7
<1> HIDE DEF Y
<1>9. /\ Towards(rb, Y, key) \in Sides /\ Below(Y, key) = rb.link[Towards(rb, Y, key)][Y]
      /\ key \in Part(rb, span, Towards(rb, Y, key), Y)
  BY <1>7, <1>8, BelowIs
<1>10. rb.link[Towards(rb, Y, key)][Y] = nil
  BY <1>1, <1>2, <1>6, <1>8, <1>9 DEF IsDescent
<1>11. ASSUME NEW n \in N, NEW s \in Sides, rb.link[s][n] = nil, key \in Part(rb, span, s, n)
       PROVE  n = Y /\ s = Towards(rb, Y, key)
  <2>1. key \in span[n] /\ rb.key[n] # key /\ n # nil
    BY <1>3, <1>11, GrownNode DEF Part
  <2>2. PICK i \in Nat : path[i] = n
    BY <1>1, <2>1, WalkMeets
  <2>3. s = Towards(rb, n, key) /\ Below(n, key) = rb.link[Towards(rb, n, key)][n]
    BY <1>11, <2>1, BelowIs
  <2>4. path[i + 1] = nil /\ i + 1 \in Nat
    BY <1>1, <1>11, <2>1, <2>2, <2>3 DEF IsDescent
  <2>5. ~(i + 1 <= j)
    BY <1>1, <1>6, <2>4, WalkStays
  <2>6. ~(j + 1 <= i)
    BY <1>1, <1>6, <2>1, <2>2, WalkStays
  <2>7. i = j
    BY <1>6, <2>5, <2>6
  <2> QED
    BY <1>2, <2>2, <2>3, <2>7
<1>12. HangsAt(rb, N, span, Y, key)
  BY <1>7, <1>8, <1>9, <1>10, <1>11 DEF HangsAt
<1> QED
  BY <1>12 DEF Y

-----------------------------------------------------------------------------
\* What Reached computes: all nodes of the tree.
LEMMA ReachedIs ==
  ASSUME rb \in RbTrees, NEW N, NEW span, RbGrown(rb, N, span)
  PROVE  Reached = N
<1> DEFINE Kids(A) == {L(s, n) : s \in Sides, n \in A} \ {nil}
           F == [A \in SUBSET Nodes |-> A \cup Kids(A)]
           Goes(w) == w = [k \in Nat |-> IF k = 0 THEN {rb.root} \ {nil}
                             ELSE w[k - 1] \cup Kids(w[k - 1])]
           x == {rb.root} \ {nil}
<1>1. F \in [SUBSET Nodes -> SUBSET Nodes] /\ x \in SUBSET Nodes
  <2>1. ASSUME NEW A \in SUBSET Nodes PROVE A \cup Kids(A) \in SUBSET Nodes
    BY DEF RbTrees, L
  <2> HIDE DEF Kids
  <2> QED
    BY <2>1 DEF RbTrees
<1>2. \A A \in SUBSET Nodes : F[A] = A \cup Kids(A)
  OBVIOUS
<1> HIDE DEF F, Kids, x
<1>3. PICK f \in [Nat -> SUBSET Nodes] : Iteration(f, F, x)
  BY <1>1, Iterates, Zenon
<1>4. f[0] = {rb.root} \ {nil}
      /\ \A k \in Nat : f[k + 1] = f[k] \cup Kids(f[k])
  BY <1>2, <1>3 DEF x, Iteration
<1>5. Goes(f)
  <2>1. ASSUME NEW k \in Nat
        PROVE  f[k] = IF k = 0 THEN {rb.root} \ {nil}
                      ELSE f[k - 1] \cup Kids(f[k - 1])
    <3>1. CASE k = 0
      BY <1>4, <3>1
    <3>2. CASE k # 0
      <4>1. k - 1 \in Nat /\ (k - 1) + 1 = k
        BY <3>2
      <4> QED
        BY <1>4, <3>2, <4>1
    <3> QED
      BY <3>1, <3>2
  <2> QED
    BY <2>1
<1>6. ASSUME NEW w, Goes(w)
      PROVE  \A k \in Nat : w[k] = f[k]
  <2> DEFINE T == {k \in Nat : w[k] # f[k]}
  <2> SUFFICES ASSUME T # {} PROVE FALSE
    OBVIOUS
  <2>1. PICK k \in T : \A j \in T : k <= j
    BY LeastNat
  <2>2. \A j \in Nat : w[j] = IF j = 0 THEN {rb.root} \ {nil}
                              ELSE w[j - 1] \cup Kids(w[j - 1])
    BY <1>6
  <2>3. k # 0
    BY <1>4, <2>1, <2>2
  <2>4. k - 1 \in Nat /\ ~(k <= k - 1) /\ (k - 1) + 1 = k
    BY <2>1, <2>3
  <2>5. w[k - 1] = f[k - 1]
    BY <2>1, <2>4
  <2> QED
    BY <1>4, <2>1, <2>2, <2>3, <2>4, <2>5
<1>7. Reached = (CHOOSE w : Goes(w))[MaxNodes]
  BY DEF Reached, Kids
<1> HIDE DEF Goes
<1>8. Goes(CHOOSE w : Goes(w))
  BY <1>5
<1>9. Reached = f[MaxNodes]
  BY <1>6, <1>7, <1>8, RbAssumption
<1>10. ASSUME NEW i \in Nat PROVE f[i] \subseteq N
  <2> DEFINE T == {k \in Nat : ~(f[k] \subseteq N)}
  <2> SUFFICES ASSUME T # {} PROVE FALSE
    OBVIOUS
  <2>1. PICK k \in T : \A j \in T : k <= j
    BY LeastNat
  <2>2. k # 0
    BY <1>4, <2>1 DEF RbGrown
  <2>3. k - 1 \in Nat /\ ~(k <= k - 1) /\ (k - 1) + 1 = k
    BY <2>1, <2>2
  <2>4. f[k - 1] \subseteq N
    BY <2>1, <2>3
  <2>5. \A n \in N, s \in Sides : L(s, n) \in N \cup {nil}
    BY GrownNode DEF L
  <2>6. f[k] = f[k - 1] \cup Kids(f[k - 1])
    BY <1>4, <2>3
  <2> QED
    BY <2>1, <2>4, <2>5, <2>6 DEF Kids
<1> DEFINE C(n) == Cardinality(UnderNode(rb, N, span, n))
           Near(k) == \A n \in N : C(n) + k >= MaxNodes => n \in f[k]
<1>11. \A n \in N : C(n) \in Nat /\ C(n) <= MaxNodes
  BY UnderSize
<1>12. ASSUME NEW n \in N, n # rb.root
       PROVE  /\ rb.parent[n] \in N /\ \E s \in Sides : n = L(s, rb.parent[n])
              /\ C(n) + 1 <= C(rb.parent[n]) /\ n # nil
  <2>1. rb.parent[n] \in N /\ n # nil
    BY <1>12, GrownParent, GrownNode
  <2>2. PICK s \in Sides : rb.link[s][rb.parent[n]] = n
    BY <1>12, GrownParent
  <2>3. C(rb.link[s][rb.parent[n]]) + 1 <= C(rb.parent[n])
    BY <2>1, <2>2, UnderChild
  <2> QED
    BY <2>1, <2>2, <2>3 DEF L
<1> HIDE DEF C
<1>13. ASSUME NEW i \in Nat PROVE rb.root # nil => rb.root \in f[i]
  <2> DEFINE T == {k \in Nat : rb.root \notin f[k]}
  <2> SUFFICES ASSUME T # {}, rb.root # nil PROVE FALSE
    OBVIOUS
  <2>1. PICK k \in T : \A j \in T : k <= j
    BY LeastNat
  <2>2. k # 0
    BY <1>4, <2>1
  <2>3. k - 1 \in Nat /\ ~(k <= k - 1) /\ (k - 1) + 1 = k
    BY <2>1, <2>2
  <2>4. f[k] = f[k - 1] \cup Kids(f[k - 1]) /\ rb.root \in f[k - 1]
    BY <1>4, <2>1, <2>3
  <2> QED
    BY <2>1, <2>4
<1>14. ASSUME NEW i \in Nat PROVE Near(i)
  <2> DEFINE T == {k \in Nat : ~Near(k)}
  <2> SUFFICES ASSUME T # {} PROVE FALSE
    OBVIOUS
  <2>1. PICK k \in T : \A j \in T : k <= j
    BY LeastNat
  <2>2. PICK n \in N : C(n) + k >= MaxNodes /\ n \notin f[k]
    BY <2>1
  <2>3. n # rb.root
    BY <1>13, <2>1, <2>2, GrownNode
  <2> DEFINE p == rb.parent[n]
  <2>4. p \in N /\ C(n) + 1 <= C(p) /\ n # nil /\ \E s \in Sides : n = L(s, p)
    BY <1>12, <2>3
  <2> HIDE DEF p
  <2>5. k # 0
    BY <1>11, <2>2, <2>4, RbAssumption
  <2>6. k - 1 \in Nat /\ ~(k <= k - 1) /\ (k - 1) + 1 = k
    BY <2>1, <2>5
  <2>7. Near(k - 1)
    BY <2>1, <2>6
  <2>8. C(p) + (k - 1) >= MaxNodes
    BY <1>11, <2>2, <2>4, <2>6, RbAssumption
  <2>9. p \in f[k - 1]
    BY <2>4, <2>7, <2>8
  <2>10. n \in f[k]
    <3>1. f[k] = f[k - 1] \cup Kids(f[k - 1])
      BY <1>4, <2>6
    <3> QED
      BY <2>4, <2>9, <3>1 DEF Kids
  <2> QED
    BY <2>2, <2>10
<1>15. \A n \in N : C(n) + MaxNodes >= MaxNodes
  BY <1>11, RbAssumption
<1>16. N \subseteq f[MaxNodes]
  BY <1>14, <1>15, RbAssumption
<1> QED
  BY <1>9, <1>10, <1>16, RbAssumption

\* Every way down from a node n to nil passes h[n] black nodes.
Black(t, n) == IF t.red[n] THEN 0 ELSE 1
Heights(t, N, h) ==
  /\ h \in [Nodes -> Nat] /\ h[nil] = 0
  /\ \A n \in N, s \in Sides : h[n] = h[t.link[s][n]] + Black(t, n)

\* What Blacks computes.
LEMMA BlacksAre ==
  ASSUME rb \in RbTrees, NEW N, NEW span, RbGrown(rb, N, span), NEW h, Heights(rb, N, h)
  PROVE  Blacks(rb.root) \subseteq {h[rb.root]}
<1> DEFINE One(b, m) == {c + (IF rb.red[m] THEN 0 ELSE 1) : c \in b[L("left", m)] \cup b[L("right", m)]}
           B == [Nodes -> SUBSET Nat]
           F == [b \in B |-> [m \in Nodes |-> IF m = nil THEN {0} ELSE One(b, m)]]
           x == [m \in Nodes |-> {0}]
           Goes(w) == w = [k \in Nat |-> [m \in Nodes |-> IF k = 0 \/ m = nil THEN {0} ELSE One(w[k - 1], m)]]
<1>1. F \in [B -> B] /\ x \in B
  <2>1. ASSUME NEW b \in B PROVE [m \in Nodes |-> IF m = nil THEN {0} ELSE One(b, m)] \in B
    <3>1. ASSUME NEW m \in Nodes PROVE One(b, m) \in SUBSET Nat
      <4>1. L("left", m) \in Nodes /\ L("right", m) \in Nodes
        BY SidesAre DEF RbTrees, L
      <4>2. b[L("left", m)] \subseteq Nat /\ b[L("right", m)] \subseteq Nat
        BY <4>1
      <4> QED
        BY <4>2
    <3> HIDE DEF One
    <3> QED
      BY <3>1
  <2> HIDE DEF One
  <2> QED
    BY <2>1
<1>2. \A b \in B, m \in Nodes : F[b][m] = IF m = nil THEN {0} ELSE One(b, m)
  BY Zenon
<1>3. \A m \in Nodes : x[m] = {0}
  OBVIOUS
<1> HIDE DEF F, x, One
<1>4. PICK f \in [Nat -> B] : Iteration(f, F, x)
  BY <1>1, Iterates, Zenon
<1> HIDE DEF B
<1>5. \A k \in Nat : f[k] \in B
  BY <1>4
<1>6. /\ \A m \in Nodes : f[0][m] = {0}
      /\ \A k \in Nat, m \in Nodes : f[k + 1][m] = IF m = nil THEN {0} ELSE One(f[k], m)
  <2>1. f[0] = x /\ \A k \in Nat : f[k + 1] = F[f[k]]
    BY <1>4 DEF Iteration
  <2>2. ASSUME NEW k \in Nat, NEW m \in Nodes
        PROVE  f[k + 1][m] = IF m = nil THEN {0} ELSE One(f[k], m)
    <3>1. f[k] \in B /\ f[k + 1] = F[f[k]]
      BY <1>5, <2>1
    <3> QED
      BY <1>2, <3>1, Zenon
  <2> QED
    BY <1>3, <2>1, <2>2
<1>7. ASSUME NEW k \in Nat
      PROVE  f[k] = [m \in Nodes |-> IF k = 0 \/ m = nil THEN {0} ELSE One(f[k - 1], m)]
  <2>1. f[k] \in [Nodes -> SUBSET Nat]
    BY <1>5 DEF B
  <2>2. ASSUME NEW m \in Nodes PROVE f[k][m] = IF k = 0 \/ m = nil THEN {0} ELSE One(f[k - 1], m)
    <3>1. CASE k = 0
      BY <1>6, <3>1
    <3>2. CASE k # 0
      <4>1. k - 1 \in Nat /\ (k - 1) + 1 = k
        BY <3>2
      <4> QED
        BY <1>6, <3>2, <4>1
    <3> QED
      BY <3>1, <3>2
  <2> QED
    BY <2>1, <2>2
<1>8. Goes(f)
  BY <1>4, <1>7
<1>9. ASSUME NEW w, Goes(w)
      PROVE  \A k \in Nat : w[k] = f[k]
  <2> DEFINE T == {k \in Nat : w[k] # f[k]}
  <2> SUFFICES ASSUME T # {} PROVE FALSE
    OBVIOUS
  <2>1. PICK k \in T : \A j \in T : k <= j
    BY LeastNat
  <2>2. w[k] = [m \in Nodes |-> IF k = 0 \/ m = nil THEN {0} ELSE One(w[k - 1], m)]
    BY <1>9, <2>1
  <2>3. CASE k = 0
    BY <1>7, <2>1, <2>2, <2>3
  <2>4. CASE k # 0
    <3>1. k - 1 \in Nat /\ ~(k <= k - 1)
      BY <2>1, <2>4
    <3>2. w[k - 1] = f[k - 1]
      BY <2>1, <3>1
    <3> QED
      BY <1>7, <2>1, <2>2, <3>2
  <2> QED
    BY <2>3, <2>4
<1>10. Blacks(rb.root) = (CHOOSE w : Goes(w))[MaxNodes + 1][rb.root]
  BY DEF Blacks, One
<1> HIDE DEF Goes
<1>11. Goes(CHOOSE w : Goes(w))
  BY <1>8
<1>12. Blacks(rb.root) = f[MaxNodes + 1][rb.root] /\ MaxNodes + 1 \in Nat
  BY <1>9, <1>10, <1>11, RbAssumption
<1> DEFINE C(n) == Cardinality(UnderNode(rb, N, span, n))
           Known(k) == \A n \in N : C(n) + 1 <= k => f[k][n] \subseteq {h[n]}
<1>13. \A n \in N : C(n) \in Nat /\ C(n) <= MaxNodes
  BY UnderSize
<1>14. \A n \in N, s \in Sides : L(s, n) # nil => L(s, n) \in N /\ C(L(s, n)) + 1 <= C(n)
  BY UnderChild, GrownChild DEF L
<1> HIDE DEF C
<1>15. ASSUME NEW i \in Nat PROVE Known(i)
  <2> DEFINE T == {k \in Nat : ~Known(k)}
  <2> SUFFICES ASSUME T # {} PROVE FALSE
    OBVIOUS
  <2>1. PICK k \in T : \A j \in T : k <= j
    BY LeastNat
  <2>2. PICK n \in N : C(n) + 1 <= k /\ ~(f[k][n] \subseteq {h[n]})
    BY <2>1
  <2>3. k \in Nat /\ k - 1 \in Nat /\ ~(k <= k - 1) /\ (k - 1) + 1 = k
    BY <1>13, <2>1, <2>2
  <2>4. Known(k - 1)
    BY <2>1, <2>3
  <2>5. ASSUME NEW s \in Sides
        PROVE  L(s, n) \in Nodes /\ f[k - 1][L(s, n)] \subseteq {h[L(s, n)]}
    <3>1. L(s, n) \in Nodes
      BY GrownNode DEF L
    <3>2. CASE L(s, n) = nil
      <4>1. f[k - 1][nil] = {0}
        BY <1>7, <2>3, <3>1, <3>2
      <4> QED
        BY <3>1, <3>2, <4>1 DEF Heights
    <3>3. CASE L(s, n) # nil
      <4>1. L(s, n) \in N /\ C(L(s, n)) + 1 <= k - 1
        BY <1>13, <1>14, <2>2, <2>3, <3>3
      <4> QED
        BY <2>4, <3>1, <4>1
    <3> QED
      BY <3>2, <3>3
  <2>6. n \in Nodes /\ n # nil
    BY GrownNode
  <2>7. f[k][n] = One(f[k - 1], n)
    BY <1>6, <2>3, <2>6
  <2>8. \A s \in Sides : h[n] = h[L(s, n)] + (IF rb.red[n] THEN 0 ELSE 1)
    <3> TAKE s \in Sides
    <3>1. h[n] = h[rb.link[s][n]] + Black(rb, n)
      BY DEF Heights
    <3> QED
      BY <3>1 DEF L, Black
  <2>9. ASSUME NEW c \in f[k - 1][L("left", n)] \cup f[k - 1][L("right", n)]
        PROVE  c + (IF rb.red[n] THEN 0 ELSE 1) = h[n]
    <3>1. c = h[L("left", n)] \/ c = h[L("right", n)]
      BY <2>5, SidesAre
    <3> QED
      BY <2>8, <3>1, SidesAre
  <2>10. f[k][n] \subseteq {h[n]}
    BY <2>7, <2>9 DEF One
  <2> QED
    BY <2>2, <2>10
<1>16. CASE rb.root = nil
  <2>2. MaxNodes \in Nat /\ MaxNodes + 1 \in Nat /\ MaxNodes + 1 # 0 /\ (MaxNodes + 1) - 1 = MaxNodes
    BY RbAssumption
  <2>3. nil \in Nodes
    BY <2>2 DEF Nodes, nil
  <2>4. f[MaxNodes + 1] = [m \in Nodes |-> IF MaxNodes + 1 = 0 \/ m = nil THEN {0} ELSE One(f[MaxNodes], m)]
    BY <1>7, <2>2
  <2>1. f[MaxNodes + 1][nil] = {0}
    BY <2>3, <2>4
  <2> QED
    BY <1>12, <1>16, <2>1 DEF Heights
<1>17. CASE rb.root # nil
  <2>1. rb.root \in N
    BY <1>17 DEF RbGrown
  <2>2. C(rb.root) + 1 <= MaxNodes + 1
    BY <1>13, <2>1, RbAssumption
  <2> QED
    BY <1>12, <1>15, <2>1, <2>2
<1> QED
  BY <1>16, <1>17

-----------------------------------------------------------------------------
LEMMA OnSideIs ==
  ASSUME NEW s \in Sides, NEW i \in Nat, NEW j \in Nat
  PROVE  /\ ~OnSide(s, i, i) /\ OnSide(s, i, j) = OnSide(Other(s), j, i)
         /\ ~(OnSide(s, i, j) /\ OnSide(Other(s), i, j))
         /\ i # j => OnSide(s, i, j) \/ OnSide(Other(s), i, j)
         /\ \A k \in Nat : OnSide(s, i, j) /\ OnSide(s, j, k) => OnSide(s, i, k)
BY SidesAre DEF OnSide, Other, Sides

\* The fields of the tree have the types of RbTrees.
LEMMA RbFields ==
  ASSUME NEW t \in RbTrees
  PROVE  /\ t.root \in Nodes /\ t.parent \in [Nodes -> Nodes] /\ t.red \in [Nodes -> BOOLEAN]
         /\ t.key \in [Nodes -> Nat] /\ \A s \in Sides : t.link[s] \in [Nodes -> Nodes]
         /\ \A s \in Sides, n \in Nodes : t.link[s][n] \in Nodes
         /\ nil \in Nodes
<1>1. nil \in Nodes
  BY RbAssumption DEF Nodes, nil
<1>2. /\ t.root \in Nodes /\ t.parent \in [Nodes -> Nodes] /\ t.red \in [Nodes -> BOOLEAN]
      /\ t.key \in [Nodes -> Nat] /\ t.link \in [Sides -> [Nodes -> Nodes]]
  BY DEF RbTrees
<1> QED
  BY <1>1, <1>2

\* One assignment to the tree changes that, and nothing else.
LEMMA SetLink ==
  ASSUME NEW t \in RbTrees, NEW side \in Sides, NEW p \in Nodes, NEW n \in Nodes
  PROVE  LET r == [t EXCEPT !.link[side][p] = n]
         IN  /\ r \in RbTrees /\ r.root = t.root /\ r.parent = t.parent /\ r.red = t.red /\ r.key = t.key
             /\ \A s \in Sides, m \in Nodes : r.link[s][m] = IF m = p /\ s = side THEN n ELSE t.link[s][m]
<1> DEFINE r == [t EXCEPT !.link[side][p] = n]
<1>1. r \in RbTrees
  BY RbFields, SidesAre DEF RbTrees
<1>2. r.root = t.root /\ r.parent = t.parent /\ r.red = t.red /\ r.key = t.key
  BY DEF RbTrees
<1>3. \A s \in Sides, m \in Nodes : r.link[s][m] = IF m = p /\ s = side THEN n ELSE t.link[s][m]
  BY RbFields, SidesAre DEF RbTrees
<1> QED
  BY <1>1, <1>2, <1>3

LEMMA SetParent ==
  ASSUME NEW t \in RbTrees, NEW p \in Nodes, NEW n \in Nodes
  PROVE  LET r == [t EXCEPT !.parent[p] = n]
         IN  /\ r \in RbTrees /\ r.root = t.root /\ r.link = t.link /\ r.red = t.red /\ r.key = t.key
             /\ \A m \in Nodes : r.parent[m] = IF m = p THEN n ELSE t.parent[m]
BY RbFields DEF RbTrees

LEMMA SetRed ==
  ASSUME NEW t \in RbTrees, NEW p \in Nodes, NEW n \in BOOLEAN
  PROVE  LET r == [t EXCEPT !.red[p] = n]
         IN  /\ r \in RbTrees /\ r.root = t.root /\ r.link = t.link /\ r.parent = t.parent /\ r.key = t.key
             /\ \A m \in Nodes : r.red[m] = IF m = p THEN n ELSE t.red[m]
BY RbFields DEF RbTrees

LEMMA SetKey ==
  ASSUME NEW t \in RbTrees, NEW p \in Nodes, NEW n \in Nat
  PROVE  LET r == [t EXCEPT !.key[p] = n]
         IN  /\ r \in RbTrees /\ r.root = t.root /\ r.link = t.link /\ r.parent = t.parent /\ r.red = t.red
             /\ \A m \in Nodes : r.key[m] = IF m = p THEN n ELSE t.key[m]
BY RbFields DEF RbTrees

LEMMA SetRoot ==
  ASSUME NEW t \in RbTrees, NEW n \in Nodes
  PROVE  LET r == [t EXCEPT !.root = n]
         IN  /\ r \in RbTrees /\ r.root = n /\ r.link = t.link /\ r.parent = t.parent
             /\ r.red = t.red /\ r.key = t.key
BY RbFields DEF RbTrees

\* What Replace changes: the root, or a child of Z's parent.
SideOf(t, p, Z) == IF t.link["left"][p] = Z THEN "left" ELSE "right"
Replaced(t, r, Z, n) ==
  /\ r.red = t.red /\ r.key = t.key /\ r.parent = t.parent
  /\ r.root = IF t.parent[Z] = nil THEN n ELSE t.root
  /\ \A s \in Sides, m \in Nodes :
       r.link[s][m] = IF t.parent[Z] = nil THEN (IF m = nil THEN n ELSE t.link[s][m])
                      ELSE IF m = t.parent[Z] /\ s = SideOf(t, t.parent[Z], Z) THEN n ELSE t.link[s][m]

LEMMA ReplaceIs ==
  ASSUME NEW t \in RbTrees, NEW Z \in Nodes, NEW n \in Nodes
  PROVE  Replace(t, Z, n) \in RbTrees /\ Replaced(t, Replace(t, Z, n), Z, n)
<1> DEFINE p == t.parent[Z]
           side == SideOf(t, p, Z)
           r == Replace(t, Z, n)
<1>0. p \in Nodes /\ nil \in Nodes /\ side \in Sides
  BY RbFields DEF SideOf, Sides
<1>1. CASE p = nil
  <2> DEFINE t1 == [t EXCEPT !.root = n]
             t2 == [t1 EXCEPT !.link["left"][nil] = n]
             t3 == [t2 EXCEPT !.link["right"][nil] = n]
  <2>1. r = t3
    BY <1>1 DEF Replace
  <2>2. /\ t1 \in RbTrees /\ t1.root = n /\ t1.link = t.link /\ t1.parent = t.parent
        /\ t1.red = t.red /\ t1.key = t.key
    BY SetRoot
  <2> HIDE DEF t1
  <2>0. "left" \in Sides /\ "right" \in Sides /\ Sides = {"left", "right"}
    BY SidesAre DEF Sides
  <2>3. /\ t2 \in RbTrees /\ t2.root = t1.root /\ t2.parent = t1.parent /\ t2.red = t1.red /\ t2.key = t1.key
        /\ \A s \in Sides, m \in Nodes : t2.link[s][m] = IF m = nil /\ s = "left" THEN n ELSE t1.link[s][m]
    BY <1>0, <2>0, <2>2, SetLink
  <2> HIDE DEF t2
  <2>4. /\ t3 \in RbTrees /\ t3.root = t2.root /\ t3.parent = t2.parent /\ t3.red = t2.red /\ t3.key = t2.key
        /\ \A s \in Sides, m \in Nodes : t3.link[s][m] = IF m = nil /\ s = "right" THEN n ELSE t2.link[s][m]
    BY <1>0, <2>0, <2>3, SetLink
  <2> HIDE DEF t3
  <2>5. /\ t3 \in RbTrees /\ t3.root = n /\ t3.parent = t.parent /\ t3.red = t.red /\ t3.key = t.key
    BY <2>2, <2>3, <2>4
  <2>6. \A s \in Sides, m \in Nodes : t3.link[s][m] = IF m = nil THEN n ELSE t.link[s][m]
    <3> TAKE s \in Sides, m \in Nodes
    <3>1. t3.link[s][m] = IF m = nil /\ s = "right" THEN n ELSE t2.link[s][m]
      BY <2>4
    <3>2. t2.link[s][m] = IF m = nil /\ s = "left" THEN n ELSE t1.link[s][m]
      BY <2>3
    <3>3. s = "left" \/ s = "right"
      BY <2>0
    <3> QED
      BY <3>1, <3>2, <3>3, <2>2
  <2> HIDE DEF t3, r
  <2> QED
    BY <1>1, <2>1, <2>5, <2>6 DEF r, Replaced
<1>2. CASE p # nil
  <2>1. r = [t EXCEPT !.link[side][p] = n]
    BY <1>2 DEF Replace, SideOf
  <2>2. /\ r \in RbTrees /\ r.root = t.root /\ r.parent = t.parent /\ r.red = t.red /\ r.key = t.key
        /\ \A s \in Sides, m \in Nodes : r.link[s][m] = IF m = p /\ s = side THEN n ELSE t.link[s][m]
    BY <1>0, <2>1, SetLink
  <2> HIDE DEF r
  <2> QED
    BY <1>2, <2>2 DEF r, Replaced
<1> QED
  BY <1>1, <1>2

\* What a rotation that moves no subtree changes: up takes the place of node
\* and has it on the given side.
Rotated(t, r, side, node, up) ==
  /\ r.red = t.red /\ r.key = t.key
  /\ r.root = IF t.parent[node] = nil THEN up ELSE t.root
  /\ \A n \in Nodes : r.parent[n] = IF n = node THEN up ELSE IF n = up THEN t.parent[node] ELSE t.parent[n]
  /\ \A n \in Nodes, s \in Sides : n # nil =>
       r.link[s][n] = IF n = up /\ s = side THEN node
                      ELSE IF n = node /\ s = Other(side) THEN nil
                      ELSE IF n = t.parent[node] /\ s = SideOf(t, n, node) THEN up
                      ELSE t.link[s][n]

LEMMA RotateIs ==
  ASSUME NEW t \in RbTrees, NEW side \in Sides, NEW node \in Nodes
  PROVE  /\ rotate(t, side, node) \in RbTrees
         /\ LET up == t.link[Other(side)][node]
            IN  node # nil /\ up # nil /\ up # node /\ t.parent[node] # node /\ t.link[side][up] = nil
                  => Rotated(t, rotate(t, side, node), side, node, up)
<1> DEFINE up == t.link[Other(side)][node]
           inner == t.link[side][up]
           a == [t EXCEPT !.parent[up] = t.parent[node]]
           t1 == [a EXCEPT !.link[Other(side)][node] = inner]
           b == IF inner = nil THEN t1 ELSE [t1 EXCEPT !.parent[up] = node]
           t3 == Replace(b, node, up)
           d == [t3 EXCEPT !.parent[node] = up]
           r == [d EXCEPT !.link[side][up] = node]
           p == t.parent[node]
<1>0. Other(side) \in Sides /\ up \in Nodes /\ inner \in Nodes /\ p \in Nodes
  BY SidesAre, RbFields
<1>1. rotate(t, side, node) = IF node = nil \/ up = nil THEN t ELSE r
  BY DEF rotate
<1> HIDE DEF up, inner, p
<1>2. /\ a \in RbTrees /\ a.root = t.root /\ a.link = t.link /\ a.red = t.red /\ a.key = t.key
      /\ \A m \in Nodes : a.parent[m] = IF m = up THEN p ELSE t.parent[m]
  BY <1>0, SetParent DEF p
<1> HIDE DEF a
<1>3. /\ t1 \in RbTrees /\ t1.root = t.root /\ t1.parent = a.parent /\ t1.red = t.red /\ t1.key = t.key
      /\ \A s \in Sides, m \in Nodes :
           t1.link[s][m] = IF m = node /\ s = Other(side) THEN inner ELSE t.link[s][m]
  BY <1>0, <1>2, SetLink
<1> HIDE DEF t1
<1>4. b \in RbTrees /\ (inner = nil => b = t1)
  BY <1>0, <1>3, SetParent
<1> HIDE DEF b
<1>5. t3 \in RbTrees /\ Replaced(b, t3, node, up)
  BY <1>0, <1>4, ReplaceIs
<1> HIDE DEF t3
<1>6. inner = nil =>
        /\ t3.red = t.red /\ t3.key = t.key /\ t3.parent = a.parent
        /\ t3.root = IF t1.parent[node] = nil THEN up ELSE t.root
        /\ \A s \in Sides, m \in Nodes :
             t3.link[s][m] = IF t1.parent[node] = nil THEN (IF m = nil THEN up ELSE t1.link[s][m])
                             ELSE IF m = t1.parent[node] /\ s = SideOf(t1, t1.parent[node], node)
                                  THEN up ELSE t1.link[s][m]
  BY <1>3, <1>4, <1>5 DEF Replaced
<1>7. /\ d \in RbTrees /\ d.root = t3.root /\ d.link = t3.link /\ d.red = t3.red /\ d.key = t3.key
      /\ \A m \in Nodes : d.parent[m] = IF m = node THEN up ELSE t3.parent[m]
  BY <1>0, <1>5, SetParent
<1> HIDE DEF d
<1>8. /\ r \in RbTrees /\ r.root = d.root /\ r.parent = d.parent /\ r.red = d.red /\ r.key = d.key
      /\ \A s \in Sides, m \in Nodes : r.link[s][m] = IF m = up /\ s = side THEN node ELSE d.link[s][m]
  <2>1. d \in RbTrees
    BY <1>7
  <2> QED
    BY <1>0, <2>1, SetLink
<1> HIDE DEF r
<1>9. ASSUME node # nil, up # nil, up # node, p # node, inner = nil
      PROVE  Rotated(t, r, side, node, up)
  <2>1. t1.parent[node] = p
    BY <1>2, <1>3 DEF p
  <2>2. r.red = t.red /\ r.key = t.key /\ r.root = IF p = nil THEN up ELSE t.root
    BY <1>6, <1>7, <1>8, <1>9, <2>1
  <2>3. ASSUME NEW n \in Nodes
        PROVE  r.parent[n] = IF n = node THEN up ELSE IF n = up THEN p ELSE t.parent[n]
    BY <1>2, <1>6, <1>7, <1>8, <1>9
  <2>4. ASSUME NEW n \in Nodes, NEW s \in Sides, n # nil
        PROVE  r.link[s][n] = IF n = up /\ s = side THEN node
                              ELSE IF n = node /\ s = Other(side) THEN nil
                              ELSE IF n = p /\ s = SideOf(t, n, node) THEN up
                              ELSE t.link[s][n]
    <3>1. SideOf(t1, p, node) = SideOf(t, p, node)
      BY <1>0, <1>3, <1>9, SidesAre DEF SideOf
    <3>2. t3.link[s][n] = IF p # nil /\ n = p /\ s = SideOf(t, p, node)
                          THEN up ELSE t1.link[s][n]
      BY <1>6, <1>9, <2>1, <2>4, <3>1
    <3>3. r.link[s][n] = IF n = up /\ s = side THEN node ELSE t3.link[s][n]
      BY <1>7, <1>8
    <3>4. t1.link[s][n] = IF n = node /\ s = Other(side) THEN nil ELSE t.link[s][n]
      BY <1>3, <1>9
    <3> QED
      BY <1>9, <2>4, <3>2, <3>3, <3>4
  <2> QED
    BY <2>2, <2>3, <2>4 DEF Rotated, p
<1> QED
  BY <1>1, <1>8, <1>9 DEF up, inner, p

\* SideOf is the side of a child.
LEMMA SideOfIs ==
  ASSUME NEW t \in RbTrees, NEW N, NEW span, RbGrown(t, N, span), NEW n \in N, NEW s \in Sides,
         t.link[s][n] # nil
  PROVE  SideOf(t, n, t.link[s][n]) = s
<1>1. t.link[Other(s)][n] # t.link[s][n]
  BY GrownChild
<1> QED
  BY <1>1, SidesAre DEF SideOf, Sides, Other

\* The links of the nodes of the tree after such a rotation.
RotatedLinks(t, r, N, side, node, up) ==
  \A n \in N, s \in Sides :
    r.link[s][n] = IF n = up /\ s = side THEN node
                   ELSE IF n = node /\ s = Other(side) THEN nil
                   ELSE IF t.link[s][n] = node THEN up
                   ELSE t.link[s][n]

LEMMA RotatedLinksAre ==
  ASSUME NEW t \in RbTrees, NEW r, NEW N, NEW span, RbGrown(t, N, span), NEW node \in N, NEW side \in Sides,
         NEW up \in N, up = t.link[Other(side)][node], Rotated(t, r, side, node, up)
  PROVE  RotatedLinks(t, r, N, side, node, up)
<1> DEFINE p == t.parent[node]
<1>1. ASSUME NEW n \in N
      PROVE  n \in Nodes /\ n # nil
  BY GrownNode
<1>2. ASSUME NEW n \in N, NEW s \in Sides
      PROVE  (n = p /\ s = SideOf(t, n, node)) = (t.link[s][n] = node)
  <2>1. CASE t.link[s][n] = node
    <3>1. p = n /\ SideOf(t, n, node) = s
      BY <1>1, <2>1, GrownChild, SideOfIs
    <3> QED
      BY <2>1, <3>1
  <2>2. CASE t.link[s][n] # node
    <3> SUFFICES ASSUME n = p, s = SideOf(t, n, node) PROVE FALSE
      BY <2>2
    <3>1. node # t.root
      BY <1>1, GrownNode
    <3>2. PICK u \in Sides : t.link[u][p] = node
      BY <3>1, GrownParent
    <3>3. SideOf(t, n, node) = u
      BY <1>1, <3>2, SideOfIs
    <3> QED
      BY <2>2, <3>2, <3>3
  <2> QED
    BY <2>1, <2>2
<1>3. ASSUME NEW n \in N, NEW s \in Sides
      PROVE  r.link[s][n] = IF n = up /\ s = side THEN node
                            ELSE IF n = node /\ s = Other(side) THEN nil
                            ELSE IF n = p /\ s = SideOf(t, n, node) THEN up
                            ELSE t.link[s][n]
  BY <1>1 DEF Rotated
<1> QED
  BY <1>2, <1>3 DEF RotatedLinks

\* The spans after it.
SpansTurned(t, span, side, node, up) ==
  [span EXCEPT ![up] = span[node], ![node] = {k \in span[node] : OnSide(side, k, t.key[up])}]

\* It leaves a search tree.
LEMMA RotationKeeps ==
  ASSUME NEW t \in RbTrees, NEW r \in RbTrees, NEW N, NEW span, RbGrown(t, N, span), NEW node \in N,
         NEW side \in Sides, NEW up, up = t.link[Other(side)][node], up # nil, t.link[side][up] = nil,
         Rotated(t, r, side, node, up)
  PROVE  RbGrown(r, N, SpansTurned(t, span, side, node, up))
<1> DEFINE o == Other(side)
           w == SpansTurned(t, span, side, node, up)
           ku == t.key[up]
           kn == t.key[node]
<1>1. /\ o \in Sides /\ o # side /\ up \in N /\ up # node /\ t.parent[up] = node
      /\ span[up] = Part(t, span, o, node) /\ ku \in Part(t, span, o, node) /\ up # t.root
  BY GrownChild, SidesAre
<1>2. /\ node \in Nodes /\ node # nil /\ up \in Nodes /\ kn \in Nat /\ ku \in Nat
      /\ span[node] \subseteq Nat /\ nil \notin N /\ kn \in span[node] /\ t.root \in N /\ t.root # nil
  BY <1>1, GrownNode
<1>3. RotatedLinks(t, r, N, side, node, up)
  BY <1>1, RotatedLinksAre
<1>4. /\ w \in [Nodes -> SUBSET Nat]
      /\ w[up] = span[node] /\ w[node] = {k \in span[node] : OnSide(side, k, ku)}
      /\ \A n \in Nodes : n # up /\ n # node => w[n] = span[n]
  BY <1>1, <1>2 DEF SpansTurned, RbGrown
<1> HIDE DEF w
<1>5. \A k \in span[node] : k \in Nat /\ (OnSide(o, k, kn) \/ OnSide(side, k, kn) \/ k = kn)
  BY <1>2, OnSideIs
<1>6. OnSide(o, ku, kn) /\ OnSide(side, kn, ku)
  BY <1>1, <1>2, OnSideIs DEF Part
<1>7. \A n \in N : n \in Nodes /\ n # nil /\ r.key[n] = t.key[n]
  BY GrownNode DEF Rotated
<1>8. \A n \in N, s \in Sides : Place(t, N, span, s, n)
  BY DEF RbGrown
<1>9. ASSUME NEW n \in N, NEW s \in Sides
      PROVE  Place(r, N, w, s, n)
  <2> DEFINE c == t.link[s][n]
  <2>1. CASE n = node /\ s = side
    <3>1. Part(r, w, s, n) = Part(t, span, s, n)
      <4>1. \A k \in span[node] : OnSide(side, k, kn) => OnSide(side, k, ku)
        BY <1>2, <1>6, OnSideIs
      <4> QED
        BY <1>4, <1>7, <2>1, <4>1 DEF Part
    <3>2. r.link[s][n] = c
      <4>1. c # node
        BY <1>2, <2>1, GrownChild
      <4> QED
        BY <1>1, <1>3, <2>1, <4>1 DEF RotatedLinks
    <3>3. CASE c = nil
      <4>1. \A m \in N : t.key[m] \notin Part(t, span, s, n)
        BY <1>8, <3>3 DEF Place
      <4> QED
        BY <1>7, <3>1, <3>2, <3>3, <4>1 DEF Place
    <3>4. CASE c # nil
      <4>1. c \in N /\ span[c] = Part(t, span, s, n) /\ c # node /\ c # up /\ t.parent[c] = n
        BY <1>1, <2>1, <3>4, GrownChild, SidesAre
      <4>2. r.parent[c] = n /\ w[c] = span[c]
        BY <1>4, <1>7, <4>1 DEF Rotated
      <4> QED
        BY <3>1, <3>2, <3>4, <4>1, <4>2 DEF Place
    <3> QED
      BY <3>3, <3>4
  <2>2. CASE n = node /\ s = o
    <3>1. r.link[s][n] = nil
      BY <1>1, <1>3, <2>2 DEF RotatedLinks
    <3>2. Part(r, w, s, n) \subseteq Part(t, span, side, up)
      BY <1>1, <1>4, <1>7, <2>2 DEF Part
    <3>3. \A m \in N : t.key[m] \notin Part(t, span, side, up)
      BY <1>1, <1>8 DEF Place
    <3> QED
      BY <1>7, <3>1, <3>2, <3>3 DEF Place
  <2>3. CASE n = up /\ s = side
    <3>1. r.link[s][n] = node /\ r.parent[node] = up
      BY <1>2, <1>3, <2>3 DEF RotatedLinks, Rotated
    <3>2. w[node] = Part(r, w, s, n)
      BY <1>4, <1>7, <2>3 DEF Part
    <3> QED
      BY <1>2, <2>3, <3>1, <3>2 DEF Place
  <2>4. CASE n = up /\ s = o
    <3>1. Part(r, w, s, n) = Part(t, span, s, n)
      <4>1. \A k \in span[node] : OnSide(o, k, ku) => OnSide(o, k, kn)
        BY <1>1, <1>2, <1>6, OnSideIs
      <4>2. \A k \in span[node] : OnSide(o, k, ku) => k \in span[up]
        BY <1>1, <4>1 DEF Part
      <4>3. span[up] \subseteq span[node]
        BY <1>1 DEF Part
      <4> QED
        BY <1>4, <1>7, <2>4, <4>2, <4>3 DEF Part
    <3>2. r.link[s][n] = c
      <4>1. c # node
        <5> SUFFICES ASSUME c = node PROVE FALSE
          OBVIOUS
        <5>1. t.key[node] \in Part(t, span, s, n)
          BY <1>2, GrownChild
        <5>2. kn \notin span[up]
          BY <1>1, GrownChild
        <5> QED
          BY <2>4, <5>1, <5>2 DEF Part
      <4> QED
        BY <1>1, <1>3, <2>4, <4>1 DEF RotatedLinks
    <3>3. CASE c = nil
      <4>1. \A m \in N : t.key[m] \notin Part(t, span, s, n)
        BY <1>8, <3>3 DEF Place
      <4> QED
        BY <1>7, <3>1, <3>2, <3>3, <4>1 DEF Place
    <3>4. CASE c # nil
      <4>1. c \in N /\ span[c] = Part(t, span, s, n) /\ c # up /\ t.parent[c] = n
        BY <2>4, <3>4, GrownChild
      <4>2. c # node
        <5> SUFFICES ASSUME c = node PROVE FALSE
          OBVIOUS
        <5>1. t.key[node] \in Part(t, span, s, n)
          BY <1>2, GrownChild
        <5>2. kn \notin span[up]
          BY <1>1, GrownChild
        <5> QED
          BY <2>4, <5>1, <5>2 DEF Part
      <4>3. r.parent[c] = n /\ w[c] = span[c]
        BY <1>4, <1>7, <4>1, <4>2 DEF Rotated
      <4> QED
        BY <3>1, <3>2, <3>4, <4>1, <4>3 DEF Place
    <3> QED
      BY <3>3, <3>4
  <2>5. CASE n # node /\ n # up
    <3>1. Part(r, w, s, n) = Part(t, span, s, n)
      BY <1>4, <1>7, <2>5 DEF Part
    <3>2. r.link[s][n] = IF c = node THEN up ELSE c
      BY <1>3, <2>5 DEF RotatedLinks
    <3>3. CASE c = nil
      <4>1. \A m \in N : t.key[m] \notin Part(t, span, s, n)
        BY <1>8, <3>3 DEF Place
      <4> QED
        BY <1>2, <1>7, <3>1, <3>2, <3>3, <4>1 DEF Place
    <3>4. CASE c = node
      <4>1. t.parent[node] = n /\ span[node] = Part(t, span, s, n)
        BY <1>2, <3>4, GrownChild
      <4>2. r.parent[up] = n
        BY <1>1, <1>2, <4>1 DEF Rotated
      <4> QED
        BY <1>1, <1>2, <1>4, <3>1, <3>2, <3>4, <4>1, <4>2 DEF Place
    <3>5. CASE c # nil /\ c # node
      <4>1. c \in N /\ span[c] = Part(t, span, s, n) /\ t.parent[c] = n
        BY <3>5, GrownChild
      <4>2. c # up
        BY <1>1, <2>5, <4>1
      <4>3. r.parent[c] = n /\ w[c] = span[c]
        BY <1>4, <1>7, <3>5, <4>1, <4>2 DEF Rotated
      <4> QED
        BY <3>1, <3>2, <3>5, <4>1, <4>3 DEF Place
    <3> QED
      BY <3>3, <3>4, <3>5
  <2> QED
    BY <1>1, <2>1, <2>2, <2>3, <2>4, <2>5, SidesAre
<1>10. r.root \in N /\ r.root # nil /\ w[r.root] = Nat /\ r.parent[r.root] = nil
  <2>1. (t.parent[node] = nil) = (node = t.root)
    BY GrownNode
  <2>2. CASE node = t.root
    <3>1. r.root = up /\ r.parent[up] = nil
      BY <1>1, <1>2, <2>1, <2>2 DEF Rotated
    <3>2. span[node] = Nat
      BY <1>2, <2>2 DEF RbGrown
    <3> QED
      BY <1>1, <1>2, <1>4, <3>1, <3>2
  <2>3. CASE node # t.root
    <3>1. r.root = t.root
      BY <2>1, <2>3 DEF Rotated
    <3>2. span[t.root] = Nat /\ t.parent[t.root] = nil
      BY <1>2 DEF RbGrown
    <3>3. r.parent[t.root] = nil
      BY <1>1, <1>7, <2>3, <3>2, <1>2 DEF Rotated
    <3> QED
      BY <1>1, <1>2, <1>4, <1>7, <2>3, <3>1, <3>2, <3>3
  <2> QED
    BY <2>2, <2>3
<1>11. ASSUME NEW n \in N
       PROVE  r.key[n] \in w[n]
  <2>1. t.key[n] \in span[n]
    BY GrownNode
  <2>2. CASE n = up
    BY <1>1, <1>4, <1>7, <2>2 DEF Part
  <2>3. CASE n = node
    BY <1>2, <1>4, <1>6, <1>7, <2>3
  <2>4. CASE n # up /\ n # node
    BY <1>4, <1>7, <2>1, <2>4
  <2> QED
    BY <2>2, <2>3, <2>4
<1>12. ASSUME NEW n \in N, n # r.root
       PROVE  r.parent[n] \in N /\ \E s \in Sides : r.link[s][r.parent[n]] = n
  <2> DEFINE q == t.parent[n]
  <2>1. CASE n = node
    <3>1. r.parent[n] = up /\ r.link[side][up] = node
      BY <1>1, <1>2, <1>3, <2>1 DEF Rotated, RotatedLinks
    <3> QED
      BY <1>1, <2>1, <3>1
  <2>2. CASE n = up
    <3>1. t.parent[node] # nil /\ node # t.root
      BY <1>12, <2>2, GrownNode DEF Rotated
    <3>2. t.parent[node] \in N
      BY <3>1, GrownParent
    <3>3. PICK s \in Sides : t.link[s][t.parent[node]] = node
      BY <3>1, GrownParent
    <3>4. r.parent[n] = t.parent[node]
      BY <1>1, <1>2, <2>2 DEF Rotated
    <3>5. t.parent[node] # up
      <4> SUFFICES ASSUME t.parent[node] = up PROVE FALSE
        OBVIOUS
      <4>1. kn \in Part(t, span, s, up)
        BY <1>1, <1>2, <3>3, GrownChild
      <4>2. kn \notin span[up]
        BY <1>1, GrownChild
      <4> QED
        BY <4>1, <4>2 DEF Part
    <3>6. t.parent[node] # node
      BY <3>1, GrownParent
    <3>7. r.link[s][t.parent[node]] = up
      BY <1>3, <3>2, <3>3, <3>5, <3>6 DEF RotatedLinks
    <3> QED
      BY <2>2, <3>2, <3>4, <3>7
  <2>3. CASE n # node /\ n # up
    <3>1. n # t.root
      <4> SUFFICES ASSUME n = t.root PROVE FALSE
        OBVIOUS
      <4>1. t.parent[node] # nil
        BY <2>3, GrownNode
      <4> QED
        BY <1>12, <4>1 DEF Rotated
    <3>2. q \in N /\ n # nil
      BY <3>1, GrownParent, GrownNode
    <3>3. PICK s \in Sides : t.link[s][q] = n
      BY <3>1, GrownParent
    <3>4. r.parent[n] = q
      BY <1>7, <2>3 DEF Rotated
    <3>5. ~(q = up /\ s = side) /\ ~(q = node /\ s = o)
      BY <1>1, <2>3, <3>2, <3>3
    <3>6. r.link[s][q] = n
      BY <1>3, <2>3, <3>2, <3>3, <3>5 DEF RotatedLinks
    <3> QED
      BY <3>2, <3>4, <3>6
  <2> QED
    BY <2>1, <2>2, <2>3
<1>13. \A m, n \in N : r.key[m] = r.key[n] => m = n
  BY <1>7 DEF RbGrown
<1>14. N \subseteq 1 .. MaxNodes
  BY DEF RbGrown
<1>15. RbGrown(r, N, w)
  BY <1>4, <1>9, <1>10, <1>11, <1>12, <1>13, <1>14 DEF RbGrown
<1> QED
  BY <1>15 DEF w

\* Other colours change nothing of that.
LEMMA Recoloured ==
  ASSUME NEW t \in RbTrees, NEW r \in RbTrees, NEW N, NEW span, RbGrown(t, N, span),
         r.root = t.root, r.link = t.link, r.parent = t.parent, r.key = t.key
  PROVE  RbGrown(r, N, span) /\ \A n : UnderNode(r, N, span, n) = UnderNode(t, N, span, n)
<1>1. \A n \in N, s \in Sides : Place(t, N, span, s, n) => Place(r, N, span, s, n)
  BY DEF Place, Part
<1>2. \A n \in N, s \in Sides : Place(r, N, span, s, n)
  BY <1>1 DEF RbGrown
<1>3. RbGrown(r, N, span)
  BY <1>2 DEF RbGrown
<1>4. \A n : UnderNode(r, N, span, n) = UnderNode(t, N, span, n)
  BY DEF UnderNode
<1> QED
  BY <1>3, <1>4

-----------------------------------------------------------------------------
\* Between two calls: the root is black, no red node has a red child.
Calm(t, N) ==
  /\ ~t.red[t.root]
  /\ \A n \in N, s \in Sides : ~(t.red[n] /\ t.red[t.link[s][n]])

\* During insertFixUp: Z is red, and the only one that may be so below a red
\* node or at the root.  Every turn either brings Z two nodes up, or is followed
\* by at most one turn more.
Turning(t, N, span, Z, k) ==
  \/ 2 * k + 1 <= Cardinality(UnderNode(t, N, span, Z))
  \/ /\ k + 1 < MaxTurns
     /\ \E s \in Sides : /\ t.link[s][t.parent[Z]] = Z
                         /\ t.link[s][t.parent[t.parent[Z]]] = t.parent[Z]
                         /\ t.link[Other(s)][t.parent[t.parent[Z]]] = nil
  \/ ~t.red[t.parent[Z]]
Inserting(t, N, span, h, Z, k) ==
  /\ Heights(t, N, h)
  /\ Z \in N /\ t.red[Z] /\ (t.red[t.root] => t.root = Z)
  /\ \A n \in N, s \in Sides : t.red[n] /\ t.red[t.link[s][n]] => t.link[s][n] = Z
  /\ Turning(t, N, span, Z, k)

\* A black node is missing on the ways from up through X.
Missing(t, s, n, X, up) == IF n = up /\ t.link[s][n] = X THEN 1 ELSE 0
Lacking(t, N, h, X, up) ==
  /\ h \in [Nodes -> Nat] /\ h[nil] = 0
  /\ \A n \in N, s \in Sides : h[n] = h[t.link[s][n]] + Black(t, n) + Missing(t, s, n, X, up)

\* What the third case leaves to the fourth.
Twisted(t, up) ==
  LET B == t.link["left"][up]
  IN  t.link["right"][up] = nil /\ B # nil /\ ~t.red[B] /\ t.red[t.link["left"][B]] /\ ~t.red[t.link["right"][B]]

\* During deleteFixUp: a black node is missing on the ways through X, and X is
\* the only one that may be red at the root, below or above a red node.
Deleting(t, N, span, h, X, k) ==
  /\ Lacking(t, N, h, X, t.parent[X])
  /\ X \in N \cup {nil} /\ t.root # nil /\ (t.red[t.root] => t.root = X)
  /\ X # t.root => /\ t.parent[X] \in N
                   /\ \E s \in Sides : t.link[s][t.parent[X]] = X /\ t.link[Other(s)][t.parent[X]] # X
  /\ \A n \in N, s \in Sides : t.red[n] /\ t.red[t.link[s][n]] => t.link[s][n] = X \/ n = X
  /\ IF X = nil THEN k = 0 \/ (k = 1 /\ Twisted(t, t.parent[X]))
     ELSE k <= Cardinality(UnderNode(t, N, span, X))

LEMMA HeightsAre ==
  ASSUME NEW t \in RbTrees, NEW N, NEW span, RbGrown(t, N, span), NEW h, Heights(t, N, h), NEW n \in N
  PROVE  /\ h[n] \in Nat /\ h[nil] = 0
         /\ \A s \in Sides : /\ h[t.link[s][n]] \in Nat
                             /\ t.red[n] => h[n] = h[t.link[s][n]]
                             /\ ~t.red[n] => h[n] = h[t.link[s][n]] + 1
<1>1. n \in Nodes /\ \A s \in Sides : t.link[s][n] \in Nodes
  BY GrownNode
<1> QED
  BY <1>1 DEF Heights, Black

\* Numbers that differ by the colour of the upper node are heights.
LEMMA HeightsIf ==
  ASSUME NEW t \in RbTrees, NEW N, NEW h \in [Nodes -> Nat], h[nil] = 0,
         \A n \in N : n \in Nodes,
         \A n \in N, s \in Sides : /\ t.red[n] => h[n] = h[t.link[s][n]]
                                   /\ ~t.red[n] => h[n] = h[t.link[s][n]] + 1
  PROVE  Heights(t, N, h)
<1>1. \A n \in N, s \in Sides : h[t.link[s][n]] \in Nat
  BY RbFields
<1>2. ASSUME NEW n \in N, NEW s \in Sides PROVE h[n] = h[t.link[s][n]] + Black(t, n)
  <2>1. CASE t.red[n]
    <3>1. h[n] = h[t.link[s][n]]
      BY <2>1
    <3>3. h[t.link[s][n]] \in Nat
      BY <1>1
    <3>2. Black(t, n) = 0
      BY <2>1 DEF Black
    <3> QED
      BY <3>1, <3>2, <3>3
  <2>2. CASE ~t.red[n]
    BY <1>1, <2>2 DEF Black
  <2> QED
    BY <2>1, <2>2
<1> QED
  BY <1>2 DEF Heights

\* Whoever has no black node below it, and is not red, is nil.
LEMMA LowIsNil ==
  ASSUME NEW t \in RbTrees, NEW N, NEW span, RbGrown(t, N, span), NEW h, Heights(t, N, h),
         NEW n \in N \cup {nil}, h[n] = 0, ~t.red[n]
  PROVE  n = nil
<1> SUFFICES ASSUME n \in N PROVE FALSE
  OBVIOUS
<1>1. h[t.link["left"][n]] \in Nat /\ h[n] = h[t.link["left"][n]] + 1
  BY HeightsAre, SidesAre
<1> QED
  BY <1>1

\* A child knows its parent.
LEMMA GrownUp ==
  ASSUME NEW t \in RbTrees, NEW N, NEW span, RbGrown(t, N, span), NEW n \in N, NEW s \in Sides, NEW c,
         t.link[s][n] = c, c # nil
  PROVE  n = t.parent[c] /\ c \in N
BY GrownChild

\* Where insertFixUp is when the parent A of its node Z is red.
AtRed(t, N, span, h, Z, k, A, G, side) ==
  /\ RbGrown(t, N, span) /\ Inserting(t, N, span, h, Z, k) /\ ~t.red[nil]
  /\ A = t.parent[Z] /\ t.red[A] /\ G = t.parent[A] /\ t.link[side][G] = A
Trio(t, N, Z, A, G) ==
  /\ Z \in N /\ A \in N /\ G \in N /\ Z # A /\ A # G /\ Z # G /\ Z # t.root /\ A # t.root
  /\ ~t.red[G] /\ ~t.red[t.root] /\ t.red[Z] /\ t.red[A]
  /\ Z # nil /\ A # nil /\ G # nil /\ Z \in Nodes /\ A \in Nodes /\ G \in Nodes
  /\ A = t.parent[Z] /\ G = t.parent[A]
  /\ \E s \in Sides : t.link[s][A] = Z
  /\ \E s \in Sides : t.link[s][G] = A

LEMMA TrioIs ==
  ASSUME NEW t \in RbTrees, NEW N, NEW span, RbGrown(t, N, span), NEW h, NEW Z, NEW k \in Nat,
         Inserting(t, N, span, h, Z, k), ~t.red[nil], t.red[t.parent[Z]]
  PROVE  Trio(t, N, Z, t.parent[Z], t.parent[t.parent[Z]])
<1> DEFINE A == t.parent[Z]
           G == t.parent[A]
<1>1. Z \in N /\ t.red[Z] /\ A # nil
  BY DEF Inserting
<1>2. Z # t.root
  BY <1>1, GrownNode
<1>3. A \in N /\ Z # A
  BY <1>1, <1>2, GrownParent
<1>4. PICK s \in Sides : t.link[s][A] = Z
  BY <1>1, <1>2, GrownParent
<1>5. ~t.red[t.root] /\ A # t.root
  BY <1>2 DEF Inserting
<1>6. G \in N /\ A # G
  BY <1>3, <1>5, GrownParent
<1>7. PICK u \in Sides : t.link[u][G] = A
  BY <1>3, <1>5, GrownParent
<1>8. ~t.red[G]
  BY <1>3, <1>6, <1>7 DEF Inserting
<1>9. Z # G
  BY <1>1, <1>8
<1>10. Z # nil /\ A # nil /\ G # nil /\ Z \in Nodes /\ A \in Nodes /\ G \in Nodes
  BY <1>1, <1>3, <1>6, GrownNode
<1> QED
  BY <1>1, <1>2, <1>3, <1>4, <1>5, <1>6, <1>7, <1>8, <1>9, <1>10 DEF Trio

\* On which side Z hangs decides how far it has come.
LEMMA TurningIs ==
  ASSUME NEW t \in RbTrees, NEW N, NEW span, NEW h, NEW Z, NEW k \in Nat, NEW A, NEW G, NEW side \in Sides,
         AtRed(t, N, span, h, Z, k, A, G, side),
         t.link[Other(side)][G] # nil \/ t.link[Other(side)][A] = Z
  PROVE  2 * k + 1 <= Cardinality(UnderNode(t, N, span, Z))
<1>1. RbGrown(t, N, span) /\ t.link[side][G] = A
  BY DEF AtRed
<1>2. Trio(t, N, Z, A, G)
  BY TrioIs DEF AtRed
<1>3. ASSUME NEW s \in Sides, t.link[s][A] = Z, t.link[s][G] = A, t.link[Other(s)][G] = nil
      PROVE  FALSE
  <2>1. s = side
    BY <1>1, <1>2, <1>3, GrownOnce DEF Trio
  <2>2. t.link[Other(side)][A] = Z
    BY <1>3, <2>1
  <2>3. Other(side) = side
    BY <1>1, <1>2, <1>3, <2>1, <2>2, GrownOnce, SidesAre DEF Trio
  <2> QED
    BY <2>3, SidesAre
<1>4. /\ Turning(t, N, span, Z, k) /\ A = t.parent[Z] /\ G = t.parent[A] /\ t.red[A]
  BY DEF AtRed, Inserting
<1> QED
  BY <1>3, <1>4 DEF Turning

\* What a turn of insertFixUp leaves.
InsertKept(r, N, Z, k) ==
  /\ k < MaxTurns
  /\ \E span, h : RbGrown(r, N, span) /\ Inserting(r, N, span, h, Z, k)

\* Its first case: the uncle U is red.  G becomes red, A and U black.
Painted(t, r, G, A, U) ==
  /\ r.root = t.root /\ r.link = t.link /\ r.parent = t.parent /\ r.key = t.key
  /\ \A m \in Nodes : r.red[m] = IF m = G THEN TRUE ELSE IF m = A \/ m = U THEN FALSE ELSE t.red[m]

LEMMA InsertRecolours ==
  ASSUME NEW t \in RbTrees, NEW r \in RbTrees, NEW N, NEW span, NEW h, NEW Z, NEW k \in Nat,
         NEW A, NEW G, NEW side \in Sides, AtRed(t, N, span, h, Z, k, A, G, side),
         NEW U, U = t.link[Other(side)][G], t.red[U],
         Painted(t, r, G, A, U)
  PROVE  InsertKept(r, N, G, k + 1)
<1> DEFINE g == [h EXCEPT ![A] = h[A] + 1, ![U] = h[U] + 1]
<1>0. /\ r.root = t.root /\ r.link = t.link /\ r.parent = t.parent /\ r.key = t.key
      /\ \A m \in Nodes : r.red[m] = IF m = G THEN TRUE ELSE IF m = A \/ m = U THEN FALSE ELSE t.red[m]
  BY DEF Painted
<1>1. /\ RbGrown(t, N, span) /\ t.link[side][G] = A /\ Heights(t, N, h) /\ ~t.red[nil]
      /\ \A n \in N, s \in Sides : t.red[n] /\ t.red[t.link[s][n]] => t.link[s][n] = Z
  BY DEF AtRed, Inserting
<1>2. Trio(t, N, Z, A, G)
  BY TrioIs DEF AtRed
<1>3. /\ Z \in N /\ A \in N /\ G \in N /\ Z # A /\ A # G /\ Z # G /\ A # t.root /\ ~t.red[G] /\ ~t.red[t.root]
      /\ A # nil /\ A \in Nodes /\ G \in Nodes /\ t.red[A]
  BY <1>2 DEF Trio
<1>4. Other(side) \in Sides /\ Other(side) # side /\ U # nil
  BY <1>1, SidesAre
<1>5. U \in N /\ t.parent[U] = G /\ U # G /\ U # t.root
  BY <1>1, <1>3, <1>4, GrownChild
<1>6. U \in Nodes /\ U # A
  BY <1>1, <1>3, <1>4, <1>5, GrownNode, GrownChild
<1>7. RbGrown(r, N, span) /\ \A n : UnderNode(r, N, span, n) = UnderNode(t, N, span, n)
  BY <1>0, <1>1, Recoloured
<1>8. \A n \in N : n \in Nodes /\ n # nil /\ \A s \in Sides : t.link[s][n] \in Nodes
  BY <1>1, GrownNode
<1>9. h \in [Nodes -> Nat] /\ h[nil] = 0
  BY <1>1 DEF Heights
<1>10. /\ g \in [Nodes -> Nat] /\ g[nil] = 0 /\ g[A] = h[A] + 1 /\ g[U] = h[U] + 1
       /\ \A n \in Nodes : n # A /\ n # U => g[n] = h[n]
  <2>1. h[A] + 1 \in Nat /\ h[U] + 1 \in Nat /\ nil \in Nodes
    BY <1>3, <1>6, <1>9, RbFields
  <2> QED
    BY <1>3, <1>4, <1>6, <1>9, <2>1
<1> HIDE DEF g
<1>11. ASSUME NEW n \in N, NEW s \in Sides
       PROVE  t.link[s][n] = A \/ t.link[s][n] = U => n = G
  <2>1. A # nil /\ U # nil /\ t.parent[U] = G /\ t.parent[A] = G
    BY <1>2, <1>4, <1>5 DEF Trio
  <2> QED
    BY <1>1, <2>1, GrownUp
<1>12. ASSUME NEW n \in N, NEW s \in Sides
       PROVE  /\ r.red[n] => g[n] = g[r.link[s][n]]
              /\ ~r.red[n] => g[n] = g[r.link[s][n]] + 1
  <2> DEFINE c == t.link[s][n]
  <2>1. h[n] \in Nat /\ h[c] \in Nat /\ (t.red[n] => h[n] = h[c]) /\ (~t.red[n] => h[n] = h[c] + 1)
    BY <1>1, HeightsAre
  <2>2. r.link[s][n] = c /\ n \in Nodes /\ c \in Nodes
    BY <1>0, <1>8
  <2>3. CASE n = G
    <3>1. c = A \/ c = U
      BY <1>1, <2>3, SidesAre
    <3>2. g[c] = h[c] + 1 /\ g[n] = h[n]
      BY <1>3, <1>5, <1>10, <2>2, <2>3, <3>1
    <3>3. ~t.red[n] /\ r.red[n]
      BY <1>0, <1>3, <2>3
    <3> QED
      BY <2>1, <2>2, <3>2, <3>3
  <2>4. CASE n = A \/ n = U
    <3>1. c # A /\ c # U
      BY <1>3, <1>5, <1>11, <2>4
    <3>2. g[n] = h[n] + 1 /\ g[c] = h[c]
      BY <1>10, <2>2, <2>4, <3>1
    <3>3. t.red[n] /\ ~r.red[n]
      BY <1>0, <1>3, <1>5, <1>6, <2>4
    <3> QED
      BY <2>1, <2>2, <3>2, <3>3
  <2>5. CASE n # G /\ n # A /\ n # U
    <3>1. c # A /\ c # U
      BY <1>11, <2>5
    <3>2. g[n] = h[n] /\ g[c] = h[c] /\ t.red[n] = r.red[n]
      BY <1>0, <1>10, <2>2, <2>5, <3>1
    <3> QED
      BY <2>1, <2>2, <3>2
  <2> QED
    BY <2>3, <2>4, <2>5
<1>13. Heights(r, N, g)
  BY <1>8, <1>10, <1>12, HeightsIf
<1>14. ASSUME NEW n \in N, NEW s \in Sides, r.red[n], r.red[r.link[s][n]]
       PROVE  r.link[s][n] = G
  <2> DEFINE c == t.link[s][n]
  <2> SUFFICES ASSUME c # G PROVE FALSE
    BY <1>0
  <2>1. c \in Nodes /\ n \in Nodes
    BY <1>8
  <2>2. t.red[c] /\ c # A /\ c # U
    BY <1>0, <1>14, <2>1
  <2>3. n # A /\ n # U
    BY <1>0, <1>3, <1>5, <1>14, <2>1
  <2>4. n # G
    BY <1>1, <2>2, SidesAre
  <2>5. t.red[n]
    BY <1>0, <1>14, <2>1, <2>4, <2>3
  <2>6. c = Z
    BY <1>1, <2>2, <2>5
  <2>7. n = A
    BY <1>1, <1>2, <2>6, GrownUp DEF Trio
  <2> QED
    BY <2>3, <2>7
<1>15. r.red[r.root] => r.root = G
  BY <1>0, <1>3, RbFields
<1>16. 2 * k + 1 <= Cardinality(UnderNode(t, N, span, Z))
  BY <1>4, TurningIs
<1>17. 2 * (k + 1) + 1 <= Cardinality(UnderNode(t, N, span, G)) /\ k + 1 < MaxTurns
  <2>1. PICK s \in Sides : t.link[s][A] = Z
    BY <1>2 DEF Trio
  <2>2. Z # nil
    BY <1>2 DEF Trio
  <2>3. Cardinality(UnderNode(t, N, span, Z)) + 1 <= Cardinality(UnderNode(t, N, span, A))
    BY <1>1, <1>3, <2>1, <2>2, UnderChild
  <2>4. Cardinality(UnderNode(t, N, span, A)) + 1 <= Cardinality(UnderNode(t, N, span, G))
    BY <1>1, <1>3, UnderChild
  <2>5. /\ Cardinality(UnderNode(t, N, span, Z)) \in Nat /\ Cardinality(UnderNode(t, N, span, A)) \in Nat
        /\ Cardinality(UnderNode(t, N, span, G)) \in Nat /\ Cardinality(UnderNode(t, N, span, G)) <= MaxNodes
    BY <1>1, <1>3, UnderSize
  <2> QED
    BY <1>16, <2>3, <2>4, <2>5, RbAssumption
<1>18. Turning(r, N, span, G, k + 1)
  BY <1>7, <1>17 DEF Turning
<1>19. r.red[G]
  BY <1>0, <1>3
<1>20. Inserting(r, N, span, g, G, k + 1)
  BY <1>3, <1>13, <1>14, <1>15, <1>18, <1>19 DEF Inserting
<1> QED
  BY <1>7, <1>17, <1>20 DEF InsertKept

\* What the second and the third case begin with: when the subtree that would
\* move is empty, so are the uncle and all that is below the node.
Low(t, N, span, h, Z, k, A, G, side) ==
  /\ h[Z] = 0 /\ h[A] = 0 /\ h[G] = 1 /\ t.link[Other(side)][G] = nil
  /\ k + 1 < MaxTurns
  /\ 2 * k + 1 <= Cardinality(UnderNode(t, N, span, Z)) => (k + 1) + 1 < MaxTurns
LEMMA InsertLow ==
  ASSUME NEW t \in RbTrees, NEW N, NEW span, NEW h, NEW Z, NEW k \in Nat,
         NEW A, NEW G, NEW side \in Sides, AtRed(t, N, span, h, Z, k, A, G, side),
         ~t.red[t.link[Other(side)][G]], h[Z] = 0 \/ h[A] = 0
  PROVE  Low(t, N, span, h, Z, k, A, G, side)
<1>1. RbGrown(t, N, span) /\ t.link[side][G] = A /\ Heights(t, N, h) /\ Turning(t, N, span, Z, k)
  BY DEF AtRed, Inserting
<1>2. Trio(t, N, Z, A, G)
  BY TrioIs DEF AtRed
<1>3. Z \in N /\ A \in N /\ G \in N /\ ~t.red[G] /\ t.red[A] /\ Z # nil /\ A # nil
  BY <1>2 DEF Trio
<1>4. PICK s \in Sides : t.link[s][A] = Z
  BY <1>2 DEF Trio
<1>5. h[A] = h[Z] /\ h[Z] \in Nat
  BY <1>1, <1>3, <1>4, HeightsAre
<1>6. h[G] = h[A] + 1
  BY <1>1, <1>3, HeightsAre
<1>7. h[G] = h[t.link[Other(side)][G]] + 1 /\ h[t.link[Other(side)][G]] \in Nat
  BY <1>1, <1>3, HeightsAre, SidesAre
<1>8. t.link[Other(side)][G] \in N \cup {nil}
  BY <1>1, <1>3, GrownNode, SidesAre
<1>9. h[t.link[Other(side)][G]] = 0
  BY <1>5, <1>6, <1>7
<1>10. t.link[Other(side)][G] = nil
  BY <1>1, <1>8, <1>9, LowIsNil
<1>11. /\ Cardinality(UnderNode(t, N, span, Z)) + 1 <= Cardinality(UnderNode(t, N, span, A))
       /\ Cardinality(UnderNode(t, N, span, A)) + 1 <= Cardinality(UnderNode(t, N, span, G))
       /\ Cardinality(UnderNode(t, N, span, Z)) \in Nat /\ Cardinality(UnderNode(t, N, span, A)) \in Nat
       /\ Cardinality(UnderNode(t, N, span, G)) \in Nat /\ Cardinality(UnderNode(t, N, span, G)) <= MaxNodes
  BY <1>1, <1>3, <1>4, UnderChild, UnderSize
<1>12. 2 * k + 1 <= Cardinality(UnderNode(t, N, span, Z)) => (k + 1) + 1 < MaxTurns
  BY <1>11, RbAssumption
<1>13. k + 1 < MaxTurns
  <2>1. 2 * k + 1 <= Cardinality(UnderNode(t, N, span, Z)) \/ k + 1 < MaxTurns
    <3>1. t.red[t.parent[Z]]
      BY <1>2 DEF Trio
    <3> QED
      BY <1>1, <3>1 DEF Turning
  <2> QED
    BY <1>12, <2>1, RbAssumption
<1> QED
  BY <1>5, <1>6, <1>10, <1>12, <1>13 DEF Low

\* The second case, if it moves no subtree.
LEMMA InsertTurnsIn ==
  ASSUME NEW t \in RbTrees, NEW r \in RbTrees, NEW N, NEW span, NEW h, NEW Z, NEW k \in Nat,
         NEW A, NEW G, NEW side \in Sides, AtRed(t, N, span, h, Z, k, A, G, side),
         ~t.red[t.link[Other(side)][G]],
         Z = t.link[Other(side)][A], t.link[side][Z] = nil, Rotated(t, r, side, A, Z)
  PROVE  InsertKept(r, N, A, k + 1)
<1> DEFINE w == SpansTurned(t, span, side, A, Z)
           o == Other(side)
<1>1. /\ RbGrown(t, N, span) /\ t.link[side][G] = A /\ Heights(t, N, h) /\ ~t.red[nil]
      /\ \A n \in N, s \in Sides : t.red[n] /\ t.red[t.link[s][n]] => t.link[s][n] = Z
  BY DEF AtRed, Inserting
<1>2. Trio(t, N, Z, A, G)
  BY TrioIs DEF AtRed
<1>3. /\ Z \in N /\ A \in N /\ G \in N /\ Z # A /\ A # G /\ Z # G /\ A # t.root
      /\ ~t.red[G] /\ ~t.red[t.root] /\ t.red[Z] /\ t.red[A] /\ Z # nil /\ A # nil /\ G # nil
      /\ Z \in Nodes /\ A \in Nodes /\ G \in Nodes /\ G = t.parent[A] /\ A = t.parent[Z]
  BY <1>2 DEF Trio
<1>4. o \in Sides /\ o # side
  BY SidesAre
<1>5. h[Z] = 0
  <2>1. RbGrown(t, N, span) /\ Heights(t, N, h) /\ Z \in N /\ t.red[Z]
    BY <1>1, <1>3
  <2>2. h[Z] = h[t.link[side][Z]] /\ h[nil] = 0
    BY <2>1, HeightsAre
  <2> QED
    BY <2>2
<1>6. 2 * k + 1 <= Cardinality(UnderNode(t, N, span, Z))
  BY TurningIs
<1>7. h[A] = 0 /\ h[G] = 1 /\ t.link[o][G] = nil /\ k + 1 < MaxTurns /\ (k + 1) + 1 < MaxTurns
  <2>1. Low(t, N, span, h, Z, k, A, G, side)
    BY <1>5, InsertLow, Zenon
  <2> QED
    BY <1>6, <2>1 DEF Low
<1>8. RbGrown(r, N, w)
  BY <1>1, <1>3, RotationKeeps
<1>9. RotatedLinks(t, r, N, side, A, Z)
  BY <1>1, <1>3, RotatedLinksAre
<1>10. r.red = t.red /\ r.root = t.root
  BY <1>3 DEF Rotated
<1>11. h \in [Nodes -> Nat] /\ h[nil] = 0 /\ \A n \in N : n \in Nodes
  BY <1>1, GrownNode DEF Heights
<1>12. ASSUME NEW n \in N, NEW s \in Sides
       PROVE  /\ r.red[n] => h[n] = h[r.link[s][n]]
              /\ ~r.red[n] => h[n] = h[r.link[s][n]] + 1
  <2>1. /\ t.red[n] => h[n] = h[t.link[s][n]]
        /\ ~t.red[n] => h[n] = h[t.link[s][n]] + 1
    BY <1>1, HeightsAre
  <2>2. CASE n = Z /\ s = side
    <3>1. r.link[s][n] = A
      BY <1>9, <2>2 DEF RotatedLinks
    <3> QED
      BY <1>3, <1>5, <1>7, <1>10, <2>2, <3>1
  <2>3. CASE n = A /\ s = o
    <3>1. r.link[s][n] = nil
      BY <1>3, <1>9, <2>3 DEF RotatedLinks
    <3> QED
      BY <1>3, <1>7, <1>10, <1>11, <2>3, <3>1
  <2>4. CASE ~(n = Z /\ s = side) /\ ~(n = A /\ s = o)
    <3>1. r.link[s][n] = IF t.link[s][n] = A THEN Z ELSE t.link[s][n]
      BY <1>9, <2>4 DEF RotatedLinks
    <3>2. h[r.link[s][n]] = h[t.link[s][n]]
      BY <1>5, <1>7, <3>1
    <3> QED
      BY <1>10, <2>1, <3>2
  <2> QED
    BY <2>2, <2>3, <2>4
<1>13. Heights(r, N, h)
  BY <1>11, <1>12, HeightsIf
<1>14. ASSUME NEW n \in N, NEW s \in Sides, t.red[n], t.red[t.link[s][n]]
       PROVE  n = A /\ s = o
  <2>1. t.link[s][n] = t.link[o][A] /\ t.link[s][n] # nil
    BY <1>1, <1>3, <1>14
  <2>2. RbGrown(t, N, span) /\ A \in N /\ o \in Sides
    BY <1>1, <1>3, <1>4
  <2> HIDE DEF o
  <2> QED
    BY <2>1, <2>2, GrownOnce
<1>15. ASSUME NEW n \in N, NEW s \in Sides, r.red[n], r.red[r.link[s][n]]
       PROVE  r.link[s][n] = A
  <2>1. CASE n = Z /\ s = side
    BY <1>9, <2>1 DEF RotatedLinks
  <2>2. CASE n = A /\ s = o
    <3>1. r.link[s][n] = nil
      BY <1>3, <1>9, <2>2 DEF RotatedLinks
    <3> QED
      BY <1>1, <1>10, <1>15, <3>1
  <2>3. CASE ~(n = Z /\ s = side) /\ ~(n = A /\ s = o)
    <3>1. r.link[s][n] = IF t.link[s][n] = A THEN Z ELSE t.link[s][n]
      BY <1>9, <2>3 DEF RotatedLinks
    <3>2. t.red[n] /\ t.red[t.link[s][n]]
      BY <1>3, <1>10, <1>15, <3>1
    <3> QED
      BY <1>14, <2>3, <3>2
  <2> QED
    BY <2>1, <2>2, <2>3
<1>16. r.parent[A] = Z /\ r.parent[Z] = G
  BY <1>3 DEF Rotated
<1>17. r.link[side][Z] = A /\ r.link[side][G] = Z /\ r.link[o][G] = nil
  BY <1>1, <1>3, <1>4, <1>7, <1>9 DEF RotatedLinks
<1>18. Turning(r, N, w, A, k + 1)
  BY <1>7, <1>16, <1>17 DEF Turning
<1> HIDE DEF w
<1>19. Inserting(r, N, w, h, A, k + 1)
  BY <1>3, <1>10, <1>13, <1>15, <1>18 DEF Inserting
<1> QED
  BY <1>7, <1>8, <1>19 DEF InsertKept

\* A, which was red, is black and G red.
Swapped(t, c, A, G) ==
  /\ c.root = t.root /\ c.link = t.link /\ c.parent = t.parent /\ c.key = t.key
  /\ \A m \in Nodes : c.red[m] = IF m = G THEN TRUE ELSE IF m = A THEN FALSE ELSE t.red[m]

\* The third case, if it moves no subtree; c is the tree with the new colours.
LEMMA InsertTurnsOut ==
  ASSUME NEW t \in RbTrees, NEW c \in RbTrees, NEW r \in RbTrees, NEW N, NEW span, NEW h, NEW Z, NEW k \in Nat,
         NEW A, NEW G, NEW side \in Sides, AtRed(t, N, span, h, Z, k, A, G, side),
         ~t.red[t.link[Other(side)][G]], Z # t.link[Other(side)][A], t.link[Other(side)][A] = nil,
         Swapped(t, c, A, G), Rotated(c, r, Other(side), G, A)
  PROVE  InsertKept(r, N, Z, k + 1)
<1> DEFINE o == Other(side)
           w == SpansTurned(c, span, o, G, A)
           g == [h EXCEPT ![A] = 1, ![G] = 0]
<1>1. /\ RbGrown(t, N, span) /\ t.link[side][G] = A /\ Heights(t, N, h) /\ ~t.red[nil]
      /\ \A n \in N, s \in Sides : t.red[n] /\ t.red[t.link[s][n]] => t.link[s][n] = Z
  BY DEF AtRed, Inserting
<1>2. Trio(t, N, Z, A, G)
  BY TrioIs DEF AtRed
<1>3. /\ Z \in N /\ A \in N /\ G \in N /\ Z # A /\ A # G /\ Z # G /\ Z # t.root /\ A # t.root
      /\ ~t.red[G] /\ ~t.red[t.root] /\ t.red[Z] /\ t.red[A] /\ Z # nil /\ A # nil /\ G # nil
      /\ Z \in Nodes /\ A \in Nodes /\ G \in Nodes /\ G = t.parent[A] /\ A = t.parent[Z]
  BY <1>2 DEF Trio
<1>4. o \in Sides /\ o # side /\ Other(o) = side /\ \A s \in Sides : s = side \/ s = o
  BY SidesAre
<1>5. PICK z \in Sides : t.link[z][A] = Z
  BY <1>2 DEF Trio
<1>6. t.link[side][A] = Z
  BY <1>4, <1>5
<1>7. h[A] = 0
  <2>1. RbGrown(t, N, span) /\ Heights(t, N, h) /\ A \in N /\ t.red[A] /\ o \in Sides
    BY <1>1, <1>3, <1>4
  <2>2. h[A] = h[t.link[o][A]] /\ h[nil] = 0
    BY <2>1, HeightsAre
  <2> QED
    BY <2>2
<1>8. h[Z] = 0 /\ h[G] = 1 /\ t.link[o][G] = nil /\ k + 1 < MaxTurns
  <2>1. h[Z] = 0 \/ h[A] = 0
    BY <1>7
  <2>2. Low(t, N, span, h, Z, k, A, G, side)
    BY <2>1, InsertLow, Zenon
  <2> QED
    BY <2>2 DEF Low
<1>9. RbGrown(c, N, span) /\ c.link = t.link /\ c.parent = t.parent /\ c.root = t.root
  BY <1>1, Recoloured DEF Swapped
<1>10. RbGrown(r, N, w)
  <2>1. A = c.link[Other(o)][G] /\ c.link[o][A] = nil
    BY <1>1, <1>4, <1>9
  <2> QED
    BY <1>3, <1>4, <1>9, <2>1, RotationKeeps
<1>11. RotatedLinks(c, r, N, o, G, A)
  <2>1. A = c.link[Other(o)][G]
    BY <1>1, <1>4, <1>9
  <2> QED
    BY <1>3, <1>4, <1>9, <2>1, RotatedLinksAre
<1>12. r.red = c.red
  BY DEF Rotated
<1>13. h \in [Nodes -> Nat] /\ h[nil] = 0 /\ \A n \in N : n \in Nodes /\ n # nil
  BY <1>1, GrownNode DEF Heights
<1>14. /\ g \in [Nodes -> Nat] /\ g[nil] = 0 /\ g[A] = 1 /\ g[G] = 0
       /\ \A n \in Nodes : n # A /\ n # G => g[n] = h[n]
  <2>1. nil \in Nodes /\ 0 \in Nat /\ 1 \in Nat
    BY RbFields
  <2> QED
    BY <1>3, <1>13, <2>1
<1> HIDE DEF g
<1>15. ASSUME NEW n \in N, NEW s \in Sides
       PROVE  r.link[s][n] = IF n = A /\ s = o THEN G
                             ELSE IF n = G /\ s = side THEN nil
                             ELSE IF t.link[s][n] = G THEN A
                             ELSE t.link[s][n]
  BY <1>4, <1>9, <1>11 DEF RotatedLinks
<1>16. ASSUME NEW n \in N, NEW s \in Sides
       PROVE  t.link[s][n] = A => n = G
  BY <1>1, <1>3, GrownUp
<1>17. r.red[A] = FALSE /\ r.red[G] = TRUE /\ r.red[nil] = FALSE /\ r.red[Z] = TRUE
       /\ \A n \in Nodes : n # A /\ n # G => r.red[n] = t.red[n]
  <2>1. t.red[nil] = FALSE /\ t.red[Z] = TRUE /\ nil \in Nodes
    BY <1>1, <1>3, RbFields
  <2> QED
    BY <1>3, <1>12, <2>1 DEF Swapped
<1>18. ASSUME NEW n \in N, NEW s \in Sides
       PROVE  /\ r.red[n] => g[n] = g[r.link[s][n]]
              /\ ~r.red[n] => g[n] = g[r.link[s][n]] + 1
  <2>1. /\ t.red[n] => h[n] = h[t.link[s][n]]
        /\ ~t.red[n] => h[n] = h[t.link[s][n]] + 1
        /\ t.link[s][n] \in Nodes /\ n \in Nodes
    BY <1>1, HeightsAre, GrownNode
  <2>2. CASE n = G
    <3>1. r.link[s][n] = nil
      <4>1. CASE s = side
        BY <1>3, <1>15, <2>2, <4>1
      <4>2. CASE s = o
        BY <1>3, <1>4, <1>8, <1>15, <2>2, <4>2
      <4> QED
        BY <1>4, <4>1, <4>2
    <3> QED
      BY <1>14, <1>17, <2>2, <3>1
  <2>3. CASE n = A
    <3>1. g[r.link[s][n]] = 0
      <4>1. CASE s = o
        <5>1. r.link[s][n] = G
          BY <1>15, <2>3, <4>1
        <5> QED
          BY <1>14, <5>1
      <4>2. CASE s = side
        <5>1. r.link[s][n] = Z
          BY <1>3, <1>4, <1>6, <1>15, <2>3, <4>2
        <5>2. g[Z] = h[Z]
          BY <1>3, <1>14
        <5> QED
          BY <1>8, <5>1, <5>2
      <4> QED
        BY <1>4, <4>1, <4>2
    <3>2. r.red[n] = FALSE /\ g[n] = 1
      BY <1>14, <1>17, <2>3
    <3> QED
      BY <3>1, <3>2
  <2>4. CASE n # A /\ n # G
    <3>1. t.link[s][n] # A
      BY <1>16, <2>4
    <3>2. r.link[s][n] = IF t.link[s][n] = G THEN A ELSE t.link[s][n]
      BY <1>15, <2>4
    <3>3. g[r.link[s][n]] = h[t.link[s][n]]
      <4>1. CASE t.link[s][n] = G
        BY <1>8, <1>14, <3>2, <4>1
      <4>2. CASE t.link[s][n] # G
        BY <1>14, <2>1, <3>1, <3>2, <4>2
      <4> QED
        BY <4>1, <4>2
    <3>4. g[n] = h[n] /\ r.red[n] = t.red[n]
      BY <1>14, <1>17, <2>1, <2>4
    <3> QED
      BY <2>1, <3>3, <3>4
  <2> QED
    BY <2>2, <2>3, <2>4
<1>19. Heights(r, N, g)
  BY <1>13, <1>14, <1>18, HeightsIf
<1>20. ASSUME NEW n \in N, NEW s \in Sides, r.red[n], r.red[r.link[s][n]]
       PROVE  r.link[s][n] = Z
  <2>1. n # A
    BY <1>17, <1>20
  <2>2. CASE n = G
    <3>1. r.link[s][n] = nil
      <4>1. CASE s = side
        BY <1>3, <1>15, <2>2, <4>1
      <4>2. CASE s = o
        BY <1>3, <1>4, <1>8, <1>15, <2>2, <4>2
      <4> QED
        BY <1>4, <4>1, <4>2
    <3> QED
      BY <1>17, <1>20, <3>1
  <2>3. CASE n # G
    <3>1. r.link[s][n] = IF t.link[s][n] = G THEN A ELSE t.link[s][n]
      BY <1>15, <2>1, <2>3
    <3>2. t.link[s][n] # G /\ t.link[s][n] # A
      BY <1>16, <1>17, <1>20, <2>3, <3>1
    <3>3. t.link[s][n] \in Nodes /\ n \in Nodes
      BY <1>1, GrownNode
    <3>4. t.red[n] /\ t.red[t.link[s][n]]
      BY <1>17, <1>20, <2>1, <2>3, <3>1, <3>2, <3>3
    <3> QED
      BY <1>1, <3>1, <3>2, <3>4
  <2> QED
    BY <2>2, <2>3
<1>21. ~r.red[r.root]
  <2>1. CASE t.parent[G] = nil
    <3>1. r.root = A
      BY <1>9, <2>1 DEF Rotated
    <3> QED
      BY <1>17, <3>1
  <2>2. CASE t.parent[G] # nil
    <3>1. r.root = t.root
      BY <1>9, <2>2 DEF Rotated
    <3>2. t.root # G
      BY <1>1, <1>3, <2>2, GrownNode
    <3>3. t.root \in Nodes
      BY RbFields
    <3> QED
      BY <1>3, <1>17, <3>1, <3>2, <3>3
  <2> QED
    BY <2>1, <2>2
<1>22. ~r.red[r.parent[Z]]
  <2>1. r.parent[Z] = A
    BY <1>3, <1>9 DEF Rotated
  <2> QED
    BY <1>17, <2>1
<1>23. Turning(r, N, w, Z, k + 1)
  BY <1>22 DEF Turning
<1> HIDE DEF w
<1>24. Inserting(r, N, w, g, Z, k + 1)
  BY <1>3, <1>17, <1>19, <1>20, <1>21, <1>23 DEF Inserting
<1> QED
  BY <1>8, <1>10, <1>24 DEF InsertKept

\* What a call leaves when it is done.
Settled(r, N) == \E span, h : RbGrown(r, N, span) /\ Heights(r, N, h) /\ Calm(r, N)

\* The end of insertFixUp paints the root black.
LEMMA InsertSettles ==
  ASSUME NEW t \in RbTrees, NEW r \in RbTrees, NEW N, NEW span, RbGrown(t, N, span), NEW h, NEW Z, NEW k,
         Inserting(t, N, span, h, Z, k), ~t.red[t.parent[Z]],
         r.root = t.root, r.link = t.link, r.parent = t.parent, r.key = t.key,
         \A m \in Nodes : r.red[m] = IF m = t.root THEN FALSE ELSE t.red[m]
  PROVE  Settled(r, N)
<1> DEFINE g == [h EXCEPT ![t.root] = IF t.red[t.root] THEN h[t.root] + 1 ELSE h[t.root]]
<1>1. /\ Z \in N /\ Heights(t, N, h)
      /\ \A n \in N, s \in Sides : t.red[n] /\ t.red[t.link[s][n]] => t.link[s][n] = Z
  BY DEF Inserting
<1>2. t.root \in N /\ t.root # nil /\ t.root \in Nodes /\ nil \in Nodes
  BY <1>1, GrownNode, RbFields
<1>3. RbGrown(r, N, span)
  BY Recoloured
<1>4. h \in [Nodes -> Nat] /\ h[nil] = 0
  BY <1>1 DEF Heights
<1>5. /\ g \in [Nodes -> Nat] /\ g[nil] = 0
      /\ g[t.root] = IF t.red[t.root] THEN h[t.root] + 1 ELSE h[t.root]
      /\ \A n \in Nodes : n # t.root => g[n] = h[n]
  <2>1. h[t.root] + 1 \in Nat /\ h[t.root] \in Nat
    BY <1>2, <1>4
  <2> QED
    BY <1>2, <1>4, <2>1
<1> HIDE DEF g
<1>6. \A n \in N : n \in Nodes /\ \A s \in Sides : t.link[s][n] \in Nodes
  BY GrownNode
<1>7. ASSUME NEW n \in N, NEW s \in Sides
      PROVE  /\ r.red[n] => g[n] = g[r.link[s][n]]
             /\ ~r.red[n] => g[n] = g[r.link[s][n]] + 1
  <2> DEFINE c == t.link[s][n]
  <2>1. h[n] \in Nat /\ h[c] \in Nat /\ (t.red[n] => h[n] = h[c]) /\ (~t.red[n] => h[n] = h[c] + 1)
    BY <1>1, HeightsAre
  <2>2. c # t.root
    <3>1. CASE c = nil
      BY <1>2, <3>1
    <3>2. CASE c # nil
      BY <3>2, GrownChild
    <3> QED
      BY <3>1, <3>2
  <2>3. g[c] = h[c] /\ r.link[s][n] = c
    BY <1>5, <1>6, <2>2
  <2>4. CASE n = t.root
    <3>1. ~r.red[n] /\ g[n] = IF t.red[n] THEN h[n] + 1 ELSE h[n]
      BY <1>2, <1>5, <2>4
    <3> QED
      BY <2>1, <2>3, <3>1
  <2>5. CASE n # t.root
    <3>1. r.red[n] = t.red[n] /\ g[n] = h[n]
      BY <1>5, <1>6, <2>5
    <3> QED
      BY <2>1, <2>3, <3>1
  <2> QED
    BY <2>4, <2>5
<1>8. Heights(r, N, g)
  BY <1>5, <1>6, <1>7, HeightsIf
<1>9. ASSUME NEW n \in N, NEW s \in Sides, r.red[n], r.red[r.link[s][n]]
      PROVE  FALSE
  <2>1. t.red[n] /\ t.red[t.link[s][n]]
    BY <1>6, <1>9
  <2>2. t.link[s][n] = Z /\ Z # nil
    BY <1>1, <2>1, GrownNode
  <2>3. n = t.parent[Z]
    BY <2>2, GrownUp
  <2> QED
    BY <2>1, <2>3
<1>10. Calm(r, N)
  BY <1>2, <1>9 DEF Calm
<1> QED
  BY <1>3, <1>8, <1>10 DEF Settled

\* insertNode makes a first node.
Planted(t, r, Z, key) ==
  /\ r.root = Z /\ r.parent[Z] = nil /\ r.key[Z] = key /\ r.red[Z] /\ r.red[nil] = t.red[nil]
  /\ \A s \in Sides : r.link[s][Z] = nil

LEMMA InsertPlants ==
  ASSUME NEW t, NEW r \in RbTrees, NEW Z \in 1 .. MaxNodes, NEW key \in Nat, ~t.red[nil],
         Planted(t, r, Z, key)
  PROVE  InsertKept(r, {Z}, Z, 0)
<1> DEFINE span == [n \in Nodes |-> Nat]
           h == [n \in Nodes |-> 0]
<1>1. Z \in Nodes /\ nil \in Nodes /\ Z # nil /\ MaxTurns \in Nat /\ 0 < MaxTurns /\ MaxNodes \in Nat
  BY RbAssumption, RbFields DEF Nodes, nil
<1>2. ASSUME NEW s \in Sides PROVE Place(r, {Z}, span, s, Z)
  BY OnSideIs DEF Planted, Place, Part
<1>3. span \in [Nodes -> SUBSET Nat] /\ span[Z] = Nat /\ h \in [Nodes -> Nat] /\ h[nil] = 0 /\ h[Z] = 0
  BY <1>1
<1> HIDE DEF span, h
<1>4. RbGrown(r, {Z}, span)
  BY <1>1, <1>2, <1>3 DEF RbGrown, Planted
<1>5. Heights(r, {Z}, h)
  BY <1>1, <1>3, HeightsIf DEF Planted
<1>6. Inserting(r, {Z}, span, h, Z, 0)
  BY <1>1, <1>5 DEF Inserting, Turning, Planted
<1> QED
  BY <1>1, <1>4, <1>6 DEF InsertKept

\* insertNode hangs the node Z below Y.
Hung(t, r, Z, Y, side, key) ==
  /\ r.root = t.root
  /\ \A m \in Nodes : /\ r.parent[m] = IF m = Z THEN Y ELSE t.parent[m]
                      /\ r.key[m] = IF m = Z THEN key ELSE t.key[m]
                      /\ r.red[m] = IF m = Z THEN TRUE ELSE t.red[m]
  /\ \A s \in Sides, m \in Nodes : r.link[s][m] = IF m = Y /\ s = side THEN Z
                                                  ELSE IF m = Z THEN nil ELSE t.link[s][m]

\* The spans are as before, but for the new node.
LEMMA HungGrows ==
  ASSUME NEW t \in RbTrees, NEW r \in RbTrees, NEW N, NEW span, RbGrown(t, N, span), NEW Z \in 1 .. MaxNodes,
         Z \notin N, NEW Y, NEW key \in Nat, HangsAt(t, N, span, Y, key), \A n \in N : t.key[n] # key,
         Hung(t, r, Z, Y, Towards(t, Y, key), key),
         NEW w \in [Nodes -> SUBSET Nat], w[Z] = Part(t, span, Towards(t, Y, key), Y),
         \A n \in N : w[n] = span[n]
  PROVE  RbGrown(r, N \cup {Z}, w)
<1> DEFINE side == Towards(t, Y, key)
           M == N \cup {Z}
<1>1. /\ Y \in N /\ side \in Sides /\ t.link[side][Y] = nil /\ key \in w[Z]
      /\ \A n \in N, s \in Sides : t.link[s][n] = nil /\ key \in Part(t, span, s, n) => n = Y /\ s = side
  BY DEF HangsAt
<1>2. Z \in Nodes /\ Z # nil /\ nil \in Nodes
  BY RbFields DEF Nodes, nil
<1>3. ASSUME NEW n \in N
      PROVE  /\ n \in Nodes /\ n # nil /\ n # Z /\ r.key[n] = t.key[n] /\ t.key[n] \in span[n]
             /\ r.parent[n] = t.parent[n] /\ w[n] = span[n] /\ t.root # nil
             /\ t.root \in N /\ t.parent[t.root] = nil
  <2>1. /\ n \in Nodes /\ n # nil /\ t.key[n] \in span[n] /\ t.root # nil
        /\ t.root \in N /\ t.parent[t.root] = nil
    BY GrownNode
  <2>2. n # Z /\ w[n] = span[n]
    OBVIOUS
  <2>3. r.key[n] = t.key[n] /\ r.parent[n] = t.parent[n]
    BY <2>1, <2>2 DEF Hung
  <2> QED
    BY <2>1, <2>2, <2>3
<1>4. r.key[Z] = key /\ r.parent[Z] = Y /\ \A s \in Sides : r.link[s][Z] = nil
  BY <1>1, <1>2, <1>3 DEF Hung
<1>5. ASSUME NEW n \in N, NEW s \in Sides
      PROVE  r.link[s][n] = IF n = Y /\ s = side THEN Z ELSE t.link[s][n]
  BY <1>3 DEF Hung
<1> HIDE DEF side
<1>6. ASSUME NEW n \in N, NEW s \in Sides
      PROVE  Part(r, w, s, n) = Part(t, span, s, n)
  BY <1>3 DEF Part
<1>7. ASSUME NEW n \in M, NEW s \in Sides PROVE Place(r, M, w, s, n)
  <2>1. CASE n = Z
    <3>1. ASSUME NEW m \in M PROVE r.key[m] \notin Part(r, w, s, Z)
      <4>1. CASE m = Z
        BY <1>4, <4>1, OnSideIs DEF Part
      <4>2. CASE m \in N
        <5>1. Place(t, N, span, side, Y)
          BY <1>1 DEF RbGrown
        <5>2. t.key[m] \notin w[Z]
          BY <1>1, <4>2, <5>1 DEF Place, side
        <5> QED
          BY <1>3, <4>2, <5>2 DEF Part
      <4> QED
        BY <4>1, <4>2
    <3> QED
      BY <1>4, <2>1, <3>1 DEF Place
  <2>2. CASE n = Y /\ s = side
    <3>1. r.link[s][n] = Z /\ w[Z] = Part(r, w, s, n) /\ r.parent[Z] = n
      BY <1>1, <1>4, <1>5, <1>6, <2>2 DEF side
    <3> QED
      BY <1>2, <3>1 DEF Place
  <2>3. CASE n \in N /\ ~(n = Y /\ s = side)
    <3>1. Place(t, N, span, s, n) /\ r.link[s][n] = t.link[s][n] /\ Part(r, w, s, n) = Part(t, span, s, n)
      BY <1>5, <1>6, <2>3 DEF RbGrown
    <3>2. CASE t.link[s][n] = nil
      <4>1. \A m \in N : r.key[m] \notin Part(t, span, s, n)
        BY <1>3, <3>1, <3>2 DEF Place
      <4>2. r.key[Z] \notin Part(t, span, s, n)
        BY <1>1, <1>4, <2>3, <3>2
      <4> QED
        BY <3>1, <3>2, <4>1, <4>2 DEF Place
    <3>3. CASE t.link[s][n] # nil
      <4>1. t.link[s][n] \in N /\ span[t.link[s][n]] = Part(t, span, s, n) /\ t.parent[t.link[s][n]] = n
        BY <3>1, <3>3 DEF Place
      <4> QED
        BY <1>3, <3>1, <3>3, <4>1 DEF Place
    <3> QED
      BY <3>2, <3>3
  <2> QED
    BY <2>1, <2>2, <2>3
<1>8. ASSUME NEW n \in M
      PROVE  n = r.root \/ (r.parent[n] \in M /\ \E s \in Sides : r.link[s][r.parent[n]] = n)
  <2>1. CASE n = Z
    BY <1>1, <1>4, <1>5, <2>1
  <2>2. CASE n \in N /\ n # t.root
    <3>1. t.parent[n] \in N /\ \E s \in Sides : t.link[s][t.parent[n]] = n
      BY <2>2, GrownParent
    <3>2. PICK s \in Sides : t.link[s][t.parent[n]] = n
      BY <3>1
    <3>3. ~(t.parent[n] = Y /\ s = side)
      BY <1>1, <1>3, <2>2, <3>2
    <3>4. r.link[s][t.parent[n]] = n
      BY <1>5, <3>1, <3>2, <3>3
    <3> QED
      BY <1>3, <2>2, <3>1, <3>4
  <2>3. CASE n = t.root
    BY <2>3 DEF Hung
  <2> QED
    BY <2>1, <2>2, <2>3
<1>9. r.root = t.root /\ r.root \in N /\ r.root # nil /\ w[r.root] = Nat /\ r.parent[r.root] = nil
  <2>1. span[t.root] = Nat
    BY <1>1, <1>3 DEF RbGrown
  <2> QED
    BY <1>1, <1>3, <2>1 DEF Hung
<1>10. \A n \in M : r.key[n] \in w[n]
  BY <1>1, <1>3, <1>4
<1>11. ASSUME NEW m \in M, NEW n \in M, r.key[m] = r.key[n] PROVE m = n
  BY <1>3, <1>4, <1>11 DEF RbGrown
<1>12. M \subseteq 1 .. MaxNodes
  BY DEF RbGrown
<1> HIDE DEF M
<1>13. RbGrown(r, M, w)
  <2>1. r.root \in M
    BY <1>9 DEF M
  <2> QED
    BY <2>1, <1>7, <1>8, <1>9, <1>10, <1>11, <1>12 DEF RbGrown
<1> QED
  BY <1>13 DEF M

LEMMA InsertHangs ==
  ASSUME NEW t \in RbTrees, NEW r \in RbTrees, NEW N, NEW span, RbGrown(t, N, span), NEW Z \in 1 .. MaxNodes,
         Z \notin N, NEW Y, NEW key \in Nat, HangsAt(t, N, span, Y, key), \A n \in N : t.key[n] # key,
         Hung(t, r, Z, Y, Towards(t, Y, key), key),
         NEW h, Heights(t, N, h), Calm(t, N), ~t.red[nil]
  PROVE  InsertKept(r, N \cup {Z}, Z, 0)
<1> DEFINE side == Towards(t, Y, key)
           M == N \cup {Z}
           w == [span EXCEPT ![Z] = Part(t, span, side, Y)]
           g == [h EXCEPT ![Z] = 0]
<1>1. Y \in N /\ side \in Sides /\ t.link[side][Y] = nil
  BY DEF HangsAt
<1>2. Z \in Nodes /\ Z # nil /\ nil \in Nodes /\ MaxTurns \in Nat /\ 0 < MaxTurns /\ MaxNodes \in Nat
  BY RbAssumption, RbFields DEF Nodes, nil
<1>3. ASSUME NEW n \in N
      PROVE  n \in Nodes /\ n # nil /\ n # Z /\ t.root \in N /\ \A s \in Sides : t.link[s][n] \in N \cup {nil}
  BY GrownNode
<1>4. w \in [Nodes -> SUBSET Nat] /\ w[Z] = Part(t, span, side, Y) /\ \A n \in N : w[n] = span[n]
  <2>1. span \in [Nodes -> SUBSET Nat]
    BY DEF RbGrown
  <2>2. Part(t, span, side, Y) \subseteq Nat
    BY <1>1, <1>3, <2>1 DEF Part
  <2> HIDE DEF side
  <2> QED
    BY <1>2, <1>3, <2>1, <2>2
<1> HIDE DEF w
<1>5. RbGrown(r, M, w)
  BY <1>4, HungGrows
<1>6. h \in [Nodes -> Nat] /\ h[nil] = 0
  BY DEF Heights
<1>7. g \in [Nodes -> Nat] /\ g[Z] = 0 /\ \A n \in Nodes : n # Z => g[n] = h[n]
  BY <1>2, <1>6
<1> HIDE DEF g
<1>8. /\ r.red[Z] /\ r.root = t.root
      /\ \A n \in Nodes : n # Z => r.red[n] = t.red[n]
      /\ \A s \in Sides : r.link[s][Z] = nil
  BY <1>1, <1>2, <1>3 DEF Hung
<1>9. ASSUME NEW n \in N, NEW s \in Sides
      PROVE  r.link[s][n] = IF n = Y /\ s = side THEN Z ELSE t.link[s][n]
  BY <1>3 DEF Hung
<1> HIDE DEF side
<1>10. ASSUME NEW n \in M, NEW s \in Sides
       PROVE  /\ r.red[n] => g[n] = g[r.link[s][n]]
              /\ ~r.red[n] => g[n] = g[r.link[s][n]] + 1
  <2>1. CASE n = Z
    BY <1>2, <1>6, <1>7, <1>8, <2>1
  <2>2. CASE n \in N
    <3>1. /\ t.red[n] => h[n] = h[t.link[s][n]]
          /\ ~t.red[n] => h[n] = h[t.link[s][n]] + 1
      BY <2>2, HeightsAre
    <3>2. g[n] = h[n] /\ r.red[n] = t.red[n]
      BY <1>3, <1>7, <1>8, <2>2
    <3>3. g[r.link[s][n]] = h[t.link[s][n]]
      <4>1. CASE n = Y /\ s = side
        BY <1>1, <1>6, <1>7, <1>9, <4>1
      <4>2. CASE ~(n = Y /\ s = side)
        <5>1. r.link[s][n] = t.link[s][n] /\ t.link[s][n] # Z /\ t.link[s][n] \in Nodes
          BY <1>2, <1>3, <1>9, <2>2, <4>2
        <5> QED
          BY <1>7, <5>1
      <4> QED
        BY <4>1, <4>2
    <3> QED
      BY <3>1, <3>2, <3>3
  <2> QED
    BY <2>1, <2>2
<1>11. Heights(r, M, g)
  <2>1. \A n \in M : n \in Nodes
    BY <1>2, <1>3
  <2>2. g[nil] = 0
    BY <1>2, <1>6, <1>7
  <2> HIDE DEF M
  <2> QED
    BY <1>7, <1>10, <2>1, <2>2, HeightsIf
<1>12. ASSUME NEW n \in M, NEW s \in Sides, r.red[n], r.red[r.link[s][n]], r.link[s][n] # Z
       PROVE  FALSE
  <2>1. n # Z
    BY <1>2, <1>8, <1>12
  <2>2. r.link[s][n] = t.link[s][n] /\ t.link[s][n] \in Nodes
    BY <1>2, <1>3, <1>9, <1>12, <2>1
  <2>3. t.red[n] /\ t.red[t.link[s][n]]
    BY <1>3, <1>8, <1>12, <2>1, <2>2
  <2> QED
    BY <2>1, <2>3 DEF Calm
<1>13. ~r.red[r.root]
  BY <1>1, <1>3, <1>8 DEF Calm
<1>14. Turning(r, M, w, Z, 0)
  <2>1. Z \in M
    OBVIOUS
  <2>2. Cardinality(UnderNode(r, M, w, Z)) \in Nat /\ Cardinality(UnderNode(r, M, w, Z)) >= 1
    BY <1>5, <2>1, UnderSize
  <2> QED
    BY <2>2 DEF Turning
<1>15. Inserting(r, M, w, g, Z, 0)
  BY <1>8, <1>11, <1>12, <1>13, <1>14 DEF Inserting
<1> QED
  BY <1>2, <1>5, <1>15 DEF InsertKept

-----------------------------------------------------------------------------
\* deleteNode takes out Z, which has no child on the side o; X is the other.
Cut(t, r, N, Z, X) ==
  /\ r.red = t.red /\ r.key = t.key
  /\ r.root = IF t.parent[Z] = nil THEN X ELSE t.root
  /\ r.parent[X] = t.parent[Z]
  /\ \A n \in N : n # X => r.parent[n] = t.parent[n]
  /\ \A n \in N, s \in Sides : r.link[s][n] = IF t.link[s][n] = Z THEN X ELSE t.link[s][n]
Lone(t, N, Z, X, o) == Z \in N /\ o \in Sides /\ t.link[o][Z] = nil /\ t.link[Other(o)][Z] = X

\* The assignments of deleteNode.
LEMMA CutIs ==
  ASSUME NEW t \in RbTrees, NEW N, NEW span, RbGrown(t, N, span), NEW Z, NEW X, NEW o, Lone(t, N, Z, X, o),
         NEW a, a = [t EXCEPT !.parent[X] = t.parent[Z]],
         NEW b, b = Replace(a, Z, X),
         NEW r, r = IF t.parent[Z] = nil THEN [b EXCEPT !.parent[nil] = X] ELSE b
  PROVE  r \in RbTrees /\ Cut(t, r, N, Z, X)
<1> DEFINE p == t.parent[Z]
<1>1. /\ Z \in N /\ Z \in Nodes /\ Z # nil /\ p \in Nodes /\ Other(o) \in Sides /\ t.link[Other(o)][Z] = X
      /\ X \in N \cup {nil} /\ X \in Nodes /\ (p = nil) = (Z = t.root) /\ nil \in Nodes
  BY GrownNode, SidesAre, RbFields DEF Lone
<1>2. X # Z
  <2>1. CASE X = nil
    BY <1>1, <2>1
  <2>2. CASE X # nil
    BY <1>1, <2>2, GrownChild
  <2> QED
    BY <2>1, <2>2
<1>3. /\ a \in RbTrees /\ a.root = t.root /\ a.link = t.link /\ a.red = t.red /\ a.key = t.key
      /\ \A m \in Nodes : a.parent[m] = IF m = X THEN p ELSE t.parent[m]
  BY <1>1, SetParent
<1>4. b \in RbTrees /\ Replaced(a, b, Z, X)
  BY <1>1, <1>3, ReplaceIs
<1>5. a.parent[Z] = p
  BY <1>1, <1>2, <1>3
<1>6. /\ b.red = t.red /\ b.key = t.key /\ b.root = IF p = nil THEN X ELSE t.root
      /\ \A m \in Nodes : b.parent[m] = IF m = X THEN p ELSE t.parent[m]
  BY <1>3, <1>4, <1>5 DEF Replaced
<1>7. /\ r \in RbTrees /\ r.root = b.root /\ r.link = b.link /\ r.red = b.red /\ r.key = b.key
      /\ \A m \in Nodes : r.parent[m] = IF p = nil /\ m = nil THEN X ELSE b.parent[m]
  <2>1. CASE p = nil
    BY <1>1, <1>4, <2>1, SetParent
  <2>2. CASE p # nil
    BY <1>4, <2>2
  <2> QED
    BY <2>1, <2>2
<1>8. ASSUME NEW n \in N
      PROVE  n \in Nodes /\ n # nil
  BY GrownNode
<1>9. r.parent[X] = p /\ \A n \in N : n # X => r.parent[n] = t.parent[n]
  BY <1>1, <1>6, <1>7, <1>8
<1>10. ASSUME NEW n \in N, NEW s \in Sides
       PROVE  r.link[s][n] = IF t.link[s][n] = Z THEN X ELSE t.link[s][n]
  <2>1. CASE p = nil
    <3>1. b.link[s][n] = t.link[s][n]
      BY <1>3, <1>4, <1>5, <1>8, <2>1 DEF Replaced
    <3>2. t.link[s][n] # Z
      BY <1>1, <1>8, <2>1, GrownChild
    <3> QED
      BY <1>7, <3>1, <3>2
  <2>2. CASE p # nil
    <3>1. b.link[s][n] = IF n = p /\ s = SideOf(a, p, Z) THEN X ELSE t.link[s][n]
      BY <1>3, <1>4, <1>5, <1>8, <2>2 DEF Replaced
    <3>2. SideOf(a, p, Z) = SideOf(t, p, Z)
      BY <1>3 DEF SideOf
    <3>3. (n = p /\ s = SideOf(t, p, Z)) = (t.link[s][n] = Z)
      <4>1. ASSUME t.link[s][n] = Z PROVE n = p /\ s = SideOf(t, p, Z)
        <5>1. n = p
          BY <1>1, <4>1, GrownUp
        <5> QED
          BY <1>1, <4>1, <5>1, SideOfIs
      <4>2. ASSUME n = p, s = SideOf(t, p, Z) PROVE t.link[s][n] = Z
        <5>1. PICK u \in Sides : t.link[u][p] = Z
          BY <1>1, <2>2, GrownParent
        <5>2. SideOf(t, p, Z) = u
          BY <1>1, <4>2, <5>1, SideOfIs
        <5> QED
          BY <4>2, <5>1, <5>2
      <4> QED
        BY <4>1, <4>2
    <3> QED
      BY <1>7, <3>1, <3>2, <3>3
  <2> QED
    BY <2>1, <2>2
<1> QED
  BY <1>6, <1>7, <1>9, <1>10 DEF Cut

\* In a tree that is balanced, X is nil or a red node without children.
LEMMA LoneIs ==
  ASSUME NEW t \in RbTrees, NEW N, NEW span, RbGrown(t, N, span), NEW h, Heights(t, N, h), Calm(t, N),
         ~t.red[nil], NEW Z, NEW X, NEW o, Lone(t, N, Z, X, o)
  PROVE  /\ h[X] = 0 /\ X \in N \cup {nil} /\ X # Z /\ (t.red[Z] => X = nil)
         /\ X # nil => /\ X \in N /\ t.red[X] /\ X # t.root /\ t.parent[X] = Z
                       /\ span[X] = Part(t, span, Other(o), Z) /\ \A s \in Sides : t.link[s][X] = nil
<1>1. Z \in N /\ o \in Sides /\ t.link[o][Z] = nil /\ Other(o) \in Sides /\ t.link[Other(o)][Z] = X
  BY SidesAre DEF Lone
<1>2. h[X] = 0 /\ X \in N \cup {nil} /\ Z # nil
  <2>1. h[nil] = 0 /\ h[t.link[o][Z]] \in Nat /\ h[t.link[Other(o)][Z]] \in Nat
        /\ (t.red[Z] => h[Z] = h[t.link[o][Z]] /\ h[Z] = h[t.link[Other(o)][Z]])
        /\ (~t.red[Z] => h[Z] = h[t.link[o][Z]] + 1 /\ h[Z] = h[t.link[Other(o)][Z]] + 1)
    BY <1>1, HeightsAre
  <2>2. h[X] = 0
    BY <1>1, <2>1
  <2> QED
    BY <1>1, <2>2, GrownNode
<1>3. CASE X = nil
  BY <1>2, <1>3
<1>4. CASE X # nil
  <2>1. X \in N /\ X # t.root /\ t.parent[X] = Z /\ span[X] = Part(t, span, Other(o), Z) /\ X # Z
    BY <1>1, <1>4, GrownChild
  <2>2. t.red[X]
    BY <1>2, <1>4, LowIsNil
  <2>3. ASSUME NEW s \in Sides PROVE t.link[s][X] = nil
    <3>1. h[t.link[s][X]] = 0
      BY <1>2, <2>1, <2>2, HeightsAre
    <3>2. ~t.red[t.link[s][X]] /\ t.link[s][X] \in N \cup {nil}
      BY <2>1, <2>2, GrownNode DEF Calm
    <3> QED
      BY <3>1, <3>2, LowIsNil
  <2>4. ~t.red[Z]
    BY <1>1, <2>2 DEF Calm
  <2> QED
    BY <1>2, <1>4, <2>1, <2>2, <2>3, <2>4
<1> QED
  BY <1>3, <1>4

\* The keys of Z's span are those of Z and of X.
LEMMA LoneSpan ==
  ASSUME NEW t \in RbTrees, NEW N, NEW span, RbGrown(t, N, span), NEW h, Heights(t, N, h), Calm(t, N),
         ~t.red[nil], NEW Z, NEW X, NEW o, Lone(t, N, Z, X, o), NEW m \in N, t.key[m] \in span[Z]
  PROVE  m = Z \/ m = X
<1> SUFFICES ASSUME m # Z, m # X PROVE FALSE
  OBVIOUS
<1>1. Z \in N /\ o \in Sides /\ t.link[o][Z] = nil /\ Other(o) \in Sides /\ t.link[Other(o)][Z] = X
  BY SidesAre DEF Lone
<1>2. t.key[m] \in Nat /\ t.key[Z] \in Nat /\ t.key[m] # t.key[Z]
  <2>1. t.key[m] \in Nat /\ t.key[Z] \in Nat
    BY <1>1, GrownNode
  <2> QED
    BY <1>1, <2>1 DEF RbGrown
<1>3. Place(t, N, span, o, Z) /\ Place(t, N, span, Other(o), Z)
  BY <1>1 DEF RbGrown
<1>4. t.key[m] \notin Part(t, span, o, Z)
  BY <1>1, <1>3 DEF Place
<1>5. t.key[m] \in Part(t, span, Other(o), Z)
  BY <1>1, <1>2, <1>4, OnSideIs DEF Part
<1>6. X # nil
  BY <1>1, <1>3, <1>5 DEF Place
<1>7. X \in N /\ span[X] = Part(t, span, Other(o), Z) /\ \A s \in Sides : t.link[s][X] = nil
  BY <1>6, LoneIs
<1>8. t.key[X] \in Nat /\ t.key[m] # t.key[X]
  <2>1. t.key[X] \in Nat
    BY <1>7, GrownNode
  <2> QED
    BY <1>7, <2>1 DEF RbGrown
<1>9. \A s \in Sides : t.key[m] \notin Part(t, span, s, X)
  <2>1. \A s \in Sides : Place(t, N, span, s, X)
    BY <1>7 DEF RbGrown
  <2> QED
    BY <1>7, <2>1 DEF Place
<1>10. t.key[m] \in span[X]
  BY <1>5, <1>7
<1> QED
  BY <1>1, <1>2, <1>8, <1>9, <1>10, OnSideIs DEF Part

\* X takes over Z's span.
LEMMA CutGrows ==
  ASSUME NEW t \in RbTrees, NEW r \in RbTrees, NEW N, NEW span, RbGrown(t, N, span),
         NEW h, Heights(t, N, h), Calm(t, N), ~t.red[nil],
         NEW Z, NEW X, NEW o, Lone(t, N, Z, X, o), Cut(t, r, N, Z, X),
         NEW w \in [Nodes -> SUBSET Nat], \A n \in N : n # X => w[n] = span[n], X # nil => w[X] = span[Z]
  PROVE  RbGrown(r, N \ {Z}, w)
<1> DEFINE M == N \ {Z}
           p == t.parent[Z]
<1>1. /\ Z \in N /\ o \in Sides /\ t.link[o][Z] = nil /\ Other(o) \in Sides /\ t.link[Other(o)][Z] = X
      /\ \A s \in Sides : s = o \/ s = Other(o)
  BY SidesAre DEF Lone
<1>2. /\ X \in N \cup {nil} /\ X # Z
      /\ X # nil => /\ X \in M /\ X # t.root /\ t.parent[X] = Z
                    /\ span[X] = Part(t, span, Other(o), Z) /\ \A s \in Sides : t.link[s][X] = nil
  BY LoneIs
<1>3. Z # nil /\ nil \notin N /\ t.root \in N /\ t.root # nil /\ t.parent[t.root] = nil /\ (p = nil) = (Z = t.root)
  BY <1>1, GrownNode
<1>4. ASSUME NEW n \in N
      PROVE  /\ n \in Nodes /\ n # nil /\ t.key[n] \in Nat /\ t.key[n] \in span[n] /\ span[n] \subseteq Nat
             /\ (n # X => w[n] = span[n]) /\ (n = X => w[n] = span[Z])
  BY <1>1, GrownNode
<1>5. ASSUME NEW m \in M, t.key[m] \in span[Z] PROVE m = X
  BY <1>5, LoneSpan
<1>6. /\ r.key = t.key /\ r.parent[X] = p /\ r.root = IF p = nil THEN X ELSE t.root
      /\ \A n \in N : n # X => r.parent[n] = t.parent[n]
      /\ \A n \in N, s \in Sides : r.link[s][n] = IF t.link[s][n] = Z THEN X ELSE t.link[s][n]
  BY DEF Cut
<1>7. ASSUME NEW n \in M, NEW s \in Sides PROVE Place(r, M, w, s, n)
  <2>1. CASE n = X
    <3>1. r.link[s][n] = nil
      BY <1>2, <1>3, <1>6, <2>1
    <3>2. ASSUME NEW m \in M, r.key[m] \in Part(r, w, s, n) PROVE FALSE
      <4>1. t.key[m] \in span[Z] /\ OnSide(s, t.key[m], t.key[n])
        BY <1>4, <1>6, <2>1, <3>2 DEF Part
      <4>2. m = X
        BY <1>5, <4>1
      <4> QED
        BY <1>4, <2>1, <4>1, <4>2, OnSideIs
    <3> QED
      BY <3>1, <3>2 DEF Place
  <2>2. CASE n # X
    <3>1. Part(r, w, s, n) = Part(t, span, s, n) /\ Place(t, N, span, s, n)
      BY <1>4, <1>6, <2>2 DEF Part, RbGrown
    <3>2. CASE t.link[s][n] = Z
      <4>1. r.link[s][n] = X
        BY <1>6, <3>2
      <4>2. span[Z] = Part(t, span, s, n) /\ t.parent[Z] = n
        BY <1>3, <3>1, <3>2 DEF Place
      <4>3. CASE X = nil
        <5>1. \A m \in M : t.key[m] \notin span[Z]
          BY <1>3, <1>5, <4>3
        <5> QED
          BY <1>6, <3>1, <4>1, <4>2, <4>3, <5>1 DEF Place
      <4>4. CASE X # nil
        <5>1. X \in M /\ w[X] = span[Z] /\ r.parent[X] = n
          BY <1>2, <1>4, <1>6, <4>2, <4>4
        <5> QED
          BY <3>1, <4>1, <4>2, <4>4, <5>1 DEF Place
      <4> QED
        BY <4>3, <4>4
    <3>3. CASE t.link[s][n] = nil
      <4>1. r.link[s][n] = nil
        BY <1>3, <1>6, <3>3
      <4> QED
        BY <1>6, <3>1, <3>3, <4>1 DEF Place
    <3>4. CASE t.link[s][n] # Z /\ t.link[s][n] # nil
      <4>1. t.link[s][n] \in N /\ span[t.link[s][n]] = Part(t, span, s, n) /\ t.parent[t.link[s][n]] = n
        BY <3>1, <3>4 DEF Place
      <4>2. t.link[s][n] # X
        BY <1>2, <3>4, <4>1
      <4>3. r.link[s][n] = t.link[s][n]
        BY <1>6, <3>4
      <4>4. r.link[s][n] \in M /\ w[r.link[s][n]] = Part(r, w, s, n) /\ r.parent[r.link[s][n]] = n
        BY <1>4, <1>6, <3>1, <3>4, <4>1, <4>2, <4>3
      <4> QED
        BY <3>4, <4>3, <4>4 DEF Place
    <3> QED
      BY <3>2, <3>3, <3>4
  <2> QED
    BY <2>1, <2>2
<1>8. ASSUME NEW n \in M, n # r.root
      PROVE  r.parent[n] \in M /\ \E s \in Sides : r.link[s][r.parent[n]] = n
  <2>1. CASE n = X
    <3>1. Z # t.root
      BY <1>3, <1>6, <1>8, <2>1
    <3>2. p \in N /\ p # Z
      BY <1>1, <3>1, GrownParent
    <3>3. PICK s \in Sides : t.link[s][p] = Z
      BY <1>1, <3>1, GrownParent
    <3>4. r.link[s][p] = n
      BY <1>6, <2>1, <3>2, <3>3
    <3> QED
      BY <1>6, <2>1, <3>2, <3>4
  <2>2. CASE n # X
    <3>1. n # t.root
      BY <1>3, <1>6, <1>8
    <3>2. t.parent[n] \in N
      BY <3>1, GrownParent
    <3>3. PICK s \in Sides : t.link[s][t.parent[n]] = n
      BY <3>1, GrownParent
    <3>4. t.parent[n] # Z
      BY <1>1, <1>4, <2>2, <3>3
    <3>5. r.link[s][t.parent[n]] = n
      BY <1>6, <3>2, <3>3
    <3> QED
      BY <1>6, <2>2, <3>2, <3>4, <3>5
  <2> QED
    BY <2>1, <2>2
<1>9. r.root \in M \cup {nil} /\ (r.root = nil => M = {})
      /\ (r.root # nil => w[r.root] = Nat /\ r.parent[r.root] = nil)
  <2>1. span[t.root] = Nat
    BY <1>3 DEF RbGrown
  <2>2. CASE p = nil
    <3>1. r.root = X /\ span[Z] = Nat
      BY <1>3, <1>6, <2>1, <2>2
    <3>2. X = nil => M = {}
      BY <1>3, <1>4, <1>5, <3>1
    <3> QED
      BY <1>2, <1>6, <2>2, <3>1, <3>2
  <2>3. CASE p # nil
    <3>1. r.root = t.root /\ t.root # Z /\ t.root # X
      BY <1>2, <1>3, <1>6, <2>3
    <3> QED
      BY <1>3, <1>4, <1>6, <2>1, <3>1
  <2> QED
    BY <2>2, <2>3
<1>10. ASSUME NEW n \in M PROVE r.key[n] \in w[n]
  <2>1. CASE n = X
    <3>1. span[X] \subseteq span[Z]
      BY <1>1, <1>2, <1>3, <2>1 DEF Part
    <3> QED
      BY <1>4, <1>6, <2>1, <3>1
  <2>2. CASE n # X
    BY <1>4, <1>6, <2>2
  <2> QED
    BY <2>1, <2>2
<1>11. ASSUME NEW m \in M, NEW n \in M, r.key[m] = r.key[n] PROVE m = n
  BY <1>6, <1>11 DEF RbGrown
<1>12. M \subseteq 1 .. MaxNodes
  BY DEF RbGrown
<1> HIDE DEF M, p
<1>13. RbGrown(r, M, w)
  BY <1>7, <1>8, <1>9, <1>10, <1>11, <1>12 DEF RbGrown
<1> QED
  BY <1>13 DEF M

\* What a turn of deleteFixUp leaves.
DeleteKept(r, N, X, k) ==
  /\ k < MaxTurns
  /\ \E span, h : RbGrown(r, N, span) /\ Deleting(r, N, span, h, X, k)

\* deleteNode, and what is left to be done by deleteFixUp.
LEMMA DeleteCuts ==
  ASSUME NEW t \in RbTrees, NEW r \in RbTrees, NEW N, NEW span, RbGrown(t, N, span),
         NEW h, Heights(t, N, h), Calm(t, N), ~t.red[nil],
         NEW Z, NEW X, NEW o, Lone(t, N, Z, X, o), Cut(t, r, N, Z, X)
  PROVE  IF ~t.red[Z] /\ ~(X = nil /\ r.parent[X] = nil)
         THEN DeleteKept(r, N \ {Z}, X, 0) ELSE Settled(r, N \ {Z})
<1> DEFINE M == N \ {Z}
           p == t.parent[Z]
           w == [span EXCEPT ![X] = IF X = nil THEN span[nil] ELSE span[Z]]
<1>1. /\ Z \in N /\ o \in Sides /\ t.link[o][Z] = nil /\ Other(o) \in Sides /\ t.link[Other(o)][Z] = X
      /\ \A s \in Sides : s = o \/ s = Other(o)
  BY SidesAre DEF Lone
<1>2. /\ h[X] = 0 /\ X \in N \cup {nil} /\ X # Z /\ (t.red[Z] => X = nil)
      /\ X # nil => X \in M /\ X # t.root /\ t.parent[X] = Z
  BY LoneIs
<1>3. /\ Z # nil /\ nil \notin N /\ t.root \in N /\ t.root # nil /\ (p = nil) = (Z = t.root) /\ Z \in Nodes
      /\ nil \in Nodes
  BY <1>1, GrownNode, RbFields
<1>4. ASSUME NEW n \in N
      PROVE  n \in Nodes /\ n # nil
  BY GrownNode
<1>5. RbGrown(r, M, w)
  <2>1. span \in [Nodes -> SUBSET Nat]
    BY DEF RbGrown
  <2>2. X \in Nodes /\ span[X] \in SUBSET Nat /\ span[Z] \in SUBSET Nat /\ span[nil] \in SUBSET Nat
    BY <1>2, <1>3, <1>4, <2>1
  <2>3. w \in [Nodes -> SUBSET Nat] /\ (\A n \in N : n # X => w[n] = span[n]) /\ (X # nil => w[X] = span[Z])
    BY <1>4, <2>1, <2>2
  <2> HIDE DEF w, M
  <2>4. RbGrown(r, N \ {Z}, w)
    BY <2>3, CutGrows
  <2> QED
    BY <2>4 DEF M
<1> HIDE DEF w
<1>6. /\ r.red = t.red /\ r.parent[X] = p /\ r.root = IF p = nil THEN X ELSE t.root
      /\ \A n \in N, s \in Sides : r.link[s][n] = IF t.link[s][n] = Z THEN X ELSE t.link[s][n]
  BY DEF Cut
<1>7. ~t.red[t.root] /\ \A n \in N, s \in Sides : ~(t.red[n] /\ t.red[t.link[s][n]])
  BY DEF Calm
<1>8. h \in [Nodes -> Nat] /\ h[nil] = 0
  BY DEF Heights
<1>9. ASSUME NEW n \in N, NEW s \in Sides
      PROVE  /\ h[n] = h[t.link[s][n]] + Black(t, n)
             /\ h[n] \in Nat /\ h[t.link[s][n]] \in Nat /\ Black(t, n) \in Nat /\ Black(r, n) = Black(t, n)
  BY <1>6, HeightsAre DEF Heights, Black
<1>10. h[Z] = Black(t, Z)
  <2>1. h[Z] = h[t.link[o][Z]] + Black(t, Z) /\ Black(t, Z) \in Nat
    BY <1>1, <1>9
  <2> QED
    BY <1>1, <1>8, <2>1
<1>11. CASE t.red[Z]
  <2>1. X = nil /\ Z # t.root /\ h[Z] = 0
    BY <1>2, <1>7, <1>10, <1>11 DEF Black
  <2>2. r.root = t.root
    BY <1>3, <1>6, <2>1
  <2>3. ASSUME NEW n \in M, NEW s \in Sides PROVE h[n] = h[r.link[s][n]] + Black(r, n)
    <3>1. h[r.link[s][n]] = h[t.link[s][n]]
      BY <1>6, <1>8, <2>1
    <3> QED
      BY <1>9, <3>1
  <2>4. Heights(r, M, h)
    BY <1>8, <2>3 DEF Heights
  <2>5. ASSUME NEW n \in M, NEW s \in Sides, r.red[n], r.red[r.link[s][n]] PROVE FALSE
    <3>1. r.link[s][n] = t.link[s][n]
      BY <1>6, <2>1, <2>5
    <3> QED
      BY <1>6, <1>7, <2>5, <3>1
  <2>6. Calm(r, M)
    BY <1>6, <1>7, <2>2, <2>5 DEF Calm
  <2>7. Settled(r, M)
    BY <1>5, <2>4, <2>6 DEF Settled
  <2> QED
    BY <1>11, <2>7
<1>12. CASE ~t.red[Z] /\ X = nil /\ p = nil
  <2>1. r.root = nil
    BY <1>6, <1>12
  <2>2. M = {}
    BY <1>5, <2>1 DEF RbGrown
  <2>3. Heights(r, M, h) /\ Calm(r, M)
    BY <1>6, <1>8, <2>1, <2>2 DEF Heights, Calm
  <2>4. Settled(r, M)
    BY <1>5, <2>3 DEF Settled
  <2> QED
    BY <1>6, <1>12, <2>4
<1>13. CASE ~t.red[Z] /\ ~(X = nil /\ p = nil)
  <2>1. h[Z] = 1
    BY <1>10, <1>13 DEF Black
  <2>2. ASSUME NEW n \in M, NEW s \in Sides
        PROVE  r.link[s][n] = X <=> t.link[s][n] = Z \/ (X = nil /\ t.link[s][n] = nil)
    <3>1. t.link[s][n] = X => X = nil
      BY <1>2, GrownUp
    <3> QED
      BY <1>6, <3>1
  <2>3. ASSUME NEW n \in M, NEW s \in Sides
        PROVE  h[n] = h[r.link[s][n]] + Black(r, n) + Missing(r, s, n, X, p)
    <3>1. CASE t.link[s][n] = Z
      <4>1. n = p
        BY <1>3, <3>1, GrownUp
      <4>2. Missing(r, s, n, X, p) = 1 /\ h[r.link[s][n]] = 0
        BY <1>2, <1>6, <3>1, <4>1 DEF Missing
      <4> QED
        BY <1>9, <2>1, <3>1, <4>2
    <3>2. CASE t.link[s][n] # Z
      <4>1. r.link[s][n] = t.link[s][n]
        BY <1>6, <3>2
      <4>2. ~(n = p /\ r.link[s][n] = X)
        <5> SUFFICES ASSUME n = p, r.link[s][n] = X PROVE FALSE
          OBVIOUS
        <5>1. Z # t.root /\ t.link[s][n] = nil
          BY <1>3, <1>4, <2>2, <3>2
        <5>2. PICK u \in Sides : t.link[u][p] = Z
          BY <1>1, <5>1, GrownParent
        <5>3. h[n] = 1 + Black(t, n) /\ h[n] = 0 + Black(t, n) /\ Black(t, n) \in Nat
          BY <1>8, <1>9, <2>1, <5>1, <5>2
        <5> QED
          BY <5>3
      <4>3. Missing(r, s, n, X, p) = 0
        BY <4>2 DEF Missing
      <4> QED
        BY <1>9, <4>1, <4>3
    <3> QED
      BY <3>1, <3>2
  <2>4. Lacking(r, M, h, X, p)
    BY <1>8, <2>3 DEF Lacking
  <2>5. r.root # nil /\ (r.red[r.root] => r.root = X)
    BY <1>3, <1>6, <1>7, <1>13
  <2>6. ASSUME X # r.root
        PROVE  /\ p \in M
               /\ \E s \in Sides : r.link[s][p] = X /\ r.link[Other(s)][p] # X
    <3>1. Z # t.root
      BY <1>3, <1>6, <2>6
    <3>2. p \in M
      BY <1>1, <3>1, GrownParent
    <3>3. PICK s \in Sides : t.link[s][p] = Z
      BY <1>1, <3>1, GrownParent
    <3>4. Other(s) \in Sides /\ Other(s) # s
      BY SidesAre
    <3>5. t.link[Other(s)][p] # Z
      BY <1>3, <3>2, <3>3, <3>4, GrownOnce
    <3>6. t.link[Other(s)][p] # nil
      <4> SUFFICES ASSUME t.link[Other(s)][p] = nil PROVE FALSE
        OBVIOUS
      <4>1. h[p] = 1 + Black(t, p) /\ h[p] = 0 + Black(t, p) /\ Black(t, p) \in Nat
        BY <1>8, <1>9, <2>1, <3>2, <3>3, <3>4
      <4> QED
        BY <4>1
    <3> QED
      BY <2>2, <3>2, <3>3, <3>4, <3>5, <3>6
  <2>7. ASSUME NEW n \in M, NEW s \in Sides, r.red[n], r.red[r.link[s][n]], r.link[s][n] # X, n # X
        PROVE  FALSE
    BY <1>6, <1>7, <2>7
  <2>8. IF X = nil THEN 0 = 0 ELSE 0 <= Cardinality(UnderNode(r, M, w, X))
    <3>1. CASE X = nil
      BY <3>1
    <3>2. CASE X # nil
      <4>1. X \in M
        BY <1>2, <3>2
      <4>2. Cardinality(UnderNode(r, M, w, X)) \in Nat
        BY <1>5, <4>1, UnderSize
      <4> QED
        BY <3>2, <4>2
    <3> QED
      BY <3>1, <3>2
  <2> HIDE DEF M, p
  <2>9. Deleting(r, M, w, h, X, 0)
    <3>1. X \in M \cup {nil}
      BY <1>2
    <3> QED
      BY <1>6, <2>4, <2>5, <2>6, <2>7, <2>8, <3>1 DEF Deleting
  <2>10. DeleteKept(r, M, X, 0)
    <3>1. 0 < MaxTurns
      BY RbAssumption
    <3> QED
      BY <1>5, <2>9, <3>1 DEF DeleteKept
  <2> QED
    BY <1>6, <1>13, <2>10 DEF M, p
<1> QED
  BY <1>11, <1>12, <1>13

\* The brother of the node that deleteFixUp is at.
Brothers(t, N, h, X, side, up, B) ==
  /\ up \in N /\ B \in N /\ X \in N \cup {nil} /\ up # nil /\ B # nil /\ B # X /\ B # up /\ X # up
  /\ t.link[side][up] = X /\ t.link[Other(side)][up] = B /\ t.parent[B] = up /\ B # t.root
  /\ up \in Nodes /\ B \in Nodes /\ h[up] \in Nat /\ h[B] \in Nat /\ h[X] \in Nat
  /\ h[B] = h[X] + 1 /\ h[up] = h[B] + Black(t, up)
AtBlack(t, N, span, h, X, k, side, up) ==
  /\ RbGrown(t, N, span) /\ Deleting(t, N, span, h, X, k) /\ ~t.red[nil]
  /\ X # t.root /\ up = t.parent[X] /\ t.link[side][up] = X

LEMMA BrothersAre ==
  ASSUME NEW t \in RbTrees, NEW N, NEW span, NEW h, NEW X, NEW k, NEW side \in Sides, NEW up,
         AtBlack(t, N, span, h, X, k, side, up), NEW B, B = t.link[Other(side)][up]
  PROVE  Brothers(t, N, h, X, side, up, B)
<1>1. /\ RbGrown(t, N, span) /\ X # t.root /\ up = t.parent[X] /\ t.link[side][up] = X
      /\ X \in N \cup {nil} /\ up \in N /\ Lacking(t, N, h, X, up)
  BY DEF AtBlack, Deleting
<1>2. Other(side) \in Sides /\ Other(side) # side
  BY SidesAre
<1>3. B # X
  <2>1. PICK s \in Sides : t.link[s][up] = X /\ t.link[Other(s)][up] # X
    BY <1>1 DEF AtBlack, Deleting
  <2> QED
    BY <1>1, <2>1, SidesAre
<1>4. h \in [Nodes -> Nat] /\ h[nil] = 0
  BY <1>1 DEF Lacking
<1>5. nil \in Nodes /\ up \in Nodes /\ up # nil /\ B \in N \cup {nil} /\ B \in Nodes /\ X \in Nodes
  BY <1>1, <1>2, GrownNode, RbFields
<1>6. h[up] \in Nat /\ h[B] \in Nat /\ h[X] \in Nat /\ Black(t, up) \in Nat
  BY <1>4, <1>5 DEF Black
<1>7. h[up] = h[X] + Black(t, up) + 1
  <2>1. Missing(t, side, up, X, up) = 1
    BY <1>1 DEF Missing
  <2> QED
    BY <1>1, <2>1 DEF Lacking
<1>8. h[up] = h[B] + Black(t, up)
  <2>1. Missing(t, Other(side), up, X, up) = 0
    BY <1>3 DEF Missing
  <2>2. h[up] = h[B] + Black(t, up) + 0
    BY <1>1, <1>2, <2>1 DEF Lacking
  <2> QED
    BY <1>6, <2>2
<1>9. h[B] = h[X] + 1
  BY <1>6, <1>7, <1>8
<1>10. B # nil
  BY <1>4, <1>6, <1>9
<1>11. t.parent[B] = up /\ B # up /\ B # t.root /\ B \in N
  BY <1>1, <1>2, <1>10, GrownChild
<1>12. X # up
  BY <1>1, <1>5, GrownChild
<1> QED
  BY <1>1, <1>3, <1>5, <1>6, <1>8, <1>9, <1>10, <1>11, <1>12 DEF Brothers

\* A red brother has children: the first case bends the tree.
LEMMA RedBrother ==
  ASSUME NEW t \in RbTrees, NEW N, NEW span, NEW h, NEW X, NEW k, NEW side \in Sides, NEW up,
         AtBlack(t, N, span, h, X, k, side, up), NEW B, B = t.link[Other(side)][up], t.red[B]
  PROVE  up # nil /\ B # nil /\ t.link[side][B] # nil
<1>1. Brothers(t, N, h, X, side, up, B)
  BY BrothersAre
<1>2. up # nil /\ B # nil /\ B \in N /\ B # up /\ h[B] = h[X] + 1 /\ h[X] \in Nat
  BY <1>1 DEF Brothers
<1>3. Lacking(t, N, h, X, up)
  BY DEF AtBlack, Deleting
<1>4. t.link[side][B] \in Nodes
  BY <1>2, GrownNode DEF AtBlack
<1>5. Missing(t, side, B, X, up) = 0 /\ Black(t, B) = 0
  BY <1>2 DEF Missing, Black
<1>6. h[B] = h[t.link[side][B]] + 0 + 0 /\ h[t.link[side][B]] \in Nat /\ h[nil] = 0
  BY <1>2, <1>3, <1>4, <1>5 DEF Lacking
<1>7. t.link[side][B] # nil
  BY <1>2, <1>6
<1> QED
  BY <1>2, <1>7

\* The second case: the brother and its children are black.  It becomes red.
Reddened(t, r, B) ==
  /\ r.root = t.root /\ r.link = t.link /\ r.parent = t.parent /\ r.key = t.key
  /\ \A m \in Nodes : r.red[m] = IF m = B THEN TRUE ELSE t.red[m]

LEMMA DeleteReddens ==
  ASSUME NEW t \in RbTrees, NEW r \in RbTrees, NEW N, NEW span, NEW h, NEW X, NEW k \in Nat,
         NEW side \in Sides, NEW up, AtBlack(t, N, span, h, X, k, side, up), ~t.red[X],
         NEW B, B = t.link[Other(side)][up], ~t.red[B], \A s \in Sides : ~t.red[t.link[s][B]],
         Reddened(t, r, B)
  PROVE  DeleteKept(r, N, up, k + 1) /\ B # nil
<1> DEFINE g == [h EXCEPT ![B] = h[B] - 1, ![up] = h[up] - 1]
           p == t.parent[up]
<1>0. /\ r.root = t.root /\ r.link = t.link /\ r.parent = t.parent /\ r.key = t.key
      /\ \A m \in Nodes : r.red[m] = IF m = B THEN TRUE ELSE t.red[m]
  BY DEF Reddened
<1>1. Brothers(t, N, h, X, side, up, B)
  BY BrothersAre
<1>2. /\ up \in N /\ B \in N /\ X \in N \cup {nil} /\ up # nil /\ B # nil /\ B # X /\ B # up /\ X # up
      /\ t.link[side][up] = X /\ t.link[Other(side)][up] = B /\ t.parent[B] = up /\ B # t.root
      /\ up \in Nodes /\ B \in Nodes /\ h[up] \in Nat /\ h[B] \in Nat /\ h[X] \in Nat
      /\ h[B] = h[X] + 1 /\ h[up] = h[B] + Black(t, up) /\ Black(t, up) \in Nat
  BY <1>1 DEF Brothers, Black
<1>3. /\ RbGrown(t, N, span) /\ Lacking(t, N, h, X, up) /\ X # t.root /\ up = t.parent[X] /\ t.root # nil
      /\ (t.red[t.root] => t.root = X)
      /\ \A n \in N, s \in Sides : t.red[n] /\ t.red[t.link[s][n]] => t.link[s][n] = X \/ n = X
      /\ (IF X = nil THEN k = 0 \/ (k = 1 /\ Twisted(t, up)) ELSE k <= Cardinality(UnderNode(t, N, span, X)))
  BY DEF AtBlack, Deleting
<1>20. RbGrown(t, N, span)
  BY DEF AtBlack
<1>4. RbGrown(r, N, span) /\ UnderNode(r, N, span, up) = UnderNode(t, N, span, up)
  BY <1>0, <1>20, Recoloured
<1>5. ASSUME NEW n \in N
      PROVE  n \in Nodes /\ n # nil /\ \A s \in Sides : t.link[s][n] \in Nodes
  BY <1>20, GrownNode
<1>6. h \in [Nodes -> Nat] /\ h[nil] = 0 /\ nil \in Nodes
  BY <1>3, RbFields DEF Lacking
<1>7. /\ g \in [Nodes -> Nat] /\ g[nil] = 0 /\ g[B] = h[B] - 1 /\ g[up] = h[up] - 1
      /\ \A n \in Nodes : n # B /\ n # up => g[n] = h[n]
  <2>1. h[B] - 1 \in Nat /\ h[up] - 1 \in Nat
    BY <1>2
  <2> QED
    BY <1>2, <1>6, <2>1
<1> HIDE DEF g
<1>8. ASSUME NEW n \in N, NEW s \in Sides
      PROVE  /\ h[n] = h[t.link[s][n]] + Black(t, n) + Missing(t, s, n, X, up)
             /\ h[n] \in Nat /\ h[t.link[s][n]] \in Nat /\ Black(t, n) \in Nat /\ Black(r, n) \in Nat
             /\ (n # B => Black(r, n) = Black(t, n)) /\ (n = B => Black(r, n) = 0 /\ Black(t, n) = 1)
             /\ (n # up => Missing(t, s, n, X, up) = 0)
             /\ (n = up /\ t.link[s][n] = X => Missing(t, s, n, X, up) = 1)
             /\ (n = up /\ t.link[s][n] # X => Missing(t, s, n, X, up) = 0)
             /\ (t.link[s][n] = up <=> (n = p /\ t.link[s][n] = up))
             /\ (t.link[s][n] = B => n = up)
  <2>1. h[n] = h[t.link[s][n]] + Black(t, n) + Missing(t, s, n, X, up)
    BY <1>3 DEF Lacking
  <2>2. h[n] \in Nat /\ h[t.link[s][n]] \in Nat
    BY <1>5, <1>6
  <2>3. Black(t, n) \in Nat /\ Black(r, n) \in Nat /\ (n # B => Black(r, n) = Black(t, n))
        /\ (n = B => Black(r, n) = 0 /\ Black(t, n) = 1)
    BY <1>0, <1>5 DEF Black
  <2>4. /\ (n # up => Missing(t, s, n, X, up) = 0)
        /\ (n = up /\ t.link[s][n] = X => Missing(t, s, n, X, up) = 1)
        /\ (n = up /\ t.link[s][n] # X => Missing(t, s, n, X, up) = 0)
    BY DEF Missing
  <2>5. (t.link[s][n] = up => n = p) /\ (t.link[s][n] = B => n = up)
    BY <1>20, <1>2, GrownUp
  <2> QED
    BY <2>1, <2>2, <2>3, <2>4, <2>5
<1>9. p # up
  <2>1. CASE up = t.root
    BY <1>20, <1>2, <2>1, GrownNode
  <2>2. CASE up # t.root
    BY <1>20, <1>2, <2>2, GrownParent
  <2> QED
    BY <2>1, <2>2
<1>10. ASSUME NEW n \in N, NEW s \in Sides
       PROVE  g[n] = g[r.link[s][n]] + Black(r, n) + Missing(r, s, n, up, p)
  <2> DEFINE c == t.link[s][n]
  <2>1. r.link[s][n] = c /\ c \in Nodes /\ n \in Nodes
    BY <1>0, <1>5
  <2>2. CASE n = B
    <3>1. c # B /\ c # up
      <4>1. c = B => n = up
        BY <1>8
      <4>2. ASSUME c = up PROVE FALSE
        <5>1. t.key[B] \notin span[up]
          BY <1>20, <1>2, <2>2, <4>2, GrownChild
        <5>2. span[t.link[Other(side)][up]] \subseteq span[up]
          BY <1>20, <1>2, SidesAre, GrownChild
        <5>3. t.key[B] \in span[B]
          BY <1>20, <1>2, GrownNode
        <5> QED
          BY <1>2, <5>1, <5>2, <5>3
      <4> QED
        BY <1>2, <2>2, <4>1, <4>2
    <3>2. g[n] = h[n] - 1 /\ g[c] = h[c] /\ Missing(r, s, n, up, p) = 0
      BY <1>7, <2>1, <2>2, <3>1 DEF Missing
    <3>3. h[n] = h[c] + 1 + 0 /\ h[c] \in Nat /\ Black(r, n) = 0
      BY <1>2, <1>8, <2>2
    <3> QED
      BY <2>1, <3>2, <3>3
  <2>3. CASE n = up
    <3>1. Missing(r, s, n, up, p) = 0 /\ g[n] = h[n] - 1 /\ Black(r, n) = Black(t, up)
      BY <1>2, <1>7, <1>8, <1>9, <2>3 DEF Missing
    <3>2. c = X \/ c = B
      BY <1>2, <2>3, SidesAre
    <3>3. CASE c = X
      <4>1. g[c] = h[X]
        BY <1>2, <1>7, <2>1, <3>3
      <4> QED
        BY <1>2, <2>1, <2>3, <3>1, <4>1
    <3>4. CASE c = B
      <4>1. g[c] = h[B] - 1
        BY <1>7, <3>4
      <4> QED
        BY <1>2, <2>1, <2>3, <3>1, <4>1
    <3> QED
      BY <3>2, <3>3, <3>4
  <2>4. CASE n # B /\ n # up
    <3>1. c # B /\ g[n] = h[n] /\ Black(r, n) = Black(t, n) /\ h[n] = h[c] + Black(t, n) + 0
          /\ h[c] \in Nat /\ Black(t, n) \in Nat
      BY <1>7, <1>8, <2>1, <2>4
    <3>2. CASE c = up
      <4>1. Missing(r, s, n, up, p) = 1
        BY <1>8, <2>1, <3>2 DEF Missing
      <4>2. g[c] = h[c] - 1
        BY <1>7, <3>2
      <4> QED
        BY <2>1, <3>1, <4>1, <4>2
    <3>3. CASE c # up
      <4>1. Missing(r, s, n, up, p) = 0 /\ g[c] = h[c]
        BY <1>7, <2>1, <3>1, <3>3 DEF Missing
      <4> QED
        BY <2>1, <3>1, <4>1
    <3> QED
      BY <3>2, <3>3
  <2> QED
    BY <2>2, <2>3, <2>4
<1>11. Lacking(r, N, g, up, p)
  BY <1>7, <1>10 DEF Lacking
<1>12. r.red[r.root] => r.root = up
  <2>1. t.root \in Nodes /\ ~t.red[t.root]
    BY <1>3, RbFields
  <2> QED
    BY <1>0, <1>2, <2>1
<1>13. ASSUME up # r.root
       PROVE  /\ r.parent[up] \in N
              /\ \E s \in Sides : r.link[s][r.parent[up]] = up /\ r.link[Other(s)][r.parent[up]] # up
  <2>1. p \in N
    BY <1>0, <1>20, <1>2, <1>13, GrownParent
  <2>2. PICK s \in Sides : t.link[s][p] = up
    BY <1>0, <1>20, <1>2, <1>13, GrownParent
  <2>3. t.link[Other(s)][p] # up
    BY <1>20, <1>2, <2>1, <2>2, GrownChild
  <2> QED
    BY <1>0, <2>1, <2>2, <2>3
<1>14. ASSUME NEW n \in N, NEW s \in Sides, r.red[n], r.red[r.link[s][n]], r.link[s][n] # up, n # up
       PROVE  FALSE
  <2>1. t.link[s][n] # B
    BY <1>0, <1>8, <1>14
  <2>2. t.red[t.link[s][n]] /\ t.link[s][n] # X
    BY <1>0, <1>5, <1>14, <2>1
  <2>3. n # B
    BY <2>2
  <2>4. t.red[n] /\ n # X
    BY <1>0, <1>5, <1>14, <2>3
  <2> QED
    BY <1>3, <2>2, <2>4
<1>15. k + 1 <= Cardinality(UnderNode(t, N, span, up)) /\ k + 1 < MaxTurns
  <2>1. /\ Cardinality(UnderNode(t, N, span, up)) \in Nat /\ Cardinality(UnderNode(t, N, span, up)) >= 1
        /\ Cardinality(UnderNode(t, N, span, up)) <= MaxNodes
    BY <1>2, <1>3, UnderSize
  <2>2. k + 1 <= Cardinality(UnderNode(t, N, span, up))
    <3>1. CASE X = nil
      <4>1. ~Twisted(t, up)
        <5>1. t.link["left"][up] = B \/ t.link["right"][up] = B
          BY <1>2, SidesAre
        <5>2. ~t.red[t.link["left"][B]]
          BY SidesAre
        <5> QED
          BY <1>2, <5>1, <5>2 DEF Twisted
      <4>2. k = 0
        BY <1>3, <3>1, <4>1
      <4> QED
        BY <2>1, <4>2
    <3>2. CASE X # nil
      <4>1. Cardinality(UnderNode(t, N, span, X)) + 1 <= Cardinality(UnderNode(t, N, span, up))
        BY <1>2, <1>3, <3>2, UnderChild
      <4>2. Cardinality(UnderNode(t, N, span, X)) \in Nat /\ k <= Cardinality(UnderNode(t, N, span, X))
        BY <1>2, <1>3, <3>2, UnderSize
      <4> QED
        BY <2>1, <4>1, <4>2
    <3> QED
      BY <3>1, <3>2
  <2> QED
    BY <2>1, <2>2, RbAssumption
<1>16. Deleting(r, N, span, g, up, k + 1)
  BY <1>0, <1>2, <1>3, <1>4, <1>11, <1>12, <1>13, <1>14, <1>15 DEF Deleting
<1> QED
  BY <1>2, <1>4, <1>15, <1>16 DEF DeleteKept

\* Away from where it is missing, the heights differ by the colours.
LEMMA LackingAre ==
  ASSUME NEW t \in RbTrees, NEW N, NEW span, RbGrown(t, N, span), NEW h, NEW X, NEW up,
         Lacking(t, N, h, X, up), NEW n \in N, n # up
  PROVE  \A s \in Sides : /\ h[t.link[s][n]] \in Nat
                          /\ t.red[n] => h[n] = h[t.link[s][n]]
                          /\ ~t.red[n] => h[n] = h[t.link[s][n]] + 1
<1> SUFFICES ASSUME NEW s \in Sides
             PROVE  /\ h[t.link[s][n]] \in Nat
                    /\ t.red[n] => h[n] = h[t.link[s][n]]
                    /\ ~t.red[n] => h[n] = h[t.link[s][n]] + 1
  OBVIOUS
<1>1. t.link[s][n] \in Nodes
  BY GrownNode
<1>2. h[t.link[s][n]] \in Nat /\ h[n] = h[t.link[s][n]] + Black(t, n) + Missing(t, s, n, X, up)
  BY <1>1 DEF Lacking
<1>3. Missing(t, s, n, X, up) = 0
  BY DEF Missing
<1>4. (t.red[n] => Black(t, n) = 0) /\ (~t.red[n] => Black(t, n) = 1)
  BY DEF Black
<1> QED
  BY <1>2, <1>3, <1>4

\* A brother of height 1: the node is nil.
LEMMA LowBrother ==
  ASSUME NEW t \in RbTrees, NEW N, NEW span, NEW h, NEW X, NEW k, NEW side \in Sides, NEW up,
         AtBlack(t, N, span, h, X, k, side, up), ~t.red[X],
         NEW B, B = t.link[Other(side)][up], h[B] = 1
  PROVE  X = nil /\ h[up] = 1 + Black(t, up) /\ (k = 0 \/ (k = 1 /\ Twisted(t, up)))
<1>1. /\ RbGrown(t, N, span) /\ Lacking(t, N, h, X, up) /\ up = t.parent[X]
      /\ (X = nil => k = 0 \/ (k = 1 /\ Twisted(t, up)))
  BY DEF AtBlack, Deleting
<1>2. X \in N \cup {nil} /\ X # up /\ h[B] = h[X] + 1 /\ h[X] \in Nat /\ h[up] = h[B] + Black(t, up)
  BY BrothersAre DEF Brothers
<1>3. ASSUME X \in N PROVE FALSE
  <2>1. h[X] = h[t.link["left"][X]] + 1 /\ h[t.link["left"][X]] \in Nat
    BY <1>1, <1>2, <1>3, LackingAre, SidesAre
  <2> QED
    BY <1>2, <2>1
<1> QED
  BY <1>1, <1>2, <1>3

\* The third case on the right, if it moves no subtree; c is the tree with the
\* new colours.  The node stays where it is, and the fourth case is next.
LEMMA DeleteTwists ==
  ASSUME NEW t \in RbTrees, NEW c \in RbTrees, NEW r \in RbTrees, NEW N, NEW span, NEW h, NEW X, NEW k \in Nat,
         NEW up, AtBlack(t, N, span, h, X, k, "right", up), ~t.red[X],
         NEW B, B = t.link["left"][up], ~t.red[B], ~t.red[t.link["left"][B]],
         NEW R, R = t.link["right"][B], t.red[R], t.link["left"][R] = nil,
         Swapped(t, c, R, B), Rotated(c, r, "left", B, R)
  PROVE  DeleteKept(r, N, X, k + 1) /\ r.key = t.key /\ ~r.red[nil]
<1> DEFINE w == SpansTurned(c, span, "left", B, R)
           g == [h EXCEPT ![R] = 1, ![B] = 0]
<1>1. /\ RbGrown(t, N, span) /\ Lacking(t, N, h, X, up) /\ ~t.red[nil] /\ X # t.root /\ up = t.parent[X]
      /\ t.link["right"][up] = X /\ t.root # nil /\ (t.red[t.root] => t.root = X)
      /\ \A n \in N, s \in Sides : t.red[n] /\ t.red[t.link[s][n]] => t.link[s][n] = X \/ n = X
  BY DEF AtBlack, Deleting
<1>23. RbGrown(t, N, span) /\ ~t.red[nil]
  BY DEF AtBlack
<1>25. t.link["right"][up] = X /\ up = t.parent[X]
  BY DEF AtBlack
<1>24. Lacking(t, N, h, X, up)
  BY <1>1
<1>2. /\ "left" \in Sides /\ "right" \in Sides /\ "left" # "right" /\ Other("left") = "right"
      /\ Other("right") = "left" /\ \A s \in Sides : s = "left" \/ s = "right"
  BY SidesAre DEF Other
<1>3. /\ up \in N /\ B \in N /\ up # nil /\ B # nil /\ B # up /\ t.parent[B] = up /\ B # t.root
      /\ up \in Nodes /\ B \in Nodes
  BY <1>2, BrothersAre DEF Brothers
<1>4. /\ R \in N /\ R # nil /\ R \in Nodes /\ R # B /\ R # up /\ R # t.root /\ nil \in Nodes /\ nil \notin N
  <2>1. R # nil
    BY <1>23
  <2>2. R \in N /\ R # B /\ R # t.root
    BY <1>23, <1>2, <1>3, <2>1, GrownChild
  <2>3. R # up
    <3> SUFFICES ASSUME R = up PROVE FALSE
      OBVIOUS
    <3>1. t.key[B] \notin span[up]
      BY <1>23, <1>2, <1>3, <2>1, GrownChild
    <3>2. span[B] \subseteq span[up]
      BY <1>23, <1>2, <1>3, GrownChild
    <3>3. t.key[B] \in span[B]
      BY <1>23, <1>3, GrownNode
    <3> QED
      BY <3>1, <3>2, <3>3
  <2> QED
    BY <1>23, <2>1, <2>2, <2>3, GrownNode, RbFields
<1>5. h \in [Nodes -> Nat] /\ h[nil] = 0
  BY <1>1 DEF Lacking
<1>6. h[R] = 0 /\ h[B] = 1
  <2>1. h[R] = h[t.link["left"][R]]
    BY <1>23, <1>24, <1>2, <1>4, LackingAre
  <2>2. h[B] = h[R] + 1
    BY <1>23, <1>24, <1>2, <1>3, LackingAre
  <2> QED
    BY <1>5, <2>1, <2>2
<1>7. X = nil /\ h[up] = 1 + Black(t, up) /\ k = 0
  <2>1. X = nil /\ h[up] = 1 + Black(t, up) /\ (k = 0 \/ (k = 1 /\ Twisted(t, up)))
    BY <1>2, <1>6, LowBrother
  <2>2. ~Twisted(t, up)
    BY DEF Twisted
  <2> QED
    BY <2>1, <2>2
<1>8. RbGrown(c, N, span) /\ c.link = t.link /\ c.parent = t.parent /\ c.root = t.root /\ c.key = t.key
  BY <1>1, Recoloured DEF Swapped
<1>9. RbGrown(r, N, w)
  BY <1>2, <1>3, <1>4, <1>8, RotationKeeps
<1>10. RotatedLinks(c, r, N, "left", B, R)
  BY <1>2, <1>3, <1>4, <1>8, RotatedLinksAre
<1>11. /\ r.red = c.red /\ r.key = t.key /\ r.root = t.root /\ r.parent[nil] = up
  <2>1. up = t.parent[nil]
    BY <1>7, <1>25
  <2>2. r.red = c.red /\ r.key = c.key /\ r.root = c.root
    BY <1>3, <1>8 DEF Rotated
  <2>3. r.parent[nil] = c.parent[nil]
    BY <1>3, <1>4 DEF Rotated
  <2> QED
    BY <1>8, <2>1, <2>2, <2>3
<1>12. /\ g \in [Nodes -> Nat] /\ g[nil] = 0 /\ g[R] = 1 /\ g[B] = 0
       /\ \A n \in Nodes : n # R /\ n # B => g[n] = h[n]
  <2>1. 0 \in Nat /\ 1 \in Nat
    OBVIOUS
  <2> QED
    BY <1>3, <1>4, <1>5, <2>1
<1> HIDE DEF g, w
<1>13. ASSUME NEW n \in N, NEW s \in Sides
       PROVE  /\ n \in Nodes /\ t.link[s][n] \in Nodes
              /\ r.link[s][n] = IF n = R /\ s = "left" THEN B
                                ELSE IF n = B /\ s = "right" THEN nil
                                ELSE IF t.link[s][n] = B THEN R
                                ELSE t.link[s][n]
              /\ t.link[s][n] = B => n = up /\ s = "left"
              /\ t.link[s][n] = R => n = B /\ s = "right"
  <2>1. n \in Nodes /\ t.link[s][n] \in Nodes
    BY <1>1, GrownNode
  <2>2. r.link[s][n] = IF n = R /\ s = "left" THEN B
                       ELSE IF n = B /\ s = Other("left") THEN nil
                       ELSE IF c.link[s][n] = B THEN R
                       ELSE c.link[s][n]
    BY <1>10 DEF RotatedLinks
  <2>3. t.link[s][n] = B => n = up /\ s = "left"
    BY <1>23, <1>2, <1>3, GrownOnce
  <2>4. t.link[s][n] = R => n = B /\ s = "right"
    BY <1>23, <1>2, <1>3, <1>4, GrownOnce
  <2> QED
    BY <1>2, <1>8, <2>1, <2>2, <2>3, <2>4
<1>14. /\ r.red[R] = FALSE /\ r.red[B] = TRUE /\ r.red[nil] = FALSE
       /\ \A n \in Nodes : n # R /\ n # B => r.red[n] = t.red[n]
  <2>1. t.red[nil] = FALSE
    BY <1>23, <1>4, RbFields
  <2>2. \A n \in Nodes : c.red[n] = IF n = B THEN TRUE ELSE IF n = R THEN FALSE ELSE t.red[n]
    BY DEF Swapped
  <2>3. r.red = c.red
    BY <1>11
  <2> QED
    BY <1>3, <1>4, <2>1, <2>2, <2>3
<1>15. ASSUME NEW n \in N, NEW s \in Sides
       PROVE  g[n] = g[r.link[s][n]] + Black(r, n) + Missing(r, s, n, X, up)
  <2> DEFINE d == t.link[s][n]
  <2>1. CASE n = R
    <3>1. g[r.link[s][n]] = 0
      <4>1. CASE s = "left"
        BY <1>12, <1>13, <2>1, <4>1
      <4>2. CASE s = "right"
        <5>0. s # "left" /\ n # B
          BY <1>2, <1>4, <2>1, <4>2
        <5>1. r.link[s][n] = d /\ d # B /\ d # R /\ d \in Nodes
          BY <1>13, <5>0
        <5>2. t.red[n] /\ n # up
          BY <1>4, <2>1
        <5>3. h[n] = h[d]
          BY <1>23, <1>24, <5>2, LackingAre
        <5> QED
          BY <1>6, <1>12, <2>1, <5>1, <5>3
      <4> QED
        BY <1>2, <4>1, <4>2
    <3>2. Black(r, n) = 1 /\ Missing(r, s, n, X, up) = 0 /\ g[n] = 1
      BY <1>4, <1>12, <1>14, <2>1 DEF Black, Missing
    <3> QED
      BY <3>1, <3>2
  <2>2. CASE n = B
    <3>1. g[r.link[s][n]] = 0
      <4>1. CASE s = "right"
        BY <1>2, <1>4, <1>12, <1>13, <2>2, <4>1
      <4>2. CASE s = "left"
        <5>0. s # "right" /\ n # up /\ n # R
          BY <1>2, <1>3, <1>4, <2>2, <4>2
        <5>1. r.link[s][n] = d /\ d # B /\ d # R /\ d \in Nodes
          BY <1>13, <5>0
        <5>2. h[B] = h[d] + 1 /\ h[d] \in Nat
          BY <1>23, <1>24, <1>3, <2>2, LackingAre
        <5> QED
          BY <1>6, <1>12, <5>1, <5>2
      <4> QED
        BY <1>2, <4>1, <4>2
    <3>2. Black(r, n) = 0 /\ Missing(r, s, n, X, up) = 0 /\ g[n] = 0
      BY <1>3, <1>12, <1>14, <2>2 DEF Black, Missing
    <3> QED
      BY <3>1, <3>2
  <2>3. CASE n # R /\ n # B
    <3>1. g[n] = h[n] /\ Black(r, n) = Black(t, n) /\ d # R /\ d \in Nodes
      BY <1>12, <1>13, <1>14, <2>3 DEF Black
    <3>2. h[n] = h[d] + Black(t, n) + Missing(t, s, n, X, up)
      BY <1>1 DEF Lacking
    <3>3. CASE d = B
      <4>1. r.link[s][n] = R
        BY <1>13, <2>3, <3>3
      <4>2. Missing(r, s, n, X, up) = 0 /\ Missing(t, s, n, X, up) = 0
        BY <1>3, <1>4, <1>7, <3>3, <4>1 DEF Missing
      <4> QED
        BY <1>6, <1>12, <3>1, <3>2, <3>3, <4>1, <4>2
    <3>4. CASE d # B
      <4>1. r.link[s][n] = d
        BY <1>13, <2>3, <3>4
      <4>2. Missing(r, s, n, X, up) = Missing(t, s, n, X, up)
        BY <4>1 DEF Missing
      <4>3. g[d] = h[d]
        BY <1>12, <3>1, <3>4
      <4> QED
        BY <3>1, <3>2, <4>1, <4>2, <4>3
    <3> QED
      BY <3>3, <3>4
  <2> QED
    BY <2>1, <2>2, <2>3
<1>16. Lacking(r, N, g, X, up)
  BY <1>12, <1>15 DEF Lacking
<1>17. ~r.red[r.root]
  <2>1. t.root \in Nodes /\ ~t.red[t.root]
    BY <1>1, RbFields
  <2> QED
    BY <1>3, <1>4, <1>11, <1>14, <2>1
<1>18. r.link["right"][up] = nil /\ r.link["left"][up] = R
  <2>1. t.link["right"][up] = nil /\ t.link["left"][up] = B
    BY <1>7, <1>25
  <2>2. up # R /\ up # B /\ nil # B
    BY <1>3, <1>4
  <2>3. r.link["right"][up] = nil
    BY <1>2, <1>3, <1>13, <2>1, <2>2
  <2>4. r.link["left"][up] = R
    BY <1>2, <1>3, <1>13, <2>1, <2>2
  <2> QED
    BY <2>3, <2>4
<1>19. ASSUME NEW n \in N, NEW s \in Sides, r.red[n], r.red[r.link[s][n]]
       PROVE  FALSE
  <2>1. n # R
    BY <1>14, <1>19
  <2>2. CASE n = B
    <3>1. s = "left"
      BY <1>2, <1>13, <1>14, <1>19, <2>1, <2>2
    <3>2. r.link[s][n] = t.link["left"][B] /\ t.link["left"][B] # R /\ t.link["left"][B] # B
      BY <1>2, <1>3, <1>13, <2>1, <2>2, <3>1
    <3>3. t.link["left"][B] \in Nodes
      BY <1>13, <2>2, <3>1
    <3> QED
      BY <1>14, <1>19, <3>2, <3>3
  <2>3. CASE n # B
    <3>1. t.link[s][n] # B /\ t.link[s][n] # R
      BY <1>13, <1>14, <1>19, <2>1, <2>3
    <3>2. r.link[s][n] = t.link[s][n]
      BY <1>13, <2>1, <2>3, <3>1
    <3>3. t.red[n] /\ t.red[t.link[s][n]]
      BY <1>13, <1>14, <1>19, <2>1, <2>3, <3>1, <3>2
    <3>4. t.link[s][n] = nil \/ n = nil
      BY <1>1, <1>7, <3>3
    <3> QED
      BY <1>1, <3>3, <3>4
  <2> QED
    BY <2>2, <2>3
<1>20. Twisted(r, up)
  <2>1. r.link["left"][R] = B
    BY <1>2, <1>4, <1>13
  <2>2. ~r.red[r.link["right"][R]]
    <3>1. t.link["right"][R] # B /\ t.link["right"][R] # R /\ t.link["right"][R] \in Nodes
      BY <1>2, <1>4, <1>13
    <3>2. r.link["right"][R] = t.link["right"][R]
      BY <1>2, <1>4, <1>13, <3>1
    <3>3. ~t.red[t.link["right"][R]]
      BY <1>1, <1>2, <1>4, <1>7
    <3> QED
      BY <1>14, <3>1, <3>2, <3>3
  <2> QED
    BY <1>4, <1>14, <1>18, <2>1, <2>2 DEF Twisted
<1>21. Deleting(r, N, w, g, X, k + 1)
  <2>1. \E s \in Sides : r.link[s][up] = X /\ r.link[Other(s)][up] # X
    BY <1>2, <1>4, <1>7, <1>18
  <2>2. k + 1 = 1
    BY <1>7
  <2>3. X = nil /\ r.parent[X] = up /\ r.root # nil /\ X # r.root
    BY <1>1, <1>7, <1>11
  <2> QED
    BY <1>3, <1>16, <1>17, <1>19, <1>20, <2>1, <2>2, <2>3 DEF Deleting
<1>22. k + 1 < MaxTurns
  <2>1. B \in 1 .. MaxNodes /\ R \in 1 .. MaxNodes
    BY <1>1, <1>3, <1>4 DEF RbGrown
  <2> QED
    BY <1>4, <1>7, <2>1, RbAssumption
<1> QED
  BY <1>9, <1>11, <1>14, <1>21, <1>22 DEF DeleteKept

\* The colours of the fourth case.
Lifted(t, c, B, up, C) ==
  /\ c.root = t.root /\ c.link = t.link /\ c.parent = t.parent /\ c.key = t.key
  /\ \A m \in Nodes : c.red[m] = IF m = C \/ m = up THEN FALSE ELSE IF m = B THEN t.red[up] ELSE t.red[m]

\* The fourth case, if it moves no subtree: what is left is the root.
LEMMA DeleteLifts ==
  ASSUME NEW t \in RbTrees, NEW c \in RbTrees, NEW r \in RbTrees, NEW N, NEW span, NEW h, NEW X, NEW k \in Nat,
         NEW up, AtBlack(t, N, span, h, X, k, "right", up), ~t.red[X],
         NEW B, B = t.link["left"][up], ~t.red[B], t.link["right"][B] = nil,
         NEW C, C = t.link["left"][B], t.red[C],
         Lifted(t, c, B, up, C), Rotated(c, r, "right", up, B)
  PROVE  DeleteKept(r, N, r.root, k + 1) /\ r.key = t.key /\ ~r.red[nil]
<1> DEFINE w == SpansTurned(c, span, "right", up, B)
           g == [[[h EXCEPT ![up] = 1] EXCEPT ![C] = 1] EXCEPT ![B] = h[up]]
<1>1. RbGrown(t, N, span) /\ ~t.red[nil]
  BY DEF AtBlack
<1>2. /\ "left" \in Sides /\ "right" \in Sides /\ "left" # "right" /\ Other("left") = "right"
      /\ Other("right") = "left" /\ \A s \in Sides : s = "left" \/ s = "right"
  BY SidesAre DEF Other
<1>3. Lacking(t, N, h, X, up) /\ X # t.root /\ t.root # nil /\ (t.red[t.root] => t.root = X)
  BY DEF AtBlack, Deleting
<1>4. \A n \in N, s \in Sides : t.red[n] /\ t.red[t.link[s][n]] => t.link[s][n] = X \/ n = X
  BY DEF AtBlack, Deleting
<1>5. t.link["right"][up] = X /\ up = t.parent[X]
  BY DEF AtBlack
<1>6. /\ up \in N /\ B \in N /\ up # nil /\ B # nil /\ B # up /\ t.parent[B] = up /\ B # t.root
      /\ up \in Nodes /\ B \in Nodes
  BY <1>2, BrothersAre DEF Brothers
<1>7. /\ C \in N /\ C # nil /\ C \in Nodes /\ C # B /\ C # up /\ C # t.root /\ nil \in Nodes /\ nil \notin N
  <2>1. C # nil
    BY <1>1
  <2>2. C \in N /\ C # B /\ C # t.root /\ t.key[B] \notin span[C]
    BY <1>1, <1>2, <1>6, <2>1, GrownChild
  <2>3. C # up
    <3> SUFFICES ASSUME C = up PROVE FALSE
      OBVIOUS
    <3>1. t.key[B] \notin span[up]
      BY <2>2
    <3>2. span[B] \subseteq span[up]
      BY <1>1, <1>2, <1>6, GrownChild
    <3>3. t.key[B] \in span[B]
      BY <1>1, <1>6, GrownNode
    <3> QED
      BY <3>1, <3>2, <3>3
  <2> QED
    BY <1>1, <2>1, <2>2, <2>3, GrownNode, RbFields
<1>8. h \in [Nodes -> Nat] /\ h[nil] = 0
  BY <1>3 DEF Lacking
<1>9. h[B] = 1
  <2>1. h[B] = h[t.link["right"][B]] + 1
    BY <1>1, <1>2, <1>3, <1>6, LackingAre
  <2> QED
    BY <1>8, <2>1
<1>10. h[C] = 0
  <2>1. h[B] = h[C] + 1 /\ h[C] \in Nat
    BY <1>1, <1>2, <1>3, <1>6, LackingAre
  <2> QED
    BY <1>9, <2>1
<1>11. X = nil /\ h[up] = 1 + Black(t, up) /\ (k = 0 \/ k = 1)
  BY <1>2, <1>9, LowBrother
<1>12. RbGrown(c, N, span) /\ c.link = t.link /\ c.parent = t.parent /\ c.root = t.root /\ c.key = t.key
  BY <1>1, Recoloured DEF Lifted
<1>13. RbGrown(r, N, w)
  BY <1>2, <1>6, <1>12, RotationKeeps
<1>14. RotatedLinks(c, r, N, "right", up, B)
  BY <1>2, <1>6, <1>12, RotatedLinksAre
<1>15. r.red = c.red /\ r.key = t.key /\ r.root = IF t.parent[up] = nil THEN B ELSE t.root
  BY <1>12 DEF Rotated
<1>16. /\ g \in [Nodes -> Nat] /\ g[nil] = 0 /\ g[up] = 1 /\ g[C] = 1 /\ g[B] = h[up] /\ h[up] \in Nat
       /\ \A n \in Nodes : n # up /\ n # C /\ n # B => g[n] = h[n]
  <2>1. 1 \in Nat /\ h[up] \in Nat
    BY <1>6, <1>8
  <2> QED
    BY <1>6, <1>7, <1>8, <2>1
<1> HIDE DEF g, w
<1>17. ASSUME NEW n \in N, NEW s \in Sides
       PROVE  /\ n \in Nodes /\ t.link[s][n] \in Nodes
              /\ r.link[s][n] = IF n = B /\ s = "right" THEN up
                                ELSE IF n = up /\ s = "left" THEN nil
                                ELSE IF t.link[s][n] = up THEN B
                                ELSE t.link[s][n]
              /\ t.link[s][n] = B => n = up /\ s = "left"
              /\ t.link[s][n] = C => n = B /\ s = "left"
  <2>1. n \in Nodes /\ t.link[s][n] \in Nodes
    BY <1>1, GrownNode
  <2>2. r.link[s][n] = IF n = B /\ s = "right" THEN up
                       ELSE IF n = up /\ s = Other("right") THEN nil
                       ELSE IF c.link[s][n] = up THEN B
                       ELSE c.link[s][n]
    BY <1>14 DEF RotatedLinks
  <2>3. t.link[s][n] = B => n = up /\ s = "left"
    BY <1>1, <1>2, <1>6, GrownOnce
  <2>4. t.link[s][n] = C => n = B /\ s = "left"
    BY <1>1, <1>2, <1>6, <1>7, GrownOnce
  <2> QED
    BY <1>2, <1>12, <2>1, <2>2, <2>3, <2>4
<1>18. /\ r.red[up] = FALSE /\ r.red[C] = FALSE /\ r.red[nil] = FALSE /\ r.red[B] = t.red[up]
       /\ \A n \in Nodes : n # up /\ n # C /\ n # B => r.red[n] = t.red[n]
  <2>1. t.red[nil] = FALSE
    BY <1>1, <1>7, RbFields
  <2>2. \A n \in Nodes : c.red[n] = IF n = C \/ n = up THEN FALSE ELSE IF n = B THEN t.red[up] ELSE t.red[n]
    BY DEF Lifted
  <2>3. r.red = c.red
    BY <1>15
  <2> QED
    BY <1>6, <1>7, <2>1, <2>2, <2>3
<1>19. r.link["left"][up] = nil /\ r.link["right"][up] = nil /\ r.link["right"][B] = up /\ r.link["left"][B] = C
  <2>1. t.link["right"][up] = nil /\ t.link["left"][B] = C
    BY <1>5, <1>11
  <2>2. up # B /\ nil # up /\ C # up
    BY <1>6, <1>7
  <2>3. r.link["left"][up] = nil
    BY <1>2, <1>6, <1>17, <2>2
  <2>4. r.link["right"][up] = nil
    BY <1>2, <1>6, <1>17, <2>1, <2>2
  <2>5. r.link["right"][B] = up
    BY <1>2, <1>6, <1>17
  <2>6. r.link["left"][B] = C
    BY <1>2, <1>6, <1>17, <2>1, <2>2
  <2> QED
    BY <2>3, <2>4, <2>5, <2>6
<1>20. ASSUME NEW n \in N, NEW s \in Sides
       PROVE  /\ r.red[n] => g[n] = g[r.link[s][n]]
              /\ ~r.red[n] => g[n] = g[r.link[s][n]] + 1
  <2> DEFINE d == t.link[s][n]
  <2>1. CASE n = up
    <3>1. r.link[s][n] = nil
      BY <1>2, <1>19, <2>1
    <3> QED
      BY <1>16, <1>18, <2>1, <3>1
  <2>2. CASE n = B
    <3>1. r.link[s][n] = up \/ r.link[s][n] = C
      BY <1>2, <1>19, <2>2
    <3>2. g[r.link[s][n]] = 1
      BY <1>16, <3>1
    <3>3. g[n] = 1 + Black(t, up) /\ r.red[n] = t.red[up]
      BY <1>11, <1>16, <1>18, <2>2
    <3>4. (t.red[up] => Black(t, up) = 0) /\ (~t.red[up] => Black(t, up) = 1)
      BY DEF Black
    <3> QED
      BY <3>2, <3>3, <3>4
  <2>3. CASE n = C
    <3>1. n # up /\ n # B
      BY <1>7, <2>3
    <3>2. d \in Nodes /\ d # B /\ d # C /\ h[d] = 0
      <4>1. h[n] = h[d]
        BY <1>1, <1>3, <2>3, <3>1, LackingAre
      <4> QED
        BY <1>10, <1>17, <2>3, <3>1, <4>1
    <3>3. d # up
      <4>1. h[up] # 0
        <5>1. Black(t, up) \in Nat
          BY DEF Black
        <5> QED
          BY <1>11, <5>1
      <4> QED
        BY <3>2, <4>1
    <3>4. r.link[s][n] = d
      BY <1>17, <3>1, <3>3
    <3>5. g[d] = 0
      BY <1>16, <3>2, <3>3
    <3>6. r.red[n] = FALSE /\ g[n] = 1
      BY <1>16, <1>18, <2>3
    <3> QED
      BY <3>4, <3>5, <3>6
  <2>4. CASE n # up /\ n # B /\ n # C
    <3>1. g[n] = h[n] /\ r.red[n] = t.red[n] /\ d # B /\ d # C /\ d \in Nodes
      BY <1>16, <1>17, <1>18, <2>4
    <3>2. /\ t.red[n] => h[n] = h[d]
          /\ ~t.red[n] => h[n] = h[d] + 1
      BY <1>1, <1>3, <2>4, LackingAre
    <3>3. g[r.link[s][n]] = h[d]
      <4>1. CASE d = up
        <5>1. r.link[s][n] = B
          BY <1>17, <2>4, <4>1
        <5> QED
          BY <1>16, <4>1, <5>1
      <4>2. CASE d # up
        <5>1. r.link[s][n] = d
          BY <1>17, <2>4, <4>2
        <5> QED
          BY <1>16, <3>1, <4>2, <5>1
      <4> QED
        BY <4>1, <4>2
    <3> QED
      BY <3>1, <3>2, <3>3
  <2> QED
    BY <2>1, <2>2, <2>3, <2>4
<1>21. r.root \in N /\ r.parent[r.root] = nil /\ nil \notin N
  BY <1>6, <1>13, GrownNode
<1>22. Lacking(r, N, g, r.root, r.parent[r.root])
  <2>1. ASSUME NEW n \in N, NEW s \in Sides
        PROVE  g[n] = g[r.link[s][n]] + Black(r, n) + Missing(r, s, n, r.root, r.parent[r.root])
    <3>1. Missing(r, s, n, r.root, r.parent[r.root]) = 0
      BY <1>21 DEF Missing
    <3>2. g[r.link[s][n]] \in Nat
      <4>1. r.link[s][n] \in Nodes
        BY <1>13, GrownNode
      <4> QED
        BY <1>16, <4>1
    <3>3. (r.red[n] => Black(r, n) = 0) /\ (~r.red[n] => Black(r, n) = 1)
      BY DEF Black
    <3> QED
      BY <1>20, <3>1, <3>2, <3>3
  <2> QED
    BY <1>16, <2>1 DEF Lacking
<1>23. ASSUME NEW n \in N, NEW s \in Sides, r.red[n], r.red[r.link[s][n]]
       PROVE  FALSE
  <2> DEFINE d == t.link[s][n]
  <2>1. n # up /\ n # C
    BY <1>18, <1>23
  <2>2. CASE n = B
    <3>1. r.link[s][n] = up \/ r.link[s][n] = C
      BY <1>2, <1>19, <2>2
    <3> QED
      BY <1>18, <1>23, <3>1
  <2>3. CASE n # B
    <3>1. d # B /\ d # C /\ d \in Nodes /\ n \in Nodes
      BY <1>17, <2>1, <2>3
    <3>2. t.red[d]
      <4>1. CASE d = up
        <5>1. r.link[s][n] = B
          BY <1>17, <2>1, <2>3, <4>1
        <5> QED
          BY <1>18, <1>23, <4>1, <5>1
      <4>2. CASE d # up
        <5>1. r.link[s][n] = d
          BY <1>17, <2>1, <2>3, <4>2
        <5> QED
          BY <1>18, <1>23, <3>1, <4>2, <5>1
      <4> QED
        BY <4>1, <4>2
    <3>3. t.red[n]
      BY <1>18, <1>23, <2>1, <2>3, <3>1
    <3>4. d = nil \/ n = nil
      BY <1>4, <1>11, <3>2, <3>3
    <3> QED
      BY <1>1, <3>2, <3>3, <3>4
  <2> QED
    BY <2>2, <2>3
<1>24. k + 1 <= Cardinality(UnderNode(r, N, w, r.root)) /\ k + 1 < MaxTurns
  <2> DEFINE U == UnderNode(r, N, w, r.root)
  <2>1. w[r.root] = Nat
    BY <1>13, <1>21 DEF RbGrown
  <2>2. r.key[B] \in Nat /\ r.key[up] \in Nat
    BY <1>6, <1>13, GrownNode
  <2>3. B \in U /\ up \in U
    BY <1>6, <2>1, <2>2 DEF UnderNode
  <2>4. IsFiniteSet(U) /\ Cardinality(U) \in Nat /\ Cardinality(U) <= MaxNodes
    BY <1>13, <1>21, UnderSize
  <2> HIDE DEF U
  <2>5. Cardinality({B}) = 1
    BY FS_Singleton
  <2>6. Cardinality({B}) + 1 <= Cardinality(U)
    BY <1>6, <2>3, <2>4, OneMoreIsLarger
  <2>7. k + 1 <= Cardinality(U) /\ k + 1 < MaxTurns
    BY <1>11, <2>4, <2>5, <2>6, RbAssumption
  <2> QED
    BY <2>7 DEF U
<1>25. ~r.red[r.root]
  <2>1. t.root \in Nodes /\ ~t.red[t.root]
    BY <1>3, RbFields
  <2>2. CASE t.parent[up] = nil
    <3>1. up = t.root
      BY <1>1, <1>6, <2>2, GrownNode
    <3> QED
      BY <1>15, <1>18, <2>1, <2>2, <3>1
  <2>3. CASE t.parent[up] # nil
    <3>1. r.root = t.root
      BY <1>15, <2>3
    <3> QED
      BY <1>6, <1>7, <1>18, <2>1, <3>1
  <2> QED
    BY <2>2, <2>3
<1>26. Deleting(r, N, w, g, r.root, k + 1)
  BY <1>21, <1>22, <1>23, <1>24, <1>25 DEF Deleting
<1> QED
  BY <1>13, <1>15, <1>18, <1>24, <1>26 DEF DeleteKept

\* Whom nil has as its parent says nothing of the tree.
LEMMA ParentOfNil ==
  ASSUME NEW t \in RbTrees, NEW r \in RbTrees, NEW N, NEW span, RbGrown(t, N, span),
         r.root = t.root, r.link = t.link, r.key = t.key, \A n \in N : r.parent[n] = t.parent[n]
  PROVE  RbGrown(r, N, span)
<1>1. ASSUME NEW n \in N, NEW s \in Sides PROVE Place(r, N, span, s, n)
  <2>1. Place(t, N, span, s, n) /\ Part(r, span, s, n) = Part(t, span, s, n)
    BY DEF RbGrown, Part
  <2> QED
    BY <2>1 DEF Place
<1>2. t.root # nil => t.root \in N
  BY DEF RbGrown
<1>3. t.root # nil => r.parent[r.root] = nil
  BY <1>2 DEF RbGrown
<1>4. ASSUME NEW n \in N
      PROVE  n = r.root \/ (r.parent[n] \in N /\ \E s \in Sides : r.link[s][r.parent[n]] = n)
  BY DEF RbGrown
<1>5. /\ N \subseteq 1 .. MaxNodes /\ span \in [Nodes -> SUBSET Nat]
      /\ r.root \in N \cup {nil} /\ (r.root = nil => N = {}) /\ (r.root # nil => span[r.root] = Nat)
      /\ \A n \in N : r.key[n] \in span[n]
      /\ \A m, n \in N : r.key[m] = r.key[n] => m = n
  BY DEF RbGrown
<1> QED
  BY <1>1, <1>3, <1>4, <1>5 DEF RbGrown

\* The end of deleteFixUp: a root or a red node is painted black.
Blackened(t, r, N, X) ==
  /\ r.root = t.root /\ r.link = t.link /\ r.key = t.key
  /\ \A n \in N : r.parent[n] = t.parent[n]
  /\ \A m \in Nodes : r.red[m] = IF m = X THEN FALSE ELSE t.red[m]

LEMMA DeleteSettles ==
  ASSUME NEW t \in RbTrees, NEW r \in RbTrees, NEW N, NEW span, RbGrown(t, N, span), NEW h, NEW X, NEW k,
         Deleting(t, N, span, h, X, k), ~t.red[nil], X = t.root \/ t.red[X], Blackened(t, r, N, X)
  PROVE  Settled(r, N)
<1> DEFINE up == t.parent[X]
           g == [h EXCEPT ![X] = IF t.red[X] THEN h[X] + 1 ELSE h[X]]
<1>0. /\ r.root = t.root /\ r.link = t.link /\ r.key = t.key
      /\ \A n \in N : r.parent[n] = t.parent[n]
      /\ \A m \in Nodes : r.red[m] = IF m = X THEN FALSE ELSE t.red[m]
  BY DEF Blackened
<1>1. /\ X \in N \cup {nil} /\ t.root # nil /\ (t.red[t.root] => t.root = X) /\ Lacking(t, N, h, X, up)
      /\ (X # t.root => up \in N /\ \E s \in Sides : t.link[s][up] = X /\ t.link[Other(s)][up] # X)
  BY DEF Deleting
<1>2. \A n \in N, s \in Sides : t.red[n] /\ t.red[t.link[s][n]] => t.link[s][n] = X \/ n = X
  BY DEF Deleting
<1>3. X \in N /\ X # nil
  BY <1>1 DEF RbGrown
<1>4. X \in Nodes /\ nil \in Nodes /\ t.root \in Nodes /\ t.root \in N /\ t.parent[t.root] = nil
  BY <1>3, GrownNode, RbFields
<1>5. ASSUME NEW n \in N
      PROVE  n \in Nodes /\ n # nil /\ \A s \in Sides : t.link[s][n] \in Nodes
  BY GrownNode
<1>6. RbGrown(r, N, span)
  BY <1>0, ParentOfNil
<1>7. h \in [Nodes -> Nat] /\ h[nil] = 0
  BY <1>1 DEF Lacking
<1>8. /\ g \in [Nodes -> Nat] /\ g[nil] = 0 /\ g[X] = IF t.red[X] THEN h[X] + 1 ELSE h[X]
      /\ \A n \in Nodes : n # X => g[n] = h[n]
  <2>1. h[X] \in Nat /\ h[X] + 1 \in Nat
    BY <1>4, <1>7
  <2> QED
    BY <1>3, <1>4, <1>7, <2>1
<1> HIDE DEF g
<1>9. ASSUME NEW n \in N, NEW s \in Sides
      PROVE  h[n] = IF t.link[s][n] = X THEN h[X] + Black(t, n) + 1 ELSE h[t.link[s][n]] + Black(t, n)
  <2>1. h[n] = h[t.link[s][n]] + Black(t, n) + Missing(t, s, n, X, up)
    BY <1>1 DEF Lacking
  <2>2. t.link[s][n] = X => n = up
    BY <1>3, GrownUp
  <2>3. Missing(t, s, n, X, up) = IF t.link[s][n] = X THEN 1 ELSE 0
    BY <2>2 DEF Missing
  <2>4. h[t.link[s][n]] \in Nat /\ Black(t, n) \in Nat
    BY <1>5, <1>7 DEF Black
  <2> QED
    BY <2>1, <2>3, <2>4
<1>10. ASSUME NEW n \in N, NEW s \in Sides
       PROVE  t.link[s][n] = X => t.red[X]
  <2>1. t.link[s][n] # t.root
    BY <1>4, <1>5, GrownChild
  <2> QED
    BY <2>1
<1>11. ASSUME NEW n \in N, NEW s \in Sides
       PROVE  /\ r.red[n] => g[n] = g[r.link[s][n]]
              /\ ~r.red[n] => g[n] = g[r.link[s][n]] + 1
  <2> DEFINE c == t.link[s][n]
  <2>1. n \in Nodes /\ c \in Nodes /\ h[n] \in Nat /\ h[c] \in Nat /\ h[X] \in Nat
    BY <1>4, <1>5, <1>7
  <2>2. c # n
    BY <1>5, GrownChild
  <2>3. (t.red[n] => Black(t, n) = 0) /\ (~t.red[n] => Black(t, n) = 1)
    BY DEF Black
  <2>4. h[n] = IF c = X THEN h[X] + Black(t, n) + 1 ELSE h[c] + Black(t, n)
    BY <1>9
  <2>5. CASE c = X
    <3>1. t.red[X] /\ n # X /\ g[c] = h[X] + 1 /\ g[n] = h[n] /\ r.red[n] = t.red[n]
      BY <1>0, <1>8, <1>10, <2>1, <2>2, <2>5
    <3>2. g[n] = g[c] + Black(t, n)
      <4>1. h[n] = h[X] + Black(t, n) + 1 /\ Black(t, n) \in Nat
        BY <2>3, <2>4, <2>5
      <4> QED
        BY <2>1, <3>1, <4>1
    <3>3. g[c] \in Nat
      BY <2>1, <3>1
    <3> QED
      BY <1>0, <2>3, <2>5, <3>1, <3>2, <3>3
  <2>6. CASE c # X /\ n = X
    <3>1. ~r.red[n] /\ g[c] = h[c] /\ g[n] = IF t.red[n] THEN h[n] + 1 ELSE h[n]
      BY <1>0, <1>8, <2>1, <2>6
    <3>2. h[n] = h[c] + Black(t, n)
      BY <2>4, <2>6
    <3>3. CASE t.red[n]
      BY <1>0, <2>1, <2>3, <3>1, <3>2, <3>3
    <3>4. CASE ~t.red[n]
      BY <1>0, <2>1, <2>3, <3>1, <3>2, <3>4
    <3> QED
      BY <3>3, <3>4
  <2>7. CASE c # X /\ n # X
    <3>1. r.red[n] = t.red[n] /\ g[c] = h[c] /\ g[n] = h[n]
      BY <1>0, <1>8, <2>1, <2>7
    <3>2. h[n] = h[c] + Black(t, n)
      BY <2>4, <2>7
    <3> QED
      BY <1>0, <2>1, <2>3, <3>1, <3>2
  <2> QED
    BY <2>5, <2>6, <2>7
<1>12. Heights(r, N, g)
  BY <1>5, <1>8, <1>11, HeightsIf
<1>13. ASSUME NEW n \in N, NEW s \in Sides, r.red[n], r.red[r.link[s][n]]
       PROVE  FALSE
  <2>1. n # X /\ t.link[s][n] # X /\ t.red[n] /\ t.red[t.link[s][n]]
    BY <1>0, <1>5, <1>13
  <2> QED
    BY <1>2, <2>1
<1>14. Calm(r, N)
  BY <1>0, <1>1, <1>4, <1>13 DEF Calm
<1> QED
  BY <1>6, <1>12, <1>14 DEF Settled

-----------------------------------------------------------------------------
\* The assignments of insertNode.
LeafOf(t, leaf, Z, key) ==
  /\ leaf.root = t.root /\ leaf.parent = t.parent
  /\ \A m \in Nodes : /\ leaf.key[m] = IF m = Z THEN key ELSE t.key[m]
                      /\ leaf.red[m] = IF m = Z THEN TRUE ELSE t.red[m]
  /\ \A s \in Sides, m \in Nodes : leaf.link[s][m] = IF m = Z THEN nil ELSE t.link[s][m]

Leaf(t, Z, key) ==
  [t EXCEPT !.key[Z] = key, !.red[Z] = TRUE, !.link["left"][Z] = nil, !.link["right"][Z] = nil]

LEMMA LeafIs ==
  ASSUME NEW t \in RbTrees, NEW Z \in Nodes, NEW key \in Nat
  PROVE  Leaf(t, Z, key) \in RbTrees /\ LeafOf(t, Leaf(t, Z, key), Z, key)
<1> DEFINE a == [t EXCEPT !.key[Z] = key]
           b == [a EXCEPT !.red[Z] = TRUE]
           c == [b EXCEPT !.link["left"][Z] = nil]
           d == [c EXCEPT !.link["right"][Z] = nil]
<1>0. nil \in Nodes
  BY RbFields
<1>1. Leaf(t, Z, key) = d
  BY DEF Leaf
<1>2. /\ a \in RbTrees /\ a.root = t.root /\ a.link = t.link /\ a.parent = t.parent /\ a.red = t.red
      /\ \A m \in Nodes : a.key[m] = IF m = Z THEN key ELSE t.key[m]
  BY SetKey
<1> HIDE DEF a
<1>3. /\ b \in RbTrees /\ b.root = a.root /\ b.link = a.link /\ b.parent = a.parent /\ b.key = a.key
      /\ \A m \in Nodes : b.red[m] = IF m = Z THEN TRUE ELSE a.red[m]
  BY <1>2, SetRed
<1> HIDE DEF b
<1>4. /\ c \in RbTrees /\ c.root = b.root /\ c.parent = b.parent /\ c.red = b.red /\ c.key = b.key
      /\ \A s \in Sides, m \in Nodes : c.link[s][m] = IF m = Z /\ s = "left" THEN nil ELSE b.link[s][m]
  BY <1>0, <1>3, SetLink, SidesAre
<1> HIDE DEF c
<1>5. /\ d \in RbTrees /\ d.root = c.root /\ d.parent = c.parent /\ d.red = c.red /\ d.key = c.key
      /\ \A s \in Sides, m \in Nodes : d.link[s][m] = IF m = Z /\ s = "right" THEN nil ELSE c.link[s][m]
  <2>1. c \in RbTrees /\ "right" \in Sides
    BY <1>4, SidesAre
  <2> QED
    BY <1>0, <2>1, SetLink
<1> HIDE DEF d
<1>6. \A s \in Sides, m \in Nodes : d.link[s][m] = IF m = Z THEN nil ELSE t.link[s][m]
  BY <1>2, <1>3, <1>4, <1>5, SidesAre
<1>7. d.root = t.root /\ d.parent = t.parent
  BY <1>2, <1>3, <1>4, <1>5
<1>8. \A m \in Nodes : d.key[m] = IF m = Z THEN key ELSE t.key[m]
  <2>1. d.key = a.key
    BY <1>3, <1>4, <1>5
  <2> QED
    BY <1>2, <2>1
<1>9. \A m \in Nodes : d.red[m] = IF m = Z THEN TRUE ELSE t.red[m]
  <2>1. d.red = b.red /\ a.red = t.red
    BY <1>2, <1>4, <1>5
  <2> QED
    BY <1>3, <2>1
<1>10. LeafOf(t, d, Z, key)
  BY <1>6, <1>7, <1>8, <1>9 DEF LeafOf
<1> QED
  BY <1>1, <1>5, <1>10

Plant(leaf, Z) ==
  [leaf EXCEPT !.root = Z, !.parent[Z] = nil, !.parent[nil] = Z,
               !.link["left"][nil] = Z, !.link["right"][nil] = Z]

LEMMA PlantedIs ==
  ASSUME NEW t \in RbTrees, NEW leaf \in RbTrees, NEW Z \in Nodes, NEW key \in Nat, LeafOf(t, leaf, Z, key),
         Z # nil
  PROVE  Plant(leaf, Z) \in RbTrees /\ Planted(t, Plant(leaf, Z), Z, key)
<1> DEFINE a == [leaf EXCEPT !.root = Z]
           b == [a EXCEPT !.parent[Z] = nil]
           c == [b EXCEPT !.parent[nil] = Z]
           d == [c EXCEPT !.link["left"][nil] = Z]
           e == [d EXCEPT !.link["right"][nil] = Z]
<1>0. nil \in Nodes
  BY RbFields
<1>1. Plant(leaf, Z) = e
  BY DEF Plant
<1>2. a \in RbTrees /\ a.root = Z /\ a.link = leaf.link /\ a.red = leaf.red /\ a.key = leaf.key
  BY SetRoot
<1> HIDE DEF a
<1>3. b \in RbTrees /\ b.root = a.root /\ b.link = a.link /\ b.red = a.red /\ b.key = a.key /\ b.parent[Z] = nil
  BY <1>0, <1>2, SetParent
<1> HIDE DEF b
<1>4. c \in RbTrees /\ c.root = b.root /\ c.link = b.link /\ c.red = b.red /\ c.key = b.key /\ c.parent[Z] = nil
  BY <1>0, <1>3, SetParent
<1> HIDE DEF c
<1>5. /\ d \in RbTrees /\ d.root = c.root /\ d.parent = c.parent /\ d.red = c.red /\ d.key = c.key
      /\ \A s \in Sides : d.link[s][Z] = c.link[s][Z]
  BY <1>0, <1>4, SetLink, SidesAre
<1> HIDE DEF d
<1>6. /\ e \in RbTrees /\ e.root = d.root /\ e.parent = d.parent /\ e.red = d.red /\ e.key = d.key
      /\ \A s \in Sides : e.link[s][Z] = d.link[s][Z]
  BY <1>0, <1>5, SetLink, SidesAre
<1> HIDE DEF e
<1>7. e.root = Z /\ e.parent[Z] = nil /\ e.key = leaf.key /\ e.red = leaf.red
      /\ \A s \in Sides : e.link[s][Z] = leaf.link[s][Z]
  BY <1>2, <1>3, <1>4, <1>5, <1>6
<1>8. /\ leaf.key[Z] = key /\ leaf.red[Z] = TRUE /\ leaf.red[nil] = t.red[nil]
      /\ \A s \in Sides : leaf.link[s][Z] = nil
  BY <1>0 DEF LeafOf
<1>9. Planted(t, e, Z, key)
  BY <1>7, <1>8 DEF Planted
<1> QED
  BY <1>1, <1>6, <1>9

HangOn(leaf, Z, Y, side) == [leaf EXCEPT !.parent[Z] = Y, !.link[side][Y] = Z]

LEMMA HungIs ==
  ASSUME NEW t \in RbTrees, NEW leaf \in RbTrees, NEW Z \in Nodes, NEW key \in Nat, LeafOf(t, leaf, Z, key),
         NEW Y \in Nodes, Y # Z, NEW side \in Sides
  PROVE  HangOn(leaf, Z, Y, side) \in RbTrees /\ Hung(t, HangOn(leaf, Z, Y, side), Z, Y, side, key)
<1> DEFINE a == [leaf EXCEPT !.parent[Z] = Y]
           b == [a EXCEPT !.link[side][Y] = Z]
<1>1. HangOn(leaf, Z, Y, side) = b
  BY DEF HangOn
<1>2. /\ a \in RbTrees /\ a.root = leaf.root /\ a.link = leaf.link /\ a.red = leaf.red /\ a.key = leaf.key
      /\ \A m \in Nodes : a.parent[m] = IF m = Z THEN Y ELSE leaf.parent[m]
  BY SetParent
<1> HIDE DEF a
<1>3. /\ b \in RbTrees /\ b.root = a.root /\ b.parent = a.parent /\ b.red = a.red /\ b.key = a.key
      /\ \A s \in Sides, m \in Nodes : b.link[s][m] = IF m = Y /\ s = side THEN Z ELSE a.link[s][m]
  BY <1>2, SetLink
<1> HIDE DEF b
<1>4. /\ leaf.root = t.root /\ leaf.parent = t.parent
      /\ \A m \in Nodes : /\ leaf.key[m] = IF m = Z THEN key ELSE t.key[m]
                          /\ leaf.red[m] = IF m = Z THEN TRUE ELSE t.red[m]
      /\ \A s \in Sides, m \in Nodes : leaf.link[s][m] = IF m = Z THEN nil ELSE t.link[s][m]
  BY DEF LeafOf
<1>5. b.root = t.root
  BY <1>2, <1>3, <1>4
<1>6. ASSUME NEW m \in Nodes
      PROVE  /\ b.parent[m] = IF m = Z THEN Y ELSE t.parent[m]
             /\ b.key[m] = IF m = Z THEN key ELSE t.key[m]
             /\ b.red[m] = IF m = Z THEN TRUE ELSE t.red[m]
  <2>1. b.parent[m] = IF m = Z THEN Y ELSE t.parent[m]
    BY <1>2, <1>3, <1>4
  <2>0. b.key = leaf.key /\ b.red = leaf.red
    BY <1>2, <1>3
  <2>2. b.key[m] = IF m = Z THEN key ELSE t.key[m]
    BY <1>4, <2>0
  <2>3. b.red[m] = IF m = Z THEN TRUE ELSE t.red[m]
    BY <1>4, <2>0
  <2> QED
    BY <2>1, <2>2, <2>3
<1>7. ASSUME NEW s \in Sides, NEW m \in Nodes
      PROVE  b.link[s][m] = IF m = Y /\ s = side THEN Z ELSE IF m = Z THEN nil ELSE t.link[s][m]
  BY <1>2, <1>3, <1>4
<1>8. Hung(t, b, Z, Y, side, key)
  BY <1>5, <1>6, <1>7 DEF Hung
<1> QED
  BY <1>1, <1>3, <1>8

-----------------------------------------------------------------------------
(***************************************************************************)
(* The inductive invariant: as long as no rotation has moved a subtree and *)
(* no deletion has come to line 339, there are nodes, spans and heights    *)
(* with which the tree is what the loop that runs needs it to be, or the   *)
(* loop of deleteFixUp does nothing for ever.                              *)
(***************************************************************************)

RbTyped ==
  /\ rb \in RbTrees /\ made \in Nodes /\ turns \in Nat /\ bent \in BOOLEAN
  /\ fixing \in [at : {"idle", "insert", "delete", "undefined"}, node : Nodes]

RbStands(t, N, f, k) ==
  IF f.at = "insert" THEN InsertKept(t, N, f.node, k)
  ELSE IF f.at = "delete" THEN DeleteKept(t, N, f.node, k)
  ELSE Settled(t, N) /\ k < MaxTurns
RbShape(N) ==
  /\ N \subseteq 1 .. made /\ inTree = {rb.key[n] : n \in N} /\ ~rb.red[nil]
  /\ RbStands(rb, N, fixing, turns)

RbInv == RbTyped /\ (~bent => Stuck \/ \E N : RbShape(N))

LEMMA RbInvInit == RbInit => RbInv
<1> SUFFICES ASSUME RbInit PROVE RbInv
  OBVIOUS
<1> DEFINE z == [n \in Nodes |-> 0]
           w == [n \in Nodes |-> Nat]
<1>1. nil \in Nodes /\ 0 \in Nodes /\ MaxTurns \in Nat /\ 0 < MaxTurns /\ nil = 0
  BY RbAssumption DEF Nodes, nil
<1>2. /\ rb.root = nil /\ rb.link = [s \in Sides |-> [n \in Nodes |-> nil]] /\ rb.parent = [n \in Nodes |-> nil]
      /\ rb.red = [n \in Nodes |-> FALSE] /\ rb.key = [n \in Nodes |-> 0]
  BY DEF RbInit
<1>3. rb \in RbTrees
  BY <1>1 DEF RbInit, RbTrees
<1>4. RbTyped
  BY <1>1, <1>3 DEF RbInit, RbTyped
<1>5. RbGrown(rb, {}, w) /\ Heights(rb, {}, z) /\ Calm(rb, {}) /\ ~rb.red[nil]
  <2>1. w \in [Nodes -> SUBSET Nat] /\ z \in [Nodes -> Nat] /\ z[nil] = 0
    BY <1>1
  <2>2. rb.red[nil] = FALSE
    BY <1>1, <1>2
  <2> HIDE DEF w, z
  <2> QED
    BY <1>2, <2>1, <2>2 DEF RbGrown, Heights, Calm
<1>6. Settled(rb, {})
  BY <1>5 DEF Settled
<1>7. RbStands(rb, {}, fixing, turns)
  <2>1. fixing.at = "idle" /\ turns = 0
    BY DEF RbInit
  <2> QED
    BY <1>1, <1>6, <2>1 DEF RbStands
<1>8. {} \subseteq 1 .. made /\ inTree = {rb.key[n] : n \in {}}
  BY DEF RbInit
<1>9. RbShape({})
  BY <1>5, <1>7, <1>8 DEF RbShape
<1> QED
  BY <1>4, <1>9 DEF RbInv

\* insertNode.
LEMMA InsertNodeKeeps ==
  ASSUME RbTyped, NEW N, RbShape(N), NEW key \in Keys, insertNode(key)
  PROVE  RbTyped' /\ \E M : RbShape(M)'
<1> DEFINE Z == made + 1
           Y == Hang(key)
           leaf == Leaf(rb, Z, key)
           M == N \cup {Z}
<1>1. /\ fixing.at = "idle" /\ made < MaxNodes /\ searchNode(key) = nil
      /\ made' = Z /\ fixing' = [at |-> "insert", node |-> Z] /\ turns' = 0 /\ bent' = bent
      /\ inTree' = inTree \cup {key}
  BY DEF insertNode, Calls
<1>2. rb' = IF Y = nil THEN Plant(leaf, Z)
            ELSE HangOn(leaf, Z, Y, IF key < rb.key[Y] THEN "left" ELSE "right")
  BY DEF insertNode, Leaf, Plant, HangOn
<1>3. rb \in RbTrees /\ made \in Nodes /\ key \in Nat
  BY RbAssumption DEF RbTyped
<1>4. N \subseteq 1 .. made /\ inTree = {rb.key[n] : n \in N} /\ ~rb.red[nil] /\ Settled(rb, N)
  BY <1>1 DEF RbShape, RbStands
<1>5. /\ Z \in Nodes /\ Z \in 1 .. MaxNodes /\ Z \notin N /\ Z # nil /\ nil \in Nodes
      /\ M \subseteq 1 .. Z /\ made \in Nat /\ MaxNodes \in Nat
  BY <1>1, <1>3, <1>4, RbAssumption DEF Nodes, nil
<1>6. PICK span, h : RbGrown(rb, N, span) /\ Heights(rb, N, h) /\ Calm(rb, N)
  BY <1>4 DEF Settled
<1>7. \A n \in N : rb.key[n] # key /\ n \in Nodes
  <2>1. ASSUME NEW n \in N PROVE n # nil /\ n \in Nodes
    BY <1>3, <1>6, GrownNode
  <2> QED
    BY <1>1, <1>3, <1>6, <2>1, SearchNodeIs
<1> HIDE DEF Z, Y
<1>8. leaf \in RbTrees /\ LeafOf(rb, leaf, Z, key)
  BY <1>3, <1>5, LeafIs
<1> HIDE DEF leaf
<1>9. rb' \in RbTrees /\ InsertKept(rb', M, Z, 0) /\ ~rb'.red[nil]
      /\ rb'.key[Z] = key /\ \A n \in N : rb'.key[n] = rb.key[n]
  <2>1. CASE rb.root = nil
    <3>1. Y = nil /\ N = {}
      BY <1>6, <2>1 DEF Hang, Y, RbGrown
    <3>2. rb' = Plant(leaf, Z)
      BY <1>2, <3>1
    <3>3. Plant(leaf, Z) \in RbTrees /\ Planted(rb, Plant(leaf, Z), Z, key)
      BY <1>3, <1>5, <1>8, PlantedIs
    <3>4. InsertKept(Plant(leaf, Z), {Z}, Z, 0)
      BY <1>3, <1>4, <1>5, <3>3, InsertPlants
    <3>5. M = {Z}
      BY <3>1
    <3>6. ~rb'.red[nil] /\ rb'.key[Z] = key
      BY <1>4, <3>2, <3>3 DEF Planted
    <3> QED
      BY <3>1, <3>2, <3>3, <3>4, <3>5, <3>6
  <2>2. CASE rb.root # nil
    <3> DEFINE side == Towards(rb, Y, key)
               r == HangOn(leaf, Z, Y, side)
    <3>1. HangsAt(rb, N, span, Y, key)
      BY <1>1, <1>3, <1>6, <2>2, HangIs DEF Y
    <3>2. Y \in N /\ side \in Sides
      BY <3>1 DEF HangsAt
    <3>3. Y \in Nodes /\ Y # nil /\ Y # Z
      BY <1>3, <1>5, <1>6, <3>2, GrownNode
    <3>4. rb' = r
      BY <1>2, <3>3 DEF Towards
    <3> HIDE DEF side
    <3>5. r \in RbTrees /\ Hung(rb, r, Z, Y, side, key)
      BY <1>3, <1>5, <1>8, <3>2, <3>3, HungIs
    <3> HIDE DEF r
    <3>6. InsertKept(r, N \cup {Z}, Z, 0)
      BY <1>3, <1>4, <1>5, <1>6, <1>7, <3>1, <3>5, InsertHangs DEF side
    <3>7. r.red[nil] = rb.red[nil] /\ r.key[Z] = key /\ \A n \in N : r.key[n] = rb.key[n]
      BY <1>5, <1>7, <3>5 DEF Hung
    <3> QED
      BY <1>4, <3>4, <3>5, <3>6, <3>7
  <2> QED
    BY <2>1, <2>2
<1>10. inTree' = {rb'.key[n] : n \in M}
  BY <1>1, <1>4, <1>9
<1>11. RbTyped'
  BY <1>1, <1>5, <1>9 DEF RbTyped
<1>12. RbStands(rb', M, fixing', turns')
  BY <1>1, <1>9 DEF RbStands
<1>13. PICK Q : Q = M
  OBVIOUS
<1>14. Q \subseteq 1 .. made' /\ inTree' = {rb'.key[n] : n \in Q} /\ RbStands(rb', Q, fixing', turns')
  BY <1>1, <1>5, <1>10, <1>12, <1>13
<1>15. RbShape(Q)'
  BY <1>9, <1>14 DEF RbShape
<1> QED
  BY <1>11, <1>15

\* deleteNode.
LEMMA DeleteNodeKeeps ==
  ASSUME RbTyped, NEW N, RbShape(N), NEW key \in Keys, deleteNode(key)
  PROVE  RbTyped' /\ \E M : RbShape(M)'
<1> DEFINE Z == searchNode(key)
           X == IF L("left", Z) # nil THEN L("left", Z) ELSE L("right", Z)
           o == IF L("left", Z) # nil THEN "right" ELSE "left"
           a == [rb EXCEPT !.parent[X] = P(Z)]
           b == Replace(a, Z, X)
<1>1. /\ fixing.at = "idle" /\ Z # nil /\ made' = made /\ turns' = 0 /\ bent' = bent
      /\ L("left", Z) = nil \/ L("right", Z) = nil
      /\ inTree' = inTree \ {key}
  BY DEF deleteNode, Calls
<1>2. /\ rb' = IF P(Z) = nil THEN [b EXCEPT !.parent[nil] = X] ELSE b
      /\ fixing' = IF ~rb.red[Z] /\ ~(X = nil /\ rb'.parent[X] = nil)
                   THEN [at |-> "delete", node |-> X] ELSE Idle
  BY DEF deleteNode
<1>3. rb \in RbTrees /\ made \in Nodes /\ key \in Nat
  BY RbAssumption DEF RbTyped
<1>4. N \subseteq 1 .. made /\ inTree = {rb.key[n] : n \in N} /\ ~rb.red[nil] /\ Settled(rb, N)
  BY <1>1 DEF RbShape, RbStands
<1>5. PICK span, h : RbGrown(rb, N, span) /\ Heights(rb, N, h) /\ Calm(rb, N)
  BY <1>4 DEF Settled
<1>6. Z \in N /\ rb.key[Z] = key
  BY <1>1, <1>3, <1>5, SearchNodeIs
<1> HIDE DEF Z
<1>7. Lone(rb, N, Z, X, o)
  BY <1>1, <1>6, SidesAre DEF Lone, L, Other
<1>8. X \in Nodes /\ X \in N \cup {nil}
  <2>1. nil \in Nodes /\ \A s \in Sides : rb.link[s][Z] \in N \cup {nil} /\ rb.link[s][Z] \in Nodes
    BY <1>3, <1>5, <1>6, GrownNode, RbFields
  <2> QED
    BY <2>1, SidesAre DEF L
<1> HIDE DEF X, o
<1>9. rb' \in RbTrees /\ Cut(rb, rb', N, Z, X)
  <2>1. PICK c : c = a
    OBVIOUS
  <2>2. PICK d : d = b
    OBVIOUS
  <2>3. PICK r : r = rb'
    OBVIOUS
  <2>4. c = [rb EXCEPT !.parent[X] = rb.parent[Z]] /\ d = Replace(c, Z, X)
        /\ r = IF rb.parent[Z] = nil THEN [d EXCEPT !.parent[nil] = X] ELSE d
    BY <1>2, <2>1, <2>2, <2>3 DEF P
  <2> HIDE DEF a, b
  <2>5. r \in RbTrees /\ Cut(rb, r, N, Z, X)
    BY <1>3, <1>5, <1>7, <2>4, CutIs
  <2> QED
    BY <2>3, <2>5
<1> HIDE DEF a, b
<1>10. PICK M : M = N \ {Z}
  OBVIOUS
<1>11. rb'.red = rb.red /\ rb'.key = rb.key
  BY <1>9 DEF Cut
<1>12. IF ~rb.red[Z] /\ ~(X = nil /\ rb'.parent[X] = nil)
       THEN DeleteKept(rb', M, X, 0) ELSE Settled(rb', M)
  <2>1. PICK r : r = rb'
    OBVIOUS
  <2>2. r \in RbTrees /\ Cut(rb, r, N, Z, X)
    BY <1>9, <2>1
  <2>3. IF ~rb.red[Z] /\ ~(X = nil /\ r.parent[X] = nil)
        THEN DeleteKept(r, N \ {Z}, X, 0) ELSE Settled(r, N \ {Z})
    BY <1>3, <1>4, <1>5, <1>7, <2>2, DeleteCuts
  <2> QED
    BY <1>10, <2>1, <2>3
<1>13. RbStands(rb', M, fixing', turns')
  <2>1. 0 < MaxTurns
    BY RbAssumption
  <2>2. CASE ~rb.red[Z] /\ ~(X = nil /\ rb'.parent[X] = nil)
    BY <1>1, <1>2, <1>12, <2>2 DEF RbStands
  <2>3. CASE ~(~rb.red[Z] /\ ~(X = nil /\ rb'.parent[X] = nil))
    BY <1>1, <1>2, <1>12, <2>1, <2>3 DEF RbStands, Idle
  <2> QED
    BY <2>2, <2>3
<1>14. inTree' = {rb'.key[n] : n \in M}
  <2>1. ASSUME NEW n \in N, rb.key[n] = key PROVE n = Z
    BY <1>5, <1>6, <2>1 DEF RbGrown
  <2> QED
    BY <1>1, <1>4, <1>6, <1>10, <1>11, <2>1
<1>15. RbTyped'
  <2>1. fixing' \in [at : {"idle", "insert", "delete", "undefined"}, node : Nodes]
    BY <1>2, <1>8, RbFields, <1>3 DEF Idle
  <2> QED
    BY <1>1, <1>3, <1>9, <2>1 DEF RbTyped
<1>16. RbShape(M)'
  BY <1>1, <1>4, <1>10, <1>11, <1>13, <1>14 DEF RbShape
<1> QED
  BY <1>15, <1>16

LEMMA DeleteUndefinedKeeps ==
  ASSUME RbTyped, NEW N, RbShape(N), NEW key \in Keys, deleteUndefined(key)
  PROVE  RbTyped' /\ \E M : RbShape(M)'
<1>1. /\ fixing.at = "idle" /\ fixing' = [at |-> "undefined", node |-> nil]
      /\ rb' = rb /\ made' = made /\ turns' = turns /\ bent' = bent /\ inTree' = inTree
  BY DEF deleteUndefined, Calls
<1>2. RbTyped'
  <2>1. nil \in Nodes
    BY RbFields DEF RbTyped
  <2> QED
    BY <1>1, <2>1 DEF RbTyped
<1>3. RbStands(rb', N, fixing', turns')
  BY <1>1 DEF RbShape, RbStands
<1>4. RbShape(N)'
  BY <1>1, <1>3 DEF RbShape
<1> QED
  BY <1>2, <1>4

LEMMA RotateTyped ==
  ASSUME NEW t \in RbTrees, NEW side \in Sides, NEW node \in Nodes
  PROVE  /\ Rotate(t, side, node) = rotate(t, side, node)
         /\ rotateRight(t, node) = rotate(t, "right", node)
         /\ rotateLeft(t, node) = rotate(t, "left", node)
         /\ Rotate(t, side, node) \in RbTrees
         /\ rotateRight(t, node) \in RbTrees /\ rotateLeft(t, node) \in RbTrees
<1>1. /\ Rotate(t, side, node) = rotate(t, side, node)
      /\ rotateRight(t, node) = rotate(t, "right", node) /\ rotateLeft(t, node) = rotate(t, "left", node)
  BY SidesAre DEF Rotate, rotateLeft, rotateRight
<1>2. /\ rotate(t, side, node) \in RbTrees
      /\ rotate(t, "right", node) \in RbTrees /\ rotate(t, "left", node) \in RbTrees
  BY SidesAre, RotateIs
<1> QED
  BY <1>1, <1>2

\* The rotations of the fix-ups, when the subtree that would move is empty.
LEMMA RotateTurns ==
  ASSUME NEW t \in RbTrees, NEW N, NEW span, RbGrown(t, N, span), NEW side \in Sides, NEW node \in N,
         NEW up, up = t.link[Other(side)][node], up # nil, t.link[side][up] = nil
  PROVE  Rotate(t, side, node) \in RbTrees /\ Rotated(t, Rotate(t, side, node), side, node, up)
<1>1. node \in Nodes /\ node # nil /\ Other(side) \in Sides
  BY GrownNode, SidesAre
<1>2. up # node
  BY <1>1, GrownChild
<1>3. t.parent[node] # node
  <2>1. CASE node = t.root
    BY <1>1, <2>1, GrownNode
  <2>2. CASE node # t.root
    BY <2>2, GrownParent
  <2> QED
    BY <2>1, <2>2
<1>4. rotate(t, side, node) \in RbTrees /\ Rotated(t, rotate(t, side, node), side, node, up)
  BY <1>1, <1>2, <1>3, RotateIs
<1> QED
  BY <1>1, <1>4, RotateTyped

\* Two nodes are painted.
LEMMA SetReds ==
  ASSUME NEW t \in RbTrees, NEW p \in Nodes, NEW x \in BOOLEAN, NEW q \in Nodes, NEW y \in BOOLEAN
  PROVE  LET r == [[t EXCEPT !.red[p] = x] EXCEPT !.red[q] = y]
         IN  /\ r \in RbTrees /\ r.root = t.root /\ r.link = t.link /\ r.parent = t.parent /\ r.key = t.key
             /\ \A m \in Nodes : r.red[m] = IF m = q THEN y ELSE IF m = p THEN x ELSE t.red[m]
<1> DEFINE a == [t EXCEPT !.red[p] = x]
           b == [a EXCEPT !.red[q] = y]
<1>1. /\ a \in RbTrees /\ a.root = t.root /\ a.link = t.link /\ a.parent = t.parent /\ a.key = t.key
      /\ \A m \in Nodes : a.red[m] = IF m = p THEN x ELSE t.red[m]
  BY SetRed
<1> HIDE DEF a
<1>2. /\ b \in RbTrees /\ b.root = a.root /\ b.link = a.link /\ b.parent = a.parent /\ b.key = a.key
      /\ \A m \in Nodes : b.red[m] = IF m = q THEN y ELSE a.red[m]
  BY <1>1, SetRed
<1> HIDE DEF b
<1>3. /\ b \in RbTrees /\ b.root = t.root /\ b.link = t.link /\ b.parent = t.parent /\ b.key = t.key
      /\ \A m \in Nodes : b.red[m] = IF m = q THEN y ELSE IF m = p THEN x ELSE t.red[m]
  BY <1>1, <1>2
<1> QED
  BY <1>3 DEF a, b

\* The assignments of the three cases of insertFixUp.
InsertPaints(t, side, A, G, U) ==
  [t EXCEPT !.red[A] = FALSE, !.red[U] = FALSE, !.red[IF side = "left" THEN G ELSE t.parent[U]] = TRUE]
InsertThird(t, A, G) == [t EXCEPT !.red[A] = FALSE, !.red[G] = TRUE]

LEMMA InsertFirstIs ==
  ASSUME NEW t \in RbTrees, NEW side \in Sides, NEW A \in Nodes, NEW G \in Nodes, NEW U \in Nodes
  PROVE  /\ InsertPaints(t, side, A, G, U) \in RbTrees
         /\ Painted(t, InsertPaints(t, side, A, G, U), IF side = "left" THEN G ELSE t.parent[U], A, U)
<1> DEFINE x == IF side = "left" THEN G ELSE t.parent[U]
           e == [t EXCEPT !.red[A] = FALSE]
           a == [e EXCEPT !.red[U] = FALSE]
           b == [a EXCEPT !.red[x] = TRUE]
<1>1. x \in Nodes
  BY RbFields
<1>2. InsertPaints(t, side, A, G, U) = b
  BY DEF InsertPaints
<1> HIDE DEF x
<1>6. FALSE \in BOOLEAN /\ TRUE \in BOOLEAN
  OBVIOUS
<1>7. /\ e \in RbTrees /\ e.root = t.root /\ e.link = t.link /\ e.parent = t.parent /\ e.key = t.key
      /\ \A m \in Nodes : e.red[m] = IF m = A THEN FALSE ELSE t.red[m]
  BY <1>6, SetRed
<1> HIDE DEF e
<1>8. /\ a \in RbTrees /\ a.root = e.root /\ a.link = e.link /\ a.parent = e.parent /\ a.key = e.key
      /\ \A m \in Nodes : a.red[m] = IF m = U THEN FALSE ELSE e.red[m]
  BY <1>6, <1>7, SetRed
<1> HIDE DEF a
<1>3. /\ a \in RbTrees /\ a.root = t.root /\ a.link = t.link /\ a.parent = t.parent /\ a.key = t.key
      /\ \A m \in Nodes : a.red[m] = IF m = U THEN FALSE ELSE IF m = A THEN FALSE ELSE t.red[m]
  BY <1>7, <1>8
<1>4. /\ b \in RbTrees /\ b.root = a.root /\ b.link = a.link /\ b.parent = a.parent /\ b.key = a.key
      /\ \A m \in Nodes : b.red[m] = IF m = x THEN TRUE ELSE a.red[m]
  BY <1>1, <1>3, <1>6, SetRed
<1> HIDE DEF b
<1>5. b \in RbTrees /\ Painted(t, b, x, A, U)
  BY <1>3, <1>4 DEF Painted
<1> QED
  BY <1>2, <1>5 DEF x

LEMMA InsertThirdIs ==
  ASSUME NEW t \in RbTrees, NEW A \in Nodes, NEW G \in Nodes
  PROVE  InsertThird(t, A, G) \in RbTrees /\ Swapped(t, InsertThird(t, A, G), A, G)
<1> DEFINE e == [t EXCEPT !.red[A] = FALSE]
           r == [e EXCEPT !.red[G] = TRUE]
<1>1. InsertThird(t, A, G) = r
  BY DEF InsertThird
<1>3. FALSE \in BOOLEAN /\ TRUE \in BOOLEAN
  OBVIOUS
<1>4. /\ e \in RbTrees /\ e.root = t.root /\ e.link = t.link /\ e.parent = t.parent /\ e.key = t.key
      /\ \A m \in Nodes : e.red[m] = IF m = A THEN FALSE ELSE t.red[m]
  BY <1>3, SetRed
<1> HIDE DEF e
<1>5. /\ r \in RbTrees /\ r.root = e.root /\ r.link = e.link /\ r.parent = e.parent /\ r.key = e.key
      /\ \A m \in Nodes : r.red[m] = IF m = G THEN TRUE ELSE e.red[m]
  BY <1>3, <1>4, SetRed
<1> HIDE DEF r
<1>2. /\ r \in RbTrees /\ r.root = t.root /\ r.link = t.link /\ r.parent = t.parent /\ r.key = t.key
      /\ \A m \in Nodes : r.red[m] = IF m = G THEN TRUE ELSE IF m = A THEN FALSE ELSE t.red[m]
  BY <1>4, <1>5
<1> QED
  BY <1>1, <1>2 DEF Swapped

\* insertFixUp keeps the types, whatever the tree looks like.
LEMMA InsertTurnTyped ==
  ASSUME RbTyped, NEW side \in Sides, InsertTurn(side)
  PROVE  RbTyped'
<1> DEFINE node == fixing.node
           A == P(node)
           G == P(A)
           U == L(Other(side), G)
           o == Other(side)
<1>1. rb \in RbTrees /\ fixing \in [at : {"idle", "insert", "delete", "undefined"}, node : Nodes]
  BY DEF RbTyped
<1>2. node \in Nodes /\ A \in Nodes /\ G \in Nodes /\ U \in Nodes /\ o \in Sides
  BY <1>1, RbFields, SidesAre DEF P, L
<1>3. /\ turns' = turns + 1 /\ made' = made
      /\ \/ /\ rb' = InsertPaints(rb, side, A, G, U) /\ fixing' = [fixing EXCEPT !.node = G] /\ bent' = bent
         \/ /\ rb' = Rotate(rb, side, A) /\ fixing' = [fixing EXCEPT !.node = A]
            /\ bent' = (bent \/ Bends(rb, side, A))
         \/ /\ rb' = Rotate(InsertThird(rb, A, G), o, G) /\ fixing' = fixing
            /\ bent' = (bent \/ Bends(rb, o, G))
  BY DEF InsertTurn, InsertPaints, InsertThird, P
<1> HIDE DEF node, A, G, U, o
<1>4. rb' \in RbTrees
  <2>1. InsertPaints(rb, side, A, G, U) \in RbTrees
    BY <1>1, <1>2, InsertFirstIs
  <2>2. Rotate(rb, side, A) \in RbTrees
    BY <1>1, <1>2, RotateTyped
  <2>3. Rotate(InsertThird(rb, A, G), o, G) \in RbTrees
    BY <1>1, <1>2, InsertThirdIs, RotateTyped
  <2> QED
    BY <1>3, <2>1, <2>2, <2>3
<1>5. fixing' \in [at : {"idle", "insert", "delete", "undefined"}, node : Nodes]
  BY <1>1, <1>2, <1>3
<1>6. bent' \in BOOLEAN
  BY <1>3 DEF RbTyped, Bends
<1>7. turns' \in Nat /\ made' \in Nodes
  BY <1>3 DEF RbTyped
<1> QED
  BY <1>4, <1>5, <1>6, <1>7 DEF RbTyped

\* A turn of insertFixUp, for a tree t that is the state's.
LEMMA InsertTurnShape ==
  ASSUME NEW t \in RbTrees, NEW N, NEW span, NEW h, NEW Z, NEW k \in Nat, NEW A, NEW G, NEW side \in Sides,
         AtRed(t, N, span, h, Z, k, A, G, side), NEW U, U = t.link[Other(side)][G]
  PROVE  /\ t.red[U] => LET r == InsertPaints(t, side, A, G, U)
                        IN  r.key = t.key /\ ~r.red[nil] /\ InsertKept(r, N, G, k + 1)
         /\ ~t.red[U] /\ Z = t.link[Other(side)][A] /\ ~Bends(t, side, A)
              => LET r == Rotate(t, side, A)
                 IN  r.key = t.key /\ ~r.red[nil] /\ InsertKept(r, N, A, k + 1)
         /\ ~t.red[U] /\ Z # t.link[Other(side)][A] /\ ~Bends(t, Other(side), G)
              => LET r == Rotate(InsertThird(t, A, G), Other(side), G)
                 IN  r.key = t.key /\ ~r.red[nil] /\ InsertKept(r, N, Z, k + 1)
<1>1. RbGrown(t, N, span) /\ t.link[side][G] = A /\ ~t.red[nil]
  BY DEF AtRed
<1>2. Trio(t, N, Z, A, G)
  BY TrioIs DEF AtRed
<1>3. /\ Z \in N /\ A \in N /\ G \in N /\ Z # nil /\ A # nil /\ G # nil /\ A \in Nodes /\ G \in Nodes
      /\ nil \in Nodes /\ Other(side) \in Sides /\ Other(Other(side)) = side
  BY <1>2, RbFields, SidesAre DEF Trio
<1>4. U \in Nodes
  BY <1>3, RbFields
<1>5. ASSUME t.red[U]
      PROVE  LET r == InsertPaints(t, side, A, G, U)
             IN  r.key = t.key /\ ~r.red[nil] /\ InsertKept(r, N, G, k + 1)
  <2> DEFINE r == InsertPaints(t, side, A, G, U)
             x == IF side = "left" THEN G ELSE t.parent[U]
  <2>1. x = G
    <3>1. U # nil
      BY <1>1, <1>5
    <3>2. t.parent[U] = G
      BY <1>1, <1>3, <3>1, GrownChild
    <3> QED
      BY <3>2
  <2>2. r \in RbTrees /\ Painted(t, r, x, A, U)
    BY <1>3, <1>4, InsertFirstIs
  <2> HIDE DEF r, x
  <2>3. Painted(t, r, G, A, U)
    BY <2>1, <2>2
  <2>4. ~r.red[nil] /\ r.key = t.key
    BY <1>1, <1>3, <2>3 DEF Painted
  <2>5. InsertKept(r, N, G, k + 1)
    BY <1>5, <2>2, <2>3, InsertRecolours
  <2> QED
    BY <2>4, <2>5 DEF r
<1>6. ASSUME ~t.red[U], Z = t.link[Other(side)][A], ~Bends(t, side, A)
      PROVE  LET r == Rotate(t, side, A)
             IN  r.key = t.key /\ ~r.red[nil] /\ InsertKept(r, N, A, k + 1)
  <2> DEFINE r == Rotate(t, side, A)
  <2>1. t.link[side][Z] = nil
    BY <1>3, <1>6 DEF Bends
  <2>2. r \in RbTrees /\ Rotated(t, r, side, A, Z)
    BY <1>1, <1>3, <1>6, <2>1, RotateTurns
  <2> HIDE DEF r
  <2>3. InsertKept(r, N, A, k + 1)
    BY <1>6, <2>1, <2>2, InsertTurnsIn
  <2>4. r.key = t.key /\ ~r.red[nil]
    BY <1>1, <2>2 DEF Rotated
  <2> QED
    BY <2>3, <2>4 DEF r
<1>7. ASSUME ~t.red[U], Z # t.link[Other(side)][A], ~Bends(t, Other(side), G)
      PROVE  LET r == Rotate(InsertThird(t, A, G), Other(side), G)
             IN  r.key = t.key /\ ~r.red[nil] /\ InsertKept(r, N, Z, k + 1)
  <2> DEFINE c == InsertThird(t, A, G)
             r == Rotate(c, Other(side), G)
  <2>1. c \in RbTrees /\ Swapped(t, c, A, G)
    BY <1>3, InsertThirdIs
  <2> HIDE DEF c
  <2>2. t.link[Other(side)][A] = nil
    BY <1>1, <1>3, <1>7 DEF Bends
  <2>3. c.root = t.root /\ c.link = t.link /\ c.parent = t.parent /\ c.key = t.key /\ c.red[nil] = t.red[nil]
    BY <1>3, <2>1 DEF Swapped
  <2>4. RbGrown(c, N, span)
    BY <1>1, <2>1, <2>3, Recoloured
  <2>5. A = c.link[Other(Other(side))][G] /\ c.link[Other(side)][A] = nil
    BY <1>1, <1>3, <2>2, <2>3
  <2>6. r \in RbTrees /\ Rotated(c, r, Other(side), G, A)
    BY <1>3, <2>1, <2>4, <2>5, RotateTurns
  <2> HIDE DEF r
  <2>7. InsertKept(r, N, Z, k + 1)
    BY <1>7, <2>1, <2>2, <2>6, InsertTurnsOut
  <2>8. r.key = t.key /\ ~r.red[nil]
    BY <1>1, <2>3, <2>6 DEF Rotated
  <2> QED
    BY <2>7, <2>8 DEF r, c
<1> QED
  BY <1>5, <1>6, <1>7

LEMMA InsertTurnKeeps ==
  ASSUME RbTyped, NEW N, RbShape(N), NEW side \in Sides, InsertTurn(side), ~bent'
  PROVE  RbShape(N)'
<1>1. PICK t, Z, k : t = rb /\ Z = fixing.node /\ k = turns
  OBVIOUS
<1>2. t \in RbTrees /\ k \in Nat /\ fixing \in [at : {"idle", "insert", "delete", "undefined"}, node : Nodes]
  BY <1>1 DEF RbTyped
<1> DEFINE A == t.parent[Z]
           G == t.parent[A]
           U == t.link[Other(side)][G]
           o == Other(side)
<1>3. fixing.at = "insert" /\ t.red[A] /\ (side = "left") = (A = t.link["left"][G])
  BY <1>1 DEF InsertTurn, Turn, P, L
<1>4. /\ turns' = k + 1 /\ made' = made /\ inTree' = inTree
      /\ \/ /\ t.red[U] /\ rb' = InsertPaints(t, side, A, G, U) /\ fixing' = [fixing EXCEPT !.node = G]
         \/ /\ ~t.red[U] /\ Z = t.link[o][A]
            /\ rb' = Rotate(t, side, A) /\ fixing' = [fixing EXCEPT !.node = A] /\ ~Bends(t, side, A)
         \/ /\ ~t.red[U] /\ Z # t.link[o][A]
            /\ rb' = Rotate(InsertThird(t, A, G), o, G) /\ fixing' = fixing /\ ~Bends(t, o, G)
  BY <1>1 DEF InsertTurn, InsertPaints, InsertThird, P, L
<1>5. N \subseteq 1 .. made /\ inTree = {t.key[n] : n \in N} /\ ~t.red[nil] /\ InsertKept(t, N, Z, k)
  BY <1>1, <1>3 DEF RbShape, RbStands
<1>6. PICK span, h : RbGrown(t, N, span) /\ Inserting(t, N, span, h, Z, k)
  BY <1>5 DEF InsertKept
<1>7. t.link[side][G] = A
  <2>1. Trio(t, N, Z, A, G)
    BY <1>2, <1>3, <1>5, <1>6, TrioIs
  <2>2. PICK s \in Sides : t.link[s][G] = A
    BY <2>1 DEF Trio
  <2> QED
    BY <1>3, <2>2, SidesAre
<1>8. AtRed(t, N, span, h, Z, k, A, G, side)
  BY <1>3, <1>5, <1>6, <1>7 DEF AtRed
<1> HIDE DEF A, G
<1>9. /\ t.red[U] => LET r == InsertPaints(t, side, A, G, U)
                     IN  r.key = t.key /\ ~r.red[nil] /\ InsertKept(r, N, G, k + 1)
      /\ ~t.red[U] /\ Z = t.link[o][A] /\ ~Bends(t, side, A)
           => LET r == Rotate(t, side, A)
              IN  r.key = t.key /\ ~r.red[nil] /\ InsertKept(r, N, A, k + 1)
      /\ ~t.red[U] /\ Z # t.link[o][A] /\ ~Bends(t, o, G)
           => LET r == Rotate(InsertThird(t, A, G), o, G)
              IN  r.key = t.key /\ ~r.red[nil] /\ InsertKept(r, N, Z, k + 1)
  BY <1>2, <1>8, InsertTurnShape
<1> HIDE DEF U, o
<1>10. rb'.key = t.key /\ ~rb'.red[nil] /\ InsertKept(rb', N, fixing'.node, k + 1) /\ fixing'.at = "insert"
  <2>1. CASE t.red[U] /\ rb' = InsertPaints(t, side, A, G, U) /\ fixing' = [fixing EXCEPT !.node = G]
    BY <1>2, <1>3, <1>9, <2>1
  <2>2. CASE /\ ~t.red[U] /\ Z = t.link[o][A]
             /\ rb' = Rotate(t, side, A) /\ fixing' = [fixing EXCEPT !.node = A] /\ ~Bends(t, side, A)
    BY <1>2, <1>3, <1>9, <2>2
  <2>3. CASE /\ ~t.red[U] /\ Z # t.link[o][A]
             /\ rb' = Rotate(InsertThird(t, A, G), o, G) /\ fixing' = fixing /\ ~Bends(t, o, G)
    BY <1>1, <1>3, <1>9, <2>3
  <2> QED
    BY <1>4, <2>1, <2>2, <2>3
<1>11. RbStands(rb', N, fixing', turns')
  BY <1>4, <1>10 DEF RbStands
<1> QED
  BY <1>4, <1>5, <1>10, <1>11 DEF RbShape

\* The end of insertFixUp.
LEMMA InsertEndsKeeps ==
  ASSUME RbTyped, InsertEnds
  PROVE  RbTyped' /\ \A N : RbShape(N) /\ ~bent => RbShape(N)'
<1>1. /\ fixing.at = "insert" /\ ~rb.red[rb.parent[fixing.node]] /\ rb' = [rb EXCEPT !.red[rb.root] = FALSE]
      /\ fixing' = Idle /\ made' = made /\ turns' = turns /\ bent' = bent /\ inTree' = inTree
  BY DEF InsertEnds, P
<1>2. PICK t, r : t = rb /\ r = rb'
  OBVIOUS
<1>3. t \in RbTrees /\ t.root \in Nodes /\ nil \in Nodes
  BY <1>2, RbFields DEF RbTyped
<1>4. /\ r \in RbTrees /\ r.root = t.root /\ r.link = t.link /\ r.parent = t.parent /\ r.key = t.key
      /\ \A m \in Nodes : r.red[m] = IF m = t.root THEN FALSE ELSE t.red[m]
  <2>1. r = [t EXCEPT !.red[t.root] = FALSE]
    BY <1>1, <1>2
  <2> QED
    BY <1>3, <2>1, SetRed
<1>5. RbTyped'
  <2>1. fixing' \in [at : {"idle", "insert", "delete", "undefined"}, node : Nodes]
    BY <1>1, <1>3 DEF Idle
  <2> QED
    BY <1>1, <1>2, <1>4, <2>1 DEF RbTyped
<1>6. ASSUME NEW N, RbShape(N) PROVE RbShape(N)'
  <2>1. N \subseteq 1 .. made /\ inTree = {t.key[n] : n \in N} /\ ~t.red[nil] /\ InsertKept(t, N, fixing.node, turns)
    BY <1>1, <1>2, <1>6 DEF RbShape, RbStands
  <2>2. PICK Z, k : Z = fixing.node /\ k = turns
    OBVIOUS
  <2>3. InsertKept(t, N, Z, k)
    BY <2>1, <2>2
  <2>4. PICK span, h : RbGrown(t, N, span) /\ Inserting(t, N, span, h, Z, k) /\ k < MaxTurns
    BY <2>3 DEF InsertKept
  <2>5. ~t.red[t.parent[Z]]
    BY <1>1, <1>2, <2>2
  <2>6. Settled(r, N)
    BY <1>3, <1>4, <2>4, <2>5, InsertSettles
  <2>7. ~r.red[nil]
    BY <1>3, <1>4, <2>1
  <2>8. RbStands(rb', N, fixing', turns')
    BY <1>1, <1>2, <2>2, <2>4, <2>6 DEF RbStands, Idle
  <2> QED
    BY <1>1, <1>2, <1>4, <2>1, <2>7, <2>8 DEF RbShape
<1> QED
  BY <1>5, <1>6

\* The assignments of deleteFixUp keep the types, whatever the tree looks like.
LEMMA DeleteTurnTyped ==
  ASSUME RbTyped, NEW side \in Sides, DeleteTurn(side)
  PROVE  RbTyped'
<1> DEFINE node == fixing.node
           up == P(node)
           o == Other(side)
           B == L(o, up)
           first == [[rb EXCEPT !.red[B] = FALSE] EXCEPT !.red[up] = TRUE]
           second == [rb EXCEPT !.red[B] = TRUE]
           third == [[rb EXCEPT !.red[B] = TRUE] EXCEPT !.red[L("right", B)] = FALSE]
           fourth == [rb EXCEPT !.red[B] = rb.red[up], !.red[up] = FALSE, !.red[L("left", B)] = FALSE]
<1>1. rb \in RbTrees /\ fixing \in [at : {"idle", "insert", "delete", "undefined"}, node : Nodes]
  BY DEF RbTyped
<1>2. /\ node \in Nodes /\ up \in Nodes /\ B \in Nodes /\ o \in Sides
      /\ L("left", B) \in Nodes /\ L("right", B) \in Nodes
  <2>1. o \in Sides /\ "left" \in Sides /\ "right" \in Sides
    BY SidesAre
  <2>2. node \in Nodes
    BY <1>1
  <2>3. up \in Nodes
    BY <1>1, <2>2, RbFields DEF P
  <2>4. B \in Nodes
    BY <1>1, <2>1, <2>3, RbFields DEF L
  <2> HIDE DEF B, up, node, o
  <2>5. L("left", B) \in Nodes /\ L("right", B) \in Nodes
    BY <1>1, <2>1, <2>4, RbFields DEF L
  <2> QED
    BY <2>1, <2>2, <2>3, <2>4, <2>5
<1>3. /\ turns' = turns + 1 /\ made' = made
      /\ \/ rb' = Rotate(first, side, up) /\ fixing' = fixing /\ bent' = (bent \/ Bends(rb, side, up))
         \/ rb' = second /\ fixing' = [fixing EXCEPT !.node = up] /\ bent' = bent
         \/ rb' = rotateRight(third, B) /\ fixing' = fixing /\ bent' = TRUE
         \/ rb' = rotateLeft(third, B) /\ fixing' = fixing /\ bent' = (bent \/ Bends(rb, "left", B))
         \/ /\ rb' = rotateRight(fourth, up) /\ fixing' = [fixing EXCEPT !.node = rb'.root]
            /\ bent' = (bent \/ Bends(rb, "right", up))
         \/ rb' = rb /\ fixing' = fixing /\ bent' = bent
  BY DEF DeleteTurn
<1> HIDE DEF node, up, o, B
<1>4. first \in RbTrees
  BY <1>1, <1>2, SetReds
<1>5. second \in RbTrees
  BY <1>1, <1>2, SetRed
<1>6. third \in RbTrees
  BY <1>1, <1>2, SetReds
<1>7. fourth \in RbTrees
  <2> DEFINE a == [[rb EXCEPT !.red[B] = rb.red[up]] EXCEPT !.red[up] = FALSE]
             b == [a EXCEPT !.red[L("left", B)] = FALSE]
  <2>1. fourth = b
    OBVIOUS
  <2>2. rb.red[up] \in BOOLEAN
    BY <1>1, <1>2, RbFields
  <2>3. a \in RbTrees
    BY <1>1, <1>2, <2>2, SetReds
  <2> HIDE DEF a
  <2>4. b \in RbTrees
    BY <1>2, <2>3, SetRed
  <2> QED
    BY <2>1, <2>4
<1> HIDE DEF first, second, third, fourth
<1>8. rb' \in RbTrees
  <2>1. Rotate(first, side, up) \in RbTrees
    BY <1>2, <1>4, RotateTyped
  <2>2. rotateRight(fourth, up) \in RbTrees /\ rotateRight(third, B) \in RbTrees /\ rotateLeft(third, B) \in RbTrees
    BY <1>2, <1>6, <1>7, RotateTyped
  <2> QED
    BY <1>1, <1>3, <1>5, <2>1, <2>2
<1>9. fixing' \in [at : {"idle", "insert", "delete", "undefined"}, node : Nodes]
  <2>1. rb'.root \in Nodes
    BY <1>8, RbFields
  <2> QED
    BY <1>1, <1>2, <1>3, <2>1
<1>10. bent' \in BOOLEAN
  BY <1>3 DEF RbTyped, Bends
<1>11. turns' \in Nat /\ made' \in Nodes
  BY <1>3 DEF RbTyped
<1> QED
  BY <1>8, <1>9, <1>10, <1>11 DEF RbTyped

\* The trees that the third and the fourth case turn.
DeleteThird(t, B) == [[t EXCEPT !.red[B] = TRUE] EXCEPT !.red[t.link["right"][B]] = FALSE]
DeleteFourth(t, B, up) ==
  [t EXCEPT !.red[B] = t.red[up], !.red[up] = FALSE, !.red[t.link["left"][B]] = FALSE]

LEMMA DeleteThirdIs ==
  ASSUME NEW t \in RbTrees, NEW B \in Nodes, NEW R \in Nodes, R = t.link["right"][B], R # B
  PROVE  DeleteThird(t, B) \in RbTrees /\ Swapped(t, DeleteThird(t, B), R, B)
<1> DEFINE a == [t EXCEPT !.red[B] = TRUE]
           c == [a EXCEPT !.red[R] = FALSE]
<1>1. DeleteThird(t, B) = c
  BY DEF DeleteThird
<1>2. TRUE \in BOOLEAN /\ FALSE \in BOOLEAN
  OBVIOUS
<1>3. /\ a \in RbTrees /\ a.root = t.root /\ a.link = t.link /\ a.parent = t.parent /\ a.key = t.key
      /\ \A m \in Nodes : a.red[m] = IF m = B THEN TRUE ELSE t.red[m]
  BY <1>2, SetRed
<1> HIDE DEF a
<1>4. /\ c \in RbTrees /\ c.root = a.root /\ c.link = a.link /\ c.parent = a.parent /\ c.key = a.key
      /\ \A m \in Nodes : c.red[m] = IF m = R THEN FALSE ELSE a.red[m]
  BY <1>2, <1>3, SetRed
<1> HIDE DEF c
<1>5. \A m \in Nodes : c.red[m] = IF m = B THEN TRUE ELSE IF m = R THEN FALSE ELSE t.red[m]
  BY <1>3, <1>4
<1>6. Swapped(t, c, R, B)
  BY <1>3, <1>4, <1>5 DEF Swapped
<1> QED
  BY <1>1, <1>4, <1>6

LEMMA DeleteFourthIs ==
  ASSUME NEW t \in RbTrees, NEW B \in Nodes, NEW up \in Nodes, NEW C \in Nodes, C = t.link["left"][B]
  PROVE  DeleteFourth(t, B, up) \in RbTrees /\ Lifted(t, DeleteFourth(t, B, up), B, up, C)
<1> DEFINE a == [t EXCEPT !.red[B] = t.red[up]]
           b == [a EXCEPT !.red[up] = FALSE]
           c == [b EXCEPT !.red[C] = FALSE]
<1>1. DeleteFourth(t, B, up) = c
  BY DEF DeleteFourth
<1>2. FALSE \in BOOLEAN /\ t.red[up] \in BOOLEAN
  BY RbFields
<1>3. /\ a \in RbTrees /\ a.root = t.root /\ a.link = t.link /\ a.parent = t.parent /\ a.key = t.key
      /\ \A m \in Nodes : a.red[m] = IF m = B THEN t.red[up] ELSE t.red[m]
  BY <1>2, SetRed
<1> HIDE DEF a
<1>4. /\ b \in RbTrees /\ b.root = a.root /\ b.link = a.link /\ b.parent = a.parent /\ b.key = a.key
      /\ \A m \in Nodes : b.red[m] = IF m = up THEN FALSE ELSE a.red[m]
  BY <1>2, <1>3, SetRed
<1> HIDE DEF b
<1>5. /\ c \in RbTrees /\ c.root = b.root /\ c.link = b.link /\ c.parent = b.parent /\ c.key = b.key
      /\ \A m \in Nodes : c.red[m] = IF m = C THEN FALSE ELSE b.red[m]
  BY <1>2, <1>4, SetRed
<1> HIDE DEF c
<1>6. \A m \in Nodes : c.red[m] = IF m = C \/ m = up THEN FALSE ELSE IF m = B THEN t.red[up] ELSE t.red[m]
  BY <1>3, <1>4, <1>5
<1>7. Lifted(t, c, B, up, C)
  BY <1>3, <1>4, <1>5, <1>6 DEF Lifted
<1> QED
  BY <1>1, <1>5, <1>7

\* The turns of deleteFixUp that change the tree and bend nothing, for a tree
\* t that is the state's.
TurnKept(t, r, N, X, k) == r.key = t.key /\ ~r.red[nil] /\ DeleteKept(r, N, X, k)

LEMMA DeleteTurnShape ==
  ASSUME NEW t \in RbTrees, NEW N, NEW span, NEW h, NEW X, NEW k \in Nat, NEW up, NEW side \in Sides,
         AtBlack(t, N, span, h, X, k, side, up), ~t.red[X], NEW B, B = t.link[Other(side)][up], ~t.red[B]
  PROVE  /\ ~t.red[t.link["left"][B]] /\ ~t.red[t.link["right"][B]]
              => TurnKept(t, [t EXCEPT !.red[B] = TRUE], N, up, k + 1)
         /\ /\ side = "right" /\ ~t.red[t.link["left"][B]] /\ t.red[t.link["right"][B]] /\ ~Bends(t, "left", B)
              => TurnKept(t, rotateLeft(DeleteThird(t, B), B), N, X, k + 1)
         /\ side = "right" /\ t.red[t.link["left"][B]] /\ ~Bends(t, "right", up)
              => LET r == rotateRight(DeleteFourth(t, B, up), up)
                 IN  TurnKept(t, r, N, r.root, k + 1)
<1>1. RbGrown(t, N, span) /\ ~t.red[nil]
  BY DEF AtBlack
<1>2. /\ up \in N /\ B \in N /\ up # nil /\ B # nil /\ up \in Nodes /\ B \in Nodes /\ t.parent[B] = up
  BY BrothersAre DEF Brothers
<1>3. /\ "left" \in Sides /\ "right" \in Sides /\ Other("left") = "right" /\ Other("right") = "left"
      /\ \A s \in Sides : s = "left" \/ s = "right"
  BY SidesAre DEF Other
<1>4. nil \in Nodes /\ t.link["left"][B] \in Nodes /\ t.link["right"][B] \in Nodes
  BY <1>2, <1>3, RbFields
<1>5. ASSUME ~t.red[t.link["left"][B]], ~t.red[t.link["right"][B]]
      PROVE  TurnKept(t, [t EXCEPT !.red[B] = TRUE], N, up, k + 1)
  <2> DEFINE r == [t EXCEPT !.red[B] = TRUE]
  <2>1. /\ r \in RbTrees /\ r.root = t.root /\ r.link = t.link /\ r.parent = t.parent /\ r.key = t.key
        /\ \A m \in Nodes : r.red[m] = IF m = B THEN TRUE ELSE t.red[m]
    BY <1>2, SetRed
  <2> HIDE DEF r
  <2>2. Reddened(t, r, B)
    BY <2>1 DEF Reddened
  <2>3. \A s \in Sides : ~t.red[t.link[s][B]]
    BY <1>3, <1>5
  <2>4. DeleteKept(r, N, up, k + 1)
    BY <2>1, <2>2, <2>3, DeleteReddens
  <2>5. ~r.red[nil]
    BY <1>1, <1>2, <1>4, <2>1
  <2> QED
    BY <2>1, <2>4, <2>5 DEF r, TurnKept
<1>6. ASSUME side = "right", ~t.red[t.link["left"][B]], t.red[t.link["right"][B]], ~Bends(t, "left", B)
      PROVE  TurnKept(t, rotateLeft(DeleteThird(t, B), B), N, X, k + 1)
  <2> DEFINE c == DeleteThird(t, B)
             r == rotateLeft(c, B)
             R == t.link["right"][B]
  <2>1. R # nil /\ R \in Nodes
    BY <1>1, <1>4, <1>6
  <2>2. t.link["left"][R] = nil
    BY <1>2, <1>3, <1>6, <2>1 DEF Bends
  <2>3. R # B
    BY <1>1, <1>2, <1>3, <2>1, GrownChild
  <2> HIDE DEF R
  <2>4. c \in RbTrees /\ Swapped(t, c, R, B)
    BY <1>2, <2>1, <2>3, DeleteThirdIs DEF R
  <2> HIDE DEF c
  <2>5. c.root = t.root /\ c.link = t.link /\ c.parent = t.parent /\ c.key = t.key
    BY <2>4 DEF Swapped
  <2>6. RbGrown(c, N, span)
    BY <1>1, <2>4, <2>5, Recoloured
  <2>7. R = c.link["right"][B] /\ c.link["left"][R] = nil
    BY <2>2, <2>5 DEF R
  <2>8. Rotate(c, "left", B) \in RbTrees /\ Rotated(c, Rotate(c, "left", B), "left", B, R)
    BY <1>2, <1>3, <2>1, <2>4, <2>6, <2>7, RotateTurns
  <2>9. r = Rotate(c, "left", B)
    BY DEF Rotate
  <2> HIDE DEF r
  <2>10. r \in RbTrees /\ Rotated(c, r, "left", B, R)
    BY <2>8, <2>9
  <2>11. B = t.link["left"][up] /\ AtBlack(t, N, span, h, X, k, "right", up)
    BY <1>3, <1>6
  <2>12. R = t.link["right"][B] /\ t.red[R]
    BY <1>6 DEF R
  <2>13. DeleteKept(r, N, X, k + 1) /\ r.key = t.key /\ ~r.red[nil]
    BY <1>6, <2>2, <2>4, <2>10, <2>11, <2>12, DeleteTwists
  <2> QED
    BY <2>13 DEF r, c, TurnKept
<1>7. ASSUME side = "right", t.red[t.link["left"][B]], ~Bends(t, "right", up)
      PROVE  LET r == rotateRight(DeleteFourth(t, B, up), up)
             IN  TurnKept(t, r, N, r.root, k + 1)
  <2> DEFINE c == DeleteFourth(t, B, up)
             r == rotateRight(c, up)
             C == t.link["left"][B]
  <2>1. C \in Nodes
    BY <1>4
  <2>2. B = t.link["left"][up] /\ AtBlack(t, N, span, h, X, k, "right", up)
    BY <1>3, <1>7
  <2>3. t.link["right"][B] = nil
    BY <1>2, <1>3, <1>7, <2>2 DEF Bends
  <2> HIDE DEF C
  <2>4. c \in RbTrees /\ Lifted(t, c, B, up, C)
    BY <1>2, <2>1, DeleteFourthIs DEF C
  <2> HIDE DEF c
  <2>5. c.root = t.root /\ c.link = t.link /\ c.parent = t.parent /\ c.key = t.key
    BY <2>4 DEF Lifted
  <2>6. RbGrown(c, N, span)
    BY <1>1, <2>4, <2>5, Recoloured
  <2>7. B = c.link["left"][up] /\ c.link["right"][B] = nil
    BY <2>2, <2>3, <2>5
  <2>8. Rotate(c, "right", up) \in RbTrees /\ Rotated(c, Rotate(c, "right", up), "right", up, B)
    BY <1>2, <1>3, <2>4, <2>6, <2>7, RotateTurns
  <2>9. r = Rotate(c, "right", up)
    BY DEF Rotate
  <2> HIDE DEF r
  <2>10. r \in RbTrees /\ Rotated(c, r, "right", up, B)
    BY <2>8, <2>9
  <2>11. C = t.link["left"][B] /\ t.red[C]
    BY <1>7 DEF C
  <2>12. DeleteKept(r, N, r.root, k + 1) /\ r.key = t.key /\ ~r.red[nil]
    BY <2>2, <2>3, <2>4, <2>10, <2>11, DeleteLifts
  <2> QED
    BY <2>12 DEF r, c, TurnKept
<1> QED
  BY <1>5, <1>6, <1>7

\* A turn of deleteFixUp that bends nothing is the second case, or the third or
\* the fourth on the right, or nothing.
LEMMA DeleteTurnKeeps ==
  ASSUME RbTyped, NEW N, RbShape(N), NEW side \in Sides, DeleteTurn(side), ~bent'
  PROVE  Stuck' \/ RbShape(N)'
<1>1. PICK t, X, k : t = rb /\ X = fixing.node /\ k = turns
  OBVIOUS
<1>2. t \in RbTrees /\ k \in Nat /\ fixing \in [at : {"idle", "insert", "delete", "undefined"}, node : Nodes]
  BY <1>1 DEF RbTyped
<1> DEFINE up == t.parent[X]
           B == t.link[Other(side)][up]
           redLeft == t.red[t.link["left"][B]]
           redRight == t.red[t.link["right"][B]]
<1>3. /\ fixing.at = "delete" /\ X # t.root /\ ~t.red[X] /\ (side = "left") = (X = t.link["left"][up])
  BY <1>1 DEF DeleteTurn, Turn, P, L
<1>4. /\ turns' = k + 1 /\ made' = made /\ inTree' = inTree
      /\ \/ t.red[B] /\ ~Bends(t, side, up)
         \/ /\ ~t.red[B] /\ ~redLeft /\ ~redRight
            /\ rb' = [t EXCEPT !.red[B] = TRUE] /\ fixing' = [fixing EXCEPT !.node = up]
         \/ /\ ~t.red[B] /\ side = "right" /\ ~redLeft /\ redRight
            /\ rb' = rotateLeft(DeleteThird(t, B), B) /\ fixing' = fixing /\ ~Bends(t, "left", B)
         \/ /\ ~t.red[B] /\ side = "right" /\ redLeft
            /\ rb' = rotateRight(DeleteFourth(t, B, up), up) /\ fixing' = [fixing EXCEPT !.node = rb'.root]
            /\ ~Bends(t, "right", up)
         \/ ~t.red[B] /\ side = "right" /\ redLeft /\ redRight /\ rb' = rb /\ fixing' = fixing
  BY <1>1 DEF DeleteTurn, DeleteThird, DeleteFourth, P, L
<1>5. N \subseteq 1 .. made /\ inTree = {t.key[n] : n \in N} /\ ~t.red[nil] /\ DeleteKept(t, N, X, k)
  BY <1>1, <1>3 DEF RbShape, RbStands
<1>6. PICK span, h : RbGrown(t, N, span) /\ Deleting(t, N, span, h, X, k)
  BY <1>5 DEF DeleteKept
<1>7. t.link[side][up] = X
  <2>1. \E s \in Sides : t.link[s][up] = X
    BY <1>3, <1>6 DEF Deleting
  <2>2. PICK s \in Sides : t.link[s][up] = X
    BY <2>1
  <2> QED
    BY <1>3, <2>2, SidesAre
<1>8. AtBlack(t, N, span, h, X, k, side, up)
  BY <1>3, <1>5, <1>6, <1>7 DEF AtBlack
<1> HIDE DEF up
<1>9. ~(t.red[B] /\ ~Bends(t, side, up))
  <2> SUFFICES ASSUME t.red[B], ~Bends(t, side, up) PROVE FALSE
    OBVIOUS
  <2>1. up # nil /\ B # nil /\ t.link[side][B] # nil
    BY <1>2, <1>8, RedBrother
  <2> QED
    BY <2>1 DEF Bends
<1>10. ASSUME ~t.red[B]
       PROVE  /\ ~redLeft /\ ~redRight => TurnKept(t, [t EXCEPT !.red[B] = TRUE], N, up, k + 1)
              /\ side = "right" /\ ~redLeft /\ redRight /\ ~Bends(t, "left", B)
                   => TurnKept(t, rotateLeft(DeleteThird(t, B), B), N, X, k + 1)
              /\ side = "right" /\ redLeft /\ ~Bends(t, "right", up)
                   => LET r == rotateRight(DeleteFourth(t, B, up), up)
                      IN  TurnKept(t, r, N, r.root, k + 1)
  <2>1. PICK b : b = B
    OBVIOUS
  <2>2. /\ ~t.red[t.link["left"][b]] /\ ~t.red[t.link["right"][b]]
              => TurnKept(t, [t EXCEPT !.red[b] = TRUE], N, up, k + 1)
        /\ /\ side = "right" /\ ~t.red[t.link["left"][b]] /\ t.red[t.link["right"][b]] /\ ~Bends(t, "left", b)
              => TurnKept(t, rotateLeft(DeleteThird(t, b), b), N, X, k + 1)
        /\ side = "right" /\ t.red[t.link["left"][b]] /\ ~Bends(t, "right", up)
              => LET r == rotateRight(DeleteFourth(t, b, up), up)
                 IN  TurnKept(t, r, N, r.root, k + 1)
    <3>1. b = t.link[Other(side)][up] /\ ~t.red[b]
      BY <1>10, <2>1
    <3> QED
      BY <1>2, <1>3, <1>8, <3>1, DeleteTurnShape
  <2> QED
    BY <2>1, <2>2
<1> HIDE DEF B, redLeft, redRight
<1>11. ASSUME ~t.red[B], side = "right", redLeft, redRight, rb' = rb, fixing' = fixing
       PROVE  Stuck'
  <2>1. B = t.link["left"][up] /\ X = t.link["right"][up]
    BY <1>7, <1>11 DEF B, Other
  <2>2. Stuck
    BY <1>1, <1>3, <1>11, <2>1 DEF Stuck, P, L, up, redLeft, redRight
  <2> QED
    BY <1>11, <2>2 DEF Stuck, P, L
<1>12. ASSUME fixing'.at = "delete", TurnKept(t, rb', N, fixing'.node, k + 1)
       PROVE  RbShape(N)'
  <2>1. RbStands(rb', N, fixing', turns')
    BY <1>4, <1>12 DEF RbStands, TurnKept
  <2>2. made' = made /\ inTree' = inTree
    BY <1>4
  <2> QED
    BY <1>5, <1>12, <2>1, <2>2 DEF RbShape, TurnKept
<1>13. CASE /\ ~t.red[B] /\ ~redLeft /\ ~redRight
            /\ rb' = [t EXCEPT !.red[B] = TRUE] /\ fixing' = [fixing EXCEPT !.node = up]
  <2>1. fixing'.at = "delete" /\ fixing'.node = up
    BY <1>2, <1>3, <1>13
  <2>2. TurnKept(t, rb', N, up, k + 1)
    BY <1>10, <1>13
  <2> QED
    BY <1>12, <2>1, <2>2
<1>14. CASE /\ ~t.red[B] /\ side = "right" /\ ~redLeft /\ redRight
            /\ rb' = rotateLeft(DeleteThird(t, B), B) /\ fixing' = fixing /\ ~Bends(t, "left", B)
  <2>1. fixing'.at = "delete" /\ fixing'.node = X
    BY <1>1, <1>3, <1>14
  <2>2. TurnKept(t, rb', N, X, k + 1)
    BY <1>10, <1>14
  <2> QED
    BY <1>12, <2>1, <2>2
<1>15. CASE /\ ~t.red[B] /\ side = "right" /\ redLeft
            /\ rb' = rotateRight(DeleteFourth(t, B, up), up) /\ fixing' = [fixing EXCEPT !.node = rb'.root]
            /\ ~Bends(t, "right", up)
  <2>1. fixing'.at = "delete" /\ fixing'.node = rb'.root
    BY <1>2, <1>3, <1>15
  <2>2. TurnKept(t, rb', N, rb'.root, k + 1)
    BY <1>10, <1>15
  <2> QED
    BY <1>12, <2>1, <2>2
<1> QED
  BY <1>4, <1>9, <1>11, <1>13, <1>14, <1>15

\* Nothing happens any more when it does nothing.
LEMMA StuckStays ==
  ASSUME RbTyped, Stuck, RbNext
  PROVE  RbTyped' /\ (bent' \/ Stuck')
<1>1. /\ fixing.at = "delete" /\ fixing.node # rb.root /\ ~rb.red[fixing.node]
      /\ fixing.node = L("right", P(fixing.node))
      /\ ~rb.red[L("left", P(fixing.node))]
      /\ rb.red[L("left", L("left", P(fixing.node)))] /\ rb.red[L("right", L("left", P(fixing.node)))]
  BY DEF Stuck
<1>2. PICK side \in Sides : DeleteTurn(side)
  <2>1. \A key \in Keys : ~insertNode(key) /\ ~deleteNode(key) /\ ~deleteUndefined(key)
    BY <1>1 DEF insertNode, deleteNode, deleteUndefined, Calls
  <2>2. ~InsertEnds /\ ~DeleteEnds
    BY <1>1 DEF InsertEnds, DeleteEnds
  <2>3. \A s \in Sides : ~InsertTurn(s)
    BY <1>1 DEF InsertTurn, Turn
  <2> QED
    BY <2>1, <2>2, <2>3 DEF RbNext
<1>3. RbTyped'
  BY <1>2, DeleteTurnTyped
<1>4. CASE side = "left"
  <2>1. fixing.node = L("left", P(fixing.node))
    BY <1>2, <1>4 DEF DeleteTurn
  <2>2. L("right", P(fixing.node)) = L("left", P(fixing.node))
    BY <1>1, <2>1
  <2>3. bent'
    BY <1>1, <1>2, <1>4, <2>2 DEF DeleteTurn, Other
  <2> QED
    BY <1>3, <2>3
<1>5. CASE side = "right"
  <2>1. rb' = rb /\ fixing' = fixing
    BY <1>1, <1>2, <1>5 DEF DeleteTurn, Other
  <2>2. Stuck'
    BY <2>1 DEF Stuck, P, L
  <2> QED
    BY <1>3, <2>2
<1> QED
  BY <1>4, <1>5, SidesAre

\* The end of deleteFixUp.
LEMMA DeleteEndsKeeps ==
  ASSUME RbTyped, DeleteEnds
  PROVE  RbTyped' /\ \A N : RbShape(N) /\ ~bent => RbShape(N)'
<1>1. PICK t, X, k : t = rb /\ X = fixing.node /\ k = turns
  OBVIOUS
<1>2. t \in RbTrees /\ X \in Nodes /\ t.root \in Nodes /\ nil \in Nodes
  BY <1>1, RbFields DEF RbTyped
<1>3. /\ fixing.at = "delete" /\ (X = t.root \/ t.red[X])
      /\ rb' = [t EXCEPT !.parent[nil] = t.root, !.red[X] = FALSE]
      /\ fixing' = Idle /\ made' = made /\ turns' = k /\ bent' = bent /\ inTree' = inTree
  BY <1>1 DEF DeleteEnds
<1>4. PICK r : r = rb'
  OBVIOUS
<1>5. /\ r \in RbTrees /\ r.root = t.root /\ r.link = t.link /\ r.key = t.key
      /\ \A m \in Nodes : m # nil => r.parent[m] = t.parent[m]
      /\ \A m \in Nodes : r.red[m] = IF m = X THEN FALSE ELSE t.red[m]
  <2> DEFINE a == [t EXCEPT !.parent[nil] = t.root]
             b == [a EXCEPT !.red[X] = FALSE]
  <2>1. r = b
    BY <1>3, <1>4
  <2>2. /\ a \in RbTrees /\ a.root = t.root /\ a.link = t.link /\ a.red = t.red /\ a.key = t.key
        /\ \A m \in Nodes : m # nil => a.parent[m] = t.parent[m]
    BY <1>2, SetParent
  <2> HIDE DEF a
  <2>3. /\ b \in RbTrees /\ b.root = a.root /\ b.link = a.link /\ b.parent = a.parent /\ b.key = a.key
        /\ \A m \in Nodes : b.red[m] = IF m = X THEN FALSE ELSE a.red[m]
    BY <1>2, <2>2, SetRed
  <2> HIDE DEF b
  <2> QED
    BY <2>1, <2>2, <2>3
<1>6. RbTyped'
  <2>1. fixing' \in [at : {"idle", "insert", "delete", "undefined"}, node : Nodes]
    BY <1>2, <1>3 DEF Idle
  <2> QED
    BY <1>1, <1>3, <1>4, <1>5, <2>1 DEF RbTyped
<1>7. ASSUME NEW N, RbShape(N) PROVE RbShape(N)'
  <2>1. N \subseteq 1 .. made /\ inTree = {t.key[n] : n \in N} /\ ~t.red[nil] /\ DeleteKept(t, N, X, k)
    BY <1>1, <1>3, <1>7 DEF RbShape, RbStands
  <2>2. PICK span, h : RbGrown(t, N, span) /\ Deleting(t, N, span, h, X, k) /\ k < MaxTurns
    BY <2>1 DEF DeleteKept
  <2>3. \A n \in N : r.parent[n] = t.parent[n]
    <3>1. ASSUME NEW n \in N PROVE n \in Nodes /\ n # nil
      BY <1>2, <2>2, GrownNode
    <3> QED
      BY <1>5, <3>1
  <2>4. Settled(r, N)
    <3>1. Blackened(t, r, N, X) /\ r \in RbTrees
      BY <1>5, <2>3 DEF Blackened
    <3> QED
      BY <1>2, <1>3, <2>1, <2>2, <3>1, DeleteSettles
  <2>5. ~r.red[nil]
    BY <1>2, <1>5, <2>1
  <2>6. RbStands(rb', N, fixing', turns')
    BY <1>3, <1>4, <2>2, <2>4 DEF RbStands, Idle
  <2> QED
    BY <1>3, <1>4, <1>5, <2>1, <2>5, <2>6 DEF RbShape
<1> QED
  BY <1>6, <1>7

-----------------------------------------------------------------------------
LEMMA RbInvNext == RbInv /\ [RbNext]_rbVars => RbInv'
<1> SUFFICES ASSUME RbInv, [RbNext]_rbVars PROVE RbInv'
  OBVIOUS
<1>10. CASE Stuck
  <2>1. CASE RbNext
    BY <1>10, <2>1, StuckStays DEF RbInv
  <2>2. CASE UNCHANGED rbVars
    <3>1. rb' = rb /\ made' = made /\ fixing' = fixing /\ turns' = turns /\ bent' = bent /\ inTree' = inTree
      BY <2>2 DEF rbVars
    <3>2. RbTyped'
      BY <3>1 DEF RbInv, RbTyped
    <3>3. Stuck'
      BY <1>10, <3>1 DEF Stuck, P, L
    <3> QED
      BY <3>2, <3>3 DEF RbInv
  <2> QED
    BY <2>1, <2>2
<1>11. SUFFICES ASSUME ~Stuck PROVE RbInv'
  BY <1>10
<1>1. RbTyped /\ (~bent => \E N : RbShape(N))
  BY <1>11 DEF RbInv
<1>2. ASSUME NEW key \in Keys, insertNode(key) PROVE RbInv'
  <2>1. ~bent
    BY <1>2 DEF insertNode, Calls
  <2>2. PICK N : RbShape(N)
    BY <1>1, <2>1
  <2> QED
    BY <1>1, <1>2, <2>2, InsertNodeKeeps DEF RbInv
<1>3. ASSUME NEW key \in Keys, deleteNode(key) PROVE RbInv'
  <2>1. ~bent
    BY <1>3 DEF deleteNode, Calls
  <2>2. PICK N : RbShape(N)
    BY <1>1, <2>1
  <2> QED
    BY <1>1, <1>3, <2>2, DeleteNodeKeeps DEF RbInv
<1>4. ASSUME NEW key \in Keys, deleteUndefined(key) PROVE RbInv'
  <2>1. ~bent
    BY <1>4 DEF deleteUndefined, Calls
  <2>2. PICK N : RbShape(N)
    BY <1>1, <2>1
  <2> QED
    BY <1>1, <1>4, <2>2, DeleteUndefinedKeeps DEF RbInv
<1>5. ASSUME NEW side \in Sides, InsertTurn(side) PROVE RbInv'
  <2>1. RbTyped'
    BY <1>1, <1>5, InsertTurnTyped
  <2>2. ASSUME ~bent' PROVE \E N : RbShape(N)'
    <3>1. ~bent
      BY <1>5, <2>2 DEF InsertTurn
    <3>2. PICK N : RbShape(N)
      BY <1>1, <3>1
    <3> QED
      BY <1>1, <1>5, <2>2, <3>2, InsertTurnKeeps
  <2> QED
    BY <2>1, <2>2 DEF RbInv
<1>6. ASSUME NEW side \in Sides, DeleteTurn(side) PROVE RbInv'
  <2>1. RbTyped'
    BY <1>1, <1>6, DeleteTurnTyped
  <2>2. ASSUME ~bent' PROVE Stuck' \/ \E N : RbShape(N)'
    <3>1. ~bent
      BY <1>6, <2>2 DEF DeleteTurn
    <3>2. PICK N : RbShape(N)
      BY <1>1, <3>1
    <3> QED
      BY <1>1, <1>6, <2>2, <3>2, DeleteTurnKeeps
  <2> QED
    BY <2>1, <2>2 DEF RbInv
<1>7. ASSUME InsertEnds PROVE RbInv'
  <2>1. bent' = bent
    BY <1>7 DEF InsertEnds
  <2> QED
    BY <1>1, <1>7, <2>1, InsertEndsKeeps DEF RbInv
<1>8. ASSUME DeleteEnds PROVE RbInv'
  <2>1. bent' = bent
    BY <1>8 DEF DeleteEnds
  <2> QED
    BY <1>1, <1>8, <2>1, DeleteEndsKeeps DEF RbInv
<1>9. ASSUME UNCHANGED rbVars PROVE RbInv'
  <2>1. rb' = rb /\ made' = made /\ fixing' = fixing /\ turns' = turns /\ bent' = bent /\ inTree' = inTree
    BY <1>9 DEF rbVars
  <2>2. RbTyped'
    BY <1>1, <2>1 DEF RbTyped
  <2>3. ASSUME NEW N, RbShape(N) PROVE RbShape(N)'
    BY <2>1, <2>3 DEF RbShape
  <2> QED
    BY <1>1, <2>1, <2>2, <2>3 DEF RbInv
<1> QED
  BY <1>2, <1>3, <1>4, <1>5, <1>6, <1>7, <1>8, <1>9 DEF RbNext

\* A tree that a call has left: what TreesStayOrdered says of it.
LEMMA SettledIs ==
  ASSUME rb \in RbTrees, NEW N, Settled(rb, N), inTree = {rb.key[n] : n \in N}, ~rb.red[nil]
  PROVE  RedBlack /\ Searchable
<1>1. PICK span, h : RbGrown(rb, N, span) /\ Heights(rb, N, h) /\ Calm(rb, N)
  BY DEF Settled
<1>2. Reached = N
  BY <1>1, ReachedIs
<1>3. Blacks(rb.root) \subseteq {h[rb.root]}
  BY <1>1, BlacksAre
<1>4. \A n \in N : rb.red[n] => ~rb.red[L("left", n)] /\ ~rb.red[L("right", n)]
  BY <1>1, SidesAre DEF Calm, L
<1>5. RedBlack
  BY <1>1, <1>2, <1>3, <1>4 DEF RedBlack, Calm
<1>6. ASSUME NEW n \in N PROVE searchNode(rb.key[n]) = n
  <2>1. rb.key[n] \in Nat
    BY <1>1, GrownNode
  <2> QED
    BY <1>1, <2>1, SearchNodeIs
<1>7. ASSUME NEW n \in N, NEW s \in Sides, L(s, n) # nil PROVE P(L(s, n)) = n
  BY <1>1, <1>7, GrownChild DEF L, P
<1>8. Searchable
  BY <1>2, <1>6, <1>7 DEF Searchable
<1> QED
  BY <1>5, <1>8

LEMMA RbInvKeeps == RbInv => TreesStayOrdered
<1> SUFFICES ASSUME RbInv PROVE TreesStayOrdered
  OBVIOUS
<1>1. RbTyped
  BY DEF RbInv
<1>2. RbTypeOK
  <2>1. /\ rb.root \in Nodes /\ made \in Nodes
        /\ fixing.at \in {"idle", "insert", "delete", "undefined"} /\ fixing.node \in Nodes
    BY <1>1, RbFields DEF RbTyped
  <2>2. \A n \in Nodes : P(n) \in Nodes /\ L("left", n) \in Nodes /\ L("right", n) \in Nodes
    BY <1>1, RbFields, SidesAre DEF RbTyped, P, L
  <2> QED
    BY <2>1, <2>2 DEF RbTypeOK
<1>3. ASSUME ~bent
      PROVE  (fixing.at = "idle" => RedBlack /\ Searchable) /\ (turns < MaxTurns \/ Stuck)
  <2>0. CASE Stuck
    BY <2>0 DEF Stuck
  <2>4. SUFFICES ASSUME ~Stuck
                 PROVE  (fixing.at = "idle" => RedBlack /\ Searchable) /\ (turns < MaxTurns \/ Stuck)
    BY <2>0
  <2>1. PICK N : RbShape(N)
    BY <1>3, <2>4 DEF RbInv
  <2>2. turns < MaxTurns
    BY <2>1 DEF RbShape, RbStands, InsertKept, DeleteKept
  <2>3. ASSUME fixing.at = "idle" PROVE RedBlack /\ Searchable
    <3>1. Settled(rb, N) /\ inTree = {rb.key[n] : n \in N} /\ ~rb.red[nil]
      BY <2>1, <2>3 DEF RbShape, RbStands
    <3> QED
      BY <1>1, <3>1, SettledIs DEF RbTyped
  <2> QED
    BY <2>2, <2>3
<1> QED
  BY <1>2, <1>3 DEF TreesStayOrdered

\* rb-tree.cpp: as long as no rotation has had to move a subtree and no
\* deletion has come to the branch of line 339, every insertion and deletion
\* leaves a red-black tree in which every key is found and every node knows
\* its parent; and the loops end, but for that of deleteFixUp at a node to the
\* right whose black brother has two red children, which turns for ever.
THEOREM TreesStayRedBlack == RbSpec => []TreesStayOrdered
<1>1. RbInit => RbInv
  BY RbInvInit
<1>2. RbInv /\ [RbNext]_rbVars => RbInv'
  BY RbInvNext
<1>3. RbInv => TreesStayOrdered
  BY RbInvKeeps
<1> QED
  BY <1>1, <1>2, <1>3, PTL DEF RbSpec
=============================================================================
