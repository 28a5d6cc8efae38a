------------------------------ MODULE SearchTree ------------------------------
(***************************************************************************)
(* data_structure/binary_search_tree.cpp.  The nodes are objects with left,*)
(* right, parent and key; null is NULL.  A key that is there already ends  *)
(* in a null link below an equal node, where insert stores the new node    *)
(* without a parent; deleteNode takes a node without parent for the root,  *)
(* and the tree is lost.  What happens after that is not modelled, nor the *)
(* deletion of a key that is not there, which follows a null pointer.      *)
(***************************************************************************)
EXTENDS Naturals, FiniteSets

CONSTANTS
  BstKeys,   \* a set of numbers
  BstNodes   \* bound: how many nodes are made

ASSUME BstAssumption == BstKeys \subseteq Nat /\ BstNodes \in Nat

VARIABLES
  bst,       \* the tree: root, link, parent, key
  bstMade,   \* nodes made so far (they are never freed)
  held,      \* history: held[k]: how often key k was inserted and not deleted
  doubled,   \* history: a key was inserted that was there
  astray     \* history: a node without parent, not the root, was unlinked

bstVars == <<bst, bstMade, held, doubled, astray>>

null == 0
BstIds == 1 .. BstNodes

BstTypeOK ==
  /\ bst.root \in 0 .. BstNodes /\ bstMade \in 0 .. BstNodes
  /\ \A s \in {"left", "right"} : bst.link[s] \in [BstIds -> 0 .. BstNodes]
  /\ bst.parent \in [BstIds -> 0 .. BstNodes]
  /\ bst.key \in [BstIds -> BstKeys \cup {0}]

BstInit ==
  /\ bst = [root |-> null, link |-> [s \in {"left", "right"} |-> [n \in BstIds |-> null]],
            parent |-> [n \in BstIds |-> null], key |-> [n \in BstIds |-> 0]]
  /\ bstMade = 0
  /\ held = [k \in BstKeys |-> 0]
  /\ doubled = FALSE
  /\ astray = FALSE

-----------------------------------------------------------------------------
Link(s, n) == bst.link[s][n]

\* Where a recursion from node n gets to: step[m] is where it goes from m,
\* itself or null at the end.
Descend(n, step) ==
  LET at[k \in Nat] == IF k = 0 THEN n
                       ELSE IF at[k - 1] = null THEN null ELSE step[at[k - 1]]
  IN  at[BstNodes]

bstSearch(n, key) ==
  Descend(n, [m \in BstIds |-> IF key > bst.key[m] THEN Link("right", m)
                               ELSE IF key < bst.key[m] THEN Link("left", m) ELSE m])

searchMin(n) == Descend(n, [m \in BstIds |-> IF Link("left", m) = null THEN m ELSE Link("left", m)])
searchMax(n) == Descend(n, [m \in BstIds |-> IF Link("right", m) = null THEN m ELSE Link("right", m)])

\* The node that insert hangs a key below, and on which side.
Side(n, key) == IF bst.key[n] > key THEN "left" ELSE "right"
Above(key) ==
  Descend(bst.root, [m \in BstIds |->
    IF Link(Side(m, key), m) = null THEN m ELSE Link(Side(m, key), m)])

insertKey(key) ==
  /\ ~astray /\ bstMade < BstNodes
  /\ LET p == bstMade + 1
         up == Above(key)
     IN  /\ bstMade' = p
         /\ bst' = IF bst.root = null
                   THEN [bst EXCEPT !.root = p, !.key[p] = key]
                   ELSE [bst EXCEPT !.key[p] = key, !.link[Side(up, key)][up] = p,
                           !.parent[p] = IF bst.key[up] # key THEN up ELSE null]
  /\ held' = [held EXCEPT ![key] = @ + 1]
  /\ doubled' = (doubled \/ held[key] > 0)
  /\ UNCHANGED astray

\* treeSuccessor of a node with a right child.
treeSuccessor(n) == searchMin(Link("right", n))

\* The node with the key, or its successor, is unlinked; the latter leaves its
\* key in the former.
deleteKey(key) ==
  LET Z == bstSearch(bst.root, key)
      Y == IF Link("left", Z) = null \/ Link("right", Z) = null THEN Z ELSE treeSuccessor(Z)
      X == IF Link("left", Y) # null THEN Link("left", Y) ELSE Link("right", Y)
      above == bst.parent[Y]
      side == IF Link("left", above) = Y THEN "left" ELSE "right"
      t == IF X = null THEN bst ELSE [bst EXCEPT !.parent[X] = above]
      u == IF above = null THEN [t EXCEPT !.root = X] ELSE [t EXCEPT !.link[side][above] = X]
  IN  /\ ~astray /\ Z # null
      /\ bst' = [u EXCEPT !.key[Z] = bst.key[Y]]
      /\ held' = [held EXCEPT ![key] = @ - 1]
      /\ astray' = (above = null /\ Y # bst.root)
      /\ UNCHANGED <<bstMade, doubled>>

BstNext == \E key \in BstKeys : insertKey(key) \/ deleteKey(key)

BstSpec == BstInit /\ [][BstNext]_bstVars

-----------------------------------------------------------------------------
(***************************************************************************)
(* Properties.                                                             *)
(***************************************************************************)

\* The nodes of the tree below node n, itself included.
Under ==
  LET under[k \in Nat] ==
        [n \in 0 .. BstNodes |->
           IF n = null \/ k = 0 THEN {}
           ELSE {n} \cup under[k - 1][Link("left", n)] \cup under[k - 1][Link("right", n)]]
  IN  under[BstNodes]

\* The tree holds every key as often as it was inserted and not deleted, in an
\* order in which search finds it, and goes astray only after a key has been
\* inserted twice (line 45): until then every node knows its parent.
SearchTreeHolds ==
  LET tree == Under[bst.root]
  IN  /\ BstTypeOK
      /\ astray => doubled
      /\ ~astray =>
           /\ \A k \in BstKeys :
                /\ Cardinality({n \in tree : bst.key[n] = k}) = held[k]
                /\ bstSearch(bst.root, k) # null <=> held[k] > 0
           /\ \A n \in tree :
                /\ \A m \in Under[Link("left", n)] : bst.key[m] < bst.key[n]
                /\ \A m \in Under[Link("right", n)] : bst.key[m] >= bst.key[n]
                /\ bst.key[searchMin(bst.root)] <= bst.key[n]
                /\ bst.key[searchMax(bst.root)] >= bst.key[n]
           /\ \A n \in tree, s \in {"left", "right"} :
                Link(s, n) # null => bst.parent[Link(s, n)] \in (IF doubled THEN {n, null} ELSE {n})
=============================================================================
