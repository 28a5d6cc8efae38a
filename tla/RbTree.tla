------------------------------- MODULE RbTree -------------------------------
(***************************************************************************)
(* data_structure/rb-tree.cpp: insertion and deletion, with the nodes as   *)
(* objects: rb.link[side][n], rb.parent[n], rb.red[n] and rb.key[n], where *)
(* m_nullNode is the node 0 and, as in the program, is written to.         *)
(*                                                                         *)
(* Each turn of a loop of the two fix-ups is a step.  insertNode ends      *)
(* without a return statement; the result, which nobody uses, is left out. *)
(* treeSuccessor ends so for the node that deleteNode asks it for: what    *)
(* comes after that is not defined, and the model ends.                    *)
(***************************************************************************)
EXTENDS Naturals, FiniteSets

CONSTANTS
  Keys,         \* a set of numbers
  MaxNodes,     \* bound: nodes made
  MaxDeletions, \* bound: nodes deleted
  MaxTurns      \* bound: turns of a loop that does not end

ASSUME RbAssumption ==
  /\ Keys \subseteq Nat
  /\ MaxNodes \in Nat /\ MaxDeletions \in Nat /\ MaxTurns \in Nat /\ MaxTurns > MaxNodes

VARIABLES
  rb,      \* the tree
  made,    \* nodes made so far
  fixing,  \* [at, node]: the loop that runs, "idle", or "undefined"
  turns,   \* turns of that loop
  bent,    \* history: see Bends, and line 339 was reached
  inTree   \* history: the keys inserted and not deleted

rbVars == <<rb, made, fixing, turns, bent, inTree>>

nil == 0
Nodes == 0 .. MaxNodes
Sides == {"left", "right"}
Other(side) == IF side = "left" THEN "right" ELSE "left"

RbInit ==
  /\ rb = [root |-> nil, link |-> [s \in Sides |-> [n \in Nodes |-> nil]],
           parent |-> [n \in Nodes |-> nil], red |-> [n \in Nodes |-> FALSE],
           key |-> [n \in Nodes |-> 0]]
  /\ made = 0 /\ fixing = [at |-> "idle", node |-> nil] /\ turns = 0
  /\ bent = FALSE /\ inTree = {}

Idle == [at |-> "idle", node |-> nil]
P(n) == rb.parent[n]
L(side, n) == rb.link[side][n]

RbTypeOK ==
  /\ rb.root \in Nodes /\ made \in Nodes
  /\ fixing.at \in {"idle", "insert", "delete", "undefined"} /\ fixing.node \in Nodes
  /\ \A n \in Nodes : P(n) \in Nodes /\ L("left", n) \in Nodes /\ L("right", n) \in Nodes

\* The node the loop of searchNode stops at, nil if the key is not there.
Below(n, key) == IF key < rb.key[n] THEN L("left", n) ELSE L("right", n)
Descent(key) ==
  LET path[k \in Nat] ==
        IF k = 0 THEN rb.root
        ELSE LET n == path[k - 1]
             IN  IF n = nil \/ rb.key[n] = key THEN n ELSE Below(n, key)
  IN  path
searchNode(key) == Descent(key)[MaxNodes + 1]

\* Its last node before nil: where insertNode hangs a new key.
Hang(key) == LET path == Descent(key)
             IN  IF rb.root = nil THEN nil
                 ELSE path[CHOOSE k \in 0 .. MaxNodes : path[k] # nil /\ path[k + 1] = nil]

\* The child of Z's parent that Z is becomes n.
Replace(t, Z, n) ==
  IF t.parent[Z] = nil
  THEN [t EXCEPT !.root = n, !.link["left"][nil] = n, !.link["right"][nil] = n]
  ELSE [t EXCEPT !.link[IF t.link["left"][t.parent[Z]] = Z THEN "left" ELSE "right"][t.parent[Z]] = n]

\* rotateLeft and rotateRight.  The parent that is set to node is that of the
\* child that comes up, not that of the subtree that changes sides.
rotate(t, side, node) ==
  LET up == t.link[Other(side)][node]
      inner == t.link[side][up]
      t1 == [t EXCEPT !.parent[up] = t.parent[node], !.link[Other(side)][node] = inner]
      t2 == IF inner = nil THEN t1 ELSE [t1 EXCEPT !.parent[up] = node]
      t3 == Replace(t2, node, up)
  IN  IF node = nil \/ up = nil THEN t
      ELSE [t3 EXCEPT !.parent[node] = up, !.link[side][up] = node]

rotateLeft(t, node) == rotate(t, "left", node)
rotateRight(t, node) == rotate(t, "right", node)
Rotate(t, side, node) == IF side = "left" THEN rotateLeft(t, node) ELSE rotateRight(t, node)

\* Such a rotation moves a subtree, and so leaves its parent wrong.
Bends(t, side, node) ==
  node # nil /\ t.link[Other(side)][node] # nil /\ t.link[side][t.link[Other(side)][node]] # nil

-----------------------------------------------------------------------------
\* The next call.  Nothing is promised of a tree that is bent: the model does
\* not go on with it once the loop has ended.
Calls == fixing.at = "idle" /\ ~bent

\* insertNode, up to insertFixUp; a key that is there is refused.
insertNode(key) ==
  /\ Calls /\ made < MaxNodes /\ searchNode(key) = nil
  /\ LET Z == made + 1
         Y == Hang(key)
         leaf == [rb EXCEPT !.key[Z] = key, !.red[Z] = TRUE,
                            !.link["left"][Z] = nil, !.link["right"][Z] = nil]
     IN  /\ made' = Z
         /\ rb' = IF Y = nil
                  THEN [leaf EXCEPT !.root = Z, !.parent[Z] = nil, !.parent[nil] = Z,
                                    !.link["left"][nil] = Z, !.link["right"][nil] = Z]
                  ELSE [leaf EXCEPT !.parent[Z] = Y,
                                    !.link[IF key < rb.key[Y] THEN "left" ELSE "right"][Y] = Z]
         /\ fixing' = [at |-> "insert", node |-> Z]
  /\ inTree' = inTree \cup {key} /\ turns' = 0
  /\ UNCHANGED bent

Turn(at) == fixing.at = at /\ turns < MaxTurns

\* One turn of the loop of insertFixUp, for either side.
InsertTurn(side) ==
  LET node == fixing.node
      G == P(P(node))
      uncle == L(Other(side), G)
  IN  /\ Turn("insert") /\ rb.red[P(node)]
      /\ (side = "left") = (P(node) = L("left", G))
      /\ turns' = turns + 1
      /\ \/ /\ rb.red[uncle]
            /\ rb' = [rb EXCEPT !.red[P(node)] = FALSE, !.red[uncle] = FALSE,
                                !.red[IF side = "left" THEN G ELSE P(uncle)] = TRUE]
            /\ fixing' = [fixing EXCEPT !.node = G] /\ UNCHANGED bent
         \/ /\ ~rb.red[uncle] /\ node = L(Other(side), P(node))
            /\ rb' = Rotate(rb, side, P(node))
            /\ fixing' = [fixing EXCEPT !.node = P(node)]
            /\ bent' = (bent \/ Bends(rb, side, P(node)))
         \/ /\ ~rb.red[uncle] /\ node # L(Other(side), P(node))
            /\ rb' = Rotate([rb EXCEPT !.red[P(node)] = FALSE, !.red[G] = TRUE], Other(side), G)
            /\ bent' = (bent \/ Bends(rb, Other(side), G)) /\ UNCHANGED fixing
      /\ UNCHANGED <<made, inTree>>

\* Mutant of InsertEnds: the root keeps the colour the loop left it with.
InsertEndsRed ==
  /\ fixing.at = "insert" /\ ~rb.red[P(fixing.node)]
  /\ fixing' = Idle
  /\ UNCHANGED <<rb, made, turns, bent, inTree>>

InsertEnds ==
  /\ fixing.at = "insert" /\ ~rb.red[P(fixing.node)]
  /\ rb' = [rb EXCEPT !.red[rb.root] = FALSE]
  /\ fixing' = Idle
  /\ UNCHANGED <<made, turns, bent, inTree>>

-----------------------------------------------------------------------------
\* deleteNode, up to deleteFixUp, for a node with a child missing.
deleteNode(key) ==
  LET Z == searchNode(key)
      X == IF L("left", Z) # nil THEN L("left", Z) ELSE L("right", Z)
      t == Replace([rb EXCEPT !.parent[X] = P(Z)], Z, X)
  IN  /\ Calls /\ Z # nil /\ made < Cardinality(inTree) + MaxDeletions
      /\ L("left", Z) = nil \/ L("right", Z) = nil
      /\ rb' = IF P(Z) = nil THEN [t EXCEPT !.parent[nil] = X] ELSE t
      /\ fixing' = IF ~rb.red[Z] /\ ~(X = nil /\ rb'.parent[X] = nil)
                   THEN [at |-> "delete", node |-> X] ELSE Idle
      /\ inTree' = inTree \ {key} /\ turns' = 0
      /\ UNCHANGED <<made, bent>>

\* treeSuccessor reaches its end without a return.
deleteUndefined(key) ==
  LET Z == searchNode(key)
  IN  /\ Calls /\ Z # nil /\ L("left", Z) # nil /\ L("right", Z) # nil
      /\ fixing' = [at |-> "undefined", node |-> nil]
      /\ UNCHANGED <<rb, made, turns, bent, inTree>>

\* One turn of the loop of deleteFixUp.  When the node is a left child, the
\* third test is an assignment of BLACK, which is 1: the fourth case is never
\* reached.  When it is a right child, the tests are for BLACK on either side,
\* and nothing is done if both children of the brother are red.
DeleteTurn(side) ==
  LET node == fixing.node
      up == P(node)
      brother == L(Other(side), up)
      redLeft == rb.red[L("left", brother)]
      redRight == rb.red[L("right", brother)]
      third == [[rb EXCEPT !.red[brother] = TRUE] EXCEPT !.red[L("right", brother)] = FALSE]
  IN  /\ Turn("delete") /\ node # rb.root /\ ~rb.red[node]
      /\ (side = "left") = (node = L("left", up))
      /\ turns' = turns + 1
      /\ \/ /\ rb.red[brother]
            /\ rb' = Rotate([[rb EXCEPT !.red[brother] = FALSE] EXCEPT !.red[up] = TRUE], side, up)
            /\ bent' = (bent \/ Bends(rb, side, up)) /\ UNCHANGED fixing
         \/ /\ ~rb.red[brother] /\ ~redLeft /\ ~redRight
            /\ rb' = [rb EXCEPT !.red[brother] = TRUE]
            /\ fixing' = [fixing EXCEPT !.node = up]
            /\ UNCHANGED bent
         \/ /\ ~rb.red[brother] /\ side = "left" /\ (redLeft \/ redRight)
            /\ rb' = rotateRight(third, brother)
            /\ bent' = TRUE /\ UNCHANGED fixing
         \/ /\ ~rb.red[brother] /\ side = "right" /\ ~redLeft /\ redRight
            /\ rb' = rotateLeft(third, brother)
            /\ bent' = (bent \/ Bends(rb, "left", brother)) /\ UNCHANGED fixing
         \/ /\ ~rb.red[brother] /\ side = "right" /\ redLeft /\ ~redRight
            /\ rb' = rotateRight([rb EXCEPT !.red[brother] = rb.red[up], !.red[up] = FALSE,
                                            !.red[L("left", brother)] = FALSE], up)
            /\ fixing' = [fixing EXCEPT !.node = rb'.root]
            /\ bent' = (bent \/ Bends(rb, "right", up))
         \/ /\ ~rb.red[brother] /\ side = "right" /\ redLeft /\ redRight
            /\ UNCHANGED <<rb, fixing, bent>>
      /\ UNCHANGED <<made, inTree>>

DeleteEnds ==
  /\ fixing.at = "delete" /\ (fixing.node = rb.root \/ rb.red[fixing.node])
  /\ rb' = [rb EXCEPT !.parent[nil] = rb.root, !.red[fixing.node] = FALSE]
  /\ fixing' = Idle
  /\ UNCHANGED <<made, turns, bent, inTree>>

RbNext ==
  \/ \E key \in Keys : insertNode(key) \/ deleteNode(key) \/ deleteUndefined(key)
  \/ \E side \in Sides : InsertTurn(side) \/ DeleteTurn(side)
  \/ InsertEnds \/ DeleteEnds

RbSpec == RbInit /\ [][RbNext]_rbVars

-----------------------------------------------------------------------------
(***************************************************************************)
(* Properties.                                                             *)
(***************************************************************************)

\* The nodes that are reached from the root by k or fewer links, and how they
\* are connected.
Reached ==
  LET step[k \in Nat] ==
        IF k = 0 THEN {rb.root} \ {nil}
        ELSE LET above == step[k - 1]
             IN  above \cup ({L(s, n) : s \in Sides, n \in above} \ {nil})
  IN  step[MaxNodes]

\* Black nodes on every path to nil below n: all the same number.
Blacks(n) ==
  LET blacks[k \in Nat] ==
        [m \in Nodes |->
           IF k = 0 \/ m = nil THEN {0}
           ELSE {b + (IF rb.red[m] THEN 0 ELSE 1) :
                   b \in blacks[k - 1][L("left", m)] \cup blacks[k - 1][L("right", m)]}]
  IN  blacks[MaxNodes + 1][n]

RedBlack ==
  /\ ~rb.red[rb.root] /\ ~rb.red[nil]
  /\ \A n \in Reached : rb.red[n] => ~rb.red[L("left", n)] /\ ~rb.red[L("right", n)]
  /\ \A b, c \in Blacks(rb.root) : b = c

\* Every key is found, and the nodes' parents are their parents.
Searchable ==
  /\ {rb.key[n] : n \in Reached} = inTree
  /\ \A n \in Reached : searchNode(rb.key[n]) = n
  /\ \A n \in Reached, s \in Sides : L(s, n) # nil => P(L(s, n)) = n

\* The loop of deleteFixUp turns for ever: the node is a right child, and its
\* black brother has two red children.
Stuck ==
  LET brother == L("left", P(fixing.node))
  IN  /\ fixing.at = "delete" /\ fixing.node # rb.root /\ ~rb.red[fixing.node]
      /\ fixing.node = L("right", P(fixing.node)) /\ ~rb.red[brother]
      /\ rb.red[L("left", brother)] /\ rb.red[L("right", brother)]

\* Until a rotation has to move a subtree, or a deletion comes to the branch of
\* line 339, every insertion and deletion leaves a red-black search tree, and
\* its loop ends, unless it meets two red children of a brother to the left.
TreesStayOrdered ==
  /\ RbTypeOK
  /\ ~bent => /\ fixing.at = "idle" => RedBlack /\ Searchable
              /\ turns < MaxTurns \/ Stuck
=============================================================================
