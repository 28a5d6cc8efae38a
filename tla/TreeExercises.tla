----------------------------- MODULE TreeExercises -----------------------------
(***************************************************************************)
(* The exercises of jianzhi on binary trees.  A tree is <<value, left,     *)
(* right>>, NULL is <<>>; where links are overwritten, the nodes are known *)
(* by their values.                                                        *)
(***************************************************************************)
LOCAL INSTANCE Integers
LOCAL INSTANCE Sequences
LOCAL INSTANCE FiniteSetsExt

NoTree == <<>>
\* create_binarytree_node and connect_binarytree_node
TreeNode(value, p_left, p_right) == <<value, p_left, p_right>>
Leaf(value) == TreeNode(value, NoTree, NoTree)
Key(t) == t[1]
Left(t) == t[2]
Right(t) == t[3]
IsLeaf(t) == Left(t) = NoTree /\ Right(t) = NoTree

\* What is printed of a node: its value and those of its children.
print_binarytree_node(t) ==
  <<Key(t)>> \o (IF Left(t) = NoTree THEN <<>> ELSE <<<<"left", Key(Left(t))>>>>)
               \o (IF Right(t) = NoTree THEN <<>> ELSE <<<<"right", Key(Right(t))>>>>)

RECURSIVE print_binarytree(_)
print_binarytree(t) ==
  IF t = NoTree THEN <<>>
  ELSE <<print_binarytree_node(t)>> \o print_binarytree(Left(t)) \o print_binarytree(Right(t))

-----------------------------------------------------------------------------
(***************************************************************************)
(* ConstructBinaryTree.cpp.  Both orders are given by their first and last *)
(* places.  A root that the inorder part does not hold leaves root_inorder *)
(* behind its end, where line 29 does not look for it: the call goes on    *)
(* with places behind the preorder, which hold the number past.            *)
(***************************************************************************)
Thrown == <<"thrown">>
Crashed == <<"crashed">>

RECURSIVE construct(_, _, _, _, _, _)
construct(pre, in, p, q, i, depth) ==   \* pre from p to q, in from i to i + q - p
  LET root_value == pre[p]
      end == i + q - p
      found == {k \in i .. end : in[k] = root_value}
      root_inorder == IF found = {} THEN end + 1 ELSE Min(found)
      left_len == root_inorder - i
      left == IF left_len > 0 THEN construct(pre, in, p + 1, p + left_len, i, depth - 1) ELSE NoTree
      right == IF left_len < q - p
               THEN construct(pre, in, p + left_len + 1, q, root_inorder + 1, depth - 1) ELSE NoTree
  IN  IF depth = 0 THEN Crashed
      ELSE IF p = q THEN IF pre[p] = in[i] THEN Leaf(root_value) ELSE Thrown
      ELSE IF left \in {Thrown, Crashed} THEN left
      ELSE IF right \in {Thrown, Crashed} THEN right
      ELSE TreeNode(root_value, left, right)

\* Deeper than twice the length, the places behind the preorder are never
\* found: the calls end with the stack.
construct_tree(preorder, inorder, past) ==
  LET len == Len(preorder)
  IN  IF len = 0 THEN NoTree
      ELSE construct(preorder \o [k \in 1 .. 2 * len |-> past], inorder, 1, len, 1, 2 * len)

-----------------------------------------------------------------------------
(***************************************************************************)
(* The other exercises.                                                    *)
(***************************************************************************)

\* MirrorOfBinaryTree.cpp.  The loop with the stack takes nodes off it, but
\* always swaps the children of the root and pushes them: the state it is in
\* after some turns.
RECURSIVE mirror_recursive(_)
mirror_recursive(t) ==
  IF t = NoTree THEN t
  ELSE TreeNode(Key(t), mirror_recursive(Right(t)), mirror_recursive(Left(t)))

mirror_iterative(t, turns) ==
  LET Push(p, stack) == IF p = NoTree THEN stack ELSE <<p>> \o stack
      after[k \in Nat] ==
        IF k = 0 THEN [root |-> t, stack |-> IF t = NoTree \/ IsLeaf(t) THEN <<>> ELSE <<t>>]
        ELSE LET s == after[k - 1]
                 swapped == TreeNode(Key(s.root), Right(s.root), Left(s.root))
             IN  IF s.stack = <<>> THEN s
                 ELSE [root |-> swapped,
                       stack |-> Push(Right(swapped), Push(Left(swapped), Tail(s.stack)))]
  IN  after[turns]

\* SubstructureInTree.cpp
RECURSIVE dfs_subtree(_, _)
dfs_subtree(t1, t2) ==
  \/ t2 = NoTree
  \/ /\ t1 # NoTree
     /\ Key(t1) = Key(t2)
     /\ dfs_subtree(Left(t1), Left(t2)) /\ dfs_subtree(Right(t1), Right(t2))

RECURSIVE has_subtree(_, _)
has_subtree(t1, t2) ==
  /\ t1 # NoTree /\ t2 # NoTree
  /\ \/ Key(t1) = Key(t2) /\ dfs_subtree(t1, t2)
     \/ has_subtree(Left(t1), t2)
     \/ has_subtree(Right(t1), t2)

\* PrintTreeFromTopToBottom.cpp: what is printed, with a queue.
RECURSIVE bfs_queue(_)
bfs_queue(queue_tree) ==
  IF queue_tree = <<>> THEN <<>>
  ELSE LET p_node == Head(queue_tree)
           Push(p) == IF p = NoTree THEN <<>> ELSE <<p>>
       IN  <<Key(p_node)>>
             \o bfs_queue(Tail(queue_tree) \o Push(Left(p_node)) \o Push(Right(p_node)))
bfs(t) == IF t = NoTree THEN <<>> ELSE bfs_queue(<<t>>)

\* PathInTree.cpp: the paths printed; path and sum are those above node t.
RECURSIVE dfs_path(_, _, _, _)
dfs_path(t, expectedsum, above, sumAbove) ==
  LET path == Append(above, Key(t))
      sum == sumAbove + Key(t)
      Below(child) == IF child = NoTree THEN <<>> ELSE dfs_path(child, expectedsum, path, sum)
  IN  (IF IsLeaf(t) /\ sum = expectedsum THEN <<path>> ELSE <<>>) \o Below(Left(t)) \o Below(Right(t))
find_path(t, expectedsum) == IF t = NoTree THEN <<>> ELSE dfs_path(t, expectedsum, <<>>, 0)

\* SequenceOfBST.cpp: j is len - 1 after its loop, and what is larger than the
\* root is not looked at again (line 30).
RECURSIVE dfs_sequence(_)
dfs_sequence(sequence) ==
  LET len == Len(sequence)
      root == sequence[len]
      small == Min({k \in 1 .. len : k = len \/ sequence[k] > root}) - 1   \* i
  IN  /\ len > 0
      /\ \A j \in small + 1 .. len - 1 : sequence[j] >= root
      /\ small # 0 => dfs_sequence(SubSeq(sequence, 1, small))

\* 39_treedepth.cpp and 39_balancedbinarytree.cpp
RECURSIVE TreeDepth(_)
TreeDepth(t) == IF t = NoTree THEN 0 ELSE 1 + Max({TreeDepth(Left(t)), TreeDepth(Right(t))})

RECURSIVE IsBalanced(_)
IsBalanced(t) ==   \* the value and *pDepth, that is 0 while it means nothing
  IF t = NoTree THEN <<TRUE, 0>>
  ELSE LET left == IsBalanced(Left(t))
           right == IsBalanced(Right(t))
       IN  IF left[1] /\ right[1] /\ left[2] - right[2] \in -1 .. 1
           THEN <<TRUE, 1 + Max({left[2], right[2]})>> ELSE <<FALSE, 0>>

-----------------------------------------------------------------------------
(***************************************************************************)
(* ConvertBinarySearchTree.cpp and 27_convertbinarysearchtree.cpp: links   *)
(* are left[v] and right[v] for a node with value v, 0 for NULL.           *)
(***************************************************************************)
RECURSIVE Subtrees(_)
Subtrees(t) == IF t = NoTree THEN {} ELSE {t} \cup Subtrees(Left(t)) \cup Subtrees(Right(t))
KeysOf(t) == {Key(n) : n \in Subtrees(t)}
Root(t) == IF t = NoTree THEN 0 ELSE Key(t)
LinksOf(t) ==
  LET At(v) == CHOOSE n \in Subtrees(t) : Key(n) = v
  IN  [left |-> [v \in KeysOf(t) |-> Root(Left(At(v)))],
       right |-> [v \in KeysOf(t) |-> Root(Right(At(v)))], last |-> 0]

RECURSIVE convert_dfs(_, _)
convert_dfs(p_node, s) ==
  LET l == IF s.left[p_node] = 0 THEN s ELSE convert_dfs(s.left[p_node], s)
      back == [l EXCEPT !.left[p_node] = l.last, !.last = p_node]
      linked == IF l.last = 0 THEN back ELSE [back EXCEPT !.right[l.last] = p_node]
  IN  IF linked.right[p_node] = 0 THEN linked ELSE convert_dfs(linked.right[p_node], linked)

\* The links, and the head found by going left from the last node.
convert(t) ==
  LET s == IF t = NoTree THEN LinksOf(t) ELSE convert_dfs(Root(t), LinksOf(t))
      head[v \in {0} \cup KeysOf(t)] == IF v = 0 \/ s.left[v] = 0 THEN v ELSE head[s.left[v]]
  IN  [left |-> s.left, right |-> s.right, head |-> head[s.last]]

\* From the head along right, and from where that ends along left.
print_double_list(list) ==
  LET along[side \in {"left", "right"}, v \in {0} \cup DOMAIN list.left] ==
        LET next == IF side = "left" THEN list.left ELSE list.right
        IN  IF v = 0 THEN <<>> ELSE <<v>> \o along[side, next[v]]
      forth == along["right", list.head]
  IN  [forth |-> forth, back |-> IF forth = <<>> THEN <<>> ELSE along["left", forth[Len(forth)]]]

-----------------------------------------------------------------------------
(***************************************************************************)
(* What the tests of the files call the functions with; where they state   *)
(* what they expect, as <<arguments, expected>>.                           *)
(***************************************************************************)
Full(a, b, c, d, e, f, g) == TreeNode(a, TreeNode(b, Leaf(c), Leaf(d)), TreeNode(e, Leaf(f), Leaf(g)))

\* The preorder and the inorder, and whether they are of one tree.
ConstructTests ==
  {<<<<<<1, 2, 4, 7, 3, 5, 6, 8>>, <<4, 7, 2, 1, 5, 3, 8, 6>>>>, TRUE>>,
   <<<<<<1, 2, 3, 4, 5>>, <<5, 4, 3, 2, 1>>>>, TRUE>>, <<<<<<1>>, <<1>>>>, TRUE>>,
   <<<<<<1, 2, 4, 5, 3, 6, 7>>, <<4, 2, 5, 1, 6, 3, 7>>>>, TRUE>>, <<<<<<>>, <<>>>>, TRUE>>,
   <<<<<<1, 2, 4, 5, 3, 6, 7>>, <<4, 2, 8, 1, 6, 3, 7>>>>, FALSE>>}
MirrorTests == {Full(8, 6, 5, 7, 10, 9, 11)}
SubtreeTests ==
  LET a == TreeNode(8, TreeNode(8, Leaf(9), TreeNode(2, Leaf(4), Leaf(7))), Leaf(7))
  IN  {<<<<a, TreeNode(8, Leaf(9), Leaf(2))>>, TRUE>>, <<<<a, TreeNode(8, Leaf(2), Leaf(2))>>, TRUE>>}
TopToBottomTests == {Full(10, 6, 4, 8, 14, 12, 16), NoTree}
PathTests == {<<TreeNode(10, TreeNode(5, Leaf(4), Leaf(7)), Leaf(12)), 22>>, <<NoTree, 0>>}
SequenceTests == {<<<<4, 8, 6, 12, 16, 14, 10>>, TRUE>>, <<<<5>>, TRUE>>, <<<<7, 4, 6, 5>>, FALSE>>,
                  <<<<>>, FALSE>>}
ConvertTests == {Full(10, 6, 4, 8, 14, 12, 16)}
DepthTests == {TreeNode(1, TreeNode(2, Leaf(4), TreeNode(5, Leaf(7), NoTree)), TreeNode(3, NoTree, Leaf(6)))}

-----------------------------------------------------------------------------
\* All trees with these values from left to right.
RECURSIVE Trees(_)
Trees(values) ==
  IF values = <<>> THEN {NoTree}
  ELSE UNION {{TreeNode(values[k], l, r) : l \in Trees(SubSeq(values, 1, k - 1)),
                                       r \in Trees(SubSeq(values, k + 1, Len(values)))}
                : k \in DOMAIN values}
=============================================================================
