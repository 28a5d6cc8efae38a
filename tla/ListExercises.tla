----------------------------- MODULE ListExercises -----------------------------
(***************************************************************************)
(* The exercises of jianzhi on linked lists.  A heap holds the nodes made  *)
(* so far, counted from 1: val[n], next[n], and for a complex list         *)
(* sibling[n]; freed are the nodes deleted.  NULL is 0.  A function takes a*)
(* heap and returns the heap it leaves, or [heap, p] with the pointer it   *)
(* returns or stores.                                                      *)
(***************************************************************************)
LOCAL INSTANCE Integers
LOCAL INSTANCE Sequences
LOCAL INSTANCE FiniteSetsExt

NULL == 0
EmptyHeap == [val |-> <<>>, next |-> <<>>, sibling |-> <<>>, freed |-> {}]

\* n turns of a loop; a turn changes nothing once the loop has ended.
Loop(Turn(_), s, n) == LET after[k \in Nat] == IF k = 0 THEN s ELSE Turn(after[k - 1]) IN after[n]

\* The node that k steps along next lead to, and the nodes from p to the end.
Step(h, p, k) == Loop(LAMBDA n : IF n = NULL THEN NULL ELSE h.next[n], p, k)
ListNodes(h, p) ==
  LET length == Min({k \in 0 .. Len(h.val) : Step(h, p, k) = NULL})
  IN  [k \in 1 .. length |-> Step(h, p, k - 1)]

-----------------------------------------------------------------------------
(***************************************************************************)
(* List.cpp, one copy of it in each directory.                             *)
(***************************************************************************)

\* The new node is the last of the heap.
create_listnode(h, value) ==
  [h EXCEPT !.val = Append(@, value), !.next = Append(@, NULL), !.sibling = Append(@, NULL)]
connect_listnode(h, p_current, p_next) == [h EXCEPT !.next[p_current] = p_next]

print_list(h, p_head) == LET nodes == ListNodes(h, p_head) IN [k \in DOMAIN nodes |-> h.val[nodes[k]]]

delete_list(h, p_head) ==
  [h EXCEPT !.freed = @ \cup {ListNodes(h, p_head)[k] : k \in DOMAIN ListNodes(h, p_head)}]

insert_node(h, p_head, value) ==
  LET made == create_listnode(h, value)
      p_new == Len(made.val)
      nodes == ListNodes(h, p_head)
  IN  IF p_head = NULL THEN [heap |-> made, p |-> p_new]
      ELSE [heap |-> connect_listnode(made, nodes[Len(nodes)], p_new), p |-> p_head]

\* delete_node(ListNode**, int): the first node with the value, if there is one.
delete_value(h, p_head, value) ==
  LET nodes == ListNodes(h, p_head)
      before == Min({k \in DOMAIN nodes : k = Len(nodes) \/ h.val[nodes[k + 1]] = value})
      p_node == nodes[before]
      node_delete == h.next[p_node]
  IN  IF p_head = NULL THEN [heap |-> h, p |-> NULL]
      ELSE IF h.val[p_head] = value
      THEN [heap |-> [h EXCEPT !.freed = @ \cup {p_head}], p |-> h.next[p_head]]
      ELSE IF node_delete = NULL THEN [heap |-> h, p |-> p_head]
      ELSE [heap |-> [h EXCEPT !.next[p_node] = h.next[node_delete], !.freed = @ \cup {node_delete}],
            p |-> p_head]

\* A list made by create_listnode and connect_listnode from its values.
RECURSIVE Build(_, _)
Build(h, values) ==
  IF values = <<>> THEN [heap |-> h, p |-> NULL]
  ELSE LET rest == Build(h, Tail(values))
           made == create_listnode(rest.heap, Head(values))
       IN  [heap |-> connect_listnode(made, Len(made.val), rest.p), p |-> Len(made.val)]

-----------------------------------------------------------------------------
(***************************************************************************)
(* The exercises on lists.                                                 *)
(***************************************************************************)

\* ReservedList.cpp
reserved_list(h, p_head) ==
  LET turn(s) ==
        IF s.p_node = NULL THEN s
        ELSE LET p_next == s.heap.next[s.p_node]
             IN  [heap |-> [s.heap EXCEPT !.next[s.p_node] = s.p_prev],
                  p |-> IF p_next = NULL THEN s.p_node ELSE s.p,
                  p_prev |-> s.p_node, p_node |-> p_next]
      start == [heap |-> h, p |-> NULL, p_prev |-> NULL, p_node |-> p_head]
      end == Loop(turn, start, Len(h.val))
  IN  [heap |-> end.heap, p |-> end.p]

\* DeleteNodeInList.cpp: delete_node(ListNode**, ListNode*).  The node stays and
\* takes over what the next one holds, unless it is the last.
delete_node(h, p_head, node_delete) ==
  LET p_new == h.next[node_delete]
      nodes == ListNodes(h, p_head)
      p_node == nodes[Min({k \in DOMAIN nodes : h.next[nodes[k]] = node_delete})]
  IN  IF node_delete = NULL \/ p_head = NULL THEN [heap |-> h, p |-> p_head]
      ELSE IF p_new # NULL
      THEN [heap |-> [h EXCEPT !.val[node_delete] = h.val[p_new], !.next[node_delete] = h.next[p_new],
                        !.freed = @ \cup {p_new}],
            p |-> p_head]
      ELSE IF node_delete = p_head
      THEN [heap |-> [h EXCEPT !.freed = @ \cup {p_head}], p |-> NULL]
      ELSE [heap |-> [h EXCEPT !.next[p_node] = NULL, !.freed = @ \cup {node_delete}], p |-> p_head]

\* KthNodeFromEnd.cpp: p2 starts when p1 is k - 1 nodes ahead.
find_kth(h, p_head, k) ==
  LET p1 == Step(h, p_head, k - 1)
  IN  IF p_head = NULL \/ k <= 0 \/ p1 = NULL THEN NULL
      ELSE Step(h, p_head, Len(ListNodes(h, p1)) - 1)

\* MergeSortedLists.cpp
merge_lists(h, p_head1, p_head2) ==
  LET Node == 0 .. Len(h.val)
      Before(p, r) == [heap |-> connect_listnode(r.heap, p, r.p), p |-> p]
      merge[p1 \in Node, p2 \in Node] ==
        IF p1 = NULL THEN [heap |-> h, p |-> p2]
        ELSE IF p2 = NULL THEN [heap |-> h, p |-> p1]
        ELSE IF h.val[p1] < h.val[p2] THEN Before(p1, merge[h.next[p1], p2])
        ELSE Before(p2, merge[p1, h.next[p2]])
  IN  merge[p_head1, p_head2]

\* PrintListInReversedOrder.cpp: with a stack of nodes, and by recursion.
print_reversed_list_iter(h, p_head) ==
  LET turn(s) == IF s.p_node = NULL THEN s
                 ELSE [nodes |-> <<s.p_node>> \o s.nodes, p_node |-> h.next[s.p_node]]
      nodes == Loop(turn, [nodes |-> <<>>, p_node |-> p_head], Len(h.val)).nodes
  IN  [k \in DOMAIN nodes |-> h.val[nodes[k]]]
print_reversed_list_recur(h, p_head) ==
  LET print[p \in 0 .. Len(h.val)] == IF p = NULL THEN <<>> ELSE Append(print[h.next[p]], h.val[p])
  IN  print[p_head]

\* 37_firstcommonnodeinlist.cpp: the longer list is walked until both are as long.
GetListLength(h, pHead) == Len(ListNodes(h, pHead))
FindFirstCommonNode(h, pHead1, pHead2) ==
  LET len1 == GetListLength(h, pHead1)
      len2 == GetListLength(h, pHead2)
      pHeadLong == IF len1 < len2 THEN pHead2 ELSE pHead1
      pHeadShort == IF len1 < len2 THEN pHead1 ELSE pHead2
      pLong == Step(h, pHeadLong, IF len1 < len2 THEN len2 - len1 ELSE len1 - len2)
      turn(s) == IF s[1] = NULL \/ s[2] = NULL \/ s[1] = s[2] THEN s
                 ELSE <<h.next[s[1]], h.next[s[2]]>>
  IN  Loop(turn, <<pLong, pHeadShort>>, Len(h.val))[1]

-----------------------------------------------------------------------------
(***************************************************************************)
(* CopyComplexList and 26_copycomplexlist.cpp                              *)
(***************************************************************************)

create_node(h, value) == create_listnode(h, value)
build_nodes(h, p_node, p_next, p_sibling) ==
  IF p_node = NULL THEN h ELSE [h EXCEPT !.next[p_node] = p_next, !.sibling[p_node] = p_sibling]

\* A clone behind every node, with the sibling that TheSibling gives it.
WithClones(h, p_head, TheSibling(_)) ==
  LET turn(s) ==
        IF s.p_node = NULL THEN s
        ELSE LET made == create_node(s.heap, h.val[s.p_node])
                 p_cloned == Len(made.val)
                 p_next == h.next[s.p_node]
             IN  [heap |-> connect_listnode(
                             build_nodes(made, p_cloned, p_next, TheSibling(s.p_node)),
                             s.p_node, p_cloned),
                  p_node |-> p_next]
  IN  Loop(turn, [heap |-> h, p_node |-> p_head], Len(h.val)).heap

clone_nodes(h, p_head) == WithClones(h, p_head, LAMBDA n : h.sibling[n])
CloneNodes(h, pHead) == WithClones(h, pHead, LAMBDA n : NULL)

connect_siblingnodes(h, p_head) ==
  LET turn(s) ==
        IF s.p_node = NULL THEN s
        ELSE LET p_cloned == s.heap.next[s.p_node]
                 sibling == s.heap.sibling[s.p_node]
             IN  [heap |-> IF sibling = NULL THEN s.heap
                           ELSE [s.heap EXCEPT !.sibling[p_cloned] = s.heap.next[sibling]],
                  p_node |-> s.heap.next[p_cloned]]
  IN  Loop(turn, [heap |-> h, p_node |-> p_head], Len(h.val)).heap

\* The heap with the two lists apart, and where the loop leaves p_cloned_node.
reconnect_nodes(h, p_head) ==
  LET turn(s) ==
        IF s.p_node = NULL THEN s
        ELSE LET p_cloned == s.heap.next[s.p_node]
                 p_next == s.heap.next[p_cloned]
                 heap == connect_listnode(s.heap, s.p_node, p_next)
             IN  [heap |-> IF s.p = NULL THEN heap ELSE connect_listnode(heap, s.p, p_cloned),
                  p |-> p_cloned, p_node |-> p_next]
      end == Loop(turn, [heap |-> h, p |-> NULL, p_node |-> p_head], Len(h.val))
  IN  [heap |-> end.heap, p |-> end.p]

\* 26_copycomplexlist.cpp keeps the head of the clones ...
ReconnectNodes(h, pHead) ==
  [heap |-> reconnect_nodes(h, pHead).heap, p |-> IF pHead = NULL THEN NULL ELSE h.next[pHead]]

clone(h, p_head) ==
  IF p_head = NULL THEN [heap |-> h, p |-> NULL]
  ELSE reconnect_nodes(connect_siblingnodes(clone_nodes(h, p_head), p_head), p_head)

\* ... but Clone has no return statement: what its caller gets is what the last
\* call returned, or nothing that means anything (here NULL).
Clone(h, pHead) ==
  LET r == ReconnectNodes(connect_siblingnodes(CloneNodes(h, pHead), pHead), pHead)
  IN  {r, [r EXCEPT !.p = NULL]}
-----------------------------------------------------------------------------
\* What the tests of the files call the functions with.
ReservedListTests == {<<1, 2, 3, 4, 4>>, <<1>>, <<>>}
OneToFive == <<1, 2, 3, 4, 5>>
PrintReversedTests == {OneToFive}
DeleteNodeTests == {<<OneToFive, 3>>, <<OneToFive, 1>>, <<OneToFive, 5>>, <<<<1>>, 1>>, <<<<>>, 0>>}
FindKthTests == {<<OneToFive, 2>>, <<OneToFive, 5>>, <<OneToFive, 0>>, <<<<>>, 100>>}
MergeTests == {<<<<1, 3, 5>>, <<2, 4, 6>>>>}

\* The two lists <<before, before, common>> of 37_firstcommonnodeinlist.cpp, and
\* the siblings of the five nodes of CopyComplexList and 26_copycomplexlist.cpp.
CommonNodeTests == {<<<<1, 2, 3>>, <<4, 5>>, <<6, 7>>>>}
SiblingTests == {<<3, 5, NULL, 2, NULL>>}
=============================================================================
