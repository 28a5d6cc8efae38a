----------------------------- MODULE RustLists -----------------------------
(***************************************************************************)
(* rust/lists: a stack of boxed nodes (first.rs, second.rs), a list that   *)
(* shares its tails (third.rs), and a deque whose nodes own each other     *)
(* (fourth.rs).  A pointer is the number of a node, None is 0; a node is   *)
(* freed when nothing points to it any more.                               *)
(***************************************************************************)
EXTENDS Naturals, Sequences, FiniteSets

CONSTANTS Elems, MaxListNodes, Handles   \* MaxListNodes: bound, nodes at a time

ASSUME ListAssumption == MaxListNodes \in Nat

VARIABLES
  listKind,   \* "first", "second", "third" or "fourth"
  head, tail, \* of the list of each handle
  nodes,      \* the nodes there are: [elem, prev, next]
  panicked,   \* an unwrap found nothing
  content     \* history: what each list must hold, first element first

listVars == <<listKind, head, tail, nodes, panicked, content>>

None == 0
Links(n) == {nodes[n].prev, nodes[n].next}

ListInit ==
  /\ listKind \in {"first", "second", "third", "fourth"}
  /\ head = [h \in Handles |-> None] /\ tail = [h \in Handles |-> None]
  /\ nodes = [n \in {} |-> None] /\ panicked = FALSE
  /\ content = [h \in Handles |-> <<>>]

Fresh == CHOOSE n \in 1 .. MaxListNodes : n \notin DOMAIN nodes
MayAllocate == Cardinality(DOMAIN nodes) < MaxListNodes /\ ~panicked
Elements(h, seq) == content' = [content EXCEPT ![h] = seq]
With(n, node) == [m \in DOMAIN nodes \cup {n} |-> IF m = n THEN node ELSE nodes[m]]
Without(n, others) == [m \in DOMAIN others \ {n} |-> others[m]]

-----------------------------------------------------------------------------
\* The stack: each node owns the next.
push(h, e) ==
  /\ MayAllocate
  /\ nodes' = With(Fresh, [elem |-> e, prev |-> None, next |-> head[h]])
  /\ head' = [head EXCEPT ![h] = Fresh]
  /\ Elements(h, <<e>> \o content[h])
  /\ UNCHANGED <<listKind, tail, panicked>>

\* pop, and next of the iterator that into_iter makes.
pop(h) ==
  /\ head[h] # None
  /\ head' = [head EXCEPT ![h] = nodes[head[h]].next]
  /\ nodes' = Without(head[h], nodes)
  /\ Elements(h, Tail(content[h]))
  /\ UNCHANGED <<listKind, tail, panicked>>

\* Through peek_mut, or the k-th reference of iter_mut.
Follow(h, k) ==
  LET walk[i \in Nat] == IF i = 0 THEN head[h] ELSE IF walk[i - 1] = None THEN None ELSE nodes[walk[i - 1]].next
  IN  walk[k]
iter_mut(h, k, e) ==
  /\ Follow(h, k) # None
  /\ nodes' = [nodes EXCEPT ![Follow(h, k)].elem = e]
  /\ Elements(h, [content[h] EXCEPT ![k + 1] = e])
  /\ UNCHANGED <<listKind, head, tail, panicked>>
peek_mut(h, e) == iter_mut(h, 0, e)

\* drop takes node after node, so that no node drops the next one.
drop(h) ==
  /\ head' = [head EXCEPT ![h] = None]
  /\ nodes' = [n \in DOMAIN nodes \ {Follow(h, k) : k \in 0 .. MaxListNodes} |-> nodes[n]]
  /\ Elements(h, <<>>)
  /\ UNCHANGED <<listKind, tail, panicked>>

firstPush(h, e) == push(h, e)
firstPop(h) == pop(h)
firstDrop(h) == drop(h)

-----------------------------------------------------------------------------
\* The shared list.  A node is freed with the last list or node that has it.
Alive(from, links) ==
  LET step[k \in Nat] == IF k = 0 THEN from \ {None}
                         ELSE step[k - 1] \cup ({links[n].next : n \in step[k - 1]} \ {None})
  IN  step[MaxListNodes]

Assign(g, first, links, seq) ==
  /\ head' = [head EXCEPT ![g] = first]
  /\ nodes' = [n \in Alive({head'[h] : h \in Handles}, links) |-> links[n]]
  /\ Elements(g, seq)
  /\ UNCHANGED <<listKind, tail, panicked>>

\* g = h.append(e), g = h.tail(), drop(g)
append(g, h, e) ==
  /\ MayAllocate
  /\ Assign(g, Fresh, With(Fresh, [elem |-> e, prev |-> None, next |-> head[h]]), <<e>> \o content[h])
tail_(g, h) ==
  IF head[h] = None THEN Assign(g, None, nodes, <<>>)
  ELSE Assign(g, nodes[head[h]].next, nodes, Tail(content[h]))
dropShared(g) == Assign(g, None, nodes, <<>>)

-----------------------------------------------------------------------------
\* The deque.
Only(h, n) == head' = [head EXCEPT ![h] = n] /\ tail' = [tail EXCEPT ![h] = n]

push_front(h, e) ==
  /\ MayAllocate
  /\ IF head[h] = None
     THEN Only(h, Fresh) /\ nodes' = With(Fresh, [elem |-> e, prev |-> None, next |-> None])
     ELSE /\ nodes' = [With(Fresh, [elem |-> e, prev |-> None, next |-> head[h]])
                         EXCEPT ![head[h]].prev = Fresh]
          /\ head' = [head EXCEPT ![h] = Fresh] /\ UNCHANGED tail
  /\ Elements(h, <<e>> \o content[h])
  /\ UNCHANGED <<listKind, panicked>>

push_back(h, e) ==
  /\ MayAllocate
  /\ IF tail[h] = None
     THEN Only(h, Fresh) /\ nodes' = With(Fresh, [elem |-> e, prev |-> None, next |-> None])
     ELSE /\ nodes' = [With(Fresh, [elem |-> e, prev |-> tail[h], next |-> None])
                         EXCEPT ![tail[h]].next = Fresh]
          /\ tail' = [tail EXCEPT ![h] = Fresh] /\ UNCHANGED head
  /\ Elements(h, Append(content[h], e))
  /\ UNCHANGED <<listKind, panicked>>

\* try_unwrap: the element comes out if nobody else has the node.
TryUnwrap(h, old, heap, seq) ==
  LET others == {head'[g] : g \in Handles} \cup {tail'[g] : g \in Handles}
                  \cup UNION {{heap[n].prev, heap[n].next} : n \in DOMAIN heap}
  IN  IF old \in others THEN panicked' = TRUE /\ nodes' = heap /\ UNCHANGED content
      ELSE nodes' = Without(old, heap) /\ Elements(h, seq) /\ UNCHANGED panicked

pop_front(h) ==
  LET old == head[h]  new == nodes[old].next
  IN  /\ old # None /\ ~panicked
      /\ IF new # None
         THEN /\ head' = [head EXCEPT ![h] = new] /\ UNCHANGED tail
              /\ TryUnwrap(h, old, [nodes EXCEPT ![old].next = None, ![new].prev = None], Tail(content[h]))
         ELSE Only(h, None) /\ TryUnwrap(h, old, nodes, <<>>)
      /\ UNCHANGED listKind

\* Of the only node, it is the tail that is taken again, not the head.
pop_back(h) ==
  LET old == tail[h]  new == nodes[old].prev
  IN  /\ old # None /\ ~panicked
      /\ tail' = [tail EXCEPT ![h] = new] /\ UNCHANGED <<listKind, head>>
      /\ IF new # None
         THEN TryUnwrap(h, old, [nodes EXCEPT ![old].prev = None, ![new].next = None],
                        SubSeq(content[h], 1, Len(content[h]) - 1))
         ELSE TryUnwrap(h, old, nodes, <<>>)

\* peek_front_mut and peek_back_mut
SetEnd(h, n, k, e) ==
  /\ n # None /\ ~panicked
  /\ nodes' = [nodes EXCEPT ![n].elem = e]
  /\ Elements(h, [content[h] EXCEPT ![k] = e])
  /\ UNCHANGED <<listKind, head, tail, panicked>>
peek_front_mut(h, e) == SetEnd(h, head[h], 1, e)
peek_back_mut(h, e) == SetEnd(h, tail[h], Len(content[h]), e)

ListNext ==
  \E h \in Handles :
    \/ /\ listKind = "first"
       /\ (\E e \in Elems : firstPush(h, e)) \/ firstPop(h) \/ firstDrop(h)
    \/ /\ listKind = "second"
       /\ \/ pop(h) \/ drop(h)
          \/ \E e \in Elems : push(h, e) \/ peek_mut(h, e) \/ \E k \in 1 .. MaxListNodes : iter_mut(h, k, e)
    \/ /\ listKind = "third"
       /\ \/ dropShared(h)
          \/ \E g \in Handles : tail_(g, h) \/ \E e \in Elems : append(g, h, e)
    \/ /\ listKind = "fourth"
       /\ \/ pop_front(h) \/ pop_back(h)
          \/ \E e \in Elems : push_front(h, e) \/ push_back(h, e) \/ peek_front_mut(h, e) \/ peek_back_mut(h, e)

ListSpec == ListInit /\ [][ListNext]_listVars

-----------------------------------------------------------------------------
(***************************************************************************)
(* Properties.                                                             *)
(***************************************************************************)

\* The lists hold what was put in and not taken out, from either end; every
\* node belongs to a list; and an unwrap fails only where pop_back takes the
\* only element of a deque.
ListsHold ==
  IF panicked THEN listKind = "fourth" /\ \E h \in Handles : Len(content[h]) = 1 /\ tail[h] = None
  ELSE /\ \A h \in Handles :
            /\ Follow(h, Len(content[h])) = None
            /\ \A k \in DOMAIN content[h] :
                 /\ Follow(h, k - 1) # None
                 /\ nodes[Follow(h, k - 1)].elem = content[h][k]
            /\ listKind = "fourth" =>
                 /\ (head[h] = None) = (tail[h] = None)
                 /\ \A k \in DOMAIN content[h] :
                      nodes[Follow(h, k - 1)].prev = IF k = 1 THEN None ELSE Follow(h, k - 2)
                 /\ content[h] # <<>> => tail[h] = Follow(h, Len(content[h]) - 1)
       /\ DOMAIN nodes = {Follow(h, k) : h \in Handles, k \in 0 .. MaxListNodes} \ {None}
=============================================================================
