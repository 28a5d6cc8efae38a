------------------------------- MODULE Exercises -------------------------------
(***************************************************************************)
(* The exercises of jianzhi run: a step is one call of a function on one of*)
(* the inputs below or on what its tests give it.  The functions are those *)
(* of ListExercises, TreeExercises, ArrayExercises and NumberExercises; the*)
(* properties compare what they return with what it is meant to be.        *)
(***************************************************************************)
EXTENDS Algorithms, ListExercises, TreeExercises, ArrayExercises, NumberExercises
LOCAL INSTANCE Integers
LOCAL INSTANCE Sequences
LOCAL INSTANCE FiniteSets
LOCAL INSTANCE FiniteSetsExt
LOCAL INSTANCE SequencesExt

CONSTANTS
  ListValues,    \* sequences of numbers to make lists, arrays and matrices of
  Inorders,      \* the values of trees from left to right
  LargestNumber,     \* the largest number that CountNumOf1 is given
  LargestSum,        \* the largest that FindContinuousSequence is given
  MemoryValues   \* numbers that may lie before or behind an array

-----------------------------------------------------------------------------
(***************************************************************************)
(* Lists.                                                                  *)
(***************************************************************************)
Built(values) == Build(EmptyHeap, values)
Ids(b) == 0 .. Len(b.heap.val)
Sorted(values) == \A i \in 2 .. Len(values) : values[i - 1] <= values[i]

\* Two lists, with the last nodes in common.
Forked(before1, before2, common) ==
  LET c == Build(EmptyHeap, common)
      Prefixed(b, values, end) ==
        LET r == Build(b, values)
            nodes == ListNodes(r.heap, r.p)
        IN  IF values = <<>> THEN [heap |-> b, p |-> end]
            ELSE [heap |-> connect_listnode(r.heap, nodes[Len(nodes)], end), p |-> r.p]
      l1 == Prefixed(c.heap, before1, c.p)
      l2 == Prefixed(l1.heap, before2, c.p)
  IN  [heap |-> l2.heap, p1 |-> l1.p, p2 |-> l2.p]

\* A complex list of the values 1 .. n in nodes 1 .. n with these siblings.
Complex(siblings) ==
  LET n == Len(siblings)
  IN  [heap |-> [val |-> [k \in 1 .. n |-> k], next |-> [k \in 1 .. n |-> IF k = n THEN NULL ELSE k + 1],
                 sibling |-> siblings, freed |-> {}], p |-> IF n = 0 THEN NULL ELSE 1]

OneList(values) ==
  LET b == Built(values)
  IN  \/ Ran("reserved_list", b, reserved_list(b.heap, b.p))
      \/ Ran("print_reversed_list", b, <<print_reversed_list_iter(b.heap, b.p),
                                         print_reversed_list_recur(b.heap, b.p)>>)
      \/ Ran("delete_list", b, delete_list(b.heap, b.p))
      \/ \E value \in 1 .. 3 :
           \/ Ran("insert_node", <<b, value>>, insert_node(b.heap, b.p, value))
           \/ Ran("delete_value", <<b, value>>, delete_value(b.heap, b.p, value))
      \/ \E n \in Ids(b) : Ran("delete_node", <<b, n>>, delete_node(b.heap, b.p, n))
      \/ \E k \in 0 .. Len(values) + 1 : Ran("find_kth", <<b, k>>, find_kth(b.heap, b.p, k))

TwoLists(values1, values2) ==
  /\ Sorted(values1) /\ Sorted(values2)
  /\ LET b1 == Built(values1)
         b2 == Build(b1.heap, values2)
     IN  Ran("merge_lists", <<b2.heap, b1.p, b2.p>>, merge_lists(b2.heap, b1.p, b2.p))

CommonNode(before1, before2, common) ==
  LET f == Forked(before1, before2, common)
  IN  Ran("FindFirstCommonNode", f, FindFirstCommonNode(f.heap, f.p1, f.p2))

CopyComplex(siblings) ==
  LET c == Complex(siblings)
  IN  \/ Ran("clone", c, clone(c.heap, c.p))
      \/ \E r \in Clone(c.heap, c.p) : Ran("Clone", c, r)

ListSteps ==
  \/ \E values \in ListValues \cup ReservedListTests \cup PrintReversedTests : OneList(values)
  \/ \E t \in DeleteNodeTests : LET b == Built(t[1])
                                    n == IF t[2] = 0 THEN NULL ELSE ListNodes(b.heap, b.p)[t[2]]
                                IN  Ran("delete_node", <<b, n>>, delete_node(b.heap, b.p, n))
  \/ \E t \in FindKthTests : LET b == Built(t[1]) IN Ran("find_kth", <<b, t[2]>>, find_kth(b.heap, b.p, t[2]))
  \/ \E t \in (ListValues \X ListValues) \cup MergeTests : TwoLists(t[1], t[2])
  \/ \E t \in CommonNodeTests : CommonNode(t[1], t[2], t[3])
  \/ \E k, m, n \in 0 .. 2 : LET Ones(c) == [i \in 1 .. c |-> 1] IN CommonNode(Ones(k), Ones(m), Ones(n))
  \/ \E siblings \in SiblingTests \cup UNION {[1 .. n -> 0 .. n] : n \in 0 .. 3} : CopyComplex(siblings)

\* The nodes on the list that was returned, and what they hold.
After == ListNodes(result.value.heap, result.value.p)
AfterValues == print_list(result.value.heap, result.value.p)
Earlier == given[1]   \* where the arguments are more than a list
NoneFreed(freed) == \A k \in DOMAIN After : After[k] \notin freed

\* A list is turned, grows and shrinks by what is asked, and no node on it is
\* deleted; the node deleted is the one after the node asked for, if there is
\* one (DeleteNodeInList.cpp:17), so that pointers to that one dangle.
ListsRewired ==
  /\ algorithm = "reserved_list" =>
       /\ After = Reverse(ListNodes(given.heap, given.p))
       /\ AfterValues = Reverse(print_list(given.heap, given.p))
  /\ algorithm = "print_reversed_list" =>
       \A i \in {1, 2} : result.value[i] = Reverse(print_list(given.heap, given.p))
  /\ algorithm = "delete_list" => result.value.freed = Ids(given) \ {NULL}
  /\ algorithm = "insert_node" => AfterValues = Append(print_list(Earlier.heap, Earlier.p), given[2])
  /\ algorithm = "delete_value" =>
       LET values == print_list(Earlier.heap, Earlier.p)
           at == {k \in DOMAIN values : values[k] = given[2]}
       IN  /\ AfterValues = IF at = {} THEN values ELSE RemoveAt(values, Min(at))
           /\ Cardinality(result.value.heap.freed) = (IF at = {} THEN 0 ELSE 1)
           /\ NoneFreed(result.value.heap.freed)
  /\ algorithm = "delete_node" =>
       LET nodes == ListNodes(Earlier.heap, Earlier.p)
           at == {k \in DOMAIN nodes : nodes[k] = given[2]}
           gone == {k + (IF k < Len(nodes) THEN 1 ELSE 0) : k \in at}
       IN  /\ AfterValues = LET values == print_list(Earlier.heap, Earlier.p)
                            IN  IF at = {} THEN values ELSE RemoveAt(values, Min(at))
           /\ result.value.heap.freed = {nodes[k] : k \in gone}
           /\ NoneFreed(result.value.heap.freed)
  /\ algorithm = "find_kth" =>
       LET nodes == ListNodes(Earlier.heap, Earlier.p)
       IN  result.value = IF given[2] \in DOMAIN nodes THEN nodes[Len(nodes) - given[2] + 1] ELSE NULL

\* Two sorted lists become one of all their nodes; of two lists, the node that
\* both run into is found.
ListsJoined ==
  /\ algorithm = "merge_lists" =>
       LET nodes == ListNodes(given[1], given[2]) \o ListNodes(given[1], given[3])
       IN  Len(After) = Len(nodes) /\ ToSet(After) = ToSet(nodes) /\ Sorted(AfterValues)
  /\ algorithm = "FindFirstCommonNode" =>
       LET nodes == ListNodes(given.heap, given.p1)
           common == {k \in DOMAIN nodes : nodes[k] \in ToSet(ListNodes(given.heap, given.p2))}
       IN  result.value = IF common = {} THEN NULL ELSE nodes[Min(common)]

\* The original list is as before; node k of it has its clone in After(k), and
\* siblings of clones are the clones of siblings.  clone returns the last one,
\* not the first (CopyComplexList.cpp:60).
ListsCopied ==
  algorithm \in {"clone", "Clone"} =>
    LET h == result.value.heap
        n == Len(given.heap.val)
        Copy(k) == IF k = NULL THEN NULL ELSE n + k
    IN  /\ \A k \in 1 .. n : /\ h.next[k] = given.heap.next[k]
                             /\ h.sibling[k] = given.heap.sibling[k]
                             /\ h.val[Copy(k)] = h.val[k]
                             /\ h.next[Copy(k)] = Copy(h.next[k])
                             /\ h.sibling[Copy(k)] = Copy(h.sibling[k])
        /\ result.value.p \in (IF algorithm = "clone" THEN {IF n = 0 THEN NULL ELSE Copy(n)}
                               ELSE {NULL, IF n = 0 THEN NULL ELSE Copy(1)})

-----------------------------------------------------------------------------
(***************************************************************************)
(* Trees.                                                                  *)
(***************************************************************************)
Fulltrees == UNION {Trees(values) : values \in Inorders}
Size(t) == Len(print_binarytree(t))

OneTree(t) ==
  \/ Ran("mirror_recursive", t, mirror_recursive(t))
  \/ Ran("bfs", t, bfs(t))
  \/ Ran("print_binarytree", t, print_binarytree(t))
  \/ Ran("TreeDepth", t, <<TreeDepth(t), IsBalanced(t)>>)
  \/ \E sum \in 0 .. 8 : Ran("find_path", <<t, sum>>, find_path(t, sum))
  \/ Cardinality(KeysOf(t)) = Size(t) /\ Ran("convert", t, print_double_list(convert(t)))
  \/ /\ algorithm = "none"
     /\ algorithm' = "mirror_iterative" /\ given' = t
     /\ LET s == mirror_iterative(t, 2 * Size(t))
        IN  result' = IF s.stack = <<>> THEN [returned |-> TRUE, value |-> s.root] ELSE [returned |-> FALSE]

ConstructFrom(preorder, inorder) ==
  \E past \in MemoryValues :
    Ran("construct_tree", <<preorder, inorder, past>>, construct_tree(preorder, inorder, past))

Orders == UNION {[1 .. n -> 1 .. 3] : n \in 0 .. 3}

TreeSteps ==
  \/ \E t \in Fulltrees \cup MirrorTests \cup TopToBottomTests \cup ConvertTests \cup DepthTests : OneTree(t)
  \/ \E t \in PathTests : Ran("find_path", t, find_path(t[1], t[2]))
  \/ \E t, u \in Fulltrees : Size(u) <= 2 /\ Ran("has_subtree", <<t, u>>, has_subtree(t, u))
  \/ \E t \in SubtreeTests : Ran("has_subtree", t[1], has_subtree(t[1][1], t[1][2]))
  \/ \E o1, o2 \in Orders : Len(o1) = Len(o2) /\ ConstructFrom(o1, o2)
  \/ \E t \in ConstructTests : ConstructFrom(t[1][1], t[1][2])
  \/ \E s \in Orders \cup {t[1] : t \in SequenceTests} \cup {<<2, 4, 3, 1>>, <<3, 4, 2, 1>>, <<1, 3, 4, 2>>} :
       Ran("dfs_sequence", s, dfs_sequence(s))

RECURSIVE Preorder(_)
Preorder(t) == IF t = NoTree THEN <<>> ELSE <<Key(t)>> \o Preorder(Left(t)) \o Preorder(Right(t))
RECURSIVE Inorder(_)
Inorder(t) == IF t = NoTree THEN <<>> ELSE Inorder(Left(t)) \o <<Key(t)>> \o Inorder(Right(t))
RECURSIVE Postorder(_)
Postorder(t) == IF t = NoTree THEN <<>> ELSE Postorder(Left(t)) \o Postorder(Right(t)) \o <<Key(t)>>

\* The nodes at each depth, from left to right.
RECURSIVE Level(_, _)
Level(t, d) == IF t = NoTree THEN <<>> ELSE IF d = 0 THEN <<Key(t)>>
               ELSE Level(Left(t), d - 1) \o Level(Right(t), d - 1)

\* All paths from the root to a leaf, from left to right.
RECURSIVE PathsToLeaves(_)
PathsToLeaves(t) ==
  IF t = NoTree THEN <<>> ELSE IF IsLeaf(t) THEN <<<<Key(t)>>>>
  ELSE LET below == PathsToLeaves(Left(t)) \o PathsToLeaves(Right(t))
       IN  [k \in DOMAIN below |-> <<Key(t)>> \o below[k]]
Sum(s) == FoldLeft(LAMBDA x, y : x + y, 0, s)

\* A tree is built from orders that have one, and that tree has these orders;
\* of orders that have none, no tree is made unless the memory behind the
\* preorder happens to fit (ConstructBinaryTree.cpp:29).
TreesBuilt ==
  algorithm = "construct_tree" =>
    LET t == result.value
        fit == {u \in Trees(given[2]) : Preorder(u) = given[1]}
    IN  IF t \in {Thrown, Crashed} THEN fit = {} \/ ~IsInjective(given[2])
        ELSE t \in fit \/ given[3] \in ToSet(given[2])

\* The mirror image reads the other way round, for the recursive function; the
\* loop with a stack never ends, unless there is nothing to swap
\* (MirrorOfBinaryTree.cpp:41).
TreesMirrored ==
  /\ algorithm = "mirror_recursive" =>
       /\ Inorder(result.value) = Reverse(Inorder(given))
       /\ Preorder(result.value) = Reverse(Postorder(given))
  /\ algorithm = "mirror_iterative" => (result.returned <=> given = NoTree \/ IsLeaf(given))

\* What is printed, searched and measured.  The order of a search tree is taken
\* for one; of the others, those are refused that do not fall apart into a
\* smaller and a larger part, on the left only (SequenceOfBST.cpp:30).
TreesRead ==
  /\ algorithm = "bfs" => result.value = FlattenSeq([d \in 1 .. 5 |-> Level(given, d - 1)])
  /\ algorithm = "print_binarytree" =>
       [k \in DOMAIN result.value |-> result.value[k][1]] = Preorder(given)
  /\ algorithm = "TreeDepth" =>
       LET Depth(t) == Max({0} \cup {Len(p) : p \in ToSet(PathsToLeaves(t))})
           balanced == \A t \in Subtrees(given) : Depth(Left(t)) - Depth(Right(t)) \in -1 .. 1
       IN  /\ result.value[1] = Depth(given)
           /\ result.value[2] = <<balanced, IF balanced THEN Depth(given) ELSE 0>>
  /\ algorithm = "find_path" =>
       result.value = SelectSeq(PathsToLeaves(given[1]), LAMBDA p : Sum(p) = given[2])
  /\ algorithm = "convert" => result.value = [forth |-> Inorder(given), back |-> Reverse(Inorder(given))]
  /\ algorithm = "has_subtree" =>
       LET Fits(t, u) == \A p \in ToSet(PathsToLeaves(u)) : \E q \in ToSet(PathsToLeaves(t)) : IsPrefix(p, q)
       IN  /\ result.value => \E t \in Subtrees(given[1]) : given[2] # NoTree /\ Fits(t, given[2])
           /\ given[2] \in Subtrees(given[1]) => result.value
  /\ algorithm = "dfs_sequence" =>
       LET SearchTrees(s) == Trees(SortSeq(s, LAMBDA x, y : x < y))
           IsOrder(s) == s # <<>> /\ \E t \in SearchTrees(s) : Postorder(t) = s
           n == Len(given)
       IN  IsInjective(given) =>
             /\ IsOrder(given) => result.value
             /\ result.value /\ ~IsOrder(given) =>
                  \E i, j \in 1 .. n : /\ i < j /\ j < n /\ ~IsOrder(SubSeq(given, i, j))
                                       /\ \A k \in i .. j : given[k] > given[j + 1]

-----------------------------------------------------------------------------
(***************************************************************************)
(* Arrays, strings and numbers.                                            *)
(***************************************************************************)
Rotated(s) == \E k \in 0 .. Len(s) : Sorted(SubSeq(s, k + 1, Len(s)) \o SubSeq(s, 1, k))
Matrices(rows, columns) ==
  {m \in [1 .. rows -> [1 .. columns -> 1 .. 3]] :
     /\ \A i \in 1 .. rows, j \in 2 .. columns : m[i][j - 1] <= m[i][j]
     /\ \A i \in 2 .. rows, j \in 1 .. columns : m[i - 1][j] <= m[i][j]}
Phrases == UNION {[1 .. n -> {Space, 1}] : n \in 0 .. 3}

ArraySteps ==
  \/ \E t \in {<<a, k>> : a \in ListValues, k \in 1 .. 3} \cup {t[1] : t \in KLeastTests} :
       \/ t[1] # <<>> /\ \E a \in solution1(t[1], t[2]) : Ran("solution1", t, a)
       \/ t[2] <= Len(t[1]) /\ \E s \in GetLeastNumbers(t[1], t[2]) : Ran("GetLeastNumbers", t, s)
       \/ Ran("solution2", t, solution2(t[1], t[2]))
  \/ \E a \in (ListValues \cup {t[1] : t \in MoreThanHalfTests}) \ {<<>>} :
       \/ \E r \in solution(a) : Ran("solution", a, r)
       \/ \E r \in MoreThanHalfNum(a) : Ran("MoreThanHalfNum", a, r)
  \/ \E a \in (ListValues \cup {t[1] : t \in MinTests}) \ {<<>>} :
       Rotated(a) /\ Ran("min_in_array", a, min_in_array(a))
  \/ \E m \in Matrices(2, 2), number \in 0 .. 4, before \in MemoryValues :
       Ran("find_in_matrix", <<m, number, before>>, find_in_matrix(m, number, before))
  \/ \E t \in FindTests, before \in MemoryValues :
       Ran("find_in_matrix", <<TestMatrix, t[1], before>>, find_in_matrix(TestMatrix, t[1], before))
  \/ \E columns, rows \in 1 .. 5 : Ran("print_matrix", <<columns, rows>>, print_matrix(columns, rows))
  \/ \E a \in ListValues \cup {<<1, 2, 3, 4, 5, 6, 7>>} :
       \/ Ran("reorder", a, reorder(a))
       \/ Ran("FindGreatestSumOfSubArray", [i \in DOMAIN a |-> a[i] - 2],
              FindGreatestSumOfSubArray([i \in DOMAIN a |-> a[i] - 2]))
       \/ Ran("MergeSortCounting", a, MergeSortCounting([a |-> a, count |-> 0], 0, Len(a) - 1))
       \/ \E k \in 1 .. 3 : Sorted(a) /\ Ran("GetNumberOfK", <<a, k>>, GetNumberOfK(a, k))
       \/ \E sum \in 1 .. 7 : Sorted(a) /\ Ran("FindNumbersWithSum", <<a, sum>>, FindNumbersWithSum(a, sum))

StringSteps ==
  \/ \E t \in {<<str, 9>> : str \in Phrases} \cup {<<str, n>> : str \in Phrases, n \in 4 .. 8}
                \cup {<<t[1], 100>> : t \in ReplaceTests} :
       Len(t[1]) < t[2] /\ Ran("replace_blank", t, replace_blank(t[1], t[2]))
  \/ \E str \in ListValues \cup {<<1, 2, 3>>} : Ran("permutation", str, permutation(str))
  \/ \E s, t \in Strings : LET first == FirstNotRepeatingChar(s, [c \in 1 .. 3 |-> 0])
                           IN  Ran("FirstNotRepeatingChar", <<s, t>>,
                                   <<first.char, FirstNotRepeatingChar(t, first.hashtable).char>>)
  \/ \E t \in {u \in ListValues \X ListValues : Len(u[1]) = Len(u[2])} \cup {u[1] : u \in PopOrderTests} :
       Ran("is_poporder", t, is_poporder(t[1], t[2]))
  \/ \E numbers \in {<<<<3>>, <<3, 2>>, <<3, 2, 1>>>>} \cup [1 .. 3 -> {<<1>>, <<1, 2>>, <<2>>, <<1, 1>>, <<1, 2, 1>>}] :
       Ran("PrintMinNumber", numbers, PrintMinNumber(numbers))

NumberSteps ==
  \/ \E n \in 0 .. 12 : Ran("Fibonacci", n, <<Fibonacci_s1(n), Fibonacci_s2(n)>>)
  \/ \E t \in FibonacciTests : Ran("Fibonacci_s2", t[1], Fibonacci_s2(t[1]))
  \/ \E n \in 0 .. AllOnes : Ran("number_one", n, <<number_one_1(n), number_one_2(n)>>)
  \/ \E base \in {<<n, d>> : n \in -3 .. 3, d \in 1 .. 2}, exponent \in -3 .. 4 :
       Ran("power", <<base, exponent>>, power(base, exponent))
  \/ \E num \in 1 .. 3 : Ran("print_to_max", num, print_to_max(num))
  \/ \E n \in 1 .. LargestNumber : Ran("CountNumOf1", n, CountNumOf1(n))
  \/ \E sum \in 1 .. LargestSum : Ran("FindContinuousSequence", sum, FindContinuousSequence(sum))
  \/ \E k \in 1 .. 20 : Ran("GetUglyNumber", k, GetUglyNumber(k))
  \/ \E data \in {<<2, 4, 3, 6, 3, 2, 5, 5>>} \cup [1 .. 4 -> 0 .. 3] :
       Ran("FindNumsAppearOnce", data, FindNumsAppearOnce(data))

Occurrences(s, x) == Quantify(DOMAIN s, LAMBDA i : s[i] = x)
SameElements(s, t) == Len(s) = Len(t) /\ \A x \in ToSet(s) : Occurrences(s, x) = Occurrences(t, x)
Smallest_k(s, k) == SubSeq(SortSeq(s, LAMBDA x, y : x < y), 1, Min({k, Len(s)}))

\* Whatever pivots are drawn, the k least numbers come to the front, and a
\* number that fills more than half of an array is found; where there is none,
\* MoreThanHalfNumber.cpp returns 0, against what its second test expects.  The
\* least number of a rotated array is missed only for one that stands there
\* twice in a row, as in 2, 2, 1 (MinNumberInRotatedArray.cpp:39).
SelectionsRight ==
  /\ algorithm = "solution1" =>
       /\ SameElements(result.value, given[1])
       /\ given[2] <= Len(given[1]) =>
            SameElements(SubSeq(result.value, 1, given[2]), Smallest_k(given[1], given[2]))
  /\ algorithm \in {"GetLeastNumbers", "solution2"} =>
       SameElements(result.value, Smallest_k(given[1], given[2]))
  /\ algorithm \in {"solution", "MoreThanHalfNum"} =>
       LET most == {x \in ToSet(given) : 2 * Occurrences(given, x) > Len(given)}
       IN  /\ most # {} => result.value \in most
           /\ most = {} /\ algorithm = "solution" => result.value = 0
  /\ algorithm = "min_in_array" =>
       /\ \A t \in MinTests : given = t[1] => result.value = t[2]
       /\ \/ result.value = Min(ToSet(given))
          \/ \E k \in 2 .. Len(given) : given[k - 1] = result.value /\ given[k] = result.value

\* A number is found in the matrix if it is there; it is also found, or the
\* walk does not end, by what lies before the matrix (line 14).  All places of a
\* matrix are printed, each once, each beside the one before.
MatricesWalked ==
  /\ algorithm = "find_in_matrix" =>
       LET there == \E i \in DOMAIN given[1] : given[2] \in ToSet(given[1][i])
       IN  /\ there => result.value.found
           /\ ~there /\ given[3] < given[2] => result.value = [returned |-> TRUE, found |-> FALSE]
  /\ algorithm = "print_matrix" =>
       LET places == result.value
       IN  /\ Len(places) = given[1] * given[2]
           /\ ToSet(places) = (0 .. given[2] - 1) \X (0 .. given[1] - 1)
           /\ \A k \in 2 .. Len(places) :
                LET d == <<places[k][1] - places[k - 1][1], places[k][2] - places[k - 1][2]>>
                IN  d \in {<<0, 1>>, <<0, -1>>, <<1, 0>>, <<-1, 0>>}

\* Odd numbers before even ones; a sum over neighbours that no other exceeds;
\* the pairs in the wrong order counted; how often a number occurs, unless
\* GetLastK ends without returning anything, which it does for all but a last k
\* in the middle (38_numberofk.cpp:49); two numbers with a sum.
ArraysRight ==
  /\ algorithm = "reorder" =>
       /\ SameElements(result.value, given)
       /\ \A i \in 2 .. Len(given) : result.value[i] % 2 = 1 => result.value[i - 1] % 2 = 1
  /\ algorithm = "FindGreatestSumOfSubArray" =>
       result.value = Max({Sum(SubSeq(given, i, j)) : i \in 1 .. Len(given) + 1, j \in 0 .. Len(given)})
  /\ algorithm = "MergeSortCounting" =>
       /\ SameElements(result.value.a, given) /\ Sorted(result.value.a)
       /\ result.value.count =
            Cardinality({p \in (DOMAIN given) \X (DOMAIN given) : p[1] < p[2] /\ given[p[1]] > given[p[2]]})
  /\ algorithm = "GetNumberOfK" =>
       LET n == Len(given[1])
           middle == n > 0 /\ given[1][(n + 1) \div 2] = given[2]
                     /\ (n = 1 \/ given[1][(n + 1) \div 2 + 1] # given[2])
       IN  result.value = IF n = 0 \/ middle THEN Occurrences(given[1], given[2]) ELSE Indeterminate
  /\ algorithm = "FindNumbersWithSum" =>
       LET s == given[1]
           pairs == {<<s[p[1]], s[p[2]]>> : p \in {q \in (DOMAIN s) \X (DOMAIN s) : q[1] < q[2]}}
       IN  IF result.value = <<>> THEN \A p \in pairs : p[1] + p[2] # given[2]
           ELSE result.value \in pairs /\ result.value[1] + result.value[2] = given[2]

\* Every blank becomes three characters, where there is room, and one place
\* behind the buffer is written when the room is just short of that
\* (ReplaceBlank.cpp:22).  Permutations are all printed, as often as letters
\* can change places.  The first letter that occurs once is found among those
\* of all calls so far (35_FirstNotRepeatingChar.cpp:9).
StringsRight ==
  /\ algorithm = "replace_blank" =>
       LET text == FlattenSeq([i \in DOMAIN given[1] |->
                                 IF given[1][i] = Space THEN Percent20 ELSE <<given[1][i]>>])
           memory == result.value
           shown == IF Len(text) > given[2] THEN given[1] ELSE text
       IN  /\ SubSeq(memory, 1, Len(shown) + 1) = Append(shown, Terminator)
           /\ (Len(memory) > given[2] /\ memory[given[2] + 1] # Old)
                <=> (Len(text) = given[2] /\ text # given[1])
  /\ algorithm = "permutation" =>
       LET n == Len(given)
           printed == {p \in [1 .. n -> ToSet(given)] : SameElements(p, given)}
       IN  /\ ToSet(result.value) = printed
           /\ Len(result.value) = FoldLeft(LAMBDA x, y : x * y, 1, [i \in 1 .. n |-> i])
  /\ algorithm = "FirstNotRepeatingChar" =>
       LET First(s, all) == LET once == {i \in DOMAIN s : Occurrences(all, s[i]) = 1}
                            IN  IF once = {} THEN 0 ELSE s[Min(once)]
       IN  result.value = <<First(given[1], given[1]), First(given[2], given[1] \o given[2])>>
  /\ algorithm = "PrintMinNumber" =>
       \A p \in {q \in [1 .. 3 -> 1 .. 3] : IsInjective(q)} :
         ~LowerText(FlattenSeq([i \in 1 .. 3 |-> given[p[i]]]), result.value)

\* The numbers popped are a possible order if no stack is in its way: a number
\* pushed between two that are popped in their order is popped before them.
PopOrdersRight ==
  algorithm = "is_poporder" =>
    LET push == given[1]
        pop == given[2]
        n == Len(push)
        orders == {o \in [1 .. n -> 1 .. n] :
                     /\ IsInjective(o) /\ \A k \in 1 .. n : pop[k] = push[o[k]]
                     /\ \A i, j, k \in 1 .. n : i < j /\ j < k => ~(o[j] < o[k] /\ o[k] < o[i])}
    IN  result.value <=> n > 0 /\ orders # {}

\* The rationals returned by power are right for integers, and for all where
\* the exponent is -1, 0 or 1: what is behind the point is lost (Power.cpp:47).
Power(base, n) == IF n = 0 THEN <<1, 1>> ELSE <<base[1]^n, base[2]^n>>
SameRational(x, y) == x[1] * y[2] = x[2] * y[1] /\ (x[2] = 0 <=> y[2] = 0)
NumbersRight ==
  /\ algorithm = "Fibonacci" => result.value[1] = result.value[2]
  /\ algorithm = "Fibonacci_s2" => <<given, result.value>> \in FibonacciTests
  /\ algorithm = "number_one" =>
       LET ones == Quantify(0 .. WordBits - 1, LAMBDA b : (given \div 2^b) % 2 = 1)
       IN  result.value = <<ones, ones>>
  /\ algorithm = "number_one" => \A t \in NumberOf1Tests : given = t[1] => result.value[1] = t[2]
  /\ algorithm = "power" => \A t \in PowerTests : given = t[1] => result.value = t[2]
  /\ algorithm = "power" =>
       LET base == given[1]
           exponent == given[2]
           positive == Power(base, IF exponent < 0 THEN -exponent ELSE exponent)
           right == IF exponent >= 0 THEN positive
                    ELSE IF base[1] = 0 THEN <<0, 1>> ELSE <<positive[2], positive[1]>>
       IN  (base[2] = 1 \/ exponent \in -1 .. 1) => SameRational(result.value, right)
  /\ algorithm = "print_to_max" =>
       LET Number(s) == FoldLeft(LAMBDA x, y : Radix * x + y, 0, s)
       IN  [k \in DOMAIN result.value |-> Number(result.value[k])] = [k \in 1 .. Radix^given - 1 |-> k]
  /\ algorithm = "CountNumOf1" =>
       result.value = MapThenSumSet(LAMBDA m : Quantify(0 .. 3, LAMBDA d : (m \div 10^d) % 10 = 1), 1 .. given)
  /\ algorithm = "FindContinuousSequence" =>
       /\ IsInjective(result.value)
       /\ ToSet(result.value) = {p \in (1 .. given) \X (1 .. given) :
                                   p[1] < p[2] /\ (p[1] + p[2]) * (p[2] - p[1] + 1) = 2 * given}
  /\ algorithm = "GetUglyNumber" =>
       LET Ugly(n) == \E a \in 0 .. 6, b \in 0 .. 4, c \in 0 .. 3 : n = 2^a * 3^b * 5^c
       IN  Ugly(result.value) /\ Quantify(1 .. result.value, Ugly) = given
  /\ algorithm = "FindNumsAppearOnce" =>
       LET once == {x \in ToSet(given) : Occurrences(given, x) = 1}
       IN  (Cardinality(once) = 2 /\ \A x \in ToSet(given) : Occurrences(given, x) <= 2)
             => ToSet(result.value) = once

-----------------------------------------------------------------------------
ExerNext ==
  /\ algorithm = "none"
  /\ ListSteps \/ TreeSteps \/ ArraySteps \/ StringSteps \/ NumberSteps

ExercisesAgree ==
  /\ ListsRewired /\ ListsJoined /\ ListsCopied
  /\ TreesBuilt /\ TreesMirrored /\ TreesRead
  /\ SelectionsRight /\ MatricesWalked /\ ArraysRight /\ StringsRight /\ PopOrdersRight /\ NumbersRight
=============================================================================
