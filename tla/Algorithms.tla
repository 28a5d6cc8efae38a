------------------------------ MODULE Algorithms ------------------------------
(***************************************************************************)
(* The algorithms of data_structure that work on arrays and strings, each  *)
(* a function from what it is given to what it leaves or prints: sort.cpp, *)
(* LCS.cpp, LCS_continuous.cpp, suffix_LRS.cpp, StrToInt.cpp and           *)
(* binary_index_tree.cpp.  A step runs one of them on one input.           *)
(*                                                                         *)
(* Characters and digits are numbers; arrays are counted from 1.           *)
(***************************************************************************)
LOCAL INSTANCE Integers
LOCAL INSTANCE Sequences
LOCAL INSTANCE FiniteSets
LOCAL INSTANCE FiniteSetsExt

CONSTANTS
  Arrays,       \* what is sorted: sequences of numbers
  PastTheEnd,   \* numbers that may lie behind an array
  Strings,      \* what is compared: sequences of characters
  Numerals,     \* what is converted: sequences of digits and other characters
  IntMax,       \* the largest int (2^31 - 1 in the code)
  TreeMax,      \* MAX (17 in the code)
  Updates       \* calls of Modify: sequences of <<index, num>>

VARIABLES
  algorithm,  \* the function that has run, "none" before
  given,      \* its arguments
  result      \* what it has left; [returned |-> FALSE] if it never returns

algVars == <<algorithm, given, result>>

AlgInit == algorithm = "none" /\ given = <<>> /\ result = [returned |-> FALSE]

Ran(name, arguments, value) ==
  /\ algorithm = "none"
  /\ algorithm' = name
  /\ given' = arguments
  /\ result' = [returned |-> TRUE, value |-> value]

-----------------------------------------------------------------------------
(***************************************************************************)
(* sort.cpp                                                                *)
(***************************************************************************)

swap(a, i, j) == [a EXCEPT ![i] = a[j], ![j] = a[i]]

\* The smaller of two neighbours comes down, from the end to place i.
bubble(a, i) ==
  LET down[j \in Nat] ==
        IF j > Len(a) THEN a
        ELSE LET b == down[j + 1] IN IF b[j] < b[j - 1] THEN swap(b, j, j - 1) ELSE b
  IN  down[i + 1]

bubble_sort(arr) ==
  LET pass[i \in Nat] == IF i = 0 THEN arr ELSE bubble(pass[i - 1], i)
  IN  pass[Len(arr)]

\* The first of the smallest from place i on.
Smallest(a, i) ==
  CHOOSE m \in i .. Len(a) :
    \A j \in i .. Len(a) : a[m] < a[j] \/ (a[m] = a[j] /\ m <= j)

selection_sort(arr) ==
  LET pass[i \in Nat] ==
        IF i = 0 THEN arr ELSE LET a == pass[i - 1] IN swap(a, Smallest(a, i), i)
  IN  pass[Len(arr)]

\* The key at place i goes behind the last one before it that is not larger.
Insert(a, i) ==
  LET j == Max({0} \cup {k \in 1 .. i - 1 : a[k] <= a[i]})
  IN  SubSeq(a, 1, j) \o <<a[i]>> \o SubSeq(a, j + 1, i - 1) \o SubSeq(a, i + 1, Len(a))

insertion_sort(arr) ==
  LET pass[i \in Nat] == IF i <= 1 THEN arr ELSE Insert(pass[i - 1], i)
  IN  pass[Len(arr)]

\* merge reads the two halves past their ends, with no sentinel there: the
\* number it finds there, at every place the same, is past[1] or past[2].
merge(array, p, q, r, past) ==
  LET left  == SubSeq(array, p, q) \o [k \in 1 .. r - p + 1 |-> past[1]]
      right == SubSeq(array, q + 1, r) \o [k \in 1 .. r - p + 1 |-> past[2]]
      \* i, j and the numbers stored after k turns
      after[k \in Nat] ==
        IF k = 0 THEN [i |-> 1, j |-> 1, out |-> <<>>]
        ELSE LET s == after[k - 1]
             IN  IF left[s.i] < right[s.j]
                 THEN [s EXCEPT !.out = Append(@, left[s.i]), !.i = @ + 1]
                 ELSE [s EXCEPT !.out = Append(@, right[s.j]), !.j = @ + 1]
  IN  SubSeq(array, 1, p - 1) \o after[r - p + 1].out \o SubSeq(array, r + 1, Len(array))

RECURSIVE merge_sort(_, _, _, _)
merge_sort(arr, p, r, past) ==
  LET mid == (p + r - 2) \div 2 + 1
      low == merge_sort(arr, p, mid, past)
  IN  IF p < r THEN merge(merge_sort(low, mid + 1, r, past), p, mid, r, past) ELSE arr

\* max_heapify: the largest of place i and its children (the place read behind
\* the array decides nothing); of equal ones the last.
Largest(a, size, i) ==
  LET children == {c \in {2 * i, 2 * i + 1} : c <= size /\ a[c] >= a[i]}
  IN  IF children = {} THEN i
      ELSE CHOOSE c \in children : \A d \in children : a[c] > a[d] \/ (a[c] = a[d] /\ c >= d)

max_heapify(arr, size, place) ==
  LET sift[n \in Nat] ==   \* the array and the place after n calls
        IF n = 0 THEN [a |-> arr, i |-> place]
        ELSE LET s == sift[n - 1]
                 l == Largest(s.a, size, s.i)
             IN  [a |-> swap(s.a, s.i, l), i |-> l]
  IN  sift[Len(arr)].a

build_max_heap(arr) ==
  LET built[n \in Nat] ==
        IF n = 0 THEN arr
        ELSE max_heapify(built[n - 1], Len(arr), Len(arr) \div 2 - n + 1)
  IN  built[Len(arr) \div 2]

heap_sort(arr) ==
  LET taken[n \in Nat] ==
        IF n = 0 THEN build_max_heap(arr)
        ELSE LET i == Len(arr) - n + 1
             IN  max_heapify(swap(taken[n - 1], 1, i), i - 1, 1)
  IN  taken[Len(arr)]

\* partition: the numbers below the last come to the front, and it behind them.
partition(arr, p, r) ==
  LET upTo[i \in Nat] ==
        IF i < p THEN [a |-> arr, small |-> p - 1]
        ELSE LET s == upTo[i - 1]
             IN  IF s.a[i] < s.a[r]
                 THEN [a |-> swap(s.a, s.small + 1, i), small |-> s.small + 1]
                 ELSE s
      end == upTo[r - 1]
  IN  [a |-> swap(end.a, end.small + 1, r), mid |-> end.small + 1]

\* The second call takes the place of the pivot in again: of two equal numbers
\* it never makes anything smaller.  Deeper than twice the length, the calls
\* come back to where they were; the array is then left as <<>>.
RECURSIVE quick_sort(_, _, _, _)
quick_sort(arr, p, r, depth) ==
  LET parted == partition(arr, p, r)
      low == quick_sort(parted.a, p, parted.mid - 1, depth - 1)
  IN  IF arr = <<>> \/ p >= r THEN arr
      ELSE IF depth = 0 THEN <<>>
      ELSE quick_sort(low, parted.mid, r, depth - 1)

Sort(arr) ==
  \/ Ran("bubble_sort", arr, bubble_sort(arr))
  \/ Ran("selection_sort", arr, selection_sort(arr))
  \/ Ran("insertion_sort", arr, insertion_sort(arr))
  \/ Ran("heap_sort", arr, heap_sort(arr))

MergeSort(arr) ==
  \E past \in PastTheEnd \X PastTheEnd :
    Ran("merge_sort", <<arr, past>>, merge_sort(arr, 1, Len(arr), past))

QuickSort(arr) ==
  /\ algorithm = "none"
  /\ algorithm' = "quick_sort"
  /\ given' = arr
  /\ LET sorted == quick_sort(arr, 1, Len(arr), 2 * Len(arr))
     IN  result' = IF Len(sorted) = Len(arr) THEN [returned |-> TRUE, value |-> sorted]
                   ELSE [returned |-> FALSE]

-----------------------------------------------------------------------------
(***************************************************************************)
(* Strings                                                                 *)
(***************************************************************************)

\* LCS.cpp: opt[i][j] for the suffixes from i and j on, and the walk through it.
opt(s, t) ==
  LET table[i \in 1 .. Len(s) + 1, j \in 1 .. Len(t) + 1] ==
        IF i > Len(s) \/ j > Len(t) THEN 0
        ELSE IF s[i] = t[j] THEN table[i + 1, j + 1] + 1
        ELSE Max({table[i + 1, j], table[i, j + 1]})
  IN  table

LCS(s, t) ==
  LET table == opt(s, t)
      walk[i \in 1 .. Len(s) + 1, j \in 1 .. Len(t) + 1] ==
        IF i > Len(s) \/ j > Len(t) THEN <<>>
        ELSE IF s[i] = t[j] THEN <<s[i]>> \o walk[i + 1, j + 1]
        ELSE IF table[i + 1, j] >= table[i, j + 1] THEN walk[i + 1, j]
        ELSE walk[i, j + 1]
  IN  [length |-> table[1, 1], printed |-> walk[1, 1]]

\* LCS_continuous.cpp: a difference ends a common string.
LCS_continuous(s, t) ==
  LET table[i \in 1 .. Len(s) + 1, j \in 1 .. Len(t) + 1] ==
        IF i > Len(s) \/ j > Len(t) THEN 0
        ELSE IF s[i] = t[j] THEN table[i + 1, j + 1] + 1 ELSE 0
  IN  Max({table[i, j] : i \in 1 .. Len(s) + 1, j \in 1 .. Len(t) + 1})

\* suffix_LRS.cpp: how far the suffixes of s from p and q on agree, and which
\* comes first (strcmp).
comlen(s, p, q) ==
  Max({n \in 0 .. Len(s) - Max({p, q}) + 1 : \A k \in 0 .. n - 1 : s[p + k] = s[q + k]})
cmp(s, p, q) ==
  LET n == comlen(s, p, q)
  IN  p + n > Len(s) \/ (q + n <= Len(s) /\ s[p + n] < s[q + n])

\* Neighbours in the order of the suffixes are compared; the first pair that
\* agrees furthest is kept.
LRS_suffix(s) ==
  LET places == 1 .. Len(s)
      before(p) == Cardinality({q \in places \ {p} : cmp(s, q, p)})
      suff == [i \in 0 .. Len(s) - 1 |-> CHOOSE p \in places : before(p) = i]
      len(i) == comlen(s, suff[i], suff[i + 1])
      maxLen == Max({0} \cup {len(i) : i \in 0 .. Len(s) - 2})
      suffixIndex == IF maxLen = 0 THEN 0
                     ELSE Min({i \in 0 .. Len(s) - 2 : len(i) = maxLen})
  IN  SubSeq(s, suff[suffixIndex], suff[suffixIndex] + maxLen - 1)

Plus == 10
Minus == 11
Digits(str) == IF str # <<>> /\ str[1] \in {Plus, Minus} THEN Tail(str) ELSE str

\* StrToInt.cpp: the digits up to the first other character, or up to the first
\* that makes the number larger than an int, whatever its sign.
StrToInt(str) ==
  LET digits == Digits(str)
      num[k \in Nat] == IF k = 0 THEN 0 ELSE num[k - 1] * 10 + digits[k]
      stops == {k \in 1 .. Len(digits) : digits[k] \notin 0 .. 9 \/ num[k] > IntMax}
      stop == Min(stops)
      read == IF digits[stop] \in 0 .. 9 THEN num[stop] ELSE num[stop - 1]
      minus == str # <<>> /\ str[1] = Minus
      Cast(n) == ((n + IntMax + 1) % (2 * (IntMax + 1))) - (IntMax + 1)
  IN  IF stops # {} THEN [status |-> "kInvalid", value |-> Cast(read)]
      ELSE [status |-> "kValid", value |-> IF minus THEN -num[Len(digits)] ELSE num[Len(digits)]]

-----------------------------------------------------------------------------
(***************************************************************************)
(* binary_index_tree.cpp                                                   *)
(***************************************************************************)

LowBit(a) == Max({b \in {1, 2, 4, 8, 16} : a % b = 0})

\* The places that Modify(index) visits: the loop goes up to MAX itself.
Visited(index) ==
  LET at[k \in Nat] == IF k = 0 THEN index ELSE at[k - 1] + LowBit(at[k - 1])
  IN  {at[k] : k \in 0 .. 4} \cap 1 .. TreeMax

\* C after the calls of Modify.
Modify(calls) ==
  [i \in 1 .. TreeMax |->
     MapThenSumSet(LAMBDA k : calls[k][2], {k \in DOMAIN calls : i \in Visited(calls[k][1])})]

GetResult(C, index) ==
  LET sum[i \in Nat] == IF i = 0 THEN 0 ELSE C[i] + sum[i - LowBit(i)]
  IN  sum[index]

-----------------------------------------------------------------------------
AlgNext ==
  \/ \E arr \in Arrays : Sort(arr) \/ MergeSort(arr) \/ QuickSort(arr)
  \/ \E s, t \in Strings :
       \/ Ran("LCS", <<s, t>>, LCS(s, t))
       \/ Ran("LCS_continuous", <<s, t>>, LCS_continuous(s, t))
  \/ \E s \in Strings \ {<<>>} : Ran("LRS_suffix", s, LRS_suffix(s))
  \/ \E str \in Numerals : Ran("StrToInt", str, StrToInt(str))
  \/ \E calls \in Updates :
       Ran("GetResult", calls, [i \in 1 .. TreeMax - 1 |-> GetResult(Modify(calls), i)])

AlgSpec == AlgInit /\ [][AlgNext]_algVars

-----------------------------------------------------------------------------
(***************************************************************************)
(* Properties.                                                             *)
(***************************************************************************)

Sorts(arr, a) ==
  /\ Len(a) = Len(arr)
  /\ \A i \in 2 .. Len(a) : a[i - 1] <= a[i]
  /\ \A i \in 1 .. Len(a) :
       Cardinality({j \in 1 .. Len(a) : a[j] = a[i]}) = Cardinality({j \in 1 .. Len(a) : arr[j] = a[i]})

Distinct(arr) == \A i, j \in 1 .. Len(arr) : arr[i] = arr[j] => i = j

\* Four of the sorting functions sort everything, merge_sort what is smaller
\* than the numbers that lie behind its copies (sort.cpp:95, no bound on i or
\* j), quick_sort what has no equal numbers and whatever it returns from
\* (line 181 passes the pivot on again).
SortingSorts ==
  /\ algorithm \in {"bubble_sort", "selection_sort", "insertion_sort", "heap_sort"} =>
       Sorts(given, result.value)
  /\ algorithm = "merge_sort" =>
       ((\A i \in 1 .. Len(given[1]), k \in 1 .. 2 : given[1][i] < given[2][k])
          => Sorts(given[1], result.value))
  /\ algorithm = "quick_sort" =>
       IF result.returned THEN Sorts(given, result.value) ELSE ~Distinct(given)

Subsequences(s) ==
  LET of[k \in Nat] == IF k = 0 THEN {<<>>} ELSE of[k - 1] \cup {Append(x, s[k]) : x \in of[k - 1]}
  IN  of[Len(s)]

Substrings(s) == {SubSeq(s, i, j) : i \in 1 .. Len(s) + 1, j \in 0 .. Len(s)}

\* The longest common subsequence, common string, and repeated string: what is
\* printed is one, and none is longer.
StringsCompared ==
  /\ algorithm = "LCS" =>
       LET common == Subsequences(given[1]) \cap Subsequences(given[2])
       IN  /\ result.value.printed \in common
           /\ result.value.length = Len(result.value.printed)
           /\ \A x \in common : Len(x) <= result.value.length
  /\ algorithm = "LCS_continuous" =>
       result.value = Max({Len(x) : x \in Substrings(given[1]) \cap Substrings(given[2])})
  /\ algorithm = "LRS_suffix" =>
       LET At(x, i) == SubSeq(given, i, i + Len(x) - 1) = x
           Repeated(x) == x = <<>> \/ \E i, j \in 1 .. Len(given) :
                            i # j /\ i + Len(x) - 1 <= Len(given) /\ j + Len(x) - 1 <= Len(given)
                            /\ At(x, i) /\ At(x, j)
       IN  /\ Repeated(result.value)
           /\ \A x \in Substrings(given) : Repeated(x) => Len(x) <= Len(result.value)

\* A string is valid if it is a sign or none and then digits, or nothing, that
\* make an int when the sign is left out: the smallest int is refused
\* (StrToInt.cpp:33).
NumbersConverted ==
  algorithm = "StrToInt" =>
    LET digits == Digits(given)
        n == Len(digits)
        decimal == MapThenSumSet(LAMBDA k : digits[k] * 10^(n - k), 1 .. n)
        valid == (\A k \in 1 .. n : digits[k] \in 0 .. 9) /\ decimal <= IntMax
    IN  /\ result.value.status = "kValid" <=> valid
        /\ valid => result.value.value = (IF given # <<>> /\ given[1] = Minus THEN -decimal ELSE decimal)

\* GetResult is the sum of what was added up to a place, and no call of Modify
\* writes behind C, although its loop would (binary_index_tree.cpp:17).
SumsAddUp ==
  algorithm = "GetResult" =>
    /\ \A i \in 1 .. TreeMax - 1 :
         result.value[i] = MapThenSumSet(LAMBDA k : given[k][2], {k \in DOMAIN given : given[k][1] <= i})
    /\ \A k \in DOMAIN given : TreeMax \notin Visited(given[k][1])

AlgorithmsAgree == SortingSorts /\ StringsCompared /\ NumbersConverted /\ SumsAddUp
=============================================================================
