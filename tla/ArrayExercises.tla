----------------------------- MODULE ArrayExercises ----------------------------
(***************************************************************************)
(* The exercises of jianzhi on arrays and strings.  Arrays are counted from*)
(* 1; a pivot drawn with rand() makes a function return a set of results.  *)
(* The tests of the files that state what they expect are given beside     *)
(* them, as sets of <<arguments, expected>>.                               *)
(***************************************************************************)
LOCAL INSTANCE Integers
LOCAL INSTANCE Sequences
LOCAL INSTANCE FiniteSetsExt
LOCAL INSTANCE SequencesExt

Swapped(a, i, j) == [a EXCEPT ![i] = a[j], ![j] = a[i]]

-----------------------------------------------------------------------------
(***************************************************************************)
(* Array.cpp, KLeastNumbers.cpp, MoreThanHalfNumber.cpp and the same in    *)
(* 30_getkleastnumbers.cpp and 29_morethanhalfnumber.cpp, the latter with  *)
(* the larger numbers in front.                                            *)
(***************************************************************************)

\* partition with the pivot at place index; sign is -1 if the larger come first.
PartitionAt(data, start, end, index, sign) ==
  LET upTo[i \in Nat] ==
        IF i < start THEN [a |-> Swapped(data, index, end), small |-> start - 1]
        ELSE LET s == upTo[i - 1]
             IN  IF sign * s.a[i] < sign * s.a[end]
                 THEN [a |-> Swapped(s.a, i, s.small + 1), small |-> s.small + 1] ELSE s
      s == upTo[end - 1]
  IN  [a |-> Swapped(s.a, s.small + 1, end), index |-> s.small + 1]

\* RandomInRange draws the pivot.
random_partition(data, start, end, sign) ==
  {PartitionAt(data, start, end, index, sign) : index \in start .. end}

\* Partitions, on the side where place k is, until one ends there.
RECURSIVE PartitionUntil(_, _, _, _, _)
PartitionUntil(data, start, end, k, sign) ==
  UNION {IF p.index = k THEN {p.a}
         ELSE IF p.index > k THEN PartitionUntil(p.a, start, p.index - 1, k, sign)
         ELSE PartitionUntil(p.a, p.index + 1, end, k, sign) : p \in random_partition(data, start, end, sign)}

solution1(numbers, k) ==
  IF k \notin 1 .. Len(numbers) THEN {numbers}
  ELSE PartitionUntil(numbers, 1, Len(numbers), k, 1)
GetLeastNumbers(input, k) == {SubSeq(a, 1, k) : a \in solution1(input, k)}

\* The multiset as a sequence, the largest first; it takes a number if it is
\* not full or in place of a larger one.
solution2(data, k) ==
  LET Insert(s, n) == LET larger == SelectSeq(s, LAMBDA m : m >= n)
                      IN  larger \o <<n>> \o SubSeq(s, Len(larger) + 1, Len(s))
      Take(s, n) == IF Len(s) < k THEN Insert(s, n)
                    ELSE IF n < Head(s) THEN Insert(Tail(s), n) ELSE s
  IN  FoldLeft(Take, <<>>, data)

check_morethanhalf(numbers, num) ==
  2 * Quantify(DOMAIN numbers, LAMBDA i : numbers[i] = num) > Len(numbers)
solution(numbers) ==
  LET mid == Len(numbers) \div 2 + 1
  IN  {IF check_morethanhalf(numbers, a[mid]) THEN a[mid] ELSE 0 :
         a \in PartitionUntil(numbers, 1, Len(numbers), mid, 1)}
MoreThanHalfNum(numbers) ==
  LET mid == Len(numbers) \div 2 + 1
  IN  {a[mid] : a \in PartitionUntil(numbers, 1, Len(numbers), mid, -1)}

KLeastTests == {<<<<<<4, 5, 1, 6, 2, 7, 3, 8>>, 4>>, <<1, 2, 3, 4>>>>}
MoreThanHalfTests == {<<<<1, 2, 3, 4, 2, 2, 2, 5, 2, 2>>, 2>>, <<<<1, 2, 3, 4, 5, 6, 7>>, 2>>}

-----------------------------------------------------------------------------
(***************************************************************************)
(* MinNumberInRotatedArray.cpp                                             *)
(***************************************************************************)
min_special(array, index1, index2) == Min({array[i] : i \in index1 .. index2})

RECURSIVE MinBetween(_, _, _, _)
MinBetween(array, index1, index2, mid) ==
  LET half == (index1 + index2 - 2) \div 2 + 1
  IN  IF array[index1] < array[index2] THEN array[mid]
      ELSE IF index1 + 1 = index2 THEN array[index2]
      ELSE IF array[index1] = array[index2] /\ array[index1] = array[half]
      THEN min_special(array, index1, index2)
      ELSE IF array[index1] >= array[half] THEN MinBetween(array, index1, half, half)
      ELSE MinBetween(array, half, index2, half)   \* array[index2] <= array[half]
min_in_array(array) == MinBetween(array, 1, Len(array), 1)

MinTests ==
  {<<<<3, 4, 5, 1, 2>>, 1>>, <<<<3, 4, 5, 1, 1, 2>>, 1>>, <<<<3, 4, 5, 1, 2, 2>>, 1>>,
   <<<<3>>, 3>>, <<<<1, 0, 1, 1, 1>>, 0>>, <<<<1, 2, 3, 4, 5>>, 1>>}

-----------------------------------------------------------------------------
(***************************************************************************)
(* FindInPartiallySortedMatrix.cpp.  The loop looks at columns where it    *)
(* means column (line 14): left of a row lies the row above, and before the*)
(* first row the number before.  If that is larger, the walk does not end. *)
(***************************************************************************)
find_in_matrix(matrix, number, before) ==
  LET columns == Len(matrix[1])
      At(row, column) ==
        LET place == row * columns + column
        IN  IF place < 0 THEN before ELSE matrix[(place \div columns) + 1][(place % columns) + 1]
      turn[k \in Nat] ==
        IF k = 0 THEN [row |-> 0, column |-> columns - 1, found |-> FALSE]
        ELSE LET s == turn[k - 1]
             IN  IF s.row = Len(matrix) \/ s.found THEN s
                 ELSE IF At(s.row, s.column) = number THEN [s EXCEPT !.found = TRUE]
                 ELSE IF At(s.row, s.column) > number THEN [s EXCEPT !.column = @ - 1]
                 ELSE [s EXCEPT !.row = @ + 1]
      s == turn[(Len(matrix) + 1) * (columns + 1)]
  IN  [returned |-> s.found \/ s.row = Len(matrix), found |-> s.found]

TestMatrix == <<<<1, 2, 8, 9>>, <<2, 4, 9, 12>>, <<4, 7, 10, 13>>, <<6, 8, 11, 15>>>>
FindTests == {<<7, TRUE>>, <<5, FALSE>>}

-----------------------------------------------------------------------------
(***************************************************************************)
(* PrintMatrix.cpp: the places <<row, column>> in the order printed.       *)
(***************************************************************************)
print_circle(columns, rows, start) ==
  LET end_x == columns - 1 - start
      end_y == rows - 1 - start
      Up(i, j) == [k \in 1 .. j - i + 1 |-> i + k - 1]     \* i, i + 1, .. j
      Down(i, j) == [k \in 1 .. i - j + 1 |-> i - k + 1]
      Row(y, xs) == [k \in DOMAIN xs |-> <<y, xs[k]>>]
      Column(x, ys) == [k \in DOMAIN ys |-> <<ys[k], x>>]
  IN  Row(start, Up(start, end_x))
      \o (IF start < end_y THEN Column(end_x, Up(start + 1, end_y)) ELSE <<>>)
      \o (IF start < end_y /\ start < end_x THEN Row(end_y, Down(end_x - 1, start)) ELSE <<>>)
      \o (IF start < end_x /\ start < end_y - 1 THEN Column(start, Down(end_y - 1, start + 1)) ELSE <<>>)

print_matrix(columns, rows) ==
  FlattenSeq([k \in 1 .. (Min({columns, rows}) + 1) \div 2 |-> print_circle(columns, rows, k - 1)])

-----------------------------------------------------------------------------
(***************************************************************************)
(* reorder.cpp: from both ends to the next even and the next odd number,   *)
(* which change places.                                                    *)
(***************************************************************************)
reorder(array) ==
  LET turn[k \in Nat] ==
        IF k = 0 THEN [a |-> array, p1 |-> 1, p2 |-> Len(array)]
        ELSE LET s == turn[k - 1]
                 p1 == Min({i \in s.p1 .. s.p2 : i = s.p2 \/ s.a[i] % 2 = 0})
                 p2 == Max({i \in p1 .. s.p2 : i = p1 \/ s.a[i] % 2 = 1})
             IN  IF s.p1 >= s.p2 THEN s ELSE [a |-> Swapped(s.a, p1, p2), p1 |-> p1, p2 |-> p2]
  IN  turn[Len(array)].a

(***************************************************************************)
(* ReplaceBlank.cpp, on length chars that hold str and its end: what the   *)
(* memory from str on holds at the end.  The check counts no place for the *)
(* terminator: new_length may be length, the first place behind.           *)
(***************************************************************************)
Space == 0
Terminator == -1
Percent20 == <<-2, -3, -4>>   \* '%', '2' and '0'
Old == -9                     \* what a place held before the call
replace_blank(str, length) ==
  LET ori_length == Len(str)
      number_blank == Quantify(DOMAIN str, LAMBDA i : str[i] = Space)
      new_length == 2 * number_blank + ori_length
      memory == Append(str, Terminator) \o [k \in 1 .. 2 * number_blank |-> Old]
      Put(m, at, chars) == [i \in DOMAIN m |-> IF i - at \in 1 .. Len(chars) THEN chars[i - at] ELSE m[i]]
      turn[k \in Nat] ==   \* the indexes are those of the code, from 0
        IF k = 0 THEN [m |-> memory, new_index |-> new_length, ori_index |-> ori_length]
        ELSE LET s == turn[k - 1]
                 char == s.m[s.ori_index + 1]
                 chars == IF char = Space THEN Percent20 ELSE <<char>>
             IN  IF s.ori_index < 0 \/ s.new_index <= s.ori_index THEN s
                 ELSE [m |-> Put(s.m, s.new_index - Len(chars) + 1, chars),
                       new_index |-> s.new_index - Len(chars), ori_index |-> s.ori_index - 1]
  IN  IF new_length > length THEN memory ELSE turn[ori_length + 1].m

\* 'h' to 'w' as numbers from 1; the buffer of the test has 100 chars.
ReplaceTests == {<<<<1, 2, 3, 3, 4, Space, 7, 4, 6, 3, 5>>,
                   <<1, 2, 3, 3, 4, -2, -3, -4, 7, 4, 6, 3, 5, Terminator>>>>}

-----------------------------------------------------------------------------
(***************************************************************************)
(* StringPermutation.cpp and 28_stringpermutation.cpp: what is printed;    *)
(* every swap is taken back.                                               *)
(***************************************************************************)
RECURSIVE dfs_permutation(_, _)
dfs_permutation(str, index) ==
  IF index > Len(str) THEN <<str>>
  ELSE FlattenSeq([k \in 1 .. Len(str) - index + 1 |->
                     dfs_permutation(Swapped(str, index + k - 1, index), index + 1)])
permutation(str) == dfs_permutation(str, 1)

\* 35_FirstNotRepeatingChar.cpp: hashtable is global and never set back; 0 is '\0'.
FirstNotRepeatingChar(str, hashtable) ==
  LET counted == [c \in DOMAIN hashtable |->
                    hashtable[c] + Quantify(DOMAIN str, LAMBDA i : str[i] = c)]
      once == {i \in DOMAIN str : counted[str[i]] = 1}
  IN  [char |-> IF once = {} THEN 0 ELSE str[Min(once)], hashtable |-> counted]

\* StackPushPopOrder.cpp: the numbers are pushed until the next one to pop is
\* on top; the stack is a sequence, its top first.
is_poporder(push, pop) ==
  LET len == Len(push)
      Push(s) ==
        LET pushed[k \in Nat] ==
              IF k = 0 THEN s
              ELSE LET t == pushed[k - 1]
                   IN  IF (t.stack # <<>> /\ Head(t.stack) = pop[s.popped + 1]) \/ t.pushed = len THEN t
                       ELSE [t EXCEPT !.stack = <<push[t.pushed + 1]>> \o @, !.pushed = @ + 1]
        IN  pushed[len]
      turn[k \in Nat] ==
        IF k = 0 THEN [stack |-> <<>>, pushed |-> 0, popped |-> 0]
        ELSE LET s == turn[k - 1]
                 t == Push(s)
             IN  IF s.popped = len THEN s
                 ELSE IF Head(t.stack) # pop[s.popped + 1] THEN t
                 ELSE [t EXCEPT !.stack = Tail(@), !.popped = @ + 1]
      s == turn[len]
  IN  len > 0 /\ s.stack = <<>> /\ s.popped = len

PopOrderTests == {<<<<<<1, 2, 3, 4, 5>>, <<4, 5, 3, 2, 1>>>>, TRUE>>,
                  <<<<<<1, 2, 3, 4, 5>>, <<3, 5, 4, 1, 2>>>>, FALSE>>, <<<<<<>>, <<>>>>, FALSE>>}

-----------------------------------------------------------------------------
(***************************************************************************)
(* 31_greatestsumofsubarrays.cpp, 33_sortarrayforminnumber.cpp,            *)
(* 36_inversepairs.cpp, 38_numberofk.cpp and 41_withsum.cpp                *)
(***************************************************************************)
FindGreatestSumOfSubArray(data) ==
  LET Take(s, n) == LET sum == IF s.nCurSum <= 0 THEN n ELSE s.nCurSum + n
                    IN  [nCurSum |-> sum, nGreatestSum |-> Max({s.nGreatestSum, sum})]
  IN  FoldLeft(Take, [nCurSum |-> 0, nGreatestSum |-> 0], data).nGreatestSum

\* Numerals as sequences of digits, sorted by cmp and printed one after another.
LowerText(s, t) == \E k \in 1 .. Len(t) : SubSeq(s, 1, k - 1) = SubSeq(t, 1, k - 1)
                                      /\ (k = Len(s) + 1 \/ (k <= Len(s) /\ s[k] < t[k]))
cmp_concatenated(a, b) == LowerText(a \o b, b \o a)
PrintMinNumber(numbers) == FlattenSeq(SortSeq(numbers, cmp_concatenated))

\* The array and count; places are those of the code, from 0.  count is global
\* and not set back.
MergeHalves(s, first, mid, last) ==
  LET a == s.a
      step[k \in Nat] ==
        IF k = 0 THEN [i |-> first, j |-> mid + 1, tmp |-> <<>>, count |-> s.count]
        ELSE LET t == step[k - 1]
             IN  IF t.i <= mid /\ t.j <= last /\ a[t.i + 1] > a[t.j + 1]
                 THEN [t EXCEPT !.tmp = Append(@, a[t.j + 1]), !.j = @ + 1, !.count = @ + mid - t.i + 1]
                 ELSE IF t.i <= mid THEN [t EXCEPT !.tmp = Append(@, a[t.i + 1]), !.i = @ + 1]
                 ELSE [t EXCEPT !.tmp = Append(@, a[t.j + 1]), !.j = @ + 1]
      merged == step[last - first + 1]
  IN  [a |-> SubSeq(a, 1, first) \o merged.tmp \o SubSeq(a, last + 2, Len(a)), count |-> merged.count]

RECURSIVE MergeSortCounting(_, _, _)
MergeSortCounting(s, first, last) ==
  LET mid == first \div 2 + last \div 2
  IN  IF first >= last THEN s
      ELSE MergeHalves(MergeSortCounting(MergeSortCounting(s, first, mid), mid + 1, last), first, mid, last)

\* Places from 0; -1 if there is none.
RECURSIVE GetFirstK(_, _, _, _)
GetFirstK(data, k, _start, _end) ==
  LET mid == (_start + _end) \div 2
      midData == data[mid + 1]
  IN  IF _start > _end THEN -1
      ELSE IF midData = k /\ (mid = 0 \/ data[mid] # k) THEN mid
      ELSE IF midData >= k THEN GetFirstK(data, k, _start, mid - 1)
      ELSE GetFirstK(data, k, mid + 1, _end)

\* GetLastK does not call itself: unless the middle is the last k, it ends
\* without a return statement.
Indeterminate == -99   \* no number of places
GetLastK(data, k, _start, _end) ==
  LET mid == (_start + _end) \div 2
  IN  IF _start > _end THEN -1
      ELSE IF data[mid + 1] = k /\ (mid = Len(data) - 1 \/ data[mid + 2] # k) THEN mid
      ELSE Indeterminate

GetNumberOfK(data, k) ==
  LET first == GetFirstK(data, k, 0, Len(data) - 1)
      last == GetLastK(data, k, 0, Len(data) - 1)
  IN  IF data = <<>> THEN 0 ELSE IF last = Indeterminate THEN Indeterminate ELSE last - first + 1

RECURSIVE WithSum(_, _, _, _)
WithSum(data, sum, _start, _end) ==
  LET cursum == data[_start] + data[_end]
  IN  IF _end <= _start THEN <<>>
      ELSE IF cursum = sum THEN <<data[_start], data[_end]>>
      ELSE IF cursum > sum THEN WithSum(data, sum, _start, _end - 1)
      ELSE WithSum(data, sum, _start + 1, _end)
FindNumbersWithSum(data, sum) == WithSum(data, sum, 1, Len(data))   \* <<>> is false

\* The pairs <<small, big>> printed.
FindContinuousSequence(sum) ==
  LET mid == (1 + sum) \div 2
      Printed(s) == IF s.cursum = sum THEN [s EXCEPT !.out = Append(@, <<s.small, s.big>>)] ELSE s
      Shorten(s) ==
        LET turn[k \in Nat] ==
              IF k = 0 THEN s
              ELSE LET t == turn[k - 1]
                   IN  IF t.cursum <= sum \/ t.small >= mid THEN t
                       ELSE Printed([t EXCEPT !.cursum = @ - t.small, !.small = @ + 1])
        IN  turn[mid]
      after[k \in Nat] ==
        IF k = 0 THEN [small |-> 1, big |-> 2, cursum |-> 3, out |-> <<>>]
        ELSE LET s == after[k - 1]
                 t == Shorten(Printed(s))
             IN  IF s.small >= mid THEN s ELSE [t EXCEPT !.big = @ + 1, !.cursum = @ + t.big + 1]
  IN  IF sum < 3 THEN <<>> ELSE after[mid].out
=============================================================================
