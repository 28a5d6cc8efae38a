---------------------------- MODULE NumberExercises ----------------------------
(***************************************************************************)
(* The exercises of jianzhi on numbers.  An int has WordBits bits; where a *)
(* double may be no integer it is <<numerator, denominator>>.  The tests   *)
(* that state what they expect are sets of <<arguments, expected>>.        *)
(***************************************************************************)
LOCAL INSTANCE Integers
LOCAL INSTANCE Sequences
LOCAL INSTANCE FiniteSetsExt
LOCAL INSTANCE SequencesExt
LOCAL INSTANCE Bitwise

CONSTANTS
  WordBits,   \* 32 in the code
  Radix       \* of a BigNum, 10 in the code

-----------------------------------------------------------------------------
\* Fibonacci.cpp: by recursion, and by a loop over the last two.
Fibonacci_s1(n) ==
  LET fib[k \in Nat] == IF k <= 0 THEN 0 ELSE IF k = 1 THEN 1 ELSE fib[k - 1] + fib[k - 2] IN fib[n]
Fibonacci_s2(n) ==
  LET Turn(s, i) == [n1 |-> s.n1 + s.n2, n2 |-> s.n1]
      s == FoldLeft(Turn, [n1 |-> 1, n2 |-> 0], [i \in 1 .. n - 1 |-> i])
  IN  IF n <= 0 THEN 0 ELSE s.n1
FibonacciTests == {<<0, 0>>, <<3, 2>>, <<40, 102334155>>}

-----------------------------------------------------------------------------
\* NumberOf1InBinary.cpp: bit by bit, and by taking the last one away.
AllOnes == 2^WordBits - 1
number_one_1(n) ==
  LET count[k \in Nat] == IF k = 0 THEN 0 ELSE (k & 1) + count[(k \div 2) & (AllOnes \div 2)]
  IN  count[n]
number_one_2(n) ==
  LET count[k \in Nat] == IF k = 0 THEN 0 ELSE 1 + count[(k - 1) & k] IN count[n]

\* The last three of the code, that are made for 32 bits, with WordBits bits.
NumberOf1Tests ==
  {<<0, 0>>, <<1, 1>>, <<10, 2>>, <<2, 1>>,
   <<AllOnes \div 2, WordBits - 1>>, <<AllOnes, WordBits>>, <<2^(WordBits - 1), 1>>}

-----------------------------------------------------------------------------
(***************************************************************************)
(* Power.cpp.  The result of power_core is put into an int twice (lines 47 *)
(* and 50) and loses what it has behind the point.                         *)
(***************************************************************************)
Product(x, y) == <<x[1] * y[1], x[2] * y[2]>>
Truncated(x) == LET q == (IF x[1] < 0 THEN -x[1] ELSE x[1]) \div x[2] IN <<IF x[1] < 0 THEN -q ELSE q, 1>>

power_core(base, exp) ==
  LET core[e \in Nat] ==
        IF e = 0 THEN <<1, 1>> ELSE IF e = 1 THEN base
        ELSE LET half == Truncated(core[e \div 2])
                 res == Product(half, half)
             IN  IF e % 2 = 1 THEN Truncated(Product(res, base)) ELSE res
  IN  core[exp]

\* Infinity is <<1, 0>>; the sign of a negative number is in the numerator.
Reciprocal(x) == IF x[1] < 0 THEN <<-x[2], -x[1]>> ELSE <<x[2], x[1]>>
power(base, exponent) ==
  IF base[1] = 0 /\ exponent < 0 THEN <<0, 1>>
  ELSE IF exponent < 0 THEN Reciprocal(power_core(base, -exponent)) ELSE power_core(base, exponent)

PowerTests == {<<<<<<2, 1>>, 3>>, <<8, 1>>>>, <<<<<<-2, 1>>, 3>>, <<-8, 1>>>>, <<<<<<2, 1>>, -3>>, <<1, 8>>>>}

-----------------------------------------------------------------------------
(***************************************************************************)
(* printnumber.cpp: n[0] is the last digit of a BigNum, all others are     *)
(* zeros; the array has 500 places.                                        *)
(***************************************************************************)
One == [n |-> <<1>>, len |-> 1]
Nines(num) == [n |-> [i \in 1 .. num |-> Radix - 1], len |-> num]
Digit(x, i) == IF i <= Len(x.n) THEN x.n[i] ELSE 0

Add(x, rhs) ==
  LET len == Max({x.len, rhs.len})
      carry[i \in Nat] == IF i = 0 THEN 0 ELSE (Digit(x, i) + Digit(rhs, i) + carry[i - 1]) \div Radix
      n == [i \in 1 .. len + 1 |-> (Digit(x, i) + Digit(rhs, i) + carry[i - 1]) % Radix]
  IN  [n |-> n, len |-> IF n[len + 1] # 0 THEN len + 1 ELSE len]

\* Line 43 compares the digits of the left number only.
Equal(x, rhs) == \A i \in 1 .. x.len : Digit(x, i) = Digit(rhs, i)

Shown(x) == [k \in 1 .. x.len |-> x.n[x.len - k + 1]]

\* The loop of main, up to the number behind all those with num digits.
print_to_max(num) ==
  LET end == Add(Nines(num), One)
      printed[k \in Nat] ==
        IF k = 0 THEN [index |-> One, out |-> <<>>]
        ELSE LET s == printed[k - 1]
             IN  IF Equal(s.index, end) THEN s
                 ELSE [index |-> Add(s.index, One), out |-> Append(s.out, Shown(s.index))]
  IN  printed[Radix^num].out

-----------------------------------------------------------------------------
\* 32_numberof1.cpp: how many ones the numbers up to n are written with.
CountNumOfDigits(n) == Min({d \in 1 .. 9 : n < 10^d})
CountNumOf1(n) ==
  LET count[m \in Nat] ==
        LET ws == CountNumOfDigits(m)
            gw == m \div 10^(ws - 1)
            tmp == m % 10^(ws - 1)
            first == IF gw = 1 THEN tmp + 1 + (ws - 1) * 10^(ws - 2)
                     ELSE 10^(ws - 1) + gw * (ws - 1) * 10^(ws - 2)
        IN  IF m \in 1 .. 9 THEN 1 ELSE first + (IF tmp # 0 THEN count[tmp] ELSE 0)
  IN  count[n]

\* 34_uglynumber.cpp: each index stands at the first number that is too large
\* when it is multiplied.
GetUglyNumber(k) ==
  LET ugly[n \in Nat] ==
        IF n = 0 THEN [numbers |-> <<1>>, index |-> [f \in {2, 3, 5} |-> 1]]
        ELSE LET s == ugly[n - 1]
                 _min == Min({s.numbers[s.index[f]] * f : f \in {2, 3, 5}})
                 numbers == Append(s.numbers, _min)
             IN  [numbers |-> numbers,
                  index |-> [f \in {2, 3, 5} |->
                               Min({i \in s.index[f] .. n + 1 : numbers[i] * f > _min})]]
  IN  ugly[k - 1].numbers[k]

\* 40_numbersappearonce.cpp: the last bit in which the two numbers differ
\* divides the others.
FindNumsAppearOnce(data) ==
  LET resultOR == FoldLeft(LAMBDA x, y : x ^^ y, 0, data)
      indexOf1 == Max({0} \cup {2^b : b \in {c \in 0 .. WordBits - 1 : resultOR % 2^c = 0 /\ resultOR # 0}})
      Of(test) == FoldLeft(LAMBDA x, y : x ^^ y, 0, SelectSeq(data, LAMBDA n : ((n & indexOf1) # 0) = test))
  IN  <<Of(TRUE), Of(FALSE)>>
=============================================================================
