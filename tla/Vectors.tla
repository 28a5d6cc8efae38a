------------------------------- MODULE Vectors -------------------------------
(***************************************************************************)
(* data_structure/vector/y_vector.h, a vector with room to grow that       *)
(* constructs and destroys its elements in place, and vector_int of        *)
(* vector.cpp, which copies as many bytes as it has elements when it       *)
(* moves: three quarters of them are lost.                                 *)
(*                                                                         *)
(* The memory from start to end_of_storage is a sequence of cells.  An     *)
(* element argument is a reference: a value, or the number of a cell of    *)
(* the vector itself.  erase(position) and insert_aux in the middle are    *)
(* left out: the first names an identifier that does not exist, the second *)
(* is called at the end only.                                              *)
(***************************************************************************)
EXTENDS Integers, Sequences

CONSTANTS
  VecElems,  \* the elements
  MaxLength  \* bound: the elements of a vector

VARIABLES
  vecKind,  \* the class: "y_vector" or "vector_int"
  cells,    \* the memory
  finish,   \* the number of elements
  meant,    \* history: the elements put in and not taken out, in order
  moved     \* history: how many elements vector_int had whenever it moved

vecVars == <<vecKind, cells, finish, meant, moved>>

NoElement == "raw"        \* a cell where no element lives
Broken == "broken"  \* constructed over an element, or assigned to raw memory

ASSUME VecAssumption == MaxLength \in Nat /\ NoElement \notin VecElems

CellContents == VecElems \cup {NoElement, Broken}

VecTypeOK ==
  /\ vecKind \in {"y_vector", "vector_int"}
  /\ \A k \in 1 .. Len(cells) : cells[k] \in CellContents
  /\ finish \in 0 .. Len(cells)
  /\ Len(meant) <= MaxLength
  /\ moved \subseteq 0 .. MaxLength

-----------------------------------------------------------------------------
\* Cells a + 1 to b: what the iterators a and b enclose.
Slice(c, a, b) == SubSeq(c, a + 1, b)
Times(n, x) == [k \in 1 .. n |-> x]
Within(k, a, s) == k \in a + 1 .. a + Len(s)

\* Elements are constructed from iterator a on (uninitialized_copy, _fill_n).
Construct(c, a, s) ==
  [k \in 1 .. Len(c) |->
     IF Within(k, a, s) THEN IF c[k] = NoElement THEN s[k - a] ELSE Broken ELSE c[k]]

\* Elements are assigned from iterator a on (copy, copy_backward, fill).
AssignOver(c, a, s) ==
  [k \in 1 .. Len(c) |->
     IF Within(k, a, s) THEN IF c[k] # NoElement THEN s[k - a] ELSE Broken ELSE c[k]]

destroy(c, a, b) == [k \in 1 .. Len(c) |-> IF k \in a + 1 .. b THEN NoElement ELSE c[k]]

allocate(n) == Times(n, NoElement)

\* What a reference refers to.
Value(x) == IF x \in 1 .. finish THEN cells[x] ELSE x
References == VecElems \cup 1 .. finish

Larger(m, n) == IF m > n THEN m ELSE n

\* vector(n, value), the default constructor for n = 0.
VecInit ==
  /\ vecKind \in {"y_vector", "vector_int"}
  /\ \E n \in 0 .. MaxLength, x \in VecElems : cells = Times(n, x) /\ meant = Times(n, x)
  /\ finish = Len(cells)
  /\ moved = {}

-----------------------------------------------------------------------------
\* insert_aux at the end, the memory being full: the element is made before
\* the old memory, in which it may lie, is given up.
insert_aux(x) ==
  LET len == IF finish # 0 THEN 2 * finish ELSE 1
  IN  Construct(Construct(allocate(len), 0, Slice(cells, 0, finish)), finish, <<Value(x)>>)

push_back_(x) ==
  /\ vecKind = "y_vector" /\ finish < MaxLength
  /\ cells' = IF finish # Len(cells) THEN Construct(cells, finish, <<Value(x)>>)
              ELSE insert_aux(x)
  /\ finish' = finish + 1
  /\ meant' = Append(meant, Value(x))
  /\ UNCHANGED <<vecKind, moved>>

pop_back_ ==
  /\ vecKind = "y_vector" /\ finish > 0
  /\ cells' = destroy(cells, finish - 1, finish)
  /\ finish' = finish - 1
  /\ meant' = SubSeq(meant, 1, finish - 1)
  /\ UNCHANGED <<vecKind, moved>>

\* erase(first, last); clear erases everything.
erase(first, last) ==
  /\ vecKind = "y_vector" /\ first <= last
  /\ LET gone == last - first
     IN  /\ cells' = destroy(AssignOver(cells, first, Slice(cells, last, finish)), finish - gone, finish)
         /\ finish' = finish - gone
  /\ meant' = Slice(meant, 0, first) \o Slice(meant, last, Len(meant))
  /\ UNCHANGED <<vecKind, moved>>

\* insert n elements: room for them, and more elements behind the position
\* than n.
InsertAmongMany(position, n, x) ==
  LET up   == Construct(cells, finish, Slice(cells, finish - n, finish))
      over == AssignOver(up, position + n, Slice(cells, position, finish - n))
  IN  AssignOver(over, position, Times(n, x))

\* Mutant of InsertAmongFew: the elements are constructed a place too far up.
InsertAmongFewFar(position, n, x) ==
  LET more == Construct(cells, finish, Times(n - (finish - position), x))
      up   == Construct(more, position + n - 1, Slice(cells, position, finish))
  IN  AssignOver(up, position, Times(finish - position, x))

\* Room for them, and no more elements behind the position than n.
InsertAmongFew(position, n, x) ==
  LET more == Construct(cells, finish, Times(n - (finish - position), x))
      up   == Construct(more, position + n, Slice(cells, position, finish))
  IN  AssignOver(up, position, Times(finish - position, x))

\* No room: everything moves to new memory.
InsertElsewhere(position, n, x) ==
  LET len == finish + Larger(finish, n)
      low == Construct(allocate(len), 0, Slice(cells, 0, position))
      new == Construct(low, position, Times(n, x))
  IN  Construct(new, position + n, Slice(cells, position, finish))

insert_(position, n, x) ==
  /\ vecKind = "y_vector" /\ finish + n <= MaxLength
  /\ cells' = IF n = 0 THEN cells
              ELSE IF Len(cells) - finish < n THEN InsertElsewhere(position, n, Value(x))
              ELSE IF finish - position > n THEN InsertAmongMany(position, n, Value(x))
              ELSE InsertAmongFew(position, n, Value(x))
  /\ finish' = finish + n
  /\ meant' = Slice(meant, 0, position) \o Times(n, Value(x)) \o Slice(meant, position, Len(meant))
  /\ UNCHANGED <<vecKind, moved>>

resize(n, x) ==
  IF n < finish THEN erase(n, finish) ELSE insert_(finish, n - finish, x)

-----------------------------------------------------------------------------
\* vector_int moves: memcpy takes finish bytes, four to an element.
Moved == [k \in 1 .. finish |-> IF 4 * k <= finish THEN cells[k] ELSE NoElement]

vector_int_push_back(x) ==
  /\ vecKind = "vector_int" /\ finish < MaxLength
  /\ LET len == IF finish # 0 THEN 2 * finish ELSE 1
         full == finish = Len(cells)
     IN  /\ cells' = IF ~full THEN [cells EXCEPT ![finish + 1] = Value(x)]
                     ELSE Moved \o <<Value(x)>> \o allocate(len - finish - 1)
         /\ moved' = IF full THEN moved \cup {finish} ELSE moved
  /\ finish' = finish + 1
  /\ meant' = Append(meant, Value(x))
  /\ UNCHANGED vecKind

vector_int_pop_back ==
  /\ vecKind = "vector_int" /\ finish > 0
  /\ finish' = finish - 1
  /\ meant' = SubSeq(meant, 1, finish - 1)
  /\ UNCHANGED <<vecKind, cells, moved>>

VecNext ==
  \/ \E x \in References : push_back_(x) \/ vector_int_push_back(x)
  \/ pop_back_ \/ vector_int_pop_back
  \/ \E first, last \in 0 .. finish : erase(first, last)
  \/ \E x \in References, position \in 0 .. finish, n \in 0 .. MaxLength : insert_(position, n, x)
  \/ \E x \in References, n \in 0 .. MaxLength : vecKind = "y_vector" /\ resize(n, x)

VecSpec == VecInit /\ [][VecNext]_vecVars

-----------------------------------------------------------------------------
(***************************************************************************)
(* Properties.                                                             *)
(***************************************************************************)

\* A y_vector is the sequence it is meant to be, whatever was done to it, and
\* no element lives behind it (lines 78-126, 141-230).
YVectorHolds ==
  vecKind = "y_vector" =>
    cells = meant \o allocate(Len(cells) - finish)

\* A vector_int has the right length, and every element that was within the
\* bytes copied whenever it moved with it (vector.cpp:64).
VectorIntHolds ==
  vecKind = "vector_int" =>
    /\ Len(meant) = finish
    /\ \A k \in 1 .. finish :
         cells[k] = meant[k] \/ \E s \in moved : k <= s /\ s < 4 * k /\ cells[k] = NoElement

VectorsHold == VecTypeOK /\ YVectorHolds /\ VectorIntHolds

\* What makes them hold: a vector_int may be given what it has lost to hold.
VecInv ==
  /\ VecTypeOK
  /\ cells \in Seq(CellContents)
  /\ finish <= MaxLength
  /\ Len(meant) = finish
  /\ \/ /\ vecKind = "y_vector" /\ meant \in Seq(VecElems)
        /\ \A k \in 1 .. Len(cells) : cells[k] = IF k <= finish THEN meant[k] ELSE NoElement
     \/ /\ vecKind = "vector_int" /\ meant \in Seq(CellContents)
        /\ VectorIntHolds
=============================================================================
