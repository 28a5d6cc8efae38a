------------------------------ MODULE CppObjects ------------------------------
(***************************************************************************)
(* Classes in C++ that keep a promise over many calls: CQueue, a queue made*)
(* of two stacks, and StackWithMin, both of jianzhi, and the strings that  *)
(* own a buffer: CMyString of jianzhi/AssignmentOperator and y_string of   *)
(* data_structure.  A call is a step.                                      *)
(*                                                                         *)
(* A std::stack is a sequence with its top at the end.  deleteHead uses a  *)
(* reference to an element that it has popped: for the chars of the tests  *)
(* the memory still holds it.  A moved-from y_string holds NULL, and is    *)
(* only destroyed or swapped: to read or copy it is not defined, and the   *)
(* program does not.  Nothing can call operator=(y_string &&): beside      *)
(* operator=(y_string) the call is ambiguous.                              *)
(***************************************************************************)
EXTENDS Integers, Sequences

CONSTANTS
  CppElems,    \* a set of numbers
  MaxCalls,    \* bound: elements appended, elements on the stack
  CppStrings,  \* variables that may hold a string
  CppTexts,    \* what strings say
  MaxBuffers   \* bound: buffers made

ASSUME CppAssumption == CppElems \subseteq Int /\ MaxCalls \in Nat /\ MaxBuffers \in Nat

VARIABLES
  cppClass,  \* the class: "CQueue", "StackWithMin", "CMyString" or "y_string"
  stack1, stack2,   \* of the CQueue
  appended, taken,  \* history: all elements that were appended, and returned
  thrown,           \* the last call has thrown an exception
  m_data, m_min,    \* of the StackWithMin
  overwritten,      \* history: places of m_data that were written through top
  m_pData,   \* the buffer of each string, Null, or NoObject
  buffers,   \* the texts of the buffers made so far
  undeleted, \* the buffers that are not deleted
  says       \* history: what each string is meant to say

queueVars == <<stack1, stack2, appended, taken, thrown>>
minVars == <<m_data, m_min, overwritten>>
stringVars == <<m_pData, buffers, undeleted, says>>
cppVars == <<cppClass, queueVars, minVars, stringVars>>

Null == 0
NoObject == -1
Silence == "nothing"   \* what a string says that was moved from

CppInit ==
  /\ cppClass \in {"CQueue", "StackWithMin", "CMyString", "y_string"}
  /\ stack1 = <<>> /\ stack2 = <<>> /\ appended = <<>> /\ taken = <<>> /\ thrown = FALSE
  /\ m_data = <<>> /\ m_min = <<>> /\ overwritten = {}
  /\ m_pData = [s \in CppStrings |-> NoObject] /\ buffers = <<>> /\ undeleted = {}
  /\ says = [s \in CppStrings |-> Silence]

TopOf(s) == s[Len(s)]
WithoutTop(s) == SubSeq(s, 1, Len(s) - 1)
Turned(s) == [k \in 1 .. Len(s) |-> s[Len(s) + 1 - k]]

-----------------------------------------------------------------------------
(***************************************************************************)
(* CQueue                                                                  *)
(***************************************************************************)
appendTail(node) ==
  /\ cppClass = "CQueue" /\ Len(appended) < MaxCalls
  /\ stack1' = Append(stack1, node)
  /\ appended' = Append(appended, node) /\ thrown' = FALSE
  /\ UNCHANGED <<cppClass, stack2, taken, minVars, stringVars>>

\* stack1 is poured into stack2 when that is empty.
deleteHead ==
  LET poured == stack2 = <<>>
      full == IF poured THEN Turned(stack1) ELSE stack2
  IN  /\ cppClass = "CQueue"
      /\ stack1' = IF poured THEN <<>> ELSE stack1
      /\ \/ /\ full = <<>>
            /\ stack2' = full /\ thrown' = TRUE /\ UNCHANGED taken
         \/ /\ full # <<>>
            /\ stack2' = WithoutTop(full) /\ taken' = Append(taken, TopOf(full)) /\ thrown' = FALSE
      /\ UNCHANGED <<cppClass, appended, minVars, stringVars>>

\* Mutant of deleteHead: stack1 is poured whenever it holds something.
deleteHeadPours ==
  LET full == stack2 \o Turned(stack1)
  IN  /\ cppClass = "CQueue"
      /\ stack1' = <<>>
      /\ \/ /\ full = <<>>
            /\ stack2' = full /\ thrown' = TRUE /\ UNCHANGED taken
         \/ /\ full # <<>>
            /\ stack2' = WithoutTop(full) /\ taken' = Append(taken, TopOf(full)) /\ thrown' = FALSE
      /\ UNCHANGED <<cppClass, appended, minVars, stringVars>>

-----------------------------------------------------------------------------
(***************************************************************************)
(* StackWithMin.  min, top() const, empty and size change nothing; pop of  *)
(* an empty stack ends in its assert.  What top() returns can be written   *)
(* to.                                                                     *)
(***************************************************************************)
push_min(value) ==
  /\ cppClass = "StackWithMin" /\ Len(m_data) < MaxCalls
  /\ m_data' = Append(m_data, value)
  /\ m_min' = Append(m_min, IF m_min = <<>> \/ TopOf(m_min) > value THEN value ELSE TopOf(m_min))
  /\ UNCHANGED <<cppClass, overwritten, queueVars, stringVars>>

pop_min ==
  /\ cppClass = "StackWithMin" /\ m_data # <<>> /\ m_min # <<>>
  /\ m_data' = WithoutTop(m_data) /\ m_min' = WithoutTop(m_min)
  /\ overwritten' = overwritten \ {Len(m_data)}
  /\ UNCHANGED <<cppClass, queueVars, stringVars>>

WriteTop(value) ==
  /\ cppClass = "StackWithMin" /\ m_data # <<>>
  /\ m_data' = [m_data EXCEPT ![Len(m_data)] = value]
  /\ overwritten' = overwritten \cup {Len(m_data)}
  /\ UNCHANGED <<cppClass, m_min, queueVars, stringVars>>

-----------------------------------------------------------------------------
(***************************************************************************)
(* The strings.  When new throws, nothing has changed: no such step is     *)
(* needed.                                                                 *)
(***************************************************************************)
OfStrings == cppClass \in {"CMyString", "y_string"} /\ UNCHANGED <<cppClass, queueVars, minVars>>
Exists(s) == m_pData[s] # NoObject
FreshBuffer == Len(buffers) + 1
MayMake == Len(buffers) < MaxBuffers

\* The constructor from a C string; CMyString makes an empty one of NULL.
ConstructString(s, text) ==
  /\ OfStrings /\ ~Exists(s) /\ MayMake
  /\ m_pData' = [m_pData EXCEPT ![s] = FreshBuffer]
  /\ buffers' = Append(buffers, text) /\ undeleted' = undeleted \cup {FreshBuffer}
  /\ says' = [says EXCEPT ![s] = text]

\* The copy constructor.
CopyString(s, str) ==
  /\ OfStrings /\ ~Exists(s) /\ Exists(str) /\ m_pData[str] # Null /\ MayMake
  /\ m_pData' = [m_pData EXCEPT ![s] = FreshBuffer]
  /\ buffers' = Append(buffers, buffers[m_pData[str]]) /\ undeleted' = undeleted \cup {FreshBuffer}
  /\ says' = [says EXCEPT ![s] = says[str]]

\* The destructor; delete of NULL does nothing.
DestroyString(s) ==
  /\ OfStrings /\ Exists(s)
  /\ undeleted' = undeleted \ {m_pData[s]}
  /\ m_pData' = [m_pData EXCEPT ![s] = NoObject]
  /\ says' = [says EXCEPT ![s] = Silence]
  /\ UNCHANGED buffers

\* s = str: a copy is made, changes buffers with s, and is destroyed.  CMyString
\* does nothing if both are the same.
AssignString(s, str) ==
  /\ OfStrings /\ Exists(s) /\ Exists(str) /\ m_pData[str] # Null /\ MayMake
  /\ cppClass = "y_string" \/ s # str
  /\ buffers' = Append(buffers, buffers[m_pData[str]])
  /\ m_pData' = [m_pData EXCEPT ![s] = FreshBuffer]
  /\ undeleted' = (undeleted \cup {FreshBuffer}) \ {m_pData[s]}
  /\ says' = [says EXCEPT ![s] = says[str]]

\* Only y_string: the move constructor, and swap.
MoveString(s, rhs) ==
  /\ OfStrings /\ cppClass = "y_string" /\ ~Exists(s) /\ Exists(rhs)
  /\ m_pData' = [m_pData EXCEPT ![s] = m_pData[rhs], ![rhs] = Null]
  /\ says' = [says EXCEPT ![s] = says[rhs], ![rhs] = Silence]
  /\ UNCHANGED <<buffers, undeleted>>

SwapStrings(s, rhs) ==
  /\ OfStrings /\ cppClass = "y_string" /\ Exists(s) /\ Exists(rhs)
  /\ m_pData' = [m_pData EXCEPT ![s] = m_pData[rhs], ![rhs] = m_pData[s]]
  /\ says' = [says EXCEPT ![s] = says[rhs], ![rhs] = says[s]]
  /\ UNCHANGED <<buffers, undeleted>>

-----------------------------------------------------------------------------
StringCalls ==
  \E s \in CppStrings :
    \/ \E text \in CppTexts : ConstructString(s, text)
    \/ \E str \in CppStrings : CopyString(s, str) \/ AssignString(s, str) \/ MoveString(s, str) \/ SwapStrings(s, str)
    \/ DestroyString(s)

CppNext ==
  \/ \E x \in CppElems : appendTail(x) \/ push_min(x) \/ WriteTop(x)
  \/ deleteHead \/ pop_min
  \/ StringCalls

CppSpec == CppInit /\ [][CppNext]_cppVars

-----------------------------------------------------------------------------
(***************************************************************************)
(* Properties.                                                             *)
(***************************************************************************)

\* What the two stacks hold is what was appended and not yet returned, in that
\* order, and deleteHead throws only when all has been returned.
QueueHolds ==
  /\ appended = taken \o Turned(stack2) \o stack1
  /\ thrown => taken = appended

\* At every height m_min knows the least of what is below, unless something
\* was written through top at that height or below.
MinHolds ==
  /\ Len(m_min) = Len(m_data)
  /\ \A k \in 1 .. Len(m_data) :
       (\A i \in 1 .. k : i \notin overwritten) =>
         /\ \E i \in 1 .. k : m_min[k] = m_data[i]
         /\ \A i \in 1 .. k : m_min[k] <= m_data[i]

\* Every string has a buffer of its own that is alive and says what it is meant
\* to say; a moved-from one has none.  No other buffer is alive.
StringsHold ==
  LET Holders == {s \in CppStrings : m_pData[s] \notin {Null, NoObject}}
  IN  /\ undeleted = {m_pData[s] : s \in Holders}
      /\ \A s \in Holders : buffers[m_pData[s]] = says[s]
      /\ \A s, r \in Holders : m_pData[s] = m_pData[r] => s = r

CppObjectsHold == QueueHolds /\ MinHolds /\ StringsHold
=============================================================================
