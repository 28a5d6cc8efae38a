------------------------------- MODULE Programs -------------------------------
(***************************************************************************)
(* What the programs other than drivers promise that goes beyond one of    *)
(* them.                                                                   *)
(***************************************************************************)
EXTENDS ThreadsafeQueue, Yieldo, Ttcp, RustLists, Vectors, SearchTree,
        CppObjects, Singletons

\* Whoever hands something on is understood: no item of yieldo.py lies in the
\* queue while all who could take it wait, clients and servers of ttcp count
\* the same messages, only the death of a client or a negative length ends a
\* server, and all who ask for a singleton are given the same object.
DeliveriesAgree == NoItemStranded /\ TtcpCounts /\ TtcpSurvives /\ OneInstance

\* The lists of rust/lists, the vectors, the search tree, the queue of two
\* stacks, the stack with a minimum and the strings hold what was put into them.
ContainersGiveBack == ListsHold /\ VectorsHold /\ SearchTreeHolds /\ CppObjectsHold
=============================================================================
