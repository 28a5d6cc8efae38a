--------------------------- MODULE ThreadsafeQueue ---------------------------
(***************************************************************************)
(* ccia: the queue of listing 4.5 (mutex and condition variable), the two  *)
(* threads of listing 4.1 that use the same scheme by hand, and the stack  *)
(* of listing 3.5.                                                         *)
(*                                                                         *)
(* An operation that holds its lock from beginning to end is one step.     *)
(* data_cond.wait is two: it lets the lock go in the one, and takes it     *)
(* again in the other, when it is notified or wakes for no reason.         *)
(***************************************************************************)
EXTENDS Naturals, Sequences, FiniteSets

CONSTANTS
  Pushers,    \* threads that push: each its own name, over and over
  Poppers,    \* threads that pop, wait or try
  QueueMax    \* bound: pushes stop while so many elements are in the queue

\* There are finitely many threads.
ASSUME TsqAssumption == IsFiniteSet(Poppers) /\ QueueMax \in Nat

VARIABLES
  dataQueue,  \* data_queue
  asleep,     \* the threads blocked in data_cond.wait
  woken,      \* the threads that wait has returned to the lock, not yet in it
  popped,     \* popped[t]: the last element t got, "none", or "false"/"throw"
  program,    \* which listing the threads run: "queue", "chunks" or "stack"
  finished    \* the threads whose function has returned

tsqVars == <<dataQueue, asleep, woken, popped, program, finished>>

TsqTypeOK ==
  /\ dataQueue \in Seq(Pushers) /\ Len(dataQueue) <= QueueMax
  /\ asleep \subseteq Poppers /\ woken \subseteq Poppers \ asleep
  /\ finished \subseteq Poppers
  /\ popped \in [Poppers -> Pushers \cup {"none", "false", "empty", "throw"}]

TsqInit ==
  /\ dataQueue = <<>> /\ asleep = {} /\ woken = {} /\ finished = {}
  /\ popped = [t \in Poppers |-> "none"]
  /\ program \in {"queue", "chunks", "stack"}

Free(t) == t \notin asleep \cup woken \cup finished

-----------------------------------------------------------------------------
\* Mutant of NotifyOne: the notification gets lost.
NotifyNobody == UNCHANGED <<asleep, woken>>

\* data_cond.notify_one, with the lock held: some thread, if one is waiting.
NotifyOne ==
  IF asleep = {} THEN UNCHANGED <<asleep, woken>>
  ELSE \E t \in asleep : asleep' = asleep \ {t} /\ woken' = woken \cup {t}

\* The end of push and of data_preparation_thread's turn.
Append1(p) ==
  /\ Len(dataQueue) < QueueMax
  /\ dataQueue' = Append(dataQueue, p)
  /\ NotifyOne
  /\ UNCHANGED <<popped, program, finished>>

\* threadsafe_queue::push
Push(p) == program = "queue" /\ Append1(p)

Front(t) ==
  /\ popped' = [popped EXCEPT ![t] = Head(dataQueue)]
  /\ dataQueue' = Tail(dataQueue)

\* The predicate of data_cond.wait holds: the thread goes on with the lock.
\* It came to wait just now, or was woken.
PredicateHolds(t) ==
  /\ t \notin asleep \cup finished
  /\ dataQueue # <<>>
  /\ woken' = woken \ {t}
  /\ Front(t)
  /\ UNCHANGED <<asleep, program>>

\* It does not: the thread waits, and lets the lock go.
PredicateFails(t) ==
  /\ t \notin asleep \cup finished
  /\ dataQueue = <<>>
  /\ asleep' = asleep \cup {t} /\ woken' = woken \ {t}
  /\ UNCHANGED <<dataQueue, popped, program, finished>>

\* Both wait_and_pop, by reference and by shared_ptr.
WaitAndPop(t) ==
  /\ program = "queue"
  /\ \/ PredicateHolds(t) /\ UNCHANGED finished
     \/ PredicateFails(t)

\* wait returns without a notification.
SpuriousWake(t) ==
  /\ t \in asleep
  /\ asleep' = asleep \ {t} /\ woken' = woken \cup {t}
  /\ UNCHANGED <<dataQueue, popped, program, finished>>

\* Both try_pop: false, or a null pointer, if there is nothing.
TryPop(t) ==
  /\ program = "queue" /\ Free(t)
  /\ IF dataQueue = <<>>
     THEN popped' = [popped EXCEPT ![t] = "false"] /\ UNCHANGED dataQueue
     ELSE Front(t)
  /\ UNCHANGED <<asleep, woken, program, finished>>

-----------------------------------------------------------------------------
\* Listing 4.1: data_preparation_thread never runs out of data.
DataPreparation(p) == program = "chunks" /\ Append1(p)

\* data_processing_thread: every chunk is the last one.
DataProcessing(t) ==
  /\ program = "chunks"
  /\ \/ PredicateHolds(t) /\ finished' = finished \cup {t}
     \/ PredicateFails(t)

-----------------------------------------------------------------------------
\* Listing 3.5: the stack keeps its top at the head of dataQueue.
StackPush(p) ==
  /\ program = "stack" /\ Len(dataQueue) < QueueMax
  /\ dataQueue' = <<p>> \o dataQueue
  /\ UNCHANGED <<asleep, woken, popped, program, finished>>

\* empty, which the caller may rely on no longer than it holds no lock.
StackEmpty(t) ==
  /\ program = "stack"
  /\ popped[t] # "empty"
  /\ popped' = [popped EXCEPT ![t] = IF dataQueue = <<>> THEN "empty" ELSE "none"]
  /\ UNCHANGED <<dataQueue, asleep, woken, program, finished>>

\* Both pop: empty_stack is thrown if there is nothing.
StackPop(t) ==
  /\ program = "stack"
  /\ IF dataQueue = <<>>
     THEN popped' = [popped EXCEPT ![t] = "throw"] /\ UNCHANGED dataQueue
     ELSE Front(t)
  /\ UNCHANGED <<asleep, woken, program, finished>>

TsqNext ==
  \/ \E p \in Pushers : Push(p) \/ DataPreparation(p) \/ StackPush(p)
  \/ \E t \in Poppers :
       \/ WaitAndPop(t) \/ SpuriousWake(t) \/ TryPop(t)
       \/ DataProcessing(t)
       \/ StackEmpty(t) \/ StackPop(t)

TsqSpec == TsqInit /\ [][TsqNext]_tsqVars

-----------------------------------------------------------------------------
(***************************************************************************)
(* Properties.                                                             *)
(***************************************************************************)

\* While threads sleep in data_cond.wait, every element has a thread that is
\* awake to take it: one notification per push is enough, although a try_pop,
\* or a thread that comes to wait, may take the element first.
ElementsHaveTakers == asleep # {} => Len(dataQueue) <= Cardinality(woken)

\* What makes it inductive: nobody sleeps on the stack.
TakersInv == ElementsHaveTakers /\ (program = "stack" => asleep = {})
=============================================================================
