------------------------------- MODULE Yieldo -------------------------------
(***************************************************************************)
(* asyncio/yieldo.py: a scheduler of coroutines with a ready queue and a   *)
(* heap of sleepers, and AsyncQueue, whose waiting consumers are in        *)
(* neither: put and close move one of them back to the ready queue.        *)
(*                                                                         *)
(* Everything runs in one thread.  One step is one turn of Scheduler.run:  *)
(* it takes a coroutine from the ready queue and runs it to its next       *)
(* switch().  Only the clock moves on its own.                             *)
(***************************************************************************)
EXTENDS Naturals, Sequences, FiniteSets

CONSTANTS
  Producers, Consumers, Countups, Countdowns,  \* the coroutines call_soon may get
  Count,     \* how many items a producer puts, how far a counter counts
  MaxTime    \* bound: the clock stops here unless somebody sleeps beyond it

\* No coroutine function is a consumer and something else.
ASSUME YieAssumption == Consumers \cap (Producers \cup Countups \cup Countdowns) = {}

VARIABLES
  ready,     \* sched.ready
  sleeping,  \* sched.sleeping: [deadline, sequence, coro]
  sequence,  \* sched.sequence
  now,       \* time.time()
  items,     \* q.items: who put each
  waiting,   \* q.waiting
  closed,    \* q._closed
  left,      \* left[c]: the turns left in the loop of c
  returned,     \* the coroutines that have returned
  raised,    \* a QueueClosed that nobody catches has ended run
  consumed   \* history: what the consumers got

yieVars == <<ready, sleeping, sequence, now, items, waiting, closed, left, returned, raised, consumed>>

Coroutines == Producers \cup Consumers \cup Countups \cup Countdowns
Spawned == DOMAIN left

YieTypeOK ==
  /\ ready \in Seq(Coroutines) /\ waiting \in Seq(Consumers)
  /\ \A s \in sleeping : s.coro \in Coroutines
  /\ items \in Seq(Producers) /\ consumed \in Seq(Producers)
  /\ closed \in BOOLEAN /\ raised \in BOOLEAN
  /\ returned \subseteq Coroutines

\* The coroutines are handed to call_soon in some order before run is called.
YieInit ==
  /\ ready \in UNION {{q \in [1 .. n -> Coroutines] : \A i, j \in 1 .. n : q[i] = q[j] => i = j} :
                        n \in 1 .. Cardinality(Coroutines)}
  /\ left = [c \in {ready[i] : i \in DOMAIN ready} |-> Count]
  /\ sleeping = {} /\ sequence = 0 /\ now = 0
  /\ items = <<>> /\ waiting = <<>> /\ closed = FALSE
  /\ returned = {} /\ raised = FALSE /\ consumed = <<>>

\* sleep(delay), by the current coroutine: current becomes None, so that run
\* does not queue it again.
Sleep(c, delay) ==
  /\ sequence' = sequence + 1
  /\ sleeping' = sleeping \cup {[deadline |-> now + delay, sequence |-> sequence + 1, coro |-> c]}

\* The heap's order.
Before(s, t) == s.deadline < t.deadline \/ (s.deadline = t.deadline /\ s.sequence < t.sequence)
Earliest == CHOOSE s \in sleeping : \A t \in sleeping \ {s} : Before(s, t)

\* Scheduler.run with an empty ready queue: it sleeps until the first deadline.
RunSleeper ==
  /\ ~raised /\ ready = <<>> /\ sleeping # {}
  /\ ready' = <<Earliest.coro>>
  /\ sleeping' = sleeping \ {Earliest}
  /\ now' = IF Earliest.deadline > now THEN Earliest.deadline ELSE now
  /\ UNCHANGED <<sequence, items, waiting, closed, left, returned, raised, consumed>>

\* Scheduler.run sends None to the first coroutine.
Running(c) == ~raised /\ ready # <<>> /\ Head(ready) = c

\* Mutant of Wake: the waiting consumer is not made ready.
WakeNobody == ready' = Tail(ready) /\ UNCHANGED waiting

\* The first waiting consumer, if there is one, goes behind the ready ones.
Wake ==
  IF waiting = <<>> THEN ready' = Tail(ready) /\ UNCHANGED waiting
  ELSE ready' = Append(Tail(ready), Head(waiting)) /\ waiting' = Tail(waiting)

\* put and then sleep(1); on a closed queue put raises QueueClosed, which the
\* producer does not catch: it ends run.
Put(c) ==
  /\ c \in Producers /\ Running(c) /\ left[c] > 0
  /\ IF closed
     THEN /\ raised' = TRUE /\ ready' = Tail(ready)
          /\ UNCHANGED <<sleeping, sequence, items, waiting, left>>
     ELSE /\ items' = Append(items, c)
          /\ Wake
          /\ Sleep(c, 1)
          /\ left' = [left EXCEPT ![c] = @ - 1]
          /\ UNCHANGED raised
  /\ UNCHANGED <<now, closed, returned, consumed>>

\* The producer is done: close wakes one consumer, if there is nothing left
\* that will.
Close(c) ==
  /\ c \in Producers /\ Running(c) /\ left[c] = 0
  /\ closed' = TRUE
  /\ IF items = <<>> THEN Wake ELSE ready' = Tail(ready) /\ UNCHANGED waiting
  /\ returned' = returned \cup {c}
  /\ UNCHANGED <<sleeping, sequence, now, items, left, raised, consumed>>

\* The consumer gets every item there is, one get after the other, for get
\* switches only when there is none; then it waits, or learns that the queue is
\* closed.
Get(c) ==
  /\ c \in Consumers /\ Running(c)
  /\ consumed' = consumed \o items
  /\ items' = <<>>
  /\ ready' = Tail(ready)
  /\ IF closed THEN returned' = returned \cup {c} /\ UNCHANGED waiting
     ELSE waiting' = Append(waiting, c) /\ UNCHANGED returned
  /\ UNCHANGED <<sleeping, sequence, now, closed, left, raised>>

\* One turn of countdown or countup.
CountBy(c, delay) ==
  /\ Running(c)
  /\ ready' = Tail(ready)
  /\ IF left[c] > 0
     THEN Sleep(c, delay) /\ left' = [left EXCEPT ![c] = @ - 1] /\ UNCHANGED returned
     ELSE returned' = returned \cup {c} /\ UNCHANGED <<sleeping, sequence, left>>
  /\ UNCHANGED <<now, items, waiting, closed, raised, consumed>>

Countdown(c) == c \in Countdowns /\ CountBy(c, 4)
Countup(c) == c \in Countups /\ CountBy(c, 1)

Run ==
  \/ RunSleeper
  \/ \E c \in Coroutines : Put(c) \/ Close(c) \/ Get(c) \/ Countdown(c) \/ Countup(c)

Tick ==
  /\ now < MaxTime
  /\ now' = now + 1
  /\ UNCHANGED <<ready, sleeping, sequence, items, waiting, closed, left, returned, raised, consumed>>

YieNext == Run \/ Tick

YieSpec == YieInit /\ [][YieNext]_yieVars

\* The interpreter goes on with run while it has something to do.
YieFairness == WF_yieVars(Run)

-----------------------------------------------------------------------------
(***************************************************************************)
(* Properties.                                                             *)
(***************************************************************************)

\* An item that lies in the queue while consumers wait has already made one of
\* them ready: put wakes one waiter for each item (lines 73-74), and a waiter
\* may find that another consumer was faster.
NoItemStranded ==
  items # <<>> /\ waiting # <<>> => \E i \in 1 .. Len(ready) : ready[i] \in Consumers

RunReturned == ready = <<>> /\ sleeping = {}

\* What run leaves behind when it returns.  With one producer everything that
\* was put is consumed, in order, if there is a consumer, every other coroutine
\* has returned, and of the consumers at least one; the other consumers wait for
\* ever, for close wakes one of them only (lines 65-66).
YieResult ==
  /\ Spawned \ Consumers \subseteq returned
  /\ Spawned \cap Consumers # {} /\ closed => returned \cap Consumers # {} /\ items = <<>>

\* run returns, with that result; with two producers the first one to end may
\* close the queue under the other one's feet, and run ends with an exception.
YieldoFinishes ==
  <>(\/ RunReturned /\ YieResult
     \/ raised /\ Cardinality(Spawned \cap Producers) > 1)
=============================================================================
