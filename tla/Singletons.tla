------------------------------ MODULE Singletons ------------------------------
(***************************************************************************)
(* jianzhi/Singleton/Program.cs: five ways to make a singleton, and threads*)
(* that ask for its Instance, again and again.  A step is one access to a  *)
(* field that threads share.                                               *)
(*                                                                         *)
(* The fields of Singleton4 and of the class inside Singleton5 are         *)
(* initialized once, by the runtime (TypeInit): for Singleton5, which has a*)
(* static constructor, when a thread asks for the field, for Singleton4 at *)
(* any time before that.                                                   *)
(***************************************************************************)
EXTENDS Naturals

CONSTANT SinThreads   \* the threads

VARIABLES
  singleton,  \* the class
  instance,   \* its field: the number of an object, or NullInstance
  created,    \* objects made
  syncobj,    \* who holds the lock, if anybody
  inCall,     \* inCall[t]: where thread t is in Instance
  got,        \* got[t]: what the last call of thread t returned
  raced       \* history: a thread found null that another was about to replace

sinVars == <<singleton, instance, created, syncobj, inCall, got, raced>>

NullInstance == 0
Unlocked == "unlocked"

ASSUME SinAssumption == Unlocked \notin SinThreads

Lazy == {"Singleton1", "Singlenton2", "Singleton3"}
Eager == {"Singleton4", "Singleton5"}

SinInit ==
  /\ singleton \in Lazy \cup Eager
  /\ instance = NullInstance /\ created = 0 /\ syncobj = Unlocked
  /\ inCall = [t \in SinThreads |-> "outside"]
  /\ got = [t \in SinThreads |-> NullInstance]
  /\ raced = FALSE

Advances(t, from, to) == inCall[t] = from /\ inCall' = [inCall EXCEPT ![t] = to]

-----------------------------------------------------------------------------
\* A thread reads Instance.
Ask(t) ==
  /\ Advances(t, "outside", CASE singleton \in {"Singleton1", "Singleton3"} -> "check"
                          [] singleton = "Singlenton2" -> "lock"
                          [] OTHER -> "return")
  /\ UNCHANGED <<singleton, instance, created, syncobj, got, raced>>

\* The test outside the lock.
Check(t) ==
  /\ Advances(t, "check", IF instance # NullInstance THEN "return"
                      ELSE IF singleton = "Singleton1" THEN "new" ELSE "lock")
  /\ raced' = (raced \/ (instance = NullInstance /\ \E u \in SinThreads : inCall[u] = "new"))
  /\ UNCHANGED <<singleton, instance, created, syncobj, got>>

Lock(t) ==
  /\ Advances(t, "lock", "locked") /\ syncobj = Unlocked
  /\ syncobj' = t
  /\ UNCHANGED <<singleton, instance, created, got, raced>>

\* The test inside the lock.
CheckLocked(t) ==
  /\ Advances(t, "locked", IF instance = NullInstance THEN "new" ELSE "unlock")
  /\ UNCHANGED <<singleton, instance, created, syncobj, got, raced>>

\* Mutant of CheckLocked: Singleton3 does not test again.
CheckLockedNot(t) ==
  /\ Advances(t, "locked", IF instance = NullInstance \/ singleton = "Singleton3" THEN "new" ELSE "unlock")
  /\ UNCHANGED <<singleton, instance, created, syncobj, got, raced>>

New(t) ==
  /\ Advances(t, "new", IF singleton = "Singleton1" THEN "return" ELSE "unlock")
  /\ created' = created + 1 /\ instance' = created + 1
  /\ UNCHANGED <<singleton, syncobj, got, raced>>

Unlock(t) ==
  /\ Advances(t, "unlock", "return")
  /\ syncobj' = Unlocked
  /\ UNCHANGED <<singleton, instance, created, got, raced>>

\* The runtime initializes the field that the thread asks for.
TypeInit ==
  /\ singleton \in Eager /\ instance = NullInstance
  /\ singleton = "Singleton4" \/ \E t \in SinThreads : inCall[t] = "return"
  /\ created' = created + 1 /\ instance' = created + 1
  /\ UNCHANGED <<singleton, syncobj, inCall, got, raced>>

\* The field is read once more.
Return(t) ==
  /\ Advances(t, "return", "outside")
  /\ singleton \in Eager => instance # NullInstance
  /\ got' = [got EXCEPT ![t] = instance]
  /\ UNCHANGED <<singleton, instance, created, syncobj, raced>>

SinNext ==
  \/ \E t \in SinThreads :
       Ask(t) \/ Check(t) \/ Lock(t) \/ CheckLocked(t) \/ New(t) \/ Unlock(t) \/ Return(t)
  \/ TypeInit

SinSpec == SinInit /\ [][SinNext]_sinVars

-----------------------------------------------------------------------------
(***************************************************************************)
(* Properties.                                                             *)
(***************************************************************************)

\* All threads are given the same object, and nobody is given null; of
\* Singleton1 there are two objects only after two threads have found null
\* together.
OneInstance ==
  /\ singleton # "Singleton1" \/ ~raced => created <= 1 /\ \A t \in SinThreads : got[t] <= 1
  /\ \A t \in SinThreads : inCall[t] = "return" /\ singleton \in Lazy => instance # NullInstance
=============================================================================
