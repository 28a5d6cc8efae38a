---------------------------- MODULE Passthrough ----------------------------
(***************************************************************************)
(* The minifilter: it registers its callbacks with the filter manager,     *)
(* which calls PtPreOperationPassThrough before and                        *)
(* PtPostOperationPassThrough after every operation on a volume it is      *)
(* attached to.  For directory notifications and oplocks it asks for the   *)
(* status of the operation, under a number it draws from                   *)
(* OperationStatusCtx with an increment that is not interlocked.           *)
(***************************************************************************)
LOCAL INSTANCE Integers

CONSTANTS
  PtThreads,        \* the threads that use the volume
  PtOneProcessor,   \* is the increment of the counter one step?
  PtLast            \* bound: the counter is not followed further

ASSUME PtAssumption == PtOneProcessor \in BOOLEAN /\ PtLast \in Nat \ {0}

VARIABLES
  filter,              \* the filter: "out", "registered", "started", "unloading", "gone"
  volume,              \* its instance on the volume: "none", "attached", "teardown"
  ptOp,                \* ptOp[t]: the operation of thread t
  OperationStatusCtx   \* the counter, 1 at first

ptVars == <<filter, volume, ptOp, OperationStatusCtx>>

NoOp == [at |-> "none", ctx |-> 0, post |-> FALSE]

PtTypeOK ==
  /\ filter \in {"out", "registered", "started", "unloading", "gone"}
  /\ volume \in {"none", "attached", "teardown"}
  /\ ptOp \in [PtThreads -> [at : {"none", "increment", "below"}, ctx : 0 .. PtLast,
                             post : BOOLEAN]]
  /\ OperationStatusCtx \in 1 .. PtLast

PtInit ==
  /\ filter = "out" /\ volume = "none"
  /\ ptOp = [t \in PtThreads |-> NoOp]
  /\ OperationStatusCtx = 1

\* DriverEntry registers the filter, if the filter manager lets it, and starts
\* filtering, or unregisters it again.
PtDriverEntry ==
  /\ \/ filter = "out" /\ filter' = "registered"
     \/ filter = "registered" /\ filter' \in {"started", "gone"}
  /\ UNCHANGED <<volume, ptOp, OperationStatusCtx>>

\* PtInstanceSetup agrees to be attached to the volume,
PtInstanceSetup ==
  /\ filter = "started" /\ volume = "none"
  /\ volume' = "attached"
  /\ UNCHANGED <<filter, ptOp, OperationStatusCtx>>

\* PtInstanceQueryTeardown to be detached from it,
PtInstanceQueryTeardown ==
  /\ filter = "started" /\ volume = "attached"
  /\ volume' = "teardown"
  /\ UNCHANGED <<filter, ptOp, OperationStatusCtx>>

\* PtInstanceTearDownStart has nothing to cancel when the filter is unloaded,
PtInstanceTearDownStart ==
  /\ filter = "unloading" /\ volume = "attached"
  /\ volume' = "teardown"
  /\ UNCHANGED <<filter, ptOp, OperationStatusCtx>>

\* and PtInstanceTearDownComplete comes when no operation is left.
PtInstanceTearDownComplete ==
  /\ volume = "teardown"
  /\ \A t \in PtThreads : ptOp[t] = NoOp
  /\ volume' = "none"
  /\ UNCHANGED <<filter, ptOp, OperationStatusCtx>>

\* An operation that needs no status (PtDoRequestOperationStatus), or to a
\* volume without the filter.
PtPreOperation(t) ==
  /\ ptOp[t] = NoOp
  /\ ptOp' = [ptOp EXCEPT ![t] = [at |-> "below", ctx |-> 0, post |-> volume = "attached"]]
  /\ UNCHANGED <<filter, volume, OperationStatusCtx>>

\* IRP_MJ_SHUTDOWN is registered without a callback after it.
PtPreOperationNoPost(t) ==
  /\ ptOp[t] = NoOp
  /\ ptOp' = [ptOp EXCEPT ![t] = [at |-> "below", ctx |-> 0, post |-> FALSE]]
  /\ UNCHANGED <<filter, volume, OperationStatusCtx>>

\* ++OperationStatusCtx, as the second of its two steps stores it.
NextCtx(t) == ptOp[t].ctx + 1

\* An operation whose status is wanted: the counter is read,
PtDoRequestOperationStatus(t) ==
  /\ volume = "attached" /\ ptOp[t] = NoOp
  /\ OperationStatusCtx < PtLast
  /\ PtOneProcessor => \A u \in PtThreads : ptOp[u].at # "increment"
  /\ ptOp' = [ptOp EXCEPT ![t] = [at |-> "increment", ctx |-> OperationStatusCtx, post |-> TRUE]]
  /\ UNCHANGED <<filter, volume, OperationStatusCtx>>

\* stored, and given to FltRequestOperationStatusCallback.
FltRequestOperationStatusCallback(t) ==
  /\ ptOp[t].at = "increment"
  /\ OperationStatusCtx' = NextCtx(t)
  /\ ptOp' = [ptOp EXCEPT ![t] = [at |-> "below", ctx |-> NextCtx(t), post |-> TRUE]]
  /\ UNCHANGED <<filter, volume>>

\* PtOperationStatusCallback reports the status under its number,
PtOperationStatusCallback(t) ==
  /\ ptOp[t].at = "below" /\ ptOp[t].ctx # 0
  /\ ptOp' = [ptOp EXCEPT ![t].ctx = 0]
  /\ UNCHANGED <<filter, volume, OperationStatusCtx>>

\* and PtPostOperationPassThrough ends the operation.
PtPostOperation(t) ==
  /\ ptOp[t].at = "below" /\ ptOp[t].ctx = 0
  /\ ptOp' = [ptOp EXCEPT ![t] = NoOp]
  /\ UNCHANGED <<filter, volume, OperationStatusCtx>>

\* Mutant of PtUnload: the filter is not unregistered.
PtUnloadAtOnce ==
  /\ filter = "started"
  /\ filter' = "gone"
  /\ UNCHANGED <<volume, ptOp, OperationStatusCtx>>

\* PtUnload: FltUnregisterFilter returns when the instance is gone.
PtUnload ==
  /\ \/ filter = "started" /\ filter' = "unloading"
     \/ filter = "unloading" /\ volume = "none" /\ filter' = "gone"
  /\ UNCHANGED <<volume, ptOp, OperationStatusCtx>>

PtNext ==
  \/ PtDriverEntry \/ PtUnload
  \/ PtInstanceSetup \/ PtInstanceQueryTeardown
  \/ PtInstanceTearDownStart \/ PtInstanceTearDownComplete
  \/ \E t \in PtThreads :
       \/ PtPreOperation(t) \/ PtPreOperationNoPost(t)
       \/ PtDoRequestOperationStatus(t)
       \/ FltRequestOperationStatusCallback(t)
       \/ PtOperationStatusCallback(t) \/ PtPostOperation(t)

PtSpec == PtInit /\ [][PtNext]_ptVars

-----------------------------------------------------------------------------
(***************************************************************************)
(* Properties.                                                             *)
(***************************************************************************)

\* Every status callback has a number of its own, however the operations of
\* several threads overlap; and the driver is gone only when no operation will
\* call back into it.
PtCallbacksTold ==
  /\ \A t, u \in PtThreads :
       t # u /\ ptOp[t].at = "below" /\ ptOp[t].ctx # 0 => ptOp[u] # ptOp[t]
  /\ filter = "gone" => \A t \in PtThreads : ~ptOp[t].post

-----------------------------------------------------------------------------
\* The inductive invariant, when PtOneProcessor is TRUE.

\* Whoever is between the two steps of the increment is there alone and has the
\* counter as it is; the numbers given so far are not above it, and differ.
CtxInv ==
  \A t \in PtThreads :
    /\ ptOp[t].ctx <= OperationStatusCtx
    /\ ptOp[t].at = "increment" =>
         /\ ptOp[t].ctx = OperationStatusCtx /\ OperationStatusCtx < PtLast
         /\ \A u \in PtThreads : ptOp[u].at = "increment" => u = t
    /\ \A u \in PtThreads :
         ptOp[t].at = "below" /\ ptOp[u].at = "below" /\ ptOp[t].ctx # 0
           /\ ptOp[t].ctx = ptOp[u].ctx => t = u

\* The instance on the volume outlives the operations that will call back, and
\* the filter the instance.
InstanceInv ==
  /\ \A t \in PtThreads :
       /\ ptOp[t].post => volume # "none"
       /\ ptOp[t].at = "increment" => ptOp[t].post
  /\ filter \in {"out", "registered", "gone"} => volume = "none"

PtInv == PtTypeOK /\ CtxInv /\ InstanceInv
=============================================================================
