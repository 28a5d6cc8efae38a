------------------------------- MODULE ComCap -------------------------------
(***************************************************************************)
(* The serial port filter, in its three copies: LyyComCap/ComCap.c,        *)
(* LyyComCap/comcap.c and PComCap.c.  DriverEntry looks for the ports one  *)
(* by one and attaches a filter device to each; a request to a port then   *)
(* enters ccpDispatch, which finds the port of the filter device in        *)
(* s_fltobj and passes the request to s_nextobj; ccpUnload detaches the    *)
(* filters, sleeps, and deletes them.                                      *)
(***************************************************************************)
LOCAL INSTANCE Naturals

CONSTANTS
  CCP_MAX_COM_ID,  \* how many ports are tried
  Callers,         \* the threads that use the ports
  QuietStart,      \* does nobody use a port while DriverEntry attaches?
  Prompt           \* does every ccpDispatch return within five seconds?

ASSUME ComCapAssumption ==
  /\ CCP_MAX_COM_ID \in Nat
  /\ QuietStart \in BOOLEAN /\ Prompt \in BOOLEAN

Coms == 0 .. CCP_MAX_COM_ID - 1

VARIABLES
  copy,       \* which of the three sources is loaded
  io,         \* io[i]: how port i wants its buffers ("none": no such port)
  at,         \* "attach" or "detach" at port turn, "up", "sleep", "gone"
  turn,
  s_fltobj,   \* the filters in the table, with their I/O flag
  onTop,      \* the filters that are on top of their port
  s_nextobj,  \* the filters whose lower device is in the table
  call        \* call[t]: where thread t's request is

comVars == <<copy, io, at, turn, s_fltobj, onTop, s_nextobj, call>>

Idle == [in |-> "app", com |-> 0, kind |-> "pnp", flag |-> "none"]

ComTypeOK ==
  /\ copy \in {"LyyComCap", "comcap", "PComCap"}
  /\ io \in [Coms -> {"none", "buffered", "direct"}]
  /\ at \in {"attach", "up", "detach", "sleep", "gone"}
  /\ turn \in 0 .. CCP_MAX_COM_ID
  /\ s_fltobj \in [Coms -> {"null", "none", "buffered", "direct"}]
  /\ onTop \in SUBSET Coms /\ s_nextobj \in SUBSET Coms
  /\ call \in [Callers -> [in : {"app", "dispatch", "found", "port", "refused", "null"},
                           com : Coms, kind : {"write", "power", "pnp"},
                           flag : {"none", "buffered", "direct"}]]

\* The driver is not loaded; DriverEntry of one copy is the first step.
ComInit ==
  /\ copy = "LyyComCap" /\ io = [i \in Coms |-> "none"]
  /\ at = "gone" /\ turn = 0
  /\ s_fltobj = [i \in Coms |-> "null"]
  /\ onTop = {} /\ s_nextobj = {}
  /\ call = [t \in Callers |-> Idle]

-----------------------------------------------------------------------------
\* DriverEntry up to ccpAttachAllComs; the tables are static and null.
DriverEntry ==
  /\ at = "gone" /\ turn = 0
  /\ io' \in [Coms -> {"none", "buffered", "direct"}]
  /\ at' = "attach"
  /\ UNCHANGED <<turn, s_fltobj, onTop, s_nextobj, call>>

\* The loop of ccpAttachAllComs goes on.
NextCom == turn' = turn + 1

\* ccpOpenCom finds no port, or the filter cannot be created or attached.
SkipCom ==
  /\ at = "attach" /\ turn < CCP_MAX_COM_ID
  /\ s_fltobj[turn] = "null"
  /\ NextCom
  /\ UNCHANGED <<copy, io, at, s_fltobj, onTop, s_nextobj, call>>

\* The first half of ccpAttachDevice: IoCreateDevice writes to s_fltobj, the
\* flags are copied.
CreateFilter(flag) ==
  /\ at = "attach" /\ turn < CCP_MAX_COM_ID
  /\ io[turn] # "none" /\ s_fltobj[turn] = "null"
  /\ s_fltobj' = [s_fltobj EXCEPT ![turn] = flag]
  /\ UNCHANGED <<copy, io, at, turn, onTop, s_nextobj, call>>

\* Mutant of FlagLyyComCap: DO_DIRECT_IO is forgotten there too.
FlagLyyComCapShort == IF io[turn] = "buffered" THEN "buffered" ELSE "none"

\* The flags that the filter takes over from the port, in the three copies.
FlagLyyComCap == io[turn]
FlagComCap == io[turn]
FlagPComCap == IF io[turn] = "buffered" THEN "buffered" ELSE "none"

\* IoAttachDeviceToDeviceStack puts the filter on top of the port, or fails
\* and the filter is deleted.
AttachFilter ==
  /\ at = "attach" /\ turn < CCP_MAX_COM_ID
  /\ s_fltobj[turn] # "null" /\ turn \notin onTop
  /\ \/ onTop' = onTop \cup {turn} /\ UNCHANGED <<turn, s_fltobj>>
     \/ s_fltobj' = [s_fltobj EXCEPT ![turn] = "null"] /\ NextCom /\ UNCHANGED onTop
  /\ UNCHANGED <<copy, io, at, s_nextobj, call>>

\* The last half: the lower device is stored in s_nextobj.
StoreNext ==
  /\ at = "attach" /\ turn \in onTop
  /\ s_nextobj' = s_nextobj \cup {turn}
  /\ NextCom
  /\ UNCHANGED <<copy, io, at, s_fltobj, onTop, call>>

AllAttached ==
  /\ at = "attach" /\ turn = CCP_MAX_COM_ID
  /\ at' = "up"
  /\ UNCHANGED <<copy, io, turn, s_fltobj, onTop, s_nextobj, call>>

-----------------------------------------------------------------------------
\* The I/O manager prepares a request as the top device of the port wants it
\* and calls that device: the filter, or the port itself.  DriverEntry leaves
\* IRP_MJ_PNP, the last function code, to the default handler, which fails it.
Request(t, i, kind) ==
  /\ call[t] = Idle
  /\ io[i] # "none"
  /\ QuietStart => at # "attach"
  /\ call' = [call EXCEPT ![t] =
       [in |-> IF i \notin onTop THEN "port"
               ELSE IF kind = "pnp" THEN "refused" ELSE "dispatch",
        com |-> i, kind |-> kind,
        flag |-> IF i \in onTop THEN s_fltobj[i] ELSE io[i]]]
  /\ UNCHANGED <<copy, io, at, turn, s_fltobj, onTop, s_nextobj>>

\* ccpDispatch looks its device up in s_fltobj: a filter has one port.
Lookup(t) ==
  /\ call[t].in = "dispatch"
  /\ call' = [call EXCEPT ![t].in = "found"]
  /\ UNCHANGED <<copy, io, at, turn, s_fltobj, onTop, s_nextobj>>

\* The request is passed to the device in s_nextobj, as it is: power requests
\* with PoCallDriver, the others with IoCallDriver.
PassDown(t) ==
  /\ call[t].in = "found"
  /\ call' = [call EXCEPT ![t].in = IF call[t].com \in s_nextobj THEN "port" ELSE "null"]
  /\ UNCHANGED <<copy, io, at, turn, s_fltobj, onTop, s_nextobj>>

\* The request comes back to the application.
Return(t) ==
  /\ call[t].in \in {"port", "refused"}
  /\ call' = [call EXCEPT ![t] = Idle]
  /\ UNCHANGED <<copy, io, at, turn, s_fltobj, onTop, s_nextobj>>

-----------------------------------------------------------------------------
\* ccpUnload detaches the filters,
BeginUnloadCom ==
  /\ at = "up"
  /\ at' = "detach" /\ turn' = 0
  /\ UNCHANGED <<copy, io, s_fltobj, onTop, s_nextobj, call>>

DetachFilter ==
  /\ at = "detach" /\ turn < CCP_MAX_COM_ID
  /\ onTop' = IF turn \in s_nextobj THEN onTop \ {turn} ELSE onTop
  /\ NextCom
  /\ UNCHANGED <<copy, io, at, s_fltobj, s_nextobj, call>>

\* Mutant of Sleep: it does not sleep.
SleepNot ==
  /\ at = "detach" /\ turn = CCP_MAX_COM_ID
  /\ at' = "sleep"
  /\ UNCHANGED <<copy, io, turn, s_fltobj, onTop, s_nextobj, call>>

\* sleeps five seconds, for the threads in ccpDispatch to leave,
Sleep ==
  /\ at = "detach" /\ turn = CCP_MAX_COM_ID
  /\ Prompt => \A t \in Callers : call[t].in \notin {"dispatch", "found"}
  /\ at' = "sleep"
  /\ UNCHANGED <<copy, io, turn, s_fltobj, onTop, s_nextobj, call>>

\* and deletes them; the driver is unloaded with its tables.
DeleteFilters ==
  /\ at = "sleep"
  /\ at' = "gone"
  /\ s_fltobj' = [i \in Coms |-> "null"] /\ s_nextobj' = {}
  /\ UNCHANGED <<copy, io, turn, onTop, call>>

\* The functions of the three copies.
EntryLyyComCap == DriverEntry /\ copy' = "LyyComCap"
OpenLyyComCap == copy = "LyyComCap" /\ SkipCom
AttachLyyComCap == copy = "LyyComCap" /\ (CreateFilter(FlagLyyComCap) \/ AttachFilter \/ StoreNext)
AttachAllLyyComCap == copy = "LyyComCap" /\ AllAttached
DispatchLyyComCap(t) == copy = "LyyComCap" /\ (Lookup(t) \/ PassDown(t))
UnloadLyyComCap == copy = "LyyComCap" /\ (BeginUnloadCom \/ DetachFilter \/ Sleep \/ DeleteFilters)

EntryComCap == DriverEntry /\ copy' = "comcap"
OpenComCap == copy = "comcap" /\ SkipCom
AttachComCap == copy = "comcap" /\ (CreateFilter(FlagComCap) \/ AttachFilter \/ StoreNext)
AttachAllComCap == copy = "comcap" /\ AllAttached
DispatchComCap(t) == copy = "comcap" /\ (Lookup(t) \/ PassDown(t))
UnloadComCap == copy = "comcap" /\ (BeginUnloadCom \/ DetachFilter \/ Sleep \/ DeleteFilters)

EntryPComCap == DriverEntry /\ copy' = "PComCap"
OpenPComCap == copy = "PComCap" /\ SkipCom
AttachPComCap == copy = "PComCap" /\ (CreateFilter(FlagPComCap) \/ AttachFilter \/ StoreNext)
AttachAllPComCap == copy = "PComCap" /\ AllAttached
DispatchPComCap(t) == copy = "PComCap" /\ (Lookup(t) \/ PassDown(t))
UnloadPComCap == copy = "PComCap" /\ (BeginUnloadCom \/ DetachFilter \/ Sleep \/ DeleteFilters)

ComNext ==
  \/ EntryLyyComCap \/ EntryComCap \/ EntryPComCap
  \/ OpenLyyComCap \/ OpenComCap \/ OpenPComCap
  \/ AttachLyyComCap \/ AttachComCap \/ AttachPComCap
  \/ AttachAllLyyComCap \/ AttachAllComCap \/ AttachAllPComCap
  \/ \E t \in Callers :
       \/ \E i \in Coms, k \in {"write", "power", "pnp"} : Request(t, i, k)
       \/ DispatchLyyComCap(t) \/ DispatchComCap(t) \/ DispatchPComCap(t)
       \/ Return(t)
  \/ UnloadLyyComCap \/ UnloadComCap \/ UnloadPComCap

ComSpec == ComInit /\ [][ComNext]_comVars

-----------------------------------------------------------------------------
(***************************************************************************)
(* Properties.                                                             *)
(***************************************************************************)

\* ccpDispatch passes every request it gets to the port below ("these requests
\* are sent to the real device unchanged", line 189), with the buffer the port
\* expects; PComCap does so for ports with buffered I/O.
ComCapTransparent ==
  \A t \in Callers :
    /\ call[t].in # "null"
    /\ call[t].in = "port" =>
         \/ call[t].flag = io[call[t].com]
         \/ copy = "PComCap" /\ io[call[t].com] = "direct"

\* No thread is in ccpDispatch, and no filter on a port, when the filters are
\* deleted and the driver is unloaded.
ComCapUnloadSafe ==
  at = "gone" =>
    onTop = {} /\ \A t \in Callers : call[t].in \notin {"dispatch", "found"}

-----------------------------------------------------------------------------
(***************************************************************************)
(* The inductive invariant, when QuietStart and Prompt are TRUE.           *)
(***************************************************************************)

\* A buffer of kind f will do for port i.
FlagFits(f, i) == f = io[i] \/ (copy = "PComCap" /\ io[i] = "direct")

\* The two tables and the stacks of the ports go together.
TablesInv ==
  /\ s_nextobj \subseteq Coms /\ onTop \subseteq Coms /\ turn \in 0 .. CCP_MAX_COM_ID
  /\ io \in [Coms -> {"none", "buffered", "direct"}]
  /\ s_fltobj \in [Coms -> {"null", "none", "buffered", "direct"}]
  /\ at \in {"attach", "up", "detach", "sleep", "gone"}
  /\ \A i \in Coms : s_fltobj[i] = "null" \/ FlagFits(s_fltobj[i], i)
  /\ \A i \in onTop : s_fltobj[i] # "null"
  /\ at = "attach" => s_nextobj = onTop \ {turn} /\ \A i \in onTop : i <= turn
  /\ at = "up" => s_nextobj = onTop
  /\ at = "detach" => onTop = {i \in s_nextobj : turn <= i}
  /\ at \in {"sleep", "gone"} => onTop = {}
  /\ at = "sleep" => turn = CCP_MAX_COM_ID
  /\ at = "gone" => s_nextobj = {} /\ \A i \in Coms : s_fltobj[i] = "null"
  /\ at = "gone" /\ turn = 0 => \A i \in Coms : io[i] = "none"

\* A request in ccpDispatch is for a port whose lower device is in the table.
RequestsInv ==
  /\ call \in [Callers -> [in : {"app", "dispatch", "found", "port", "refused"},
                           com : Nat, kind : {"write", "power", "pnp"},
                           flag : {"none", "buffered", "direct"}]]
  /\ \A t \in Callers :
       /\ call[t] # Idle => call[t].com \in Coms
       /\ call[t].in \in {"dispatch", "found"} => call[t].com \in s_nextobj
       /\ call[t].in \in {"dispatch", "found", "port"} => FlagFits(call[t].flag, call[t].com)
       /\ at \in {"sleep", "gone"} => call[t].in \notin {"dispatch", "found"}
       /\ at = "attach" \/ (at = "gone" /\ turn = 0) => call[t] = Idle

ComInv == TablesInv /\ RequestsInv
=============================================================================
