# Verification of durian_cake

`durian_cake` is a collection of some sixty independent programs, written over
the years while learning a language, a library or a book. There is no single
system in it. What has real concurrency, shared state and a hard contract with
its environment is `driver/`: Windows kernel drivers that queue, cancel, park,
time, filter and serve I/O request packets (IRPs). Around them stand a coroutine
scheduler, a thread-safe queue, a web framework, a throughput test in three
languages, data structures, a set of command line tools and some sixty exercises
from interviews. This directory holds TLA+ models of those, their TLC runs, and
TLAPS proofs about most of the components that keep state.

Paths below are relative to `src/`; `WDDI` stands for
`driver/windows_driver_development_internals`.

- [1. The inventory](#1-the-inventory)
- [2. The environment: what is external](#2-the-environment-what-is-external)
- [3. The modules](#3-the-modules)
- [4. The runs](#4-the-runs)
- [5. What is proved](#5-what-is-proved)
- [6. What the code does not do](#6-what-the-code-does-not-do)
- [7. Not modelled](#7-not-modelled)
- [8. The plan](#8-the-plan)

## 1. The inventory

### Drivers

| component | state it keeps | operations | hard behaviours | what makes it correct |
|---|---|---|---|---|
| `WDDI/chap09/StartIoTest` | the I/O manager's device queue, its busy flag, `CurrentIrp`; per packet the Cancel flag and the cancel routine | `HelloDDKRead`, `HelloDDKStartIo`, `OnCancelIRP` | cancelling the current packet starts the next one while the old `HelloDDKStartIo` is still on its way; packets are completed outside the cancel lock; recursion through `IoStartNextPacket` | every read completed once; one read served at a time; a busy device is never abandoned |
| `WDDI/chap09/SpecialStartIo` | a device queue of its own | `HelloDDKRead`, `MyStartIo`, `OnCancelIRP` | one reader serves the queue for all; `OnCancelIRP` leaves the packet in the queue | one server at a time; nothing left in a queue nobody serves |
| `WDDI/chap09/CancelIRPTest` | the cancel lock, the interrupt level of each thread, a cancel routine per packet | `HelloDDKRead`, `CancelReadIRP` | the level to go back to is read from a packet that is completed already | the caller's level is restored; every read can be cancelled until it is completed |
| `WDDI/chap09/PendingIRPTest` | a doubly linked list without a lock | `HelloDDKRead`, `HelloDDKCleanUp` | list macros interleaving store by store | the list holds exactly the pending packets; closing completes them all |
| `WDDI/chap10/DPCTimer` | a one-shot timer, its DPC, the interval | START, STOP, `PollingTimerDpc`, unload | a DPC that is queued when the timer is cancelled; 32-bit wrap of the interval; unloading | polling goes on until STOP and not longer; nothing refers to a deleted device |
| `WDDI/chap10/IoTimerTest` | a count-down | START, STOP, `OnTimer` | a plain store between two interlocked operations | timeouts neither early nor late |
| `WDDI/chap11` (DriverA, three variants of driver B) | one slot for a packet, one timer, one DPC, an exclusive device | a read of B opens DriverA and reads it | room for one read only; a handle that is closed uninitialised; a deleted device with a timer in it | every read of B returns; the slot is enough |
| `driver/LyyKeyCap` (and `ttt.c`), `PKeyCap` | the count of reads under way, the filter devices | attach, `c2pDispatchRead`, `c2pReadComplete`, power, removal, `c2pUnload` | `++` and `--` in different contexts; an attachment that fails half-way; unloading code whose completion routine is pending | the count is right; the code is not freed while in use |
| `driver/LyyComCap` (two copies), `PComCap` | tables of filter and lower devices | attach, `ccpDispatch`, unload | a table filled in two steps; unloading after a fixed delay | every request passed on; nothing in the driver when it goes |
| WDM drivers of `WDDI/chap01`, `chap04` | the device with the fixed name, the link | AddDevice, PnP dispatch, removal | a failure in the middle of AddDevice; a removal that leaves its link | the name comes back |
| `driver/LyyRamdisk`, `PRamdisk` | a disk image and its geometry | add, format, read, write, control, cleanup | a FAT whose size depends on itself; an image that could not be allocated | the layout fits; copies inside the image and not interleaved |
| sixteen small NT drivers | device and link names, shared | load, open, read, close, unload | names that others leave behind | a failed load leaves nothing; links lead to a device |
| `driver/Minifilter passthrough` | its registration, a counter | pre- and post-operation, status callback, teardown | an increment that is not interlocked | every status callback its own number; gone only when nobody calls back |

The drivers do not call each other, except driver B of chap11, which calls
DriverA. Everything else goes through the kernel: dispatch routines run in the
thread that issued the packet, cancel routines in the thread that cancels,
timers' DPCs on top of any thread of their processor, completion routines in
whatever context completes the packet. Shared state is the device extension,
the packet itself, and the names of the object manager.

### The rest

| component | state | hard behaviours | what makes it correct |
|---|---|---|---|
| `asyncio/yieldo.py` | ready queue, heap of sleepers, waiters of a queue | waiters that are in no queue of the scheduler; `close` wakes one of them | `run` returns, everything put is consumed, no item lies while consumers wait |
| `ccia/src` listings 3.5, 4.1, 4.5 | a queue with a condition variable, a stack | wake-ups shared with `try_pop` | nobody sleeps while an element has nobody awake to take it |
| `baohttp/bao` | trie of routes, groups, chain of handlers | wildcards in the order of insertion; `Next` inside `Next`; a recovered panic | the route found matches; each handler runs once, in order |
| `network/ttcp` | a session per connection | a client that dies between two messages | the counts agree; who survives what |
| `data_structure/rb-tree.cpp` | nodes with parent pointers and colours | rotations, deletion fix-up | red-black conditions, every key found |
| `data_structure/binary_search_tree.cpp` | nodes with parent pointers | a key inserted twice | the tree holds what was inserted |
| `data_structure/vector` | memory that grows and moves | arguments that lie inside the vector | the vector is the sequence it is meant to be |
| sorting, strings, sums in `data_structure` | none | loops at their ends | the result against its definition |
| `rust/lists` | nodes with one or several owners | taking the last element from either end | the list holds what was put in; no node outlives it |
| `CQueue`, `StackWithMin`, `CMyString` (`jianzhi`), `y_string` | two stacks; a stack beside a stack; who owns which buffer | pouring one stack into the other; writing through `top()`; assignment to itself; moved-from strings | a queue; the minimum; one live buffer for each string |
| `jianzhi/Singleton` (C#) | a field, a lock, the runtime's initialization | the test without a lock; the second test under it | one object for all who ask |
| some sixty functions of `jianzhi` | none beyond a call; the heap of nodes during it | null pointers, one node, equal numbers, wrap-around | the result against its definition; what the tests expect |
| `rust`, `rustcli` tools | what the options mean, the file that is read | missing files, directories, pipes, blank lines, the last line | what is printed, against its definition |

## 2. The environment: what is external

The kernel, the C++, Go, Python and Rust libraries are not in the repository.
They are modelled by what the programs rely on, each as a definition that
`PROJECT.json` marks external:

- `IoStartPacket`, `IoStartNextPacket`, `KeInsertDeviceQueue`,
  `KeRemoveDeviceQueue`, `KeRemoveEntryDeviceQueue`: atomic, the device queue
  has a lock. `IoStartPacket` calls the cancel routine itself when it finds the
  Cancel flag set on a packet it has queued, and does not look at the flag when
  the device is idle.
- `IoCancelIrp`: takes the cancel lock, sets the flag, takes the cancel routine
  out and calls it with the lock held.
- `IoCompleteRequest`: gives the packet back; its memory may be reused later.
  Completing a packet a second time stops the system; the models note it as the
  life `"twice"` of the packet, which never ends, so that a property can see it.
- `CancelIo`, and the APC that frees a completed packet when the thread that
  issued it is at PASSIVE_LEVEL.
- a timer expires at any time after it is set; a DPC that is queued is not
  queued again; `KeCancelTimer` does not take back a queued DPC.
- the plug-and-play manager adds, starts and removes devices in any order that
  their state allows; a keyboard that is removed brings back its read as failed.
- a sequential queue of the driver framework dispatches one request at a time.
- the filter manager calls back before and after an operation, and unregisters
  when no operation has a callback outstanding.
- a condition variable wakes whom it likes and may wake somebody for nothing.
- a TCP connection delivers in order; of what a client had sent before it died,
  the server gets a part.

A step of a driver model is a section of code under one lock, or a single access
to unprotected memory (`PendingIrp` goes store by store through the list macros,
`KeyCap` splits `++` and `--` into load and store, `Passthrough` its counter).
A step of `Yieldo` is one turn of the scheduler, of `ThreadsafeQueue` one
section under the mutex, of `Bao` one call or return in the chain of handlers,
of `RbTree` one turn of a fix-up loop, of the remaining ones one call.

## 3. The modules

| module | models | composed with |
|---|---|---|
| `IrpContract` | abstract: what a queueing driver owes the I/O manager | |
| `StartIo` | chap09/StartIoTest | implements `IrpContract`; proofs in `StartIoProofs` |
| `SpecialStartIo` | chap09/SpecialStartIo | (cannot implement the contract, see 6); `DriversProofs` |
| `CancelIrp` | chap09/CancelIRPTest | implements `IrpContract`; `CancelIrpProofs` |
| `PendingIrp` | chap09/PendingIRPTest | implements `IrpContract`; `MCPendingIrp` adds the symmetry; `PendingIrpProofs` |
| `DpcTimer`, `IoTimer` | the two timer drivers of chap10 | `MCTimers` (both want the same device name, one is loaded); `TimerProofs` |
| `KeyCap` | LyyKeyCap: the count, access by access | `DriversProofs` |
| `DriverChain` | chap11: DriverA and any variant of driver B | `DriverChainProofs` |
| `ComCap`, `KbdFilter`, `WdmPnp`, `Ramdisk`, `NtDriver`, `Passthrough` | drivers from loading to unloading, all copies of each | `MCDrivers`; `DriversProofs` |
| `Yieldo` | asyncio/yieldo.py | `Programs` |
| `ThreadsafeQueue` | ccia listings 3.5, 4.1, 4.5 | `Programs` |
| `Ttcp`, `Vectors`, `RustLists`, `SearchTree`, `CppObjects`, `Singletons` | the programs of section 1 | `Programs` |
| `Programs` | the eight above together, with what some of them promise alike | `MCPrograms`; `ProgramsProofs` |
| `RbTree` | data_structure/rb-tree.cpp | `MCPrograms`; `TreeProofs`, also of `SearchTree` |
| `BaoChain` | the chain of handlers of bao | `Bao`; `ProgramsProofs` |
| `Bao`, `Algorithms`, `CommandTools` | the programs of section 1 | `MCPrograms` |
| `ListExercises`, `TreeExercises`, `ArrayExercises`, `NumberExercises` | the functions of the interview exercises | `Exercises`, in `MCPrograms` |

`MCTimers`, `MCDrivers` and `MCPrograms` check several components in one run:
the first state chooses one (`unit`, `timerDriver`), which moves while the
others keep their first state. They have nothing in common; each is explored
as if it were alone. The variables have names of their own for this.

**IrpContract.** A packet is free, live (issued, not completed) or done; the
hardware serves a set of packets. `Start` requires that nothing is served,
`Finish` completes the packet that is served, `Refuse` one that is not,
`Reclaim` frees a completed packet. There is no step that completes a packet
twice, or one that is served behind the back of the server. Three drivers are
shown to implement it, with `served` mapped to the packets in their three
seconds of work (`StartIo`) or to nothing (the two that only park packets).

**StartIo.** `queue`, `busy` and `current` are `DeviceQueue`, `DeviceQueue.Busy`
and `CurrentIrp` of the device object; `cancel` and `routine` the `Cancel` flag
and `CancelRoutine` of the packets. A thread's `pc` names the code between two
lock sections: `read` (line 248 comes next), `startIo` (before the cancel lock of
line 12), `work` (24-31), `startNext` (37), `cancelNext` (218) and `cancelEnd`
(229). The recursion `HelloDDKStartIo` -> `IoStartNextPacket` ->
`HelloDDKStartIo` is flat: nothing follows the recursive call but the return to
`OnCancelIRP`, which then completes its `victim`. A packet may be cancelled at
any moment, before `IoStartPacket` has it too. `ReuseStale` lets the memory of a
completed packet be reused while `CurrentIrp` or a late `HelloDDKStartIo` still
points to it; it is FALSE in the runs.

**SpecialStartIo.** The same, with the queue of lines 244-245 and the server
loop of `MyStartIo` in the reader that found it idle. `OnCancelIRP` completes a
packet that is still in `device_queue`, and the I/O manager takes its memory back
at once (`Reclaim` asks nobody) and gives it to another read. `stale` is a history
variable: the memory that was taken back while the driver used it. When a packet
whose memory is still linked in the queue is allocated again, or queued a second
time, the links are overwritten (`broken`): the model stops there.

**CancelIrp.** Interrupt levels are state here: `CancelIo` raises the thread to
APC_LEVEL, `IoCancelIrp` notes that level in the packet and goes to
DISPATCH_LEVEL, `CancelReadIRP` completes the packet (line 173) and restores
the level from it (line 175). A freed packet may hold any level.

**PendingIrp.** `flink` and `blink` of the list head and of each packet's
entry, one step per store of `InsertHeadList` and `RemoveHeadList`.
`Concurrent` chooses between a process that makes one call after the other, as
the test program does, and one with several threads.

**DpcTimer.** `armed`, `due`, `dpc`, `interval` are the kernel timer, its due
time, its DPC and `pollingInterval`. `DueTime` does the conversion of line 221
for a LONG between `-LongRange` and `LongRange - 1`. With `Uniprocessor` a
queued DPC runs before any thread goes on; without, it interleaves. With
`StopFirst` the process stops the timer before it closes the device, as the test
program does. `wanted` is a history variable: the last request to take effect
was a START.

**IoTimer.** The two interlocked operations of `OnTimer` are two steps;
`seconds` is a history variable that counts calls since the last timeout or the
last START that stored its count.

**KeyCap.** A read of a keyboard goes through the filter (`load`, `store`,
`call`), stays below (`filtered`), and comes back through `c2pReadComplete`.
With `Multiprocessor` FALSE nothing comes between a load and its store, and a
completion routine that has begun ends before the thread below it goes on. With
`EntryRaces` FALSE `c2pUnload` does not detach a filter that
`c2pDispatchRead` is in.

**DriverChain.** A thread in driver B goes through `open`, `read`, `timer` (its
packet is in DriverA's slot, the timer is not set yet), `wait` and `close`;
`stray` is the closing of an uninitialised handle after a failed opening, which
may hit nothing or the handle of another thread. `packet`, `slot`, `armed` and
`dpc` are DriverA's side, `opener` its one file object. `strayed` is a history
variable.

**ComCap.** `copy` says which of the three sources is loaded; `s_fltobj` and
`s_nextobj` are the two tables, which `ccpAttachAllComs` fills at different
moments. `QuietStart`: nobody uses a port while `DriverEntry` attaches.
`Prompt`: every `ccpDispatch` returns within the five seconds that `ccpUnload`
sleeps.

**KbdFilter.** The whole life of the keyboard filter in its three copies: any
attachment may fail, any `IoCreateDevice`, any keyboard be removed, before and
after. When `IoCreateDevice` fails so does `DriverEntry` (phase `"refused"`), which
detaches nothing: reads go on through the filters that are there, and when the
image goes is the kernel's choice; whatever enters it then ends the system
(`LateCall`, phase `"crash"`). `KeyCap` has the
two accesses to the count apart; here each is one step. `Intact`: the deleted
device's `NextDevice`, which `c2pUnload` reads, still leads on.

**WdmPnp.** `pdo` is what the plug-and-play manager knows of each physical
device, `fdo` the one that holds the fixed name, `wdmLink` the symbolic link. Both
attempts to create the link may fail for want of memory: `AddDevice` then fails
and leaves its device attached, half-made, with the name (`noMemory` is history).

**Ramdisk.** `LayoutsLyy` and `LayoutsP` compute what `RamdiskFormatDisk` writes
into the boot sector, with the numbers of the code and for the registry values
`MCDrivers` names; the image that requests copy to and from is small
(`RamUnits` units, `UnitsPerSector` to a sector).

**NtDriver.** The sixteen drivers differ in the names they want (`NtLoad`), in
what they do when the link is refused (`AfterRefusal` and its exceptions), and
in what they take away on unloading. `NtScarce`: creation may also fail for want
of memory.

**Passthrough.** An operation may have a post-operation callback and a status
callback with a number. `PtOneProcessor`: the increment is one instruction that
nothing interrupts.

**Yieldo.** `ready`, `sleeping`, `items`, `waiting`, `closed` are the attributes
of the scheduler and of the queue. The first state has any set of the four
coroutines in any order.

**ThreadsafeQueue.** `asleep` are the threads in `data_cond.wait`, `woken` those
that it has returned to the lock. `program` chooses the listing.

**Bao.** First the program registers groups (nested ones too), middlewares and
routes in any order, then one request is served. `insert` and `search` are the recursive
functions of `trie.go`. `BaoChain` is `Context.Next`: `frames` is the stack of its
loops and of the handlers, `index` is what all loops count with, `ran` the history
of the handlers called.

**Ttcp.** Any mix of Go, Python and Rust clients talks to a server in any of the
three. `toServer` and `toClient` are the two directions of each connection. The
number of messages and their length are any integers: no client looks at the sign.
(A Python integer that does not fit 32 bits ends the Python client before it sends
anything; that is left out. Memory suffices for every positive length.)

**RbTree, SearchTree, Vectors, RustLists.** Nodes and cells are numbered, links
and owners are functions on the numbers, as in the code; history variables
(`inTree`, `held`, `meant`, `content`) hold what ought to be there. `DeleteTurn`
has the three branches of either side as the code tests them, and a turn that does
nothing where none of them fits (`Stuck`). `bent`
(RbTree), `astray` and `doubled` (SearchTree), `moved` (Vectors) and `panicked`
(RustLists) note that the code has done one of the things of section 6.

**CommandTools.** `get_args` and `run` of the seventeen tools: the first state
chooses a tool, its options and its inputs (missing, a directory, a text, a
pipe), one step reads one file. A pipe is the one stdin: `-` for the tools that
know that name, `/dev/stdin` for `tail`, which does not. Whoever reads it second
finds nothing (`TextOf`); `ls` and `find` take `-` for a file name, so they get no
pipe, and `head` gets one at most, as how much its reader takes beyond what it
prints is a matter of buffer sizes. A printed number `n` is a row of `n` marks, so
that its value can be compared without decimal digits.

**Algorithms.** One step runs one function on one input; `result` is compared
with a definition of what it should be.

**ListExercises, TreeExercises, ArrayExercises, NumberExercises.** The functions
of `jianzhi` as operators: lists and trees whose links the function changes are
functions on node numbers, all others are values; what a function does with a
null pointer or beyond its array is a result of its own (`Crashed`, `Thrown`).
An int of `NumberExercises` has `WordBits` bits. The operators named
`...Tests` hold the inputs and expectations of the files' own tests. **Exercises**
runs one function on one input a step, as `Algorithms` does.

**CppObjects.** `stack1`, `stack2`, `m_data`, `m_min` are the attributes; a string
is the number of its buffer, which `undeleted` holds until it is deleted.
`appended`, `taken`, `overwritten` and `says` are history.

**Singletons.** A step is one access to `instance` or to the lock; `inCall` says
where each thread is. `TypeInit` is the runtime's initialization of the eager
ones. `raced` notes that two threads have found null together.

## 4. The runs

Each property of a passing run has a mutant of the code (an operator beside the
definition it mutates, with a comment that begins "Mutant of") that violates it
under the same configuration.

| run | question | bounds | states |
|---|---|---|---|
| `startio` | whatever threads read and cancel, early or late: completed once, queued packets cancellable, contract kept? And is every read completed if packets are cancelled only once the driver has queued them? | 3 threads, 3 packets | 19486 |
| `startio_early_cancel` | ... and if they may be cancelled earlier? (violated) | 3 threads, 2 packets | |
| `special` | one server, every read completed though readers keep coming, and is a cancellation where every second completion and every packet reused under the driver begins? | 3 threads, 2 packets | 145263 |
| `cancel` | interrupt level restored, every read cancellable until completed, contract kept, `CancelIo` returns? | 2 readers, 1 other thread, 2 packets | 30989 |
| `pending_serial` | does the list always hold exactly the pending packets, and does closing release the device? | 2 threads, 3 packets, serial calls | 727 |
| `pending_concurrent` | ... with two threads in the driver? (violated) | 2 threads, 2 packets | |
| `timers` | does polling live from START to STOP and end with it, at the interval asked for, is unloading safe, on one processor? Are the timeouts of the I/O timer on time, and do they go on? | 3 threads, intervals {1, 12}, `LongRange` 128; 2 threads, `TIMER_OUT` 3 | 871 |
| `dpctimer_stop` | does STOP stop it on a multiprocessor? (violated) | 1 thread | |
| `keycap` | is the count right, the code not freed in use, no read lost, and does unloading return, on one processor? | 3 keyboards, a count of 4 values | 2295 |
| `chain` | is one slot enough for any readers of driver B, does DriverA go with its timer idle, does every read of B return? | 3 threads, the 3 variants of B, one processor | 20124 |
| `drivers` | see below | see below | 822607 |
| `programs` | see below | see below | 940200 |

`drivers`, a property for each component:

| component | property | what it says | bounds |
|---|---|---|---|
| `ComCap` | `ComCapFilters` | every request reaches the port below with the buffer the port expects (PComCap: only for ports with buffered I/O); nobody is in the driver, and no filter attached, when it is gone | 2 ports, 2 callers, 3 copies; `QuietStart`, `Prompt` |
| `KbdFilter` | `KbdOutlivesReads` | the count is the number of reads that will come back, whatever was removed or not attached; nothing of the driver is left in the stack when it is unloaded, and code that is gone is entered only after `IoCreateDevice` failed for a keyboard after the first | 3 keyboards, 3 copies; `Intact` |
| `WdmPnp` | `WdmNameComesBack` | the device with the fixed name is complete and will be removed; a half-made one holds it only after there was no memory for its link | 2 physical devices, 4 copies |
| `Ramdisk` | `RamdiskServes` | the FAT has room for every cluster and its width is the one a file system derives; copies stay in the image, also when there is none; a read never sees half a write | some 5000 registry values around the points where the layout changes; 4 units, 2 to a sector, 2 clients |
| `NtDriver` | `NtNamesFollowDrivers` | a failed load leaves no device, a link leads to a device, a loaded driver can be opened, an open device is served; the exceptions are named | 16 drivers, 5 device names, 7 links; `NtScarce` |
| `Passthrough` | `PtCallbacksTold` | status callbacks have different numbers; the driver is gone only when no operation will call back | 2 threads, the counter up to 5; `PtOneProcessor` |

`programs`:

| component | property | what it says | bounds |
|---|---|---|---|
| `Yieldo` | `DeliveriesAgree`, `ProgramsFinish` | no item lies in the queue while all who wait for it sleep; `run` returns, what was put is consumed, at least one consumer learns of the end | 2 producers, 2 consumers, 2 counters in any set and order, 2 items, clock up to 2 |
| `ThreadsafeQueue` | `ElementsHaveTakers` | while threads sleep, every element has a thread awake to take it | 2 pushers, 3 poppers, 3 elements |
| `Bao` | `BaoHandles` | `RouterFinds`, `RouterKeeps`, `ChainRuns`, `GroupsCover` | 2 routes, the root group and two more (nested or not, of 3 prefixes, `/` among them), 1 middleware besides `Recovery`, 6 patterns, 5 paths, one with an empty part; programs with 1 route are run |
| `Ttcp` | `DeliveriesAgree`, `ProgramsFinish` | counts agree; only the deaths and the negative lengths of section 6 end a server; a client that lives is served to its end, unless the session has failed over its own negative length | 2 clients, one with -1, 0 or 2 messages of length -1, 0 or 1, one with 0 or 1 of length 1, all 27 mixes |
| `RbTree` | `TreesStayOrdered` | red-black conditions; every key found; parents are parents; loops end, but for the one of lines 365-376; until a rotation moves a subtree or a deletion comes to line 339 | 5 keys, 5 nodes, 2 deletions, 6 turns of a loop |
| `CommandTools`, `Algorithms`, `Exercises` | `OutputsAgree` | what each tool prints, what each function returns, against its definition | 2 inputs of 7 texts; arrays and strings of up to 4 and some longer ones, numerals of up to 4 characters with a largest int of 127, `MAX` 9; lists of up to 3, trees of up to 4 nodes in every shape, numbers up to 120, ints of 8 bits |
| `RustLists`, `Vectors`, `SearchTree`, `CppObjects` | `ContainersGiveBack` | the list or vector is the sequence it is meant to be; nodes and cells outside are not alive; the tree is in order, every key is found and held as often as it was put in; the queue returns in order, the stack knows its minimum, a string has a live buffer of its own | 2 elements, 4 nodes, 2 handles; 4 elements; 4 keys, 4 nodes; 4 elements of 3 values, 3 strings, 3 buffers |
| `Singletons` | `DeliveriesAgree` | all who ask are given the same object, except of `Singleton1` after a race | 3 threads |

*Why these bounds are enough.* The queueing drivers have one device, one lock
and one current packet. Their hazards need the thread that serves, the thread
that cancels, and one that reads behind them: three threads, and three packets
for a current one, a queued one and a victim. The list of `PendingIrp` needs an
empty, a one-element and a longer list; in `DpcTimer` the intervals 1 and 12
with `LongRange` 128 give the largest product that still fits (-120), and the
mutant that does not convert it is caught; three keyboards make a count of four
values range over more than one read, and a wrong decrement wraps. In
`DriverChain` the hazards need a reader that has DriverA open, one whose opening
fails, and a third whose handle is hit. The proofs of section 5 remove the
bounds for the safety of all the drivers, the two queues, the throughput test,
the vectors, the linked lists, the search tree, the classes and the singletons.
Two ports, two physical devices, three keyboards are the smallest numbers where
the one can succeed and the next fail. Two poppers that sleep and one that tries
are what a lost wake-up needs. `SpecialStartIo` needs a packet that is cancelled in the
queue and a second read in its memory; the one that is served meanwhile is the
other packet. Five nodes are what a black brother with two red children needs,
and enough for every branch of the deletion; two nested groups make the prefix
`//a`; four characters for a
sign, and a number beyond the largest int; the files have blank lines, equal
lines, lines that differ in case or blanks, a character of two bytes, a last
line with and without its newline.

*Deadlock* is checked except where the program may really stop: `special` (a
packet that is completed twice leaves the system, and with it all threads may
stop), `timers`, `dpctimer_stop` and `chain` (the device is deleted, the driver
unloaded at the end), `drivers` and `programs` (as these, and programs that have
printed their output) and `pending_concurrent` (a corrupted list ends in a dead
loop).

*Fairness.* The kernel schedules every thread that is inside a driver: weak
fairness of a thread's next step. Nobody is obliged to read, cancel, open,
close, start or unload. Stronger assumptions are these:

- `CancelIrp`: strong fairness of a reader's step, because the cancel lock is a
  queued spin lock, which serves those who wait in turn;
- `DpcTimer`: weak fairness of the clock and of the DPC, strong fairness of a
  request, because on one processor a thread goes on between two DPCs although
  each DPC disables it for a while; `IoTimer`: seconds pass;
- `KeyCap`: strong fairness of the thread in `c2pDispatchRead` and of the
  unloading thread for the same reason, and of the key presses: the unloading
  really waits until somebody presses a key on every keyboard;
- `DriverChain`: strong fairness of a thread's step, DPCs and the reads of
  others notwithstanding; weak fairness of the clock;
- `Yieldo`: weak fairness of `Run` only: one thread, which goes on;
- `Ttcp`: weak fairness of each client and each session.

`EveryReadCompletes` of `SpecialStartIo` needs no more than weak fairness, and
holds although new reads never stop: the queue is served first come, first
served. `ReadsComplete` of `StartIo` is conditional on packets being cancelled
only while they are queued or later: `startio_early_cancel` shows why. It also
demands that the readers stop for a packet that is cancelled, which `OnCancelIRP`
completes only after serving everybody behind it; a packet that nobody cancels
is completed although new reads never stop.

*Assumption constants.* A constant that is set so that a property holds names a
thing the code leaves to luck: `ReuseStale`, `Concurrent`, `Uniprocessor`,
`StopFirst`, `Multiprocessor`, `EntryRaces`, `QuietStart`, `Prompt`, `Intact`,
`PtOneProcessor`. With the other value the property fails (section 6), and the
hazards of `PROJECT.json` name the line.

## 5. What is proved

TLAPS checks the following for every set of threads, packets, keyboards, ports,
physical devices, intervals, coroutines, clients, elements and nodes.

| module | theorem | states |
|---|---|---|
| `StartIoProofs` | `TypeCorrect` | `TypeOK` |
| | `NeverCompletedTwice` | `CompletedOnce` |
| | `ServedOneAtATime` | `OneAtATime` |
| | `QueuedCanBeCancelled` | `QueueCancellable` |
| | `StartIoImplementsContract` | `KeepsContract` |
| `CancelIrpProofs` | `TypeCorrect` | `TypeOK` |
| | `ReaderGetsItsIrqlBack` | `IrqlRestored` |
| | `ReadsStayCancellable` | `StillCancellable` |
| | `CancelIrpImplementsContract` | `KeepsContract` |
| `PendingIrpProofs` | `PendingTypeCorrect` | `TypeOK` |
| | `QueueProcessed` | `CleanUpProcessesQueue` |
| | `ListIsPending` | `ListHoldsPending` |
| | `ContractKept` | `KeepsContract` |
| `TimerProofs` | `DpcTypeCorrect`, `IotTypeCorrect` | `TypeOK`, `IotTypeOK` |
| | `PollingStaysAlive` | `PollingAlive` |
| | `UnloadIsQuiet` | `QuietAfterUnload` |
| | `DueAsAsked` | `DueAfterRequest` |
| | `TimeoutsComeOnTime` | `TimeoutOnTime` |
| `DriverChainProofs` | `ChainTypeCorrect` | `TypeOK` |
| | `OneSlotIsEnough` | `SlotHoldsWhatIsOwed` |
| | `TimerIdleAtUnload` | `UnloadFindsTimerIdle` |
| `DriversProofs` | `ComCapTransparentAndSafe` | `ComCapFilters` |
| | `KbdOutlives` | `KbdOutlivesReads` |
| | `WdmNameReturns` | `WdmNameComesBack` |
| | `CallbacksTold` | `PtCallbacksTold` |
| | `KeyTypeCorrect` | `TypeOK` of `KeyCap` |
| | `CountGuards` | `CountGuardsUnload` |
| | `LayoutFits`, `RamInductive` | `LayoutsFit`, `RamInv` |
| | `DiskServes` | `RamdiskServes` |
| | `NtNamesKept` | `NtNamesFollowDrivers`, `NtTypeOK` |
| | `SspTypeCorrect` | `SspTypeOK` |
| | `BusyFlagExcludes` | `OneAtATime` of `SpecialStartIo` |
| | `OnlyCancelledTwice` | `TwiceOnlyIfCancelled` |
| `ProgramsProofs` | `TsqTypeCorrect` | `TsqTypeOK` |
| | `NoWakeUpIsLost` | `ElementsHaveTakers` |
| | `PutWakesEnough` | `NoItemStranded` |
| | `TtcpSafe` | `TtcpCounts`, `TtcpSurvives` |
| | `OneInstanceOnly` | `OneInstance` |
| | `DeliveriesCount` | `DeliveriesAgree` |
| | `VectorsGiveBack` | `VectorsHold` |
| | `ListsAreKept` | `ListsHold` |
| | `CppObjectsKept` | `CppObjectsHold` |
| | `ContainersKept` | `ContainersGiveBack` |
| | `HandlersRun` | `ChainRuns`, a part of `BaoHandles` |
| `TreeProofs` | `SearchTreeKept` | `SearchTreeHolds` |
| | `TreesStayRedBlack` | `TreesStayOrdered` |

*StartIo.* `TypeCorrect` holds without conditions, the others for
`~ReuseStale`. The properties are not inductive. `IInv` (end of `StartIo.tla`)
adds the idea that makes the driver work: the *duty to move the device on*
(`AdvancesDevice`) is held by at most one thread, is handed over only under the
cancel lock, and every live packet is in one place only: in `HelloDDKRead`, in
the queue, current, or the victim of one `OnCancelIRP`. `UniqueInv` says so for
threads, `QueueInv` for the queue, `CurrentInv` for the device, `RoutineInv`
says on which packets a cancel routine can still be set, and `HeldInv` what the
program counter of a thread says of its packet. A late `HelloDDKStartIo` is the
delicate case: it holds a packet that may be completed, and the invariant has to
show that it then differs from `CurrentIrp` or has its `Cancel` flag set, so
that line 13 turns it away. The proof has a lemma per action, with one step per
conjunct; lemmas on `RemoveAt`, `RemoveEntry`, `Append` and `Tail` say what the
queue operations do to membership and to the absence of duplicates. The
refinement is proved step by step (`ContractStep`) from the invariant before
and after the step.

*SpecialStartIo*, however soon the memory of a completed packet is allocated
again. `ServingInv`: the queue's busy flag is set while a reader is in
`MyStartIo`, and one is at a time. `OnePlaceInv`: a packet that is *neither
cancelled nor stale* is in one place only and not completed there; a cancelled one,
or memory that was taken back while the driver used it, is where the code goes
wrong, and the invariant says nothing of it.

*CancelIrp*, without conditions. While a reader walks its list it is at
APC_LEVEL, a completed packet is freed only by an APC to the thread that issued
it, so the packets on its list stay allocated and its own (`WalkInv`), and the
level in the packet is still the one `IoCancelIrp` noted. `DutyInv` says that
exactly one of `HelloDDKRead`, the cancel routine that is set and the one that
runs will see to a live packet.

*PendingIrp*, for calls that follow each other (`~Concurrent`). The property
follows the links from the head; the invariant says that there is a path
`s[0], ..., s[n]` through the head and the `n` packets the list ought to hold,
each once, along which `Flink` leads forwards and `Blink` back (`ListOf`). In the
middle of a macro the list is not one: the invariant then names the stores that
are still to come. That the walk of the property is the path is shown by the
least step at which the two would differ, an induction the prover can follow
because the naturals are well founded. `CleanUpProcessesQueue` and the
refinement of the contract follow from the list at every call's end.

*Timers.* `PollingStaysAlive` and `DueAsAsked` hold on any number of processors,
`DueAsAsked` for intervals that are positive and no longer than `LongRange / 10`
microseconds (`ShortRequests`; 214 seconds in the code). `DueTimeFits` shows that
the conversion keeps such an interval; `IntervalInv` that whoever sets the timer
finds an interval that was asked for: a DPC is queued, and a START past line
221, only after one was stored. `UnloadIsQuiet` is for one processor and a
process that stops the timer first; its `QuietInv` says that the timer is busy
only while it is wanted, because on one processor no DPC is queued when STOP
runs. For `IoTimer`, `CountInv` says that the count and the seconds passed add up
to `TIMER_OUT` from the first START on, and that the count is zero only between
the two operations of `OnTimer`: that is why the plain store does no harm.

*KeyCap*, for one processor and an unloading that does not meet a read being
passed down (`~Multiprocessor`, `~EntryRaces`). `AccessInv`: one party at a time
accesses the count, with its current value in hand; then the count is the
cardinality of the reads outstanding, as long as the count has more values than
there are keyboards.

*DriverChain*, for Test1 and Test5, and for Test2 as long as no stray close has
hit an open handle (`Sound`). `HandleInv` says that the exclusive device lets one
thread of Test2 or Test5 in; Test1 needs no such thing, because its reads wait
for each other inside `ZwReadFile`. `OnePacketInv`, `PacketInv` and `TimerInv`
carry that to the slot, the timer and the DPC.

*ComCap*, for `QuietStart` and `Prompt`. `TablesInv` ties the two tables and the
stacks of the ports together at every moment of attaching and detaching: behind
`turn` a filter on a port has its lower device in the table, at `turn` it may not
yet. `RequestsInv` adds that a request in `ccpDispatch` is for such a port, which
needs `QuietStart` at the one end and `Prompt` at the other; `FlagFits` holds
because a copy takes its flags from the port before it attaches.

*KbdFilter*, for `Intact`. `DetachInv` says how far `c2pUnload` has got; with it
the count is the cardinality of the reads below (`KbdCounts`), also when a failed
attachment has left some keyboards without a filter or a keyboard is removed
with its read below. `KbdUnloadSafe`: a filter at a keyboard when the code may be
gone was attached before an `IoCreateDevice` that failed, for a keyboard after
the first.

*WdmPnp*, without conditions. The link is the last step of `AddDevice` that may
fail, and its second attempt removes what stands in its way; so a device that
holds the name is complete, and the plug-and-play manager will remove it, or
there was no memory for its link: then it has none, is never ready, and gives the
name back when the device itself is removed.

*Passthrough*, for `PtOneProcessor`. `CtxInv`: one thread at a time is between the
two steps of the increment, with the counter unchanged, and no number given is
above the counter. `InstanceInv`: an operation with a callback outstanding holds
the instance, and the instance the filter.

*Ramdisk.* `LayoutFits` is arithmetic over all registry values in
`RegistryInRange` (named in `Ramdisk.tla`): no quantity of the boot sector
overflows its 16 bits, the FAT has an entry for each cluster although its own
size was estimated, and its width is the one a file system derives. The range
stops at 13 sectors to a cluster: with 14 to 128 a disk of exactly 4085 clusters
gets a FAT of 12 bits. `RamInv` is about the requests: one is dispatched at a
time, what it has been found to be within the image stays so, and a write in
progress has written a prefix of its units; so a read, which the sequential
queue lets in only when no write is under way, returns what was written last.

*NtDriver*, without conditions. `LinksOwned`: every link but the one that
NT_Driver keeps leads to a device of a driver that is loaded, or to one of the
devices that are known to be left; a driver that is loaded has a link to each
of its devices.

*ThreadsafeQueue.* `TakersInv`: while threads sleep there are at least as many
awake on their way to the lock as there are elements. A `push` adds an element
and wakes one; who takes an element was awake, or came while nobody slept on it.

*Yieldo.* `StrandedInv` needs only that the queues are sequences and that nobody
but consumers wait.

*Ttcp.* What a client sends is one stream: the number of messages, their length,
then a length and a payload for each. The invariant (`ConnInv`) says that what is
on its way to the server is that stream from the place the session has read to
(`Consumed`) to the place the client has written to (`Produced`), whatever the
languages. The three counts of the property are read off the two places. Of a
client that died any part of that may be lost at the end; a server then fails
where its language does. Numbers and lengths are any integers: a Go session that
has read a negative length fails at once, a Python or Rust one at the first
message; a client may outlive that (`FailedLives`), and has then sent at least
what was counted.

*Vectors.* `VecInv` (end of `Vectors.tla`) compares memory and meaning cell by
cell, the cells behind the end included. `insert` is proved for its three ways,
more elements behind the position than new ones, fewer, and none of the memory
kept: each copies, assigns and destroys ranges that overlap, and the element
inserted may be one of those that move. For `vector_int` it says which elements
are lost: those behind the bytes copied at one of the sizes at which it moved.

*RustLists.* `ListInv` says that there is for each list a path of distinct nodes
that holds its elements in order, from the head along `next` (`Chain`) and, in a
deque, back along `prev` (`BackChain`); that paths meet only in `third.rs`; and
that no node is outside them (`Shape`). The walks of the property are the paths
(`WalkIsChain`), a path is no longer than there are nodes (`ChainShort`), and what
the reference counts keep alive in `third.rs` is what the paths visit
(`AliveIsChains`): both inductions by the least counterexample again. Each
operation is then shown to change one path. `try_unwrap` succeeds when nothing
else points to the node (`PointersOf`): always in `pop_front`, but in `pop_back`
only if the node is not the head as well.

*SearchTree*, for any set of keys and any number of nodes. `BstInv`
(`TreeProofs.tla`) says that some assignment `u` of sets to nodes, the nodes
below each of them, makes the links a tree (`IsTree`): a node's set is itself and
the two disjoint sets of its children, and two sets are nested or disjoint. On it
stand the order of the keys (`IsOrdered`), the parents (`KnowParents`: known, or
none if a key was inserted twice) and the count of each key. The recursions of
the code are iterations of one step; that they end where they should is shown
once, by the size of the sets (`WalkEnds`), and used for `search`, `searchMin`,
`searchMax` and the descent of `insert` (`AboveHangs`). `insert` adds one leaf
(`GrownTree`), `deleteNode` lets a child take the place of a node with at most
one (`SplicedTree`) and gives its key to the node that had two (`SplicedOrder`):
in order because the successor holds the least key on its right. `astray` is set
only where a node other than the root has no parent, hence after a key was
inserted twice.

*Singletons*, for any threads. The three kinds need three invariants. `LockedInv`:
who is within the lock holds it, and whoever has found null under it is about to
make the only object. `UnlockedInv`: of `Singleton1` one thread at most is about
to make an object, and none when there is one, unless two have found null
together. Of the eager ones nobody returns before the runtime has made the
object.

*CppObjects*, for any elements, strings and calls. `QueueInv`: what was taken,
then `stack2` from its top, then `stack1` from its bottom is what was appended;
pouring turns a stack over twice (`TurnedTwice`, `TopFirst`). `MinInv`: at each
height `m_min` holds the least of what stands at or below it, as long as nothing
there was written through `top()`. `StringInv`: the buffers that are alive are
those the strings hold, no two the same; the copy that `operator =` makes gives
its buffer away and takes the old one to its end (`StringMade`), a move or swap
exchanges the owners (`StringsChanged`).

*RbTree*, for any keys and any number of nodes, if the bound `MaxTurns` is beyond
`MaxNodes` (`RbAssumption`): that the loops stay below the bound is part of what
is proved, so it cuts nothing off. `RbInv` (`TreeProofs.tla`) speaks of
a set of nodes `N`, of the keys that are looked for at or below each of them
(`span`) and of the number of black nodes from each to nil (`h`). `RbGrown`: the
links split a node's span at its key between its children, every node but the
root is a child of its parent; so a search ends at the node with the key
(`SearchNodeIs`) and `Hang` where a new one belongs. `Heights`: both children of a
node have the same number of black nodes below. Between two calls no red node has
a red child (`Calm`). In `insertFixUp` the node the loop stands at is the only
exception (`Inserting`), in `deleteFixUp` the paths through it lack one black
node (`Deleting`). A rotation that moves no subtree changes two spans
(`RotationKeeps`); one that has to move one leaves a wrong parent, which is why
nothing is said once `bent` is set. It is set by such a rotation and by the branch
of line 339 alone: `DeleteTurnShape` says what every other turn of `deleteFixUp`
leaves (`DeleteReddens`, `DeleteTwists` for lines 365-369, `DeleteLifts` for
370-376), and `Stuck` is the one place a loop does not leave. For the end of the loops `Turning` counts two
nodes more below the node for each turn that goes up, and knows that after a turn
that rotates at the parent there is one more at most.

*BaoChain*, for any handlers behind `Recovery` (`ChainSpec`; `Bao` changes these
variables only by the same actions, and that `Recovery` is in front is checked by
`GroupsCover`). `ChainInv`: loops and handlers take turns on the stack, and only
the last handler on it has not called `Next` yet (`Stacked`); while a loop runs
`index` is one more than the number of handlers called, or all have been
(`Counted`); and until all have been, the first `Recovery` is on the stack, or a
handler that panicked is not on it any more (`Saved`), so that a panic nobody
catches is the second one.

*Only model-checked* are these.

- All liveness (`ReadsComplete`, `EveryReadCompletes`, `CancelIoReturns`,
  `CloseReleasesDevice`, `StopStops`, `TimeoutsGoOn`, `ReadsComeBack`,
  `UnloadReturns`, `ReadsOfBReturn`, `ProgramsFinish`): strong and weak fairness,
  and `ENABLED`, are beyond the prover.
- The rest of `BaoHandles`, and `OutputsAgree`: the routes, the tools, the
  algorithms and the exercises are recursive operators over texts, arrays, lists
  and trees; what they compute for every input needs an induction over data.

## 6. What the code does not do

Three runs end in a violation.

1. *A read that is cancelled very early is never completed*
   (`startio_early_cancel`). If the packet is cancelled before `IoStartPacket`
   has set its cancel routine and the device is idle, `HelloDDKStartIo` finds
   `Cancel` set, returns at line 17 and counts on an `OnCancelIRP` that was never
   called. The device stays busy with nobody to move it on.
2. *Two concurrent readers lose an entry of the list* (`pending_concurrent`), and
   `HelloDDKCleanUp` does not complete its packet.
3. *STOP does not stop the polling* (`dpctimer_stop`) if the DPC is queued at that
   moment on another processor: it sets the timer again, for ever.

More are part of passing runs: the property states exactly when the code keeps
its promise, or a constant excludes the case.

*Drivers.*

- `SpecialStartIo`: `OnCancelIRP` (Source.cpp:214-218) completes a packet that is
  still in `device_queue` or in `MyStartIo`. It may be completed twice, which is why
  the driver does not implement `IrpContract`; and its memory may be the packet of
  another read by then, which is completed in its place, by a thread that is
  not serving it, and again by its own, though nobody has cancelled it; or the
  list is broken. `TwiceOnlyIfCancelled` says that each such chain begins with a
  cancellation; `EveryReadCompletes` ends where the list is broken.
- `CancelIRPTest` promises the interrupt level to threads that cancel their *own*
  packets only: a packet of somebody else may be freed before line 175.
- `StartIoTest` with `ReuseStale`: the packet is completed at line 35,
  `CurrentIrp` is changed only at line 37; a packet reused in between is taken
  for the old one.
- `LyyKeyCap` with `Multiprocessor` TRUE loses an increment or a decrement, and
  with `EntryRaces` TRUE frees its code while a thread is between the entry of
  `c2pDispatchRead` and line 347. When a later attachment fails,
  `c2pAttachDevice` returns success and the driver stays loaded with the
  keyboards in front of it. When `IoCreateDevice` fails for a keyboard after the
  first (LyyKeyCap.c:111-115, ttt.c:125-129, PKeyCap.c:80-84) `DriverEntry` fails
  with the filters in front of it attached: the next request, or the read that is
  below, enters code that may be gone. `KbdOutlivesReads` names this as the one way.
- `WDMDriver` (Source.cpp:114-118): when the second `IoCreateSymbolicLink` fails
  for want of memory, `AddDevice` fails with its device attached; without a link and
  never ready it keeps the name from every other device until its own is removed.
- `ComCap` without `QuietStart` passes a request to a null device, without
  `Prompt` is unloaded with a thread in `ccpDispatch`. `PComCap` gives a port
  that wants direct or neither I/O a buffer of the wrong kind.
- `PRamdisk` writes three of the four reserved bytes of a 16-bit FAT. In both
  copies `EvtDeviceAdd` succeeds without an image; one device control then reads
  it (the model's `"bugcheck"`). At a few sizes the width of the FAT is not the
  one a file system derives, because the FAT's own sectors are counted as data. With 14
  or more sectors to a cluster a disk of exactly 4085 clusters is given a FAT of
  12 bits instead of 16.
- `StartIoTest` detaches the device that it should delete when its link is
  refused, `DriverStructrue` keeps its first device when the second fails,
  `NT_Driver` never deletes its link: the names stay taken.
- driver B of chap11 in the variants Test1 and Test2 closes an uninitialised
  handle when it cannot open DriverA. In Test2 that may let a second read into
  DriverA, which has room for one.

*Programs.*

- `yieldo.py`: `close` wakes one consumer; the others wait for ever. With two
  producers the first to end may close the queue under the other, and `run` ends
  with `QueueClosed`.
- `bao`: `insert` takes a wild child for an exact match, so which route is found
  depends on the order of registration (`Clash` says when). `*` stands for one
  part only. A middleware of `/v1` runs for `/v10` too, and one of a group whose
  prefix has a parameter never. The router drops empty parts (router.go:20-34), the
  search for a request's groups compares strings (engine.go:70): `//a/b` reaches a
  route of group `/a` without its middlewares, and so do the routes of a group whose
  prefix has an empty part (`//a`, which `Group("/").Group("/a")` makes) or ends
  with a slash, when the path is written without it. `GroupsCover` leaves these out
  (`NoEmptyPart`, `PlainPrefix`). A panic that `Recovery` catches does not stop the
  chain; a second one has nobody to catch it.
- `ttcp`: the Go server ends when a client dies between the header and the first
  message, the Rust server whenever a client dies; the Python server survives. A
  *living* client ends them too with a negative length, which the Python and Rust
  clients accept: the Go server panics in `make` (goimpl/main.go:59), the Rust
  server in `vec!` (rustimpl main.rs:47), as the Rust client itself does (64); in the
  Python server `readexactly` raises, and that client's answer never comes.
- `rb-tree.cpp`: a rotation stores the parent into the wrong node when it moves a
  subtree (line 398), `deleteFixUp` assigns where it should compare (line 339),
  `treeSuccessor` ends without a return. `bent` notes the first two; the model
  ends at the third. For a right child, the comment (line 315) wants the cases of
  the left one mirrored, but the last two (lines 365-376) are told apart by which
  child of the brother is *black*, and neither is when both are red: the loop then
  goes on for ever. Deleting 5 from the tree with 4 on top, 2 and 5 below and the
  red 1 and 3 below 2 is the smallest case; `TreesStayOrdered` names it (`Stuck`).
- `binary_search_tree.cpp`: a key inserted twice is stored without a parent, and
  its deletion loses the tree.
- `vector_int` copies as many *bytes* as it has elements when it grows: three
  quarters of the elements are lost. `erase(position)` of `y_vector.h` names an
  identifier that does not exist.
- `sort.cpp`: `merge` reads behind its two halves and sorts only what is smaller
  than the numbers it finds there; `quick_sort` may not return when numbers are
  equal. `StrToInt` accepts an empty string and a lone sign, and refuses the
  smallest int. `Modify` may visit `C[MAX]` by its loop's condition, which no
  index does for the `MAX` of the code.
- `fourth.rs`: `pop_back` of the only element panics.
- `jianzhi`, each named where `Exercises.tla` states the promise:
  `mirror_iterative` swaps the children of the root over and over and never ends;
  `construct` takes orders that belong to no tree when the memory behind them
  happens to fit (line 29), `dfs_sequence` looks only at the left part for what
  does not belong there (line 30); `delete_node` deletes the node *after* the one
  asked for, to which other pointers may exist; `min_in_array` answers 2 for
  `2, 2, 1`; the loop of `find_in_matrix` tests `columns` where it means `column`,
  and the walk may reach what lies before the matrix (line 14); `replace_blank` may write one place
  behind its buffer (line 22); `GetLastK` has a return only when the last `k` is
  in the middle; the table of `FirstNotRepeatingChar` is global and keeps what
  earlier calls have counted; `power_core` puts its result into an int, so that
  a base that is no integer loses what is behind its point (line 47); `clone` of `CopyComplexList` returns the last node, `Clone` of
  `26_copycomplexlist.cpp` nothing.
- Tests of `jianzhi` that expect something else: `QueueWithTwoStacks.cpp:25` wants
  `'c'` as the second element of a queue of `a`, `b`, `c`; the second tests of
  `SubstructureInTree.cpp` and `MoreThanHalfNumber.cpp` do not get what they
  expect.
- `StackWithMin`: `top()` returns a reference; what is written through it is not
  seen by `min()`. `y_string` has two assignments that both fit a temporary, so
  that `s = std::move(t)` does not compile.
- `Singleton1` makes an object for each thread that finds null before the first
  has stored its own.
- The tools: `comm` looks for options by names it has not declared, so that
  `-1`, `-2`, `-3` have no effect, checks for two standard inputs with `_`
  instead of `-`, and never returns on a directory; `rust/uniq` prints the last
  group to standard output, with its count, whatever the options, and loses the
  text of blank lines in front; `uniq` with the same input and output empties the
  file; `tail` calls its option `--quite`; `cut -f` ends at a record of another
  length and refuses the range `2-2`; `head -c` on a pipe may print less than it
  was asked for. `tail` opens its input twice, once to count (lib.rs:89-91), and
  seeks for `-c` (193): of a pipe it prints nothing, or fails; `-` is to it the name
  of a file. Of two `-` the others find the second empty.

## 7. Not modelled

Of the modelled components: the interrupt level and the stack depth of
`StartIo`, the error paths of `CreateDevice` in chap09 and chap10 other than in
`NtDriver`, the failure of `ExAllocatePool` in `PendingIRPTest`, the stack depth
of filter devices, what `ccpDispatch` prints, which numbers a device control of
the RAM disk returns, what bao writes into a response, the payload of ttcp,
regular expressions beyond the occurrence of a character, sizes, owners and
dates of `ls`, a second `-` of `head`. `WdmPnp` has no requests that overlap a removal and not the dumps
of device stacks (chap04); the straight-line demonstrations of kernel routines
in chap05 and chap07 are calls in a row within `DriverEntry`. Of ccia, chapter 2
only starts and joins threads, 3.1 is one guarded vector, 4.6 one future. Of the
exercises, the files under a directory's own `List.cpp`, `BinaryTree.cpp` and
`Array.cpp` are copies of the ones mapped.

Left out for good, with the reason in `PROJECT.json`: contest and
textbook puzzles (`ms_onehour`, `sicp`, `haskell`), desktop programs
and design pattern exercises (`c#`, `java`, `boost`, `py`, `cdcfan`), other Rust
programs, vendored book listings and headers (`shellcode`, `windows_via_c`,
`tcpip`), thin layers over system calls (`unix_network`, `network/netcat`, `go`,
`k8s`): they have no state between two calls, or all of their behaviour is that
of a library.

## 8. The plan

What is left, in this order:

1. Requests that overlap a removal in `WdmPnp`, with the remove lock the drivers
   do not have: the property would be that nothing is passed to a deleted device,
   the interesting answer under which assumption on the plug-and-play manager.
2. A refinement for `ThreadsafeQueue` (an atomic FIFO queue) and `Yieldo` (a
   closable FIFO queue in which a consumer gets an item or learns of the end, or
   waits for ever if `close` has passed it by).
