# A verification project for COPRTHR

TLA+ modules that model the concurrent core of COPRTHR (libcoprthr, its x86_64
back end, the event lists and the context lock of libstdcl, and OpenCL over
RPC), the TLC configurations that check them on small instances, and TLAPS
proofs of what matters most for every value of the constants. Paths below are relative to the repository; `cmdsched.c`
without a directory is `src/libcoprthr/cmdsched.c`, and so on.

`PROJECT.json` relates every definition to the source lines it stands for,
every property to a slip in the code that would break it, and every hazard of
the code to the properties that watch over it.

To check a run: `tlc -workers 2 -config CommandQueue_calls.cfg MCCommandQueue`.
To check the proofs: `tlapm CommandQueueProofs.tla`.

## 1. The system

COPRTHR runs threads and kernels on co-processor devices. A program reaches it
through one of three interfaces:

    coprthr API ----------------------------.
    STDCL  --> OpenCL API (libcoprthr_opencl) --> libcoprthr --> device back end
              (or another vendor's OpenCL)        queue +        x86_64 engines
                                                  scheduler      or Epiphany

A command (a kernel, a copy, a read, a wait ...) is an event. It is put in the
queue of its device, taken out by the device's scheduler thread, executed by
calling the back end's operation, and marked complete. Whoever waits, waits on
the event or on the queue. On x86_64 the operation for a kernel partitions the
index space, hands one part to each engine (one thread per core), and waits
for all of them; an engine runs the work-items of a block as coroutines.

### Components

| Component | State | Operations | What is hard | What makes it correct | Module |
|---|---|---|---|---|---|
| Command queue and scheduler (`cmdsched.c`, `command_queue.c`, `event.c`) | two lists of events, two command pointers, `qstat`, a mutex and one condition variable; per event a status, a mutex and a condition variable | create, enqueue, finish, wait, dwait, exec, release; the thread `cmdqx1` | the scheduler drops the queue mutex twice per command; scheduler and finishers sleep on one condition variable that is only signalled | commands run once, in order; finish and wait are barriers and return; no signal is lost | `CommandQueue`, `CommandService` |
| NDRange partition (`workp.h`, `devcmds_x86_64.c`) | entries of `workp` | `workp_genpart`; decoding of ids in the engine | remainders, more engines than blocks | every block has one engine, every item runs once | `WorkPartition` |
| x86_64 engines (`sl_engine.c`) | per engine a command slot, a mutex, two condition variables, local memory; a global partition pointer | engine loop, startup, launch (allocate, submit, collect) | unprotected globals, waits with `if`, early return in mid-loop | a launch is a barrier that runs every block once; no signal is lost; every launch returns | `SlEngine` |
| Work-items as coroutines (`sl_engine.[ch]`, `xclnm.c`) | jump buffers, the count of live items | start, barrier, return, next block | a ring of jumps that is not cleared between blocks and launches | barriers separate, every item runs its whole kernel once, the ring ends | `WorkGroup` |
| STDCL event lists (`clsched.c`, `clmalloc.c`) | two ring buffers of events per device, reference counts of OpenCL events | clfork, clmsync, clmcopy, clglmsync, clwait, clwaitev | overflow of the ring, refused enqueues, two releases of one event | clwait waits for all, no event is freed while it is listed | `StdclEvents` |
| Host threads and mutexes (`thread.c`) | attributes, events | create, ncreate, join, mutex calls | join frees an event that is still linked | an event is freed only after its command | through `CommandQueue`, `WorkPartition`, `DeviceTable` |
| Device table (`device.c`, `command_queue.c`) | 256 descriptors, the next free one, the one queue of each device | dopen, dclose, getdev, creation and release of the queue | check-then-act without a lock, twice; a queue everybody shares and anybody can free | a descriptor names its device; one scheduler per device | `DeviceTable` |
| OpenCL object lifecycle (`libcoprthr_opencl/ocl_*.c`) | reference counts | retain, release | the OpenCL queues of a device share one device queue | nothing is freed in use | command queues in `DeviceTable`; the rest not modelled |
| STDCL context lock (`clcontext.c`) | an object in shared memory: a mutex and a count of devices given out | clcontext_create, clcontext_destroy | processes race to create it, time out, or die | devices are exclusive, the mutex is used only once it is made | `ContextLock` |
| OpenCL over RPC (`libclrpc`) | requests in a pool, callbacks, events on both sides, buffers of the server | calls, handlers, callbacks | threads asleep on a callback, timeouts, bytes of several events in one answer | a wait delivers the right bytes, the server follows no bad pointer but of events whose calls failed or that were retained, every call returns | `ClRpc` |
| STDCL memory descriptors (`clmalloc.c`) | where the current copy of a block is | attach, detach, sync | stale copies | a transfer is skipped only when the copy is current | events in `StdclEvents`; the rest not modelled |
| Epiphany back end (`arch/e32`) | registers and shared DRAM of the cores | launch, completion | handshake with firmware | | not modelled |
| Programs, kernels, compilers, loader, C++ headers, tools | | | sequential code around compilers, `dlopen` and files | | not modelled |

`PROJECT.json` "components" lists all of them with their files, and
"hazards" the places in this code where a test would hardly reach.

### How they interact

* A host thread and the scheduler share a queue through `cmdq->mtx`, and an
  event through `ev->mtx` (`CommandQueue`).
* The scheduler calls `exec_ndrange_kernel` while it holds the event's mutex
  and not the queue's. This is the action `SchedCall` of `CommandQueue` and the
  whole of a launch in `SlEngine`. `coprthr_devexec` calls the same function
  on a host thread, past the queue, hence a set of `Launchers` in `SlEngine`.
* `exec_ndrange_kernel` computes the partition (`WorkPartition`) that the
  engines read (`Work` in `SlEngine`), and an engine runs each block of its
  entry (`Block` in `SlEngine`, the whole of a block in `WorkGroup`).
* libstdcl sees the queue through OpenCL calls only: an enqueue returns an
  event, a wait returns when it is complete (`StdclEvents`).
* Every device has one queue, made by whoever opens the device first and freed
  by whoever releases the last reference of any OpenCL queue on it
  (`DeviceTable`). `CommandQueue` is the life of one such queue.
* Processes that use libstdcl with one lock key meet only in the shared memory
  of `ContextLock`. A host that uses libclrpc in the place of a local OpenCL
  meets the device in another process, `clrpcd` (`ClRpc`).

## 2. Plan

| | Module | Depends on | Abstract specification | Status |
|---|---|---|---|---|
| 1 | CommandQueue | | CommandService | modelled, checked, all safety and the refinement proved |
| 2 | WorkPartition | | "runs the range once" | modelled, checked, proved |
| 3 | SlEngine | WorkPartition's result as a constant | | modelled, checked, safety proved |
| 4 | WorkGroup | | | modelled, checked, safety proved |
| 5 | StdclEvents | | | modelled, checked, proved |
| 6 | ContextLock | | | modelled, checked, safety proved |
| 7 | ClRpc | | | modelled, checked, safety proved |
| 8 | DeviceTable | CommandQueue's behaviour of one queue, in two actions | | modelled, checked, proved |
| 9 | QueueOnEngines | 1, 3 | CommandService, per kernel | a queue whose `SchedCall` is a launch; a refused launch completes |
| 10 | MemoryDescriptors, OpenCL objects, e32 | 5 | one current copy | attach, detach, CL_MEM_NOFORCE; release of a linked event |

Every module is written to be proved about: constants with named assumptions,
one action per operation, no recursive operator. Each of the first eight has
its proofs in a module of its own (CommandQueueProofs, and so on), and every
safety property a passing run checks is a theorem there.

## 3. The modules

A definition stands beside the function it translates and keeps its name where
TLA+ allows. Some definitions have a neighbour described as a *slip* (for
example `SchedUnrunKept` beside `SchedUnrun`): the same operation with a
plausible mistake. No specification uses a slip. They document which mistake
each property would catch.

### CommandQueue

The variables are the fields of `struct coprthr_command_queue` and
`struct coprthr_event`, the program counter and local `ev1` of `cmdqx1`, and
for each client the call it is in. `enq`, `ran` and `owed` are history.

*The scheduler.* One action per stretch of `cmdqx1` (`cmdsched.c` 41-184)
between two points where a mutex changes hands, and in two places (`SchedDequeue`
/ `SchedSubmit`, `SchedUnsubmit` / `SchedRunning`) finer, because
`coprthr_dwait` reads the queue without a mutex and can look in between.

*The clients.* Host threads never ask for one of the two mutexes while holding
the other, so a critical section of a client is one action that needs the
mutex to be free. A wait on a condition variable is two: go to sleep, and test
again. `pthread_cond_signal` (`Signalled`) wakes one sleeper, any of them, or
nobody; `SpuriousWake` lets a wait return without a signal, as POSIX allows.
`coprthr_dwait` is three reads, one action each. The COPRTHR_E_NOW path
(`__do_exec_cmd_1`) runs a command on the caller's thread past the queue; its
commands are in no list.

*Assumptions.* One client (`Creator`) opens the device first. The test for an
existing queue at `command_queue.c` 35-43 takes no lock, so two threads that
open a device at once can make two queues; that race is in DeviceTable.
Clients wait only for events they were given, and do not call into a released
queue. With `QuiescentRelease` a queue is released when every command is
complete; otherwise the scheduler can find `qstat = 2` on waking and leave
queued commands behind, which the code answers with a warning only.

*Left out.* Timestamps (`tm_queued` is written after the unlock,
`command_queue.c` 131-133), and `__do_release_event_1`: here events stay
allocated.

`DWaitMissesOnlyOne` says what is left of the barrier `coprthr_dwait` is
documented to be (`doc/coprthr_api_ref.txt` 344-345): it reads `cmds_queued`,
`cmd_submitted` and `cmd_running` without the mutex (`event.c` 551), and while
the scheduler moves a command from one to the next it may see none of them. It
misses that command and no other.

`CommandService` is the promise: accept in order, work on one at a time,
complete in order, let a synchronising caller go only on an empty device.
`CommandQueue!Service` maps it: the active command is the one in the
scheduler's hands, that is between `TAILQ_REMOVE` at `cmdsched.c` 104 and
`TAILQ_INSERT_TAIL` on the list of completed events.

### WorkPartition

`Fill` is one turn of the loop of `workp_genpart` (`workp.h` 108-160), `Return`
its end. `Blocks` is `safe_div` (`devcmds_x86_64.c`), which drops a remainder.
`LocalId`, `GlobalId` and `EntryBlocks` are the nested loops of the engine and
its decoding of a coroutine's number into local ids. Only dimension 0 is
partitioned; the others are copied into every entry, and appear in
`EntryBlocks`. `EveryItemOnce` speaks of the whole work-groups: OpenCL refuses
a range that is not a multiple of its group, while `coprthr_dexec` asks for
groups of 16 whatever the number of threads (`event.c` 758) and never runs
those beyond the last full group. The truncation of huge sizes to `unsigned int` is not modelled.

### SlEngine

The variables are the globals of `sl_engine.c`, and a program counter per
engine and launcher. An engine holds its mutex except inside its wait, so a
launcher's critical section is one step that needs `~Holds(e)`. A launch is a
sequence of loops over the engines: startup (first time only), spin until
ready, allocate local memory, submit, collect. `sl_engine_klaunch` frees the
partition when it returns; an engine that still reads it gets anything
(`Freed`, `EntriesOf`, `BlocksOf`, bounded by `MaxBlocks`).

The collect loop waits with `if (cmd_argp)`, not `while` (`sl_engine.c` 689): a
spurious return of that wait frees the partition under the engine. The history
variable `stray` records that it happened, and the two properties that then
fail say so in their statement. `SubmissionHeard` and `LaunchReturns` hold with
spurious wakeups. `OnlyARefusalLeaks` is exact about the early return at
`sl_engine.c` 631: local memory taken for the arguments before the one that
does not fit stays taken, and a later launch that fits may be refused. The run
has one launcher: `coprthr_devexec` would be a second, on the same globals and
without a lock over a launch, and with two the barrier does not hold.

Simplified: a block is one step; the unlocked test of `engine_td` and the
allocation that sets it are one step; the copies of
arguments, the buffer commands and `engine_shutdown`, which nothing sets, are
left out.

### WorkGroup

One engine running the blocks of launch after launch. Each item is first
called once on its own stack, which records where to begin; then the engine
longjmps to each in turn. A barrier records where to resume and jumps to the
next item of the ring; the end of the kernel jumps back to the engine, which
goes on with its loop. A jump buffer is modelled by the segment at which it
resumes. Kernels are those OpenCL allows, where all items meet the same
barriers; one that does not has undefined behaviour. The three copies of the
loop, one per number of dimensions, are one.

### StdclEvents

The kernel and memory event lists of one device of a STDCL context, and the
reference counts of the events. `ClFork` is clfork and clforka, `ClMSync` the
common tail of clmsync, clmcopy and clglmsync. OpenCL is external to libstdcl;
there are two of them. "coprthr" is the repository's: enqueues block until
their command is complete (FORCE_BLOCKING) and a wait list is refused, because
`__check_waitlist` compares the context of an event that never got one
(`xcl_structs.h` 516). "other" has an in-order queue and does what it
promises. They also differ in the references to a new event (`RefsOfNew`): the
repository's keeps one of its own that it never gives up
(`ocl_command_queue.c` 274), another gives the caller the only one. clwaitev
releases an event and leaves it in its list (`clsched.c` 416), so on "other" it
is freed there, and the next clwait or clfork passes it to OpenCL (`Stale`).
`FreedByClWaitEv` says that this is the only way a freed event is used: never
with the repository's OpenCL, and with another only after the host released the
event itself. A refused enqueue leaves clfork with an uninitialised `cl_event`:
`host` becomes "tainted" when it is listed. It is "lost" when that event or a
freed one is used, after which nothing is claimed. One thread uses a context, as libstdcl assumes: it
has no lock around its lists.

### ContextLock

`clcontext_create` with a lock key and `clcontext_destroy` (`clcontext.c`
474-557, 751-823), of processes that share one key. The variables are the
object of shared memory (`open` is the `fchmod` that lets others in, `ready`
the initialised mutex, `refc` the count), the name, and each process's place
and slice of devices. Objects are numbered in the order they are made: one
whose name was unlinked lives on in the processes that mapped it. A process
may die between any two steps (`Die`), with the mutex taken or its devices
counted. One that finds the name tries for ten seconds (`GiveUp`) and then goes
on with what it failed to open. The order of the steps around `fchmod`, `Lock`
and `Unlink` is that of the code. Without a key, and in the tables of programs
and memory of a context, nothing is shared.

### ClRpc

Host threads of one process (`libclrpc.c`, with `CLRPC_MAKE_REQUEST_WAIT2` of
`clrpc_common.h` 131-150), the pool with its one connection, and the one thread
of `clrpcd.c`. A call is: make the request, sleep, be woken by the callback,
read the reply. A request may time out or lose its connection (`Timeout`), and
the server may still work on it; the reply's fields are read in any case
(`Misread`). A server that follows a pointer it must not does anything
from there on; it is taken to be gone (`Crash`), which is also how a loss of
the server is covered. An event has a structure on both sides, `remote` is the
pointer of the one to the other. Bytes of transfers are abstracted to the
transfer they belong to; all have one length.

Two calls lead a host astray without any failure of the connection.
clRetainEvent is a copy of clReleaseEvent: its handler frees the server's
xevent (`clrpcd.c` 1229, `ServeRetain`), and the buffer also where it is memory
of the server's OpenCL. clEnqueueUnmapMemObject has no handler: the call always
fails, and it hands the host an event whose pointer comes from a reply that was
never filled in (`libclrpc.c` 1533-1548, `ReturnUnmap`). `OnlyAstrayBreaks`
counts the ways (`Astray`): the call that made the event failed, a wait that
failed called it complete, or the event was retained. The server is brought
down over no other event.

Left out are the queries clGetEventInfo and clGetEventProfilingInfo, which
follow the pointer that a wait for the event follows and change nothing, and
the calls without events, which only pack their arguments.

The run's host does not list the events of blocking reads in a wait
(`Listable`): the server has a buffer for those (`clrpcd.c` 786) and the host
has none (`libclrpc.c` 1204), and the two lists of buffers no longer agree
about whose bytes come next. `Packed` is the server's side, `Copied` the host's;
`Segment` counts the buffers before an event, the `tmp_ptr` of both.

### DeviceTable

`coprthr_dopen` is split at each access to the table (`Fill`, `Take`,
`Advance`, `Test`, `Publish`, `Start`), since no lock covers it;
`coprthr_getdev` and `clCreateCommandQueue` enter at `Test`. `Release` is the
last reference of an OpenCL queue: it joins the scheduler of the device and
frees the device's queue, and `__free` also clears the pointer
(`xcl_structs.h` 59, 232-238), so that the next creation makes a new one. What
happens in a running queue is CommandQueue's; here commands are queued and
complete, in order. Three history variables say when the program left the
discipline the code silently needs: `raced` (two of these calls overlapped),
`shared` (a queue was released that somebody else used), and `bad`, what was
then followed: a slot outside the table, a queue that is not there, or, without
any such slip of the program, "tail": the list of completed commands refers to
the event of a thread that was joined, whose memory `coprthr_join` freed
(`thread.c` 149), when the next command is linked behind it.

Discovery of the devices is over before the first call. `Usable` and `Joinable`
say what a call must find behind `devstate->cmdq`; where it does not, nothing
is claimed any more and the model stops.

## 4. The runs

| Run | Question | Bounds | Answer |
|---|---|---|---|
| `cmdq_calls` | Do order, barriers and status agreement survive every interleaving of every call, is anybody left asleep, is it an implementation of CommandService, with its fairness? | 2 threads, 3 commands, all calls, one finisher and one waiter, spurious wakeups | yes, under this discipline |
| `cmdq_finish2` | May two threads finish one queue? | 2 threads, 2 commands | no: finding 1 |
| `workp_requests` | Does every item of a whole group run once? | 195 ranges in 1-3 dimensions and the 40 of `coprthr_dexec`, up to 12 blocks, on 1-5 engines | yes |
| `engine_launch` | Is a launch a barrier, does every launch return, who loses memory? | 1 launcher, 2 engines, four commands | yes, if no wait on sig2 returns spuriously; only a refused launch |
| `group_ring` | Do barriers separate, does each item run whole, does the ring end? | up to 4 items, 3 barriers, 2 blocks, any number of launches | yes |
| `stdcl_lists` | Does clwait wait for all, when is a freed event used? | lists of 2, 5 commands, both OpenCLs | yes; only on the other OpenCL, after a clwaitev |
| `stdcl_chain` | Does each clfork run its kernel on the repository's OpenCL? | 3 commands | no: finding 2 |
| `ctxlock_share` | Is the lock made before it is used, are slices real, and disjoint until one is given back? | 3 processes, 3 devices, slices of 2, 2 lock objects, deaths anywhere | yes |
| `ctxlock_exclusive` | Are devices exclusive among the living? | 3 processes, 2 devices | no: finding 3 |
| `devtable_calls` | Does a descriptor stay its device's, has a device one scheduler, does a command find its queue? | 2 threads, 2 devices, 2 OpenCL queues, 2 slots, 2 device queues, 2 commands | yes, if calls do not overlap and nobody releases what others use |
| `rpc_calls` | Does a wait deliver the right bytes, over which events does the server leave its memory, does every call return? | 2 host threads, 2 events, 1 failing request, 1 retain | yes; those of failed calls, failed waits and retains; yes |
| `rpc_release` | May an event be released before its command is complete? | 1 thread, 2 events | no: finding 4 |

### Why the bounds are enough to mean something

*Command queue.* The interesting interleavings need a command in the
scheduler's hands, one behind it and one enqueued meanwhile: three commands. A
signal taken by the wrong sleeper needs the scheduler and one more sleeper on
the same variable, and somebody else to signal: two clients. The safety
theorems hold for any number of either, so for safety the run is a check of
the statement; for liveness it is what there is.

*Partition.* One to five engines against zero to twelve blocks covers no
blocks, fewer blocks than engines, exact division and every remainder.

*Engines.* Two engines are the fewest on which a loop over engines can stop in
the middle. The commands are chosen by shape: an even one, one that leaves an
engine without work, a chain (one command per engine), a chain longer than the
engines, and one of which the first argument fits in local memory and the
second does not. Each is launched once, in any order.

*Work group.* Four items make a ring with a first, a last and two inner items,
three barriers enough for a stale buffer to be off by more than one, two blocks
and repeated launches for buffers that were left behind. Sizes change from
launch to launch.

*Event lists.* Lists of two and five commands: the memory list goes round
twice, the kernel list becomes full and refuses.

*Context lock.* Three processes: one leaves, one stays, one comes. Three devices
in slices of two make a last slice that is shorter; two objects let a process
be left with one whose name is gone. *RPC.* Two threads share the connection;
two events can be listed in either order, and one fault or one retained event
leaves every later call to run on what it left. One thread reads and runs
kernels, the other maps and unmaps, writes and retains (`Shared`).

*Device table.* Two threads are the fewest that overlap, two slots the fewest
of which one can be full, free or given back below the other; two queues let a
device be given a second one after a release. Threads, devices and OpenCL
queues are interchangeable, hence the symmetry. Once two calls overlap they
are followed to their end and no third one begins, and they are not followed
once a queue was also released under somebody (`NoThirdCall`): after a race
nothing is claimed but types and that no event is freed early.

### Deadlock

`CHECK_DEADLOCK FALSE` everywhere: programs may stop calling, and commands,
jobs and events are finite in each instance. Getting stuck inside a call is
what the liveness properties exclude.

### Fairness

*Command queue.* `WF(SchedStep)`: the scheduler is a thread of the operating
system. `SF` for a client's step and for `CreateRun`: the scheduler takes and
drops the mutexes again and again, so that a client's critical section is
enabled over and over but not continuously; a mutex that is free infinitely
often is assumed to be obtained. Nobody is obliged to call anything, and no
spurious wakeup is promised, so no property leans on either.

*Engines.* `WF` for each engine, whose mutex a launcher holds only for a step;
`SF` for launchers, because an engine that is woken spuriously takes its mutex
again and again. *Work group.* `WF` for the steps of the engine's thread; a
launch is not promised. *RPC.* `WF` for a thread inside a call, for the event loop of
the host, for the server's loop and for the device, each of them a thread or a
device with nothing that could keep it from its next step for ever; making a
call, releasing, and a failing request are not promised. *Event lists, context
lock, device table.* No liveness is stated; the code of the lock waits with a
time limit, and a process that died with the mutex leaves the others waiting
for it.

### The discipline behind cmdq_calls

Liveness is checked for one finisher and one waiter per event, and a release
only when nothing is pending. It does not hold beyond that. Two finishers are
finding 1. Two threads that wait for one event fail in the same way: the last
signal (`cmdsched.c` 162) wakes one of them. A release with commands queued
may leave them for ever, as said above. Only the first has a run of its own.

## 5. Findings

Each is the counterexample of a run.

1. **A second finisher sleeps for ever** (`cmdsched.c` 171, `cmdq_finish2`). A
   drained queue is announced by one signal, and the scheduler goes to sleep
   on the same condition variable.
2. **The second clfork does not run** (`xcl_structs.h` 516, `stdcl_chain`). On
   the repository's OpenCL every enqueue with a wait list is refused, and
   clfork passes the event of the kernel before as one.
3. **Devices under a lock are not exclusive** (`clcontext.c` 527,
   `ctxlock_exclusive`). The count of devices given out is also the index of
   the next one: when a process leaves out of turn, the next one is given a
   device in use.
4. **Releasing an event early takes its buffer away** (`clrpcd.c` 1246,
   `rpc_release`). The server frees the buffer of a transfer with the event,
   whether or not the device has used it.

Six more places where the code does less than its words are written into
properties that state exactly what remains: `coprthr_dwait` misses at most one
command (`DWaitMissesOnlyOne`), `coprthr_dexec` runs whole groups of 16 only
(`EveryItemOnce`), a refused launch keeps local memory (`OnlyARefusalLeaks`),
a queue released while others use its device is missing for them
(`NothingMissing`), clwaitev frees a listed event of an OpenCL other than the
repository's (`FreedByClWaitEv`), and a server is misled by events that were
retained, unmapped or answered with an error (`OnlyAstrayBreaks`).

## 6. What is proved

For every value of the constants, from the assumptions each module names
(`ASSUME`), which TLC evaluates in the runs.

**CommandQueueProofs**, any number of threads and commands. The properties are
not inductive: they speak of lists and pointers and not of who holds which
mutex. The invariant `Inductive` adds that the scheduler's position determines
the owner of both mutexes and the contents of `cmd_submitted`, `cmd_running`
and the status of the command in its hands, that each event is in one place
only, and that a finisher's debt is among the commands enqueued. From it:
`TypeCorrect`, `PointersAlwaysAgree`, `CommandsKeepTheirOrder`,
`FinishWaitsForAll`, `ExecutedInOrder`, and `QueueImplementsService`: initial
states map to initial states of CommandService and each step to a step or a
stutter. Two theorems need more. `DWaitOverlooksOne`: once a dwait has found
`cmds_queued` empty, no command it is owed can appear there again. And
`NobodyOversleeps`, for one finisher, one waiter and a quiescent release, the
discipline of section 4: where the scheduler sleeps on the queue's condition
variable it is the only sleeper there and the queue is empty, so that the
signal of an enqueue cannot go to another; who sleeps on the variable of an
event waits for that event, which was enqueued and is not complete.

**WorkPartitionProofs**, any number of engines, and NDRanges of any size in 1
to 3 dimensions, local sizes of 0 included. Loop invariant: each entry filled
in starts where the one before ends and ends at `BlkEnd`. Two lemmas on
division (an entry is `delta / n` long, or one more) give
`EveryBlockHasOneEngine`, `EnginesShareEvenly` and `ResultCountsBusyEngines`.
`EngineItemsAreTheRange` is the end of the argument: (engine, block, coroutine)
to global id is one to one and reaches every id of a whole group. The product
over the dimensions that is the number of coroutines is a fold over a set in no
particular order; `Products` shows that any element may be multiplied first, so
that each stride is the one before times a local size, and local ids are the
digits of a number in that mixed radix (`Digits`, `LocalIdsDiffer`,
`LocalIdsReached`).

**SlEngineProofs**, any number of engines and spurious wakeups. `TypeCorrect`
and `EverySubmissionIsHeard` hold for any number of launchers: an engine
reaches its wait only without a command, and a launcher can set one only
together with the signal, because the engine's mutex covers both.
`EachBlockOnce`, `LaunchOutlivesEngines` and `NothingElseLeaks` assume
`SoleLauncher`, one launcher at most: nothing in the code excludes two launches
from one another, and with two a launch is no barrier. The code's one launcher is the
scheduler thread of the device's queue; `coprthr_devexec` would be a second.
The invariant splits the engines of a launch into those not yet sent to, those
at work, and those collected, and says how far each is in its share; local
memory in use is what the refused launches took and what the launch under way
has taken so far, a sum over the arguments that are behind.

**DeviceTableProofs**, any number of threads, devices, slots, queues and
commands, from `HandlesAreNames` (a handle is not the name of a call). The
invariant grows with the discipline. `TypeInv` holds always, and so does
`EventInv`: no event is twice in the queues, and one in flight was not freed.
While no calls overlapped (`~raced`), one thread at most is in a call (`Solo`),
every slot below `__ddtab_nxt` is open but the one being given up, and that of
`__ddtab_nxt` is free unless it is being filled (`TableAlone`), and a device's
pointer follows its queue from publication to release (`QueueAlone`). While
moreover nobody released what others use (`~shared`), every user of a device
finds its queue running (`UsedAlone`). Hence `DescriptorsOwnTheirSlot`,
`SchedulerIsReachable`, `CommandsFindTheirQueue` and `TypeCorrect`.

**ClRpcProofs**, any number of host threads, events, lists and failures, from
`NobodyCalls` ("nobody", to whom the server answers a request that was given
up, is not a thread). Common to all is that the server has at most one request
that somebody still waits for, that of the first thread in the pool; the others
in its inbox were given up. `WaitDeliversTheBytes` follows a list of events
through the reply: the server packs the buffers of the events it has one for,
the host takes a segment for each it has one for, and the two counts agree up
to each event. It assumes that events of blocking reads are not listed ("readB"
not in `Listable`), without which it is false. It needs neither a sound server
nor that nothing failed. `OnlyAstrayBringsDown` assumes that the host releases
an event only after waiting for it (`~EarlyRelease`; finding 4 is the other
case). Its invariant (`SoundInv`) speaks of the events the host was not led
astray about: what each of them is on both sides, that it is made once, that it
is freed only by a release, after everything else, and that what the request
under way refers to is live until it is answered. `TypeCorrect` is the types.

**WorkGroupProofs**, any number of items, barriers and blocks.
`WorkGroupInductive` distinguishes two phases. Until item 0 returns, the items
before the running one are one segment ahead of the rest, going round the ring;
after that, every item resumed by the engine is at its last segment and returns
without another jump. Hence `BarriersSeparate`, `SegmentsRunInOrder`,
`BlocksRunWhole`, and `WorkGroupTypes`, which includes that no buffer is used
before it is set and that the engine never reaches `exit(-1)`.

**StdclEventsProofs**, any STDCL_EVENTLIST_MAX and number of commands.
`EventListsInductive`: the slots in use hold events asked for since the last
clwait, the slot before the free one holds the newest, an uninitialised event
is listed only on a tainted host, an event asked for has been released at most
once, and one the host holds not at all. With the two references that the
repository's OpenCL begins with, that leaves at least one; with the one of
another, none after a clwaitev. Hence `ClWaitWaitsForAll` (also when the list overflowed: the newest
is still there and the queue is in order), `KernelsFormAChain`,
`FreedWhileListed` and `EventListTypes`.

**ContextLockProofs**, any number of processes, devices and lock objects, with
deaths at any point. `LockIsInitialised`: a process gets past `open` only on an
object the master has opened, and the master opens it after it is filled in.
`SliceInTable` needs that an offset was read below `platform_vndev`.
`ExclusiveWhileNobodyLeaves` is the hard one: until the first device is given
back there is only one object, the count is beyond every slice given out, and
the process in the critical section is the only one whose slice is not yet
counted. `ContextLockTypes` includes that nobody beyond `open` is without an
object.

### Recursion over data

The library's induction theorems take the formula to prove as an operator,
which the installed provers cannot instantiate. Where a proof needs induction,
over the turns of a fold or the elements of a list, it takes the least number
for which the claim fails (`LeastNatural`, from `WFMin` and the order of the
naturals) and shows that the claim fails for a smaller one, too.

### Only model-checked

Liveness: `WaitAndJoinReturn`, `LaunchReturns`, `LaunchEnds`, `CallReturns` and
`ImplementsFairService`. The prover does not reason about ENABLED, which
fairness is defined by.

## 7. What is not modelled

The components the plan has left: `clmalloc`'s descriptors (which copy of a
block is current), the OpenCL objects other than command queues and events, and
the Epiphany back end, whose other half is firmware outside the repository.
`coprthr_devlock` locks nothing: its macros are empty (`device.c` 408-410), it
only stores the process id. Of
libclrpc, platform and device discovery, the queries about an event and the
calls without events. Beyond
them: programs, compilers, ELF files and the OpenCL loader (sequential code
around files, `dlopen` and subprocesses); the C++ containers and CLETE
(templates); `ser_engine.c` (compiled and never called) and the legacy Epiphany
back end; the command-line tools, except for the kernel wrapper that xclnm
generates.
