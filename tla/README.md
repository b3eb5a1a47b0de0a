# POK in TLA+

A verification project for the POK kernel and its user library: a partitioned
real-time kernel in the style of ARINC 653, in C, for x86 with one or several
processors. The modules model the kernel's schedulers, its lock objects, the
partition switch of several processors, partition modes and restarts, ports, the
user library's buffers, blackboards and allocator, and the threads of the
language-model demonstration. TLC checks them on small instances, TLAPS proves
the central invariants for all.
All paths are relative to the repository's root; `sched.c`, `lockobj.c`,
`thread.c` and `partition.c` are in `kernel/core/`.

- [The system](#the-system)
- [Modules](#modules)
- [Runs](#runs)
- [Findings](#findings)
- [Other divergences](#other-divergences)
- [Proofs](#proofs)
- [Not modelled](#not-modelled)
- [Plan](#plan)

## The system

### Execution model

A system call or an interrupt handler runs with interrupts disabled, so on one
processor the kernel is atomic, except where it switches to another thread in
the middle of a call: such a call goes on when its thread is elected again.
Several processors interleave; they meet in spin locks and in two rendez-vous
counters. The timer interrupt (`kernel/arch/x86/x86-qemu/pit.c`) advances the
clock and calls `pok_global_sched` once per quantum, on the boot processor.

### Inventory

| component | state | operations | interacts with | hard because | correct when |
|---|---|---|---|---|---|
| Queues of blocked threads (`lockobj.c:430-503`) | ring `head`, `last`, `is_empty`, `buffer` | init, enqueue (FIFO, priority), get head, dequeue, remove | lock objects; reads thread priorities | wrap-around shifts, no test for full, priorities change under it | it behaves as a bounded sequence |
| Lock objects (`lockobj.c`) | `current_value`, two queues, kind, discipline | lock, unlock, event wait / signal / broadcast, create | block and ready threads, reschedule; used by ports and by libpok's mutexes, semaphores, events | calls suspended in the middle, time-outs racing hand-overs, budgets running out while blocked | mutual exclusion, no resource lost or made up, no wake-up missed or wasted, priority order |
| Thread scheduler and services (`sched.c:188-287`, `407-673`, `thread.c`) | state, priority, budget, wake-up, next activation of each thread; current and previous thread of a partition | elect, three policies, sleep, suspend, resume, end of period, set priority, suspend target, create, restart, delayed start | timer, lock objects, partition modes | wake-ups, releases and calls fall on the same scheduling point | the right thread runs, nobody oversleeps or starves, budgets hold |
| Partition scheduler (`sched.c:96-186`) | slot, deadline, major frame, flush time | init, elect partition, global schedule | timer, services, port flushing (which reschedules) | timer does not divide slots; election interrupted by the flush it makes | the table decides who runs, at every instant of decision |
| Partition switch (`sched.c:291-442`, `rendezvous.h`, `space.c`) | current partition, `fence`, `barr`, segments present | global schedule, interrupts, join/leave rendez-vous, local schedule | all processors | real concurrency, shared descriptor table | processors change partition together, without deadlock |
| Partition modes and errors (`partition.c`, `error.c`, `thread.c`) | mode, main and error thread, states and release times of the threads | create threads, set mode, reinitialise, stop, restart and delay threads, raise errors | thread scheduler | the error thread is switched to behind the scheduler's back; a restart keeps the threads of the former life | the right thread runs in each mode; delays hold; a new life starts from scratch; errors are handled first |
| Ports (`kernel/middleware/`) | ring per port, `must_be_flushed`, one flush buffer, destinations | create, send, receive, write, read, flush | events, partition scheduler | data crosses partitions inside the scheduler, which wakes threads meanwhile; time-outs, full destinations | what is read was written, in order, once; nobody sleeps on data; old samples do not pass for new |
| Buffers and blackboards (`libpok/middleware/`) | ring or slot, event | create, send, receive, display, read | lock objects, by system call | loops around event waits, copies word by word | a buffer is a bounded queue, a read gets one message, the lock is always given back |
| Allocator (`libpok/core/allocator.c`) | table of spaces, number used | allocate, free with merge | libc | recursive merge over a table that is being compacted | blocks never overlap, freed memory comes back |
| ARINC 653 layer (`libpok/arinc653/`) | tables of names | processes, semaphores, events, buffers, blackboards, ports | all services | mapping of names, states and errors | refines the services |
| Language-model demo (`examples/llm_demo`) | measured, estimated and prompted values, position in the network | sensor, estimator and model threads | four semaphores, plain shared variables | hand-over through plain variables, a deadline in the middle of a response | samples and prompts are of one instant, responses stop in time, the chain never stops |
| x86 low level, other ports, drivers, C libraries, ciphers, tools | | | | hardware, pure functions, vendored or off-line | |

What is hard to test in this code is listed, line by line, under `hazards` in
`PROJECT.json`, with the properties that would catch it.

## Modules

| module | models | composed with |
|---|---|---|
| `WaitQueue` | what the queue operations do to the contents, as sequences | |
| `PriorityQueue` | the abstract queue, a state machine over `WaitQueue` | |
| `LockFifo` | the ring buffer, field by field | refines `PriorityQueue` |
| `Threads` | one partition's threads, election, policies, services, timer | |
| `ThreadsHistory` | what a thread has used of its budget and how long it has waited | extends `Threads` with two history variables |
| `LockObj` | lock objects | extends `Threads` and `WaitQueue` |
| `CyclicSchedule` | what time partitioning promises | |
| `TimeSlots` | the partition scheduler under the timer | refines `CyclicSchedule` |
| `PartitionSwitch` | several processors changing partition | |
| `PartitionModes` | modes, creation, delayed start, errors, restart | |
| `Ports` | queueing and sampling ports, and their flushes | |
| `BoundedBuffer` | what a buffer promises | |
| `Buffers` | buffers and blackboards as monitors | extends `WaitQueue`; refines `BoundedBuffer` |
| `LlmPipeline` | the demonstration's three threads, the strings they hand on, and the generation loop | |
| `Allocator` | the allocator | |
| `MC...` | constants and initial programs for TLC | |
| `...Proofs` | theorems about one component (`LockObjProofs` has those of `Threads` and `ThreadsHistory` too) | extend the component |

**Queues.** The variables of `LockFifo` are the fields of `pok_lockobj_fifo_t`.
Its actions are the five functions of `lockobj.c:430-503`. Their loops are
written as sets of the entries that move. `Contents` reads the ring from head to
last; with it, `LockFifo` implements `PriorityQueue`, so the modules that use
queues take the sequence operators of `WaitQueue`.

**Threads.** `Reschedule` is `pok_sched_thread` with the whole of
`pok_elect_thread`: wake sleepers, release periods, refill budgets, charge the
running thread or put it on its next activation, elect by policy, update the
current and the previous thread. Every service that reschedules in the code
ends with it in the model. `Elects` picks as the code's scans do:
round robin from the current thread, the static policy from the current or the
previous one, the rate-monotonic policy from the main thread. Two oddities of
the code are kept: with no error handler `thread_error` is 0, so a resumed main
thread passes for the error thread (`ErrorThread`), and adding an infinite
period to the next activation gives 2^64 - 1 (`Never`).
The periods of a rate-monotonic partition are those its creation left:
`InsertSort` is what `pok_thread_insert_sort` does to them, `CreationSorts` proves
that the threads behind the main one come out sorted, and `SortAssumption` says
that `Period` is such an outcome; so the election, which goes by the numbers of
the threads, goes by their periods.
The policy, which `pok_partition_setup_scheduler` sets up at boot, is a variable
that never changes, so that one run can cover several; likewise the
configuration of `TimeSlots`, the kind of program in `PartitionSwitch`
(`services`) and in `Allocator` (`order`), and what the threads share in
`Buffers` (`kind`). `Threads` models a partition from where it has entered
NORMAL mode; `PartitionModes` has what comes before and after.

**Lock objects.** `Lock`, `Unlock`, `EventWait`, `EventSignal` and
`EventBroadcast` are whole system calls up to the switch; `LockReturn` and
`EventReturn` are what a thread does behind its `pok_sched_thread`. `pc`,
`waitingFor` and `deadline` are the call a thread is suspended in; `holders`,
`taken`, `owed` and `lost` are history. `lost` counts the resources that a thread
was handed and gave up by reporting a time-out; `Conservation` accounts for
every other one. The kernel does not check that a mutex is
unlocked by its holder: `OwnerReleases` names the objects whose program does.

**Partition scheduler.** A configuration is a time table, given by the instants
its slots end, with the major frame and the flushing policy. `GlobalSched` has three outcomes: the slot goes on, it is over, or it is
over and the flush made at its end switches to another thread
(`portflushall.c:108,114` broadcast, and the broadcast reschedules). In the
third the rest of the election (`FinishElection`) waits in the interrupted
thread; `suspended` counts those per partition. The field `wakes` of a
configuration tells whether its flushes may switch threads; `CyclicSchedule`
promises something for the configurations where they do not.

**Partition switch.** `pc` says where each processor is in `pok_global_sched`,
`synchro_processors` or `pok_sched_thread`; each step touches one shared
variable. A processor's election is abstracted to whether one of the
partition's threads on it can run; `Threads` has the rest.

**Partition modes.** `Elects` is `pok_elect_thread` in all modes: the main
thread in the INIT modes, whatever its state; in NORMAL mode the policy, past
which the error thread stays while it is current and runnable; the idle thread
when the partition is stopped. `running` is the thread that has the processor
and `current` the one the partition believes it has: `Raise`, which is
`pok_sched_activate_error_thread`, changes the first alone, and every election
goes on from the second. `DelayedStart` keeps the code's three meanings of a
delay: in `wakeup` until NORMAL mode, as a wake-up time, or as a release time.
`Restart` is `pok_partition_set_mode` with `pok_partition_reinit`; the threads
of the former life stay in the table. `lives`, `life`, `most` and `notBefore` are
history. Threads have no budgets and no lock objects here.

**Ports.** A port is a part of `pool`, which is `pok_queue`, at `index`, with the
code's offsets and flags; `Word` is the width of its sizes. A send, a receive, a
read or a write is one action up to its event wait. A flush is not: it takes a
port's data into the one `buffer` (`FlushTake`), writes it to each destination
(`FlushWrite`), tells the writers (`FlushRoom`) and removes the mark
(`FlushUnmark`), and each broadcast may give the processor to a thread it
wakes; then `kernel` is free, `flushes` remembers the flush, and another may
begin. Time slots and policies are left open: every order of them is allowed.

**Buffers and blackboards.** A system call is a step, and so is a word that is
copied; between steps any thread may run. `Test` is the loop of the calls, `Wake`
the end of an event wait, which returns a time-out to a thread that has been
woken too late. `Contents` reads the ring as a sequence: with it, `Buffers`
implements `BoundedBuffer` (a message is put in where the offset moves).

**Language-model demonstration.** A sample is its number. Each field of an
estimate is a string whose characters are the number of the sample it was made
from, with the terminator, and behind it whatever longer string was there before
(`Strcpy`), so that mixing two shows, character by character. `Prompt` copies as
`strcat` does (`activity.c:151-163`): one byte is one step, and where threads have
priorities the estimator may write the string anew between any two, with
"unknown" first. It writes one in one step, since the model does not run before
it blocks. `NextChar` loads a byte once: compiled with `-O`, as `common-x86.mk`
has it, the loop copies the byte it has tested. Without optimisation it loads the
byte again, and could copy the terminator of a string that shrank meanwhile.
`Handle` is what the creation of the four semaphores returns when the partition
has `NObjects` lock objects. `Forward` is one layer and the look at the clock
behind it, `Token` what `generate` makes of the result; the numbers themselves
are left out.

**Allocator.** The table has one entry more than the code declares, because
`pok_allocator_delete_space` reads it; `Beyond` is what is found there. `Merge`
is one call of the recursive `pok_allocator_merge_space`: it goes on with the same
index, kept in `merging`, and nothing else is called until it ends.

## Runs

Each row names the instance and why it is large enough. Runs that stop at a
time bound (`ThreadsCalls`, `ThreadsQuanta`, `Locks`, `LockLostGrant`, `Modes`,
`Ports`) switch deadlock checking off, because the clock's end is a deadlock
of the model alone; so do `Slots`, likewise, and `Allocator`, whose program may be
left without a block to free and without memory to get. `LockFifo`, `Switch`,
`Pipeline` and `Buffers` check it.

| run | what it shows | bounds |
|---|---|---|
| `LockFifo` | the ring implements the sequence, under both disciplines and changing priorities; it is never full | 3 threads, 2 priorities, 5 entries: a thread that blocks leaves two entries free, as in the kernel; the ring wraps at every position |
| `ThreadsCalls` | static policy: the highest priority runs after every call and timer interrupt, the processor does not idle, sleepers wake neither early nor a quantum late, when threads in any state are suspended, resumed and change priority, main included | 3 threads with main, one with a budget and a period, sleeps of 2, quantum of 2 interrupts, 2 interrupts: a wake-up, a release and a call can coincide |
| `ThreadsQuanta` | round robin and rate-monotonic: the shortest period runs (the main thread, which passes for the error thread, excepted), budgets bound the run, waiting is bounded where turns end (`TurnsEnd`) | 4 threads with budgets 1, 1, 2 and periods 2, 3, 4; 5 quanta: two releases of the shortest period, and a wait longer than the bound of 4 for the third thread is possible |
| `Locks` | one holder across time-outs and hand-overs, grants by priority, the thread granted to preempts; a blocked thread is in the one queue that can wake it, and only blocked threads are queued; no resource is made up, nobody waits while one is available, none is lost but those `LockLostGrant` is about | 3 threads that block, 2 priorities; either an event, with time-outs of 0 and 1, or a FIFO semaphore of 1 out of 2, without; 2 interrupts: a time-out can pass before, with or after the hand-over |
| `Slots` | the scheduler implements the cyclic schedule; one flush per major frame, or per window; whatever elections a flush interrupts, deadlines stay on the table's grid | 162 configurations of 3 slots of 4, 5 or 7 units without, 27 of 2 slots with interrupted elections, two of them suspended at once; timer 2, quantum 3, so scheduling points never align with slots for long; 48 units: at least 2 rounds of the longest |
| `Switch` | the rendez-vous is used in order and every processor leaves the kernel, with system calls at any time; without them, threads of two partitions never run together, and their segments are enabled | 3 processors, 2 partitions, a thread always ready on the boot processor in each |
| `Allocator` | spaces never overlap, whatever the order of frees; freeing in reverse order keeps blocks apart and gives everything back | memory 6, 6 entries, blocks of 1 to 3, 4 at a time: the table fills up |
| `Modes` | who runs in each mode, through creation, faults, repairs and a restart; the delay of a delayed start is kept; a new life that replaces all threads runs none of the last; under static priorities no interrupt takes the processor from the error thread | 4 threads: main, an error thread or none, one with the highest priority a program may give, one with a period; 1 restart, so that both lives are seen; delays and a major frame of 1, 2 interrupts: a delay ends, and a fault, an interrupt and a release coincide |
| `Ports` | what is read was written to a connected port, in order and once; valid samples are fresh; nobody sleeps on room or data | a queueing connection of 3 cells into 2 and a sampling one, a thread at each end, 4 cells sent (2 if both are used): rings wrap, overrun and are read in parts; 2 flushes under way at once, of all ports or of one; time-outs of 0 and 1, 2 interrupts |
| `Pipeline` | samples are classified whole and in order; a prompt, copied byte by byte, is of the estimate announced up to some character and of the next one from there on, so one field at most is torn, and under round robin none; no copy misses the end of its string; a response stops within a layer of its deadline; no thread ever stops for good | the four semaphores as configured, samples numbered modulo 3 (the threads are never two apart); the wind with classes of 1 and 5 characters around an "unknown" of 3, so that a string grows or shrinks under its copy, which then goes on in the new one, in "unknown" or in what an older string left, and the others of one character; 2 layers, 2 steps, a prompt of 1 token and a deadline of 2: responses end at the steps, at BOS and at the deadline, in any layer |
| `Buffers` | a buffer implements a bounded queue; nobody sleeps on what has come true; a blackboard is read whole; who waits for the lock gets it | a sender, a receiver and a thread that does both, 2 messages of 2 words: the ring is empty, full and wraps, and several waits end together |

`LockLostGrant` finds a property violated: see below.

**Fairness.** `PartitionSwitch`: `WF(Continue(p))`, since a processor
in the kernel runs with interrupts disabled and no other code can take it away,
so it makes its next step when that step is possible; the steps that wait are
spin loops. `SF(TakeInterrupt(p))`, since an interrupt sent stays pending in the local
controller and is taken at the first instant the processor is in user mode
again, however often it enters the kernel by itself in between. `LlmPipeline`:
`WF(Run)` and `WF(Tick)`: time passes and a processor with a ready thread runs
one; no fairness towards any thread is assumed. `Buffers`: `WF(Work(t))` for
every thread, which the schedulers give to threads of one priority that have a
processor each or budgets (`BoundedWait`); `LockServed` is therefore checked with
one priority. With budgets it is about programs in which none runs out as its
thread begins to wait for the lock: `sched.c:262` would let that thread return
without it, see below. A thread need never call again: `Enter` is not fair.

## Findings

| run | what happens |
|---|---|
| `LockLostGrant` | `lockobj.c:278`. A waiter that an unlock has handed the resource returns `TIMEOUT` if its deadline has passed when it runs. The object stays locked and nobody holds it. |

`PROJECT.json` quotes the documentation that says otherwise.

## Other divergences

What the code does and its names, comments or callers would not lead one to
expect, met while modelling. The models do what the code does; the properties
are stated for programs and configurations that keep clear of it, and the
changes of an instance that show it are named.

Schedulers and lock objects:

- A thread that blocks with its budget used up is put on its next activation
  instead of `LOCK`, and returns from the lock call without the resource
  (`sched.c:262`). `MutualExclusion` fails in `MCLockObj` with finite budgets;
  `Buffers` and its theorems are about programs clear of that.
- A thread that ends its period when its next activation has come is refilled
  on the spot and goes on (`sched.c:212-217`, `602-607`): under round robin one with
  a capacity of 3 or more starves the others. `BoundedWait` fails without the second
  part of `TurnsEnd`, with a capacity of 3 and a period of 1.
- `pok_thread_create` returns the number of a thread before the sort by period
  moves it (`thread.c:208-216`): under the rate-monotonic policy the identifier may
  name another thread by then.
- A user-defined flushing period is looked at when a slot ends only
  (`sched.c:142-151`); see `FlushDue`.
- A flush in the middle of an election can switch threads; the slot is advanced
  by the next election and again when the interrupted one is finished
  (`sched.c:158-169`). `ImplementsSchedule` is stated where none does.
- System calls on two processors may start the same rendez-vous: the assertion
  `!*r` fails (`sched.c:315`). `RendezvousInOrder` fails with two `Callers`.
- A switch to a partition with nothing to run enables the idle thread's
  segments, partition 0's; a thread of the new partition that wakes later in the
  slot has none (`sched.c:336-338`). `ScheduledIsEnabled` fails with an empty
  `Background`.
- The current partition changes before the rendez-vous (`sched.c:312`), so a
  system call on another processor elects a thread of the new partition too
  early. `ScheduledIsEnabled` and `OnePartitionAtATime` are therefore stated for
  programs without such calls.

Allocator:

- After deleting an entry the merge goes on with that index (`allocator.c:220`).
  It may be a block in use by now, which is merged into free memory and given
  away again, or past the used entries, where memory is lost.
  `LiveIsAllocated` and `WholeAgain` are therefore stated for programs that free
  in reverse order.

Partition modes:

- Under round robin the first timer interrupt after a fault brings back the
  thread that failed, since it is still the current one;
  `ErrorKeepsProcessor` is stated for the static policy.
- A restart (`partition.c:85`) resets the main thread alone: threads of the
  former life that the new one does not replace keep their state and run when
  NORMAL mode comes; hence `AllReplaced`.
- The delay of a periodic thread's start is taken for a time since the system
  started, to which a major frame is added, if it was given in an INIT mode, and
  leaves the thread stopped if it was given in NORMAL mode (`thread.c:314-324`).
  `DelayHonoured` is therefore about aperiodic threads.
- A delayed start gives the error thread's priority, like any other's, back its
  base value, 200, which other threads may have (`thread.c:292`). Programs know
  its identifier only if they guess it; `Created` leaves it out.
- In the INIT modes the main thread is elected even when it sleeps
  (`sched.c:239`): its sleep ends at the next scheduling point.
- An aperiodic thread that is restarted waits for a next activation that never
  comes (`partition.c:458-478`).
- The bounds check of the thread services lets the identifier through that
  follows the partition's last thread (`thread.c:290`); without an error thread,
  `thread_error` is 0, and a main thread with that number passes for it.
- `pok_error_thread_create` leaves fields of the attributes unset
  (`error.c:23-41`); what becomes of them is overwritten at the activation.

Ports:

- `pok_port_available_size` exchanges the two cases (`portutils.c:34-44`):
  unless the port is full there always seems to be room, so a send may overrun
  data not yet flushed, which is lost. What is read is still in order.
- A flush takes data out of the source and drops it when a destination is full
  or not ready (`portflushall.c:94-113`).
- A partial receive leaves a full port marked full, so it refuses flushes until
  it has been emptied (`portutils.c:91-94`).
- A time-out is turned into an absolute time and passed to the event wait as a
  duration (`portqueueingreceive.c:96`): the wait is too long.
- All flushes share one buffer. With a port of two destinations, a flush nested
  between them delivers its own data to the second: `InOrder` fails in
  `MCPorts` when `Destinations` gives `out` a second port. Every port of the
  run has one.
- What is sent between the broadcast of a flush and the removal of the mark
  (`portflushall.c:114,120`) stays in the port until the next send.
- A sampling read that fails its pointer check returns with the port locked,
  and checks against the size of another port (`portsamplingread.c:63`); port
  identifiers are checked with an off-by-one.

Buffers and blackboards:

- A receive with time-out 0 on an empty buffer gives the lock back and goes round
  its loop without it (`bufferreceive.c:48-58`). With `"receive"` in `Polls`
  `ImplementsBuffer` fails; all runs and theorems exclude it.
- A message shorter than the buffer's message size moves the offset by its own
  length, and the reader's by the whole size: with `Lengths = {1, 2}`
  `ImplementsBuffer` and `BoardReadWhole` fail.
- Every wake-up restarts the whole time-out of a call. An infinite time-out is
  multiplied by 1000 and wraps.
- `pok_blackboard_read` looks neither at whether something is displayed nor at
  its time-out, and `pok_blackboard_display` neither marks the blackboard nor
  wakes anybody.
- Identifiers are checked with an off-by-one and the shared data area of 1024
  bytes is not checked at creation.

Language-model demonstration:

- `config.yaml` asks for one semaphore. With `NObjects = 1` three of the four
  creations fail, every name stands for the first object, and `SampleWhole`
  fails. The generated `deployment.h` that is checked in has room for all.
- Between the estimator and the model there is no semaphore that keeps the
  second estimate from being made while the first is read. Under static
  priorities `strcat` may be preempted inside a string that the estimator then
  overwrites (`activity.c:895-901`, `974-1012`): a prompt may mix two neighbouring
  estimates, one field may mix their characters, and where the new string is
  shorter than what was copied the copy goes on through what is behind its
  terminator, characters of "unknown" or of the older string. `PromptFresh` says
  what remains true: the order of the two, one torn field at most, nothing but
  their characters and those of "unknown", and an end within the longest string.
  It does so for as long as an optimised `strcat` loads each byte once, see above.
- Thread attributes are filled in without period and time capacity
  (`main.c:42-61`); the model takes budgets for infinite.

ARINC 653 layer (not modelled): `SUSPEND` leaves a process `STOPPED`, which is
`DORMANT` for the layer, so `RESUME` refuses it; the state it accepts, `WAITING`,
has the number of the kernel's `LOCK` (`process.h:40-43`, `sched.h:29-36`), so it
resumes only processes that wait for a lock object, and takes them out of the
wait without the object. Both want a period, where the standard wants none.

## Proofs

Every theorem holds for all values of the constants that satisfy the module's
named assumption, and for the further assumptions given here.

| module | theorem | of | assumes |
|---|---|---|---|
| `LockObjProofs` | `ThreadTypeCorrect` | `ThreadTypeOK` | |
| | `NeverIdleWhileReady` | `NoIdleWhileReady` | |
| | `HighestPriorityAlwaysRuns` | `HighestPriorityRuns` | |
| | `CreationSorts` | `InsertSort` | sorted so far |
| | `ShortestPeriodAlwaysRuns` | `ShortestPeriodRuns` | `SortAssumption`; the main thread is exempt |
| | `SleepersWokenInTime` | `NoOversleep` | |
| | `SleepersSleep` | `NoEarlyWakeup` | |
| | `BudgetsBoundRuns` | `BudgetBoundsRun` | `NobodyResumed` |
| | `WaitsBounded` | `BoundedWait` | `NobodyResumed` |
| | `LockTypeCorrect` | `LockTypeOK` | |
| | `FreeMeansNoWaiter` | `FreeImpliesNoWaiter` | |
| | `QueuedThreadsWait` | `QueuedIsWaiting` | `NoForcedWakeup` |
| | `MutualExclusionHolds` | `MutualExclusion` | `NoForcedWakeup` |
| | `BlockedThreadsQueued` | `BlockedIsQueued` | `NoForcedWakeup` |
| | `ResourcesConserved` | `Conservation` | `NoForcedWakeup` |
| | `PriorityQueuesSorted` | `QueuesSorted` | `FixedPriorities` |
| | `GrantsByPriority` | `GrantOrder` | both |
| `TimeSlotsProofs` | `SlotTypeCorrect` | `SlotTypeOK` | |
| | `DeadlinesOnGrid` | `OnGrid` | |
| | `SlotContainsDecision` | `SlotInForce` | `WellFormed` |
| | `SchedulerKeepsTable` | `ImplementsSchedule` | the same |
| | `FlushesOnTime` | `FlushedOnTime` | the same |
| `PartitionProofs` | `SwitchTypeCorrect` | `SwitchTypeOK` | `OneCaller` |
| | `RendezvousCorrect` | `RendezvousInOrder` | `OneCaller` |
| | `PartitionsAlternate` | `OnePartitionAtATime` | `OneCaller` |
| | `SegmentsEnabled` | `ScheduledIsEnabled` | `OneCaller`, `AlwaysWork` |
| | `ModesInvariant` | `ModesInv` | |
| | `InitRunsMain` | `ModeRuns` | |
| | `ReadyAlwaysRuns` | `ReadyRuns` | |
| | `DelaysHonoured` | `DelayHonoured` | aperiodic threads: `notBefore` is set for no other |
| | `LivesFromScratch` | `FromScratch` | `AllReplaced`, by its statement |
| | `ErrorThreadKeeps` | `ErrorKeepsProcessor` | static policy, NORMAL mode, `AllReplaced`, by its statement |
| `LlmPipelineProofs` | `PipelineTypeCorrect` | `PipelineTypeOK` | |
| | `GenerationAlwaysStops` | `GenerationStops` | |
| | `SamplesAlwaysWhole` | `SampleWhole` | `NObjects = 4` |
| | `PromptsAlwaysFresh` | `PromptFresh` | `NObjects = 4` |
| `LibpokProofs` | `SpacesStayDisjoint` | `SpacesDisjoint` | `StartsAtZero` |
| | `BlocksStayAllocated` | `LiveIsAllocated` | `ReadsAsEmpty` |
| | `MemoryWholeAgain` | `WholeAgain` | `ReadsAsEmpty` |
| | `MonitorExclusive` | `OneInside` | no polling receive |
| | `WakeupsReach` | `NoMissedWakeup` | the same |
| | `ReadsAlwaysWhole` | `BoardReadWhole` | the same, `Lengths = {MsgSize}` |
| | `BufferIsQueue` | `ImplementsBuffer` | the same two |
| `LockFifoProofs` | `RingNeverFull` | `NeverFull` | |
| | `RingIsQueue` | `ImplementsQueue` | |
| `PortsProofs` | `PortWakeupsReach` | `NoMissedWakeup` | |
| | `ValidAlwaysFresh` | `ValidIsFresh` | `SameKind` |
| | `ReadsInOrder` | `InOrder` | `Connected` |
| | `ReadsAlwaysAdvance` | `ReadsAdvance` | `Connected` |

**Threads.** The state properties hold right after a `Reschedule`, whatever it
starts from, and are kept by the few steps that do not reschedule (a timer
interrupt inside a quantum, the suspension of another thread). So each theorem
rests on a lemma about `Reschedule` and a case per step that does not.
`BudgetBoundsRun` is strengthened by `BudgetInv`: while a thread has something
left, what it has used and what is left make at most its budget; when nothing is
left it may run one quantum more, and then waits for its activation. That a
waiting thread does not run again before it is refilled needs that nobody
resumes it (`NobodyResumed`). `BoundedWait` is strengthened by `TurnInv`: what a
runnable thread has waited, what is left to the running one and the turns of those
the scan meets in between (`Span`) make at most one turn of each other thread.
Whoever is elected takes its turn out of the span (`SpanShrinks`), whoever becomes
ready begins with less than the whole (`SpanInTurns`). The sum over the threads is
the function `Total`; that there is one, and that it grows, is shown by the least
number for which it fails. `TurnsEnd` is part of the property: without it the
property is false, see above.

`ShortestPeriodRuns` follows from the election by thread number and from
`SortAssumption`; `CreationSorts` is why that may be assumed.

**Lock objects.** `FreeImpliesNoWaiter` is inductive with the types.
`QueuedIsWaiting` and `MutualExclusion` are not: `WaitInv` adds that queues have
no duplicates, that a thread owed a resource is in the call it is owed for and
in no queue, and that a queued thread is blocked. The last needs
`NoForcedWakeup` (no finite budgets, no `resume`): with a budget the theorem is
false, see above. `BlockedIsQueued` is the other direction and has an invariant
of its own: `QueueInv` says that a thread suspended in a lock is queued or owed,
that an owed one is awake, and that one suspended in an event wait is queued
unless it was woken; with the absence of duplicates it is queued once.
`Conservation` is inductive given `WaitInv`, one lemma for what takes a
resource, one for what gives it back and one for each return; `FreeImpliesNoWaiter`
is what keeps an unlock from making one. `GrantOrder` needs that queues are
sorted, which insertion, removal and the head's leaving keep as long as no
priority changes (`FixedPriorities`: the code never sorts a queue again, and
`pok_thread_set_priority` does not look for its thread in one). `WaitQueueProofs`
has the facts about insertion, removal and order that the proofs cite, down to
which entry is where.

**Queues.** `RingInv` says that the ring is empty exactly when
its ends meet and that no thread is in it twice; so there are at most as many
entries as threads that can block, which `RingAssumption` keeps two below the
size, and a ring with one thread more has ends that do not meet. Slots are
reasoned about as steps onward from the head, where the remainders are linear.
An insertion is the same under both disciplines (`Entered`): every entry from the
k-th on is one slot further; the scan of the priority discipline finds the k of
`InsertPosition` (`ScanFinds`).

**Time slots.** `OnGrid` is strengthened by `GridInv` (the round and the slot
determine the deadline). `SlotInForce` (the conjunction
`WindowInv` where no flush interrupts an election) follows when slots last a quantum and a
timer period at least, because the next decision then falls into this slot or
the next. Refinement maps each decision to `Decide`, everything else to a
stutter.

**Partition switch.** `Phase` describes the rendez-vous by where the source is:
whom the interrupt has reached, how many have joined each counter
(as cardinalities of the sets of processors at each control point), and that
nobody is in a later stage. It needs one source, `OneCaller`; with two it fails. `TogetherInv` adds, for each phase, which
partition the threads that run or are elected belong to. `SegmentsInv` adds which
segments are enabled between the two space switches. The space switch enables
the partition of the thread elected on the processor that calls it, so
`SegmentsEnabled` wants a thread of every partition that is always ready there
(`AlwaysWork`); without it the theorem is false, see above.

**Partition modes.** The theorems are about `Spec`, where any thread makes any
call, not about the programs of `MCModes`. `ReadyRuns` is not inductive with
`ModeRuns` alone: a delayed start must know whose priority it changes and a
restart which threads are left. `ModesInv` adds where a delayed thread is
(`DelayInv`), which threads are of this life and which were never created
(`LivesInv`), and that the error thread is above the others (`ErrorInv`).
`Rescheduled` is what an election does to any states, under both policies, and
is proved once (`RescheduleFacts`); an action then needs what it leaves to the
election (`AfterElection`), or that it keeps the running thread
(`WithoutElection`).

**Language-model demonstration.** Each pair of semaphores passes a baton: at any
time it is a semaphore's value, or with one thread. `BatonInv` says for both where
it is, by the threads' control points and the queues (`PlaceInv`, `QueueInv`),
and what the shared variables hold then (`RawInv`, `EstInv`, `ValInv`,
`PromptInv`); `SampleWhole` alone says nothing of the time between. That no copy
overruns a string is proved with the types, for any number of lock objects:
whoever writes leaves, from where the copy is (`Rest`), a terminator within the
longest string, be it the new one, that of "unknown" or an older one
(`StringInv`). What the model finds at its next byte follows from the estimator's
place alone (`Ahead`, `FirstOf`): it has made the next estimate or it has not,
since whenever the model has the processor the estimator is not in the midst of
making one (`NotMidWork`). `PromptInv` and `CopyInv` carry this through the
copy: everything copied before the estimator got ahead is of the estimate
announced (`Told`), a field begun after is all of the next (`Newer`), and the
estimator gets ahead once, because it then waits for the model (`AheadStep`).
`GenerationStops` needs that `late` counts only passes that were cut off.

**Allocator.** `DisjointInv` adds that every space of the table has a size, so that
two that share no memory do not start at the same place, and that the entries
behind the used ones start at 0. The merge may go on with such an entry; it
touches no space from behind as long as it starts at 0, which is what the code
reads behind its table when that is zeroed (`StartsAtZero`). For a program that
frees in reverse order, `StackInv` describes the whole table: the blocks in the
order it got them, each at the end of the one before, then the free memory, in
one entry or, while it is merged, in two.

**Buffers.** `LockInv` is the monitor: the lock is taken exactly when one thread is
inside, a queued thread is in no other place, and who is handed the lock is the
one inside. `NoMissedWakeup` is then inductive, `KindInv` keeping the calls of
buffers and blackboards apart; `BoardInv` says how much of a message has been
copied by whom. The refinement maps the step that moves an offset to the put or
the take of the abstract buffer and every other to a stutter. `RingInv` puts both
offsets on the grid of message slots and says whether they meet because the ring
is empty or because it is full; `PassInv` says how many words the call that is
inside has copied, that its slot holds them, and that there is room for it or a
message there. Slots stay apart because messages have the buffer's own length; with shorter ones the
offsets leave the grid and the code overruns, see above. A polling receive goes
on without the lock, so two calls can be inside.

**Ports.** Three invariants, each on the one before. `SleepInv`: a
thread in a wait is at a queueing port, of a length that port can have, and its
port is empty, full, or about to be announced by a flush. It is inductive with
the types of the offsets (`RingTypeOK`) and needs nothing of the connections.
The proof showed what else `PortAssumption` must say: where the begin is before
the end, the room is computed as a negative number in an unsigned word (see
above), and is a message's at least only while sizes are at most half of the
word's range.
`FreshInv`: the ports' segments of `pok_queue` do not meet (`MemoryInv`), every
cell is of a message that was sent (`MessageInv`), a flush that carries a sample
keeps the processor until it has removed the mark, and the buffer its sample
(`CarryInv`), a source holds the last sample written (`SampleInv`), and a
destination has a marked sample only while the flush that delivers it goes on,
since this very instant (`NewInv`): so no flush makes an old sample new.
`OrderInv`: the
cells of a ring come in the order of their messages, from its beginning to its
end and round it (`RingsInv`); what a destination has was taken from its source
before what is still there, and what a flush carries lies between (`LinesInv`,
`CarriedInv`); what was read lies before all of it (`GotInv`, `SamplesInv`).
`SameKind` and `Connected` are what a configuration's tables give and the
kernel does not check: a port is connected to ports of its kind, an `IN` port
has one source, a queueing port one destination, and connected sampling ports
one size. With two destinations order is lost: the flush that is
left when it wakes a reader of the first goes on with what the one `buffer` holds
by then. `MCPorts` satisfies both.

**Only model-checked.** Liveness under fairness (`SwitchesComplete`,
`PipelineFlows`, `LockServed`) is out of the prover's reach. Every other property
the passing runs check is a theorem, with the assumptions of the table.

## Not modelled

- The ARINC 653 layer: wrappers with tables of names over services that are
  modelled; what it makes of their states is described above. The system-call
  stubs of libpok have no state.
- Which error is raised, and the kernel's default handlers, which print; the
  default worker of the error thread stops the partition at once, one of the
  calls `PartitionModes` allows.
- Budgets and lock objects in `PartitionModes`, and restarts and `resume` in
  `LockObj`: the lock objects of a former life stay as they were, and a resumed
  thread leaves its wait while it stays queued. The theorems about lock objects
  name the calls that would break them (`NoForcedWakeup`).
- The numbers of the demonstration: layers, sampling, tokenizer and its tables,
  which are most of the repository's lines.
- Virtual port tables: look-ups in generated constants.
- Spin locks: one atomic exchange. The operations of an object are atomic in
  the model because its lock is held throughout, with interrupts disabled.
- Start-up, loader, descriptor tables beyond their present bits, context
  switch, drivers, console, instrumentation: hardware, or output.
- The PowerPC and SPARC ports, the C libraries, ciphers and mathematics, the
  Ada bindings and the configuration tools.
- Several processors in `Threads` and `LockObj`: a thread is bound to one
  processor; what `pok_threads_schedule_every_proc` does to others is in
  `PartitionSwitch`.

## Plan

Done: all modules named above, with their runs, and proofs about each component.
Next, in this order:

1. `Arinc653`: processes and their states over `PartitionModes`.
2. Lock objects across a restart: `LockObj` over `PartitionModes`.
