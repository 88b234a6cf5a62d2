# A TLA+ model of the kernel of Operating Systems Project 2

The repository is a small single-core RISC-V kernel: threads with a C and a
C++ interface, semaphores, sleeping, a console, and three memory allocators.
This directory holds TLA+ models of its core, configurations that check them
with TLC, and proofs checked by TLAPS.

## 1. The system

There is one core. Every system call is an `ecall` that enters
`Riscv::handleSupervisorTrap` with interrupts off, and so is every timer and
console interrupt. A trap may change the running thread (`TCB::contextSwitch`);
the old thread then stays suspended inside its trap and finishes it when it
runs again.

| Component | State | Operations | Calls | What makes it correct |
|---|---|---|---|---|
| Scheduler (`Scheduler/`) | list of ready TCBs, the idle thread at its tail | `put`, `get` | | the list stays well formed; it is FIFO; the idle thread only runs when nobody else can |
| Sleep list (`Thread/TCB.cpp`) | list of sleepers, each with the difference to the one before | `insertSleepThread`, `updateSleepThreadList` | scheduler | nobody wakes early, or late, or never; no unsigned field wraps |
| Threads (`Thread/`) | running thread, flags of each TCB, time slice counter | create, start, dispatch, exit, delete | scheduler, slab allocator | no thread is lost or linked twice; a recycled TCB starts like a new one |
| Semaphores (`Semaphore/`) | value, list of waiters | open, wait, signal, close, delete | threads, scheduler, slab allocator | permits and waiters agree; FIFO release; a closed wait fails, any other succeeds |
| Timer, `main()` | pending interrupt, boot sequence | periodic interrupt, the loop of `main()` | sleep list, threads | every ready thread runs |
| Trap entry and return (`InterruptHandling/`) | `sepc`, `sstatus`; copies of both on the stack of each suspended trap | entry, the handler's last lines, `sret` | all of the above | a trap returns to where it was entered, in the right mode, whatever thread ran in between |
| Console (`Console/`) | two bounded buffers, each with semaphores | `getc`, `putc`, console interrupt, output thread, `getNumberOfElements` | semaphores, scheduler | characters are neither lost nor reordered nor made up; what is written is sent |
| System call interface (`SystemCalls/`) | one static argument block per call | marshalling, `ecall` | trap | a call uses its own arguments |
| Buddy allocator (`MemoryAllocator/`) | one bit per block and size | allocate, deallocate | | blocks are disjoint; free buddies are merged |
| Slab allocator (`MemoryAllocator/`) | caches with free, dirty and full slabs | caches, objects, buffers, shrink | buddy allocator | an object is handed out once; constructor before use; counts agree with lists |
| First-fit allocator (`MemoryAllocator/`) | list of free segments | `mem_alloc`, `mem_free` | | segments are disjoint and merged |
| Division of the heap (`MemoryAllocationHelperFunctions.cpp`) | addresses fixed at boot | bounds of the buddy and first-fit regions | | the regions are aligned, inside the heap and apart |
| Printing, tests, `lib/` | | | | |

What is hard here: calls and interrupts interleave in every order; a thread that
was suspended in a trap reads state that others changed meanwhile (`sem_wait`,
the time slice counter); the sleep list stores differences; TCBs and semaphores
are recycled; and some kernel code runs outside a trap (the destructors of the
C++ interface, the output thread, `main()`), where it may be preempted. A thread
that such code suspends or resumes carries the interrupt bit of one side to the
other, so a trap can go on with interrupts on and be interrupted itself.
`PROJECT.json` lists every hazard with its line and the properties that cover it.

## 2. The modules

    ReadyQueue <- FifoScheduler <- SchedulerQueue -> Scheduler     ThreadListsProofs
    SleepList  <- SleepTimer                                       SleepListProofs, ThreadListsProofs
    ReadyQueue, SleepList <- Kernel -> FifoSemaphores              KernelProofs
    ReadyQueue <- KernelBuffer <- ConsoleOutput, Traps             ConsoleOutputProofs, TrapsProofs
    SystemCalls                                                    TrapsProofs
    HeapDivision <- BuddyAllocator -> BlockStore <- SlabAllocator  BuddyProofs, SlabProofs
    FirstFit                                                       FirstFitProofs

An arrow points to the module used. Each `MC...` module gives a module's
constants their values for TLC. `Powers`, which the allocators use, has the powers
of two (`1 << n`) as a recursive function, about which the provers can reason.
Two modules of proofs treat two components each, so Scheduler and SystemCalls
name what they share with the other one differently: `ListInit`,
`TCBs`; `CallsInit`, `Callers`.

**Scheduler** is `SchedulerListManagement.cpp` pointer by pointer: head, tail,
`schedulerNextThread`, `schedulerPrevThread`. `Put` and `Get` are the two
methods, one disjunct per early return. `MayPut` is what the callers guarantee:
the idle thread is put first (`main()`), later a thread is put only when it is
not in the list. That guarantee is not just assumed: `EveryThreadInOnePlace`
shows that the kernel's calls meet it.
**SchedulerQueue** adds a history variable `queue`, states that the list spells
it (`Linked`), and maps the list to **FifoScheduler**, the abstract promise.
**ReadyQueue** holds the three operators of that queue; the kernel model uses
them in place of pointers, which the refinement justifies.

**SleepList** is the list of sleepers as a sequence with the `sleepTime` field
of each TCB. **SleepTimer** drives it with ticks and sleeps in any order and
records in `due` what each thread asked for and in `delayed` which sleepers had
another thread inserted before them behind the head.

**Kernel** composes threads, semaphores, sleep list and timer. One action is one
trap of the running thread, from entry to the context switch if there is one:

| Action | Code |
|---|---|
| `ThreadCreate`, `ThreadCreateCpp`, `ThreadStart` | `thread_create`, constructor of `Thread`, `scheduler_put` |
| `ThreadDelete` | `~Thread`: slab destructor, then constructor |
| `ThreadExit`, `ThreadDispatch` | `thread_exit`; `thread_dispatch` and `getThreadId`, which both call `TCB::dispatch` |
| `SemOpen`, `SemClose`, `SemDelete` | `sem_open`, `sem_close`, `~Semaphore` |
| `SemWaitPasses`, `SemWaitBlocks`, `SemSignal` | `sem_wait` with and without a permit, `sem_signal` |
| `TimeSleep` | `time_sleep` |
| `TimerInterrupt(n)` | the timer interrupt that wakes `n` sleepers and may preempt |
| `MainLoop`, `MainReturns` | the loop of `main()`; its end stops the system |

`semWait[t]` says where inside `sem_wait` a suspended thread is; it replaces
the saved program counter. The return value is computed when the thread runs
again, so what it reads then (`waitSemaphoreFailed`) is in the model.
**FifoSemaphores** is what semaphores promise to a program.

**KernelBuffer** is the ring of `KernelBuffer.cpp` and its four semaphores: `Put`
and `Fetch` on the array, and `WaitPasses`, `WaitBlocks`, `Signal` on a semaphore.
What blocking does to the processor is left to the two modules that use it.

**ConsoleOutput** takes the output buffer statement by statement. `pc[t]` is the
next statement of thread `t` (`"waitTail"` is `mutexTail->wait()`), and the
order of the statements of each method is a table: `InsertOrder`, `RemoveOrder`,
`CountOrder`.

| Action | Code |
|---|---|
| `Putc` | the trap of `putc` begins |
| `WaitSemaphore`, `SignalSemaphore` | a `wait()` or `signal()` of `insertIntoBuffer`, `removeFromBuffer` or `getNumberOfElements` |
| `StoreCharacter`, `FetchCharacter`, `Count` | what these methods do between them |
| `Poll`, `Send` | the two looks of `putcKernelThreadFunction` at the console |
| `MainDispatches`, `MainAsks`, `MainReturns` | the loop of `main()` |
| `Preempt` | a timer interrupt at the end of a slice, or `thread_dispatch` of a user thread |
| `PreemptInside` | the same interrupt inside a semaphore operation: the model ends (`preempted`) |
| `ConsoleTransmits` | the console can take the next character |

`interrupts` is the SIE bit as it matters here. `resumesWith[t]` is what it
becomes when `t` runs again: a thread preempted by a trap returns from that trap
to the bit it had, a new thread starts with interrupts on, but a thread that
blocked in `suspendCurrentThread` goes on with the bit of whoever switched to it.
Two consequences are part of the model: `putc` may finish its trap with interrupts
on, and the output thread may go on with interrupts off, until it blocks.

**Traps** is about the registers that decide where a return goes. `frames[t]` are
the traps that thread `t` is in, each with the `sepc` and `sstatus` it saved, and
how far it is: `run`, `restore` (before `writeSepc`), `status` (before
`writeSstatus`), `sret`, or the next statement of the input buffer. Interrupts come
between these steps wherever SIE is set.
`stage[t]` is where a thread's own code is: `threadWrapper` makes a new thread
leave supervisor mode, the output thread enters it again. A trap that returns to
another place than it came from ends the model (`astray`). The input buffer is a
KernelBuffer, taken statement by statement as the output buffer is: `After` is the
order of the statements of `removeFromBuffer` (in the trap of `getc`) and of
`insertIntoBuffer` (in the console interrupt), `WaitsFor` and `Signals` the
semaphore each of them uses, all four of the buffer's included. A trap that the output
thread has resumed executes them with SIE on, so a timer or console interrupt may come
between any two, nest, and work on the same buffer. Where an interrupt
comes inside `wait()` or `signal()` (the lines with `++`, `--` and the list of
`KernelSemaphore.cpp`), the model ends as ConsoleOutput does: `InterruptInside` sets
`preempted`. `fetch` and `store` are one step each with their cursor, which
`MutexesExclude` justifies. `uart` is what the console holds; no second console interrupt
comes while one is between `plic_claim` and `plic_complete` (`InService`), even
if the first is suspended. The calls served are those that switch threads in each
way there is; `outputItems` stands for the output buffer, whose details are
ConsoleOutput's.

**SystemCalls** looks at a call before its trap: each function stores its
arguments in a static block (`Store`), `prepareArgsAndEcall` loads them into
registers (`Load`), and the timer may switch threads between any two of these
steps. Kernel and Traps assume that a call gets the arguments its thread gave;
this module shows when that is so, and that it is not always.

**HeapDivision** is the arithmetic that gives the first eighth of the heap to the
buddy allocator and the rest to `mem_alloc`, with the roundings of the code.

**BuddyAllocator** has the code's one bit per block and size; a block is its
exponent and index, and `BlockAddress` its address in the region HeapDivision
computes. `Allocate` finds a block and frees the right halves on the way down,
`Merges` is the loop of `deallocate`. The variables `held`, `request`
and `got` record the callers' side, in which **BlockStore** states what the
allocator promises: a block of the size asked for, unused, or a refusal if
there is none.

**SlabAllocator** has the caches with their three lists and counters, and the
chains of free slots. Its memory is a BlockStore: the addresses of caches and
slabs are the blocks held, so nothing is said twice about the buddy allocator.
Sizes in bytes are computed as in the code, with the sizes of structures as
constants. `AllocateBuffer` is `kmalloc` up to its call of `allocateObject`,
whose step follows at once. `FreedTwice` tells in which lists the slabs of
objects are of which callers free slots that nobody holds: `"free"` for those
without objects, `"dirty"` for those with some.

**FirstFit** has the headers of the segments, with both links, in blocks of
memory. It goes on only while every caller's blocks are its own
(`CallersBlocksHoldNoHeader`): after that the contents of memory decide.

Left out of Kernel: saved registers (see Traps), stacks, thread ids, the bodies of
threads (a user thread may make any call at any time), failed allocations, and
the console (see ConsoleOutput), so that the kernel's own output thread, which
only waits on semaphores, is one of the user threads. Deletion of a thread or a
semaphore is one step although that code runs in user mode; see section 6.

## 3. What is checked

| Run | Instance | Shows |
|---|---|---|
| `thread_lists` | 4 threads and the idle thread, sleeps up to 4 periods, fair timer | `Linked`, `ImplementsFifo`; `TypeOK`, `HeadHasTimeLeft`, `SleepsAsAsked`, `WakesOnlyWhenDue`, `SomeoneWakes` |
| `kernel` | main, idle, userMain, 2 more threads, 1 semaphore, fair timer | the invariants of the kernel, `NoOvertaking`, `ClosedWaitFails`, `ImplementsFifoSemaphores`, `ReadyThreadRuns` |
| `console_output` | main, idle, userMain, the output thread, 1 more; 2 places, 3 characters; fair | `OutputIsInOrder`, `PermitsMatchBuffer`, `CountIsExact`, `OutputDrains`, `InterruptsComeBack` |
| `traps` | the same threads; 2 places, 3 characters typed, traps nested twice | `OnlyDisturbedReturnsGoAstray`, `ModeIsRight`, `InputIsInOrder`, `MutexesExclude` |
| `buddy` | a heap of 137 bytes, of which 8 blocks of 2 bytes are used; requests of all exponents, of 0 bytes and of too many | `EachUnitInOneBlock`, `FreeBuddiesAreMerged`, `BlocksStayInTheirRegion`, `AllocatedBytesAreHeld`, `ImplementsBlockStore` |
| `slab` | 8 blocks of 8 bytes, a cache with 3 objects in a slab and a buffer cache with 1 whose slabs need 3 blocks and get 4, slots freed twice in free slabs | `FreeSlotsAreChained`, `SlabsAreInTheirLists`, `CacheInfoIsTrue`, `SizeCoversSlabs` |
| `first_fit` | 12 blocks, requests of 1 to 3 | `ListIsSorted`, `HeldSegmentsAreNotFree` |

`thread_lists` runs the ready list and the sleep list side by side (`MCThreadLists`):
each of them in any order of its operations, but a thread in one list at a time, as
the kernel keeps it (`EveryThreadInOnePlace`). `SizeCoversSlabs` is what holds of the
size of a cache for all sizes of objects: it is enough for the slabs, so it never wraps below 0;
what does not hold is the next table's.

Five runs end in a counterexample and record a disagreement between the code and
its comments, messages or tests (`findings` in `PROJECT.json`):

| Run | Property | What happens |
|---|---|---|
| `stale_failure` | `TakingAPermitSucceeds` | `waitSemaphoreFailed` is set by `sem_close` and never reset, so every later `sem_wait` of that thread returns -1 |
| `shared_arguments` | `ArgumentsAreTheCallers` | a thread preempted between `arguments.arg1 = ...` and the load makes its call with another thread's arguments |
| `slab_double_free` | `InvalidFreeChangesNoSlab` | in a slab with objects, a slot that nobody holds is freed without an error: lines 257-262 chain and count it again. The shortest trace frees a slot that was never handed out; freeing one object twice, as `SlabAllocatorTest.cpp:30-33` does, goes through the same lines |
| `slab_size_drift` | `SizeIsZeroWithoutSlabs` | `cacheSizeInBlocks` grows by a power of two (line 182) and shrinks by the blocks a slab needs (333-335), for `kmalloc(8192)` 4 and 3: after a `kmalloc`, `kfree` and shrink a cache without slabs has size 1, and line 90 divides by 0 |
| `first_fit_overlap` | `CallersOwnTheirBlocks` | a segment of `n` blocks is recorded with `n + 1`, so its next owner may get the header of the segment behind it |

Other limits of what holds, without a run of their own:

- An insertion in the middle of the sleep list does not shorten the next
  difference, so those behind it wake late; `SleepsAsAsked` shows that nothing
  else makes a thread late and nothing makes it early. Repeated insertions
  postpone a sleeper for ever; what holds is `SomeoneWakes`, progress of the list
  as a whole.
- A timer interrupt that hits `KernelSemaphore::wait` outside a trap, between the
  decrement and the insertion into the list (line 35), loses a wake-up: the next
  signal finds an empty list. `TCB.hpp:69` calls the kernel threads not
  preemptive, and `KernelSemaphore.hpp:22-24` rules it out, but their interrupts
  are on. The same holds of a `getc` or console trap that the output thread has resumed.
  ConsoleOutput and Traps end there (`preempted`), so all their
  properties are about runs up to this point.
- A full output buffer counts as empty (`head` equals `tail`), so `main()` may
  return with all of it unsent. `OutputDrains` therefore allows `halted`.
- A console interrupt that has to wait for space does not save `sepc` and
  `sstatus`, and a trap that goes on with interrupts on can be interrupted
  between `writeSepc` and `sret`. Both return to a wrong place in some of the
  states of `traps`; `OnlyDisturbedReturnsGoAstray` shows that nothing else does.
- `timeSliceCounter` is reset only on preemption, so a thread that follows one
  that blocked or yielded starts with that one's periods.
- An object freed twice while its slab is dirty is handed out twice.
  `FreeSlotsAreChained` and `CacheInfoIsTrue` are about programs that do not do
  so; `SlabsAreInTheirLists` and `SizeCoversSlabs` are proved whatever is freed.
- `kmalloc` goes on with the null cache that `createCache` returns when memory
  is used up; the model ends there (`buffer = << << >> >>`).

Bounds. Four sleepers give an insertion at the front, in the middle and at the
end with equal times and chains of zero differences. In the kernel's run
three threads and one semaphore give two waiters with a third thread to signal,
close, delete or sleep, and a thread that waits again after a failed wait. Two
semaphores with the liveness property are out of reach; that lists of different
semaphores stay disjoint is what `NoThreadLost` proves for any number of them.
Sleeps of up to two periods give both insertions at the front and zero
differences. `MinValue` and `MaxValue` bound the semaphore's counter
(it can only sink below minus the number of threads after a close), which cuts
no interleaving that differs in kind. The time slice is the code's own
`DEFAULT_TIME_SLICE = 2`. No run uses symmetry.

Two places and three characters let a writer block on a full ring and the ring
wrap; a writer meets `main()` at `mutexTail`, and the output thread meets it at
`mutexHead`. In `traps` two places and three characters let the console interrupt find the buffer
full, hold a character, and go on with interrupts on between its statements while a
`getc` of another thread takes one, so the ring wraps and two threads want one
mutex; two levels of nesting give a console or timer interrupt over each suspended
call and over each of the last steps of a trap; `MaxPending` lets the output thread be
released and suspended again and again.

Eight units are enough for a buddy to be found free, in use and split, and for
a release to merge at every level. In the slab run a slab of the buffer cache takes half of the memory, and the two caches compete
for it, so that both a slab and a cache are refused; three objects in a slab
give chains in every order and a slab that stays in its list, one object gives
the moves between the free and the full list. `MaxCacheSize` bounds the slabs of a cache, and
how far the size of the buffer cache drifts: through three shrinks and more.
Twelve blocks are the least for which a release joins three segments. The runs
of these two modules compare states without values that nothing reads (`LiveState`).

Deadlock is not checked in the runs of Kernel because `main()` may return, after
which the system does nothing: `halted`; nor where the calls of a thread are
bounded (`shared_arguments`) or the model ends at undefined behaviour (the slab runs,
`first_fit`), at `astray` and `preempted` (`traps`), or at `halted` and `preempted` (`console_output`).

Fairness. `FairSpec` of SleepTimer and Kernel is weak fairness of the timer
alone: the hardware raises it periodically and no code masks it for ever
(interrupts are off only inside traps). Nothing is assumed of the threads.
`FairSpec` of ConsoleOutput has three parts. `WF(Preempt)`: the same timer, so a
thread that keeps interrupts on loses the processor in the end; that interrupts
do come on again is not assumed but shown (`InterruptsComeBack`). `SF` of the kernel
code of each thread: a thread that runs again and again does execute its next
statement. That is not a guarantee of a single slice: `timeSliceCounter` is not reset when
a thread blocks or dispatches, so the next one may be preempted after less than a
period, even a very short part of one. What is assumed is that not every slice of a
thread is that short, for ever: a slice that follows a preemption has the whole `DEFAULT_TIME_SLICE`
of two periods, and a statement takes a small part of one.
Weak fairness would not do, as the thread is not running in between.
`WF(ConsoleTransmits)`: the hardware sends what it was given. User code is
under no fairness: a thread may compute for ever without a call.

Every property of a passing run has a mutant: an operator next to the
definition it would replace, marked "Mistake", that breaks the property.

## 4. What is proved

`ThreadListsProofs`, the ready list: `ListIsLinked` and `SchedulerIsFifo`, from `SchedulerAssumption`
(the idle thread is a thread, null is none). `Linked` is inductive because it
also says what the threads outside the list hold; a put writes both of
its thread's links, but a get leaves the next thread's old link to be cleared,
and without that clause the next put would not be known to be right. The
refinement follows from `Linked`: the head is the first element of `queue`, or
the idle thread.

`SleepListProofs` has lemmas about lists (what `Append`, `Tail` and an insertion do to
the set and the order of their elements) and about `SumOfSleepTimes`. An induction over a list is done
with the well-foundedness of the natural numbers applied to a set (`SetInduction`), as the
theorems that take a predicate are out of the provers' reach. An insertion leaves the sums of those in front as
they are and adds the difference of the new element behind it (`InsertSums`); a period takes 1 from each sum.

`ThreadListsProofs`, the sleep list: `SleepListTypes`, `HeadNeverWraps`, `DifferencesAddUp`,
`NobodyWakesEarly`, by the inductive `IInv`: nobody is in the list twice, the head has
time left, and the sum up to a thread is what it asked for, or at least that if it is in
`delayed`. The action property needs the invariant before the step only: who wakes
in a tick has a sum of 1.

`KernelProofs`, from `KernelAssumption` (main, idle and userMain are different threads; the boot
queue has no repetitions), in four invariants, each resting on the ones before:

- `OnePlaceInv` (`TypeCorrect`, `NoThreadLost`, `RecycledThreadsAreFresh`): a
  thread enters a list either from another one, which needs
  `EveryThreadInOnePlace`, or when it is created or started, which needs that a
  free TCB is not finished, `FreedThreadsAreFresh`. `NobodyIsOvertaken` follows from it step by step.
- `SleepInv` (`KernelSleepTimes`): a sleeper's difference is only written by the list, since a
  thread in the list is not created, deleted or put to sleep again.
- `SemWaitInv` (`SemWaitStateIsTrue`, `CutShortWaitFails`): who is in the list of a semaphore is
  `"blocked"` on it, who was released is ready, with the failure set if by a close.
- `AccountingInv` (`ValuesCountWaiters`) and the refinement `SemaphoresAreFifo`. It has one
  hypothesis: the initial values are those of an `unsigned short`,
  as which `Riscv.cpp:131` passes them on. The abstract value is the positive part of the code's.

`ConsoleOutputProofs`, from `ConsoleOutputAssumption` (the four threads are different) and a capacity above 0:
`ConsoleTypes`, `CharactersStayInOrder`, `PermitsCountPlaces`, `MainCountsRight`. The inductive
invariant `ConsoleInv` adds three parts to the properties: `ThreadsAreRight` (each thread is
at a statement of its own, and a thread in a semaphore's list is behind a wait
for it, so in no other list), `MutexesMatch` (a mutex is 1 less the number of threads between a wait
for it and the signal) and `HandMatches` (the output thread holds a character from `fetch` to `send`, and
sends only when the console can take one). The list of a semaphore is as
long as its value is negative, so by `Spare` the threads that are past the wait and not in the list are at
most as many as the permits: one for a mutex (`OnlyOneHolds`), which keeps `fetch` and `store`
away while `main()` counts (`CountExcludes`), and one free place or one item for who is at
`store` or `fetch` (`PlaceIsFree`, `ItemIsThere`). The last two are what keeps the array from being
overrun. Most actions move no permit; `QuietKeepsInv` deals with them all.

`TrapsProofs`, from `TrapsAssumption` and a capacity above 0: `TrapTypes`, `OthersReturnHome`, `ThreadsRunInTheirMode`, by
`TrapInv`. It says for each frame of each thread what its return depends on: until a trap is disturbed,
interrupts are off, so between `writeSepc` and `sret` the register holds what the frame
saved; a suspended trap is followed by its own `writeSepc`, or is one that saved
nothing and is marked as such; the mode bit is restored with `sepc`; and the frames of a
thread carry the mode of what they interrupted.

`InputStaysInOrder` and `OneThreadInEachMutex`, with `InputInv`, for every capacity and depth of
nesting, up to the first interrupt inside a semaphore operation: there the model ends, and the
theorems say nothing of what follows. Everything else may come between the statements
of the buffer: traps of the same thread on top of a suspended one, switches of threads, and the
console while a `getc` is half done. The invariant counts, for each semaphore, the threads
that are past its wait and have not given the permit on (`UsedByGetc`, `UsedByConsole`), whether they
still wait in its list or not: `PermitsAreRight` says that the value of a mutex is 1 less these, that of
`itemAvailable` the characters buffered less these, that of `spaceAvailable` the free places less these.
`WaitersFit` says that a thread in the list of a semaphore is suspended in a frame behind the wait for it, and
`PlacesFit` that a thread is in one list at most, through every way in which the traps switch
threads. As the list of a semaphore is as long as its value is negative, those past the wait and not in the list are no
more than the permits (`NoMoreThanPermits`): one for a mutex, and one character or place for who is at `fetch`
or `store` (`ThereIsOne`, `TailIsFree`). Between `plic_claim` and `plic_complete` there is one console
interrupt (`OneServes`), so there is one character in hand. The idle thread runs only while `main()`
is blocked, which it can only be in a console interrupt, so it never serves the console
itself. This is why the four threads must be different ones.

The same module has `FunctionsDoNotInterfere`, of SystemCalls. `CallInv` adds to the property that the block a thread has
stored into holds its arguments unless another thread has entered the same function since. It assumes
that the functions are those of `syscall_c.cpp` and the arguments numbers (`CallsAreKnown`). No run repeats it:
`shared_arguments` is the run of that module, and shows what the theorem leaves possible.

`BuddyProofs`, the division of the heap: `RegionsAreApart` and `RegionsAreAligned`, from
`HeapAssumption` (addresses and block sizes are natural numbers, the sizes not 0)
and `HeapIsLargeEnough` (the differences do not wrap around). The largest power of two that
is at most the number of assigned blocks exists (`LargestPowerExists`, by a least
distance), so the buddy allocator's `UsedBytes` end at or before
`LastBuddyAddress`, and `FirstFitAddress` is the first aligned address behind
that.

`BuddyProofs`, the allocator: `UnitsHaveOneBlock`, `BuddiesNeverStayApart`, `BlocksStayInside`,
`BytesAreAccountedFor` and the refinement `BuddyIsABlockStore`, from
`BuddyAssumption`: the heap is large enough for at least one block, and requests
are natural numbers of bytes, 0 and those that are too big included. The
inductive invariant `BuddyInv` says that the free and the held blocks tile the
memory (`Tiles`: every unit is in one of them, and in one only) and that no two free blocks have the
same parent. A split replaces a free block by the pieces it is cut into, a release replaces the
block and its free buddies by the block they merge into; both are instances of
one lemma, `Retile`: a set of tiles may be exchanged for another that covers the same units.
A block reached by merging consists of the
block released and the buddies met on the way (`ClimbsToEnclosing`). That no buddies stay apart is what makes a refusal right
(`NothingFits`): an aligned block that meets no held block is covered by free
ones; if none of them is as large as it, one that is as small as any has a buddy
covered by blocks as small, which is then free too. The bytes are
counted by giving each block its units (`UnitsAddUp`), which add up to the whole region. That the
recursion of `Power` defines a function is itself proved (`DoublesExist`, `DoublesAgree`,
`PowerIsDefined`).

`SlabProofs`, from `SlabAssumption`, for objects of every size: `FreeSlotsStayChained` and
`CacheInfoStaysTrue` under the hypothesis `NoDoubleFreeInDirtySlabs`, without which they are false (objects freed twice in free slabs
are allowed, as in the run), and `SlabsStayInTheirLists` and `SizeStaysEnough` without it, whatever slots are freed.
The inductive invariant `SlabInv` gives each slab a sequence of slots that its
chain runs through (`ChainedBy`) and that are just the slots nobody holds, as
many as it counts (`SlabOK`), keeps the lists of a cache, and of any two, apart (`Apart`), each slab in
the list its count calls for (`Sorted`), and every object held inside a slab. An allocation takes the first element of
the sequence, a release puts one in front, and the lists change by an element at their front or
out of their middle (`ConsElements`, `RemovedElement`). The sum that `kmem_cache_info` computes
over a list is shown to be the number of objects held in its slabs by induction on the
list's length. The lists and the counters never look at a chain, only at how many slots a slab has free. So they go
through the same states as those of an allocator whose chains are sound: `ListInv` says that some slabs
with as many free slots each, and some set of objects held, satisfy `SlabInv` together with the caches as they are. A double free
in a dirty slab is for them the release of some object held there, and an allocation the handing
out of some free slot. This is how the two other properties are kept. The size covers the slabs (`SizeCovers`)
because a power of two of blocks that is added is at least the number taken off. New slabs and caches are fresh because the store hands out blocks apart from those in use (`BlocksAreFresh`).

`FirstFitProofs`: `ListStaysSorted` and `HeldIsNotFree`, from `FirstFitAssumption` (a region of two
blocks or more, no request of 0 blocks) and the guard of FirstFit's `Next`: the callers' blocks hold no
header. `FreeList` is defined by following the links, so an induction
(`ListOfChain`) first shows that it is the set `F` of any chain, that is, of headers linked
both ways in the order of their addresses (`Chained`). Then unlinking, replacing and inserting
an element lead from chain to chain. The inductive invariant adds `SegmentsFit`: since an allocated
segment is recorded one block too long, a free segment may end in the header of the next one,
free or held, but not behind it, so neither a split nor a merge ever takes in a
third header. The guard is what keeps a merged segment from swallowing a
header that lies just between the two: its owner's first block would be a header.

Only model-checked: liveness (`SomeoneWakes`, `ReadyThreadRuns`, `OutputDrains`,
`InterruptsComeBack`), which the provers cannot reach. Every invariant and every other action
property and refinement of the passing runs is proved.

## 5. Plan

1. Kernel code outside a trap between any two of its statements:
   `Scheduler::put` in `~Semaphore`, `KernelSemaphore::wait` in the output thread,
   two calls of `kmalloc` that interrupt each other.
2. Failed allocations in `createThread` and `createSemaphore`, and the deletion
   of a thread that has not run its `thread_exit` yet.

## 6. Not modelled

Printing and tests have no state of interest. Boot code, `lib/` and the assembly
that saves the general registers, on the stack of the thread itself, are below
the level of the models. What is left of a semaphore and of the ready list when
an interrupt comes inside a semaphore operation is not modelled:
ConsoleOutput and Traps end there. The console's buffers are taken to exist: their first
use, which allocates them, may hit an interrupted `kmalloc`. Traps leaves out
`thread_exit` (its trap never returns), a `putc` that finds the output buffer full
(ConsoleOutput has it) and the exceptions, which only print. Deletions by
`~Thread` and `~Semaphore` are one step in Kernel, and a call of `kmalloc` is one or two steps in SlabAllocator; in the
code they run in user mode and can be preempted halfway. The constructors and
destructors that caches call are left out of SlabAllocator; those of TCBs and
semaphores are in Kernel. `mem_alloc(0)` is left out of FirstFit.
