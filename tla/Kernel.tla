------------------------------- MODULE Kernel -------------------------------
(***************************************************************************)
(* The kernel's threads, semaphores and timer.  There is one core and      *)
(* interrupts are off inside a trap, so every system call and every timer  *)
(* interrupt is one step of the running thread.  A thread that blocks or   *)
(* is preempted leaves its trap suspended; it finishes that trap in the    *)
(* step that makes it running again.                                       *)
(***************************************************************************)
EXTENDS SleepList, ReadyQueue

CONSTANTS
    Main,              \* the thread of main()
    UserMain,          \* the thread of userMain
    BootQueue,         \* the threads main() puts before it enables interrupts
    Semaphores,        \* the KernelSemaphore objects
    InitialValues,     \* the init arguments of sem_open
    MaxSleep,          \* bound: the longest sleep
    DefaultTimeSlice,  \* DEFAULT_TIME_SLICE
    MinValue, MaxValue \* bounds: the range of semaphoreValue explored

ASSUME KernelAssumption ==
    /\ {Main, Idle, UserMain} \subseteq Threads
    /\ Main # Idle /\ Main # UserMain /\ Idle # UserMain
    /\ BootQueue \in Seq(Threads \ {Main, Idle})
    /\ IsInjective(BootQueue)
    /\ UserMain \in Range(BootQueue)
    /\ InitialValues \subseteq Nat
    /\ MaxSleep \in Nat \ {0}
    /\ DefaultTimeSlice \in Nat \ {0}
    /\ MinValue \in Int /\ MaxValue \in Int

VARIABLES
    runningThread,
    ready,                \* the scheduler's list, without the idle thread
    life,                 \* "free", "unstarted", "c" or "cpp", per TCB
    finished,
    waitSemaphoreFailed,
    semWait,              \* where in sem_wait a suspended thread is
    semLife,              \* "free", "open" or "closed", per semaphore
    semaphoreValue,
    blockedThreads,       \* from blockedThreadsHead to blockedThreadsTail
    timeSliceCounter,
    halted                \* main() has returned

threadVars == << life, finished, waitSemaphoreFailed >>
semVars == << semLife, semaphoreValue, blockedThreads >>
sleepVars == << sleepers, sleepTime >>

vars == << runningThread, ready, threadVars, semWait, semVars, sleepVars,
           timeSliceCounter, halted >>

\* main() up to the point where it enables interrupts.
Init ==
    /\ runningThread = Main
    /\ ready = BootQueue
    /\ life = [t \in Threads |->
                 IF t \in Range(BootQueue) \cup {Main, Idle} THEN "c" ELSE "free"]
    /\ finished = [t \in Threads |-> FALSE]
    /\ waitSemaphoreFailed = [t \in Threads |-> FALSE]
    /\ semWait = [t \in Threads |-> "none"]
    /\ semLife = [s \in Semaphores |-> "free"]
    /\ semaphoreValue = [s \in Semaphores |-> 1]
    /\ blockedThreads = [s \in Semaphores |-> << >>]
    /\ sleepers = << >>
    /\ sleepTime = [t \in Threads |-> 0]
    /\ timeSliceCounter = 0
    /\ halted = FALSE

-----------------------------------------------------------------------------
(* Context switches                                                        *)

\* runningThread = Scheduler::get() out of the list q.  The thread resumed
\* finishes the trap it was suspended in, so it leaves sem_wait if it was
\* there; sw is where the threads are before that.
SwitchTo(q, sw) ==
    /\ runningThread' = First(q)
    /\ ready' = Rest(q)
    /\ semWait' = [sw EXCEPT ![First(q)] = "none"]

\* Mistake: a thread that has finished becomes ready again.
DispatchFinished(q, exited) == SwitchTo(Enqueue(q, runningThread), semWait)

\* TCB::dispatch with the ready list q.
Dispatch(q, exited) ==
    SwitchTo(IF exited[runningThread] THEN q ELSE Enqueue(q, runningThread), semWait)

\* TCB::suspendCurrentThread.
SuspendCurrentThread(sw) == SwitchTo(ready, sw)

\* A thread that runs user code: it may make any system call.
UserThread == ~halted /\ runningThread \notin {Main, Idle}

-----------------------------------------------------------------------------
(* Threads                                                                 *)

\* thread_create: the new thread is ready at once.
ThreadCreate(t) ==
    /\ UserThread
    /\ life[t] = "free"
    /\ life' = [life EXCEPT ![t] = "c"]
    /\ ready' = Enqueue(ready, t)
    /\ UNCHANGED << runningThread, finished, waitSemaphoreFailed, semWait,
                    semVars, sleepVars, timeSliceCounter, halted >>

\* The constructor of Thread: the TCB exists, start() puts it later.
ThreadCreateCpp(t) ==
    /\ UserThread
    /\ life[t] = "free"
    /\ life' = [life EXCEPT ![t] = "unstarted"]
    /\ UNCHANGED << runningThread, ready, finished, waitSemaphoreFailed, semWait,
                    semVars, sleepVars, timeSliceCounter, halted >>

\* Thread::start, once per thread.
ThreadStart(t) ==
    /\ UserThread
    /\ life[t] = "unstarted"
    /\ life' = [life EXCEPT ![t] = "cpp"]
    /\ ready' = Enqueue(ready, t)
    /\ UNCHANGED << runningThread, finished, waitSemaphoreFailed, semWait,
                    semVars, sleepVars, timeSliceCounter, halted >>

\* Mistake: the slot keeps the finished flag of the thread that left it.
ConstructTcbFinished(t) ==
    /\ waitSemaphoreFailed' = [waitSemaphoreFailed EXCEPT ![t] = FALSE]
    /\ sleepTime' = [sleepTime EXCEPT ![t] = 0]
    /\ UNCHANGED finished

\* The fields as the slab constructor leaves them.
ConstructTcb(t) ==
    /\ finished' = [finished EXCEPT ![t] = FALSE]
    /\ waitSemaphoreFailed' = [waitSemaphoreFailed EXCEPT ![t] = FALSE]
    /\ sleepTime' = [sleepTime EXCEPT ![t] = 0]

\* ~Thread of a thread that never started or has finished; only the C++
\* interface deletes threads.
ThreadDelete(t) ==
    /\ UserThread
    /\ life[t] = "unstarted" \/ (life[t] = "cpp" /\ finished[t])
    /\ life' = [life EXCEPT ![t] = "free"]
    /\ ConstructTcb(t)
    /\ UNCHANGED << runningThread, ready, semWait, semVars, sleepers,
                    timeSliceCounter, halted >>

\* thread_exit, called by the thread or by threadWrapper when the body ends.
ThreadExit ==
    /\ UserThread
    /\ finished' = [finished EXCEPT ![runningThread] = TRUE]
    /\ Dispatch(ready, finished')
    /\ UNCHANGED << life, waitSemaphoreFailed, semVars, sleepVars,
                    timeSliceCounter, halted >>

\* thread_dispatch and getThreadId.
ThreadDispatch ==
    /\ UserThread
    /\ Dispatch(ready, finished)
    /\ UNCHANGED << threadVars, semVars, sleepVars, timeSliceCounter, halted >>

-----------------------------------------------------------------------------
(* Semaphores                                                              *)

\* sem_open: the trap reads the initial value as 16 bits.
SemOpen(s, init) ==
    /\ UserThread
    /\ semLife[s] = "free"
    /\ semLife' = [semLife EXCEPT ![s] = "open"]
    /\ semaphoreValue' = [semaphoreValue EXCEPT ![s] = init % 2^16]
    /\ UNCHANGED << runningThread, ready, threadVars, semWait, blockedThreads,
                    sleepVars, timeSliceCounter, halted >>

\* Mistake: the list is dropped and the threads in it do not become ready.
CloseDroppingThreads(s) ==
    LET released == Range(blockedThreads[s]) IN
    /\ blockedThreads' = [blockedThreads EXCEPT ![s] = << >>]
    /\ waitSemaphoreFailed' =
         [t \in Threads |-> t \in released \/ waitSemaphoreFailed[t]]
    /\ semWait' = [t \in Threads |-> IF t \in released THEN "closed" ELSE semWait[t]]
    /\ UNCHANGED ready

\* Mistake: only the first thread is told that its wait failed.
CloseFailingFirst(s) ==
    LET released == Range(blockedThreads[s]) IN
    /\ ready' = ready \o blockedThreads[s]
    /\ blockedThreads' = [blockedThreads EXCEPT ![s] = << >>]
    /\ waitSemaphoreFailed' =
         [t \in Threads |-> IF blockedThreads[s] # << >> /\ t = Head(blockedThreads[s])
                            THEN TRUE ELSE waitSemaphoreFailed[t]]
    /\ semWait' = [t \in Threads |-> IF t \in released THEN "closed" ELSE semWait[t]]

\* closeSemaphore: every blocked thread becomes ready and fails its wait.
\* The value is left as it is.
CloseSemaphore(s) ==
    LET released == Range(blockedThreads[s]) IN
    /\ ready' = ready \o blockedThreads[s]
    /\ blockedThreads' = [blockedThreads EXCEPT ![s] = << >>]
    /\ waitSemaphoreFailed' =
         [t \in Threads |-> t \in released \/ waitSemaphoreFailed[t]]
    /\ semWait' = [t \in Threads |-> IF t \in released THEN "closed" ELSE semWait[t]]

\* sem_close
SemClose(s) ==
    /\ UserThread
    /\ semLife[s] # "free"
    /\ semLife' = [semLife EXCEPT ![s] = "closed"]
    /\ CloseSemaphore(s)
    /\ UNCHANGED << runningThread, life, finished, semaphoreValue, sleepVars,
                    timeSliceCounter, halted >>

\* ~Semaphore: the slab destructor closes the semaphore, the constructor
\* makes the slot as new.
SemDelete(s) ==
    /\ UserThread
    /\ semLife[s] = "open"
    /\ semLife' = [semLife EXCEPT ![s] = "free"]
    /\ CloseSemaphore(s)
    /\ semaphoreValue' = [semaphoreValue EXCEPT ![s] = 1]
    /\ UNCHANGED << runningThread, life, finished, sleepVars,
                    timeSliceCounter, halted >>

Decrement(s) == [semaphoreValue EXCEPT ![s] = @ - 1]

\* sem_wait that finds a permit.
SemWaitPasses(s) ==
    /\ UserThread
    /\ semLife[s] # "free"
    /\ Decrement(s)[s] >= 0
    /\ semaphoreValue' = Decrement(s)
    /\ UNCHANGED << runningThread, ready, threadVars, semWait, semLife,
                    blockedThreads, sleepVars, timeSliceCounter, halted >>

\* Mistake: the thread that blocks last is released first.
SemWaitBlocksInFront(s) ==
    /\ UserThread
    /\ semLife[s] # "free"
    /\ Decrement(s)[s] < 0
    /\ semaphoreValue[s] > MinValue
    /\ semaphoreValue' = Decrement(s)
    /\ blockedThreads' = [blockedThreads EXCEPT ![s] = << runningThread >> \o @]
    /\ SuspendCurrentThread([semWait EXCEPT ![runningThread] = "blocked"])
    /\ UNCHANGED << threadVars, semLife, sleepVars, timeSliceCounter, halted >>

\* sem_wait that blocks the running thread.
SemWaitBlocks(s) ==
    /\ UserThread
    /\ semLife[s] # "free"
    /\ Decrement(s)[s] < 0
    /\ semaphoreValue[s] > MinValue
    /\ semaphoreValue' = Decrement(s)
    /\ blockedThreads' = [blockedThreads EXCEPT ![s] = Append(@, runningThread)]
    /\ SuspendCurrentThread([semWait EXCEPT ![runningThread] = "blocked"])
    /\ UNCHANGED << threadVars, semLife, sleepVars, timeSliceCounter, halted >>

\* What sem_wait returns to the thread that leaves it.
SemWaitResult(t) == IF waitSemaphoreFailed[t] THEN -1 ELSE 1

Increment(s) == [semaphoreValue EXCEPT ![s] = @ + 1]

\* Mistake: the thread released goes before the threads that are ready.
UnblockFirstInFront(s) ==
    \/ /\ blockedThreads[s] = << >>
       /\ UNCHANGED << ready, blockedThreads, semWait >>
    \/ /\ blockedThreads[s] # << >>
       /\ ready' = << Head(blockedThreads[s]) >> \o ready
       /\ blockedThreads' = [blockedThreads EXCEPT ![s] = Tail(@)]
       /\ semWait' = [semWait EXCEPT ![Head(blockedThreads[s])] = "signalled"]

\* unblockFirstThreadInList; nothing happens when the list is empty.
UnblockFirst(s) ==
    \/ /\ blockedThreads[s] = << >>
       /\ UNCHANGED << ready, blockedThreads, semWait >>
    \/ /\ blockedThreads[s] # << >>
       /\ ready' = Enqueue(ready, Head(blockedThreads[s]))
       /\ blockedThreads' = [blockedThreads EXCEPT ![s] = Tail(@)]
       /\ semWait' = [semWait EXCEPT ![Head(blockedThreads[s])] = "signalled"]

\* Mistake: < 0 for <= 0, so the last waiter is not released.
SemSignalBelowZero(s) ==
    /\ UserThread
    /\ semLife[s] # "free"
    /\ semaphoreValue[s] < MaxValue
    /\ semaphoreValue' = Increment(s)
    /\ \/ Increment(s)[s] < 0 /\ UnblockFirst(s)
       \/ Increment(s)[s] >= 0 /\ UNCHANGED << ready, blockedThreads, semWait >>
    /\ UNCHANGED << runningThread, threadVars, semLife, sleepVars,
                    timeSliceCounter, halted >>

\* sem_signal
SemSignal(s) ==
    /\ UserThread
    /\ semLife[s] # "free"
    /\ semaphoreValue[s] < MaxValue
    /\ semaphoreValue' = Increment(s)
    /\ \/ Increment(s)[s] <= 0 /\ UnblockFirst(s)
       \/ Increment(s)[s] > 0 /\ UNCHANGED << ready, blockedThreads, semWait >>
    /\ UNCHANGED << runningThread, threadVars, semLife, sleepVars,
                    timeSliceCounter, halted >>

-----------------------------------------------------------------------------
(* Time                                                                    *)

\* time_sleep with a positive time (0 returns before the trap).
TimeSleep(time, pos) ==
    /\ UserThread
    /\ InsertSleepThread(runningThread, time, pos)
    /\ SuspendCurrentThread(semWait)
    /\ UNCHANGED << threadVars, semVars, timeSliceCounter, halted >>

\* Mistake: > for >=, so a slice is one period longer.
TimerInterruptLate(n) ==
    /\ ~halted
    /\ UpdateSleepThreadList(n)
    /\ \/ /\ timeSliceCounter + 1 <= DefaultTimeSlice
          /\ timeSliceCounter' = timeSliceCounter + 1
          /\ ready' = ready \o Woken(n)
          /\ UNCHANGED << runningThread, semWait >>
       \/ /\ timeSliceCounter + 1 > DefaultTimeSlice
          /\ timeSliceCounter' = 0
          /\ Dispatch(ready \o Woken(n), finished)
    /\ UNCHANGED << threadVars, semVars, halted >>

\* Mistake: the interrupt wakes the sleepers and counts nothing.
TimerInterruptUncounted(n) ==
    /\ ~halted
    /\ UpdateSleepThreadList(n)
    /\ ready' = ready \o Woken(n)
    /\ UNCHANGED << runningThread, semWait, threadVars, semVars,
                    timeSliceCounter, halted >>

\* The timer interrupt of whatever thread runs: the threads whose time is
\* over become ready, then the running thread may lose the processor.
TimerInterrupt(n) ==
    /\ ~halted
    /\ UpdateSleepThreadList(n)
    /\ \/ /\ timeSliceCounter + 1 < DefaultTimeSlice
          /\ timeSliceCounter' = timeSliceCounter + 1
          /\ ready' = ready \o Woken(n)
          /\ UNCHANGED << runningThread, semWait >>
       \/ /\ timeSliceCounter + 1 >= DefaultTimeSlice
          /\ timeSliceCounter' = 0
          /\ Dispatch(ready \o Woken(n), finished)
    /\ UNCHANGED << threadVars, semVars, halted >>

-----------------------------------------------------------------------------
(* The main thread                                                         *)

\* One round of the loop of main(); once userMain has finished it still
\* goes on while the output buffer, which is not modelled here, holds
\* characters.
MainLoop ==
    /\ ~halted /\ runningThread = Main
    /\ Dispatch(ready, finished)
    /\ UNCHANGED << threadVars, semVars, sleepVars, timeSliceCounter, halted >>

\* main() returns.
MainReturns ==
    /\ ~halted /\ runningThread = Main
    /\ finished[UserMain]
    /\ halted' = TRUE
    /\ UNCHANGED << runningThread, ready, threadVars, semWait, semVars,
                    sleepVars, timeSliceCounter >>

-----------------------------------------------------------------------------

ThreadCall ==
    \/ \E t \in Threads : ThreadCreate(t) \/ ThreadCreateCpp(t)
                             \/ ThreadStart(t) \/ ThreadDelete(t)
    \/ ThreadExit
    \/ ThreadDispatch

SemaphoreCall ==
    \E s \in Semaphores :
        \/ \E init \in InitialValues : SemOpen(s, init)
        \/ SemClose(s) \/ SemDelete(s)
        \/ SemWaitPasses(s) \/ SemWaitBlocks(s) \/ SemSignal(s)

Sleep == \E time \in 1 .. MaxSleep, pos \in 1 .. Len(sleepers) + 1 : TimeSleep(time, pos)

Timer == \E n \in 0 .. Len(sleepers) : TimerInterrupt(n)

Next == ThreadCall \/ SemaphoreCall \/ Sleep \/ Timer \/ MainLoop \/ MainReturns

Spec == Init /\ [][Next]_vars

\* The timer is periodic and is never switched off.
FairSpec == Spec /\ WF_vars(Timer)

-----------------------------------------------------------------------------
(* Properties                                                              *)

TypeOK ==
    /\ runningThread \in Threads
    /\ ready \in Seq(Threads)
    /\ life \in [Threads -> {"free", "unstarted", "c", "cpp"}]
    /\ finished \in [Threads -> BOOLEAN]
    /\ waitSemaphoreFailed \in [Threads -> BOOLEAN]
    /\ semWait \in [Threads -> {"none", "blocked", "signalled", "closed"}]
    /\ semLife \in [Semaphores -> {"free", "open", "closed"}]
    /\ semaphoreValue \in [Semaphores -> Int]
    /\ blockedThreads \in [Semaphores -> Seq(Threads)]
    /\ sleepers \in Seq(Threads)
    /\ DOMAIN sleepTime = Threads
    /\ timeSliceCounter \in 0 .. DefaultTimeSlice - 1
    /\ halted \in BOOLEAN

\* The threads that can still run, the idle thread aside.
Alive == {t \in Threads \ {Idle} : life[t] \in {"c", "cpp"} /\ ~finished[t]}

Blocked == UNION {Range(blockedThreads[s]) : s \in Semaphores}

\* A queue holds no thread twice, and no two queues hold the same thread.
QueuesAreDisjoint ==
    /\ IsInjective(ready) /\ IsInjective(sleepers)
    /\ Range(ready) \cap Range(sleepers) = {}
    /\ \A s \in Semaphores :
          /\ IsInjective(blockedThreads[s])
          /\ Range(blockedThreads[s]) \cap (Range(ready) \cup Range(sleepers)) = {}
          /\ \A r \in Semaphores \ {s} :
                Range(blockedThreads[s]) \cap Range(blockedThreads[r]) = {}

Queued == Range(ready) \cup Range(sleepers) \cup Blocked

\* No system call or interrupt loses a thread or links it twice: a thread
\* that has started and not finished is running, or in exactly one of the
\* ready list, the sleep list and the semaphores' lists, at one position of
\* it; no other thread is in any of them (TCB.cpp, KernelSemaphore.cpp).
EveryThreadInOnePlace ==
    /\ QueuesAreDisjoint
    /\ runningThread \notin Queued
    /\ Queued \cup ({runningThread} \ {Idle}) = Alive

\* The value of an open semaphore counts its waiters: nobody waits while
\* there is a permit, and a negative value is minus the number of threads
\* in the list; after sem_close the value may only be lower than that
\* (KernelSemaphore.cpp:25-44).
SemaphoreAccounting ==
    \A s \in Semaphores :
        LET waiting == Len(blockedThreads[s]) IN
        /\ semLife[s] = "free" => waiting = 0
        /\ semLife[s] = "open" =>
              waiting = IF semaphoreValue[s] < 0 THEN -semaphoreValue[s] ELSE 0
        /\ waiting > 0 => semaphoreValue[s] <= -waiting

\* A thread is suspended inside sem_wait exactly while some semaphore holds
\* it, or it was released and has not run since; a thread that runs, sleeps
\* or does not exist is in no sem_wait (Riscv.cpp:148-158).
SemWaitIsConsistent ==
    /\ Blocked = {t \in Threads : semWait[t] = "blocked"}
    /\ {t \in Threads : semWait[t] \in {"signalled", "closed"}} \subseteq Range(ready)

\* The differences of the sleep list stay within the unsigned range and the
\* head has time left, whatever the interleaving of sleeps, ticks and
\* deletions (TCB.cpp:63-111).
SleepTimesOK ==
    /\ \A t \in Threads : sleepTime[t] \in 0 .. MaxSleep
    /\ sleepers # << >> => sleepTime[Head(sleepers)] > 0

\* A recycled TCB starts like a new one: a freed thread is not finished,
\* failed or asleep, so the thread created next in its place runs
\* (TCB.cpp:19-34).
FreedThreadsAreFresh ==
    \A t \in Threads : life[t] \in {"free", "unstarted"} =>
        ~finished[t] /\ ~waitSemaphoreFailed[t] /\ sleepTime[t] = 0

\* The ready list is first in, first out through every call and interrupt: a
\* step keeps the order of the threads that were ready, adds others behind
\* them only, and removes at most the first, which then runs.
NoOvertaking ==
    [][\/ IsPrefix(ready, ready')
       \/ /\ ready # << >>
          /\ IsPrefix(Tail(ready), ready')
          /\ runningThread' = Head(ready)]_vars

\* A thread released from a semaphore because it was closed gets -1 from
\* sem_wait, however long it stays ready before it runs again
\* (TCB.hpp:61-62, Riscv.cpp:157).
ClosedWaitFails ==
    [][\A t \in Threads : semWait[t] = "closed" /\ semWait'[t] # "closed" =>
           SemWaitResult(t)' = -1]_vars

\* A sem_wait that takes a permit of an open semaphore returns 1: the flag
\* that makes it return -1 is for the wait that sem_close cut short
\* (TCB.hpp:61-62, Riscv.cpp:157-158).
TakingAPermitSucceeds ==
    [][\A s \in Semaphores :
           semLife[s] = "open" /\ semLife'[s] = "open"
           /\ 0 <= semaphoreValue'[s] /\ semaphoreValue'[s] < semaphoreValue[s]
               => SemWaitResult(runningThread) = 1]_vars

\* The semaphores seen from outside, between sem_open and sem_close.
Promised == INSTANCE FifoSemaphores WITH
    open <- {s \in Semaphores : semLife[s] = "open"},
    permits <- [s \in Semaphores |->
                  IF semLife[s] = "open" /\ semaphoreValue[s] > 0
                  THEN semaphoreValue[s] ELSE 0],
    waiters <- [s \in Semaphores |->
                  IF semLife[s] = "open" THEN blockedThreads[s] ELSE << >>]

\* Every semaphore is a FIFO semaphore: permits are neither lost nor made
\* up, and the threads that wait are released in order
\* (KernelSemaphore.cpp).
ImplementsFifoSemaphores == Promised!Spec

\* Every ready thread runs again: the timer takes the processor away from
\* any thread that does not give it up (Riscv.cpp:236-250).
ReadyThreadRuns ==
    \A t \in Threads :
        (\E i \in 1 .. Len(ready) : ready[i] = t) ~> (runningThread = t \/ halted)
=============================================================================
