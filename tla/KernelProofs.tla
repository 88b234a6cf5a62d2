---------------------------- MODULE KernelProofs ----------------------------
(***************************************************************************)
(* Proofs about Kernel.tla, for every set of threads and semaphores and    *)
(* every bound: the state is well typed, no thread is lost or queued       *)
(* twice, no ready thread is overtaken and the differences in the sleep    *)
(* list never wrap around; then where the threads inside sem_wait are,     *)
(* what the value of a semaphore counts, that a wait cut short by          *)
(* sem_close fails, and that every semaphore is a FIFO semaphore from      *)
(* sem_open to sem_close.                                                  *)
(***************************************************************************)
EXTENDS Kernel, SleepListProofs

Waits == {"none", "blocked", "signalled", "closed"}

\* The inductive invariant.  A thread that does not exist yet must not be
\* marked finished, or it would start without ever being counted alive.
OnePlaceInv == TypeOK /\ EveryThreadInOnePlace /\ FreedThreadsAreFresh

-----------------------------------------------------------------------------
(* Context switches                                                        *)

\* Putting a thread into the ready list.
LEMMA EnqueueElements ==
    ASSUME NEW q \in Seq(Threads), IsInjective(q), Idle \notin Range(q),
           NEW t \in Threads, t \notin Range(q)
    PROVE  /\ Enqueue(q, t) \in Seq(Threads)
           /\ IsInjective(Enqueue(q, t))
           /\ Range(Enqueue(q, t)) = Range(q) \cup ({t} \ {Idle})
<1>1. CASE t = Idle
  BY <1>1 DEF Enqueue
<1>2. CASE t # Idle
  <2>1. Enqueue(q, t) = Append(q, t)
    BY <1>2 DEF Enqueue
  <2> QED
    BY <1>2, <2>1, AppendElements
<1> QED
  BY <1>1, <1>2

\* The thread that gets the processor leaves the list q, and the others
\* stay ready.
LEMMA SwitchElements ==
    ASSUME NEW q \in Seq(Threads), IsInjective(q), Idle \notin Range(q),
           NEW sw \in [Threads -> Waits], SwitchTo(q, sw)
    PROVE  /\ runningThread' \in Threads
           /\ ready' \in Seq(Threads)
           /\ semWait' \in [Threads -> Waits]
           /\ IsInjective(ready')
           /\ runningThread' \notin Range(ready')
           /\ Idle \notin Range(ready')
           /\ Range(ready') \cup ({runningThread'} \ {Idle}) = Range(q)
<1>1. /\ runningThread' = First(q) /\ ready' = Rest(q)
      /\ semWait' = [sw EXCEPT ![First(q)] = "none"]
  BY DEF SwitchTo
<1>2. CASE q = << >>
  <2>1. runningThread' = Idle /\ ready' = q /\ Range(q) = {}
    BY <1>1, <1>2 DEF First, Rest, Range
  <2> QED
    BY <1>1, <2>1, KernelAssumption DEF Waits
<1>3. CASE q # << >>
  <2>1. runningThread' = Head(q) /\ ready' = Tail(q)
    BY <1>1, <1>3 DEF First, Rest
  <2>2. /\ Head(q) \in Threads /\ Head(q) \in Range(q)
        /\ Tail(q) \in Seq(Threads)
        /\ Range(Tail(q)) = Range(q) \ {Head(q)}
        /\ IsInjective(Tail(q))
    BY <1>3, TailElements
  <2> QED
    BY <1>1, <2>1, <2>2 DEF Waits
<1> QED
  BY <1>2, <1>3

\* dispatch with the list q: the running thread goes to the list unless it
\* has finished.
LEMMA DispatchElements ==
    ASSUME TypeOK, NEW q \in Seq(Threads), IsInjective(q), Idle \notin Range(q),
           runningThread \notin Range(q),
           NEW exited \in [Threads -> BOOLEAN], Dispatch(q, exited)
    PROVE  /\ runningThread' \in Threads
           /\ ready' \in Seq(Threads)
           /\ semWait' \in [Threads -> Waits]
           /\ IsInjective(ready')
           /\ runningThread' \notin Range(ready')
           /\ Idle \notin Range(ready')
           /\ Range(ready') \cup ({runningThread'} \ {Idle}) =
                Range(q) \cup
                  (IF exited[runningThread] THEN {} ELSE {runningThread} \ {Idle})
<1> DEFINE p == IF exited[runningThread] THEN q ELSE Enqueue(q, runningThread)
<1>1. runningThread \in Threads /\ semWait \in [Threads -> Waits]
  BY DEF TypeOK, Waits
<1>2. /\ p \in Seq(Threads) /\ IsInjective(p)
      /\ Range(p) = Range(q) \cup
            (IF exited[runningThread] THEN {} ELSE {runningThread} \ {Idle})
  <2>1. CASE exited[runningThread]
    BY <2>1
  <2>2. CASE ~exited[runningThread]
    BY <1>1, <2>2, EnqueueElements
  <2> QED
    BY <2>1, <2>2
<1>3. Idle \notin Range(p)
  BY <1>2
<1>4. SwitchTo(p, semWait)
  BY DEF Dispatch
<1> HIDE DEF p
<1> QED
  BY <1>1, <1>2, <1>3, <1>4, SwitchElements

-----------------------------------------------------------------------------
(* Where the threads are                                                   *)

\* What the invariant says of the queues, thread by thread.
LEMMA PlaceFacts ==
    ASSUME OnePlaceInv
    PROVE  /\ IsInjective(ready) /\ IsInjective(sleepers)
           /\ Idle \notin Queued /\ runningThread \notin Queued
           /\ Range(ready) \cup Range(sleepers) \cup Blocked = Queued
           /\ Queued \subseteq Threads
           /\ Idle \notin Range(ready) /\ runningThread \notin Range(ready)
           /\ \A t \in Threads : t \in Alive <=>
                 t # Idle /\ (t \in Queued \/ t = runningThread)
BY DEF OnePlaceInv, TypeOK, EveryThreadInOnePlace, QueuesAreDisjoint, Queued, Alive

LEMMA InitOnePlace == Init => OnePlaceInv
<1> SUFFICES ASSUME Init PROVE OnePlaceInv
  OBVIOUS
<1>1. BootQueue \in Seq(Threads)
  BY KernelAssumption, SeqMonotonic
<1>2. Range(BootQueue) \subseteq Threads \ {Main, Idle}
  BY KernelAssumption, RangeOfSeq
<1>3. << >> \in Seq(Threads) /\ Range(<< >>) = {} /\ IsInjective(<< >>)
  BY EmptySeq DEF Range, IsInjective
<1>4. TypeOK
  <2>1. /\ blockedThreads \in [Semaphores -> Seq(Threads)]
        /\ semaphoreValue \in [Semaphores -> Int]
        /\ timeSliceCounter \in 0 .. DefaultTimeSlice - 1
    BY <1>3, KernelAssumption DEF Init
  <2>2. /\ life \in [Threads -> {"free", "unstarted", "c", "cpp"}]
        /\ semWait \in [Threads -> {"none", "blocked", "signalled", "closed"}]
        /\ semLife \in [Semaphores -> {"free", "open", "closed"}]
    BY DEF Init
  <2>3. /\ finished \in [Threads -> BOOLEAN]
        /\ waitSemaphoreFailed \in [Threads -> BOOLEAN]
        /\ halted \in BOOLEAN
    BY DEF Init
  <2> QED
    BY <1>1, <1>3, <2>1, <2>2, <2>3, KernelAssumption DEF Init, TypeOK
<1>5. Blocked = {} /\ Queued = Range(BootQueue)
  BY <1>3 DEF Init, Blocked, Queued
<1>6. Alive = Range(BootQueue) \cup {Main}
  BY <1>2, KernelAssumption DEF Init, Alive
<1>7. QueuesAreDisjoint
  BY <1>3, KernelAssumption DEF Init, QueuesAreDisjoint
<1>8. FreedThreadsAreFresh
  BY DEF Init, FreedThreadsAreFresh
<1> QED
  BY <1>2, <1>4, <1>5, <1>6, <1>7, <1>8, KernelAssumption
  DEF OnePlaceInv, EveryThreadInOnePlace, Init

-----------------------------------------------------------------------------
(* The steps that leave the semaphores' lists alone                        *)

\* When no semaphore's list changes it is enough to look at the ready list,
\* the sleep list and the running thread.
LEMMA SameBlocked ==
    ASSUME OnePlaceInv, UNCHANGED blockedThreads,
           IsInjective(ready'), IsInjective(sleepers'),
           Range(ready') \cap Range(sleepers') = {},
           Range(ready') \cap Blocked = {}, Range(sleepers') \cap Blocked = {},
           runningThread' \notin Range(ready') \cup Range(sleepers') \cup Blocked,
           Range(ready') \cup Range(sleepers') \cup Blocked
             \cup ({runningThread'} \ {Idle}) = Alive'
    PROVE  EveryThreadInOnePlace'
<1>1. Blocked' = Blocked
  BY DEF Blocked
<1>2. \A s \in Semaphores : Range(blockedThreads[s]) \subseteq Blocked
  BY DEF Blocked
<1>3. QueuesAreDisjoint'
  BY <1>2 DEF OnePlaceInv, EveryThreadInOnePlace, QueuesAreDisjoint
<1> QED
  BY <1>1, <1>3 DEF EveryThreadInOnePlace, Queued

\* The sets of the invariant, pairwise.
LEMMA PlaceSets ==
    ASSUME OnePlaceInv
    PROVE  /\ Range(ready) \cap Range(sleepers) = {}
           /\ Range(ready) \cap Blocked = {}
           /\ Range(sleepers) \cap Blocked = {}
           /\ runningThread \notin Range(ready) \cup Range(sleepers) \cup Blocked
           /\ Range(ready) \cup Range(sleepers) \cup Blocked
                \cup ({runningThread} \ {Idle}) = Alive
           /\ Idle \notin Range(ready) \cup Range(sleepers) \cup Blocked
           /\ IsInjective(ready) /\ IsInjective(sleepers)
           /\ ready \in Seq(Threads) /\ sleepers \in Seq(Threads)
           /\ runningThread \in Threads
           /\ finished \in [Threads -> BOOLEAN]
           /\ Alive \subseteq Threads
BY DEF OnePlaceInv, TypeOK, EveryThreadInOnePlace, QueuesAreDisjoint, Queued,
       Blocked, Alive

\* The threads that are not to run yet are not alive, and the sets do not
\* hold them.
LEMMA NotStarted ==
    ASSUME OnePlaceInv, NEW t \in Threads, life[t] \in {"free", "unstarted"}
    PROVE  /\ t \notin Alive /\ ~finished[t] /\ ~waitSemaphoreFailed[t]
           /\ sleepTime[t] = 0
           /\ t \notin Range(ready) /\ t \notin Range(sleepers) /\ t \notin Blocked
           /\ t # Idle => t # runningThread
<1>1. t \notin Alive
  BY DEF Alive
<1> QED
  BY <1>1, PlaceSets DEF OnePlaceInv, FreedThreadsAreFresh

\* A thread that starts was not alive before, and the ready list gets it.
LEMMA StartOnePlace ==
    ASSUME OnePlaceInv, NEW t \in Threads, ThreadCreate(t) \/ ThreadStart(t)
    PROVE  OnePlaceInv'
<1>1. /\ life[t] \in {"free", "unstarted"}
      /\ ready' = Enqueue(ready, t)
      /\ UNCHANGED << runningThread, sleepers, sleepTime, blockedThreads,
                      finished, waitSemaphoreFailed >>
  BY DEF ThreadCreate, ThreadStart, semVars, sleepVars
<1>2. PICK new \in {"c", "cpp"} : life' = [life EXCEPT ![t] = new]
  BY DEF ThreadCreate, ThreadStart
<1>3. life' \in [Threads -> {"free", "unstarted", "c", "cpp"}]
  BY <1>2 DEF OnePlaceInv, TypeOK
<1>4. Alive' = Alive \cup ({t} \ {Idle})
  <2>1. ~finished[t]
    BY <1>1, NotStarted
  <2> QED
    BY <1>1, <1>2, <2>1 DEF Alive, OnePlaceInv, TypeOK
<1>5. /\ ready' \in Seq(Threads) /\ IsInjective(ready')
      /\ Range(ready') = Range(ready) \cup ({t} \ {Idle})
  BY <1>1, NotStarted, PlaceSets, EnqueueElements
<1>6. TypeOK'
  BY <1>3, <1>5 DEF ThreadCreate, ThreadStart, OnePlaceInv, TypeOK, semVars, sleepVars
<1>7. EveryThreadInOnePlace'
  BY <1>1, <1>4, <1>5, NotStarted, PlaceSets, SameBlocked
<1>8. FreedThreadsAreFresh'
  BY <1>1, <1>2, <1>3 DEF OnePlaceInv, TypeOK, FreedThreadsAreFresh
<1> QED
  BY <1>6, <1>7, <1>8 DEF OnePlaceInv

\* A C++ thread that is only created, or deleted, is not alive.
LEMMA CreateDeleteOnePlace ==
    ASSUME OnePlaceInv, NEW t \in Threads, ThreadCreateCpp(t) \/ ThreadDelete(t)
    PROVE  OnePlaceInv'
<1>1. UNCHANGED << runningThread, ready, sleepers, blockedThreads >>
  BY DEF ThreadCreateCpp, ThreadDelete, semVars, sleepVars
<1>2. PICK new \in {"free", "unstarted"} : life' = [life EXCEPT ![t] = new]
  BY DEF ThreadCreateCpp, ThreadDelete
<1>3. t \notin Alive
  BY DEF ThreadCreateCpp, ThreadDelete, Alive
<1>4. /\ \A x \in Threads : x # t =>
            finished'[x] = finished[x] /\ sleepTime'[x] = sleepTime[x]
            /\ waitSemaphoreFailed'[x] = waitSemaphoreFailed[x]
      /\ ~finished'[t] /\ ~waitSemaphoreFailed'[t] /\ sleepTime'[t] = 0
  <2>1. CASE ThreadCreateCpp(t)
    BY <2>1, NotStarted DEF ThreadCreateCpp, sleepVars
  <2>2. CASE ThreadDelete(t)
    BY <2>2 DEF ThreadDelete, ConstructTcb, OnePlaceInv, TypeOK
  <2> QED
    BY <2>1, <2>2
<1>5. Alive' = Alive
  BY <1>2, <1>3, <1>4 DEF Alive, OnePlaceInv, TypeOK
<1>6. TypeOK'
  <2>1. life' \in [Threads -> {"free", "unstarted", "c", "cpp"}]
    BY <1>2 DEF OnePlaceInv, TypeOK
  <2>2. /\ finished' \in [Threads -> BOOLEAN]
        /\ waitSemaphoreFailed' \in [Threads -> BOOLEAN]
        /\ DOMAIN sleepTime' = Threads
    BY DEF ThreadCreateCpp, ThreadDelete, ConstructTcb, OnePlaceInv, TypeOK, sleepVars
  <2> QED
    BY <1>1, <2>1, <2>2
    DEF ThreadCreateCpp, ThreadDelete, OnePlaceInv, TypeOK, semVars, sleepVars
<1>7. EveryThreadInOnePlace'
  BY <1>1, <1>5, PlaceSets, SameBlocked
<1>8. FreedThreadsAreFresh'
  BY <1>2, <1>4 DEF OnePlaceInv, TypeOK, FreedThreadsAreFresh
<1> QED
  BY <1>6, <1>7, <1>8 DEF OnePlaceInv

\* Giving up the processor: thread_dispatch, and the loop of main().
LEMMA DispatchOnePlace ==
    ASSUME OnePlaceInv, ThreadDispatch \/ MainLoop
    PROVE  OnePlaceInv'
<1>1. /\ Dispatch(ready, finished)
      /\ UNCHANGED << threadVars, semVars, sleepVars, timeSliceCounter, halted >>
  BY DEF ThreadDispatch, MainLoop
<1>2. Alive' = Alive
  BY <1>1 DEF Alive, threadVars
<1>3. finished[runningThread] => runningThread = Idle
  BY PlaceSets DEF Alive
<1>4. /\ runningThread' \in Threads
      /\ ready' \in Seq(Threads)
      /\ semWait' \in [Threads -> Waits]
      /\ IsInjective(ready')
      /\ runningThread' \notin Range(ready')
      /\ Idle \notin Range(ready')
      /\ Range(ready') \cup ({runningThread'} \ {Idle}) =
           Range(ready) \cup ({runningThread} \ {Idle})
  BY <1>1, <1>3, PlaceSets, DispatchElements DEF OnePlaceInv
<1>5. TypeOK'
  BY <1>1, <1>4 DEF OnePlaceInv, TypeOK, Waits, threadVars, semVars, sleepVars
<1>6. EveryThreadInOnePlace'
  BY <1>1, <1>2, <1>4, PlaceSets, SameBlocked DEF semVars, sleepVars
<1>7. FreedThreadsAreFresh'
  BY <1>1 DEF OnePlaceInv, FreedThreadsAreFresh, threadVars, sleepVars
<1> QED
  BY <1>5, <1>6, <1>7 DEF OnePlaceInv

\* The thread that exits is no longer alive and in no list.
LEMMA ExitOnePlace ==
    ASSUME OnePlaceInv, ThreadExit
    PROVE  OnePlaceInv'
<1>1. /\ runningThread # Idle
      /\ finished' = [finished EXCEPT ![runningThread] = TRUE]
      /\ Dispatch(ready, finished')
      /\ UNCHANGED << life, waitSemaphoreFailed, semVars, sleepVars,
                      timeSliceCounter, halted >>
  BY DEF ThreadExit, UserThread
<1>2. finished' \in [Threads -> BOOLEAN] /\ finished'[runningThread]
  BY <1>1, PlaceSets
<1>3. /\ runningThread' \in Threads
      /\ ready' \in Seq(Threads)
      /\ semWait' \in [Threads -> Waits]
      /\ IsInjective(ready')
      /\ runningThread' \notin Range(ready')
      /\ Idle \notin Range(ready')
      /\ Range(ready') \cup ({runningThread'} \ {Idle}) = Range(ready)
  BY <1>1, <1>2, PlaceSets, DispatchElements DEF OnePlaceInv
<1>4. Alive' = Alive \ {runningThread}
  BY <1>1, PlaceSets DEF Alive
<1>5. TypeOK'
  BY <1>1, <1>2, <1>3 DEF OnePlaceInv, TypeOK, Waits, semVars, sleepVars
<1>6. EveryThreadInOnePlace'
  BY <1>1, <1>3, <1>4, PlaceSets, SameBlocked DEF semVars, sleepVars
<1>7. FreedThreadsAreFresh'
  <2>1. life[runningThread] \in {"c", "cpp"}
    BY <1>1, PlaceSets DEF Alive
  <2> QED
    BY <1>1, <2>1, PlaceSets DEF OnePlaceInv, FreedThreadsAreFresh, sleepVars
<1> QED
  BY <1>5, <1>6, <1>7 DEF OnePlaceInv

\* Steps that move no thread: sem_open, a sem_wait that finds a permit, and
\* the return of main().
LEMMA NoMoveOnePlace ==
    ASSUME OnePlaceInv,
           \/ \E s \in Semaphores, init \in InitialValues : SemOpen(s, init)
           \/ \E s \in Semaphores : SemWaitPasses(s)
           \/ MainReturns
    PROVE  OnePlaceInv'
<1>1. UNCHANGED << runningThread, ready, threadVars, semWait, blockedThreads,
                   sleepVars, timeSliceCounter >>
  BY DEF SemOpen, SemWaitPasses, MainReturns, semVars
<1>2. Alive' = Alive
  BY <1>1 DEF Alive, threadVars
<1>3. /\ semaphoreValue' \in [Semaphores -> Int]
      /\ semLife' \in [Semaphores -> {"free", "open", "closed"}]
      /\ halted' \in BOOLEAN
  <2>1. CASE \E s \in Semaphores, init \in InitialValues : SemOpen(s, init)
    <3>1. PICK s \in Semaphores, init \in InitialValues : SemOpen(s, init)
      BY <2>1
    <3>2. init % 2^16 \in Int
      BY KernelAssumption
    <3> QED
      BY <3>1, <3>2 DEF SemOpen, OnePlaceInv, TypeOK
  <2>2. CASE \E s \in Semaphores : SemWaitPasses(s)
    BY <2>2 DEF SemWaitPasses, Decrement, OnePlaceInv, TypeOK
  <2>3. CASE MainReturns
    BY <2>3 DEF MainReturns, OnePlaceInv, TypeOK, semVars
  <2> QED
    BY <2>1, <2>2, <2>3
<1>4. TypeOK'
  BY <1>1, <1>3 DEF OnePlaceInv, TypeOK, threadVars, sleepVars
<1>5. EveryThreadInOnePlace'
  BY <1>1, <1>2, PlaceSets, SameBlocked DEF sleepVars
<1>6. FreedThreadsAreFresh'
  BY <1>1 DEF OnePlaceInv, FreedThreadsAreFresh, threadVars, sleepVars
<1> QED
  BY <1>4, <1>5, <1>6 DEF OnePlaceInv

-----------------------------------------------------------------------------
(* Time                                                                    *)

\* time_sleep moves the running thread into the sleep list.
LEMMA SleepOnePlace ==
    ASSUME OnePlaceInv, NEW time \in 1 .. MaxSleep,
           NEW pos \in 1 .. Len(sleepers) + 1, TimeSleep(time, pos)
    PROVE  OnePlaceInv'
<1>1. /\ runningThread # Idle
      /\ InsertSleepThread(runningThread, time, pos)
      /\ SwitchTo(ready, semWait)
      /\ UNCHANGED << threadVars, semVars, timeSliceCounter, halted >>
  BY DEF TimeSleep, UserThread, SuspendCurrentThread
<1>2. Alive' = Alive /\ runningThread \in Alive
  BY <1>1, PlaceSets DEF Alive, threadVars
<1>3. /\ sleepers' \in Seq(Threads) /\ IsInjective(sleepers')
      /\ Range(sleepers') = Range(sleepers) \cup {runningThread}
  BY <1>1, PlaceSets, InsertElements DEF InsertSleepThread
<1>4. semWait \in [Threads -> Waits]
  BY DEF OnePlaceInv, TypeOK, Waits
<1>5. /\ runningThread' \in Threads
      /\ ready' \in Seq(Threads)
      /\ semWait' \in [Threads -> Waits]
      /\ IsInjective(ready')
      /\ runningThread' \notin Range(ready')
      /\ Idle \notin Range(ready')
      /\ Range(ready') \cup ({runningThread'} \ {Idle}) = Range(ready)
  BY <1>1, <1>4, PlaceSets, SwitchElements
<1>6. DOMAIN sleepTime' = Threads
  BY <1>1 DEF InsertSleepThread, OnePlaceInv, TypeOK
<1>7. TypeOK'
  BY <1>1, <1>3, <1>5, <1>6 DEF OnePlaceInv, TypeOK, Waits, threadVars, semVars
<1>8. EveryThreadInOnePlace'
  BY <1>1, <1>2, <1>3, <1>5, PlaceSets, SameBlocked DEF semVars
<1>9. FreedThreadsAreFresh'
  <2> SUFFICES ASSUME NEW t \in Threads, life[t] \in {"free", "unstarted"}
               PROVE  ~finished[t] /\ ~waitSemaphoreFailed[t] /\ sleepTime'[t] = 0
    BY <1>1 DEF FreedThreadsAreFresh, threadVars
  <2>1. t # runningThread
    BY <1>2 DEF Alive
  <2>2. sleepers # << >> => t # Head(sleepers)
    BY NotStarted, PlaceSets, TailElements
  <2>3. sleepTime'[t] = sleepTime[t]
    BY <1>1, <2>1, <2>2 DEF InsertSleepThread, OnePlaceInv, TypeOK
  <2> QED
    BY <2>3, NotStarted
<1> QED
  BY <1>7, <1>8, <1>9 DEF OnePlaceInv

\* A tick moves the first sleepers to the ready list, then perhaps switches.
LEMMA TimerOnePlace ==
    ASSUME OnePlaceInv, NEW n \in 0 .. Len(sleepers), TimerInterrupt(n)
    PROVE  OnePlaceInv'
<1> DEFINE q == ready \o Woken(n)
<1>1. /\ UNCHANGED << threadVars, semVars, halted >>
      /\ sleepers' = SubSeq(sleepers, n + 1, Len(sleepers))
      /\ sleepTime' = Ticked
  BY DEF TimerInterrupt, UpdateSleepThreadList
<1>2. Alive' = Alive
  BY <1>1 DEF Alive, threadVars
<1>3. /\ Woken(n) \in Seq(Threads) /\ sleepers' \in Seq(Threads)
      /\ Range(sleepers) = Range(Woken(n)) \cup Range(sleepers')
      /\ Range(Woken(n)) \cap Range(sleepers') = {}
      /\ IsInjective(Woken(n)) /\ IsInjective(sleepers')
  BY <1>1, PlaceSets, SplitElements DEF Woken
<1>4. /\ q \in Seq(Threads) /\ IsInjective(q)
      /\ Range(q) = Range(ready) \cup Range(Woken(n))
  BY <1>3, PlaceSets, ConcatElements
<1>5. /\ runningThread' \in Threads
      /\ ready' \in Seq(Threads)
      /\ semWait' \in [Threads -> Waits]
      /\ IsInjective(ready')
      /\ runningThread' \notin Range(ready')
      /\ Idle \notin Range(ready')
      /\ Range(ready') \cup ({runningThread'} \ {Idle}) =
           Range(q) \cup ({runningThread} \ {Idle})
      /\ timeSliceCounter' \in 0 .. DefaultTimeSlice - 1
  <2>1. CASE timeSliceCounter + 1 < DefaultTimeSlice
    <3>1. /\ timeSliceCounter' = timeSliceCounter + 1 /\ ready' = q
          /\ UNCHANGED << runningThread, semWait >>
      BY <2>1, KernelAssumption DEF TimerInterrupt, OnePlaceInv, TypeOK
    <3>2. timeSliceCounter' \in 0 .. DefaultTimeSlice - 1
      BY <2>1, <3>1, KernelAssumption DEF OnePlaceInv, TypeOK
    <3>3. semWait' \in [Threads -> Waits]
      BY <3>1 DEF OnePlaceInv, TypeOK, Waits
    <3> HIDE DEF q
    <3> QED
      BY <1>3, <1>4, <3>1, <3>2, <3>3, PlaceSets
  <2>2. CASE timeSliceCounter + 1 >= DefaultTimeSlice
    <3>1. timeSliceCounter' = 0 /\ Dispatch(q, finished)
      BY <2>2, KernelAssumption DEF TimerInterrupt, OnePlaceInv, TypeOK
    <3>2. timeSliceCounter' \in 0 .. DefaultTimeSlice - 1
      BY <3>1, KernelAssumption
    <3>3. finished[runningThread] => runningThread = Idle
      BY PlaceSets DEF Alive
    <3>4. Idle \notin Range(q) /\ runningThread \notin Range(q)
      BY <1>3, <1>4, PlaceSets
    <3>5. finished \in [Threads -> BOOLEAN] /\ TypeOK
      BY DEF OnePlaceInv, TypeOK
    <3> HIDE DEF q
    <3> QED
      BY <1>4, <3>1, <3>2, <3>3, <3>4, <3>5, DispatchElements
  <2> QED
    BY <2>1, <2>2 DEF TimerInterrupt
<1> HIDE DEF q
<1>6. TypeOK'
  <2>1. DOMAIN sleepTime' = Threads
    BY <1>1 DEF Ticked, OnePlaceInv, TypeOK
  <2> QED
    BY <1>1, <1>3, <1>5, <2>1 DEF OnePlaceInv, TypeOK, Waits, threadVars, semVars
<1>7. EveryThreadInOnePlace'
  BY <1>1, <1>2, <1>3, <1>4, <1>5, PlaceSets, SameBlocked, SMTT(30) DEF semVars
<1>8. FreedThreadsAreFresh'
  <2> SUFFICES ASSUME NEW t \in Threads, life[t] \in {"free", "unstarted"}
               PROVE  ~finished[t] /\ ~waitSemaphoreFailed[t] /\ sleepTime'[t] = 0
    BY <1>1 DEF FreedThreadsAreFresh, threadVars
  <2>1. sleepers # << >> => t # Head(sleepers)
    BY NotStarted, PlaceSets, TailElements
  <2>2. sleepTime'[t] = sleepTime[t]
    BY <1>1, <2>1 DEF Ticked, OnePlaceInv, TypeOK
  <2> QED
    BY <2>2, NotStarted
<1> QED
  BY <1>6, <1>7, <1>8 DEF OnePlaceInv

-----------------------------------------------------------------------------
(* The steps that change one semaphore's list                              *)

\* The threads blocked on the semaphores other than s.
Elsewhere(s) == UNION {Range(blockedThreads[r]) : r \in Semaphores \ {s}}

LEMMA BlockedSets ==
    ASSUME OnePlaceInv, NEW s \in Semaphores
    PROVE  /\ blockedThreads[s] \in Seq(Threads) /\ IsInjective(blockedThreads[s])
           /\ Blocked = Range(blockedThreads[s]) \cup Elsewhere(s)
           /\ Range(blockedThreads[s]) \cap Elsewhere(s) = {}
BY DEF OnePlaceInv, TypeOK, EveryThreadInOnePlace, QueuesAreDisjoint, Blocked,
       Elsewhere

\* When one semaphore's list becomes w and the others stay, it is enough to
\* look at w, the ready list and the running thread.
LEMMA OneListChanges ==
    ASSUME OnePlaceInv, NEW s \in Semaphores, NEW w, IsInjective(w),
           blockedThreads' = [blockedThreads EXCEPT ![s] = w],
           UNCHANGED sleepers, IsInjective(ready'),
           Range(ready') \cap Range(sleepers) = {},
           Range(ready') \cap Elsewhere(s) = {},
           Range(w) \cap (Range(ready') \cup Range(sleepers) \cup Elsewhere(s)) = {},
           runningThread' \notin Range(ready') \cup Range(sleepers)
                                   \cup Range(w) \cup Elsewhere(s),
           Range(ready') \cup Range(sleepers) \cup Range(w) \cup Elsewhere(s)
             \cup ({runningThread'} \ {Idle}) = Alive'
    PROVE  EveryThreadInOnePlace'
<1>1. /\ blockedThreads'[s] = w
      /\ \A r \in Semaphores \ {s} : blockedThreads'[r] = blockedThreads[r]
  BY DEF OnePlaceInv, TypeOK
<1>2. Blocked' = Range(w) \cup Elsewhere(s)
  BY <1>1 DEF Blocked, Elsewhere
<1>3. \A r \in Semaphores \ {s} : Range(blockedThreads[r]) \subseteq Elsewhere(s)
  BY DEF Elsewhere
<1>4. QueuesAreDisjoint'
  <2>1. IsInjective(sleepers') /\ Range(ready') \cap Range(sleepers') = {}
    BY PlaceSets
  <2>2. ASSUME NEW x \in Semaphores, NEW y \in Semaphores \ {x}
        PROVE  Range(blockedThreads'[x]) \cap Range(blockedThreads'[y]) = {}
    BY <1>1, <1>3, <2>2 DEF OnePlaceInv, EveryThreadInOnePlace, QueuesAreDisjoint
  <2>3. ASSUME NEW x \in Semaphores
        PROVE  /\ IsInjective(blockedThreads'[x])
               /\ Range(blockedThreads'[x]) \cap (Range(ready') \cup Range(sleepers')) = {}
    BY <1>1, <1>3, <2>3 DEF OnePlaceInv, EveryThreadInOnePlace, QueuesAreDisjoint
  <2> QED
    BY <2>1, <2>2, <2>3 DEF QueuesAreDisjoint
<1> QED
  BY <1>2, <1>4 DEF EveryThreadInOnePlace, Queued

\* sem_wait without a permit moves the running thread to the list.
LEMMA WaitOnePlace ==
    ASSUME OnePlaceInv, NEW s \in Semaphores, SemWaitBlocks(s)
    PROVE  OnePlaceInv'
<1> DEFINE w == Append(blockedThreads[s], runningThread)
           sw == [semWait EXCEPT ![runningThread] = "blocked"]
<1>1. /\ runningThread # Idle
      /\ blockedThreads' = [blockedThreads EXCEPT ![s] = w]
      /\ SwitchTo(ready, sw)
      /\ semaphoreValue' = [semaphoreValue EXCEPT ![s] = @ - 1]
      /\ UNCHANGED << threadVars, semLife, sleepVars, timeSliceCounter, halted >>
  BY DEF SemWaitBlocks, UserThread, SuspendCurrentThread, Decrement
<1>2. Alive' = Alive
  BY <1>1 DEF Alive, threadVars
<1>3. /\ w \in Seq(Threads) /\ IsInjective(w)
      /\ Range(w) = Range(blockedThreads[s]) \cup {runningThread}
  <2>1. runningThread \notin Range(blockedThreads[s]) /\ runningThread \in Threads
    BY PlaceSets, BlockedSets
  <2> QED
    BY <2>1, BlockedSets, AppendElements
<1>4. sw \in [Threads -> Waits]
  BY DEF OnePlaceInv, TypeOK, Waits
<1> HIDE DEF w, sw
<1>5. /\ runningThread' \in Threads
      /\ ready' \in Seq(Threads)
      /\ semWait' \in [Threads -> Waits]
      /\ IsInjective(ready')
      /\ runningThread' \notin Range(ready')
      /\ Idle \notin Range(ready')
      /\ Range(ready') \cup ({runningThread'} \ {Idle}) = Range(ready)
  BY <1>1, <1>4, PlaceSets, SwitchElements
<1>6. TypeOK'
  <2>1. /\ blockedThreads' \in [Semaphores -> Seq(Threads)]
        /\ semaphoreValue' \in [Semaphores -> Int]
    BY <1>1, <1>3 DEF OnePlaceInv, TypeOK
  <2> QED
    BY <1>1, <1>5, <2>1 DEF OnePlaceInv, TypeOK, Waits, threadVars, sleepVars
<1>7. EveryThreadInOnePlace'
  <2>1. /\ Range(ready') \cap Range(sleepers) = {}
        /\ Range(ready') \cap Elsewhere(s) = {}
        /\ Range(w) \cap (Range(ready') \cup Range(sleepers) \cup Elsewhere(s)) = {}
        /\ runningThread' \notin Range(ready') \cup Range(sleepers)
                                    \cup Range(w) \cup Elsewhere(s)
    BY <1>1, <1>2, <1>3, <1>5, PlaceSets, BlockedSets
  <2>2. Range(ready') \cup Range(sleepers) \cup Range(w) \cup Elsewhere(s)
          \cup ({runningThread'} \ {Idle}) = Alive'
    BY <1>1, <1>2, <1>3, <1>5, PlaceSets, BlockedSets
  <2> QED
    BY <1>1, <1>3, <1>5, <2>1, <2>2, OneListChanges DEF sleepVars
<1>8. FreedThreadsAreFresh'
  BY <1>1 DEF OnePlaceInv, FreedThreadsAreFresh, threadVars, sleepVars
<1> QED
  BY <1>6, <1>7, <1>8 DEF OnePlaceInv

\* Closing or deleting a semaphore moves its whole list to the ready list.
LEMMA CloseOnePlace ==
    ASSUME OnePlaceInv, NEW s \in Semaphores, SemClose(s) \/ SemDelete(s)
    PROVE  OnePlaceInv'
<1>1. /\ CloseSemaphore(s)
      /\ UNCHANGED << runningThread, life, finished, sleepVars, timeSliceCounter, halted >>
      /\ semLife' \in [Semaphores -> {"free", "open", "closed"}]
      /\ semaphoreValue' \in [Semaphores -> Int]
  <2>1. CASE SemClose(s)
    BY <2>1 DEF SemClose, OnePlaceInv, TypeOK
  <2>2. CASE SemDelete(s)
    BY <2>2 DEF SemDelete, OnePlaceInv, TypeOK
  <2> QED
    BY <2>1, <2>2
<1>2. /\ ready' = ready \o blockedThreads[s]
      /\ blockedThreads' = [blockedThreads EXCEPT ![s] = << >>]
      /\ semWait' \in [Threads -> Waits]
      /\ waitSemaphoreFailed' \in [Threads -> BOOLEAN]
      /\ \A t \in Threads : t \notin Range(blockedThreads[s]) =>
            waitSemaphoreFailed'[t] = waitSemaphoreFailed[t]
  <2>1. waitSemaphoreFailed' =
          [t \in Threads |-> t \in Range(blockedThreads[s]) \/ waitSemaphoreFailed[t]]
    BY <1>1 DEF CloseSemaphore
  <2>2. waitSemaphoreFailed' \in [Threads -> BOOLEAN]
    BY <2>1, Zenon DEF OnePlaceInv, TypeOK
  <2>3. \A t \in Threads : t \notin Range(blockedThreads[s]) =>
            waitSemaphoreFailed'[t] = waitSemaphoreFailed[t]
    BY <2>1, Zenon DEF OnePlaceInv, TypeOK
  <2>4. semWait' \in [Threads -> Waits]
    BY <1>1 DEF CloseSemaphore, OnePlaceInv, TypeOK, Waits
  <2> QED
    BY <1>1, <2>2, <2>3, <2>4 DEF CloseSemaphore
<1>3. Alive' = Alive
  BY <1>1 DEF Alive
<1>4. /\ ready' \in Seq(Threads) /\ IsInjective(ready')
      /\ Range(ready') = Range(ready) \cup Range(blockedThreads[s])
  <2>1. Range(ready) \cap Range(blockedThreads[s]) = {}
    BY PlaceSets, BlockedSets
  <2> QED
    BY <1>2, <2>1, PlaceSets, BlockedSets, ConcatElements
<1>5. << >> \in Seq(Threads) /\ Range(<< >>) = {} /\ IsInjective(<< >>)
  BY EmptySeq DEF Range, IsInjective
<1>6. TypeOK'
  <2>1. blockedThreads' \in [Semaphores -> Seq(Threads)]
    BY <1>2, <1>5 DEF OnePlaceInv, TypeOK
  <2> QED
    BY <1>1, <1>2, <1>4, <2>1 DEF OnePlaceInv, TypeOK, Waits, sleepVars
<1>7. EveryThreadInOnePlace'
  <2>1. /\ Range(ready') \cap Range(sleepers) = {}
        /\ Range(ready') \cap Elsewhere(s) = {}
        /\ Range(<< >>) \cap (Range(ready') \cup Range(sleepers) \cup Elsewhere(s)) = {}
        /\ runningThread' \notin Range(ready') \cup Range(sleepers)
                                    \cup Range(<< >>) \cup Elsewhere(s)
    BY <1>1, <1>3, <1>4, <1>5, PlaceSets, BlockedSets
  <2>2. Range(ready') \cup Range(sleepers) \cup Range(<< >>) \cup Elsewhere(s)
          \cup ({runningThread'} \ {Idle}) = Alive'
    BY <1>1, <1>3, <1>4, <1>5, PlaceSets, BlockedSets
  <2> DEFINE w == << >>
  <2>3. IsInjective(w) /\ blockedThreads' = [blockedThreads EXCEPT ![s] = w]
    BY <1>2, <1>5
  <2>4. UNCHANGED sleepers /\ IsInjective(ready')
    BY <1>1, <1>4 DEF sleepVars
  <2> HIDE DEF w
  <2> QED
    BY <2>1, <2>2, <2>3, <2>4, OneListChanges DEF w
<1>8. FreedThreadsAreFresh'
  <2> SUFFICES ASSUME NEW t \in Threads, life[t] \in {"free", "unstarted"}
               PROVE  ~finished[t] /\ ~waitSemaphoreFailed'[t] /\ sleepTime[t] = 0
    BY <1>1 DEF FreedThreadsAreFresh, sleepVars
  <2>1. t \notin Range(blockedThreads[s])
    BY NotStarted, BlockedSets
  <2> QED
    BY <1>2, <2>1, NotStarted
<1> QED
  BY <1>6, <1>7, <1>8 DEF OnePlaceInv

\* sem_signal moves the first blocked thread, if any, to the ready list.
LEMMA SignalOnePlace ==
    ASSUME OnePlaceInv, NEW s \in Semaphores, SemSignal(s)
    PROVE  OnePlaceInv'
<1>1. /\ UNCHANGED << runningThread, threadVars, semLife, sleepVars,
                      timeSliceCounter, halted >>
      /\ semaphoreValue' \in [Semaphores -> Int]
  BY DEF SemSignal, Increment, OnePlaceInv, TypeOK
<1>2. Alive' = Alive
  BY <1>1 DEF Alive, threadVars
<1>3. FreedThreadsAreFresh'
  BY <1>1 DEF OnePlaceInv, FreedThreadsAreFresh, threadVars, sleepVars
<1>4. CASE UNCHANGED << ready, blockedThreads, semWait >>
  <2>1. TypeOK'
    BY <1>1, <1>4 DEF OnePlaceInv, TypeOK, threadVars, sleepVars
  <2>2. EveryThreadInOnePlace'
    BY <1>1, <1>2, <1>4, PlaceSets, SameBlocked DEF sleepVars
  <2> QED
    BY <1>3, <2>1, <2>2 DEF OnePlaceInv
<1>5. CASE /\ blockedThreads[s] # << >>
           /\ ready' = Enqueue(ready, Head(blockedThreads[s]))
           /\ blockedThreads' = [blockedThreads EXCEPT ![s] = Tail(@)]
           /\ semWait' = [semWait EXCEPT ![Head(blockedThreads[s])] = "signalled"]
  <2> DEFINE first == Head(blockedThreads[s])
             w == Tail(blockedThreads[s])
  <2>1. /\ first \in Threads /\ first \in Range(blockedThreads[s])
        /\ w \in Seq(Threads) /\ IsInjective(w)
        /\ Range(w) = Range(blockedThreads[s]) \ {first}
    BY <1>5, BlockedSets, TailElements
  <2>2. blockedThreads' = [blockedThreads EXCEPT ![s] = w]
    BY <1>5
  <2>3. first # Idle /\ first \notin Range(ready)
    BY <2>1, PlaceSets, BlockedSets
  <2> HIDE DEF first, w
  <2>4. /\ ready' \in Seq(Threads) /\ IsInjective(ready')
        /\ Range(ready') = Range(ready) \cup {first}
  <3>1. ready' = Enqueue(ready, first)
    BY <1>5 DEF first
  <3> QED
    BY <2>1, <2>3, <3>1, PlaceSets, EnqueueElements
  <2>5. TypeOK'
    <3>1. blockedThreads' \in [Semaphores -> Seq(Threads)]
      BY <2>1, <2>2 DEF OnePlaceInv, TypeOK
    <3>2. semWait' \in [Threads -> {"none", "blocked", "signalled", "closed"}]
      BY <1>5 DEF OnePlaceInv, TypeOK
    <3> QED
      BY <1>1, <2>4, <3>1, <3>2 DEF OnePlaceInv, TypeOK, threadVars, sleepVars
  <2>6. EveryThreadInOnePlace'
    <3>1. /\ Range(ready') \cap Range(sleepers) = {}
          /\ Range(ready') \cap Elsewhere(s) = {}
          /\ Range(w) \cap (Range(ready') \cup Range(sleepers) \cup Elsewhere(s)) = {}
          /\ runningThread' \notin Range(ready') \cup Range(sleepers)
                                      \cup Range(w) \cup Elsewhere(s)
      BY <1>1, <1>2, <2>1, <2>3, <2>4, PlaceSets, BlockedSets
    <3>2. Range(ready') \cup Range(sleepers) \cup Range(w) \cup Elsewhere(s)
            \cup ({runningThread'} \ {Idle}) = Alive'
      BY <1>1, <1>2, <2>1, <2>3, <2>4, PlaceSets, BlockedSets
    <3> QED
      BY <1>1, <2>1, <2>2, <2>4, <3>1, <3>2, OneListChanges DEF sleepVars
  <2> QED
    BY <1>3, <2>5, <2>6 DEF OnePlaceInv
<1> QED
  BY <1>4, <1>5 DEF SemSignal, UnblockFirst

-----------------------------------------------------------------------------

LEMMA StepOnePlace == OnePlaceInv /\ [Next]_vars => OnePlaceInv'
<1> SUFFICES ASSUME OnePlaceInv, [Next]_vars PROVE OnePlaceInv'
  OBVIOUS
<1>1. CASE ThreadCall
  BY <1>1, StartOnePlace, CreateDeleteOnePlace, DispatchOnePlace, ExitOnePlace
  DEF ThreadCall
<1>2. CASE SemaphoreCall
  BY <1>2, NoMoveOnePlace, WaitOnePlace, CloseOnePlace, SignalOnePlace
  DEF SemaphoreCall
<1>3. CASE Sleep
  BY <1>3, SleepOnePlace DEF Sleep
<1>4. CASE Timer
  BY <1>4, TimerOnePlace DEF Timer
<1>5. CASE MainLoop \/ MainReturns
  BY <1>5, DispatchOnePlace, NoMoveOnePlace
<1>6. CASE UNCHANGED vars
  BY <1>6 DEF vars, threadVars, semVars, sleepVars, OnePlaceInv, TypeOK,
              EveryThreadInOnePlace, QueuesAreDisjoint, Queued, Blocked, Alive,
              FreedThreadsAreFresh
<1> QED
  BY <1>1, <1>2, <1>3, <1>4, <1>5, <1>6 DEF Next

\* The kernel's state is well typed, whatever the system calls, their order
\* and the interrupts between them.
THEOREM TypeCorrect == Spec => []TypeOK
<1>1. OnePlaceInv => TypeOK
  BY DEF OnePlaceInv
<1> QED
  BY <1>1, InitOnePlace, StepOnePlace, PTL DEF Spec

\* No system call or interrupt loses a thread or links it into two lists:
\* every thread that started and has not finished is running or at exactly
\* one position of one list.
THEOREM NoThreadLost == Spec => []EveryThreadInOnePlace
<1>1. OnePlaceInv => EveryThreadInOnePlace
  BY DEF OnePlaceInv
<1> QED
  BY <1>1, InitOnePlace, StepOnePlace, PTL DEF Spec

\* A TCB that is free or not started is as its constructor left it.
THEOREM RecycledThreadsAreFresh == Spec => []FreedThreadsAreFresh
<1>1. OnePlaceInv => FreedThreadsAreFresh
  BY DEF OnePlaceInv
<1> QED
  BY <1>1, InitOnePlace, StepOnePlace, PTL DEF Spec

-----------------------------------------------------------------------------
(* The order of the ready list                                             *)

\* Running the first of the ready threads and those put behind them.
LEMMA SwitchKeepsOrder ==
    ASSUME ready \in Seq(Threads), NEW r \in Seq(Threads), NEW sw, SwitchTo(ready \o r, sw)
    PROVE  \/ IsPrefix(ready, ready')
           \/ /\ ready # << >>
              /\ IsPrefix(Tail(ready), ready')
              /\ runningThread' = Head(ready)
<1>1. CASE ready = << >>
  <2>1. ready \o r = r
    BY <1>1, ConcatEmptySeq
  <2>2. ready' \in Seq(Threads)
    BY <2>1, HeadTailProperties DEF SwitchTo, Rest
  <2>3. ready \o ready' = ready'
    BY <1>1, <2>2, ConcatEmptySeq
  <2> QED
    BY <2>2, <2>3, ConcatPrefix
<1>2. CASE ready # << >>
  <2>1. ready \o r # << >>
    BY <1>2, ConcatEqualIffEmpty
  <2>2. runningThread' = Head(ready) /\ ready' = Tail(ready) \o r
    BY <1>2, <2>1, ConcatHeadTail DEF SwitchTo, First, Rest
  <2>3. Tail(ready) \in Seq(Threads)
    BY <1>2, HeadTailProperties
  <2> QED
    BY <1>2, <2>2, <2>3, ConcatPrefix
<1> QED
  BY <1>1, <1>2

\* What the steps do to the ready list: they put threads behind it, and may
\* then take the first.
LEMMA ReadyChanges ==
    ASSUME TypeOK, [Next]_vars
    PROVE  \E r \in Seq(Threads) : ready' = ready \o r \/ \E sw : SwitchTo(ready \o r, sw)
<1> DEFINE Goal == \E r \in Seq(Threads) :
                      ready' = ready \o r \/ \E sw : SwitchTo(ready \o r, sw)
<1> SUFFICES Goal
  OBVIOUS
<1>1. ready \in Seq(Threads) /\ << >> \in Seq(Threads) /\ ready \o << >> = ready
  BY EmptySeq, ConcatEmptySeq DEF TypeOK
<1>2. ASSUME NEW q \in Seq(Threads), NEW t \in Threads
      PROVE  \E r \in Seq(Threads) : Enqueue(q, t) = q \o r
  <2>1. CASE t = Idle
    BY <2>1, EmptySeq, ConcatEmptySeq DEF Enqueue
  <2>2. CASE t # Idle
    <3>1. Enqueue(q, t) = q \o << t >>
      BY <2>2, AppendIsConcat DEF Enqueue
    <3>2. << t >> = Append(<< >>, t) /\ << t >> \in Seq(Threads)
      BY <1>1, AppendProperties
    <3> QED
      BY <3>1, <3>2
  <2> QED
    BY <2>1, <2>2
<1>3. ASSUME UNCHANGED ready PROVE Goal
  BY <1>1, <1>3
<1>4. ASSUME NEW t \in Threads, ready' = Enqueue(ready, t) PROVE Goal
  BY <1>1, <1>2, <1>4
<1>5. ASSUME NEW sw, SwitchTo(ready, sw) PROVE Goal
  BY <1>1, <1>5
<1>6. ASSUME NEW exited, Dispatch(ready, exited) PROVE Goal
  <2>1. SwitchTo(ready, semWait) \/ SwitchTo(Enqueue(ready, runningThread), semWait)
    BY <1>6 DEF Dispatch
  <2>2. PICK r \in Seq(Threads) : Enqueue(ready, runningThread) = ready \o r
    BY <1>1, <1>2 DEF TypeOK
  <2> QED
    BY <1>5, <2>1, <2>2
<1>7. CASE ThreadCall
  BY <1>3, <1>4, <1>6, <1>7
  DEF ThreadCall, ThreadCreate, ThreadCreateCpp, ThreadStart, ThreadDelete, ThreadExit, ThreadDispatch
<1>8. CASE SemaphoreCall
  <2>1. PICK s \in Semaphores :
           \/ \E init \in InitialValues : SemOpen(s, init)
           \/ SemClose(s) \/ SemDelete(s)
           \/ SemWaitPasses(s) \/ SemWaitBlocks(s) \/ SemSignal(s)
    BY <1>8 DEF SemaphoreCall
  <2>2. blockedThreads[s] \in Seq(Threads)
    BY DEF TypeOK
  <2>3. CASE SemClose(s) \/ SemDelete(s)
    BY <2>2, <2>3 DEF SemClose, SemDelete, CloseSemaphore
  <2>4. CASE (\E init \in InitialValues : SemOpen(s, init)) \/ SemWaitPasses(s)
    BY <1>3, <2>4 DEF SemOpen, SemWaitPasses
  <2>5. CASE SemWaitBlocks(s)
    BY <1>5, <2>5 DEF SemWaitBlocks, SuspendCurrentThread
  <2>6. CASE SemSignal(s)
    <3>1. blockedThreads[s] # << >> => Head(blockedThreads[s]) \in Threads
      BY <2>2, HeadTailProperties
    <3> QED
      BY <1>3, <1>4, <2>6, <3>1 DEF SemSignal, UnblockFirst
  <2> QED
    BY <2>1, <2>3, <2>4, <2>5, <2>6
<1>9. CASE Sleep
  BY <1>5, <1>9 DEF Sleep, TimeSleep, SuspendCurrentThread
<1>10. CASE Timer
  <2>1. PICK n \in 0 .. Len(sleepers) : TimerInterrupt(n)
    BY <1>10 DEF Timer
  <2>2. Woken(n) \in Seq(Threads)
    <3>1. \A i \in 1 .. n : sleepers[i] \in Threads
      BY ElementOfSeq, LenProperties DEF TypeOK
    <3> QED
      BY <3>1, SubSeqProperties DEF Woken
  <2>3. CASE ready' = ready \o Woken(n)
    BY <2>2, <2>3
  <2>4. CASE Dispatch(ready \o Woken(n), finished)
    <3>1. ready \o Woken(n) \in Seq(Threads)
      BY <1>1, <2>2, ConcatProperties
    <3>2. PICK r \in Seq(Threads) :
             Enqueue(ready \o Woken(n), runningThread) = (ready \o Woken(n)) \o r
      BY <1>2, <3>1 DEF TypeOK
    <3>3. /\ Woken(n) \o r \in Seq(Threads)
          /\ (ready \o Woken(n)) \o r = ready \o (Woken(n) \o r)
      BY <1>1, <2>2, ConcatProperties, ConcatAssociative, SMTT(30)
    <3>4. SwitchTo(ready \o Woken(n), semWait) \/ SwitchTo(ready \o (Woken(n) \o r), semWait)
      BY <2>4, <3>2, <3>3 DEF Dispatch
    <3> QED
      BY <2>2, <3>3, <3>4
  <2> QED
    BY <2>1, <2>3, <2>4 DEF TimerInterrupt
<1>11. CASE MainLoop \/ MainReturns \/ UNCHANGED vars
  BY <1>3, <1>6, <1>11 DEF MainLoop, MainReturns, vars
<1> HIDE DEF Goal
<1> QED
  BY <1>7, <1>8, <1>9, <1>10, <1>11 DEF Next

\* The ready list is first in, first out through every call and interrupt:
\* the threads that were ready stay in their order, others come behind them
\* only, and at most the first leaves, to run (Scheduler.cpp, TCB.cpp).
THEOREM NobodyIsOvertaken == Spec => NoOvertaking
<1>1. TypeOK /\ [Next]_vars =>
        [\/ IsPrefix(ready, ready')
         \/ /\ ready # << >>
            /\ IsPrefix(Tail(ready), ready')
            /\ runningThread' = Head(ready)]_vars
  <2> SUFFICES ASSUME TypeOK, [Next]_vars
               PROVE  \/ IsPrefix(ready, ready')
                      \/ /\ ready # << >>
                         /\ IsPrefix(Tail(ready), ready')
                         /\ runningThread' = Head(ready)
    OBVIOUS
  <2>1. ready \in Seq(Threads)
    BY DEF TypeOK
  <2>2. PICK r \in Seq(Threads) :
           ready' = ready \o r \/ \E sw : SwitchTo(ready \o r, sw)
    BY ReadyChanges
  <2> QED
    BY <2>1, <2>2, ConcatPrefix, SwitchKeepsOrder
<1> QED
  BY <1>1, TypeCorrect, PTL DEF Spec, NoOvertaking

-----------------------------------------------------------------------------
(* The sleep list                                                          *)

\* The invariant of SleepListProofs, next to the places of the threads.
SleepInv == OnePlaceInv /\ SleepListOK(MaxSleep)

\* The steps that leave the sleep list alone.
LEMMA ListAlone ==
    ASSUME SleepListOK(MaxSleep), UNCHANGED sleepVars PROVE SleepListOK(MaxSleep)'
BY DEF SleepListOK, sleepVars

LEMMA StepSleepTimes == SleepInv /\ [Next]_vars => SleepListOK(MaxSleep)'
<1> SUFFICES ASSUME SleepInv, [Next]_vars PROVE SleepListOK(MaxSleep)'
  OBVIOUS
<1>1. SleepListOK(MaxSleep) /\ MaxSleep \in Nat /\ OnePlaceInv
  BY KernelAssumption DEF SleepInv
<1>2. ASSUME NEW t \in Threads, ThreadDelete(t) PROVE SleepListOK(MaxSleep)'
  <2>1. sleepers' = sleepers /\ sleepTime' = [sleepTime EXCEPT ![t] = 0]
    BY <1>2 DEF ThreadDelete, ConstructTcb
  <2>2. sleepers # << >> => t # Head(sleepers)
    <3>1. t \notin Range(sleepers)
      BY <1>1, <1>2, PlaceSets DEF ThreadDelete, Alive
    <3> QED
      BY <1>1, <3>1, PlaceSets, TailElements
  <2>3. sleepers # << >> => Head(sleepers) \in Threads
    BY <1>1, PlaceSets, TailElements
  <2>4. sleepTime \in [Threads -> 0 .. MaxSleep]
    BY <1>1 DEF SleepListOK
  <2> QED
    BY <1>1, <2>1, <2>2, <2>3, <2>4 DEF SleepListOK
<1>3. CASE ThreadCall
  BY <1>1, <1>2, <1>3, ListAlone
  DEF ThreadCall, ThreadCreate, ThreadCreateCpp, ThreadStart, ThreadExit, ThreadDispatch
<1>4. CASE SemaphoreCall
  BY <1>1, <1>4, ListAlone
  DEF SemaphoreCall, SemOpen, SemClose, SemDelete, SemWaitPasses, SemWaitBlocks, SemSignal
<1>5. CASE Sleep
  <2>1. PICK time \in 1 .. MaxSleep, pos \in 1 .. Len(sleepers) + 1 :
           UserThread /\ InsertSleepThread(runningThread, time, pos)
    BY <1>5 DEF Sleep, TimeSleep
  <2>2. runningThread \in Threads /\ runningThread \notin Range(sleepers)
    BY <1>1, PlaceSets
  <2>3. /\ sleepTime' \in [Threads -> 0 .. MaxSleep]
        /\ sleepers' \in Seq(Threads) /\ IsInjective(sleepers')
        /\ sleepTime'[sleepers'[1]] > 0
    BY <1>1, <2>1, <2>2, InsertTypes
  <2>4. sleepers' # << >> => Head(sleepers') = sleepers'[1]
    BY <2>3, HeadTailProperties
  <2> QED
    BY <2>3, <2>4 DEF SleepListOK
<1>6. CASE Timer
  <2>1. PICK n \in 0 .. Len(sleepers) : UpdateSleepThreadList(n)
    BY <1>6 DEF Timer, TimerInterrupt
  <2>2. /\ sleepers' \in Seq(Threads)
        /\ sleepTime' \in [Threads -> 0 .. MaxSleep]
        /\ sleepers' # << >> => sleepTime'[Head(sleepers')] > 0
    BY <1>1, <2>1, TickSums
  <2>3. IsInjective(sleepers')
    BY <1>1, <2>1, PlaceSets, SplitElements DEF UpdateSleepThreadList
  <2> QED
    BY <2>2, <2>3 DEF SleepListOK
<1>7. CASE MainLoop \/ MainReturns \/ UNCHANGED vars
  BY <1>1, <1>7, ListAlone DEF MainLoop, MainReturns, vars, sleepVars
<1> QED
  BY <1>3, <1>4, <1>5, <1>6, <1>7 DEF Next

\* The differences of the sleep list never leave their range and the head
\* always has time left, so that no decrement wraps, whatever threads sleep,
\* wake, end and are deleted meanwhile (TCB.cpp:63-111).
THEOREM KernelSleepTimes == Spec => []SleepTimesOK
<1>1. Init => SleepInv
  <2>1. Init => SleepListOK(MaxSleep)
    BY KernelAssumption, EmptySeq DEF Init, SleepListOK, IsInjective
  <2> QED
    BY <2>1, InitOnePlace DEF SleepInv
<1>2. SleepInv /\ [Next]_vars => SleepInv'
  BY StepOnePlace, StepSleepTimes DEF SleepInv
<1>3. SleepInv => SleepTimesOK
  BY DEF SleepInv, SleepListOK, SleepTimesOK
<1> QED
  BY <1>1, <1>2, <1>3, PTL DEF Spec

-----------------------------------------------------------------------------
(* Semaphores                                                              *)

\* sem_close marks every thread it releases, and the mark stays until the
\* thread has run.
ClosedWaitsAreMarked ==
    \A t \in Threads : semWait[t] = "closed" => waitSemaphoreFailed[t]

\* The inductive invariant of sem_wait.
SemWaitInv == OnePlaceInv /\ SemWaitIsConsistent /\ ClosedWaitsAreMarked

\* The threads that were released and have not run since.
Released(sw) == {t \in Threads : sw[t] \in {"signalled", "closed"}}

-----------------------------------------------------------------------------
(* The mark of a failed wait                                               *)

\* A thread that was released by sem_close is ready, hence nobody deletes it
\* and its mark survives the step.
LEMMA ClosedStaysMarked ==
    ASSUME SemWaitInv, [Next]_vars, NEW t \in Threads, semWait[t] = "closed"
    PROVE  waitSemaphoreFailed'[t]
<1>1. waitSemaphoreFailed[t] /\ t \in Alive
  BY PlaceSets DEF SemWaitInv, SemWaitIsConsistent, ClosedWaitsAreMarked
<1>2. CASE UNCHANGED waitSemaphoreFailed
  BY <1>1, <1>2
<1>3. CASE \E x \in Threads : ThreadDelete(x)
  <2>1. PICK x \in Threads : ThreadDelete(x)
    BY <1>3
  <2>2. x # t
    BY <1>1, <2>1 DEF ThreadDelete, Alive
  <2>3. waitSemaphoreFailed' = [waitSemaphoreFailed EXCEPT ![x] = FALSE]
    BY <2>1 DEF ThreadDelete, ConstructTcb
  <2> QED
    BY <1>1, <2>2, <2>3 DEF SemWaitInv, OnePlaceInv, TypeOK
<1>4. CASE \E s \in Semaphores : CloseSemaphore(s)
  <2>1. PICK s \in Semaphores : CloseSemaphore(s)
    BY <1>4
  <2>2. waitSemaphoreFailed' =
          [x \in Threads |-> x \in Range(blockedThreads[s]) \/ waitSemaphoreFailed[x]]
    BY <2>1 DEF CloseSemaphore
  <2> QED
    BY <1>1, <2>2, Zenon
<1>5. \/ UNCHANGED waitSemaphoreFailed
      \/ \E x \in Threads : ThreadDelete(x)
      \/ \E s \in Semaphores : CloseSemaphore(s)
  <2>1. CASE ThreadCall
    BY <2>1 DEF ThreadCall, ThreadCreate, ThreadCreateCpp, ThreadStart, ThreadExit,
                ThreadDispatch, threadVars
  <2>2. CASE SemaphoreCall
    BY <2>2 DEF SemaphoreCall, SemOpen, SemClose, SemDelete, SemWaitPasses,
                SemWaitBlocks, SemSignal, threadVars
  <2>3. CASE Sleep \/ Timer \/ MainLoop \/ MainReturns
    BY <2>3 DEF Sleep, TimeSleep, Timer, TimerInterrupt, MainLoop, MainReturns, threadVars
  <2>4. CASE UNCHANGED vars
    BY <2>4 DEF vars, threadVars
  <2> QED
    BY <2>1, <2>2, <2>3, <2>4 DEF Next
<1> QED
  BY <1>2, <1>3, <1>4, <1>5

-----------------------------------------------------------------------------
(* Where the threads inside sem_wait are                                   *)

\* The thread that gets the processor leaves sem_wait; B are the threads
\* that the semaphores hold.
LEMMA SwitchWaits ==
    ASSUME NEW q \in Seq(Threads), IsInjective(q),
           NEW sw \in [Threads -> Waits], SwitchTo(q, sw),
           NEW B, Idle \notin B, B \cap Range(q) = {},
           B = {t \in Threads : sw[t] = "blocked"}, Released(sw) \subseteq Range(q)
    PROVE  /\ B = {t \in Threads : semWait'[t] = "blocked"}
           /\ Released(semWait') \subseteq Range(ready')
           /\ \A t \in Threads : semWait'[t] = "closed" => sw[t] = "closed"
<1> DEFINE next == First(q)
<1>1. next \in Threads /\ next \notin B /\ Range(ready') = Range(q) \ {next}
  <2>1. CASE q = << >>
    BY <2>1, KernelAssumption DEF SwitchTo, First, Rest, Range
  <2>2. CASE q # << >>
    BY <2>2, TailElements DEF SwitchTo, First, Rest
  <2> QED
    BY <2>1, <2>2
<1>2. semWait' = [sw EXCEPT ![next] = "none"]
  BY DEF SwitchTo
<1> HIDE DEF next
<1> QED
  BY <1>1, <1>2 DEF Waits, Released

\* A step that moves no thread in or out of sem_wait, and takes nobody out of
\* the ready list.
LEMMA QuietWaits ==
    ASSUME SemWaitIsConsistent, UNCHANGED << semWait, blockedThreads >>,
           Range(ready) \subseteq Range(ready')
    PROVE  SemWaitIsConsistent'
<1>1. Blocked' = Blocked
  BY DEF Blocked
<1> QED
  BY <1>1 DEF SemWaitIsConsistent

\* A step that gives the processor to the first of a list that holds at
\* least the ready threads.
LEMMA SwitchKeepsWaits ==
    ASSUME SemWaitInv, UNCHANGED blockedThreads,
           NEW q \in Seq(Threads), IsInjective(q), SwitchTo(q, semWait),
           Range(ready) \subseteq Range(q), Range(q) \cap Blocked = {}
    PROVE  /\ SemWaitIsConsistent'
           /\ \A t \in Threads : semWait'[t] = "closed" => semWait[t] = "closed"
<1>1. semWait \in [Threads -> Waits] /\ Idle \notin Blocked
  BY PlaceSets DEF SemWaitInv, OnePlaceInv, TypeOK, Waits
<1>2. Blocked = {t \in Threads : semWait[t] = "blocked"} /\ Released(semWait) \subseteq Range(q)
  BY DEF SemWaitInv, SemWaitIsConsistent, Released
<1>3. /\ Blocked = {t \in Threads : semWait'[t] = "blocked"}
      /\ Released(semWait') \subseteq Range(ready')
      /\ \A t \in Threads : semWait'[t] = "closed" => semWait[t] = "closed"
  BY <1>1, <1>2, SwitchWaits
<1>4. Blocked' = Blocked
  BY DEF Blocked
<1> QED
  BY <1>3, <1>4 DEF SemWaitIsConsistent, Released

\* The steps of SwitchKeepsWaits: a thread exits, gives up the processor,
\* goes to sleep, or a time slice ends.
LEMMA DispatchWaits ==
    ASSUME SemWaitInv,
           \/ ThreadExit \/ ThreadDispatch \/ MainLoop
           \/ \E time \in 1 .. MaxSleep, pos \in 1 .. Len(sleepers) + 1 : TimeSleep(time, pos)
    PROVE  /\ SemWaitIsConsistent'
           /\ \A t \in Threads : semWait'[t] = "closed" => semWait[t] = "closed"
<1>1. UNCHANGED blockedThreads
  BY DEF ThreadExit, ThreadDispatch, MainLoop, TimeSleep, semVars
<1>2. SwitchTo(ready, semWait) \/ SwitchTo(Enqueue(ready, runningThread), semWait)
  BY DEF ThreadExit, ThreadDispatch, MainLoop, TimeSleep, Dispatch, SuspendCurrentThread
<1>3. PICK q \in {ready, Enqueue(ready, runningThread)} : SwitchTo(q, semWait)
  BY <1>2
<1>4. OnePlaceInv
  BY DEF SemWaitInv
<1>5. /\ q \in Seq(Threads) /\ IsInjective(q)
      /\ Range(ready) \subseteq Range(q)
      /\ Range(q) \subseteq Range(ready) \cup {runningThread}
  <2>1. /\ Enqueue(ready, runningThread) \in Seq(Threads)
        /\ IsInjective(Enqueue(ready, runningThread))
        /\ Range(Enqueue(ready, runningThread)) = Range(ready) \cup ({runningThread} \ {Idle})
    BY <1>4, PlaceSets, EnqueueElements
  <2> QED
    BY <1>4, <2>1, PlaceSets
<1>6. Range(q) \cap Blocked = {}
  BY <1>4, <1>5, PlaceSets
<1> QED
  BY <1>1, <1>3, <1>5, <1>6, SwitchKeepsWaits

LEMMA TimerWaits ==
    ASSUME SemWaitInv, NEW n \in 0 .. Len(sleepers), TimerInterrupt(n)
    PROVE  /\ SemWaitIsConsistent'
           /\ \A t \in Threads : semWait'[t] = "closed" => semWait[t] = "closed"
<1> DEFINE q == ready \o Woken(n)
<1>1. UNCHANGED blockedThreads
  BY DEF TimerInterrupt, semVars
<1>2. OnePlaceInv
  BY DEF SemWaitInv
<1>3. /\ Woken(n) \in Seq(Threads) /\ IsInjective(Woken(n))
      /\ Range(Woken(n)) \subseteq Range(sleepers)
  BY <1>2, PlaceSets, SplitElements DEF Woken
<1>4. /\ q \in Seq(Threads) /\ IsInjective(q)
      /\ Range(q) = Range(ready) \cup Range(Woken(n))
  BY <1>2, <1>3, PlaceSets, ConcatElements
<1>5. \/ ready' = q /\ UNCHANGED semWait
      \/ SwitchTo(q, semWait)
      \/ SwitchTo(Enqueue(q, runningThread), semWait)
  BY DEF TimerInterrupt, Dispatch
<1> HIDE DEF q
<1>6. CASE ready' = q /\ UNCHANGED semWait
  BY <1>1, <1>4, <1>6, QuietWaits DEF SemWaitInv
<1>7. CASE SwitchTo(q, semWait)
  <2>1. Range(q) \cap Blocked = {}
    BY <1>2, <1>3, <1>4, PlaceSets
  <2> QED
    BY <1>1, <1>4, <1>7, <2>1, SwitchKeepsWaits
<1>8. CASE SwitchTo(Enqueue(q, runningThread), semWait)
  <2> DEFINE r == Enqueue(q, runningThread)
  <2>1. /\ r \in Seq(Threads) /\ IsInjective(r)
        /\ Range(r) = Range(q) \cup ({runningThread} \ {Idle})
    BY <1>2, <1>3, <1>4, PlaceSets, EnqueueElements
  <2> HIDE DEF r
  <2>2. Range(r) \cap Blocked = {} /\ Range(ready) \subseteq Range(r)
    BY <1>2, <1>3, <1>4, <2>1, PlaceSets
  <2>3. SwitchTo(r, semWait)
    BY <1>8 DEF r
  <2> QED
    BY <1>1, <2>1, <2>2, <2>3, SwitchKeepsWaits
<1> QED
  BY <1>5, <1>6, <1>7, <1>8

\* sem_wait that blocks: the running thread is in the list, and the thread
\* that runs next was ready.
LEMMA BlockWaits ==
    ASSUME SemWaitInv, NEW s \in Semaphores, SemWaitBlocks(s)
    PROVE  /\ SemWaitIsConsistent'
           /\ \A t \in Threads : semWait'[t] = "closed" => semWait[t] = "closed"
<1> DEFINE sw == [semWait EXCEPT ![runningThread] = "blocked"]
           w == Append(blockedThreads[s], runningThread)
<1>1. OnePlaceInv /\ SemWaitIsConsistent
  BY DEF SemWaitInv
<1>2. /\ SwitchTo(ready, sw)
      /\ blockedThreads' = [blockedThreads EXCEPT ![s] = w]
      /\ runningThread # Idle
  BY DEF SemWaitBlocks, SuspendCurrentThread, UserThread
<1>3. sw \in [Threads -> Waits]
  BY <1>1 DEF OnePlaceInv, TypeOK, Waits
<1>4. Range(w) = Range(blockedThreads[s]) \cup {runningThread}
  BY <1>1, BlockedSets, PlaceSets, AppendElements
<1>5. Blocked' = Blocked \cup {runningThread}
  <2>1. Blocked' = Range(w) \cup Elsewhere(s)
    BY <1>1, <1>2 DEF Blocked, Elsewhere, OnePlaceInv, TypeOK
  <2> QED
    BY <1>1, <1>4, <2>1, BlockedSets
<1>6. /\ Blocked' = {t \in Threads : sw[t] = "blocked"}
      /\ Released(sw) \subseteq Range(ready)
      /\ \A t \in Threads : sw[t] = "closed" => semWait[t] = "closed"
  BY <1>1, <1>5, PlaceSets DEF OnePlaceInv, TypeOK, SemWaitIsConsistent, Released
<1>7. Idle \notin Blocked' /\ Blocked' \cap Range(ready) = {}
  BY <1>1, <1>2, <1>5, PlaceSets
<1> HIDE DEF sw, w
<1>8. /\ Blocked' = {t \in Threads : semWait'[t] = "blocked"}
      /\ Released(semWait') \subseteq Range(ready')
      /\ \A t \in Threads : semWait'[t] = "closed" => sw[t] = "closed"
  BY <1>1, <1>2, <1>3, <1>6, <1>7, PlaceSets, SwitchWaits, SMTT(30)
<1> QED
  BY <1>6, <1>8 DEF SemWaitIsConsistent, Released

\* sem_close and ~Semaphore: the whole list becomes ready.
LEMMA CloseWaits ==
    ASSUME SemWaitInv, NEW s \in Semaphores, CloseSemaphore(s)
    PROVE  /\ SemWaitIsConsistent'
           /\ \A t \in Threads : semWait'[t] = "closed" =>
                 semWait[t] = "closed" \/ waitSemaphoreFailed'[t]
<1> DEFINE released == Range(blockedThreads[s])
<1>1. OnePlaceInv /\ SemWaitIsConsistent
  BY DEF SemWaitInv
<1>2. /\ ready' = ready \o blockedThreads[s]
      /\ blockedThreads' = [blockedThreads EXCEPT ![s] = << >>]
      /\ semWait' = [t \in Threads |-> IF t \in released THEN "closed" ELSE semWait[t]]
      /\ waitSemaphoreFailed' =
           [t \in Threads |-> t \in released \/ waitSemaphoreFailed[t]]
  BY DEF CloseSemaphore
<1>3. Range(ready') = Range(ready) \cup released
  BY <1>1, <1>2, PlaceSets, BlockedSets, ConcatElements
<1>4. Blocked' = Blocked \ released
  <2>1. Range(<< >>) = {}
    BY DEF Range
  <2>2. Blocked' = Elsewhere(s)
    BY <1>1, <1>2, <2>1 DEF Blocked, Elsewhere, OnePlaceInv, TypeOK
  <2> QED
    BY <1>1, <2>2, BlockedSets
<1>5. SemWaitIsConsistent'
  BY <1>1, <1>2, <1>3, <1>4, BlockedSets DEF SemWaitIsConsistent
<1>6. ASSUME NEW t \in Threads, semWait'[t] = "closed", semWait[t] # "closed"
      PROVE  waitSemaphoreFailed'[t]
  <2>1. t \in released
    BY <1>2, <1>6
  <2> QED
    BY <1>2, <2>1, Zenon
<1> QED
  BY <1>5, <1>6

\* sem_signal: the first thread of the list becomes ready.
LEMMA SignalWaits ==
    ASSUME SemWaitInv, NEW s \in Semaphores, SemSignal(s)
    PROVE  /\ SemWaitIsConsistent'
           /\ \A t \in Threads : semWait'[t] = "closed" => semWait[t] = "closed"
<1>1. OnePlaceInv /\ SemWaitIsConsistent
  BY DEF SemWaitInv
<1>2. CASE UNCHANGED << ready, blockedThreads, semWait >>
  BY <1>1, <1>2, QuietWaits
<1>3. CASE /\ blockedThreads[s] # << >>
           /\ ready' = Enqueue(ready, Head(blockedThreads[s]))
           /\ blockedThreads' = [blockedThreads EXCEPT ![s] = Tail(@)]
           /\ semWait' = [semWait EXCEPT ![Head(blockedThreads[s])] = "signalled"]
  <2> DEFINE first == Head(blockedThreads[s])
             w == Tail(blockedThreads[s])
  <2>1. /\ first \in Threads /\ first \in Range(blockedThreads[s])
        /\ Range(w) = Range(blockedThreads[s]) \ {first}
    BY <1>1, <1>3, BlockedSets, TailElements
  <2>2. /\ blockedThreads' = [blockedThreads EXCEPT ![s] = w]
        /\ ready' = Enqueue(ready, first)
        /\ semWait' = [semWait EXCEPT ![first] = "signalled"]
    BY <1>3
  <2>3. first # Idle /\ first \notin Range(ready)
    BY <1>1, <2>1, PlaceSets, BlockedSets
  <2> HIDE DEF first, w
  <2>4. Range(ready') = Range(ready) \cup {first}
    BY <1>1, <2>1, <2>2, <2>3, PlaceSets, EnqueueElements
  <2>5. Blocked' = Blocked \ {first}
    <3>1. Blocked' = Range(w) \cup Elsewhere(s)
      BY <1>1, <2>2 DEF Blocked, Elsewhere, OnePlaceInv, TypeOK
    <3> QED
      BY <1>1, <2>1, <3>1, BlockedSets
  <2> QED
    BY <1>1, <2>1, <2>2, <2>4, <2>5 DEF SemWaitIsConsistent, OnePlaceInv, TypeOK
<1> QED
  BY <1>2, <1>3 DEF SemSignal, UnblockFirst

\* The steps of QuietWaits.
LEMMA NoMoveWaits ==
    ASSUME SemWaitInv,
           \/ \E t \in Threads : ThreadCreate(t) \/ ThreadCreateCpp(t)
                                    \/ ThreadStart(t) \/ ThreadDelete(t)
           \/ \E s \in Semaphores, init \in InitialValues : SemOpen(s, init)
           \/ \E s \in Semaphores : SemWaitPasses(s)
           \/ MainReturns
           \/ UNCHANGED vars
    PROVE  SemWaitIsConsistent' /\ UNCHANGED semWait
<1>1. OnePlaceInv /\ SemWaitIsConsistent
  BY DEF SemWaitInv
<1>2. UNCHANGED << semWait, blockedThreads >>
  BY DEF ThreadCreate, ThreadCreateCpp, ThreadStart, ThreadDelete, SemOpen,
         SemWaitPasses, MainReturns, semVars, vars
<1>3. UNCHANGED ready \/ \E t \in Threads : ready' = Enqueue(ready, t)
  BY DEF ThreadCreate, ThreadCreateCpp, ThreadStart, ThreadDelete, SemOpen,
         SemWaitPasses, MainReturns, vars
<1>4. Range(ready) \subseteq Range(ready')
  <2>1. ASSUME NEW t \in Threads, ready' = Enqueue(ready, t), t # Idle
        PROVE  Range(ready) \subseteq Range(ready')
    <3>1. ready' = Append(ready, t) /\ ready \in Seq(Threads)
      BY <1>1, <2>1, PlaceSets DEF Enqueue
    <3> QED
      BY <3>1, AppendElements
  <2> QED
    BY <1>3, <2>1 DEF Enqueue
<1> QED
  BY <1>1, <1>2, <1>4, QuietWaits

LEMMA StepWaits ==
    ASSUME SemWaitInv, [Next]_vars
    PROVE  /\ SemWaitIsConsistent'
           /\ \A t \in Threads : semWait'[t] = "closed" =>
                 semWait[t] = "closed" \/ waitSemaphoreFailed'[t]
<1>1. CASE ThreadCall
  BY <1>1, NoMoveWaits, DispatchWaits DEF ThreadCall
<1>2. CASE SemaphoreCall
  BY <1>2, NoMoveWaits, BlockWaits, CloseWaits, SignalWaits
  DEF SemaphoreCall, SemClose, SemDelete
<1>3. CASE Sleep \/ MainLoop
  BY <1>3, DispatchWaits DEF Sleep
<1>4. CASE Timer
  BY <1>4, TimerWaits DEF Timer
<1>5. CASE MainReturns \/ UNCHANGED vars
  BY <1>5, NoMoveWaits
<1> QED
  BY <1>1, <1>2, <1>3, <1>4, <1>5 DEF Next

LEMMA InitWaits == Init => SemWaitInv
<1> SUFFICES ASSUME Init PROVE SemWaitInv
  OBVIOUS
<1>1. OnePlaceInv
  BY InitOnePlace
<1>2. Blocked = {}
  BY DEF Init, Blocked, Range
<1> QED
  BY <1>1, <1>2 DEF Init, SemWaitInv, SemWaitIsConsistent, ClosedWaitsAreMarked

LEMMA StepSemWait == SemWaitInv /\ [Next]_vars => SemWaitInv'
<1> SUFFICES ASSUME SemWaitInv, [Next]_vars PROVE SemWaitInv'
  OBVIOUS
<1>1. OnePlaceInv'
  BY StepOnePlace DEF SemWaitInv
<1>2. ClosedWaitsAreMarked'
  BY StepWaits, ClosedStaysMarked DEF ClosedWaitsAreMarked
<1> QED
  BY <1>1, <1>2, StepWaits DEF SemWaitInv

\* A thread is suspended inside sem_wait exactly while some semaphore holds
\* it, or it was released and has not run since (Riscv.cpp:148-158).
THEOREM SemWaitStateIsTrue == Spec => []SemWaitIsConsistent
<1>1. SemWaitInv => SemWaitIsConsistent
  BY DEF SemWaitInv
<1> QED
  BY <1>1, InitWaits, StepSemWait, PTL DEF Spec

\* A thread whose wait sem_close cut short gets -1 from sem_wait, however
\* long it stays ready and whatever the others do before it runs again
\* (TCB.hpp:61-62, Riscv.cpp:157).
THEOREM CutShortWaitFails == Spec => ClosedWaitFails
<1>1. SemWaitInv /\ [Next]_vars =>
        [\A t \in Threads : semWait[t] = "closed" /\ semWait'[t] # "closed" =>
            SemWaitResult(t)' = -1]_vars
  BY ClosedStaysMarked DEF SemWaitResult
<1> QED
  BY <1>1, InitWaits, StepSemWait, PTL DEF Spec, ClosedWaitFails

-----------------------------------------------------------------------------
(* What the value of a semaphore counts                                    *)

\* The inductive invariant of the semaphores' values.
AccountingInv == OnePlaceInv /\ SemaphoreAccounting

\* A step on one semaphore leaves the others as they are.
LEMMA OneSemaphoreChanges ==
    ASSUME AccountingInv, NEW s \in Semaphores,
           \A r \in Semaphores \ {s} :
               /\ semLife'[r] = semLife[r]
               /\ semaphoreValue'[r] = semaphoreValue[r]
               /\ blockedThreads'[r] = blockedThreads[r],
           semLife'[s] = "free" => Len(blockedThreads'[s]) = 0,
           semLife'[s] = "open" =>
               Len(blockedThreads'[s]) =
                   IF semaphoreValue'[s] < 0 THEN -semaphoreValue'[s] ELSE 0,
           Len(blockedThreads'[s]) > 0 => semaphoreValue'[s] <= -Len(blockedThreads'[s])
    PROVE  SemaphoreAccounting'
BY DEF AccountingInv, SemaphoreAccounting

\* What the invariant says of one semaphore.
LEMMA AccountingFacts ==
    ASSUME AccountingInv, NEW s \in Semaphores
    PROVE  /\ semaphoreValue[s] \in Int
           /\ blockedThreads[s] \in Seq(Threads)
           /\ Len(blockedThreads[s]) \in Nat
           /\ Len(blockedThreads[s]) = 0 <=> blockedThreads[s] = << >>
           /\ semLife[s] = "free" => blockedThreads[s] = << >>
           /\ semLife[s] = "open" =>
                Len(blockedThreads[s]) =
                    IF semaphoreValue[s] < 0 THEN -semaphoreValue[s] ELSE 0
           /\ Len(blockedThreads[s]) > 0 => semaphoreValue[s] <= -Len(blockedThreads[s])
<1>1. semaphoreValue[s] \in Int /\ blockedThreads[s] \in Seq(Threads)
  BY DEF AccountingInv, OnePlaceInv, TypeOK
<1>2. /\ Len(blockedThreads[s]) \in Nat
      /\ Len(blockedThreads[s]) = 0 <=> blockedThreads[s] = << >>
  BY <1>1, EmptySeq, LenProperties
<1> QED
  BY <1>1, <1>2 DEF AccountingInv, SemaphoreAccounting

LEMMA OpenAccounting ==
    ASSUME AccountingInv, NEW s \in Semaphores, NEW init \in InitialValues, SemOpen(s, init)
    PROVE  SemaphoreAccounting'
<1>1. init % 2^16 \in Nat
  BY KernelAssumption
<1>2. /\ blockedThreads' = blockedThreads /\ Len(blockedThreads[s]) = 0
      /\ semLife'[s] = "open" /\ semaphoreValue'[s] = init % 2^16
      /\ \A r \in Semaphores \ {s} :
            semLife'[r] = semLife[r] /\ semaphoreValue'[r] = semaphoreValue[r]
  BY AccountingFacts DEF SemOpen, AccountingInv, OnePlaceInv, TypeOK
<1> QED
  BY <1>1, <1>2, OneSemaphoreChanges

LEMMA CloseAccounting ==
    ASSUME AccountingInv, NEW s \in Semaphores, SemClose(s) \/ SemDelete(s)
    PROVE  SemaphoreAccounting'
<1>1. blockedThreads'[s] = << >>
  BY DEF SemClose, SemDelete, CloseSemaphore, AccountingInv, OnePlaceInv, TypeOK
<1>2. Len(blockedThreads'[s]) = 0 /\ semLife'[s] # "open"
  BY <1>1, EmptySeq DEF SemClose, SemDelete, AccountingInv, OnePlaceInv, TypeOK
<1>3. \A r \in Semaphores \ {s} :
         /\ semLife'[r] = semLife[r] /\ semaphoreValue'[r] = semaphoreValue[r]
         /\ blockedThreads'[r] = blockedThreads[r]
  BY DEF SemClose, SemDelete, CloseSemaphore, AccountingInv, OnePlaceInv, TypeOK
<1> QED
  BY <1>2, <1>3, OneSemaphoreChanges

LEMMA WaitAccounting ==
    ASSUME AccountingInv, NEW s \in Semaphores, SemWaitPasses(s) \/ SemWaitBlocks(s)
    PROVE  SemaphoreAccounting'
<1>1. /\ semLife' = semLife
      /\ semaphoreValue'[s] = semaphoreValue[s] - 1
      /\ \A r \in Semaphores \ {s} :
            /\ semaphoreValue'[r] = semaphoreValue[r]
            /\ blockedThreads'[r] = blockedThreads[r]
  BY DEF SemWaitPasses, SemWaitBlocks, Decrement, AccountingInv, OnePlaceInv, TypeOK
<1>2. semLife[s] # "free"
  BY DEF SemWaitPasses, SemWaitBlocks
<1>3. CASE SemWaitPasses(s)
  <2>1. blockedThreads' = blockedThreads /\ semaphoreValue[s] - 1 >= 0
    BY <1>3 DEF SemWaitPasses, Decrement, AccountingInv, OnePlaceInv, TypeOK
  <2> QED
    BY <1>1, <1>2, <2>1, AccountingFacts, OneSemaphoreChanges
<1>4. CASE SemWaitBlocks(s)
  <2>1. /\ blockedThreads'[s] = Append(blockedThreads[s], runningThread)
        /\ semaphoreValue[s] - 1 < 0
    BY <1>4 DEF SemWaitBlocks, Decrement, AccountingInv, OnePlaceInv, TypeOK
  <2>2. Len(blockedThreads'[s]) = Len(blockedThreads[s]) + 1
    BY <2>1, AccountingFacts, AppendProperties DEF AccountingInv, OnePlaceInv, TypeOK
  <2> QED
    BY <1>1, <1>2, <2>1, <2>2, AccountingFacts, OneSemaphoreChanges, SMTT(40)
<1> QED
  BY <1>3, <1>4

LEMMA SignalAccounting ==
    ASSUME AccountingInv, NEW s \in Semaphores, SemSignal(s)
    PROVE  SemaphoreAccounting'
<1>1. /\ semLife' = semLife /\ semLife[s] # "free"
      /\ semaphoreValue'[s] = semaphoreValue[s] + 1
      /\ \A r \in Semaphores \ {s} :
            /\ semaphoreValue'[r] = semaphoreValue[r]
            /\ blockedThreads'[r] = blockedThreads[r]
  BY DEF SemSignal, Increment, UnblockFirst, AccountingInv, OnePlaceInv, TypeOK
<1>2. \/ /\ semaphoreValue[s] + 1 <= 0 /\ blockedThreads[s] = << >>
         /\ blockedThreads'[s] = blockedThreads[s]
      \/ /\ semaphoreValue[s] + 1 <= 0 /\ blockedThreads[s] # << >>
         /\ blockedThreads'[s] = Tail(blockedThreads[s])
      \/ semaphoreValue[s] + 1 > 0 /\ blockedThreads'[s] = blockedThreads[s]
  BY DEF SemSignal, Increment, UnblockFirst, AccountingInv, OnePlaceInv, TypeOK
<1>3. blockedThreads[s] # << >> => Len(Tail(blockedThreads[s])) = Len(blockedThreads[s]) - 1
  BY AccountingFacts, HeadTailProperties
<1> DEFINE v == semaphoreValue[s]
           n == Len(blockedThreads[s])
           m == Len(blockedThreads'[s])
<1>4. v \in Int /\ n \in Nat
  BY AccountingFacts
<1>5. \/ v + 1 <= 0 /\ n = 0 /\ m = 0
      \/ v + 1 <= 0 /\ n > 0 /\ m = n - 1
      \/ v + 1 > 0 /\ m = n
  <2>1. n = 0 <=> blockedThreads[s] = << >>
    BY AccountingFacts
  <2>2. CASE /\ v + 1 <= 0 /\ blockedThreads[s] = << >>
             /\ blockedThreads'[s] = blockedThreads[s]
    BY <2>1, <2>2
  <2>3. CASE /\ v + 1 <= 0 /\ blockedThreads[s] # << >>
             /\ blockedThreads'[s] = Tail(blockedThreads[s])
    <3>1. n # 0 /\ m = n - 1
      BY <1>3, <2>1, <2>3
    <3> QED
      BY <1>4, <2>3, <3>1
  <2>4. CASE v + 1 > 0 /\ blockedThreads'[s] = blockedThreads[s]
    BY <2>4
  <2> QED
    BY <1>2, <2>2, <2>3, <2>4
<1>6. /\ semLife[s] = "open" => n = IF v < 0 THEN -v ELSE 0
      /\ n > 0 => v <= -n
  BY AccountingFacts
<1>7. semaphoreValue'[s] = v + 1
  BY <1>1
<1> HIDE DEF v, n, m
<1>8. /\ semLife[s] = "open" => m = IF v + 1 < 0 THEN -(v + 1) ELSE 0
      /\ m > 0 => v + 1 <= -m
  BY <1>4, <1>5, <1>6
<1> QED
  BY <1>1, <1>7, <1>8, OneSemaphoreChanges DEF m

\* The other steps leave the semaphores alone.
LEMMA SemaphoresUnchanged ==
    ASSUME [Next]_vars, ~SemaphoreCall
    PROVE  UNCHANGED semVars
<1>1. CASE ThreadCall
  BY <1>1 DEF ThreadCall, ThreadCreate, ThreadCreateCpp, ThreadStart, ThreadDelete,
              ThreadExit, ThreadDispatch
<1>2. CASE Sleep \/ Timer \/ MainLoop \/ MainReturns
  BY <1>2 DEF Sleep, TimeSleep, Timer, TimerInterrupt, MainLoop, MainReturns
<1>3. CASE UNCHANGED vars
  BY <1>3 DEF vars
<1> QED
  BY <1>1, <1>2, <1>3 DEF Next

LEMMA InitAccounting == Init => AccountingInv
<1>1. Len(<< >>) = 0
  BY EmptySeq
<1> QED
  BY <1>1, InitOnePlace DEF Init, AccountingInv, SemaphoreAccounting

LEMMA StepAccounting == AccountingInv /\ [Next]_vars => AccountingInv'
<1> SUFFICES ASSUME AccountingInv, [Next]_vars PROVE AccountingInv'
  OBVIOUS
<1>1. OnePlaceInv'
  BY StepOnePlace DEF AccountingInv
<1>2. CASE SemaphoreCall
  <2>1. SemaphoreAccounting'
    BY <1>2, OpenAccounting, CloseAccounting, WaitAccounting, SignalAccounting
    DEF SemaphoreCall
  <2> QED
    BY <1>1, <2>1 DEF AccountingInv
<1>3. CASE ~SemaphoreCall
  <2>1. UNCHANGED semVars
    BY <1>3, SemaphoresUnchanged
  <2>2. SemaphoreAccounting'
    BY <2>1 DEF semVars, AccountingInv, SemaphoreAccounting
  <2> QED
    BY <1>1, <2>2 DEF AccountingInv
<1> QED
  BY <1>2, <1>3

\* The value of an open semaphore is its permits or minus the number of its
\* waiters, through every wait, signal, close and reuse of its slot
\* (KernelSemaphore.cpp:25-44).
THEOREM ValuesCountWaiters == Spec => []SemaphoreAccounting
<1>1. AccountingInv => SemaphoreAccounting
  BY DEF AccountingInv
<1> QED
  BY <1>1, InitAccounting, StepAccounting, PTL DEF Spec

-----------------------------------------------------------------------------
(* FIFO semaphores                                                         *)

\* The refinement mapping, in the names of FifoSemaphores.tla.
Open == {s \in Semaphores : semLife[s] = "open"}
Permits == [s \in Semaphores |-> IF semLife[s] = "open" /\ semaphoreValue[s] > 0
                                 THEN semaphoreValue[s] ELSE 0]
Waiters == [s \in Semaphores |-> IF semLife[s] = "open" THEN blockedThreads[s] ELSE << >>]

\* The semaphores that a step leaves alone look the same from outside.
LEMMA OthersLookTheSame ==
    ASSUME AccountingInv, NEW s \in Semaphores,
           \A r \in Semaphores \ {s} :
               /\ semLife'[r] = semLife[r]
               /\ semaphoreValue'[r] = semaphoreValue[r]
               /\ blockedThreads'[r] = blockedThreads[r]
    PROVE  /\ Open' \ {s} = Open \ {s}
           /\ Permits' = [Permits EXCEPT ![s] = Permits'[s]]
           /\ Waiters' = [Waiters EXCEPT ![s] = Waiters'[s]]
<1>1. Open' \ {s} = Open \ {s}
  BY DEF Open
<1>2. \A r \in Semaphores \ {s} : Permits'[r] = Permits[r] /\ Waiters'[r] = Waiters[r]
  BY DEF Permits, Waiters
<1>3. /\ DOMAIN Permits = Semaphores /\ DOMAIN Permits' = Semaphores
      /\ DOMAIN Waiters = Semaphores /\ DOMAIN Waiters' = Semaphores
  BY DEF Permits, Waiters
<1>4. Permits' = [Permits EXCEPT ![s] = Permits'[s]]
  <2>1. Permits' = [r \in Semaphores |-> Permits'[r]]
    BY DEF Permits
  <2>2. Permits = [r \in Semaphores |-> Permits[r]]
    BY DEF Permits
  <2> QED
    BY <1>2, <2>1, <2>2
<1>5. Waiters' = [Waiters EXCEPT ![s] = Waiters'[s]]
  <2>1. Waiters' = [r \in Semaphores |-> Waiters'[r]]
    BY DEF Waiters
  <2>2. Waiters = [r \in Semaphores |-> Waiters[r]]
    BY DEF Waiters
  <2> QED
    BY <1>2, <2>1, <2>2
<1> QED
  BY <1>1, <1>4, <1>5

\* Seen from outside, a step on a semaphore that is not open before or after
\* it changes nothing.
LEMMA ClosedLooksTheSame ==
    ASSUME AccountingInv, NEW s \in Semaphores,
           \A r \in Semaphores \ {s} :
               /\ semLife'[r] = semLife[r]
               /\ semaphoreValue'[r] = semaphoreValue[r]
               /\ blockedThreads'[r] = blockedThreads[r],
           semLife[s] # "open", semLife'[s] # "open"
    PROVE  UNCHANGED Promised!vars
<1>1. Open' = Open
  BY DEF Open
<1>2. Permits' = Permits
  BY DEF Permits
<1>3. Waiters' = Waiters
  BY DEF Waiters
<1> QED
  BY <1>1, <1>2, <1>3 DEF Promised!vars, Open, Permits, Waiters

\* sem_open.
LEMMA OpenIsOpen ==
    ASSUME AccountingInv, NEW s \in Semaphores, NEW init \in InitialValues,
           init % 2^16 = init, SemOpen(s, init)
    PROVE  Promised!Open(s, init)
<1>1. /\ semLife[s] = "free" /\ semLife'[s] = "open"
      /\ semaphoreValue'[s] = init /\ init \in Nat
      /\ blockedThreads'[s] = << >>
      /\ \A r \in Semaphores \ {s} :
            /\ semLife'[r] = semLife[r]
            /\ semaphoreValue'[r] = semaphoreValue[r]
            /\ blockedThreads'[r] = blockedThreads[r]
  BY AccountingFacts, KernelAssumption DEF SemOpen, AccountingInv, OnePlaceInv, TypeOK
<1>2. s \notin Open /\ Open' = Open \cup {s}
  BY <1>1 DEF Open
<1>3. Permits' = [Permits EXCEPT ![s] = init]
  <2>1. Permits'[s] = init
    BY <1>1 DEF Permits
  <2> QED
    BY <1>1, <2>1, OthersLookTheSame
<1>4. Waiters' = Waiters
  BY <1>1 DEF Waiters
<1> QED
  BY <1>2, <1>3, <1>4 DEF Promised!Open, Open, Permits, Waiters

\* sem_close or ~Semaphore of an open semaphore.
LEMMA CloseIsClose ==
    ASSUME AccountingInv, NEW s \in Semaphores, SemClose(s) \/ SemDelete(s),
           semLife[s] = "open"
    PROVE  Promised!Close(s)
<1>1. /\ semLife'[s] # "open"
      /\ \A r \in Semaphores \ {s} :
            /\ semLife'[r] = semLife[r]
            /\ semaphoreValue'[r] = semaphoreValue[r]
            /\ blockedThreads'[r] = blockedThreads[r]
  BY DEF SemClose, SemDelete, CloseSemaphore, AccountingInv, OnePlaceInv, TypeOK
<1>2. s \in Open /\ Open' = Open \ {s}
  BY <1>1 DEF Open
<1>3. Permits' = [Permits EXCEPT ![s] = 0]
  <2>1. Permits'[s] = 0
    BY <1>1 DEF Permits
  <2> QED
    BY <1>1, <2>1, OthersLookTheSame
<1>4. Waiters' = [Waiters EXCEPT ![s] = << >>]
  <2>1. Waiters'[s] = << >>
    BY <1>1 DEF Waiters
  <2> QED
    BY <1>1, <2>1, OthersLookTheSame
<1> QED
  BY <1>2, <1>3, <1>4 DEF Promised!Close, Open, Permits, Waiters

\* sem_wait of an open semaphore.
LEMMA WaitIsAcquireOrEnter ==
    ASSUME AccountingInv, NEW s \in Semaphores, SemWaitPasses(s) \/ SemWaitBlocks(s),
           semLife[s] = "open"
    PROVE  Promised!Acquire(s) \/ \E t \in Threads : Promised!Enter(s, t)
<1>1. /\ semLife' = semLife
      /\ semaphoreValue[s] \in Int /\ semaphoreValue'[s] = semaphoreValue[s] - 1
      /\ \A r \in Semaphores \ {s} :
            /\ semaphoreValue'[r] = semaphoreValue[r]
            /\ blockedThreads'[r] = blockedThreads[r]
  BY DEF SemWaitPasses, SemWaitBlocks, Decrement, AccountingInv, OnePlaceInv, TypeOK
<1>2. s \in Open /\ Open' = Open
  BY <1>1 DEF Open
<1>3. CASE SemWaitPasses(s)
  <2>1. blockedThreads' = blockedThreads /\ semaphoreValue[s] - 1 >= 0
    BY <1>3 DEF SemWaitPasses, Decrement, AccountingInv, OnePlaceInv, TypeOK
  <2>2. Permits[s] > 0 /\ Permits'[s] = Permits[s] - 1
    BY <1>1, <2>1 DEF Permits
  <2>3. Permits' = [Permits EXCEPT ![s] = @ - 1]
    BY <1>1, <2>2, OthersLookTheSame
  <2>4. Waiters' = Waiters
    BY <1>1, <2>1 DEF Waiters
  <2> QED
    BY <1>2, <2>2, <2>3, <2>4 DEF Promised!Acquire, Open, Permits, Waiters
<1>4. CASE SemWaitBlocks(s)
  <2>1. /\ blockedThreads'[s] = Append(blockedThreads[s], runningThread)
        /\ semaphoreValue[s] - 1 < 0 /\ runningThread \in Threads
    BY <1>4 DEF SemWaitBlocks, Decrement, AccountingInv, OnePlaceInv, TypeOK
  <2>2. Permits[s] = 0 /\ Permits'[s] = 0
    BY <1>1, <2>1 DEF Permits
  <2>3. Permits' = Permits
    BY <1>1, <2>1 DEF Permits
  <2>4. Waiters' = [Waiters EXCEPT ![s] = Append(@, runningThread)]
    <3>1. Waiters'[s] = Append(Waiters[s], runningThread)
      BY <1>1, <2>1 DEF Waiters
    <3> QED
      BY <1>1, <3>1, OthersLookTheSame
  <2>5. \E t \in Threads : Promised!Enter(s, t)
    BY <1>2, <2>1, <2>2, <2>3, <2>4 DEF Promised!Enter, Open, Permits, Waiters
  <2> QED
    BY <2>5
<1> QED
  BY <1>3, <1>4

\* sem_signal of an open semaphore: its list is empty exactly when its value
\* is not negative, so the permit is handed over or kept.
LEMMA SignalIsHandOverOrKeep ==
    ASSUME AccountingInv, NEW s \in Semaphores, SemSignal(s), semLife[s] = "open"
    PROVE  Promised!HandOver(s) \/ Promised!Keep(s)
<1>1. /\ semLife' = semLife
      /\ semaphoreValue[s] \in Int /\ semaphoreValue'[s] = semaphoreValue[s] + 1
      /\ \A r \in Semaphores \ {s} :
            /\ semaphoreValue'[r] = semaphoreValue[r]
            /\ blockedThreads'[r] = blockedThreads[r]
  BY DEF SemSignal, Increment, UnblockFirst, AccountingInv, OnePlaceInv, TypeOK
<1>2. s \in Open /\ Open' = Open
  BY <1>1 DEF Open
<1>3. blockedThreads[s] = << >> <=> semaphoreValue[s] >= 0
  BY AccountingFacts
<1>4. CASE semaphoreValue[s] + 1 <= 0
  <2>1. blockedThreads[s] # << >>
    BY <1>1, <1>3, <1>4
  <2>2. blockedThreads' = [blockedThreads EXCEPT ![s] = Tail(@)]
    BY <1>1, <1>4, <2>1 DEF SemSignal, Increment, UnblockFirst, AccountingInv, OnePlaceInv, TypeOK
  <2>3. blockedThreads'[s] = Tail(blockedThreads[s])
    BY <2>2 DEF AccountingInv, OnePlaceInv, TypeOK
  <2>4. Permits' = Permits
    BY <1>1, <1>4 DEF Permits
  <2>5. Waiters[s] # << >> /\ Waiters'[s] = Tail(Waiters[s])
    BY <1>1, <2>1, <2>3 DEF Waiters
  <2>6. Waiters' = [Waiters EXCEPT ![s] = Tail(@)]
    BY <1>1, <2>5, OthersLookTheSame
  <2> QED
    BY <1>2, <2>4, <2>5, <2>6 DEF Promised!HandOver, Open, Permits, Waiters
<1>5. CASE semaphoreValue[s] + 1 > 0
  <2>1. semaphoreValue[s] >= 0 /\ blockedThreads[s] = << >>
    BY <1>1, <1>3, <1>5
  <2>2. blockedThreads' = blockedThreads
    BY <1>1, <1>5, <2>1 DEF SemSignal, Increment, UnblockFirst, AccountingInv, OnePlaceInv, TypeOK
  <2>3. Permits'[s] = Permits[s] + 1
    BY <1>1, <2>1 DEF Permits
  <2>4. Permits' = [Permits EXCEPT ![s] = @ + 1]
    BY <1>1, <2>2, <2>3, OthersLookTheSame
  <2>5. Waiters[s] = << >> /\ Waiters' = Waiters
    BY <1>1, <2>1, <2>2 DEF Waiters
  <2> QED
    BY <1>2, <2>4, <2>5 DEF Promised!Keep, Open, Permits, Waiters
<1> QED
  BY <1>1, <1>4, <1>5

LEMMA InitIsFifo == Init => Promised!Init
<1> SUFFICES ASSUME Init PROVE Promised!Init
  OBVIOUS
<1>1. \A s \in Semaphores : semLife[s] = "free"
  BY DEF Init
<1>2. Open = {} /\ Permits = [s \in Semaphores |-> 0] /\ Waiters = [s \in Semaphores |-> << >>]
  BY <1>1 DEF Open, Permits, Waiters
<1> QED
  BY <1>2 DEF Promised!Init, Open, Permits, Waiters

LEMMA StepIsFifo ==
    ASSUME \A init \in InitialValues : init % 2^16 = init,
           AccountingInv, [Next]_vars
    PROVE  [Promised!Next]_(Promised!vars)
<1>1. CASE ~SemaphoreCall
  BY <1>1, SemaphoresUnchanged DEF semVars, Promised!vars
<1>2. CASE SemaphoreCall
  <2>1. PICK s \in Semaphores :
           \/ \E init \in InitialValues : SemOpen(s, init)
           \/ SemClose(s) \/ SemDelete(s)
           \/ SemWaitPasses(s) \/ SemWaitBlocks(s) \/ SemSignal(s)
    BY <1>2 DEF SemaphoreCall
  <2>2. CASE \E init \in InitialValues : SemOpen(s, init)
    BY <2>2, OpenIsOpen DEF Promised!Next
  <2>3. CASE semLife[s] = "open" /\ (SemClose(s) \/ SemDelete(s))
    BY <2>3, CloseIsClose DEF Promised!Next
  <2>4. CASE semLife[s] = "open" /\ (SemWaitPasses(s) \/ SemWaitBlocks(s))
    BY <2>4, WaitIsAcquireOrEnter DEF Promised!Next
  <2>5. CASE semLife[s] = "open" /\ SemSignal(s)
    BY <2>5, SignalIsHandOverOrKeep DEF Promised!Next
  <2>6. CASE /\ semLife[s] # "open"
             /\ SemClose(s) \/ SemDelete(s) \/ SemWaitPasses(s) \/ SemWaitBlocks(s)
                   \/ SemSignal(s)
    <3>1. /\ semLife'[s] # "open"
          /\ \A r \in Semaphores \ {s} :
                /\ semLife'[r] = semLife[r]
                /\ semaphoreValue'[r] = semaphoreValue[r]
                /\ blockedThreads'[r] = blockedThreads[r]
      BY <2>6 DEF SemClose, SemDelete, CloseSemaphore, SemWaitPasses, SemWaitBlocks,
                  SemSignal, UnblockFirst, Decrement, Increment,
                  AccountingInv, OnePlaceInv, TypeOK
    <3> QED
      BY <2>6, <3>1, ClosedLooksTheSame
  <2> QED
    BY <2>1, <2>2, <2>3, <2>4, <2>5, <2>6
<1> QED
  BY <1>1, <1>2

\* Every semaphore is a FIFO semaphore from sem_open to sem_close, provided
\* the initial values asked for fit the 16 bits that the trap of sem_open
\* reads (Riscv.cpp:131, KernelSemaphore.cpp): permits are neither lost nor made
\* up, and the threads that wait are released in order.
THEOREM SemaphoresAreFifo ==
    ASSUME \A init \in InitialValues : init % 2^16 = init
    PROVE  Spec => ImplementsFifoSemaphores
<1>1. AccountingInv /\ [Next]_vars => [Promised!Next]_(Promised!vars)
  BY StepIsFifo
<1> QED
  BY <1>1, InitIsFifo, InitAccounting, StepAccounting, PTL
  DEF Spec, ImplementsFifoSemaphores, Promised!Spec
=============================================================================
