---------------------------- MODULE KernelBuffer ----------------------------
(***************************************************************************)
(* A console buffer: the cyclic array and its four semaphores.  The        *)
(* operators are the statements of KernelBuffer.cpp; who runs them, and    *)
(* what happens to the processor when one blocks, is up to the module that *)
(* extends this one.                                                       *)
(***************************************************************************)
EXTENDS Integers, ReadyQueue

CONSTANTS
    Threads,
    Capacity   \* 2000 in the code

ASSUME KernelBufferAssumption == Capacity \in Nat \ {0}

VARIABLES
    ready,             \* the scheduler's list, without the idle thread
    semaphoreValue,
    blockedThreads,
    buffer, head, tail

semVars == << semaphoreValue, blockedThreads >>
ringVars == << buffer, head, tail >>

BufferSemaphores == {"spaceAvailable", "itemAvailable", "mutexHead", "mutexTail"}

\* slabAllocatorConstructor; Unset is what the array holds before it is
\* written.
Construct(Unset) ==
    /\ semaphoreValue = [s \in BufferSemaphores |->
                            CASE s = "spaceAvailable" -> Capacity
                              [] s = "itemAvailable"  -> 0
                              [] OTHER                -> 1]
    /\ blockedThreads = [s \in BufferSemaphores |-> << >>]
    /\ buffer = [i \in 0 .. Capacity - 1 |-> Unset]
    /\ head = 0
    /\ tail = 0

-----------------------------------------------------------------------------
(* KernelSemaphore::wait and signal                                        *)

Decrement(s) == semaphoreValue' = [semaphoreValue EXCEPT ![s] = @ - 1]

\* wait that finds a permit.
WaitPasses(s) ==
    /\ semaphoreValue[s] - 1 >= 0
    /\ Decrement(s)
    /\ UNCHANGED blockedThreads

\* wait that blocks thread t, which must then give up the processor.
WaitBlocks(s, t) ==
    /\ semaphoreValue[s] - 1 < 0
    /\ Decrement(s)
    /\ blockedThreads' = [blockedThreads EXCEPT ![s] = Append(@, t)]

\* Mistake: < 0 for <= 0, so the last thread that waits is not released.
SignalBelowZero(s) ==
    /\ semaphoreValue' = [semaphoreValue EXCEPT ![s] = @ + 1]
    /\ \/ /\ semaphoreValue[s] + 1 < 0
          /\ ready' = Enqueue(ready, Head(blockedThreads[s]))
          /\ blockedThreads' = [blockedThreads EXCEPT ![s] = Tail(@)]
       \/ /\ semaphoreValue[s] + 1 >= 0
          /\ UNCHANGED << blockedThreads, ready >>

\* signal: the thread that has waited longest becomes ready.
Signal(s) ==
    /\ semaphoreValue' = [semaphoreValue EXCEPT ![s] = @ + 1]
    /\ \/ /\ semaphoreValue[s] + 1 <= 0
          /\ ready' = Enqueue(ready, Head(blockedThreads[s]))
          /\ blockedThreads' = [blockedThreads EXCEPT ![s] = Tail(@)]
       \/ /\ semaphoreValue[s] + 1 > 0
          /\ UNCHANGED << blockedThreads, ready >>

-----------------------------------------------------------------------------
(* The array                                                               *)

\* buffer[tail] = value; tail = (tail + 1) % capacity
Put(value) ==
    /\ buffer' = [buffer EXCEPT ![tail] = value]
    /\ tail' = (tail + 1) % Capacity
    /\ UNCHANGED head

\* value = buffer[head]; head = (head + 1) % capacity
Fetched == buffer[head]

\* Mistake: the head runs off the end of the array.
FetchWithoutWrap ==
    /\ head' = head + 1
    /\ UNCHANGED << buffer, tail >>

Fetch ==
    /\ head' = (head + 1) % Capacity
    /\ UNCHANGED << buffer, tail >>

\* Mistake: the array is taken not to have wrapped.
NumberOfElementsUnwrapped == tail - head

\* The value getNumberOfElements computes: a full buffer counts as empty.
NumberOfElements ==
    IF tail >= head THEN tail - head ELSE Capacity - head + tail

\* The n elements from head on, in the order they will be fetched.
Elements(n) == [i \in 1 .. n |-> buffer[(head + i - 1) % Capacity]]
=============================================================================
