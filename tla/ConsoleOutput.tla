--------------------------- MODULE ConsoleOutput ---------------------------
(***************************************************************************)
(* The output buffer, the threads that call putc, the output thread and    *)
(* main().  putc runs in a trap, with interrupts off; the output thread    *)
(* and main() run the same kernel code outside a trap, where they can be   *)
(* preempted.  pc[t] is the next statement of thread t.  A thread that     *)
(* blocks goes on with the interrupt state of whoever resumes it, so       *)
(* interrupts may come on inside a trap and stay off outside one.          *)
(***************************************************************************)
EXTENDS KernelBuffer, FiniteSets

CONSTANTS
    Main, UserMain, Output,  \* main(), userMain and the output thread
    MaxOutput                \* bound: calls of putc

ASSUME ConsoleOutputAssumption ==
    /\ {Main, UserMain, Output, Idle} \subseteq Threads
    /\ Cardinality({Main, UserMain, Output, Idle}) = 4
    /\ MaxOutput \in Nat

VARIABLES
    runningThread,
    pc,
    interrupts,    \* "on" or "off", as the processor takes them now
    resumesWith,   \* interrupts when t runs again: "on", "off" or "as is"
    newCharacter,  \* what the output thread has removed and not sent
    txReady,       \* the console can take a character
    elements,      \* the result of getNumberOfElements
    halted,        \* main() has returned
    preempted,     \* the timer has hit the inside of a semaphore operation
    stored, sent   \* history: the characters put into the buffer, and sent

cpuVars == << runningThread, interrupts, resumesWith >>
consoleVars == << newCharacter, txReady, sent >>

vars == << ready, semVars, ringVars, cpuVars, pc, consoleVars, elements,
           halted, preempted, stored >>

Writers == Threads \ {Main, Output, Idle}

\* Mistake: itemAvailable is not signalled.
InsertOrderWithoutItem ==
    [waitSpace |-> "waitTail", waitTail |-> "store", store |-> "signalTail",
     signalTail |-> "user"]

\* KernelBuffer::insertIntoBuffer in the trap of putc, removeFromBuffer in the
\* output thread and getNumberOfElements in main(): each statement with the
\* one that follows it.
InsertOrder ==
    [waitSpace |-> "waitTail", waitTail |-> "store", store |-> "signalTail",
     signalTail |-> "signalItem", signalItem |-> "user"]

RemoveOrder ==
    [waitItem |-> "waitHead", waitHead |-> "fetch", fetch |-> "signalHead",
     signalHead |-> "signalSpace", signalSpace |-> "send"]

\* Mistake: the tail is read without its mutex.
CountOrderWithoutTail ==
    [countWaitHead |-> "count", count |-> "countSignalHead", countSignalHead |-> "counted"]

CountOrder ==
    [countWaitHead |-> "countWaitTail", countWaitTail |-> "count",
     count |-> "countSignalHead", countSignalHead |-> "countSignalTail",
     countSignalTail |-> "counted"]

After ==
    [p \in DOMAIN InsertOrder \cup DOMAIN RemoveOrder \cup DOMAIN CountOrder |->
        CASE p \in DOMAIN InsertOrder -> InsertOrder[p]
          [] p \in DOMAIN RemoveOrder -> RemoveOrder[p]
          [] p \in DOMAIN CountOrder  -> CountOrder[p]]

\* The statements that wait for and that signal a semaphore.
WaitsFor ==
    [waitSpace |-> "spaceAvailable", waitTail |-> "mutexTail",
     waitItem |-> "itemAvailable", waitHead |-> "mutexHead",
     countWaitHead |-> "mutexHead", countWaitTail |-> "mutexTail"]

Signals ==
    [signalTail |-> "mutexTail", signalItem |-> "itemAvailable",
     signalHead |-> "mutexHead", signalSpace |-> "spaceAvailable",
     countSignalHead |-> "mutexHead", countSignalTail |-> "mutexTail"]

\* main() when it enables interrupts, with the buffer already made.
Init ==
    /\ Construct(Main)
    /\ ready = << UserMain, Output >>
    /\ runningThread = Main
    /\ pc = [t \in Threads |-> CASE t = Main                  -> "loop"
                                 [] t = Output                -> "poll"
                                 [] t \in {UserMain, Idle}    -> "user"
                                 [] OTHER                     -> "new"]
    /\ interrupts = "on"
    /\ resumesWith = [t \in Threads |-> "on"]
    /\ newCharacter = << >>
    /\ txReady = TRUE
    /\ elements = 0
    /\ halted = FALSE
    /\ preempted = FALSE
    /\ stored = << >>
    /\ sent = << >>

-----------------------------------------------------------------------------
(* The processor                                                           *)

\* The next thread of q runs.  The old one will run again with interrupts
\* as how says; the switch itself happens with interrupts as they are now.
SwitchTo(q, how, now) ==
    /\ runningThread' = First(q)
    /\ ready' = Rest(q)
    /\ resumesWith' = [resumesWith EXCEPT ![runningThread] = how]
    /\ interrupts' = IF resumesWith'[First(q)] = "as is" THEN now
                     ELSE resumesWith'[First(q)]

\* TCB::dispatch in a trap entered from the running thread: it returns to
\* the interrupt state it was entered with.
Dispatch == SwitchTo(Enqueue(ready, runningThread), interrupts, "off")

\* TCB::suspendCurrentThread, in a trap or outside one.
SuspendCurrentThread == SwitchTo(ready, "as is", interrupts)

Running(t) == ~halted /\ ~preempted /\ runningThread = t

\* The running thread is at statement p and goes on with statement q.
Step(p, q) ==
    /\ Running(runningThread)
    /\ pc[runningThread] = p
    /\ pc' = [pc EXCEPT ![runningThread] = q]

-----------------------------------------------------------------------------
(* The buffer.  A character is named by the thread that puts it.           *)

SemaphoreRest == UNCHANGED << ringVars, consoleVars, elements, halted, preempted, stored >>

WaitSemaphore ==
    /\ \E p \in DOMAIN WaitsFor :
          /\ Step(p, After[p])
          /\ \/ WaitPasses(WaitsFor[p]) /\ UNCHANGED << ready, cpuVars >>
             \/ WaitBlocks(WaitsFor[p], runningThread) /\ SuspendCurrentThread
    /\ SemaphoreRest

\* Mistake: the trap returns with interrupts as they are in it.
InterruptsKept(p) == interrupts

\* The last statement of putc is followed by the return from its trap.
InterruptsAfter(p) == IF After[p] = "user" THEN "on" ELSE interrupts

SignalSemaphore ==
    /\ \E p \in DOMAIN Signals :
          /\ Step(p, After[p])
          /\ Signal(Signals[p])
          /\ interrupts' = InterruptsAfter(p)
    /\ UNCHANGED << runningThread, resumesWith >>
    /\ SemaphoreRest

ArrayRest == UNCHANGED << ready, semVars, cpuVars, txReady, sent, halted, preempted >>

StoreCharacter ==
    /\ Step("store", After["store"])
    /\ Put(runningThread)
    /\ stored' = Append(stored, runningThread)
    /\ UNCHANGED << newCharacter, elements >>
    /\ ArrayRest

FetchCharacter ==
    /\ Step("fetch", After["fetch"])
    /\ newCharacter' = << Fetched >>
    /\ Fetch
    /\ UNCHANGED << elements, stored >>
    /\ ArrayRest

Count ==
    /\ Step("count", After["count"])
    /\ elements' = NumberOfElements
    /\ UNCHANGED << ringVars, newCharacter, stored >>
    /\ ArrayRest

-----------------------------------------------------------------------------
(* The output thread: putcKernelThreadFunction                             *)

OutputRest == UNCHANGED << ready, semVars, ringVars, cpuVars, elements, halted,
                           preempted, stored >>

\* Mistake: the console is not asked whether it can take a character.
PollAlways == Step("poll", "waitItem") /\ UNCHANGED consoleVars /\ OutputRest

\* The console can take a character; otherwise the thread keeps asking.
Poll == txReady /\ Step("poll", "waitItem") /\ UNCHANGED consoleVars /\ OutputRest

\* The console is asked again: a character it cannot take now is dropped.
Send ==
    /\ Step("send", "poll")
    /\ newCharacter' = << >>
    /\ sent' = IF txReady THEN sent \o newCharacter ELSE sent
    /\ txReady' = FALSE
    /\ OutputRest

\* The console hardware has transmitted its character.
ConsoleTransmits ==
    /\ ~txReady
    /\ txReady' = TRUE
    /\ UNCHANGED << pc, newCharacter, sent >>
    /\ OutputRest

-----------------------------------------------------------------------------
(* The loop of main()                                                      *)

LoopRest == UNCHANGED << semVars, ringVars, consoleVars, elements, preempted, stored >>

\* thread_dispatch in the loop.
MainDispatches ==
    /\ Running(Main)
    /\ \/ pc[Main] = "loop" /\ pc[UserMain] # "finished"
       \/ pc[Main] = "counted" /\ elements > 0
    /\ pc' = [pc EXCEPT ![Main] = "loop"]
    /\ Dispatch
    /\ UNCHANGED halted
    /\ LoopRest

\* userMain has finished: getNumberOfElements is called.
MainAsks ==
    /\ pc[UserMain] = "finished"
    /\ Step("loop", "countWaitHead")
    /\ UNCHANGED << ready, cpuVars, halted >>
    /\ LoopRest

MainReturns ==
    /\ Running(Main)
    /\ pc[Main] = "counted" /\ elements = 0
    /\ halted' = TRUE
    /\ UNCHANGED << ready, cpuVars, pc >>
    /\ LoopRest

-----------------------------------------------------------------------------
(* User threads and the timer                                              *)

UserRest == UNCHANGED << semVars, ringVars, consoleVars, elements, halted, preempted, stored >>

PutcCalls ==
    Len(stored) + Cardinality({t \in Writers : pc[t] \in {"waitSpace", "waitTail", "store"}})

\* The trap of putc begins.
Putc ==
    /\ runningThread \in Writers
    /\ PutcCalls < MaxOutput
    /\ Step("user", "waitSpace")
    /\ interrupts' = "off"
    /\ UNCHANGED << ready, runningThread, resumesWith >>
    /\ UserRest

\* thread_create of a thread that will write.
ThreadCreate(t) ==
    /\ Running(runningThread) /\ pc[runningThread] = "user" /\ runningThread # Idle
    /\ pc[t] = "new"
    /\ pc' = [pc EXCEPT ![t] = "user"]
    /\ ready' = Enqueue(ready, t)
    /\ UNCHANGED cpuVars
    /\ UserRest

\* thread_exit
ThreadExit ==
    /\ runningThread # Idle
    /\ Step("user", "finished")
    /\ SwitchTo(ready, "off", "off")
    /\ UserRest

\* thread_dispatch, or a timer interrupt at the end of the time slice: in
\* user code at any time, in kernel code outside a trap or resumed by such
\* code, between two statements.
Preempt ==
    /\ Running(runningThread)
    /\ interrupts = "on"
    /\ Dispatch
    /\ UNCHANGED pc
    /\ UserRest

\* The same interrupt inside a semaphore operation.  What the semaphore and
\* the ready list are then is not modelled: the model ends.
PreemptInside ==
    /\ Running(runningThread)
    /\ interrupts = "on"
    /\ pc[runningThread] \in DOMAIN WaitsFor \cup DOMAIN Signals
    /\ preempted' = TRUE
    /\ UNCHANGED << ready, semVars, ringVars, cpuVars, pc, consoleVars, elements,
                    halted, stored >>

-----------------------------------------------------------------------------

UserCall == Putc \/ ThreadExit \/ \E t \in Threads : ThreadCreate(t)

KernelStep == \/ WaitSemaphore \/ SignalSemaphore
              \/ StoreCharacter \/ FetchCharacter \/ Count
              \/ Poll \/ Send
              \/ MainDispatches \/ MainAsks \/ MainReturns

Next == UserCall \/ KernelStep \/ Preempt \/ PreemptInside \/ ConsoleTransmits

Spec == Init /\ [][Next]_vars

\* The timer is periodic, a thread executes some of its kernel code in its
\* time slices, and the console transmits what it was given.  Nothing is
\* assumed of user code.
FairSpec ==
    /\ Spec
    /\ WF_vars(Preempt)
    /\ \A t \in Threads \ {Idle} : SF_vars(runningThread = t /\ KernelStep)
    /\ WF_vars(ConsoleTransmits)

-----------------------------------------------------------------------------
(* Properties                                                              *)

TypeOK ==
    /\ runningThread \in Threads
    /\ ready \in Seq(Threads)
    /\ DOMAIN pc = Threads
    /\ interrupts \in {"on", "off"}
    /\ resumesWith \in [Threads -> {"on", "off", "as is"}]
    /\ semaphoreValue \in [BufferSemaphores -> Int]
    /\ blockedThreads \in [BufferSemaphores -> Seq(Threads)]
    /\ buffer \in [0 .. Capacity - 1 -> Threads]
    /\ head \in 0 .. Capacity - 1 /\ tail \in 0 .. Capacity - 1
    /\ newCharacter \in {<< >>} \cup {<< t >> : t \in Threads}
    /\ elements \in 0 .. Capacity
    /\ stored \in Seq(Writers) /\ sent \in Seq(Writers)
    /\ {txReady, halted, preempted} \subseteq BOOLEAN

\* How many characters are in the array.
Buffered == Len(stored) - Len(sent) - Len(newCharacter)

\* No character is lost, doubled, overwritten or overtaken: what was put is
\* what was sent, then the character in the output thread's hand, then the
\* array from head on (KernelBuffer.cpp:65-87, KernelThreadFunctions.cpp).
OutputIsInOrder ==
    /\ Buffered \in 0 .. Capacity
    /\ stored = sent \o newCharacter \o Elements(Buffered)
    /\ tail = (head + Buffered) % Capacity

Number(statements) == Cardinality({t \in Threads : pc[t] \in statements})

\* The permits of the two counting semaphores are the free and the filled
\* places of the array, but for the threads between a wait or a signal and
\* the access it goes with (KernelBuffer.cpp:65-87).
PermitsMatchBuffer ==
    /\ semaphoreValue["spaceAvailable"] =
          Capacity - Buffered - Number({"waitTail", "store"})
                              - Number({"signalHead", "signalSpace"})
    /\ semaphoreValue["itemAvailable"] =
          Buffered - Number({"waitHead", "fetch"}) - Number({"signalTail", "signalItem"})
    /\ \A s \in BufferSemaphores :
          Len(blockedThreads[s]) =
              IF semaphoreValue[s] < 0 THEN -semaphoreValue[s] ELSE 0

\* While main() reads head and tail nobody moves them, so the number it gets
\* is that of the characters in the array, a full array counting as empty
\* (KernelBuffer.cpp:89-104).
CountIsExact == pc[Main] = "countSignalHead" => elements = Buffered % Capacity

\* Every character put into the buffer is sent, unless main() returns first.
OutputDrains ==
    \A i \in 1 .. MaxOutput :
        Len(stored) >= i ~> Len(sent) >= i \/ halted \/ preempted

\* Interrupts that a resumed thread keeps off come on again (TCB.cpp:140-144).
InterruptsComeBack == []<>(interrupts = "on" \/ halted \/ preempted)
=============================================================================
