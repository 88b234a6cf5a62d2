-------------------------------- MODULE Traps --------------------------------
(***************************************************************************)
(* Entry to and return from traps, with the registers that decide where a  *)
(* return goes: sepc and the bits SPP, SPIE and SIE of sstatus.  There is  *)
(* one set of them for all threads, and a trap may switch threads, so each *)
(* trap must put back what it found.  frames[t] holds the traps thread t   *)
(* is in, the innermost last, with the local variables sepc and sstatus of *)
(* handleSupervisorTrap.  The traps served are those of the console, of    *)
(* the timer and of the calls that switch threads in each way there is;    *)
(* the input buffer is a KernelBuffer, its operations modelled statement   *)
(* by statement, since a trap that was resumed with interrupts on can be   *)
(* interrupted between them.                                               *)
(***************************************************************************)
EXTENDS KernelBuffer, FiniteSets

CONSTANTS
    Main, UserMain, Output,  \* main(), userMain and the output thread
    MaxTyped,                \* bound: characters typed
    MaxPending,              \* bound: characters for the output thread
    MaxNesting               \* bound: traps of a thread inside one another

ASSUME TrapsAssumption ==
    /\ {Main, UserMain, Output, Idle} \subseteq Threads
    /\ Cardinality({Main, UserMain, Output, Idle}) = 4
    /\ {MaxTyped, MaxPending} \subseteq Nat /\ MaxNesting \in Nat \ {0}

VARIABLES
    runningThread,
    mode, SIE,           \* the processor: "user" or "supervisor", interrupts
    sepc, SPP, SPIE,     \* where, in which mode and with what SIE sret returns
    frames,
    stage,               \* "new", "wrapper", "entry" or "body", per thread
    outputItems,         \* itemAvailable of the output buffer
    outputWaits,         \* the output thread waits for it
    uart,                \* characters the console has not been asked for yet
    astray,              \* a trap has returned to the wrong place
    preempted,           \* an interrupt has hit the inside of a semaphore operation
    typed, received      \* history: characters typed, and taken by getc

csrVars == << sepc, SPP, SPIE >>
cpuVars == << mode, SIE, csrVars >>
outputVars == << outputItems, outputWaits >>
inputVars == << semVars, ringVars, uart, typed, received >>

vars == << ready, runningThread, cpuVars, frames, stage, outputVars, inputVars,
           astray, preempted >>

\* Where a thread is: in its own code (0) or in its n-th trap.
Place(t, n) == << t, n >>

Depth == Len(frames[runningThread])
Here == Place(runningThread, Depth)
Top == frames[runningThread][Depth]

\* A thread that has not run yet starts as if it returned from a trap:
\* exitSupervisorTrap writes sepc, but not sstatus, and executes sret.
StartFrame(t) == [kind |-> "start", phase |-> "restore", sepc |-> Place(t, 0),
                  SPP |-> "user", SPIE |-> TRUE, input |-> << >>, disturbed |-> FALSE]

\* main() has just enabled interrupts.
Init ==
    /\ Construct(0)
    /\ ready = << UserMain, Output >>
    /\ runningThread = Main
    /\ mode = "supervisor" /\ SIE = TRUE
    /\ sepc = Place(Main, 0) /\ SPP = "supervisor" /\ SPIE = FALSE
    /\ frames = [t \in Threads |-> IF t = Main THEN << >> ELSE << StartFrame(t) >>]
    /\ stage = [t \in Threads |-> IF t = Main THEN "body"
                                  ELSE IF t \in {UserMain, Output, Idle} THEN "wrapper"
                                  ELSE "new"]
    /\ outputItems = 0 /\ outputWaits = FALSE
    /\ uart = << >>
    /\ astray = FALSE /\ preempted = FALSE
    /\ typed = << >> /\ received = << >>

-----------------------------------------------------------------------------
(* Statements of the input buffer                                          *)

\* Mistake: removeFromBuffer does not wait for mutexHead.
AfterWithoutMutex ==
    [waitItem    |-> "fetch",       waitHead   |-> "fetch",
     fetch       |-> "signalHead",  signalHead |-> "signalSpace",
     signalSpace |-> "restore",
     waitSpace   |-> "waitTail",    waitTail   |-> "store",
     store       |-> "signalTail",  signalTail |-> "signalItem",
     signalItem  |-> "run"]

\* Mistake: insertIntoBuffer signals itemAvailable before it stores.
AfterSignalFirst ==
    [waitItem    |-> "waitHead",    waitHead   |-> "fetch",
     fetch       |-> "signalHead",  signalHead |-> "signalSpace",
     signalSpace |-> "restore",
     waitSpace   |-> "waitTail",    waitTail   |-> "signalItem",
     signalItem  |-> "store",       store      |-> "signalTail",
     signalTail  |-> "run"]

\* KernelBuffer::removeFromBuffer in the trap of getc, then insertIntoBuffer
\* in the console interrupt of whatever thread runs: each statement with the
\* phase that follows it.
After ==
    [waitItem    |-> "waitHead",    waitHead   |-> "fetch",
     fetch       |-> "signalHead",  signalHead |-> "signalSpace",
     signalSpace |-> "restore",
     waitSpace   |-> "waitTail",    waitTail   |-> "store",
     store       |-> "signalTail",  signalTail |-> "signalItem",
     signalItem  |-> "run"]

\* The statements that wait for and that signal a semaphore.
WaitsFor ==
    [waitItem  |-> "itemAvailable",  waitHead |-> "mutexHead",
     waitSpace |-> "spaceAvailable", waitTail |-> "mutexTail"]

Signals ==
    [signalHead |-> "mutexHead", signalSpace |-> "spaceAvailable",
     signalTail |-> "mutexTail", signalItem  |-> "itemAvailable"]

-----------------------------------------------------------------------------
(* Entry                                                                   *)

\* Mistake: the two calls that change SPP restore sstatus too.
SavesStatusAlways == {"dispatch", "sleep", "getc", "putc", "create", "slice",
                      "to user", "to supervisor"}

SavesStatus == {"dispatch", "sleep", "getc", "putc", "create", "slice"}
SavesSepc == SavesStatus \cup {"to user", "to supervisor"}

\* The frame of a trap that begins.
NewFrame(kind) ==
    [kind |-> kind, phase |-> IF kind = "getc" THEN "waitItem" ELSE "run", sepc |-> Here,
     SPP |-> mode, SPIE |-> SIE, input |-> << >>, disturbed |-> FALSE]

\* The processor enters supervisorTrap; a system call and a timer interrupt
\* that ends a time slice copy sepc and sstatus.  If the trap interrupted
\* another one that had its sepc ready for sret, that is lost.
Trap(kind) ==
    /\ ~astray /\ ~preempted
    /\ Depth < MaxNesting
    /\ sepc' = Here /\ SPP' = mode /\ SPIE' = SIE
    /\ mode' = "supervisor" /\ SIE' = FALSE
    /\ LET interrupted ==
               IF Depth > 0 /\ Top.phase \in {"status", "sret"}
               THEN [frames[runningThread] EXCEPT ![Depth].disturbed = TRUE]
               ELSE frames[runningThread]
       IN  frames' = [frames EXCEPT ![runningThread] = Append(interrupted, NewFrame(kind))]
    /\ UNCHANGED << ready, runningThread, stage, outputVars, inputVars, astray, preempted >>

InOwnCode(s) == Depth = 0 /\ stage[runningThread] = s

\* The calls a thread makes: a new thread first leaves supervisor mode,
\* main() only dispatches, the output and the idle thread make none.
Ecall ==
    \/ InOwnCode("wrapper") /\ Trap("to user")
    \/ InOwnCode("entry") /\ Trap("to supervisor")
    \/ InOwnCode("body") /\ runningThread = Main /\ Trap("dispatch")
    \/ /\ InOwnCode("body") /\ runningThread \notin {Main, Output, Idle}
       /\ \/ Trap("dispatch") \/ Trap("sleep") \/ Trap("getc")
          \/ outputItems < MaxPending /\ Trap("putc")
          \/ (\E t \in Threads : stage[t] = "new") /\ Trap("create")

\* Between plic_claim and plic_complete the interrupt controller raises no
\* other interrupt of the console, whichever thread runs.
InService ==
    \E t \in Threads : \E i \in 1 .. Len(frames[t]) :
        frames[t][i].kind = "console" /\ frames[t][i].phase # "sret"

\* Interrupts are taken in user mode always, in supervisor mode if SIE is set.
Interrupt ==
    /\ mode = "user" \/ SIE
    /\ \/ \E kind \in {"tick", "slice"} : Trap(kind)
       \/ uart # << >> /\ ~InService /\ Trap("console")

\* An interrupt inside wait or signal, in a trap that was resumed with
\* interrupts on or in the output thread.  What the semaphore and the ready
\* list are then is not modelled: the model ends.
InterruptInside ==
    /\ ~astray /\ ~preempted
    /\ SIE
    /\ \/ Depth > 0 /\ Top.phase \in DOMAIN WaitsFor \cup DOMAIN Signals
       \/ runningThread = Output /\ InOwnCode("body")
    /\ preempted' = TRUE
    /\ UNCHANGED << ready, runningThread, cpuVars, frames, stage, outputVars, inputVars, astray >>

-----------------------------------------------------------------------------
(* The handler                                                             *)

At(kinds, phase) ==
    /\ ~astray /\ ~preempted
    /\ Depth > 0
    /\ Top.kind \in kinds /\ Top.phase = phase

GoTo(phase) == frames' = [frames EXCEPT ![runningThread][Depth].phase = phase]

SwitchTo(q) == runningThread' = First(q) /\ ready' = Rest(q)

SuspendCurrentThread == SwitchTo(ready)

\* thread_dispatch
HandleDispatch ==
    /\ At({"dispatch"}, "run")
    /\ GoTo("restore")
    /\ SwitchTo(Enqueue(ready, runningThread))
    /\ UNCHANGED << cpuVars, stage, outputVars, inputVars, astray, preempted >>

\* time_sleep
HandleSleep ==
    /\ At({"sleep"}, "run")
    /\ GoTo("restore")
    /\ SuspendCurrentThread
    /\ UNCHANGED << cpuVars, stage, outputVars, inputVars, astray, preempted >>

Asleep == {t \in Threads : /\ t # runningThread /\ \A i \in 1 .. Len(ready) : ready[i] # t
                           /\ frames[t] # << >> /\ frames[t][Len(frames[t])].kind = "sleep"}

\* Mistake: sepc and sstatus are not put back at the end of a time slice.
HandleTimerForgets ==
    /\ At({"tick", "slice"}, "run")
    /\ GoTo("sret")
    /\ \E q \in {ready} \cup {Enqueue(ready, t) : t \in Asleep} :
          IF Top.kind = "tick" THEN ready' = q /\ UNCHANGED runningThread
          ELSE SwitchTo(Enqueue(q, runningThread))
    /\ UNCHANGED << cpuVars, stage, outputVars, inputVars, astray, preempted >>

\* The timer interrupt: it may wake a thread; within a time slice it saves
\* nothing, at the end of one it switches threads.
HandleTimer ==
    /\ At({"tick", "slice"}, "run")
    /\ \E q \in {ready} \cup {Enqueue(ready, t) : t \in Asleep} :
          \/ Top.kind = "tick" /\ GoTo("sret") /\ ready' = q /\ UNCHANGED runningThread
          \/ Top.kind = "slice" /\ GoTo("restore") /\ SwitchTo(Enqueue(q, runningThread))
    /\ UNCHANGED << cpuVars, stage, outputVars, inputVars, astray, preempted >>

\* thread_create
HandleCreate ==
    /\ At({"create"}, "run")
    /\ GoTo("restore")
    /\ \E t \in Threads :
          /\ stage[t] = "new"
          /\ stage' = [stage EXCEPT ![t] = "wrapper"]
          /\ ready' = Enqueue(ready, t)
    /\ UNCHANGED << runningThread, cpuVars, outputVars, inputVars, astray, preempted >>

\* switchSupervisorToUser and switchUserToSupervisor change SPP.
HandleSwitchMode ==
    /\ At({"to user", "to supervisor"}, "run")
    /\ GoTo("restore")
    /\ SPP' = IF Top.kind = "to user" THEN "user" ELSE "supervisor"
    /\ UNCHANGED << ready, runningThread, mode, SIE, sepc, SPIE, stage,
                    outputVars, inputVars, astray, preempted >>

\* putc releases the output thread if it waits; that the output buffer may
\* be full is left to ConsoleOutput.
HandlePutc ==
    /\ At({"putc"}, "run")
    /\ GoTo("restore")
    /\ outputItems' = outputItems + 1
    /\ outputWaits' = FALSE
    /\ ready' = IF outputWaits THEN Enqueue(ready, Output) ELSE ready
    /\ UNCHANGED << runningThread, cpuVars, stage, inputVars, astray, preempted >>

\* The output thread takes a character or suspends itself, outside any
\* trap, so whatever trap it resumes goes on with SIE as it is here.
OutputRemoves ==
    /\ ~astray /\ ~preempted /\ runningThread = Output /\ InOwnCode("body")
    /\ outputItems' = outputItems - 1
    /\ \/ outputItems > 0 /\ UNCHANGED << outputWaits, ready, runningThread >>
       \/ outputItems <= 0 /\ outputWaits' = TRUE /\ SuspendCurrentThread
    /\ UNCHANGED << cpuVars, frames, stage, inputVars, astray, preempted >>

-----------------------------------------------------------------------------
(* The input buffer                                                        *)

InputRest == UNCHANGED << cpuVars, stage, outputVars, astray, preempted >>

AtStatement(statements) ==
    /\ ~astray /\ ~preempted
    /\ Depth > 0
    /\ Top.kind \in {"getc", "console"} /\ Top.phase \in statements

\* A wait that blocks suspends the thread; with the buffer full that is the
\* one the console has interrupted, whatever it was doing.
WaitSemaphore ==
    /\ AtStatement(DOMAIN WaitsFor)
    /\ \/ WaitPasses(WaitsFor[Top.phase]) /\ UNCHANGED << ready, runningThread >>
       \/ WaitBlocks(WaitsFor[Top.phase], runningThread) /\ SuspendCurrentThread
    /\ frames' = [frames EXCEPT ![runningThread][Depth] =
                     [Top EXCEPT !.phase = After[Top.phase],
                                 !.disturbed = @ \/ (Top.kind = "console"
                                                    /\ runningThread' # runningThread)]]
    /\ UNCHANGED << ringVars, uart, typed, received >>
    /\ InputRest

SignalSemaphore ==
    /\ AtStatement(DOMAIN Signals)
    /\ Signal(Signals[Top.phase])
    /\ GoTo(After[Top.phase])
    /\ UNCHANGED << runningThread, ringVars, uart, typed, received >>
    /\ InputRest

FetchCharacter ==
    /\ AtStatement({"fetch"})
    /\ received' = Append(received, Fetched)
    /\ Fetch
    /\ GoTo(After["fetch"])
    /\ UNCHANGED << ready, runningThread, semVars, uart, typed >>
    /\ InputRest

StoreCharacter ==
    /\ AtStatement({"store"})
    /\ Put(Top.input[1])
    /\ frames' = [frames EXCEPT ![runningThread][Depth] =
                     [Top EXCEPT !.phase = After["store"], !.input = << >>]]
    /\ UNCHANGED << ready, runningThread, semVars, uart, typed, received >>
    /\ InputRest

\* One round of the loop of the console interrupt.
ConsoleReads ==
    /\ At({"console"}, "run")
    /\ uart # << >>
    /\ uart' = Tail(uart)
    /\ frames' = [frames EXCEPT ![runningThread][Depth] =
                     [Top EXCEPT !.phase = "waitSpace", !.input = << Head(uart) >>]]
    /\ UNCHANGED << ready, runningThread, semVars, ringVars, typed, received >>
    /\ InputRest

\* No character is left: the interrupt is complete.
ConsoleCompletes ==
    /\ At({"console"}, "run")
    /\ uart = << >>
    /\ GoTo("sret")
    /\ UNCHANGED << ready, runningThread, inputVars >>
    /\ InputRest

\* A character arrives at the console.
Type ==
    /\ Len(typed) < MaxTyped
    /\ typed' = Append(typed, Len(typed) + 1)
    /\ uart' = Append(uart, Len(typed) + 1)
    /\ UNCHANGED << ready, runningThread, cpuVars, frames, stage, outputVars,
                    semVars, ringVars, received, astray, preempted >>

-----------------------------------------------------------------------------
(* Return                                                                  *)

\* writeSepc
RestoreSepc ==
    /\ At(SavesSepc \cup {"start"}, "restore")
    /\ sepc' = Top.sepc
    /\ GoTo(IF Top.kind \in SavesStatus THEN "status" ELSE "sret")
    /\ UNCHANGED << ready, runningThread, mode, SIE, SPP, SPIE, stage,
                    outputVars, inputVars, astray, preempted >>

\* writeSstatus: as it was after the entry, when interrupts were off.
RestoreStatus ==
    /\ At(SavesStatus, "status")
    /\ SPP' = Top.SPP /\ SPIE' = Top.SPIE /\ SIE' = FALSE
    /\ GoTo("sret")
    /\ UNCHANGED << ready, runningThread, mode, sepc, stage, outputVars, inputVars, astray, preempted >>

\* What a thread does next when it is back in its own code.
StageAfter(t, kind) ==
    CASE kind = "to user"       -> IF t = Output THEN "entry" ELSE "body"
      [] kind = "to supervisor" -> "body"
      [] OTHER                  -> stage[t]

\* sret goes to sepc in the mode of SPP, with SIE as SPIE.  If that is not
\* where the thread was, the model ends.
Sret ==
    /\ ~astray /\ ~preempted /\ Depth > 0 /\ Top.phase = "sret"
    /\ mode' = SPP /\ SIE' = SPIE
    /\ SPP' = "user" /\ SPIE' = TRUE
    /\ \/ /\ sepc = Place(runningThread, Depth - 1)
          /\ frames' = [frames EXCEPT ![runningThread] = SubSeq(@, 1, Depth - 1)]
          /\ stage' = [stage EXCEPT ![runningThread] = StageAfter(runningThread, Top.kind)]
          /\ UNCHANGED astray
       \/ /\ sepc # Place(runningThread, Depth - 1)
          /\ astray' = TRUE
          /\ UNCHANGED << frames, stage >>
    /\ UNCHANGED << ready, runningThread, sepc, outputVars, inputVars, preempted >>

-----------------------------------------------------------------------------

Handle == \/ HandleDispatch \/ HandleSleep \/ HandleTimer \/ HandleCreate
          \/ HandleSwitchMode \/ HandlePutc
          \/ WaitSemaphore \/ SignalSemaphore \/ FetchCharacter
          \/ StoreCharacter \/ ConsoleReads \/ ConsoleCompletes

Return == RestoreSepc \/ RestoreStatus \/ Sret

Next == Ecall \/ Interrupt \/ InterruptInside \/ Handle \/ Return \/ OutputRemoves \/ Type

Spec == Init /\ [][Next]_vars

-----------------------------------------------------------------------------
(* Properties                                                              *)

TypeOK ==
    /\ runningThread \in Threads /\ ready \in Seq(Threads)
    /\ mode \in {"user", "supervisor"} /\ SPP \in {"user", "supervisor"}
    /\ {SIE, SPIE, outputWaits, preempted} \subseteq BOOLEAN
    /\ \A t \in Threads : Len(frames[t]) <= MaxNesting
    /\ stage \in [Threads -> {"new", "wrapper", "entry", "body"}]
    /\ head \in 0 .. Capacity - 1 /\ tail \in 0 .. Capacity - 1

\* Every trap returns to the place it was entered from, however many thread
\* switches lie between, with two exceptions: a console interrupt that was
\* suspended, and a trap that was interrupted itself after it had written
\* sepc (Riscv.cpp:31-32, 219-222, 243-249, 252-270).
OnlyDisturbedReturnsGoAstray == astray => Top.disturbed

BodyMode(t) == IF t \in {Main, Output} THEN "supervisor" ELSE "user"

\* Kernel code runs in supervisor mode, and the body of a thread in the mode
\* its first calls chose, whichever trap the thread was resumed from
\* (TCB.cpp:146-148, KernelThreadFunctions.cpp:5).
ModeIsRight ==
    ~astray => IF Depth > 0 THEN mode = "supervisor"
               ELSE stage[runningThread] = "body" => mode = BodyMode(runningThread)

\* The character that a console interrupt has taken and not yet stored.
InHand ==
    LET holding == {t \in Threads : \E i \in 1 .. Len(frames[t]) : frames[t][i].input # << >>}
    IN  IF holding = {} THEN << >>
        ELSE LET t == CHOOSE t \in holding : TRUE
                 i == CHOOSE i \in 1 .. Len(frames[t]) : frames[t][i].input # << >>
             IN  frames[t][i].input

Buffered == Len(typed) - Len(received) - Len(InHand) - Len(uart)

\* No character typed is lost, doubled or overtaken, although a full buffer
\* suspends the interrupt that brings the next one: what was typed is what
\* getc has returned, then the buffer, then that character, then those the
\* console still has (KernelBuffer.cpp:65-87, Riscv.cpp:256-268).
InputIsInOrder ==
    /\ Buffered \in 0 .. Capacity
    /\ typed = received \o Elements(Buffered) \o InHand \o uart
    /\ tail = (head + Buffered) % Capacity

\* The threads that have passed the wait of a mutex and have not signalled it:
\* a trap of theirs is in one of the phases, and they are not in its list.
Inside(mutex, phases) ==
    {t \in Threads : /\ \E i \in 1 .. Len(frames[t]) : frames[t][i].phase \in phases
                     /\ \A j \in 1 .. Len(blockedThreads[mutex]) : blockedThreads[mutex][j] # t}

\* Although a trap resumed with interrupts on is interrupted between the
\* statements, one thread at a time works on the head of the buffer, and one
\* on the tail.  So the element and the cursor, which change together in
\* FetchCharacter and StoreCharacter, have one user (KernelBuffer.cpp:68-71,
\* 79-82).
MutexesExclude ==
    /\ \A t, u \in Inside("mutexHead", {"fetch", "signalHead"}) : t = u
    /\ \A t, u \in Inside("mutexTail", {"store", "signalTail"}) : t = u
=============================================================================
