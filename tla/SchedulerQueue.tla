--------------------------- MODULE SchedulerQueue ---------------------------
(***************************************************************************)
(* The linked list of Scheduler.tla together with the queue it stands for: *)
(* a history variable that records the puts and gets and nothing else.     *)
(* The list must always spell that queue (Linked), and with the queue as   *)
(* the mapping the list implements FifoScheduler.                          *)
(***************************************************************************)
EXTENDS Scheduler, Sequences

VARIABLE queue

INSTANCE ReadyQueue

QInit == ListInit /\ queue = << >>

QPut(t) ==
    /\ Put(t)
    /\ queue' = IF IsEmpty \/ t = Null THEN queue ELSE Enqueue(queue, t)

QGet ==
    /\ Get
    /\ queue' = Rest(queue)

QNext == (\E t \in TCBs \cup {Null} : QPut(t)) \/ QGet

qvars == << schedulerVars, queue >>

QSpec == QInit /\ [][QNext]_qvars

-----------------------------------------------------------------------------
(* Properties                                                              *)

Chain == Append(queue, Idle)

EmptyList ==
    /\ schedulerHead = Null
    /\ schedulerTail = Null
    /\ queue = << >>
    /\ schedulerNextThread = [t \in TCBs |-> Null]
    /\ schedulerPrevThread = [t \in TCBs |-> Null]

\* The list spells the queue followed by the idle thread, in both
\* directions, and the threads outside it keep no stale link.
SpelledBy(c) ==
    LET n == Len(c) IN
    /\ schedulerHead = c[1]
    /\ schedulerTail = Idle
    /\ \A i, j \in 1 .. n : c[i] = c[j] => i = j
    /\ \A i \in 1 .. n : schedulerNextThread[c[i]] = IF i = n THEN Null ELSE c[i + 1]
    /\ \A i \in 1 .. n : schedulerPrevThread[c[i]] = IF i = 1 THEN Null ELSE c[i - 1]
    /\ \A t \in TCBs : (\A i \in 1 .. n : c[i] # t) =>
           schedulerNextThread[t] = Null /\ schedulerPrevThread[t] = Null

\* The ready list is a well formed doubly linked list: it holds exactly the
\* threads put and not yet handed out, each once, in order, ends with the
\* idle thread, and leaves no dangling pointer in a thread outside it
\* (SchedulerListManagement.cpp).
Linked == EmptyList \/ SpelledBy(Chain)

Abstract == INSTANCE FifoScheduler WITH Threads <- TCBs, booted <- schedulerHead # Null

\* The pointers implement a FIFO queue of ready threads: get returns the
\* thread that has waited longest, and the idle thread only when no other
\* thread is ready (Scheduler.cpp:21-30).
ImplementsFifo == Abstract!Spec
=============================================================================
