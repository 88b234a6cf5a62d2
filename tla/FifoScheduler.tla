---------------------------- MODULE FifoScheduler ----------------------------
(***************************************************************************)
(* What the scheduler promises: once the idle thread is in, get hands out  *)
(* the other ready threads in the order put received them, and the idle    *)
(* thread when there is none.                                              *)
(***************************************************************************)
CONSTANTS Threads, Idle, Null

VARIABLES booted,   \* the idle thread has been put
          queue,    \* the ready threads, the idle thread aside
          got       \* what the last get returned

INSTANCE ReadyQueue

vars == << booted, queue, got >>

Init == booted = FALSE /\ queue = << >> /\ got = Null

Boot == ~booted /\ booted' = TRUE /\ UNCHANGED << queue, got >>

Put(t) == booted /\ queue' = Enqueue(queue, t) /\ UNCHANGED << booted, got >>

Get == booted /\ got' = First(queue) /\ queue' = Rest(queue) /\ UNCHANGED booted

\* get before the idle thread is in
GetNothing == ~booted /\ got' = Null /\ UNCHANGED << booted, queue >>

Next == Boot \/ (\E t \in Threads : Put(t)) \/ Get \/ GetNothing

Spec == Init /\ [][Next]_vars
=============================================================================
