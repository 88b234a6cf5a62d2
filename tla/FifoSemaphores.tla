--------------------------- MODULE FifoSemaphores ---------------------------
(***************************************************************************)
(* What semaphores promise from sem_open to sem_close: one starts with the *)
(* permits asked for, wait takes a permit or queues the thread, signal     *)
(* hands a permit to the thread that has queued longest or keeps it, and   *)
(* closing releases everyone that waits.  A step uses one semaphore.       *)
(***************************************************************************)
EXTENDS Naturals, Sequences

CONSTANTS Threads, Semaphores, InitialValues

VARIABLES open,     \* the semaphores between sem_open and sem_close
          permits, waiters

vars == << open, permits, waiters >>

Init ==
    /\ open = {}
    /\ permits = [s \in Semaphores |-> 0]
    /\ waiters = [s \in Semaphores |-> << >>]

Open(s, init) ==
    /\ s \notin open
    /\ open' = open \cup {s}
    /\ permits' = [permits EXCEPT ![s] = init]
    /\ UNCHANGED waiters

Acquire(s) ==
    /\ s \in open /\ permits[s] > 0
    /\ permits' = [permits EXCEPT ![s] = @ - 1]
    /\ UNCHANGED << open, waiters >>

Enter(s, t) ==
    /\ s \in open /\ permits[s] = 0
    /\ waiters' = [waiters EXCEPT ![s] = Append(@, t)]
    /\ UNCHANGED << open, permits >>

HandOver(s) ==
    /\ s \in open /\ waiters[s] # << >>
    /\ waiters' = [waiters EXCEPT ![s] = Tail(@)]
    /\ UNCHANGED << open, permits >>

Keep(s) ==
    /\ s \in open /\ waiters[s] = << >>
    /\ permits' = [permits EXCEPT ![s] = @ + 1]
    /\ UNCHANGED << open, waiters >>

Close(s) ==
    /\ s \in open
    /\ open' = open \ {s}
    /\ permits' = [permits EXCEPT ![s] = 0]
    /\ waiters' = [waiters EXCEPT ![s] = << >>]

Next == \E s \in Semaphores :
    \/ \E init \in InitialValues : Open(s, init)
    \/ \E t \in Threads : Enter(s, t)
    \/ Acquire(s) \/ HandOver(s) \/ Keep(s) \/ Close(s)

Spec == Init /\ [][Next]_vars
=============================================================================
