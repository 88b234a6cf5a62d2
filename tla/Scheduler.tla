------------------------------ MODULE Scheduler ------------------------------
(***************************************************************************)
(* The ready list of Scheduler.cpp and SchedulerListManagement.cpp: a      *)
(* doubly linked list threaded through the TCBs, whose last element is     *)
(* the idle thread.  Every operation runs inside a trap, so it is one      *)
(* step.                                                                   *)
(***************************************************************************)
EXTENDS Naturals

CONSTANTS TCBs,  \* every TCB, the idle thread included
          Idle,  \* the TCB whose body is idleFunction
          Null   \* nullptr

ASSUME SchedulerAssumption == Idle \in TCBs /\ Null \notin TCBs

VARIABLES schedulerHead, schedulerTail,
          schedulerNextThread, schedulerPrevThread,
          got       \* what the last get returned

listVars == << schedulerHead, schedulerTail,
               schedulerNextThread, schedulerPrevThread >>

ListInit ==
    /\ schedulerHead = Null
    /\ schedulerTail = Null
    /\ schedulerNextThread = [t \in TCBs |-> Null]
    /\ schedulerPrevThread = [t \in TCBs |-> Null]
    /\ got = Null

IsEmpty == schedulerHead = Null \/ schedulerTail = Null

\* The thread is in the list: it is the head, or a thread precedes it.
IsLinked(t) == t = schedulerHead \/ schedulerPrevThread[t] # Null

\* The callers of put: the boot code puts the idle thread first, and
\* everyone else puts a thread it has just taken out of another list, has
\* just created, or that is running; none of these is in the ready list.
MayPut(t) == IF IsEmpty THEN t = Idle ELSE t = Idle \/ ~IsLinked(t)

\* The first insertion into the empty list.
InsertFirst(t) ==
    /\ IsEmpty
    /\ schedulerHead' = t
    /\ schedulerTail' = t
    /\ UNCHANGED << schedulerNextThread, schedulerPrevThread >>

\* Mistake: the thread put last is handed out first.
InsertAtHead(t) ==
    /\ ~IsEmpty
    /\ t # Idle
    /\ schedulerHead' = t
    /\ schedulerNextThread' = [schedulerNextThread EXCEPT ![t] = schedulerHead]
    /\ schedulerPrevThread' = [schedulerPrevThread EXCEPT ![schedulerHead] = t]
    /\ UNCHANGED schedulerTail

\* Any later insertion: just before the tail.
InsertBeforeTail(t) ==
    LET before == schedulerPrevThread[schedulerTail] IN
    /\ ~IsEmpty
    /\ t # Idle
    /\ schedulerNextThread' =
         [u \in TCBs |-> IF u = before THEN t
                         ELSE IF u = t THEN schedulerTail
                         ELSE schedulerNextThread[u]]
    /\ schedulerPrevThread' =
         [schedulerPrevThread EXCEPT ![t] = before, ![schedulerTail] = t]
    /\ schedulerHead' = IF before = Null THEN t ELSE schedulerHead
    /\ UNCHANGED schedulerTail

\* put(tcb); a null tcb and a second idle thread are ignored.
Put(t) ==
    /\ \/ t = Null /\ UNCHANGED listVars
       \/ t # Null /\ MayPut(t) /\ InsertFirst(t)
       \/ t # Null /\ MayPut(t) /\ InsertBeforeTail(t)
       \/ t = Idle /\ ~IsEmpty /\ UNCHANGED listVars
    /\ UNCHANGED got

\* Mistake: the thread handed out keeps its link into the list, and the new
\* head its link to that thread.
GetKeepingLinks ==
    /\ ~IsEmpty
    /\ got' = schedulerHead
    /\ schedulerHead' = IF schedulerHead = schedulerTail THEN schedulerHead
                        ELSE schedulerNextThread[schedulerHead]
    /\ UNCHANGED << schedulerTail, schedulerNextThread, schedulerPrevThread >>

\* get(): the head; alone in the list, the idle thread is handed out and
\* stays in the list.
Get ==
    \/ /\ IsEmpty
       /\ got' = Null
       /\ UNCHANGED listVars
    \/ /\ ~IsEmpty
       /\ schedulerHead = schedulerTail
       /\ got' = schedulerHead
       /\ UNCHANGED listVars
    \/ LET next == schedulerNextThread[schedulerHead] IN
       /\ ~IsEmpty
       /\ schedulerHead # schedulerTail
       /\ got' = schedulerHead
       /\ schedulerHead' = next
       /\ schedulerPrevThread' = [schedulerPrevThread EXCEPT ![next] = Null]
       /\ schedulerNextThread' =
            [schedulerNextThread EXCEPT ![schedulerHead] = Null]
       /\ UNCHANGED schedulerTail

ListNext == (\E t \in TCBs \cup {Null} : Put(t)) \/ Get

schedulerVars == << listVars, got >>

ListSpec == ListInit /\ [][ListNext]_schedulerVars
=============================================================================
