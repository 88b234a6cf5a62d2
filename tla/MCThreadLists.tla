---------------------------- MODULE MCThreadLists ----------------------------
(***************************************************************************)
(* The two lists of threads side by side: a thread that is in neither is   *)
(* put into the ready list or goes to sleep, and one that is woken or      *)
(* handed out is in neither until it is put or sleeps again.               *)
(***************************************************************************)
EXTENDS SchedulerQueue, SleepTimer

CONSTANTS t1, t2, t3, t4

MCThreads == {t1, t2, t3, t4}

MCTCBs == MCThreads \cup {Idle}

listsVars == << qvars, vars >>

ListsNext ==
    \/ \E t \in TCBs \cup {Null} : ~Sleeping(t) /\ QPut(t) /\ UNCHANGED vars
    \/ QGet /\ UNCHANGED vars
    \/ \E t \in Threads, time \in 1 .. MaxSleep :
          ~IsLinked(t) /\ TimeSleep(t, time) /\ UNCHANGED qvars
    \/ Tick /\ UNCHANGED qvars

ListsInit == QInit /\ Init

ListsSpec == ListsInit /\ [][ListsNext]_listsVars /\ WF_vars(Tick)
=============================================================================
