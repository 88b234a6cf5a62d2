----------------------------- MODULE SleepTimer -----------------------------
(***************************************************************************)
(* The sleep list driven by the timer and by threads that go to sleep at   *)
(* any moment, with the time each of them asked for, and who was inserted  *)
(* before whom, as history variables.                                      *)
(***************************************************************************)
EXTENDS SleepList

CONSTANT MaxSleep  \* bound: the longest sleep a thread asks for

ASSUME SleepTimerAssumption == MaxSleep \in Nat \ {0}

\* History: how many of the periods a thread asked for are still to come, and
\* whether another thread was put in front of it, behind the head.
VARIABLES due, delayed

vars == << sleepers, sleepTime, due, delayed >>

Sleeping(t) == \E i \in 1 .. Len(sleepers) : sleepers[i] = t

Init ==
    /\ sleepers = << >>
    /\ sleepTime = [t \in Threads |-> 0]
    /\ due = [t \in Threads |-> 0]
    /\ delayed = {}

\* time_sleep; a time of 0 returns before the trap.
TimeSleep(t, time) ==
    /\ ~Sleeping(t)
    /\ \E pos \in 1 .. Len(sleepers) + 1 :
          /\ InsertSleepThread(t, time, pos)
          /\ delayed' = IF pos = 1 THEN delayed
                        ELSE delayed \cup {sleepers[i] : i \in pos .. Len(sleepers)}
    /\ due' = [due EXCEPT ![t] = time]

Tick ==
    /\ \E n \in 0 .. Len(sleepers) :
          /\ UpdateSleepThreadList(n)
          /\ delayed' = delayed \ Range(Woken(n))
    /\ due' = [t \in Threads |-> IF due[t] = 0 THEN 0 ELSE due[t] - 1]

Next == Tick \/ \E t \in Threads, time \in 1 .. MaxSleep : TimeSleep(t, time)

Spec == Init /\ [][Next]_vars

\* The timer never stops (the hardware raises it periodically).
FairSpec == Spec /\ WF_vars(Tick)

-----------------------------------------------------------------------------
(* Properties                                                              *)

TypeOK ==
    /\ sleepers \in Seq(Threads)
    /\ sleepTime \in [Threads -> 0 .. MaxSleep]
    /\ due \in [Threads -> 0 .. MaxSleep]
    /\ delayed \subseteq Range(sleepers)

\* The head always has at least one period left, so that the decrement of
\* updateSleepThreadList (TCB.cpp:98) never wraps the unsigned field, and a
\* chain of zero differences is never left behind at the front.
HeadHasTimeLeft == sleepers # << >> => sleepTime[Head(sleepers)] > 0

\* The differences up to a sleeper add up to the periods it still has to
\* sleep, so it wakes on time, unless a thread went to sleep for less than it
\* but for more than the head: that shortens no difference, and those behind
\* wake late, never early (TCB.cpp:63-94).
SleepsAsAsked ==
    \A i \in 1 .. Len(sleepers) :
        LET t == sleepers[i] IN
        /\ SumOfSleepTimes[i] >= due[t]
        /\ t \notin delayed => SumOfSleepTimes[i] = due[t]

\* A thread leaves the list only in a tick that completes its sleep.
WakesOnlyWhenDue ==
    [][\A t \in Threads : Sleeping(t) /\ ~Sleeping(t)' => due'[t] = 0]_vars

\* While anyone sleeps, someone is woken again and again.
SomeoneWakes ==
    []<>(sleepers = << >>)
        \/ []<><< \E t \in Threads : Sleeping(t) /\ ~Sleeping(t)' >>_vars
=============================================================================
