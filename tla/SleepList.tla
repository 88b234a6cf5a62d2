------------------------------ MODULE SleepList ------------------------------
(***************************************************************************)
(* The list of sleeping threads of TCB.cpp.  sleepers is the linked list   *)
(* from sleepHead to sleepTail; sleepTime[t] is the field of the TCB, the  *)
(* remaining time of the head and a difference for the others.  The two    *)
(* operations run inside a trap, each as one step of a larger action.      *)
(***************************************************************************)
EXTENDS Integers, Sequences, SequencesExt

CONSTANT Threads

VARIABLES sleepers, sleepTime

\* currSumOfSleepTimes after each element of the list
SumOfSleepTimes ==
    LET sum[i \in 0 .. Len(sleepers)] ==
            IF i = 0 THEN 0 ELSE sum[i - 1] + sleepTime[sleepers[i]]
    IN  sum

\* The scan of the list stops at the first element with time < the sum, and
\* past the end when there is none.
IsInsertPoint(pos, time) ==
    /\ \A i \in 1 .. pos - 1 : time >= SumOfSleepTimes[i]
    /\ pos <= Len(sleepers) => time < SumOfSleepTimes[pos]

\* Mistake: every thread goes to the end of the list.
AppendSleepThread(t, time, pos) ==
    /\ pos = Len(sleepers) + 1
    /\ sleepers' = Append(sleepers, t)
    /\ sleepTime' = [sleepTime EXCEPT ![t] = time - SumOfSleepTimes[pos - 1]]

\* insertSleepThread(time) for the running thread t, at position pos.  At
\* the front the old head keeps the rest of its time; in the middle only t's
\* own difference is set.
InsertSleepThread(t, time, pos) ==
    /\ IsInsertPoint(pos, time)
    /\ sleepers' = InsertAt(sleepers, pos, t)
    /\ \/ /\ pos = 1 /\ sleepers # << >>
          /\ sleepTime' = [sleepTime EXCEPT ![t] = time,
                                            ![Head(sleepers)] = @ - time]
       \/ /\ pos > 1 \/ sleepers = << >>
          /\ sleepTime' = [sleepTime EXCEPT ![t] = time - SumOfSleepTimes[pos - 1]]

\* Mistake: the time of every sleeper is decremented, not only the head's.
TickedAll == [t \in Threads |-> IF t \in Range(sleepers) THEN sleepTime[t] - 1
                                                         ELSE sleepTime[t]]

\* Mistake: nobody's time is decremented.
TickedNone == sleepTime

\* The head's time after one more timer period.
Ticked == IF sleepers = << >> THEN sleepTime
          ELSE [sleepTime EXCEPT ![Head(sleepers)] = @ - 1]

\* Mistake: a thread wakes one period before its time is over.
WakesFirstTooSoon(n) ==
    /\ \A i \in 1 .. n : Ticked[sleepers[i]] <= 1
    /\ n < Len(sleepers) => Ticked[sleepers[n + 1]] > 1

\* The first n sleepers, and no more, have no time left.
WakesFirst(n) ==
    /\ \A i \in 1 .. n : Ticked[sleepers[i]] = 0
    /\ n < Len(sleepers) => Ticked[sleepers[n + 1]] # 0

Woken(n) == SubSeq(sleepers, 1, n)

\* Mistake: only the head is woken, not those that are due with it.
WakeOneSleeper(n) ==
    /\ n = IF sleepers # << >> /\ Ticked[Head(sleepers)] = 0 THEN 1 ELSE 0
    /\ sleepers' = SubSeq(sleepers, n + 1, Len(sleepers))
    /\ sleepTime' = Ticked

\* updateSleepThreadList(): the caller puts Woken(n) into the scheduler, in
\* that order.
UpdateSleepThreadList(n) ==
    /\ WakesFirst(n)
    /\ sleepers' = SubSeq(sleepers, n + 1, Len(sleepers))
    /\ sleepTime' = Ticked
=============================================================================
