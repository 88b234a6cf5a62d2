------------------------- MODULE ThreadListsProofs --------------------------
(***************************************************************************)
(* Proofs about the two lists that link the TCBs, for any set of threads.  *)
(* The differences of the sleep list add up to the periods the sleepers    *)
(* still have to sleep, for any times.  The ready list spells the queue it *)
(* stands for, and implements the FIFO scheduler.                          *)
(***************************************************************************)
EXTENDS SleepTimer, SleepListProofs, SchedulerQueue

-----------------------------------------------------------------------------
(* The sleep list                                                          *)

\* The invariant: nobody sleeps twice, the fields have their ranges, and what
\* the properties say.
IInv ==
    /\ TypeOK
    /\ IsInjective(sleepers)
    /\ HeadHasTimeLeft
    /\ SleepsAsAsked

LEMMA ListIsOK == IInv => MaxSleep \in Nat /\ SleepListOK(MaxSleep)
BY SleepTimerAssumption DEF IInv, TypeOK, HeadHasTimeLeft, SleepListOK

\* time_sleep keeps the invariant.
LEMMA TimeSleepStep ==
    ASSUME IInv, NEW t \in Threads, NEW time \in 1 .. MaxSleep, TimeSleep(t, time)
    PROVE  IInv'
<1>1. PICK pos \in 1 .. Len(sleepers) + 1 :
         /\ InsertSleepThread(t, time, pos)
         /\ delayed' = IF pos = 1 THEN delayed
                       ELSE delayed \cup {sleepers[i] : i \in pos .. Len(sleepers)}
  BY DEF TimeSleep
<1>2. ~Sleeping(t) /\ due' = [due EXCEPT ![t] = time]
  BY DEF TimeSleep
<1> DEFINE S == SumOfSleepTimes
           Z == SumOfSleepTimes'
           n == Len(sleepers)
<1>0. t \notin Range(sleepers)
  BY <1>2, LenProperties DEF Sleeping, Range, IInv, TypeOK
<1>3. /\ t \notin Range(sleepers)
      /\ sleepers' \in Seq(Threads) /\ IsInjective(sleepers')
      /\ Range(sleepers') = Range(sleepers) \cup {t}
      /\ Len(sleepers') = n + 1
      /\ \A i \in 1 .. pos - 1 : sleepers'[i] = sleepers[i]
      /\ sleepers'[pos] = t
      /\ \A i \in pos .. n : sleepers'[i + 1] = sleepers[i]
      /\ sleepTime' \in [Threads -> 0 .. MaxSleep]
      /\ sleepTime'[sleepers'[1]] > 0
  BY <1>0, <1>1, ListIsOK, InsertTypes
<1>4. /\ \A i \in 0 .. pos - 1 : Z[i] = S[i]
      /\ Z[pos] = time
      /\ \A i \in pos .. n : Z[i + 1] = S[i] + (IF pos = 1 THEN 0 ELSE time - S[pos - 1])
  BY <1>0, <1>1, ListIsOK, InsertSums
<1>5. /\ n \in Nat /\ \A i \in 1 .. n : sleepers[i] \in Threads
      /\ S \in [0 .. n -> Int] /\ S[0] = 0
  BY ListIsOK, SumsOfTheList
<1>6. /\ due \in [Threads -> 0 .. MaxSleep] /\ MaxSleep \in Nat \ {0}
      /\ delayed \subseteq Range(sleepers) /\ DOMAIN sleepers = 1 .. n
  BY SleepTimerAssumption, LenProperties DEF IInv, TypeOK
<1>7. \A i \in 1 .. n : sleepers[i] \in Threads \ {t}
  BY <1>3, <1>5, <1>6 DEF Range
<1>8. \A i \in 1 .. n : /\ S[i] >= due[sleepers[i]]
                        /\ sleepers[i] \notin delayed => S[i] = due[sleepers[i]]
  BY DEF IInv, SleepsAsAsked
<1>9. pos > 1 => time >= S[pos - 1]
  <2>1. \A i \in 1 .. pos - 1 : time >= S[i]
    BY <1>1 DEF InsertSleepThread, IsInsertPoint
  <2>2. pos > 1 => pos - 1 \in 1 .. pos - 1
    BY <1>5
  <2> QED
    BY <2>1, <2>2
<1> HIDE DEF S, Z, n
<1>10. TypeOK'
  <2>1. due' \in [Threads -> 0 .. MaxSleep]
    BY <1>2, <1>6
  <2>2. delayed' \subseteq Range(sleepers')
    <3>1. {sleepers[i] : i \in pos .. Len(sleepers)} \subseteq Range(sleepers)
      BY <1>5, <1>6 DEF Range, n
    <3> QED
      BY <1>1, <1>3, <1>6, <3>1
  <2> QED
    BY <1>3, <2>1, <2>2 DEF TypeOK
<1>11. HeadHasTimeLeft'
  <2>1. sleepers' # << >> => Head(sleepers') = sleepers'[1]
    BY <1>3, HeadTailProperties
  <2> QED
    BY <1>3, <2>1 DEF HeadHasTimeLeft
<1>12. SleepsAsAsked'
  <2>1. ASSUME NEW j \in 1 .. n + 1
        PROVE  /\ Z[j] >= due'[sleepers'[j]]
               /\ sleepers'[j] \notin delayed' => Z[j] = due'[sleepers'[j]]
    <3>1. CASE j = pos
      <4>1. due'[t] = time /\ time \in Int
        BY <1>2, <1>6
      <4> QED
        BY <1>3, <1>4, <3>1, <4>1
    <3>2. CASE j < pos
      <4>1. j \in 1 .. pos - 1 /\ j \in 0 .. pos - 1 /\ j \in 1 .. n
        BY <1>5, <3>2 DEF n
      <4>2. sleepers'[j] = sleepers[j] /\ Z[j] = S[j] /\ due'[sleepers[j]] = due[sleepers[j]]
        BY <1>2, <1>3, <1>4, <1>6, <1>7, <4>1
      <4>3. sleepers[j] \notin delayed' => sleepers[j] \notin delayed
        BY <1>1
      <4> QED
        BY <1>8, <4>1, <4>2, <4>3
    <3>3. CASE j > pos
      <4> DEFINE i == j - 1
      <4>1. i \in pos .. n /\ i \in 1 .. n /\ i \in 0 .. n /\ i + 1 = j
        BY <1>5, <3>3 DEF n
      <4> HIDE DEF i
      <4>2. /\ sleepers'[j] = sleepers[i] /\ due'[sleepers[i]] = due[sleepers[i]]
            /\ sleepers[i] \in Threads
            /\ Z[j] = S[i] + (IF pos = 1 THEN 0 ELSE time - S[pos - 1])
        <5>1. sleepers'[i + 1] = sleepers[i]
              /\ Z[i + 1] = S[i] + (IF pos = 1 THEN 0 ELSE time - S[pos - 1])
          BY <1>3, <1>4, <4>1
        <5> QED
          BY <1>2, <1>6, <1>7, <4>1, <5>1
      <4>3. S[i] \in Int /\ due[sleepers[i]] \in Int /\ S[i] >= due[sleepers[i]]
        BY <1>5, <1>6, <1>8, <4>1
      <4>4. CASE pos = 1
        <5>1. Z[j] = S[i] /\ delayed' = delayed
          BY <1>1, <4>2, <4>3, <4>4
        <5> QED
          BY <1>8, <4>1, <4>2, <5>1
      <4>5. CASE pos # 1
        <5>1. sleepers[i] \in delayed'
          BY <1>1, <4>1, <4>5 DEF n
        <5>2. time - S[pos - 1] \in Int /\ time - S[pos - 1] >= 0
          <6>1. pos > 1 /\ pos - 1 \in 0 .. n /\ time \in Int
            BY <1>5, <4>5 DEF n
          <6> QED
            BY <1>5, <1>9, <6>1
        <5> HIDE DEF i
        <5>3. Z[j] >= due[sleepers[i]]
          BY <4>2, <4>3, <4>5, <5>2
        <5> QED
          BY <4>2, <5>1, <5>3
      <4> QED
        BY <4>4, <4>5
    <3> QED
      BY <1>5, <3>1, <3>2, <3>3
  <2> QED
    BY <1>3, <2>1 DEF SleepsAsAsked, Z
<1> QED
  BY <1>3, <1>10, <1>11, <1>12 DEF IInv

\* A tick keeps the invariant, and whoever it wakes has no period left.
LEMMA TickStep ==
    ASSUME IInv, Tick
    PROVE  /\ IInv'
           /\ \A t \in Threads : Sleeping(t) /\ ~Sleeping(t)' => due'[t] = 0
<1>1. PICK n \in 0 .. Len(sleepers) :
         /\ UpdateSleepThreadList(n)
         /\ delayed' = delayed \ Range(Woken(n))
  BY DEF Tick
<1>2. due' = [t \in Threads |-> IF due[t] = 0 THEN 0 ELSE due[t] - 1]
  BY DEF Tick
<1> DEFINE S == SumOfSleepTimes
           Z == SumOfSleepTimes'
           l == Len(sleepers)
<1>3. /\ sleepers' \in Seq(Threads) /\ Len(sleepers') = l - n
      /\ \A i \in 1 .. l - n : sleepers'[i] = sleepers[i + n]
      /\ sleepTime' \in [Threads -> 0 .. MaxSleep]
      /\ \A i \in 1 .. n : S[i] = 1
      /\ \A i \in 1 .. l - n : Z[i] = S[i + n] - 1
      /\ sleepers' # << >> => sleepTime'[Head(sleepers')] > 0
  BY <1>1, ListIsOK, TickSums
<1>4. /\ l \in Nat /\ \A i \in 1 .. l : sleepers[i] \in Threads
      /\ S \in [0 .. l -> Int]
  BY ListIsOK, SumsOfTheList
<1>5. /\ sleepers \in Seq(Threads) /\ IsInjective(sleepers) /\ DOMAIN sleepers = 1 .. l
      /\ due \in [Threads -> 0 .. MaxSleep] /\ MaxSleep \in Nat \ {0}
      /\ delayed \subseteq Range(sleepers) /\ n \in Nat /\ n <= l
  BY SleepTimerAssumption, LenProperties DEF IInv, TypeOK
<1>6. \A i \in 1 .. l : /\ S[i] >= due[sleepers[i]]
                        /\ sleepers[i] \notin delayed => S[i] = due[sleepers[i]]
  BY DEF IInv, SleepsAsAsked
<1>7. /\ Range(sleepers) = Range(Woken(n)) \cup Range(sleepers')
      /\ Range(Woken(n)) \cap Range(sleepers') = {}
      /\ IsInjective(sleepers')
  <2>1. sleepers' = SubSeq(sleepers, n + 1, Len(sleepers)) /\ Woken(n) = SubSeq(sleepers, 1, n)
    BY <1>1 DEF UpdateSleepThreadList, Woken
  <2>2. LET p == SubSeq(sleepers, 1, n)
            r == SubSeq(sleepers, n + 1, Len(sleepers))
        IN  /\ Range(sleepers) = Range(p) \cup Range(r)
            /\ Range(p) \cap Range(r) = {}
            /\ IsInjective(r)
    BY <1>5, SplitElements
  <2> QED
    BY <2>1, <2>2
<1>8. \A i \in 0 .. l - n : Z[i] >= 0
  <2>1. /\ Z \in [0 .. l - n -> Int] /\ Z[0] = 0
        /\ \A i \in 1 .. l - n : Z[i] = Z[i - 1] + sleepTime'[sleepers'[i]]
    <3>1. sleepTime' \in [Threads -> Int]
      BY <1>3, <1>5
    <3> QED
      BY <1>3, <3>1, SumsAfterAStep DEF SumsAddUp
  <2>2. l - n \in Nat
    BY <1>4, <1>5
  <2> HIDE DEF Z, l
  <2>3. ASSUME NEW i \in 1 .. l - n PROVE Z[i - 1] <= Z[i]
    <3>1. Z[i - 1] \in Int /\ Z[i] \in Int /\ Z[i] = Z[i - 1] + sleepTime'[sleepers'[i]]
      <4>1. i \in 0 .. l - n /\ i - 1 \in 0 .. l - n
        BY <2>2
      <4>2. Z[i - 1] \in Int /\ Z[i] \in Int
        BY <2>1, <4>1
      <4> QED
        BY <2>1, <4>2
    <3>2. sleepers'[i] \in Threads
      <4>1. i + n \in 1 .. l
        BY <1>4, <1>5
      <4> QED
        BY <1>3, <1>4, <4>1
    <3>3. sleepTime'[sleepers'[i]] \in 0 .. MaxSleep
      BY <1>3, <3>2
    <3> QED
      BY <1>5, <3>1, <3>3
  <2> QED
    BY <2>1, <2>2, <2>3, SumsAreNatural
<1> HIDE DEF S, Z, l
<1>9. due' \in [Threads -> 0 .. MaxSleep]
  <2>1. ASSUME NEW t \in Threads
        PROVE  (IF due[t] = 0 THEN 0 ELSE due[t] - 1) \in 0 .. MaxSleep
    <3>1. due[t] \in 0 .. MaxSleep
      BY <1>5
    <3> QED
      BY <1>5, <3>1
  <2> QED
    BY <1>2, <2>1
<1>10. TypeOK'
  BY <1>1, <1>3, <1>5, <1>7, <1>9 DEF TypeOK
<1>11. SleepsAsAsked'
  <2>1. ASSUME NEW j \in 1 .. l - n
        PROVE  /\ Z[j] >= due'[sleepers'[j]]
               /\ sleepers'[j] \notin delayed' => Z[j] = due'[sleepers'[j]]
    <3> DEFINE i == j + n
               t == sleepers[i]
    <3>1. i \in 1 .. l /\ i \in 0 .. l /\ j \in 0 .. l - n
      BY <1>4, <1>5
    <3>2. sleepers'[j] = t /\ t \in Threads /\ Z[j] = S[i] - 1
      BY <1>3, <1>4, <3>1
    <3>3. due[t] \in Nat /\ S[i] \in Int /\ Z[j] >= 0
      BY <1>4, <1>5, <1>8, <3>1, <3>2
    <3>4. S[i] >= due[t] /\ (t \notin delayed => S[i] = due[t])
      BY <1>6, <3>1
    <3>5. due'[t] = IF due[t] = 0 THEN 0 ELSE due[t] - 1
      BY <1>2, <3>2
    <3>6. t \notin delayed' => t \notin delayed
      <4>1. t \in Range(sleepers')
        <5>1. DOMAIN sleepers' = 1 .. l - n
          BY <1>3, LenProperties
        <5> QED
          BY <3>2, <5>1 DEF Range
      <4> QED
        BY <1>1, <1>7, <4>1
    <3> HIDE DEF i, t
    <3>7. Z[j] >= due'[t]
      BY <3>2, <3>3, <3>4, <3>5
    <3>8. t \notin delayed' => Z[j] = due'[t]
      BY <3>2, <3>3, <3>4, <3>5, <3>6
    <3> QED
      BY <3>2, <3>7, <3>8
  <2> QED
    BY <1>3, <2>1 DEF SleepsAsAsked, Z
<1>12. ASSUME NEW t \in Threads, Sleeping(t), ~Sleeping(t)' PROVE due'[t] = 0
  <2>1. PICK i \in 1 .. l : sleepers[i] = t
    BY <1>12 DEF Sleeping, l
  <2>2. i <= n
    <3> SUFFICES ASSUME i > n PROVE FALSE
      BY <1>5
    <3>1. i - n \in 1 .. l - n /\ (i - n) + n = i
      BY <1>4, <1>5
    <3>2. sleepers'[i - n] = t
      BY <1>3, <2>1, <3>1
    <3> QED
      BY <1>3, <1>12, <3>1, <3>2 DEF Sleeping
  <2>3. S[i] = 1 /\ S[i] >= due[t] /\ due[t] \in Nat
    BY <1>3, <1>5, <1>6, <2>1, <2>2, SMTT(40)
  <2>4. due'[t] = IF due[t] = 0 THEN 0 ELSE due[t] - 1
    BY <1>2
  <2> QED
    BY <2>3, <2>4
<1> QED
  BY <1>3, <1>7, <1>10, <1>11, <1>12 DEF IInv, HeadHasTimeLeft

LEMMA StepKeepsIInv == IInv /\ [Next]_vars => IInv'
<1> SUFFICES ASSUME IInv, [Next]_vars PROVE IInv'
  OBVIOUS
<1>1. CASE Tick
  BY <1>1, TickStep
<1>2. ASSUME NEW t \in Threads, NEW time \in 1 .. MaxSleep, TimeSleep(t, time)
      PROVE  IInv'
  BY <1>2, TimeSleepStep
<1>3. CASE UNCHANGED vars
  <2>1. UNCHANGED SumOfSleepTimes
    BY <1>3 DEF vars, SumOfSleepTimes
  <2> QED
    BY <1>3, <2>1 DEF vars, IInv, TypeOK, HeadHasTimeLeft, SleepsAsAsked
<1> QED
  BY <1>1, <1>2, <1>3 DEF Next

LEMMA InitHasIInv == Init => IInv
<1> SUFFICES ASSUME Init PROVE IInv
  OBVIOUS
<1>1. sleepers = << >> /\ Len(sleepers) = 0 /\ DOMAIN sleepers = {}
  BY DEF Init
<1>2. TypeOK
  BY SleepTimerAssumption DEF Init, TypeOK, Range
<1> QED
  BY <1>1, <1>2 DEF IInv, IsInjective, HeadHasTimeLeft, SleepsAsAsked

\* The fields of the sleepers stay within the range of the unsigned field and
\* only sleepers are delayed (TCB.cpp:63-111).
THEOREM SleepListTypes == Spec => []TypeOK
<1>1. Init => IInv
  BY InitHasIInv
<1>2. IInv /\ [Next]_vars => IInv'
  BY StepKeepsIInv
<1>3. IInv => TypeOK
  BY DEF IInv
<1> QED
  BY <1>1, <1>2, <1>3, PTL DEF Spec

\* The head of the sleep list always has a period left, so that the decrement
\* of TCB.cpp:98 never wraps, however the sleeps and the ticks interleave.
THEOREM HeadNeverWraps == Spec => []HeadHasTimeLeft
<1>1. Init => IInv
  BY InitHasIInv
<1>2. IInv /\ [Next]_vars => IInv'
  BY StepKeepsIInv
<1>3. IInv => HeadHasTimeLeft
  BY DEF IInv
<1> QED
  BY <1>1, <1>2, <1>3, PTL DEF Spec

\* The differences add up to the periods a sleeper has left, or to more if
\* another thread was put in front of it behind the head (TCB.cpp:63-94).
THEOREM DifferencesAddUp == Spec => []SleepsAsAsked
<1>1. Init => IInv
  BY InitHasIInv
<1>2. IInv /\ [Next]_vars => IInv'
  BY StepKeepsIInv
<1>3. IInv => SleepsAsAsked
  BY DEF IInv
<1> QED
  BY <1>1, <1>2, <1>3, PTL DEF Spec

\* No thread wakes before the periods it asked for are over
\* (TCB.cpp:96-111).
THEOREM NobodyWakesEarly == Spec => WakesOnlyWhenDue
<1> DEFINE OnTime == \A t \in Threads : Sleeping(t) /\ ~Sleeping(t)' => due'[t] = 0
<1>1. Init => IInv
  BY InitHasIInv
<1>2. IInv /\ [Next]_vars => IInv'
  BY StepKeepsIInv
<1>3. IInv /\ [Next]_vars => [OnTime]_vars
  <2> SUFFICES ASSUME IInv, Next PROVE OnTime
    OBVIOUS
  <2>1. CASE Tick
    BY <2>1, TickStep
  <2>2. ASSUME NEW u \in Threads, NEW time \in 1 .. MaxSleep, TimeSleep(u, time)
        PROVE  OnTime
    <3>1. PICK pos \in 1 .. Len(sleepers) + 1 : InsertSleepThread(u, time, pos)
      BY <2>2 DEF TimeSleep
    <3>2. /\ sleepers \in Seq(Threads) /\ sleepers' \in Seq(Threads)
          /\ Range(sleepers') = Range(sleepers) \cup {u}
      <4>1. u \notin Range(sleepers)
        BY <2>2, LenProperties DEF Sleeping, Range, IInv, TypeOK, TimeSleep
      <4> QED
        BY <3>1, <4>1, ListIsOK, InsertTypes DEF IInv, TypeOK
    <3>3. \A t \in Threads : Sleeping(t) <=> t \in Range(sleepers)
      BY <3>2, LenProperties DEF Sleeping, Range
    <3>4. \A t \in Threads : Sleeping(t)' <=> t \in Range(sleepers')
      BY <3>2, LenProperties DEF Sleeping, Range
    <3> QED
      BY <3>2, <3>3, <3>4
  <2> QED
    BY <2>1, <2>2 DEF Next
<1> QED
  BY <1>1, <1>2, <1>3, PTL DEF Spec, WakesOnlyWhenDue

-----------------------------------------------------------------------------
(* The ready list                                                          *)

\* The inductive invariant: Linked, the types it needs, and that the idle
\* thread is never among the queued ones.
LinkedInv ==
    /\ queue \in Seq(TCBs \ {Idle})
    /\ schedulerNextThread \in [TCBs -> TCBs \cup {Null}]
    /\ schedulerPrevThread \in [TCBs -> TCBs \cup {Null}]
    /\ Linked

\* Appending to a queue leaves the earlier elements where they are.
LEMMA AppendFacts ==
    ASSUME NEW S, NEW q \in Seq(S), NEW e \in S
    PROVE  /\ Append(q, e) \in Seq(S)
           /\ Len(Append(q, e)) = Len(q) + 1
           /\ Append(q, e)[Len(q) + 1] = e
           /\ \A i \in 1 .. Len(q) : Append(q, e)[i] = q[i]
OBVIOUS

\* Removing the first element shifts the others down by one.
LEMMA TailFacts ==
    ASSUME NEW S, NEW q \in Seq(S), q # << >>
    PROVE  /\ Head(q) = q[1] /\ q[1] \in S
           /\ Tail(q) \in Seq(S)
           /\ Len(q) \in Nat \ {0}
           /\ Len(Tail(q)) = Len(q) - 1
           /\ \A i \in 1 .. Len(Tail(q)) : Tail(q)[i] = q[i + 1]
OBVIOUS

\* The chain of a queue: the queue, then the idle thread.
LEMMA ChainFacts ==
    ASSUME queue \in Seq(TCBs \ {Idle})
    PROVE  /\ Len(queue) \in Nat
           /\ Chain \in Seq(TCBs)
           /\ Len(Chain) = Len(queue) + 1
           /\ Chain[Len(queue) + 1] = Idle
           /\ \A i \in 1 .. Len(queue) :
                 /\ Chain[i] = queue[i]
                 /\ queue[i] \in TCBs \ {Idle}
BY SchedulerAssumption DEF Chain

LEMMA InitIInv == QInit => LinkedInv
<1> SUFFICES ASSUME QInit PROVE LinkedInv
  OBVIOUS
<1> QED
  BY SchedulerAssumption DEF QInit, ListInit, LinkedInv, Linked, EmptyList

\* A well formed list is not empty, and a thread that is not linked is not
\* in the chain.
LEMMA UnlinkedIsOutside ==
    ASSUME LinkedInv, SpelledBy(Chain), NEW t \in TCBs, ~IsLinked(t)
    PROVE  \A i \in 1 .. Len(Chain) : Chain[i] # t
<1>1. queue \in Seq(TCBs \ {Idle})
  BY DEF LinkedInv
<1> SUFFICES ASSUME NEW i \in 1 .. Len(Chain), Chain[i] = t
             PROVE  FALSE
  OBVIOUS
<1>2. CASE i = 1
  BY <1>2 DEF SpelledBy, IsLinked
<1>3. CASE i # 1
  <2>1. Chain[i - 1] \in TCBs /\ schedulerPrevThread[t] = Chain[i - 1]
    BY <1>1, <1>3, ChainFacts, SchedulerAssumption DEF SpelledBy
  <2> QED
    BY <2>1, SchedulerAssumption DEF IsLinked
<1> QED
  BY <1>2, <1>3

\* In a well formed list the head is a thread; the list is empty exactly
\* when the head is null.
LEMMA HeadFacts ==
    ASSUME LinkedInv
    PROVE  /\ IsEmpty <=> EmptyList
           /\ IsEmpty <=> schedulerHead = Null
           /\ ~IsEmpty => SpelledBy(Chain) /\ schedulerHead \in TCBs
<1>1. queue \in Seq(TCBs \ {Idle})
  BY DEF LinkedInv
<1>2. CASE EmptyList
  BY <1>2, SchedulerAssumption DEF EmptyList, IsEmpty
<1>3. CASE SpelledBy(Chain)
  <2>1. Chain[1] \in TCBs
    BY <1>1, ChainFacts, SchedulerAssumption
  <2> QED
    BY <1>3, <2>1, SchedulerAssumption DEF SpelledBy, IsEmpty, EmptyList
<1> QED
  BY <1>2, <1>3 DEF LinkedInv, Linked

LEMMA PutIInv ==
    ASSUME LinkedInv, NEW t \in TCBs \cup {Null}, QPut(t)
    PROVE  LinkedInv'
<1>1. CASE UNCHANGED listVars /\ queue' = queue
  <2>1. Chain' = Chain
    BY <1>1 DEF Chain
  <2> QED
    BY <1>1, <2>1 DEF LinkedInv, Linked, EmptyList, SpelledBy, listVars
<1>2. CASE t # Null /\ MayPut(t) /\ InsertFirst(t)
  <2>1. /\ t = Idle /\ IsEmpty /\ EmptyList
        /\ queue' = << >> /\ queue = << >>
        /\ schedulerHead' = Idle /\ schedulerTail' = Idle
        /\ UNCHANGED << schedulerNextThread, schedulerPrevThread >>
    BY <1>2, HeadFacts DEF InsertFirst, MayPut, QPut, EmptyList
  <2>2. Chain' = << Idle >>
    BY <2>1 DEF Chain
  <2>3. SpelledBy(Chain)'
    <3>1. Len(Chain') = 1 /\ Chain'[1] = Idle
      BY <2>2
    <3> QED
      BY <2>1, <3>1, SchedulerAssumption DEF SpelledBy, EmptyList
  <2> QED
    BY <2>1, <2>3 DEF LinkedInv, Linked
<1>3. CASE t # Null /\ MayPut(t) /\ InsertBeforeTail(t)
  <2> DEFINE m == Len(queue)
  <2>1. /\ ~IsEmpty /\ t # Idle /\ t \in TCBs
        /\ queue' = Append(queue, t)
        /\ ~IsLinked(t)
    BY <1>3 DEF InsertBeforeTail, MayPut, QPut, Enqueue
  <2>2. queue \in Seq(TCBs \ {Idle}) /\ SpelledBy(Chain)
    BY <2>1, HeadFacts DEF LinkedInv
  <2>3. queue' \in Seq(TCBs \ {Idle})
    BY <2>1, <2>2
  <2>4. /\ m \in Nat /\ Len(Chain) = m + 1 /\ Len(Chain') = m + 2
        /\ Chain'[m + 2] = Idle /\ Chain'[m + 1] = t
        /\ Chain[m + 1] = Idle
        /\ \A i \in 1 .. m : Chain'[i] = Chain[i] /\ Chain[i] \in TCBs \ {Idle}
    BY <2>1, <2>2, SchedulerAssumption DEF Chain
  <2>5. \A i \in 1 .. m + 1 : Chain[i] # t
    BY <2>1, <2>2, <2>4, UnlinkedIsOutside
  <2>6. /\ schedulerTail = Idle /\ schedulerTail' = Idle
        /\ schedulerPrevThread[Idle] = IF m = 0 THEN Null ELSE Chain[m]
    BY <1>3, <2>2, <2>4 DEF SpelledBy, InsertBeforeTail
  <2> DEFINE before == schedulerPrevThread[Idle]
  <2>7. /\ schedulerNextThread' =
             [u \in TCBs |-> IF u = before THEN t
                                ELSE IF u = t THEN Idle
                                ELSE schedulerNextThread[u]]
        /\ schedulerPrevThread' =
             [schedulerPrevThread EXCEPT ![t] = before, ![Idle] = t]
        /\ schedulerHead' = IF before = Null THEN t ELSE schedulerHead
    BY <1>3, <2>6 DEF InsertBeforeTail
  <2>8. schedulerHead' = Chain'[1]
    BY <2>2, <2>4, <2>6, <2>7, SchedulerAssumption DEF SpelledBy
  <2>9. \A i, j \in 1 .. m + 2 : Chain'[i] = Chain'[j] => i = j
    BY <2>1, <2>2, <2>4, <2>5 DEF SpelledBy
  <2>10. \A i \in 1 .. m + 2 : schedulerNextThread'[Chain'[i]] =
                 IF i = m + 2 THEN Null ELSE Chain'[i + 1]
    <3> SUFFICES ASSUME NEW i \in 1 .. m + 2
                 PROVE  schedulerNextThread'[Chain'[i]] =
                          IF i = m + 2 THEN Null ELSE Chain'[i + 1]
      OBVIOUS
    <3>1. schedulerNextThread[Idle] = Null
      BY <2>2, <2>4 DEF SpelledBy
    <3>2. CASE i = m + 2
      BY <2>1, <2>4, <2>6, <2>7, <3>1, <3>2, SchedulerAssumption
    <3>3. CASE i = m + 1
      BY <2>1, <2>4, <2>5, <2>6, <2>7, <3>3, SchedulerAssumption
    <3>4. CASE i = m
      BY <2>1, <2>4, <2>5, <2>6, <2>7, <3>4, SchedulerAssumption
    <3>5. CASE i \in 1 .. m - 1
      <4>1. Chain[i] # Chain[m] /\ Chain[i] # t /\ Chain[i] \in TCBs
        BY <2>2, <2>4, <2>5, <3>5 DEF SpelledBy
      <4>2. schedulerNextThread[Chain[i]] = Chain[i + 1]
        BY <2>2, <2>4, <3>5 DEF SpelledBy
      <4> QED
        BY <2>4, <2>6, <2>7, <3>5, <4>1, <4>2, SchedulerAssumption
    <3> QED
      BY <2>4, <3>2, <3>3, <3>4, <3>5
  <2>11. \A i \in 1 .. m + 2 : schedulerPrevThread'[Chain'[i]] =
                 IF i = 1 THEN Null ELSE Chain'[i - 1]
    <3> SUFFICES ASSUME NEW i \in 1 .. m + 2
                 PROVE  schedulerPrevThread'[Chain'[i]] =
                          IF i = 1 THEN Null ELSE Chain'[i - 1]
      OBVIOUS
    <3>0. schedulerPrevThread \in [TCBs -> TCBs \cup {Null}]
      BY DEF LinkedInv
    <3>1. CASE i = m + 2
      BY <2>1, <2>4, <2>7, <3>0, <3>1, SchedulerAssumption
    <3>2. CASE i = m + 1
      BY <2>1, <2>4, <2>6, <2>7, <3>0, <3>2, SchedulerAssumption
    <3>3. CASE i \in 1 .. m
      <4>1. Chain[i] # Idle /\ Chain[i] # t /\ Chain[i] \in TCBs
        BY <2>4, <2>5, <3>3
      <4>2. schedulerPrevThread[Chain[i]] = IF i = 1 THEN Null ELSE Chain[i - 1]
        BY <2>2, <2>4, <3>3 DEF SpelledBy
      <4> QED
        BY <2>4, <2>7, <3>0, <3>3, <4>1, <4>2
    <3> QED
      BY <2>4, <3>1, <3>2, <3>3
  <2>12. ASSUME NEW u \in TCBs, \A i \in 1 .. m + 2 : Chain'[i] # u
         PROVE  schedulerNextThread'[u] = Null /\ schedulerPrevThread'[u] = Null
    <3>1. u # t /\ u # Idle /\ \A i \in 1 .. m : Chain[i] # u
      BY <2>4, <2>12
    <3>2. schedulerNextThread[u] = Null /\ schedulerPrevThread[u] = Null
      BY <2>2, <2>4, <3>1 DEF SpelledBy
    <3>3. u # before
      BY <2>4, <2>6, <3>1, SchedulerAssumption
    <3> QED
      BY <2>7, <3>1, <3>2, <3>3 DEF LinkedInv
  <2>13. SpelledBy(Chain)'
    BY <2>4, <2>6, <2>8, <2>9, <2>10, <2>11, <2>12 DEF SpelledBy
  <2>14. /\ schedulerNextThread' \in [TCBs -> TCBs \cup {Null}]
         /\ schedulerPrevThread' \in [TCBs -> TCBs \cup {Null}]
    BY <2>1, <2>7, <2>6, SchedulerAssumption DEF LinkedInv
  <2> QED
    BY <2>3, <2>13, <2>14 DEF LinkedInv, Linked
<1> QED
  <2>1. t = Null => <<schedulerHead, schedulerTail>>' = <<schedulerHead, schedulerTail>> /\ queue' = queue
    BY <1>1, SchedulerAssumption DEF QPut, Put, listVars, InsertFirst, InsertBeforeTail
  <2>2. t = Idle /\ UNCHANGED listVars => queue' = queue
    BY DEF QPut, Enqueue
  <2> QED
    BY <1>1, <1>2, <1>3, <2>1, <2>2, SchedulerAssumption DEF QPut, Put

LEMMA GetIInv ==
    ASSUME LinkedInv, QGet
    PROVE  LinkedInv'
<1>0. queue \in Seq(TCBs \ {Idle}) /\ queue' = Rest(queue)
  BY DEF LinkedInv, QGet
<1>1. CASE queue = << >>
  <2>1. UNCHANGED listVars
    <3>1. CASE IsEmpty
      BY <3>1 DEF QGet, Get
    <3>2. CASE ~IsEmpty
      <4>1. SpelledBy(Chain) /\ Chain[1] = Idle
        BY <1>0, <1>1, <3>2, HeadFacts DEF Chain
      <4> QED
        BY <4>1, <3>2 DEF SpelledBy, QGet, Get
    <3> QED
      BY <3>1, <3>2
  <2>2. queue' = queue /\ Chain' = Chain
    BY <1>0, <1>1 DEF Rest, Chain
  <2> QED
    BY <2>1, <2>2 DEF LinkedInv, Linked, EmptyList, SpelledBy, listVars
<1>2. CASE queue # << >>
  <2> DEFINE m == Len(queue)
  <2>1. ~IsEmpty /\ SpelledBy(Chain)
    BY <1>2, HeadFacts DEF EmptyList
  <2>2. queue' = Tail(queue) /\ queue' \in Seq(TCBs \ {Idle})
    BY <1>0, <1>2 DEF Rest
  <2>3. /\ m \in Nat \ {0} /\ Len(Chain) = m + 1 /\ Len(Chain') = m
        /\ Chain'[m] = Idle /\ Chain[m + 1] = Idle
        /\ \A i \in 1 .. m : Chain'[i] = Chain[i + 1]
        /\ \A i \in 1 .. m : Chain[i] \in TCBs \ {Idle}
    <3>1. \A i \in 1 .. m : Chain[i] \in TCBs \ {Idle}
      BY <1>0, ChainFacts
    <3>2. /\ m \in Nat \ {0} /\ Len(Chain) = m + 1 /\ Chain[m + 1] = Idle
          /\ Len(queue') = m - 1 /\ \A i \in 1 .. m - 1 : queue'[i] = queue[i + 1]
          /\ \A i \in 1 .. m : Chain[i] = queue[i]
      BY <1>0, <1>2, <2>2, ChainFacts, TailFacts
    <3>3. /\ Len(Chain') = m /\ Chain'[m] = Idle
          /\ \A i \in 1 .. m - 1 : Chain'[i] = queue'[i]
      BY <2>2, <3>2, SchedulerAssumption DEF Chain
    <3> QED
      BY <3>1, <3>2, <3>3
  <2>4. /\ schedulerHead = Chain[1] /\ schedulerTail = Idle
        /\ schedulerNextThread[schedulerHead] = Chain[2]
    BY <2>1, <2>3 DEF SpelledBy
  <2>5. /\ schedulerHead' = Chain[2] /\ schedulerTail' = Idle
        /\ schedulerPrevThread' = [schedulerPrevThread EXCEPT ![Chain[2]] = Null]
        /\ schedulerNextThread' = [schedulerNextThread EXCEPT ![Chain[1]] = Null]
    <3>1. schedulerHead # schedulerTail
      BY <2>3, <2>4
    <3> QED
      BY <2>1, <2>4, <3>1 DEF QGet, Get
  <2>6. \A i, j \in 1 .. m + 1 : Chain[i] = Chain[j] => i = j
    BY <2>1, <2>3 DEF SpelledBy
  <2>7. schedulerHead' = Chain'[1]
    BY <2>3, <2>5
  <2>8. \A i, j \in 1 .. m : Chain'[i] = Chain'[j] => i = j
    BY <2>3, <2>6
  <2>9. \A i \in 1 .. m : schedulerNextThread'[Chain'[i]] =
                 IF i = m THEN Null ELSE Chain'[i + 1]
    <3> SUFFICES ASSUME NEW i \in 1 .. m
                 PROVE  schedulerNextThread'[Chain'[i]] =
                          IF i = m THEN Null ELSE Chain'[i + 1]
      OBVIOUS
    <3>1. Chain'[i] = Chain[i + 1] /\ Chain[i + 1] # Chain[1]
          /\ Chain[i + 1] \in TCBs
      BY <2>3, <2>6, SchedulerAssumption
    <3>2. schedulerNextThread[Chain[i + 1]] =
            IF i = m THEN Null ELSE Chain[i + 2]
      BY <2>1, <2>3 DEF SpelledBy
    <3> QED
      BY <2>3, <2>5, <3>1, <3>2 DEF LinkedInv
  <2>10. \A i \in 1 .. m : schedulerPrevThread'[Chain'[i]] =
                 IF i = 1 THEN Null ELSE Chain'[i - 1]
    <3> SUFFICES ASSUME NEW i \in 1 .. m
                 PROVE  schedulerPrevThread'[Chain'[i]] =
                          IF i = 1 THEN Null ELSE Chain'[i - 1]
      OBVIOUS
    <3>1. Chain'[i] = Chain[i + 1] /\ (i # 1 => Chain[i + 1] # Chain[2])
          /\ Chain[i + 1] \in TCBs
      BY <2>3, <2>6, SchedulerAssumption
    <3>2. schedulerPrevThread[Chain[i + 1]] = Chain[i]
      BY <2>1, <2>3 DEF SpelledBy
    <3>3. CASE i = 1
      BY <2>5, <3>1, <3>3 DEF LinkedInv
    <3>4. CASE i # 1
      <4>1. schedulerPrevThread'[Chain[i + 1]] = Chain[i]
        BY <2>5, <3>1, <3>2, <3>4 DEF LinkedInv
      <4>2. Chain'[i - 1] = Chain[i]
        BY <2>3, <3>4
      <4> QED
        BY <3>1, <3>4, <4>1, <4>2
    <3> QED
      BY <3>3, <3>4
  <2>11. ASSUME NEW u \in TCBs, \A i \in 1 .. m : Chain'[i] # u
         PROVE  schedulerNextThread'[u] = Null /\ schedulerPrevThread'[u] = Null
    <3>1. CASE u = Chain[1]
      BY <2>1, <2>3, <2>5, <2>6, <3>1 DEF SpelledBy, LinkedInv
    <3>2. CASE u # Chain[1]
      <4>1. \A i \in 1 .. m + 1 : Chain[i] # u
        <5> SUFFICES ASSUME NEW i \in 1 .. m + 1, i # 1 PROVE Chain[i] # u
          BY <3>2
        <5>1. Chain'[i - 1] = Chain[i]
          BY <2>3
        <5> QED
          BY <2>3, <2>11, <5>1
      <4>2. schedulerNextThread[u] = Null /\ schedulerPrevThread[u] = Null
        BY <2>1, <2>3, <4>1 DEF SpelledBy
      <4> QED
        BY <2>5, <4>2 DEF LinkedInv
    <3> QED
      BY <3>1, <3>2
  <2>12. SpelledBy(Chain)'
    BY <2>3, <2>5, <2>7, <2>8, <2>9, <2>10, <2>11 DEF SpelledBy
  <2>13. /\ schedulerNextThread' \in [TCBs -> TCBs \cup {Null}]
         /\ schedulerPrevThread' \in [TCBs -> TCBs \cup {Null}]
    BY <2>5 DEF LinkedInv
  <2> QED
    BY <2>2, <2>12, <2>13 DEF LinkedInv, Linked
<1> QED
  BY <1>1, <1>2

LEMMA StepIInv == LinkedInv /\ [QNext]_qvars => LinkedInv'
<1> SUFFICES ASSUME LinkedInv, [QNext]_qvars PROVE LinkedInv'
  OBVIOUS
<1>1. CASE \E t \in TCBs \cup {Null} : QPut(t)
  BY <1>1, PutIInv
<1>2. CASE QGet
  BY <1>2, GetIInv
<1>3. CASE UNCHANGED qvars
  BY <1>3 DEF qvars, schedulerVars, listVars, LinkedInv, Linked, EmptyList, SpelledBy, Chain
<1> QED
  BY <1>1, <1>2, <1>3 DEF QNext

\* The ready list of SchedulerListManagement.cpp is a well formed doubly
\* linked list of the threads put and not yet handed out, whatever the
\* number of threads and the order of the calls.
THEOREM ListIsLinked == QSpec => []Linked
<1>1. LinkedInv => Linked
  BY DEF LinkedInv
<1> QED
  BY <1>1, InitIInv, StepIInv, PTL DEF QSpec

LEMMA PutRefines ==
    ASSUME LinkedInv, NEW t \in TCBs \cup {Null}, QPut(t)
    PROVE  [Abstract!Next]_(Abstract!vars)
<1>1. CASE UNCHANGED << schedulerHead, queue >>
  BY <1>1 DEF QPut, Put, Abstract!vars
<1>2. CASE t # Null /\ MayPut(t) /\ InsertFirst(t)
  <2>1. t = Idle /\ schedulerHead = Null /\ schedulerHead' = Idle
        /\ queue' = queue /\ got' = got
    BY <1>2, HeadFacts DEF InsertFirst, MayPut, QPut, Put
  <2> QED
    BY <2>1, SchedulerAssumption DEF Abstract!Boot, Abstract!Next
<1>3. CASE t # Null /\ MayPut(t) /\ InsertBeforeTail(t)
  <2>1. ~IsEmpty /\ t \in TCBs /\ t # Idle
        /\ queue' = Append(queue, t) /\ got' = got
    BY <1>3 DEF InsertBeforeTail, QPut, Put, Enqueue
  <2>2. schedulerHead # Null
    BY <2>1, HeadFacts
  <2>3. schedulerHead' # Null
    BY <1>3, <2>1, <2>2, SchedulerAssumption DEF InsertBeforeTail
  <2>4. Abstract!Put(t)
    BY <2>1, <2>2, <2>3 DEF Abstract!Put, Abstract!Enqueue
  <2> QED
    BY <2>1, <2>4 DEF Abstract!Next
<1> QED
  BY <1>1, <1>2, <1>3, SchedulerAssumption
  DEF QPut, Put, listVars, Enqueue

LEMMA GetRefines ==
    ASSUME LinkedInv, QGet
    PROVE  [Abstract!Next]_(Abstract!vars)
<1>1. LinkedInv'
  BY GetIInv
<1>2. CASE IsEmpty
  <2>1. schedulerHead = Null /\ schedulerHead' = Null /\ got' = Null
        /\ queue' = queue
    BY <1>2, HeadFacts DEF QGet, Get, listVars, EmptyList, Rest
  <2> QED
    BY <2>1 DEF Abstract!GetNothing, Abstract!Next
<1>3. CASE ~IsEmpty
  <2>1. SpelledBy(Chain) /\ schedulerHead # Null
        /\ queue \in Seq(TCBs \ {Idle})
    BY <1>3, HeadFacts DEF LinkedInv
  <2>2. got' = First(queue) /\ queue' = Rest(queue)
    <3>1. got' = Chain[1]
      BY <1>3, <2>1 DEF QGet, Get, SpelledBy
    <3>2. queue = << >> => Chain[1] = Idle
      BY DEF Chain
    <3>3. queue # << >> => Chain[1] = Head(queue)
      BY <2>1, ChainFacts, TailFacts
    <3> QED
      BY <3>1, <3>2, <3>3 DEF First, QGet
  <2>3. schedulerHead' # Null
    <3>1. CASE UNCHANGED schedulerHead
      BY <2>1, <3>1
    <3>2. CASE schedulerHead # schedulerTail
      <4>1. schedulerTail' # Null
        BY <1>3, <2>1, <3>2, SchedulerAssumption DEF QGet, Get, SpelledBy
      <4>2. ~EmptyList'
        BY <4>1 DEF EmptyList
      <4>3. SpelledBy(Chain)' /\ queue' \in Seq(TCBs \ {Idle})
        BY <1>1, <4>2 DEF LinkedInv, Linked
      <4>4. schedulerHead' = Chain'[1] /\ Chain' = Append(queue', Idle)
        BY <4>3 DEF SpelledBy, Chain
      <4>5. Chain'[1] \in TCBs
        BY <4>3, <4>4, SchedulerAssumption
      <4> QED
        BY <4>4, <4>5, SchedulerAssumption
    <3> QED
      BY <1>3, <3>1, <3>2 DEF QGet, Get, listVars
  <2>4. Abstract!Get
    BY <2>1, <2>2, <2>3
    DEF Abstract!Get, Abstract!First, Abstract!Rest, First, Rest
  <2> QED
    BY <2>4 DEF Abstract!Next
<1> QED
  BY <1>2, <1>3

\* The linked list of Scheduler.cpp implements the FIFO scheduler: get
\* returns the ready thread put longest ago, or the idle thread.
THEOREM SchedulerIsFifo == QSpec => ImplementsFifo
<1>1. QInit => Abstract!Init
  BY DEF QInit, ListInit, Abstract!Init
<1>2. LinkedInv /\ [QNext]_qvars => [Abstract!Next]_(Abstract!vars)
  <2> SUFFICES ASSUME LinkedInv, [QNext]_qvars
               PROVE  [Abstract!Next]_(Abstract!vars)
    OBVIOUS
  <2>1. CASE \E t \in TCBs \cup {Null} : QPut(t)
    BY <2>1, PutRefines
  <2>2. CASE QGet
    BY <2>2, GetRefines
  <2>3. CASE UNCHANGED qvars
    BY <2>3 DEF qvars, schedulerVars, listVars, Abstract!vars
  <2> QED
    BY <2>1, <2>2, <2>3 DEF QNext
<1> QED
  BY <1>1, <1>2, InitIInv, StepIInv, PTL
  DEF QSpec, ImplementsFifo, Abstract!Spec
=============================================================================
