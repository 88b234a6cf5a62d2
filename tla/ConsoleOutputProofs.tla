------------------------ MODULE ConsoleOutputProofs ------------------------
(***************************************************************************)
(* Proofs about ConsoleOutput.tla, for any threads and any capacity: the   *)
(* two mutexes exclude, the permits of the two counting semaphores are the *)
(* places of the array, and no character is lost or overtaken.             *)
(***************************************************************************)
EXTENDS ConsoleOutput, SequenceTheorems, FiniteSetTheorems, TLAPS

-----------------------------------------------------------------------------
(* The statements                                                          *)

WriterStatements == {"new", "user", "finished", "waitSpace", "waitTail", "store",
                     "signalTail", "signalItem"}
MainStatements == {"loop", "counted", "countWaitHead", "countWaitTail", "count",
                   "countSignalHead", "countSignalTail"}
OutputStatements == {"poll", "send", "waitItem", "waitHead", "fetch", "signalHead",
                     "signalSpace"}

StatementsOf(t) ==
    IF t = Main THEN MainStatements
    ELSE IF t = Output THEN OutputStatements
    ELSE IF t = Idle THEN {"user"}
    ELSE WriterStatements

Statements == WriterStatements \cup MainStatements \cup OutputStatements

\* Where a thread is while it waits for a semaphore, and where it then goes on.
Behind(s) == IF s = "spaceAvailable" THEN {"waitTail"}
             ELSE IF s = "itemAvailable" THEN {"waitHead"}
             ELSE IF s = "mutexHead" THEN {"countWaitTail", "fetch"}
             ELSE {"count", "store"}

\* The threads that have waited for a mutex and have not signalled it.
Takers(s) == IF s = "mutexHead"
             THEN {"fetch", "signalHead", "countWaitTail", "count", "countSignalHead"}
             ELSE {"store", "signalTail", "count", "countSignalHead", "countSignalTail"}

LEMMA WaitStatements ==
    /\ DOMAIN WaitsFor = {"waitSpace", "waitTail", "waitItem", "waitHead",
                          "countWaitHead", "countWaitTail"}
    /\ WaitsFor["waitSpace"] = "spaceAvailable" /\ After["waitSpace"] = "waitTail"
    /\ WaitsFor["waitTail"] = "mutexTail" /\ After["waitTail"] = "store"
    /\ WaitsFor["waitItem"] = "itemAvailable" /\ After["waitItem"] = "waitHead"
    /\ WaitsFor["waitHead"] = "mutexHead" /\ After["waitHead"] = "fetch"
    /\ WaitsFor["countWaitHead"] = "mutexHead" /\ After["countWaitHead"] = "countWaitTail"
    /\ WaitsFor["countWaitTail"] = "mutexTail" /\ After["countWaitTail"] = "count"
BY DEF WaitsFor, After, InsertOrder, RemoveOrder, CountOrder

LEMMA SignalStatements ==
    /\ DOMAIN Signals = {"signalTail", "signalItem", "signalHead", "signalSpace",
                         "countSignalHead", "countSignalTail"}
    /\ Signals["signalTail"] = "mutexTail" /\ After["signalTail"] = "signalItem"
    /\ Signals["signalItem"] = "itemAvailable" /\ After["signalItem"] = "user"
    /\ Signals["signalHead"] = "mutexHead" /\ After["signalHead"] = "signalSpace"
    /\ Signals["signalSpace"] = "spaceAvailable" /\ After["signalSpace"] = "send"
    /\ Signals["countSignalHead"] = "mutexHead" /\ After["countSignalHead"] = "countSignalTail"
    /\ Signals["countSignalTail"] = "mutexTail" /\ After["countSignalTail"] = "counted"
BY DEF Signals, After, InsertOrder, RemoveOrder, CountOrder

LEMMA ArrayStatements ==
    After["store"] = "signalTail" /\ After["fetch"] = "signalHead"
    /\ After["count"] = "countSignalHead"
BY DEF After, InsertOrder, RemoveOrder, CountOrder

-----------------------------------------------------------------------------
(* Lists that hold nothing twice                                           *)

\* Putting a new element at the end.
LEMMA LastJoins ==
    ASSUME NEW S, NEW q \in Seq(S), NEW e \in S, IsInjective(q), e \notin Range(q)
    PROVE  /\ Append(q, e) \in Seq(S)
           /\ Len(Append(q, e)) = Len(q) + 1
           /\ Range(Append(q, e)) = Range(q) \cup {e}
           /\ IsInjective(Append(q, e))
<1>1. /\ Append(q, e) \in Seq(S)
      /\ Len(Append(q, e)) = Len(q) + 1
      /\ DOMAIN Append(q, e) = 1 .. Len(q) + 1
      /\ DOMAIN q = 1 .. Len(q) /\ Len(q) \in Nat
      /\ \A i \in 1 .. Len(q) : Append(q, e)[i] = q[i]
      /\ Append(q, e)[Len(q) + 1] = e
  BY AppendProperties, LenProperties
<1>2. Range(Append(q, e)) \subseteq Range(q) \cup {e}
  BY <1>1 DEF Range
<1>3. e \in Range(Append(q, e))
  BY <1>1 DEF Range
<1>4. \A x \in Range(q) : x \in Range(Append(q, e))
  BY <1>1 DEF Range
<1>5. IsInjective(Append(q, e))
  BY <1>1 DEF IsInjective, Range
<1> QED
  BY <1>1, <1>2, <1>3, <1>4, <1>5

\* Taking the first element.
LEMMA FirstLeaves ==
    ASSUME NEW S, NEW q \in Seq(S), q # << >>, IsInjective(q)
    PROVE  /\ Head(q) \in S /\ Head(q) \in Range(q)
           /\ Tail(q) \in Seq(S)
           /\ Len(Tail(q)) = Len(q) - 1
           /\ Range(Tail(q)) = Range(q) \ {Head(q)}
           /\ IsInjective(Tail(q))
<1>1. /\ Head(q) = q[1] /\ Head(q) \in S
      /\ Tail(q) \in Seq(S) /\ Len(q) \in Nat \ {0}
      /\ Len(Tail(q)) = Len(q) - 1
      /\ DOMAIN q = 1 .. Len(q) /\ DOMAIN Tail(q) = 1 .. Len(q) - 1
      /\ \A i \in 1 .. Len(q) - 1 : Tail(q)[i] = q[i + 1]
  BY HeadTailProperties, LenProperties, EmptySeq
<1>2. Head(q) \in Range(q)
  BY <1>1 DEF Range
<1>3. IsInjective(Tail(q))
  BY <1>1 DEF IsInjective
<1>4. Range(Tail(q)) \subseteq Range(q) \ {Head(q)}
  BY <1>1 DEF Range, IsInjective
<1>5. \A i \in 1 .. Len(q) : q[i] # q[1] => q[i] \in Range(Tail(q))
  <2> SUFFICES ASSUME NEW i \in 1 .. Len(q), q[i] # q[1] PROVE q[i] \in Range(Tail(q))
    OBVIOUS
  <2>1. i - 1 \in 1 .. Len(q) - 1 /\ Tail(q)[i - 1] = q[i]
    BY <1>1
  <2> QED
    BY <1>1, <2>1 DEF Range
<1>6. Range(q) \ {Head(q)} \subseteq Range(Tail(q))
  BY <1>1, <1>5 DEF Range
<1> QED
  BY <1>1, <1>2, <1>3, <1>4, <1>6

\* A list and some others in a set: the set is as large as both together.
LEMMA Crowd ==
    ASSUME NEW S, NEW A, IsFiniteSet(A), NEW q \in Seq(S), IsInjective(q),
           Range(q) \subseteq A, NEW D \in SUBSET A, D \cap Range(q) = {}
    PROVE  Len(q) + Cardinality(D) <= Cardinality(A)
<1>1. Len(q) \in Nat /\ DOMAIN q = 1 .. Len(q)
  BY LenProperties
<1>2. ExistsBijection(1 .. Len(q), Range(q))
  <2>1. q \in [1 .. Len(q) -> Range(q)]
    BY <1>1, SeqDef DEF Range
  <2>2. q \in Injection(1 .. Len(q), Range(q))
    BY <2>1 DEF Injection
  <2>3. q \in Surjection(1 .. Len(q), Range(q))
    BY <1>1, <2>1 DEF Surjection, Range
  <2> QED
    BY <2>2, <2>3 DEF ExistsBijection, Bijection
<1>3. Cardinality(Range(q)) = Len(q)
  BY <1>1, <1>2, FS_CountingElements
<1>4. IsFiniteSet(Range(q)) /\ IsFiniteSet(D)
  BY FS_Subset
<1>5. Cardinality(Range(q) \cup D) = Len(q) + Cardinality(D) - Cardinality(Range(q) \cap D)
  BY <1>3, <1>4, FS_Union
<1>6. Cardinality(Range(q) \cap D) = 0
  BY FS_EmptySet
<1>7. Cardinality(Range(q) \cup D) <= Cardinality(A)
  BY FS_Subset
<1>8. Cardinality(D) \in Nat /\ Cardinality(A) \in Nat
  BY <1>4, FS_CardinalityType
<1> QED
  BY <1>1, <1>5, <1>6, <1>7, <1>8

-----------------------------------------------------------------------------
(* How many threads are at some statements                                 *)

InUse == {t \in Threads : pc[t] # "new"}

PlacesAreKnown ==
    /\ pc = [t \in Threads |-> pc[t]]
    /\ IsFiniteSet(InUse)

LEMMA NumbersAreNatural ==
    ASSUME PlacesAreKnown, NEW S, "new" \notin S
    PROVE  IsFiniteSet({t \in Threads : pc[t] \in S}) /\ Number(S) \in Nat
<1>1. {t \in Threads : pc[t] \in S} \in SUBSET InUse
  BY DEF InUse
<1> QED
  BY <1>1, FS_Subset, FS_CardinalityType DEF PlacesAreKnown, Number

\* One thread goes on with another statement.
LEMMA NumbersAfterStep ==
    ASSUME PlacesAreKnown, NEW u \in Threads, NEW q, pc' = [pc EXCEPT ![u] = q],
           NEW S, "new" \notin S
    PROVE  Number(S)' = IF pc[u] \in S
                        THEN IF q \in S THEN Number(S) ELSE Number(S) - 1
                        ELSE IF q \in S THEN Number(S) + 1 ELSE Number(S)
<1> DEFINE at == {t \in Threads : pc[t] \in S}
           then == {t \in Threads : pc'[t] \in S}
<1>1. IsFiniteSet(at) /\ Number(S) = Cardinality(at) /\ Number(S)' = Cardinality(then)
  BY NumbersAreNatural DEF Number
<1>2. /\ q \in S => then = at \cup {u}
      /\ q \notin S => then = at \ {u}
  BY DEF PlacesAreKnown
<1>3. u \in at <=> pc[u] \in S
  OBVIOUS
<1>4. Number(S) \in Nat
  BY NumbersAreNatural
<1> HIDE DEF at, then
<1>5. CASE q \in S
  BY <1>1, <1>2, <1>3, <1>4, <1>5, FS_AddElement
<1>6. CASE q \notin S
  BY <1>1, <1>2, <1>3, <1>4, <1>6, FS_RemoveElement
<1> QED
  BY <1>5, <1>6

LEMMA PlacesAfterStep ==
    ASSUME PlacesAreKnown, NEW u \in Threads, NEW q, pc' = [pc EXCEPT ![u] = q]
    PROVE  PlacesAreKnown'
<1>1. pc' = [t \in Threads |-> pc'[t]]
  BY DEF PlacesAreKnown
<1>2. InUse' \subseteq InUse \cup {u}
  BY DEF PlacesAreKnown, InUse
<1>3. IsFiniteSet(InUse')
  BY <1>2, FS_AddElement, FS_Subset DEF PlacesAreKnown
<1> QED
  BY <1>1, <1>3 DEF PlacesAreKnown

-----------------------------------------------------------------------------
(* The array                                                               *)

RingIsTyped ==
    /\ buffer \in [0 .. Capacity - 1 -> Threads]
    /\ head \in 0 .. Capacity - 1 /\ tail \in 0 .. Capacity - 1

LEMMA Wrapping ==
    \A x \in 0 .. Capacity + Capacity - 1 :
        /\ x % Capacity \in 0 .. Capacity - 1
        /\ x % Capacity = IF x < Capacity THEN x ELSE x - Capacity
BY KernelBufferAssumption DEF KernelBufferAssumption

LEMMA ElementsAreThreads ==
    ASSUME RingIsTyped, NEW n \in 0 .. Capacity
    PROVE  Elements(n) \in Seq(Threads) /\ Len(Elements(n)) = n
<1>1. \A i \in 1 .. n : (head + i - 1) % Capacity \in 0 .. Capacity - 1
  BY Wrapping, KernelBufferAssumption DEF RingIsTyped, KernelBufferAssumption
<1>2. Elements(n) \in [1 .. n -> Threads]
  BY <1>1 DEF Elements, RingIsTyped
<1>3. n \in Nat
  BY KernelBufferAssumption DEF KernelBufferAssumption
<1> QED
  BY <1>2, <1>3, SeqDef, LenProperties

\* insertIntoBuffer, if there is a free place.
LEMMA PutAppends ==
    ASSUME RingIsTyped, NEW n \in 0 .. Capacity - 1, NEW v \in Threads,
           tail = (head + n) % Capacity, Put(v)
    PROVE  /\ RingIsTyped'
           /\ tail' = (head' + (n + 1)) % Capacity
           /\ Elements(n + 1)' = Append(Elements(n), v)
<1>1. /\ Capacity \in Nat \ {0} /\ n + 1 \in 0 .. Capacity
      /\ head \in 0 .. Capacity - 1 /\ tail \in 0 .. Capacity - 1 /\ head' = head
      /\ buffer' = [buffer EXCEPT ![tail] = v]
      /\ buffer \in [0 .. Capacity - 1 -> Threads]
      /\ tail' = (tail + 1) % Capacity
  BY KernelBufferAssumption DEF KernelBufferAssumption, RingIsTyped, Put
<1>2. RingIsTyped'
  BY <1>1, Wrapping DEF RingIsTyped
<1>3. tail' = (head' + (n + 1)) % Capacity
  <2> DEFINE old == head + n
             new == head + (n + 1)
  <2>1. /\ old \in 0 .. Capacity + Capacity - 1 /\ new \in 0 .. Capacity + Capacity - 1
        /\ tail + 1 \in 0 .. Capacity + Capacity - 1
        /\ new = old + 1 /\ tail = old % Capacity
    BY <1>1
  <2>2. (head' + (n + 1)) % Capacity = new % Capacity
    BY <1>1
  <2> HIDE DEF old, new
  <2>3. tail = IF old < Capacity THEN old ELSE old - Capacity
    BY <2>1, Wrapping
  <2>4. new % Capacity = IF new < Capacity THEN new ELSE new - Capacity
    BY <2>1, Wrapping
  <2>5. tail' = IF tail + 1 < Capacity THEN tail + 1 ELSE tail + 1 - Capacity
    BY <1>1, <2>1, Wrapping
  <2> QED
    BY <1>1, <2>1, <2>2, <2>3, <2>4, <2>5
<1>4. \A i \in 1 .. n : /\ (head + i - 1) % Capacity \in 0 .. Capacity - 1
                        /\ (head + i - 1) % Capacity # tail
  <2> SUFFICES ASSUME NEW i \in 1 .. n
               PROVE  /\ (head + i - 1) % Capacity \in 0 .. Capacity - 1
                      /\ (head + i - 1) % Capacity # tail
    OBVIOUS
  <2> DEFINE at == head + i - 1
             end == head + n
  <2>1. /\ at \in 0 .. Capacity + Capacity - 1 /\ end \in 0 .. Capacity + Capacity - 1
        /\ tail = end % Capacity
        /\ at < end /\ end - at < Capacity + 1 /\ end - at # Capacity
    BY <1>1
  <2> HIDE DEF at, end
  <2>2. /\ at % Capacity \in 0 .. Capacity - 1
        /\ at % Capacity = IF at < Capacity THEN at ELSE at - Capacity
    BY <2>1, Wrapping
  <2>3. tail = IF end < Capacity THEN end ELSE end - Capacity
    BY <2>1, Wrapping
  <2>4. at % Capacity \in 0 .. Capacity - 1 /\ at % Capacity # tail
    BY <1>1, <2>1, <2>2, <2>3
  <2> QED
    BY <2>4 DEF at
<1>5. /\ Elements(n) \in Seq(Threads) /\ Len(Elements(n)) = n
      /\ Elements(n + 1)' \in Seq(Threads) /\ Len(Elements(n + 1)') = n + 1
  <2>1. Elements(n) \in Seq(Threads) /\ Len(Elements(n)) = n
    BY <1>1, ElementsAreThreads
  <2>2. Elements(n + 1)' = [i \in 1 .. n + 1 |-> buffer'[(head' + i - 1) % Capacity]]
    BY DEF Elements
  <2>3. \A i \in 1 .. n + 1 : (head' + i - 1) % Capacity \in 0 .. Capacity - 1
    BY <1>1, Wrapping
  <2>4. Elements(n + 1)' \in [1 .. n + 1 -> Threads]
    BY <1>2, <2>2, <2>3 DEF RingIsTyped
  <2> QED
    BY <1>1, <2>1, <2>4, SeqDef, LenProperties
<1>6. \A i \in 1 .. n : Elements(n + 1)'[i] = Elements(n)[i]
  BY <1>1, <1>4 DEF Elements
<1>7. Elements(n + 1)'[n + 1] = v
  <2>1. Elements(n + 1)'[n + 1] = buffer'[(head' + (n + 1) - 1) % Capacity]
    BY <1>1 DEF Elements
  <2>2. (n + 1) - 1 = n /\ head' + (n + 1) - 1 = head + n
    BY <1>1
  <2> QED
    BY <1>1, <2>1, <2>2
<1>8. Append(Elements(n), v) \in Seq(Threads)
      /\ Len(Append(Elements(n), v)) = n + 1
      /\ \A i \in 1 .. n : Append(Elements(n), v)[i] = Elements(n)[i]
      /\ Append(Elements(n), v)[n + 1] = v
  BY <1>5, AppendProperties
<1>9. \A i \in 1 .. n + 1 : Elements(n + 1)'[i] = Append(Elements(n), v)[i]
  <2> SUFFICES ASSUME NEW i \in 1 .. n + 1
               PROVE  Elements(n + 1)'[i] = Append(Elements(n), v)[i]
    OBVIOUS
  <2>1. CASE i = n + 1
    BY <1>7, <1>8, <2>1
  <2>2. CASE i # n + 1
    <3>1. i \in 1 .. n
      BY <1>1, <2>2
    <3> QED
      BY <1>6, <1>8, <3>1
  <2> QED
    BY <2>1, <2>2
<1>10. Elements(n + 1)' = Append(Elements(n), v)
  BY <1>5, <1>8, <1>9, SeqEqual
<1> QED
  BY <1>2, <1>3, <1>10

\* removeFromBuffer, if there is a character.
LEMMA FetchTakesFirst ==
    ASSUME RingIsTyped, NEW n \in 1 .. Capacity, tail = (head + n) % Capacity, Fetch
    PROVE  /\ RingIsTyped' /\ Fetched \in Threads
           /\ tail' = (head' + (n - 1)) % Capacity
           /\ Elements(n - 1)' \in Seq(Threads)
           /\ Elements(n) = << Fetched >> \o Elements(n - 1)'
<1>1. /\ Capacity \in Nat \ {0} /\ n - 1 \in 0 .. Capacity
      /\ head \in 0 .. Capacity - 1 /\ tail \in 0 .. Capacity - 1
      /\ head' = (head + 1) % Capacity /\ buffer' = buffer /\ tail' = tail
  BY KernelBufferAssumption DEF KernelBufferAssumption, RingIsTyped, Fetch
<1>2. RingIsTyped' /\ Fetched \in Threads
  BY <1>1, Wrapping DEF RingIsTyped, Fetched
<1>3. \A i \in 0 .. n - 1 : (head' + i) % Capacity = (head + (i + 1)) % Capacity
  <2> SUFFICES ASSUME NEW i \in 0 .. n - 1
               PROVE  (head' + i) % Capacity = (head + (i + 1)) % Capacity
    OBVIOUS
  <2> DEFINE at == head + (i + 1)
             then == head' + i
  <2>1. head' \in 0 .. Capacity - 1
    BY <1>2 DEF RingIsTyped
  <2>2. head' = IF head + 1 < Capacity THEN head + 1 ELSE head + 1 - Capacity
    <3>1. head + 1 \in 0 .. Capacity + Capacity - 1
      BY <1>1
    <3> QED
      BY <1>1, <3>1, Wrapping
  <2>3. /\ at \in 0 .. Capacity + Capacity - 1 /\ then \in 0 .. Capacity + Capacity - 1
        /\ IF head + 1 < Capacity THEN then = at ELSE then = at - Capacity
        /\ head + 1 < Capacity \/ at >= Capacity
    BY <1>1, <2>1, <2>2
  <2> HIDE DEF at, then
  <2>4. at % Capacity = IF at < Capacity THEN at ELSE at - Capacity
    BY <2>3, Wrapping
  <2>5. then % Capacity = IF then < Capacity THEN then ELSE then - Capacity
    BY <2>3, Wrapping
  <2>6. then % Capacity = at % Capacity
    BY <1>1, <2>3, <2>4, <2>5
  <2> QED
    BY <2>6 DEF at, then
<1>4. tail' = (head' + (n - 1)) % Capacity
  BY <1>1, <1>3
<1>5. /\ Elements(n) \in Seq(Threads) /\ Len(Elements(n)) = n
      /\ Elements(n - 1)' \in Seq(Threads) /\ Len(Elements(n - 1)') = n - 1
  <2>1. Elements(n) \in Seq(Threads) /\ Len(Elements(n)) = n
    BY <1>1, ElementsAreThreads
  <2>2. Elements(n - 1)' = [i \in 1 .. n - 1 |-> buffer'[(head' + i - 1) % Capacity]]
    BY DEF Elements
  <2>3. \A i \in 1 .. n - 1 : (head' + i - 1) % Capacity \in 0 .. Capacity - 1
    <3>1. head' \in 0 .. Capacity - 1
      BY <1>2 DEF RingIsTyped
    <3>2. \A i \in 1 .. n - 1 : head' + i - 1 \in 0 .. Capacity + Capacity - 1
      BY <1>1, <3>1
    <3> QED
      BY <3>2, Wrapping
  <2>4. Elements(n - 1)' \in [1 .. n - 1 -> Threads]
    BY <1>2, <2>2, <2>3 DEF RingIsTyped
  <2> QED
    BY <1>1, <2>1, <2>4, SeqDef, LenProperties
<1>6. /\ << Fetched >> \in Seq(Threads) /\ Len(<< Fetched >>) = 1
      /\ << Fetched >>[1] = Fetched
  BY <1>2
<1>7. /\ << Fetched >> \o Elements(n - 1)' \in Seq(Threads)
      /\ Len(<< Fetched >> \o Elements(n - 1)') = n
      /\ \A i \in 1 .. n : (<< Fetched >> \o Elements(n - 1)')[i] =
                           IF i <= 1 THEN Fetched ELSE Elements(n - 1)'[i - 1]
  BY <1>1, <1>5, <1>6, ConcatProperties
<1>8. Elements(n)[1] = Fetched
  <2>1. head + 1 - 1 = head /\ head + 0 = head /\ head % Capacity = head
    BY <1>1, Wrapping
  <2> QED
    BY <1>1, <2>1 DEF Elements, Fetched
<1>9. \A i \in 2 .. n : Elements(n)[i] = Elements(n - 1)'[i - 1]
  <2> SUFFICES ASSUME NEW i \in 2 .. n PROVE Elements(n)[i] = Elements(n - 1)'[i - 1]
    OBVIOUS
  <2>1. i - 2 \in 0 .. n - 1 /\ i - 1 \in 1 .. n - 1 /\ i \in 1 .. n
    BY <1>1
  <2>2. (head' + (i - 2)) % Capacity = (head + ((i - 2) + 1)) % Capacity
    BY <1>3, <2>1
  <2>3. head' + (i - 1) - 1 = head' + (i - 2) /\ head + ((i - 2) + 1) = head + i - 1
    BY <1>1, <1>2, <2>1 DEF RingIsTyped
  <2>4. Elements(n)[i] = buffer[(head + i - 1) % Capacity]
    BY <2>1 DEF Elements
  <2>5. Elements(n - 1)'[i - 1] = buffer'[(head' + (i - 1) - 1) % Capacity]
    BY <2>1 DEF Elements
  <2> QED
    BY <1>1, <2>2, <2>3, <2>4, <2>5
<1>10. \A i \in 1 .. n : Elements(n)[i] = (<< Fetched >> \o Elements(n - 1)')[i]
  <2> SUFFICES ASSUME NEW i \in 1 .. n
               PROVE  Elements(n)[i] = (<< Fetched >> \o Elements(n - 1)')[i]
    OBVIOUS
  <2>1. CASE i = 1
    BY <1>7, <1>8, <2>1
  <2>2. CASE i # 1
    <3>1. i \in 2 .. n /\ ~(i <= 1)
      BY <1>1, <2>2
    <3> QED
      BY <1>7, <1>9, <3>1
  <2> QED
    BY <2>1, <2>2
<1>11. Elements(n) = << Fetched >> \o Elements(n - 1)'
  BY <1>5, <1>7, <1>10, SeqEqual
<1> QED
  BY <1>2, <1>4, <1>5, <1>11

-----------------------------------------------------------------------------
(* The inductive invariant                                                 *)

\* The running thread is not in the list, and nobody is in it twice.
ReadyIsRight ==
    /\ runningThread \in Threads /\ ready \in Seq(Threads)
    /\ IsInjective(ready)
    /\ runningThread \notin Range(ready) /\ Idle \notin Range(ready)

\* A thread in the list of a semaphore is behind a wait for it, so it is in no
\* other list.
BlockedAreWaiting ==
    /\ blockedThreads \in [BufferSemaphores -> Seq(Threads)]
    /\ \A s \in BufferSemaphores :
          /\ IsInjective(blockedThreads[s])
          /\ \A t \in Range(blockedThreads[s]) :
                /\ pc[t] \in Behind(s)
                /\ t # runningThread /\ t \notin Range(ready)

ThreadsAreRight ==
    /\ PlacesAreKnown
    /\ \A t \in Threads : pc[t] \in StatementsOf(t)
    /\ ReadyIsRight
    /\ pc[runningThread] # "new" /\ \A t \in Range(ready) : pc[t] # "new"
    /\ BlockedAreWaiting

\* A mutex has one permit less for each thread that has waited for it.
MutexesMatch ==
    \A s \in {"mutexHead", "mutexTail"} : semaphoreValue[s] = 1 - Number(Takers(s))

\* The output thread holds a character from fetch to send, and sends only what
\* the console can take.
HandMatches ==
    /\ newCharacter = << >> <=> pc[Output] \notin {"signalHead", "signalSpace", "send"}
    /\ pc[Output] # "poll" => txReady

ConsoleInv ==
    /\ TypeOK /\ ThreadsAreRight
    /\ MutexesMatch /\ PermitsMatchBuffer
    /\ HandMatches /\ OutputIsInOrder /\ CountIsExact

-----------------------------------------------------------------------------
(* Who is who                                                              *)

LEMMA FourAreDifferent ==
    /\ Main \in Threads /\ UserMain \in Threads /\ Output \in Threads /\ Idle \in Threads
    /\ Main # UserMain /\ Main # Output /\ Main # Idle
    /\ UserMain # Output /\ UserMain # Idle /\ Output # Idle
<1>1. \A a, b, c : Cardinality({a, b, c}) <= 3
  <2> SUFFICES ASSUME NEW a, NEW b, NEW c PROVE Cardinality({a, b, c}) <= 3
    OBVIOUS
  <2>1. IsFiniteSet({a}) /\ Cardinality({a}) = 1
    BY FS_Singleton
  <2>2. {a, b} = {a} \cup {b} /\ {a, b, c} = {a, b} \cup {c}
    OBVIOUS
  <2>3. IsFiniteSet({a, b}) /\ Cardinality({a, b}) <= 2
    BY <2>1, <2>2, FS_AddElement
  <2>4. Cardinality({a, b}) \in Nat
    BY <2>3, FS_CardinalityType
  <2> QED
    BY <2>2, <2>3, <2>4, FS_AddElement
<1>2. ASSUME \E a, b, c : {Main, UserMain, Output, Idle} = {a, b, c} PROVE FALSE
  <2>1. PICK a, b, c : {Main, UserMain, Output, Idle} = {a, b, c}
    BY <1>2
  <2>2. Cardinality({a, b, c}) = 4
    BY <2>1, ConsoleOutputAssumption DEF ConsoleOutputAssumption
  <2>3. Cardinality({a, b, c}) <= 3
    BY <1>1
  <2> QED
    BY <2>2, <2>3
<1>3. /\ Main = UserMain => {Main, UserMain, Output, Idle} = {Main, Output, Idle}
      /\ Main = Output => {Main, UserMain, Output, Idle} = {Main, UserMain, Idle}
      /\ Main = Idle => {Main, UserMain, Output, Idle} = {Main, UserMain, Output}
      /\ UserMain = Output => {Main, UserMain, Output, Idle} = {Main, Output, Idle}
      /\ UserMain = Idle => {Main, UserMain, Output, Idle} = {Main, Output, Idle}
      /\ Output = Idle => {Main, UserMain, Output, Idle} = {Main, UserMain, Output}
  OBVIOUS
<1>4. {Main, UserMain, Output, Idle} \subseteq Threads
  BY ConsoleOutputAssumption DEF ConsoleOutputAssumption
<1> QED
  BY <1>2, <1>3, <1>4

\* A statement tells which thread executes it.
LEMMA WhoIsWhere ==
    ASSUME \A t \in Threads : pc[t] \in StatementsOf(t), NEW t \in Threads
    PROVE  /\ pc[t] \in {"waitSpace", "waitTail", "store", "signalTail", "signalItem"} =>
                 t \in Writers /\ WriterStatements \subseteq StatementsOf(t)
           /\ pc[t] \in {"countWaitHead", "countWaitTail", "count", "countSignalHead",
                         "countSignalTail", "loop", "counted"} =>
                 t = Main /\ StatementsOf(t) = MainStatements
           /\ pc[t] \in {"waitItem", "waitHead", "fetch", "signalHead", "signalSpace",
                         "poll", "send"} =>
                 t = Output /\ StatementsOf(t) = OutputStatements
           /\ pc[t] = "user" => t # Main /\ t # Output
           /\ pc[t] \in {"user", "new"} /\ t # Idle =>
                 t \in Writers /\ StatementsOf(t) = WriterStatements
<1>1. Main # Output /\ Main # Idle /\ Output # Idle
  BY FourAreDifferent
<1>2. pc[t] \in StatementsOf(t)
  OBVIOUS
<1> QED
  BY <1>1, <1>2 DEF StatementsOf, Writers, WriterStatements, MainStatements, OutputStatements

-----------------------------------------------------------------------------
(* The processor and the lists                                             *)

LEMMA EnqueueKeeps ==
    ASSUME NEW q \in Seq(Threads), IsInjective(q), Idle \notin Range(q),
           NEW t \in Threads, t \notin Range(q)
    PROVE  /\ Enqueue(q, t) \in Seq(Threads) /\ IsInjective(Enqueue(q, t))
           /\ Idle \notin Range(Enqueue(q, t))
           /\ Range(Enqueue(q, t)) \subseteq Range(q) \cup {t}
<1>1. CASE t = Idle
  BY <1>1 DEF Enqueue
<1>2. CASE t # Idle
  BY <1>2, LastJoins DEF Enqueue
<1> QED
  BY <1>1, <1>2

LEMMA SwitchKeeps ==
    ASSUME NEW q \in Seq(Threads), IsInjective(q), Idle \notin Range(q),
           NEW how, NEW now, SwitchTo(q, how, now)
    PROVE  /\ ReadyIsRight'
           /\ Range(ready') \cup {runningThread'} \subseteq Range(q) \cup {Idle}
<1>1. /\ Idle \in Threads
      /\ runningThread' = IF q = << >> THEN Idle ELSE Head(q)
      /\ ready' = IF q = << >> THEN q ELSE Tail(q)
  BY FourAreDifferent DEF SwitchTo, First, Rest
<1>2. CASE q = << >>
  <2>1. Range(q) = {}
    BY <1>2 DEF Range
  <2> QED
    BY <1>1, <1>2, <2>1 DEF ReadyIsRight
<1>3. CASE q # << >>
  BY <1>1, <1>3, FirstLeaves DEF ReadyIsRight
<1> QED
  BY <1>2, <1>3

LEMMA SwitchTypes ==
    ASSUME interrupts \in {"on", "off"}, resumesWith \in [Threads -> {"on", "off", "as is"}],
           NEW q, NEW how \in {"on", "off", "as is"}, NEW now \in {"on", "off"},
           SwitchTo(q, how, now), runningThread' \in Threads
    PROVE  /\ interrupts' \in {"on", "off"}
           /\ resumesWith' \in [Threads -> {"on", "off", "as is"}]
<1>1. resumesWith' \in [Threads -> {"on", "off", "as is"}]
  BY DEF SwitchTo
<1>2. /\ runningThread' = First(q)
      /\ interrupts' = IF resumesWith'[First(q)] = "as is" THEN now ELSE resumesWith'[First(q)]
  BY DEF SwitchTo
<1>3. resumesWith'[First(q)] \in {"on", "off", "as is"}
  BY <1>1, <1>2
<1> QED
  BY <1>1, <1>2, <1>3

\* A step of the running thread, or of a new one, that leaves the lists of
\* the semaphores alone.
LEMMA NobodyBlocks ==
    ASSUME ThreadsAreRight, UNCHANGED blockedThreads, ReadyIsRight',
           NEW u \in Threads, u = runningThread \/ pc[u] = "new",
           NEW q \in StatementsOf(u), q # "new", pc' = [pc EXCEPT ![u] = q],
           Range(ready') \cup {runningThread'} \subseteq
              Range(ready) \cup {runningThread, Idle, u}
    PROVE  ThreadsAreRight'
<1>1. PlacesAreKnown'
  BY PlacesAfterStep DEF ThreadsAreRight
<1>2. \A t \in Threads : pc'[t] = IF t = u THEN q ELSE pc[t]
  BY DEF ThreadsAreRight, PlacesAreKnown
<1>3. \A t \in Threads : pc'[t] \in StatementsOf(t)
  BY <1>2 DEF ThreadsAreRight
<1>4. pc[Idle] = "user" /\ Idle \in Threads
  BY FourAreDifferent DEF ThreadsAreRight, StatementsOf
<1>5. Range(ready') \subseteq Threads /\ runningThread' \in Threads
  BY SeqDef DEF ReadyIsRight, Range
<1>6. pc'[runningThread'] # "new" /\ \A t \in Range(ready') : pc'[t] # "new"
  BY <1>2, <1>4, <1>5 DEF ThreadsAreRight
<1>7. ASSUME NEW s \in BufferSemaphores, NEW t \in Range(blockedThreads[s])
      PROVE  pc'[t] \in Behind(s) /\ t # runningThread' /\ t \notin Range(ready')
  <2>1. /\ pc[t] \in Behind(s) /\ t # runningThread /\ t \notin Range(ready)
        /\ blockedThreads[s] \in Seq(Threads)
    BY <1>7 DEF ThreadsAreRight, BlockedAreWaiting
  <2>2. t \in Threads
    BY <1>7, <2>1, SeqDef DEF Range
  <2>3. pc[t] # "new" /\ pc[t] # "user"
    BY <2>1 DEF Behind
  <2> QED
    BY <1>2, <1>4, <2>1, <2>2, <2>3
<1>8. BlockedAreWaiting'
  BY <1>7 DEF ThreadsAreRight, BlockedAreWaiting
<1> QED
  BY <1>1, <1>3, <1>6, <1>8 DEF ThreadsAreRight

\* The same for a step that leaves the processor alone.
LEMMA OnlyGoesOn ==
    ASSUME ThreadsAreRight, UNCHANGED << blockedThreads, ready, runningThread >>,
           NEW q \in StatementsOf(runningThread), q # "new",
           pc' = [pc EXCEPT ![runningThread] = q]
    PROVE  ThreadsAreRight'
<1>1. ReadyIsRight /\ runningThread \in Threads
  BY DEF ThreadsAreRight, ReadyIsRight
<1>2. ReadyIsRight'
  BY <1>1 DEF ReadyIsRight
<1> QED
  BY <1>1, <1>2, NobodyBlocks

LEMMA BehindIsDisjoint ==
    ASSUME NEW s \in BufferSemaphores, NEW r \in BufferSemaphores, s # r
    PROVE  Behind(s) \cap Behind(r) = {}
BY DEF BufferSemaphores, Behind

LEMMA RunningBlocks ==
    ASSUME ThreadsAreRight, NEW s \in BufferSemaphores,
           blockedThreads' = [blockedThreads EXCEPT ![s] = Append(@, runningThread)],
           SuspendCurrentThread,
           NEW q \in Behind(s), q \in StatementsOf(runningThread),
           pc' = [pc EXCEPT ![runningThread] = q]
    PROVE  ThreadsAreRight'
<1>1. /\ ReadyIsRight /\ PlacesAreKnown /\ BlockedAreWaiting
      /\ blockedThreads \in [BufferSemaphores -> Seq(Threads)]
      /\ runningThread \in Threads /\ ready \in Seq(Threads) /\ IsInjective(ready)
      /\ runningThread \notin Range(ready) /\ Idle \notin Range(ready)
  BY DEF ThreadsAreRight, ReadyIsRight, BlockedAreWaiting
<1>2. q # "new" /\ q # "user" /\ runningThread # Idle
  BY FourAreDifferent DEF Behind, StatementsOf
<1>3. ReadyIsRight' /\ Range(ready') \cup {runningThread'} \subseteq Range(ready) \cup {Idle}
  BY <1>1, SwitchKeeps DEF SuspendCurrentThread
<1>4. \A t \in Threads : pc'[t] = IF t = runningThread THEN q ELSE pc[t]
  BY <1>1 DEF PlacesAreKnown
<1>5. PlacesAreKnown'
  BY <1>1, PlacesAfterStep
<1>6. \A t \in Threads : pc'[t] \in StatementsOf(t)
  BY <1>4 DEF ThreadsAreRight
<1>7. pc[Idle] = "user" /\ Idle \in Threads
  BY FourAreDifferent DEF ThreadsAreRight, StatementsOf
<1>8. pc'[runningThread'] # "new" /\ \A t \in Range(ready') : pc'[t] # "new"
  <2>1. Range(ready') \subseteq Threads /\ runningThread' \in Threads
    BY <1>3, SeqDef DEF ReadyIsRight, Range
  <2> QED
    BY <1>2, <1>3, <1>4, <1>7, <2>1 DEF ThreadsAreRight
<1>9. ASSUME NEW r \in BufferSemaphores
      PROVE  /\ IsInjective(blockedThreads'[r])
             /\ \A t \in Range(blockedThreads'[r]) :
                   pc'[t] \in Behind(r) /\ t # runningThread' /\ t \notin Range(ready')
  <2>1. /\ blockedThreads[r] \in Seq(Threads) /\ IsInjective(blockedThreads[r])
        /\ \A t \in Range(blockedThreads[r]) :
              pc[t] \in Behind(r) /\ t # runningThread /\ t \notin Range(ready)
    BY <1>1 DEF BlockedAreWaiting
  <2>2. \A t \in Range(blockedThreads[r]) : t \in Threads /\ t # Idle
    BY <1>7, <2>1, SeqDef DEF Range, Behind
  <2>3. CASE r # s
    <3>1. blockedThreads'[r] = blockedThreads[r]
      BY <1>1, <2>3
    <3> QED
      BY <1>3, <1>4, <2>1, <2>2, <3>1
  <2>4. CASE r = s
    <3>1. blockedThreads'[r] = Append(blockedThreads[r], runningThread)
      BY <1>1, <2>4
    <3>2. /\ IsInjective(blockedThreads'[r])
          /\ Range(blockedThreads'[r]) = Range(blockedThreads[r]) \cup {runningThread}
      BY <1>1, <2>1, <3>1, LastJoins
    <3>3. /\ runningThread # runningThread' /\ runningThread \notin Range(ready')
      BY <1>1, <1>2, <1>3
    <3> QED
      BY <1>1, <1>3, <1>4, <2>1, <2>2, <2>4, <3>2, <3>3
  <2> QED
    BY <2>3, <2>4
<1>10. blockedThreads' \in [BufferSemaphores -> Seq(Threads)]
  BY <1>1
<1>11. BlockedAreWaiting'
  BY <1>9, <1>10 DEF BlockedAreWaiting
<1> QED
  BY <1>3, <1>5, <1>6, <1>8, <1>11 DEF ThreadsAreRight

LEMMA FirstIsReleased ==
    ASSUME ThreadsAreRight, NEW s \in BufferSemaphores, blockedThreads[s] # << >>,
           ready' = Enqueue(ready, Head(blockedThreads[s])),
           blockedThreads' = [blockedThreads EXCEPT ![s] = Tail(@)],
           UNCHANGED runningThread,
           NEW q \in StatementsOf(runningThread), q # "new",
           pc' = [pc EXCEPT ![runningThread] = q]
    PROVE  ThreadsAreRight'
<1> DEFINE h == Head(blockedThreads[s])
<1>1. /\ ReadyIsRight /\ PlacesAreKnown /\ BlockedAreWaiting
      /\ blockedThreads \in [BufferSemaphores -> Seq(Threads)]
      /\ runningThread \in Threads /\ ready \in Seq(Threads) /\ IsInjective(ready)
      /\ runningThread \notin Range(ready) /\ Idle \notin Range(ready)
  BY DEF ThreadsAreRight, ReadyIsRight, BlockedAreWaiting
<1>2. /\ h \in Threads /\ h \in Range(blockedThreads[s])
      /\ Tail(blockedThreads[s]) \in Seq(Threads)
      /\ Range(Tail(blockedThreads[s])) = Range(blockedThreads[s]) \ {h}
      /\ IsInjective(Tail(blockedThreads[s]))
  BY <1>1, FirstLeaves DEF BlockedAreWaiting
<1>3. pc[h] \in Behind(s) /\ h # runningThread /\ h \notin Range(ready)
  BY <1>1, <1>2 DEF BlockedAreWaiting
<1> HIDE DEF h
<1>4. /\ ready' \in Seq(Threads) /\ IsInjective(ready') /\ Idle \notin Range(ready')
      /\ Range(ready') \subseteq Range(ready) \cup {h}
  BY <1>1, <1>2, <1>3, EnqueueKeeps DEF h
<1>5. ReadyIsRight'
  BY <1>1, <1>3, <1>4 DEF ReadyIsRight
<1>6. \A t \in Threads : pc'[t] = IF t = runningThread THEN q ELSE pc[t]
  BY <1>1 DEF PlacesAreKnown
<1>7. PlacesAreKnown'
  BY <1>1, PlacesAfterStep
<1>8. \A t \in Threads : pc'[t] \in StatementsOf(t)
  BY <1>6 DEF ThreadsAreRight
<1>9. pc'[runningThread'] # "new" /\ \A t \in Range(ready') : pc'[t] # "new"
  <2>1. Range(ready') \subseteq Threads
    BY <1>4, SeqDef DEF Range
  <2>2. pc[h] # "new"
    BY <1>3 DEF Behind
  <2> QED
    BY <1>1, <1>4, <1>6, <2>1, <2>2 DEF ThreadsAreRight
<1>10. ASSUME NEW r \in BufferSemaphores
       PROVE  /\ IsInjective(blockedThreads'[r])
              /\ \A t \in Range(blockedThreads'[r]) :
                    pc'[t] \in Behind(r) /\ t # runningThread' /\ t \notin Range(ready')
  <2>1. /\ blockedThreads[r] \in Seq(Threads) /\ IsInjective(blockedThreads[r])
        /\ \A t \in Range(blockedThreads[r]) :
              pc[t] \in Behind(r) /\ t # runningThread /\ t \notin Range(ready)
    BY <1>1 DEF BlockedAreWaiting
  <2>2. \A t \in Range(blockedThreads[r]) : t \in Threads
    BY <2>1, SeqDef DEF Range
  <2>3. /\ IsInjective(blockedThreads'[r])
        /\ Range(blockedThreads'[r]) \subseteq Range(blockedThreads[r]) \ {h}
    <3>1. CASE r = s
      <4>1. blockedThreads'[r] = Tail(blockedThreads[s])
        BY <1>1, <3>1
      <4> QED
        BY <1>2, <3>1, <4>1
    <3>2. CASE r # s
      <4>1. blockedThreads'[r] = blockedThreads[r]
        BY <1>1, <3>2
      <4>2. h \notin Range(blockedThreads[r])
        BY <1>3, <2>1, <3>2, BehindIsDisjoint
      <4> QED
        BY <2>1, <4>1, <4>2
    <3> QED
      BY <3>1, <3>2
  <2> QED
    BY <1>4, <1>6, <2>1, <2>2, <2>3
<1>11. blockedThreads' \in [BufferSemaphores -> Seq(Threads)]
  BY <1>1, <1>2
<1>12. BlockedAreWaiting'
  BY <1>10, <1>11 DEF BlockedAreWaiting
<1> QED
  BY <1>5, <1>7, <1>8, <1>9, <1>12 DEF ThreadsAreRight

-----------------------------------------------------------------------------
(* Permits, waiting threads and threads at the statements between          *)

ListLengths ==
    \A s \in BufferSemaphores :
        Len(blockedThreads[s]) = IF semaphoreValue[s] < 0 THEN -semaphoreValue[s] ELSE 0

SemaphoresAreTyped ==
    /\ semaphoreValue \in [BufferSemaphores -> Int]
    /\ blockedThreads \in [BufferSemaphores -> Seq(Threads)]

LEMMA WaitTakesOne ==
    ASSUME SemaphoresAreTyped, ListLengths, NEW s \in BufferSemaphores,
           runningThread \in Threads,
           WaitPasses(s) \/ WaitBlocks(s, runningThread)
    PROVE  /\ SemaphoresAreTyped' /\ ListLengths'
           /\ \A r \in BufferSemaphores :
                 semaphoreValue'[r] = IF r = s THEN semaphoreValue[r] - 1 ELSE semaphoreValue[r]
<1>1. /\ semaphoreValue' \in [BufferSemaphores -> Int]
      /\ \A r \in BufferSemaphores :
            semaphoreValue'[r] = IF r = s THEN semaphoreValue[r] - 1 ELSE semaphoreValue[r]
  BY DEF SemaphoresAreTyped, WaitPasses, WaitBlocks, Decrement
<1>2. /\ semaphoreValue[s] \in Int /\ blockedThreads[s] \in Seq(Threads)
      /\ Len(blockedThreads[s]) \in Nat
      /\ Len(Append(blockedThreads[s], runningThread)) = Len(blockedThreads[s]) + 1
      /\ Append(blockedThreads[s], runningThread) \in Seq(Threads)
  BY AppendProperties, LenProperties DEF SemaphoresAreTyped
<1>3. CASE WaitPasses(s)
  <2>1. semaphoreValue[s] - 1 >= 0 /\ blockedThreads' = blockedThreads
    BY <1>3 DEF WaitPasses
  <2>2. \A r \in BufferSemaphores :
           Len(blockedThreads'[r]) = IF semaphoreValue'[r] < 0 THEN -semaphoreValue'[r] ELSE 0
    <3> SUFFICES ASSUME NEW r \in BufferSemaphores
                 PROVE  Len(blockedThreads[r]) =
                           IF semaphoreValue'[r] < 0 THEN -semaphoreValue'[r] ELSE 0
      BY <2>1
    <3>1. /\ semaphoreValue[r] \in Int
          /\ Len(blockedThreads[r]) = IF semaphoreValue[r] < 0 THEN -semaphoreValue[r] ELSE 0
          /\ semaphoreValue'[r] = IF r = s THEN semaphoreValue[r] - 1 ELSE semaphoreValue[r]
      BY <1>1 DEF SemaphoresAreTyped, ListLengths
    <3> QED
      BY <1>1, <1>2, <2>1, <3>1
  <2> QED
    BY <1>1, <2>1, <2>2 DEF SemaphoresAreTyped, ListLengths
<1>4. CASE WaitBlocks(s, runningThread)
  <2>1. /\ semaphoreValue[s] - 1 < 0
        /\ blockedThreads' = [blockedThreads EXCEPT ![s] = Append(@, runningThread)]
    BY <1>4 DEF WaitBlocks
  <2>2. blockedThreads' \in [BufferSemaphores -> Seq(Threads)]
    BY <1>2, <2>1 DEF SemaphoresAreTyped
  <2>3. \A r \in BufferSemaphores :
           Len(blockedThreads'[r]) = IF r = s THEN Len(blockedThreads[r]) + 1
                                     ELSE Len(blockedThreads[r])
    BY <1>2, <2>1 DEF SemaphoresAreTyped
  <2> QED
    BY <1>1, <1>2, <2>1, <2>2, <2>3 DEF SemaphoresAreTyped, ListLengths
<1> QED
  BY <1>3, <1>4

LEMMA SignalGivesOne ==
    ASSUME SemaphoresAreTyped, ListLengths, NEW s \in BufferSemaphores, Signal(s)
    PROVE  /\ SemaphoresAreTyped' /\ ListLengths'
           /\ \A r \in BufferSemaphores :
                 semaphoreValue'[r] = IF r = s THEN semaphoreValue[r] + 1 ELSE semaphoreValue[r]
           /\ \/ UNCHANGED << blockedThreads, ready >>
              \/ /\ blockedThreads[s] # << >>
                 /\ ready' = Enqueue(ready, Head(blockedThreads[s]))
                 /\ blockedThreads' = [blockedThreads EXCEPT ![s] = Tail(@)]
<1>1. /\ semaphoreValue' \in [BufferSemaphores -> Int]
      /\ \A r \in BufferSemaphores :
            semaphoreValue'[r] = IF r = s THEN semaphoreValue[r] + 1 ELSE semaphoreValue[r]
  BY DEF SemaphoresAreTyped, Signal
<1>2. /\ semaphoreValue[s] \in Int /\ blockedThreads[s] \in Seq(Threads)
      /\ Len(blockedThreads[s]) \in Nat
      /\ Len(blockedThreads[s]) =
            IF semaphoreValue[s] < 0 THEN -semaphoreValue[s] ELSE 0
  BY LenProperties DEF SemaphoresAreTyped, ListLengths
<1>3. CASE semaphoreValue[s] + 1 > 0
  <2>1. blockedThreads' = blockedThreads /\ ready' = ready
    BY <1>2, <1>3 DEF Signal
  <2>2. \A r \in BufferSemaphores :
           Len(blockedThreads'[r]) = IF semaphoreValue'[r] < 0 THEN -semaphoreValue'[r] ELSE 0
    <3> SUFFICES ASSUME NEW r \in BufferSemaphores
                 PROVE  Len(blockedThreads[r]) =
                           IF semaphoreValue'[r] < 0 THEN -semaphoreValue'[r] ELSE 0
      BY <2>1
    <3>1. /\ semaphoreValue[r] \in Int
          /\ Len(blockedThreads[r]) = IF semaphoreValue[r] < 0 THEN -semaphoreValue[r] ELSE 0
          /\ semaphoreValue'[r] = IF r = s THEN semaphoreValue[r] + 1 ELSE semaphoreValue[r]
      BY <1>1 DEF SemaphoresAreTyped, ListLengths
    <3> QED
      BY <1>1, <1>2, <1>3, <2>1, <3>1
  <2> QED
    BY <1>1, <2>1, <2>2 DEF SemaphoresAreTyped, ListLengths
<1>4. CASE semaphoreValue[s] + 1 <= 0
  <2>1. /\ ready' = Enqueue(ready, Head(blockedThreads[s]))
        /\ blockedThreads' = [blockedThreads EXCEPT ![s] = Tail(@)]
    BY <1>2, <1>4 DEF Signal
  <2>2. Len(blockedThreads[s]) > 0 /\ blockedThreads[s] # << >>
    BY <1>2, <1>4
  <2>3. /\ Tail(blockedThreads[s]) \in Seq(Threads)
        /\ Len(Tail(blockedThreads[s])) = Len(blockedThreads[s]) - 1
    BY <1>2, <2>2, HeadTailProperties
  <2>4. blockedThreads' \in [BufferSemaphores -> Seq(Threads)]
    BY <2>1, <2>3 DEF SemaphoresAreTyped
  <2>5. \A r \in BufferSemaphores :
           Len(blockedThreads'[r]) = IF r = s THEN Len(blockedThreads[r]) - 1
                                     ELSE Len(blockedThreads[r])
    BY <2>1, <2>3 DEF SemaphoresAreTyped
  <2> QED
    BY <1>1, <1>2, <1>4, <2>1, <2>2, <2>4, <2>5 DEF SemaphoresAreTyped, ListLengths
<1> QED
  BY <1>2, <1>3, <1>4

\* The sets of statements that the invariant counts.
PlacesTaken == {"waitTail", "store"}
PlacesNotGiven == {"signalHead", "signalSpace"}
ItemsTaken == {"waitHead", "fetch"}
ItemsNotGiven == {"signalTail", "signalItem"}

ItemPermits == Buffered - Number(ItemsTaken) - Number(ItemsNotGiven)
PlacePermits == Capacity - Buffered - Number(PlacesTaken) - Number(PlacesNotGiven)

LEMMA PermitsInParts ==
    PermitsMatchBuffer <=> /\ semaphoreValue["spaceAvailable"] = PlacePermits
                           /\ semaphoreValue["itemAvailable"] = ItemPermits
                           /\ ListLengths
BY DEF PermitsMatchBuffer, ItemPermits, PlacePermits, ListLengths, PlacesTaken,
       PlacesNotGiven, ItemsTaken, ItemsNotGiven

\* What a step of u from its statement to q does to the number at S.
Moved(u, q, S) == IF pc[u] \in S
                  THEN IF q \in S THEN 0 ELSE -1
                  ELSE IF q \in S THEN 1 ELSE 0

CountedSets == {PlacesTaken, PlacesNotGiven, ItemsTaken, ItemsNotGiven,
                Takers("mutexHead"), Takers("mutexTail")}

LEMMA NumbersMove ==
    ASSUME PlacesAreKnown, NEW u \in Threads, NEW q, pc' = [pc EXCEPT ![u] = q]
    PROVE  \A S \in CountedSets : Number(S) \in Nat /\ Number(S)' = Number(S) + Moved(u, q, S)
<1> SUFFICES ASSUME NEW S \in CountedSets
             PROVE  Number(S) \in Nat /\ Number(S)' = Number(S) + Moved(u, q, S)
  OBVIOUS
<1>1. "new" \notin S
  BY DEF CountedSets, PlacesTaken, PlacesNotGiven, ItemsTaken, ItemsNotGiven, Takers
<1>2. Number(S) \in Nat
  BY <1>1, NumbersAreNatural
<1>3. Number(S)' = IF pc[u] \in S
                   THEN IF q \in S THEN Number(S) ELSE Number(S) - 1
                   ELSE IF q \in S THEN Number(S) + 1 ELSE Number(S)
  BY <1>1, NumbersAfterStep
<1> QED
  BY <1>2, <1>3 DEF Moved

-----------------------------------------------------------------------------
(* Waiting and signalling                                                  *)

HandStatements == {"signalHead", "signalSpace", "send"}

LEMMA WaitGoesOn ==
    ASSUME NEW p \in DOMAIN WaitsFor
    PROVE  /\ WaitsFor[p] \in BufferSemaphores
           /\ After[p] \in Behind(WaitsFor[p])
           /\ {p, After[p]} \cap HandStatements = {}
           /\ p # "poll" /\ After[p] \notin {"poll", "new", "countSignalHead"}
           /\ p \in WriterStatements => p \in DOMAIN InsertOrder /\ After[p] \in WriterStatements
           /\ p \in MainStatements => After[p] \in MainStatements
           /\ p \in OutputStatements => After[p] \in OutputStatements
BY WaitStatements DEF Behind, BufferSemaphores, HandStatements, WriterStatements,
                      MainStatements, OutputStatements, InsertOrder

LEMMA SignalGoesOn ==
    ASSUME NEW p \in DOMAIN Signals
    PROVE  /\ Signals[p] \in BufferSemaphores
           /\ p \in HandStatements <=> After[p] \in HandStatements
           /\ p # "poll" /\ After[p] \notin {"poll", "new", "countSignalHead"}
           /\ p \in WriterStatements => p \in DOMAIN InsertOrder /\ After[p] \in WriterStatements
           /\ p \in MainStatements => After[p] \in MainStatements
           /\ p \in OutputStatements => After[p] \in OutputStatements
BY SignalStatements DEF BufferSemaphores, HandStatements, WriterStatements,
                        MainStatements, OutputStatements, InsertOrder

\* A wait is followed by a statement that the permit it takes accounts for.
LEMMA WaitMoves ==
    ASSUME NEW u \in Threads, pc[u] \in DOMAIN WaitsFor
    PROVE  LET s == WaitsFor[pc[u]]
               q == After[pc[u]]
           IN  /\ Moved(u, q, PlacesTaken) = IF s = "spaceAvailable" THEN 1 ELSE 0
               /\ Moved(u, q, ItemsTaken) = IF s = "itemAvailable" THEN 1 ELSE 0
               /\ Moved(u, q, PlacesNotGiven) = 0 /\ Moved(u, q, ItemsNotGiven) = 0
               /\ Moved(u, q, Takers("mutexHead")) = IF s = "mutexHead" THEN 1 ELSE 0
               /\ Moved(u, q, Takers("mutexTail")) = IF s = "mutexTail" THEN 1 ELSE 0
<1>1. pc[u] \in {"waitSpace", "waitTail", "waitItem", "waitHead",
                 "countWaitHead", "countWaitTail"}
  BY WaitStatements
<1> QED
  BY <1>1, WaitStatements DEF Moved, PlacesTaken, PlacesNotGiven, ItemsTaken, ItemsNotGiven, Takers

LEMMA SignalMoves ==
    ASSUME NEW u \in Threads, pc[u] \in DOMAIN Signals
    PROVE  LET s == Signals[pc[u]]
               q == After[pc[u]]
           IN  /\ Moved(u, q, PlacesTaken) = 0 /\ Moved(u, q, ItemsTaken) = 0
               /\ Moved(u, q, PlacesNotGiven) = IF s = "spaceAvailable" THEN -1 ELSE 0
               /\ Moved(u, q, ItemsNotGiven) = IF s = "itemAvailable" THEN -1 ELSE 0
               /\ Moved(u, q, Takers("mutexHead")) = IF s = "mutexHead" THEN -1 ELSE 0
               /\ Moved(u, q, Takers("mutexTail")) = IF s = "mutexTail" THEN -1 ELSE 0
<1>1. pc[u] \in {"signalTail", "signalItem", "signalHead", "signalSpace",
                 "countSignalHead", "countSignalTail"}
  BY SignalStatements
<1> QED
  BY <1>1, SignalStatements DEF Moved, PlacesTaken, PlacesNotGiven, ItemsTaken, ItemsNotGiven, Takers

\* Steps that leave the array and the character in hand alone.
LEMMA SameArray ==
    ASSUME UNCHANGED << ringVars, stored, sent, newCharacter >>
    PROVE  Buffered' = Buffered /\ (OutputIsInOrder => OutputIsInOrder')
BY DEF ringVars, Buffered, OutputIsInOrder, Elements

LEMMA SameHand ==
    ASSUME HandMatches, CountIsExact, PlacesAreKnown,
           NEW u \in Threads, NEW q, pc' = [pc EXCEPT ![u] = q],
           pc[u] \in HandStatements <=> q \in HandStatements,
           u = Output /\ pc[u] = "poll" => q = "poll" \/ txReady,
           q # "countSignalHead", Buffered' = Buffered,
           UNCHANGED << newCharacter, txReady, elements >>
    PROVE  HandMatches' /\ CountIsExact'
<1>1. \A t \in Threads : pc'[t] = IF t = u THEN q ELSE pc[t]
  BY DEF PlacesAreKnown
<1>2. Main \in Threads /\ Output \in Threads
  BY FourAreDifferent
<1>3. HandMatches'
  <2>1. newCharacter' = newCharacter /\ txReady' = txReady
    OBVIOUS
  <2>2. pc[Output] \in HandStatements <=> pc'[Output] \in HandStatements
    BY <1>1, <1>2
  <2>3. pc'[Output] # "poll" => pc[Output] # "poll" \/ txReady
    BY <1>1, <1>2
  <2>4. newCharacter = << >> <=> pc[Output] \notin HandStatements
    BY DEF HandMatches, HandStatements
  <2>5. pc'[Output] # "poll" => txReady
    BY <2>3, Zenon DEF HandMatches
  <2>6. newCharacter' = << >> <=> pc'[Output] \notin HandStatements
    BY <2>1, <2>2, <2>4
  <2>7. pc'[Output] # "poll" => txReady'
    BY <2>1, <2>5
  <2> QED
    BY <2>6, <2>7, Zenon DEF HandMatches, HandStatements
<1>4. CountIsExact'
  BY <1>1, <1>2 DEF CountIsExact
<1> QED
  BY <1>3, <1>4

LEMMA InvFacts ==
    ASSUME ConsoleInv
    PROVE  /\ SemaphoresAreTyped /\ ListLengths /\ PlacesAreKnown /\ ReadyIsRight
           /\ runningThread \in Threads /\ pc[runningThread] \in StatementsOf(runningThread)
           /\ pc[runningThread] # "new"
           /\ Capacity \in Nat \ {0} /\ Buffered \in 0 .. Capacity
           /\ interrupts \in {"on", "off"} /\ resumesWith \in [Threads -> {"on", "off", "as is"}]
           /\ \A S \in CountedSets : Number(S) \in Nat
           /\ \A t \in Threads : pc[t] \in StatementsOf(t)
           /\ BlockedAreWaiting
<1>1. \A S \in CountedSets : Number(S) \in Nat
  <2> SUFFICES ASSUME NEW S \in CountedSets PROVE Number(S) \in Nat
    OBVIOUS
  <2>1. "new" \notin S
    BY DEF CountedSets, PlacesTaken, PlacesNotGiven, ItemsTaken, ItemsNotGiven, Takers
  <2> QED
    BY <2>1, NumbersAreNatural DEF ConsoleInv, ThreadsAreRight
<1> QED
  BY <1>1, PermitsInParts, KernelBufferAssumption
  DEF ConsoleInv, TypeOK, ThreadsAreRight, ReadyIsRight, BlockedAreWaiting, SemaphoresAreTyped,
      OutputIsInOrder, KernelBufferAssumption

\* Where the running thread goes on is one of its own statements.
LEMMA OwnStatement ==
    ASSUME \A t \in Threads : pc[t] \in StatementsOf(t), NEW t \in Threads, NEW q,
           pc[t] \in DOMAIN WaitsFor \cup DOMAIN Signals, q = After[pc[t]]
    PROVE  q \in StatementsOf(t)
<1>1. pc[t] \in {"waitSpace", "waitTail", "waitItem", "waitHead", "countWaitHead",
                 "countWaitTail", "signalTail", "signalItem", "signalHead", "signalSpace",
                 "countSignalHead", "countSignalTail"}
  BY WaitStatements, SignalStatements
<1>2. CASE pc[t] \in {"waitSpace", "waitTail", "signalTail", "signalItem"}
  BY <1>2, WhoIsWhere, WaitStatements, SignalStatements DEF WriterStatements
<1>3. CASE pc[t] \in {"waitItem", "waitHead", "signalHead", "signalSpace"}
  BY <1>3, WhoIsWhere, WaitStatements, SignalStatements DEF OutputStatements
<1>4. CASE pc[t] \in {"countWaitHead", "countWaitTail", "countSignalHead", "countSignalTail"}
  BY <1>4, WhoIsWhere, WaitStatements, SignalStatements DEF MainStatements
<1> QED
  BY <1>1, <1>2, <1>3, <1>4

\* What TypeOK says beyond the other parts of the invariant.
RestIsTyped ==
    /\ interrupts \in {"on", "off"}
    /\ resumesWith \in [Threads -> {"on", "off", "as is"}]
    /\ RingIsTyped
    /\ newCharacter \in {<< >>} \cup {<< t >> : t \in Threads}
    /\ elements \in 0 .. Capacity
    /\ stored \in Seq(Writers) /\ sent \in Seq(Writers)

Flags == {txReady, halted, preempted} \subseteq BOOLEAN

LEMMA TypesInParts ==
    ASSUME ReadyIsRight, PlacesAreKnown, SemaphoresAreTyped
    PROVE  TypeOK <=> RestIsTyped /\ Flags
<1>1. DOMAIN pc = Threads
  BY DEF PlacesAreKnown
<1> QED
  BY <1>1 DEF TypeOK, RestIsTyped, Flags, ReadyIsRight, SemaphoresAreTyped, RingIsTyped

LEMMA TypesInPartsNext ==
    ASSUME ReadyIsRight', PlacesAreKnown', SemaphoresAreTyped', RestIsTyped', Flags'
    PROVE  TypeOK'
<1>1. DOMAIN pc' = Threads
  BY DEF PlacesAreKnown
<1> QED
  BY <1>1 DEF TypeOK, RestIsTyped, Flags, ReadyIsRight, SemaphoresAreTyped, RingIsTyped

LEMMA BufferedIsNat ==
    ASSUME ConsoleInv
    PROVE  Buffered \in Nat /\ Buffered <= Capacity /\ Capacity \in Nat \ {0}
<1>1. Capacity \in Nat \ {0} /\ Buffered \in 0 .. Capacity
  BY InvFacts
<1> QED
  BY <1>1

\* A permit that is taken or given is one thread more or less at a statement
\* that it accounts for.
ChangesAgree ==
    /\ Buffered' + Number(PlacesTaken)' + Number(PlacesNotGiven)' - Buffered
          - Number(PlacesTaken) - Number(PlacesNotGiven)
          = semaphoreValue["spaceAvailable"] - semaphoreValue'["spaceAvailable"]
    /\ Number(ItemsTaken)' + Number(ItemsNotGiven)' - Buffered' - Number(ItemsTaken)
          - Number(ItemsNotGiven) + Buffered
          = semaphoreValue["itemAvailable"] - semaphoreValue'["itemAvailable"]
    /\ Number(Takers("mutexHead"))' - Number(Takers("mutexHead"))
          = semaphoreValue["mutexHead"] - semaphoreValue'["mutexHead"]
    /\ Number(Takers("mutexTail"))' - Number(Takers("mutexTail"))
          = semaphoreValue["mutexTail"] - semaphoreValue'["mutexTail"]

LEMMA ValuesFollow ==
    ASSUME ConsoleInv, SemaphoresAreTyped', ListLengths', Buffered' \in Int,
           \A S \in CountedSets : Number(S) \in Nat /\ Number(S)' \in Int,
           ChangesAgree
    PROVE  MutexesMatch' /\ PermitsMatchBuffer'
<1>1. BufferSemaphores = {"spaceAvailable", "itemAvailable", "mutexHead", "mutexTail"}
  BY DEF BufferSemaphores
<1>2. /\ semaphoreValue["spaceAvailable"] = PlacePermits
      /\ semaphoreValue["itemAvailable"] = ItemPermits
      /\ semaphoreValue["mutexHead"] = 1 - Number(Takers("mutexHead"))
      /\ semaphoreValue["mutexTail"] = 1 - Number(Takers("mutexTail"))
  BY PermitsInParts DEF ConsoleInv, MutexesMatch
<1>3. /\ semaphoreValue'["spaceAvailable"] \in Int /\ semaphoreValue'["itemAvailable"] \in Int
      /\ semaphoreValue'["mutexHead"] \in Int /\ semaphoreValue'["mutexTail"] \in Int
      /\ Capacity \in Nat /\ Buffered \in Int
  <2>1. semaphoreValue' \in [BufferSemaphores -> Int]
    BY DEF SemaphoresAreTyped
  <2>2. Capacity \in Nat \ {0} /\ Buffered \in 0 .. Capacity
    BY InvFacts
  <2> QED
    BY <1>1, <2>1, <2>2
<1>4. \A S \in {PlacesTaken, PlacesNotGiven, ItemsTaken, ItemsNotGiven,
                Takers("mutexHead"), Takers("mutexTail")} :
         Number(S) \in Nat /\ Number(S)' \in Int
  BY DEF CountedSets
<1>5. /\ Number(PlacesTaken) \in Nat /\ Number(PlacesTaken)' \in Int
      /\ Number(PlacesNotGiven) \in Nat /\ Number(PlacesNotGiven)' \in Int
      /\ Number(ItemsTaken) \in Nat /\ Number(ItemsTaken)' \in Int
      /\ Number(ItemsNotGiven) \in Nat /\ Number(ItemsNotGiven)' \in Int
      /\ Number(Takers("mutexHead")) \in Nat /\ Number(Takers("mutexHead"))' \in Int
      /\ Number(Takers("mutexTail")) \in Nat /\ Number(Takers("mutexTail"))' \in Int
  BY <1>4
<1>6. /\ semaphoreValue'["spaceAvailable"] =
            Capacity - Buffered' - Number(PlacesTaken)' - Number(PlacesNotGiven)'
      /\ semaphoreValue'["itemAvailable"] =
            Buffered' - Number(ItemsTaken)' - Number(ItemsNotGiven)'
      /\ semaphoreValue'["mutexHead"] = 1 - Number(Takers("mutexHead"))'
      /\ semaphoreValue'["mutexTail"] = 1 - Number(Takers("mutexTail"))'
  <2>1. ChangesAgree
    OBVIOUS
  <2>2. /\ semaphoreValue["spaceAvailable"] =
              Capacity - Buffered - Number(PlacesTaken) - Number(PlacesNotGiven)
        /\ semaphoreValue["itemAvailable"] =
              Buffered - Number(ItemsTaken) - Number(ItemsNotGiven)
    BY <1>2 DEF PlacePermits, ItemPermits
  <2>3. semaphoreValue'["spaceAvailable"] =
           Capacity - Buffered' - Number(PlacesTaken)' - Number(PlacesNotGiven)'
    <3>1. Buffered' + Number(PlacesTaken)' + Number(PlacesNotGiven)' - Buffered
             - Number(PlacesTaken) - Number(PlacesNotGiven)
             = semaphoreValue["spaceAvailable"] - semaphoreValue'["spaceAvailable"]
      BY <2>1 DEF ChangesAgree
    <3>2. \A c, b, m, n, v, d, k, l, w \in Int :
             v = c - b - m - n /\ d + k + l - b - m - n = v - w => w = c - d - k - l
      OBVIOUS
    <3>3. Capacity \in Int /\ Buffered' \in Int /\ semaphoreValue["spaceAvailable"] \in Int
      BY <1>3, <1>5, <2>2
    <3> QED
      BY <1>3, <1>5, <2>2, <3>1, <3>2, <3>3
  <2>4. semaphoreValue'["itemAvailable"] =
           Buffered' - Number(ItemsTaken)' - Number(ItemsNotGiven)'
    <3>1. Number(ItemsTaken)' + Number(ItemsNotGiven)' - Buffered' - Number(ItemsTaken)
             - Number(ItemsNotGiven) + Buffered
             = semaphoreValue["itemAvailable"] - semaphoreValue'["itemAvailable"]
      BY <2>1 DEF ChangesAgree
    <3> QED
      BY <1>3, <1>5, <2>2, <3>1
  <2>5. /\ semaphoreValue'["mutexHead"] = 1 - Number(Takers("mutexHead"))'
        /\ semaphoreValue'["mutexTail"] = 1 - Number(Takers("mutexTail"))'
    BY <1>2, <1>3, <1>5 DEF ChangesAgree
  <2> QED
    BY <2>3, <2>4, <2>5
<1>7. MutexesMatch'
  BY <1>6 DEF MutexesMatch
<1>8. semaphoreValue'["spaceAvailable"] = PlacePermits'
      /\ semaphoreValue'["itemAvailable"] = ItemPermits'
  BY <1>6 DEF PlacePermits, ItemPermits
<1>9. PermitsMatchBuffer'
  <2>1. PermitsMatchBuffer' <=> /\ semaphoreValue'["spaceAvailable"] = PlacePermits'
                                /\ semaphoreValue'["itemAvailable"] = ItemPermits'
                                /\ ListLengths'
    BY DEF PermitsMatchBuffer, ItemPermits, PlacePermits, ListLengths, PlacesTaken,
           PlacesNotGiven, ItemsTaken, ItemsNotGiven
  <2> QED
    BY <1>8, <2>1
<1> QED
  BY <1>7, <1>9

LEMMA WaitKeepsInv ==
    ASSUME ConsoleInv, WaitSemaphore
    PROVE  ConsoleInv'
<1> DEFINE u == runningThread
           s == WaitsFor[pc[u]]
           q == After[pc[u]]
<1>1. /\ pc[u] \in DOMAIN WaitsFor
      /\ pc' = [pc EXCEPT ![u] = q]
      /\ \/ WaitPasses(s) /\ UNCHANGED << ready, cpuVars >>
         \/ WaitBlocks(s, u) /\ SuspendCurrentThread
      /\ SemaphoreRest
  BY DEF WaitSemaphore, Step
<1>2. /\ SemaphoresAreTyped /\ ListLengths /\ PlacesAreKnown /\ ReadyIsRight /\ u \in Threads
      /\ \A t \in Threads : pc[t] \in StatementsOf(t)
      /\ ThreadsAreRight /\ TypeOK
  BY InvFacts DEF ConsoleInv
<1>3. q \in StatementsOf(u)
  BY <1>1, <1>2, OwnStatement
<1>4. /\ s \in BufferSemaphores /\ q \in Behind(s) /\ q \notin {"poll", "new", "countSignalHead"}
      /\ pc[u] \in HandStatements <=> q \in HandStatements
      /\ pc[u] # "poll"
  BY <1>1, WaitGoesOn
<1>5. /\ SemaphoresAreTyped' /\ ListLengths'
      /\ \A r \in BufferSemaphores :
            semaphoreValue'[r] = IF r = s THEN semaphoreValue[r] - 1 ELSE semaphoreValue[r]
  BY <1>1, <1>2, <1>4, WaitTakesOne
<1>6. /\ \A S \in CountedSets : Number(S) \in Nat /\ Number(S)' = Number(S) + Moved(u, q, S)
  BY <1>1, <1>2, NumbersMove
<1>7. /\ Moved(u, q, PlacesTaken) = IF s = "spaceAvailable" THEN 1 ELSE 0
      /\ Moved(u, q, ItemsTaken) = IF s = "itemAvailable" THEN 1 ELSE 0
      /\ Moved(u, q, PlacesNotGiven) = 0 /\ Moved(u, q, ItemsNotGiven) = 0
      /\ Moved(u, q, Takers("mutexHead")) = IF s = "mutexHead" THEN 1 ELSE 0
      /\ Moved(u, q, Takers("mutexTail")) = IF s = "mutexTail" THEN 1 ELSE 0
  BY <1>1, <1>2, WaitMoves
<1> HIDE DEF s, q
<1>8. Buffered' = Buffered /\ OutputIsInOrder'
  BY <1>1, SameArray DEF ConsoleInv, SemaphoreRest, consoleVars
<1>9. MutexesMatch' /\ PermitsMatchBuffer'
  <2>1. \A S \in CountedSets : Number(S) \in Nat /\ Number(S)' \in Int
    BY <1>6 DEF Moved
  <2>2. /\ Number(PlacesTaken)' = Number(PlacesTaken) + Moved(u, q, PlacesTaken)
        /\ Number(PlacesNotGiven)' = Number(PlacesNotGiven) + Moved(u, q, PlacesNotGiven)
        /\ Number(ItemsTaken)' = Number(ItemsTaken) + Moved(u, q, ItemsTaken)
        /\ Number(ItemsNotGiven)' = Number(ItemsNotGiven) + Moved(u, q, ItemsNotGiven)
        /\ Number(Takers("mutexHead"))' =
              Number(Takers("mutexHead")) + Moved(u, q, Takers("mutexHead"))
        /\ Number(Takers("mutexTail"))' =
              Number(Takers("mutexTail")) + Moved(u, q, Takers("mutexTail"))
    BY <1>6 DEF CountedSets
  <2>3. ChangesAgree
    <3>1. /\ {"spaceAvailable", "itemAvailable", "mutexHead", "mutexTail"} = BufferSemaphores
          /\ {PlacesTaken, PlacesNotGiven, ItemsTaken, ItemsNotGiven,
              Takers("mutexHead"), Takers("mutexTail")} = CountedSets
      BY DEF BufferSemaphores, CountedSets
    <3>2. /\ semaphoreValue["spaceAvailable"] \in Int /\ semaphoreValue["itemAvailable"] \in Int
          /\ semaphoreValue["mutexHead"] \in Int /\ semaphoreValue["mutexTail"] \in Int
      BY <1>2, <3>1 DEF SemaphoresAreTyped
    <3>3. /\ Number(PlacesTaken) \in Nat /\ Number(PlacesNotGiven) \in Nat
          /\ Number(ItemsTaken) \in Nat /\ Number(ItemsNotGiven) \in Nat
          /\ Number(Takers("mutexHead")) \in Nat /\ Number(Takers("mutexTail")) \in Nat
      BY <2>1, <3>1
    <3>4. Number(PlacesTaken)' + Number(PlacesNotGiven)' - Number(PlacesTaken)
                - Number(PlacesNotGiven)
                = semaphoreValue["spaceAvailable"] - semaphoreValue'["spaceAvailable"]
      BY <1>5, <1>7, <2>2, <3>1, <3>2, <3>3
    <3>5. Number(ItemsTaken)' + Number(ItemsNotGiven)' - Number(ItemsTaken)
                - Number(ItemsNotGiven)
                = semaphoreValue["itemAvailable"] - semaphoreValue'["itemAvailable"]
      BY <1>5, <1>7, <2>2, <3>1, <3>2, <3>3
    <3>6. /\ Number(Takers("mutexHead"))' - Number(Takers("mutexHead"))
                = semaphoreValue["mutexHead"] - semaphoreValue'["mutexHead"]
          /\ Number(Takers("mutexTail"))' - Number(Takers("mutexTail"))
                = semaphoreValue["mutexTail"] - semaphoreValue'["mutexTail"]
      BY <1>5, <1>7, <2>2, <3>1, <3>2, <3>3
    <3>7. Buffered \in Int /\ Buffered' = Buffered
      BY <1>8, BufferedIsNat
    <3>8. /\ Buffered' + Number(PlacesTaken)' + Number(PlacesNotGiven)' - Buffered
                - Number(PlacesTaken) - Number(PlacesNotGiven)
                = semaphoreValue["spaceAvailable"] - semaphoreValue'["spaceAvailable"]
          /\ Number(ItemsTaken)' + Number(ItemsNotGiven)' - Buffered' - Number(ItemsTaken)
                - Number(ItemsNotGiven) + Buffered
                = semaphoreValue["itemAvailable"] - semaphoreValue'["itemAvailable"]
      BY <2>1, <3>1, <3>3, <3>4, <3>5, <3>7
    <3> QED
      BY <3>6, <3>8 DEF ChangesAgree
  <2> QED
    BY <1>5, <1>8, <2>1, <2>3, BufferedIsNat, ValuesFollow
<1>10. HandMatches' /\ CountIsExact'
  BY <1>1, <1>2, <1>4, <1>8, SameHand DEF ConsoleInv, SemaphoreRest, consoleVars
<1>11. ThreadsAreRight'
  <2>1. CASE WaitPasses(s) /\ UNCHANGED << ready, cpuVars >>
    <3>1. UNCHANGED << blockedThreads, ready, runningThread >>
      BY <2>1 DEF WaitPasses, cpuVars
    <3> QED
      BY <1>1, <1>2, <1>3, <1>4, <3>1, OnlyGoesOn
  <2>2. CASE WaitBlocks(s, u) /\ SuspendCurrentThread
    BY <1>1, <1>2, <1>3, <1>4, <2>2, RunningBlocks DEF WaitBlocks
  <2> QED
    BY <1>1, <2>1, <2>2
<1>12. RestIsTyped'
  <2>1. interrupts' \in {"on", "off"} /\ resumesWith' \in [Threads -> {"on", "off", "as is"}]
    <3>1. CASE UNCHANGED << ready, cpuVars >>
      BY <3>1, InvFacts DEF cpuVars
    <3>2. CASE SuspendCurrentThread
      BY <1>11, <3>2, InvFacts, SwitchTypes DEF SuspendCurrentThread, ThreadsAreRight, ReadyIsRight
    <3> QED
      BY <1>1, <3>1, <3>2
  <2> QED
    BY <1>1, <1>2, <2>1, TypesInParts
    DEF RestIsTyped, RingIsTyped, SemaphoreRest, ringVars, consoleVars
<1>13. Flags'
  BY <1>1, <1>2, TypesInParts DEF Flags, SemaphoreRest, consoleVars
<1> QED
  BY <1>5, <1>8, <1>9, <1>10, <1>11, <1>12, <1>13, TypesInPartsNext DEF ConsoleInv, ThreadsAreRight

LEMMA SignalKeepsInv ==
    ASSUME ConsoleInv, SignalSemaphore
    PROVE  ConsoleInv'
<1> DEFINE u == runningThread
           s == Signals[pc[u]]
           q == After[pc[u]]
<1>1. /\ pc[u] \in DOMAIN Signals
      /\ pc' = [pc EXCEPT ![u] = q]
      /\ Signal(s) /\ interrupts' = InterruptsAfter(pc[u])
      /\ UNCHANGED << runningThread, resumesWith >>
      /\ SemaphoreRest
  BY DEF SignalSemaphore, Step
<1>2. /\ SemaphoresAreTyped /\ ListLengths /\ PlacesAreKnown /\ ReadyIsRight /\ u \in Threads
      /\ \A t \in Threads : pc[t] \in StatementsOf(t)
      /\ ThreadsAreRight /\ TypeOK
  BY InvFacts DEF ConsoleInv
<1>3. q \in StatementsOf(u)
  BY <1>1, <1>2, OwnStatement
<1>4. /\ s \in BufferSemaphores /\ q \notin {"poll", "new", "countSignalHead"}
      /\ pc[u] \in HandStatements <=> q \in HandStatements
      /\ pc[u] # "poll"
  BY <1>1, SignalGoesOn
<1>5. /\ SemaphoresAreTyped' /\ ListLengths'
      /\ \A r \in BufferSemaphores :
            semaphoreValue'[r] = IF r = s THEN semaphoreValue[r] + 1 ELSE semaphoreValue[r]
      /\ \/ UNCHANGED << blockedThreads, ready >>
         \/ /\ blockedThreads[s] # << >>
            /\ ready' = Enqueue(ready, Head(blockedThreads[s]))
            /\ blockedThreads' = [blockedThreads EXCEPT ![s] = Tail(@)]
  BY <1>1, <1>2, <1>4, SignalGivesOne
<1>6. /\ \A S \in CountedSets : Number(S) \in Nat /\ Number(S)' = Number(S) + Moved(u, q, S)
  BY <1>1, <1>2, NumbersMove
<1>7. /\ Moved(u, q, PlacesTaken) = 0 /\ Moved(u, q, ItemsTaken) = 0
      /\ Moved(u, q, PlacesNotGiven) = IF s = "spaceAvailable" THEN -1 ELSE 0
      /\ Moved(u, q, ItemsNotGiven) = IF s = "itemAvailable" THEN -1 ELSE 0
      /\ Moved(u, q, Takers("mutexHead")) = IF s = "mutexHead" THEN -1 ELSE 0
      /\ Moved(u, q, Takers("mutexTail")) = IF s = "mutexTail" THEN -1 ELSE 0
  BY <1>1, <1>2, SignalMoves
<1>8. InterruptsAfter(pc[u]) \in {"on", "off"}
  BY InvFacts DEF InterruptsAfter
<1> HIDE DEF s, q
<1>9. Buffered' = Buffered /\ OutputIsInOrder'
  BY <1>1, SameArray DEF ConsoleInv, SemaphoreRest, consoleVars
<1>10. MutexesMatch' /\ PermitsMatchBuffer'
  <2>1. \A S \in CountedSets : Number(S) \in Nat /\ Number(S)' \in Int
    BY <1>6 DEF Moved
  <2>2. /\ Number(PlacesTaken)' = Number(PlacesTaken) + Moved(u, q, PlacesTaken)
        /\ Number(PlacesNotGiven)' = Number(PlacesNotGiven) + Moved(u, q, PlacesNotGiven)
        /\ Number(ItemsTaken)' = Number(ItemsTaken) + Moved(u, q, ItemsTaken)
        /\ Number(ItemsNotGiven)' = Number(ItemsNotGiven) + Moved(u, q, ItemsNotGiven)
        /\ Number(Takers("mutexHead"))' =
              Number(Takers("mutexHead")) + Moved(u, q, Takers("mutexHead"))
        /\ Number(Takers("mutexTail"))' =
              Number(Takers("mutexTail")) + Moved(u, q, Takers("mutexTail"))
    BY <1>6 DEF CountedSets
  <2>3. ChangesAgree
    <3>1. /\ {"spaceAvailable", "itemAvailable", "mutexHead", "mutexTail"} = BufferSemaphores
          /\ {PlacesTaken, PlacesNotGiven, ItemsTaken, ItemsNotGiven,
              Takers("mutexHead"), Takers("mutexTail")} = CountedSets
      BY DEF BufferSemaphores, CountedSets
    <3>2. /\ semaphoreValue["spaceAvailable"] \in Int /\ semaphoreValue["itemAvailable"] \in Int
          /\ semaphoreValue["mutexHead"] \in Int /\ semaphoreValue["mutexTail"] \in Int
      BY <1>2, <3>1 DEF SemaphoresAreTyped
    <3>3. /\ Number(PlacesTaken) \in Nat /\ Number(PlacesNotGiven) \in Nat
          /\ Number(ItemsTaken) \in Nat /\ Number(ItemsNotGiven) \in Nat
          /\ Number(Takers("mutexHead")) \in Nat /\ Number(Takers("mutexTail")) \in Nat
      BY <2>1, <3>1
    <3>4. Number(PlacesTaken)' + Number(PlacesNotGiven)' - Number(PlacesTaken)
                - Number(PlacesNotGiven)
                = semaphoreValue["spaceAvailable"] - semaphoreValue'["spaceAvailable"]
      <4>1. CASE s = "spaceAvailable"
        <5>1. /\ Number(PlacesTaken)' = Number(PlacesTaken) + 0
              /\ Number(PlacesNotGiven)' = Number(PlacesNotGiven) + (-1)
              /\ semaphoreValue'["spaceAvailable"] = semaphoreValue["spaceAvailable"] + 1
          BY <1>5, <1>7, <2>2, <3>1, <4>1
        <5> QED
          BY <3>2, <3>3, <5>1
      <4>2. CASE s # "spaceAvailable"
        <5>1. /\ Number(PlacesTaken)' = Number(PlacesTaken) + 0
              /\ Number(PlacesNotGiven)' = Number(PlacesNotGiven) + 0
              /\ semaphoreValue'["spaceAvailable"] = semaphoreValue["spaceAvailable"]
          BY <1>5, <1>7, <2>2, <3>1, <4>2
        <5> QED
          BY <3>2, <3>3, <5>1
      <4> QED
        BY <4>1, <4>2
    <3>5. Number(ItemsTaken)' + Number(ItemsNotGiven)' - Number(ItemsTaken)
                - Number(ItemsNotGiven)
                = semaphoreValue["itemAvailable"] - semaphoreValue'["itemAvailable"]
      <4>1. CASE s = "itemAvailable"
        <5>1. /\ Number(ItemsTaken)' = Number(ItemsTaken) + 0
              /\ Number(ItemsNotGiven)' = Number(ItemsNotGiven) + (-1)
              /\ semaphoreValue'["itemAvailable"] = semaphoreValue["itemAvailable"] + 1
          BY <1>5, <1>7, <2>2, <3>1, <4>1
        <5> QED
          BY <3>2, <3>3, <5>1
      <4>2. CASE s # "itemAvailable"
        <5>1. /\ Number(ItemsTaken)' = Number(ItemsTaken) + 0
              /\ Number(ItemsNotGiven)' = Number(ItemsNotGiven) + 0
              /\ semaphoreValue'["itemAvailable"] = semaphoreValue["itemAvailable"]
          BY <1>5, <1>7, <2>2, <3>1, <4>2
        <5> QED
          BY <3>2, <3>3, <5>1
      <4> QED
        BY <4>1, <4>2
    <3>6. /\ Number(Takers("mutexHead"))' - Number(Takers("mutexHead"))
                = semaphoreValue["mutexHead"] - semaphoreValue'["mutexHead"]
          /\ Number(Takers("mutexTail"))' - Number(Takers("mutexTail"))
                = semaphoreValue["mutexTail"] - semaphoreValue'["mutexTail"]
      BY <1>5, <1>7, <2>2, <3>1, <3>2, <3>3, SMTT(40)
    <3>7. Buffered \in Int /\ Buffered' = Buffered
      BY <1>9, BufferedIsNat
    <3>8. /\ Buffered' + Number(PlacesTaken)' + Number(PlacesNotGiven)' - Buffered
                - Number(PlacesTaken) - Number(PlacesNotGiven)
                = semaphoreValue["spaceAvailable"] - semaphoreValue'["spaceAvailable"]
          /\ Number(ItemsTaken)' + Number(ItemsNotGiven)' - Buffered' - Number(ItemsTaken)
                - Number(ItemsNotGiven) + Buffered
                = semaphoreValue["itemAvailable"] - semaphoreValue'["itemAvailable"]
      BY <2>1, <3>1, <3>3, <3>4, <3>5, <3>7
    <3> QED
      BY <3>6, <3>8 DEF ChangesAgree
  <2> QED
    BY <1>5, <1>9, <2>1, <2>3, BufferedIsNat, ValuesFollow
<1>11. HandMatches' /\ CountIsExact'
  BY <1>1, <1>2, <1>4, <1>9, SameHand DEF ConsoleInv, SemaphoreRest, consoleVars
<1>12. ThreadsAreRight'
  <2>1. CASE UNCHANGED << blockedThreads, ready >>
    BY <1>1, <1>2, <1>3, <1>4, <2>1, OnlyGoesOn
  <2>2. CASE /\ blockedThreads[s] # << >>
             /\ ready' = Enqueue(ready, Head(blockedThreads[s]))
             /\ blockedThreads' = [blockedThreads EXCEPT ![s] = Tail(@)]
    BY <1>1, <1>2, <1>3, <1>4, <2>2, FirstIsReleased
  <2> QED
    BY <1>5, <2>1, <2>2
<1>13. RestIsTyped'
  BY <1>1, <1>2, <1>8, TypesInParts
  DEF RestIsTyped, RingIsTyped, SemaphoreRest, ringVars, consoleVars
<1>14. Flags'
  BY <1>1, <1>2, TypesInParts DEF Flags, SemaphoreRest, consoleVars
<1> QED
  BY <1>5, <1>9, <1>10, <1>11, <1>12, <1>13, <1>14, TypesInPartsNext DEF ConsoleInv, ThreadsAreRight

-----------------------------------------------------------------------------
(* Who can be at the array                                                 *)

\* The threads in the list of a semaphore and some that are not are together
\* no more than those at the statements behind it.
LEMMA Spare ==
    ASSUME ConsoleInv, NEW s \in BufferSemaphores, NEW A \in CountedSets, Behind(s) \subseteq A,
           NEW D \in SUBSET {t \in Threads : pc[t] \in A},
           D \cap Range(blockedThreads[s]) = {}
    PROVE  Len(blockedThreads[s]) + Cardinality(D) <= Number(A)
<1>1. "new" \notin A
  BY DEF CountedSets, PlacesTaken, PlacesNotGiven, ItemsTaken, ItemsNotGiven, Takers
<1>2. IsFiniteSet({t \in Threads : pc[t] \in A})
  BY <1>1, InvFacts, NumbersAreNatural
<1>3. /\ blockedThreads[s] \in Seq(Threads) /\ IsInjective(blockedThreads[s])
      /\ \A t \in Range(blockedThreads[s]) : pc[t] \in Behind(s)
  BY InvFacts DEF BlockedAreWaiting
<1>4. Range(blockedThreads[s]) \subseteq {t \in Threads : pc[t] \in A}
  BY <1>3, SeqDef DEF Range
<1> QED
  BY <1>2, <1>3, <1>4, Crowd DEF Number

\* The numbers as the invariant gives them.
LEMMA Values ==
    ASSUME ConsoleInv
    PROVE  /\ semaphoreValue["spaceAvailable"] =
                 Capacity - Buffered - Number(PlacesTaken) - Number(PlacesNotGiven)
           /\ semaphoreValue["itemAvailable"] =
                 Buffered - Number(ItemsTaken) - Number(ItemsNotGiven)
           /\ \A m \in {"mutexHead", "mutexTail"} :
                 semaphoreValue[m] = 1 - Number(Takers(m))
           /\ \A s \in BufferSemaphores :
                 Len(blockedThreads[s]) =
                    IF semaphoreValue[s] < 0 THEN -semaphoreValue[s] ELSE 0
           /\ \A S \in CountedSets : Number(S) \in Nat
           /\ {"spaceAvailable", "itemAvailable", "mutexHead", "mutexTail"} = BufferSemaphores
           /\ {PlacesTaken, PlacesNotGiven, ItemsTaken, ItemsNotGiven,
               Takers("mutexHead"), Takers("mutexTail")} = CountedSets
<1>1. ListLengths /\ \A S \in CountedSets : Number(S) \in Nat
  BY InvFacts
<1>2. /\ semaphoreValue["spaceAvailable"] = PlacePermits
      /\ semaphoreValue["itemAvailable"] = ItemPermits
  BY PermitsInParts DEF ConsoleInv
<1> QED
  BY <1>1, <1>2 DEF ListLengths, PlacePermits, ItemPermits, ConsoleInv, MutexesMatch,
                    BufferSemaphores, CountedSets

\* A mutex excludes: of the threads that have waited for it and not
\* signalled it only one is not in its list.
LEMMA OnlyOneHolds ==
    ASSUME ConsoleInv, NEW m \in {"mutexHead", "mutexTail"}, NEW t \in Threads, NEW u \in Threads,
           pc[t] \in Takers(m), pc[u] \in Takers(m),
           t \notin Range(blockedThreads[m]), u \notin Range(blockedThreads[m])
    PROVE  t = u
<1> SUFFICES ASSUME t # u PROVE FALSE
  OBVIOUS
<1>1. m \in BufferSemaphores /\ Takers(m) \in CountedSets /\ Behind(m) \subseteq Takers(m)
  BY DEF BufferSemaphores, CountedSets, Behind, Takers
<1>2. {t, u} \in SUBSET {v \in Threads : pc[v] \in Takers(m)}
      /\ {t, u} \cap Range(blockedThreads[m]) = {}
  OBVIOUS
<1>3. Len(blockedThreads[m]) + Cardinality({t, u}) <= Number(Takers(m))
  BY <1>1, <1>2, Spare
<1>4. Cardinality({t, u}) = 2
  <2>1. IsFiniteSet({t}) /\ Cardinality({t}) = 1
    BY FS_Singleton
  <2>2. u \notin {t}
    OBVIOUS
  <2>3. Cardinality({t} \cup {u}) = 1 + 1
    BY ONLY <2>1, <2>2, FS_AddElement
  <2>4. {t, u} = {t} \cup {u}
    OBVIOUS
  <2> QED
    BY ONLY <2>3, <2>4
<1>5. /\ Number(Takers(m)) \in Nat /\ semaphoreValue[m] = 1 - Number(Takers(m))
      /\ Len(blockedThreads[m]) = IF semaphoreValue[m] < 0 THEN -semaphoreValue[m] ELSE 0
  BY <1>1, Values
<1> QED
  BY <1>3, <1>4, <1>5

LEMMA PlaceIsFree ==
    ASSUME ConsoleInv, pc[runningThread] = "store"
    PROVE  Buffered < Capacity
<1>1. /\ runningThread \in Threads
      /\ \A s \in BufferSemaphores : runningThread \notin Range(blockedThreads[s])
  BY InvFacts DEF BlockedAreWaiting
<1>2. /\ "spaceAvailable" \in BufferSemaphores /\ PlacesTaken \in CountedSets
      /\ PlacesNotGiven \in CountedSets /\ Behind("spaceAvailable") \subseteq PlacesTaken
  BY DEF BufferSemaphores, CountedSets, Behind, PlacesTaken
<1>3. {runningThread} \in SUBSET {t \in Threads : pc[t] \in PlacesTaken}
      /\ {runningThread} \cap Range(blockedThreads["spaceAvailable"]) = {}
  BY <1>1, <1>2 DEF PlacesTaken
<1>4. Len(blockedThreads["spaceAvailable"]) + 1 <= Number(PlacesTaken)
  <2>1. Cardinality({runningThread}) = 1
    BY FS_Singleton
  <2> QED
    BY <1>2, <1>3, <2>1, Spare
<1>5. /\ semaphoreValue["spaceAvailable"] =
            Capacity - Buffered - Number(PlacesTaken) - Number(PlacesNotGiven)
      /\ Len(blockedThreads["spaceAvailable"]) =
            IF semaphoreValue["spaceAvailable"] < 0 THEN -semaphoreValue["spaceAvailable"] ELSE 0
      /\ Number(PlacesTaken) \in Nat /\ Number(PlacesNotGiven) \in Nat
  BY <1>2, Values
<1> QED
  BY <1>4, <1>5, BufferedIsNat

LEMMA ItemIsThere ==
    ASSUME ConsoleInv, pc[runningThread] = "fetch"
    PROVE  Buffered > 0
<1>1. /\ runningThread \in Threads
      /\ \A s \in BufferSemaphores : runningThread \notin Range(blockedThreads[s])
  BY InvFacts DEF BlockedAreWaiting
<1>2. /\ "itemAvailable" \in BufferSemaphores /\ ItemsTaken \in CountedSets
      /\ ItemsNotGiven \in CountedSets /\ Behind("itemAvailable") \subseteq ItemsTaken
  BY DEF BufferSemaphores, CountedSets, Behind, ItemsTaken
<1>3. {runningThread} \in SUBSET {t \in Threads : pc[t] \in ItemsTaken}
      /\ {runningThread} \cap Range(blockedThreads["itemAvailable"]) = {}
  BY <1>1, <1>2 DEF ItemsTaken
<1>4. Len(blockedThreads["itemAvailable"]) + 1 <= Number(ItemsTaken)
  <2>1. Cardinality({runningThread}) = 1
    BY FS_Singleton
  <2> QED
    BY <1>2, <1>3, <2>1, Spare
<1>5. /\ semaphoreValue["itemAvailable"] =
            Buffered - Number(ItemsTaken) - Number(ItemsNotGiven)
      /\ Len(blockedThreads["itemAvailable"]) =
            IF semaphoreValue["itemAvailable"] < 0 THEN -semaphoreValue["itemAvailable"] ELSE 0
      /\ Number(ItemsTaken) \in Nat /\ Number(ItemsNotGiven) \in Nat
  BY <1>2, Values
<1> QED
  BY <1>4, <1>5, BufferedIsNat

\* While main() is between its two reads and its signals, nobody else is at
\* the array.
LEMMA CountExcludes ==
    ASSUME ConsoleInv, pc[Main] = "countSignalHead",
           pc[runningThread] \in {"store", "fetch"}
    PROVE  FALSE
<1>1. /\ runningThread \in Threads /\ Main \in Threads
      /\ \A s \in BufferSemaphores : /\ runningThread \notin Range(blockedThreads[s])
                                     /\ Main \notin Range(blockedThreads[s])
  BY InvFacts, FourAreDifferent DEF BlockedAreWaiting, Behind
<1>2. {"mutexHead", "mutexTail"} \subseteq BufferSemaphores
  BY DEF BufferSemaphores
<1>3. CASE pc[runningThread] = "store"
  <2>1. pc[runningThread] \in Takers("mutexTail") /\ pc[Main] \in Takers("mutexTail")
    BY <1>3 DEF Takers
  <2> QED
    BY <1>1, <1>2, <1>3, <2>1, OnlyOneHolds
<1>4. CASE pc[runningThread] = "fetch"
  <2>1. pc[runningThread] \in Takers("mutexHead") /\ pc[Main] \in Takers("mutexHead")
    BY <1>4 DEF Takers
  <2> QED
    BY <1>1, <1>2, <1>4, <2>1, OnlyOneHolds
<1> QED
  BY <1>3, <1>4

-----------------------------------------------------------------------------
(* The accesses to the array                                               *)

\* Steps that leave semaphores and processor alone.
LEMMA SemaphoresStay ==
    ASSUME ConsoleInv, UNCHANGED semVars
    PROVE  /\ SemaphoresAreTyped' /\ ListLengths'
           /\ \A s \in BufferSemaphores : semaphoreValue[s] \in Int /\ semaphoreValue'[s] = semaphoreValue[s]
BY InvFacts DEF semVars, SemaphoresAreTyped, ListLengths

\* An access is one character more or less in the array, and one thread that
\* goes on from the statements before it to those behind it.
LEMMA StoreChangesAgree ==
    ASSUME ConsoleInv, UNCHANGED semVars, NEW u \in Threads,
           pc[u] = "store", pc' = [pc EXCEPT ![u] = "signalTail"], Buffered' = Buffered + 1
    PROVE  ChangesAgree /\ \A S \in CountedSets : Number(S) \in Nat /\ Number(S)' \in Int
<1>1. \A S \in CountedSets : Number(S) \in Nat
                             /\ Number(S)' = Number(S) + Moved(u, "signalTail", S)
  BY InvFacts, NumbersMove
<1>2. /\ Moved(u, "signalTail", PlacesTaken) = -1 /\ Moved(u, "signalTail", PlacesNotGiven) = 0
      /\ Moved(u, "signalTail", ItemsTaken) = 0 /\ Moved(u, "signalTail", ItemsNotGiven) = 1
      /\ Moved(u, "signalTail", Takers("mutexHead")) = 0
      /\ Moved(u, "signalTail", Takers("mutexTail")) = 0
  BY DEF Moved, PlacesTaken, PlacesNotGiven, ItemsTaken, ItemsNotGiven, Takers
<1>3. \A S \in CountedSets : Number(S) \in Nat /\ Number(S)' \in Int
  BY <1>1 DEF Moved
<1>4. /\ Number(PlacesTaken)' = Number(PlacesTaken) - 1
      /\ Number(PlacesNotGiven)' = Number(PlacesNotGiven)
      /\ Number(ItemsTaken)' = Number(ItemsTaken)
      /\ Number(ItemsNotGiven)' = Number(ItemsNotGiven) + 1
      /\ Number(Takers("mutexHead"))' = Number(Takers("mutexHead"))
      /\ Number(Takers("mutexTail"))' = Number(Takers("mutexTail"))
  BY <1>1, <1>2 DEF CountedSets
<1>5. /\ Number(PlacesTaken) \in Nat /\ Number(PlacesNotGiven) \in Nat
      /\ Number(ItemsTaken) \in Nat /\ Number(ItemsNotGiven) \in Nat
      /\ Number(Takers("mutexHead")) \in Nat /\ Number(Takers("mutexTail")) \in Nat
  BY <1>1 DEF CountedSets
<1>6. /\ semaphoreValue["spaceAvailable"] \in Int /\ semaphoreValue["itemAvailable"] \in Int
      /\ semaphoreValue["mutexHead"] \in Int /\ semaphoreValue["mutexTail"] \in Int
      /\ semaphoreValue' = semaphoreValue
  BY SemaphoresStay DEF BufferSemaphores, semVars
<1> QED
  BY <1>3, <1>4, <1>5, <1>6, BufferedIsNat DEF ChangesAgree

LEMMA FetchChangesAgree ==
    ASSUME ConsoleInv, UNCHANGED semVars, NEW u \in Threads,
           pc[u] = "fetch", pc' = [pc EXCEPT ![u] = "signalHead"], Buffered' = Buffered - 1
    PROVE  ChangesAgree /\ \A S \in CountedSets : Number(S) \in Nat /\ Number(S)' \in Int
<1>1. \A S \in CountedSets : Number(S) \in Nat
                             /\ Number(S)' = Number(S) + Moved(u, "signalHead", S)
  BY InvFacts, NumbersMove
<1>2. /\ Moved(u, "signalHead", PlacesTaken) = 0 /\ Moved(u, "signalHead", PlacesNotGiven) = 1
      /\ Moved(u, "signalHead", ItemsTaken) = -1 /\ Moved(u, "signalHead", ItemsNotGiven) = 0
      /\ Moved(u, "signalHead", Takers("mutexHead")) = 0
      /\ Moved(u, "signalHead", Takers("mutexTail")) = 0
  BY DEF Moved, PlacesTaken, PlacesNotGiven, ItemsTaken, ItemsNotGiven, Takers
<1>3. \A S \in CountedSets : Number(S) \in Nat /\ Number(S)' \in Int
  BY <1>1 DEF Moved
<1>4. /\ Number(PlacesTaken)' = Number(PlacesTaken)
      /\ Number(PlacesNotGiven)' = Number(PlacesNotGiven) + 1
      /\ Number(ItemsTaken)' = Number(ItemsTaken) - 1
      /\ Number(ItemsNotGiven)' = Number(ItemsNotGiven)
      /\ Number(Takers("mutexHead"))' = Number(Takers("mutexHead"))
      /\ Number(Takers("mutexTail"))' = Number(Takers("mutexTail"))
  BY <1>1, <1>2 DEF CountedSets
<1>5. /\ Number(PlacesTaken) \in Nat /\ Number(PlacesNotGiven) \in Nat
      /\ Number(ItemsTaken) \in Nat /\ Number(ItemsNotGiven) \in Nat
      /\ Number(Takers("mutexHead")) \in Nat /\ Number(Takers("mutexTail")) \in Nat
  BY <1>1 DEF CountedSets
<1>6. /\ semaphoreValue["spaceAvailable"] \in Int /\ semaphoreValue["itemAvailable"] \in Int
      /\ semaphoreValue["mutexHead"] \in Int /\ semaphoreValue["mutexTail"] \in Int
      /\ semaphoreValue' = semaphoreValue
  BY SemaphoresStay DEF BufferSemaphores, semVars
<1> QED
  BY <1>3, <1>4, <1>5, <1>6, BufferedIsNat DEF ChangesAgree

LEMMA LengthsAreNat ==
    ASSUME ConsoleInv
    PROVE  /\ Len(stored) \in Nat /\ Len(sent) \in Nat
           /\ Len(newCharacter) \in {0, 1}
           /\ stored \in Seq(Writers) /\ sent \in Seq(Writers)
           /\ newCharacter \in Seq(Threads) /\ Writers \subseteq Threads
           /\ sent \in Seq(Threads) /\ stored \in Seq(Threads)
<1>1. /\ stored \in Seq(Writers) /\ sent \in Seq(Writers)
      /\ newCharacter \in {<< >>} \cup {<< t >> : t \in Threads}
  BY DEF ConsoleInv, TypeOK
<1>2. Writers \subseteq Threads
  BY DEF Writers
<1>3. stored \in Seq(Threads) /\ sent \in Seq(Threads)
  BY <1>1, <1>2, SeqMonotonic
<1>4. newCharacter \in Seq(Threads) /\ Len(newCharacter) \in {0, 1}
  <2>1. CASE newCharacter = << >>
    BY <2>1
  <2>2. ASSUME NEW t \in Threads, newCharacter = << t >>
        PROVE  newCharacter \in Seq(Threads) /\ Len(newCharacter) = 1
    BY <2>2
  <2> QED
    BY <1>1, <2>1, <2>2
<1> QED
  BY <1>1, <1>2, <1>3, <1>4, LenProperties

LEMMA StoreKeepsInv ==
    ASSUME ConsoleInv, StoreCharacter
    PROVE  ConsoleInv'
<1> DEFINE u == runningThread
<1>1. /\ pc[u] = "store" /\ pc' = [pc EXCEPT ![u] = "signalTail"]
      /\ Put(u) /\ stored' = Append(stored, u)
      /\ UNCHANGED << newCharacter, elements >>
      /\ ArrayRest
  BY ArrayStatements DEF StoreCharacter, Step
<1>2. UNCHANGED << ready, semaphoreValue, blockedThreads, runningThread, interrupts, resumesWith,
                   txReady, sent, halted, preempted >>
  BY <1>1 DEF ArrayRest, semVars, cpuVars
<1>3. /\ SemaphoresAreTyped /\ ListLengths /\ PlacesAreKnown /\ ReadyIsRight /\ u \in Threads
      /\ \A t \in Threads : pc[t] \in StatementsOf(t)
      /\ ThreadsAreRight /\ TypeOK
  BY InvFacts DEF ConsoleInv
<1>4. u \in Writers /\ "signalTail" \in StatementsOf(u)
  BY <1>1, <1>3, WhoIsWhere DEF WriterStatements
<1>5. ThreadsAreRight'
  BY <1>1, <1>2, <1>3, <1>4, OnlyGoesOn
<1>6. /\ Buffered \in 0 .. Capacity - 1 /\ RingIsTyped
      /\ tail = (head + Buffered) % Capacity
      /\ stored = sent \o newCharacter \o Elements(Buffered)
  <2>1. Buffered \in Nat /\ Buffered < Capacity /\ Capacity \in Nat
    BY <1>1, BufferedIsNat, PlaceIsFree
  <2>2. RingIsTyped
    BY DEF ConsoleInv, TypeOK, RingIsTyped
  <2>3. /\ tail = (head + Buffered) % Capacity
        /\ stored = sent \o newCharacter \o Elements(Buffered)
    BY DEF ConsoleInv, OutputIsInOrder
  <2> QED
    BY <2>1, <2>2, <2>3
<1>7. Buffered' = Buffered + 1
  <2>1. Len(stored') = Len(stored) + 1
    BY <1>1, LengthsAreNat, AppendProperties
  <2> QED
    BY <1>1, <1>2, <2>1, LengthsAreNat DEF Buffered
<1>8. PICK n \in 0 .. Capacity - 1 : n = Buffered
  BY <1>6
<1>9. /\ RingIsTyped' /\ tail' = (head' + (n + 1)) % Capacity
      /\ Elements(n + 1)' = Append(Elements(n), u)
  BY <1>1, <1>3, <1>6, <1>8, PutAppends
<1>10. OutputIsInOrder'
  <2>1. Buffered' = n + 1 /\ Buffered' \in 0 .. Capacity
    BY <1>7, <1>8, BufferedIsNat
  <2>2. stored' = sent' \o newCharacter' \o Append(Elements(n), u)
    <3> DEFINE p == sent \o newCharacter
               q == Elements(n)
    <3>1. p \in Seq(Threads)
      BY LengthsAreNat, ConcatProperties
    <3>2. n \in 0 .. Capacity /\ stored = p \o q
      BY <1>6, <1>8, BufferedIsNat
    <3>3. q \in Seq(Threads)
      BY <1>6, <3>2, ElementsAreThreads
    <3>4. stored' = Append(stored, u) /\ sent' \o newCharacter' = p
      BY <1>1, <1>2
    <3> HIDE DEF p, q
    <3>5. Append(p \o q, u) = p \o Append(q, u)
      <4>1. u \in Threads
        BY <1>3
      <4> QED
        BY <3>1, <3>3, <4>1
    <3>6. stored' = p \o Append(q, u)
      BY <3>2, <3>4, <3>5
    <3>7. stored' = (sent' \o newCharacter') \o Append(q, u)
      BY <3>4, <3>6
    <3> QED
      BY <3>7 DEF q
  <2>3. Elements(Buffered)' = Elements(n + 1)'
    BY <2>1 DEF Elements
  <2> QED
    BY <1>9, <2>1, <2>2, <2>3 DEF OutputIsInOrder
<1>11. MutexesMatch' /\ PermitsMatchBuffer'
  <2>1. UNCHANGED semVars
    BY <1>2 DEF semVars
  <2>2. ChangesAgree /\ \A S \in CountedSets : Number(S) \in Nat /\ Number(S)' \in Int
    BY <1>1, <1>3, <1>7, <2>1, StoreChangesAgree
  <2>3. Buffered' \in Int
    BY <1>7, BufferedIsNat
  <2> QED
    BY <2>1, <2>2, <2>3, SemaphoresStay, ValuesFollow
<1>12. HandMatches' /\ CountIsExact'
  <2>1. u # Output /\ u # Main /\ Output \in Threads /\ Main \in Threads
    BY <1>4, FourAreDifferent DEF Writers
  <2>2. pc'[Output] = pc[Output] /\ pc'[Main] = pc[Main]
    BY <1>1, <1>3, <2>1 DEF PlacesAreKnown
  <2>3. pc[Main] # "countSignalHead"
    BY <1>1, CountExcludes
  <2> QED
    BY <1>1, <1>2, <2>2, <2>3 DEF ConsoleInv, HandMatches, CountIsExact
<1>13. RestIsTyped'
  <2>1. stored' \in Seq(Writers)
    BY <1>1, <1>4, LengthsAreNat, AppendProperties
  <2> QED
    BY <1>1, <1>2, <1>3, <1>9, <2>1, TypesInParts DEF RestIsTyped
<1>14. Flags'
  BY <1>2, <1>3, TypesInParts DEF Flags
<1> QED
  BY <1>2, <1>5, <1>10, <1>11, <1>12, <1>13, <1>14, SemaphoresStay, TypesInPartsNext
  DEF ConsoleInv, ThreadsAreRight, semVars

LEMMA FetchKeepsInv ==
    ASSUME ConsoleInv, FetchCharacter
    PROVE  ConsoleInv'
<1> DEFINE u == runningThread
<1>1. /\ pc[u] = "fetch" /\ pc' = [pc EXCEPT ![u] = "signalHead"]
      /\ newCharacter' = << Fetched >> /\ Fetch
      /\ UNCHANGED << elements, stored >>
      /\ ArrayRest
  BY ArrayStatements DEF FetchCharacter, Step
<1>2. UNCHANGED << ready, semaphoreValue, blockedThreads, runningThread, interrupts, resumesWith,
                   txReady, sent, halted, preempted >>
  BY <1>1 DEF ArrayRest, semVars, cpuVars
<1>3. /\ SemaphoresAreTyped /\ ListLengths /\ PlacesAreKnown /\ ReadyIsRight /\ u \in Threads
      /\ \A t \in Threads : pc[t] \in StatementsOf(t)
      /\ ThreadsAreRight /\ TypeOK
  BY InvFacts DEF ConsoleInv
<1>4. u = Output /\ "signalHead" \in StatementsOf(u)
  BY <1>1, <1>3, WhoIsWhere DEF OutputStatements
<1>5. ThreadsAreRight'
  BY <1>1, <1>2, <1>3, <1>4, OnlyGoesOn
<1>6. /\ Buffered \in 1 .. Capacity /\ RingIsTyped
      /\ tail = (head + Buffered) % Capacity
      /\ stored = sent \o newCharacter \o Elements(Buffered)
      /\ newCharacter = << >>
  <2>1. Buffered \in Nat /\ Buffered > 0 /\ Buffered <= Capacity
    BY <1>1, BufferedIsNat, ItemIsThere
  <2>2. RingIsTyped
    BY DEF ConsoleInv, TypeOK, RingIsTyped
  <2>3. /\ tail = (head + Buffered) % Capacity
        /\ stored = sent \o newCharacter \o Elements(Buffered)
    BY DEF ConsoleInv, OutputIsInOrder
  <2>4. newCharacter = << >>
    BY <1>1, <1>4 DEF ConsoleInv, HandMatches
  <2> QED
    BY <2>1, <2>2, <2>3, <2>4, BufferedIsNat
<1>7. PICK n \in 1 .. Capacity : n = Buffered
  BY <1>6
<1>8. /\ RingIsTyped' /\ Fetched \in Threads
      /\ tail' = (head' + (n - 1)) % Capacity
      /\ Elements(n - 1)' \in Seq(Threads)
      /\ Elements(n) = << Fetched >> \o Elements(n - 1)'
  BY <1>1, <1>6, <1>7, FetchTakesFirst
<1>9. Buffered' = n - 1
  <2>1. Len(newCharacter) = 0 /\ Len(newCharacter') = 1
    BY <1>1, <1>6
  <2> QED
    BY <1>1, <1>2, <1>7, <2>1, LengthsAreNat DEF Buffered
<1>10. OutputIsInOrder'
  <2>1. Buffered' \in 0 .. Capacity
    BY <1>9, BufferedIsNat
  <2>2. stored' = sent' \o newCharacter' \o Elements(n - 1)'
    <3> DEFINE rest == Elements(n - 1)'
    <3>1. rest \in Seq(Threads) /\ Elements(n) = << Fetched >> \o rest
      BY <1>8
    <3>2. stored = sent \o << >> \o Elements(n) /\ sent \in Seq(Threads)
      BY <1>6, <1>7, LengthsAreNat
    <3>3. stored' = stored /\ sent' = sent /\ newCharacter' = << Fetched >>
      BY <1>1, <1>2
    <3> HIDE DEF rest
    <3>4. sent \o << >> = sent
      BY <3>2, ConcatEmptySeq
    <3>5. << Fetched >> \in Seq(Threads)
      BY <1>8
    <3>6. sent \o (<< Fetched >> \o rest) = (sent \o << Fetched >>) \o rest
      BY <3>1, <3>2, <3>5, ConcatAssociative
    <3>7. stored' = (sent' \o newCharacter') \o rest
      BY <3>1, <3>2, <3>3, <3>4, <3>6
    <3> QED
      BY <3>7 DEF rest
  <2>3. Elements(Buffered)' = Elements(n - 1)'
    BY <1>9 DEF Elements
  <2> QED
    BY <1>8, <1>9, <2>1, <2>2, <2>3 DEF OutputIsInOrder
<1>11. MutexesMatch' /\ PermitsMatchBuffer'
  <2>1. UNCHANGED semVars
    BY <1>2 DEF semVars
  <2>2. ChangesAgree /\ \A S \in CountedSets : Number(S) \in Nat /\ Number(S)' \in Int
    BY <1>1, <1>3, <1>7, <1>9, <2>1, FetchChangesAgree
  <2>3. Buffered' \in Int
    BY <1>9
  <2> QED
    BY <2>1, <2>2, <2>3, SemaphoresStay, ValuesFollow
<1>12. HandMatches' /\ CountIsExact'
  <2>1. Main # Output /\ Output \in Threads /\ Main \in Threads
    BY FourAreDifferent
  <2>2. pc'[Output] = "signalHead" /\ pc'[Main] = pc[Main]
    BY <1>1, <1>3, <1>4, <2>1 DEF PlacesAreKnown
  <2>3. pc[Main] # "countSignalHead"
    BY <1>1, CountExcludes
  <2>4. CountIsExact'
    BY <2>2, <2>3 DEF CountIsExact
  <2>5. newCharacter' # << >>
    BY <1>1
  <2>6. txReady'
    BY <1>1, <1>2, <1>4 DEF ConsoleInv, HandMatches
  <2> QED
    BY <2>2, <2>4, <2>5, <2>6 DEF HandMatches
<1>13. RestIsTyped'
  <2>1. newCharacter' \in {<< >>} \cup {<< t >> : t \in Threads}
    BY <1>1, <1>8
  <2> QED
    BY <1>1, <1>2, <1>3, <1>8, <2>1, TypesInParts DEF RestIsTyped
<1>14. Flags'
  BY <1>2, <1>3, TypesInParts DEF Flags
<1> QED
  BY <1>2, <1>5, <1>10, <1>11, <1>12, <1>13, <1>14, SemaphoresStay, TypesInPartsNext
  DEF ConsoleInv, ThreadsAreRight, semVars

-----------------------------------------------------------------------------
(* Steps that move nothing                                                 *)

\* Statements that no permit accounts for.
Uncounted == {"new", "user", "finished", "waitSpace", "loop", "counted", "countWaitHead",
              "poll", "send", "waitItem"}

\* A step between two such statements, or between two places where the same
\* permits are held.
LEMMA QuietStep ==
    ASSUME ConsoleInv, UNCHANGED << semVars, ringVars, stored >>, Buffered' = Buffered,
           ReadyIsRight', NEW u \in Threads, u = runningThread \/ pc[u] = "new",
           NEW q \in StatementsOf(u), q # "new", pc' = [pc EXCEPT ![u] = q],
           {pc[u], q} \subseteq Uncounted \/ {pc[u], q} \subseteq {"count", "countSignalHead"}
              \/ q = pc[u],
           Range(ready') \cup {runningThread'} \subseteq
              Range(ready) \cup {runningThread, Idle, u}
    PROVE  ThreadsAreRight' /\ MutexesMatch' /\ PermitsMatchBuffer' /\ SemaphoresAreTyped'
<1>1. UNCHANGED semVars /\ blockedThreads' = blockedThreads /\ semaphoreValue' = semaphoreValue
  BY DEF semVars
<1>2. ThreadsAreRight /\ PlacesAreKnown
  BY DEF ConsoleInv, ThreadsAreRight
<1>3. ThreadsAreRight'
  BY <1>1, <1>2, NobodyBlocks
<1>4. \A S \in CountedSets : pc[u] \in S <=> q \in S
  BY DEF CountedSets, PlacesTaken, PlacesNotGiven, ItemsTaken, ItemsNotGiven, Takers, Uncounted
<1>5. \A S \in CountedSets : Number(S) \in Nat /\ Number(S)' = Number(S) + Moved(u, q, S)
  BY <1>2, NumbersMove
<1>6. \A S \in CountedSets : Number(S) \in Nat /\ Number(S)' = Number(S)
  BY <1>4, <1>5 DEF Moved
<1>7. /\ Number(PlacesTaken) \in Nat /\ Number(PlacesTaken)' = Number(PlacesTaken)
      /\ Number(PlacesNotGiven) \in Nat /\ Number(PlacesNotGiven)' = Number(PlacesNotGiven)
      /\ Number(ItemsTaken) \in Nat /\ Number(ItemsTaken)' = Number(ItemsTaken)
      /\ Number(ItemsNotGiven) \in Nat /\ Number(ItemsNotGiven)' = Number(ItemsNotGiven)
      /\ Number(Takers("mutexHead")) \in Nat
      /\ Number(Takers("mutexHead"))' = Number(Takers("mutexHead"))
      /\ Number(Takers("mutexTail")) \in Nat
      /\ Number(Takers("mutexTail"))' = Number(Takers("mutexTail"))
  BY <1>6 DEF CountedSets
<1>8. /\ semaphoreValue["spaceAvailable"] \in Int /\ semaphoreValue["itemAvailable"] \in Int
      /\ semaphoreValue["mutexHead"] \in Int /\ semaphoreValue["mutexTail"] \in Int
      /\ Buffered \in Int /\ Buffered' \in Int
  BY <1>1, SemaphoresStay, BufferedIsNat DEF BufferSemaphores
<1>9. ChangesAgree
  BY <1>1, <1>7, <1>8 DEF ChangesAgree
<1>10. MutexesMatch' /\ PermitsMatchBuffer'
  BY <1>1, <1>6, <1>8, <1>9, SemaphoresStay, ValuesFollow
<1> QED
  BY <1>1, <1>3, <1>10, SemaphoresStay

LEMMA InvInParts ==
    ASSUME ThreadsAreRight', MutexesMatch', PermitsMatchBuffer', SemaphoresAreTyped',
           OutputIsInOrder', HandMatches', CountIsExact', RestIsTyped', Flags'
    PROVE  ConsoleInv'
BY TypesInPartsNext DEF ConsoleInv, ThreadsAreRight

\* The same step, if it leaves the console alone as well.
LEMMA QuietKeepsInv ==
    ASSUME ConsoleInv, UNCHANGED << semVars, ringVars, consoleVars, elements, stored >>,
           interrupts' \in {"on", "off"}, resumesWith' \in [Threads -> {"on", "off", "as is"}],
           {halted', preempted'} \subseteq BOOLEAN,
           ReadyIsRight', NEW u \in Threads, u = runningThread \/ pc[u] = "new",
           NEW q \in StatementsOf(u), q # "new", pc' = [pc EXCEPT ![u] = q],
           \/ q = pc[u]
           \/ /\ {pc[u], q} \subseteq Uncounted
              /\ pc[u] # "send" /\ q # "send"
              /\ pc[u] = "poll" => txReady,
           Range(ready') \cup {runningThread'} \subseteq
              Range(ready) \cup {runningThread, Idle, u}
    PROVE  ConsoleInv'
<1>1. /\ UNCHANGED << semVars, ringVars, stored, sent, newCharacter, txReady, elements >>
      /\ UNCHANGED << buffer, head, tail >>
  BY DEF consoleVars, ringVars
<1>2. Buffered' = Buffered /\ OutputIsInOrder'
  BY <1>1, SameArray DEF ConsoleInv
<1>3. ThreadsAreRight' /\ MutexesMatch' /\ PermitsMatchBuffer' /\ SemaphoresAreTyped'
  BY <1>1, <1>2, QuietStep
<1>4. PlacesAreKnown /\ HandMatches /\ CountIsExact /\ TypeOK
  BY DEF ConsoleInv, ThreadsAreRight
<1>5. HandMatches' /\ CountIsExact'
  <2>1. CASE q = pc[u]
    <3>1. pc' = pc
      BY <1>4, <2>1 DEF PlacesAreKnown
    <3>2. HandMatches'
      BY <1>1, <1>4, <3>1 DEF HandMatches
    <3>3. CountIsExact'
      BY <1>1, <1>2, <1>4, <3>1 DEF CountIsExact
    <3> QED
      BY <3>2, <3>3
  <2>2. CASE q # pc[u]
    <3>1. {pc[u], q} \subseteq Uncounted /\ pc[u] # "send" /\ q # "send"
      BY <2>2
    <3>2. pc[u] \notin HandStatements /\ q \notin HandStatements /\ q # "countSignalHead"
      BY <3>1 DEF Uncounted, HandStatements
    <3>3. pc[u] = "poll" => txReady
      BY <2>2, Zenon
    <3> QED
      BY <1>1, <1>2, <1>4, <3>2, <3>3, SameHand
  <2> QED
    BY <2>1, <2>2
<1>6. RestIsTyped'
  BY <1>1, <1>4 DEF TypeOK, RestIsTyped, RingIsTyped
<1>7. Flags'
  BY <1>1, <1>4 DEF TypeOK, Flags
<1> QED
  BY <1>2, <1>3, <1>5, <1>6, <1>7, InvInParts

\* And one that leaves the processor alone, or only sets the interrupts.
LEMMA GoesOnQuietly ==
    ASSUME ConsoleInv, UNCHANGED << ready, runningThread, resumesWith >>,
           UNCHANGED << semVars, ringVars, consoleVars, elements, stored >>,
           interrupts' \in {"on", "off"}, {halted', preempted'} \subseteq BOOLEAN,
           NEW q \in StatementsOf(runningThread), q # "new",
           pc' = [pc EXCEPT ![runningThread] = q],
           \/ q = pc[runningThread]
           \/ /\ {pc[runningThread], q} \subseteq Uncounted
              /\ pc[runningThread] # "send" /\ q # "send"
              /\ pc[runningThread] = "poll" => txReady
    PROVE  ConsoleInv'
<1>1. /\ ReadyIsRight /\ runningThread \in Threads
      /\ resumesWith \in [Threads -> {"on", "off", "as is"}]
  BY InvFacts
<1>2. ReadyIsRight' /\ resumesWith' \in [Threads -> {"on", "off", "as is"}]
  BY <1>1 DEF ReadyIsRight
<1>3. Range(ready') \cup {runningThread'} \subseteq
         Range(ready) \cup {runningThread, Idle, runningThread}
  OBVIOUS
<1> QED
  BY <1>1, <1>2, <1>3, QuietKeepsInv

\* TCB::dispatch keeps the processor right.
LEMMA DispatchKeeps ==
    ASSUME ConsoleInv, Dispatch
    PROVE  /\ ReadyIsRight'
           /\ Range(ready') \cup {runningThread'} \subseteq Range(ready) \cup {runningThread, Idle}
           /\ interrupts' \in {"on", "off"}
           /\ resumesWith' \in [Threads -> {"on", "off", "as is"}]
<1>1. /\ ReadyIsRight /\ runningThread \in Threads
      /\ interrupts \in {"on", "off"} /\ resumesWith \in [Threads -> {"on", "off", "as is"}]
  BY InvFacts
<1> DEFINE q == Enqueue(ready, runningThread)
<1>2. /\ q \in Seq(Threads) /\ IsInjective(q) /\ Idle \notin Range(q)
      /\ Range(q) \subseteq Range(ready) \cup {runningThread}
  BY <1>1, EnqueueKeeps DEF ReadyIsRight
<1>3. SwitchTo(q, interrupts, "off")
  BY DEF Dispatch
<1> HIDE DEF q
<1>4. ReadyIsRight' /\ Range(ready') \cup {runningThread'} \subseteq Range(q) \cup {Idle}
  BY <1>2, <1>3, SwitchKeeps
<1>5. runningThread' \in Threads
  BY <1>4 DEF ReadyIsRight
<1>6. interrupts' \in {"on", "off"} /\ resumesWith' \in [Threads -> {"on", "off", "as is"}]
  BY <1>1, <1>3, <1>5, SwitchTypes
<1> QED
  BY <1>2, <1>4, <1>6

-----------------------------------------------------------------------------
(* The other actions, one by one                                           *)

LEMMA TypesOfFlags ==
    ASSUME ConsoleInv
    PROVE  {txReady, halted, preempted} \subseteq BOOLEAN /\ elements \in 0 .. Capacity
           /\ pc = [pc EXCEPT ![runningThread] = pc[runningThread]]
BY DEF ConsoleInv, TypeOK, ThreadsAreRight, PlacesAreKnown

LEMMA PollKeepsInv ==
    ASSUME ConsoleInv, Poll
    PROVE  ConsoleInv'
<1>1. /\ pc[runningThread] = "poll" /\ pc' = [pc EXCEPT ![runningThread] = "waitItem"]
      /\ UNCHANGED << ready, runningThread, resumesWith, interrupts, halted, preempted >>
      /\ UNCHANGED << semVars, ringVars, consoleVars, elements, stored >>
  BY DEF Poll, Step, OutputRest, cpuVars
<1>2. txReady
  BY Zenon DEF Poll
<1>3. "waitItem" \in StatementsOf(runningThread)
  BY <1>1, InvFacts, WhoIsWhere DEF OutputStatements
<1>4. {pc[runningThread], "waitItem"} \subseteq Uncounted /\ pc[runningThread] # "send"
  BY <1>1 DEF Uncounted
<1>5. interrupts' \in {"on", "off"} /\ {halted', preempted'} \subseteq BOOLEAN
  BY <1>1, InvFacts, TypesOfFlags
<1> QED
  BY <1>1, <1>2, <1>3, <1>4, <1>5, GoesOnQuietly

LEMMA PutcKeepsInv ==
    ASSUME ConsoleInv, Putc
    PROVE  ConsoleInv'
<1>1. /\ pc[runningThread] = "user" /\ pc' = [pc EXCEPT ![runningThread] = "waitSpace"]
      /\ runningThread \in Writers /\ interrupts' = "off"
      /\ UNCHANGED << ready, runningThread, resumesWith, halted, preempted >>
      /\ UNCHANGED << semVars, ringVars, consoleVars, elements, stored >>
  BY DEF Putc, Step, UserRest
<1>2. "waitSpace" \in StatementsOf(runningThread)
  BY <1>1 DEF StatementsOf, Writers, WriterStatements
<1>3. {pc[runningThread], "waitSpace"} \subseteq Uncounted
      /\ pc[runningThread] # "send" /\ pc[runningThread] # "poll"
  BY <1>1 DEF Uncounted
<1>4. interrupts' \in {"on", "off"} /\ {halted', preempted'} \subseteq BOOLEAN
  BY <1>1, TypesOfFlags
<1> QED
  BY <1>1, <1>2, <1>3, <1>4, GoesOnQuietly

LEMMA MainAsksKeepsInv ==
    ASSUME ConsoleInv, MainAsks
    PROVE  ConsoleInv'
<1>1. /\ pc[runningThread] = "loop" /\ pc' = [pc EXCEPT ![runningThread] = "countWaitHead"]
      /\ UNCHANGED << ready, runningThread, resumesWith, interrupts, halted, preempted >>
      /\ UNCHANGED << semVars, ringVars, consoleVars, elements, stored >>
  BY DEF MainAsks, Step, LoopRest, cpuVars
<1>2. "countWaitHead" \in StatementsOf(runningThread)
  BY <1>1, InvFacts, WhoIsWhere DEF MainStatements
<1>3. {pc[runningThread], "countWaitHead"} \subseteq Uncounted
      /\ pc[runningThread] # "send" /\ pc[runningThread] # "poll"
  BY <1>1 DEF Uncounted
<1>4. interrupts' \in {"on", "off"} /\ {halted', preempted'} \subseteq BOOLEAN
  BY <1>1, InvFacts, TypesOfFlags
<1> QED
  BY <1>1, <1>2, <1>3, <1>4, GoesOnQuietly

\* A step that moves no thread.
LEMMA StandsStill ==
    ASSUME ConsoleInv, UNCHANGED << pc, ready, runningThread, resumesWith, interrupts >>,
           UNCHANGED << semVars, ringVars, consoleVars, elements, stored >>,
           {halted', preempted'} \subseteq BOOLEAN
    PROVE  ConsoleInv'
<1> DEFINE q == pc[runningThread]
<1>1. q \in StatementsOf(runningThread) /\ q # "new" /\ interrupts' \in {"on", "off"}
  BY InvFacts
<1>2. pc' = [pc EXCEPT ![runningThread] = q]
  BY TypesOfFlags
<1> QED
  BY <1>1, <1>2, GoesOnQuietly

LEMMA MainReturnsKeepsInv ==
    ASSUME ConsoleInv, MainReturns
    PROVE  ConsoleInv'
<1>1. {halted', preempted'} \subseteq BOOLEAN
  BY TypesOfFlags DEF MainReturns, LoopRest
<1> QED
  BY <1>1, StandsStill DEF MainReturns, LoopRest, cpuVars

LEMMA PreemptInsideKeepsInv ==
    ASSUME ConsoleInv, PreemptInside
    PROVE  ConsoleInv'
<1>1. {halted', preempted'} \subseteq BOOLEAN
  BY TypesOfFlags DEF PreemptInside
<1> QED
  BY <1>1, StandsStill DEF PreemptInside, cpuVars

LEMMA StutterKeepsInv ==
    ASSUME ConsoleInv, UNCHANGED vars
    PROVE  ConsoleInv'
<1>1. {halted', preempted'} \subseteq BOOLEAN
  BY TypesOfFlags DEF vars
<1> QED
  BY <1>1, StandsStill DEF vars, cpuVars

LEMMA MainDispatchesKeepsInv ==
    ASSUME ConsoleInv, MainDispatches
    PROVE  ConsoleInv'
<1>1. /\ runningThread = Main /\ pc[Main] \in {"loop", "counted"}
      /\ pc' = [pc EXCEPT ![Main] = "loop"] /\ Dispatch
      /\ UNCHANGED << halted, preempted >>
      /\ UNCHANGED << semVars, ringVars, consoleVars, elements, stored >>
  BY DEF MainDispatches, Running, LoopRest
<1>2. "loop" \in StatementsOf(Main) /\ Main \in Threads
  BY FourAreDifferent DEF StatementsOf, MainStatements
<1>3. {pc[Main], "loop"} \subseteq Uncounted /\ pc[Main] # "send" /\ pc[Main] # "poll"
  BY <1>1 DEF Uncounted
<1>4. /\ ReadyIsRight'
      /\ Range(ready') \cup {runningThread'} \subseteq Range(ready) \cup {runningThread, Idle, Main}
      /\ interrupts' \in {"on", "off"}
      /\ resumesWith' \in [Threads -> {"on", "off", "as is"}]
  BY <1>1, DispatchKeeps
<1>5. {halted', preempted'} \subseteq BOOLEAN
  BY <1>1, TypesOfFlags
<1> QED
  BY <1>1, <1>2, <1>3, <1>4, <1>5, QuietKeepsInv

LEMMA PreemptKeepsInv ==
    ASSUME ConsoleInv, Preempt
    PROVE  ConsoleInv'
<1> DEFINE u == runningThread
           q == pc[runningThread]
<1>1. /\ Dispatch /\ pc' = pc
      /\ UNCHANGED << halted, preempted >>
      /\ UNCHANGED << semVars, ringVars, consoleVars, elements, stored >>
  BY DEF Preempt, UserRest
<1>2. q \in StatementsOf(u) /\ u \in Threads /\ q # "new" /\ pc' = [pc EXCEPT ![u] = q]
  BY <1>1, InvFacts, TypesOfFlags
<1>3. /\ ReadyIsRight'
      /\ Range(ready') \cup {runningThread'} \subseteq Range(ready) \cup {runningThread, Idle, u}
      /\ interrupts' \in {"on", "off"}
      /\ resumesWith' \in [Threads -> {"on", "off", "as is"}]
  BY <1>1, DispatchKeeps
<1>4. {halted', preempted'} \subseteq BOOLEAN
  BY <1>1, TypesOfFlags
<1> QED
  BY <1>1, <1>2, <1>3, <1>4, QuietKeepsInv

LEMMA ThreadExitKeepsInv ==
    ASSUME ConsoleInv, ThreadExit
    PROVE  ConsoleInv'
<1> DEFINE u == runningThread
<1>1. /\ u # Idle /\ pc[u] = "user" /\ pc' = [pc EXCEPT ![u] = "finished"]
      /\ SwitchTo(ready, "off", "off")
      /\ UNCHANGED << halted, preempted >>
      /\ UNCHANGED << semVars, ringVars, consoleVars, elements, stored >>
  BY DEF ThreadExit, Step, UserRest
<1>2. /\ u \in Threads /\ ReadyIsRight
      /\ interrupts \in {"on", "off"} /\ resumesWith \in [Threads -> {"on", "off", "as is"}]
  BY InvFacts
<1>3. "finished" \in StatementsOf(u)
  BY <1>1, <1>2, InvFacts, WhoIsWhere DEF WriterStatements
<1>4. {pc[u], "finished"} \subseteq Uncounted /\ pc[u] # "send" /\ pc[u] # "poll"
  BY <1>1 DEF Uncounted
<1>5. ReadyIsRight' /\ Range(ready') \cup {runningThread'} \subseteq Range(ready) \cup {Idle}
  BY <1>1, <1>2, SwitchKeeps DEF ReadyIsRight
<1>6. runningThread' \in Threads
  BY <1>5 DEF ReadyIsRight
<1>7. interrupts' \in {"on", "off"} /\ resumesWith' \in [Threads -> {"on", "off", "as is"}]
  BY <1>1, <1>2, <1>6, SwitchTypes
<1>8. {halted', preempted'} \subseteq BOOLEAN
  BY <1>1, TypesOfFlags
<1> QED
  BY <1>1, <1>2, <1>3, <1>4, <1>5, <1>7, <1>8, QuietKeepsInv

LEMMA ThreadCreateKeepsInv ==
    ASSUME ConsoleInv, NEW t \in Threads, ThreadCreate(t)
    PROVE  ConsoleInv'
<1>1. /\ pc[t] = "new" /\ pc' = [pc EXCEPT ![t] = "user"]
      /\ ready' = Enqueue(ready, t)
      /\ UNCHANGED << runningThread, interrupts, resumesWith, halted, preempted >>
      /\ UNCHANGED << semVars, ringVars, consoleVars, elements, stored >>
  BY DEF ThreadCreate, UserRest, cpuVars
<1>2. /\ \A r \in Range(ready) : pc[r] # "new"
      /\ pc[runningThread] # "new" /\ pc[Idle] = "user"
      /\ ReadyIsRight
  BY FourAreDifferent DEF ConsoleInv, ThreadsAreRight, StatementsOf
<1>3. t # Idle /\ t \notin Range(ready) /\ t # runningThread
  BY <1>1, <1>2
<1>4. /\ ready' \in Seq(Threads) /\ IsInjective(ready') /\ Idle \notin Range(ready')
      /\ Range(ready') \subseteq Range(ready) \cup {t}
  BY <1>1, <1>2, <1>3, EnqueueKeeps DEF ReadyIsRight
<1>5. ReadyIsRight'
  BY <1>1, <1>2, <1>3, <1>4 DEF ReadyIsRight
<1>6. Range(ready') \cup {runningThread'} \subseteq Range(ready) \cup {runningThread, Idle, t}
  BY <1>1, <1>4
<1>7. "user" \in StatementsOf(t)
  BY <1>1, <1>3, InvFacts, WhoIsWhere DEF WriterStatements
<1>8. {pc[t], "user"} \subseteq Uncounted /\ pc[t] # "send" /\ pc[t] # "poll"
  BY <1>1 DEF Uncounted
<1>9. interrupts' \in {"on", "off"} /\ resumesWith' \in [Threads -> {"on", "off", "as is"}]
      /\ {halted', preempted'} \subseteq BOOLEAN
  BY <1>1, InvFacts, TypesOfFlags
<1> QED
  BY <1>1, <1>5, <1>6, <1>7, <1>8, <1>9, QuietKeepsInv

LEMMA TransmitKeepsInv ==
    ASSUME ConsoleInv, ConsoleTransmits
    PROVE  ConsoleInv'
<1> DEFINE q == pc[runningThread]
<1>1. /\ txReady' = TRUE
      /\ UNCHANGED << pc, newCharacter, sent, ready, runningThread, resumesWith, interrupts >>
      /\ UNCHANGED << semVars, ringVars, elements, halted, preempted, stored >>
      /\ UNCHANGED << buffer, head, tail >>
  BY DEF ConsoleTransmits, OutputRest, cpuVars, ringVars
<1>2. Buffered' = Buffered /\ OutputIsInOrder'
  BY <1>1, SameArray DEF ConsoleInv
<1>3. /\ ReadyIsRight /\ runningThread \in Threads
      /\ q \in StatementsOf(runningThread) /\ q # "new"
      /\ pc' = [pc EXCEPT ![runningThread] = q]
  BY <1>1, InvFacts, TypesOfFlags
<1>4. ReadyIsRight'
  BY <1>1, <1>3 DEF ReadyIsRight
<1>5. Range(ready') \cup {runningThread'} \subseteq
         Range(ready) \cup {runningThread, Idle, runningThread}
  BY <1>1
<1>6. ThreadsAreRight' /\ MutexesMatch' /\ PermitsMatchBuffer' /\ SemaphoresAreTyped'
  BY <1>1, <1>2, <1>3, <1>4, <1>5, QuietStep
<1>7. TypeOK /\ HandMatches /\ CountIsExact
  BY DEF ConsoleInv
<1>8. HandMatches'
  BY <1>1, <1>7 DEF HandMatches
<1>9. CountIsExact'
  BY <1>1, <1>2, <1>7 DEF CountIsExact
<1>10. RestIsTyped' /\ Flags'
  BY <1>1, <1>7 DEF TypeOK, RestIsTyped, RingIsTyped, Flags
<1> QED
  BY <1>2, <1>6, <1>8, <1>9, <1>10, InvInParts

LEMMA SendKeepsInv ==
    ASSUME ConsoleInv, Send
    PROVE  ConsoleInv'
<1> DEFINE u == runningThread
<1>1. /\ pc[u] = "send" /\ pc' = [pc EXCEPT ![u] = "poll"]
      /\ newCharacter' = << >> /\ txReady' = FALSE
      /\ UNCHANGED << ready, runningThread, resumesWith, interrupts >>
      /\ UNCHANGED << semVars, ringVars, elements, halted, preempted, stored >>
      /\ UNCHANGED << buffer, head, tail >>
  BY DEF Send, Step, OutputRest, cpuVars, ringVars
<1>2. /\ ReadyIsRight /\ u \in Threads /\ PlacesAreKnown
      /\ \A t \in Threads : pc[t] \in StatementsOf(t)
      /\ Capacity \in Nat \ {0} /\ Buffered \in 0 .. Capacity
      /\ TypeOK /\ HandMatches /\ CountIsExact /\ OutputIsInOrder
  BY InvFacts DEF ConsoleInv
<1>3. u = Output /\ "poll" \in StatementsOf(u)
  BY <1>1, <1>2, WhoIsWhere DEF OutputStatements
<1>4. txReady
  BY <1>1, <1>2, <1>3, Zenon DEF HandMatches
<1>5. sent' = sent \o newCharacter
  BY <1>4 DEF Send
<1>6. PICK t \in Threads : newCharacter = << t >>
  BY <1>1, <1>2, <1>3 DEF HandMatches, TypeOK
<1>7. PICK n \in 0 .. Capacity : n = Buffered
  BY <1>2
<1>8. /\ sent \in Seq(Threads) /\ sent \in Seq(Writers) /\ stored \in Seq(Writers)
      /\ Len(sent) \in Nat /\ Len(stored) \in Nat
      /\ Writers \subseteq Threads
  BY LengthsAreNat
<1>9. Elements(n) \in Seq(Threads) /\ stored = (sent \o << t >>) \o Elements(n)
  <2>1. RingIsTyped
    BY <1>2 DEF TypeOK, RingIsTyped
  <2> QED
    BY <1>2, <1>6, <1>7, <2>1, ElementsAreThreads DEF OutputIsInOrder
<1>10. t \in Writers
  <2> DEFINE q == Elements(n)
  <2>1. q \in Seq(Threads) /\ stored = (sent \o << t >>) \o q
    BY <1>9
  <2> HIDE DEF q
  <2>2. << t >> \in Seq(Threads) /\ Len(<< t >>) = 1 /\ << t >>[1] = t
    BY <1>6
  <2>3. /\ sent \o << t >> \in Seq(Threads) /\ Len(sent \o << t >>) = Len(sent) + 1
        /\ (sent \o << t >>)[Len(sent) + 1] = t
    BY <1>8, <2>2, ConcatProperties
  <2>4. stored[Len(sent) + 1] = t /\ Len(stored) = Len(sent) + 1 + Len(q) /\ Len(q) \in Nat
    BY <1>8, <2>1, <2>3, ConcatProperties, LenProperties
  <2>5. Len(sent) + 1 \in 1 .. Len(stored)
    BY <1>8, <2>4
  <2> QED
    BY <1>8, <2>4, <2>5, ElementOfSeq
<1>11. sent' \in Seq(Writers) /\ Len(sent') = Len(sent) + 1
  <2>1. << t >> \in Seq(Writers) /\ Len(<< t >>) = 1
    BY <1>10
  <2> QED
    BY <1>5, <1>6, <1>8, <2>1, ConcatProperties
<1>12. Buffered' = Buffered
  <2>1. Len(newCharacter) = 1 /\ Len(newCharacter') = 0
    BY <1>1, <1>6
  <2> QED
    BY <1>1, <1>8, <1>11, <2>1 DEF Buffered
<1>13. OutputIsInOrder'
  <2>1. Elements(Buffered)' = Elements(n)
    BY <1>1, <1>7, <1>12 DEF Elements
  <2>2. stored' = sent' \o newCharacter' \o Elements(n)
    <3>1. sent' \in Seq(Writers) /\ sent' \o << >> = sent'
      BY <1>11, ConcatEmptySeq
    <3> QED
      BY <1>1, <1>5, <1>6, <1>9, <3>1
  <2>3. tail' = (head' + Buffered') % Capacity
    BY <1>1, <1>2, <1>12 DEF OutputIsInOrder
  <2> QED
    BY <1>2, <1>12, <2>1, <2>2, <2>3 DEF OutputIsInOrder
<1>14. ThreadsAreRight' /\ MutexesMatch' /\ PermitsMatchBuffer' /\ SemaphoresAreTyped'
  <2>1. ReadyIsRight'
    BY <1>1, <1>2 DEF ReadyIsRight
  <2>2. Range(ready') \cup {runningThread'} \subseteq
           Range(ready) \cup {runningThread, Idle, runningThread}
    BY <1>1
  <2>3. {pc[u], "poll"} \subseteq Uncounted
    BY <1>1 DEF Uncounted
  <2> QED
    BY <1>1, <1>2, <1>3, <1>12, <2>1, <2>2, <2>3, QuietStep
<1>15. HandMatches' /\ CountIsExact'
  <2>1. Main # Output /\ Output \in Threads /\ Main \in Threads
    BY FourAreDifferent
  <2>2. pc'[Output] = "poll" /\ pc'[Main] = pc[Main]
    BY <1>1, <1>2, <1>3, <2>1 DEF PlacesAreKnown
  <2>3. HandMatches'
    BY <1>1, <2>2 DEF HandMatches
  <2>4. CountIsExact'
    BY <1>1, <1>2, <1>12, <2>2 DEF CountIsExact
  <2> QED
    BY <2>3, <2>4
<1>16. RestIsTyped' /\ Flags'
  BY <1>1, <1>2, <1>11 DEF TypeOK, RestIsTyped, RingIsTyped, Flags
<1> QED
  BY <1>13, <1>14, <1>15, <1>16, InvInParts

LEMMA NumberIsExact ==
    ASSUME ConsoleInv
    PROVE  NumberOfElements = Buffered % Capacity /\ NumberOfElements \in 0 .. Capacity
<1>1. /\ Capacity \in Nat \ {0} /\ Buffered \in 0 .. Capacity
      /\ head \in 0 .. Capacity - 1 /\ tail \in 0 .. Capacity - 1
      /\ tail = (head + Buffered) % Capacity
  BY InvFacts DEF ConsoleInv, TypeOK, OutputIsInOrder
<1>2. PICK n \in 0 .. Capacity : n = Buffered
  BY <1>1
<1> DEFINE end == head + n
<1>3. end \in 0 .. Capacity + Capacity - 1 /\ n \in 0 .. Capacity + Capacity - 1
      /\ tail = end % Capacity /\ end = head + n
  BY <1>1, <1>2
<1> HIDE DEF end
<1>4. tail = IF end < Capacity THEN end ELSE end - Capacity
  BY <1>3, Wrapping
<1>5. n % Capacity = IF n < Capacity THEN n ELSE n - Capacity
  BY <1>3, Wrapping
<1>6. NumberOfElements = n % Capacity
  BY <1>1, <1>3, <1>4, <1>5 DEF NumberOfElements
<1>7. NumberOfElements \in 0 .. Capacity
  BY <1>1, <1>5, <1>6
<1> QED
  BY <1>2, <1>6, <1>7

LEMMA CountKeepsInv ==
    ASSUME ConsoleInv, Count
    PROVE  ConsoleInv'
<1> DEFINE u == runningThread
<1>1. /\ pc[u] = "count" /\ pc' = [pc EXCEPT ![u] = "countSignalHead"]
      /\ elements' = NumberOfElements
      /\ UNCHANGED << ready, runningThread, resumesWith, interrupts, txReady, sent >>
      /\ UNCHANGED << semVars, ringVars, newCharacter, halted, preempted, stored >>
      /\ UNCHANGED << buffer, head, tail >>
  BY ArrayStatements DEF Count, Step, ArrayRest, cpuVars, ringVars
<1>2. /\ ReadyIsRight /\ u \in Threads /\ PlacesAreKnown
      /\ \A t \in Threads : pc[t] \in StatementsOf(t)
      /\ TypeOK /\ HandMatches
  BY InvFacts DEF ConsoleInv
<1>3. u = Main /\ "countSignalHead" \in StatementsOf(u)
  BY <1>1, <1>2, WhoIsWhere DEF MainStatements
<1>4. Buffered' = Buffered /\ OutputIsInOrder'
  BY <1>1, SameArray DEF ConsoleInv
<1>5. ThreadsAreRight' /\ MutexesMatch' /\ PermitsMatchBuffer' /\ SemaphoresAreTyped'
  <2>1. ReadyIsRight'
    BY <1>1, <1>2 DEF ReadyIsRight
  <2>2. Range(ready') \cup {runningThread'} \subseteq
           Range(ready) \cup {runningThread, Idle, runningThread}
    BY <1>1
  <2> QED
    BY <1>1, <1>2, <1>3, <1>4, <2>1, <2>2, QuietStep
<1>6. HandMatches'
  <2>1. Main # Output /\ Output \in Threads
    BY FourAreDifferent
  <2>2. pc'[Output] = pc[Output]
    BY <1>1, <1>2, <1>3, <2>1 DEF PlacesAreKnown
  <2> QED
    BY <1>1, <1>2, <2>2 DEF HandMatches
<1>7. CountIsExact'
  BY <1>1, <1>4, NumberIsExact DEF CountIsExact
<1>8. RestIsTyped' /\ Flags'
  BY <1>1, <1>2, NumberIsExact DEF TypeOK, RestIsTyped, RingIsTyped, Flags
<1> QED
  BY <1>4, <1>5, <1>6, <1>7, <1>8, InvInParts

\* Every action keeps the invariant.
LEMMA NextKeepsInv ==
    ASSUME ConsoleInv, [Next]_vars
    PROVE  ConsoleInv'
<1>1. ASSUME UserCall PROVE ConsoleInv'
  BY <1>1, PutcKeepsInv, ThreadExitKeepsInv, ThreadCreateKeepsInv DEF UserCall
<1>2. ASSUME KernelStep PROVE ConsoleInv'
  BY <1>2, WaitKeepsInv, SignalKeepsInv, StoreKeepsInv, FetchKeepsInv, CountKeepsInv,
     PollKeepsInv, SendKeepsInv, MainDispatchesKeepsInv, MainAsksKeepsInv, MainReturnsKeepsInv
  DEF KernelStep
<1> QED
  BY <1>1, <1>2, PreemptKeepsInv, PreemptInsideKeepsInv, TransmitKeepsInv, StutterKeepsInv
  DEF Next

\* The loop of main() is entered with every thread at its place and an empty
\* array.
LEMMA InitHolds ==
    ASSUME Init
    PROVE  ConsoleInv
<1>1. /\ ready = << UserMain, Output >> /\ runningThread = Main
      /\ interrupts = "on" /\ resumesWith = [t \in Threads |-> "on"]
      /\ newCharacter = << >> /\ txReady = TRUE /\ elements = 0
      /\ halted = FALSE /\ preempted = FALSE /\ stored = << >> /\ sent = << >>
      /\ blockedThreads = [s \in BufferSemaphores |-> << >>]
      /\ buffer = [i \in 0 .. Capacity - 1 |-> Main] /\ head = 0 /\ tail = 0
  BY DEF Init, Construct
<1>2. /\ Main \in Threads /\ UserMain \in Threads /\ Output \in Threads /\ Idle \in Threads
      /\ Main # UserMain /\ Main # Output /\ Main # Idle
      /\ UserMain # Output /\ UserMain # Idle /\ Output # Idle
      /\ Capacity \in Nat \ {0}
  BY FourAreDifferent, KernelBufferAssumption DEF KernelBufferAssumption
<1>3. /\ pc = [t \in Threads |-> pc[t]]
      /\ \A t \in Threads : pc[t] = IF t = Main THEN "loop" ELSE IF t = Output THEN "poll"
                                    ELSE IF t \in {UserMain, Idle} THEN "user" ELSE "new"
  BY <1>2 DEF Init
<1>4. /\ semaphoreValue \in [BufferSemaphores -> Int]
      /\ semaphoreValue["spaceAvailable"] = Capacity /\ semaphoreValue["itemAvailable"] = 0
      /\ semaphoreValue["mutexHead"] = 1 /\ semaphoreValue["mutexTail"] = 1
  BY <1>2 DEF Init, Construct, BufferSemaphores
<1>5. Range(ready) = {UserMain, Output} /\ IsInjective(ready) /\ ready \in Seq(Threads)
  BY <1>1, <1>2 DEF Range, IsInjective
<1>6. PlacesAreKnown
  <2>1. InUse \subseteq {Main, UserMain, Output, Idle}
    BY <1>3 DEF InUse
  <2>2. IsFiniteSet({Main, UserMain, Output, Idle})
    <3>1. /\ IsFiniteSet({Main})
          /\ {Main, UserMain, Output, Idle} = (({Main} \cup {UserMain}) \cup {Output}) \cup {Idle}
      BY FS_Singleton
    <3>2. IsFiniteSet({Main} \cup {UserMain})
      BY <3>1, FS_AddElement
    <3>3. IsFiniteSet(({Main} \cup {UserMain}) \cup {Output})
      BY <3>2, FS_AddElement
    <3> QED
      BY <3>1, <3>3, FS_AddElement
  <2> QED
    BY <1>3, <2>1, <2>2, FS_Subset DEF PlacesAreKnown
<1>7. \A t \in Threads : pc[t] \in StatementsOf(t)
  BY <1>2, <1>3 DEF StatementsOf, MainStatements, OutputStatements, WriterStatements
<1>8. ReadyIsRight
  BY <1>1, <1>2, <1>5 DEF ReadyIsRight
<1>9. /\ blockedThreads \in [BufferSemaphores -> Seq(Threads)]
      /\ \A s \in BufferSemaphores : blockedThreads[s] = << >>
  BY <1>1
<1>10. BlockedAreWaiting
  <2>1. IsInjective(<< >>) /\ Range(<< >>) = {}
    BY DEF IsInjective, Range
  <2> QED
    BY <1>9, <2>1 DEF BlockedAreWaiting
<1>11. ThreadsAreRight
  <2>1. pc[runningThread] # "new" /\ \A t \in Range(ready) : pc[t] # "new"
    BY <1>1, <1>2, <1>3, <1>5
  <2> QED
    BY <1>6, <1>7, <1>8, <1>10, <2>1 DEF ThreadsAreRight
<1>12. \A S \in CountedSets : Number(S) = 0
  <2> SUFFICES ASSUME NEW S \in CountedSets PROVE Number(S) = 0
    OBVIOUS
  <2>1. S \cap {"loop", "poll", "user", "new"} = {}
    BY DEF CountedSets, PlacesTaken, PlacesNotGiven, ItemsTaken, ItemsNotGiven, Takers
  <2>2. {t \in Threads : pc[t] \in S} = {}
    BY <1>3, <2>1
  <2> QED
    BY <2>2, FS_EmptySet DEF Number
<1>13. Buffered = 0
  <2>1. Len(<< >>) = 0
    OBVIOUS
  <2>2. Len(stored) = 0 /\ Len(sent) = 0 /\ Len(newCharacter) = 0
    BY <1>1, <2>1
  <2> QED
    BY <2>2 DEF Buffered
<1>14. MutexesMatch
  BY <1>4, <1>12 DEF MutexesMatch, CountedSets
<1>15. PermitsMatchBuffer
  <2>1. ListLengths
    <3>1. \A s \in BufferSemaphores : semaphoreValue[s] >= 0
      BY <1>2, <1>4 DEF BufferSemaphores
    <3>2. Len(<< >>) = 0
      OBVIOUS
    <3> QED
      BY <1>4, <1>9, <3>1, <3>2 DEF ListLengths
  <2>2. /\ Number(PlacesTaken) = 0 /\ Number(PlacesNotGiven) = 0
        /\ Number(ItemsTaken) = 0 /\ Number(ItemsNotGiven) = 0
    BY <1>12 DEF CountedSets
  <2> QED
    BY <1>2, <1>4, <1>13, <2>1, <2>2, PermitsInParts DEF PlacePermits, ItemPermits
<1>16. HandMatches /\ CountIsExact
  BY <1>1, <1>2, <1>3 DEF HandMatches, CountIsExact
<1>17. OutputIsInOrder
  <2>1. Elements(Buffered) = << >>
    BY <1>13 DEF Elements
  <2>2. 0 % Capacity = 0
    BY <1>2, Wrapping
  <2> QED
    BY <1>1, <1>2, <1>13, <2>1, <2>2 DEF OutputIsInOrder
<1>18. TypeOK
  <2>1. DOMAIN pc = Threads /\ resumesWith \in [Threads -> {"on", "off", "as is"}]
    BY <1>1, <1>3
  <2>2. buffer \in [0 .. Capacity - 1 -> Threads]
    BY <1>1, <1>2
  <2>3. head \in 0 .. Capacity - 1 /\ tail \in 0 .. Capacity - 1 /\ elements \in 0 .. Capacity
    BY <1>1, <1>2
  <2>4. << >> \in Seq(Writers)
    OBVIOUS
  <2>5. {txReady, halted, preempted} \subseteq BOOLEAN
    BY <1>1
  <2> QED
    BY <1>1, <1>2, <1>4, <1>5, <1>9, <2>1, <2>2, <2>3, <2>4, <2>5 DEF TypeOK
<1> QED
  BY <1>11, <1>14, <1>15, <1>16, <1>17, <1>18 DEF ConsoleInv

-----------------------------------------------------------------------------
(* The theorems                                                            *)

THEOREM InvAlways == Spec => []ConsoleInv
<1>1. Init => ConsoleInv
  BY InitHolds
<1>2. ConsoleInv /\ [Next]_vars => ConsoleInv'
  BY NextKeepsInv
<1> QED
  BY <1>1, <1>2, PTL DEF Spec

\* Every variable stays of its kind: the cursors of the array stay inside it,
\* and only threads that write put characters (KernelBuffer.cpp:65-104).
THEOREM ConsoleTypes == Spec => []TypeOK
<1>1. ConsoleInv => TypeOK
  BY DEF ConsoleInv
<1> QED
  BY <1>1, InvAlways, PTL

\* No character is lost, doubled, overwritten or overtaken between putc and
\* the console, whoever is preempted where outside the semaphore operations
\* (KernelBuffer.cpp:65-87, KernelThreadFunctions.cpp).
THEOREM CharactersStayInOrder == Spec => []OutputIsInOrder
<1>1. ConsoleInv => OutputIsInOrder
  BY DEF ConsoleInv
<1> QED
  BY <1>1, InvAlways, PTL

\* The permits of the two counting semaphores are the free and the filled
\* places, and a list of waiting threads is as long as its value says
\* (KernelBuffer.cpp:65-87, KernelSemaphore.cpp:36-52).
THEOREM PermitsCountPlaces == Spec => []PermitsMatchBuffer
<1>1. ConsoleInv => PermitsMatchBuffer
  BY DEF ConsoleInv
<1> QED
  BY <1>1, InvAlways, PTL

\* The number main() gets while it holds the two mutexes is that of the
\* characters in the array, a full array counting as empty
\* (KernelBuffer.cpp:89-104).
THEOREM MainCountsRight == Spec => []CountIsExact
<1>1. ConsoleInv => CountIsExact
  BY DEF ConsoleInv
<1> QED
  BY <1>1, InvAlways, PTL
=============================================================================
