---------------------------- MODULE FirstFitProofs ---------------------------
(***************************************************************************)
(* Proofs about FirstFit.tla: for every size of its region and all         *)
(* requests, the allocator keeps its list sorted and apart from the        *)
(* segments in use, as long as the callers own their blocks.               *)
(***************************************************************************)
EXTENDS FirstFit, WellFoundedInduction, TLAPS

-----------------------------------------------------------------------------
(* Induction goes through a set of numbers                                 *)

\* Induction up to n, with a set in the place of a predicate.
LEMMA SetInduction ==
    ASSUME NEW n \in Nat, NEW T, 0 \in T, \A k \in 0 .. n - 1 : k \in T => k + 1 \in T
    PROVE  0 .. n \subseteq T
<1> DEFINE rest == (0 .. n) \ T
           less == OpToRel(<, Nat)
<1> SUFFICES ASSUME rest # {} PROVE FALSE
  OBVIOUS
<1>1. PICK m \in rest : \A k \in rest : ~ (<< k, m >> \in less)
  <2>1. IsWellFoundedOn(less, Nat)
    BY NatLessThanWellFounded
  <2>2. rest \subseteq Nat
    OBVIOUS
  <2> HIDE DEF rest, less
  <2> QED
    BY <2>1, <2>2, WFMin
<1>2. m \in Nat /\ m # 0 /\ m - 1 \in 0 .. n - 1 /\ (m - 1) + 1 = m
  OBVIOUS
<1>3. << m - 1, m >> \in less
  BY <1>2 DEF OpToRel
<1>4. m - 1 \in T
  <2>1. m - 1 \in 0 .. n
    BY <1>2
  <2> HIDE DEF less
  <2> QED
    BY <1>1, <1>3, <2>1
<1>5. m \in T
  BY <1>2, <1>4
<1> QED
  BY <1>5

\* Whatever step leads from one value to the next, the values of n steps exist.
LEMMA IterationExists ==
    ASSUME NEW n \in Nat, NEW S, NEW start \in S, NEW step \in [S -> S]
    PROVE  \E f \in [0 .. n -> S] : f[0] = start /\ \A i \in 1 .. n : f[i] = step[f[i - 1]]
<1> DEFINE Values(k) == {f \in [0 .. k -> S] :
                            f[0] = start /\ \A i \in 1 .. k : f[i] = step[f[i - 1]]}
           T == {k \in 0 .. n : Values(k) # {}}
<1>1. 0 \in T
  <2> DEFINE f == [i \in 0 .. 0 |-> start]
  <2>1. f \in Values(0)
    OBVIOUS
  <2> QED
    BY <2>1
<1>2. ASSUME NEW k \in 0 .. n - 1, k \in T PROVE k + 1 \in T
  <2>1. PICK f \in [0 .. k -> S] :
           f[0] = start /\ \A i \in 1 .. k : f[i] = step[f[i - 1]]
    BY <1>2
  <2> DEFINE h == [i \in 0 .. k + 1 |-> IF i = k + 1 THEN step[f[k]] ELSE f[i]]
  <2>2. h \in [0 .. k + 1 -> S]
    OBVIOUS
  <2>3. h[0] = start /\ \A i \in 1 .. k + 1 : h[i] = step[h[i - 1]]
    BY <2>1
  <2> HIDE DEF h
  <2>4. h \in Values(k + 1)
    BY <2>2, <2>3
  <2>5. k + 1 \in 0 .. n
    OBVIOUS
  <2> HIDE DEF Values
  <2> QED
    BY <2>4, <2>5
<1>3. n \in T
  <2> HIDE DEF T
  <2>1. 0 .. n \subseteq T
    BY <1>1, <1>2, SetInduction
  <2> QED
    BY <2>1
<1>4. Values(n) # {}
  BY <1>3
<1> QED
  BY <1>4

-----------------------------------------------------------------------------
(* The list                                                                *)

Links == Addresses \cup {Null}

\* The headers, by their types.
TypeOK ==
    /\ freeListHead \in Links
    /\ numberOfBlocks \in [Addresses -> Nat]
    /\ next \in [Addresses -> Links]
    /\ prev \in [Addresses -> Links]
    /\ held \in SUBSET (Addresses \X (Nat \ {0}))

\* The members of F are linked both ways in the order of their addresses.
Chained(F) ==
    /\ F \subseteq Addresses
    /\ freeListHead \in F \/ (F = {} /\ freeListHead = Null)
    /\ \A a \in F : freeListHead <= a
    /\ \A a \in F : prev[a] = Null <=> a = freeListHead
    /\ \A a \in F : next[a] # Null => next[a] \in F /\ a < next[a] /\ prev[next[a]] = a
    /\ \A a \in F : prev[a] # Null => prev[a] \in F /\ prev[a] < a /\ next[prev[a]] = a
    /\ \A a, b \in F : a < b => next[a] # Null /\ next[a] <= b

\* The list of linked elements is made of just these elements.
ListIsChain == TypeOK => \A F : Chained(F) => FreeList = F

\* The recursion in FreeList has a value, which holds no address outside the
\* chain, and the n-th address at the latest after n steps.
LEMMA ListOfChain == ListIsChain
<1> SUFFICES ASSUME TypeOK, NEW F, Chained(F) PROVE FreeList = F
  BY DEF ListIsChain
<1> DEFINE N == totalNumberOfBlocks - 1
           start == {freeListHead} \ {Null}
           Step(r) == r \cup ({next[a] : a \in r} \ {Null})
           nextValue(f) == [n \in Addresses |-> IF n = 0 THEN start ELSE Step(f[n - 1])]
<1>1. N \in Nat /\ Addresses = 0 .. N
  BY FirstFitAssumption DEF Addresses
<1> HIDE DEF N
<1>2. \E f : f = nextValue(f)
  <2> DEFINE step == [r \in SUBSET Addresses |-> Step(r)]
  <2>1. start \in SUBSET Addresses
    BY DEF TypeOK, Links
  <2>2. step \in [SUBSET Addresses -> SUBSET Addresses]
    BY DEF TypeOK, Links
  <2> HIDE DEF start, step, Step
  <2>3. PICK f \in [0 .. N -> SUBSET Addresses] :
           f[0] = start /\ \A i \in 1 .. N : f[i] = step[f[i - 1]]
    <3> DEFINE S == SUBSET Addresses
    <3>1. start \in S /\ step \in [S -> S]
      BY <2>1, <2>2
    <3> HIDE DEF S
    <3>2. \E f \in [0 .. N -> S] : f[0] = start /\ \A i \in 1 .. N : f[i] = step[f[i - 1]]
      <4>1. \A n \in Nat : \A T : \A x \in T : \A g \in [T -> T] :
               \E f \in [0 .. n -> T] : f[0] = x /\ \A i \in 1 .. n : f[i] = g[f[i - 1]]
        BY ONLY IterationExists
      <4>2. N \in Nat /\ start \in S /\ step \in [S -> S]
        BY <1>1, <3>1
      <4> QED
        BY ONLY <4>1, <4>2, SMTT(30)
    <3> QED
      BY <3>2 DEF S
  <2>4. \A i \in 1 .. N : f[i] = Step(f[i - 1])
    <3> SUFFICES ASSUME NEW i \in 1 .. N PROVE f[i] = Step(f[i - 1])
      OBVIOUS
    <3>1. f[i - 1] \in SUBSET Addresses
      BY <1>1
    <3> QED
      BY <2>3, <3>1 DEF step
  <2> HIDE DEF Step
  <2>5. f = nextValue(f)
    BY <1>1, <2>3, <2>4
  <2> QED
    BY <2>5
<1> DEFINE reached == CHOOSE f : f = nextValue(f)
<1>3. FreeList = reached[N]
  BY DEF FreeList, N
<1>4. reached = nextValue(reached)
  <2> HIDE DEF nextValue
  <2> QED
    BY <1>2
<1>5. reached[0] = start /\ \A n \in 1 .. N : reached[n] = Step(reached[n - 1])
  <2> HIDE DEF Step, start, reached
  <2>1. \A n \in 0 .. N : nextValue(reached)[n] = IF n = 0 THEN start ELSE Step(reached[n - 1])
    BY <1>1
  <2> HIDE DEF nextValue
  <2>2. \A n \in 0 .. N : reached[n] = IF n = 0 THEN start ELSE Step(reached[n - 1])
    BY <1>4, <2>1
  <2> QED
    BY <1>1, <2>2
<1> HIDE DEF reached
<1>8. \A a \in F : /\ a \in 0 .. N /\ freeListHead \in 0 .. N /\ freeListHead <= a
                   /\ prev[a] = Null => a = freeListHead
                   /\ prev[a] # Null => prev[a] \in F /\ prev[a] < a /\ next[prev[a]] = a
  BY <1>1 DEF Chained
<1>6. reached[N] \subseteq F
  <2> DEFINE T == {n \in 0 .. N : reached[n] \subseteq F}
  <2>1. 0 \in T
    BY <1>1, <1>5 DEF Chained
  <2>2. ASSUME NEW k \in 0 .. N - 1, k \in T PROVE k + 1 \in T
    <3>1. k + 1 \in 1 .. N /\ (k + 1) - 1 = k
      BY <1>1
    <3>2. reached[k + 1] = Step(reached[k])
      BY <1>5, <3>1
    <3> QED
      BY <2>2, <3>1, <3>2 DEF Chained
  <2> HIDE DEF T
  <2>3. 0 .. N \subseteq T
    BY <1>1, <2>1, <2>2, SetInduction
  <2> QED
    BY <1>1, <2>3 DEF T
<1>7. F \subseteq reached[N]
  <2> DEFINE T == {n \in 0 .. N : \A a \in F : a <= n => a \in reached[n]}
  <2>1. 0 \in T
    <3> SUFFICES ASSUME NEW a \in F, a <= 0 PROVE a \in reached[0]
      BY <1>1
    <3>1. a = freeListHead /\ a # Null
      BY <1>1, <1>8 DEF Null
    <3> QED
      BY <1>5, <3>1
  <2>2. ASSUME NEW k \in 0 .. N - 1, k \in T PROVE k + 1 \in T
    <3>1. k + 1 \in 1 .. N /\ (k + 1) - 1 = k
      BY <1>1
    <3>2. reached[k + 1] = Step(reached[k])
      BY <1>5, <3>1
    <3> SUFFICES ASSUME NEW a \in F, a <= k + 1 PROVE a \in reached[k + 1]
      BY <3>1
    <3>3. a \in Addresses /\ a \in 0 .. N
      BY <1>1, <1>8
    <3>4. CASE a <= k
      BY <2>2, <3>2, <3>4
    <3>5. CASE a = k + 1 /\ prev[a] # Null
      <4>1. prev[a] \in F /\ prev[a] <= k /\ next[prev[a]] = a
        <5>1. prev[a] \in F /\ prev[a] < a /\ next[prev[a]] = a
          BY <1>8, <3>5
        <5>2. prev[a] \in 0 .. N
          BY <1>8, <5>1
        <5> QED
          BY <3>5, <5>1, <5>2
      <4>2. prev[a] \in reached[k]
        BY <2>2, <4>1
      <4>3. a # Null
        BY <3>3 DEF Null
      <4> QED
        BY <3>2, <4>1, <4>2, <4>3
    <3>6. CASE a = k + 1 /\ prev[a] = Null
      <4>1. a = freeListHead /\ a # Null
        BY <1>8, <3>3, <3>6 DEF Null
      <4> DEFINE U == {n \in 0 .. N : a \in reached[n]}
      <4>2. 0 \in U
        BY <1>1, <1>5, <4>1
      <4>3. ASSUME NEW j \in 0 .. N - 1, j \in U PROVE j + 1 \in U
        <5>1. j + 1 \in 1 .. N /\ (j + 1) - 1 = j
          BY <1>1
        <5> QED
          BY <1>5, <4>3, <5>1
      <4> HIDE DEF U
      <4>4. 0 .. N \subseteq U
        BY <1>1, <4>2, <4>3, SetInduction
      <4> QED
        BY <3>1, <4>4 DEF U
    <3> QED
      BY <1>1, <3>3, <3>4, <3>5, <3>6
  <2> HIDE DEF T
  <2>3. 0 .. N \subseteq T
    BY <1>1, <2>1, <2>2, SetInduction
  <2> QED
    BY <1>1, <2>3 DEF T, Chained
<1> QED
  BY <1>3, <1>6, <1>7

LEMMA ListOfChainAfterAStep == ListIsChain'
BY ListOfChain, PTL
\* RemoveSegment, and the second merge of MergeWithPrevious
LEMMA RemovedElement ==
    ASSUME TypeOK, NEW F, Chained(F), NEW f \in F,
           freeListHead' = IF prev[f] = Null THEN next[f] ELSE freeListHead,
           next' = [a \in Addresses |-> IF a = prev[f] THEN next[f] ELSE next[a]],
           prev' = [a \in Addresses |-> IF a = next[f] THEN prev[f] ELSE prev[a]]
    PROVE  Chained(F \ {f})'
<1> DEFINE D == F \ {f}
           p == prev[f]
           n == next[f]
<1>1. /\ F \subseteq Addresses /\ freeListHead \in F /\ \A a \in F : a \in Int /\ freeListHead <= a
      /\ \A a \in F : prev[a] = Null <=> a = freeListHead
      /\ \A a \in F : next[a] # Null => next[a] \in F /\ a < next[a] /\ prev[next[a]] = a
      /\ \A a \in F : prev[a] # Null => prev[a] \in F /\ prev[a] < a /\ next[prev[a]] = a
      /\ \A a, b \in F : a < b => next[a] # Null /\ next[a] <= b
      /\ Null \notin F
  BY DEF Chained, Addresses, Null
<1>2. /\ n # Null => n \in F /\ f < n /\ prev[n] = f
      /\ p # Null => p \in F /\ p < f /\ next[p] = f
      /\ p = Null <=> f = freeListHead
      /\ \A b \in F : f < b => n # Null /\ n <= b
  BY <1>1
<1>3. /\ freeListHead' = IF p = Null THEN n ELSE freeListHead
      /\ \A a \in D : next'[a] = IF a = p THEN n ELSE next[a]
      /\ \A a \in D : prev'[a] = IF a = n THEN p ELSE prev[a]
  BY <1>1
<1> HIDE DEF p, n
<1>4. freeListHead' \in D \/ (D = {} /\ freeListHead' = Null)
  <2>1. CASE p = Null /\ n = Null
    <3>1. \A b \in F : b = f
      BY <1>1, <1>2, <2>1
    <3> QED
      BY <1>3, <2>1, <3>1
  <2>2. CASE p = Null /\ n # Null
    BY <1>1, <1>2, <1>3, <2>2
  <2>3. CASE p # Null
    BY <1>1, <1>2, <1>3, <2>3
  <2> QED
    BY <2>1, <2>2, <2>3
<1>5. \A a \in D : freeListHead' <= a
  BY <1>1, <1>2, <1>3
<1>6. \A a \in D : prev'[a] = Null <=> a = freeListHead'
  BY <1>1, <1>2, <1>3
<1>7. ASSUME NEW a \in D, next'[a] # Null
      PROVE  next'[a] \in D /\ a < next'[a] /\ prev'[next'[a]] = a
  <2>1. CASE a = p
    BY <1>1, <1>2, <1>3, <1>7, <2>1
  <2>2. CASE a # p
    <3>1. next'[a] = next[a] /\ next[a] \in F /\ a < next[a] /\ prev[next[a]] = a
      BY <1>1, <1>3, <1>7, <2>2
    <3>2. next[a] # f /\ next[a] # n
      BY <1>1, <1>2, <2>2, <3>1 DEF p
    <3> QED
      BY <1>3, <3>1, <3>2
  <2> QED
    BY <2>1, <2>2
<1>8. ASSUME NEW a \in D, prev'[a] # Null
      PROVE  prev'[a] \in D /\ prev'[a] < a /\ next'[prev'[a]] = a
  <2>1. CASE a = n
    BY <1>1, <1>2, <1>3, <1>8, <2>1
  <2>2. CASE a # n
    <3>1. prev'[a] = prev[a] /\ prev[a] \in F /\ prev[a] < a /\ next[prev[a]] = a
      BY <1>1, <1>3, <1>8, <2>2
    <3>2. prev[a] # f /\ prev[a] # p
      BY <1>1, <1>2, <2>2, <3>1 DEF n
    <3> QED
      BY <1>3, <3>1, <3>2
  <2> QED
    BY <2>1, <2>2
<1>9. ASSUME NEW a \in D, NEW b \in D, a < b
      PROVE  next'[a] # Null /\ next'[a] <= b
  <2>1. CASE a = p
    BY <1>1, <1>2, <1>3, <1>9, <2>1
  <2>2. CASE a # p
    BY <1>1, <1>3, <1>9, <2>2
  <2> QED
    BY <2>1, <2>2
<1> QED
  BY <1>1, <1>4, <1>5, <1>6, <1>7, <1>8, <1>9 DEF Chained, Addresses, Null

\* SplitSegment and MergeWithNext
LEMMA ReplacedElement ==
    ASSUME TypeOK, NEW F, Chained(F), NEW f \in F, NEW x \in Addresses \ F,
           \A a \in F : (a < f => a < x) /\ (f < a => x < a),
           Replace(f, x)
    PROVE  Chained((F \ {f}) \cup {x})'
<1> DEFINE D == (F \ {f}) \cup {x}
           p == prev[f]
           n == next[f]
<1>1. /\ F \subseteq Addresses /\ freeListHead \in F /\ \A a \in F : a \in Int /\ freeListHead <= a
      /\ \A a \in F : prev[a] = Null <=> a = freeListHead
      /\ \A a \in F : next[a] # Null => next[a] \in F /\ a < next[a] /\ prev[next[a]] = a
      /\ \A a \in F : prev[a] # Null => prev[a] \in F /\ prev[a] < a /\ next[prev[a]] = a
      /\ \A a, b \in F : a < b => next[a] # Null /\ next[a] <= b
      /\ Null \notin F /\ x \in Int /\ x # Null
  BY DEF Chained, Addresses, Null
<1>2. /\ n # Null => n \in F /\ f < n /\ prev[n] = f
      /\ p # Null => p \in F /\ p < f /\ next[p] = f
      /\ p = Null <=> f = freeListHead
      /\ \A b \in F : f < b => n # Null /\ n <= b
  BY <1>1
<1>3. /\ freeListHead' = IF p = Null THEN x ELSE freeListHead
      /\ \A a \in D : next'[a] = IF a = p THEN x ELSE IF a = x THEN n ELSE next[a]
      /\ \A a \in D : prev'[a] = IF a = n THEN x ELSE IF a = x THEN p ELSE prev[a]
  BY <1>1 DEF Replace
<1>4. /\ \A a \in F : (a < f => a < x) /\ (f < a => x < a) /\ a # x
      /\ p # x /\ n # x
  BY <1>1, <1>2
<1> HIDE DEF p, n
<1>5. freeListHead' \in D
  BY <1>1, <1>2, <1>3
<1>6. \A a \in D : freeListHead' <= a
  BY <1>1, <1>2, <1>3, <1>4
<1>7. \A a \in D : prev'[a] = Null <=> a = freeListHead'
  BY <1>1, <1>2, <1>3, <1>4
<1>8. ASSUME NEW a \in D, next'[a] # Null
      PROVE  next'[a] \in D /\ a < next'[a] /\ prev'[next'[a]] = a
  <2>1. CASE a = p
    BY <1>1, <1>2, <1>3, <1>4, <2>1
  <2>2. CASE a = x
    <3>1. next'[a] = n /\ n # Null
      BY <1>3, <1>4, <1>8, <2>2
    <3>2. n \in F /\ f < n /\ n \in D
      BY <1>1, <1>2, <3>1
    <3> QED
      BY <1>3, <1>4, <2>2, <3>1, <3>2
  <2>3. CASE a # p /\ a # x
    <3>1. next'[a] = next[a] /\ next[a] \in F /\ a < next[a] /\ prev[next[a]] = a
      BY <1>1, <1>3, <1>8, <2>3
    <3>2. next[a] # f /\ next[a] # n /\ next[a] # x
      BY <1>1, <1>2, <1>4, <2>3, <3>1 DEF p
    <3> QED
      BY <1>3, <3>1, <3>2
  <2> QED
    BY <2>1, <2>2, <2>3
<1>9. ASSUME NEW a \in D, prev'[a] # Null
      PROVE  prev'[a] \in D /\ prev'[a] < a /\ next'[prev'[a]] = a
  <2>1. CASE a = n
    BY <1>1, <1>2, <1>3, <1>4, <2>1
  <2>2. CASE a = x
    <3>1. prev'[a] = p /\ p # Null
      BY <1>3, <1>4, <1>9, <2>2
    <3>2. p \in F /\ p < f /\ p \in D
      BY <1>1, <1>2, <3>1
    <3> QED
      BY <1>3, <1>4, <2>2, <3>1, <3>2
  <2>3. CASE a # n /\ a # x
    <3>1. prev'[a] = prev[a] /\ prev[a] \in F /\ prev[a] < a /\ next[prev[a]] = a
      BY <1>1, <1>3, <1>9, <2>3
    <3>2. prev[a] # f /\ prev[a] # p /\ prev[a] # x
      BY <1>1, <1>2, <1>4, <2>3, <3>1 DEF n
    <3> QED
      BY <1>3, <3>1, <3>2
  <2> QED
    BY <2>1, <2>2, <2>3
<1>10. ASSUME NEW a \in D, NEW b \in D, a < b
       PROVE  next'[a] # Null /\ next'[a] <= b
  <2>1. CASE a = p
    BY <1>1, <1>2, <1>3, <1>4, <1>10, <2>1
  <2>2. CASE a = x
    BY <1>1, <1>2, <1>3, <1>4, <1>10, <2>2
  <2>3. CASE a # p /\ a # x /\ b = x
    <3>1. a \in F /\ a # f /\ a < f
      BY <1>1, <1>4, <1>10, <2>3
    <3>2. next[a] # Null /\ next[a] <= f /\ next[a] \in F /\ prev[next[a]] = a
      BY <1>1, <3>1
    <3>3. next[a] # f
      BY <2>3, <3>2 DEF p
    <3>4. next[a] \in Int /\ f \in Int /\ x \in Int
      BY <1>1, <3>2
    <3>5. next[a] < x
      BY <1>4, <3>2, <3>3, <3>4
    <3>6. next'[a] = next[a]
      BY <1>3, <2>3, <3>1
    <3> QED
      BY <2>3, <3>2, <3>4, <3>5, <3>6
  <2>4. CASE a # p /\ a # x /\ b # x
    BY <1>1, <1>3, <1>10, <2>4
  <2> QED
    BY <2>1, <2>2, <2>3, <2>4
<1> QED
  BY <1>1, <1>5, <1>6, <1>7, <1>8, <1>9, <1>10 DEF Chained, Addresses, Null

LEMMA InsertedElement ==
    ASSUME TypeOK, NEW F, Chained(F), NEW p \in F \cup {Null}, NEW f \in Addresses \ F,
           p = Null => freeListHead = Null \/ f < freeListHead,
           p # Null => p < f /\ (next[p] = Null \/ f < next[p]),
           InsertAfterPrevious(f, p)
    PROVE  Chained(F \cup {f})'
<1> DEFINE D == F \cup {f}
           n == IF p = Null THEN freeListHead ELSE next[p]
<1>1. /\ F \subseteq Addresses /\ \A a \in F : a \in Int /\ freeListHead \in F /\ freeListHead <= a
      /\ F = {} => freeListHead = Null
      /\ \A a \in F : prev[a] = Null <=> a = freeListHead
      /\ \A a \in F : next[a] # Null => next[a] \in F /\ a < next[a] /\ prev[next[a]] = a
      /\ \A a \in F : prev[a] # Null => prev[a] \in F /\ prev[a] < a /\ next[prev[a]] = a
      /\ \A a, b \in F : a < b => next[a] # Null /\ next[a] <= b
      /\ Null \notin F /\ f \in Int /\ f # Null /\ f \notin F
  <2>1. /\ \A a \in Addresses : a \in Int /\ a # Null
        /\ F \subseteq Addresses
    BY DEF Chained, Addresses, Null
  <2>2. /\ \A a \in F : freeListHead \in F /\ freeListHead <= a
        /\ F = {} => freeListHead = Null
    BY DEF Chained
  <2> QED
    BY <2>1, <2>2 DEF Chained
<1>2. /\ n # Null => n \in F /\ f < n /\ prev[n] = p
      /\ p # Null => p \in F /\ p < f /\ next[p] = n
      /\ p = Null => n = freeListHead
  <2>1. CASE p = Null
    <3>1. n # Null => F # {}
      BY <1>1, <2>1
    <3> QED
      BY <1>1, <2>1, <3>1
  <2>2. CASE p # Null
    BY <1>1, <2>2
  <2> QED
    BY <2>1, <2>2
<1>3. /\ freeListHead' = IF p = Null THEN f ELSE freeListHead
      /\ \A a \in D : next'[a] = IF a = f THEN n ELSE IF a = p THEN f ELSE next[a]
      /\ \A a \in D : prev'[a] = IF a = f THEN p ELSE IF a = n THEN f ELSE prev[a]
  BY <1>1 DEF InsertAfterPrevious
<1> HIDE DEF n
<1>4. /\ \A a \in F : a < f => p # Null /\ a <= p
      /\ \A a \in F : f < a => n # Null /\ n <= a
      /\ p # f /\ n # f
  <2>1. ASSUME NEW a \in F, a < f PROVE p # Null /\ a <= p
    <3>1. p # Null
      <4>1. freeListHead \in F /\ freeListHead <= a
        BY <1>1
      <4>2. freeListHead \in Int /\ a \in Int /\ f \in Int
        BY <1>1, <4>1
      <4>3. freeListHead # Null /\ ~(f < freeListHead)
        BY <1>1, <2>1, <4>1, <4>2
      <4> QED
        BY <4>3
    <3>2. CASE p < a
      <4>1. next[p] # Null /\ next[p] <= a /\ next[p] = n
        BY <1>1, <1>2, <3>1, <3>2
      <4>2. n \in F /\ f < n /\ n \in Int
        BY <1>1, <1>2, <4>1
      <4> QED
        BY <1>1, <2>1, <4>1, <4>2
    <3>3. p \in Int /\ a \in Int
      BY <1>1, <1>2, <3>1
    <3> QED
      BY <3>1, <3>2, <3>3
  <2>2. ASSUME NEW a \in F, f < a PROVE n # Null /\ n <= a
    <3>1. CASE p = Null
      BY <1>1, <1>2, <3>1
    <3>2. CASE p # Null
      <4>1. p \in F /\ p < f /\ next[p] = n /\ p \in Int /\ a \in Int
        BY <1>1, <1>2, <3>2
      <4>2. p < a
        BY <1>1, <2>2, <4>1
      <4> QED
        BY <1>1, <4>1, <4>2
    <3> QED
      BY <3>1, <3>2
  <2>3. p # f /\ n # f
    BY <1>1, <1>2
  <2> QED
    BY <2>1, <2>2, <2>3
<1>5. freeListHead' \in D
  BY <1>1, <1>2, <1>3
<1>6. \A a \in D : freeListHead' <= a
  <2> SUFFICES ASSUME NEW a \in D PROVE freeListHead' <= a
    OBVIOUS
  <2>1. CASE p = Null
    BY <1>1, <1>2, <1>3, <1>4, <2>1
  <2>2. CASE p # Null
    <3>1. freeListHead' = freeListHead /\ p \in F /\ p < f /\ p \in Int /\ freeListHead <= p
      BY <1>1, <1>2, <1>3, <2>2
    <3>2. freeListHead \in F
      BY <1>1, <3>1
    <3>3. freeListHead \in Int /\ f \in Int
      BY <1>1, <3>2
    <3>4. freeListHead < f
      BY <3>1, <3>3
    <3> QED
      BY <1>1, <3>1, <3>3, <3>4
  <2> QED
    BY <2>1, <2>2
<1>7. ASSUME NEW a \in D PROVE prev'[a] = Null <=> a = freeListHead'
  <2>1. CASE a = f
    BY <1>1, <1>2, <1>3, <2>1
  <2>2. CASE a # f /\ a = n
    BY <1>1, <1>2, <1>3, <2>2
  <2>3. CASE a # f /\ a # n
    BY <1>1, <1>2, <1>3, <2>3
  <2> QED
    BY <2>1, <2>2, <2>3
<1>8. ASSUME NEW a \in D, next'[a] # Null
      PROVE  next'[a] \in D /\ a < next'[a] /\ prev'[next'[a]] = a
  <2>1. CASE a = f
    <3>1. next'[a] = n /\ n # Null
      BY <1>3, <1>8, <2>1
    <3> QED
      BY <1>2, <1>3, <1>4, <2>1, <3>1
  <2>2. CASE a = p
    <3>1. next'[a] = f /\ f \in D /\ p # Null
      BY <1>1, <1>3, <1>4, <2>2
    <3> QED
      BY <1>2, <1>3, <2>2, <3>1
  <2>3. CASE a # p /\ a # f
    <3>1. next'[a] = next[a] /\ next[a] \in F /\ a < next[a] /\ prev[next[a]] = a
      BY <1>1, <1>3, <1>8, <2>3
    <3>2. next[a] # f /\ next[a] # n
      BY <1>1, <1>2, <2>3, <3>1
    <3> QED
      BY <1>3, <3>1, <3>2
  <2> QED
    BY <2>1, <2>2, <2>3
<1>9. ASSUME NEW a \in D, prev'[a] # Null
      PROVE  prev'[a] \in D /\ prev'[a] < a /\ next'[prev'[a]] = a
  <2>1. CASE a = f
    <3>1. prev'[a] = p /\ p # Null
      BY <1>3, <1>9, <2>1
    <3> QED
      BY <1>2, <1>3, <1>4, <2>1, <3>1
  <2>2. CASE a = n /\ a # f
    <3>1. prev'[a] = f /\ f \in D /\ n # Null
      BY <1>1, <1>3, <1>4, <2>2
    <3> QED
      BY <1>2, <1>3, <2>2, <3>1
  <2>3. CASE a # n /\ a # f
    <3>1. prev'[a] = prev[a] /\ prev[a] \in F /\ prev[a] < a /\ next[prev[a]] = a
      BY <1>1, <1>3, <1>9, <2>3
    <3>2. prev[a] # f /\ prev[a] # p
      BY <1>1, <1>2, <2>3, <3>1
    <3> QED
      BY <1>3, <3>1, <3>2
  <2> QED
    BY <2>1, <2>2, <2>3
<1>10. ASSUME NEW a \in D, NEW b \in D, a < b
       PROVE  next'[a] # Null /\ next'[a] <= b
  <2>1. CASE a = f
    BY <1>1, <1>3, <1>4, <1>10, <2>1
  <2>2. CASE a = p
    <3>1. next'[a] = f /\ p # Null /\ a \in F
      BY <1>1, <1>3, <1>4, <1>10, <2>2
    <3>2. f <= b
      <4>1. CASE b = f
        BY <1>1, <4>1
      <4>2. CASE b # f /\ b < f
        BY <1>1, <1>4, <1>10, <2>2, <4>2
      <4>3. b \in Int /\ f \in Int
        BY <1>1
      <4> QED
        BY <4>1, <4>2, <4>3
    <3> QED
      BY <1>1, <3>1, <3>2
  <2>3. CASE a # f /\ a # p /\ b = f
    <3>1. a \in F /\ p # Null /\ a < p /\ p \in F
      BY <1>1, <1>2, <1>4, <1>10, <2>3
    <3>2. next[a] # Null /\ next[a] <= p /\ next'[a] = next[a] /\ next[a] \in F
      BY <1>1, <1>3, <2>3, <3>1
    <3>3. p < f /\ p \in Int /\ f \in Int /\ next[a] \in Int
      BY <1>1, <1>2, <3>1, <3>2
    <3> QED
      BY <2>3, <3>2, <3>3
  <2>4. CASE a # f /\ a # p /\ b # f
    BY <1>1, <1>3, <1>10, <2>4
  <2> QED
    BY <2>1, <2>2, <2>3, <2>4
<1> QED
  BY <1>1, <1>5, <1>6, <1>7, <1>8, <1>9, <1>10 DEF Chained, Addresses, Null

-----------------------------------------------------------------------------
(* The invariant                                                           *)

\* A segment of the list ends at most one block into the next one, of the
\* list or held, and behind the memory by no block: the headers are as many
\* blocks apart as a request asked for.
SegmentsFit(F) ==
    /\ \A a \in F : a + numberOfBlocks[a] <= totalNumberOfBlocks
    /\ \A a, b \in F : a < b => a + numberOfBlocks[a] <= b
    /\ \A a \in F, h \in held : a < h[1] => a + numberOfBlocks[a] <= h[1]
    /\ \A h \in held : h[1] \notin F /\ numberOfBlocks[h[1]] = h[2] + 1
    /\ \A g, h \in held : g[1] = h[1] => g = h

FirstFitInv == TypeOK /\ Chained(FreeList) /\ SegmentsFit(FreeList)

LEMMA InitFirstFit == Init => FirstFitInv
<1> SUFFICES ASSUME Init PROVE FirstFitInv
  OBVIOUS
<1>1. /\ totalNumberOfBlocks - 1 \in Nat /\ totalNumberOfBlocks \in Nat
      /\ Addresses = 0 .. totalNumberOfBlocks - 1 /\ 0 \in Addresses
  BY FirstFitAssumption DEF Addresses
<1>2. TypeOK
  BY <1>1 DEF Init, TypeOK, Links
<1>3. Chained({0})
  BY <1>1 DEF Init, Chained, Null
<1>4. FreeList = {0}
  BY <1>2, <1>3, ListOfChain DEF ListIsChain
<1>5. SegmentsFit({0})
  BY <1>1 DEF Init, SegmentsFit
<1> QED
  BY <1>2, <1>3, <1>4, <1>5 DEF FirstFitInv

\* It is enough to find the elements of the list after a step.
LEMMA NewList ==
    ASSUME TypeOK', NEW G, Chained(G)', SegmentsFit(G)'
    PROVE  FirstFitInv'
<1>1. FreeList' = G
  BY ListOfChainAfterAStep DEF ListIsChain
<1> QED
  BY <1>1 DEF FirstFitInv

LEMMA ReplacedTypes ==
    ASSUME TypeOK, NEW f \in Addresses, NEW x \in Addresses, Replace(f, x)
    PROVE  /\ freeListHead' \in Links
           /\ next' \in [Addresses -> Links]
           /\ prev' \in [Addresses -> Links]
<1>1. /\ x \in Links /\ freeListHead \in Links
      /\ \A a \in Addresses : next[a] \in Links /\ prev[a] \in Links
  BY DEF TypeOK, Links
<1>2. freeListHead' \in Links
  BY <1>1 DEF Replace
<1>3. next' \in [Addresses -> Links]
  BY <1>1 DEF Replace
<1>4. prev' \in [Addresses -> Links]
  BY <1>1 DEF Replace
<1> QED
  BY <1>2, <1>3, <1>4

LEMMA AllocateKeeps ==
    ASSUME FirstFitInv, NEW n \in Requests, AllocateSegment(n)
    PROVE  FirstFitInv'
<1>1. PICK F : F = FreeList
  OBVIOUS
<1>2. TypeOK /\ Chained(F) /\ SegmentsFit(F)
  BY <1>1 DEF FirstFitInv
<1>3. PICK f \in F :
         /\ numberOfBlocks[f] >= n
         /\ \/ numberOfBlocks[f] - n >= 2 /\ SplitSegment(f, n)
            \/ numberOfBlocks[f] - n < 2 /\ RemoveSegment(f, n)
         /\ held' = held \cup {<< f, n >>}
  BY <1>1 DEF AllocateSegment, IsFirstFit
<1>4. /\ F \subseteq Addresses /\ F \subseteq Nat
      /\ f \in Addresses /\ n \in Nat \ {0}
      /\ totalNumberOfBlocks \in Nat /\ Addresses = 0 .. totalNumberOfBlocks - 1
      /\ numberOfBlocks \in [Addresses -> Nat]
      /\ \A h \in held : h \in Addresses \X (Nat \ {0}) /\ h[1] \in Addresses /\ h[1] \in Nat
  BY <1>2, FirstFitAssumption DEF Chained, Addresses, TypeOK
<1>5. held' \in SUBSET (Addresses \X (Nat \ {0}))
  BY <1>2, <1>3, <1>4 DEF TypeOK
<1>6. \A h \in held' : h \in held \/ (h[1] = f /\ h[2] = n)
  BY <1>3
<1>7. \A h \in held : h[1] # f
  BY <1>2 DEF SegmentsFit
<1>8. CASE numberOfBlocks[f] - n >= 2 /\ SplitSegment(f, n)
  <2> DEFINE rest == f + n + 1
             G == (F \ {f}) \cup {rest}
  <2>1. /\ rest \in Nat /\ f < rest /\ rest + 1 <= f + numberOfBlocks[f]
        /\ numberOfBlocks[f] - (n + 1) - 1 \in Nat
        /\ numberOfBlocks[f] \in Nat
    BY <1>4, <1>8
  <2> HIDE DEF rest
  <2>2. /\ rest \in Addresses
        /\ \A a \in F : f < a => rest < a
        /\ \A h \in held : f < h[1] => rest < h[1]
    <3>1. f + numberOfBlocks[f] <= totalNumberOfBlocks
      BY <1>2 DEF SegmentsFit
    <3>2. rest \in Addresses
      BY <1>4, <2>1, <3>1
    <3>3. ASSUME NEW a \in F, f < a PROVE rest < a
      <4>1. f + numberOfBlocks[f] <= a /\ a \in Nat
        BY <1>2, <1>4, <3>3 DEF SegmentsFit
      <4> QED
        BY <1>4, <2>1, <4>1
    <3>4. ASSUME NEW h \in held, f < h[1] PROVE rest < h[1]
      <4>1. f + numberOfBlocks[f] <= h[1] /\ h[1] \in Nat
        BY <1>2, <1>4, <3>4 DEF SegmentsFit
      <4> QED
        BY <1>4, <2>1, <4>1
    <3> QED
      BY <3>2, <3>3, <3>4
  <2>3. rest \notin F /\ \A h \in held : h[1] # rest
    <3>1. rest \notin F
      BY <2>1, <2>2
    <3>2. \A h \in held : h[1] # rest
      BY <2>1, <2>2
    <3> QED
      BY <3>1, <3>2
  <2>4. \A a \in F : (a < f => a < rest) /\ (f < a => rest < a)
    BY <1>4, <2>1, <2>2
  <2>5. Chained(G)'
    BY <1>2, <1>8, <2>2, <2>3, <2>4, ReplacedElement DEF SplitSegment, rest
  <2>6. TypeOK'
    <3>2. Replace(f, rest)
      BY <1>8 DEF SplitSegment, rest
    <3>3. freeListHead' \in Links /\ next' \in [Addresses -> Links] /\ prev' \in [Addresses -> Links]
      BY <1>2, <1>4, <2>2, <3>2, ReplacedTypes
    <3>4. numberOfBlocks' \in [Addresses -> Nat]
      <4> DEFINE left == numberOfBlocks[f] - (n + 1) - 1
      <4>1. numberOfBlocks' = [numberOfBlocks EXCEPT ![rest] = left, ![f] = n + 1]
        BY <1>8 DEF SplitSegment, rest
      <4>2. left \in Nat /\ n + 1 \in Nat
        BY <1>4, <2>1
      <4> HIDE DEF left
      <4> QED
        BY <1>4, <4>1, <4>2
    <3> QED
      BY <1>5, <3>3, <3>4 DEF TypeOK
  <2>7. /\ \A a \in Addresses : a # f /\ a # rest => numberOfBlocks'[a] = numberOfBlocks[a]
        /\ numberOfBlocks'[f] = n + 1
        /\ numberOfBlocks'[rest] = numberOfBlocks[f] - (n + 1) - 1
        /\ rest + numberOfBlocks'[rest] <= f + numberOfBlocks[f]
    <3>1. numberOfBlocks' = [numberOfBlocks EXCEPT ![rest] = numberOfBlocks[f] - (n + 1) - 1,
                                                   ![f] = n + 1]
      BY <1>8 DEF SplitSegment, rest
    <3>2. f # rest
      BY <1>4, <2>1
    <3>3. /\ \A a \in Addresses : a # f /\ a # rest => numberOfBlocks'[a] = numberOfBlocks[a]
          /\ numberOfBlocks'[f] = n + 1
          /\ numberOfBlocks'[rest] = numberOfBlocks[f] - (n + 1) - 1
      BY <1>4, <2>2, <3>1, <3>2
    <3>4. rest + (numberOfBlocks[f] - (n + 1) - 1) <= f + numberOfBlocks[f]
      BY <1>4, <2>1 DEF rest
    <3> QED
      BY <3>3, <3>4
  <2>8. ASSUME NEW e \in Nat, f + numberOfBlocks[f] <= e
        PROVE  rest + numberOfBlocks'[rest] <= e
    BY <1>4, <2>1, <2>7, <2>8
  <2>9. SegmentsFit(G)'
    <3>1. \A a \in G : a + numberOfBlocks'[a] <= totalNumberOfBlocks
      <4>1. \A a \in F : a + numberOfBlocks[a] <= totalNumberOfBlocks
        BY <1>2 DEF SegmentsFit
      <4>2. rest + numberOfBlocks'[rest] <= totalNumberOfBlocks
        BY <1>4, <2>8, <4>1
      <4> QED
        BY <1>4, <2>7, <4>1, <4>2
    <3>2. ASSUME NEW a \in G, NEW b \in G, a < b PROVE a + numberOfBlocks'[a] <= b
      <4>1. CASE a = rest
        <5>1. b \in F /\ b \in Nat /\ f < b
          BY <1>4, <2>1, <2>4, <3>2, <4>1
        <5>2. f + numberOfBlocks[f] <= b
          BY <1>2, <5>1 DEF SegmentsFit
        <5> QED
          BY <2>8, <4>1, <5>1, <5>2
      <4>2. CASE a # rest /\ b = rest
        <5>1. a \in F /\ a < f
          BY <1>4, <2>1, <2>4, <3>2, <4>2
        <5>2. a + numberOfBlocks[a] <= f
          BY <1>2, <5>1 DEF SegmentsFit
        <5>3. numberOfBlocks'[a] = numberOfBlocks[a] /\ a \in Nat /\ numberOfBlocks[a] \in Nat
          BY <1>4, <2>7, <4>2, <5>1
        <5>4. f \in Nat /\ rest \in Nat /\ f < rest
          BY <1>4, <2>1
        <5> QED
          BY ONLY <4>2, <5>2, <5>3, <5>4
      <4>3. CASE a # rest /\ b # rest
        BY <1>2, <1>4, <2>7, <3>2, <4>3 DEF SegmentsFit
      <4> QED
        BY <4>1, <4>2, <4>3
    <3>3. ASSUME NEW a \in G, NEW h \in held', a < h[1]
          PROVE  a + numberOfBlocks'[a] <= h[1]
      <4>1. CASE a = rest
        <5>1. h \in held /\ h[1] \in Nat
          BY <1>4, <1>6, <2>1, <3>3, <4>1
        <5>2. f + numberOfBlocks[f] <= h[1]
          <6>1. f < h[1]
            BY <1>4, <2>1, <3>3, <4>1, <5>1
          <6> QED
            BY <1>2, <5>1, <6>1 DEF SegmentsFit
        <5> QED
          BY <2>8, <4>1, <5>1, <5>2
      <4>2. CASE a # rest
        <5>1. a \in F /\ numberOfBlocks'[a] = numberOfBlocks[a]
          BY <1>4, <2>7, <4>2
        <5> QED
          BY <1>2, <1>6, <3>3, <5>1 DEF SegmentsFit
      <4> QED
        BY <4>1, <4>2
    <3>4. \A h \in held' : h[1] \notin G /\ numberOfBlocks'[h[1]] = h[2] + 1
      BY <1>2, <1>4, <1>6, <1>7, <2>1, <2>3, <2>7 DEF SegmentsFit
    <3>5. \A g, h \in held' : g[1] = h[1] => g = h
      BY <1>2, <1>3, <1>6, <1>7 DEF SegmentsFit
    <3> QED
      BY <3>1, <3>2, <3>3, <3>4, <3>5 DEF SegmentsFit
  <2> QED
    BY <2>5, <2>6, <2>9, NewList
<1>9. CASE numberOfBlocks[f] - n < 2 /\ RemoveSegment(f, n)
  <2> DEFINE G == F \ {f}
  <2>1. Chained(G)'
    BY <1>2, <1>9, RemovedElement DEF RemoveSegment
  <2>2. TypeOK'
    BY <1>2, <1>4, <1>5, <1>9 DEF TypeOK, Links, RemoveSegment
  <2>3. /\ \A a \in Addresses : a # f => numberOfBlocks'[a] = numberOfBlocks[a]
        /\ numberOfBlocks'[f] = n + 1
    BY <1>4, <1>9 DEF RemoveSegment
  <2>4. SegmentsFit(G)'
    <3>1. \A a \in G : a + numberOfBlocks'[a] <= totalNumberOfBlocks
      BY <1>2, <1>4, <2>3 DEF SegmentsFit
    <3>2. \A a, b \in G : a < b => a + numberOfBlocks'[a] <= b
      BY <1>2, <1>4, <2>3 DEF SegmentsFit
    <3>3. \A a \in G, h \in held' : a < h[1] => a + numberOfBlocks'[a] <= h[1]
      BY <1>2, <1>4, <1>6, <2>3 DEF SegmentsFit
    <3>4. \A h \in held' : h[1] \notin G /\ numberOfBlocks'[h[1]] = h[2] + 1
      BY <1>2, <1>4, <1>6, <1>7, <2>3 DEF SegmentsFit
    <3>5. \A g, h \in held' : g[1] = h[1] => g = h
      BY <1>2, <1>3, <1>6, <1>7 DEF SegmentsFit
    <3> QED
      BY <3>1, <3>2, <3>3, <3>4, <3>5 DEF SegmentsFit
  <2> QED
    BY <2>1, <2>2, <2>4, NewList
<1> QED
  BY <1>3, <1>8, <1>9

\* After a call of mem_free one segment m has another end; it fits if that
\* end is not behind what follows m.
LEMMA FreedFits ==
    ASSUME TypeOK, NEW F \in SUBSET Addresses, SegmentsFit(F), NEW h \in held,
           NEW G \in SUBSET (F \cup {h[1]}), NEW m \in G,
           h[1] \in G => m = h[1],
           held' = held \ {h},
           \A a \in Addresses : a # m => numberOfBlocks'[a] = numberOfBlocks[a],
           m + numberOfBlocks'[m] <= totalNumberOfBlocks,
           \A b \in G : m < b => m + numberOfBlocks'[m] <= b,
           \A g \in held' : m < g[1] => m + numberOfBlocks'[m] <= g[1]
    PROVE  SegmentsFit(G)'
<1>1. \A g \in held : g[1] \in Addresses
  BY DEF TypeOK
<1>2. \A a \in G : a # m => a \in F /\ numberOfBlocks'[a] = numberOfBlocks[a]
  BY <1>1
<1>3. \A g \in held' : g \in held /\ g # h /\ g[1] # h[1]
  BY DEF SegmentsFit
<1>4. \A a \in G : a + numberOfBlocks'[a] <= totalNumberOfBlocks
  BY <1>2 DEF SegmentsFit
<1>5. \A a, b \in G : a < b => a + numberOfBlocks'[a] <= b
  <2> SUFFICES ASSUME NEW a \in G, NEW b \in G, a < b
               PROVE  a + numberOfBlocks'[a] <= b
    OBVIOUS
  <2>1. CASE a = m
    BY <2>1
  <2>2. CASE a # m /\ b = h[1]
    BY <1>2, <2>2 DEF SegmentsFit
  <2>3. CASE a # m /\ b # h[1]
    BY <1>2, <2>3 DEF SegmentsFit
  <2> QED
    BY <2>1, <2>2, <2>3
<1>6. \A a \in G, g \in held' : a < g[1] => a + numberOfBlocks'[a] <= g[1]
  BY <1>2, <1>3 DEF SegmentsFit
<1>7. \A g \in held' : g[1] \notin G /\ numberOfBlocks'[g[1]] = g[2] + 1
  <2> SUFFICES ASSUME NEW g \in held'
               PROVE  g[1] \notin G /\ numberOfBlocks'[g[1]] = g[2] + 1
    OBVIOUS
  <2>1. g[1] \notin F /\ g[1] # h[1] /\ numberOfBlocks[g[1]] = g[2] + 1
    BY <1>3 DEF SegmentsFit
  <2> QED
    BY <1>1, <1>3, <2>1
<1>8. \A g, k \in held' : g[1] = k[1] => g = k
  BY <1>3 DEF SegmentsFit
<1> QED
  BY <1>4, <1>5, <1>6, <1>7, <1>8 DEF SegmentsFit

LEMMA DeallocateKeeps ==
    ASSUME FirstFitInv, CallersBlocksHoldNoHeader, NEW h \in held, DeallocateSegment(h)
    PROVE  FirstFitInv'
<1> DEFINE f == h[1]
<1>1. PICK F : F = FreeList
  OBVIOUS
<1>2. TypeOK /\ Chained(F) /\ SegmentsFit(F)
  BY <1>1 DEF FirstFitInv
<1>3. /\ totalNumberOfBlocks \in Nat /\ Addresses = 0 .. totalNumberOfBlocks - 1
      /\ F \in SUBSET Addresses /\ F \subseteq Nat /\ Null \notin Addresses
      /\ numberOfBlocks \in [Addresses -> Nat]
      /\ \A g \in held : /\ g[1] \in Addresses /\ g[1] \in Nat /\ g[2] \in Nat \ {0}
                         /\ g[1] \notin F /\ numberOfBlocks[g[1]] = g[2] + 1
  BY <1>2, FirstFitAssumption DEF Chained, Addresses, TypeOK, SegmentsFit, Null
<1>4. \A g \in held : \A b \in g[1] + 1 .. g[1] + g[2] :
          b \notin F /\ b \in Addresses /\ \A k \in held : k[1] # b
  BY <1>1 DEF CallersBlocksHoldNoHeader, Payload
<1>5. \A g \in held : g[1] + 1 \notin F /\ \A k \in held : k[1] # g[1] + 1
  BY <1>3, <1>4
<1>6. /\ f \in Addresses \ F /\ f \in Nat /\ numberOfBlocks[f] \in Nat
      /\ f + numberOfBlocks[f] <= totalNumberOfBlocks
      /\ \A b \in F : f < b => f + numberOfBlocks[f] <= b
      /\ \A g \in held : f < g[1] => f + numberOfBlocks[f] <= g[1]
  <2>1. f \in Nat /\ h[2] \in Nat \ {0} /\ numberOfBlocks[f] = h[2] + 1
    BY <1>3
  <2>2. ASSUME NEW b \in Nat, f < b, b \notin f + 1 .. f + h[2]
        PROVE  f + numberOfBlocks[f] <= b
    BY <2>1, <2>2
  <2>3. f + h[2] \in Addresses
    BY <1>4, <2>1
  <2>4. f + numberOfBlocks[f] <= totalNumberOfBlocks
    BY <1>3, <2>1, <2>3
  <2> QED
    BY <1>3, <1>4, <2>1, <2>2, <2>4
<1> HIDE DEF f
<1>7. PICK p \in F \cup {Null} :
         LET x == IF p = Null THEN freeListHead ELSE next[p]
             joinsPrevious == p # Null /\ Adjoins(p, numberOfBlocks[p], f)
             joinsNext == x # Null /\ Adjoins(f, numberOfBlocks[f], x)
         IN
         /\ IsPrevious(p, f + 1)
         /\ \/ joinsPrevious /\ MergeWithPrevious(f, p)
            \/ ~joinsPrevious /\ joinsNext /\ MergeWithNext(f, x)
            \/ ~joinsPrevious /\ ~joinsNext /\ InsertAfterPrevious(f, p)
         /\ held' = held \ {h}
  BY <1>1 DEF DeallocateSegment, f
<1>8. PICK x : x = IF p = Null THEN freeListHead ELSE next[p]
  OBVIOUS
<1>9. /\ p = Null => freeListHead = Null \/ f < freeListHead
      /\ p # Null => p < f /\ (next[p] = Null \/ f < next[p])
  <2>1. CASE p = Null
    <3>1. freeListHead = Null \/ f + 1 < freeListHead
      BY <1>1, <1>3, <1>7, <2>1 DEF IsPrevious
    <3>2. freeListHead # Null => freeListHead \in Nat
      BY <1>2, <1>3 DEF Chained
    <3> QED
      BY <1>6, <2>1, <3>1, <3>2
  <2>2. CASE p # Null
    <3>1. p \in F /\ p \in Nat /\ p # f /\ p # f + 1
      BY <1>3, <1>5, <1>6, <2>2 DEF f
    <3>2. /\ freeListHead <= f + 1 /\ (p = freeListHead \/ p < f + 1)
          /\ next[p] = Null \/ f + 1 <= next[p]
      BY <1>7, <2>2 DEF IsPrevious
    <3>3. next[p] # Null => next[p] \in Nat
      BY <1>2, <1>3, <3>1 DEF Chained
    <3>4. p < f
      BY <1>6, <3>1, <3>2
    <3> QED
      BY <1>6, <2>2, <3>2, <3>3, <3>4
  <2> QED
    BY <2>1, <2>2
<1>10. held' = held \ {h} /\ held' \in SUBSET (Addresses \X (Nat \ {0}))
  BY <1>2, <1>7 DEF TypeOK
<1>11. /\ p # Null => p \in F /\ p \in Nat /\ p < f /\ numberOfBlocks[p] \in Nat
       /\ p # Null => next[p] = x /\ \A b \in F : p < b => x # Null /\ x <= b
       /\ p # Null => \A g \in held : p < g[1] => p + numberOfBlocks[p] <= g[1]
       /\ p = Null => \A b \in F : x <= b
       /\ x # Null => x \in F /\ x \in Nat /\ f < x /\ numberOfBlocks[x] \in Nat
       /\ x # Null => prev[x] = p
  <2>1. CASE p = Null
    <3>1. x = freeListHead
      BY <1>8, <2>1
    <3>2. x # Null => x \in F /\ prev[x] = Null /\ f < x
      BY <1>2, <1>9, <2>1, <3>1 DEF Chained
    <3>3. \A b \in F : x <= b
      BY <1>2, <3>1 DEF Chained
    <3> QED
      BY <1>3, <2>1, <3>1, <3>2, <3>3
  <2>2. CASE p # Null
    <3>1. x = next[p] /\ p \in F
      BY <1>8, <2>2
    <3>2. /\ x # Null => x \in F /\ prev[x] = p
          /\ \A b \in F : p < b => x # Null /\ x <= b
      BY <1>2, <3>1 DEF Chained
    <3>3. \A g \in held : p < g[1] => p + numberOfBlocks[p] <= g[1]
      BY <1>2, <3>1 DEF SegmentsFit
    <3>4. x # Null => f < x
      BY <1>9, <2>2, <3>1
    <3> QED
      BY <1>3, <1>9, <2>2, <3>1, <3>2, <3>3, <3>4
  <2> QED
    BY <2>1, <2>2
<1>12. x # Null =>
          /\ x + numberOfBlocks[x] <= totalNumberOfBlocks
          /\ \A b \in F : x < b => x + numberOfBlocks[x] <= b
          /\ \A g \in held : x < g[1] => x + numberOfBlocks[x] <= g[1]
          /\ \A g \in held : g[1] # x /\ g[1] + 1 # x
  BY <1>2, <1>3, <1>5, <1>11 DEF SegmentsFit
<1>13. CASE p # Null /\ Adjoins(p, numberOfBlocks[p], f) /\ MergeWithPrevious(f, p)
  <2> DEFINE joined == numberOfBlocks[p] + numberOfBlocks[f] + 1
  <2>1. /\ joined \in Nat /\ p + joined = f + numberOfBlocks[f] /\ p < f
        /\ p \in F /\ p \in Nat /\ x = next[p]
    BY <1>6, <1>11, <1>13 DEF Adjoins
  <2>2. /\ \A b \in F : p < b => x # Null /\ x <= b /\ f < b /\ f + numberOfBlocks[f] <= b
        /\ \A g \in held : p < g[1] /\ g # h => f < g[1] /\ f + numberOfBlocks[f] <= g[1]
    <3>1. ASSUME NEW b \in F, p < b
          PROVE  x # Null /\ x <= b /\ f < b /\ f + numberOfBlocks[f] <= b
      <4>1. x # Null /\ x <= b /\ f < x /\ x \in Nat /\ b \in Nat
        BY <1>3, <1>11, <1>13, <3>1
      <4> QED
        BY <1>6, <4>1
    <3>2. ASSUME NEW g \in held, p < g[1], g # h
          PROVE  f < g[1] /\ f + numberOfBlocks[f] <= g[1]
      <4>1. g[1] \in Nat /\ g[1] # f /\ g[1] + 1 # f
        BY <1>2, <1>3, <1>5, <3>2 DEF SegmentsFit, f
      <4>2. f - 1 <= g[1]
        BY <1>6, <1>11, <1>13, <3>2, <4>1 DEF Adjoins
      <4>3. f < g[1]
        BY <1>6, <4>1, <4>2
      <4> QED
        BY <1>6, <4>3
    <3> QED
      BY <3>1, <3>2
  <2> HIDE DEF joined
  <2>3. h[1] = f /\ f \notin F
    BY <1>6 DEF f
  <2>4. CASE x # Null /\ Adjoins(p, joined, x)
    <3> DEFINE G == F \ {x}
    <3>1. /\ UNCHANGED freeListHead
          /\ numberOfBlocks' = [numberOfBlocks EXCEPT ![p] = joined + numberOfBlocks[x] + 1]
          /\ next' = [next EXCEPT ![p] = next[x]]
          /\ prev' = [a \in Addresses |-> IF a = next[x] THEN p ELSE prev[a]]
      BY <1>13, <2>1, <2>4 DEF MergeWithPrevious, joined
    <3>2. /\ x \in F /\ prev[x] = p /\ p # Null /\ x \in Nat /\ f < x
          /\ p + (joined + 1) = x
      BY <1>11, <1>13, <2>4 DEF Adjoins
    <3>3. Chained(G)'
      <4>1. next' = [a \in Addresses |-> IF a = prev[x] THEN next[x] ELSE next[a]]
        BY <1>2, <3>1, <3>2 DEF TypeOK
      <4>2. /\ freeListHead' = IF prev[x] = Null THEN next[x] ELSE freeListHead
            /\ prev' = [a \in Addresses |-> IF a = next[x] THEN prev[x] ELSE prev[a]]
        BY <3>1, <3>2
      <4> QED
        BY <1>2, <3>2, <4>1, <4>2, RemovedElement
    <3>4. /\ joined + numberOfBlocks[x] + 1 \in Nat
          /\ p + (joined + numberOfBlocks[x] + 1) = x + numberOfBlocks[x]
          /\ p \in Addresses /\ x \in Addresses
      <4>1. /\ {p, x, joined, numberOfBlocks[x]} \subseteq Nat
            /\ p + (joined + 1) = x
        BY <1>11, <2>1, <3>2
      <4>2. p \in Addresses /\ x \in Addresses
        BY <1>3, <2>1, <3>2
      <4> QED
        BY ONLY <4>1, <4>2
    <3>5. TypeOK'
      <4>1. numberOfBlocks' \in [Addresses -> Nat]
        BY <1>3, <3>1, <3>4
      <4>2. next[x] \in Links /\ p \in Links
        BY <1>2, <3>4 DEF TypeOK, Links
      <4>3. next' \in [Addresses -> Links] /\ prev' \in [Addresses -> Links]
        BY <1>2, <3>1, <4>2 DEF TypeOK
      <4> QED
        BY <1>2, <1>10, <3>1, <4>1, <4>3 DEF TypeOK
    <3>6. /\ numberOfBlocks'[p] = joined + numberOfBlocks[x] + 1
          /\ \A a \in Addresses : a # p => numberOfBlocks'[a] = numberOfBlocks[a]
      BY <1>3, <3>1, <3>4
    <3>7. \A b \in G : p < b => x + numberOfBlocks[x] <= b
      <4> SUFFICES ASSUME NEW b \in G, p < b PROVE x + numberOfBlocks[x] <= b
        OBVIOUS
      <4>1. x <= b /\ b # x /\ b \in Nat /\ b \in F
        BY <1>3, <2>2
      <4> QED
        BY <1>12, <2>4, <3>2, <4>1
    <3>8. \A g \in held' : p < g[1] => x + numberOfBlocks[x] <= g[1]
      <4> SUFFICES ASSUME NEW g \in held', p < g[1] PROVE x + numberOfBlocks[x] <= g[1]
        OBVIOUS
      <4>1. g \in held /\ g # h /\ g[1] \in Nat
        BY <1>3, <1>10
      <4>2. f + numberOfBlocks[f] <= g[1] /\ g[1] # x /\ g[1] + 1 # x
        BY <1>12, <2>2, <2>4, <4>1
      <4>3. x < g[1]
        BY <1>6, <2>1, <3>2, <4>1, <4>2
      <4> QED
        BY <1>12, <2>4, <4>1, <4>3
    <3>9. SegmentsFit(G)'
      <4>1. p \in G /\ G \in SUBSET (F \cup {h[1]}) /\ h[1] \notin G
        BY <2>1, <2>3, <3>2
      <4>2. /\ p + numberOfBlocks'[p] <= totalNumberOfBlocks
            /\ \A b \in G : p < b => p + numberOfBlocks'[p] <= b
            /\ \A g \in held' : p < g[1] => p + numberOfBlocks'[p] <= g[1]
        BY <1>12, <2>4, <3>4, <3>6, <3>7, <3>8
      <4> QED
        BY <1>2, <1>3, <1>10, <3>6, <4>1, <4>2, FreedFits
    <3> QED
      BY <3>3, <3>5, <3>9, NewList
  <2>5. CASE ~(x # Null /\ Adjoins(p, joined, x))
    <3>1. /\ UNCHANGED << freeListHead, next, prev >>
          /\ numberOfBlocks' = [numberOfBlocks EXCEPT ![p] = joined]
      BY <1>13, <2>1, <2>5 DEF MergeWithPrevious, joined
    <3>2. Chained(F)'
      BY <1>2, <3>1 DEF Chained
    <3>3. TypeOK'
      BY <1>2, <1>10, <2>1, <3>1 DEF TypeOK
    <3>4. /\ numberOfBlocks'[p] = joined
          /\ \A a \in Addresses : a # p => numberOfBlocks'[a] = numberOfBlocks[a]
      BY <1>3, <2>1, <3>1
    <3>5. SegmentsFit(F)'
      <4>1. p \in F /\ F \in SUBSET (F \cup {h[1]}) /\ h[1] \notin F
        BY <2>1, <2>3
      <4>2. /\ p + numberOfBlocks'[p] <= totalNumberOfBlocks
            /\ \A b \in F : p < b => p + numberOfBlocks'[p] <= b
            /\ \A g \in held' : p < g[1] => p + numberOfBlocks'[p] <= g[1]
        BY <1>6, <1>10, <2>1, <2>2, <3>4
      <4> QED
        BY <1>2, <1>3, <1>10, <3>4, <4>1, <4>2, FreedFits
    <3> QED
      BY <3>2, <3>3, <3>5, NewList
  <2> QED
    BY <2>4, <2>5
<1>14. CASE x # Null /\ Adjoins(f, numberOfBlocks[f], x) /\ MergeWithNext(f, x)
  <2> DEFINE G == (F \ {x}) \cup {f}
             size == numberOfBlocks[f] + numberOfBlocks[x] + 1
  <2>1. /\ x \in F /\ f < x /\ x \in Nat /\ size \in Nat /\ h[1] = f
        /\ f + (numberOfBlocks[f] + 1) = x /\ f + size = x + numberOfBlocks[x]
    BY <1>6, <1>11, <1>14 DEF Adjoins, f
  <2>2. /\ Replace(x, f)
        /\ numberOfBlocks' = [numberOfBlocks EXCEPT ![f] = size]
    BY <1>14 DEF MergeWithNext
  <2>3. \A a \in F : (a < x => a < f) /\ (x < a => f < a)
    <3> SUFFICES ASSUME NEW a \in F PROVE (a < x => a < f) /\ (x < a => f < a)
      OBVIOUS
    <3>1. a \in Nat
      BY <1>3
    <3>2. ASSUME a < x PROVE a < f
      <4>1. p # Null /\ p < f /\ p \in Nat /\ ~(p < a)
        BY <1>11, <2>1, <3>1, <3>2
      <4>2. a # f
        BY <1>6
      <4> QED
        BY <1>6, <3>1, <4>1, <4>2
    <3>3. x < a => f < a
      BY <1>6, <2>1, <3>1
    <3> QED
      BY <3>2, <3>3
  <2>4. Chained(G)'
    BY <1>2, <1>6, <2>1, <2>2, <2>3, ReplacedElement
  <2>5. TypeOK'
    <3>1. numberOfBlocks' \in [Addresses -> Nat]
      BY <1>3, <2>1, <2>2
    <3>2. x \in Addresses /\ f \in Addresses
      BY <1>3, <1>6, <2>1
    <3>3. /\ freeListHead' \in Links
          /\ next' \in [Addresses -> Links] /\ prev' \in [Addresses -> Links]
      BY <1>2, <2>2, <3>2, ReplacedTypes
    <3> QED
      BY <1>10, <3>1, <3>3 DEF TypeOK
  <2>6. /\ numberOfBlocks'[f] = size
        /\ \A a \in Addresses : a # f => numberOfBlocks'[a] = numberOfBlocks[a]
    BY <1>3, <1>6, <2>2
  <2> HIDE DEF size
  <2>7. \A b \in G : f < b => x + numberOfBlocks[x] <= b
    <3> SUFFICES ASSUME NEW b \in G, f < b PROVE x + numberOfBlocks[x] <= b
      OBVIOUS
    <3>1. b \in F /\ b # x /\ b \in Nat
      BY <1>3, <1>6
    <3>2. x < b
      BY <1>6, <2>1, <2>3, <3>1
    <3> QED
      BY <1>12, <1>14, <3>1, <3>2
  <2>8. \A g \in held' : f < g[1] => x + numberOfBlocks[x] <= g[1]
    <3> SUFFICES ASSUME NEW g \in held', f < g[1] PROVE x + numberOfBlocks[x] <= g[1]
      OBVIOUS
    <3>1. g \in held /\ g[1] \in Nat /\ f + numberOfBlocks[f] <= g[1]
      BY <1>3, <1>6, <1>10
    <3>2. g[1] # x /\ g[1] + 1 # x
      BY <1>12, <1>14, <3>1
    <3>3. x < g[1]
      BY <1>6, <2>1, <3>1, <3>2
    <3> QED
      BY <1>12, <1>14, <3>1, <3>3
  <2>9. SegmentsFit(G)'
    <3>1. f \in G /\ G \in SUBSET (F \cup {h[1]})
      BY <2>1
    <3>2. /\ f + numberOfBlocks'[f] <= totalNumberOfBlocks
          /\ \A b \in G : f < b => f + numberOfBlocks'[f] <= b
          /\ \A g \in held' : f < g[1] => f + numberOfBlocks'[f] <= g[1]
      BY <1>12, <1>14, <2>1, <2>6, <2>7, <2>8
    <3> QED
      BY <1>2, <1>3, <1>10, <2>1, <2>6, <3>1, <3>2, FreedFits
  <2> QED
    BY <2>4, <2>5, <2>9, NewList
<1>15. CASE InsertAfterPrevious(f, p)
  <2> DEFINE G == F \cup {f}
  <2>1. Chained(G)'
    BY <1>2, <1>6, <1>9, <1>15, InsertedElement
  <2>2. numberOfBlocks' = numberOfBlocks
    BY <1>15 DEF InsertAfterPrevious
  <2>3. TypeOK'
    <3>1. x \in Links /\ p \in Links /\ f \in Links
      BY <1>2, <1>3, <1>6, <1>11 DEF TypeOK, Links
    <3>2. /\ freeListHead' = IF p = Null THEN f ELSE freeListHead
          /\ next' = [a \in Addresses |-> IF a = f THEN x ELSE IF a = p THEN f ELSE next[a]]
          /\ prev' = [a \in Addresses |-> IF a = f THEN p ELSE IF a = x THEN f ELSE prev[a]]
      BY <1>15, <1>8 DEF InsertAfterPrevious
    <3> QED
      BY <1>2, <1>10, <2>2, <3>1, <3>2 DEF TypeOK
  <2>4. SegmentsFit(G)'
    <3>1. h[1] = f
      BY DEF f
    <3>2. /\ \A b \in G : f < b => f + numberOfBlocks'[f] <= b
          /\ \A g \in held' : f < g[1] => f + numberOfBlocks'[f] <= g[1]
          /\ f + numberOfBlocks'[f] <= totalNumberOfBlocks
      BY <1>6, <1>10, <2>2
    <3> QED
      BY <1>2, <1>3, <1>10, <2>2, <3>1, <3>2, FreedFits
  <2> QED
    BY <2>1, <2>3, <2>4, NewList
<1> QED
  BY <1>7, <1>13, <1>14, <1>15, <1>8

-----------------------------------------------------------------------------
(* The theorems                                                            *)

LEMMA StepFirstFit == FirstFitInv /\ [Next]_vars => FirstFitInv'
<1> SUFFICES ASSUME FirstFitInv, [Next]_vars PROVE FirstFitInv'
  OBVIOUS
<1>1. CASE \E n \in Requests : AllocateSegment(n)
  BY <1>1, AllocateKeeps
<1>2. CASE CallersBlocksHoldNoHeader /\ \E h \in held : DeallocateSegment(h)
  BY <1>2, DeallocateKeeps
<1>3. CASE UNCHANGED vars
  <2>1. PICK F : F = FreeList
    OBVIOUS
  <2>2. TypeOK' /\ Chained(F)' /\ SegmentsFit(F)'
    BY <1>3, <2>1 DEF vars, FirstFitInv, TypeOK, Chained, SegmentsFit
  <2> QED
    BY <2>2, NewList
<1> QED
  BY <1>1, <1>2, <1>3 DEF Next

LEMMA FirstFitInvHolds == Spec => []FirstFitInv
BY InitFirstFit, StepFirstFit, PTL DEF Spec

\* The list stays sorted by address and linked both ways, whatever is asked
\* for and returned, and in whatever order (MemoryAllocator.cpp:15-133).
THEOREM ListStaysSorted == Spec => []ListIsSorted
<1>1. FirstFitInv => ListIsSorted
  BY DEF FirstFitInv, Chained, ListIsSorted
<1> QED
  BY <1>1, FirstFitInvHolds, PTL

\* No segment is in the list while a caller holds it, and nobody else is
\* given it (MemoryAllocator.cpp:15-47).
THEOREM HeldIsNotFree == Spec => []HeldSegmentsAreNotFree
<1>1. FirstFitInv => HeldSegmentsAreNotFree
  BY DEF FirstFitInv, SegmentsFit, HeldSegmentsAreNotFree
<1> QED
  BY <1>1, FirstFitInvHolds, PTL
=============================================================================
