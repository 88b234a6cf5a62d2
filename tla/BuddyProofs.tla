----------------------------- MODULE BuddyProofs -----------------------------
(***************************************************************************)
(* Proofs about BuddyAllocator.tla and the division of the heap it works   *)
(* in, for every heap that is large enough, all block sizes and all sizes  *)
(* asked for: the blocks free and held tile the allocator's memory, and it *)
(* implements BlockStore.                                                  *)
(***************************************************************************)
EXTENDS BuddyAllocator, FiniteSetTheorems, WellFoundedInduction, TLAPS

-----------------------------------------------------------------------------
(* Induction goes through a set of numbers                                 *)

LEMMA LeastNumber ==
    ASSUME NEW S \in SUBSET Nat, S # {}
    PROVE  \E m \in S : \A k \in S : m <= k
<1> DEFINE less == OpToRel(<, Nat)
<1>1. PICK m \in S : \A k \in S : ~ (<< k, m >> \in less)
  <2>1. IsWellFoundedOn(less, Nat)
    BY NatLessThanWellFounded
  <2> HIDE DEF less
  <2> QED
    BY <2>1, WFMin
<1>2. ASSUME NEW k \in S
      PROVE  m <= k
  <2>1. k \in Nat /\ m \in Nat
    OBVIOUS
  <2>2. k < m => << k, m >> \in less
    BY <2>1 DEF OpToRel
  <2> HIDE DEF less
  <2> QED
    BY <1>1, <2>1, <2>2
<1> QED
  BY <1>2

\* Induction up to n, with a set in the place of a predicate.
LEMMA SetInduction ==
    ASSUME NEW n \in Nat, NEW T, 0 \in T, \A k \in 0 .. n - 1 : k \in T => k + 1 \in T
    PROVE  0 .. n \subseteq T
<1> DEFINE rest == (0 .. n) \ T
<1> SUFFICES ASSUME rest # {} PROVE FALSE
  OBVIOUS
<1>1. PICK m \in rest : \A k \in rest : m <= k
  <2>1. rest \in SUBSET Nat
    OBVIOUS
  <2> HIDE DEF rest
  <2> QED
    BY <2>1, LeastNumber
<1>2. m # 0 /\ m - 1 \in 0 .. n - 1 /\ (m - 1) + 1 = m
  OBVIOUS
<1>3. m - 1 \in T
  BY <1>1, <1>2
<1> QED
  BY <1>2, <1>3

-----------------------------------------------------------------------------
(* Powers of two                                                           *)

Doubles(f, n) == f[0] = 1 /\ \A i \in 1 .. n : f[i] = 2 * f[i - 1]

LEMMA DoublesExist ==
    ASSUME NEW n \in Nat
    PROVE  \E f \in [0 .. n -> Nat \ {0}] : Doubles(f, n)
<1> DEFINE T == {k \in 0 .. n : \E f \in [0 .. k -> Nat \ {0}] : Doubles(f, k)}
<1>1. 0 \in T
  <2> DEFINE f == [i \in 0 .. 0 |-> 1]
  <2>1. f \in [0 .. 0 -> Nat \ {0}] /\ Doubles(f, 0)
    BY DEF Doubles
  <2> QED
    BY <2>1
<1>2. ASSUME NEW k \in 0 .. n - 1, k \in T PROVE k + 1 \in T
  <2>1. PICK f \in [0 .. k -> Nat \ {0}] : Doubles(f, k)
    BY <1>2
  <2> DEFINE h == [i \in 0 .. k + 1 |-> IF i = k + 1 THEN 2 * f[k] ELSE f[i]]
  <2>2. h \in [0 .. k + 1 -> Nat \ {0}]
    OBVIOUS
  <2>3. Doubles(h, k + 1)
    BY <2>1 DEF Doubles
  <2> HIDE DEF h
  <2> QED
    BY <2>2, <2>3
<1>3. 0 .. n \subseteq T
  <2> HIDE DEF T
  <2> QED
    BY <1>1, <1>2, SetInduction
<1>4. n \in T
  BY <1>3
<1> QED
  BY <1>4

LEMMA DoublesAgree ==
    ASSUME NEW n \in Nat, NEW m \in 0 .. n,
           NEW f \in [0 .. n -> Nat], Doubles(f, n),
           NEW g \in [0 .. m -> Nat], Doubles(g, m)
    PROVE  f[m] = g[m]
<1> DEFINE T == {k \in 0 .. m : f[k] = g[k]}
<1>1. 0 \in T
  BY DEF Doubles
<1>2. ASSUME NEW k \in 0 .. m - 1, k \in T PROVE k + 1 \in T
  <2>1. k + 1 \in 1 .. m /\ k + 1 \in 1 .. n /\ (k + 1) - 1 = k
    OBVIOUS
  <2>2. f[k + 1] = 2 * f[k] /\ g[k + 1] = 2 * g[k]
    BY <2>1 DEF Doubles
  <2> QED
    BY <1>2, <2>1, <2>2
<1>3. 0 .. m \subseteq T
  <2>1. m \in Nat
    OBVIOUS
  <2> HIDE DEF T
  <2> QED
    BY <1>1, <1>2, <2>1, SetInduction
<1> QED
  BY <1>3

\* The recursion of Power defines a function.
LEMMA PowerIsDefined ==
    /\ Power \in [Nat -> Nat \ {0}]
    /\ Power[0] = 1
    /\ \A n \in Nat : Power[n + 1] = 2 * Power[n]
<1> DEFINE upTo(n) == CHOOSE f \in [0 .. n -> Nat \ {0}] : Doubles(f, n)
           g == [n \in Nat |-> upTo(n)[n]]
<1>1. ASSUME NEW n \in Nat
      PROVE  upTo(n) \in [0 .. n -> Nat \ {0}] /\ Doubles(upTo(n), n)
  BY DoublesExist
<1>2. ASSUME NEW n \in Nat
      PROVE  g[n] = IF n = 0 THEN 1 ELSE 2 * g[n - 1]
  <2>1. CASE n = 0
    BY <1>1, <2>1 DEF Doubles
  <2>2. CASE n # 0
    <3>1. n - 1 \in Nat /\ n - 1 \in 0 .. n /\ n \in 1 .. n
      BY <2>2
    <3>2. upTo(n)[n] = 2 * upTo(n)[n - 1]
      BY <1>1, <3>1 DEF Doubles
    <3>3. upTo(n)[n - 1] = upTo(n - 1)[n - 1]
      <4>1. /\ upTo(n) \in [0 .. n -> Nat] /\ Doubles(upTo(n), n)
            /\ upTo(n - 1) \in [0 .. n - 1 -> Nat] /\ Doubles(upTo(n - 1), n - 1)
        BY <1>1, <3>1
      <4> HIDE DEF upTo
      <4> QED
        BY <3>1, <4>1, DoublesAgree
    <3> QED
      BY <2>2, <3>1, <3>2, <3>3
  <2> QED
    BY <2>1, <2>2
<1>3. g \in [Nat -> Nat \ {0}]
  <2> HIDE DEF upTo
  <2>1. ASSUME NEW n \in Nat PROVE upTo(n)[n] \in Nat \ {0}
    BY <1>1
  <2> QED
    BY <2>1
<1> HIDE DEF g
<1>4. g = [n \in Nat |-> IF n = 0 THEN 1 ELSE 2 * g[n - 1]]
  BY <1>2, <1>3
<1>5. Power = [n \in Nat |-> IF n = 0 THEN 1 ELSE 2 * Power[n - 1]]
  BY <1>4 DEF Power
<1>6. Power[0] = 1 /\ \A n \in Nat : Power[n + 1] = 2 * Power[n]
  <2>1. Power[0] = 1
    BY <1>5
  <2>2. ASSUME NEW n \in Nat PROVE Power[n + 1] = 2 * Power[n]
    <3>1. n + 1 \in Nat /\ n + 1 # 0 /\ (n + 1) - 1 = n
      OBVIOUS
    <3> QED
      BY <1>5, <3>1
  <2> QED
    BY <2>1, <2>2
<1>7. ASSUME NEW n \in Nat PROVE Power[n] \in Nat \ {0}
  <2> DEFINE T == {k \in 0 .. n : Power[k] \in Nat \ {0}}
  <2>1. 0 \in T
    BY <1>6
  <2>2. ASSUME NEW k \in 0 .. n - 1, k \in T PROVE k + 1 \in T
    BY <1>6, <2>2
  <2>3. 0 .. n \subseteq T
    <3> HIDE DEF T
    <3> QED
      BY <2>1, <2>2, SetInduction
  <2> QED
    BY <2>3
<1>8. DOMAIN Power = Nat /\ Power = [n \in DOMAIN Power |-> Power[n]]
  BY <1>5
<1> QED
  BY <1>6, <1>7, <1>8

\* Halving and doubling.
LEMMA PowerSteps ==
    ASSUME NEW n \in Nat
    PROVE  /\ Power[n] \in Nat \ {0}
           /\ Power[n + 1] = 2 * Power[n]
BY PowerIsDefined

LEMMA PowerOfSum ==
    ASSUME NEW a \in Nat, NEW b \in Nat
    PROVE  Power[a + b] = Power[a] * Power[b]
<1> DEFINE T == {k \in 0 .. b : Power[a + k] = Power[a] * Power[k]}
<1>1. 0 \in T
  BY PowerIsDefined
<1>2. ASSUME NEW k \in 0 .. b - 1, k \in T PROVE k + 1 \in T
  <2>1. Power[(a + k) + 1] = 2 * Power[a + k] /\ Power[k + 1] = 2 * Power[k]
    BY PowerSteps
  <2>2. Power[a] \in Nat /\ Power[k] \in Nat /\ Power[a + k] = Power[a] * Power[k]
    BY <1>2, PowerSteps
  <2>3. Power[(a + k) + 1] = Power[a] * Power[k + 1]
    BY <2>1, <2>2
  <2>4. (a + k) + 1 = a + (k + 1)
    OBVIOUS
  <2> QED
    BY <2>3, <2>4
<1>3. 0 .. b \subseteq T
  <2> HIDE DEF T
  <2> QED
    BY <1>1, <1>2, SetInduction
<1> QED
  BY <1>3

LEMMA PowerGrows ==
    ASSUME NEW a \in Nat, NEW b \in Nat, a <= b
    PROVE  /\ Power[a] <= Power[b]
           /\ a < b => 2 * Power[a] <= Power[b]
<1>1. Power[b] = Power[a] * Power[b - a]
  <2>1. b - a \in Nat /\ a + (b - a) = b
    OBVIOUS
  <2> QED
    BY <2>1, PowerOfSum
<1>2. Power[a] \in Nat \ {0} /\ Power[b - a] \in Nat \ {0}
  BY PowerSteps
<1>3. a < b => Power[b - a] >= 2
  <2> SUFFICES ASSUME a < b PROVE Power[b - a] >= 2
    OBVIOUS
  <2>1. b - a - 1 \in Nat /\ (b - a - 1) + 1 = b - a
    OBVIOUS
  <2>2. Power[b - a - 1] \in Nat \ {0} /\ Power[(b - a - 1) + 1] = 2 * Power[b - a - 1]
    BY <2>1, PowerSteps
  <2> QED
    BY <2>1, <2>2
<1>4. ASSUME NEW x \in Nat \ {0}, NEW y \in Nat \ {0}
      PROVE  x <= x * y /\ (y >= 2 => 2 * x <= x * y)
  OBVIOUS
<1> QED
  BY <1>1, <1>2, <1>3, <1>4

LEMMA PowerExceeds ==
    ASSUME NEW n \in Nat
    PROVE  n < Power[n]
<1> DEFINE T == {k \in 0 .. n : k < Power[k]}
<1>1. 0 \in T
  BY PowerIsDefined
<1>2. ASSUME NEW k \in 0 .. n - 1, k \in T PROVE k + 1 \in T
  BY <1>2, PowerSteps
<1>3. 0 .. n \subseteq T
  <2> HIDE DEF T
  <2> QED
    BY <1>1, <1>2, SetInduction
<1> QED
  BY <1>3

\* The loop of getExponentForNumberOfBlocks ends at the least exponent.
LEMMA ExponentIsLeast ==
    ASSUME NEW n \in Nat
    PROVE  /\ ExponentForBlocks(n) \in 0 .. n
           /\ n <= Power[ExponentForBlocks(n)]
           /\ \A d \in 0 .. ExponentForBlocks(n) - 1 : Power[d] < n
<1> DEFINE enough == {e \in 0 .. n : n <= Power[e]}
<1>1. n \in enough
  BY PowerExceeds, PowerSteps
<1>2. PICK e \in enough : \A k \in enough : e <= k
  <2>1. enough \in SUBSET Nat /\ enough # {}
    BY <1>1
  <2> HIDE DEF enough
  <2> QED
    BY <2>1, LeastNumber
<1>3. ASSUME NEW d \in 0 .. e - 1 PROVE Power[d] < n
  <2>1. d \in 0 .. n /\ ~ (e <= d) /\ Power[d] \in Nat
    BY PowerSteps
  <2>2. d \notin enough
    BY <1>2, <2>1
  <2> QED
    BY <2>1, <2>2
<1> QED
  BY <1>2, <1>3 DEF ExponentForBlocks

\* The exponent of a power of two is what it was made from.
LEMMA ExponentOfPower ==
    ASSUME NEW k \in Nat
    PROVE  ExponentForBlocks(Power[k]) = k
<1> DEFINE e == ExponentForBlocks(Power[k])
<1>1. Power[k] \in Nat
  BY PowerSteps
<1>2. e \in Nat /\ Power[k] <= Power[e] /\ \A d \in 0 .. e - 1 : Power[d] < Power[k]
  BY <1>1, ExponentIsLeast
<1> HIDE DEF e
<1>3. CASE e < k
  <2>1. 2 * Power[e] <= Power[k] /\ Power[e] \in Nat \ {0}
    BY <1>2, <1>3, PowerGrows, PowerSteps
  <2> QED
    BY <1>1, <1>2, <2>1
<1>4. CASE k < e
  BY <1>1, <1>2, <1>4
<1> QED
  BY <1>2, <1>3, <1>4 DEF e

-----------------------------------------------------------------------------
(* The division of the heap                                                *)

\* The quotient counts whole units only.
LEMMA Quotient ==
    ASSUME NEW a \in Nat, NEW b \in Nat \ {0}
    PROVE  /\ a \div b \in Nat
           /\ (a \div b) * b <= a
OBVIOUS

\* AlignUp never goes back, and by less than a unit forward.
LEMMA AlignUpBounds ==
    ASSUME NEW a \in Nat, NEW b \in Nat \ {0}
    PROVE  /\ AlignUp(a, b) \in Nat
           /\ a <= AlignUp(a, b) /\ AlignUp(a, b) < a + b
BY DEF AlignUp

LEMMA MultipleIsAligned ==
    ASSUME NEW k \in Nat, NEW b \in Nat \ {0}
    PROVE  (k * b) % b = 0
<1> DEFINE q == (k * b) \div b
           r == (k * b) % b
<1>1. k * b \in Nat
  OBVIOUS
<1>2. q \in Nat /\ r \in 0 .. b - 1 /\ k * b = q * b + r
  BY <1>1
<1> HIDE DEF q, r
<1>3. r = (k - q) * b
  BY <1>2
<1>4. CASE k - q >= 1
  BY <1>2, <1>3, <1>4
<1>5. CASE k - q <= -1
  BY <1>2, <1>3, <1>5
<1>6. CASE k - q = 0
  BY <1>3, <1>6 DEF r
<1> QED
  BY <1>2, <1>4, <1>5, <1>6

LEMMA AlignUpIsAligned ==
    ASSUME NEW a \in Nat, NEW b \in Nat \ {0}
    PROVE  AlignUp(a, b) % b = 0
<1> DEFINE q == a \div b
           r == a % b
<1>1. q \in Nat /\ r \in 0 .. b - 1 /\ a = q * b + r
  OBVIOUS
<1> HIDE DEF q, r
<1>2. CASE r = 0
  BY <1>2 DEF AlignUp, r
<1>3. CASE r # 0
  <2>1. AlignUp(a, b) = (q + 1) * b
    BY <1>1, <1>3 DEF AlignUp, r
  <2> QED
    BY <1>1, <2>1, MultipleIsAligned
<1> QED
  BY <1>2, <1>3

\* There is a largest power of two up to n: the distances to n of the powers
\* are natural numbers, one of which is the least.
LEMMA LargestPowerExists ==
    ASSUME NEW n \in Nat \ {0}
    PROVE  \E p \in PowersOfTwo(n) : \A q \in PowersOfTwo(n) : q <= p
<1> DEFINE distances == {d \in Nat : \E p \in PowersOfTwo(n) : d = n - p}
<1>1. PowersOfTwo(n) \subseteq 1 .. n
  BY DEF PowersOfTwo
<1>2. n - 1 \in distances
  <2>1. 0 \in 0 .. n /\ 1 \in 1 .. n /\ 1 = Power[0]
    BY PowerIsDefined
  <2>2. 1 \in PowersOfTwo(n)
    BY <2>1 DEF PowersOfTwo
  <2> QED
    BY <2>2
<1>3. PICK d \in distances : \A c \in distances : d <= c
  <2>1. distances \in SUBSET Nat /\ distances # {}
    BY <1>2
  <2> HIDE DEF distances
  <2> QED
    BY <2>1, LeastNumber
<1>4. PICK p \in PowersOfTwo(n) : d = n - p
  BY <1>3
<1>5. ASSUME NEW q \in PowersOfTwo(n)
      PROVE  q <= p
  <2>1. n - q \in distances
    BY <1>1
  <2> QED
    BY <1>1, <1>3, <1>4, <2>1
<1> QED
  BY <1>5

LEMMA UsedBlocksBound ==
    ASSUME AssignedBlocks \in Nat
    PROVE  /\ UsedBlocks \in 0 .. AssignedBlocks
           /\ UsedBlocks # 0 => \E e \in Nat : UsedBlocks = Power[e]
<1>1. CASE AssignedBlocks = 0
  BY <1>1 DEF UsedBlocks
<1>2. CASE AssignedBlocks # 0
  <2>1. UsedBlocks \in PowersOfTwo(AssignedBlocks)
    BY <1>2, LargestPowerExists DEF UsedBlocks
  <2> QED
    BY <2>1 DEF PowersOfTwo
<1> QED
  BY <1>1, <1>2

LEMMA HeapAddresses ==
    ASSUME HeapIsLargeEnough
    PROVE  /\ {FirstBuddyAddress, LastBuddyAddress, FirstFitAddress} \subseteq Nat
           /\ HEAP_START_ADDR <= FirstBuddyAddress
           /\ LastBuddyAddress < FirstFitAddress
<1> USE HeapAssumption DEF HeapIsLargeEnough
<1>1. FirstBuddyAddress \in Nat /\ HEAP_START_ADDR <= FirstBuddyAddress
  BY AlignUpBounds DEF FirstBuddyAddress
<1>2. LastBuddyAddress \in Nat
  BY DEF LastBuddyAddress
<1>3. FirstFitAddress \in Nat /\ LastBuddyAddress + 1 <= FirstFitAddress
  BY <1>2, AlignUpBounds DEF FirstFitAddress
<1> QED
  BY <1>1, <1>2, <1>3

\* The buddy allocator's blocks lie between the start of the heap and the
\* first segment of mem_alloc, and the blocks of mem_alloc before the end of
\* the heap (MemoryAllocationHelperFunctions.cpp:6-50).
THEOREM RegionsAreApart ==
    ASSUME HeapIsLargeEnough
    PROVE  /\ HEAP_START_ADDR <= FirstBuddyAddress
           /\ FirstBuddyAddress + UsedBytes <= FirstFitAddress
           /\ FirstFitAddress + FirstFitBlocks * MEM_BLOCK_SIZE <= HEAP_END_ADDR
<1> USE HeapAssumption
<1>1. FirstBuddyAddress + UsedBytes <= FirstFitAddress
  <2> DEFINE bytes == LastBuddyAddress - FirstBuddyAddress
  <2>1. bytes \in Nat
    BY HeapAddresses DEF HeapIsLargeEnough
  <2>2. AssignedBlocks \in Nat /\ AssignedBlocks * BLOCK_SIZE <= bytes
    BY <2>1, Quotient DEF AssignedBlocks
  <2>3. UsedBlocks \in 0 .. AssignedBlocks
    BY <2>2, UsedBlocksBound
  <2>4. UsedBytes \in Nat /\ UsedBytes <= AssignedBlocks * BLOCK_SIZE
    BY <2>2, <2>3 DEF UsedBytes
  <2>5. AssignedBlocks * BLOCK_SIZE \in Nat
    BY <2>2
  <2> HIDE DEF bytes
  <2>6. UsedBytes <= bytes
    BY <2>1, <2>2, <2>4, <2>5
  <2> QED
    BY <2>4, <2>6, HeapAddresses DEF bytes
<1>2. FirstFitAddress + FirstFitBlocks * MEM_BLOCK_SIZE <= HEAP_END_ADDR
  <2> DEFINE bytes == HEAP_END_ADDR - 1 - FirstFitAddress
  <2>1. bytes \in Nat
    BY HeapAddresses DEF HeapIsLargeEnough
  <2>2. FirstFitBlocks \in Nat /\ FirstFitBlocks * MEM_BLOCK_SIZE <= bytes
    BY <2>1, Quotient DEF FirstFitBlocks
  <2>3. FirstFitBlocks * MEM_BLOCK_SIZE \in Nat
    BY <2>2
  <2> HIDE DEF FirstFitBlocks
  <2> QED
    BY <2>1, <2>2, <2>3, HeapAddresses
<1> QED
  BY <1>1, <1>2, HeapAddresses

\* Both regions start at a multiple of their block size
\* (MemoryAllocationHelperFunctions.cpp:6-11, 28-33).
THEOREM RegionsAreAligned ==
    ASSUME HeapIsLargeEnough
    PROVE  /\ FirstBuddyAddress % BLOCK_SIZE = 0
           /\ FirstFitAddress % MEM_BLOCK_SIZE = 0
<1>1. LastBuddyAddress + 1 \in Nat
  BY HeapAddresses
<1> QED
  BY <1>1, HeapAssumption, AlignUpIsAligned DEF FirstBuddyAddress, FirstFitAddress

-----------------------------------------------------------------------------
(* Blocks and the units of memory they consist of                          *)

\* The first unit of a block, and whether a unit lies in it.
Start(b) == b[2] * Power[b[1]]
Has(b, u) == Start(b) <= u /\ u < Start(b) + Power[b[1]]

\* The blocks of S cover the memory, each unit once.
Tiles(S) ==
    /\ S \subseteq Blocks
    /\ \A u \in 0 .. Power[MaxUsedExponent] - 1 : \E b \in S : Has(b, u)
    /\ \A b, c \in S : \A u \in Nat : Has(b, u) /\ Has(c, u) => b = c

\* The allocator uses all of its region.
LEMMA MaxExponent ==
    /\ MaxUsedExponent \in Nat
    /\ Power[MaxUsedExponent] = UsedBlocks
<1>1. LastBuddyAddress - FirstBuddyAddress \in Nat
  BY HeapAddresses, BuddyAssumption DEF HeapIsLargeEnough
<1>2. AssignedBlocks \in Nat
  BY <1>1, Quotient, HeapAssumption DEF AssignedBlocks
<1>3. PICK e \in Nat : UsedBlocks = Power[e]
  BY <1>2, UsedBlocksBound, BuddyAssumption
<1> QED
  BY <1>3, ExponentOfPower DEF MaxUsedExponent, NumberOfBlocks

LEMMA BlockFacts ==
    ASSUME NEW b \in Blocks
    PROVE  /\ b = << b[1], b[2] >>
           /\ b[1] \in Nat /\ b[1] <= MaxUsedExponent /\ MaxUsedExponent - b[1] \in Nat
           /\ b[2] \in Nat /\ b[2] < Power[MaxUsedExponent - b[1]]
<1>1. PICK e \in 0 .. MaxUsedExponent : b \in {e} \X (0 .. Power[MaxUsedExponent - e] - 1)
  BY DEF Blocks
<1>2. b[1] = e /\ b[2] \in 0 .. Power[MaxUsedExponent - e] - 1 /\ b = << b[1], b[2] >>
  BY <1>1
<1>3. MaxUsedExponent - e \in Nat /\ Power[MaxUsedExponent - e] \in Nat
  BY MaxExponent, PowerSteps
<1> QED
  BY <1>2, <1>3, MaxExponent

LEMMA IsBlock ==
    ASSUME NEW e \in Nat, e <= MaxUsedExponent, NEW i \in Nat,
           i < Power[MaxUsedExponent - e]
    PROVE  << e, i >> \in Blocks
<1>1. e \in 0 .. MaxUsedExponent /\ MaxUsedExponent - e \in Nat
  BY MaxExponent
<1>2. i \in 0 .. Power[MaxUsedExponent - e] - 1
  BY <1>1, PowerSteps
<1>3. << e, i >> \in {e} \X (0 .. Power[MaxUsedExponent - e] - 1)
  BY <1>2
<1> QED
  BY <1>1, <1>3 DEF Blocks

\* Comparing multiples.
LEMMA Multiples ==
    ASSUME NEW x \in Nat, NEW y \in Nat, NEW p \in Nat \ {0}
    PROVE  /\ x <= y => x * p <= y * p
           /\ x * p < y * p => x < y
           /\ x * p \in Nat
<1>1. ASSUME NEW a \in Nat, NEW b \in Nat, a <= b
      PROVE  a * p <= b * p
  <2>1. (b - a) * p >= 0 /\ b * p = a * p + (b - a) * p
    BY <1>1
  <2>2. (b - a) * p \in Int /\ a * p \in Int /\ b * p \in Int
    OBVIOUS
  <2> QED
    BY <2>1, <2>2
<1>2. x * p \in Nat /\ y * p \in Nat
  OBVIOUS
<1> QED
  BY <1>1, <1>2

LEMMA UnitsInMemory ==
    ASSUME NEW b \in Blocks
    PROVE  /\ Start(b) \in Nat /\ Power[b[1]] \in Nat \ {0}
           /\ Start(b) + Power[b[1]] <= Power[MaxUsedExponent]
<1> DEFINE p == Power[b[1]]
           q == Power[MaxUsedExponent - b[1]]
<1>1. p \in Nat \ {0} /\ q \in Nat \ {0} /\ b[2] \in Nat /\ b[2] + 1 <= q
  BY BlockFacts, PowerSteps
<1>2. Power[MaxUsedExponent] = q * p
  <2>1. (MaxUsedExponent - b[1]) + b[1] = MaxUsedExponent
    BY BlockFacts, MaxExponent
  <2> QED
    BY <2>1, BlockFacts, PowerOfSum
<1>3. Start(b) = b[2] * p
  BY DEF Start
<1> HIDE DEF p, q
<1>4. (b[2] + 1) * p <= q * p /\ b[2] * p \in Nat
  BY <1>1, Multiples
<1>5. (b[2] + 1) * p = b[2] * p + p
  BY <1>1
<1> QED
  BY <1>1, <1>2, <1>3, <1>4, <1>5 DEF p

\* Two blocks that share a unit lie one inside the other.
LEMMA Nested ==
    ASSUME NEW b \in Blocks, NEW c \in Blocks, b[1] <= c[1],
           NEW u \in Nat, Has(b, u), Has(c, u)
    PROVE  Start(c) <= Start(b) /\ Start(b) + Power[b[1]] <= Start(c) + Power[c[1]]
<1> DEFINE p == Power[b[1]]
           k == Power[c[1] - b[1]]
<1>1. b[1] \in Nat /\ c[1] \in Nat /\ c[1] - b[1] \in Nat /\ (c[1] - b[1]) + b[1] = c[1]
  BY BlockFacts
<1>2. p \in Nat \ {0} /\ k \in Nat \ {0} /\ Power[c[1]] = k * p
  <2>1. p \in Nat \ {0} /\ k \in Nat \ {0}
    BY <1>1, PowerSteps
  <2>2. Power[(c[1] - b[1]) + b[1]] = k * p
    BY <1>1, PowerOfSum
  <2> QED
    BY <1>1, <2>1, <2>2
<1>3. b[2] \in Nat /\ c[2] \in Nat /\ Start(b) = b[2] * p /\ Start(c) = c[2] * (k * p)
  BY <1>2, BlockFacts DEF Start
<1>4. b[2] * p <= u /\ u < b[2] * p + p /\ c[2] * (k * p) <= u /\ u < c[2] * (k * p) + k * p
  BY <1>2, <1>3 DEF Has
<1> HIDE DEF p, k
<1>5. /\ c[2] * (k * p) = (c[2] * k) * p /\ c[2] * (k * p) + k * p = ((c[2] + 1) * k) * p
      /\ b[2] * p + p = (b[2] + 1) * p
  BY <1>2, <1>3
<1>6. c[2] * k \in Nat /\ (c[2] + 1) * k \in Nat
  BY <1>2, <1>3
<1>7. (c[2] * k) * p \in Nat /\ ((c[2] + 1) * k) * p \in Nat /\ (b[2] + 1) * p \in Nat
      /\ b[2] * p \in Nat
  BY <1>2, <1>3, <1>6, Multiples
<1>8. c[2] * k < b[2] + 1 /\ b[2] < (c[2] + 1) * k
  <2>1. (c[2] * k) * p < (b[2] + 1) * p /\ b[2] * p < ((c[2] + 1) * k) * p
    BY <1>4, <1>5, <1>7
  <2> QED
    BY <1>2, <1>3, <1>6, <2>1, Multiples
<1>9. c[2] * k <= b[2] /\ b[2] + 1 <= (c[2] + 1) * k
  BY <1>3, <1>6, <1>8
<1>10. (c[2] * k) * p <= b[2] * p /\ (b[2] + 1) * p <= ((c[2] + 1) * k) * p
  BY <1>2, <1>3, <1>6, <1>9, Multiples
<1> QED
  BY <1>2, <1>3, <1>5, <1>10 DEF p, k

\* The blocks of T give way to those of N, which consist of the same units.
LEMMA Retile ==
    ASSUME NEW S, Tiles(S), NEW T \in SUBSET S, NEW N \in SUBSET Blocks,
           \A u \in Nat : (\E n \in N : Has(n, u)) => \E t \in T : Has(t, u),
           \A u \in Nat : (\E t \in T : Has(t, u)) => \E n \in N : Has(n, u),
           \A b, c \in N : \A u \in Nat : Has(b, u) /\ Has(c, u) => b = c
    PROVE  Tiles((S \ T) \cup N)
<1> DEFINE S2 == (S \ T) \cup N
<1>1. S2 \subseteq Blocks
  BY DEF Tiles
<1>2. ASSUME NEW u \in 0 .. Power[MaxUsedExponent] - 1
      PROVE  \E b \in S2 : Has(b, u)
  <2>1. PICK b \in S : Has(b, u)
    BY DEF Tiles
  <2>2. u \in Nat
    BY MaxExponent, PowerSteps
  <2>3. CASE b \in T
    BY <2>1, <2>2, <2>3
  <2>4. CASE b \notin T
    BY <2>1, <2>4
  <2> QED
    BY <2>3, <2>4
<1>3. ASSUME NEW b \in S2, NEW c \in S2, NEW u \in Nat, Has(b, u), Has(c, u)
      PROVE  b = c
  <2>1. \A x \in S \ T : \A n \in N : ~ (Has(x, u) /\ Has(n, u))
    BY DEF Tiles
  <2>2. CASE b \in S \ T /\ c \in S \ T
    BY <1>3, <2>2 DEF Tiles
  <2>3. CASE b \in N /\ c \in N
    BY <1>3, <2>3
  <2> QED
    BY <1>3, <2>1, <2>2, <2>3
<1> HIDE DEF S2
<1>4. Tiles(S2)
  BY <1>1, <1>2, <1>3 DEF Tiles
<1> QED
  BY <1>4 DEF S2

-----------------------------------------------------------------------------
(* Splitting a block                                                       *)

LEMMA FrontFacts ==
    ASSUME NEW b \in Blocks, NEW d \in 0 .. b[1]
    PROVE  /\ Front(b, d) \in Blocks /\ Front(b, d)[1] = d
           /\ Start(Front(b, d)) = Start(b)
           /\ Power[d] <= Power[b[1]]
<1> DEFINE p == Power[d]
           k == Power[b[1] - d]
           q == Power[MaxUsedExponent - b[1]]
<1>1. /\ b[1] \in Nat /\ d \in Nat /\ b[1] - d \in Nat /\ (b[1] - d) + d = b[1]
      /\ MaxUsedExponent - b[1] \in Nat
      /\ (MaxUsedExponent - b[1]) + (b[1] - d) = MaxUsedExponent - d
      /\ d <= MaxUsedExponent
  BY BlockFacts, MaxExponent
<1>2. /\ p \in Nat \ {0} /\ k \in Nat \ {0} /\ q \in Nat \ {0}
      /\ Power[b[1]] = k * p /\ Power[MaxUsedExponent - d] = q * k
  <2>1. Power[b[1]] = k * p
    BY <1>1, PowerOfSum
  <2>2. Power[MaxUsedExponent - d] = q * k
    BY <1>1, PowerOfSum
  <2> QED
    BY <1>1, <2>1, <2>2, PowerSteps
<1>3. b[2] \in Nat /\ b[2] < q
  BY BlockFacts
<1>4. Front(b, d) = << d, b[2] * k >>
  BY DEF Front
<1>5. Start(b) = b[2] * (k * p)
  BY <1>2 DEF Start
<1>6. Start(Front(b, d)) = (b[2] * k) * p
  BY <1>4 DEF Start
<1> HIDE DEF p, k, q
<1>7. (b[2] * k) * p = b[2] * (k * p)
  BY <1>2, <1>3
<1>8. b[2] * k \in Nat /\ b[2] * k < q * k
  <2>1. b[2] + 1 <= q /\ b[2] + 1 \in Nat
    BY <1>2, <1>3
  <2>2. (b[2] + 1) * k <= q * k /\ b[2] * k \in Nat
    BY <1>2, <1>3, <2>1, Multiples
  <2>3. (b[2] + 1) * k = b[2] * k + k
    BY <1>2, <1>3
  <2>4. q * k \in Nat
    BY <1>2
  <2> QED
    BY <1>2, <2>2, <2>3, <2>4
<1>9. Front(b, d) \in Blocks
  BY <1>1, <1>2, <1>4, <1>8, IsBlock
<1>10. Power[d] <= Power[b[1]]
  BY <1>1, PowerGrows
<1> QED
  BY <1>4, <1>5, <1>6, <1>7, <1>9, <1>10

\* The right half that is left when the front of b is halved down to d.
Right(b, d) == << d, Front(b, d)[2] + 1 >>

LEMMA RightFacts ==
    ASSUME NEW b \in Blocks, NEW d \in 0 .. b[1] - 1
    PROVE  /\ Right(b, d) \in Blocks /\ Right(b, d)[1] = d
           /\ Start(Right(b, d)) = Start(b) + Power[d]
           /\ 2 * Power[d] <= Power[b[1]]
<1> DEFINE f == Front(b, d + 1)
           i == f[2]
           p == Power[d]
<1>1. /\ b[1] \in Nat /\ d \in Nat /\ d + 1 \in 0 .. b[1] /\ d < b[1] /\ d \in 0 .. b[1]
      /\ b[1] - (d + 1) \in Nat
  BY BlockFacts
<1>2. f \in Blocks /\ f[1] = d + 1
  BY <1>1, FrontFacts
<1>3. i \in Nat /\ i < Power[MaxUsedExponent - (d + 1)] /\ MaxUsedExponent - (d + 1) \in Nat
      /\ d <= MaxUsedExponent
  <2>1. d + 1 <= MaxUsedExponent /\ MaxUsedExponent \in Nat
    BY <1>1, <1>2, BlockFacts, MaxExponent
  <2> QED
    BY <1>1, <1>2, <2>1, BlockFacts
<1>4. Power[MaxUsedExponent - d] = 2 * Power[MaxUsedExponent - (d + 1)]
  <2>1. (MaxUsedExponent - (d + 1)) + 1 = MaxUsedExponent - d
    BY <1>1, MaxExponent
  <2> QED
    BY <1>3, <2>1, PowerSteps
<1>5. Front(b, d)[2] = 2 * i
  <2>1. (b[1] - (d + 1)) + 1 = b[1] - d
    BY <1>1
  <2>2. Power[b[1] - d] = 2 * Power[b[1] - (d + 1)] /\ Power[b[1] - (d + 1)] \in Nat
    BY <1>1, <2>1, PowerSteps
  <2>3. Front(b, d)[2] = b[2] * Power[b[1] - d] /\ i = b[2] * Power[b[1] - (d + 1)]
    BY DEF Front
  <2>4. b[2] \in Nat
    BY BlockFacts
  <2> HIDE DEF i
  <2> QED
    BY <2>2, <2>3, <2>4
<1>6. Right(b, d) = << d, 2 * i + 1 >>
  BY <1>5 DEF Right
<1>7. p \in Nat \ {0} /\ Power[MaxUsedExponent - (d + 1)] \in Nat
  BY <1>1, <1>3, PowerSteps
<1> HIDE DEF i, p, f
<1>8. Right(b, d) \in Blocks
  <2>1. 2 * i + 1 \in Nat /\ 2 * i + 1 < Power[MaxUsedExponent - d]
    BY <1>3, <1>4, <1>7
  <2> QED
    BY <1>1, <1>3, <1>6, <2>1, IsBlock
<1>9. Start(Right(b, d)) = (2 * i + 1) * p
  BY <1>6 DEF Start, p
<1>10. Start(b) = (2 * i) * p
  <2>1. Start(Front(b, d)) = Start(b) /\ Front(b, d)[1] = d
    BY <1>1, FrontFacts
  <2> QED
    BY <1>5, <2>1 DEF Start, p
<1>11. (2 * i + 1) * p = (2 * i) * p + p
  BY <1>3, <1>7
<1>12. 2 * p <= Power[b[1]]
  BY <1>1, PowerGrows DEF p
<1> QED
  BY <1>6, <1>8, <1>9, <1>10, <1>11, <1>12 DEF p

Pieces(b, e) == {Front(b, e)} \cup RightHalves(b, e)

LEMMA RightHalvesAre ==
    ASSUME NEW b, NEW e, NEW x
    PROVE  x \in RightHalves(b, e) <=> \E d \in e .. b[1] - 1 : x = Right(b, d)
BY DEF RightHalves, Right

LEMMA PiecesFit ==
    ASSUME NEW b \in Blocks, NEW e \in 0 .. b[1]
    PROVE  /\ Pieces(b, e) \subseteq Blocks
           /\ \A x \in Pieces(b, e), u \in Nat : Has(x, u) => Has(b, u)
           /\ \A u \in Nat : Has(b, u) => \E x \in Pieces(b, e) : Has(x, u)
           /\ \A x, y \in Pieces(b, e) : \A u \in Nat : Has(x, u) /\ Has(y, u) => x = y
<1>1. Start(b) \in Nat /\ Power[b[1]] \in Nat /\ b[1] \in Nat
  BY UnitsInMemory, BlockFacts
<1>2. ASSUME NEW d \in e .. b[1] - 1
      PROVE  /\ Right(b, d) \in Blocks /\ d \in Nat /\ Power[d] \in Nat \ {0}
             /\ 2 * Power[d] <= Power[b[1]] /\ Power[e] <= Power[d]
             /\ \A u \in Nat : Has(Right(b, d), u) <=>
                   Start(b) + Power[d] <= u /\ u < Start(b) + 2 * Power[d]
  <2>1. d \in 0 .. b[1] - 1 /\ e \in Nat /\ d \in Nat /\ e <= d
    BY <1>1
  <2>2. Power[d] \in Nat \ {0} /\ Power[e] <= Power[d]
    BY <2>1, PowerSteps, PowerGrows
  <2>3. /\ Right(b, d) \in Blocks /\ Right(b, d)[1] = d
        /\ Start(Right(b, d)) = Start(b) + Power[d] /\ 2 * Power[d] <= Power[b[1]]
    BY <2>1, RightFacts
  <2> QED
    BY <1>1, <2>1, <2>2, <2>3 DEF Has
<1>3. /\ Front(b, e) \in Blocks /\ Power[e] \in Nat \ {0} /\ Power[e] <= Power[b[1]]
      /\ \A u \in Nat : Has(Front(b, e), u) <=> Start(b) <= u /\ u < Start(b) + Power[e]
  <2>1. e \in Nat /\ Power[e] \in Nat \ {0}
    BY <1>1, PowerSteps
  <2> QED
    BY <2>1, FrontFacts DEF Has
<1>4. \A x \in Pieces(b, e) : x = Front(b, e) \/ \E d \in e .. b[1] - 1 : x = Right(b, d)
  BY RightHalvesAre DEF Pieces
<1>5. Front(b, e) \in Pieces(b, e) /\ \A d \in e .. b[1] - 1 : Right(b, d) \in Pieces(b, e)
  BY RightHalvesAre DEF Pieces
<1>6. Pieces(b, e) \subseteq Blocks
  BY <1>2, <1>3, <1>4
<1>7. ASSUME NEW x \in Pieces(b, e), NEW u \in Nat, Has(x, u)
      PROVE  Has(b, u)
  <2>1. CASE x = Front(b, e)
    BY <1>1, <1>3, <1>7, <2>1 DEF Has
  <2>2. ASSUME NEW d \in e .. b[1] - 1, x = Right(b, d) PROVE Has(b, u)
    <3>1. Start(b) + Power[d] <= u /\ u < Start(b) + 2 * Power[d]
      BY <1>2, <1>7, <2>2
    <3> QED
      BY <1>1, <1>2, <3>1 DEF Has
  <2> QED
    BY <1>4, <2>1, <2>2
<1>8. ASSUME NEW u \in Nat, Has(b, u)
      PROVE  \E x \in Pieces(b, e) : Has(x, u)
  <2> DEFINE o == u - Start(b)
             above == {d \in e .. b[1] : o < Power[d]}
  <2>1. o \in Nat /\ o < Power[b[1]]
    BY <1>1, <1>8 DEF Has
  <2>2. b[1] \in above
    BY <1>1, <2>1
  <2>3. PICK m \in above : \A k \in above : m <= k
    <3>1. above \in SUBSET Nat /\ above # {}
      BY <1>1, <2>2
    <3> HIDE DEF above
    <3> QED
      BY <3>1, LeastNumber
  <2>4. CASE m = e
    <3>1. Has(Front(b, e), u)
      BY <1>1, <1>3, <2>1, <2>3, <2>4
    <3> QED
      BY <1>5, <3>1
  <2>5. CASE m # e
    <3>1. m - 1 \in e .. b[1] - 1 /\ m - 1 \in Nat /\ (m - 1) + 1 = m
      BY <1>1, <2>5
    <3>2. m - 1 \notin above
      BY <2>3, <3>1
    <3>3. Power[m] = 2 * Power[m - 1] /\ Power[m - 1] \in Nat
      BY <3>1, PowerSteps
    <3>4. Power[m - 1] <= o /\ o < 2 * Power[m - 1]
      BY <1>1, <2>1, <2>3, <3>1, <3>2, <3>3
    <3>5. Has(Right(b, m - 1), u)
      BY <1>1, <1>2, <3>1, <3>3, <3>4
    <3> QED
      BY <1>5, <3>1, <3>5
  <2> QED
    BY <2>4, <2>5
<1>9. ASSUME NEW d \in e .. b[1] - 1, NEW u \in Nat, Has(Right(b, d), u), Has(Front(b, e), u)
      PROVE  FALSE
  <2>1. Start(b) + Power[d] <= u /\ u < Start(b) + Power[e] /\ Power[e] <= Power[d]
        /\ Power[d] \in Nat
    BY <1>2, <1>3, <1>9
  <2> QED
    BY <1>1, <1>3, <2>1
<1>10. ASSUME NEW d \in e .. b[1] - 1, NEW k \in e .. b[1] - 1, d < k, NEW u \in Nat,
              Has(Right(b, d), u), Has(Right(b, k), u)
       PROVE  FALSE
  <2>1. u < Start(b) + 2 * Power[d] /\ Start(b) + Power[k] <= u
        /\ Power[d] \in Nat /\ Power[k] \in Nat /\ d \in Nat /\ k \in Nat
    BY <1>2, <1>10
  <2>2. 2 * Power[d] <= Power[k]
    BY <1>10, <2>1, PowerGrows
  <2> QED
    BY <1>1, <2>1, <2>2
<1>11. ASSUME NEW x \in Pieces(b, e), NEW y \in Pieces(b, e), NEW u \in Nat,
              Has(x, u), Has(y, u)
       PROVE  x = y
  <2>1. ASSUME NEW d \in e .. b[1] - 1, x = Right(b, d),
               NEW k \in e .. b[1] - 1, y = Right(b, k)
        PROVE  x = y
    <3>1. ~ (d < k) /\ ~ (k < d)
      BY <1>10, <1>11, <2>1
    <3>2. d \in Int /\ k \in Int
      BY <1>1
    <3> QED
      BY <2>1, <3>1, <3>2
  <2> QED
    BY <1>4, <1>9, <1>11, <2>1
<1> QED
  BY <1>6, <1>7, <1>8, <1>11

\* Allocation: a block gives way to its pieces.
LEMMA SplitTiles ==
    ASSUME NEW S, Tiles(S), NEW b \in S, NEW e \in 0 .. b[1]
    PROVE  Tiles((S \ {b}) \cup Pieces(b, e))
<1>1. b \in Blocks
  BY DEF Tiles
<1>2. /\ Pieces(b, e) \subseteq Blocks
      /\ \A x \in Pieces(b, e), u \in Nat : Has(x, u) => Has(b, u)
      /\ \A u \in Nat : Has(b, u) => \E x \in Pieces(b, e) : Has(x, u)
      /\ \A x, y \in Pieces(b, e) : \A u \in Nat : Has(x, u) /\ Has(y, u) => x = y
  BY <1>1, PiecesFit
<1>3. {b} \in SUBSET S /\ Pieces(b, e) \in SUBSET Blocks
  BY <1>2
<1>4. \A u \in Nat : (\E n \in Pieces(b, e) : Has(n, u)) => \E t \in {b} : Has(t, u)
  BY <1>2
<1>5. \A u \in Nat : (\E t \in {b} : Has(t, u)) => \E n \in Pieces(b, e) : Has(n, u)
  BY <1>2
<1> QED
  BY <1>2, <1>3, <1>4, <1>5, Retile

-----------------------------------------------------------------------------
(* Merging blocks                                                          *)

LEMMA Division ==
    ASSUME NEW x \in Nat, NEW p \in Nat \ {0}, NEW q \in Nat, NEW r \in 0 .. p - 1,
           x = q * p + r
    PROVE  x \div p = q
<1> DEFINE q2 == x \div p
           r2 == x % p
<1>1. q2 \in Nat /\ r2 \in 0 .. p - 1 /\ x = q2 * p + r2
  OBVIOUS
<1> HIDE DEF q2, r2
<1>2. q2 * p < (q + 1) * p /\ q * p < (q2 + 1) * p
  <2>1. (q + 1) * p = q * p + p /\ (q2 + 1) * p = q2 * p + p
    BY <1>1
  <2>2. q * p \in Nat /\ q2 * p \in Nat
    BY <1>1
  <2> QED
    BY <1>1, <2>1, <2>2
<1>3. q2 < q + 1 /\ q < q2 + 1
  <2>1. q + 1 \in Nat /\ q2 + 1 \in Nat
    BY <1>1
  <2> QED
    BY <1>1, <1>2, <2>1, Multiples
<1> QED
  BY <1>1, <1>3 DEF q2

LEMMA Halves ==
    ASSUME NEW x \in Nat
    PROVE  /\ x \div 2 \in Nat
           /\ x % 2 = 0 => x = 2 * (x \div 2)
           /\ x % 2 # 0 => x = 2 * (x \div 2) + 1
OBVIOUS

LEMMA HalvedTwice ==
    ASSUME NEW x \in Nat, NEW p \in Nat \ {0}
    PROVE  x \div (2 * p) = (x \div p) \div 2
<1> DEFINE q == x \div p
           r == x % p
           h == q \div 2
<1>1. q \in Nat /\ r \in 0 .. p - 1 /\ x = q * p + r
  OBVIOUS
<1>2. h \in Nat /\ (q = 2 * h \/ q = 2 * h + 1)
  BY <1>1, Halves
<1> SUFFICES x \div (2 * p) = h
  OBVIOUS
<1> HIDE DEF q, r, h
<1>3. 2 * p \in Nat \ {0}
  OBVIOUS
<1>4. CASE q = 2 * h
  <2>1. r \in 0 .. (2 * p) - 1
    BY <1>1
  <2>2. x = h * (2 * p) + r
    BY <1>1, <1>2, <1>4
  <2> QED
    BY <1>2, <1>3, <2>1, <2>2, Division
<1>5. CASE q = 2 * h + 1
  <2>1. p + r \in 0 .. (2 * p) - 1
    BY <1>1
  <2>2. x = h * (2 * p) + (p + r)
    <3>1. (2 * h + 1) * p = h * (2 * p) + p
      BY <1>2
    <3> QED
      BY <1>1, <1>2, <1>5, <3>1
  <2> QED
    BY <1>2, <1>3, <2>1, <2>2, Division
<1> QED
  BY <1>2, <1>4, <1>5

Parent(b) == << b[1] + 1, b[2] \div 2 >>

LEMMA BuddyFacts ==
    ASSUME NEW b \in Blocks, b[1] < MaxUsedExponent
    PROVE  /\ Buddy(b) \in Blocks /\ Buddy(b)[1] = b[1] /\ Buddy(b) # b
           /\ Parent(b) \in Blocks
           /\ \A u \in Nat : Has(Parent(b), u) <=> Has(b, u) \/ Has(Buddy(b), u)
<1> DEFINE p == Power[b[1]]
           h == b[2] \div 2
           n == MaxUsedExponent - (b[1] + 1)
<1>1. /\ b = << b[1], b[2] >> /\ b[1] \in Nat /\ b[2] \in Nat /\ n \in Nat
      /\ n + 1 = MaxUsedExponent - b[1] /\ b[1] + 1 \in Nat /\ b[1] + 1 <= MaxUsedExponent
      /\ b[1] <= MaxUsedExponent
  BY BlockFacts, MaxExponent
<1>2. /\ p \in Nat \ {0} /\ Power[b[1] + 1] = 2 * p /\ Power[n] \in Nat
      /\ Power[MaxUsedExponent - b[1]] = 2 * Power[n]
  <2>1. Power[n + 1] = 2 * Power[n]
    BY <1>1, PowerSteps
  <2> QED
    BY <1>1, <2>1, PowerSteps
<1>3. b[2] < 2 * Power[n]
  BY <1>2, BlockFacts
<1>4. h \in Nat /\ (b[2] % 2 = 0 => b[2] = 2 * h) /\ (b[2] % 2 # 0 => b[2] = 2 * h + 1)
  BY <1>1, Halves
<1>5. h < Power[n]
  BY <1>1, <1>2, <1>3, <1>4
<1>6. Parent(b) \in Blocks
  BY <1>1, <1>4, <1>5, IsBlock DEF Parent
<1>7. Start(Parent(b)) = h * (2 * p)
  BY <1>2 DEF Parent, Start
<1>8. Start(b) = b[2] * p
  BY DEF Start
<1>9. ASSUME NEW i \in Nat, NEW j \in Nat,
             (i = 2 * h /\ j = 2 * h + 1) \/ (i = 2 * h + 1 /\ j = 2 * h),
             b[2] = i, Buddy(b) = << b[1], j >>
      PROVE  /\ Buddy(b) \in Blocks /\ Buddy(b)[1] = b[1] /\ Buddy(b) # b
             /\ \A u \in Nat : Has(Parent(b), u) <=> Has(b, u) \/ Has(Buddy(b), u)
  <2>1. Buddy(b)[1] = b[1] /\ Buddy(b) # b
    BY <1>1, <1>4, <1>9
  <2>2. j < Power[MaxUsedExponent - b[1]]
    BY <1>2, <1>4, <1>5, <1>9
  <2>3. Buddy(b) \in Blocks
    BY <1>1, <1>9, <2>2, IsBlock
  <2>4. Start(Buddy(b)) = j * p
    BY <1>9 DEF Start
  <2>5. Parent(b)[1] = b[1] + 1
    BY DEF Parent
  <2> HIDE DEF p, h
  <2>6. h * (2 * p) = (2 * h) * p /\ (2 * h + 1) * p = (2 * h) * p + p /\ (2 * h) * p \in Nat
    BY <1>2, <1>4
  <2>7. ASSUME NEW u \in Nat
        PROVE  Has(Parent(b), u) <=> Has(b, u) \/ Has(Buddy(b), u)
    <3>1. Has(Parent(b), u) <=> (2 * h) * p <= u /\ u < (2 * h) * p + 2 * p
      BY <1>2, <1>7, <2>5, <2>6 DEF Has
    <3>2. Has(b, u) <=> i * p <= u /\ u < i * p + p
      BY <1>8, <1>9 DEF Has, p
    <3>3. Has(Buddy(b), u) <=> j * p <= u /\ u < j * p + p
      BY <2>1, <2>4 DEF Has, p
    <3>4. CASE i = 2 * h /\ j = 2 * h + 1
      BY <1>2, <2>6, <3>1, <3>2, <3>3, <3>4
    <3>5. CASE i = 2 * h + 1 /\ j = 2 * h
      BY <1>2, <2>6, <3>1, <3>2, <3>3, <3>5
    <3> QED
      BY <1>9, <3>4, <3>5
  <2> QED
    BY <2>1, <2>3, <2>7
<1>10. CASE b[2] % 2 = 0
  <2>1. Buddy(b) = << b[1], b[2] + 1 >>
    BY <1>10 DEF Buddy
  <2>2. b[2] + 1 \in Nat /\ b[2] = 2 * h /\ b[2] + 1 = 2 * h + 1
    BY <1>1, <1>4, <1>10
  <2> HIDE DEF h
  <2> QED
    BY <1>1, <1>6, <1>9, <2>1, <2>2
<1>11. CASE b[2] % 2 # 0
  <2>1. Buddy(b) = << b[1], b[2] - 1 >>
    BY <1>11 DEF Buddy
  <2>2. b[2] - 1 \in Nat /\ b[2] = 2 * h + 1 /\ b[2] - 1 = 2 * h
    BY <1>1, <1>4, <1>11
  <2> HIDE DEF h
  <2> QED
    BY <1>1, <1>6, <1>9, <2>1, <2>2
<1> QED
  BY <1>10, <1>11

\* The halves of one block are each other's buddies.
LEMMA Siblings ==
    ASSUME NEW b \in Blocks, NEW c \in Blocks, b # c, Parent(b) = Parent(c)
    PROVE  b[1] < MaxUsedExponent /\ c = Buddy(b)
<1>1. /\ b = << b[1], b[2] >> /\ c = << c[1], c[2] >> /\ b[1] \in Nat /\ c[1] \in Nat
      /\ b[2] \in Nat /\ c[2] \in Nat
  BY BlockFacts
<1>2. b[1] = c[1] /\ b[2] \div 2 = c[2] \div 2 /\ b[2] # c[2]
  BY <1>1 DEF Parent
<1>3. b[1] # MaxUsedExponent
  <2> SUFFICES ASSUME b[1] = MaxUsedExponent PROVE FALSE
    OBVIOUS
  <2>1. MaxUsedExponent - b[1] = 0 /\ MaxUsedExponent - c[1] = 0
    BY <1>2, MaxExponent
  <2>2. b[2] < 1 /\ c[2] < 1
    BY <2>1, BlockFacts, PowerIsDefined
  <2> QED
    BY <1>1, <1>2, <2>2
<1>4. c[2] = IF b[2] % 2 = 0 THEN b[2] + 1 ELSE b[2] - 1
  BY <1>1, <1>2, Halves
<1> QED
  BY <1>1, <1>2, <1>3, <1>4, BlockFacts, MaxExponent DEF Buddy

\* What the loop of deallocate has merged when it arrives at exponent k.
Merged(b, k) ==
    /\ Enclosing(b, k) \in Blocks /\ Enclosing(b, k)[1] = k
    /\ \A u \in Nat : Has(Enclosing(b, k), u) <=>
          Has(b, u) \/ \E d \in b[1] .. k - 1 : Has(Buddy(Enclosing(b, d)), u)

LEMMA ClimbsToEnclosing ==
    ASSUME NEW b \in Blocks, NEW top \in b[1] .. MaxUsedExponent
    PROVE  Merged(b, top)
<1> DEFINE e == b[1]
           T == {j \in 0 .. top - e : Merged(b, e + j)}
<1>1. e \in Nat /\ top \in Nat /\ top - e \in Nat /\ MaxUsedExponent \in Nat
      /\ b[2] \in Nat /\ b = << e, b[2] >>
  BY BlockFacts, MaxExponent
<1>2. 0 \in T
  <2>1. e + 0 = e /\ e - e = 0 /\ e .. e - 1 = {}
    BY <1>1
  <2>2. Enclosing(b, e) = b
    <3>1. b[2] \div 1 = b[2]
      BY <1>1
    <3> QED
      BY <1>1, <2>1, <3>1, PowerIsDefined DEF Enclosing
  <2>3. Merged(b, e)
    BY <2>1, <2>2 DEF Merged
  <2> QED
    BY <1>1, <2>1, <2>3
<1>3. ASSUME NEW j \in 0 .. (top - e) - 1, j \in T PROVE j + 1 \in T
  <2> DEFINE k == e + j
             c == Enclosing(b, k)
  <2>1. /\ j \in Nat /\ k \in Nat /\ k < MaxUsedExponent /\ k + 1 = e + (j + 1)
        /\ k - e \in Nat /\ (k - e) + 1 = (k + 1) - e
        /\ j + 1 \in 0 .. top - e
    BY <1>1
  <2>2. Merged(b, k)
    BY <1>3
  <2>3. c \in Blocks /\ c[1] = k
    BY <2>2 DEF Merged
  <2>4. Enclosing(b, k + 1) = Parent(c)
    <3>1. Power[(k + 1) - e] = 2 * Power[k - e] /\ Power[k - e] \in Nat \ {0}
      <4>1. Power[(k - e) + 1] = 2 * Power[k - e] /\ Power[k - e] \in Nat \ {0}
        BY <2>1, PowerSteps
      <4> QED
        BY <2>1, <4>1
    <3>2. b[2] \div (2 * Power[k - e]) = (b[2] \div Power[k - e]) \div 2
      BY <1>1, <3>1, HalvedTwice
    <3> QED
      BY <3>1, <3>2 DEF Enclosing, Parent
  <2>5. /\ Parent(c) \in Blocks
        /\ \A u \in Nat : Has(Parent(c), u) <=> Has(c, u) \/ Has(Buddy(c), u)
    BY <2>1, <2>3, BuddyFacts
  <2>6. \A d : d \in e .. (k + 1) - 1 <=> d \in e .. k - 1 \/ d = k
    BY <1>1, <2>1
  <2> HIDE DEF k
  <2>7. \A u \in Nat : Has(c, u) <=>
           Has(b, u) \/ \E d \in e .. k - 1 : Has(Buddy(Enclosing(b, d)), u)
    BY <2>2 DEF Merged
  <2>8. Parent(c)[1] = k + 1
    BY <2>3 DEF Parent
  <2>9. \A u \in Nat : Has(Parent(c), u) <=>
           Has(b, u) \/ \E d \in e .. (k + 1) - 1 : Has(Buddy(Enclosing(b, d)), u)
    BY <2>5, <2>6, <2>7
  <2>10. Merged(b, k + 1)
    BY <2>4, <2>5, <2>8, <2>9 DEF Merged
  <2> QED
    BY <2>1, <2>10
<1>4. 0 .. top - e \subseteq T
  <2> HIDE DEF T
  <2> QED
    BY <1>1, <1>2, <1>3, SetInduction
<1>5. Merged(b, e + (top - e))
  BY <1>1, <1>4
<1>6. e + (top - e) = top
  BY <1>1
<1> QED
  BY <1>5, <1>6

Taken(b, top) == {Buddy(Enclosing(b, d)) : d \in b[1] .. top - 1}

\* Release: a block and the buddies it takes give way to the one they make.
LEMMA MergeTiles ==
    ASSUME NEW S, Tiles(S), NEW b \in S, NEW top \in b[1] .. MaxUsedExponent,
           Taken(b, top) \subseteq S
    PROVE  /\ Tiles((S \ ({b} \cup Taken(b, top))) \cup {Enclosing(b, top)})
           /\ Enclosing(b, top) \in Blocks
           /\ Enclosing(b, top) \in S => Enclosing(b, top) = b
<1> DEFINE T == {b} \cup Taken(b, top)
           N == {Enclosing(b, top)}
<1>1. b \in Blocks /\ Merged(b, top)
  <2>1. b \in Blocks
    BY DEF Tiles
  <2> QED
    BY <2>1, ClimbsToEnclosing
<1>2. T \in SUBSET S /\ N \in SUBSET Blocks
  BY <1>1 DEF Merged
<1>3. ASSUME NEW u \in Nat
      PROVE  Has(Enclosing(b, top), u) <=> \E t \in T : Has(t, u)
  <2>1. Has(Enclosing(b, top), u) <=>
           Has(b, u) \/ \E d \in b[1] .. top - 1 : Has(Buddy(Enclosing(b, d)), u)
    BY <1>1 DEF Merged
  <2> QED
    BY <2>1 DEF Taken
<1>4. \A u \in Nat : (\E n \in N : Has(n, u)) => \E t \in T : Has(t, u)
  BY <1>3
<1>5. \A u \in Nat : (\E t \in T : Has(t, u)) => \E n \in N : Has(n, u)
  BY <1>3
<1>6. \A x, y \in N : \A u \in Nat : Has(x, u) /\ Has(y, u) => x = y
  OBVIOUS
<1>7. Tiles((S \ T) \cup N)
  <2> HIDE DEF T, N
  <2> QED
    BY <1>2, <1>4, <1>5, <1>6, Retile
<1>8. ASSUME Enclosing(b, top) \in S PROVE Enclosing(b, top) = b
  <2>1. Has(b, Start(b)) /\ Start(b) \in Nat
    BY <1>1, UnitsInMemory DEF Has
  <2>2. Has(Enclosing(b, top), Start(b))
    BY <1>3, <2>1
  <2> QED
    BY <1>8, <2>1, <2>2 DEF Tiles
<1> QED
  BY <1>1, <1>2, <1>7, <1>8

-----------------------------------------------------------------------------
(* The invariant                                                           *)

FreeIn(f) == {b \in Blocks : f[b]}

\* The bits f and the blocks h held: together they tile the memory, and no
\* two halves of a block are free.
Consistent(f, h) ==
    /\ f \in [Blocks -> BOOLEAN]
    /\ h \cap FreeIn(f) = {}
    /\ Tiles(h \cup FreeIn(f))
    /\ \A b, c \in FreeIn(f) : b # c => Parent(b) # Parent(c)

BuddyInv == Consistent(isBlockFree, held)

LEMMA ConsistentNext ==
    ASSUME NEW f, NEW h, Consistent(f, h), isBlockFree' = f, held' = h
    PROVE  BuddyInv'
BY DEF BuddyInv, Consistent, FreeIn, Tiles

\* Blocks of a tiling that share a unit are the same.
LEMMA OneTile ==
    ASSUME NEW S, Tiles(S), NEW b \in S, NEW c \in S, NEW u \in Nat, Has(b, u), Has(c, u)
    PROVE  b = c
BY DEF Tiles

LEMMA FirstUnit ==
    ASSUME NEW b \in Blocks
    PROVE  Start(b) \in Nat /\ Has(b, Start(b))
BY UnitsInMemory DEF Has

LEMMA InitIsConsistent == Init => BuddyInv
<1> SUFFICES ASSUME Init PROVE BuddyInv
  OBVIOUS
<1> DEFINE whole == << MaxUsedExponent, 0 >>
<1>1. MaxUsedExponent \in Nat /\ Power[MaxUsedExponent - MaxUsedExponent] = 1
  <2>1. MaxUsedExponent \in Nat /\ MaxUsedExponent - MaxUsedExponent = 0
    BY MaxExponent
  <2> QED
    BY <2>1, PowerIsDefined
<1>2. whole \in Blocks
  BY <1>1, IsBlock
<1>3. Power[MaxUsedExponent] \in Nat \ {0} /\ Start(whole) = 0
  BY <1>1, PowerSteps DEF Start
<1>4. Tiles({whole})
  <2>1. whole[1] = MaxUsedExponent
    OBVIOUS
  <2>2. \A u \in 0 .. Power[MaxUsedExponent] - 1 : Has(whole, u)
    BY <1>3, <2>1 DEF Has
  <2> HIDE DEF whole
  <2> QED
    BY <1>2, <2>2 DEF Tiles
<1>5. isBlockFree = [b \in Blocks |-> b = whole] /\ held = {}
  BY DEF Init
<1>6. FreeIn(isBlockFree) = {whole}
  <2> HIDE DEF whole
  <2> QED
    BY <1>2, <1>5 DEF FreeIn
<1>7. isBlockFree \in [Blocks -> BOOLEAN]
  <2>1. \A b \in Blocks : (b = whole) \in BOOLEAN
    OBVIOUS
  <2> HIDE DEF whole
  <2> QED
    BY <1>5, <2>1
<1>8. held \cup FreeIn(isBlockFree) = {whole}
  BY <1>5, <1>6
<1> HIDE DEF whole
<1> QED
  BY <1>4, <1>5, <1>6, <1>7, <1>8 DEF BuddyInv, Consistent

\* Every size asked for has an exponent.
LEMMA ExponentIsNat ==
    ASSUME NEW bytes \in ByteSizes
    PROVE  ExponentForBytes(bytes) \in Nat
<1> DEFINE n == bytes \div BLOCK_SIZE + (IF bytes % BLOCK_SIZE # 0 THEN 1 ELSE 0)
<1>1. bytes \in Nat /\ BLOCK_SIZE \in Nat \ {0}
  BY BuddyAssumption, HeapAssumption
<1>2. n \in Nat
  BY <1>1
<1>3. ExponentForBytes(bytes) = ExponentForBlocks(n)
  BY DEF ExponentForBytes
<1> HIDE DEF n
<1> QED
  BY <1>2, <1>3, ExponentIsLeast

\* What a split does: the front of a free block is handed out, its right
\* halves become free.
LEMMA SplitIsConsistent ==
    ASSUME NEW f, NEW h, Consistent(f, h), NEW b \in FreeIn(f), NEW e \in 0 .. b[1],
           NEW g, g = [x \in Blocks |-> x \in RightHalves(b, e) \/ (x # b /\ f[x])]
    PROVE  /\ Consistent(g, h \cup {Front(b, e)})
           /\ \A c \in h, u \in Nat : ~ (Has(Front(b, e), u) /\ Has(c, u))
<1> DEFINE F == FreeIn(f)
           G == FreeIn(g)
           R == RightHalves(b, e)
           front == Front(b, e)
           S == h \cup F
<1>1. /\ b \in Blocks /\ b \in S /\ b \notin h /\ Tiles(S) /\ S \subseteq Blocks
      /\ h \cap F = {}
  BY DEF Consistent, FreeIn, Tiles
<1>2. /\ Pieces(b, e) \subseteq Blocks
      /\ \A x \in Pieces(b, e), u \in Nat : Has(x, u) => Has(b, u)
  BY <1>1, PiecesFit
<1>3. R \subseteq Blocks /\ front \in Blocks /\ Pieces(b, e) = {front} \cup R
  BY <1>2 DEF Pieces
<1>4. ASSUME NEW d \in e .. b[1] - 1
      PROVE  d # b[1] /\ Right(b, d)[1] = d /\ Right(b, d) # front /\ Right(b, d) # Front(b, d)
  <2>1. b[1] \in Nat /\ d \in 0 .. b[1] - 1
    BY <1>1, BlockFacts
  <2>2. Right(b, d)[1] = d /\ Right(b, d)[2] = Front(b, d)[2] + 1
    BY DEF Right
  <2>3. Front(b, d)[2] \in Nat
    BY <1>1, <2>1, FrontFacts, BlockFacts
  <2>4. front[1] = e
    BY DEF Front
  <2>5. Front(b, d) = Right(b, d) => FALSE
    BY <2>2, <2>3
  <2>6. front = Right(b, d) => FALSE
    BY <2>2, <2>4, <2>5
  <2> QED
    BY <2>1, <2>2, <2>5, <2>6
<1>5. \A x \in R : \E d \in e .. b[1] - 1 : x = Right(b, d)
  BY RightHalvesAre
<1>6. b \notin R /\ front \notin R
  BY <1>4, <1>5
<1>7. G = (F \ {b}) \cup R
  BY <1>3, <1>6 DEF FreeIn
<1>8. ASSUME NEW c \in S, NEW x \in Pieces(b, e), NEW u \in Nat, Has(x, u), Has(c, u)
      PROVE  c = b
  BY <1>1, <1>2, <1>8, OneTile
<1>9. ASSUME NEW c \in S, c \in Pieces(b, e)
      PROVE  c = b
  <2>1. Has(c, Start(c)) /\ Start(c) \in Nat
    BY <1>1, FirstUnit
  <2> QED
    BY <1>8, <1>9, <2>1
<1>10. (h \cup {front}) \cup G = (S \ {b}) \cup Pieces(b, e)
  BY <1>1, <1>3, <1>7
<1>11. Tiles((h \cup {front}) \cup G)
  <2>1. Tiles((S \ {b}) \cup Pieces(b, e))
    BY <1>1, SplitTiles
  <2> QED
    BY <1>10, <2>1
<1>12. (h \cup {front}) \cap G = {}
  BY <1>1, <1>3, <1>6, <1>7, <1>9
<1>13. g \in [Blocks -> BOOLEAN]
  <2>1. \A x \in Blocks : (x \in R \/ (x # b /\ f[x])) \in BOOLEAN
    OBVIOUS
  <2> HIDE DEF R
  <2> QED
    BY <2>1 DEF R
<1>14. ASSUME NEW d \in e .. b[1] - 1, NEW c \in G, c # Right(b, d), Parent(c) = Parent(Right(b, d))
       PROVE  FALSE
  <2>1. b[1] \in Nat /\ d \in 0 .. b[1] - 1 /\ d \in 0 .. b[1] /\ d \in Nat
    BY <1>1, BlockFacts
  <2>2. Right(b, d) \in Blocks /\ c \in Blocks /\ Right(b, d)[1] = d
    BY <1>4, <2>1, RightFacts, <1>1 DEF FreeIn
  <2>3. c[1] = d /\ c[2] \div 2 = Right(b, d)[2] \div 2 /\ c[2] # Right(b, d)[2]
        /\ c = << c[1], c[2] >> /\ c[2] \in Nat /\ c[1] \in Nat
    <3>1. /\ c = << c[1], c[2] >> /\ Right(b, d) = << d, Right(b, d)[2] >>
          /\ c[1] \in Nat /\ c[2] \in Nat
      BY <2>2, BlockFacts
    <3>2. c[1] + 1 = d + 1 /\ c[2] \div 2 = Right(b, d)[2] \div 2
      BY <1>14, <2>2 DEF Parent
    <3> QED
      BY <1>14, <2>1, <3>1, <3>2
  <2>4. \E j \in Nat : Front(b, d)[2] = 2 * j
    <3>1. b[1] - d - 1 \in Nat /\ (b[1] - d - 1) + 1 = b[1] - d
      BY <2>1
    <3>2. Power[b[1] - d] = 2 * Power[b[1] - d - 1] /\ Power[b[1] - d - 1] \in Nat
      BY <3>1, PowerSteps
    <3>3. Front(b, d)[2] = b[2] * Power[b[1] - d] /\ b[2] \in Nat
      BY <1>1, BlockFacts DEF Front
    <3>4. Front(b, d)[2] = 2 * (b[2] * Power[b[1] - d - 1])
          /\ b[2] * Power[b[1] - d - 1] \in Nat
      BY <3>2, <3>3
    <3> QED
      BY <3>4
  <2>5. PICK j \in Nat : Front(b, d)[2] = 2 * j
    BY <2>4
  <2>6. Right(b, d)[2] = 2 * j + 1
    BY <2>5 DEF Right
  <2>7. c[2] = 2 * j
    BY <2>3, <2>6
  <2>8. c = Front(b, d)
    BY <2>3, <2>5, <2>7 DEF Front
  <2>9. Start(c) = Start(b) /\ Start(b) \in Nat /\ Has(b, Start(b)) /\ Has(c, Start(b))
    <3>1. Start(c) = Start(b)
      BY <1>1, <2>1, <2>8, FrontFacts
    <3> QED
      BY <1>1, <2>2, <3>1, FirstUnit
  <2>10. CASE c \in F
    <3>1. c = b
      BY <1>1, <2>9, <2>10, OneTile
    <3> QED
      BY <2>1, <2>3, <3>1
  <2>11. CASE c \in R
    <3>1. PICK k \in e .. b[1] - 1 : c = Right(b, k)
      BY <1>5, <2>11
    <3>2. k = d
      BY <1>4, <2>3, <3>1
    <3> QED
      BY <1>14, <3>1, <3>2
  <2> QED
    BY <1>7, <2>10, <2>11
<1>15. ASSUME NEW x \in G, NEW y \in G, x # y
       PROVE  Parent(x) # Parent(y)
  <2>1. CASE x \in R
    BY <1>5, <1>14, <1>15, <2>1
  <2>2. CASE y \in R
    BY <1>5, <1>14, <1>15, <2>2
  <2>3. CASE x \in F /\ y \in F
    BY <1>15, <2>3 DEF Consistent
  <2> QED
    BY <1>7, <2>1, <2>2, <2>3
<1>16. ASSUME NEW c \in h, NEW u \in Nat, Has(front, u), Has(c, u) PROVE FALSE
  BY <1>1, <1>3, <1>8, <1>16
<1>17. Consistent(g, h \cup {front})
  BY <1>11, <1>12, <1>13, <1>15 DEF Consistent
<1> QED
  BY <1>16, <1>17

\* What a release does: the block held becomes free with the buddies taken.
LEMMA MergeIsConsistent ==
    ASSUME NEW f, NEW h, Consistent(f, h), NEW b \in h, NEW top \in b[1] .. MaxUsedExponent,
           Taken(b, top) \subseteq FreeIn(f),
           top < MaxUsedExponent => Buddy(Enclosing(b, top)) \notin FreeIn(f),
           NEW g, g = [x \in Blocks |-> x = Enclosing(b, top)
                                        \/ (x \notin Taken(b, top) /\ f[x])]
    PROVE  Consistent(g, h \ {b})
<1> DEFINE F == FreeIn(f)
           G == FreeIn(g)
           K == Taken(b, top)
           c == Enclosing(b, top)
           S == h \cup F
<1>1. /\ b \in S /\ b \notin F /\ Tiles(S) /\ S \subseteq Blocks /\ h \cap F = {} /\ K \subseteq S
  BY DEF Consistent, Tiles
<1>2. Tiles((S \ ({b} \cup K)) \cup {c}) /\ c \in Blocks /\ (c \in S => c = b)
  BY <1>1, MergeTiles
<1>3. G = (F \ K) \cup {c}
  BY <1>2 DEF FreeIn
<1>4. (h \ {b}) \cup G = (S \ ({b} \cup K)) \cup {c}
  BY <1>1, <1>3
<1>5. (h \ {b}) \cap G = {}
  BY <1>1, <1>2, <1>3
<1>6. g \in [Blocks -> BOOLEAN]
  <2>1. \A x \in Blocks : (x = c \/ (x \notin K /\ f[x])) \in BOOLEAN
    OBVIOUS
  <2> HIDE DEF K, c
  <2> QED
    BY <2>1 DEF K, c
<1>7. ASSUME NEW x \in F, x # c
      PROVE  Parent(x) # Parent(c)
  <2> SUFFICES ASSUME Parent(x) = Parent(c) PROVE FALSE
    OBVIOUS
  <2>1. x \in Blocks
    BY <1>1
  <2> HIDE DEF c
  <2>2. c[1] < MaxUsedExponent /\ x = Buddy(c)
    BY <1>2, <1>7, <2>1, Siblings
  <2>3. c[1] = top
    BY DEF c, Enclosing
  <2> QED
    BY <1>7, <2>2, <2>3 DEF c
<1>8. ASSUME NEW x \in G, NEW y \in G, x # y
      PROVE  Parent(x) # Parent(y)
  <2> HIDE DEF c, K
  <2>1. CASE x = c
    BY <1>3, <1>7, <1>8, <2>1
  <2>2. CASE y = c
    BY <1>3, <1>7, <1>8, <2>2
  <2>3. CASE x \in F /\ y \in F
    BY <1>8, <2>3 DEF Consistent
  <2> QED
    BY <1>3, <2>1, <2>2, <2>3
<1>9. Tiles((h \ {b}) \cup G)
  BY <1>2, <1>4
<1> QED
  BY <1>5, <1>6, <1>8, <1>9 DEF Consistent

LEMMA StepIsConsistent == BuddyInv /\ [Next]_vars => BuddyInv'
<1> SUFFICES ASSUME BuddyInv, [Next]_vars PROVE BuddyInv'
  OBVIOUS
<1>1. Consistent(isBlockFree, held) /\ FreeBlocks = FreeIn(isBlockFree)
  BY DEF BuddyInv, FreeBlocks, FreeIn
<1>2. ASSUME NEW bytes \in ByteSizes, Allocate(bytes)
      PROVE  BuddyInv'
  <2> DEFINE e == ExponentForBytes(bytes)
  <2>1. PICK b \in FreeBlocks :
           /\ IsFound(b, e)
           /\ isBlockFree' = [x \in Blocks |-> x \in RightHalves(b, e)
                                               \/ (x # b /\ isBlockFree[x])]
           /\ got' = Front(b, e)
           /\ held' = held \cup {got'}
    BY <1>2 DEF Allocate
  <2>2. e \in Nat
    BY ExponentIsNat
  <2>3. b \in FreeIn(isBlockFree) /\ b \in Blocks
    BY <1>1 DEF FreeIn
  <2>4. e \in 0 .. b[1]
    BY <2>1, <2>2, <2>3, BlockFacts DEF IsFound
  <2> HIDE DEF e
  <2>5. PICK g : g = isBlockFree'
    OBVIOUS
  <2>6. Consistent(g, held \cup {Front(b, e)})
    BY <1>1, <2>1, <2>3, <2>4, <2>5, SplitIsConsistent
  <2>7. held' = held \cup {Front(b, e)}
    BY <2>1
  <2> QED
    BY <2>5, <2>6, <2>7, ConsistentNext
<1>3. ASSUME NEW b \in held, Deallocate(b)
      PROVE  BuddyInv'
  <2>1. PICK top \in b[1] .. MaxUsedExponent : Merges(b, top)
    BY <1>3 DEF Deallocate
  <2>2. /\ Taken(b, top) \subseteq FreeIn(isBlockFree)
        /\ top < MaxUsedExponent => Buddy(Enclosing(b, top)) \notin FreeIn(isBlockFree)
        /\ isBlockFree' = [x \in Blocks |-> x = Enclosing(b, top)
                                            \/ (x \notin Taken(b, top) /\ isBlockFree[x])]
    BY <1>1, <2>1 DEF Merges, Taken
  <2>3. PICK g : g = isBlockFree'
    OBVIOUS
  <2>4. Consistent(g, held \ {b})
    BY <1>1, <2>2, <2>3, MergeIsConsistent
  <2>5. held' = held \ {b}
    BY <1>3 DEF Deallocate
  <2> QED
    BY <2>3, <2>4, <2>5, ConsistentNext
<1>4. CASE UNCHANGED << isBlockFree, held >>
  BY <1>1, <1>4, ConsistentNext
<1> QED
  BY <1>2, <1>3, <1>4 DEF Next, vars, AllocateFails

LEMMA AlwaysConsistent == Spec => []BuddyInv
BY InitIsConsistent, StepIsConsistent, PTL DEF Spec

-----------------------------------------------------------------------------
(* The theorems about the blocks                                           *)

LEMMA SamePower == Store!Power = Power
BY DEF Store!Power, Power

LEMMA UnitsOfBlock ==
    ASSUME NEW b \in Blocks, NEW u
    PROVE  u \in Store!Units(b) <=> u \in Nat /\ Has(b, u)
<1>1. b[2] \in Nat /\ Power[b[1]] \in Nat \ {0} /\ Start(b) \in Nat
  BY BlockFacts, UnitsInMemory
<1>2. (b[2] + 1) * Power[b[1]] = Start(b) + Power[b[1]]
  BY <1>1 DEF Start
<1>3. Store!Units(b) = Start(b) .. Start(b) + Power[b[1]] - 1
  <2>1. Store!Units(b) = b[2] * Power[b[1]] .. (b[2] + 1) * Power[b[1]] - 1
    BY SamePower, Zenon DEF Store!Units
  <2>2. /\ b[2] * Power[b[1]] = Start(b)
        /\ (b[2] + 1) * Power[b[1]] - 1 = Start(b) + Power[b[1]] - 1
    BY <1>1, <1>2 DEF Start
  <2> QED
    BY <2>1, <2>2, Zenon
<1>4. u \in Start(b) .. Start(b) + Power[b[1]] - 1 <=> u \in Nat /\ Has(b, u)
  BY <1>1 DEF Has
<1> QED
  BY <1>3, <1>4

\* Each unit of the memory is in exactly one block that is free or held
\* (BuddyAllocator.cpp:23-56).
THEOREM UnitsHaveOneBlock == Spec => []EachUnitInOneBlock
<1>1. BuddyInv => EachUnitInOneBlock
  <2> SUFFICES ASSUME BuddyInv PROVE EachUnitInOneBlock
    OBVIOUS
  <2> DEFINE S == held \cup FreeBlocks
  <2>1. FreeBlocks = FreeIn(isBlockFree)
    BY DEF FreeBlocks, FreeIn
  <2>2. Tiles(S) /\ held \cap FreeBlocks = {}
    BY <2>1 DEF BuddyInv, Consistent
  <2>3. ASSUME NEW u \in 0 .. Power[MaxUsedExponent] - 1
        PROVE  Cardinality({b \in S : u \in Store!Units(b)}) = 1
    <3>1. u \in Nat
      BY MaxExponent, PowerSteps
    <3>2. PICK b \in S : Has(b, u)
      BY <2>2 DEF Tiles
    <3>3. \A c \in S : u \in Store!Units(c) <=> Has(c, u)
      <4>1. S \subseteq Blocks
        BY <2>2 DEF Tiles
      <4> HIDE DEF S
      <4> QED
        BY <3>1, <4>1, UnitsOfBlock
    <3>4. \A c \in S : Has(c, u) => c = b
      <4> HIDE DEF S
      <4> QED
        BY <2>2, <3>1, <3>2, OneTile
    <3> HIDE DEF S
    <3>5. {c \in S : u \in Store!Units(c)} = {b}
      BY <3>2, <3>3, <3>4
    <3> QED
      BY <3>5, FS_Singleton
  <2> QED
    BY <2>2, <2>3 DEF EachUnitInOneBlock
<1> QED
  BY <1>1, AlwaysConsistent, PTL

\* Free buddies are merged, whatever the order of the releases
\* (BuddyAllocator.cpp:45-55).
THEOREM BuddiesNeverStayApart == Spec => []FreeBuddiesAreMerged
<1>1. BuddyInv => FreeBuddiesAreMerged
  BY DEF BuddyInv, Consistent, FreeBuddiesAreMerged, FreeBlocks, FreeIn, Parent
<1> QED
  BY <1>1, AlwaysConsistent, PTL

\* Every block handed out lies between the start of the heap and the memory
\* of mem_alloc (MemoryAllocationHelperFunctions.cpp:6-50).
THEOREM BlocksStayInside == Spec => []BlocksStayInTheirRegion
<1>1. BuddyInv => BlocksStayInTheirRegion
  <2> SUFFICES ASSUME BuddyInv, NEW b \in held
               PROVE  /\ BlockAddress(b) >= HEAP_START_ADDR
                      /\ BlockAddress(b) + Power[b[1]] * BLOCK_SIZE <= FirstFitAddress
    BY DEF BlocksStayInTheirRegion
  <2> DEFINE p == Power[b[1]]
             end == b[2] * p + p
  <2>1. b \in Blocks
    BY DEF BuddyInv, Consistent, Tiles
  <2>2. /\ b[2] \in Nat /\ p \in Nat \ {0} /\ b[2] * p \in Nat
        /\ end <= UsedBlocks /\ UsedBlocks \in Nat
    BY <2>1, BlockFacts, UnitsInMemory, MaxExponent, PowerSteps DEF Start
  <2>3. /\ HEAP_START_ADDR <= FirstBuddyAddress
        /\ FirstBuddyAddress + UsedBlocks * BLOCK_SIZE <= FirstFitAddress
    BY RegionsAreApart, BuddyAssumption DEF UsedBytes
  <2>4. /\ HEAP_START_ADDR \in Nat /\ FirstBuddyAddress \in Nat /\ FirstFitAddress \in Nat
        /\ BLOCK_SIZE \in Nat \ {0}
    BY HeapAddresses, BuddyAssumption, HeapAssumption
  <2>5. BlockAddress(b) = FirstBuddyAddress + b[2] * (BLOCK_SIZE * p)
    BY DEF BlockAddress
  <2> HIDE DEF p
  <2>6. b[2] * (BLOCK_SIZE * p) = (b[2] * p) * BLOCK_SIZE
    BY <2>2, <2>4
  <2>7. end * BLOCK_SIZE = (b[2] * p) * BLOCK_SIZE + p * BLOCK_SIZE
    BY <2>2, <2>4
  <2>8. end * BLOCK_SIZE <= UsedBlocks * BLOCK_SIZE
    <3>1. end \in Nat
      BY <2>2
    <3> HIDE DEF end
    <3> QED
      BY <2>2, <2>4, <3>1, Multiples
  <2>9. (b[2] * p) * BLOCK_SIZE \in Nat /\ p * BLOCK_SIZE \in Nat /\ UsedBlocks * BLOCK_SIZE \in Nat
    BY <2>2, <2>4
  <2> HIDE DEF end
  <2>10. /\ BlockAddress(b) >= HEAP_START_ADDR
         /\ BlockAddress(b) + p * BLOCK_SIZE <= FirstFitAddress
    BY <2>3, <2>4, <2>5, <2>6, <2>7, <2>8, <2>9
  <2> QED
    BY <2>10 DEF p
<1> QED
  BY <1>1, AlwaysConsistent, PTL

-----------------------------------------------------------------------------
(* The refinement of BlockStore                                            *)

LEMMA BlocksOfSizeAre ==
    ASSUME NEW e \in Nat, NEW b
    PROVE  b \in Store!BlocksOfSize(e) <=> b \in Blocks /\ b[1] = e
<1>1. ASSUME b \in Blocks, b[1] = e
      PROVE  b \in Store!BlocksOfSize(e)
  <2>1. /\ b = << e, b[2] >> /\ e <= MaxUsedExponent /\ b[2] \in Nat
        /\ b[2] < Power[MaxUsedExponent - e] /\ MaxUsedExponent - e \in Nat
    BY <1>1, BlockFacts
  <2>2. b[2] \in 0 .. Power[MaxUsedExponent - e] - 1 /\ ~ (e > MaxUsedExponent)
    BY <2>1, MaxExponent, PowerSteps
  <2>3. b \in {e} \X (0 .. Power[MaxUsedExponent - e] - 1)
    BY <2>1, <2>2
  <2> QED
    BY <2>2, <2>3, SamePower DEF Store!BlocksOfSize
<1>2. ASSUME b \in Store!BlocksOfSize(e)
      PROVE  b \in Blocks /\ b[1] = e
  <2>1. e \in 0 .. MaxUsedExponent /\ b \in {e} \X (0 .. Power[MaxUsedExponent - e] - 1)
    BY <1>2, MaxExponent, SamePower DEF Store!BlocksOfSize
  <2> QED
    BY <2>1 DEF Blocks
<1> QED
  BY <1>1, <1>2

\* Two blocks of one size that share a unit are the same.
LEMMA SameSize ==
    ASSUME NEW b \in Blocks, NEW c \in Blocks, b[1] = c[1],
           NEW u \in Nat, Has(b, u), Has(c, u)
    PROVE  b = c
<1>1. /\ b = << b[1], b[2] >> /\ c = << c[1], c[2] >> /\ b[1] \in Nat
      /\ b[2] \in Nat /\ c[2] \in Nat /\ Power[b[1]] \in Nat \ {0}
  BY BlockFacts, PowerSteps
<1>2. Start(b) <= Start(c) /\ Start(c) <= Start(b)
  BY <1>1, Nested
<1>3. Start(b) = b[2] * Power[b[1]] /\ Start(c) = c[2] * Power[b[1]]
      /\ Start(b) \in Nat /\ Start(c) \in Nat
  BY UnitsInMemory DEF Start
<1>4. b[2] * Power[b[1]] = c[2] * Power[b[1]]
  BY <1>2, <1>3
<1>5. (b[2] + 1) * Power[b[1]] = b[2] * Power[b[1]] + Power[b[1]]
      /\ (c[2] + 1) * Power[b[1]] = c[2] * Power[b[1]] + Power[b[1]]
  BY <1>1
<1>6. b[2] * Power[b[1]] < (c[2] + 1) * Power[b[1]] /\ c[2] * Power[b[1]] < (b[2] + 1) * Power[b[1]]
  BY <1>1, <1>3, <1>4, <1>5
<1>7. b[2] < c[2] + 1 /\ c[2] < b[2] + 1
  <2>1. b[2] + 1 \in Nat /\ c[2] + 1 \in Nat
    BY <1>1
  <2> QED
    BY <1>1, <1>6, <2>1, Multiples
<1> QED
  BY <1>1, <1>7

LEMMA ParentOfBuddy ==
    ASSUME NEW b \in Blocks
    PROVE  Parent(Buddy(b)) = Parent(b)
<1>1. b[2] \in Nat
  BY BlockFacts
<1>2. Buddy(b)[1] = b[1] /\ Buddy(b)[2] = IF b[2] % 2 = 0 THEN b[2] + 1 ELSE b[2] - 1
  BY DEF Buddy
<1>3. Buddy(b)[2] \div 2 = b[2] \div 2
  <2>1. CASE b[2] % 2 = 0
    BY <1>1, <1>2, <2>1
  <2>2. CASE b[2] % 2 # 0
    BY <1>1, <1>2, <2>2
  <2> QED
    BY <2>1, <2>2
<1> QED
  BY <1>2, <1>3 DEF Parent

\* When no block of exponent e or more is free, every block of exponent e
\* overlaps one held.  Otherwise it would consist of free blocks, and the
\* buddy of the smallest of them would be free, too.
LEMMA NothingFits ==
    ASSUME NEW f, NEW h, Consistent(f, h), NEW e \in Nat, \A x \in FreeIn(f) : x[1] < e,
           NEW c \in Blocks, c[1] = e
    PROVE  \E x \in h, u \in Nat : Has(x, u) /\ Has(c, u)
<1> SUFFICES ASSUME \A x \in h, u \in Nat : ~ (Has(x, u) /\ Has(c, u))
             PROVE  FALSE
  OBVIOUS
<1> DEFINE F == FreeIn(f)
           S == h \cup F
           inside == {x \in F : \E u \in Nat : Has(x, u) /\ Has(c, u)}
           sizes == {x[1] : x \in inside}
<1>1. Tiles(S) /\ S \subseteq Blocks /\ F \subseteq Blocks
  BY DEF Consistent, Tiles, FreeIn
<1>2. ASSUME NEW u \in Nat, Has(c, u)
      PROVE  \E x \in inside : Has(x, u)
  <2>1. u \in 0 .. Power[MaxUsedExponent] - 1
    <3>1. /\ u < Start(c) + Power[c[1]] /\ Start(c) + Power[c[1]] <= Power[MaxUsedExponent]
          /\ Start(c) + Power[c[1]] \in Nat /\ Power[MaxUsedExponent] \in Nat
      BY <1>2, UnitsInMemory, MaxExponent, PowerSteps DEF Has
    <3> QED
      BY <3>1
  <2>2. PICK x \in S : Has(x, u)
    BY <1>1, <2>1 DEF Tiles
  <2>3. x \notin h
    BY <1>2, <2>2
  <2> QED
    BY <1>2, <2>2, <2>3
<1>3. sizes \in SUBSET Nat /\ sizes # {}
  <2>1. sizes \subseteq Nat
    BY <1>1, BlockFacts
  <2>2. inside # {}
    BY <1>2, FirstUnit
  <2> QED
    BY <2>1, <2>2
<1>4. PICK m \in sizes : \A n \in sizes : m <= n
  <2> HIDE DEF sizes
  <2> QED
    BY <1>3, LeastNumber
<1>5. PICK x \in inside : x[1] = m
  BY <1>4
<1>6. /\ x \in F /\ x \in S /\ x \in Blocks /\ m \in Nat /\ m < e /\ e <= MaxUsedExponent
      /\ m < MaxUsedExponent /\ MaxUsedExponent \in Nat
  <2>1. e <= MaxUsedExponent /\ MaxUsedExponent \in Nat
    BY BlockFacts, MaxExponent
  <2>2. x \in F /\ x \in S /\ x \in Blocks /\ m \in Nat /\ m < e
    BY <1>1, <1>3, <1>5
  <2> QED
    BY <2>1, <2>2
<1> DEFINE y == Buddy(x)
           z == Parent(x)
<1>7. /\ y \in Blocks /\ y[1] = m /\ y # x /\ z \in Blocks /\ z[1] = m + 1
      /\ \A u \in Nat : Has(z, u) <=> Has(x, u) \/ Has(y, u)
  <2>1. z[1] = m + 1
    BY <1>5 DEF Parent
  <2> QED
    BY <1>5, <1>6, <2>1, BuddyFacts
<1>8. Parent(y) = z
  BY <1>6, ParentOfBuddy
<1> HIDE DEF y, z
<1>9. \A u \in Nat : Has(z, u) => Has(c, u)
  <2>1. PICK u \in Nat : Has(x, u) /\ Has(c, u)
    BY <1>5
  <2>2. z[1] <= c[1]
    BY <1>6, <1>7
  <2>3. Has(z, u)
    BY <1>7, <2>1
  <2>4. Start(c) <= Start(z) /\ Start(z) + Power[z[1]] <= Start(c) + Power[c[1]]
    BY <1>7, <2>1, <2>2, <2>3, Nested
  <2>5. {Start(c), Start(z), Power[z[1]], Power[c[1]]} \subseteq Nat
    BY <1>7, UnitsInMemory
  <2> QED
    BY <2>4, <2>5 DEF Has
<1>10. Start(y) \in Nat /\ Has(y, Start(y)) /\ Has(z, Start(y)) /\ Has(c, Start(y))
  BY <1>7, <1>9, FirstUnit
<1>11. PICK t \in inside : Has(t, Start(y))
  BY <1>2, <1>10
<1>12. t \in F /\ t \in S /\ t \in Blocks /\ t[1] \in Nat /\ m <= t[1]
  <2>1. t \in Blocks /\ t[1] \in sizes
    BY <1>1
  <2> QED
    BY <1>1, <1>4, <2>1, BlockFacts
<1>13. CASE t[1] = m
  <2>1. t = y
    BY <1>7, <1>10, <1>11, <1>12, <1>13, SameSize
  <2> QED
    BY <1>6, <1>7, <1>8, <1>12, <2>1 DEF Consistent, z
<1>14. CASE t[1] # m
  <2>1. z[1] <= t[1]
    BY <1>6, <1>7, <1>12, <1>14
  <2>2. Start(t) <= Start(z) /\ Start(z) + Power[z[1]] <= Start(t) + Power[t[1]]
    BY <1>7, <1>10, <1>11, <1>12, <2>1, Nested
  <2>3. {Start(t), Start(z), Power[z[1]], Power[t[1]]} \subseteq Nat
    BY <1>7, <1>12, UnitsInMemory
  <2>4. Start(x) \in Nat /\ Has(x, Start(x)) /\ Has(z, Start(x))
    BY <1>6, <1>7, FirstUnit
  <2>5. Has(t, Start(x))
    BY <2>2, <2>3, <2>4 DEF Has
  <2>6. t = x
    BY <1>1, <1>6, <1>12, <2>4, <2>5, OneTile
  <2> QED
    BY <1>5, <1>14, <2>6
<1> QED
  BY <1>13, <1>14

\* A step of the allocator is one of the store.
LEMMA StepRefines == BuddyInv /\ [Next]_vars => [Store!Next]_(Store!vars)
<1> SUFFICES ASSUME BuddyInv, [Next]_vars PROVE [Store!Next]_(Store!vars)
  OBVIOUS
<1>1. /\ Consistent(isBlockFree, held) /\ FreeBlocks = FreeIn(isBlockFree)
      /\ held \subseteq Blocks /\ FreeBlocks \subseteq Blocks
  BY DEF BuddyInv, FreeBlocks, FreeIn, Consistent, Tiles
<1>2. ASSUME NEW bytes \in ByteSizes, Allocate(bytes)
      PROVE  Store!Next
  <2> DEFINE e == ExponentForBytes(bytes)
  <2>1. PICK b \in FreeBlocks :
           /\ IsFound(b, e) /\ got' = Front(b, e) /\ held' = held \cup {got'} /\ request' = e
    BY <1>2 DEF Allocate
  <2>2. e \in Nat
    BY ExponentIsNat
  <2>3. e \in {ExponentForBytes(n) : n \in ByteSizes}
    OBVIOUS
  <2> HIDE DEF e
  <2>4. b \in Blocks /\ e \in 0 .. b[1]
    <3>1. b \in Blocks /\ b[1] \in Nat /\ b[1] >= e
      BY <1>1, <2>1, BlockFacts DEF IsFound
    <3> QED
      BY <2>2, <3>1
  <2>5. Front(b, e) \in Blocks /\ Front(b, e)[1] = e
    BY <2>4, FrontFacts
  <2>6. \A c \in held, u \in Nat : ~ (Has(Front(b, e), u) /\ Has(c, u))
    <3>1. PICK g : g = [x \in Blocks |-> x \in RightHalves(b, e) \/ (x # b /\ isBlockFree[x])]
      OBVIOUS
    <3> QED
      BY <1>1, <2>4, <3>1, SplitIsConsistent
  <2>7. Front(b, e) \in Store!BlocksOfSize(e)
    BY <2>2, <2>5, BlocksOfSizeAre
  <2>8. \A c \in held : Store!Units(Front(b, e)) \cap Store!Units(c) = {}
    BY <1>1, <2>5, <2>6, UnitsOfBlock
  <2>9. got' \in Store!Unused(e)
    BY <2>1, <2>7, <2>8 DEF Store!Unused
  <2>10. Store!Grant(e)
    BY <2>1, <2>9 DEF Store!Grant
  <2> QED
    BY <2>3, <2>10 DEF Store!Next
<1>3. ASSUME NEW bytes \in ByteSizes, AllocateFails(bytes)
      PROVE  Store!Next
  <2> DEFINE e == ExponentForBytes(bytes)
  <2>1. got' = << >> /\ held' = held
    BY <1>3 DEF AllocateFails
  <2>2. CASE bytes = 0
    BY <1>3, <2>1, <2>2 DEF AllocateFails, Store!Next, Store!Nothing
  <2>3. CASE bytes # 0
    <3>1. (\A x \in FreeBlocks : x[1] < e) /\ request' = e
      BY <1>3, <2>3 DEF AllocateFails
    <3>2. e \in Nat
      BY ExponentIsNat
    <3>3. e \in {ExponentForBytes(n) : n \in ByteSizes}
      OBVIOUS
    <3> HIDE DEF e
    <3>4. ASSUME NEW c \in Store!Unused(e) PROVE FALSE
      <4>1. c \in Blocks /\ c[1] = e
        BY <3>2, BlocksOfSizeAre DEF Store!Unused
      <4>2. PICK x \in held, u \in Nat : Has(x, u) /\ Has(c, u)
        BY <1>1, <3>1, <3>2, <4>1, NothingFits
      <4>3. u \in Store!Units(c) /\ u \in Store!Units(x)
        BY <1>1, <4>1, <4>2, UnitsOfBlock
      <4> QED
        BY <4>3 DEF Store!Unused
    <3>5. Store!Refuse(e)
      BY <2>1, <3>1, <3>4 DEF Store!Refuse
    <3> QED
      BY <3>3, <3>5 DEF Store!Next
  <2> QED
    BY <2>2, <2>3
<1>4. ASSUME NEW b \in held, Deallocate(b)
      PROVE  Store!Next
  BY <1>4 DEF Deallocate, Store!Next, Store!Return
<1>5. CASE UNCHANGED vars
  BY <1>5 DEF vars, Store!vars
<1> QED
  BY <1>2, <1>3, <1>4, <1>5 DEF Next

\* Every behaviour of the allocator is one of BlockStore: a block whenever
\* some aligned block of the size is unused, and never an overlapping one
\* (BuddyAllocator.cpp:23-56).
THEOREM BuddyIsABlockStore == Spec => ImplementsBlockStore
<1>1. Init => Store!Init
  BY DEF Init, Store!Init
<1> QED
  BY <1>1, StepRefines, AlwaysConsistent, PTL DEF Spec, ImplementsBlockStore, Store!Spec

-----------------------------------------------------------------------------
(* The bytes in a set of blocks                                            *)

UnitsIn(S) == {u \in 0 .. Power[MaxUsedExponent] - 1 : \E b \in S : Has(b, u)}

LEMMA BlocksAreFinite == IsFiniteSet(Blocks)
<1> DEFINE P == (0 .. MaxUsedExponent) \X (0 .. Power[MaxUsedExponent])
<1>1. IsFiniteSet(P)
  <2>1. /\ 0 \in Int /\ MaxUsedExponent \in Int
        /\ Power[MaxUsedExponent] \in Int
    BY MaxExponent, PowerSteps
  <2>2. IsFiniteSet(0 .. MaxUsedExponent)
    BY <2>1, FS_Interval
  <2>3. IsFiniteSet(0 .. Power[MaxUsedExponent])
    BY <2>1, FS_Interval
  <2> QED
    BY <2>2, <2>3, FS_Product
<1>2. ASSUME NEW b \in Blocks PROVE b \in P
  <2>1. /\ b = << b[1], b[2] >> /\ b[1] \in 0 .. MaxUsedExponent /\ b[2] \in Nat
        /\ b[2] < Power[MaxUsedExponent - b[1]] /\ MaxUsedExponent - b[1] \in Nat
        /\ MaxUsedExponent - b[1] <= MaxUsedExponent
    BY BlockFacts, MaxExponent
  <2>2. Power[MaxUsedExponent - b[1]] <= Power[MaxUsedExponent]
        /\ Power[MaxUsedExponent - b[1]] \in Nat /\ Power[MaxUsedExponent] \in Nat
    BY <2>1, MaxExponent, PowerGrows, PowerSteps
  <2>3. b[2] \in 0 .. Power[MaxUsedExponent]
    BY <2>1, <2>2
  <2> QED
    BY <2>1, <2>3
<1>3. Blocks \subseteq P
  BY <1>2
<1> QED
  BY <1>1, <1>3, FS_Subset

LEMMA UnitsAreFinite ==
    ASSUME NEW S
    PROVE  IsFiniteSet(UnitsIn(S)) /\ Cardinality(UnitsIn(S)) \in Nat
<1>1. IsFiniteSet(0 .. Power[MaxUsedExponent] - 1)
  BY MaxExponent, PowerSteps, FS_Interval
<1>2. UnitsIn(S) \subseteq 0 .. Power[MaxUsedExponent] - 1
  BY DEF UnitsIn
<1>3. IsFiniteSet(UnitsIn(S))
  BY <1>1, <1>2, FS_Subset
<1> QED
  BY <1>3, FS_CardinalityType

\* Blocks apart have their units apart.
LEMMA UnitsAddUp ==
    ASSUME NEW S, NEW T,
           \A b \in S, c \in T, u \in Nat : ~ (Has(b, u) /\ Has(c, u))
    PROVE  Cardinality(UnitsIn(S \cup T)) = Cardinality(UnitsIn(S)) + Cardinality(UnitsIn(T))
<1>1. UnitsIn(S \cup T) = UnitsIn(S) \cup UnitsIn(T)
  BY DEF UnitsIn
<1>2. UnitsIn(S) \cap UnitsIn(T) = {}
  <2>1. 0 .. Power[MaxUsedExponent] - 1 \subseteq Nat
    BY MaxExponent, PowerSteps
  <2> QED
    BY <2>1 DEF UnitsIn
<1>3. /\ IsFiniteSet(UnitsIn(S)) /\ IsFiniteSet(UnitsIn(T))
      /\ Cardinality(UnitsIn(S)) \in Nat /\ Cardinality(UnitsIn(T)) \in Nat
  BY UnitsAreFinite
<1>4. Cardinality(UnitsIn(S) \cap UnitsIn(T)) = 0
  BY <1>2, FS_EmptySet
<1>5. Cardinality(UnitsIn(S) \cup UnitsIn(T))
         = Cardinality(UnitsIn(S)) + Cardinality(UnitsIn(T))
             - Cardinality(UnitsIn(S) \cap UnitsIn(T))
  BY <1>3, FS_Union
<1>6. PICK m, n : m = Cardinality(UnitsIn(S)) /\ n = Cardinality(UnitsIn(T))
  OBVIOUS
<1>7. m \in Nat /\ n \in Nat
  BY <1>3, <1>6
<1>8. m + n - 0 = m + n
  BY <1>7
<1> QED
  BY <1>1, <1>4, <1>5, <1>6, <1>8

LEMMA UnitsOfOne ==
    ASSUME NEW b \in Blocks
    PROVE  Cardinality(UnitsIn({b})) = Power[b[1]]
<1> DEFINE a == Start(b)
           p == Power[b[1]]
<1>1. a \in Nat /\ p \in Nat \ {0} /\ a + p <= Power[MaxUsedExponent]
      /\ Power[MaxUsedExponent] \in Nat
  BY UnitsInMemory, MaxExponent, PowerSteps
<1>2. UnitsIn({b}) = {u \in 0 .. Power[MaxUsedExponent] - 1 : a <= u /\ u < a + p}
  BY DEF UnitsIn, Has
<1> HIDE DEF a, p
<1>3. UnitsIn({b}) = a .. (a + p) - 1
  <2> DEFINE m == Power[MaxUsedExponent]
  <2>1. UnitsIn({b}) = {u \in 0 .. m - 1 : a <= u /\ u < a + p} /\ m \in Nat /\ a + p <= m
    BY <1>1, <1>2
  <2> HIDE DEF m
  <2>2. ASSUME NEW u
        PROVE  (u \in 0 .. m - 1 /\ a <= u /\ u < a + p) <=> u \in a .. (a + p) - 1
    BY <1>1, <2>1
  <2> QED
    BY <2>1, <2>2
<1>4. Cardinality(a .. (a + p) - 1) = p
  <2>1. a \in Int /\ (a + p) - 1 \in Int /\ ~ (a > (a + p) - 1) /\ ((a + p) - 1) - a + 1 = p
    BY <1>1
  <2> QED
    BY <2>1, FS_Interval
<1> QED
  BY <1>3, <1>4 DEF p

\* The function MapThenSumSet uses, and what it computes: the blocks that are
\* apart count as many bytes as their units.
LEMMA BytesAreUnits ==
    ASSUME NEW S \in SUBSET Blocks,
           \A b, c \in S : \A u \in Nat : Has(b, u) /\ Has(c, u) => b = c
    PROVE  BytesIn(S) = Cardinality(UnitsIn(S)) * BLOCK_SIZE
<1> DEFINE pick(s) == CHOOSE x \in s : TRUE
           isSum(h) == h = [s \in SUBSET S |-> IF s = {} THEN 0
                               ELSE Power[pick(s)[1]] * BLOCK_SIZE + h[s \ {pick(s)}]]
           g == [s \in SUBSET S |-> Cardinality(UnitsIn(s)) * BLOCK_SIZE]
<1>1. ASSUME NEW s \in SUBSET S
      PROVE  g[s] = IF s = {} THEN 0
                    ELSE Power[pick(s)[1]] * BLOCK_SIZE + g[s \ {pick(s)}]
  <2>1. CASE s = {}
    <3>1. UnitsIn({}) = {}
      BY DEF UnitsIn
    <3>2. Cardinality({}) = 0 /\ BLOCK_SIZE \in Nat
      BY FS_EmptySet, HeapAssumption
    <3> QED
      BY <2>1, <3>1, <3>2
  <2>2. CASE s # {}
    <3> DEFINE x == pick(s)
    <3>1. x \in s
      BY <2>2
    <3> HIDE DEF x
    <3>2. x \in Blocks /\ s \ {x} \in SUBSET S /\ s = {x} \cup (s \ {x})
      BY <3>1
    <3>3. \A b \in {x}, c \in s \ {x}, u \in Nat : ~ (Has(b, u) /\ Has(c, u))
      BY <3>1
    <3>4. Cardinality(UnitsIn({x} \cup (s \ {x})))
             = Cardinality(UnitsIn({x})) + Cardinality(UnitsIn(s \ {x}))
      BY <3>3, UnitsAddUp
    <3>5. Cardinality(UnitsIn(s)) = Power[x[1]] + Cardinality(UnitsIn(s \ {x}))
      BY <3>2, <3>4, UnitsOfOne
    <3>6. /\ Cardinality(UnitsIn(s \ {x})) \in Nat /\ Power[x[1]] \in Nat /\ BLOCK_SIZE \in Nat
      BY <3>2, UnitsAreFinite, UnitsInMemory, HeapAssumption
    <3>7. g[s] = Cardinality(UnitsIn(s)) * BLOCK_SIZE
          /\ g[s \ {x}] = Cardinality(UnitsIn(s \ {x})) * BLOCK_SIZE
      BY <3>2
    <3>8. g[s] = Power[x[1]] * BLOCK_SIZE + g[s \ {x}]
      <4> HIDE DEF g
      <4> QED
        BY <3>5, <3>6, <3>7
    <3> QED
      BY <2>2, <3>8 DEF x
  <2> QED
    BY <2>1, <2>2
<1>2. isSum(g)
  <2>1. g = [s \in SUBSET S |-> g[s]]
    OBVIOUS
  <2> HIDE DEF g, pick
  <2> QED
    BY <1>1, <2>1
<1>3. PICK h : h = CHOOSE f : isSum(f)
  OBVIOUS
<1>4. isSum(h)
  <2> HIDE DEF isSum, g
  <2> QED
    BY <1>2, <1>3
<1>5. BytesIn(S) = h[S]
  BY <1>3, Zenon DEF BytesIn, MapThenSumSet, MapThenFoldSet
<1>6. IsFiniteSet(S) /\ \A s \in SUBSET S : IsFiniteSet(s) /\ Cardinality(s) \in Nat
  <2>1. \A s \in SUBSET S : s \subseteq Blocks
    OBVIOUS
  <2> QED
    BY <2>1, BlocksAreFinite, FS_Subset, FS_CardinalityType
<1> DEFINE T == {k \in 0 .. Cardinality(S) : \A s \in SUBSET S : Cardinality(s) = k => h[s] = g[s]}
<1>7. 0 \in T
  <2>1. ASSUME NEW s \in SUBSET S, Cardinality(s) = 0 PROVE h[s] = g[s]
    <3>1. s = {}
      BY <1>6, <2>1, FS_EmptySet
    <3>2. h[s] = 0
      BY <1>4, <3>1
    <3>3. g[s] = 0
      BY <1>1, <3>1
    <3> QED
      BY <3>2, <3>3
  <2>2. 0 \in 0 .. Cardinality(S)
    BY <1>6
  <2> QED
    BY <2>1, <2>2
<1>8. ASSUME NEW k \in 0 .. Cardinality(S) - 1, k \in T PROVE k + 1 \in T
  <2>1. k \in Nat /\ k + 1 \in 0 .. Cardinality(S)
    BY <1>6
  <2>2. ASSUME NEW s \in SUBSET S, Cardinality(s) = k + 1 PROVE h[s] = g[s]
    <3> DEFINE x == pick(s)
    <3>1. s # {}
      BY <2>1, <2>2, FS_EmptySet
    <3>2. x \in s
      BY <3>1
    <3>3. h[s] = Power[x[1]] * BLOCK_SIZE + h[s \ {x}]
      BY <1>4, <3>1
    <3>4. g[s] = Power[x[1]] * BLOCK_SIZE + g[s \ {x}]
      BY <1>1, <3>1
    <3> HIDE DEF x, g
    <3>5. Cardinality(s \ {x}) = k /\ s \ {x} \in SUBSET S
      <4>1. Cardinality(s \ {x}) = Cardinality(s) - 1
        BY <1>6, <3>2, FS_RemoveElement
      <4> QED
        BY <2>1, <2>2, <4>1
    <3>6. h[s \ {x}] = g[s \ {x}]
      BY <1>8, <3>5
    <3> QED
      BY <3>3, <3>4, <3>6
  <2> HIDE DEF g
  <2> QED
    BY <2>1, <2>2
<1>9. Cardinality(S) \in T
  <2>1. Cardinality(S) \in Nat
    BY <1>6
  <2> HIDE DEF T
  <2>2. 0 .. Cardinality(S) \subseteq T
    BY <1>7, <1>8, <2>1, SetInduction
  <2> QED
    BY <2>1, <2>2
<1>10. h[S] = g[S]
  <2> HIDE DEF g
  <2> QED
    BY <1>9
<1> QED
  BY <1>5, <1>10

\* What is computed from the free blocks is what the callers hold
\* (BuddyAllocator.cpp:88-100).
THEOREM BytesAreAccountedFor == Spec => []AllocatedBytesAreHeld
<1>1. BuddyInv => AllocatedBytesAreHeld
  <2> SUFFICES ASSUME BuddyInv PROVE AllocatedBytesAreHeld
    OBVIOUS
  <2> DEFINE n(S) == Cardinality(UnitsIn(S))
  <2>1. /\ FreeBlocks = FreeIn(isBlockFree) /\ Consistent(isBlockFree, held)
        /\ held \cap FreeBlocks = {} /\ Tiles(held \cup FreeBlocks)
    BY DEF BuddyInv, Consistent, FreeBlocks, FreeIn
  <2>2. /\ held \in SUBSET Blocks /\ FreeBlocks \in SUBSET Blocks
        /\ \A b, c \in held \cup FreeBlocks : \A u \in Nat : Has(b, u) /\ Has(c, u) => b = c
    BY <2>1 DEF Tiles
  <2>3. BytesIn(held) = n(held) * BLOCK_SIZE
    BY <2>2, BytesAreUnits
  <2>4. BytesIn(FreeBlocks) = n(FreeBlocks) * BLOCK_SIZE
    BY <2>2, BytesAreUnits
  <2>5. n(held \cup FreeBlocks) = n(held) + n(FreeBlocks)
    <3>1. \A b \in held, c \in FreeBlocks, u \in Nat : ~ (Has(b, u) /\ Has(c, u))
      BY <2>1, <2>2
    <3> QED
      BY <3>1, UnitsAddUp
  <2>6. n(held \cup FreeBlocks) = UsedBlocks
    <3>1. UnitsIn(held \cup FreeBlocks) = 0 .. Power[MaxUsedExponent] - 1
      BY <2>1 DEF UnitsIn, Tiles
    <3>2. Power[MaxUsedExponent] \in Nat \ {0}
      BY MaxExponent, PowerSteps
    <3>3. Cardinality(0 .. Power[MaxUsedExponent] - 1) = Power[MaxUsedExponent]
      <4>1. /\ 0 \in Int /\ Power[MaxUsedExponent] - 1 \in Int
            /\ ~ (0 > Power[MaxUsedExponent] - 1)
            /\ (Power[MaxUsedExponent] - 1) - 0 + 1 = Power[MaxUsedExponent]
        BY <3>2
      <4> QED
        BY <4>1, FS_Interval
    <3> QED
      BY <3>1, <3>3, MaxExponent
  <2>7. n(held) \in Nat /\ n(FreeBlocks) \in Nat /\ BLOCK_SIZE \in Nat
    BY UnitsAreFinite, HeapAssumption
  <2> HIDE DEF n
  <2>8. UsedBlocks * BLOCK_SIZE = n(held) * BLOCK_SIZE + n(FreeBlocks) * BLOCK_SIZE
    BY <2>5, <2>6, <2>7
  <2>9. n(held) * BLOCK_SIZE \in Nat /\ n(FreeBlocks) * BLOCK_SIZE \in Nat
    BY <2>7
  <2> QED
    BY <2>3, <2>4, <2>8, <2>9
       DEF AllocatedBytesAreHeld, NumberOfAllocatedBytes, NumberOfFreeBytes, UsedBytes
<1> QED
  BY <1>1, AlwaysConsistent, PTL
=============================================================================
