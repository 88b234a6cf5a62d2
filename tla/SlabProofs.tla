------------------------------ MODULE SlabProofs ------------------------------
(***************************************************************************)
(* Proofs about SlabAllocator.tla, for every object size, any caches and   *)
(* any memory: the chain of a slab holds the slots nobody holds, and what  *)
(* a cache says of itself is true, as long as nobody frees a slot twice in *)
(* a slab with objects; every slab is in the list it belongs to, and the   *)
(* size of a cache covers its slabs, whatever is freed.                    *)
(***************************************************************************)
EXTENDS SlabAllocator, SequenceTheorems, FiniteSetTheorems, WellFoundedInduction, TLAPS

-----------------------------------------------------------------------------
(* Induction goes through a set of numbers                                 *)

LEMMA LeastNumber ==
    ASSUME NEW S \in SUBSET Nat, S # {}
    PROVE  \E m \in S : \A k \in S : m <= k
<1> DEFINE less == OpToRel(<, Nat)
<1>1. PICK m \in S : \A k \in S : ~ (<< k, m >> \in less)
  <2>1. IsWellFoundedOn(less, Nat)
    BY NatLessThanWellFounded
  <2> HIDE DEF less
  <2> QED
    BY <2>1, WFMin
<1>2. ASSUME NEW k \in S
      PROVE  m <= k
  <2>1. k \in Nat /\ m \in Nat
    OBVIOUS
  <2>2. k < m => << k, m >> \in less
    BY <2>1 DEF OpToRel
  <2> HIDE DEF less
  <2> QED
    BY <1>1, <2>1, <2>2
<1> QED
  BY <1>2

\* Induction up to n, with a set in the place of a predicate.
LEMMA SetInduction ==
    ASSUME NEW n \in Nat, NEW T, 0 \in T, \A k \in 0 .. n - 1 : k \in T => k + 1 \in T
    PROVE  0 .. n \subseteq T
<1> DEFINE rest == (0 .. n) \ T
<1> SUFFICES ASSUME rest # {} PROVE FALSE
  OBVIOUS
<1>1. PICK m \in rest : \A k \in rest : m <= k
  <2>1. rest \in SUBSET Nat
    OBVIOUS
  <2> HIDE DEF rest
  <2> QED
    BY <2>1, LeastNumber
<1>2. m # 0 /\ m - 1 \in 0 .. n - 1 /\ (m - 1) + 1 = m
  OBVIOUS
<1>3. m - 1 \in T
  BY <1>1, <1>2
<1> QED
  BY <1>2, <1>3

-----------------------------------------------------------------------------
(* Powers of two                                                           *)

Doubles(f, n) == f[0] = 1 /\ \A i \in 1 .. n : f[i] = 2 * f[i - 1]

LEMMA DoublesExist ==
    ASSUME NEW n \in Nat
    PROVE  \E f \in [0 .. n -> Nat \ {0}] : Doubles(f, n)
<1> DEFINE T == {k \in 0 .. n : \E f \in [0 .. k -> Nat \ {0}] : Doubles(f, k)}
<1>1. 0 \in T
  <2> DEFINE f == [i \in 0 .. 0 |-> 1]
  <2>1. f \in [0 .. 0 -> Nat \ {0}] /\ Doubles(f, 0)
    BY DEF Doubles
  <2> QED
    BY <2>1
<1>2. ASSUME NEW k \in 0 .. n - 1, k \in T PROVE k + 1 \in T
  <2>1. PICK f \in [0 .. k -> Nat \ {0}] : Doubles(f, k)
    BY <1>2
  <2> DEFINE h == [i \in 0 .. k + 1 |-> IF i = k + 1 THEN 2 * f[k] ELSE f[i]]
  <2>2. h \in [0 .. k + 1 -> Nat \ {0}]
    OBVIOUS
  <2>3. Doubles(h, k + 1)
    BY <2>1 DEF Doubles
  <2> HIDE DEF h
  <2> QED
    BY <2>2, <2>3
<1>3. 0 .. n \subseteq T
  <2> HIDE DEF T
  <2> QED
    BY <1>1, <1>2, SetInduction
<1>4. n \in T
  BY <1>3
<1> QED
  BY <1>4

LEMMA DoublesAgree ==
    ASSUME NEW n \in Nat, NEW m \in 0 .. n,
           NEW f \in [0 .. n -> Nat], Doubles(f, n),
           NEW g \in [0 .. m -> Nat], Doubles(g, m)
    PROVE  f[m] = g[m]
<1> DEFINE T == {k \in 0 .. m : f[k] = g[k]}
<1>1. 0 \in T
  BY DEF Doubles
<1>2. ASSUME NEW k \in 0 .. m - 1, k \in T PROVE k + 1 \in T
  <2>1. k + 1 \in 1 .. m /\ k + 1 \in 1 .. n /\ (k + 1) - 1 = k
    OBVIOUS
  <2>2. f[k + 1] = 2 * f[k] /\ g[k + 1] = 2 * g[k]
    BY <2>1 DEF Doubles
  <2> QED
    BY <1>2, <2>1, <2>2
<1>3. 0 .. m \subseteq T
  <2>1. m \in Nat
    OBVIOUS
  <2> HIDE DEF T
  <2> QED
    BY <1>1, <1>2, <2>1, SetInduction
<1> QED
  BY <1>3

\* The recursion of Power defines a function.
LEMMA PowerIsDefined ==
    /\ Power \in [Nat -> Nat \ {0}]
    /\ Power[0] = 1
    /\ \A n \in Nat : Power[n + 1] = 2 * Power[n]
<1> DEFINE upTo(n) == CHOOSE f \in [0 .. n -> Nat \ {0}] : Doubles(f, n)
           g == [n \in Nat |-> upTo(n)[n]]
<1>1. ASSUME NEW n \in Nat
      PROVE  upTo(n) \in [0 .. n -> Nat \ {0}] /\ Doubles(upTo(n), n)
  BY DoublesExist
<1>2. ASSUME NEW n \in Nat
      PROVE  g[n] = IF n = 0 THEN 1 ELSE 2 * g[n - 1]
  <2>1. CASE n = 0
    BY <1>1, <2>1 DEF Doubles
  <2>2. CASE n # 0
    <3>1. n - 1 \in Nat /\ n - 1 \in 0 .. n /\ n \in 1 .. n
      BY <2>2
    <3>2. upTo(n)[n] = 2 * upTo(n)[n - 1]
      BY <1>1, <3>1 DEF Doubles
    <3>3. upTo(n)[n - 1] = upTo(n - 1)[n - 1]
      <4>1. /\ upTo(n) \in [0 .. n -> Nat] /\ Doubles(upTo(n), n)
            /\ upTo(n - 1) \in [0 .. n - 1 -> Nat] /\ Doubles(upTo(n - 1), n - 1)
        BY <1>1, <3>1
      <4> HIDE DEF upTo
      <4> QED
        BY <3>1, <4>1, DoublesAgree
    <3> QED
      BY <2>2, <3>1, <3>2, <3>3
  <2> QED
    BY <2>1, <2>2
<1>3. g \in [Nat -> Nat \ {0}]
  <2> HIDE DEF upTo
  <2>1. ASSUME NEW n \in Nat PROVE upTo(n)[n] \in Nat \ {0}
    BY <1>1
  <2> QED
    BY <2>1
<1> HIDE DEF g
<1>4. g = [n \in Nat |-> IF n = 0 THEN 1 ELSE 2 * g[n - 1]]
  BY <1>2, <1>3
<1>5. Power = [n \in Nat |-> IF n = 0 THEN 1 ELSE 2 * Power[n - 1]]
  BY <1>4 DEF Power
<1>6. Power[0] = 1 /\ \A n \in Nat : Power[n + 1] = 2 * Power[n]
  <2>1. Power[0] = 1
    BY <1>5
  <2>2. ASSUME NEW n \in Nat PROVE Power[n + 1] = 2 * Power[n]
    <3>1. n + 1 \in Nat /\ n + 1 # 0 /\ (n + 1) - 1 = n
      OBVIOUS
    <3> QED
      BY <1>5, <3>1
  <2> QED
    BY <2>1, <2>2
<1>7. ASSUME NEW n \in Nat PROVE Power[n] \in Nat \ {0}
  <2> DEFINE T == {k \in 0 .. n : Power[k] \in Nat \ {0}}
  <2>1. 0 \in T
    BY <1>6
  <2>2. ASSUME NEW k \in 0 .. n - 1, k \in T PROVE k + 1 \in T
    BY <1>6, <2>2
  <2>3. 0 .. n \subseteq T
    <3> HIDE DEF T
    <3> QED
      BY <2>1, <2>2, SetInduction
  <2> QED
    BY <2>3
<1>8. DOMAIN Power = Nat /\ Power = [n \in DOMAIN Power |-> Power[n]]
  BY <1>5
<1> QED
  BY <1>6, <1>7, <1>8

\* Halving and doubling.
LEMMA PowerSteps ==
    ASSUME NEW n \in Nat
    PROVE  /\ Power[n] \in Nat \ {0}
           /\ Power[n + 1] = 2 * Power[n]
BY PowerIsDefined

-----------------------------------------------------------------------------
(* Lists                                                                   *)

LEMMA ConsElements ==
    ASSUME NEW S, NEW q \in Seq(S), NEW s \in S
    PROVE  LET r == << s >> \o q
           IN  /\ r \in Seq(S) /\ Len(r) = Len(q) + 1 /\ r[1] = s
               /\ \A i \in 1 .. Len(q) : r[i + 1] = q[i]
               /\ Range(r) = Range(q) \cup {s}
               /\ IsInjective(q) /\ s \notin Range(q) => IsInjective(r)
<1> DEFINE r == << s >> \o q
<1>1. /\ << s >> \in Seq(S) /\ Len(<< s >>) = 1 /\ << s >>[1] = s
      /\ Len(q) \in Nat /\ DOMAIN q = 1 .. Len(q)
  BY LenProperties
<1>2. /\ r \in Seq(S) /\ Len(r) = Len(q) + 1 /\ DOMAIN r = 1 .. Len(q) + 1
      /\ r[1] = s /\ \A i \in 1 .. Len(q) : r[i + 1] = q[i]
  BY <1>1
<1>3. Range(r) = Range(q) \cup {s}
  <2>1. Range(r) = Range(<< s >>) \cup Range(q)
    BY <1>1, RangeConcatenation, ZenonT(40)
  <2>2. Range(<< s >>) = {s}
    BY DEF Range
  <2> QED
    BY <2>1, <2>2
<1> HIDE DEF r
<1>4. \A i \in DOMAIN r : i = 1 \/ (i - 1 \in 1 .. Len(q) /\ r[i] = q[i - 1] /\ (i - 1) + 1 = i)
  BY <1>1, <1>2
<1>5. ASSUME IsInjective(q), s \notin Range(q) PROVE IsInjective(r)
  <2> SUFFICES ASSUME NEW i \in DOMAIN r, NEW j \in DOMAIN r, r[i] = r[j] PROVE i = j
    BY DEF IsInjective
  <2>1. \A k \in 1 .. Len(q) : q[k] # s
    BY <1>1, <1>5 DEF Range
  <2>2. \A k, l \in 1 .. Len(q) : q[k] = q[l] => k = l
    BY <1>1, <1>5 DEF IsInjective
  <2>3. CASE i = 1 \/ j = 1
    BY <1>2, <1>4, <2>1, <2>3
  <2>4. CASE i # 1 /\ j # 1
    BY <1>2, <1>4, <2>2, <2>4
  <2> QED
    BY <2>3, <2>4
<1> QED
  BY <1>2, <1>3, <1>5 DEF r

LEMMA TailElements ==
    ASSUME NEW S, NEW q \in Seq(S), q # << >>
    PROVE  /\ Tail(q) \in Seq(S) /\ Len(q) \in Nat \ {0} /\ Len(Tail(q)) = Len(q) - 1
           /\ Head(q) = q[1] /\ q[1] \in S /\ q[1] \in Range(q)
           /\ \A i \in 1 .. Len(q) - 1 : Tail(q)[i] = q[i + 1]
           /\ Range(q) = Range(Tail(q)) \cup {q[1]}
           /\ IsInjective(q) => IsInjective(Tail(q)) /\ q[1] \notin Range(Tail(q))
<1>1. /\ Tail(q) \in Seq(S) /\ Len(q) \in Nat \ {0} /\ Len(Tail(q)) = Len(q) - 1
      /\ Head(q) = q[1] /\ q[1] \in S /\ 1 \in DOMAIN q /\ DOMAIN q = 1 .. Len(q)
      /\ DOMAIN Tail(q) = 1 .. Len(q) - 1
      /\ \A i \in 1 .. Len(q) - 1 : Tail(q)[i] = q[i + 1]
  OBVIOUS
<1>2. \A i \in DOMAIN q : i = 1 \/ (i - 1 \in 1 .. Len(q) - 1 /\ (i - 1) + 1 = i)
  BY <1>1
<1>3. Range(q) = Range(Tail(q)) \cup {q[1]}
  <2>1. ASSUME NEW x \in Range(q) PROVE x \in Range(Tail(q)) \cup {q[1]}
    <3>1. PICK i \in DOMAIN q : x = q[i]
      BY DEF Range
    <3> QED
      BY <1>1, <1>2, <3>1 DEF Range
  <2>2. ASSUME NEW x \in Range(Tail(q)) PROVE x \in Range(q)
    <3>1. PICK i \in 1 .. Len(q) - 1 : x = Tail(q)[i]
      BY <1>1 DEF Range
    <3>2. x = q[i + 1] /\ i + 1 \in DOMAIN q
      BY <1>1, <3>1
    <3> QED
      BY <3>2 DEF Range
  <2>3. q[1] \in Range(q)
    BY <1>1 DEF Range
  <2> QED
    BY <2>1, <2>2, <2>3
<1>4. ASSUME IsInjective(q) PROVE IsInjective(Tail(q)) /\ q[1] \notin Range(Tail(q))
  <2>1. \A i, j \in 1 .. Len(q) : q[i] = q[j] => i = j
    BY <1>1, <1>4 DEF IsInjective
  <2>2. \A i \in 1 .. Len(q) - 1 : i + 1 \in 1 .. Len(q) /\ i + 1 # 1 /\ Tail(q)[i] = q[i + 1]
    BY <1>1
  <2>3. \A i, j \in 1 .. Len(q) - 1 : Tail(q)[i] = Tail(q)[j] => i = j
    BY <2>1, <2>2
  <2>4. \A i \in 1 .. Len(q) - 1 : Tail(q)[i] # q[1]
    BY <1>1, <2>1, <2>2
  <2> QED
    BY <1>1, <2>3, <2>4 DEF IsInjective, Range
<1> QED
  BY <1>1, <1>3, <1>4 DEF Range

LEMMA ConcatElements ==
    ASSUME NEW S, NEW p \in Seq(S), NEW q \in Seq(S)
    PROVE  /\ p \o q \in Seq(S) /\ Len(p \o q) = Len(p) + Len(q)
           /\ Len(p) \in Nat /\ Len(q) \in Nat
           /\ Range(p \o q) = Range(p) \cup Range(q)
           /\ IsInjective(p \o q) <=> /\ IsInjective(p) /\ IsInjective(q)
                                      /\ Range(p) \cap Range(q) = {}
<1> DEFINE r == p \o q
           m == Len(p)
           n == Len(q)
<1>1. /\ r \in Seq(S) /\ Len(r) = m + n /\ m \in Nat /\ n \in Nat
      /\ DOMAIN p = 1 .. m /\ DOMAIN q = 1 .. n /\ DOMAIN r = 1 .. m + n
      /\ \A i \in 1 .. m : r[i] = p[i]
      /\ \A i \in 1 .. n : r[m + i] = q[i]
  BY LenProperties
<1>2. Range(r) = Range(p) \cup Range(q)
  BY RangeConcatenation
<1> HIDE DEF r, m, n
<1>3. \A i \in DOMAIN r : i \in 1 .. m \/ (i - m \in 1 .. n /\ r[i] = q[i - m])
  <2> SUFFICES ASSUME NEW i \in 1 .. m + n, i \notin 1 .. m
               PROVE  i - m \in 1 .. n /\ r[i] = q[i - m]
    BY <1>1
  <2>1. i - m \in 1 .. n /\ m + (i - m) = i
    BY <1>1
  <2> QED
    BY <1>1, <2>1
<1>4. ASSUME IsInjective(p), IsInjective(q), Range(p) \cap Range(q) = {}
      PROVE  IsInjective(r)
  <2> SUFFICES ASSUME NEW i \in DOMAIN r, NEW j \in DOMAIN r, r[i] = r[j] PROVE i = j
    BY DEF IsInjective
  <2>1. /\ \A k, l \in 1 .. m : p[k] = p[l] => k = l
        /\ \A k, l \in 1 .. n : q[k] = q[l] => k = l
    BY <1>1, <1>4 DEF IsInjective
  <2>2. \A k \in 1 .. m, l \in 1 .. n : p[k] # q[l]
    BY <1>1, <1>4 DEF Range
  <2> QED
    BY <1>1, <1>3, <2>1, <2>2
<1>5. ASSUME IsInjective(r)
      PROVE  IsInjective(p) /\ IsInjective(q) /\ Range(p) \cap Range(q) = {}
  <2>1. \A k, l \in 1 .. m + n : r[k] = r[l] => k = l
    BY <1>1, <1>5 DEF IsInjective
  <2>2. \A k \in 1 .. m : k \in 1 .. m + n /\ r[k] = p[k]
    BY <1>1
  <2>3. \A k \in 1 .. n : m + k \in 1 .. m + n /\ m + k \notin 1 .. m /\ r[m + k] = q[k]
    BY <1>1
  <2>4. \A k, l \in 1 .. m : p[k] = p[l] => k = l
    BY <2>1, <2>2
  <2>5. \A k, l \in 1 .. n : q[k] = q[l] => k = l
    BY <1>1, <2>1, <2>3
  <2>6. \A k \in 1 .. m, l \in 1 .. n : p[k] # q[l]
    BY <2>1, <2>2, <2>3
  <2> QED
    BY <1>1, <2>4, <2>5, <2>6 DEF IsInjective, Range
<1> QED
  BY <1>1, <1>2, <1>4, <1>5 DEF r, m, n

\* The list without one of its elements.
LEMMA RemovedElement ==
    ASSUME NEW S, NEW q \in Seq(S), IsInjective(q), NEW s \in Range(q)
    PROVE  LET r == RemoveFirst(q, s)
           IN  /\ r \in Seq(S) /\ Len(r) = Len(q) - 1 /\ IsInjective(r)
               /\ Range(r) = Range(q) \ {s}
<1>1. PICK n \in 1 .. Len(q) : q[n] = s
  BY LenProperties DEF Range
<1>2. Len(q) \in Nat /\ DOMAIN q = 1 .. Len(q)
  BY LenProperties
<1> DEFINE a == SubSeq(q, 1, n - 1)
           b == SubSeq(q, n + 1, Len(q))
<1>3. RemoveFirst(q, s) = a \o b
  <2>1. {k \in 1 .. Len(q) : q[k] = s} = {n}
    BY <1>1, <1>2 DEF IsInjective
  <2>2. Min({n}) = n
    <3>1. n \in Int
      OBVIOUS
    <3> QED
      BY <3>1 DEF Min
  <2>3. SelectInSeq(q, LAMBDA v : v = s) = Min({n})
    BY <2>1 DEF SelectInSeq
  <2> QED
    BY <1>1, <2>2, <2>3 DEF RemoveFirst, RemoveAt
<1>4. /\ a \in Seq(S) /\ Len(a) = n - 1 /\ b \in Seq(S) /\ Len(b) = Len(q) - n
      /\ DOMAIN a = 1 .. n - 1 /\ DOMAIN b = 1 .. Len(q) - n
      /\ \A i \in 1 .. n - 1 : a[i] = q[i]
      /\ \A i \in 1 .. Len(q) - n : b[i] = q[i + n]
  <2>1. \A i \in 1 .. Len(q) : q[i] \in S
    BY <1>2, ElementOfSeq
  <2>2. a \in Seq(S) /\ Len(a) = n - 1 /\ \A i \in 1 .. n - 1 : a[i] = q[i]
    BY <1>2, <2>1, SubSeqProperties
  <2>3. /\ b \in Seq(S)
        /\ Len(b) = IF n + 1 <= Len(q) THEN Len(q) - (n + 1) + 1 ELSE 0
        /\ \A i \in 1 .. Len(q) - (n + 1) + 1 : b[i] = q[n + 1 + i - 1]
    <3>1. (\A i \in n + 1 .. Len(q) : q[i] \in S) /\ n + 1 \in Int /\ Len(q) \in Int
      BY <1>2, <2>1
    <3> QED
      BY ONLY <3>1, SubSeqProperties
  <2> HIDE DEF a, b
  <2>4. /\ (IF n + 1 <= Len(q) THEN Len(q) - (n + 1) + 1 ELSE 0) = Len(q) - n
        /\ Len(q) - (n + 1) + 1 = Len(q) - n
        /\ \A i \in 1 .. Len(q) - n : n + 1 + i - 1 = i + n
    <3>1. PICK m \in Nat : m = Len(q)
      BY <1>2
    <3>2. n \in Nat /\ n <= m
      BY <3>1
    <3>3. (IF n + 1 <= m THEN m - (n + 1) + 1 ELSE 0) = m - n
      BY <3>2
    <3> QED
      BY <3>1, <3>2, <3>3
  <2>5. Len(b) = Len(q) - n /\ \A i \in 1 .. Len(q) - n : b[i] = q[i + n]
    BY <2>3, <2>4
  <2> QED
    BY <2>2, <2>3, <2>5, LenProperties
<1> HIDE DEF a, b
<1>5. \A i, j \in 1 .. Len(q) : q[i] = q[j] => i = j
  BY <1>2 DEF IsInjective
<1>6. /\ IsInjective(a) /\ IsInjective(b) /\ Range(a) \cap Range(b) = {}
  <2>1. ASSUME NEW i \in 1 .. n - 1, NEW j \in 1 .. n - 1, a[i] = a[j] PROVE i = j
    <3>1. a[i] = q[i] /\ a[j] = q[j]
      BY <1>4
    <3>2. i \in 1 .. Len(q) /\ j \in 1 .. Len(q)
      BY <1>2
    <3> QED
      BY <1>5, <2>1, <3>1, <3>2
  <2>2. \A i \in 1 .. Len(q) - n : i + n \in 1 .. Len(q) /\ i + n \notin 1 .. n
    BY <1>2
  <2>3. \A i, j \in 1 .. Len(q) - n : b[i] = b[j] => i = j
    BY <1>4, <1>5, <2>2
  <2>4. ASSUME NEW i \in 1 .. n - 1, NEW j \in 1 .. Len(q) - n PROVE a[i] # b[j]
    <3>1. i \in 1 .. Len(q) /\ j + n \in 1 .. Len(q) /\ i # j + n
      BY <1>2, <2>2
    <3> QED
      BY <1>4, <1>5, <3>1
  <2> QED
    BY <1>4, <2>1, <2>3, <2>4 DEF IsInjective, Range
<1>7. Range(a) \cup Range(b) = Range(q) \ {s}
  <2>1. ASSUME NEW i \in 1 .. n - 1 PROVE a[i] \in Range(q) \ {s}
    <3>1. i \in 1 .. Len(q) /\ i # n /\ a[i] = q[i]
      BY <1>2, <1>4
    <3> QED
      BY <1>1, <1>2, <1>5, <3>1 DEF Range
  <2>2. ASSUME NEW i \in 1 .. Len(q) - n PROVE b[i] \in Range(q) \ {s}
    <3>1. i + n \in 1 .. Len(q) /\ i + n # n /\ b[i] = q[i + n]
      BY <1>2, <1>4
    <3> QED
      BY <1>1, <1>2, <1>5, <3>1 DEF Range
  <2>3. ASSUME NEW x \in Range(q), x # s PROVE x \in Range(a) \cup Range(b)
    <3>1. PICK i \in 1 .. Len(q) : x = q[i]
      BY <1>2 DEF Range
    <3>2. CASE i < n
      <4>1. i \in 1 .. n - 1
        BY <3>2
      <4> QED
        BY <1>4, <3>1, <4>1 DEF Range
    <3>3. CASE i > n
      <4>1. i - n \in 1 .. Len(q) - n /\ (i - n) + n = i
        BY <1>2, <3>3
      <4> QED
        BY <1>4, <3>1, <4>1 DEF Range
    <3> QED
      BY <1>1, <2>3, <3>1, <3>2, <3>3
  <2>4. Range(a) \subseteq Range(q) \ {s}
    BY <1>4, <2>1 DEF Range
  <2>5. Range(b) \subseteq Range(q) \ {s}
    BY <1>4, <2>2 DEF Range
  <2> QED
    BY <2>3, <2>4, <2>5
<1>8. Len(a) + Len(b) = Len(q) - 1
  BY <1>2, <1>4
<1>9. /\ a \o b \in Seq(S) /\ Len(a \o b) = Len(a) + Len(b)
      /\ Range(a \o b) = Range(a) \cup Range(b)
      /\ IsInjective(a \o b)
  <2>1. a \in Seq(S) /\ b \in Seq(S)
    BY <1>4
  <2> QED
    BY <1>6, <2>1, ConcatElements
<1> QED
  BY <1>3, <1>7, <1>8, <1>9

-----------------------------------------------------------------------------
(* Slabs                                                                   *)

SlabFields == {"numberOfFreeSlots", "firstFreeSlotIndex", "slots"}

\* p lists the free slots of the slab t in the order of its chain.
ChainedBy(t, p) ==
    /\ Len(p) = t.numberOfFreeSlots
    /\ IsInjective(p)
    /\ t.firstFreeSlotIndex = IF p = << >> THEN -1 ELSE p[1]
    /\ \A i \in 1 .. Len(p) : t.slots[p[i]] = IF i = Len(p) THEN -1 ELSE p[i + 1]

\* A slab of N slots of which callers hold those in taken.
SlabOK(t, N, taken) ==
    /\ DOMAIN t = SlabFields
    /\ DOMAIN t.slots = 0 .. N - 1
    /\ taken \subseteq 0 .. N - 1
    /\ \E p \in Seq(0 .. N - 1) : ChainedBy(t, p) /\ Range(p) = (0 .. N - 1) \ taken

LEMMA NewSlabOK ==
    ASSUME NEW N \in Nat \ {0}
    PROVE  SlabOK(NewSlab(N), N, {}) /\ NewSlab(N).numberOfFreeSlots = N
<1> DEFINE t == NewSlab(N)
           p == [i \in 1 .. N |-> i - 1]
<1>1. /\ DOMAIN t = SlabFields /\ t.numberOfFreeSlots = N /\ t.firstFreeSlotIndex = 0
      /\ t.slots = [i \in 0 .. N - 1 |-> IF i = N - 1 THEN -1 ELSE i + 1]
  BY DEF NewSlab, SlabFields
<1>2. p \in Seq(0 .. N - 1) /\ Len(p) = N /\ DOMAIN p = 1 .. N /\ \A i \in 1 .. N : p[i] = i - 1
  OBVIOUS
<1> HIDE DEF t, p
<1>3. ChainedBy(t, p)
  <2>1. IsInjective(p)
    BY <1>2 DEF IsInjective
  <2>2. p # << >> /\ p[1] = 0
    BY <1>2
  <2>3. ASSUME NEW i \in 1 .. N PROVE t.slots[p[i]] = IF i = N THEN -1 ELSE p[i + 1]
    <3>1. i - 1 \in 0 .. N - 1 /\ p[i] = i - 1
      BY <1>2
    <3>2. t.slots[p[i]] = IF i - 1 = N - 1 THEN -1 ELSE (i - 1) + 1
      BY <1>1, <3>1
    <3>3. i # N => i + 1 \in 1 .. N /\ p[i + 1] = (i + 1) - 1
      BY <1>2
    <3> QED
      BY <3>2, <3>3
  <2> QED
    BY <1>1, <1>2, <2>1, <2>2, <2>3 DEF ChainedBy
<1>4. Range(p) = 0 .. N - 1
  <2>1. \A k \in 0 .. N - 1 : k + 1 \in 1 .. N /\ p[k + 1] = k
    BY <1>2
  <2>2. \A i \in 1 .. N : p[i] \in 0 .. N - 1
    BY <1>2
  <2> QED
    BY <1>2, <2>1, <2>2, ZenonT(40) DEF Range
<1> QED
  BY <1>1, <1>2, <1>3, <1>4 DEF SlabOK, t

\* The first slot of the chain becomes an object.
LEMMA TakenSlotOK ==
    ASSUME NEW N \in Nat \ {0}, NEW t, NEW taken, SlabOK(t, N, taken),
           t.numberOfFreeSlots > 0
    PROVE  /\ t.firstFreeSlotIndex \in (0 .. N - 1) \ taken
           /\ SlabOK(TakenSlot(t), N, taken \cup {t.firstFreeSlotIndex})
           /\ TakenSlot(t).numberOfFreeSlots = t.numberOfFreeSlots - 1
<1>1. PICK p \in Seq(0 .. N - 1) : ChainedBy(t, p) /\ Range(p) = (0 .. N - 1) \ taken
  BY DEF SlabOK
<1> DEFINE q == Tail(p)
           u == TakenSlot(t)
           i == t.firstFreeSlotIndex
<1>2. p # << >> /\ i = p[1] /\ Len(p) = t.numberOfFreeSlots
  <2>1. Len(p) # 0
    BY <1>1 DEF ChainedBy
  <2> QED
    BY <1>1, <2>1 DEF ChainedBy
<1>3. /\ q \in Seq(0 .. N - 1) /\ Len(p) \in Nat \ {0} /\ Len(q) = Len(p) - 1
      /\ p[1] \in Range(p)
      /\ \A j \in 1 .. Len(p) - 1 : q[j] = p[j + 1]
      /\ Range(p) = Range(q) \cup {p[1]}
      /\ IsInjective(q) /\ p[1] \notin Range(q)
  BY <1>1, <1>2, TailElements DEF ChainedBy
<1>4. /\ DOMAIN u = SlabFields /\ u.slots = t.slots
      /\ u.firstFreeSlotIndex = t.slots[i]
      /\ u.numberOfFreeSlots = t.numberOfFreeSlots - 1
  BY DEF TakenSlot, SlabOK, SlabFields
<1> HIDE DEF q, u, i
<1>5. ChainedBy(u, q)
  <2>1. t.slots[p[1]] = IF 1 = Len(p) THEN -1 ELSE p[2]
    <3>1. 1 \in 1 .. Len(p) /\ 1 + 1 = 2
      BY <1>3
    <3> QED
      BY <1>1, <3>1 DEF ChainedBy
  <2>2. u.firstFreeSlotIndex = IF q = << >> THEN -1 ELSE q[1]
    <3>1. CASE Len(p) = 1
      <4>1. q = << >>
        BY <1>3, <3>1
      <4> QED
        BY <1>2, <1>4, <2>1, <3>1, <4>1
    <3>2. CASE Len(p) # 1
      <4>1. q # << >> /\ 1 \in 1 .. Len(p) - 1 /\ q[1] = p[2]
        BY <1>3, <3>2
      <4> QED
        BY <1>2, <1>4, <2>1, <3>2, <4>1
    <3> QED
      BY <3>1, <3>2
  <2>3. ASSUME NEW j \in 1 .. Len(q) PROVE u.slots[q[j]] = IF j = Len(q) THEN -1 ELSE q[j + 1]
    <3>1. j + 1 \in 1 .. Len(p) /\ q[j] = p[j + 1] /\ (j + 1 = Len(p) <=> j = Len(q))
      BY <1>3
    <3>2. t.slots[p[j + 1]] = IF j + 1 = Len(p) THEN -1 ELSE p[(j + 1) + 1]
      BY <1>1, <3>1 DEF ChainedBy
    <3>3. j # Len(q) => j + 1 \in 1 .. Len(p) - 1 /\ q[j + 1] = p[(j + 1) + 1]
      BY <1>3
    <3> QED
      BY <1>4, <3>1, <3>2, <3>3
  <2> QED
    BY <1>2, <1>3, <1>4, <2>2, <2>3 DEF ChainedBy
<1>6. i \in (0 .. N - 1) \ taken
  BY <1>1, <1>2, <1>3
<1>7. SlabOK(u, N, taken \cup {i})
  <2>1. Range(q) = (0 .. N - 1) \ (taken \cup {i})
    BY <1>1, <1>2, <1>3
  <2>2. taken \subseteq 0 .. N - 1 /\ DOMAIN t.slots = 0 .. N - 1
    BY DEF SlabOK
  <2> QED
    BY <1>3, <1>4, <1>5, <1>6, <2>1, <2>2 DEF SlabOK
<1> QED
  BY <1>4, <1>6, <1>7 DEF u, i

\* An object goes back in front of the chain.
LEMMA ReturnedSlotOK ==
    ASSUME NEW N \in Nat \ {0}, NEW t, NEW taken, SlabOK(t, N, taken), NEW i \in taken
    PROVE  /\ SlabOK(ReturnedSlot(t, i), N, taken \ {i})
           /\ ReturnedSlot(t, i).numberOfFreeSlots = t.numberOfFreeSlots + 1
<1>1. PICK p \in Seq(0 .. N - 1) : ChainedBy(t, p) /\ Range(p) = (0 .. N - 1) \ taken
  BY DEF SlabOK
<1> DEFINE q == << i >> \o p
           u == ReturnedSlot(t, i)
<1>2. i \in 0 .. N - 1 /\ i \notin Range(p)
  BY <1>1 DEF SlabOK
<1>3. /\ q \in Seq(0 .. N - 1) /\ Len(q) = Len(p) + 1 /\ q[1] = i
      /\ \A j \in 1 .. Len(p) : q[j + 1] = p[j]
      /\ Range(q) = Range(p) \cup {i} /\ IsInjective(q)
  BY <1>1, <1>2, ConsElements DEF ChainedBy
<1>4. /\ DOMAIN u = SlabFields /\ DOMAIN t.slots = 0 .. N - 1
      /\ u.slots = [t.slots EXCEPT ![i] = t.firstFreeSlotIndex]
      /\ u.firstFreeSlotIndex = i
      /\ u.numberOfFreeSlots = t.numberOfFreeSlots + 1
  BY DEF ReturnedSlot, SlabOK, SlabFields
<1>5. Len(p) \in Nat /\ DOMAIN p = 1 .. Len(p) /\ Len(p) = t.numberOfFreeSlots
  BY <1>1, LenProperties DEF ChainedBy
<1> HIDE DEF q, u
<1>6. ChainedBy(u, q)
  <2>1. q # << >>
    BY <1>3, <1>5
  <2>2. ASSUME NEW j \in 1 .. Len(q) PROVE u.slots[q[j]] = IF j = Len(q) THEN -1 ELSE q[j + 1]
    <3>1. CASE j = 1
      <4>1. u.slots[q[1]] = IF p = << >> THEN -1 ELSE p[1]
        BY <1>1, <1>2, <1>3, <1>4 DEF ChainedBy
      <4>2. CASE p = << >>
        BY <1>3, <1>5, <3>1, <4>1, <4>2
      <4>3. CASE p # << >>
        <5>1. 1 \in 1 .. Len(p) /\ 1 # Len(q) /\ q[1 + 1] = p[1]
          BY <1>3, <1>5, <4>3
        <5> QED
          BY <3>1, <4>1, <4>3, <5>1
      <4> QED
        BY <4>2, <4>3
    <3>2. CASE j # 1
      <4>1. j - 1 \in 1 .. Len(p) /\ (j - 1) + 1 = j /\ (j - 1 = Len(p) <=> j = Len(q))
        BY <1>3, <1>5, <3>2
      <4>2. q[j] = p[j - 1] /\ p[j - 1] \in 0 .. N - 1 /\ p[j - 1] # i
        <5>1. q[j] = p[j - 1]
          BY <1>3, <4>1
        <5>2. p[j - 1] \in Range(p)
          BY <1>5, <4>1 DEF Range
        <5> QED
          BY <1>1, <1>2, <5>1, <5>2
      <4>3. t.slots[p[j - 1]] = IF j - 1 = Len(p) THEN -1 ELSE p[j]
        BY <1>1, <4>1 DEF ChainedBy
      <4>4. j # Len(q) => j \in 1 .. Len(p) /\ q[j + 1] = p[j]
        <5>1. j # Len(q) => j \in 1 .. Len(p)
          BY <1>3, <1>5
        <5> QED
          BY <1>3, <5>1
      <4>5. u.slots[q[j]] = t.slots[p[j - 1]]
        BY <1>4, <4>2
      <4> QED
        BY <4>1, <4>3, <4>4, <4>5
    <3> QED
      BY <3>1, <3>2
  <2> QED
    BY <1>3, <1>4, <1>5, <2>1, <2>2 DEF ChainedBy
<1>7. SlabOK(u, N, taken \ {i})
  <2>1. Range(q) = (0 .. N - 1) \ (taken \ {i})
    BY <1>1, <1>2, <1>3 DEF SlabOK
  <2>2. taken \subseteq 0 .. N - 1 /\ DOMAIN u.slots = 0 .. N - 1
    BY <1>4 DEF SlabOK
  <2> QED
    BY <1>3, <1>4, <1>6, <2>1, <2>2 DEF SlabOK
<1> QED
  BY <1>4, <1>7 DEF u

\* A slab counts the slots that nobody holds.
LEMMA SlotsAddUp ==
    ASSUME NEW N \in Nat \ {0}, NEW t, NEW taken, SlabOK(t, N, taken)
    PROVE  /\ t.numberOfFreeSlots \in 0 .. N
           /\ IsFiniteSet(taken)
           /\ Cardinality(taken) = N - t.numberOfFreeSlots
<1>1. PICK p \in Seq(0 .. N - 1) : ChainedBy(t, p) /\ Range(p) = (0 .. N - 1) \ taken
  BY DEF SlabOK
<1> DEFINE n == Len(p)
           left == (0 .. N - 1) \ taken
<1>2. n \in Nat /\ DOMAIN p = 1 .. n /\ n = t.numberOfFreeSlots
  BY <1>1, LenProperties DEF ChainedBy
<1>3. /\ IsFiniteSet(0 .. N - 1) /\ Cardinality(0 .. N - 1) = N
      /\ IsFiniteSet(1 .. n) /\ Cardinality(1 .. n) = n
  <2>1. 0 \in Int /\ N - 1 \in Int /\ ~ (0 > N - 1) /\ (N - 1) - 0 + 1 = N
    OBVIOUS
  <2>2. 1 \in Int /\ n \in Int
    BY <1>2
  <2>3. IsFiniteSet(0 .. N - 1) /\ Cardinality(0 .. N - 1) = N
    BY <2>1, FS_Interval
  <2>4. IsFiniteSet(1 .. n) /\ Cardinality(1 .. n) = IF 1 > n THEN 0 ELSE n - 1 + 1
    BY <2>2, FS_Interval
  <2>5. (IF 1 > n THEN 0 ELSE n - 1 + 1) = n
    BY <1>2
  <2> QED
    BY <2>3, <2>4, <2>5
<1>4. p \in Bijection(1 .. n, left)
  <2>1. p \in [1 .. n -> left] /\ Range(p) = left
    BY <1>1, <1>2 DEF Range
  <2>2. \A a, b \in 1 .. n : p[a] = p[b] => a = b
    BY <1>1, <1>2 DEF ChainedBy, IsInjective
  <2>3. \A x \in left : \E a \in 1 .. n : p[a] = x
    BY <1>2, <2>1 DEF Range
  <2> QED
    BY <2>1, <2>2, <2>3 DEF Bijection, Injection, Surjection, IsInjective
<1>5. IsFiniteSet(left) /\ Cardinality(left) = n
  <2>1. ExistsBijection(1 .. n, left)
    BY <1>4 DEF ExistsBijection
  <2> HIDE DEF n, left
  <2> QED
    BY <1>3, <2>1, FS_Bijection
<1>6. taken \subseteq 0 .. N - 1
  BY DEF SlabOK
<1>7. IsFiniteSet(taken) /\ Cardinality(taken) \in Nat
  BY <1>3, <1>6, FS_Subset, FS_CardinalityType
<1>8. Cardinality(taken) + Cardinality(left) = N
  <2>1. taken \cap left = {} /\ taken \cup left = 0 .. N - 1
    BY <1>6
  <2>2. Cardinality(taken \cap left) = 0
    BY <2>1, FS_EmptySet
  <2>3. Cardinality(taken \cup left)
           = Cardinality(taken) + Cardinality(left) - Cardinality(taken \cap left)
    BY <1>5, <1>7, FS_Union
  <2> HIDE DEF left, n
  <2>4. PICK a : a = Cardinality(taken)
    OBVIOUS
  <2>5. a \in Nat /\ n \in Nat
    BY <1>2, <1>7, <2>4
  <2>6. a + n - 0 = a + n
    BY <2>5
  <2> QED
    BY <1>3, <1>5, <2>1, <2>2, <2>3, <2>4, <2>6
<1> HIDE DEF left, n
<1> QED
  BY <1>2, <1>5, <1>7, <1>8

\* What FreeSlotsAreChained follows: the chain, and then -1.
LEMMA ChainFollows ==
    ASSUME NEW s, NEW N \in Nat \ {0}, NEW p \in Seq(0 .. N - 1), ChainedBy(slab[s], p)
    PROVE  Chain(s, Len(p) + 1) = [i \in 1 .. Len(p) + 1 |-> IF i = Len(p) + 1 THEN -1 ELSE p[i]]
<1> DEFINE n == Len(p)
           t == slab[s]
           after(j) == IF j = -1 THEN -1 ELSE t.slots[j]
           isChain(f) == f = [i \in 1 .. n + 1 |-> IF i = 1 THEN t.firstFreeSlotIndex
                                                   ELSE after(f[i - 1])]
           c == [i \in 1 .. n + 1 |-> IF i = n + 1 THEN -1 ELSE p[i]]
<1>1. n \in Nat /\ \A i \in 1 .. n : p[i] \in 0 .. N - 1
  BY LenProperties, ElementOfSeq
<1>2. /\ t.firstFreeSlotIndex = IF n = 0 THEN -1 ELSE p[1]
      /\ \A i \in 1 .. n : t.slots[p[i]] = IF i = n THEN -1 ELSE p[i + 1]
  <2>1. p = << >> <=> n = 0
    BY LenProperties
  <2> QED
    BY <2>1 DEF ChainedBy
<1> HIDE DEF n, t
<1>3. ASSUME NEW i \in 1 .. n + 1
      PROVE  c[i] = IF i = 1 THEN t.firstFreeSlotIndex ELSE after(c[i - 1])
  <2>1. CASE i = 1
    BY <1>1, <1>2, <2>1
  <2>2. CASE i # 1
    <3>1. i - 1 \in 1 .. n /\ i - 1 \in 1 .. n + 1 /\ i - 1 # n + 1 /\ (i - 1) + 1 = i
      BY <1>1, <2>2
    <3>2. c[i - 1] = p[i - 1] /\ p[i - 1] # -1
      BY <1>1, <3>1
    <3>3. t.slots[p[i - 1]] = IF i - 1 = n THEN -1 ELSE p[i]
      BY <1>2, <3>1
    <3>4. i - 1 = n <=> i = n + 1
      BY <1>1
    <3> QED
      BY <2>2, <3>2, <3>3, <3>4
  <2> QED
    BY <2>1, <2>2
<1>4. isChain(c)
  <2>1. c = [i \in 1 .. n + 1 |-> c[i]]
    OBVIOUS
  <2> HIDE DEF c, after
  <2> QED
    BY <1>3, <2>1
<1>5. PICK h : h = CHOOSE f : isChain(f)
  OBVIOUS
<1>6. isChain(h)
  <2> HIDE DEF isChain, c
  <2> QED
    BY <1>4, <1>5
<1>7. Chain(s, n + 1) = h
  BY <1>5 DEF Chain, t
<1> DEFINE T == {k \in 0 .. n : h[k + 1] = c[k + 1]}
<1>8. 0 \in T
  <2>1. 0 + 1 = 1 /\ 1 \in 1 .. n + 1 /\ 0 \in 0 .. n
    BY <1>1
  <2>2. h[1] = t.firstFreeSlotIndex
    BY <1>6, <2>1
  <2> HIDE DEF c
  <2> QED
    BY <1>3, <2>1, <2>2
<1>9. ASSUME NEW k \in 0 .. n - 1, k \in T PROVE k + 1 \in T
  <2>1. /\ (k + 1) + 1 \in 1 .. n + 1 /\ (k + 1) + 1 # 1 /\ ((k + 1) + 1) - 1 = k + 1
        /\ k + 1 \in 0 .. n
    BY <1>1
  <2>2. h[(k + 1) + 1] = after(h[k + 1])
    <3> HIDE DEF after
    <3> QED
      BY <1>6, <2>1
  <2>3. c[(k + 1) + 1] = after(c[k + 1])
    <3> HIDE DEF c, after
    <3> QED
      BY <1>3, <2>1
  <2> HIDE DEF c, after
  <2> QED
    BY <1>9, <2>1, <2>2, <2>3
<1>10. 0 .. n \subseteq T
  <2> HIDE DEF T
  <2> QED
    BY <1>1, <1>8, <1>9, SetInduction
<1>11. ASSUME NEW i \in 1 .. n + 1 PROVE h[i] = c[i]
  <2>1. i - 1 \in 0 .. n /\ (i - 1) + 1 = i
    BY <1>1
  <2> HIDE DEF c
  <2> QED
    BY <1>10, <2>1
<1>12. h = c
  <2>1. h = [i \in 1 .. n + 1 |-> h[i]] /\ c = [i \in 1 .. n + 1 |-> c[i]]
    BY <1>6
  <2> HIDE DEF c, isChain
  <2> QED
    BY <1>11, <2>1
<1> QED
  BY <1>7, <1>12 DEF n

-----------------------------------------------------------------------------
(* Caches                                                                  *)

CacheFields == {"name", "objectSizeInBytes", "numberOfObjectsInOneSlab", "didCacheGrow",
                "didCacheShrink", "cacheSizeInBlocks", "numberOfSlabs", "free", "dirty",
                "full", "cacheError"}

\* The exponent of the cache for a buffer.
BufferExponent(bytes) ==
    IF Exponent(bytes) < MIN_BUFFER_SIZE_EXPONENT
    THEN MIN_BUFFER_SIZE_EXPONENT ELSE Exponent(bytes)

\* The sizes of the objects of the callers' caches and of their buffers.
ObjectSizes == {k[2] : k \in CacheKinds} \cup {Power[BufferExponent(bytes)] : bytes \in BufferSizes}

\* The blocks one slab needs.
SlabBlocks(size) == Ceil(SlabBytes(NumberOfSlots(size), size))

\* The blocks it is given by the buddy allocator, a power of two.
SlabPower(size) == Power[Exponent(SlabBlocks(size))]

\* The size of a cache covers the blocks its slabs were given.
SizeCovers(k) ==
    /\ k.cacheSizeInBlocks \in Int
    /\ k.cacheSizeInBlocks >= k.numberOfSlabs * SlabPower(k.objectSizeInBytes)

SlabsOf(k) == Range(k.free) \cup Range(k.dirty) \cup Range(k.full)

\* The slots of the slab s that callers hold, if they hold the objects in h.
Taken(h, s) == {i \in Int : << s, i >> \in h}

\* Three lists without a common element.
Apart(x, y, z) ==
    /\ IsInjective(x) /\ IsInjective(y) /\ IsInjective(z)
    /\ Range(x) \cap Range(y) = {} /\ Range(x) \cap Range(z) = {} /\ Range(y) \cap Range(z) = {}

\* A slab with n free slots of N is in the list it belongs to.
Sorted(k, n, N) ==
    /\ \A s \in Range(k.free) : n[s] = N
    /\ \A s \in Range(k.dirty) : n[s] \in 1 .. N - 1
    /\ \A s \in Range(k.full) : n[s] = 0

\* A cache with the fields k, when the slabs are sl.
CacheOK(k, sl, h) ==
    LET N == k.numberOfObjectsInOneSlab IN
    /\ DOMAIN k = CacheFields
    /\ k.objectSizeInBytes \in ObjectSizes
    /\ N = NumberOfSlots(k.objectSizeInBytes)
    /\ {k.free, k.dirty, k.full} \subseteq Seq(DOMAIN sl)
    /\ Apart(k.free, k.dirty, k.full)
    /\ k.numberOfSlabs = Len(k.free) + Len(k.dirty) + Len(k.full)
    /\ SizeCovers(k)
    /\ \A s \in SlabsOf(k) : SlabOK(sl[s], N, Taken(h, s))
    /\ Sorted(k, [s \in DOMAIN sl |-> sl[s].numberOfFreeSlots], N)

Consistent(ca, sl, h) ==
    /\ \A c \in DOMAIN ca : CacheOK(ca[c], sl, h)
    /\ \A c, d \in DOMAIN ca : c # d => SlabsOf(ca[c]) \cap SlabsOf(ca[d]) = {}
    /\ \A s \in DOMAIN sl : \E c \in DOMAIN ca : s \in SlabsOf(ca[c])
    /\ h \subseteq (DOMAIN sl) \X Int

\* The inductive invariant.
SlabInv == Consistent(cache, slab, held)

LEMMA BlocksNeeded ==
    ASSUME NEW bytes \in Nat
    PROVE  Ceil(bytes) \in Nat /\ (bytes > 0 => Ceil(bytes) > 0)
<1>1. /\ BLOCK_SIZE \in Nat \ {0}
      /\ bytes \div BLOCK_SIZE \in Nat /\ bytes % BLOCK_SIZE \in Nat
      /\ bytes = BLOCK_SIZE * (bytes \div BLOCK_SIZE) + (bytes % BLOCK_SIZE)
  BY SlabAssumption
<1> DEFINE q == bytes \div BLOCK_SIZE
           r == bytes % BLOCK_SIZE
<1>2. Ceil(bytes) = q + (IF r # 0 THEN 1 ELSE 0)
  BY DEF Ceil
<1> HIDE DEF q, r
<1>3. q \in Nat /\ r \in Nat /\ (q = 0 /\ r = 0 => bytes = 0)
  BY <1>1 DEF q, r
<1> QED
  BY <1>2, <1>3

\* The least exponent exists, and its power is enough.
LEMMA ExponentIsNat ==
    ASSUME NEW n \in Nat
    PROVE  Exponent(n) \in Nat /\ n <= Power[Exponent(n)]
<1> DEFINE enough == {e \in 0 .. n : n <= Power[e]}
<1>1. n < Power[n]
  <2> DEFINE T == {k \in 0 .. n : k < Power[k]}
  <2>1. 0 \in T
    BY PowerIsDefined
  <2>2. ASSUME NEW k \in 0 .. n - 1, k \in T PROVE k + 1 \in T
    BY <2>2, PowerSteps
  <2>3. 0 .. n \subseteq T
    <3> HIDE DEF T
    <3> QED
      BY <2>1, <2>2, SetInduction
  <2> QED
    BY <2>3
<1>2. n \in enough
  BY <1>1, PowerSteps
<1>3. PICK m \in enough : \A k \in enough : m <= k
  <2>1. enough \in SUBSET Nat /\ enough # {}
    BY <1>2
  <2> HIDE DEF enough
  <2> QED
    BY <2>1, LeastNumber
<1>4. \A d \in 0 .. m - 1 : Power[d] < n
  <2> SUFFICES ASSUME NEW d \in 0 .. m - 1, ~ (Power[d] < n) PROVE FALSE
    OBVIOUS
  <2>1. d \in Nat /\ d \in 0 .. n /\ ~ (m <= d)
    BY <1>3
  <2>2. Power[d] \in Nat
    BY <2>1, PowerSteps
  <2> QED
    BY <1>3, <2>1, <2>2
<1>5. Exponent(n) \in 0 .. n /\ n <= Power[Exponent(n)]
  BY <1>3, <1>4 DEF Exponent
<1> QED
  BY <1>5

\* calculateNumberOfSlotsInSlab ends with at least one slot.
LEMMA SlotsAreMany ==
    ASSUME NEW size \in Nat \ {0}
    PROVE  NumberOfSlots(size) \in Nat \ {0}
<1> DEFINE B == BLOCK_SIZE * 2
           bytes(n) == SlabBytes(n, size)
<1>1. B \in Nat \ {0} /\ SlabSize \in Nat /\ IntSize \in Nat
  BY SlabAssumption
<1>2. \A n \in Nat : n * size \in Nat /\ n <= n * size /\ IntSize * n \in Nat
  BY <1>1
<1>3. \A n \in Nat : bytes(n) \in Nat /\ n <= bytes(n)
  BY <1>1, <1>2 DEF SlabBytes
<1> HIDE DEF B, bytes
<1>4. CASE bytes(2) > B
  BY <1>4 DEF NumberOfSlots, B, bytes
<1>5. CASE ~ (bytes(2) > B)
  <2> DEFINE over == {n \in Nat : n >= 2 /\ bytes(n + 1) > B}
  <2>1. B + 2 \in over
    BY <1>1, <1>3
  <2>2. PICK m \in over : \A n \in over : m <= n
    <3>1. over \in SUBSET Nat /\ over # {}
      BY <2>1
    <3> HIDE DEF over
    <3> QED
      BY <3>1, LeastNumber
  <2>3. bytes(m) <= B
    <3>1. CASE m = 2
      BY <1>1, <1>3, <1>5, <3>1
    <3>2. CASE m # 2
      <4>1. m - 1 \in Nat /\ m - 1 >= 2 /\ (m - 1) + 1 = m /\ ~ (m <= m - 1)
        BY <3>2
      <4>2. m - 1 \notin over
        BY <2>2, <4>1
      <4>3. bytes(m) \in Nat
        BY <1>3
      <4> QED
        BY <1>1, <4>1, <4>2, <4>3
    <3> QED
      BY <3>1, <3>2
  <2>4. m \in 1 .. B /\ bytes(m) <= B /\ bytes(m + 1) > B
    <3>1. m <= bytes(m) /\ bytes(m) \in Nat
      BY <1>3
    <3> QED
      BY <1>1, <2>3, <3>1
  <2>5. NumberOfSlots(size) = CHOOSE n \in 1 .. B : bytes(n) <= B /\ bytes(n + 1) > B
    BY <1>5 DEF NumberOfSlots, B, bytes
  <2>6. NumberOfSlots(size) \in 1 .. B
    BY <2>4, <2>5
  <2> QED
    BY <1>1, <2>6
<1> QED
  BY <1>4, <1>5

LEMMA SizesAreNat ==
    ASSUME NEW size \in ObjectSizes
    PROVE  /\ size \in Nat \ {0}
           /\ NumberOfSlots(size) \in Nat \ {0}
           /\ SlabBytes(NumberOfSlots(size), size) \in Nat
           /\ SlabBlocks(size) \in Nat \ {0}
           /\ SlabPower(size) \in Nat /\ SlabBlocks(size) <= SlabPower(size)
<1>1. size \in Nat \ {0}
  <2>1. \A k \in CacheKinds : k[2] \in Nat \ {0}
    BY SlabAssumption
  <2>2. ASSUME NEW bytes \in BufferSizes PROVE Power[BufferExponent(bytes)] \in Nat \ {0}
    <3>1. bytes \in Nat /\ Exponent(bytes) \in Nat
      BY SlabAssumption, ExponentIsNat
    <3>2. BufferExponent(bytes) \in Nat
      BY <3>1, SlabAssumption DEF BufferExponent
    <3> QED
      BY <3>2, PowerSteps
  <2> QED
    BY <2>1, <2>2 DEF ObjectSizes
<1>2. NumberOfSlots(size) \in Nat \ {0}
  BY <1>1, SlotsAreMany
<1>3. SlabBytes(NumberOfSlots(size), size) \in Nat \ {0}
  <2>1. SlabSize \in Nat \ {0} /\ IntSize \in Nat
    BY SlabAssumption
  <2>2. PICK N : N = NumberOfSlots(size)
    OBVIOUS
  <2>3. IntSize * N \in Nat /\ N * size \in Nat
    BY <1>1, <1>2, <2>1, <2>2
  <2> QED
    BY <2>1, <2>2, <2>3 DEF SlabBytes
<1>4. SlabBlocks(size) \in Nat \ {0}
  BY <1>3, BlocksNeeded DEF SlabBlocks
<1>5. SlabPower(size) \in Nat /\ SlabBlocks(size) <= SlabPower(size)
  BY <1>4, ExponentIsNat, PowerSteps DEF SlabPower
<1> QED
  BY <1>1, <1>2, <1>3, <1>4, <1>5

\* A block of the buddy allocator is none of the caches and slabs there are.
LEMMA BlocksAreFresh ==
    ASSUME NEW e \in Nat, NEW b \in Allocated(e)
    PROVE  b \notin DOMAIN cache \cup DOMAIN slab
<1>0. Store!Power = Power
  BY DEF Store!Power, Power
<1>1. b \in Store!BlocksOfSize(e)
  BY DEF Allocated, Store!Unused
<1>2. b[1] \in Nat /\ b[2] \in Nat
  BY <1>1, SlabAssumption DEF Store!BlocksOfSize
<1>3. b[2] * Power[b[1]] \in Store!Units(b)
  <2>1. Power[b[1]] \in Nat \ {0}
    BY <1>2, PowerSteps
  <2>2. PICK p \in Nat \ {0} : p = Power[b[1]]
    BY <2>1
  <2>3. b[2] * p \in Int /\ (b[2] + 1) * p = b[2] * p + p
    BY <1>2
  <2>4. b[2] * p \in b[2] * p .. (b[2] + 1) * p - 1
    BY <2>3
  <2> QED
    BY <1>0, <2>2, <2>4 DEF Store!Units
<1>4. \A x \in DOMAIN cache \cup DOMAIN slab : Store!Units(b) \cap Store!Units(x) = {}
  BY DEF Allocated, Store!Unused
<1> QED
  BY <1>3, <1>4

\* The slab s goes from the list x to the front of y, past z.
Moves(S, s, x, y, z, x2, y2) ==
    /\ x2 \in Seq(S) /\ y2 \in Seq(S) /\ Apart(x2, y2, z)
    /\ Len(x2) + Len(y2) + Len(z) = Len(x) + Len(y) + Len(z)
    /\ Range(x2) = Range(x) \ {s} /\ Range(y2) = Range(y) \cup {s}
    /\ s \in Range(x) /\ s \notin Range(y) /\ s \notin Range(z)

LEMMA SlabMoves ==
    ASSUME NEW S, NEW x \in Seq(S), NEW y \in Seq(S), NEW z \in Seq(S), Apart(x, y, z),
           NEW s \in Range(x), NEW x2 \in Seq(S), IsInjective(x2), Len(x2) = Len(x) - 1,
           Range(x2) = Range(x) \ {s}
    PROVE  Moves(S, s, x, y, z, x2, << s >> \o y)
<1> DEFINE y2 == << s >> \o y
<1>1. s \in S /\ Len(x) \in Nat /\ Len(y) \in Nat /\ Len(z) \in Nat
  <2>1. \A i \in DOMAIN x : x[i] \in S
    BY ElementOfSeq, LenProperties
  <2> QED
    BY <2>1, LenProperties DEF Range
<1>2. s \notin Range(y) /\ s \notin Range(z) /\ IsInjective(y) /\ IsInjective(z)
  BY DEF Apart
<1>3. y2 \in Seq(S) /\ Len(y2) = Len(y) + 1 /\ Range(y2) = Range(y) \cup {s} /\ IsInjective(y2)
  BY <1>1, <1>2, ConsElements
<1> HIDE DEF y2
<1>4. Apart(x2, y2, z)
  BY <1>2, <1>3 DEF Apart
<1>5. Len(x2) + Len(y2) + Len(z) = Len(x) + Len(y) + Len(z)
  BY <1>1, <1>3
<1> QED
  BY <1>2, <1>3, <1>4, <1>5 DEF y2, Moves

LEMMA HeadMoves ==
    ASSUME NEW S, NEW x \in Seq(S), NEW y \in Seq(S), NEW z \in Seq(S), Apart(x, y, z), x # << >>
    PROVE  Moves(S, Head(x), x, y, z, Tail(x), << Head(x) >> \o y)
<1>1. /\ Tail(x) \in Seq(S) /\ Len(x) \in Nat \ {0} /\ Len(Tail(x)) = Len(x) - 1
      /\ Head(x) = x[1] /\ x[1] \in Range(x)
      /\ Range(x) = Range(Tail(x)) \cup {x[1]}
      /\ IsInjective(Tail(x)) /\ x[1] \notin Range(Tail(x))
  BY TailElements DEF Apart
<1>2. Head(x) \in Range(x) /\ Range(Tail(x)) = Range(x) \ {Head(x)}
  BY <1>1
<1> QED
  BY <1>1, <1>2, SlabMoves

LEMMA AnyMoves ==
    ASSUME NEW S, NEW x \in Seq(S), NEW y \in Seq(S), NEW z \in Seq(S), Apart(x, y, z),
           NEW s \in Range(x)
    PROVE  Moves(S, s, x, y, z, RemoveFirst(x, s), << s >> \o y)
<1>1. IsInjective(x)
  BY DEF Apart
<1> DEFINE x2 == RemoveFirst(x, s)
<1>2. x2 \in Seq(S) /\ Len(x2) = Len(x) - 1 /\ IsInjective(x2) /\ Range(x2) = Range(x) \ {s}
  BY <1>1, RemovedElement
<1> HIDE DEF x2
<1>3. Moves(S, s, x, y, z, x2, << s >> \o y)
  BY <1>2, SlabMoves
<1> QED
  BY <1>3 DEF x2

\* The number of free slots in every slab.
FreeSlotsIn(sl) == [s \in DOMAIN sl |-> sl[s].numberOfFreeSlots]

LEMMA CacheFacts ==
    ASSUME NEW k, NEW sl, NEW h, CacheOK(k, sl, h)
    PROVE  /\ k.free \in Seq(DOMAIN sl) /\ k.dirty \in Seq(DOMAIN sl) /\ k.full \in Seq(DOMAIN sl)
           /\ Len(k.free) \in Nat /\ Len(k.dirty) \in Nat /\ Len(k.full) \in Nat
           /\ SlabsOf(k) \subseteq DOMAIN sl
           /\ k.numberOfObjectsInOneSlab \in Nat \ {0}
           /\ Sorted(k, FreeSlotsIn(sl), k.numberOfObjectsInOneSlab)
<1>1. k.free \in Seq(DOMAIN sl) /\ k.dirty \in Seq(DOMAIN sl) /\ k.full \in Seq(DOMAIN sl)
  BY DEF CacheOK
<1>2. \A q \in Seq(DOMAIN sl) : Range(q) \subseteq DOMAIN sl /\ Len(q) \in Nat
  BY ElementOfSeq, LenProperties DEF Range
<1>3. k.numberOfObjectsInOneSlab \in Nat \ {0}
  BY SizesAreNat DEF CacheOK
<1> QED
  BY <1>1, <1>2, <1>3 DEF CacheOK, SlabsOf, FreeSlotsIn

\* The three lists of a cache in a row.
LEMMA AllSlabs ==
    ASSUME NEW k, NEW sl, NEW h, CacheOK(k, sl, h)
    PROVE  /\ Range(k.free \o k.dirty \o k.full) = SlabsOf(k)
           /\ IsInjective(k.free \o k.dirty \o k.full)
<1>1. /\ k.free \in Seq(DOMAIN sl) /\ k.dirty \in Seq(DOMAIN sl)
      /\ k.full \in Seq(DOMAIN sl) /\ Apart(k.free, k.dirty, k.full)
  BY CacheFacts DEF CacheOK
<1>2. PICK q \in Seq(DOMAIN sl) : q = k.free \o k.dirty
  BY <1>1, ConcatElements
<1>3. Range(q) = Range(k.free) \cup Range(k.dirty) /\ IsInjective(q)
  <2>1. Range(k.free \o k.dirty) = Range(k.free) \cup Range(k.dirty)
        /\ IsInjective(k.free \o k.dirty)
    BY <1>1, ConcatElements DEF Apart
  <2> QED
    BY <1>2, <2>1
<1>4. Range(q \o k.full) = Range(q) \cup Range(k.full) /\ IsInjective(q \o k.full)
  <2>1. Range(q) \cap Range(k.full) = {} /\ IsInjective(k.full)
    BY <1>1, <1>3 DEF Apart
  <2> QED
    BY <1>1, <1>3, <2>1, ConcatElements
<1> QED
  BY <1>2, <1>3, <1>4 DEF SlabsOf

\* A cache depends on its slabs and their objects only.
LEMMA OthersDoNotMatter ==
    ASSUME NEW k, NEW sl, NEW h, CacheOK(k, sl, h), NEW sl2, NEW h2,
           \A s \in SlabsOf(k) : /\ s \in DOMAIN sl2 /\ sl2[s] = sl[s]
                                 /\ Taken(h2, s) = Taken(h, s)
    PROVE  CacheOK(k, sl2, h2)
<1> DEFINE N == k.numberOfObjectsInOneSlab
<1>1. /\ k.free \in Seq(DOMAIN sl2) /\ k.dirty \in Seq(DOMAIN sl2) /\ k.full \in Seq(DOMAIN sl2)
  <2>1. ASSUME NEW q \in Seq(DOMAIN sl), Range(q) \subseteq SlabsOf(k) PROVE q \in Seq(DOMAIN sl2)
    <3>1. \A i \in 1 .. Len(q) : q[i] \in DOMAIN sl2
      BY <2>1, LenProperties DEF Range
    <3> QED
      BY <3>1, LenProperties, SeqDef
  <2> QED
    BY <2>1, CacheFacts DEF SlabsOf
<1>2. Sorted(k, FreeSlotsIn(sl2), N)
  <2>1. \A s \in SlabsOf(k) : FreeSlotsIn(sl2)[s] = FreeSlotsIn(sl)[s]
    BY CacheFacts DEF FreeSlotsIn
  <2> QED
    BY <2>1, CacheFacts DEF Sorted, SlabsOf
<1>3. \A s \in SlabsOf(k) : SlabOK(sl2[s], N, Taken(h2, s))
  BY DEF CacheOK
<1> QED
  BY <1>1, <1>2, <1>3 DEF CacheOK, FreeSlotsIn

\* k2 is k with the slab s in another place.
Rearranged(S, s, k, k2) ==
    /\ DOMAIN k2 = CacheFields
    /\ k2.objectSizeInBytes = k.objectSizeInBytes
    /\ k2.numberOfObjectsInOneSlab = k.numberOfObjectsInOneSlab
    /\ k2.numberOfSlabs = k.numberOfSlabs
    /\ k2.cacheSizeInBlocks = k.cacheSizeInBlocks
    /\ k2.free \in Seq(S) /\ k2.dirty \in Seq(S) /\ k2.full \in Seq(S)
    /\ Apart(k2.free, k2.dirty, k2.full)
    /\ Len(k2.free) + Len(k2.dirty) + Len(k2.full) = Len(k.free) + Len(k.dirty) + Len(k.full)
    /\ Range(k2.free) \ {s} = Range(k.free) \ {s}
    /\ Range(k2.dirty) \ {s} = Range(k.dirty) \ {s}
    /\ Range(k2.full) \ {s} = Range(k.full) \ {s}
    /\ s \in SlabsOf(k2)

\* One slab of a cache changes, and may go to another list.
LEMMA SlabChanges ==
    ASSUME NEW k, NEW sl, NEW h, CacheOK(k, sl, h), NEW s \in SlabsOf(k), NEW u, NEW h2, NEW k2,
           Rearranged(DOMAIN sl, s, k, k2),
           SlabOK(u, k.numberOfObjectsInOneSlab, Taken(h2, s)),
           \A x : x # s => Taken(h2, x) = Taken(h, x),
           s \in Range(k2.free) => u.numberOfFreeSlots = k.numberOfObjectsInOneSlab,
           s \in Range(k2.dirty) =>
               u.numberOfFreeSlots \in 1 .. k.numberOfObjectsInOneSlab - 1,
           s \in Range(k2.full) => u.numberOfFreeSlots = 0
    PROVE  CacheOK(k2, With(sl, s, u), h2) /\ SlabsOf(k2) = SlabsOf(k)
<1> DEFINE N == k.numberOfObjectsInOneSlab
           sl2 == With(sl, s, u)
<1>1. s \in DOMAIN sl /\ DOMAIN sl2 = DOMAIN sl /\ sl2[s] = u
      /\ \A x \in DOMAIN sl \ {s} : sl2[x] = sl[x]
  BY CacheFacts DEF With
<1> HIDE DEF sl2
<1>2. SlabsOf(k2) = SlabsOf(k)
  <2>1. \A x : x # s => (x \in SlabsOf(k2) <=> x \in SlabsOf(k))
    BY DEF SlabsOf, Rearranged
  <2>2. ASSUME NEW A, NEW B, s \in A, s \in B, \A x : x # s => (x \in A <=> x \in B)
        PROVE  A = B
    <3>1. \A x : x \in A <=> x \in B
      BY <2>2
    <3> QED
      BY <3>1
  <2> QED
    BY <2>1, <2>2 DEF Rearranged
<1>3. \A x \in SlabsOf(k2) : SlabOK(sl2[x], N, Taken(h2, x))
  <2>1. \A x \in SlabsOf(k) : SlabOK(sl[x], N, Taken(h, x))
    BY DEF CacheOK
  <2> QED
    BY <1>1, <1>2, <2>1, CacheFacts
<1>4. Sorted(k2, FreeSlotsIn(sl2), N)
  <2>1. FreeSlotsIn(sl2)[s] = u.numberOfFreeSlots
    BY <1>1 DEF FreeSlotsIn
  <2>2. \A x \in SlabsOf(k) \ {s} : FreeSlotsIn(sl2)[x] = FreeSlotsIn(sl)[x]
    BY <1>1, CacheFacts DEF FreeSlotsIn
  <2>3. Sorted(k, FreeSlotsIn(sl), N)
    BY CacheFacts
  <2>4. \A x \in Range(k2.free) : FreeSlotsIn(sl2)[x] = N
    <3> SUFFICES ASSUME NEW x \in Range(k2.free), x # s PROVE FreeSlotsIn(sl2)[x] = N
      BY <2>1
    <3>1. x \in Range(k.free)
      BY DEF Rearranged
    <3> QED
      BY <2>2, <2>3, <3>1 DEF Sorted, SlabsOf
  <2>5. \A x \in Range(k2.dirty) : FreeSlotsIn(sl2)[x] \in 1 .. N - 1
    <3> SUFFICES ASSUME NEW x \in Range(k2.dirty), x # s PROVE FreeSlotsIn(sl2)[x] \in 1 .. N - 1
      BY <2>1
    <3>1. x \in Range(k.dirty)
      BY DEF Rearranged
    <3> QED
      BY <2>2, <2>3, <3>1 DEF Sorted, SlabsOf
  <2>6. \A x \in Range(k2.full) : FreeSlotsIn(sl2)[x] = 0
    <3> SUFFICES ASSUME NEW x \in Range(k2.full), x # s PROVE FreeSlotsIn(sl2)[x] = 0
      BY <2>1
    <3>1. x \in Range(k.full)
      BY DEF Rearranged
    <3> QED
      BY <2>2, <2>3, <3>1 DEF Sorted, SlabsOf
  <2> QED
    BY <2>4, <2>5, <2>6 DEF Sorted
<1>5. k2.numberOfSlabs = Len(k2.free) + Len(k2.dirty) + Len(k2.full)
  BY DEF CacheOK, Rearranged
<1>6. /\ k2.objectSizeInBytes \in ObjectSizes
      /\ N = NumberOfSlots(k2.objectSizeInBytes)
      /\ SizeCovers(k2)
  BY DEF CacheOK, Rearranged, SizeCovers
<1>7. /\ DOMAIN k2 = CacheFields /\ N = k2.numberOfObjectsInOneSlab
      /\ k2.free \in Seq(DOMAIN sl2) /\ k2.dirty \in Seq(DOMAIN sl2) /\ k2.full \in Seq(DOMAIN sl2)
      /\ Apart(k2.free, k2.dirty, k2.full)
  BY <1>1 DEF Rearranged
<1> QED
  BY <1>2, <1>3, <1>4, <1>5, <1>6, <1>7 DEF CacheOK, FreeSlotsIn, sl2

LEMMA OutsideNothingIsTaken ==
    ASSUME NEW D, NEW h, h \subseteq D \X Int, NEW s, s \notin D
    PROVE  Taken(h, s) = {}
<1>1. ASSUME NEW i, << s, i >> \in h PROVE FALSE
  <2>1. << s, i >> \in D \X Int
    BY <1>1
  <2> QED
    BY <2>1
<1> QED
  BY <1>1 DEF Taken

-----------------------------------------------------------------------------
(* A slab goes to another list of its cache                                *)

LEMMA MovesKeepLength ==
    ASSUME NEW S, NEW s, NEW x \in Seq(S), NEW y \in Seq(S), NEW z \in Seq(S), NEW a, NEW b,
           Moves(S, s, x, y, z, a, b)
    PROVE  /\ Len(a) + Len(b) + Len(z) = Len(x) + Len(y) + Len(z)
           /\ Len(b) + Len(a) + Len(z) = Len(y) + Len(x) + Len(z)
           /\ Len(a) + Len(z) + Len(b) = Len(x) + Len(z) + Len(y)
           /\ Len(b) + Len(z) + Len(a) = Len(y) + Len(z) + Len(x)
           /\ Len(z) + Len(a) + Len(b) = Len(z) + Len(x) + Len(y)
           /\ Len(z) + Len(b) + Len(a) = Len(z) + Len(y) + Len(x)
<1>1. /\ Len(a) \in Nat /\ Len(b) \in Nat /\ Len(x) \in Nat /\ Len(y) \in Nat /\ Len(z) \in Nat
      /\ Len(a) + Len(b) + Len(z) = Len(x) + Len(y) + Len(z)
  BY LenProperties DEF Moves
<1>2. PICK la \in Nat, lb \in Nat, lx \in Nat, ly \in Nat, lz \in Nat :
         la = Len(a) /\ lb = Len(b) /\ lx = Len(x) /\ ly = Len(y) /\ lz = Len(z)
  BY <1>1
<1> QED
  BY <1>1, <1>2

LEMMA DirtyToFull ==
    ASSUME NEW S, NEW k, DOMAIN k = CacheFields, NEW s, NEW a, NEW b,
           k.free \in Seq(S), k.dirty \in Seq(S), k.full \in Seq(S),
           Moves(S, s, k.dirty, k.full, k.free, a, b)
    PROVE  LET r == [k EXCEPT !.dirty = a, !.full = b]
           IN  /\ Rearranged(S, s, k, r)
               /\ s \in Range(r.full) /\ s \notin Range(r.dirty) /\ s \notin Range(r.free)
<1> DEFINE r == [k EXCEPT !.dirty = a, !.full = b]
<1>1. /\ DOMAIN r = CacheFields
      /\ r.objectSizeInBytes = k.objectSizeInBytes
      /\ r.numberOfObjectsInOneSlab = k.numberOfObjectsInOneSlab
      /\ r.numberOfSlabs = k.numberOfSlabs /\ r.cacheSizeInBlocks = k.cacheSizeInBlocks
      /\ r.dirty = a /\ r.full = b /\ r.free = k.free
  BY DEF CacheFields
<1> HIDE DEF r
<1>2. /\ Len(r.free) + Len(r.dirty) + Len(r.full) = Len(k.free) + Len(k.dirty) + Len(k.full)
  <2>1. PICK x \in Seq(S), y \in Seq(S), z \in Seq(S) : x = k.dirty /\ y = k.full /\ z = k.free
    OBVIOUS
  <2>2. Moves(S, s, x, y, z, a, b)
    BY <2>1
  <2>3. Len(z) + Len(a) + Len(b) = Len(z) + Len(x) + Len(y)
    BY <2>2, MovesKeepLength
  <2> QED
    BY <1>1, <2>1, <2>3
<1>3. Apart(r.free, r.dirty, r.full)
  BY <1>1 DEF Moves, Apart
<1>4. Rearranged(S, s, k, r)
  BY <1>1, <1>2, <1>3 DEF Rearranged, Moves, SlabsOf
<1> QED
  BY <1>1, <1>4 DEF Moves, r

LEMMA FreeToFull ==
    ASSUME NEW S, NEW k, DOMAIN k = CacheFields, NEW s, NEW a, NEW b,
           k.dirty \in Seq(S), k.free \in Seq(S), k.full \in Seq(S),
           Moves(S, s, k.free, k.full, k.dirty, a, b)
    PROVE  LET r == [k EXCEPT !.free = a, !.full = b]
           IN  /\ Rearranged(S, s, k, r)
               /\ s \in Range(r.full) /\ s \notin Range(r.free) /\ s \notin Range(r.dirty)
<1> DEFINE r == [k EXCEPT !.free = a, !.full = b]
<1>1. /\ DOMAIN r = CacheFields
      /\ r.objectSizeInBytes = k.objectSizeInBytes
      /\ r.numberOfObjectsInOneSlab = k.numberOfObjectsInOneSlab
      /\ r.numberOfSlabs = k.numberOfSlabs /\ r.cacheSizeInBlocks = k.cacheSizeInBlocks
      /\ r.free = a /\ r.full = b /\ r.dirty = k.dirty
  BY DEF CacheFields
<1> HIDE DEF r
<1>2. /\ Len(r.free) + Len(r.dirty) + Len(r.full) = Len(k.free) + Len(k.dirty) + Len(k.full)
  <2>1. PICK x \in Seq(S), y \in Seq(S), z \in Seq(S) : x = k.free /\ y = k.full /\ z = k.dirty
    OBVIOUS
  <2>2. Moves(S, s, x, y, z, a, b)
    BY <2>1
  <2>3. Len(a) + Len(z) + Len(b) = Len(x) + Len(z) + Len(y)
    BY <2>2, MovesKeepLength
  <2> QED
    BY <1>1, <2>1, <2>3
<1>3. Apart(r.free, r.dirty, r.full)
  BY <1>1 DEF Moves, Apart
<1>4. Rearranged(S, s, k, r)
  BY <1>1, <1>2, <1>3 DEF Rearranged, Moves, SlabsOf
<1> QED
  BY <1>1, <1>4 DEF Moves, r

LEMMA FreeToDirty ==
    ASSUME NEW S, NEW k, DOMAIN k = CacheFields, NEW s, NEW a, NEW b,
           k.full \in Seq(S), k.free \in Seq(S), k.dirty \in Seq(S),
           Moves(S, s, k.free, k.dirty, k.full, a, b)
    PROVE  LET r == [k EXCEPT !.free = a, !.dirty = b]
           IN  /\ Rearranged(S, s, k, r)
               /\ s \in Range(r.dirty) /\ s \notin Range(r.free) /\ s \notin Range(r.full)
<1> DEFINE r == [k EXCEPT !.free = a, !.dirty = b]
<1>1. /\ DOMAIN r = CacheFields
      /\ r.objectSizeInBytes = k.objectSizeInBytes
      /\ r.numberOfObjectsInOneSlab = k.numberOfObjectsInOneSlab
      /\ r.numberOfSlabs = k.numberOfSlabs /\ r.cacheSizeInBlocks = k.cacheSizeInBlocks
      /\ r.free = a /\ r.dirty = b /\ r.full = k.full
  BY DEF CacheFields
<1> HIDE DEF r
<1>2. /\ Len(r.free) + Len(r.dirty) + Len(r.full) = Len(k.free) + Len(k.dirty) + Len(k.full)
  <2>1. PICK x \in Seq(S), y \in Seq(S), z \in Seq(S) : x = k.free /\ y = k.dirty /\ z = k.full
    OBVIOUS
  <2>2. Moves(S, s, x, y, z, a, b)
    BY <2>1
  <2>3. Len(a) + Len(b) + Len(z) = Len(x) + Len(y) + Len(z)
    BY <2>2, MovesKeepLength
  <2> QED
    BY <1>1, <2>1, <2>3
<1>3. Apart(r.free, r.dirty, r.full)
  BY <1>1 DEF Moves, Apart
<1>4. Rearranged(S, s, k, r)
  BY <1>1, <1>2, <1>3 DEF Rearranged, Moves, SlabsOf
<1> QED
  BY <1>1, <1>4 DEF Moves, r

LEMMA FullToDirty ==
    ASSUME NEW S, NEW k, DOMAIN k = CacheFields, NEW s, NEW a, NEW b,
           k.free \in Seq(S), k.full \in Seq(S), k.dirty \in Seq(S),
           Moves(S, s, k.full, k.dirty, k.free, a, b)
    PROVE  LET r == [k EXCEPT !.full = a, !.dirty = b]
           IN  /\ Rearranged(S, s, k, r)
               /\ s \in Range(r.dirty) /\ s \notin Range(r.full) /\ s \notin Range(r.free)
<1> DEFINE r == [k EXCEPT !.full = a, !.dirty = b]
<1>1. /\ DOMAIN r = CacheFields
      /\ r.objectSizeInBytes = k.objectSizeInBytes
      /\ r.numberOfObjectsInOneSlab = k.numberOfObjectsInOneSlab
      /\ r.numberOfSlabs = k.numberOfSlabs /\ r.cacheSizeInBlocks = k.cacheSizeInBlocks
      /\ r.full = a /\ r.dirty = b /\ r.free = k.free
  BY DEF CacheFields
<1> HIDE DEF r
<1>2. /\ Len(r.free) + Len(r.dirty) + Len(r.full) = Len(k.free) + Len(k.dirty) + Len(k.full)
  <2>1. PICK x \in Seq(S), y \in Seq(S), z \in Seq(S) : x = k.full /\ y = k.dirty /\ z = k.free
    OBVIOUS
  <2>2. Moves(S, s, x, y, z, a, b)
    BY <2>1
  <2>3. Len(z) + Len(b) + Len(a) = Len(z) + Len(y) + Len(x)
    BY <2>2, MovesKeepLength
  <2> QED
    BY <1>1, <2>1, <2>3
<1>3. Apart(r.free, r.dirty, r.full)
  BY <1>1 DEF Moves, Apart
<1>4. Rearranged(S, s, k, r)
  BY <1>1, <1>2, <1>3 DEF Rearranged, Moves, SlabsOf
<1> QED
  BY <1>1, <1>4 DEF Moves, r

LEMMA FullToFree ==
    ASSUME NEW S, NEW k, DOMAIN k = CacheFields, NEW s, NEW a, NEW b,
           k.dirty \in Seq(S), k.full \in Seq(S), k.free \in Seq(S),
           Moves(S, s, k.full, k.free, k.dirty, a, b)
    PROVE  LET r == [k EXCEPT !.full = a, !.free = b]
           IN  /\ Rearranged(S, s, k, r)
               /\ s \in Range(r.free) /\ s \notin Range(r.full) /\ s \notin Range(r.dirty)
<1> DEFINE r == [k EXCEPT !.full = a, !.free = b]
<1>1. /\ DOMAIN r = CacheFields
      /\ r.objectSizeInBytes = k.objectSizeInBytes
      /\ r.numberOfObjectsInOneSlab = k.numberOfObjectsInOneSlab
      /\ r.numberOfSlabs = k.numberOfSlabs /\ r.cacheSizeInBlocks = k.cacheSizeInBlocks
      /\ r.full = a /\ r.free = b /\ r.dirty = k.dirty
  BY DEF CacheFields
<1> HIDE DEF r
<1>2. /\ Len(r.free) + Len(r.dirty) + Len(r.full) = Len(k.free) + Len(k.dirty) + Len(k.full)
  <2>1. PICK x \in Seq(S), y \in Seq(S), z \in Seq(S) : x = k.full /\ y = k.free /\ z = k.dirty
    OBVIOUS
  <2>2. Moves(S, s, x, y, z, a, b)
    BY <2>1
  <2>3. Len(b) + Len(z) + Len(a) = Len(y) + Len(z) + Len(x)
    BY <2>2, MovesKeepLength
  <2> QED
    BY <1>1, <2>1, <2>3
<1>3. Apart(r.free, r.dirty, r.full)
  BY <1>1 DEF Moves, Apart
<1>4. Rearranged(S, s, k, r)
  BY <1>1, <1>2, <1>3 DEF Rearranged, Moves, SlabsOf
<1> QED
  BY <1>1, <1>4 DEF Moves, r

LEMMA DirtyToFree ==
    ASSUME NEW S, NEW k, DOMAIN k = CacheFields, NEW s, NEW a, NEW b,
           k.full \in Seq(S), k.dirty \in Seq(S), k.free \in Seq(S),
           Moves(S, s, k.dirty, k.free, k.full, a, b)
    PROVE  LET r == [k EXCEPT !.dirty = a, !.free = b]
           IN  /\ Rearranged(S, s, k, r)
               /\ s \in Range(r.free) /\ s \notin Range(r.dirty) /\ s \notin Range(r.full)
<1> DEFINE r == [k EXCEPT !.dirty = a, !.free = b]
<1>1. /\ DOMAIN r = CacheFields
      /\ r.objectSizeInBytes = k.objectSizeInBytes
      /\ r.numberOfObjectsInOneSlab = k.numberOfObjectsInOneSlab
      /\ r.numberOfSlabs = k.numberOfSlabs /\ r.cacheSizeInBlocks = k.cacheSizeInBlocks
      /\ r.dirty = a /\ r.free = b /\ r.full = k.full
  BY DEF CacheFields
<1> HIDE DEF r
<1>2. /\ Len(r.free) + Len(r.dirty) + Len(r.full) = Len(k.free) + Len(k.dirty) + Len(k.full)
  <2>1. PICK x \in Seq(S), y \in Seq(S), z \in Seq(S) : x = k.dirty /\ y = k.free /\ z = k.full
    OBVIOUS
  <2>2. Moves(S, s, x, y, z, a, b)
    BY <2>1
  <2>3. Len(b) + Len(a) + Len(z) = Len(y) + Len(x) + Len(z)
    BY <2>2, MovesKeepLength
  <2> QED
    BY <1>1, <2>1, <2>3
<1>3. Apart(r.free, r.dirty, r.full)
  BY <1>1 DEF Moves, Apart
<1>4. Rearranged(S, s, k, r)
  BY <1>1, <1>2, <1>3 DEF Rearranged, Moves, SlabsOf
<1> QED
  BY <1>1, <1>4 DEF Moves, r

-----------------------------------------------------------------------------
(* Allocation                                                              *)

\* The head of a list that is not empty gives up its first slot.
LEMMA TakeFromHead ==
    ASSUME NEW k, NEW sl, NEW h, CacheOK(k, sl, h), NEW s,
           \/ k.dirty # << >> /\ s = Head(k.dirty)
           \/ k.free # << >> /\ s = Head(k.free)
    PROVE  LET t == sl[s]
               i == t.firstFreeSlotIndex
               k2 == AfterAllocation(k, s, t.numberOfFreeSlots - 1)
           IN  /\ s \in SlabsOf(k) /\ i \in Int /\ << s, i >> \notin h
               /\ CacheOK(k2, With(sl, s, TakenSlot(t)), h \cup {<< s, i >>})
               /\ SlabsOf(k2) = SlabsOf(k)
<1> DEFINE N == k.numberOfObjectsInOneSlab
           t == sl[s]
           n == t.numberOfFreeSlots
           i == t.firstFreeSlotIndex
           u == TakenSlot(t)
           h2 == h \cup {<< s, i >>}
           k2 == AfterAllocation(k, s, n - 1)
           S == DOMAIN sl
<1>1. /\ k.free \in Seq(S) /\ k.dirty \in Seq(S) /\ k.full \in Seq(S)
      /\ N \in Nat \ {0} /\ Sorted(k, FreeSlotsIn(sl), N) /\ SlabsOf(k) \subseteq S
  BY CacheFacts
<1>2. Apart(k.free, k.dirty, k.full) /\ DOMAIN k = CacheFields
  BY DEF CacheOK
<1>3. /\ k.dirty # << >> => Head(k.dirty) \in Range(k.dirty)
      /\ k.free # << >> => Head(k.free) \in Range(k.free)
  BY <1>1, TailElements
<1>4. s \in SlabsOf(k) /\ s \in S
  BY <1>1, <1>3 DEF SlabsOf
<1>5. SlabOK(t, N, Taken(h, s)) /\ FreeSlotsIn(sl)[s] = n
  BY <1>4 DEF CacheOK, FreeSlotsIn
<1>6. /\ s \in Range(k.free) => n = N
      /\ s \in Range(k.dirty) => n \in 1 .. N - 1
  BY <1>1, <1>5 DEF Sorted
<1>7. n \in Nat /\ n > 0
  BY <1>1, <1>3, <1>6
<1>8. i \in (0 .. N - 1) \ Taken(h, s) /\ SlabOK(u, N, Taken(h, s) \cup {i})
      /\ u.numberOfFreeSlots = n - 1
  <2> HIDE DEF N, t
  <2> QED
    BY <1>1, <1>5, <1>7, TakenSlotOK DEF n, i, u
<1>9. i \in Int /\ << s, i >> \notin h
  BY <1>1, <1>8 DEF Taken
<1>10. Taken(h2, s) = Taken(h, s) \cup {i} /\ \A x : x # s => Taken(h2, x) = Taken(h, x)
  <2> HIDE DEF i
  <2> QED
    BY <1>9 DEF Taken
<1> HIDE DEF t, n, i, u, h2, S, N
<1>11. ASSUME NEW r, Rearranged(S, s, k, r),
              s \in Range(r.free) => n - 1 = N,
              s \in Range(r.dirty) => n - 1 \in 1 .. N - 1,
              s \in Range(r.full) => n - 1 = 0
       PROVE  CacheOK(r, With(sl, s, u), h2) /\ SlabsOf(r) = SlabsOf(k)
  <2>1. SlabOK(u, N, Taken(h2, s)) /\ \A x : x # s => Taken(h2, x) = Taken(h, x)
    BY <1>8, <1>10
  <2>2. /\ s \in Range(r.free) => u.numberOfFreeSlots = N
        /\ s \in Range(r.dirty) => u.numberOfFreeSlots \in 1 .. N - 1
        /\ s \in Range(r.full) => u.numberOfFreeSlots = 0
    BY <1>8, <1>11
  <2> QED
    BY <1>4, <1>11, <2>1, <2>2, SlabChanges DEF S, N
<1>12. CacheOK(k2, With(sl, s, u), h2) /\ SlabsOf(k2) = SlabsOf(k)
  <2>1. CASE k.dirty # << >> /\ s = Head(k.dirty) /\ n = 1
    <3>1. N > 1 /\ n - 1 = 0
      BY <1>1, <1>3, <1>6, <2>1
    <3>2. k2 = [k EXCEPT !.dirty = Tail(k.dirty), !.full = << s >> \o k.full]
      BY <3>1 DEF AfterAllocation, N
    <3>3. Moves(S, s, k.dirty, k.full, k.free, Tail(k.dirty), << s >> \o k.full)
      <4>1. Apart(k.dirty, k.full, k.free)
        BY <1>2 DEF Apart
      <4> QED
        BY <1>1, <2>1, <4>1, HeadMoves
    <3> HIDE DEF k2
    <3>4. /\ Rearranged(S, s, k, k2)
          /\ s \in Range(k2.full) /\ s \notin Range(k2.dirty) /\ s \notin Range(k2.free)
      BY <1>1, <1>2, <3>2, <3>3, DirtyToFull
    <3> QED
      BY <1>11, <3>1, <3>4
  <2>2. CASE k.dirty # << >> /\ s = Head(k.dirty) /\ n # 1
    <3>1. n - 1 # 0 /\ n - 1 # N - 1 /\ n - 1 \in 1 .. N - 1 /\ s \in Range(k.dirty)
      BY <1>1, <1>3, <1>6, <2>2
    <3>2. k2 = k
      BY <3>1 DEF AfterAllocation, N
    <3>3. Rearranged(S, s, k, k)
      BY <1>1, <1>2, <1>4 DEF Rearranged
    <3>4. s \notin Range(k.free) /\ s \notin Range(k.full)
      BY <1>2, <3>1 DEF Apart
    <3> QED
      BY <1>11, <3>1, <3>2, <3>3, <3>4
  <2>3. CASE k.free # << >> /\ s = Head(k.free) /\ N = 1
    <3>1. n - 1 = 0
      BY <1>1, <1>3, <1>6, <2>3
    <3>2. k2 = [k EXCEPT !.free = Tail(k.free), !.full = << s >> \o k.full]
      BY <2>3, <3>1 DEF AfterAllocation, N
    <3>3. Moves(S, s, k.free, k.full, k.dirty, Tail(k.free), << s >> \o k.full)
      <4>1. Apart(k.free, k.full, k.dirty)
        BY <1>2 DEF Apart
      <4> QED
        BY <1>1, <2>3, <4>1, HeadMoves
    <3> HIDE DEF k2
    <3>4. /\ Rearranged(S, s, k, k2)
          /\ s \in Range(k2.full) /\ s \notin Range(k2.dirty) /\ s \notin Range(k2.free)
      BY <1>1, <1>2, <3>2, <3>3, FreeToFull
    <3> QED
      BY <1>11, <3>1, <3>4
  <2>4. CASE k.free # << >> /\ s = Head(k.free) /\ N # 1
    <3>1. n - 1 # 0 /\ n - 1 = N - 1 /\ n - 1 \in 1 .. N - 1
      BY <1>1, <1>3, <1>6, <2>4
    <3>2. k2 = [k EXCEPT !.free = Tail(k.free), !.dirty = << s >> \o k.dirty]
      BY <3>1 DEF AfterAllocation, N
    <3>3. Moves(S, s, k.free, k.dirty, k.full, Tail(k.free), << s >> \o k.dirty)
      BY <1>1, <1>2, <2>4, HeadMoves
    <3> HIDE DEF k2
    <3>4. /\ Rearranged(S, s, k, k2)
          /\ s \in Range(k2.dirty) /\ s \notin Range(k2.free) /\ s \notin Range(k2.full)
      BY <1>1, <1>2, <3>2, <3>3, FreeToDirty
    <3> QED
      BY <1>11, <3>1, <3>4
  <2> QED
    BY <2>1, <2>2, <2>3, <2>4
<1> QED
  BY <1>4, <1>9, <1>12 DEF t, n, i, u, h2

\* The counters of a cache that gets one slab more.
LEMMA GrownFields ==
    ASSUME NEW k, DOMAIN k = CacheFields, NEW s
    PROVE  LET r == GrownCache(k, s)
           IN  /\ DOMAIN r = CacheFields
               /\ r.objectSizeInBytes = k.objectSizeInBytes
               /\ r.numberOfObjectsInOneSlab = k.numberOfObjectsInOneSlab
               /\ r.numberOfSlabs = k.numberOfSlabs + 1
               /\ r.cacheSizeInBlocks = k.cacheSizeInBlocks
                    + Power[Exponent(Ceil(SlabBytes(k.numberOfObjectsInOneSlab,
                                                    k.objectSizeInBytes)))]
               /\ r.free = << s >> \o k.free /\ r.dirty = k.dirty /\ r.full = k.full
BY DEF GrownCache, CacheFields

\* A new slab comes in front of the free list.
LEMMA CacheGrows ==
    ASSUME NEW k, NEW sl, NEW h, CacheOK(k, sl, h), h \subseteq (DOMAIN sl) \X Int,
           NEW s, s \notin DOMAIN sl
    PROVE  LET k2 == GrownCache(k, s)
               sl2 == With(sl, s, NewSlab(k.numberOfObjectsInOneSlab))
           IN  /\ CacheOK(k2, sl2, h) /\ SlabsOf(k2) = SlabsOf(k) \cup {s}
               /\ k2.free # << >> /\ Head(k2.free) = s
<1> DEFINE N == k.numberOfObjectsInOneSlab
           u == NewSlab(N)
           k2 == GrownCache(k, s)
           sl2 == With(sl, s, u)
           S == DOMAIN sl
           f == << s >> \o k.free
<1>1. /\ k.free \in Seq(S) /\ k.dirty \in Seq(S) /\ k.full \in Seq(S)
      /\ Len(k.free) \in Nat /\ Len(k.dirty) \in Nat /\ Len(k.full) \in Nat
      /\ N \in Nat \ {0} /\ Sorted(k, FreeSlotsIn(sl), N) /\ SlabsOf(k) \subseteq S
  BY CacheFacts
<1>2. /\ DOMAIN sl2 = S \cup {s} /\ sl2[s] = u
      /\ \A x \in S : sl2[x] = sl[x]
  BY DEF With
<1>3. SlabOK(u, N, {}) /\ u.numberOfFreeSlots = N
  BY <1>1, NewSlabOK
<1>4. Taken(h, s) = {}
  BY OutsideNothingIsTaken
<1>5. k.free \in Seq(S \cup {s}) /\ k.dirty \in Seq(S \cup {s}) /\ k.full \in Seq(S \cup {s})
  BY <1>1
<1>6. /\ f \in Seq(S \cup {s}) /\ Len(f) = Len(k.free) + 1 /\ f[1] = s
      /\ Range(f) = Range(k.free) \cup {s}
      /\ IsInjective(k.free) /\ s \notin Range(k.free) => IsInjective(f)
  BY <1>5, ConsElements
<1>7. DOMAIN k = CacheFields /\ Apart(k.free, k.dirty, k.full)
  BY DEF CacheOK
<1>8. /\ DOMAIN k2 = CacheFields
      /\ k2.objectSizeInBytes = k.objectSizeInBytes
      /\ k2.numberOfObjectsInOneSlab = N
      /\ k2.numberOfSlabs = k.numberOfSlabs + 1
      /\ k2.cacheSizeInBlocks
            = k.cacheSizeInBlocks + Power[Exponent(Ceil(SlabBytes(N, k.objectSizeInBytes)))]
      /\ k2.free = f /\ k2.dirty = k.dirty /\ k2.full = k.full
  BY <1>7, GrownFields
<1> HIDE DEF k2, sl2, f, u, S
<1>9. s \notin Range(k.free) /\ s \notin Range(k.dirty) /\ s \notin Range(k.full)
  BY <1>1 DEF SlabsOf, S
<1>10. Apart(k2.free, k2.dirty, k2.full)
  BY <1>6, <1>7, <1>8, <1>9 DEF Apart
<1>11. SlabsOf(k2) = SlabsOf(k) \cup {s}
  BY <1>6, <1>8 DEF SlabsOf
<1>12. k2.numberOfSlabs = Len(k2.free) + Len(k2.dirty) + Len(k2.full)
  <2>1. k.numberOfSlabs = Len(k.free) + Len(k.dirty) + Len(k.full)
    BY DEF CacheOK
  <2>2. PICK a \in Nat, b \in Nat, c \in Nat :
           a = Len(k.free) /\ b = Len(k.dirty) /\ c = Len(k.full)
    BY <1>1
  <2>3. (a + b + c) + 1 = (a + 1) + b + c
    OBVIOUS
  <2> QED
    BY <1>6, <1>8, <2>1, <2>2, <2>3
<1>13. SizeCovers(k2)
  <2>1. PICK size \in ObjectSizes : size = k.objectSizeInBytes
    BY DEF CacheOK
  <2>2. N = NumberOfSlots(size)
    BY <2>1 DEF CacheOK
  <2>3. Power[Exponent(Ceil(SlabBytes(N, size)))] = SlabPower(size)
    BY <2>1, <2>2 DEF SlabPower, SlabBlocks
  <2>4. k.numberOfSlabs \in Nat
    <3>1. k.numberOfSlabs = Len(k.free) + Len(k.dirty) + Len(k.full)
      BY DEF CacheOK
    <3>2. PICK a \in Nat, b \in Nat, c \in Nat :
             a = Len(k.free) /\ b = Len(k.dirty) /\ c = Len(k.full)
      BY <1>1
    <3>3. a + b + c \in Nat
      OBVIOUS
    <3> QED
      BY <3>1, <3>2, <3>3
  <2>5. SlabPower(size) \in Nat
    BY SizesAreNat
  <2>6. PICK m \in Nat, b \in Nat : m = k.numberOfSlabs /\ b = SlabPower(size)
    BY <2>4, <2>5
  <2>7. PICK z \in Int : z = k.cacheSizeInBlocks /\ z >= m * b
    BY <2>1, <2>6 DEF CacheOK, SizeCovers
  <2>8. z + b \in Int /\ z + b >= (m + 1) * b
    <3>1. (m + 1) * b = m * b + b /\ m * b \in Nat
      OBVIOUS
    <3> QED
      BY <2>7, <3>1
  <2> QED
    BY <1>8, <2>1, <2>3, <2>6, <2>7, <2>8 DEF SizeCovers
<1>14. \A x \in SlabsOf(k2) : SlabOK(sl2[x], N, Taken(h, x))
  <2>1. \A x \in SlabsOf(k) : SlabOK(sl[x], N, Taken(h, x))
    BY DEF CacheOK
  <2> QED
    BY <1>1, <1>2, <1>3, <1>4, <1>11, <2>1
<1>15. Sorted(k2, FreeSlotsIn(sl2), N)
  <2>1. FreeSlotsIn(sl2)[s] = N /\ \A x \in SlabsOf(k) : FreeSlotsIn(sl2)[x] = FreeSlotsIn(sl)[x]
    BY <1>1, <1>2, <1>3 DEF FreeSlotsIn, S
  <2> QED
    BY <1>1, <1>6, <1>8, <2>1 DEF Sorted, SlabsOf
<1>16. k2.objectSizeInBytes \in ObjectSizes /\ N = NumberOfSlots(k2.objectSizeInBytes)
  BY <1>8 DEF CacheOK
<1>17. k2.free \in Seq(DOMAIN sl2) /\ k2.dirty \in Seq(DOMAIN sl2) /\ k2.full \in Seq(DOMAIN sl2)
  BY <1>2, <1>5, <1>6, <1>8
<1>18. CacheOK(k2, sl2, h)
  BY <1>8, <1>10, <1>12, <1>13, <1>14, <1>15, <1>16, <1>17 DEF CacheOK, FreeSlotsIn
<1>19. f # << >> /\ Head(f) = s
  <2>1. Len(f) # 0
    BY <1>1, <1>6
  <2> QED
    BY <1>5, <1>6, <2>1, TailElements
<1> QED
  BY <1>8, <1>11, <1>18, <1>19 DEF k2, sl2, u

-----------------------------------------------------------------------------
(* Release                                                                 *)

\* An object goes back to its slab, which deallocateObject finds.
LEMMA ObjectComesBack ==
    ASSUME NEW k, NEW sl, NEW h, CacheOK(k, sl, h),
           NEW s \in Range(k.dirty) \cup Range(k.full), NEW i \in Taken(h, s)
    PROVE  LET k2 == AfterDeallocation(k, s, sl[s].numberOfFreeSlots + 1)
           IN  /\ CacheOK(k2, With(sl, s, ReturnedSlot(sl[s], i)), h \ {<< s, i >>})
               /\ SlabsOf(k2) = SlabsOf(k)
<1> DEFINE N == k.numberOfObjectsInOneSlab
           t == sl[s]
           n == t.numberOfFreeSlots
           u == ReturnedSlot(t, i)
           h2 == h \ {<< s, i >>}
           k2 == AfterDeallocation(k, s, n + 1)
           S == DOMAIN sl
<1>1. /\ k.free \in Seq(S) /\ k.dirty \in Seq(S) /\ k.full \in Seq(S)
      /\ N \in Nat \ {0} /\ Sorted(k, FreeSlotsIn(sl), N) /\ SlabsOf(k) \subseteq S
  BY CacheFacts
<1>2. Apart(k.free, k.dirty, k.full) /\ DOMAIN k = CacheFields
  BY DEF CacheOK
<1>3. s \in SlabsOf(k) /\ s \in S
  BY <1>1 DEF SlabsOf
<1>4. SlabOK(t, N, Taken(h, s)) /\ FreeSlotsIn(sl)[s] = n
  BY <1>3 DEF CacheOK, FreeSlotsIn
<1>5. /\ s \in Range(k.dirty) => n \in 1 .. N - 1
      /\ s \in Range(k.full) => n = 0
  BY <1>1, <1>4 DEF Sorted
<1>6. SlabOK(u, N, Taken(h, s) \ {i}) /\ u.numberOfFreeSlots = n + 1
  <2> HIDE DEF N, t
  <2> QED
    BY <1>1, <1>4, ReturnedSlotOK DEF n, u
<1>7. Taken(h2, s) = Taken(h, s) \ {i} /\ \A x : x # s => Taken(h2, x) = Taken(h, x)
  <2>1. i \in Int
    BY DEF Taken
  <2> QED
    BY <2>1 DEF Taken
<1> HIDE DEF t, n, u, h2, S, N
<1>8. ASSUME NEW r, Rearranged(S, s, k, r),
              s \in Range(r.free) => n + 1 = N,
              s \in Range(r.dirty) => n + 1 \in 1 .. N - 1,
              s \in Range(r.full) => n + 1 = 0
       PROVE  CacheOK(r, With(sl, s, u), h2) /\ SlabsOf(r) = SlabsOf(k)
  <2>1. SlabOK(u, N, Taken(h2, s)) /\ \A x : x # s => Taken(h2, x) = Taken(h, x)
    BY <1>6, <1>7
  <2>2. /\ s \in Range(r.free) => u.numberOfFreeSlots = N
        /\ s \in Range(r.dirty) => u.numberOfFreeSlots \in 1 .. N - 1
        /\ s \in Range(r.full) => u.numberOfFreeSlots = 0
    BY <1>6, <1>8
  <2> QED
    BY <1>3, <1>8, <2>1, <2>2, SlabChanges DEF S, N
<1>9. CacheOK(k2, With(sl, s, u), h2) /\ SlabsOf(k2) = SlabsOf(k)
  <2>1. CASE s \in Range(k.full) /\ N > 1
    <3>1. n + 1 = 1
      BY <1>5, <2>1
    <3>2. k2 = [k EXCEPT !.full = RemoveFirst(k.full, s), !.dirty = << s >> \o k.dirty]
      BY <2>1, <3>1 DEF AfterDeallocation, Moved, N
    <3>3. Moves(S, s, k.full, k.dirty, k.free, RemoveFirst(k.full, s), << s >> \o k.dirty)
      <4>1. Apart(k.full, k.dirty, k.free)
        BY <1>2 DEF Apart
      <4> QED
        BY <1>1, <2>1, <4>1, AnyMoves
    <3> HIDE DEF k2
    <3>4. /\ Rearranged(S, s, k, k2)
          /\ s \in Range(k2.dirty) /\ s \notin Range(k2.full) /\ s \notin Range(k2.free)
      BY <1>1, <1>2, <3>2, <3>3, FullToDirty
    <3>5. n + 1 \in 1 .. N - 1
      BY <1>1, <2>1, <3>1
    <3> QED
      BY <1>8, <3>4, <3>5
  <2>2. CASE s \in Range(k.full) /\ ~ (N > 1)
    <3>1. n + 1 = 1 /\ N = 1
      BY <1>1, <1>5, <2>2
    <3>2. k2 = [k EXCEPT !.full = RemoveFirst(k.full, s), !.free = << s >> \o k.free]
      BY <2>2, <3>1 DEF AfterDeallocation, Moved, N
    <3>3. Moves(S, s, k.full, k.free, k.dirty, RemoveFirst(k.full, s), << s >> \o k.free)
      <4>1. Apart(k.full, k.free, k.dirty)
        BY <1>2 DEF Apart
      <4> QED
        BY <1>1, <2>2, <4>1, AnyMoves
    <3> HIDE DEF k2
    <3>4. /\ Rearranged(S, s, k, k2)
          /\ s \in Range(k2.free) /\ s \notin Range(k2.full) /\ s \notin Range(k2.dirty)
      BY <1>1, <1>2, <3>2, <3>3, FullToFree
    <3> QED
      BY <1>8, <3>1, <3>4
  <2>3. CASE s \in Range(k.dirty) /\ n + 1 = N
    <3>1. n + 1 # 1
      BY <1>1, <1>5, <2>3
    <3>2. k2 = [k EXCEPT !.dirty = RemoveFirst(k.dirty, s), !.free = << s >> \o k.free]
      BY <2>3, <3>1 DEF AfterDeallocation, Moved, N
    <3>3. Moves(S, s, k.dirty, k.free, k.full, RemoveFirst(k.dirty, s), << s >> \o k.free)
      <4>1. Apart(k.dirty, k.free, k.full)
        BY <1>2 DEF Apart
      <4> QED
        BY <1>1, <2>3, <4>1, AnyMoves
    <3> HIDE DEF k2
    <3>4. /\ Rearranged(S, s, k, k2)
          /\ s \in Range(k2.free) /\ s \notin Range(k2.full) /\ s \notin Range(k2.dirty)
      BY <1>1, <1>2, <3>2, <3>3, DirtyToFree
    <3> QED
      BY <1>8, <2>3, <3>4
  <2>4. CASE s \in Range(k.dirty) /\ n + 1 # N
    <3>1. n + 1 # 1 /\ n + 1 \in 1 .. N - 1
      BY <1>1, <1>5, <2>4
    <3>2. k2 = k
      BY <2>4, <3>1 DEF AfterDeallocation, N
    <3>3. Rearranged(S, s, k, k)
      BY <1>1, <1>2, <1>3 DEF Rearranged
    <3>4. s \notin Range(k.free) /\ s \notin Range(k.full)
      BY <1>2, <2>4 DEF Apart
    <3> QED
      BY <1>8, <3>1, <3>2, <3>3, <3>4
  <2> QED
    BY <2>1, <2>2, <2>3, <2>4
<1> QED
  BY <1>9 DEF t, n, u, h2

-----------------------------------------------------------------------------
(* Caches come, change and go                                              *)

\* The steps of a cache touch its own slabs only.
LEMMA ChangedCache ==
    ASSUME NEW ca, NEW sl, NEW h, Consistent(ca, sl, h), NEW c \in DOMAIN ca,
           NEW k2, NEW sl2, NEW h2, CacheOK(k2, sl2, h2),
           h2 \subseteq (DOMAIN sl2) \X Int,
           SlabsOf(k2) \subseteq SlabsOf(ca[c]) \cup {x \in DOMAIN sl2 : x \notin DOMAIN sl},
           \A x \in DOMAIN sl2 : x \in SlabsOf(k2) \/ x \in DOMAIN sl,
           \A x \in SlabsOf(ca[c]) : x \in SlabsOf(k2) \/ x \notin DOMAIN sl2,
           \A x \in DOMAIN sl : x \notin SlabsOf(ca[c]) =>
               x \in DOMAIN sl2 /\ sl2[x] = sl[x] /\ Taken(h2, x) = Taken(h, x)
    PROVE  Consistent([ca EXCEPT ![c] = k2], sl2, h2)
<1> DEFINE ca2 == [ca EXCEPT ![c] = k2]
<1>1. DOMAIN ca2 = DOMAIN ca /\ ca2[c] = k2 /\ \A d \in DOMAIN ca : d # c => ca2[d] = ca[d]
  OBVIOUS
<1> HIDE DEF ca2
<1>2. \A d \in DOMAIN ca : CacheOK(ca[d], sl, h) /\ SlabsOf(ca[d]) \subseteq DOMAIN sl
  <2>1. \A d \in DOMAIN ca : CacheOK(ca[d], sl, h)
    BY DEF Consistent
  <2> QED
    BY <2>1, CacheFacts
<1>3. \A d, e \in DOMAIN ca : d # e => SlabsOf(ca[d]) \cap SlabsOf(ca[e]) = {}
  BY DEF Consistent
<1>4. ASSUME NEW d \in DOMAIN ca, d # c
      PROVE  CacheOK(ca2[d], sl2, h2) /\ SlabsOf(ca2[d]) \cap SlabsOf(k2) = {}
  <2>1. \A x \in SlabsOf(ca[d]) : x \in DOMAIN sl /\ x \notin SlabsOf(ca[c])
    BY <1>2, <1>3, <1>4
  <2>2. \A x \in SlabsOf(ca[d]) : x \in DOMAIN sl2 /\ sl2[x] = sl[x] /\ Taken(h2, x) = Taken(h, x)
    BY <2>1
  <2>3. CacheOK(ca[d], sl2, h2)
    BY <1>2, <2>2, OthersDoNotMatter
  <2>4. SlabsOf(ca[d]) \cap SlabsOf(k2) = {}
    BY <2>1
  <2> QED
    BY <1>1, <1>4, <2>3, <2>4
<1>5. \A d, e \in DOMAIN ca2 : d # e => SlabsOf(ca2[d]) \cap SlabsOf(ca2[e]) = {}
  <2> TAKE d, e \in DOMAIN ca2
  <2> HAVE d # e
  <2>1. CASE d = c
    BY <1>1, <1>4, <2>1
  <2>2. CASE e = c
    BY <1>1, <1>4, <2>2
  <2>3. CASE d # c /\ e # c
    BY <1>1, <1>3, <2>3
  <2> QED
    BY <2>1, <2>2, <2>3
<1>6. \A x \in DOMAIN sl2 : \E d \in DOMAIN ca2 : x \in SlabsOf(ca2[d])
  <2> TAKE x \in DOMAIN sl2
  <2>1. CASE x \in SlabsOf(k2)
    BY <1>1, <2>1
  <2>2. CASE x \notin SlabsOf(k2)
    <3>1. x \in DOMAIN sl /\ x \notin SlabsOf(ca[c])
      BY <2>2
    <3>2. PICK d \in DOMAIN ca : x \in SlabsOf(ca[d])
      BY <3>1 DEF Consistent
    <3> QED
      BY <1>1, <3>1, <3>2
  <2> QED
    BY <2>1, <2>2
<1>7. \A d \in DOMAIN ca2 : CacheOK(ca2[d], sl2, h2)
  BY <1>1, <1>4
<1> QED
  BY <1>5, <1>6, <1>7 DEF Consistent, ca2

\* A cache without slabs.
EmptyCache(k) ==
    /\ DOMAIN k = CacheFields
    /\ k.objectSizeInBytes \in ObjectSizes
    /\ k.numberOfObjectsInOneSlab = NumberOfSlots(k.objectSizeInBytes)
    /\ k.free = << >> /\ k.dirty = << >> /\ k.full = << >>
    /\ k.numberOfSlabs = 0 /\ k.cacheSizeInBlocks = 0

LEMMA EmptyCacheOK ==
    ASSUME NEW k, NEW sl, NEW h, EmptyCache(k)
    PROVE  CacheOK(k, sl, h) /\ SlabsOf(k) = {}
<1>1. << >> \in Seq(DOMAIN sl) /\ Len(<< >>) = 0 /\ Range(<< >>) = {} /\ IsInjective(<< >>)
  <2>1. << >> \in Seq(DOMAIN sl) /\ Len(<< >>) = 0
    OBVIOUS
  <2>2. DOMAIN << >> = {}
    OBVIOUS
  <2> QED
    BY <2>1, <2>2 DEF Range, IsInjective
<1>2. SlabsOf(k) = {}
  BY <1>1 DEF EmptyCache, SlabsOf
<1>3. 0 + 0 + 0 = 0 /\ SizeCovers(k)
  <2>1. SlabPower(k.objectSizeInBytes) \in Nat
    BY SizesAreNat DEF EmptyCache
  <2>2. \A b \in Nat : 0 >= 0 * b
    OBVIOUS
  <2> QED
    BY <2>1, <2>2 DEF EmptyCache, SizeCovers
<1> QED
  BY <1>1, <1>2, <1>3 DEF CacheOK, EmptyCache, Apart, Sorted

LEMMA AddedCache ==
    ASSUME NEW ca, NEW sl, NEW h, Consistent(ca, sl, h), NEW c, c \notin DOMAIN ca,
           NEW k, EmptyCache(k)
    PROVE  Consistent(With(ca, c, k), sl, h)
<1> DEFINE ca2 == With(ca, c, k)
<1>1. DOMAIN ca2 = DOMAIN ca \cup {c} /\ ca2[c] = k /\ \A d \in DOMAIN ca : ca2[d] = ca[d]
  BY DEF With
<1> HIDE DEF ca2
<1>2. CacheOK(k, sl, h) /\ SlabsOf(k) = {}
  BY EmptyCacheOK
<1> QED
  BY <1>1, <1>2 DEF Consistent, ca2

LEMMA RemovedCache ==
    ASSUME NEW ca, NEW sl, NEW h, Consistent(ca, sl, h), NEW c \in DOMAIN ca
    PROVE  Consistent(Restrict(ca, DOMAIN ca \ {c}),
                      Restrict(sl, DOMAIN sl \ SlabsOf(ca[c])),
                      {o \in h : o[1] \notin SlabsOf(ca[c])})
<1> DEFINE gone == SlabsOf(ca[c])
           ca2 == Restrict(ca, DOMAIN ca \ {c})
           sl2 == Restrict(sl, DOMAIN sl \ gone)
           h2 == {o \in h : o[1] \notin gone}
<1>1. /\ DOMAIN ca2 = DOMAIN ca \ {c} /\ \A d \in DOMAIN ca2 : ca2[d] = ca[d]
      /\ DOMAIN sl2 = DOMAIN sl \ gone /\ \A x \in DOMAIN sl2 : sl2[x] = sl[x]
  BY DEF Restrict
<1>2. \A x : x \notin gone => Taken(h2, x) = Taken(h, x)
  BY DEF Taken
<1>3. h2 \subseteq (DOMAIN sl \ gone) \X Int
  <2>1. h \subseteq (DOMAIN sl) \X Int
    BY DEF Consistent
  <2> QED
    BY <2>1
<1> HIDE DEF ca2, sl2, h2, gone
<1>4. \A d \in DOMAIN ca : CacheOK(ca[d], sl, h) /\ SlabsOf(ca[d]) \subseteq DOMAIN sl
  <2>1. \A d \in DOMAIN ca : CacheOK(ca[d], sl, h)
    BY DEF Consistent
  <2> QED
    BY <2>1, CacheFacts
<1>5. \A d, e \in DOMAIN ca : d # e => SlabsOf(ca[d]) \cap SlabsOf(ca[e]) = {}
  BY DEF Consistent
<1>6. ASSUME NEW d \in DOMAIN ca2 PROVE CacheOK(ca2[d], sl2, h2)
  <2>1. d \in DOMAIN ca /\ d # c /\ ca2[d] = ca[d]
    BY <1>1
  <2>2. \A x \in SlabsOf(ca[d]) : x \in DOMAIN sl /\ x \notin gone
    BY <1>4, <1>5, <2>1 DEF gone
  <2>3. \A x \in SlabsOf(ca[d]) : x \in DOMAIN sl2 /\ sl2[x] = sl[x] /\ Taken(h2, x) = Taken(h, x)
    BY <1>1, <1>2, <2>2
  <2> QED
    BY <1>4, <2>1, <2>3, OthersDoNotMatter
<1>7. \A d, e \in DOMAIN ca2 : d # e => SlabsOf(ca2[d]) \cap SlabsOf(ca2[e]) = {}
  BY <1>1, <1>5
<1>8. \A x \in DOMAIN sl2 : \E d \in DOMAIN ca2 : x \in SlabsOf(ca2[d])
  <2> TAKE x \in DOMAIN sl2
  <2>1. x \in DOMAIN sl /\ x \notin gone
    BY <1>1
  <2>2. PICK d \in DOMAIN ca : x \in SlabsOf(ca[d])
    BY <2>1 DEF Consistent
  <2>3. d # c
    BY <2>1, <2>2 DEF gone
  <2> QED
    BY <1>1, <2>2, <2>3
<1>9. Consistent(ca2, sl2, h2)
  BY <1>1, <1>3, <1>6, <1>7, <1>8 DEF Consistent
<1> QED
  BY <1>9 DEF ca2, sl2, h2, gone

-----------------------------------------------------------------------------
(* Steps of one cache                                                      *)

\* The error and the two flags say nothing of the slabs.
LEMMA FlagsDoNotMatter ==
    ASSUME NEW k, NEW sl, NEW h, CacheOK(k, sl, h), NEW k2, DOMAIN k2 = CacheFields,
           \A x \in CacheFields \ {"didCacheGrow", "didCacheShrink", "cacheError"} : k2[x] = k[x]
    PROVE  CacheOK(k2, sl, h) /\ SlabsOf(k2) = SlabsOf(k)
<1>1. /\ k2.objectSizeInBytes = k.objectSizeInBytes
      /\ k2.numberOfObjectsInOneSlab = k.numberOfObjectsInOneSlab
      /\ k2.numberOfSlabs = k.numberOfSlabs /\ k2.cacheSizeInBlocks = k.cacheSizeInBlocks
      /\ k2.free = k.free /\ k2.dirty = k.dirty /\ k2.full = k.full
  BY DEF CacheFields
<1> QED
  BY <1>1 DEF CacheOK, SlabsOf, Sorted, SizeCovers

LEMMA OnlyFlagsChange ==
    ASSUME NEW ca, NEW sl, NEW h, Consistent(ca, sl, h), NEW c \in DOMAIN ca,
           NEW k2, DOMAIN k2 = CacheFields,
           \A x \in CacheFields \ {"didCacheGrow", "didCacheShrink", "cacheError"} :
               k2[x] = ca[c][x]
    PROVE  Consistent([ca EXCEPT ![c] = k2], sl, h)
<1>1. CacheOK(ca[c], sl, h) /\ h \subseteq (DOMAIN sl) \X Int
  BY DEF Consistent
<1>2. CacheOK(k2, sl, h) /\ SlabsOf(k2) = SlabsOf(ca[c]) /\ SlabsOf(ca[c]) \subseteq DOMAIN sl
  BY <1>1, FlagsDoNotMatter, CacheFacts
<1> QED
  BY <1>1, <1>2, ChangedCache

LEMMA ObjectIsAllocated ==
    ASSUME NEW ca, NEW sl, NEW h, Consistent(ca, sl, h), NEW c \in DOMAIN ca, NEW s,
           \/ ca[c].dirty # << >> /\ s = Head(ca[c].dirty)
           \/ ca[c].free # << >> /\ s = Head(ca[c].free)
    PROVE  LET t == sl[s]
           IN  Consistent([ca EXCEPT ![c] = AfterAllocation(ca[c], s, t.numberOfFreeSlots - 1)],
                          With(sl, s, TakenSlot(t)),
                          h \cup {<< s, t.firstFreeSlotIndex >>})
<1> DEFINE k == ca[c]
           i == sl[s].firstFreeSlotIndex
           k2 == AfterAllocation(k, s, sl[s].numberOfFreeSlots - 1)
           sl2 == With(sl, s, TakenSlot(sl[s]))
           h2 == h \cup {<< s, i >>}
<1>1. CacheOK(k, sl, h) /\ h \subseteq (DOMAIN sl) \X Int
  BY DEF Consistent
<1>2. SlabsOf(k) \subseteq DOMAIN sl
  BY <1>1, CacheFacts
<1>3. s \in SlabsOf(k) /\ i \in Int /\ CacheOK(k2, sl2, h2) /\ SlabsOf(k2) = SlabsOf(k)
  BY <1>1, TakeFromHead
<1>4. DOMAIN sl2 = DOMAIN sl /\ \A x \in DOMAIN sl : x # s => sl2[x] = sl[x]
  BY <1>2, <1>3 DEF With
<1>5. /\ Taken(h2, s) = Taken(h, s) \cup {i}
      /\ \A x : x # s => Taken(h2, x) = Taken(h, x)
  <2> HIDE DEF i
  <2> QED
    BY <1>3 DEF Taken
<1>6. h2 \subseteq (DOMAIN sl2) \X Int
  <2> HIDE DEF i, sl2
  <2>1. << s, i >> \in (DOMAIN sl2) \X Int
    BY <1>2, <1>3, <1>4
  <2> QED
    BY <1>1, <1>4, <2>1
<1> HIDE DEF k2, sl2, h2, i
<1>7. Consistent([ca EXCEPT ![c] = k2], sl2, h2)
  <2>1. \A x \in DOMAIN sl : x \notin SlabsOf(k) =>
            x \in DOMAIN sl2 /\ sl2[x] = sl[x] /\ Taken(h2, x) = Taken(h, x)
    BY <1>3, <1>4, <1>5
  <2> QED
    BY <1>3, <1>4, <1>6, <2>1, ChangedCache
<1> QED
  BY <1>7 DEF k2, sl2, h2, i

LEMMA NewSlabIsAllocated ==
    ASSUME NEW ca, NEW sl, NEW h, Consistent(ca, sl, h), NEW c \in DOMAIN ca,
           NEW s, s \notin DOMAIN sl
    PROVE  LET t == NewSlab(ca[c].numberOfObjectsInOneSlab)
           IN  Consistent([ca EXCEPT ![c] = AfterAllocation(GrownCache(ca[c], s), s,
                                                            t.numberOfFreeSlots - 1)],
                          With(sl, s, TakenSlot(t)),
                          h \cup {<< s, t.firstFreeSlotIndex >>})
<1> DEFINE k == ca[c]
           t == NewSlab(k.numberOfObjectsInOneSlab)
           i == t.firstFreeSlotIndex
           k1 == GrownCache(k, s)
           sl1 == With(sl, s, t)
           k2 == AfterAllocation(k1, s, t.numberOfFreeSlots - 1)
           sl2 == With(sl, s, TakenSlot(t))
           h2 == h \cup {<< s, i >>}
<1>1. CacheOK(k, sl, h) /\ h \subseteq (DOMAIN sl) \X Int
  BY DEF Consistent
<1>2. SlabsOf(k) \subseteq DOMAIN sl
  BY <1>1, CacheFacts
<1>3. /\ CacheOK(k1, sl1, h) /\ SlabsOf(k1) = SlabsOf(k) \cup {s}
      /\ k1.free # << >> /\ Head(k1.free) = s
  BY <1>1, CacheGrows
<1>4. sl1[s] = t /\ DOMAIN sl1 = DOMAIN sl \cup {s}
  BY DEF With
<1>5. With(sl1, s, TakenSlot(t)) = sl2
  <2> HIDE DEF t
  <2> QED
    BY DEF With
<1> HIDE DEF k1, sl1, t
<1>6. i \in Int /\ CacheOK(k2, sl2, h2) /\ SlabsOf(k2) = SlabsOf(k) \cup {s}
  <2>1. /\ sl1[s].firstFreeSlotIndex \in Int
        /\ CacheOK(AfterAllocation(k1, s, sl1[s].numberOfFreeSlots - 1),
                   With(sl1, s, TakenSlot(sl1[s])), h \cup {<< s, sl1[s].firstFreeSlotIndex >>})
        /\ SlabsOf(AfterAllocation(k1, s, sl1[s].numberOfFreeSlots - 1)) = SlabsOf(k1)
    BY <1>3, TakeFromHead
  <2> QED
    BY <1>3, <1>4, <1>5, <2>1
<1>7. DOMAIN sl2 = DOMAIN sl \cup {s} /\ \A x \in DOMAIN sl : sl2[x] = sl[x]
  BY DEF With
<1>8. /\ Taken(h2, s) = Taken(h, s) \cup {i}
      /\ \A x : x # s => Taken(h2, x) = Taken(h, x)
  <2> HIDE DEF i
  <2> QED
    BY <1>6 DEF Taken
<1>9. h2 \subseteq (DOMAIN sl2) \X Int
  <2> HIDE DEF i, sl2
  <2>1. << s, i >> \in (DOMAIN sl2) \X Int
    BY <1>6, <1>7
  <2> QED
    BY <1>1, <1>7, <2>1
<1> HIDE DEF k2, sl2, h2, i
<1>10. Consistent([ca EXCEPT ![c] = k2], sl2, h2)
  <2>1. \A x \in DOMAIN sl : x \notin SlabsOf(k) =>
            x \in DOMAIN sl2 /\ sl2[x] = sl[x] /\ Taken(h2, x) = Taken(h, x)
    BY <1>7, <1>8
  <2>2. /\ SlabsOf(k2) \subseteq SlabsOf(k) \cup {x \in DOMAIN sl2 : x \notin DOMAIN sl}
        /\ \A x \in DOMAIN sl2 : x \in SlabsOf(k2) \/ x \in DOMAIN sl
        /\ \A x \in SlabsOf(k) : x \in SlabsOf(k2) \/ x \notin DOMAIN sl2
    BY <1>6, <1>7
  <2> QED
    BY <1>6, <1>9, <2>1, <2>2, ChangedCache
<1> QED
  BY <1>10 DEF k2, sl2, h2, i, k1, t

LEMMA ObjectIsReturned ==
    ASSUME NEW ca, NEW sl, NEW h, Consistent(ca, sl, h), NEW c \in DOMAIN ca, NEW o \in h,
           o[1] \in Range(ca[c].dirty) \cup Range(ca[c].full)
    PROVE  Consistent([ca EXCEPT ![c] = AfterDeallocation(@, o[1], sl[o[1]].numberOfFreeSlots + 1)],
                      [sl EXCEPT ![o[1]] = ReturnedSlot(@, o[2])], h \ {o})
<1>1. CacheOK(ca[c], sl, h) /\ h \subseteq (DOMAIN sl) \X Int
  BY DEF Consistent
<1>2. PICK s \in DOMAIN sl, i \in Int : o = << s, i >>
  BY <1>1
<1> DEFINE k == ca[c]
           u == ReturnedSlot(sl[s], i)
           k2 == AfterDeallocation(k, s, sl[s].numberOfFreeSlots + 1)
           sl2 == With(sl, s, u)
           h2 == h \ {<< s, i >>}
<1>3. SlabsOf(k) \subseteq DOMAIN sl
  BY <1>1, CacheFacts
<1>4. s \in Range(k.dirty) \cup Range(k.full) /\ s \in SlabsOf(k) /\ i \in Taken(h, s)
  BY <1>2 DEF Taken, SlabsOf
<1>5. CacheOK(k2, sl2, h2) /\ SlabsOf(k2) = SlabsOf(k)
  BY <1>1, <1>4, ObjectComesBack
<1>6. sl2 = [sl EXCEPT ![s] = u]
  <2> HIDE DEF u
  <2> QED
    BY DEF With
<1>7. DOMAIN sl2 = DOMAIN sl /\ \A x \in DOMAIN sl : x # s => sl2[x] = sl[x]
  BY <1>6
<1>8. /\ Taken(h2, s) = Taken(h, s) \ {i}
      /\ \A x : x # s => Taken(h2, x) = Taken(h, x)
  BY DEF Taken
<1> HIDE DEF k2, sl2, h2, u
<1>9. Consistent([ca EXCEPT ![c] = k2], sl2, h2)
  <2>1. \A x \in DOMAIN sl : x \notin SlabsOf(k) =>
            x \in DOMAIN sl2 /\ sl2[x] = sl[x] /\ Taken(h2, x) = Taken(h, x)
    BY <1>4, <1>7, <1>8
  <2>2. h2 \subseteq (DOMAIN sl2) \X Int
    BY <1>1, <1>7 DEF h2
  <2> QED
    BY <1>3, <1>5, <1>7, <2>1, <2>2, ChangedCache
<1>10. [ca EXCEPT ![c] = AfterDeallocation(@, o[1], sl[o[1]].numberOfFreeSlots + 1)]
          = [ca EXCEPT ![c] = k2]
  BY <1>2 DEF k2
<1>11. [sl EXCEPT ![o[1]] = ReturnedSlot(@, o[2])] = sl2 /\ h \ {o} = h2
  BY <1>2, <1>6 DEF u, h2
<1> QED
  BY <1>9, <1>10, <1>11

\* The fields of a cache that gave its free slabs back.
LEMMA ShrunkFields ==
    ASSUME NEW k, DOMAIN k = CacheFields
    PROVE  LET r == [WithoutSlabs(k, k.free) EXCEPT !.free = << >>, !.didCacheShrink = TRUE]
           IN  /\ DOMAIN r = CacheFields
               /\ r.objectSizeInBytes = k.objectSizeInBytes
               /\ r.numberOfObjectsInOneSlab = k.numberOfObjectsInOneSlab
               /\ r.numberOfSlabs = k.numberOfSlabs - Len(k.free)
               /\ r.cacheSizeInBlocks = k.cacheSizeInBlocks
                    - Len(k.free) * Ceil(SlabBytes(k.numberOfObjectsInOneSlab, k.objectSizeInBytes))
               /\ r.free = << >> /\ r.dirty = k.dirty /\ r.full = k.full
BY DEF WithoutSlabs, CacheFields

\* No object is in a slab that goes back to the buddy allocator.
LEMMA FreeSlabsAreEmpty ==
    ASSUME NEW k, NEW sl, NEW h, CacheOK(k, sl, h), NEW s \in Range(k.free)
    PROVE  Taken(h, s) = {}
<1> DEFINE N == k.numberOfObjectsInOneSlab
<1>1. s \in SlabsOf(k) /\ s \in DOMAIN sl /\ N \in Nat \ {0}
  BY CacheFacts DEF SlabsOf
<1>2. sl[s].numberOfFreeSlots = N
  BY <1>1, CacheFacts DEF Sorted, FreeSlotsIn
<1>3. SlabOK(sl[s], N, Taken(h, s))
  BY <1>1 DEF CacheOK
<1>4. IsFiniteSet(Taken(h, s)) /\ Cardinality(Taken(h, s)) = N - N
  <2> HIDE DEF N
  <2> QED
    BY <1>1, <1>2, <1>3, SlotsAddUp
<1>5. Cardinality(Taken(h, s)) = 0
  BY <1>1, <1>4
<1> QED
  BY <1>4, <1>5, FS_EmptySet

LEMMA FreeSlabsGo ==
    ASSUME NEW ca, NEW sl, NEW h, Consistent(ca, sl, h), NEW c \in DOMAIN ca
    PROVE  LET k == ca[c]
           IN  Consistent([ca EXCEPT ![c] = [WithoutSlabs(k, k.free) EXCEPT
                                                !.free = << >>, !.didCacheShrink = TRUE]],
                          Restrict(sl, DOMAIN sl \ Range(k.free)), h)
<1> DEFINE k == ca[c]
           k2 == [WithoutSlabs(k, k.free) EXCEPT !.free = << >>, !.didCacheShrink = TRUE]
           gone == Range(k.free)
           sl2 == Restrict(sl, DOMAIN sl \ gone)
           N == k.numberOfObjectsInOneSlab
<1>1. CacheOK(k, sl, h) /\ h \subseteq (DOMAIN sl) \X Int
  BY DEF Consistent
<1>2. /\ k.free \in Seq(DOMAIN sl) /\ k.dirty \in Seq(DOMAIN sl) /\ k.full \in Seq(DOMAIN sl)
      /\ Len(k.free) \in Nat /\ Len(k.dirty) \in Nat /\ Len(k.full) \in Nat
      /\ SlabsOf(k) \subseteq DOMAIN sl /\ N \in Nat \ {0} /\ Sorted(k, FreeSlotsIn(sl), N)
  BY <1>1, CacheFacts
<1>3. DOMAIN sl2 = DOMAIN sl \ gone /\ \A x \in DOMAIN sl2 : sl2[x] = sl[x]
  BY DEF Restrict
<1>4. h \subseteq (DOMAIN sl \ gone) \X Int
  <2>1. ASSUME NEW o \in h PROVE o \in (DOMAIN sl \ gone) \X Int
    <3>1. PICK s \in DOMAIN sl, i \in Int : o = << s, i >>
      BY <1>1
    <3>2. s \notin gone
      <4> SUFFICES ASSUME s \in gone PROVE FALSE
        OBVIOUS
      <4>1. Taken(h, s) = {}
        BY <1>1, FreeSlabsAreEmpty
      <4> QED
        BY <3>1, <4>1 DEF Taken
    <3> QED
      BY <3>1, <3>2
  <2> QED
    BY <2>1
<1>5. DOMAIN k = CacheFields /\ Apart(k.free, k.dirty, k.full)
  BY <1>1 DEF CacheOK
<1>6. /\ DOMAIN k2 = CacheFields
      /\ k2.objectSizeInBytes = k.objectSizeInBytes
      /\ k2.numberOfObjectsInOneSlab = N
      /\ k2.numberOfSlabs = k.numberOfSlabs - Len(k.free)
      /\ k2.cacheSizeInBlocks
            = k.cacheSizeInBlocks - Len(k.free) * Ceil(SlabBytes(N, k.objectSizeInBytes))
      /\ k2.free = << >> /\ k2.dirty = k.dirty /\ k2.full = k.full
  BY <1>5, ShrunkFields
<1> HIDE DEF k2, sl2, gone
<1>7. << >> \in Seq(DOMAIN sl2) /\ Len(<< >>) = 0 /\ Range(<< >>) = {} /\ IsInjective(<< >>)
  <2>1. << >> \in Seq(DOMAIN sl2) /\ Len(<< >>) = 0
    OBVIOUS
  <2>2. DOMAIN << >> = {}
    OBVIOUS
  <2> QED
    BY <2>1, <2>2 DEF Range, IsInjective
<1>8. Apart(k2.free, k2.dirty, k2.full)
  BY <1>5, <1>6, <1>7 DEF Apart
<1>9. SlabsOf(k2) = SlabsOf(k) \ gone /\ SlabsOf(k2) \subseteq DOMAIN sl2
  <2>1. Range(k.free) \cap (Range(k.dirty) \cup Range(k.full)) = {}
    BY <1>5 DEF Apart
  <2>2. SlabsOf(k2) = SlabsOf(k) \ gone
    BY <1>6, <1>7, <2>1 DEF SlabsOf, gone
  <2> QED
    BY <1>2, <1>3, <2>2
<1>10. k2.dirty \in Seq(DOMAIN sl2) /\ k2.full \in Seq(DOMAIN sl2)
  <2>1. ASSUME NEW q \in Seq(DOMAIN sl), Range(q) \subseteq SlabsOf(k2) PROVE q \in Seq(DOMAIN sl2)
    <3>1. \A i \in 1 .. Len(q) : q[i] \in DOMAIN sl2
      BY <1>9, <2>1, LenProperties DEF Range
    <3> QED
      BY <3>1, LenProperties, SeqDef
  <2> QED
    BY <1>2, <1>6, <2>1 DEF SlabsOf
<1>11. PICK l \in Nat, d \in Nat, f \in Nat :
          l = Len(k.free) /\ d = Len(k.dirty) /\ f = Len(k.full)
  BY <1>2
<1>12. k.numberOfSlabs = l + d + f /\ k2.numberOfSlabs = d + f
  <2>1. k.numberOfSlabs = l + d + f
    BY <1>1, <1>11 DEF CacheOK
  <2>2. (l + d + f) - l = d + f
    OBVIOUS
  <2> QED
    BY <1>6, <1>11, <2>1, <2>2
<1>13. k2.numberOfSlabs = Len(k2.free) + Len(k2.dirty) + Len(k2.full)
  <2>1. Len(k2.free) = 0 /\ Len(k2.dirty) = d /\ Len(k2.full) = f
    BY <1>6, <1>7, <1>11
  <2>2. 0 + d + f = d + f
    OBVIOUS
  <2> QED
    BY <1>12, <2>1, <2>2
<1>14. SizeCovers(k2)
  <2>1. PICK size \in ObjectSizes : size = k.objectSizeInBytes
    BY <1>1 DEF CacheOK
  <2>2. N = NumberOfSlots(size)
    BY <1>1, <2>1 DEF CacheOK
  <2>3. PICK b \in Nat, p \in Nat : b = SlabBlocks(size) /\ p = SlabPower(size) /\ b <= p
    BY SizesAreNat
  <2>4. Ceil(SlabBytes(N, size)) = b
    BY <2>2, <2>3 DEF SlabBlocks
  <2>5. PICK z \in Int : z = k.cacheSizeInBlocks /\ z >= (l + d + f) * p
    BY <1>1, <1>12, <2>1, <2>3 DEF CacheOK, SizeCovers
  <2>6. z - l * b \in Int /\ z - l * b >= (d + f) * p
    <3>1. (l + d + f) * p = l * p + (d + f) * p /\ l * b <= l * p
      BY <2>3
    <3>2. l * p \in Int /\ (d + f) * p \in Int /\ l * b \in Int
      OBVIOUS
    <3> QED
      BY <2>5, <3>1, <3>2
  <2>7. k2.cacheSizeInBlocks = z - l * b
    BY <1>6, <1>11, <2>1, <2>4, <2>5
  <2> QED
    BY <1>6, <1>12, <2>1, <2>3, <2>6, <2>7 DEF SizeCovers
<1>15. \A x \in SlabsOf(k2) : SlabOK(sl2[x], N, Taken(h, x))
  <2>1. \A x \in SlabsOf(k) : SlabOK(sl[x], N, Taken(h, x))
    BY <1>1 DEF CacheOK
  <2> QED
    BY <1>3, <1>9, <2>1
<1>16. Sorted(k2, FreeSlotsIn(sl2), N)
  <2>1. \A x \in SlabsOf(k2) : FreeSlotsIn(sl2)[x] = FreeSlotsIn(sl)[x]
    BY <1>2, <1>3, <1>9 DEF FreeSlotsIn
  <2> QED
    BY <1>2, <1>6, <1>7, <2>1 DEF Sorted, SlabsOf
<1>17. k2.objectSizeInBytes \in ObjectSizes /\ N = NumberOfSlots(k2.objectSizeInBytes)
  BY <1>1, <1>6 DEF CacheOK
<1>18. CacheOK(k2, sl2, h)
  BY <1>6, <1>7, <1>8, <1>10, <1>13, <1>14, <1>15, <1>16, <1>17 DEF CacheOK, FreeSlotsIn
<1>19. Consistent([ca EXCEPT ![c] = k2], sl2, h)
  <2>1. /\ SlabsOf(k2) \subseteq SlabsOf(k)
        /\ \A x \in DOMAIN sl2 : x \in DOMAIN sl
        /\ \A x \in SlabsOf(k) : x \in SlabsOf(k2) \/ x \notin DOMAIN sl2
        /\ \A x \in DOMAIN sl : x \notin SlabsOf(k) => x \in DOMAIN sl2 /\ sl2[x] = sl[x]
    BY <1>3, <1>9 DEF SlabsOf, gone
  <2> QED
    BY <1>3, <1>4, <1>18, <2>1, ChangedCache
<1> QED
  BY <1>19 DEF k2, sl2, gone

-----------------------------------------------------------------------------
(* The steps of the allocator                                              *)

LEMMA NewCacheIsEmpty ==
    ASSUME NEW sl, NEW h, Consistent(cache, sl, h),
           NEW c, NEW name, NEW size \in ObjectSizes, NEW e \in Nat,
           c \in Allocated(e), InitializeNewCache(c, name, size)
    PROVE  Consistent(cache', sl, h)
<1> DEFINE k == [ name |-> name, objectSizeInBytes |-> size,
                  numberOfObjectsInOneSlab |-> NumberOfSlots(size),
                  didCacheGrow |-> FALSE, didCacheShrink |-> FALSE,
                  cacheSizeInBlocks |-> 0, numberOfSlabs |-> 0,
                  free |-> << >>, dirty |-> << >>, full |-> << >>,
                  cacheError |-> "none" ]
<1>1. cache' = With(cache, c, k)
  BY DEF InitializeNewCache
<1>2. EmptyCache(k)
  BY DEF EmptyCache, CacheFields
<1>3. c \notin DOMAIN cache
  BY BlocksAreFresh
<1> HIDE DEF k
<1> QED
  BY <1>1, <1>2, <1>3, AddedCache

LEMMA CreateStep ==
    ASSUME SlabInv, NEW k \in CacheKinds, CreateCache(k[1], k[2])
    PROVE  Consistent(cache', slab', held')
<1>1. k[2] \in ObjectSizes
  BY DEF ObjectSizes
<1>2. Exponent(Ceil(CacheSize)) \in Nat
  BY SlabAssumption, BlocksNeeded, ExponentIsNat
<1>3. PICK c \in Allocated(Exponent(Ceil(CacheSize))) : InitializeNewCache(c, k[1], k[2])
  BY DEF CreateCache
<1>4. Consistent(cache', slab, held)
  BY <1>1, <1>2, <1>3, NewCacheIsEmpty DEF SlabInv
<1>5. slab' = slab /\ held' = held
  BY DEF CreateCache
<1> QED
  BY <1>4, <1>5

LEMMA BufferStep ==
    ASSUME SlabInv, NEW bytes \in BufferSizes, AllocateBuffer(bytes)
    PROVE  Consistent(cache', slab', held')
<1> DEFINE e == BufferExponent(bytes)
           room == IF IsObjectSizeTooBig(Power[e]) THEN {} ELSE Allocated(Exponent(Ceil(CacheSize)))
<1>3. /\ \/ cache' = cache
         \/ \E c \in room : InitializeNewCache(c, BufferName(e), Power[e])
      /\ slab' = slab /\ held' = held
  BY DEF AllocateBuffer, BufferExponent
<1>4. Exponent(Ceil(CacheSize)) \in Nat
  BY SlabAssumption, BlocksNeeded, ExponentIsNat
<1>5. Power[e] \in ObjectSizes
  BY DEF ObjectSizes
<1> HIDE DEF e
<1>6. CASE cache' = cache
  BY <1>3, <1>6 DEF SlabInv
<1>7. CASE \E c \in room : InitializeNewCache(c, BufferName(e), Power[e])
  <2>1. PICK c \in Allocated(Exponent(Ceil(CacheSize))) :
           InitializeNewCache(c, BufferName(e), Power[e])
    BY <1>7
  <2>2. Consistent(cache', slab, held)
    BY <1>4, <1>5, <2>1, NewCacheIsEmpty DEF SlabInv
  <2> QED
    BY <1>3, <2>2
<1> QED
  BY <1>3, <1>6, <1>7

LEMMA AllocateStep ==
    ASSUME SlabInv, NEW c \in DOMAIN cache, AllocateObject(c)
    PROVE  Consistent(cache', slab', held')
<1> DEFINE k == cache[c]
           N == k.numberOfObjectsInOneSlab
           room == Allocated(Exponent(Ceil(SlabBytes(N, k.objectSizeInBytes))))
<1>1. \/ HasFreeSlot(k.dirty) /\ GetObjectFromSlab(c, k, Head(k.dirty), slab[Head(k.dirty)])
      \/ HasFreeSlot(k.free) /\ GetObjectFromSlab(c, k, Head(k.free), slab[Head(k.free)])
      \/ \E s \in room : GetObjectFromSlab(c, GrownCache(k, s), s, NewSlab(N))
      \/ /\ cache' = [cache EXCEPT ![c] = [k EXCEPT !.cacheError = "space", !.didCacheGrow = TRUE]]
         /\ slab' = slab /\ held' = held
  BY DEF AllocateObject
<1>2. CacheOK(k, slab, held) /\ Consistent(cache, slab, held)
  BY DEF SlabInv, Consistent
<1>3. ASSUME NEW s, \/ k.dirty # << >> /\ s = Head(k.dirty)
                    \/ k.free # << >> /\ s = Head(k.free),
             GetObjectFromSlab(c, k, s, slab[s])
      PROVE  Consistent(cache', slab', held')
  <2>1. LET t == slab[s]
        IN  Consistent([cache EXCEPT ![c] = AfterAllocation(cache[c], s, t.numberOfFreeSlots - 1)],
                       With(slab, s, TakenSlot(t)),
                       held \cup {<< s, t.firstFreeSlotIndex >>})
    BY <1>2, <1>3, ObjectIsAllocated
  <2> QED
    BY <1>3, <2>1 DEF GetObjectFromSlab
<1>4. CASE HasFreeSlot(k.dirty) /\ GetObjectFromSlab(c, k, Head(k.dirty), slab[Head(k.dirty)])
  BY <1>3, <1>4 DEF HasFreeSlot
<1>5. CASE HasFreeSlot(k.free) /\ GetObjectFromSlab(c, k, Head(k.free), slab[Head(k.free)])
  BY <1>3, <1>5 DEF HasFreeSlot
<1>6. CASE \E s \in room : GetObjectFromSlab(c, GrownCache(k, s), s, NewSlab(N))
  <2>1. PICK s \in room : GetObjectFromSlab(c, GrownCache(k, s), s, NewSlab(N))
    BY <1>6
  <2>2. Exponent(Ceil(SlabBytes(N, k.objectSizeInBytes))) \in Nat
    <3>1. PICK size \in ObjectSizes : size = k.objectSizeInBytes /\ N = NumberOfSlots(size)
      BY <1>2 DEF CacheOK
    <3> QED
      BY <3>1, SizesAreNat, BlocksNeeded, ExponentIsNat
  <2>3. s \notin DOMAIN slab
    BY <2>2, BlocksAreFresh
  <2>4. LET t == NewSlab(N)
        IN  Consistent([cache EXCEPT ![c] = AfterAllocation(GrownCache(k, s), s,
                                                            t.numberOfFreeSlots - 1)],
                       With(slab, s, TakenSlot(t)),
                       held \cup {<< s, t.firstFreeSlotIndex >>})
    BY <1>2, <2>3, NewSlabIsAllocated
  <2> QED
    BY <2>1, <2>4 DEF GetObjectFromSlab
<1>7. CASE /\ cache' = [cache EXCEPT ![c] = [k EXCEPT !.cacheError = "space", !.didCacheGrow = TRUE]]
           /\ slab' = slab /\ held' = held
  <2> DEFINE k2 == [k EXCEPT !.cacheError = "space", !.didCacheGrow = TRUE]
  <2>1. DOMAIN k = CacheFields
    BY <1>2 DEF CacheOK
  <2>2. /\ DOMAIN k2 = CacheFields
        /\ \A x \in CacheFields \ {"didCacheGrow", "didCacheShrink", "cacheError"} :
               k2[x] = k[x]
    BY <2>1
  <2> HIDE DEF k2
  <2>3. Consistent([cache EXCEPT ![c] = k2], slab, held)
    BY <1>2, <2>2, OnlyFlagsChange
  <2> QED
    BY <1>7, <2>3 DEF k2
<1> QED
  BY <1>1, <1>4, <1>5, <1>6, <1>7

\* Only objects that somebody holds are freed, or slots of empty slabs.
NoDoubleFreeInDirtySlabs == "dirty" \notin FreedTwice

LEMMA FreedIsHeldOrEmpty ==
    ASSUME SlabInv, NoDoubleFreeInDirtySlabs, NEW c \in DOMAIN cache, NEW o \in MayBeFreed(cache[c])
    PROVE  \/ o \in held /\ IsSearched(c, o[1])
           \/ o \notin held /\ ~IsSearched(c, o[1])
<1> DEFINE k == cache[c]
<1>1. CacheOK(k, slab, held)
  BY DEF SlabInv, Consistent
<1>2. /\ k.free \in Seq(DOMAIN slab) /\ k.dirty \in Seq(DOMAIN slab) /\ k.full \in Seq(DOMAIN slab)
  BY <1>1, CacheFacts
<1>3. CASE o \in held \cap Slots(k.dirty \o k.full)
  <2>1. PICK s \in Range(k.dirty \o k.full) : o \in {s} \X DOMAIN slab[s].slots
    BY <1>3 DEF Slots
  <2>2. o[1] = s
    BY <2>1
  <2>3. s \in Range(k.dirty) \cup Range(k.full)
    BY <1>2, <2>1, ConcatElements
  <2> QED
    BY <1>3, <2>2, <2>3 DEF IsSearched
<1>4. CASE o \in Slots(k.free)
  <2>1. PICK s \in Range(k.free) : o \in {s} \X DOMAIN slab[s].slots
    BY <1>4 DEF Slots
  <2>2. PICK i : o = << s, i >>
    BY <2>1
  <2>3. o \notin held
    <3>1. held \subseteq (DOMAIN slab) \X Int
      BY DEF SlabInv, Consistent
    <3>2. Taken(held, s) = {}
      BY <1>1, <2>1, FreeSlabsAreEmpty
    <3> QED
      BY <2>2, <3>1, <3>2 DEF Taken
  <2>4. s \notin Range(k.dirty) /\ s \notin Range(k.full)
    BY <1>1, <2>1 DEF CacheOK, Apart
  <2> QED
    BY <2>2, <2>3, <2>4 DEF IsSearched
<1> QED
  BY <1>3, <1>4 DEF MayBeFreed, NoDoubleFreeInDirtySlabs

LEMMA DeallocateStep ==
    ASSUME SlabInv, NoDoubleFreeInDirtySlabs, NEW c \in DOMAIN cache, NEW o \in MayBeFreed(cache[c]),
           DeallocateObject(c, o)
    PROVE  Consistent(cache', slab', held')
<1> DEFINE k == cache[c]
<1>1. CacheOK(k, slab, held) /\ Consistent(cache, slab, held)
  BY DEF SlabInv, Consistent
<1>2. CASE o \in held /\ IsSearched(c, o[1])
  <2>1. /\ slab' = [slab EXCEPT ![o[1]] = ReturnedSlot(@, o[2])]
        /\ cache' = [cache EXCEPT ![c] =
                        AfterDeallocation(@, o[1], slab[o[1]].numberOfFreeSlots + 1)]
        /\ held' = held \ {o}
    BY <1>2 DEF DeallocateObject
  <2>2. o[1] \in Range(k.dirty) \cup Range(k.full)
    BY <1>2 DEF IsSearched
  <2>3. Consistent([cache EXCEPT ![c] = AfterDeallocation(@, o[1], slab[o[1]].numberOfFreeSlots + 1)],
                   [slab EXCEPT ![o[1]] = ReturnedSlot(@, o[2])], held \ {o})
    BY <1>1, <1>2, <2>2, ObjectIsReturned
  <2> QED
    BY <2>1, <2>3
<1>3. CASE o \notin held /\ ~IsSearched(c, o[1])
  <2> DEFINE k2 == [k EXCEPT !.cacheError = "address"]
  <2>1. slab' = slab /\ cache' = [cache EXCEPT ![c] = k2] /\ held' = held
    BY <1>3 DEF DeallocateObject
  <2>2. DOMAIN k = CacheFields
    BY <1>1 DEF CacheOK
  <2>3. /\ DOMAIN k2 = CacheFields
        /\ \A x \in CacheFields \ {"didCacheGrow", "didCacheShrink", "cacheError"} :
               k2[x] = k[x]
    BY <2>2
  <2> HIDE DEF k2
  <2>4. Consistent([cache EXCEPT ![c] = k2], slab, held)
    BY <1>1, <2>3, OnlyFlagsChange
  <2> QED
    BY <2>1, <2>4
<1> QED
  BY <1>2, <1>3, FreedIsHeldOrEmpty

LEMMA ShrinkStep ==
    ASSUME SlabInv, NEW c \in DOMAIN cache, ShrinkCache(c)
    PROVE  Consistent(cache', slab', held')
<1> DEFINE k == cache[c]
<1>1. CacheOK(k, slab, held) /\ Consistent(cache, slab, held)
  BY DEF SlabInv, Consistent
<1>2. CASE cache' = [cache EXCEPT ![c].didCacheGrow = FALSE] /\ slab' = slab /\ held' = held
  <2> DEFINE k2 == [k EXCEPT !.didCacheGrow = FALSE]
  <2>1. cache' = [cache EXCEPT ![c] = k2]
    BY <1>2
  <2>2. DOMAIN k = CacheFields
    BY <1>1 DEF CacheOK
  <2>3. /\ DOMAIN k2 = CacheFields
        /\ \A x \in CacheFields \ {"didCacheGrow", "didCacheShrink", "cacheError"} :
               k2[x] = k[x]
    BY <2>2
  <2> HIDE DEF k2
  <2>4. Consistent([cache EXCEPT ![c] = k2], slab, held)
    BY <1>1, <2>3, OnlyFlagsChange
  <2> QED
    BY <1>2, <2>1, <2>4
<1>3. CASE /\ cache' = [cache EXCEPT ![c] =
                 [WithoutSlabs(k, k.free) EXCEPT !.free = << >>, !.didCacheShrink = TRUE]]
           /\ slab' = Restrict(slab, DOMAIN slab \ Range(k.free)) /\ held' = held
  <2>1. Consistent([cache EXCEPT ![c] = [WithoutSlabs(k, k.free) EXCEPT
                                            !.free = << >>, !.didCacheShrink = TRUE]],
                   Restrict(slab, DOMAIN slab \ Range(k.free)), held)
    BY <1>1, FreeSlabsGo
  <2> QED
    BY <1>3, <2>1
<1> QED
  BY <1>2, <1>3 DEF ShrinkCache

LEMMA DestroyStep ==
    ASSUME SlabInv, NEW c \in DOMAIN cache, DestroyCache(c)
    PROVE  Consistent(cache', slab', held')
<1> DEFINE k == cache[c]
           slabs == Range(k.free \o k.dirty \o k.full)
<1>1. CacheOK(k, slab, held) /\ Consistent(cache, slab, held)
  BY DEF SlabInv, Consistent
<1>2. slabs = SlabsOf(k)
  BY <1>1, AllSlabs
<1>3. /\ slab' = Restrict(slab, DOMAIN slab \ slabs)
      /\ cache' = Restrict(cache, DOMAIN cache \ {c})
      /\ held' = {o \in held : o[1] \notin slabs}
  BY DEF DestroyCache
<1>4. Consistent(Restrict(cache, DOMAIN cache \ {c}), Restrict(slab, DOMAIN slab \ SlabsOf(k)),
                 {o \in held : o[1] \notin SlabsOf(k)})
  BY <1>1, RemovedCache
<1> HIDE DEF slabs
<1> QED
  BY <1>2, <1>3, <1>4

LEMMA SlabInvInit == Init => SlabInv
<1> SUFFICES ASSUME Init PROVE SlabInv
  OBVIOUS
<1>1. DOMAIN cache = {} /\ DOMAIN slab = {} /\ held = {}
  BY DEF Init
<1> QED
  BY <1>1 DEF SlabInv, Consistent

LEMMA SlabInvStep ==
    ASSUME NoDoubleFreeInDirtySlabs
    PROVE  SlabInv /\ [Next]_vars => SlabInv'
<1> SUFFICES ASSUME SlabInv, [Next]_vars PROVE SlabInv'
  OBVIOUS
<1>1. Consistent(cache', slab', held')
  <2>1. CASE \E k \in CacheKinds : CreateCache(k[1], k[2])
    BY <2>1, CreateStep
  <2>2. CASE \E bytes \in BufferSizes : AllocateBuffer(bytes)
    BY <2>2, BufferStep
  <2>3. CASE \E c \in DOMAIN cache : AllocateObject(c)
    BY <2>3, AllocateStep
  <2>4. CASE \E c \in DOMAIN cache : \E o \in MayBeFreed(cache[c]) : DeallocateObject(c, o)
    BY <2>4, DeallocateStep
  <2>5. CASE \E c \in DOMAIN cache : ShrinkCache(c)
    BY <2>5, ShrinkStep
  <2>6. CASE \E c \in DOMAIN cache : DestroyCache(c)
    BY <2>6, DestroyStep
  <2>7. CASE UNCHANGED vars
    BY <2>7 DEF vars, SlabInv
  <2> QED
    BY <2>1, <2>2, <2>3, <2>4, <2>5, <2>6, <2>7 DEF Next
<1> QED
  BY <1>1 DEF SlabInv, Consistent

LEMMA SlabInvHolds ==
    ASSUME NoDoubleFreeInDirtySlabs
    PROVE  Spec => []SlabInv
BY SlabInvInit, SlabInvStep, PTL DEF Spec

-----------------------------------------------------------------------------
(* What the invariant says                                                 *)

\* Where the slab s is, and the state it is in.
LEMMA SlabFacts ==
    ASSUME SlabInv, NEW c \in DOMAIN cache, NEW s \in SlabsOf(cache[c])
    PROVE  /\ s \in DOMAIN slab
           /\ cache[c].numberOfObjectsInOneSlab \in Nat \ {0}
           /\ SlabOK(slab[s], cache[c].numberOfObjectsInOneSlab, Taken(held, s))
<1>1. CacheOK(cache[c], slab, held)
  BY DEF SlabInv, Consistent
<1> QED
  BY <1>1, CacheFacts DEF CacheOK

\* The chain of a slab runs through its free slots once, as many as it
\* counts, and ends: no object is handed out while somebody holds it and none
\* is lost, as long as nobody frees a slot twice while its slab still holds
\* objects (SlabAllocator.cpp:208-216, 260-262).
THEOREM FreeSlotsStayChained ==
    ASSUME NoDoubleFreeInDirtySlabs
    PROVE  Spec => []FreeSlotsAreChained
<1>1. SlabInv => FreeSlotsAreChained
  <2> SUFFICES ASSUME SlabInv, NEW s \in DOMAIN slab
               PROVE  LET n == slab[s].numberOfFreeSlots
                          chain == Chain(s, n + 1)
                      IN  /\ chain[n + 1] = -1
                          /\ {chain[i] : i \in 1 .. n}
                                = {i \in DOMAIN slab[s].slots : << s, i >> \notin held}
    BY DEF FreeSlotsAreChained
  <2>1. PICK c \in DOMAIN cache : s \in SlabsOf(cache[c])
    BY DEF SlabInv, Consistent
  <2>2. PICK N \in Nat \ {0} : SlabOK(slab[s], N, Taken(held, s))
    BY <2>1, SlabFacts
  <2>3. PICK p \in Seq(0 .. N - 1) :
           ChainedBy(slab[s], p) /\ Range(p) = (0 .. N - 1) \ Taken(held, s)
    BY <2>2 DEF SlabOK
  <2>4. PICK n \in Nat : n = Len(p) /\ DOMAIN p = 1 .. n
    BY LenProperties
  <2>5. slab[s].numberOfFreeSlots = n
    BY <2>3, <2>4 DEF ChainedBy
  <2>6. Chain(s, n + 1) = [i \in 1 .. n + 1 |-> IF i = n + 1 THEN -1 ELSE p[i]]
    BY <2>3, <2>4, ChainFollows
  <2>7. PICK chain : chain = Chain(s, n + 1)
    OBVIOUS
  <2>8. chain[n + 1] = -1 /\ \A i \in 1 .. n : chain[i] = p[i]
    <3>1. n + 1 \in 1 .. n + 1 /\ \A i \in 1 .. n : i \in 1 .. n + 1 /\ i # n + 1
      OBVIOUS
    <3> QED
      BY <2>6, <2>7, <3>1
  <2>9. {chain[i] : i \in 1 .. n} = Range(p)
    BY <2>4, <2>8 DEF Range
  <2>10. Range(p) = {i \in DOMAIN slab[s].slots : << s, i >> \notin held}
    <3>1. DOMAIN slab[s].slots = 0 .. N - 1
      BY <2>2 DEF SlabOK
    <3>2. \A i \in 0 .. N - 1 : i \in Taken(held, s) <=> << s, i >> \in held
      BY DEF Taken
    <3> QED
      BY <2>3, <3>1, <3>2
  <2> QED
    BY <2>5, <2>7, <2>8, <2>9, <2>10
<1> QED
  BY <1>1, SlabInvHolds, PTL

-----------------------------------------------------------------------------
(* Slots freed twice                                                       *)

\* sl2 counts the free slots of its slabs as sl does.
SameCounts(sl, sl2) ==
    /\ DOMAIN sl2 = DOMAIN sl
    /\ \A s \in DOMAIN sl : /\ DOMAIN sl2[s] = SlabFields
                            /\ sl2[s].numberOfFreeSlots = sl[s].numberOfFreeSlots

\* Lists and counters are what they would be if no slot had been freed twice:
\* those of some slabs with sound chains and as many free slots.
ListInv == \E sl, h : Consistent(cache, sl, h) /\ SameCounts(sl, slab)

LEMMA ChangedCounts ==
    ASSUME NEW sl, NEW sl2, SameCounts(sl, sl2), NEW s, NEW t, NEW t2,
           DOMAIN t2 = SlabFields, t2.numberOfFreeSlots = t.numberOfFreeSlots
    PROVE  SameCounts(With(sl, s, t), With(sl2, s, t2))
<1> DEFINE u == With(sl, s, t)
           u2 == With(sl2, s, t2)
<1>1. /\ DOMAIN u = {s} \cup DOMAIN sl /\ DOMAIN u2 = {s} \cup DOMAIN sl2
      /\ u[s] = t /\ u2[s] = t2
      /\ \A x \in DOMAIN sl : x # s => u[x] = sl[x]
      /\ \A x \in DOMAIN sl2 : x # s => u2[x] = sl2[x]
  BY DEF With
<1> HIDE DEF u, u2
<1>2. SameCounts(u, u2)
  BY <1>1 DEF SameCounts
<1> QED
  BY <1>2 DEF u, u2

LEMMA FewerCounts ==
    ASSUME NEW sl, NEW sl2, SameCounts(sl, sl2), NEW gone
    PROVE  SameCounts(Restrict(sl, DOMAIN sl \ gone), Restrict(sl2, DOMAIN sl2 \ gone))
BY DEF SameCounts, Restrict

LEMMA SlotCounts ==
    ASSUME NEW t, DOMAIN t = SlabFields
    PROVE  /\ DOMAIN TakenSlot(t) = SlabFields
           /\ TakenSlot(t).numberOfFreeSlots = t.numberOfFreeSlots - 1
           /\ \A i : /\ DOMAIN ReturnedSlot(t, i) = SlabFields
                     /\ ReturnedSlot(t, i).numberOfFreeSlots = t.numberOfFreeSlots + 1
BY DEF TakenSlot, ReturnedSlot, SlabFields

\* A dirty or full slab has a slot that somebody holds.
LEMMA SomeSlotIsTaken ==
    ASSUME NEW k, NEW sl, NEW h, CacheOK(k, sl, h), NEW s \in Range(k.dirty) \cup Range(k.full)
    PROVE  \E i \in Int : << s, i >> \in h
<1> DEFINE N == k.numberOfObjectsInOneSlab
<1>1. s \in SlabsOf(k) /\ s \in DOMAIN sl /\ N \in Nat \ {0}
  BY CacheFacts DEF SlabsOf
<1>2. sl[s].numberOfFreeSlots \in 0 .. N - 1
  <2>1. Sorted(k, FreeSlotsIn(sl), N) /\ FreeSlotsIn(sl)[s] = sl[s].numberOfFreeSlots
    BY <1>1, CacheFacts DEF FreeSlotsIn
  <2>2. FreeSlotsIn(sl)[s] \in 1 .. N - 1 \/ FreeSlotsIn(sl)[s] = 0
    BY <2>1 DEF Sorted
  <2> QED
    BY <1>1, <2>1, <2>2
<1>3. SlabOK(sl[s], N, Taken(h, s))
  BY <1>1 DEF CacheOK
<1>4. Cardinality(Taken(h, s)) = N - sl[s].numberOfFreeSlots
  <2> HIDE DEF N
  <2> QED
    BY <1>1, <1>3, SlotsAddUp
<1>5. Taken(h, s) # {}
  BY <1>1, <1>2, <1>4, FS_EmptySet
<1> QED
  BY <1>5 DEF Taken

LEMMA ListsAtAllocation ==
    ASSUME NEW sl, NEW h, Consistent(cache, sl, h), SameCounts(sl, slab),
           NEW c \in DOMAIN cache, AllocateObject(c)
    PROVE  \E sl2, h2 : Consistent(cache', sl2, h2) /\ SameCounts(sl2, slab')
<1> DEFINE k == cache[c]
           N == k.numberOfObjectsInOneSlab
           room == Allocated(Exponent(Ceil(SlabBytes(N, k.objectSizeInBytes))))
<1>1. \/ HasFreeSlot(k.dirty) /\ GetObjectFromSlab(c, k, Head(k.dirty), slab[Head(k.dirty)])
      \/ HasFreeSlot(k.free) /\ GetObjectFromSlab(c, k, Head(k.free), slab[Head(k.free)])
      \/ \E s \in room : GetObjectFromSlab(c, GrownCache(k, s), s, NewSlab(N))
      \/ /\ cache' = [cache EXCEPT ![c] = [k EXCEPT !.cacheError = "space", !.didCacheGrow = TRUE]]
         /\ slab' = slab
  BY DEF AllocateObject
<1>2. CacheOK(k, sl, h)
  BY DEF Consistent
<1>3. ASSUME NEW s, \/ k.dirty # << >> /\ s = Head(k.dirty)
                    \/ k.free # << >> /\ s = Head(k.free),
             GetObjectFromSlab(c, k, s, slab[s])
      PROVE  \E sl2, h2 : Consistent(cache', sl2, h2) /\ SameCounts(sl2, slab')
  <2>1. LET t == sl[s]
        IN  Consistent([cache EXCEPT ![c] = AfterAllocation(cache[c], s, t.numberOfFreeSlots - 1)],
                       With(sl, s, TakenSlot(t)),
                       h \cup {<< s, t.firstFreeSlotIndex >>})
    BY <1>3, ObjectIsAllocated
  <2>2. s \in DOMAIN sl
    <3>1. s \in SlabsOf(k)
      BY <1>2, <1>3, TakeFromHead
    <3> QED
      BY <1>2, <3>1, CacheFacts
  <2>3. DOMAIN slab[s] = SlabFields /\ slab[s].numberOfFreeSlots = sl[s].numberOfFreeSlots
    BY <2>2 DEF SameCounts
  <2>4. DOMAIN sl[s] = SlabFields
    <3>1. PICK d \in DOMAIN cache : s \in SlabsOf(cache[d])
      BY <2>2 DEF Consistent
    <3> QED
      BY <3>1 DEF Consistent, CacheOK, SlabOK
  <2>5. SameCounts(With(sl, s, TakenSlot(sl[s])), With(slab, s, TakenSlot(slab[s])))
    <3>1. /\ DOMAIN TakenSlot(slab[s]) = SlabFields
          /\ TakenSlot(slab[s]).numberOfFreeSlots = TakenSlot(sl[s]).numberOfFreeSlots
      BY <2>3, <2>4, SlotCounts
    <3> QED
      BY <3>1, ChangedCounts
  <2>6. /\ slab' = With(slab, s, TakenSlot(slab[s]))
        /\ cache' = [cache EXCEPT ![c] = AfterAllocation(k, s, slab[s].numberOfFreeSlots - 1)]
    BY <1>3 DEF GetObjectFromSlab
  <2> QED
    BY <2>1, <2>3, <2>5, <2>6
<1>4. CASE HasFreeSlot(k.dirty) /\ GetObjectFromSlab(c, k, Head(k.dirty), slab[Head(k.dirty)])
  BY <1>3, <1>4 DEF HasFreeSlot
<1>5. CASE HasFreeSlot(k.free) /\ GetObjectFromSlab(c, k, Head(k.free), slab[Head(k.free)])
  BY <1>3, <1>5 DEF HasFreeSlot
<1>6. CASE \E s \in room : GetObjectFromSlab(c, GrownCache(k, s), s, NewSlab(N))
  <2>1. PICK s \in room : GetObjectFromSlab(c, GrownCache(k, s), s, NewSlab(N))
    BY <1>6
  <2>2. Exponent(Ceil(SlabBytes(N, k.objectSizeInBytes))) \in Nat
    <3>1. PICK size \in ObjectSizes : size = k.objectSizeInBytes /\ N = NumberOfSlots(size)
      BY <1>2 DEF CacheOK
    <3> QED
      BY <3>1, SizesAreNat, BlocksNeeded, ExponentIsNat
  <2>3. s \notin DOMAIN sl
    BY <2>2, BlocksAreFresh DEF SameCounts
  <2>4. LET t == NewSlab(N)
        IN  Consistent([cache EXCEPT ![c] = AfterAllocation(GrownCache(k, s), s,
                                                            t.numberOfFreeSlots - 1)],
                       With(sl, s, TakenSlot(t)),
                       h \cup {<< s, t.firstFreeSlotIndex >>})
    BY <2>3, NewSlabIsAllocated
  <2>5. SameCounts(With(sl, s, TakenSlot(NewSlab(N))), With(slab, s, TakenSlot(NewSlab(N))))
    <3>1. DOMAIN NewSlab(N) = SlabFields
      BY DEF NewSlab, SlabFields
    <3>2. DOMAIN TakenSlot(NewSlab(N)) = SlabFields
      BY <3>1, SlotCounts
    <3> QED
      BY <3>2, ChangedCounts
  <2> QED
    BY <2>1, <2>4, <2>5 DEF GetObjectFromSlab
<1>7. CASE /\ cache' = [cache EXCEPT ![c] = [k EXCEPT !.cacheError = "space", !.didCacheGrow = TRUE]]
           /\ slab' = slab
  <2> DEFINE k2 == [k EXCEPT !.cacheError = "space", !.didCacheGrow = TRUE]
  <2>1. DOMAIN k = CacheFields
    BY <1>2 DEF CacheOK
  <2>2. /\ DOMAIN k2 = CacheFields
        /\ \A x \in CacheFields \ {"didCacheGrow", "didCacheShrink", "cacheError"} :
               k2[x] = k[x]
    BY <2>1
  <2> HIDE DEF k2
  <2>3. Consistent([cache EXCEPT ![c] = k2], sl, h)
    BY <2>2, OnlyFlagsChange
  <2> QED
    BY <1>7, <2>3 DEF k2
<1> QED
  BY <1>1, <1>4, <1>5, <1>6, <1>7

\* The slot that comes back may be free: another slot of the slab, that is
\* held, stands for it.
LEMMA ListsAtRelease ==
    ASSUME NEW sl, NEW h, Consistent(cache, sl, h), SameCounts(sl, slab),
           NEW c \in DOMAIN cache, NEW o, DeallocateObject(c, o)
    PROVE  \E sl2, h2 : Consistent(cache', sl2, h2) /\ SameCounts(sl2, slab')
<1> DEFINE k == cache[c]
           s == o[1]
<1>1. CacheOK(k, sl, h)
  BY DEF Consistent
<1>2. CASE IsSearched(c, s) /\ slab' = [slab EXCEPT ![s] = ReturnedSlot(@, o[2])]
             /\ cache' = [cache EXCEPT ![c] = AfterDeallocation(@, s, slab[s].numberOfFreeSlots + 1)]
  <2>1. s \in Range(k.dirty) \cup Range(k.full)
    BY <1>2 DEF IsSearched
  <2> HIDE DEF s
  <2>2. PICK i \in Int : << s, i >> \in h
    BY <1>1, <2>1, SomeSlotIsTaken
  <2>3. Consistent([cache EXCEPT ![c] = AfterDeallocation(@, s, sl[s].numberOfFreeSlots + 1)],
                   [sl EXCEPT ![s] = ReturnedSlot(@, i)], h \ {<< s, i >>})
    <3>1. << s, i >>[1] = s /\ << s, i >>[2] = i
      OBVIOUS
    <3> QED
      BY <2>1, <2>2, <3>1, ObjectIsReturned
  <2>4. s \in DOMAIN sl /\ s \in SlabsOf(k)
    BY <1>1, <2>1, CacheFacts DEF SlabsOf
  <2>5. /\ s \in DOMAIN slab /\ DOMAIN slab[s] = SlabFields /\ DOMAIN sl[s] = SlabFields
        /\ slab[s].numberOfFreeSlots = sl[s].numberOfFreeSlots
    BY <1>1, <2>4 DEF SameCounts, CacheOK, SlabOK
  <2>6. SameCounts([sl EXCEPT ![s] = ReturnedSlot(@, i)], [slab EXCEPT ![s] = ReturnedSlot(@, o[2])])
    <3>1. /\ DOMAIN ReturnedSlot(slab[s], o[2]) = SlabFields
          /\ ReturnedSlot(slab[s], o[2]).numberOfFreeSlots
                = ReturnedSlot(sl[s], i).numberOfFreeSlots
      BY <2>5, SlotCounts
    <3>2. SameCounts(With(sl, s, ReturnedSlot(sl[s], i)), With(slab, s, ReturnedSlot(slab[s], o[2])))
      BY <3>1, ChangedCounts
    <3>3. /\ With(sl, s, ReturnedSlot(sl[s], i)) = [sl EXCEPT ![s] = ReturnedSlot(@, i)]
          /\ With(slab, s, ReturnedSlot(slab[s], o[2])) = [slab EXCEPT ![s] = ReturnedSlot(@, o[2])]
      BY <2>4, <2>5 DEF With
    <3> QED
      BY <3>2, <3>3
  <2> QED
    BY <1>2, <2>3, <2>5, <2>6
<1>3. CASE slab' = slab /\ cache' = [cache EXCEPT ![c].cacheError = "address"]
  <2> DEFINE k2 == [k EXCEPT !.cacheError = "address"]
  <2>1. cache' = [cache EXCEPT ![c] = k2]
    BY <1>3
  <2>2. DOMAIN k = CacheFields
    BY <1>1 DEF CacheOK
  <2>3. /\ DOMAIN k2 = CacheFields
        /\ \A x \in CacheFields \ {"didCacheGrow", "didCacheShrink", "cacheError"} :
               k2[x] = k[x]
    BY <2>2
  <2> HIDE DEF k2
  <2>4. Consistent([cache EXCEPT ![c] = k2], sl, h)
    BY <2>3, OnlyFlagsChange
  <2> QED
    BY <1>3, <2>1, <2>4
<1> QED
  BY <1>2, <1>3 DEF DeallocateObject

LEMMA ListsAtShrinking ==
    ASSUME NEW sl, NEW h, Consistent(cache, sl, h), SameCounts(sl, slab),
           NEW c \in DOMAIN cache, ShrinkCache(c)
    PROVE  \E sl2, h2 : Consistent(cache', sl2, h2) /\ SameCounts(sl2, slab')
<1> DEFINE k == cache[c]
<1>1. CacheOK(k, sl, h)
  BY DEF Consistent
<1>2. CASE cache' = [cache EXCEPT ![c].didCacheGrow = FALSE] /\ slab' = slab
  <2> DEFINE k2 == [k EXCEPT !.didCacheGrow = FALSE]
  <2>1. cache' = [cache EXCEPT ![c] = k2]
    BY <1>2
  <2>2. DOMAIN k = CacheFields
    BY <1>1 DEF CacheOK
  <2>3. /\ DOMAIN k2 = CacheFields
        /\ \A x \in CacheFields \ {"didCacheGrow", "didCacheShrink", "cacheError"} :
               k2[x] = k[x]
    BY <2>2
  <2> HIDE DEF k2
  <2>4. Consistent([cache EXCEPT ![c] = k2], sl, h)
    BY <2>3, OnlyFlagsChange
  <2> QED
    BY <1>2, <2>1, <2>4
<1>3. CASE /\ cache' = [cache EXCEPT ![c] =
                 [WithoutSlabs(k, k.free) EXCEPT !.free = << >>, !.didCacheShrink = TRUE]]
           /\ slab' = Restrict(slab, DOMAIN slab \ Range(k.free))
  <2>1. Consistent([cache EXCEPT ![c] = [WithoutSlabs(k, k.free) EXCEPT
                                            !.free = << >>, !.didCacheShrink = TRUE]],
                   Restrict(sl, DOMAIN sl \ Range(k.free)), h)
    BY FreeSlabsGo
  <2>2. SameCounts(Restrict(sl, DOMAIN sl \ Range(k.free)), Restrict(slab, DOMAIN slab \ Range(k.free)))
    BY FewerCounts
  <2> QED
    BY <1>3, <2>1, <2>2
<1> QED
  BY <1>2, <1>3 DEF ShrinkCache

LEMMA ListsAtDestruction ==
    ASSUME NEW sl, NEW h, Consistent(cache, sl, h), SameCounts(sl, slab),
           NEW c \in DOMAIN cache, DestroyCache(c)
    PROVE  \E sl2, h2 : Consistent(cache', sl2, h2) /\ SameCounts(sl2, slab')
<1> DEFINE k == cache[c]
           slabs == Range(k.free \o k.dirty \o k.full)
<1>1. CacheOK(k, sl, h)
  BY DEF Consistent
<1>2. slabs = SlabsOf(k)
  BY <1>1, AllSlabs
<1>3. /\ slab' = Restrict(slab, DOMAIN slab \ slabs)
      /\ cache' = Restrict(cache, DOMAIN cache \ {c})
  BY DEF DestroyCache
<1>4. Consistent(Restrict(cache, DOMAIN cache \ {c}), Restrict(sl, DOMAIN sl \ SlabsOf(k)),
                 {o \in h : o[1] \notin SlabsOf(k)})
  BY RemovedCache
<1>5. SameCounts(Restrict(sl, DOMAIN sl \ SlabsOf(k)), Restrict(slab, DOMAIN slab \ SlabsOf(k)))
  BY FewerCounts
<1> HIDE DEF slabs
<1> QED
  BY <1>2, <1>3, <1>4, <1>5

LEMMA ListInvInit == Init => ListInv
<1> SUFFICES ASSUME Init PROVE ListInv
  OBVIOUS
<1>1. DOMAIN cache = {} /\ DOMAIN slab = {} /\ held = {}
  BY DEF Init
<1>2. Consistent(cache, slab, held) /\ SameCounts(slab, slab)
  BY <1>1 DEF Consistent, SameCounts
<1> QED
  BY <1>2 DEF ListInv

LEMMA ListInvStep == ListInv /\ [Next]_vars => ListInv'
<1> SUFFICES ASSUME ListInv, [Next]_vars PROVE ListInv'
  OBVIOUS
<1>1. PICK sl, h : Consistent(cache, sl, h) /\ SameCounts(sl, slab)
  BY DEF ListInv
<1>2. Exponent(Ceil(CacheSize)) \in Nat
  BY SlabAssumption, BlocksNeeded, ExponentIsNat
<1>3. \E sl2, h2 : Consistent(cache', sl2, h2) /\ SameCounts(sl2, slab')
  <2>1. CASE \E k \in CacheKinds : CreateCache(k[1], k[2])
    <3>1. PICK k \in CacheKinds : CreateCache(k[1], k[2])
      BY <2>1
    <3>2. PICK c \in Allocated(Exponent(Ceil(CacheSize))) : InitializeNewCache(c, k[1], k[2])
      BY <3>1 DEF CreateCache
    <3>3. k[2] \in ObjectSizes
      BY DEF ObjectSizes
    <3>4. Consistent(cache', sl, h)
      BY <1>1, <1>2, <3>2, <3>3, NewCacheIsEmpty
    <3> QED
      BY <1>1, <3>1, <3>4 DEF CreateCache
  <2>2. CASE \E bytes \in BufferSizes : AllocateBuffer(bytes)
    <3>1. PICK bytes \in BufferSizes : AllocateBuffer(bytes)
      BY <2>2
    <3> DEFINE e == BufferExponent(bytes)
               room == IF IsObjectSizeTooBig(Power[e]) THEN {}
                       ELSE Allocated(Exponent(Ceil(CacheSize)))
    <3>2. /\ \/ cache' = cache
             \/ \E c \in room : InitializeNewCache(c, BufferName(e), Power[e])
          /\ slab' = slab
      BY <3>1 DEF AllocateBuffer, BufferExponent
    <3>3. Power[e] \in ObjectSizes
      BY DEF ObjectSizes
    <3> HIDE DEF e
    <3>4. CASE \E c \in room : InitializeNewCache(c, BufferName(e), Power[e])
      <4>1. PICK c \in Allocated(Exponent(Ceil(CacheSize))) :
               InitializeNewCache(c, BufferName(e), Power[e])
        BY <3>4
      <4>2. Consistent(cache', sl, h)
        BY <1>1, <1>2, <3>3, <4>1, NewCacheIsEmpty
      <4> QED
        BY <1>1, <3>2, <4>2
    <3> QED
      BY <1>1, <3>2, <3>4
  <2>3. CASE \E c \in DOMAIN cache : AllocateObject(c)
    BY <1>1, <2>3, ListsAtAllocation
  <2>4. CASE \E c \in DOMAIN cache : \E o \in MayBeFreed(cache[c]) : DeallocateObject(c, o)
    BY <1>1, <2>4, ListsAtRelease
  <2>5. CASE \E c \in DOMAIN cache : ShrinkCache(c)
    BY <1>1, <2>5, ListsAtShrinking
  <2>6. CASE \E c \in DOMAIN cache : DestroyCache(c)
    BY <1>1, <2>6, ListsAtDestruction
  <2>7. CASE UNCHANGED vars
    BY <1>1, <2>7 DEF vars
  <2> QED
    BY <2>1, <2>2, <2>3, <2>4, <2>5, <2>6, <2>7 DEF Next
<1> QED
  BY <1>3 DEF ListInv, Consistent, SameCounts

LEMMA ListInvHolds == Spec => []ListInv
BY ListInvInit, ListInvStep, PTL DEF Spec

\* A slab is in one list of one cache, in the one its free slots call for, so
\* a look at the heads of two lists finds every free object, whatever slots
\* callers free twice (SlabAllocator.cpp:161-172, 218-244, 281-306).
THEOREM SlabsStayInTheirLists == Spec => []SlabsAreInTheirLists
<1>1. ListInv => SlabsAreInTheirLists
  <2> SUFFICES ASSUME ListInv PROVE SlabsAreInTheirLists
    OBVIOUS
  <2>1. PICK sl, h : Consistent(cache, sl, h) /\ SameCounts(sl, slab)
    BY DEF ListInv
  <2>2. ASSUME NEW c \in DOMAIN cache
        PROVE  /\ Range(cache[c].free \o cache[c].dirty \o cache[c].full) = SlabsOf(cache[c])
               /\ IsInjective(cache[c].free \o cache[c].dirty \o cache[c].full)
    <3>1. CacheOK(cache[c], sl, h)
      BY <2>1 DEF Consistent
    <3> QED
      BY <3>1, AllSlabs
  <2>3. ASSUME NEW c \in DOMAIN cache
        PROVE  LET N == cache[c].numberOfObjectsInOneSlab
               IN  /\ \A s \in Range(cache[c].free) : slab[s].numberOfFreeSlots = N
                   /\ \A s \in Range(cache[c].dirty) : slab[s].numberOfFreeSlots \in 1 .. N - 1
                   /\ \A s \in Range(cache[c].full) : slab[s].numberOfFreeSlots = 0
    <3>1. CacheOK(cache[c], sl, h)
      BY <2>1 DEF Consistent
    <3>2. /\ Sorted(cache[c], FreeSlotsIn(sl), cache[c].numberOfObjectsInOneSlab)
          /\ SlabsOf(cache[c]) \subseteq DOMAIN sl
      BY <3>1, CacheFacts
    <3>3. \A s \in SlabsOf(cache[c]) : FreeSlotsIn(sl)[s] = slab[s].numberOfFreeSlots
      BY <2>1, <3>2 DEF FreeSlotsIn, SameCounts
    <3> QED
      BY <3>2, <3>3 DEF Sorted, SlabsOf
  <2>4. /\ \A s \in DOMAIN slab : \E c \in DOMAIN cache : s \in SlabsOf(cache[c])
        /\ \A c, d \in DOMAIN cache : c # d => SlabsOf(cache[c]) \cap SlabsOf(cache[d]) = {}
    BY <2>1 DEF Consistent, SameCounts
  <2>5. /\ \A s \in DOMAIN slab : \E c \in DOMAIN cache :
               s \in Range(cache[c].free \o cache[c].dirty \o cache[c].full)
        /\ \A c, d \in DOMAIN cache : c # d =>
               Range(cache[c].free \o cache[c].dirty \o cache[c].full)
                 \cap Range(cache[d].free \o cache[d].dirty \o cache[d].full) = {}
    BY <2>2, <2>4
  <2> QED
    BY <2>2, <2>3, <2>5 DEF SlabsAreInTheirLists
<1> QED
  BY <1>1, ListInvHolds, PTL

\* A cache is never smaller than the blocks its slabs were given: shrinking
\* takes off no more than growing added, so the counter does not wrap and a
\* cache with slabs has a size, for objects of every size and whatever is
\* freed twice (SlabAllocator.cpp:90, 182, 333-335).
THEOREM SizeStaysEnough == Spec => []SizeCoversSlabs
<1>1. ListInv => SizeCoversSlabs
  <2> SUFFICES ASSUME ListInv, NEW c \in DOMAIN cache
               PROVE  LET k == cache[c] IN
                      k.cacheSizeInBlocks >= k.numberOfSlabs
                         * Power[Exponent(Ceil(SlabBytes(k.numberOfObjectsInOneSlab,
                                                         k.objectSizeInBytes)))]
    BY DEF SizeCoversSlabs
  <2>1. PICK sl, h : Consistent(cache, sl, h)
    BY DEF ListInv
  <2>2. CacheOK(cache[c], sl, h)
    BY <2>1 DEF Consistent
  <2> QED
    BY <2>2 DEF CacheOK, SizeCovers, SlabPower, SlabBlocks
<1> QED
  BY <1>1, ListInvHolds, PTL

-----------------------------------------------------------------------------
(* Sums over lists of slabs                                                *)

\* The objects in the slabs of A.
ObjectsIn(h, A) == {o \in h : o[1] \in A}

LEMMA ObjectsOfOne ==
    ASSUME NEW D, NEW h, h \subseteq D \X Int, NEW s, IsFiniteSet(Taken(h, s))
    PROVE  /\ IsFiniteSet(ObjectsIn(h, {s}))
           /\ Cardinality(ObjectsIn(h, {s})) = Cardinality(Taken(h, s))
<1> DEFINE f == [i \in Taken(h, s) |-> << s, i >>]
<1>1. f \in Bijection(Taken(h, s), ObjectsIn(h, {s}))
  <2>1. \A i \in Taken(h, s) : f[i] = << s, i >> /\ f[i] \in ObjectsIn(h, {s})
    BY DEF Taken, ObjectsIn
  <2>2. f \in [Taken(h, s) -> ObjectsIn(h, {s})]
    BY <2>1
  <2>3. \A i, j \in Taken(h, s) : f[i] = f[j] => i = j
    BY <2>1
  <2>4. ASSUME NEW o \in ObjectsIn(h, {s}) PROVE \E i \in Taken(h, s) : f[i] = o
    <3>1. PICK x \in D, i \in Int : o = << x, i >>
      BY DEF ObjectsIn
    <3>2. x = s /\ i \in Taken(h, s)
      BY <3>1 DEF ObjectsIn, Taken
    <3> QED
      BY <2>1, <3>1, <3>2
  <2> HIDE DEF f
  <2> QED
    BY <2>2, <2>3, <2>4 DEF Bijection, Injection, Surjection, IsInjective
<1>2. ExistsBijection(Taken(h, s), ObjectsIn(h, {s}))
  BY <1>1 DEF ExistsBijection
<1> QED
  BY <1>2, FS_Bijection

LEMMA ObjectsAddUp ==
    ASSUME NEW h, NEW A, NEW B, A \cap B = {},
           IsFiniteSet(ObjectsIn(h, A)), IsFiniteSet(ObjectsIn(h, B))
    PROVE  /\ IsFiniteSet(ObjectsIn(h, A \cup B))
           /\ Cardinality(ObjectsIn(h, A \cup B))
                = Cardinality(ObjectsIn(h, A)) + Cardinality(ObjectsIn(h, B))
<1> DEFINE X == ObjectsIn(h, A)
           Y == ObjectsIn(h, B)
<1>1. ObjectsIn(h, A \cup B) = X \cup Y /\ X \cap Y = {}
  BY DEF ObjectsIn
<1> HIDE DEF X, Y
<1>2. IsFiniteSet(X) /\ IsFiniteSet(Y) /\ Cardinality(X) \in Nat /\ Cardinality(Y) \in Nat
  BY FS_CardinalityType DEF X, Y
<1>3. /\ IsFiniteSet(X \cup Y)
      /\ Cardinality(X \cup Y) = Cardinality(X) + Cardinality(Y) - Cardinality(X \cap Y)
  BY <1>2, FS_Union
<1>4. Cardinality(X \cap Y) = 0
  BY <1>1, FS_EmptySet
<1>5. PICK m \in Nat, n \in Nat : m = Cardinality(X) /\ n = Cardinality(Y)
  BY <1>2
<1>6. m + n - 0 = m + n
  OBVIOUS
<1> QED
  BY <1>1, <1>3, <1>4, <1>5, <1>6 DEF X, Y

\* A list of slabs whose callers hold finitely many objects of each.
Listed(h, q) ==
    /\ h \subseteq (DOMAIN slab) \X Int
    /\ q \in Seq(DOMAIN slab) /\ IsInjective(q)
    /\ \A i \in 1 .. Len(q) : IsFiniteSet(Taken(h, q[i]))

\* The slabs at the positions in s.
At(q, s) == {q[i] : i \in s}

LEMMA MorePositions ==
    ASSUME NEW h, NEW q, Listed(h, q), NEW s \in SUBSET (1 .. Len(q)), NEW i \in 1 .. Len(q),
           i \notin s, IsFiniteSet(ObjectsIn(h, At(q, s)))
    PROVE  /\ IsFiniteSet(ObjectsIn(h, At(q, s \cup {i})))
           /\ Cardinality(ObjectsIn(h, At(q, s \cup {i})))
                = Cardinality(ObjectsIn(h, At(q, s))) + Cardinality(Taken(h, q[i]))
<1>1. IsFiniteSet(Taken(h, q[i])) /\ h \subseteq (DOMAIN slab) \X Int
  BY DEF Listed
<1>2. /\ IsFiniteSet(ObjectsIn(h, {q[i]}))
      /\ Cardinality(ObjectsIn(h, {q[i]})) = Cardinality(Taken(h, q[i]))
  BY <1>1, ObjectsOfOne
<1>3. At(q, s \cup {i}) = At(q, s) \cup {q[i]} /\ At(q, s) \cap {q[i]} = {}
  <2>1. \A j \in s : q[j] # q[i]
    <3>1. DOMAIN q = 1 .. Len(q)
      BY LenProperties DEF Listed
    <3> QED
      BY <3>1 DEF Listed, IsInjective
  <2> QED
    BY <2>1 DEF At
<1>4. PICK A, B : A = At(q, s) /\ B = {q[i]}
  OBVIOUS
<1>5. /\ IsFiniteSet(ObjectsIn(h, A \cup B))
      /\ Cardinality(ObjectsIn(h, A \cup B))
           = Cardinality(ObjectsIn(h, A)) + Cardinality(ObjectsIn(h, B))
  BY <1>2, <1>3, <1>4, ObjectsAddUp
<1> QED
  BY <1>2, <1>3, <1>4, <1>5

LEMMA NoPosition ==
    ASSUME NEW h, NEW q
    PROVE  ObjectsIn(h, At(q, {})) = {}
BY DEF ObjectsIn, At

LEMMA PositionsAreFinite ==
    ASSUME NEW h, NEW q, Listed(h, q)
    PROVE  \A s \in SUBSET (1 .. Len(q)) :
               /\ IsFiniteSet(s) /\ Cardinality(s) \in 0 .. Len(q)
               /\ IsFiniteSet(ObjectsIn(h, At(q, s)))
<1>1. PICK n \in Nat : n = Len(q)
  BY LenProperties DEF Listed
<1> DEFINE T == {k \in 0 .. n : IsFiniteSet(ObjectsIn(h, At(q, 1 .. k)))}
<1>2. 0 \in T
  <2>1. 1 .. 0 = {} /\ 0 \in 0 .. n
    OBVIOUS
  <2> QED
    BY <2>1, NoPosition, FS_EmptySet
<1>3. ASSUME NEW k \in 0 .. n - 1, k \in T PROVE k + 1 \in T
  <2>1. /\ 1 .. k + 1 = (1 .. k) \cup {k + 1} /\ k + 1 \notin 1 .. k /\ k + 1 \in 1 .. n
        /\ 1 .. k \in SUBSET (1 .. n) /\ k + 1 \in 0 .. n
    OBVIOUS
  <2>2. IsFiniteSet(ObjectsIn(h, At(q, (1 .. k) \cup {k + 1})))
    BY <1>1, <1>3, <2>1, MorePositions
  <2> QED
    BY <2>1, <2>2
<1>4. 0 .. n \subseteq T
  <2> HIDE DEF T
  <2> QED
    BY <1>2, <1>3, SetInduction
<1>5. IsFiniteSet(ObjectsIn(h, At(q, 1 .. n)))
  BY <1>4
<1>6. IsFiniteSet(1 .. n) /\ Cardinality(1 .. n) = n
  <2>1. 1 \in Int /\ n \in Int /\ (IF 1 > n THEN 0 ELSE n - 1 + 1) = n
    OBVIOUS
  <2> QED
    BY <2>1, FS_Interval
<1>7. ASSUME NEW s \in SUBSET (1 .. n)
      PROVE  /\ IsFiniteSet(s) /\ Cardinality(s) \in 0 .. n
             /\ IsFiniteSet(ObjectsIn(h, At(q, s)))
  <2>1. IsFiniteSet(s) /\ Cardinality(s) <= n
    BY <1>6, FS_Subset
  <2>2. Cardinality(s) \in Nat
    BY <2>1, FS_CardinalityType
  <2>3. ObjectsIn(h, At(q, s)) \subseteq ObjectsIn(h, At(q, 1 .. n))
    BY DEF ObjectsIn, At
  <2>4. IsFiniteSet(ObjectsIn(h, At(q, s)))
    BY <1>5, <2>3, FS_Subset
  <2> QED
    BY <2>1, <2>2, <2>4
<1> QED
  BY <1>1, <1>7

\* The fold of UsedBytes counts the objects in the slabs of a list.
LEMMA FoldCountsObjects ==
    ASSUME NEW h, NEW q, Listed(h, q), NEW N \in Nat,
           \A i \in 1 .. Len(q) : /\ slab[q[i]].numberOfFreeSlots \in 0 .. N
                                  /\ Cardinality(Taken(h, q[i]))
                                       = N - slab[q[i]].numberOfFreeSlots
    PROVE  FoldLeft(LAMBDA sum, s : sum + N - slab[s].numberOfFreeSlots, 0, q)
             = Cardinality(ObjectsIn(h, Range(q)))
<1> DEFINE D == DOMAIN q
           pick(s) == Max(s)
           isSum(f) == f = [s \in SUBSET D |-> IF s = {} THEN 0
                               ELSE f[s \ {pick(s)}] + N - slab[q[pick(s)]].numberOfFreeSlots]
           g == [s \in SUBSET D |-> Cardinality(ObjectsIn(h, At(q, s)))]
<1>0. D = 1 .. Len(q) /\ Len(q) \in Nat
  BY LenProperties DEF Listed
<1>1. \A s \in SUBSET D : /\ IsFiniteSet(s) /\ Cardinality(s) \in 0 .. Len(q)
                          /\ IsFiniteSet(ObjectsIn(h, At(q, s)))
  BY <1>0, PositionsAreFinite
<1>2. ASSUME NEW s \in SUBSET D, s # {} PROVE pick(s) \in s
  <2> DEFINE under == {Len(q) - x : x \in s}
  <2>1. PICK m \in under : \A k \in under : m <= k
    <3>1. under \in SUBSET Nat /\ under # {}
      BY <1>0, <1>2
    <3> HIDE DEF under
    <3> QED
      BY <3>1, LeastNumber
  <2>2. PICK x \in s : m = Len(q) - x
    OBVIOUS
  <2>3. \A y \in s : x >= y
    <3> SUFFICES ASSUME NEW y \in s PROVE x >= y
      OBVIOUS
    <3>1. Len(q) - x <= Len(q) - y
      BY <2>1, <2>2
    <3>2. x \in Int /\ y \in Int
      BY <1>0
    <3> QED
      BY <1>0, <3>1, <3>2
  <2> QED
    BY <2>3 DEF Max
<1> HIDE DEF pick
<1>3. ASSUME NEW s \in SUBSET D
      PROVE  g[s] = IF s = {} THEN 0
                    ELSE g[s \ {pick(s)}] + N - slab[q[pick(s)]].numberOfFreeSlots
  <2>1. CASE s = {}
    <3>1. ObjectsIn(h, At(q, s)) = {}
      BY <2>1, NoPosition
    <3> QED
      BY <2>1, <3>1, FS_EmptySet
  <2>2. CASE s # {}
    <3>1. PICK x : x = pick(s)
      OBVIOUS
    <3>2. x \in s /\ x \in 1 .. Len(q)
      BY <1>0, <1>2, <2>2, <3>1
    <3>3. PICK r : r = s \ {x}
      OBVIOUS
    <3>4. r \in SUBSET D /\ r \in SUBSET (1 .. Len(q)) /\ x \notin r /\ s = r \cup {x}
      BY <1>0, <3>2, <3>3
    <3>5. IsFiniteSet(ObjectsIn(h, At(q, r)))
      BY <1>1, <3>4
    <3>6. Cardinality(ObjectsIn(h, At(q, r \cup {x})))
             = Cardinality(ObjectsIn(h, At(q, r))) + Cardinality(Taken(h, q[x]))
      BY <3>2, <3>4, <3>5, MorePositions
    <3>7. PICK a \in Nat : a = Cardinality(ObjectsIn(h, At(q, r)))
      BY <3>5, FS_CardinalityType
    <3>8. PICK b \in 0 .. N : b = slab[q[x]].numberOfFreeSlots /\ Cardinality(Taken(h, q[x])) = N - b
      BY <3>2
    <3>9. g[s] = a + (N - b)
      BY <3>4, <3>6, <3>7, <3>8
    <3>10. g[r] = a
      BY <3>4, <3>7
    <3>11. a + (N - b) = a + N - b
      OBVIOUS
    <3> HIDE DEF g
    <3> QED
      BY <2>2, <3>1, <3>3, <3>8, <3>9, <3>10, <3>11
  <2> QED
    BY <2>1, <2>2
<1>4. isSum(g)
  <2>1. g = [s \in SUBSET D |-> g[s]]
    OBVIOUS
  <2> HIDE DEF g, D
  <2> QED
    BY <1>3, <2>1
<1>5. PICK f : f = CHOOSE x : isSum(x)
  OBVIOUS
<1>6. isSum(f)
  <2> HIDE DEF isSum, g
  <2> QED
    BY <1>4, <1>5
<1>7. FoldLeft(LAMBDA sum, s : sum + N - slab[s].numberOfFreeSlots, 0, q) = f[D]
  BY <1>5, Zenon DEF FoldLeft, MapThenFoldSet, pick
<1> DEFINE T == {k \in 0 .. Len(q) : \A s \in SUBSET D : Cardinality(s) = k => f[s] = g[s]}
<1>8. 0 \in T
  <2>1. ASSUME NEW s \in SUBSET D, Cardinality(s) = 0 PROVE f[s] = g[s]
    <3>1. s = {}
      BY <1>1, <2>1, FS_EmptySet
    <3>2. f[s] = 0
      BY <1>6, <3>1
    <3>3. g[s] = 0
      BY <1>3, <3>1
    <3> QED
      BY <3>2, <3>3
  <2>2. 0 \in 0 .. Len(q)
    BY <1>0
  <2> QED
    BY <2>1, <2>2
<1>9. ASSUME NEW k \in 0 .. Len(q) - 1, k \in T PROVE k + 1 \in T
  <2>1. k \in Nat /\ k + 1 \in 0 .. Len(q)
    BY <1>0
  <2>2. ASSUME NEW s \in SUBSET D, Cardinality(s) = k + 1 PROVE f[s] = g[s]
    <3>1. s # {}
      <4>1. Cardinality(s) # 0
        BY <2>1, <2>2
      <4> HIDE DEF g, D
      <4> QED
        BY <4>1, FS_EmptySet
    <3>2. PICK x : x = pick(s)
      OBVIOUS
    <3>3. x \in s
      BY <1>2, <3>1, <3>2
    <3>4. f[s] = f[s \ {x}] + N - slab[q[x]].numberOfFreeSlots
      BY <1>6, <3>1, <3>2
    <3>5. g[s] = g[s \ {x}] + N - slab[q[x]].numberOfFreeSlots
      <4> HIDE DEF g
      <4> QED
        BY <1>3, <3>1, <3>2
    <3> HIDE DEF g
    <3>6. Cardinality(s \ {x}) = k /\ s \ {x} \in SUBSET D
      <4>1. Cardinality(s \ {x}) = Cardinality(s) - 1
        BY <1>1, <3>3, FS_RemoveElement
      <4> QED
        BY <2>1, <2>2, <4>1
    <3>7. f[s \ {x}] = g[s \ {x}]
      BY <1>9, <3>6
    <3> QED
      BY <3>4, <3>5, <3>7
  <2> HIDE DEF g
  <2> QED
    BY <2>1, <2>2
<1>10. 0 .. Len(q) \subseteq T
  <2> HIDE DEF T
  <2> QED
    BY <1>0, <1>8, <1>9, SetInduction
<1>11. f[D] = g[D]
  <2>1. Cardinality(D) \in T
    BY <1>1, <1>10
  <2> HIDE DEF g
  <2> QED
    BY <2>1
<1>12. g[D] = Cardinality(ObjectsIn(h, Range(q)))
  <2>1. At(q, D) = Range(q)
    BY DEF At, Range
  <2> QED
    BY <2>1
<1> QED
  BY <1>7, <1>11, <1>12

\* In a list of full slabs every slot is held.
LEMMA FullSlabsCount ==
    ASSUME NEW h, NEW q, Listed(h, q), NEW N \in Nat,
           \A i \in 1 .. Len(q) : Cardinality(Taken(h, q[i])) = N
    PROVE  Cardinality(ObjectsIn(h, Range(q))) = N * Len(q)
<1>1. PICK n \in Nat : n = Len(q) /\ DOMAIN q = 1 .. n
  BY LenProperties DEF Listed
<1> DEFINE T == {k \in 0 .. n : Cardinality(ObjectsIn(h, At(q, 1 .. k))) = N * k}
<1>2. 0 \in T
  <2>1. 1 .. 0 = {} /\ 0 \in 0 .. n /\ N * 0 = 0
    OBVIOUS
  <2> QED
    BY <2>1, NoPosition, FS_EmptySet
<1>3. ASSUME NEW k \in 0 .. n - 1, k \in T PROVE k + 1 \in T
  <2>1. /\ 1 .. k + 1 = (1 .. k) \cup {k + 1} /\ k + 1 \notin 1 .. k /\ k + 1 \in 1 .. n
        /\ 1 .. k \in SUBSET (1 .. n) /\ k + 1 \in 0 .. n
    OBVIOUS
  <2>2. IsFiniteSet(ObjectsIn(h, At(q, 1 .. k)))
    BY <1>1, <2>1, PositionsAreFinite
  <2>3. Cardinality(ObjectsIn(h, At(q, (1 .. k) \cup {k + 1})))
           = Cardinality(ObjectsIn(h, At(q, 1 .. k))) + Cardinality(Taken(h, q[k + 1]))
    BY <1>1, <2>1, <2>2, MorePositions
  <2>4. Cardinality(Taken(h, q[k + 1])) = N
    BY <1>1, <2>1
  <2>5. N * k + N = N * (k + 1)
    OBVIOUS
  <2> QED
    BY <1>3, <2>1, <2>3, <2>4, <2>5
<1>4. 0 .. n \subseteq T
  <2> HIDE DEF T
  <2> QED
    BY <1>2, <1>3, SetInduction
<1>5. n \in T
  BY <1>4
<1>6. At(q, 1 .. n) = Range(q)
  BY <1>1 DEF At, Range
<1> QED
  BY <1>1, <1>5, <1>6

\* Every object is in a slab of the lists, at one of its slots.
LEMMA ObjectsAreInSlots ==
    ASSUME SlabInv, NEW c \in DOMAIN cache
    PROVE  held \cap Slots(cache[c].free \o cache[c].dirty \o cache[c].full)
              = ObjectsIn(held, SlabsOf(cache[c]))
<1> DEFINE k == cache[c]
           all == k.free \o k.dirty \o k.full
<1>1. CacheOK(k, slab, held) /\ held \subseteq (DOMAIN slab) \X Int
  BY DEF SlabInv, Consistent
<1>2. Range(all) = SlabsOf(k)
  <2>1. /\ k.free \in Seq(DOMAIN slab) /\ k.dirty \in Seq(DOMAIN slab)
        /\ k.full \in Seq(DOMAIN slab)
    BY <1>1, CacheFacts
  <2>2. k.free \o k.dirty \in Seq(DOMAIN slab) /\ Range(k.free \o k.dirty) = Range(k.free) \cup Range(k.dirty)
    BY <2>1, ConcatElements
  <2>3. PICK q \in Seq(DOMAIN slab) : q = k.free \o k.dirty
    BY <2>2
  <2>4. Range(all) = Range(q) \cup Range(k.full)
    <3>1. Range(q \o k.full) = Range(q) \cup Range(k.full)
      BY <2>1, ConcatElements
    <3> QED
      BY <2>3, <3>1
  <2> QED
    BY <2>2, <2>3, <2>4 DEF SlabsOf
<1> HIDE DEF all
<1>3. ASSUME NEW o \in held, o[1] \in SlabsOf(k) PROVE o \in Slots(all)
  <2>1. PICK s \in DOMAIN slab, i \in Int : o = << s, i >>
    BY <1>1
  <2>2. s \in SlabsOf(k) /\ i \in Taken(held, s)
    BY <1>3, <2>1 DEF Taken
  <2>3. PICK N \in Nat \ {0} : SlabOK(slab[s], N, Taken(held, s))
    BY <2>2, SlabFacts
  <2>4. i \in DOMAIN slab[s].slots
    BY <2>2, <2>3 DEF SlabOK
  <2>5. o \in {s} \X DOMAIN slab[s].slots
    BY <2>1, <2>4
  <2> QED
    BY <1>2, <2>2, <2>5 DEF Slots
<1>4. ASSUME NEW o \in held, o \in Slots(all) PROVE o[1] \in SlabsOf(k)
  <2>1. PICK s \in Range(all) : o \in {s} \X DOMAIN slab[s].slots
    BY <1>4 DEF Slots
  <2> QED
    BY <1>2, <2>1
<1> QED
  BY <1>3, <1>4 DEF ObjectsIn, all

\* What kmem_cache_info prints is true: the bytes used are those of the
\* objects its callers hold, and the slabs counted are those in the lists, as
\* long as nobody frees a slot twice while its slab still holds objects
\* (SlabAllocator.cpp:75-77, 409-422).
THEOREM CacheInfoStaysTrue ==
    ASSUME NoDoubleFreeInDirtySlabs
    PROVE  Spec => []CacheInfoIsTrue
<1>1. SlabInv => CacheInfoIsTrue
  <2> SUFFICES ASSUME SlabInv, NEW c \in DOMAIN cache
               PROVE  LET k == cache[c] IN
                      /\ UsedBytes(k) = k.objectSizeInBytes
                            * Cardinality(held \cap Slots(k.free \o k.dirty \o k.full))
                      /\ k.numberOfSlabs = Len(k.free \o k.dirty \o k.full)
    BY DEF CacheInfoIsTrue
  <2> DEFINE k == cache[c]
             N == k.numberOfObjectsInOneSlab
  <2>1. CacheOK(k, slab, held) /\ held \subseteq (DOMAIN slab) \X Int
    BY DEF SlabInv, Consistent
  <2>2. /\ k.free \in Seq(DOMAIN slab) /\ k.dirty \in Seq(DOMAIN slab)
        /\ k.full \in Seq(DOMAIN slab) /\ Apart(k.free, k.dirty, k.full)
        /\ N \in Nat \ {0} /\ Sorted(k, FreeSlotsIn(slab), N) /\ SlabsOf(k) \subseteq DOMAIN slab
    BY <2>1, CacheFacts DEF CacheOK
  <2>3. ASSUME NEW s \in SlabsOf(k)
        PROVE  /\ slab[s].numberOfFreeSlots \in 0 .. N /\ IsFiniteSet(Taken(held, s))
               /\ Cardinality(Taken(held, s)) = N - slab[s].numberOfFreeSlots
    <3>1. SlabOK(slab[s], N, Taken(held, s))
      BY SlabFacts
    <3> HIDE DEF N
    <3> QED
      BY <2>2, <3>1, SlotsAddUp
  <2>4. ASSUME NEW q \in Seq(DOMAIN slab), IsInjective(q), Range(q) \subseteq SlabsOf(k)
        PROVE  Listed(held, q) /\ \A i \in 1 .. Len(q) : q[i] \in SlabsOf(k) /\ q[i] \in Range(q)
    <3>1. \A i \in 1 .. Len(q) : q[i] \in Range(q)
      BY LenProperties DEF Range
    <3> QED
      BY <2>1, <2>3, <2>4, <3>1 DEF Listed
  <2>5. /\ Listed(held, k.dirty) /\ Listed(held, k.full)
        /\ \A i \in 1 .. Len(k.dirty) : k.dirty[i] \in SlabsOf(k)
        /\ \A i \in 1 .. Len(k.full) : k.full[i] \in SlabsOf(k) /\ k.full[i] \in Range(k.full)
    BY <2>2, <2>4 DEF SlabsOf, Apart
  <2> HIDE DEF N
  <2>6. FoldLeft(LAMBDA sum, s : sum + N - slab[s].numberOfFreeSlots, 0, k.dirty)
           = Cardinality(ObjectsIn(held, Range(k.dirty)))
    BY <2>2, <2>3, <2>5, FoldCountsObjects
  <2>7. Cardinality(ObjectsIn(held, Range(k.full))) = N * Len(k.full)
    <3>1. ASSUME NEW i \in 1 .. Len(k.full) PROVE Cardinality(Taken(held, k.full[i])) = N
      <4>1. slab[k.full[i]].numberOfFreeSlots = 0
        BY <2>2, <2>5 DEF Sorted, FreeSlotsIn
      <4>2. N - 0 = N
        BY <2>2
      <4> QED
        BY <2>3, <2>5, <4>1, <4>2
    <3> QED
      BY <2>2, <2>5, <3>1, FullSlabsCount
  <2>8. ObjectsIn(held, Range(k.free)) = {}
    <3> SUFFICES ASSUME NEW o \in ObjectsIn(held, Range(k.free)) PROVE FALSE
      OBVIOUS
    <3>1. PICK s \in DOMAIN slab, i \in Int : o = << s, i >>
      BY <2>1 DEF ObjectsIn
    <3>2. s \in Range(k.free) /\ i \in Taken(held, s)
      BY <3>1 DEF ObjectsIn, Taken
    <3> QED
      BY <2>1, <3>2, FreeSlabsAreEmpty
  <2>9. Cardinality(ObjectsIn(held, SlabsOf(k)))
           = Cardinality(ObjectsIn(held, Range(k.dirty))) + Cardinality(ObjectsIn(held, Range(k.full)))
    <3>1. /\ IsFiniteSet(ObjectsIn(held, Range(k.dirty)))
          /\ IsFiniteSet(ObjectsIn(held, Range(k.full)))
      <4>1. ASSUME NEW q, Listed(held, q) PROVE IsFiniteSet(ObjectsIn(held, Range(q)))
        <5>1. DOMAIN q = 1 .. Len(q)
          BY <4>1, LenProperties DEF Listed
        <5>2. At(q, 1 .. Len(q)) = Range(q)
          BY <5>1 DEF At, Range
        <5>3. IsFiniteSet(ObjectsIn(held, At(q, 1 .. Len(q))))
          BY <4>1, PositionsAreFinite
        <5> QED
          BY <5>2, <5>3
      <4> QED
        BY <2>5, <4>1
    <3>2. ObjectsIn(held, SlabsOf(k)) = ObjectsIn(held, Range(k.dirty) \cup Range(k.full))
      BY <2>8 DEF ObjectsIn, SlabsOf
    <3>3. Range(k.dirty) \cap Range(k.full) = {}
      BY <2>2 DEF Apart
    <3>4. PICK A, B : A = Range(k.dirty) /\ B = Range(k.full)
      OBVIOUS
    <3>5. Cardinality(ObjectsIn(held, A \cup B))
             = Cardinality(ObjectsIn(held, A)) + Cardinality(ObjectsIn(held, B))
      BY <3>1, <3>3, <3>4, ObjectsAddUp
    <3> QED
      BY <3>2, <3>4, <3>5
  <2>10. UsedBytes(k) = k.objectSizeInBytes
            * Cardinality(held \cap Slots(k.free \o k.dirty \o k.full))
    <3>1. UsedBytes(k) = k.objectSizeInBytes
             * (FoldLeft(LAMBDA sum, s : sum + N - slab[s].numberOfFreeSlots, 0, k.dirty)
                  + N * Len(k.full))
      BY Zenon DEF UsedBytes, N
    <3> QED
      BY <2>6, <2>7, <2>9, <3>1, ObjectsAreInSlots
  <2>11. k.numberOfSlabs = Len(k.free \o k.dirty \o k.full)
    <3>1. PICK q \in Seq(DOMAIN slab) : q = k.free \o k.dirty
      BY <2>2, ConcatElements
    <3>2. Len(q) = Len(k.free) + Len(k.dirty)
      BY <2>2, <3>1, ConcatElements
    <3>3. Len(q \o k.full) = Len(q) + Len(k.full)
      BY <2>2, ConcatElements
    <3>4. k.numberOfSlabs = Len(k.free) + Len(k.dirty) + Len(k.full)
      BY <2>1 DEF CacheOK
    <3> QED
      BY <3>1, <3>2, <3>3, <3>4
  <2> QED
    BY <2>10, <2>11
<1> QED
  BY <1>1, SlabInvHolds, PTL
=============================================================================
