-------------------------- MODULE SleepListProofs --------------------------
(***************************************************************************)
(* What an insertion into the sleep list and a timer period do to the      *)
(* differences and to their sums, for any list whose head has time left.   *)
(***************************************************************************)
EXTENDS SleepList, Integers, SequencesExt, SequenceTheorems, WellFoundedInduction, TLAPS

-----------------------------------------------------------------------------
(* What the list operations do to the set of the elements of a list that   *)
(* holds nothing twice, and to the order of its elements.                  *)

\* Putting a new element at the end.
LEMMA AppendElements ==
    ASSUME NEW S, NEW q \in Seq(S), NEW e \in S
    PROVE  /\ Append(q, e) \in Seq(S)
           /\ Range(Append(q, e)) = Range(q) \cup {e}
           /\ IsInjective(q) /\ e \notin Range(q) => IsInjective(Append(q, e))
<1>1. /\ Append(q, e) \in Seq(S)
      /\ Len(Append(q, e)) = Len(q) + 1
      /\ DOMAIN Append(q, e) = 1 .. Len(q) + 1
      /\ DOMAIN q = 1 .. Len(q) /\ Len(q) \in Nat
      /\ \A i \in 1 .. Len(q) : Append(q, e)[i] = q[i]
      /\ Append(q, e)[Len(q) + 1] = e
  BY AppendProperties, LenProperties
<1>2. Range(Append(q, e)) \subseteq Range(q) \cup {e}
  BY <1>1 DEF Range
<1>3. Range(q) \cup {e} \subseteq Range(Append(q, e))
  <2>1. e \in Range(Append(q, e))
    BY <1>1 DEF Range
  <2>2. \A x \in Range(q) : x \in Range(Append(q, e))
    BY <1>1 DEF Range
  <2> QED
    BY <2>1, <2>2
<1>4. ASSUME IsInjective(q), e \notin Range(q)
      PROVE  IsInjective(Append(q, e))
  BY <1>1, <1>4 DEF IsInjective, Range
<1> QED
  BY <1>1, <1>2, <1>3, <1>4

\* Taking the first element.
LEMMA TailElements ==
    ASSUME NEW S, NEW q \in Seq(S), q # << >>, IsInjective(q)
    PROVE  /\ Head(q) \in S /\ Head(q) \in Range(q)
           /\ Tail(q) \in Seq(S)
           /\ Range(Tail(q)) = Range(q) \ {Head(q)}
           /\ IsInjective(Tail(q))
           /\ Len(Tail(q)) = Len(q) - 1
<1>1. /\ Head(q) = q[1] /\ Head(q) \in S
      /\ Tail(q) \in Seq(S) /\ Len(q) \in Nat \ {0}
      /\ Len(Tail(q)) = Len(q) - 1
      /\ DOMAIN q = 1 .. Len(q) /\ DOMAIN Tail(q) = 1 .. Len(q) - 1
      /\ \A i \in 1 .. Len(q) - 1 : Tail(q)[i] = q[i + 1]
  BY HeadTailProperties, LenProperties, EmptySeq
<1>2. Head(q) \in Range(q)
  BY <1>1 DEF Range
<1>3. IsInjective(Tail(q))
  BY <1>1 DEF IsInjective
<1>4. Range(Tail(q)) \subseteq Range(q) \ {Head(q)}
  BY <1>1 DEF Range, IsInjective
<1>5. Range(q) \ {Head(q)} \subseteq Range(Tail(q))
  <2> SUFFICES ASSUME NEW i \in 1 .. Len(q), q[i] # q[1]
               PROVE  q[i] \in Range(Tail(q))
    BY <1>1 DEF Range
  <2>1. i - 1 \in 1 .. Len(q) - 1 /\ Tail(q)[i - 1] = q[i]
    BY <1>1
  <2> QED
    BY <1>1, <2>1 DEF Range
<1> QED
  BY <1>1, <1>2, <1>3, <1>4, <1>5

\* Moving one list behind another.
LEMMA ConcatElements ==
    ASSUME NEW S, NEW p \in Seq(S), NEW q \in Seq(S)
    PROVE  /\ p \o q \in Seq(S)
           /\ Range(p \o q) = Range(p) \cup Range(q)
           /\ IsInjective(p) /\ IsInjective(q) /\ Range(p) \cap Range(q) = {}
                => IsInjective(p \o q)
<1>1. /\ p \o q \in Seq(S)
      /\ Len(p) \in Nat /\ Len(q) \in Nat
      /\ DOMAIN p = 1 .. Len(p) /\ DOMAIN q = 1 .. Len(q)
      /\ Len(p \o q) = Len(p) + Len(q)
      /\ DOMAIN (p \o q) = 1 .. Len(p) + Len(q)
      /\ \A i \in 1 .. Len(p) + Len(q) :
            (p \o q)[i] = IF i <= Len(p) THEN p[i] ELSE q[i - Len(p)]
  BY ConcatProperties, LenProperties
<1>2. Range(p \o q) = Range(p) \cup Range(q)
  BY RangeConcatenation
<1>3. ASSUME IsInjective(p), IsInjective(q), Range(p) \cap Range(q) = {}
      PROVE  IsInjective(p \o q)
  <2> SUFFICES ASSUME NEW i \in 1 .. Len(p) + Len(q), NEW j \in 1 .. Len(p) + Len(q),
                      (p \o q)[i] = (p \o q)[j]
               PROVE  i = j
    BY <1>1 DEF IsInjective
  <2>1. \A k \in 1 .. Len(p), l \in 1 .. Len(q) : p[k] # q[l]
    BY <1>1, <1>3 DEF Range
  <2>2. CASE i <= Len(p) /\ j <= Len(p)
    BY <1>1, <1>3, <2>2 DEF IsInjective
  <2>3. CASE i > Len(p) /\ j > Len(p)
    <3>1. i - Len(p) \in 1 .. Len(q) /\ j - Len(p) \in 1 .. Len(q)
      BY <1>1, <2>3
    <3>2. q[i - Len(p)] = q[j - Len(p)]
      BY <1>1, <2>3
    <3>3. i - Len(p) = j - Len(p)
      BY <1>1, <1>3, <3>1, <3>2 DEF IsInjective
    <3> QED
      BY <1>1, <3>3
  <2>4. CASE i <= Len(p) /\ j > Len(p)
    <3>1. p[i] = q[j - Len(p)] /\ j - Len(p) \in 1 .. Len(q) /\ i \in 1 .. Len(p)
      BY <1>1, <2>4
    <3> QED
      BY <2>1, <3>1
  <2>5. CASE i > Len(p) /\ j <= Len(p)
    <3>1. p[j] = q[i - Len(p)] /\ i - Len(p) \in 1 .. Len(q) /\ j \in 1 .. Len(p)
      BY <1>1, <2>5
    <3> QED
      BY <2>1, <3>1
  <2> QED
    BY <1>1, <2>2, <2>3, <2>4, <2>5
<1> QED
  BY <1>1, <1>2, <1>3

\* Cutting a list in two after its first n elements.
LEMMA SplitElements ==
    ASSUME NEW S, NEW q \in Seq(S), IsInjective(q), NEW n \in 0 .. Len(q)
    PROVE  LET p == SubSeq(q, 1, n)
               r == SubSeq(q, n + 1, Len(q))
           IN  /\ p \in Seq(S) /\ r \in Seq(S)
               /\ Range(q) = Range(p) \cup Range(r)
               /\ Range(p) \cap Range(r) = {}
               /\ IsInjective(p) /\ IsInjective(r)
<1> DEFINE p == SubSeq(q, 1, n)
           r == SubSeq(q, n + 1, Len(q))
<1>1. /\ Len(q) \in Nat /\ DOMAIN q = 1 .. Len(q)
      /\ p \in Seq(S) /\ DOMAIN p = 1 .. n
      /\ \A i \in 1 .. n : p[i] = q[i]
  <2>1. Len(q) \in Nat /\ DOMAIN q = 1 .. Len(q)
    BY LenProperties
  <2>2. \A i \in 1 .. n : q[i] \in S
    BY <2>1, ElementOfSeq
  <2>3. p \in Seq(S) /\ Len(p) = n /\ \A i \in 1 .. n : p[i] = q[i]
    BY <2>1, <2>2, SubSeqProperties
  <2> QED
    BY <2>1, <2>3, LenProperties
<1>2. /\ r \in Seq(S) /\ DOMAIN r = 1 .. Len(q) - n
      /\ \A i \in 1 .. Len(q) - n : r[i] = q[n + i]
  <2>1. \A i \in n + 1 .. Len(q) : q[i] \in S
    BY <1>1, ElementOfSeq
  <2>2. n + 1 \in Int /\ Len(q) \in Int
    BY <1>1
  <2>3. /\ r \in Seq(S)
        /\ Len(r) = IF n + 1 <= Len(q) THEN Len(q) - (n + 1) + 1 ELSE 0
        /\ \A i \in 1 .. Len(q) - (n + 1) + 1 : r[i] = q[n + 1 + i - 1]
    BY ONLY <2>1, <2>2, SubSeqProperties
  <2> HIDE DEF p, r
  <2>4. /\ Len(r) = Len(q) - n
        /\ \A i \in 1 .. Len(q) - n : r[i] = q[n + i]
    <3>1. Len(q) - (n + 1) + 1 = Len(q) - n
      BY <1>1
    <3>2. Len(r) = Len(q) - n
      <4>1. n \in Nat /\ Len(q) \in Nat /\ n <= Len(q)
        BY <1>1
      <4>2. (IF n + 1 <= Len(q) THEN Len(q) - (n + 1) + 1 ELSE 0) = Len(q) - n
        BY <4>1
      <4> QED
        BY <2>3, <4>2
    <3>3. ASSUME NEW i \in 1 .. Len(q) - n PROVE r[i] = q[n + i]
      <4>1. n + 1 + i - 1 = n + i
        BY <1>1
      <4> QED
        BY <2>3, <3>1, <4>1
    <3> QED
      BY <3>2, <3>3
  <2> QED
    BY <2>3, <2>4, LenProperties
<1> HIDE DEF p, r
<1>3. IsInjective(p)
  BY <1>1 DEF IsInjective
<1>4. IsInjective(r)
  <2> SUFFICES ASSUME NEW i \in 1 .. Len(q) - n, NEW j \in 1 .. Len(q) - n, r[i] = r[j]
               PROVE  i = j
    BY <1>2 DEF IsInjective
  <2>1. n + i \in 1 .. Len(q) /\ n + j \in 1 .. Len(q) /\ q[n + i] = q[n + j]
    BY <1>1, <1>2
  <2> QED
    BY <1>1, <2>1 DEF IsInjective
<1>5. \A i \in 1 .. n, j \in 1 .. Len(q) - n : p[i] # r[j]
  <2> SUFFICES ASSUME NEW i \in 1 .. n, NEW j \in 1 .. Len(q) - n
               PROVE  q[i] # q[n + j]
    BY <1>1, <1>2
  <2>1. i \in DOMAIN q /\ n + j \in DOMAIN q /\ i # n + j
    BY <1>1
  <2> QED
    BY <2>1 DEF IsInjective
<1>6. Range(p) \cap Range(r) = {}
  BY <1>1, <1>2, <1>5 DEF Range
<1>7. Range(p) \cup Range(r) \subseteq Range(q)
  <2>1. Range(p) \subseteq Range(q)
    BY <1>1 DEF Range
  <2>2. ASSUME NEW j \in 1 .. Len(q) - n
        PROVE  r[j] \in Range(q)
    <3>1. n + j \in DOMAIN q
      BY <1>1
    <3> QED
      BY <1>2, <3>1 DEF Range
  <2> QED
    BY <1>2, <2>1, <2>2 DEF Range
<1>8. ASSUME NEW i \in 1 .. Len(q)
      PROVE  q[i] \in Range(p) \cup Range(r)
  <2>1. CASE i <= n
    BY <1>1, <2>1 DEF Range
  <2>2. CASE i > n
    <3>1. i - n \in DOMAIN r /\ r[i - n] = q[i]
      BY <1>1, <1>2, <2>2
    <3> QED
      BY <3>1 DEF Range
  <2> QED
    BY <1>1, <2>1, <2>2
<1>9. Range(q) = Range(p) \cup Range(r)
  BY <1>1, <1>7, <1>8 DEF Range
<1> QED
  BY <1>1, <1>2, <1>3, <1>4, <1>6, <1>9 DEF p, r

\* Inserting a new element anywhere.
LEMMA InsertElements ==
    ASSUME NEW S, NEW q \in Seq(S), NEW e \in S, NEW pos \in 1 .. Len(q) + 1,
           IsInjective(q), e \notin Range(q)
    PROVE  /\ InsertAt(q, pos, e) \in Seq(S)
           /\ Range(InsertAt(q, pos, e)) = Range(q) \cup {e}
           /\ IsInjective(InsertAt(q, pos, e))
<1> DEFINE p == SubSeq(q, 1, pos - 1)
           r == SubSeq(q, pos, Len(q))
           one == << e >>
<1>1. /\ p \in Seq(S) /\ r \in Seq(S)
      /\ Range(q) = Range(p) \cup Range(r)
      /\ Range(p) \cap Range(r) = {}
      /\ IsInjective(p) /\ IsInjective(r)
  <2>1. pos - 1 \in 0 .. Len(q) /\ (pos - 1) + 1 = pos
    BY LenProperties
  <2> QED
    BY <2>1, SplitElements
<1>2. one \in Seq(S) /\ Range(one) = {e} /\ IsInjective(one)
  <2>1. one = Append(<< >>, e) /\ << >> \in Seq(S)
    OBVIOUS
  <2>2. Range(<< >>) = {} /\ IsInjective(<< >>)
    BY DEF Range, IsInjective
  <2>3. e \notin Range(<< >>)
    BY <2>2
  <2>4. Append(<< >>, e) \in Seq(S) /\ Range(Append(<< >>, e)) = Range(<< >>) \cup {e}
        /\ IsInjective(Append(<< >>, e))
    BY ONLY e \in S, <2>1, <2>2, <2>3, AppendElements, ZenonT(60)
  <2> QED
    BY <2>1, <2>2, <2>4
<1>3. /\ p \o one \in Seq(S) /\ Range(p \o one) = Range(p) \cup {e}
      /\ IsInjective(p \o one)
  <2>1. Range(p) \cap Range(one) = {}
    BY <1>1, <1>2
  <2> HIDE DEF p, one
  <2> QED
    BY <1>1, <1>2, <2>1, ConcatElements
<1>4. (p \o one) \o r = InsertAt(q, pos, e)
  BY DEF InsertAt
<1>5. Range(p \o one) \cap Range(r) = {}
  BY <1>1, <1>3
<1>6. /\ (p \o one) \o r \in Seq(S)
      /\ Range((p \o one) \o r) = Range(p \o one) \cup Range(r)
      /\ IsInjective((p \o one) \o r)
  <2> DEFINE po == p \o one
  <2>0. r \in Seq(S) /\ IsInjective(r)
    BY <1>1
  <2>1. po \in Seq(S) /\ IsInjective(po) /\ Range(po) \cap Range(r) = {}
    BY <1>3, <1>5
  <2> HIDE DEF po, r
  <2>2. /\ po \o r \in Seq(S)
        /\ Range(po \o r) = Range(po) \cup Range(r)
        /\ IsInjective(po \o r)
    BY <2>0, <2>1, ConcatElements
  <2> QED
    BY <2>2 DEF po
<1> QED
  BY <1>1, <1>3, <1>4, <1>6

\* A list is the beginning of the list made by putting another behind it.
LEMMA ConcatPrefix ==
    ASSUME NEW S, NEW p \in Seq(S), NEW q \in Seq(S)
    PROVE  IsPrefix(p, p \o q)
<1>1. /\ p \o q \in Seq(S) /\ Len(p) \in Nat /\ Len(q) \in Nat
      /\ Len(p \o q) = Len(p) + Len(q)
  BY ConcatProperties, LenProperties
<1>2. SubSeq(p, 1, Len(p)) = p
  BY SubSeqFull
<1>3. SubSeq(p \o q, 1, Len(p)) = p
  <2>1. CASE Len(p) = 0
    <3>1. p = << >>
      BY <2>1, EmptySeq
    <3>2. SubSeq(p \o q, 1, Len(p)) = << >>
      BY <2>1, SubSeqEmpty
    <3> QED
      BY <3>1, <3>2
  <2>2. CASE Len(p) > 0
    <3>1. 1 \in 1 .. Len(p) /\ Len(p) \in 1 .. Len(p)
      BY <1>1, <2>2
    <3> QED
      BY <1>2, <3>1, SubSeqOfConcat1
  <2> QED
    BY <1>1, <2>1, <2>2
<1> QED
  BY <1>1, <1>2, <1>3 DEF IsPrefix

\* The first element and the rest of such a list.
LEMMA ConcatHeadTail ==
    ASSUME NEW S, NEW p \in Seq(S), NEW q \in Seq(S), p # << >>
    PROVE  Head(p \o q) = Head(p) /\ Tail(p \o q) = Tail(p) \o q
<1>1. /\ p \o q \in Seq(S) /\ Len(p) \in Nat \ {0} /\ Len(q) \in Nat
      /\ Len(p \o q) = Len(p) + Len(q)
      /\ \A i \in 1 .. Len(p) + Len(q) :
            (p \o q)[i] = IF i <= Len(p) THEN p[i] ELSE q[i - Len(p)]
  BY ConcatProperties, LenProperties, EmptySeq
<1>2. p \o q # << >>
  BY <1>1, EmptySeq
<1>3. Head(p \o q) = Head(p)
  BY <1>1
<1>4. /\ Tail(p \o q) \in Seq(S) /\ Len(Tail(p \o q)) = Len(p) + Len(q) - 1
      /\ \A i \in 1 .. Len(p) + Len(q) - 1 : Tail(p \o q)[i] = (p \o q)[i + 1]
  BY <1>1, <1>2, HeadTailProperties
<1>5. /\ Tail(p) \in Seq(S) /\ Len(Tail(p)) = Len(p) - 1
      /\ \A i \in 1 .. Len(p) - 1 : Tail(p)[i] = p[i + 1]
  BY <1>1, HeadTailProperties
<1>6. /\ Tail(p) \o q \in Seq(S) /\ Len(Tail(p) \o q) = Len(p) - 1 + Len(q)
      /\ \A i \in 1 .. Len(p) - 1 + Len(q) :
            (Tail(p) \o q)[i] = IF i <= Len(p) - 1 THEN Tail(p)[i] ELSE q[i - (Len(p) - 1)]
  BY <1>1, <1>5, ConcatProperties
<1> DEFINE left == Tail(p \o q)
           right == Tail(p) \o q
<1>7. ASSUME NEW i \in 1 .. Len(p) + Len(q) - 1
      PROVE  left[i] = right[i]
  <2>1. left[i] = (p \o q)[i + 1] /\ i + 1 \in 1 .. Len(p) + Len(q)
    BY <1>1, <1>4
  <2>2. CASE i <= Len(p) - 1
    <3>1. i \in 1 .. Len(p) - 1 /\ i + 1 <= Len(p)
      BY <1>1, <2>2
    <3>2. right[i] = p[i + 1] /\ (p \o q)[i + 1] = p[i + 1]
      BY <1>1, <1>5, <1>6, <2>1, <3>1
    <3> QED
      BY <2>1, <3>2
  <2>3. CASE i > Len(p) - 1
    <3>1. right[i] = q[i - (Len(p) - 1)] /\ (p \o q)[i + 1] = q[i + 1 - Len(p)]
      BY <1>1, <1>6, <2>1, <2>3
    <3>2. i - (Len(p) - 1) = i + 1 - Len(p)
      BY <1>1
    <3> QED
      BY <2>1, <3>1, <3>2
  <2> QED
    BY <1>1, <2>2, <2>3
<1>8. left \in Seq(S) /\ right \in Seq(S) /\ Len(left) = Len(right)
      /\ Len(left) = Len(p) + Len(q) - 1
  BY <1>1, <1>4, <1>6
<1> HIDE DEF left, right
<1>9. left = right
  BY <1>7, <1>8, SeqEqual
<1> QED
  BY <1>3, <1>9 DEF left, right

\* What stands where after an insertion.
LEMMA InsertIndices ==
    ASSUME NEW S, NEW q \in Seq(S), NEW e \in S, NEW pos \in 1 .. Len(q) + 1
    PROVE  /\ InsertAt(q, pos, e) \in Seq(S)
           /\ Len(InsertAt(q, pos, e)) = Len(q) + 1
           /\ \A i \in 1 .. pos - 1 : InsertAt(q, pos, e)[i] = q[i]
           /\ InsertAt(q, pos, e)[pos] = e
           /\ \A i \in pos .. Len(q) : InsertAt(q, pos, e)[i + 1] = q[i]
<1> DEFINE p == SubSeq(q, 1, pos - 1)
           r == SubSeq(q, pos, Len(q))
           one == << e >>
<1>1. Len(q) \in Nat /\ \A i \in 1 .. Len(q) : q[i] \in S
  BY ElementOfSeq, LenProperties
<1>2. p \in Seq(S) /\ Len(p) = pos - 1 /\ \A i \in 1 .. pos - 1 : p[i] = q[i]
  <2>1. \A i \in 1 .. pos - 1 : q[i] \in S
    BY <1>1
  <2> QED
    BY <1>1, <2>1, SubSeqProperties
<1>3. r \in Seq(S) /\ Len(r) = Len(q) - pos + 1
      /\ \A i \in 1 .. Len(q) - pos + 1 : r[i] = q[pos + i - 1]
  <2>1. \A i \in pos .. Len(q) : q[i] \in S
    BY <1>1
  <2>2. pos \in Int /\ Len(q) \in Int
    BY <1>1
  <2>3. /\ r \in Seq(S)
        /\ Len(r) = IF pos <= Len(q) THEN Len(q) - pos + 1 ELSE 0
        /\ \A i \in 1 .. Len(q) - pos + 1 : r[i] = q[pos + i - 1]
    BY ONLY <2>1, <2>2, SubSeqProperties
  <2>4. (IF pos <= Len(q) THEN Len(q) - pos + 1 ELSE 0) = Len(q) - pos + 1
    BY <1>1
  <2> HIDE DEF r
  <2> QED
    BY <2>3, <2>4
<1>4. one \in Seq(S) /\ Len(one) = 1 /\ one[1] = e
  OBVIOUS
<1> DEFINE po == p \o one
<1> HIDE DEF p, r, one
<1>5. /\ po \in Seq(S) /\ Len(po) = pos
      /\ \A i \in 1 .. pos - 1 : po[i] = q[i]
      /\ po[pos] = e
  <2>1. /\ p \o one \in Seq(S) /\ Len(p \o one) = Len(p) + Len(one)
        /\ \A i \in 1 .. Len(p) + Len(one) :
              (p \o one)[i] = IF i <= Len(p) THEN p[i] ELSE one[i - Len(p)]
    BY <1>2, <1>4, ConcatProperties
  <2>2. Len(p) + Len(one) = pos /\ pos - Len(p) = 1 /\ ~(pos <= Len(p))
    BY <1>2, <1>4
  <2> QED
    BY <1>2, <1>4, <2>1, <2>2
<1> HIDE DEF po
<1>6. /\ po \o r \in Seq(S) /\ Len(po \o r) = Len(q) + 1
      /\ \A i \in 1 .. Len(q) + 1 : (po \o r)[i] = IF i <= pos THEN po[i] ELSE r[i - pos]
  <2>1. /\ po \o r \in Seq(S) /\ Len(po \o r) = Len(po) + Len(r)
        /\ \A i \in 1 .. Len(po) + Len(r) :
              (po \o r)[i] = IF i <= Len(po) THEN po[i] ELSE r[i - Len(po)]
    BY <1>3, <1>5, ConcatProperties
  <2>2. Len(po) = pos /\ Len(po) + Len(r) = Len(q) + 1
    BY <1>1, <1>3, <1>5
  <2> QED
    BY <2>1, <2>2
<1>7. \A i \in pos .. Len(q) : (po \o r)[i + 1] = q[i]
  <2> SUFFICES ASSUME NEW i \in pos .. Len(q) PROVE (po \o r)[i + 1] = q[i]
    OBVIOUS
  <2>1. i + 1 \in 1 .. Len(q) + 1 /\ ~(i + 1 <= pos) /\ (i + 1) - pos \in 1 .. Len(q) - pos + 1
        /\ pos + ((i + 1) - pos) - 1 = i
    BY <1>1
  <2> QED
    BY <1>3, <1>6, <2>1
<1>8. InsertAt(q, pos, e) = po \o r
  BY DEF InsertAt, po, p, r, one
<1>9. \A i \in 1 .. pos : i <= pos /\ i \in 1 .. Len(q) + 1
  BY <1>1
<1> QED
  BY <1>1, <1>5, <1>6, <1>7, <1>8, <1>9

\* What is left when the first n elements are taken.
LEMMA DropIndices ==
    ASSUME NEW S, NEW q \in Seq(S), NEW n \in 0 .. Len(q)
    PROVE  LET r == SubSeq(q, n + 1, Len(q))
           IN  /\ r \in Seq(S) /\ Len(r) = Len(q) - n
               /\ \A i \in 1 .. Len(q) - n : r[i] = q[i + n]
<1> DEFINE r == SubSeq(q, n + 1, Len(q))
<1>1. Len(q) \in Nat /\ \A i \in 1 .. Len(q) : q[i] \in S
  BY ElementOfSeq, LenProperties
<1>2. \A i \in n + 1 .. Len(q) : q[i] \in S
  BY <1>1
<1>3. n + 1 \in Int /\ Len(q) \in Int
  BY <1>1
<1>4. /\ r \in Seq(S)
      /\ Len(r) = IF n + 1 <= Len(q) THEN Len(q) - (n + 1) + 1 ELSE 0
      /\ \A i \in 1 .. Len(q) - (n + 1) + 1 : r[i] = q[n + 1 + i - 1]
  BY ONLY <1>2, <1>3, SubSeqProperties
<1> HIDE DEF r
<1>5. /\ (IF n + 1 <= Len(q) THEN Len(q) - (n + 1) + 1 ELSE 0) = Len(q) - n
      /\ Len(q) - (n + 1) + 1 = Len(q) - n
      /\ \A i \in 1 .. Len(q) - n : n + 1 + i - 1 = i + n
  BY <1>1
<1>6. r \in Seq(S) /\ Len(r) = Len(q) - n
  BY <1>4, <1>5
<1>7. \A i \in 1 .. Len(q) - n : r[i] = q[i + n]
  BY <1>4, <1>5
<1> QED
  BY <1>6, <1>7 DEF r

-----------------------------------------------------------------------------
(* Sums along a list.  Induction goes through a set of numbers.            *)

\* Induction up to n, with a set in the place of a predicate.
LEMMA SetInduction ==
    ASSUME NEW n \in Nat, NEW T, 0 \in T, \A k \in 0 .. n - 1 : k \in T => k + 1 \in T
    PROVE  0 .. n \subseteq T
<1> DEFINE rest == (0 .. n) \ T
           less == OpToRel(<, Nat)
<1> SUFFICES ASSUME rest # {} PROVE FALSE
  OBVIOUS
<1>1. PICK m \in rest : \A k \in rest : ~ (<< k, m >> \in less)
  <2>1. IsWellFoundedOn(less, Nat)
    BY NatLessThanWellFounded
  <2>2. rest \subseteq Nat
    OBVIOUS
  <2> HIDE DEF rest, less
  <2> QED
    BY <2>1, <2>2, WFMin
<1>2. m \in Nat /\ m # 0 /\ m - 1 \in 0 .. n - 1 /\ (m - 1) + 1 = m
  OBVIOUS
<1>3. << m - 1, m >> \in less
  BY <1>2 DEF OpToRel
<1>4. m - 1 \in T
  <2>1. m - 1 \in 0 .. n
    BY <1>2
  <2> HIDE DEF less
  <2> QED
    BY <1>1, <1>3, <2>1
<1>5. m \in T
  BY <1>2, <1>4
<1> QED
  BY <1>5

\* The sums of the first 0, 1, 2, ... of n numbers.
LEMMA SumsExist ==
    ASSUME NEW n \in Nat, NEW g \in [1 .. n -> Int]
    PROVE  \E f \in [0 .. n -> Int] : f[0] = 0 /\ \A i \in 1 .. n : f[i] = f[i - 1] + g[i]
<1> DEFINE Sums(k) == {f \in [0 .. k -> Int] :
                          f[0] = 0 /\ \A i \in 1 .. k : f[i] = f[i - 1] + g[i]}
           T == {k \in 0 .. n : Sums(k) # {}}
<1>1. 0 \in T
  <2> DEFINE f == [i \in 0 .. 0 |-> 0]
  <2>1. f \in Sums(0)
    OBVIOUS
  <2> QED
    BY <2>1
<1>2. ASSUME NEW k \in 0 .. n - 1, k \in T PROVE k + 1 \in T
  <2>1. PICK f \in [0 .. k -> Int] :
           f[0] = 0 /\ \A i \in 1 .. k : f[i] = f[i - 1] + g[i]
    BY <1>2
  <2> DEFINE h == [i \in 0 .. k + 1 |-> IF i = k + 1 THEN f[k] + g[k + 1] ELSE f[i]]
  <2>2. h \in [0 .. k + 1 -> Int]
    OBVIOUS
  <2>3. h[0] = 0 /\ \A i \in 1 .. k + 1 : h[i] = h[i - 1] + g[i]
    BY <2>1
  <2> HIDE DEF h
  <2>4. h \in Sums(k + 1)
    BY <2>2, <2>3
  <2>5. k + 1 \in 0 .. n
    OBVIOUS
  <2> HIDE DEF Sums
  <2> QED
    BY <2>4, <2>5
<1>3. n \in T
  <2> HIDE DEF T
  <2>1. 0 .. n \subseteq T
    BY <1>1, <1>2, SetInduction
  <2> QED
    BY <2>1
<1>4. Sums(n) # {}
  BY <1>3
<1> QED
  BY <1>4

\* A function that adds them up has integer values.
LEMMA SumsAreIntegers ==
    ASSUME NEW n \in Nat, NEW g \in [1 .. n -> Int],
           NEW f, f = [i \in 0 .. n |-> f[i]],
           f[0] = 0, \A i \in 1 .. n : f[i] = f[i - 1] + g[i]
    PROVE  f \in [0 .. n -> Int]
<1> DEFINE T == {k \in 0 .. n : f[k] \in Int}
<1>1. 0 \in T
  OBVIOUS
<1>2. ASSUME NEW k \in 0 .. n - 1, k \in T PROVE k + 1 \in T
  <2>1. k + 1 \in 1 .. n /\ (k + 1) - 1 = k
    OBVIOUS
  <2>2. f[k + 1] = f[k] + g[k + 1]
    BY <2>1
  <2> QED
    BY <1>2, <2>1, <2>2
<1>3. 0 .. n \subseteq T
  <2> HIDE DEF T
  <2> QED
    BY <1>1, <1>2, SetInduction
<1>4. \A k \in 0 .. n : f[k] \in Int
  BY <1>3
<1> QED
  BY <1>4

\* Two functions that grow alike from m to n keep their distance.
LEMMA SameSteps ==
    ASSUME NEW m \in Nat, NEW n \in Nat, m <= n, NEW c \in Int,
           NEW f \in [m .. n -> Int], NEW h \in [m .. n -> Int],
           f[m] = h[m] + c,
           \A i \in m + 1 .. n : f[i] - f[i - 1] = h[i] - h[i - 1]
    PROVE  \A i \in m .. n : f[i] = h[i] + c
<1> DEFINE T == {k \in 0 .. n - m : f[k + m] = h[k + m] + c}
<1>1. n - m \in Nat /\ 0 \in T
  OBVIOUS
<1>2. ASSUME NEW k \in 0 .. n - m - 1, k \in T PROVE k + 1 \in T
  <2> DEFINE i == k + m
  <2>1. i \in m .. n /\ i + 1 \in m + 1 .. n /\ i + 1 \in m .. n /\ (i + 1) - 1 = i
    OBVIOUS
  <2>2. f[i + 1] - f[i] = h[i + 1] - h[i] /\ f[i] = h[i] + c
    BY <1>2, <2>1
  <2>3. f[i + 1] \in Int /\ f[i] \in Int /\ h[i + 1] \in Int /\ h[i] \in Int
    BY <2>1
  <2>4. f[i + 1] = h[i + 1] + c
    <3> DEFINE v == f[i + 1]
               w == f[i]
               y == h[i + 1]
               z == h[i]
    <3>1. v \in Int /\ w \in Int /\ y \in Int /\ z \in Int /\ v - w = y - z /\ w = z + c
      BY <2>2, <2>3
    <3> HIDE DEF v, w, y, z
    <3>2. v = y + c
      BY <3>1
    <3> QED
      BY <3>2 DEF v, y
  <2>5. (k + 1) + m = i + 1 /\ k + 1 \in 0 .. n - m
    OBVIOUS
  <2> HIDE DEF i
  <2> QED
    BY <2>4, <2>5
<1>3. 0 .. n - m \subseteq T
  <2> HIDE DEF T
  <2> QED
    BY <1>1, <1>2, SetInduction
<1>4. ASSUME NEW i \in m .. n PROVE f[i] = h[i] + c
  <2>1. i - m \in 0 .. n - m /\ (i - m) + m = i
    OBVIOUS
  <2>2. i - m \in T
    BY <1>3, <2>1
  <2> QED
    BY <2>1, <2>2
<1> QED
  BY <1>4

\* Sums of numbers that are not negative are not negative.
LEMMA SumsAreNatural ==
    ASSUME NEW n \in Nat, NEW f \in [0 .. n -> Int], f[0] = 0,
           \A i \in 1 .. n : f[i - 1] <= f[i]
    PROVE  \A i \in 0 .. n : f[i] >= 0
<1> DEFINE T == {k \in 0 .. n : f[k] >= 0}
<1>1. 0 \in T
  OBVIOUS
<1>2. ASSUME NEW k \in 0 .. n - 1, k \in T PROVE k + 1 \in T
  <2>1. k + 1 \in 1 .. n /\ (k + 1) - 1 = k /\ k \in 0 .. n /\ k + 1 \in 0 .. n
    OBVIOUS
  <2>2. f[k] <= f[k + 1] /\ f[k] \in Int /\ f[k + 1] \in Int /\ f[k] >= 0
    BY <1>2, <2>1
  <2> QED
    BY <2>1, <2>2
<1>3. 0 .. n \subseteq T
  <2> HIDE DEF T
  <2> QED
    BY <1>1, <1>2, SetInduction
<1> QED
  BY <1>3

\* The running sums of the weights of the elements of a list exist, ...
LEMMA RunningSumsExist ==
    ASSUME NEW S, NEW q \in Seq(S), NEW w \in [S -> Int]
    PROVE  \E f : f = [i \in 0 .. Len(q) |-> IF i = 0 THEN 0 ELSE f[i - 1] + w[q[i]]]
<1> DEFINE n == Len(q)
           g == [i \in 1 .. n |-> w[q[i]]]
           nextSum(f) == [i \in 0 .. n |-> IF i = 0 THEN 0 ELSE f[i - 1] + w[q[i]]]
<1>1. n \in Nat /\ g \in [1 .. n -> Int]
  BY ElementOfSeq, LenProperties
<1>2. PICK f \in [0 .. n -> Int] : f[0] = 0 /\ \A i \in 1 .. n : f[i] = f[i - 1] + g[i]
  <2> HIDE DEF n, g
  <2> QED
    BY <1>1, SumsExist
<1>3. f = nextSum(f)
  BY <1>1, <1>2
<1> HIDE DEF nextSum
<1>4. \E h : h = nextSum(h)
  BY <1>3
<1> QED
  BY <1>4 DEF nextSum

\* ... and whatever function adds up the weights is made of integers.
LEMMA RunningSums ==
    ASSUME NEW S, NEW q \in Seq(S), NEW w \in [S -> Int],
           NEW f, f = [i \in 0 .. Len(q) |-> f[i]],
           f[0] = 0, \A i \in 1 .. Len(q) : f[i] = f[i - 1] + w[q[i]]
    PROVE  f \in [0 .. Len(q) -> Int]
<1> DEFINE n == Len(q)
           g == [i \in 1 .. n |-> w[q[i]]]
<1>1. n \in Nat /\ g \in [1 .. n -> Int]
  BY ElementOfSeq, LenProperties
<1>2. \A i \in 1 .. n : f[i] = f[i - 1] + g[i]
  BY <1>1
<1>3. f = [i \in 0 .. n |-> f[i]] /\ f[0] = 0
  OBVIOUS
<1> HIDE DEF n, g
<1>4. f \in [0 .. n -> Int]
  BY ONLY <1>1, <1>2, <1>3, SumsAreIntegers
<1> QED
  BY <1>4 DEF n

-----------------------------------------------------------------------------
(* The sums of the differences                                             *)

\* What the sums of the differences are.
SumsAddUp ==
    sleepers \in Seq(Threads) /\ sleepTime \in [Threads -> Int] =>
       /\ SumOfSleepTimes \in [0 .. Len(sleepers) -> Int]
       /\ SumOfSleepTimes[0] = 0
       /\ \A i \in 1 .. Len(sleepers) :
             SumOfSleepTimes[i] = SumOfSleepTimes[i - 1] + sleepTime[sleepers[i]]

LEMMA SumOfSleepTimesFacts == SumsAddUp
<1> DEFINE nextSum(f) == [i \in 0 .. Len(sleepers) |->
                             IF i = 0 THEN 0 ELSE f[i - 1] + sleepTime[sleepers[i]]]
<1> SUFFICES ASSUME sleepers \in Seq(Threads), sleepTime \in [Threads -> Int]
             PROVE  /\ SumOfSleepTimes \in [0 .. Len(sleepers) -> Int]
                    /\ SumOfSleepTimes[0] = 0
                    /\ \A i \in 1 .. Len(sleepers) :
                          SumOfSleepTimes[i] = SumOfSleepTimes[i - 1] + sleepTime[sleepers[i]]
  BY DEF SumsAddUp
<1>1. \E f : f = nextSum(f)
  BY RunningSumsExist
<1>2. SumOfSleepTimes = CHOOSE f : f = nextSum(f)
  BY DEF SumOfSleepTimes
<1>3. SumOfSleepTimes = nextSum(SumOfSleepTimes)
  <2> HIDE DEF nextSum
  <2> QED
    BY <1>1, <1>2
<1> DEFINE S == SumOfSleepTimes
<1> HIDE DEF S
<1>4. S[0] = 0 /\ \A i \in 1 .. Len(sleepers) : S[i] = S[i - 1] + sleepTime[sleepers[i]]
  BY <1>3, LenProperties DEF S
<1>5. S = [i \in 0 .. Len(sleepers) |-> S[i]]
  <2>1. DOMAIN S = 0 .. Len(sleepers) /\ S = [i \in DOMAIN nextSum(S) |-> S[i]]
    BY <1>3 DEF S
  <2> QED
    BY <2>1
<1>6. S \in [0 .. Len(sleepers) -> Int]
  <2>1. \A T : \A q \in Seq(T), w \in [T -> Int] : \A f :
           f = [i \in 0 .. Len(q) |-> f[i]] /\ f[0] = 0
              /\ (\A i \in 1 .. Len(q) : f[i] = f[i - 1] + w[q[i]]) =>
           f \in [0 .. Len(q) -> Int]
    BY ONLY RunningSums
  <2> QED
    BY ONLY Zenon, <1>4, <1>5, <2>1, sleepers \in Seq(Threads), sleepTime \in [Threads -> Int]
<1> QED
  BY <1>4, <1>6 DEF S

\* The same after a step.
LEMMA SumsAfterAStep == SumsAddUp'
BY SumOfSleepTimesFacts, PTL

\* A list that holds nobody twice, the fields at most max, and time left for
\* the head.
SleepListOK(max) ==
    /\ sleepers \in Seq(Threads)
    /\ IsInjective(sleepers)
    /\ sleepTime \in [Threads -> 0 .. max]
    /\ sleepers # << >> => sleepTime[Head(sleepers)] > 0

-----------------------------------------------------------------------------
(* Going to sleep                                                          *)

\* The sums of such a list.
LEMMA SumsOfTheList ==
    \A max \in Nat : SleepListOK(max) =>
            /\ Len(sleepers) \in Nat
            /\ \A i \in 1 .. Len(sleepers) : sleepers[i] \in Threads
            /\ SumOfSleepTimes \in [0 .. Len(sleepers) -> Int]
            /\ SumOfSleepTimes[0] = 0
            /\ \A i \in 1 .. Len(sleepers) :
                  SumOfSleepTimes[i] = SumOfSleepTimes[i - 1] + sleepTime[sleepers[i]]
            /\ \A i \in 0 .. Len(sleepers) : SumOfSleepTimes[i] >= 0
<1> SUFFICES ASSUME NEW max \in Nat, SleepListOK(max)
             PROVE  /\ Len(sleepers) \in Nat
                    /\ \A i \in 1 .. Len(sleepers) : sleepers[i] \in Threads
                    /\ SumOfSleepTimes \in [0 .. Len(sleepers) -> Int]
                    /\ SumOfSleepTimes[0] = 0
                    /\ \A i \in 1 .. Len(sleepers) :
                          SumOfSleepTimes[i] = SumOfSleepTimes[i - 1] + sleepTime[sleepers[i]]
                    /\ \A i \in 0 .. Len(sleepers) : SumOfSleepTimes[i] >= 0
  OBVIOUS
<1> DEFINE S == SumOfSleepTimes
           n == Len(sleepers)
<1>1. sleepers \in Seq(Threads) /\ sleepTime \in [Threads -> 0 .. max]
  BY DEF SleepListOK
<1>2. n \in Nat /\ \A i \in 1 .. n : sleepers[i] \in Threads
  BY <1>1, ElementOfSeq, LenProperties
<1>3. sleepTime \in [Threads -> Int]
  BY <1>1
<1>4. /\ S \in [0 .. n -> Int] /\ S[0] = 0
      /\ \A i \in 1 .. n : S[i] = S[i - 1] + sleepTime[sleepers[i]]
  BY <1>1, <1>3, SumOfSleepTimesFacts DEF SumsAddUp
<1> HIDE DEF S, n
<1>5. ASSUME NEW i \in 1 .. n PROVE S[i - 1] <= S[i]
  <2>1. S[i] = S[i - 1] + sleepTime[sleepers[i]] /\ S[i - 1] \in Int /\ S[i] \in Int
    BY <1>2, <1>4
  <2>2. sleepTime[sleepers[i]] \in 0 .. max
    BY <1>1, <1>2
  <2> QED
    BY <2>1, <2>2
<1>6. \A i \in 0 .. n : S[i] >= 0
  BY <1>2, <1>4, <1>5, SumsAreNatural
<1> QED
  BY <1>2, <1>4, <1>6 DEF S, n

\* Who is in the list, and the types, after t was inserted.
LEMMA InsertTypes ==
    ASSUME NEW max \in Nat, SleepListOK(max),
           NEW t \in Threads, t \notin Range(sleepers), NEW time \in 1 .. max,
           NEW pos \in 1 .. Len(sleepers) + 1, InsertSleepThread(t, time, pos)
    PROVE  /\ t \notin Range(sleepers)
           /\ sleepers' \in Seq(Threads) /\ IsInjective(sleepers')
           /\ Range(sleepers') = Range(sleepers) \cup {t}
           /\ Len(sleepers') = Len(sleepers) + 1
           /\ \A i \in 1 .. pos - 1 : sleepers'[i] = sleepers[i]
           /\ sleepers'[pos] = t
           /\ \A i \in pos .. Len(sleepers) : sleepers'[i + 1] = sleepers[i]
           /\ sleepTime' \in [Threads -> 0 .. max]
           /\ sleepTime'[t] = time - SumOfSleepTimes[pos - 1]
           /\ \A u \in Threads \ {t} :
                 sleepTime'[u] = IF pos = 1 /\ sleepers # << >> /\ u = sleepers[1]
                                 THEN sleepTime[u] - time ELSE sleepTime[u]
           /\ sleepTime'[sleepers'[1]] > 0
<1> DEFINE S == SumOfSleepTimes
           n == Len(sleepers)
<1>1. /\ n \in Nat /\ \A i \in 1 .. n : sleepers[i] \in Threads
      /\ S \in [0 .. n -> Int] /\ S[0] = 0
      /\ \A i \in 1 .. n : S[i] = S[i - 1] + sleepTime[sleepers[i]]
      /\ \A i \in 0 .. n : S[i] >= 0
  BY SumsOfTheList
<1>2. /\ sleepers \in Seq(Threads) /\ IsInjective(sleepers)
      /\ sleepTime \in [Threads -> 0 .. max]
      /\ DOMAIN sleepers = 1 .. n
  BY LenProperties DEF SleepListOK
<1>3. t \notin Range(sleepers)
  OBVIOUS
<1>4. sleepers' = InsertAt(sleepers, pos, t)
  BY DEF InsertSleepThread
<1>5. /\ sleepers' \in Seq(Threads) /\ IsInjective(sleepers')
      /\ Range(sleepers') = Range(sleepers) \cup {t}
  BY <1>2, <1>3, <1>4, InsertElements
<1>6. /\ Len(sleepers') = n + 1
      /\ \A i \in 1 .. pos - 1 : sleepers'[i] = sleepers[i]
      /\ sleepers'[pos] = t
      /\ \A i \in pos .. n : sleepers'[i + 1] = sleepers[i]
  <2>1. /\ Len(InsertAt(sleepers, pos, t)) = Len(sleepers) + 1
        /\ \A i \in 1 .. pos - 1 : InsertAt(sleepers, pos, t)[i] = sleepers[i]
        /\ InsertAt(sleepers, pos, t)[pos] = t
        /\ \A i \in pos .. Len(sleepers) : InsertAt(sleepers, pos, t)[i + 1] = sleepers[i]
    BY ONLY <1>2, t \in Threads, pos \in 1 .. Len(sleepers) + 1, InsertIndices
  <2> QED
    BY <1>4, <2>1
<1>7. /\ \A i \in 1 .. pos - 1 : time >= S[i]
      /\ pos <= n => time < S[pos]
      /\ \/ /\ pos = 1 /\ sleepers # << >>
            /\ sleepTime' = [sleepTime EXCEPT ![t] = time, ![Head(sleepers)] = @ - time]
         \/ /\ pos > 1 \/ sleepers = << >>
            /\ sleepTime' = [sleepTime EXCEPT ![t] = time - S[pos - 1]]
  BY DEF InsertSleepThread, IsInsertPoint
<1> HIDE DEF S, n
<1>8. CASE pos = 1 /\ sleepers # << >>
  <2>1. n \in Nat \ {0} /\ Head(sleepers) = sleepers[1] /\ sleepers[1] # t
        /\ sleepers[1] \in Threads /\ 1 \in 1 .. n
    <3>1. n \in Nat \ {0}
      BY <1>1, <1>2, <1>8, EmptySeq DEF n
    <3>2. sleepers[1] \in Range(sleepers)
      BY <1>2, <3>1 DEF Range
    <3>3. Head(sleepers) = sleepers[1]
      BY <1>2, <1>8, HeadTailProperties
    <3> QED
      BY <1>1, <1>3, <3>1, <3>2, <3>3
  <2>2. sleepTime' = [sleepTime EXCEPT ![t] = time, ![sleepers[1]] = @ - time]
    BY <1>7, <1>8, <2>1
  <2>3. sleepTime[sleepers[1]] \in 0 .. max /\ time < sleepTime[sleepers[1]]
    <3>1. S[1] = S[1 - 1] + sleepTime[sleepers[1]] /\ 1 - 1 = 0
      BY <1>1, <2>1
    <3>2. sleepTime[sleepers[1]] \in 0 .. max
      BY <1>2, <2>1
    <3>3. time < S[1]
      BY <1>7, <1>8, <2>1
    <3> QED
      BY <1>1, <3>1, <3>2, <3>3
  <2>4. sleepTime[sleepers[1]] - time \in 0 .. max
    BY <1>2, <2>3
  <2>5. sleepTime' \in [Threads -> 0 .. max]
    BY <1>2, <2>1, <2>2, <2>4
  <2>6. sleepTime'[t] = time /\ time - S[pos - 1] = time
    BY <1>1, <1>2, <1>8, <2>1, <2>2
  <2>7. \A u \in Threads \ {t} :
           sleepTime'[u] = IF u = sleepers[1] THEN sleepTime[u] - time ELSE sleepTime[u]
    BY <1>2, <2>1, <2>2
  <2>8. sleepTime'[sleepers'[1]] > 0
    BY <1>6, <1>8, <2>6
  <2> QED
    BY <1>3, <1>5, <1>6, <1>8, <2>5, <2>6, <2>7, <2>8 DEF S, n
<1>9. CASE pos > 1 \/ sleepers = << >>
  <2>1. sleepTime' = [sleepTime EXCEPT ![t] = time - S[pos - 1]]
    BY <1>7, <1>9
  <2>2. pos - 1 \in 0 .. n /\ S[pos - 1] \in Int /\ S[pos - 1] >= 0 /\ S[pos - 1] <= time
    <3>1. pos - 1 \in 0 .. n
      BY <1>1 DEF n
    <3>2. CASE pos = 1
      BY <1>1, <3>1, <3>2
    <3>3. CASE pos > 1
      <4>1. pos - 1 \in 1 .. pos - 1
        BY <3>1, <3>3
      <4> QED
        BY <1>1, <1>7, <3>1, <4>1
    <3> QED
      BY <3>1, <3>2, <3>3
  <2>3. time - S[pos - 1] \in 0 .. max
    BY <1>2, <2>2
  <2>4. sleepTime' \in [Threads -> 0 .. max]
    BY <1>2, <2>1, <2>3
  <2>5. sleepTime'[t] = time - S[pos - 1] /\ \A u \in Threads \ {t} : sleepTime'[u] = sleepTime[u]
    BY <1>2, <2>1
  <2>6. sleepTime'[sleepers'[1]] > 0
    <3>1. CASE pos = 1
      BY <1>1, <1>6, <2>5, <3>1
    <3>2. CASE pos > 1
      <4>1. sleepers'[1] = sleepers[1] /\ 1 \in 1 .. n
        BY <1>1, <1>6, <2>2, <3>2
      <4>2. sleepers[1] \in Range(sleepers) /\ sleepers[1] \in Threads
        BY <1>1, <1>2, <4>1 DEF Range
      <4>3. sleepers # << >>
        BY <1>2, <4>1, EmptySeq DEF n
      <4>4. sleepTime[sleepers[1]] > 0
        BY <1>2, <4>3, HeadTailProperties DEF SleepListOK
      <4> QED
        BY <1>3, <2>5, <4>1, <4>2, <4>4
    <3> QED
      BY <3>1, <3>2
  <2>7. ~(pos = 1 /\ sleepers # << >>)
    BY <1>9
  <2> QED
    BY <1>3, <1>5, <1>6, <2>4, <2>5, <2>6, <2>7 DEF S, n
<1> QED
  BY <1>8, <1>9

\* The sums before the new thread stay, the thread's own sum is its time, and
\* the sums behind it grow by the same amount, by none if it is at the front.
LEMMA InsertSums ==
    ASSUME NEW max \in Nat, SleepListOK(max),
           NEW t \in Threads, t \notin Range(sleepers), NEW time \in 1 .. max,
           NEW pos \in 1 .. Len(sleepers) + 1, InsertSleepThread(t, time, pos)
    PROVE  /\ \A i \in 0 .. pos - 1 : SumOfSleepTimes'[i] = SumOfSleepTimes[i]
           /\ SumOfSleepTimes'[pos] = time
           /\ \A i \in pos .. Len(sleepers) :
                 SumOfSleepTimes'[i + 1] =
                    SumOfSleepTimes[i] + (IF pos = 1 THEN 0 ELSE time - SumOfSleepTimes[pos - 1])
<1> DEFINE S == SumOfSleepTimes
           Z == SumOfSleepTimes'
           n == Len(sleepers)
<1>1. /\ n \in Nat /\ \A i \in 1 .. n : sleepers[i] \in Threads
      /\ S \in [0 .. n -> Int] /\ S[0] = 0
      /\ \A i \in 1 .. n : S[i] = S[i - 1] + sleepTime[sleepers[i]]
  BY SumsOfTheList
<1>2. /\ t \notin Range(sleepers)
      /\ sleepers' \in Seq(Threads)
      /\ Len(sleepers') = n + 1
      /\ \A i \in 1 .. pos - 1 : sleepers'[i] = sleepers[i]
      /\ sleepers'[pos] = t
      /\ \A i \in pos .. n : sleepers'[i + 1] = sleepers[i]
      /\ sleepTime' \in [Threads -> 0 .. max]
      /\ sleepTime'[t] = time - S[pos - 1]
      /\ \A u \in Threads \ {t} :
            sleepTime'[u] = IF pos = 1 /\ sleepers # << >> /\ u = sleepers[1]
                            THEN sleepTime[u] - time ELSE sleepTime[u]
  BY InsertTypes
<1>3. /\ Z \in [0 .. n + 1 -> Int] /\ Z[0] = 0
      /\ \A i \in 1 .. n + 1 : Z[i] = Z[i - 1] + sleepTime'[sleepers'[i]]
  <2>1. sleepTime' \in [Threads -> Int]
    BY <1>2
  <2>2. /\ Z \in [0 .. Len(sleepers') -> Int] /\ Z[0] = 0
        /\ \A i \in 1 .. Len(sleepers') : Z[i] = Z[i - 1] + sleepTime'[sleepers'[i]]
    BY <1>2, <2>1, SumsAfterAStep DEF SumsAddUp
  <2> QED
    BY <1>2, <2>2
<1>4. /\ IsInjective(sleepers) /\ DOMAIN sleepers = 1 .. n
      /\ sleepTime \in [Threads -> Int] /\ sleepers \in Seq(Threads)
  BY LenProperties DEF SleepListOK
<1>5. \A i \in 1 .. n : sleepers[i] \in Threads \ {t}
  BY <1>1, <1>2, <1>4 DEF Range
<1>6. time \in Int /\ pos \in Nat /\ pos <= n + 1 /\ pos - 1 \in Nat /\ pos - 1 <= n /\ 0 \in Nat /\ 1 \in Nat
  BY <1>1
<1> HIDE DEF S, Z, n
<1>7. ASSUME NEW i \in 0 .. pos - 1 PROVE Z[i] = S[i]
  <2> DEFINE f == [k \in 0 .. pos - 1 |-> Z[k]]
             h == [k \in 0 .. pos - 1 |-> S[k]]
  <2>1. f \in [0 .. pos - 1 -> Int] /\ h \in [0 .. pos - 1 -> Int]
    BY <1>1, <1>3, <1>6
  <2>2. f[0] = h[0] + 0 /\ 0 <= pos - 1 /\ 0 \in Int
    BY <1>1, <1>3, <1>6
  <2>3. ASSUME NEW k \in 0 + 1 .. pos - 1 PROVE f[k] - f[k - 1] = h[k] - h[k - 1]
    <3>1. k \in 1 .. n /\ k \in 1 .. n + 1 /\ k - 1 \in 0 .. n /\ k - 1 \in 0 .. n + 1
          /\ k \in 1 .. pos - 1 /\ pos # 1 /\ k \in 0 .. n /\ k \in 0 .. n + 1
          /\ k \in 0 .. pos - 1 /\ k - 1 \in 0 .. pos - 1
      BY <1>1, <1>6
    <3>2. sleepers'[k] = sleepers[k] /\ sleepTime'[sleepers[k]] = sleepTime[sleepers[k]]
      BY <1>2, <1>5, <3>1
    <3>3. S[k] = S[k - 1] + sleepTime[sleepers[k]] /\ Z[k] = Z[k - 1] + sleepTime[sleepers[k]]
      BY <1>1, <1>3, <3>1, <3>2
    <3>4. S[k] \in Int /\ S[k - 1] \in Int /\ Z[k] \in Int /\ Z[k - 1] \in Int
          /\ sleepTime[sleepers[k]] \in Int
      BY <1>1, <1>3, <1>5, <1>4, <3>1
    <3>5. Z[k] - Z[k - 1] = S[k] - S[k - 1]
      BY ONLY <3>3, <3>4
    <3> QED
      BY <3>1, <3>5
  <2> HIDE DEF f, h
  <2>4. \A k \in 0 .. pos - 1 : f[k] = h[k] + 0
    BY ONLY <1>6, <2>1, <2>2, <2>3, SameSteps
  <2>5. f[i] = Z[i] /\ h[i] = S[i] /\ S[i] \in Int
    BY <1>1, <1>6 DEF f, h
  <2> QED
    BY <2>4, <2>5
<1>8. Z[pos] = time
  <2>1. pos \in 1 .. n + 1 /\ pos - 1 \in 0 .. pos - 1 /\ pos - 1 \in 0 .. n
    BY <1>6
  <2>2. Z[pos] = Z[pos - 1] + (time - S[pos - 1]) /\ Z[pos - 1] = S[pos - 1] /\ S[pos - 1] \in Int
    BY <1>1, <1>2, <1>3, <1>7, <2>1
  <2> QED
    BY <1>6, <2>2
<1>9. ASSUME NEW i \in pos .. n
      PROVE  Z[i + 1] = S[i] + (IF pos = 1 THEN 0 ELSE time - S[pos - 1])
  <2> DEFINE m == IF pos = 1 THEN 1 ELSE pos - 1
             c == IF pos = 1 THEN 0 ELSE time - S[pos - 1]
             f == [k \in m .. n |-> Z[k + 1]]
             h == [k \in m .. n |-> S[k]]
  <2>1. m \in Nat /\ m <= n /\ n \in Nat /\ i \in m .. n /\ c \in Int
    BY <1>1, <1>6
  <2>2. f \in [m .. n -> Int] /\ h \in [m .. n -> Int]
    <3>1. ASSUME NEW k \in m .. n PROVE Z[k + 1] \in Int /\ S[k] \in Int
      <4>1. k \in 0 .. n /\ k + 1 \in 0 .. n + 1
        BY <1>1, <1>6, <2>1
      <4> QED
        BY <1>1, <1>3, <4>1
    <3> QED
      BY <3>1
  <2>3. f[m] = h[m] + c
    <3>1. CASE pos = 1
      <4>1. 1 \in 1 .. n /\ 2 \in 1 .. n + 1 /\ 1 \in pos .. n /\ m = 1 /\ c = 0
        BY <1>1, <1>6, <3>1
      <4>2. sleepers # << >> /\ sleepers'[2] = sleepers[1] /\ sleepers[1] \in Threads \ {t}
        BY <1>2, <1>4, <1>5, <4>1, EmptySeq DEF n
      <4>3. sleepTime'[sleepers'[2]] = sleepTime[sleepers[1]] - time
        BY <1>2, <3>1, <4>2
      <4>4. Z[2] = Z[1] + sleepTime'[sleepers'[2]] /\ S[1] = S[0] + sleepTime[sleepers[1]]
        BY <1>1, <1>3, <4>1
      <4>5. Z[1] = time /\ sleepTime[sleepers[1]] \in Int
        BY <1>4, <1>8, <3>1, <4>2
      <4>6. Z[2] = S[1]
        BY <1>1, <1>6, <4>3, <4>4, <4>5
      <4> QED
        BY <1>1, <4>1, <4>6
    <3>2. CASE pos # 1
      <4>1. m = pos - 1 /\ m + 1 = pos /\ c = time - S[pos - 1] /\ S[pos - 1] \in Int
        BY <1>1, <1>6, <3>2
      <4>2. f[m] = Z[pos] /\ h[m] = S[pos - 1]
        BY <2>1, <4>1
      <4> QED
        BY <1>6, <1>8, <4>1, <4>2
    <3> QED
      BY <3>1, <3>2
  <2>4. ASSUME NEW k \in m + 1 .. n PROVE f[k] - f[k - 1] = h[k] - h[k - 1]
    <3>1. k \in 1 .. n /\ k + 1 \in 1 .. n + 1 /\ k + 1 - 1 = k /\ k \in pos .. n
          /\ k - 1 \in 0 .. n /\ k \in 0 .. n /\ k \in 0 .. n + 1 /\ k + 1 \in 0 .. n + 1
          /\ (pos = 1 => k # 1) /\ k \in m .. n /\ k - 1 \in m .. n /\ (k - 1) + 1 = k
      BY <1>1, <1>6
    <3>2. sleepers'[k + 1] = sleepers[k] /\ (pos = 1 => sleepers[k] # sleepers[1])
      <4>1. pos = 1 => 1 \in DOMAIN sleepers /\ k \in DOMAIN sleepers /\ k # 1
        BY <1>1, <1>4, <1>6, <3>1
      <4> QED
        BY <1>2, <1>4, <3>1, <4>1 DEF IsInjective
    <3>3. sleepTime'[sleepers[k]] = sleepTime[sleepers[k]]
      BY <1>2, <1>5, <3>1, <3>2
    <3>4. S[k] = S[k - 1] + sleepTime[sleepers[k]] /\ Z[k + 1] = Z[k] + sleepTime[sleepers[k]]
      <4>1. Z[k + 1] = Z[k + 1 - 1] + sleepTime'[sleepers'[k + 1]]
        BY <1>3, <3>1
      <4> QED
        BY <1>1, <3>1, <3>2, <3>3, <4>1
    <3>5. S[k] \in Int /\ S[k - 1] \in Int /\ Z[k] \in Int /\ Z[k + 1] \in Int
          /\ sleepTime[sleepers[k]] \in Int
      BY <1>1, <1>3, <1>4, <1>5, <3>1
    <3>6. Z[k + 1] - Z[k] = S[k] - S[k - 1]
      BY ONLY <3>4, <3>5
    <3> QED
      BY <3>1, <3>6
  <2> HIDE DEF m, c, f, h
  <2>5. \A k \in m .. n : f[k] = h[k] + c
    BY ONLY <2>1, <2>2, <2>3, <2>4, SameSteps
  <2>6. f[i] = Z[i + 1] /\ h[i] = S[i]
    BY <2>1 DEF f, h
  <2> QED
    BY <2>1, <2>5, <2>6 DEF c
<1> QED
  BY <1>7, <1>8, <1>9 DEF S, Z, n

-----------------------------------------------------------------------------
(* A timer period                                                          *)

\* The threads a tick wakes have one period left, and the sums of the others
\* go down by one.
LEMMA TickSums ==
    ASSUME NEW max \in Nat, SleepListOK(max), NEW n \in 0 .. Len(sleepers), UpdateSleepThreadList(n)
    PROVE  /\ sleepers' \in Seq(Threads) /\ Len(sleepers') = Len(sleepers) - n
           /\ \A i \in 1 .. Len(sleepers) - n : sleepers'[i] = sleepers[i + n]
           /\ sleepTime' \in [Threads -> 0 .. max]
           /\ \A i \in 1 .. n : SumOfSleepTimes[i] = 1
           /\ \A i \in 1 .. Len(sleepers) - n :
                 SumOfSleepTimes'[i] = SumOfSleepTimes[i + n] - 1
           /\ sleepers' # << >> => sleepTime'[Head(sleepers')] > 0
<1> DEFINE S == SumOfSleepTimes
           Z == SumOfSleepTimes'
           l == Len(sleepers)
<1>1. /\ l \in Nat /\ \A i \in 1 .. l : sleepers[i] \in Threads
      /\ S \in [0 .. l -> Int] /\ S[0] = 0
      /\ \A i \in 1 .. l : S[i] = S[i - 1] + sleepTime[sleepers[i]]
  BY SumsOfTheList
<1>2. /\ sleepers \in Seq(Threads) /\ IsInjective(sleepers)
      /\ sleepTime \in [Threads -> 0 .. max]
      /\ DOMAIN sleepers = 1 .. l /\ n \in Nat /\ n <= l
  BY LenProperties DEF SleepListOK
<1>3. /\ sleepers' \in Seq(Threads) /\ Len(sleepers') = l - n
      /\ \A i \in 1 .. l - n : sleepers'[i] = sleepers[i + n]
  <2>1. sleepers' = SubSeq(sleepers, n + 1, Len(sleepers))
    BY DEF UpdateSleepThreadList
  <2>2. LET r == SubSeq(sleepers, n + 1, Len(sleepers))
        IN  /\ r \in Seq(Threads) /\ Len(r) = Len(sleepers) - n
            /\ \A i \in 1 .. Len(sleepers) - n : r[i] = sleepers[i + n]
    BY <1>2, DropIndices
  <2> QED
    BY <2>1, <2>2
<1>4. /\ \A i \in 1 .. n : sleepTime'[sleepers[i]] = 0
      /\ n < l => sleepTime'[sleepers[n + 1]] # 0
  BY DEF UpdateSleepThreadList, WakesFirst
<1>5. CASE l = 0
  <2>1. n = 0 /\ sleepers = << >>
    BY <1>1, <1>2, <1>5, EmptySeq
  <2>2. sleepTime' = sleepTime /\ sleepers' = << >>
    <3>1. sleepTime' = sleepTime
      BY <2>1 DEF UpdateSleepThreadList, Ticked
    <3>2. Len(sleepers') = 0
      BY <1>3, <1>5, <2>1
    <3> QED
      BY <1>3, <3>1, <3>2, EmptySeq
  <2> QED
    BY <1>2, <1>3, <1>5, <2>1, <2>2
<1>6. CASE l # 0
  <2> DEFINE first == sleepers[1]
  <2>1. 1 \in 1 .. l /\ first \in Threads /\ Head(sleepers) = first /\ sleepers # << >>
    BY <1>1, <1>2, <1>6, EmptySeq, HeadTailProperties
  <2>2. sleepTime[first] > 0
    BY <2>1 DEF SleepListOK
  <2>3. sleepTime' = [sleepTime EXCEPT ![first] = @ - 1]
    BY <2>1 DEF UpdateSleepThreadList, Ticked
  <2>4. sleepTime' \in [Threads -> 0 .. max]
    <3>1. sleepTime[first] - 1 \in 0 .. max
      BY <1>2, <2>1, <2>2
    <3> QED
      BY <1>2, <2>1, <2>3, <3>1
  <2>5. /\ sleepTime'[first] = sleepTime[first] - 1
        /\ \A i \in 2 .. l : sleepTime'[sleepers[i]] = sleepTime[sleepers[i]]
    <3>1. \A i \in 2 .. l : i \in 1 .. l /\ i # 1
      BY <1>1
    <3>2. \A i \in 2 .. l : sleepers[i] # first /\ sleepers[i] \in Threads
      BY <1>1, <1>2, <2>1, <3>1 DEF IsInjective
    <3> QED
      BY <1>2, <2>1, <2>3, <3>2
  <2>6. S[1] = sleepTime[first]
    <3>1. S[1] = S[1 - 1] + sleepTime[first] /\ 1 - 1 = 0
      BY <1>1, <2>1
    <3> QED
      BY <1>1, <1>2, <2>1, <3>1
  <2> HIDE DEF S, Z, l, first
  <2>7. ASSUME NEW i \in 1 .. n PROVE S[i] = 1
    <3> DEFINE f == [k \in 1 .. n |-> S[k]]
               h == [k \in 1 .. n |-> 0]
    <3>1. n >= 1 /\ 1 \in Nat /\ n \in Nat /\ 1 <= n /\ 1 \in Int /\ 1 \in 1 .. n /\ \A k \in 1 .. n : k \in 0 .. l /\ k \in 1 .. l
      BY <1>1, <1>2
    <3>2. f \in [1 .. n -> Int] /\ h \in [1 .. n -> Int]
      <4>1. \A k \in 1 .. n : S[k] \in Int
        BY <1>1, <3>1
      <4> QED
        BY <4>1
    <3>3. f[1] = h[1] + 1
      <4>1. sleepTime'[first] = 0
        BY <1>4, <3>1 DEF first
      <4>2. sleepTime[first] = 1
        BY <1>2, <2>1, <2>5, <4>1
      <4> QED
        BY <2>6, <3>1, <4>2
    <3>4. ASSUME NEW k \in 1 + 1 .. n PROVE f[k] - f[k - 1] = h[k] - h[k - 1]
      <4>1. k \in 1 .. n /\ k - 1 \in 1 .. n /\ k \in 2 .. l /\ k \in 1 .. l /\ k \in 0 .. l /\ k - 1 \in 0 .. l
        BY <1>1, <1>2
      <4>2. sleepTime[sleepers[k]] = 0
        BY <1>4, <2>5, <4>1
      <4>3. S[k] = S[k - 1] + 0 /\ S[k] \in Int /\ S[k - 1] \in Int
        BY <1>1, <4>1, <4>2
      <4>4. S[k] - S[k - 1] = 0
        BY <4>3
      <4> QED
        BY <4>1, <4>4
    <3> HIDE DEF f, h
    <3>5. \A k \in 1 .. n : f[k] = h[k] + 1
      BY ONLY <3>1, <3>2, <3>3, <3>4, SameSteps
    <3>6. f[i] = S[i] /\ h[i] = 0
      BY DEF f, h
    <3> QED
      BY <3>5, <3>6
  <2>8. /\ Z \in [0 .. l - n -> Int] /\ Z[0] = 0
        /\ \A i \in 1 .. l - n : Z[i] = Z[i - 1] + sleepTime'[sleepers'[i]]
    <3>1. sleepTime' \in [Threads -> Int]
      BY <1>2, <2>4
    <3> QED
      BY <1>3, <3>1, SumsAfterAStep DEF SumsAddUp, Z
  <2>9. ASSUME NEW i \in 1 .. l - n PROVE Z[i] = S[i + n] - 1
    <3> DEFINE f == [k \in 1 .. l - n |-> Z[k]]
               h == [k \in 1 .. l - n |-> S[k + n]]
    <3>1. 1 \in Nat /\ l - n \in Nat /\ 1 <= l - n /\ -1 \in Int /\ 1 \in 1 .. l - n
      BY <1>1, <1>2
    <3>2. f \in [1 .. l - n -> Int] /\ h \in [1 .. l - n -> Int]
      <4>1. ASSUME NEW k \in 1 .. l - n PROVE Z[k] \in Int /\ S[k + n] \in Int
        <5>1. k \in 0 .. l - n /\ k + n \in 0 .. l
          BY <1>1, <1>2
        <5> QED
          BY <1>1, <2>8, <5>1
      <4> QED
        BY <4>1
    <3>3. \A k \in 1 .. l - n :
             /\ Z[k] = Z[k - 1] + sleepTime'[sleepers[k + n]]
             /\ S[k + n] = S[k + n - 1] + sleepTime[sleepers[k + n]]
             /\ sleepTime[sleepers[k + n]] \in Int /\ sleepTime'[sleepers[k + n]] \in Int
      <4> SUFFICES ASSUME NEW k \in 1 .. l - n
                   PROVE  /\ Z[k] = Z[k - 1] + sleepTime'[sleepers[k + n]]
                          /\ S[k + n] = S[k + n - 1] + sleepTime[sleepers[k + n]]
                          /\ sleepTime[sleepers[k + n]] \in Int
                          /\ sleepTime'[sleepers[k + n]] \in Int
        OBVIOUS
      <4>1. k + n \in 1 .. l
        BY <1>1, <1>2
      <4>2. sleepers[k + n] \in Threads /\ sleepers'[k] = sleepers[k + n]
        BY <1>1, <1>3, <4>1
      <4>3. sleepTime[sleepers[k + n]] \in Int /\ sleepTime'[sleepers[k + n]] \in Int
        BY <1>2, <2>4, <4>2
      <4>4. Z[k] = Z[k - 1] + sleepTime'[sleepers'[k]]
        BY <2>8
      <4>5. S[k + n] = S[k + n - 1] + sleepTime[sleepers[k + n]]
        BY <1>1, <4>1
      <4> QED
        BY <4>2, <4>3, <4>4, <4>5
    <3>4. f[1] = h[1] + -1
      <4>1. Z[1] = Z[1 - 1] + sleepTime'[sleepers[1 + n]] /\ 1 - 1 = 0
            /\ sleepTime'[sleepers[1 + n]] \in Int
        BY <3>1, <3>3
      <4>2. Z[1] = sleepTime'[sleepers[1 + n]]
        BY <2>8, <4>1
      <4>3. CASE n = 0
        <5>1. S[1 + n] = sleepTime[first] /\ sleepers[1 + n] = first
          BY <2>6, <4>3 DEF first
        <5> QED
          BY <1>2, <2>1, <2>5, <3>1, <4>2, <5>1
      <4>4. CASE n # 0
        <5>1. n \in 1 .. n /\ 1 + n \in 2 .. l /\ 1 + n - 1 = n
          BY <1>1, <1>2, <3>1, <4>4
        <5>2. S[n] = 1 /\ sleepTime'[sleepers[1 + n]] = sleepTime[sleepers[1 + n]]
          BY <2>5, <2>7, <5>1
        <5>3. S[1 + n] = S[1 + n - 1] + sleepTime[sleepers[1 + n]]
          BY <3>1, <3>3
        <5>4. S[1 + n] = 1 + Z[1]
          BY <4>2, <5>1, <5>2, <5>3
        <5> QED
          BY <3>1, <4>1, <4>2, <5>4
      <4> QED
        BY <4>3, <4>4
    <3>5. ASSUME NEW k \in 1 + 1 .. l - n PROVE f[k] - f[k - 1] = h[k] - h[k - 1]
      <4>1. k \in 1 .. l - n /\ k - 1 \in 1 .. l - n /\ k + n \in 2 .. l
            /\ (k - 1) + n = k + n - 1
            /\ k \in 0 .. l - n /\ k - 1 \in 0 .. l - n /\ k + n \in 0 .. l /\ k + n - 1 \in 0 .. l
        BY <1>1, <1>2
      <4>2. sleepTime'[sleepers[k + n]] = sleepTime[sleepers[k + n]]
        BY <2>5, <4>1
      <4>3. /\ Z[k] = Z[k - 1] + sleepTime[sleepers[k + n]]
            /\ S[k + n] = S[k + n - 1] + sleepTime[sleepers[k + n]]
            /\ sleepTime[sleepers[k + n]] \in Int
        BY <3>3, <4>1, <4>2
      <4>4. Z[k] \in Int /\ Z[k - 1] \in Int /\ S[k + n] \in Int /\ S[k + n - 1] \in Int
        BY <1>1, <2>8, <4>1
      <4>5. Z[k] - Z[k - 1] = S[k + n] - S[k + n - 1]
        BY ONLY <4>3, <4>4, SMTT(40)
      <4>6. f[k] = Z[k] /\ f[k - 1] = Z[k - 1] /\ h[k] = S[k + n] /\ h[k - 1] = S[k + n - 1]
        BY <4>1
      <4> QED
        BY <4>5, <4>6
    <3>6. i + n \in 0 .. l
      BY <1>1, <1>2
    <3> HIDE DEF f, h
    <3>7. \A k \in 1 .. l - n : f[k] = h[k] + -1
      BY ONLY <3>1, <3>2, <3>4, <3>5, SameSteps
    <3>8. f[i] = Z[i] /\ h[i] = S[i + n] /\ S[i + n] \in Int
      BY <1>1, <3>6 DEF f, h
    <3> QED
      BY <3>7, <3>8
  <2>10. sleepers' # << >> => sleepTime'[Head(sleepers')] > 0
    <3> SUFFICES ASSUME sleepers' # << >> PROVE sleepTime'[Head(sleepers')] > 0
      OBVIOUS
    <3>1. Head(sleepers') = sleepers'[1] /\ Len(sleepers') # 0
      BY <1>3, EmptySeq, HeadTailProperties
    <3>2. n < l /\ 1 \in 1 .. l - n /\ 1 + n = n + 1 /\ n + 1 \in 1 .. l
      BY <1>1, <1>2, <1>3, <3>1
    <3>3. sleepers'[1] = sleepers[n + 1] /\ sleepers[n + 1] \in Threads
      BY <1>1, <1>3, <3>2
    <3>4. sleepTime'[sleepers[n + 1]] \in 0 .. max /\ sleepTime'[sleepers[n + 1]] # 0
      BY <1>4, <2>4, <3>2, <3>3
    <3> QED
      BY <1>2, <3>1, <3>3, <3>4
  <2> QED
    BY <1>3, <2>4, <2>7, <2>9, <2>10 DEF S, Z, l
<1> QED
  BY <1>5, <1>6
=============================================================================
