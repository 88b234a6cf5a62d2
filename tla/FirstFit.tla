------------------------------ MODULE FirstFit ------------------------------
(***************************************************************************)
(* MemoryAllocator.cpp: mem_alloc and mem_free on a doubly linked list of  *)
(* free segments.  Memory is counted in blocks of MEM_BLOCK_SIZE from      *)
(* firstAlignedAddress; the header of a segment is its first block and the *)
(* caller gets the blocks after it.                                        *)
(***************************************************************************)
EXTENDS Integers

CONSTANTS totalNumberOfBlocks,
          Requests   \* bound: the sizes asked for, in blocks

\* Nobody asks for 0 bytes; the pointer returned would be that of the next
\* header.
ASSUME FirstFitAssumption ==
    /\ totalNumberOfBlocks \in Nat \ {0, 1}
    /\ Requests \subseteq Nat \ {0}

Null == -1  \* nullptr

VARIABLES freeListHead,
          numberOfBlocks, next, prev,  \* the headers, by the block they are in
          held         \* the callers' segments: << header, blocks asked for >>

vars == << freeListHead, numberOfBlocks, next, prev, held >>

Addresses == 0 .. totalNumberOfBlocks - 1

\* initializeFreeSegmentsList; blocks that are no headers start as 0 and Null.
Init ==
    /\ freeListHead = 0
    /\ numberOfBlocks = [a \in Addresses |-> IF a = 0 THEN totalNumberOfBlocks - 1 ELSE 0]
    /\ next = [a \in Addresses |-> Null]
    /\ prev = [a \in Addresses |-> Null]
    /\ held = {}

\* The elements of the list: what can be reached from the head.
FreeList ==
    LET reached[n \in Addresses] ==
            IF n = 0 THEN {freeListHead} \ {Null}
            ELSE LET r == reached[n - 1] IN r \cup ({next[a] : a \in r} \ {Null})
    IN  reached[totalNumberOfBlocks - 1]

Payload(h) == h[1] + 1 .. h[1] + h[2]

\* Once a caller's blocks hold the header of another segment or leave the
\* memory, its writes decide what happens next: the model goes no further.
CallersBlocksHoldNoHeader ==
    LET headers == FreeList \cup {g[1] : g \in held} IN
    \A h \in held : Payload(h) \cap headers = {} /\ Payload(h) \subseteq Addresses

-----------------------------------------------------------------------------
(* mem_alloc                                                               *)

\* The first element that is large enough; the list is sorted.
IsFirstFit(f, n) ==
    /\ f \in FreeList
    /\ numberOfBlocks[f] >= n
    /\ \A a \in FreeList : numberOfBlocks[a] >= n => f <= a

\* The element x takes the place of f in the list.
Replace(f, x) ==
    /\ freeListHead' = IF prev[f] = Null THEN x ELSE freeListHead
    /\ next' = [a \in Addresses |-> IF a = prev[f] THEN x
                                    ELSE IF a = x THEN next[f] ELSE next[a]]
    /\ prev' = [a \in Addresses |-> IF a = next[f] THEN x
                                    ELSE IF a = x THEN prev[f] ELSE prev[a]]

\* Mistake: only a segment with a previous one is unlinked.
RemoveNotFirst(f, n) ==
    /\ next' = [a \in Addresses |-> IF a = prev[f] THEN next[f] ELSE next[a]]
    /\ prev' = [a \in Addresses |-> IF a = next[f] THEN prev[f] ELSE prev[a]]
    /\ numberOfBlocks' = [numberOfBlocks EXCEPT ![f] = n + 1]
    /\ UNCHANGED freeListHead

\* removeFromFreeSegmentsList
RemoveSegment(f, n) ==
    /\ freeListHead' = IF prev[f] = Null THEN next[f] ELSE freeListHead
    /\ next' = [a \in Addresses |-> IF a = prev[f] THEN next[f] ELSE next[a]]
    /\ prev' = [a \in Addresses |-> IF a = next[f] THEN prev[f] ELSE prev[a]]
    /\ numberOfBlocks' = [numberOfBlocks EXCEPT ![f] = n + 1]

\* addRemainingFragmentToFreeSegmentsList
SplitSegment(f, n) ==
    LET rest == f + n + 1 IN
    /\ Replace(f, rest)
    /\ numberOfBlocks' = [numberOfBlocks EXCEPT
                            ![rest] = numberOfBlocks[f] - (n + 1) - 1, ![f] = n + 1]

\* A request for the whole memory or more is refused, and so is one that no
\* free segment can serve: nothing changes then.
AllocateSegment(n) ==
    /\ n < totalNumberOfBlocks
    /\ \E f \in FreeList :
          /\ IsFirstFit(f, n)
          /\ \/ numberOfBlocks[f] - n >= 2 /\ SplitSegment(f, n)
             \/ numberOfBlocks[f] - n < 2 /\ RemoveSegment(f, n)
          /\ held' = held \cup {<< f, n >>}

-----------------------------------------------------------------------------
(* mem_free                                                                *)

\* findPreviousFreeSegment, called with the caller's pointer.
IsPrevious(p, pointer) ==
    \/ /\ p = Null
       /\ freeListHead = Null \/ pointer < freeListHead
    \/ /\ p \in FreeList
       /\ freeListHead <= pointer
       /\ p = freeListHead \/ p < pointer
       /\ next[p] = Null \/ pointer <= next[p]

\* is...FreeSegmentMergeable: the header b follows a, which has n blocks.
Adjoins(a, n, b) == a + (n + 1) = b

\* Mistake: the segment that follows the joined one keeps its link back.
MergeWithPreviousOneWay(f, p) ==
    LET joined == numberOfBlocks[p] + numberOfBlocks[f] + 1
        x == next[p]
    IN
    /\ numberOfBlocks' = [numberOfBlocks EXCEPT
            ![p] = IF x # Null /\ Adjoins(p, joined, x)
                   THEN joined + numberOfBlocks[x] + 1 ELSE joined]
    /\ next' = [next EXCEPT
            ![p] = IF x # Null /\ Adjoins(p, joined, x) THEN next[x] ELSE x]
    /\ UNCHANGED << freeListHead, prev >>

\* mergeWithPreviousFreeSegment: the joined segment may adjoin the next one.
MergeWithPrevious(f, p) ==
    LET joined == numberOfBlocks[p] + numberOfBlocks[f] + 1
        x == next[p]
    IN
    /\ UNCHANGED freeListHead
    /\ \/ /\ x # Null /\ Adjoins(p, joined, x)
          /\ numberOfBlocks' = [numberOfBlocks EXCEPT ![p] = joined + numberOfBlocks[x] + 1]
          /\ next' = [next EXCEPT ![p] = next[x]]
          /\ prev' = [a \in Addresses |-> IF a = next[x] THEN p ELSE prev[a]]
       \/ /\ ~(x # Null /\ Adjoins(p, joined, x))
          /\ numberOfBlocks' = [numberOfBlocks EXCEPT ![p] = joined]
          /\ UNCHANGED << next, prev >>

\* mergeWithNextFreeSegment
MergeWithNext(f, x) ==
    /\ Replace(x, f)
    /\ numberOfBlocks' = [numberOfBlocks EXCEPT ![f] = @ + numberOfBlocks[x] + 1]

\* insertAfterPreviousFreeSegment
InsertAfterPrevious(f, p) ==
    LET x == IF p = Null THEN freeListHead ELSE next[p] IN
    /\ freeListHead' = IF p = Null THEN f ELSE freeListHead
    /\ next' = [a \in Addresses |-> IF a = f THEN x ELSE IF a = p THEN f ELSE next[a]]
    /\ prev' = [a \in Addresses |-> IF a = f THEN p ELSE IF a = x THEN f ELSE prev[a]]
    /\ UNCHANGED numberOfBlocks

DeallocateSegment(h) ==
    LET f == h[1] IN
    \E p \in FreeList \cup {Null} :
        LET x == IF p = Null THEN freeListHead ELSE next[p]
            joinsPrevious == p # Null /\ Adjoins(p, numberOfBlocks[p], f)
            joinsNext == x # Null /\ Adjoins(f, numberOfBlocks[f], x)
        IN
        /\ IsPrevious(p, f + 1)
        /\ \/ joinsPrevious /\ MergeWithPrevious(f, p)
           \/ ~joinsPrevious /\ joinsNext /\ MergeWithNext(f, x)
           \/ ~joinsPrevious /\ ~joinsNext /\ InsertAfterPrevious(f, p)
        /\ held' = held \ {h}

Next ==
    /\ CallersBlocksHoldNoHeader
    /\ \/ \E n \in Requests : AllocateSegment(n)
       \/ \E h \in held : DeallocateSegment(h)

Spec == Init /\ [][Next]_vars

-----------------------------------------------------------------------------
(* Properties                                                              *)

\* The list stays sorted by address and its links stay inverse to each
\* other through every split, merge and insertion (MemoryAllocator.cpp).
ListIsSorted ==
    /\ freeListHead # Null => prev[freeListHead] = Null
    /\ \A a \in FreeList : next[a] # Null => a < next[a] /\ prev[next[a]] = a

\* No segment is in the list while a caller holds it, and nobody else is
\* given it (MemoryAllocator.cpp:15-47).
HeldSegmentsAreNotFree ==
    /\ \A h \in held : h[1] \notin FreeList
    /\ \A g, h \in held : g[1] = h[1] => g = h

\* The caller has the blocks it asked for to itself: they overlap no other
\* segment and no header (syscall_c.cpp:4).
CallersOwnTheirBlocks ==
    /\ CallersBlocksHoldNoHeader
    /\ \A g, h \in held : g # h => Payload(g) \cap Payload(h) = {}
=============================================================================
