--------------------------- MODULE BuddyAllocator ---------------------------
(***************************************************************************)
(* BuddyAllocator.cpp: one bit per block and size says whether the block   *)
(* is free.  A block is << exponent, index >>, which stands for the        *)
(* address getBlockAddress computes from it.                               *)
(***************************************************************************)
EXTENDS HeapDivision, FiniteSetsExt

CONSTANT ByteSizes   \* bound: the sizes asked for, in bytes

ASSUME BuddyAssumption ==
    /\ HeapIsLargeEnough
    /\ UsedBlocks > 0
    /\ ByteSizes \subseteq Nat

\* The argument of setup, which refuses a larger one.
NumberOfBlocks == UsedBlocks

\* getExponentForNumberOfBlocks: the least power of two that is enough.
ExponentForBlocks(n) ==
    CHOOSE e \in 0 .. n : n <= Power[e] /\ \A d \in 0 .. e - 1 : Power[d] < n

\* getExponentForNumberOfBytes
ExponentForBytes(bytes) ==
    ExponentForBlocks(bytes \div BLOCK_SIZE + (IF bytes % BLOCK_SIZE # 0 THEN 1 ELSE 0))

MaxUsedExponent == ExponentForBlocks(NumberOfBlocks)

Blocks == UNION { {e} \X (0 .. Power[MaxUsedExponent - e] - 1) : e \in 0 .. MaxUsedExponent }

VARIABLES isBlockFree,
          held,            \* the callers' blocks
          request, got     \* the last call of allocate: its exponent and result

vars == << isBlockFree, held, request, got >>

\* setup
Init ==
    /\ isBlockFree = [b \in Blocks |-> b = << MaxUsedExponent, 0 >>]
    /\ held = {}
    /\ request = 0
    /\ got = << >>

FreeBlocks == {b \in Blocks : isBlockFree[b]}

\* The block the search of allocate finds: of the least exponent that has a
\* free block, the one with the least index.
IsFound(b, e) ==
    /\ b \in FreeBlocks
    /\ b[1] >= e
    /\ \A f \in FreeBlocks : f[1] >= e => f[1] > b[1] \/ (f[1] = b[1] /\ f[2] >= b[2])

\* The block of exponent e at the front of b, and the right halves that
\* become free when b is split down to it.
Front(b, e) == << e, b[2] * Power[b[1] - e] >>

\* Mistake: the right halves are forgotten below the first split.
FirstRightHalf(b, e) == {<< d, Front(b, d)[2] + 1 >> : d \in {b[1] - 1} \cap (e .. b[1])}

RightHalves(b, e) == {<< d, Front(b, d)[2] + 1 >> : d \in e .. b[1] - 1}

Allocate(bytes) ==
    LET e == ExponentForBytes(bytes) IN
    \E b \in FreeBlocks :
        /\ bytes # 0
        /\ IsFound(b, e)
        /\ isBlockFree' = [x \in Blocks |-> x \in RightHalves(b, e)
                                            \/ (x # b /\ isBlockFree[x])]
        /\ request' = e
        /\ got' = Front(b, e)
        /\ held' = held \cup {got'}

\* allocate returns nullptr.
AllocateFails(bytes) ==
    LET e == ExponentForBytes(bytes) IN
    /\ \/ bytes = 0 /\ UNCHANGED request
       \/ bytes # 0 /\ (\A f \in FreeBlocks : f[1] < e) /\ request' = e
    /\ got' = << >>
    /\ UNCHANGED << isBlockFree, held >>

\* Mistake: the buddy is always the block to the right.
RightNeighbour(b) == << b[1], b[2] + 1 >>

Buddy(b) == << b[1], IF b[2] % 2 = 0 THEN b[2] + 1 ELSE b[2] - 1 >>

\* The block of exponent d that contains b.
Enclosing(b, d) == << d, b[2] \div Power[d - b[1]] >>

\* Mistake: nothing is merged.
MergesNothing(b, top) ==
    /\ top = b[1]
    /\ isBlockFree' = [isBlockFree EXCEPT ![b] = TRUE]

\* The loop of deallocate: it climbs while the buddy is free, taking it, and
\* ends with the free block of exponent top.
Merges(b, top) ==
    LET taken == {Buddy(Enclosing(b, d)) : d \in b[1] .. top - 1} IN
    /\ taken \subseteq FreeBlocks
    /\ top < MaxUsedExponent => Buddy(Enclosing(b, top)) \notin FreeBlocks
    /\ isBlockFree' = [x \in Blocks |-> x = Enclosing(b, top)
                                        \/ (x \notin taken /\ isBlockFree[x])]

\* The callers return a block they hold with the size they asked for.
Deallocate(b) ==
    /\ \E top \in b[1] .. MaxUsedExponent : Merges(b, top)
    /\ held' = held \ {b}
    /\ UNCHANGED << request, got >>

\* getBlockAddress
BlockAddress(b) == FirstBuddyAddress + b[2] * (BLOCK_SIZE * Power[b[1]])

BytesIn(blocks) == MapThenSumSet(LAMBDA b : Power[b[1]] * BLOCK_SIZE, blocks)

\* Mistake: a block is counted as one unit.
NumberOfFreeUnits == Cardinality(FreeBlocks) * BLOCK_SIZE

\* getNumberOfFreeBytes and getNumberOfAllocatedBytes
NumberOfFreeBytes == BytesIn(FreeBlocks)
NumberOfAllocatedBytes == UsedBytes - NumberOfFreeBytes

Next ==
    \/ \E bytes \in ByteSizes : Allocate(bytes) \/ AllocateFails(bytes)
    \/ \E b \in held : Deallocate(b)

Spec == Init /\ [][Next]_vars

-----------------------------------------------------------------------------
(* Properties                                                              *)

Store == INSTANCE BlockStore WITH
    Requests <- {ExponentForBytes(bytes) : bytes \in ByteSizes}

\* At every moment each unit of memory lies in exactly one block that is
\* free or held: no sequence of splits and merges loses memory or puts it
\* into two blocks (BuddyAllocator.cpp:23-56).
EachUnitInOneBlock ==
    /\ held \cap FreeBlocks = {}
    /\ \A u \in 0 .. Power[MaxUsedExponent] - 1 :
          Cardinality({b \in held \cup FreeBlocks : u \in Store!Units(b)}) = 1

\* Free buddies never stay apart, whatever the order of the releases
\* (BuddyAllocator.cpp:45-55).
FreeBuddiesAreMerged ==
    \A b, c \in FreeBlocks :
        b # c => << b[1] + 1, b[2] \div 2 >> # << c[1] + 1, c[2] \div 2 >>

\* Every block handed out lies in the part of the heap that is the buddy
\* allocator's, however the heap is divided and aligned: mem_alloc is given
\* none of it (MemoryAllocationHelperFunctions.cpp:6-50).
BlocksStayInTheirRegion ==
    \A b \in held :
        /\ BlockAddress(b) >= HEAP_START_ADDR
        /\ BlockAddress(b) + Power[b[1]] * BLOCK_SIZE <= FirstFitAddress

\* The number of allocated bytes, computed from the free blocks and the size
\* of the region, is what the callers hold (BuddyAllocator.cpp:88-100).
AllocatedBytesAreHeld == NumberOfAllocatedBytes = BytesIn(held)

\* The allocator hands out a block whenever some aligned block of the size
\* is unused, and never one that overlaps another (BuddyAllocator.cpp).
ImplementsBlockStore == Store!Spec
=============================================================================
