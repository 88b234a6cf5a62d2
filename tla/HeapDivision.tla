---------------------------- MODULE HeapDivision ----------------------------
(***************************************************************************)
(* MemoryAllocationHelperFunctions.cpp: the first eighth of the heap, in   *)
(* units of BLOCK_SIZE bytes, is the buddy allocator's, the rest, in       *)
(* blocks of MEM_BLOCK_SIZE bytes, is that of mem_alloc.  The numbers are  *)
(* size_t in the code; none of them gets near 2^64.                        *)
(***************************************************************************)
EXTENDS Integers, Powers

CONSTANTS HEAP_START_ADDR, HEAP_END_ADDR,  \* the heap ends before HEAP_END_ADDR
          BLOCK_SIZE, MEM_BLOCK_SIZE

ASSUME HeapAssumption ==
    /\ {HEAP_START_ADDR, HEAP_END_ADDR} \subseteq Nat
    /\ {BLOCK_SIZE, MEM_BLOCK_SIZE} \subseteq Nat \ {0}

\* The first multiple of size from address on.
AlignUp(address, size) ==
    IF address % size = 0 THEN address ELSE address + (size - (address % size))

\* getFirstAlignedAddressForBuddyAllocator
FirstBuddyAddress == AlignUp(HEAP_START_ADDR, BLOCK_SIZE)

\* getLastAvailableAddressForBuddyAllocator
LastBuddyAddress ==
    HEAP_START_ADDR + ((HEAP_END_ADDR - 1 - HEAP_START_ADDR) * 125) \div 1000

\* getTotalNumberOf4KBMemoryBlocksAssignedToBuddyAllocator
AssignedBlocks == (LastBuddyAddress - FirstBuddyAddress) \div BLOCK_SIZE

PowersOfTwo(n) == {p \in 1 .. n : \E e \in 0 .. n : p = Power[e]}

\* Mistake: the loop's last doubling is not taken back.
UsedBlocksDoubled ==
    CHOOSE p \in PowersOfTwo(2 * AssignedBlocks) :
        \A q \in PowersOfTwo(2 * AssignedBlocks) : q <= p

\* getTotalNumberOfUsedMemoryBlocksForBuddyAllocator: the loop stops at the
\* first power of two beyond the number and takes one step back.
UsedBlocks ==
    IF AssignedBlocks = 0 THEN 0
    ELSE CHOOSE p \in PowersOfTwo(AssignedBlocks) :
             \A q \in PowersOfTwo(AssignedBlocks) : q <= p

\* getTotalNumberOfUsedBytesForBuddyAllocator
UsedBytes == UsedBlocks * BLOCK_SIZE

\* getFirstAlignedAddressForFirstFitAllocator
FirstFitAddress == AlignUp(LastBuddyAddress + 1, MEM_BLOCK_SIZE)

\* getTotalNumberOf8BMemoryBlocksForFirstFitAllocator
FirstFitBlocks == (HEAP_END_ADDR - 1 - FirstFitAddress) \div MEM_BLOCK_SIZE

\* The heap is large enough for the differences not to wrap around.
HeapIsLargeEnough ==
    /\ HEAP_START_ADDR < HEAP_END_ADDR
    /\ FirstBuddyAddress <= LastBuddyAddress
    /\ FirstFitAddress < HEAP_END_ADDR
=============================================================================
