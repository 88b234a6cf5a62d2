CONSTANTS
    HEAP_START_ADDR = 3
    HEAP_END_ADDR = 140
    BLOCK_SIZE = 2
    MEM_BLOCK_SIZE = 3
    ByteSizes = {0, 1, 2, 3, 5, 8, 9, 17}
SPECIFICATION Spec
INVARIANTS
    EachUnitInOneBlock
    FreeBuddiesAreMerged
    BlocksStayInTheirRegion
    AllocatedBytesAreHeld
PROPERTY ImplementsBlockStore
