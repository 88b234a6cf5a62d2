CONSTANTS
    MaxUsedExponent = 3
    BLOCK_SIZE = 8
    CacheSize = 16
    SlabSize = 2
    IntSize = 1
    MIN_BUFFER_SIZE_EXPONENT = 1
    MAX_BUFFER_SIZE_EXPONENT = 4
    CacheKinds <- MCCacheKinds
    BufferSizes = {16}
    FreedTwice = {"free"}
    MaxCacheSize = 6
SPECIFICATION Spec
INVARIANTS FreeSlotsAreChained SlabsAreInTheirLists CacheInfoIsTrue SizeCoversSlabs
VIEW LiveState
CHECK_DEADLOCK FALSE
