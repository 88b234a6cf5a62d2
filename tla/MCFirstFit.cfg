CONSTANTS
    totalNumberOfBlocks = 12
    Requests = {1, 2, 3}
SPECIFICATION Spec
INVARIANTS ListIsSorted HeldSegmentsAreNotFree
VIEW LiveState
CHECK_DEADLOCK FALSE
