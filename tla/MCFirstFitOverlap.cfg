CONSTANTS
    totalNumberOfBlocks = 9
    Requests = {1, 2, 3}
SPECIFICATION Spec
INVARIANT CallersOwnTheirBlocks
CHECK_DEADLOCK FALSE
