CONSTANTS
    m = m
    idle = idle
    u = u
    o = o
    w = w
    Threads <- MCThreads
    Main = m
    Idle = idle
    UserMain = u
    Output = o
    Capacity = 2
    MaxTyped = 3
    MaxPending = 1
    MaxNesting = 2
SPECIFICATION Spec
INVARIANTS
    TypeOK
    OnlyDisturbedReturnsGoAstray
    ModeIsRight
    InputIsInOrder
    MutexesExclude
CHECK_DEADLOCK FALSE
