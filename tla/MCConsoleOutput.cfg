CONSTANTS
    m = m
    idle = idle
    u = u
    o = o
    w = w
    Threads <- MCThreads
    Main = m
    Idle = idle
    UserMain = u
    Output = o
    Capacity = 2
    MaxOutput = 3
SPECIFICATION FairSpec
INVARIANTS
    TypeOK
    OutputIsInOrder
    PermitsMatchBuffer
    CountIsExact
PROPERTIES
    OutputDrains
    InterruptsComeBack
CHECK_DEADLOCK FALSE
