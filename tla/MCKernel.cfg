CONSTANTS
    m = m
    idle = idle
    u = u
    t1 = t1
    t2 = t2
    s1 = s1
    Threads <- MCThreads
    Main = m
    Idle = idle
    UserMain = u
    BootQueue <- MCBootQueue
    Semaphores <- MCSemaphores
    InitialValues = {0, 1}
    MaxSleep = 2
    DefaultTimeSlice = 2
    MinValue <- MCMinValue
    MaxValue = 1
SPECIFICATION FairSpec
INVARIANTS
    TypeOK
    EveryThreadInOnePlace
    SemaphoreAccounting
    SemWaitIsConsistent
    SleepTimesOK
    FreedThreadsAreFresh
PROPERTIES
    NoOvertaking
    ClosedWaitFails
    ImplementsFifoSemaphores
    ReadyThreadRuns
CHECK_DEADLOCK FALSE
