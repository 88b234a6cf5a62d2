CONSTANTS
    m = m
    idle = idle
    u = u
    t1 = t1
    t2 = t2
    s1 = s1
    Threads <- MCThreads
    Main = m
    Idle = idle
    UserMain = u
    BootQueue <- MCBootQueue
    Semaphores <- MCSemaphores
    InitialValues = {0, 1}
    MaxSleep = 1
    DefaultTimeSlice = 2
    MinValue <- MCMinValue
    MaxValue = 1
SPECIFICATION Spec
PROPERTY TakingAPermitSucceeds
CHECK_DEADLOCK FALSE
