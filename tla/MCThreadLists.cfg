CONSTANTS
    t1 = t1
    t2 = t2
    t3 = t3
    t4 = t4
    Threads <- MCThreads
    MaxSleep = 4
    Idle = Idle
    Null = Null
    TCBs <- MCTCBs
SPECIFICATION ListsSpec
INVARIANTS Linked TypeOK HeadHasTimeLeft SleepsAsAsked
PROPERTIES ImplementsFifo WakesOnlyWhenDue SomeoneWakes
