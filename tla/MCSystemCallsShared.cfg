CONSTANTS
    Callers = {t1, t2}
    Functions = {"sem_open", "sem_wait"}
    Values = {1, 2}
    MaxCalls = 2
SPECIFICATION CallsSpec
INVARIANT ArgumentsAreTheCallers
CHECK_DEADLOCK FALSE
