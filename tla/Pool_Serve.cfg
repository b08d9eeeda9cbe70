\* Two executors serve a client and the clock until terminate is called.
SPECIFICATION FairSpec
CONSTANTS
    Executors = {e1, e2}
    Clients = {c1}
    Clock = clock  Terminator = terminator
    MayTerminate = TRUE  Spurious = TRUE
    MaxPerform = 3  MaxFire = 1
INVARIANTS TypeOK EveryExecutorAccounted
PROPERTIES AwakeServesTasks AwakeServesEvents
CHECK_DEADLOCK FALSE
