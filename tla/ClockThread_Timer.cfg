\* Two events started by one client and the executor, one spurious wake-up.
SPECIFICATION FairSpec
CONSTANTS
    Events = {a, b}
    Clients = {c1}
    Executor = executor
    MaxTime = 3  MaxStarts = 3  MaxSpurious = 1
INVARIANTS NoTimerLost
PROPERTIES AwaitedServed StartTimerReturns
CHECK_DEADLOCK FALSE
