\* Two executors that go on, five calls of the application in four instants.
SPECIFICATION FairSpec
CONSTANTS
    Executors = {e1, e2}
    Periods = {0, 3}  Delays = {2}
    Offsets = {0, 1}  MaxTriggers = 3
    MaxTime = 3  MaxCalls = 5
INVARIANTS TypeOK PeriodicAlive OnGrid TriggersInTurn StopIsFinal
PROPERTIES PeriodServed
CHECK_DEADLOCK FALSE
