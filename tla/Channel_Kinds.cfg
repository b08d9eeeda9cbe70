\* Three producers; barriers without and with a start value; eight pushes.
SPECIFICATION FairSpec
CONSTANTS
    Producers = {p1, p2, p3}  Writer = p1
    StartValues = {0, 2}
    MaxPush = 8
INVARIANTS TypeOK AnnouncedAwaited SynchronNeverStuck ReferenceHolds
PROPERTIES RoundsGoOn NewestRead
CHECK_DEADLOCK FALSE
