\* A barrier in front of an input without synchronization, among others.
SPECIFICATION Spec
CONSTANTS
    Producers = {p1, p2, p3}  Writer = p1
    StartValues = {0, 2}
    MaxPush = 8
INVARIANTS NeverStuck
CHECK_DEADLOCK FALSE
