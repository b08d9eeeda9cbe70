\* Four events, all operations in any order.
SPECIFICATION Spec
CONSTANTS
    Events = {a, b, c, d}
    MaxTime = 2
INVARIANTS WellLinked
PROPERTIES ImplementsEventSet TimerForFirst SleepIsBounded
SYMMETRY Symmetry
