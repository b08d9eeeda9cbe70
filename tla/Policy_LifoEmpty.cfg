\* Any sequence of operations with three tasks.
SPECIFICATION Spec
CONSTANTS
    Tasks = {t1, t2, t3}
INVARIANTS EmptyGivesNull
