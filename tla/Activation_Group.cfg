\* Two tasks with one input each that form a group on one scheduler, and one
\* task on another scheduler.
SPECIFICATION Spec
CONSTANTS
    t1 = t1  t2 = t2  t3 = t3  i1 = i1  i2 = i2  i3 = i3
    s1 = s1  s2 = s2  e1 = e1  e2 = e2  e3 = e3
    starter = starter
    Tasks = {t1, t2, t3}  Inputs = {i1, i2, i3}  Schedulers = {s1, s2}
    Executors = {e1, e2, e3}  Notifiers = {n1, n2}  Starter = starter
    InputsOf <- SingleInputs  Threshold <- SingleOnes  Final = {}  Synchron = {i1, i2}
    GroupOf <- OneGroup  TaskList <- TwoLists  Home <- TwoHomes
    StartOrder <- TwoOrder
    QuietStart = TRUE
    MaxPush = 2
SYMMETRY Symmetry
INVARIANTS Ownership GroupLockstep
CHECK_DEADLOCK FALSE
