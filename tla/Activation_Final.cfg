\* A synchronous input and a final, optional input without synchronization;
\* notifications arrive before and during start.
SPECIFICATION Spec
CONSTANTS
    t1 = t1  t2 = t2  t3 = t3  i1 = i1  i2 = i2  i3 = i3
    s1 = s1  s2 = s2  e1 = e1  e2 = e2  e3 = e3
    starter = starter
    Tasks = {t1}  Inputs = {i1, i2}  Schedulers = {s1}
    Executors = {e1, e2}  Notifiers = {n1, n2}  Starter = starter
    InputsOf <- PairInputs  Threshold <- OneOptional  Final = {i2}  Synchron = {i1}
    GroupOf <- NoGroupOfOne  TaskList <- PairList  Home <- OneHome
    StartOrder <- OneOrder
    QuietStart = FALSE
    MaxPush = 3
SYMMETRY Symmetry
INVARIANTS Ownership NoMissedActivation
CHECK_DEADLOCK FALSE
