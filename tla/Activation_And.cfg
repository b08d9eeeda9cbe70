\* One task waiting for two notifications of i1 and one of i2.
SPECIFICATION FairSpec
CONSTANTS
    t1 = t1  t2 = t2  t3 = t3  i1 = i1  i2 = i2  i3 = i3
    s1 = s1  s2 = s2  e1 = e1  e2 = e2  e3 = e3
    starter = starter
    Tasks = {t1}  Inputs = {i1, i2}  Schedulers = {s1}
    Executors = {e1, e2}  Notifiers = {n1, n2}  Starter = starter
    InputsOf <- PairInputs  Threshold <- TwoOne  Final = {}  Synchron = {i1, i2}
    GroupOf <- NoGroupOfOne  TaskList <- PairList  Home <- OneHome
    StartOrder <- OneOrder
    QuietStart = TRUE
    MaxPush = 5
INVARIANTS TypeOK AtMostOneExecution SynchronousDelivery ExactVolume
PROPERTIES EveryNotificationServed
CHECK_DEADLOCK FALSE
