\* Any sequence of operations with four tasks.
SPECIFICATION Spec
CONSTANTS
    t1 = t1  t2 = t2  t3 = t3  t4 = t4
    Tasks <- MCTasks
    Priority <- MCPriority
    maxPrioritySlot = 3
PROPERTIES ImplementsRunQueue
