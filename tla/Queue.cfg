\* Queues of one and two items, two different items, an idle task and two
\* application tasks.
CONSTANTS
    a = a
    b = b
    idle = idle
    isr = isr
    x = x
    y = y
    none = none
    Tasks = {a, b, idle}
    Idle = idle
    Isr = isr
    NumPriorities = 2
    Items = {x, y}
    NoItem = none
    MaxItems = 2
SPECIFICATION Spec
SYMMETRY QueueSymmetry
INVARIANT TypeOK
INVARIANT WaitListsExact
INVARIANT WokenPreempts
PROPERTY ImplementsFIFO
