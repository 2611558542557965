\* An idle task and three application tasks of any of three priorities.
CONSTANTS
    a = a
    b = b
    c = c
    idle = idle
    NULL = NULL
    Tasks = {a, b, c, idle}
    Idle = idle
    NumPriorities = 3
    MaxLocks = 2
SPECIFICATION Spec
SYMMETRY AppSymmetry
INVARIANT TypeOK
INVARIANT OwnerExclusive
INVARIANT WaitListExact
INVARIANT PriorityInherited
PROPERTY NoInversion
