\* An idle task and two application tasks of any of three priorities.
CONSTANTS
    a = a
    b = b
    c = c
    idle = idle
    NULL = NULL
    Tasks = {a, b, idle}
    Idle = idle
    NumPriorities = 3
    MaxLocks = 1
SPECIFICATION Spec
PROPERTY NewOwnerDispatched
