\* A counting semaphore of two tokens, an idle task and three application tasks.
CONSTANTS
    a = a
    b = b
    c = c
    idle = idle
    Tasks = {a, b, c, idle}
    Idle = idle
    NumPriorities = 3
    MaxCount = 2
SPECIFICATION Spec
SYMMETRY AppSymmetry
INVARIANT TypeOK
INVARIANT TokensConserved
INVARIANT WaitListExact
INVARIANT GrantedPreempts
PROPERTY ServedInOrder
PROPERTY ImplementsAbstract
