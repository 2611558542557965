\* The constants of Signals.cfg.
CONSTANTS
    a = a
    b = b
    c = c
    idle = idle
    x = x
    y = y
    Tasks = {a, b, idle}
    Idle = idle
    NumPriorities = 2
    MaxDelay = 1
    Bits = {x, y}
    Requests <- TypicalRequests
SPECIFICATION Spec
SYMMETRY Symmetry
INVARIANT ReadiedOnce
