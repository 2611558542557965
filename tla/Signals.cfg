\* An idle task and two application tasks; an event group of two bits.
CONSTANTS
    a = a
    b = b
    c = c
    idle = idle
    x = x
    y = y
    Tasks = {a, b, idle}
    Idle = idle
    NumPriorities = 2
    MaxDelay = 1
    Bits = {x, y}
    Requests <- TypicalRequests
SPECIFICATION Spec
SYMMETRY Symmetry
INVARIANT TypeOK
INVARIANT NobodyOverlooked
INVARIANT ReturnsWhatWasMet
INVARIANT NotificationKept
INVARIANT SignalledPreempts
PROPERTY ConsumedOnce
