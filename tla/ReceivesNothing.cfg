\* A mailbox.
CONSTANTS
    a = a
    b = b
    idle = idle
    isr = isr
    x = x
    y = y
    none = none
    Tasks = {a, b, idle}
    Idle = idle
    Isr = isr
    NumPriorities = 2
    Items = {x, y}
    NoItem = none
    MaxItems = 1
SPECIFICATION Spec
PROPERTY ReceiveDelivers
