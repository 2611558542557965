\* Default build (no interrupt nesting), an idle task and two application tasks.
CONSTANTS
    a = a
    b = b
    idle = idle
    NULL = NULL
    Main = Main
    Tasks = {a, b, idle}
    Idle = idle
    NumPriorities = 2
    MaxTasks = 4
    MaxDelay = 2
    Nesting = FALSE
    Usage = {}
SPECIFICATION Spec
INVARIANT ContextsIntact
