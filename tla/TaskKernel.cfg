\* Interrupt-nesting build, an idle task and two application tasks.
CONSTANTS
    a = a
    b = b
    idle = idle
    NULL = NULL
    Main = Main
    Tasks = {a, b, idle}
    Idle = idle
    NumPriorities = 2
    MaxTasks = 5
    MaxDelay = 2
    Nesting = TRUE
    Usage = {}
SPECIFICATION FairSpec
INVARIANT TypeOK
INVARIANT ReadyListsExact
INVARIANT BlockedListExact
INVARIANT DeferredListExact
INVARIANT OnlyAllocatedTasks
INVARIANT RunningIsCurrent
INVARIANT ContextsIntact
INVARIANT TickServesAll
PROPERTY DispatchHighest
PROPERTY TakesTurns
PROPERTY DelayExpires
PROPERTY DeletedIsFreed
