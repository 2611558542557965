\* Two timers, one of them reloading; three tasks for a watchdog table of two,
\* and two callers; a heap of 20 words with headers of three; pools in buffers
\* of any alignment, some too small; a tick counter of five bits; handlers three
\* deep.
CONSTANTS
    t1 = t1
    t2 = t2
    Timers = {t1, t2}
    NoTimer = NoTimer
    AutoReload = {t1}
    TimerPeriods = {1, 2}
    TimerModulus = 3
    w1 = w1
    w2 = w2
    w3 = w3
    Watched = {w1, w2, w3}
    NoTask = NoTask
    c1 = c1
    c2 = c2
    Callers = {c1, c2}
    MaxEntries = 2
    MaxDeadline = 2
    HeapSize = 20
    Header = 3
    Alignment = 2
    Modulus = 32
    Sizes = {0, 2, 5, 31}
    Pointer = 4
    SizeModulus = 64
    BufferStarts = {4, 5, 39}
    BufferSizes = {2, 17, 24}
    BlockSizes = {3, 6, 62}
    HalfRange = 16
    Periods = {1, 5, 15}
    MaxLate = 16
    MaskDepth = 4
    MaxSections = 6
    MaxHandlers = 3
SPECIFICATION Spec
INVARIANT TypeOK
INVARIANT ServiceSignalled
INVARIANT TableExact
INVARIANT AllocatorsExact
INVARIANT PeriodKept
INVARIANT SwitchOwed
INVARIANT SectionsHold
