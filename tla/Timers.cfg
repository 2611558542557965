\* Two timers, one of them reloading.
CONSTANTS
    t1 = t1
    t2 = t2
    Timers = {t1, t2}
    NoTimer = NoTimer
    AutoReload = {t1}
    TimerPeriods = {1, 2}
    TimerModulus = 4
SPECIFICATION DelaysSpec
INVARIANT TimersOnTime
