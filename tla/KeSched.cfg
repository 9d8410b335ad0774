SPECIFICATION SchedSpec
CONSTANTS
    Thread = {t1, t2, t3}
    IdleThread = Idle
    NoThread = NoThread
    HighPriority = 4
    LowRealtime = 3
    TimeCritical = 9
    ProcessBase = 1
    ThreadQuantum = 2
    ClockDecrement = 1
    WaitDecrement = 1
    Boosts = {0, 1}
    SetPriorities = {1, 3}
    BaseIncrements <- OneStep
INVARIANTS HighestRuns
SYMMETRY Symmetry
