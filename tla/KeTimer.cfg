\* Two timers, lists of two ticks, set to delays within and beyond one turn and to system times.
CONSTANTS
    ta = ta
    tb = tb
    NoTimer = NoTimer
    NoTime = NoTime
    Timer <- TwoTimers
    TableSize = 2
    Increment = 2
    DpcListSize = 1
    MaxTick = 3
    Delay = {1, 5}
    Absolute = {5}
    Period = {0, 1}
    NewTime = {4}
    HasDpc = {TRUE, FALSE}
SPECIFICATION Spec
SYMMETRY Symmetry
INVARIANTS TableOK NoTimerMissed
PROPERTY NeverEarly
