\* Two threads, two timers, two handles.
CONSTANTS
    ta = ta
    tb = tb
    oa = oa
    ob = ob
    ha = ha
    hb = hb
    NoObject = NoObject
    NoThread = NoThread
    Thread = {ta, tb}
    Object = {oa, ob}
    Handle = {ha, hb}
    Attributes <- MCAttributes
SPECIFICATION TimerSpec
INVARIANTS NamesEndWithHandles ReferencesExact ListsFollowTimers NoStaleApc
CHECK_DEADLOCK FALSE
SYMMETRY Symmetry
