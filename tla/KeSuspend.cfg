\* Two special and two normal APCs besides the one that suspends.
CONSTANTS
    SuspendApc = SuspendApc
    Special = {s1, s2}
    Normal = {n1, n2}
    MaximumSuspendCount = 2
    MaxRegions = 2
SPECIFICATION Spec
SYMMETRY Symmetry
CHECK_DEADLOCK FALSE
INVARIANTS SuspendedStops ApcsDelivered NoApcAtExit
