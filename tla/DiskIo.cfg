\* Two threads, two requests.
CONSTANTS
    ta = ta
    tb = tb
    ia = ia
    ib = ib
    NoIrp = NoIrp
    NoThread = NoThread
    Irp = {ia, ib}
    Thread = {ta, tb}
    Dismounter = {tb}
    CommandTimeout = 2
    ResetTimeout = 2
    MaxRetries = 1
    MaxTransfers = 2
SPECIFICATION Spec
INVARIANTS FinishedOnce SuccessIsTrue MutexFollowsTransfers DismountWaits IrpsForgetEnded
CHECK_DEADLOCK FALSE
PROPERTIES EveryIrpEnds DismountReturns
