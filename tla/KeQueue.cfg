\* Three threads and two queues; one thread uses both and may exit, and
\* kernel APCs come to two.
CONSTANTS
    ta = ta
    tb = tb
    tc = tc
    qp = qp
    qq = qq
    NoQueue = NoQueue
    NoStatus = NoStatus
    Timeout = Timeout
    KernelApc = KernelApc
    Thread <- ThreeThreads
    Queue = {qp, qq}
    Entry = {x}
    Mortal <- MCMortal
    Uses <- MCUses
    ApcTarget <- MCTarget
    Maximum = 1
SPECIFICATION Spec
INVARIANTS CountOK
PROPERTIES EntriesNotStranded NothingLost ConcurrencyLimited
