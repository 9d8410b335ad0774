\* Alerts, user and kernel APCs and timeouts against one event.
CONSTANTS
    t1 = t1
    t2 = t2
    t3 = t3
    note = note
    sync = sync
    sem = sem
    mut = mut
    mut2 = mut2
    NoRequest = NoRequest
    NoThread = NoThread
    NoObject = NoObject
    Dpc = Dpc
    MinSignal <- MCMinSignal
    Thread <- TwoThreads
    Notification <- MCNone
    Synchronization <- MCSync
    Semaphore <- MCNone
    Mutant <- MCNone
    Limit = 1
    WaitRequest <- AlertRequests
    AlertMode <- Modes
    MaxUserApc = 1
SPECIFICATION FairSpec
INVARIANTS AlertsSeen
PROPERTY TimedWaitEnds
