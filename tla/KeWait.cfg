\* Three threads, an event of each kind, a semaphore and two mutants.
CONSTANTS
    t1 = t1
    t2 = t2
    t3 = t3
    note = note
    sync = sync
    sem = sem
    mut = mut
    mut2 = mut2
    NoRequest = NoRequest
    NoThread = NoThread
    NoObject = NoObject
    Dpc = Dpc
    MinSignal <- MCMinSignal
    Thread <- ThreeThreads
    Notification <- MCNote
    Synchronization <- MCSync
    Semaphore <- MCSem
    Mutant <- MCMuts
    Limit = 2
    WaitRequest <- AllRequests
    AlertMode <- MCNone
    MaxUserApc = 0
SPECIFICATION Spec
INVARIANTS NoLostWakeup WaitLinkage MutantOwnership
PROPERTIES AllOrNothing ServedInOrder AbandonmentTold
CHECK_DEADLOCK FALSE
SYMMETRY Symmetry
