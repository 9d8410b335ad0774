\* Three users of a volume and of its cluster cache.
CONSTANTS
    t1 = t1
    t2 = t2
    t3 = t3
    Thread = {t1, t2, t3}
    NoThread = NoThread
    MaxApc = 2
    MaxDepth = 2
SPECIFICATION LocksSpec
INVARIANTS NoStrandedWaiter SectionOwned
PROPERTIES ImplementsRwLock EveryWaiterServed EveryEntererServed
