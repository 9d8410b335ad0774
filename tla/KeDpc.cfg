SPECIFICATION FairSpec
CONSTANTS
    Dpc = {d1, d2, timer}
    TimerExpireDpc = timer
    NoDpc = NoDpc
INVARIANTS ListAttended
PROPERTY EachServed
