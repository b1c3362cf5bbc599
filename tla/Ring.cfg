\* two producers and two threads contend for two slots; four tasks wrap the ring twice
CONSTANTS
    Threads = {t1, t2}
    Producers = {p1, p2}
    RingSize = 2
    MaxTasks = 4
    Counting = TRUE
SPECIFICATION FairSpec
INVARIANT SlotExclusive
PROPERTY ImplementsPool
PROPERTY StopReturns
PROPERTY FewAreStranded
CHECK_DEADLOCK FALSE
