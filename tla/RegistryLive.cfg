\* two workers, two slots, no resources: the table and its threads
SPECIFICATION FairSpec
CONSTANTS
    w1 = w1
    w2 = w2
    Nil = Nil
    Workers = {w1, w2}
    SlotCount = 2
    MesgCount = 0
    TimerCount = 0
    ActionCount = 0
    QueueSize = 2
    MaxCommits = 1
    ThreadProbe = {TRUE}
CHECK_DEADLOCK FALSE
PROPERTY DeadIsRemoved
