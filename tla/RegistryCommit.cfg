SPECIFICATION FairSpec
CONSTANTS
    w1 = w1
    w2 = w2
    Nil = Nil
    Workers = {w1}
    SlotCount = 1
    MesgCount = 1
    TimerCount = 0
    ActionCount = 0
    QueueSize = 2
    MaxCommits = 2
    ThreadProbe = {TRUE}
CHECK_DEADLOCK FALSE
PROPERTY CommitIsSeen
