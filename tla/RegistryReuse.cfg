SPECIFICATION Spec
CONSTANTS
    w1 = w1
    w2 = w2
    Nil = Nil
    Workers = {w1, w2}
    SlotCount = 1
    MesgCount = 0
    TimerCount = 1
    ActionCount = 0
    QueueSize = 2
    MaxCommits = 1
    ThreadProbe = {TRUE}
SYMMETRY Symmetric
CHECK_DEADLOCK FALSE
PROPERTY FreeSlotIsReusable
