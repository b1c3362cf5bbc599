\* two workers take turns in one slot, with one message, timer and action each;
\* a queue of two tasks overflows when a worker is synced and closed
SPECIFICATION Spec
CONSTANTS
    w1 = w1
    w2 = w2
    Nil = Nil
    Workers = {w1, w2}
    SlotCount = 1
    MesgCount = 1
    TimerCount = 1
    ActionCount = 1
    QueueSize = 2
    MaxCommits = 1
    ThreadProbe = {TRUE}
SYMMETRY Symmetric
CHECK_DEADLOCK FALSE
INVARIANT LockExclusion
INVARIANT RunningIsMapped
INVARIANT FaultNeedsDeparture
PROPERTY NoOverwrite
PROPERTY OnlyTheDeadAreRemoved
