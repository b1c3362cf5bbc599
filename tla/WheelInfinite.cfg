\* a timer of size 0
CONSTANTS
    Timers = {t1}
    Kinds <- KindsInfinite
    ChunkSize = 2
    P1 = 2
    P2 = 8
    P3 = 32
    C2 = 4
    C3 = 8
    C4 = 32
    Resync = 8
    Delay = 10000
    MaxTicks = 8
SPECIFICATION WheelSpec
INVARIANT InfiniteKeepsRunning
CHECK_DEADLOCK FALSE
