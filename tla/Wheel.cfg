\* one timer of every kind, 90 ticks: two checks of list 4 and both triggers of every
\* period; and three timers that share lists of two per array: moves, second arrays
CONSTANTS
    Timers = {1, 2, 3}
    Kinds <- KindsBoth
    ChunkSize = 2
    P1 = 2
    P2 = 8
    P3 = 32
    C2 = 4
    C3 = 8
    C4 = 32
    Resync = 8
    Delay = 10000
    MaxTicks = 90
SPECIFICATION BoundedSpec
INVARIANT OnePlace
INVARIANT NeverTooOften
INVARIANT NoneIsForgotten
PROPERTY WalkReturns
CHECK_DEADLOCK FALSE
