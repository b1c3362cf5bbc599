SPECIFICATION FairSpec
CONSTANTS
    Pids = {1, 2}
    MaxCrashes = 2
    MaxOpens = 1
    MaxAwakes = 1
INVARIANTS
    StoppedThreadsAreDone
    CleanStop
    SevenStarts
PROPERTIES
    Recovers
