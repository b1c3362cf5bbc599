SPECIFICATION Spec
CONSTANTS
    NCharts = 2
    Ranges = {r1}
    Retries = 1
    AutoResize = {1}
    Users = {{"select", "drag", "wheel", "toolbox", "reset", "touch", "scroll", "resize", "focus", "dom", "pause"}, {"settings", "select", "reset", "scroll", "resize", "focus"}, {"settings", "select", "drag", "dom", "pause"}, {"unsynced", "select", "drag", "toolbox", "reset"}}
    MaxActs = 2
    MaxFaults = 1
INVARIANTS
    OneRefresher
    RunningIsAwaited
    SelectedIsSynced
\* A page that has lost its refresher (OneRefresher) stands still.
CHECK_DEADLOCK FALSE
