SPECIFICATION FairSpec
CONSTANTS
    NCharts = 2
    Ranges = {r1}
    Retries = 1
    AutoResize = {1}
    Users = {{"scroll", "async", "pause"}, {"toolbox", "reset"}, {"select"}, {"resize"}, {"focus"}, {"dom"}}
    MaxActs = 2
    MaxFaults = 1
PROPERTIES
    ScrollIsSeen
    KeepsRefreshing
\* A page that has lost its refresher (OneRefresher) stands still.
CHECK_DEADLOCK FALSE
