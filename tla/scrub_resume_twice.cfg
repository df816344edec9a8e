CONSTANTS
    MaxDevs = 1
    FirstDevs = 1
    Size = 4
    MaxRuns = 3
    Fails = FALSE
    Crashes = FALSE
SPECIFICATION Spec
INVARIANT AllScrubbed
CHECK_DEADLOCK FALSE
