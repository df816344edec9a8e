CONSTANTS
    MaxDevs = 1
    FirstDevs = 1
    Size = 1
    MaxRuns = 1
    Fails = FALSE
    Crashes = FALSE
SPECIFICATION FairSpec
PROPERTY ScrubEnds
CHECK_DEADLOCK FALSE
