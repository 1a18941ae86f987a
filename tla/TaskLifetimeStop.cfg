CONSTANTS
    Assurance = "cooperative"
    MaxLaunches = 1
    MaxRuns = 1
    MaxBoots = 1
SPECIFICATION FairSpec
CHECK_DEADLOCK FALSE
PROPERTIES CancellationEndsRun
