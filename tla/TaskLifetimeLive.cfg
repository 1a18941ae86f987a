CONSTANTS
    Assurance = "exact"
    MaxLaunches = 1
    MaxRuns = 2
    MaxBoots = 1
SPECIFICATION FairSpec
CHECK_DEADLOCK FALSE
PROPERTIES GuardianReleases
