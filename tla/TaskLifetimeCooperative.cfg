CONSTANTS
    Assurance = "cooperative"
    MaxLaunches = 2
    MaxRuns = 2
    MaxBoots = 2
SPECIFICATION Spec
PROPERTIES ImplementsContract
CHECK_DEADLOCK FALSE
