CONSTANTS
    Assurance = "exact"
    MaxLaunches = 2
    MaxRuns = 2
    MaxBoots = 2
SPECIFICATION Spec
INVARIANTS EvidenceIsSound ExecutesAfterDurableLaunch
PROPERTIES RecordsStand ImplementsContract
CHECK_DEADLOCK FALSE
