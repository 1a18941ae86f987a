SPECIFICATION Spec
CONSTANTS
    Schedules = {1}
    Tasks = {1, 2}
    Horizon = 3
    Calendar <- MixedCalendar
    AdmissionLimit = 1
    ClaimWindow = 2
    MaxFaults = 0
    MaxRuns = 2
    MaxCommands = 0
    MaxRollbacks = 1
PROPERTIES DecisionsAreTrue
CHECK_DEADLOCK FALSE
