SPECIFICATION Spec
CONSTANTS
    Schedules = {1}
    Tasks = {1, 2}
    Horizon = 4
    Calendar <- MixedCalendar
    AdmissionLimit = 1
    ClaimWindow = 2
    MaxFaults = 2
    MaxRuns = 2
    MaxCommands = 0
    MaxRollbacks = 0
PROPERTIES ImplementsContract
CHECK_DEADLOCK FALSE
