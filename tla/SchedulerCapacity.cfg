SPECIFICATION Spec
CONSTANTS
    Schedules = {1, 2}
    Tasks = {1, 2}
    Horizon = 2
    Calendar <- SharedCalendar
    AdmissionLimit = 1
    ClaimWindow = 1
    MaxFaults = 1
    MaxRuns = 2
    MaxCommands = 0
    MaxRollbacks = 0
INVARIANTS SchedulerIsSound
PROPERTIES DecisionsAreTrue
CHECK_DEADLOCK FALSE
