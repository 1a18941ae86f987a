SPECIFICATION Spec
CONSTANTS
    Schedules = {1}
    Tasks = {1, 2}
    Horizon = 3
    Calendar <- MixedCalendar
    AdmissionLimit = 1
    ClaimWindow = 1
    MaxFaults = 0
    MaxRuns = 1
    MaxCommands = 2
    MaxRollbacks = 0
INVARIANTS SchedulerIsSound
CHECK_DEADLOCK FALSE
