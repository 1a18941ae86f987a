SPECIFICATION FairSpec
CONSTANTS
    Schedules = {1}
    Tasks = {1, 2}
    Horizon = 3
    Calendar <- MixedCalendar
    AdmissionLimit = 1
    ClaimWindow = 1
    MaxFaults = 1
    MaxRuns = 2
    MaxCommands = 0
    MaxRollbacks = 0
PROPERTIES SchedulesMoveOn
CHECK_DEADLOCK FALSE
