SPECIFICATION Timing
CONSTANTS
    Period = 3
    SustainedRuns = 2
    Grace = 2
    Windows = {2, 5, 8, 11}
    TimeLimit = 4
    MaxOffSchedule = 1
    Horizon = 8
    None = None
    Schedules <- MCSchedules
INVARIANTS
    TypeOK
    SameTimes
PROPERTIES
    OpsAlert
    NewsTold
CHECK_DEADLOCK FALSE
