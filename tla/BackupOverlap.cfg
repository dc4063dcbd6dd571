\* -once while the loop is in a run.
SPECIFICATION Spec
CONSTANTS
    Pictures = {p}
    Keep = 1
    Interval = 2
    FiveMinutes = 1
    DayLength = 2
    RunTime = 0
    MaxTime = 0
    MaxFaults = 0
    MaxOnce = 1
    Overlap = TRUE
INVARIANT NamedIsWhole
CHECK_DEADLOCK FALSE
