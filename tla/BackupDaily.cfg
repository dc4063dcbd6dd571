\* The loop alone, its runs reaching over midnight; one kill or failing write.  The clock
\* goes on long enough for a first backup of either kind to become too old: one taken at
\* 0 or 1 is, at 6, if no other followed.  It stops at MaxTime.
SPECIFICATION Spec
CONSTANTS
    Pictures = {p}
    Keep = 1
    Interval = 2
    FiveMinutes = 1
    DayLength = 3
    RunTime = 1
    MaxTime = 6
    MaxFaults = 1
    MaxOnce = 0
    Overlap = FALSE
INVARIANTS TypeOK NamedIsWhole GoodRunRestores BackupIsFresh
PROPERTIES PruneSparesTheNewest LatestGoesForward
CHECK_DEADLOCK FALSE
