\* More items on one host than a sweep takes of it; an edit and a restart
\* anywhere in a sweep. With every item removed nothing is left to do.
SPECIFICATION FairSpec
CONSTANTS
    ItemIds = {i1, i2}
    Urls = {a1}
    HostOf <- OwnHost
    Answers = {"gone", "distrusted", "nothing"}
    Posted <- OkOrNoLink
    Recorded = {}
    Batch = 1
    MaxEdits = 1
    EditsMayMoveLink = TRUE
    MaxRestarts = 1
CHECK_DEADLOCK FALSE
PROPERTIES DueIsChecked GoneIsNoticed
