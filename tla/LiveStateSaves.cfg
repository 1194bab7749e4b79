\* Three runs over two weeks, reruns of either, two kills; a save that begins ends.
SPECIFICATION FairSpec
CONSTANTS
    LastWeek = 1
    MaxRuns = 3
    MaxCrashes = 2
    FollowLog = FALSE
    Absent = Absent
    Torn = Torn
INVARIANTS LoadsOneSave Recoverable
PROPERTIES IsRegister SavesEnd
CHECK_DEADLOCK FALSE
