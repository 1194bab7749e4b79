\* A split after a rename.
SPECIFICATION PitSpec
CONSTANTS
    Old = Old
    New = New
    Unavailable = Unavailable
    Windows <- MCWindows
    LastDay = 3
    MaxDelay = 0
    MaxCorrections = 0
    MaxRenames = 1
    MaxActions = 1
    MaxHoldings = 0
INVARIANTS ActionsReachOldBars
CHECK_DEADLOCK FALSE
