\* Four days of a security that is renamed and split, every order of recording.
SPECIFICATION PitSpec
CONSTANTS
    Old = Old
    New = New
    Unavailable = Unavailable
    Windows <- MCWindows
    LastDay = 4
    MaxDelay = 1
    MaxCorrections = 1
    MaxRenames = 1
    MaxActions = 1
    MaxHoldings = 1
INVARIANTS AnswersStand WindowMatchesFormula
CHECK_DEADLOCK FALSE
