\* Three weeks of two days, every membership, gaps and missing windows.
SPECIFICATION MicroSpec
CONSTANTS
    heavy = heavy
    light = light
    other = other
    Tickers <- MCTickers
    Disclosed <- MCDisclosed
    Mature20 = 1
    Mature60 = 2
    GraceDays = 1
    Rank = 2
    KeepNum = 1
    KeepDen = 2
    WeekLength = 2
    Baseline = 1
    NaN = NaN
    None = None
    MaxDays = 6
INVARIANT AgesMatchHistory
PROPERTY WeeksStand
CHECK_DEADLOCK FALSE
