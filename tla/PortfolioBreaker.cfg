\* Five weeks of every signal, breaker enabled, up to two of them before the
\* bootstrap.
SPECIFICATION Phase11Spec
CONSTANTS
    Full = 4
    Threshold = 2
    ReleaseWeeks = 2
    BreakerEnabled = TRUE
    Signals <- MCSignals
    MaxWeeks = 5
    PastSignals <- MCPastSignals
    PastWeeks = 2
INVARIANTS BreakerMatchesHistory TracksTarget TrippedStaysOut LiveMatchesBacktest
CHECK_DEADLOCK FALSE
