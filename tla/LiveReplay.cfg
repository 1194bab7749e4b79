\* Bootstrap at any week, then live, every kind of week.
SPECIFICATION LiveSpec
CONSTANTS
    c1 = c1
    c2 = c2
    NoCluster = none
    Clusters <- MCClusters
    WarmupWeeks = 2
    StaleGap = 2
    ReadySamples = 2
    HealWeeks = 2
    HealLevel = 3
    Neutral = 5
    TopLevel = 10
    Decay <- MCDecay
    ThetaInputs <- MCThetas
    MicroInputs <- MCMicros
    LiveInputs <- MCLive
    MaxRows = 6
INVARIANTS LiveMatchesReplay PrototypesAgree EveryWeekDecays SeedSuffices BufferIsRecent HealMatchesSpec
CHECK_DEADLOCK FALSE
