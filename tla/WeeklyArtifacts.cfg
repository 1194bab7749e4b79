SPECIFICATION ArtifactsSpec
CONSTANTS
    WeekLength = 2
    SlaDelay = 1
    None = None
    Torn = Torn
    Policy <- MCPolicy
    Weeks <- MCWeeks
    Portfolios <- MCPortfolios
    Summaries <- MCArtifactSummaries
    MaxClock = 1
    MaxLive = 2
    MaxPublish = 2
    MaxKills = 1
    MaxReads = 0
    MaxSandbox = 2
    MaxDigests = 1
INVARIANTS
    DigestShowsItsWeek
    OrdersNeedSignal
    OrdersAffordable
    SummaryMatchesFiles
CHECK_DEADLOCK FALSE
