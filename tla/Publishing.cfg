SPECIFICATION PublishSpec
CONSTANTS
    WeekLength = 2
    SlaDelay = 1
    None = None
    Torn = Torn
    Summaries <- MCSummaries
    MaxClock = 3
    MaxLive = 3
    MaxPublish = 3
    MaxKills = 1
    MaxReads = 1
INVARIANTS
    LatestIsNewest
    AuditMatchesPublications
    MonitorConsistent
    GreenMeansGood
PROPERTY HistoryImmutable
CHECK_DEADLOCK FALSE
