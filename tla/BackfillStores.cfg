SPECIFICATION Spec
CONSTANTS
    p1 = p1
    p1b = p1b
    p2 = p2
    p3 = p3
    Payloads <- MCPayloads
    Content <- MCContent
    Holdings <- MCHoldings
    Official <- MCOfficial
    PriceIds <- MCPriceIds
    Week <- MCWeek
    None = None
    Torn = Torn
    MaxServed = 2
    MaxRuns = 4
    MaxKills = 1
    MaxLive = 1
INVARIANTS
    StrictNamespaceProven
    ResultBacked
    ControlledStaysControlled
CHECK_DEADLOCK FALSE
