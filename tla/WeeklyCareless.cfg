SPECIFICATION FairSpec
CONSTANTS
    r1 = r1
    r2 = r2
    Runs = {r1, r2}
    Invocations <- RecoveringInvocations
    MaxAttempts = 3
    MaxCrashes = 1
    CarefulRecovery = FALSE
    NoRun = NoRun
INVARIANTS
    NoLockLeak
    ExitZeroMeansSent
    StatusHonest
PROPERTIES
    RunsEnd
    LockReleased
CHECK_DEADLOCK FALSE
