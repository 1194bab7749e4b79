SPECIFICATION Spec
CONSTANTS
    r1 = r1
    r2 = r2
    r3 = r3
    Runs = {r1, r2, r3}
    Invocations <- EveryInvocation
    MaxAttempts = 3
    MaxCrashes = 2
    CarefulRecovery = TRUE
    NoRun = NoRun
SYMMETRY RunSymmetry
INVARIANTS
    TypeOK
    MutualExclusion
    OneRecordedSend
PROPERTIES
    InsightContract
    NoticeContract
CHECK_DEADLOCK FALSE
