CONSTANTS
    BlackStarts = {b1}
    Standalone = Standalone
    NoReading = NoReading
    SyncIDs = {g1}
    Callers = {u1, u2}
    Workers = {worker}
    Readings <- AllReadings
    MaxAttempts = 2
    NoSync = NoSync
    Idle = Idle
SPECIFICATION FairSpec
INVARIANTS
    TypeOK
    BreakerOnGoodReading
    FallbackRecorded
PROPERTIES
    FailureRetested
    ReopenedOnlyByStaleSave
    PassedOverOnlyByStaleSave
