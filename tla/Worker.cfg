SPECIFICATION Spec
CONSTANTS
    Histories <- WorkerHistories
    MaxReplays = 1
    StreamCap = 3
    MaxAckPending = 3
    UseBuffer = FALSE
    OrphanGap = 2
    FetchBatchSize = 2
    InsertBatchSize = 1
    Ignoring = TRUE
    MaxCrashes = 1
    PromptRestart = FALSE
    LongAckWait = FALSE
    LossyDelivery = FALSE
    LossyAck = TRUE
INVARIANTS
    TypeOK
    AckedIsDurable
    NothingLost
    Accounted
    ContextSound
PROPERTIES
    ImplementsAuditLog
