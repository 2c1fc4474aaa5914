SPECIFICATION Spec
CONSTANTS
    Histories <- BufferedHistories
    MaxReplays = 1
    StreamCap = 4
    MaxAckPending = 4
    UseBuffer = TRUE
    OrphanGap = 2
    FetchBatchSize = 2
    InsertBatchSize = 2
    Ignoring = TRUE
    MaxCrashes = 1
    PromptRestart = FALSE
    LongAckWait = FALSE
    LossyDelivery = FALSE
    LossyAck = TRUE
INVARIANTS
    AckedIsDurable
    BufferedUnacked
    HeldWithinGap
    FirstChangePaired
