SPECIFICATION Spec
CONSTANTS
    Histories <- LedHistories
    MaxReplays = 0
    StreamCap = 3
    MaxAckPending = 3
    UseBuffer = FALSE
    OrphanGap = 2
    FetchBatchSize = 2
    InsertBatchSize = 1
    Ignoring = TRUE
    MaxCrashes = 0
    PromptRestart = FALSE
    LongAckWait = FALSE
    LossyDelivery = FALSE
    LossyAck = FALSE
INVARIANTS
    ContextComplete
