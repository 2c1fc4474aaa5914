SPECIFICATION Spec
CONSTANTS
    Histories <- WorkerHistories
    MaxReplays = 0
    StreamCap = 3
    MaxAckPending = 3
    UseBuffer = TRUE
    OrphanGap = 1
    FetchBatchSize = 2
    InsertBatchSize = 1
    Ignoring = TRUE
    MaxCrashes = 1
    PromptRestart = TRUE
    LongAckWait = FALSE
    LossyDelivery = TRUE
    LossyAck = TRUE
INVARIANTS
    BufferedUnacked
    ContextSound
