SPECIFICATION FairSpec
CONSTANTS
    Histories <- ForeignHistories
    MaxReplays = 0
    StreamCap = 3
    MaxAckPending = 2
    UseBuffer = FALSE
    OrphanGap = 2
    FetchBatchSize = 2
    InsertBatchSize = 1
    Ignoring = TRUE
    MaxCrashes = 0
    PromptRestart = FALSE
    LongAckWait = TRUE
    LossyDelivery = FALSE
    LossyAck = FALSE
PROPERTIES
    BackPressureTemporary
