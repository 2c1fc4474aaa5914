SPECIFICATION FairSpec
CONSTANTS
    Histories <- LiveBufferedHistories
    MaxReplays = 0
    StreamCap = 4
    MaxAckPending = 4
    UseBuffer = TRUE
    OrphanGap = 1
    FetchBatchSize = 2
    InsertBatchSize = 1
    Ignoring = TRUE
    MaxCrashes = 1
    PromptRestart = FALSE
    LongAckWait = TRUE
    LossyDelivery = FALSE
    LossyAck = FALSE
PROPERTIES
    BackPressureTemporary
    AllRecorded
