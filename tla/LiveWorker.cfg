SPECIFICATION FairSpec
CONSTANTS
    Histories <- LiveHistories
    MaxReplays = 1
    StreamCap = 3
    MaxAckPending = 3
    UseBuffer = FALSE
    OrphanGap = 2
    FetchBatchSize = 2
    InsertBatchSize = 1
    Ignoring = TRUE
    MaxCrashes = 1
    PromptRestart = FALSE
    LongAckWait = TRUE
    LossyDelivery = FALSE
    LossyAck = FALSE
PROPERTIES
    BackPressureTemporary
    AllRecorded
