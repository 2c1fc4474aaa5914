SPECIFICATION FairSpec
CONSTANTS
    TxEnds <- SmallThenLarge
    MAX_ATTEMPTS = 2
    StreamCap = 2
    SetupFirst = TRUE
    MaxRuns = 2
    MaxResets = 1
    MaxFailures = 2
    MaxCrashes = 1
CHECK_DEADLOCK FALSE
INVARIANTS
    TypeOK
    NothingDiscarded
    OffsetsFitSlot
    FileBacked
PROPERTIES
    CaptureResumes
