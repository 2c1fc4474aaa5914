SPECIFICATION SessionSpec
CONSTANTS
    UseBuffer = TRUE
    OrphanGap = 2
    Subjects <- BothSubjects
    Transactions <- TwoTransactions
    ArrivingKinds <- StitchedKinds
    MaxRecords = 4
INVARIANTS
    LoopAgrees
    AckedIsSaved
    PairedWithinGap
