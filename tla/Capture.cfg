SPECIFICATION Spec

CONSTANTS
    s1 = s1
    s2 = s2
    k1 = k1
    k2 = k2
    v1 = v1
    v2 = v2
    UseBuffer = FALSE
    OrphanGap = 2
    Fields = {"tenant", "user"}
    MaxBytes = 1
    Columns = {"title", "tags", "updatedAt", "secret"}
    IgnoreFields = {"updatedAt"}
    Sessions <- TwoSessions
    Ids <- TwoIds
    Values <- TwoValues
    Toasted = {"tags"}
    Excluded = {"secret"}
    Updates <- SmallUpdates
    MaxWrites = 3
    MaxEmits = 2
    MaxMessages = 3

SYMMETRY NamesDoNotMatter

CHECK_DEADLOCK FALSE

INVARIANTS
    TypeOK
    HistoryWithoutGaps
    OnlyNoiseIsDropped
    AttributedAsGiven
