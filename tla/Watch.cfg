SPECIFICATION Spec
CONSTANTS
    s1 = s1
    Slots <- OneSlot
    SLOT_POLL_INTERVAL = 1
    SLOT_INACTIVE_GRACE = 2
    QueryTime = 1
    STALL_TIMEOUT = 3
    FETCH_EXPIRES = 1
    MaxWork = 1
    MaxFailed = 1
VIEW Ages
INVARIANTS
    TypeOK
    AbandonedIsReported
    BackloggedIsReported
    RestartsAreNotReported
    OnlyHangsLookStalled
PROPERTIES
    SlotDataNeverGoesBack
