SPECIFICATION Spec
CONSTANTS
    u1 = u1  u2 = u2  v1 = v1
    N = 3
    Cascade <- CascadeThree
    Expiry <- ExpiryThree
    Window <- CascadeThree
    Ids <- TwoIds
    Readings <- OneReading
    Requests = FALSE
    Fresh = FALSE
    DstAt = 3  DstShift = 1  Coarse = 4
    GoesOn = TRUE
    MaxNow = 3
    MaxFaults = 1
INVARIANTS Retained Cascaded UniqueRecord
PROPERTIES OwnRecordsOnly
