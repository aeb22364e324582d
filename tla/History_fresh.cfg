SPECIFICATION Spec
CONSTANTS
    u1 = u1  u2 = u2  v1 = v1
    N = 2
    Cascade <- CascadeTwo
    Expiry <- ExpiryTwo
    Window <- CascadeTwo
    Ids <- OneId
    Readings <- OneReading
    Requests = FALSE
    Fresh = TRUE
    DstAt = 100  DstShift = 0  Coarse = 2
    GoesOn = TRUE
    MaxNow = 2
    MaxFaults = 0
INVARIANTS Cascaded
