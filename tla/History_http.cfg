SPECIFICATION Spec
CONSTANTS
    u1 = u1  u2 = u2  v1 = v1
    N = 2
    Cascade <- CascadeTwo
    Expiry <- CascadeTwo
    Window <- CascadeTwo
    Ids <- OneId
    Readings <- OneReading
    Requests = TRUE
    Fresh = FALSE
    DstAt = 100  DstShift = 0  Coarse = 2
    GoesOn = FALSE
    MaxNow = 1
    MaxFaults = 0
INVARIANTS TypeOK NoneFromTheFuture
PROPERTIES ReportsAll Answered PollingGoesOn
