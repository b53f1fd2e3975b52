SPECIFICATION MidwaySpec
CONSTANTS
    MaxBlocks = 3
    MaxAckNo = 5
    MaxLost = 1
    SndBufSize = 2
    RcvBufSize = 3
    FlightFlagSize = 2
    CongWnd = 8
    AckWindowSize = 2
    ExpLimit = 1
    Duplicating = FALSE
    Patient = TRUE
PROPERTIES EventuallyDelivered
CHECK_DEADLOCK FALSE
