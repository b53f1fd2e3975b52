SPECIFICATION Spec
CONSTANTS
    MaxBlocks = 2
    MaxAckNo = 2
    MaxLost = 0
    SndBufSize = 2
    RcvBufSize = 3
    FlightFlagSize = 3
    CongWnd = 8
    AckWindowSize = 2
    ExpLimit = 1
    Duplicating = TRUE
    Patient = FALSE
INVARIANTS ReleasedIsReceived LossListExact NoFalseAlarm  NoStrandedLoss
PROPERTIES AcksOnlyAdvance StreamSpec
CHECK_DEADLOCK FALSE
