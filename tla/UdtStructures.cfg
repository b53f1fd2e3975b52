SPECIFICATION StructuresSpec
CONSTANTS
    MaxSeqNo = 15
    SndListSize = 4
    FirstSndSeqNo = 13
    MaxSndSeqs = 7
    RcvListSize = 6
    FirstRcvSeqNo = 13
    MaxRcvSeqs = 7
    DropsWrap = FALSE
    SndUnit = 2
    SndBufLimit = 3
    FileBlock = 2
    MaxCallSize = 3
    MaxSndPackets = 6
    ShortReads = FALSE
    RcvSlotCount = 3
    PoolUnit = 3
    PoolPercent = 60
    PacketLen = 2
    MaxReadLen = 3
    MaxRcvPackets = 5
    MsgBufSize = 5
    MaxMsgLen = 2
    MaxMsgPackets = 3
    MaxOnWire = 2
    MsgKinds = {"ttl", "inorder"}
    LateDrops = TRUE
    Senders = {s1, s2, s3}
    MaxSndTime = 1
    MaxSndData = 2
    Conns = {1, 2, 3}
    Dialled = {1, 2}
    HashSize = 2
    MaxRounds = 3
    WorkerKeepsUp = TRUE
    HsModes = {"regular", "rendezvous"}
    MSSs = {1, 2}
    WindowSizes = {1, 3}
    MaxSetOpts = 2
    MaxAttempts = 2
    MixedMSS = {"regular"}
    FcBelowBuffer = FALSE
    MaxBlocks = 6
    MaxAckNo = 0
    MaxLost = 0
    SndBufSize = 6
    RcvBufSize = 7
    FlightFlagSize = 2
    CongWnd = 8
    AckWindowSize = 2
    ExpLimit = 0
    Duplicating = FALSE
    Patient = TRUE
INVARIANTS
    SndListIsSet  RingIsSequence  BytesInOrder RefusedOnce
       NoLostSignal 
    ListsHoldTogether DeletedIsForgotten EndsAgree WindowFitsLossLists LossListFits
SYMMETRY SenderSymmetry
CHECK_DEADLOCK FALSE
