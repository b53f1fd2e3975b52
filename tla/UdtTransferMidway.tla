-------------------------- MODULE UdtTransferMidway --------------------------
(***************************************************************************)
(* UdtTransfer from a state in the middle of a stream: the first block is  *)
(* received, acknowledged and confirmed, and the application has not read  *)
(* it yet.  From there the receiver's buffer fills up within two blocks,   *)
(* and still has room for packets that overtake each other once the        *)
(* application has read.                                                   *)
(***************************************************************************)
EXTENDS UdtTransfer

ASSUME MidwayAssumption == RcvBufSize >= 3 /\ MaxAckNo >= 1

MidwayInit ==
    /\ sndLast = 1 /\ sndFirst = 1 /\ sndCurrBlock = 1
    /\ sndCurrSeqNo = 0
    /\ sndLastAck = 1 /\ sndLastDataAck = 1 /\ sndLastAck2 = 1
    /\ flowWindow = AdvertisedWindow(RcvBufSize - 2)
    /\ sndLossList = {} /\ onSndUList = FALSE
    /\ packPC = "idle" /\ packArg = 0 /\ ackData = {}
    /\ sndEXPCount = 1 /\ sndStatus = "connected"
    /\ rcvUnit = {[pos |-> 0, block |-> 0]} /\ rcvStartPos = 0 /\ rcvLastAckPos = 1
    /\ rcvLastAck = 1 /\ rcvLastAckAck = 1 /\ rcvCurrSeqNo = 0
    /\ rcvLossList = {} /\ ackSeqNo = 1 /\ ackWindow = {}
    /\ pktArrived = FALSE
    /\ rcvEXPCount = 1 /\ rcvStatus = "connected"
    /\ delivered = << >>
    /\ dataNet = {} /\ ackNet = {} /\ liteNet = {} /\ nakNet = {}
    /\ ack2Net = {} /\ keepNet = {} /\ lost = 0

MidwaySpec == MidwayInit /\ [][Next]_vars /\ Fairness
=============================================================================
