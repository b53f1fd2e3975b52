---------------------------- MODULE UdtStructures ----------------------------
(***************************************************************************)
(* The data structures under CUDT side by side, for model checking: which  *)
(* of them a behaviour exercises is chosen at its start, and the others    *)
(* stay as they are created.  Each is driven by the calls its module       *)
(* names, so the reachable states are those of the modules together.       *)
(***************************************************************************)
EXTENDS UdtSndLossList, UdtRcvLossList, UdtSndBuffer, UdtRcvBuffer, UdtMessages,
        UdtSndQueue, UdtRcvQueue, UdtHandshake, UdtTransfer, TLC

VARIABLE exercised      \* the structure this behaviour exercises

structures ==
    <<sndListVars, rcvListVars, sndBufVars, rcvBufferVars, msgVars, sndQueueVars, rcvQueueVars,
      handshakeVars, vars, exercised>>

Structures ==
    {"send loss list", "receive loss list", "send buffer", "receive buffer", "messages",
     "send queue", "receive queue", "handshake", "windows"}

StructuresInit ==
    /\ exercised \in Structures
    /\ SndLossInit /\ RcvLossInit /\ SndBufInit /\ RcvBufInit /\ MsgInit
    /\ SndQueueInit /\ RcvQueueInit /\ HandshakeInit /\ Init
    /\ exercised # "handshake" => mode = CHOOSE m \in HsModes : TRUE

KeepLossLists == UNCHANGED <<sndListVars, rcvListVars>>
KeepBuffers == UNCHANGED <<sndBufVars, rcvBufferVars, msgVars>>
KeepQueues == UNCHANGED <<sndQueueVars, rcvQueueVars>>
KeepConnection == UNCHANGED <<handshakeVars, vars>>

StructuresNext ==
    /\ UNCHANGED exercised
    /\ \/ /\ exercised = "send loss list" /\ SndLossNext
          /\ UNCHANGED rcvListVars /\ KeepBuffers /\ KeepQueues /\ KeepConnection
       \/ /\ exercised = "receive loss list" /\ RcvLossNext
          /\ UNCHANGED sndListVars /\ KeepBuffers /\ KeepQueues /\ KeepConnection
       \/ /\ exercised = "send buffer" /\ SndBufNext
          /\ UNCHANGED <<rcvBufferVars, msgVars>> /\ KeepLossLists /\ KeepQueues /\ KeepConnection
       \/ /\ exercised = "receive buffer" /\ RcvBufNext
          /\ UNCHANGED <<sndBufVars, msgVars>> /\ KeepLossLists /\ KeepQueues /\ KeepConnection
       \/ /\ exercised = "messages" /\ MsgNext
          /\ UNCHANGED <<sndBufVars, rcvBufferVars>> /\ KeepLossLists /\ KeepQueues /\ KeepConnection
       \/ /\ exercised = "send queue" /\ SndQueueNext
          /\ UNCHANGED rcvQueueVars /\ KeepLossLists /\ KeepBuffers /\ KeepConnection
       \/ /\ exercised = "receive queue" /\ RcvQueueNext
          /\ UNCHANGED sndQueueVars /\ KeepLossLists /\ KeepBuffers /\ KeepConnection
       \/ /\ exercised = "handshake" /\ HandshakeNext
          /\ UNCHANGED vars /\ KeepLossLists /\ KeepBuffers /\ KeepQueues
       \/ /\ exercised = "windows" /\ Next
          /\ UNCHANGED handshakeVars /\ KeepLossLists /\ KeepBuffers /\ KeepQueues

StructuresSpec == StructuresInit /\ [][StructuresNext]_structures

\* The sockets of the send queue are told apart by nothing but their names.
SenderSymmetry == Permutations(Senders)
=============================================================================
