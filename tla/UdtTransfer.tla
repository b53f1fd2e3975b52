---------------------------- MODULE UdtTransfer ----------------------------
(***************************************************************************)
(* One direction of a UDT stream connection (CUDT in UDT4/src/core.cpp):   *)
(* the data path from send() at one end to recv() at the other, with the   *)
(* four control packets that keep it reliable (ACK, light ACK, ACK2, NAK), *)
(* keep-alives and the timers.                                             *)
(*                                                                         *)
(* The sender runs three threads: the application (Send), the sending      *)
(* queue's worker (packData, entered through CSndUList::pop) and the       *)
(* receiving queue's worker (processCtrl, checkTimers).  They share the    *)
(* window, the loss list and the buffer, under m_AckLock or under no lock. *)
(* packData and the ACK handler are therefore split where another thread   *)
(* can come between; every other handler is one action.                    *)
(*                                                                         *)
(* Sequence numbers count from m_iISN, without bound: CSeqNo's comparisons *)
(* and offsets on 31 bits are taken for those of the integers, as they are *)
(* for numbers less than m_iSeqNoTH apart.  The k-th block the application *)
(* writes is the number k, so a packet carries the block it was read from. *)
(***************************************************************************)
EXTENDS Integers, Sequences, FiniteSets

CONSTANTS
    MaxBlocks,      \* bound: blocks the application writes
    MaxAckNo,       \* bound: full ACKs the receiver numbers
    MaxLost,        \* bound: packets the network drops (when it does not duplicate)
    SndBufSize,     \* m_iSndBufSize
    RcvBufSize,     \* m_iRcvBufSize, the size of CRcvBuffer
    FlightFlagSize, \* the flow window the handshake agrees on
    CongWnd,        \* m_dCongestionWindow, set by the application's CCC class
    AckWindowSize,  \* size of CACKWindow
    ExpLimit,       \* expirations before a silent peer is given up (16)
    Duplicating,    \* the network keeps what it delivered and may deliver it again
    Patient         \* timers outlast the packets in flight (for liveness only)

ASSUME ConstantsAssumption ==
    /\ MaxBlocks \in Nat /\ MaxAckNo \in Nat /\ MaxLost \in Nat
    /\ SndBufSize \in Nat /\ RcvBufSize \in Nat \ {0} /\ FlightFlagSize \in Nat
    /\ CongWnd \in Nat /\ AckWindowSize \in Nat \ {0} /\ ExpLimit \in Nat
    /\ Duplicating \in BOOLEAN /\ Patient \in BOOLEAN

VARIABLES
    (* sender: CSndBuffer *)
    sndLast,         \* blocks written by the application (m_pLastBlock)
    sndFirst,        \* the oldest block kept (m_pFirstBlock)
    sndCurrBlock,    \* the next block never sent (m_pCurrBlock)
    (* sender: CUDT *)
    sndCurrSeqNo, sndLastAck, sndLastDataAck, sndLastAck2, flowWindow,
    sndLossList,     \* what CSndLossList contains
    onSndUList,      \* the socket is in the sending queue's CSndUList
    packPC,          \* where packData stands: "idle", "lost" or "new"
    packArg,         \* the number it took from the loss list, or the window it read
    ackData,         \* {a}: ACK a has moved sndLastAck and not entered m_AckLock yet
    sndEXPCount,
    sndStatus,       \* m_bBroken: "connected", "timeout" or "attackOrBug"
    (* receiver: CRcvBuffer and CUDT *)
    rcvUnit,         \* the units held: set of [pos, block]
    rcvStartPos, rcvLastAckPos,
    rcvLastAck, rcvLastAckAck, rcvCurrSeqNo,
    rcvLossList,     \* what CRcvLossList contains
    ackSeqNo,        \* m_iAckSeqNo
    ackWindow,       \* what CACKWindow holds: set of [ackNo, ack]
    pktArrived,      \* packets counted (m_iPktCount) since the last ACK of any kind
    rcvEXPCount, rcvStatus,
    delivered,       \* history: the blocks recv() has returned, in order
    (* the network *)
    dataNet, ackNet, liteNet, nakNet, ack2Net, keepNet, lost

bufVars   == <<sndLast, sndFirst, sndCurrBlock>>
sndAckVars == <<sndLastAck, sndLastDataAck, sndLastAck2, flowWindow>>
packVars  == <<packPC, packArg>>
sndVars   == <<bufVars, sndCurrSeqNo, sndAckVars, sndLossList, onSndUList,
               packVars, ackData, sndEXPCount, sndStatus>>
rcvBufVars == <<rcvUnit, rcvStartPos, rcvLastAckPos>>
rcvAckVars == <<rcvLastAck, rcvLastAckAck, ackSeqNo, ackWindow>>
rcvVars   == <<rcvBufVars, rcvAckVars, rcvCurrSeqNo, rcvLossList, pktArrived,
               rcvEXPCount, rcvStatus, delivered>>
netVars   == <<dataNet, ackNet, liteNet, nakNet, ack2Net, keepNet, lost>>
vars      == <<sndVars, rcvVars, netVars>>

Ends == {"snd", "rcv"}
NoBlock == -1

Init ==
    /\ sndLast = 0 /\ sndFirst = 0 /\ sndCurrBlock = 0
    /\ sndCurrSeqNo = -1
    /\ sndLastAck = 0 /\ sndLastDataAck = 0 /\ sndLastAck2 = 0
    /\ flowWindow = FlightFlagSize
    /\ sndLossList = {} /\ onSndUList = FALSE
    /\ packPC = "idle" /\ packArg = 0 /\ ackData = {}
    /\ sndEXPCount = 1 /\ sndStatus = "connected"
    /\ rcvUnit = {} /\ rcvStartPos = 0 /\ rcvLastAckPos = 0
    /\ rcvLastAck = 0 /\ rcvLastAckAck = 0 /\ rcvCurrSeqNo = -1
    /\ rcvLossList = {} /\ ackSeqNo = 0 /\ ackWindow = {}
    /\ pktArrived = FALSE
    /\ rcvEXPCount = 1 /\ rcvStatus = "connected"
    /\ delivered = << >>
    /\ dataNet = {} /\ ackNet = {} /\ liteNet = {} /\ nakNet = {}
    /\ ack2Net = {} /\ keepNet = {} /\ lost = 0

-----------------------------------------------------------------------------
(* The network: what is sent stays in flight until it is delivered or lost. *)

Left(net, m) == IF Duplicating THEN net ELSE net \ {m}

InFlight == dataNet # {} \/ ackNet # {} \/ liteNet # {} \/ nakNet # {}
              \/ ack2Net # {} \/ keepNet # {}

\* Under Patient a retry timer is longer than what it waits for.
TimerMayExpire == Patient => ~InFlight

Lose ==
    /\ lost < MaxLost
    /\ \/ \E m \in dataNet : dataNet' = dataNet \ {m} /\ UNCHANGED <<ackNet, liteNet, nakNet, ack2Net, keepNet>>
       \/ \E m \in ackNet  : ackNet'  = ackNet \ {m}  /\ UNCHANGED <<dataNet, liteNet, nakNet, ack2Net, keepNet>>
       \/ \E m \in liteNet : liteNet' = liteNet \ {m} /\ UNCHANGED <<dataNet, ackNet, nakNet, ack2Net, keepNet>>
       \/ \E m \in nakNet  : nakNet'  = nakNet \ {m}  /\ UNCHANGED <<dataNet, ackNet, liteNet, ack2Net, keepNet>>
       \/ \E m \in ack2Net : ack2Net' = ack2Net \ {m} /\ UNCHANGED <<dataNet, ackNet, liteNet, nakNet, keepNet>>
       \/ \E m \in keepNet : keepNet' = keepNet \ {m} /\ UNCHANGED <<dataNet, ackNet, liteNet, nakNet, ack2Net>>
    /\ lost' = lost + 1
    /\ UNCHANGED <<sndVars, rcvVars>>

-----------------------------------------------------------------------------
(* Sender, application thread: send().                                     *)

CurrBufSize == sndLast - sndFirst

Send(n) ==
    /\ sndStatus = "connected"
    /\ n <= SndBufSize - CurrBufSize
    /\ sndLast + n <= MaxBlocks
    /\ sndLast' = sndLast + n
    /\ onSndUList' = TRUE
    /\ UNCHANGED <<sndFirst, sndCurrBlock, sndCurrSeqNo, sndAckVars, sndLossList,
                   packVars, ackData, sndEXPCount, sndStatus, rcvVars, netVars>>

-----------------------------------------------------------------------------
(* Sender, sending worker: CSndUList::pop calling packData.  pop holds     *)
(* m_ListLock to its end, so an update() that meets it comes after it and  *)
(* leaves the socket on the list: setting onSndUList at once is the same.  *)

\* min(m_iFlowWindowSize, m_dCongestionWindow), read before m_iSndLastAck is.
Cwnd == IF flowWindow < CongWnd THEN flowWindow ELSE CongWnd

\* pop() takes the socket off the list; packData takes the first lost number,
\* or finds none and reads the window.
PackPop ==
    /\ onSndUList /\ packPC = "idle"
    /\ onSndUList' = FALSE
    /\ IF sndStatus # "connected" THEN UNCHANGED <<packVars, sndLossList>>
       ELSE IF sndLossList = {}
            THEN packPC' = "new" /\ packArg' = Cwnd /\ UNCHANGED sndLossList
            ELSE \E s \in sndLossList :
                    /\ \A t \in sndLossList : s <= t
                    /\ packPC' = "lost" /\ packArg' = s
                    /\ sndLossList' = sndLossList \ {s}
    /\ UNCHANGED <<bufVars, sndCurrSeqNo, sndAckVars, ackData, sndEXPCount,
                   sndStatus, rcvVars, netVars>>

\* Mutants, each a bug the properties must expose: the block just acknowledged
\* or the first one kept is confused with the other.
NeverNoLongerSent(offset) == FALSE
FirstNoLongerSent(offset) == offset <= 0

\* A number acknowledged since it was taken from the loss list is not sent.
NoLongerSent(offset) == offset < 0

\* CSndBuffer::readData(offset): that many blocks after the first one kept.
ReadData(offset) == sndFirst + (IF offset > 0 THEN offset ELSE 0)

\* Under m_AckLock: the block at the number's distance from the first block kept.
PackRetransmit ==
    /\ packPC = "lost"
    /\ LET offset == packArg - sndLastDataAck
       IN IF NoLongerSent(offset)
          THEN UNCHANGED <<dataNet, onSndUList>>
          ELSE /\ dataNet' = dataNet \cup {[seq |-> packArg, block |-> ReadData(offset)]}
               /\ onSndUList' = TRUE
    /\ packPC' = "idle" /\ packArg' = 0
    /\ UNCHANGED <<bufVars, sndCurrSeqNo, sndAckVars, sndLossList, ackData, sndEXPCount,
                   sndStatus, rcvVars, ackNet, liteNet, nakNet, ack2Net, keepNet, lost>>

\* seqlen(m_iSndLastAck, incseq(m_iSndCurrSeqNo)) against the window read before.
PackNew ==
    /\ packPC = "new"
    /\ IF packArg >= sndCurrSeqNo + 1 - sndLastAck + 1 /\ sndCurrBlock # sndLast
       THEN /\ sndCurrBlock' = sndCurrBlock + 1
            /\ sndCurrSeqNo' = sndCurrSeqNo + 1
            /\ dataNet' = dataNet \cup {[seq |-> sndCurrSeqNo + 1, block |-> sndCurrBlock]}
            /\ onSndUList' = TRUE
       ELSE UNCHANGED <<sndCurrBlock, sndCurrSeqNo, dataNet, onSndUList>>
    /\ packPC' = "idle" /\ packArg' = 0
    /\ UNCHANGED <<sndLast, sndFirst, sndAckVars, sndLossList, ackData, sndEXPCount,
                   sndStatus, rcvVars, ackNet, liteNet, nakNet, ack2Net, keepNet, lost>>

-----------------------------------------------------------------------------
(* Sender, receiving worker: processCtrl and checkTimers.  One thread runs *)
(* them, so none starts while an ACK is between its two halves.            *)

SenderHandles == sndStatus = "connected" /\ ackData = {}

\* Mutants: any ACK counts as new; a light ACK leaves the window size alone.
EveryAckIsNew(ack) == TRUE
WindowKept(ack) == flowWindow

\* An ACK that is not older than what is acknowledged already.
IsNewAck(ack) == ack >= sndLastAck

\* A light ACK carries no window: what it acknowledges is taken off.
WindowAfterLiteAck(ack) == flowWindow - (ack - sndLastAck)

RecvLiteAck(ack) ==
    /\ SenderHandles
    /\ liteNet' = Left(liteNet, ack)
    /\ sndEXPCount' = 1
    /\ IF IsNewAck(ack)
       THEN /\ flowWindow' = WindowAfterLiteAck(ack)
            /\ sndLastAck' = ack
       ELSE UNCHANGED <<flowWindow, sndLastAck>>
    /\ UNCHANGED <<bufVars, sndCurrSeqNo, sndLastDataAck, sndLastAck2, sndLossList,
                   onSndUList, packVars, ackData, sndStatus, rcvVars,
                   dataNet, ackNet, nakNet, ack2Net, keepNet, lost>>

\* Mutant: the ACK of everything sent is refused.
AckIsBehind(ack) == ack <= sndCurrSeqNo

\* An ACK for what was never sent is taken for an attack or a bug.
AckIsValid(ack) == ack <= sndCurrSeqNo + 1

\* First half: ACK2 (at most one per SYN interval, or for a repeated ACK), the
\* validity check, the window and m_iSndLastAck.  syn: the interval has passed.
RecvAck(m, syn) ==
    /\ SenderHandles
    /\ ackNet' = Left(ackNet, m)
    /\ sndEXPCount' = 1
    /\ IF syn \/ m.ackNo = sndLastAck2
       THEN ack2Net' = ack2Net \cup {m.ackNo} /\ sndLastAck2' = m.ackNo
       ELSE UNCHANGED <<ack2Net, sndLastAck2>>
    /\ IF AckIsValid(m.ack)
       THEN /\ ackData' = {m.ack}
            /\ UNCHANGED sndStatus
            /\ IF IsNewAck(m.ack)
               THEN flowWindow' = m.wnd /\ sndLastAck' = m.ack
               ELSE UNCHANGED <<flowWindow, sndLastAck>>
       ELSE /\ sndStatus' = "attackOrBug"
            /\ UNCHANGED <<ackData, flowWindow, sndLastAck>>
    /\ UNCHANGED <<bufVars, sndCurrSeqNo, sndLastDataAck, sndLossList, onSndUList,
                   packVars, rcvVars, dataNet, liteNet, nakNet, keepNet, lost>>

\* Second half, under m_AckLock: release the blocks, forget their losses, and
\* put the socket back on the sending list; an old ACK does nothing.
RecvAckLocked ==
    /\ \E ack \in ackData :
         IF ack <= sndLastDataAck
         THEN UNCHANGED <<sndFirst, sndLastDataAck, sndLossList, onSndUList>>
         ELSE /\ sndFirst' = sndFirst + (ack - sndLastDataAck)
              /\ sndLastDataAck' = ack
              /\ sndLossList' = {s \in sndLossList : s > ack - 1}
              /\ onSndUList' = TRUE
    /\ ackData' = {}
    /\ UNCHANGED <<sndLast, sndCurrBlock, sndCurrSeqNo, sndLastAck, sndLastAck2, flowWindow,
                   packVars, sndEXPCount, sndStatus, rcvVars, netVars>>

\* The reported numbers from m_iSndLastAck on join the loss list and the socket
\* goes (back) on the sending list; a report of what was never sent is an attack.
RecvNak(nak) ==
    /\ SenderHandles
    /\ nakNet' = Left(nakNet, nak)
    /\ sndEXPCount' = 1
    /\ sndLossList' = sndLossList \cup {s \in nak : sndLastAck <= s /\ s <= sndCurrSeqNo}
    /\ IF \A s \in nak : s <= sndCurrSeqNo
       THEN onSndUList' = TRUE /\ UNCHANGED sndStatus
       ELSE sndStatus' = "attackOrBug" /\ UNCHANGED onSndUList
    /\ UNCHANGED <<bufVars, sndCurrSeqNo, sndAckVars, packVars, ackData, rcvVars,
                   dataNet, ackNet, liteNet, ack2Net, keepNet, lost>>

SndRecvKeepAlive ==
    /\ SenderHandles
    /\ "rcv" \in keepNet
    /\ keepNet' = Left(keepNet, "rcv")
    /\ sndEXPCount' = 1
    /\ UNCHANGED <<bufVars, sndCurrSeqNo, sndAckVars, sndLossList, onSndUList, packVars,
                   ackData, sndStatus, rcvVars, dataNet, ackNet, liteNet, nakNet, ack2Net, lost>>

\* The EXP timer: give up, or send again all that is not acknowledged, or say
\* that this end is alive; restart sending if the buffer holds anything.
SndExpTimer ==
    /\ SenderHandles /\ TimerMayExpire
    /\ IF sndEXPCount > ExpLimit
       THEN /\ sndStatus' = "timeout" /\ onSndUList' = TRUE
            /\ UNCHANGED <<sndEXPCount, sndLossList, keepNet>>
       ELSE /\ sndEXPCount' = sndEXPCount + 1
            /\ onSndUList' = (onSndUList \/ CurrBufSize > 0)
            /\ IF sndCurrSeqNo + 1 # sndLastAck
               THEN sndLossList' = sndLossList \cup (sndLastAck .. sndCurrSeqNo) /\ UNCHANGED keepNet
               ELSE keepNet' = keepNet \cup {"snd"} /\ UNCHANGED sndLossList
            /\ UNCHANGED sndStatus
    /\ UNCHANGED <<bufVars, sndCurrSeqNo, sndAckVars, packVars, ackData, rcvVars,
                   dataNet, ackNet, liteNet, nakNet, ack2Net, lost>>

-----------------------------------------------------------------------------
(* Receiver, receiving worker.                                             *)

ReceiverHandles == rcvStatus = "connected"

\* One slot of the ring stays empty, to tell an empty buffer from a full one.
AvailBufSize == RcvBufSize - (rcvLastAckPos - rcvStartPos) - 1

Held(pos) == \E u \in rcvUnit : u.pos = pos

\* Mutants: the first missing number is skipped; no gap is noticed.
MissingAfterFirst(seq) == (rcvCurrSeqNo + 2) .. (seq - 1)
NothingMissing(seq) == {}

\* The numbers a packet ahead of the expected one shows to be missing.
MissingBefore(seq) == (rcvCurrSeqNo + 1) .. (seq - 1)

\* processData: drop what is out of the window or held already; otherwise hold
\* it and, when it is ahead, note and report what is missing before it.
RecvData(m) ==
    /\ ReceiverHandles
    /\ dataNet' = Left(dataNet, m)
    /\ rcvEXPCount' = 1
    /\ pktArrived' = TRUE
    /\ LET offset == m.seq - rcvLastAck
           pos    == rcvLastAckPos + offset
       IN IF offset < 0 \/ offset >= AvailBufSize \/ Held(pos)
          THEN UNCHANGED <<rcvUnit, rcvCurrSeqNo, rcvLossList, nakNet>>
          ELSE /\ rcvUnit' = rcvUnit \cup {[pos |-> pos, block |-> m.block]}
               /\ IF m.seq > rcvCurrSeqNo
                  THEN /\ rcvCurrSeqNo' = m.seq
                       /\ rcvLossList' = rcvLossList \cup MissingBefore(m.seq)
                       /\ nakNet' = nakNet \cup ({MissingBefore(m.seq)} \ {{}})
                  ELSE /\ rcvLossList' = rcvLossList \ {m.seq}
                       /\ UNCHANGED <<rcvCurrSeqNo, nakNet>>
    /\ UNCHANGED <<sndVars, rcvStartPos, rcvLastAckPos, rcvAckVars, rcvStatus, delivered,
                   ackNet, liteNet, ack2Net, keepNet, lost>>

\* Mutant: losses are ignored.
AckIgnoringLosses == {rcvCurrSeqNo + 1}

\* The number to acknowledge (a set of one): the first lost, or the next expected.
AckNumber == {a \in rcvLossList \cup {rcvCurrSeqNo + 1} : \A l \in rcvLossList : a <= l}

\* Mutant: a full buffer closes the window.
WindowWithoutMinimum(avail) == avail

\* "a minimum flow window of 2 is used, even if buffer is full"
AdvertisedWindow(avail) == IF avail < 2 THEN 2 ELSE avail

\* CACKWindow::store: the ring keeps the newest m_iSize - 1 ACKs.
Stored(no, ack) == {e \in ackWindow \cup {[ackNo |-> no, ack |-> ack]} : e.ackNo > no - (AckWindowSize - 1)}

\* sendCtrl(2), ACK `ack' numbered and sent unless the sender is known to have it.
SendAck(ack, avail) ==
    IF ack > rcvLastAckAck
    THEN /\ ackSeqNo < MaxAckNo
         /\ ackSeqNo' = ackSeqNo + 1
         /\ ackNet' = ackNet \cup {[ackNo |-> ackSeqNo + 1, ack |-> ack, wnd |-> AdvertisedWindow(avail)]}
         /\ ackWindow' = Stored(ackSeqNo + 1, ack)
    ELSE UNCHANGED <<ackSeqNo, ackNet, ackWindow>>

\* The ACK timer: make what arrived readable and acknowledge it, or repeat an
\* ACK that the sender has not confirmed within the round trip time.
AckTimer ==
    /\ ReceiverHandles
    /\ \E ack \in AckNumber :
         /\ ack # rcvLastAckAck
         /\ \/ /\ ack > rcvLastAck
               /\ rcvLastAck' = ack
               /\ rcvLastAckPos' = rcvLastAckPos + (ack - rcvLastAck)
               /\ SendAck(ack, AvailBufSize - (ack - rcvLastAck))
            \/ /\ ack = rcvLastAck /\ TimerMayExpire
               /\ SendAck(ack, AvailBufSize)
               /\ UNCHANGED <<rcvLastAck, rcvLastAckPos>>
    /\ pktArrived' = FALSE
    /\ UNCHANGED <<sndVars, rcvUnit, rcvStartPos, rcvLastAckAck, rcvCurrSeqNo, rcvLossList,
                   rcvEXPCount, rcvStatus, delivered, dataNet, liteNet, nakNet, ack2Net, keepNet, lost>>

\* Enough packets since the last ACK: send the number only, and count again.
LiteAck ==
    /\ ReceiverHandles /\ pktArrived
    /\ pktArrived' = FALSE
    /\ \E ack \in AckNumber : liteNet' = IF ack # rcvLastAckAck THEN liteNet \cup {ack} ELSE liteNet
    /\ UNCHANGED <<sndVars, rcvBufVars, rcvAckVars, rcvCurrSeqNo, rcvLossList, rcvEXPCount, rcvStatus, delivered,
                   dataNet, ackNet, nakNet, ack2Net, keepNet, lost>>

\* Periodic report: the losses whose last report is old enough.
NakTimer ==
    /\ ReceiverHandles /\ TimerMayExpire
    /\ \E nak \in (SUBSET rcvLossList) \ {{}} : nakNet' = nakNet \cup {nak}
    /\ UNCHANGED <<sndVars, rcvVars, dataNet, ackNet, liteNet, ack2Net, keepNet, lost>>

\* ACK2: forget that ACK and the older ones; unless no time has passed since it
\* was sent (rtt = 0), the sender is known to have it.
RecvAck2(no, rtt) ==
    /\ ReceiverHandles
    /\ ack2Net' = Left(ack2Net, no)
    /\ rcvEXPCount' = 1
    /\ IF \E e \in ackWindow : e.ackNo = no
       THEN /\ ackWindow' = {e \in ackWindow : e.ackNo > no}
            /\ \E e \in ackWindow :
                 /\ e.ackNo = no
                 /\ rcvLastAckAck' = IF rtt > 0 /\ e.ack > rcvLastAckAck THEN e.ack ELSE rcvLastAckAck
       ELSE UNCHANGED <<ackWindow, rcvLastAckAck>>
    /\ UNCHANGED <<sndVars, rcvBufVars, rcvLastAck, ackSeqNo, rcvCurrSeqNo, rcvLossList, pktArrived,
                   rcvStatus, delivered, dataNet, ackNet, liteNet, nakNet, keepNet, lost>>

RcvRecvKeepAlive ==
    /\ ReceiverHandles
    /\ "snd" \in keepNet
    /\ keepNet' = Left(keepNet, "snd")
    /\ rcvEXPCount' = 1
    /\ UNCHANGED <<sndVars, rcvBufVars, rcvAckVars, rcvCurrSeqNo, rcvLossList, pktArrived, rcvStatus,
                   delivered, dataNet, ackNet, liteNet, nakNet, ack2Net, lost>>

\* The receiving end has nothing of its own in flight: it gives up or says it is alive.
RcvExpTimer ==
    /\ ReceiverHandles /\ TimerMayExpire
    /\ IF rcvEXPCount > ExpLimit
       THEN rcvStatus' = "timeout" /\ UNCHANGED <<rcvEXPCount, keepNet>>
       ELSE /\ rcvEXPCount' = rcvEXPCount + 1
            /\ keepNet' = keepNet \cup {"rcv"}
            /\ UNCHANGED rcvStatus
    /\ UNCHANGED <<sndVars, rcvBufVars, rcvAckVars, rcvCurrSeqNo, rcvLossList, pktArrived, delivered,
                   dataNet, ackNet, liteNet, nakNet, ack2Net, lost>>

\* The block held at pos; NoBlock stands for the NULL unit readBuffer would follow.
BlockAt(pos) == IF Held(pos) THEN (CHOOSE u \in rcvUnit : u.pos = pos).block ELSE NoBlock

\* Receiver, application thread: recv() returns the next k acknowledged blocks,
\* also after the connection broke.
Recv(k) ==
    /\ k <= rcvLastAckPos - rcvStartPos
    /\ delivered' = [i \in 1 .. rcvStartPos + k |->
                       IF i <= rcvStartPos THEN delivered[i]
                       ELSE BlockAt(i - 1)]
    /\ rcvUnit' = {u \in rcvUnit : u.pos >= rcvStartPos + k}
    /\ rcvStartPos' = rcvStartPos + k
    /\ UNCHANGED <<sndVars, rcvLastAckPos, rcvAckVars, rcvCurrSeqNo, rcvLossList, pktArrived,
                   rcvEXPCount, rcvStatus, netVars>>

-----------------------------------------------------------------------------
RecvAckAny  == \E m \in ackNet : \E syn \in (IF Patient THEN {TRUE} ELSE BOOLEAN) : RecvAck(m, syn)
RecvAck2Any == \E no \in ack2Net : \E rtt \in (IF Patient THEN {1} ELSE {0, 1}) : RecvAck2(no, rtt)

Next ==
    \/ \E n \in 1 .. SndBufSize : Send(n)
    \/ PackPop \/ PackRetransmit \/ PackNew
    \/ \E ack \in liteNet : RecvLiteAck(ack)
    \/ RecvAckAny \/ RecvAckLocked
    \/ \E nak \in nakNet : RecvNak(nak)
    \/ SndRecvKeepAlive \/ SndExpTimer
    \/ \E m \in dataNet : RecvData(m)
    \/ AckTimer \/ LiteAck \/ NakTimer
    \/ RecvAck2Any
    \/ RcvRecvKeepAlive \/ RcvExpTimer
    \/ \E k \in 1 .. RcvBufSize : Recv(k)
    \/ Lose

Spec == Init /\ [][Next]_vars

\* The workers run as long as their process does, a timer that may expire
\* expires, the receiving application keeps calling recv().
Fairness ==
    /\ WF_vars(PackPop) /\ WF_vars(PackRetransmit) /\ WF_vars(PackNew)
    /\ WF_vars(\E ack \in liteNet : RecvLiteAck(ack))
    /\ WF_vars(RecvAckAny) /\ WF_vars(RecvAckLocked)
    /\ WF_vars(\E nak \in nakNet : RecvNak(nak))
    /\ WF_vars(SndRecvKeepAlive) /\ WF_vars(SndExpTimer)
    /\ WF_vars(\E m \in dataNet : RecvData(m))
    /\ SF_vars(AckTimer) /\ WF_vars(RecvAck2Any)
    /\ WF_vars(RcvRecvKeepAlive) /\ WF_vars(RcvExpTimer)
    /\ WF_vars(\E k \in 1 .. RcvBufSize : Recv(k))

FairSpec == Spec /\ Fairness

-----------------------------------------------------------------------------
(* Properties                                                              *)

Blocks == 0 .. MaxBlocks - 1
Numbers == -1 .. MaxBlocks - 1

SndTypeOK ==
    /\ sndLast \in 0 .. MaxBlocks /\ sndFirst \in 0 .. MaxBlocks /\ sndCurrBlock \in 0 .. MaxBlocks
    /\ sndCurrSeqNo \in Numbers /\ sndLastAck \in 0 .. MaxBlocks /\ sndLastDataAck \in 0 .. MaxBlocks
    /\ sndLastAck2 \in 0 .. MaxAckNo /\ flowWindow \in Int
    /\ sndLossList \subseteq Blocks /\ onSndUList \in BOOLEAN
    /\ packPC \in {"idle", "lost", "new"} /\ packArg \in Int
    /\ ackData \subseteq 0 .. MaxBlocks
    /\ sndEXPCount \in 1 .. ExpLimit + 1
    /\ sndStatus \in {"connected", "timeout", "attackOrBug"}

RcvTypeOK ==
    /\ rcvUnit \subseteq [pos : Blocks, block : Blocks]
    /\ rcvStartPos \in 0 .. MaxBlocks /\ rcvLastAckPos \in 0 .. MaxBlocks
    /\ rcvLastAck \in 0 .. MaxBlocks /\ rcvLastAckAck \in 0 .. MaxBlocks
    /\ rcvCurrSeqNo \in Numbers /\ rcvLossList \subseteq Blocks
    /\ ackSeqNo \in 0 .. MaxAckNo
    /\ ackWindow \subseteq [ackNo : 1 .. MaxAckNo, ack : 0 .. MaxBlocks]
    /\ pktArrived \in BOOLEAN
    /\ rcvEXPCount \in 1 .. ExpLimit + 1
    /\ rcvStatus \in {"connected", "timeout"}
    /\ delivered \in Seq(Int)

NetTypeOK ==
    /\ dataNet \subseteq [seq : Blocks, block : Blocks]
    /\ ackNet \subseteq [ackNo : 1 .. MaxAckNo, ack : 0 .. MaxBlocks, wnd : Int]
    /\ liteNet \subseteq 0 .. MaxBlocks /\ nakNet \subseteq SUBSET Blocks
    /\ ack2Net \subseteq 1 .. MaxAckNo /\ keepNet \subseteq Ends /\ lost \in 0 .. MaxLost

\* The variables keep their types.
TypeOK == SndTypeOK /\ RcvTypeOK /\ NetTypeOK

\* recv() returns the blocks in the order they were written, each once, and
\* never follows an empty slot: retransmissions read by offset from a buffer
\* whose front moves, placed by offset into a ring whose front moves.
StreamIntegrity == delivered = [i \in 1 .. rcvStartPos |-> i - 1]

\* Every slot that recv() may read is filled (readBuffer follows m_pUnit[p]
\* without a check): the ACK number never passes a block that is missing.
NoHole == \A pos \in rcvStartPos .. rcvLastAckPos - 1 : Held(pos)

\* A block the sender has released is with the receiving application or in the
\* part of the receiver's buffer it can read: none is lost by an early ACK.
ReleasedIsReceived ==
    \A b \in 0 .. sndFirst - 1 :
        b < rcvStartPos \/ \E u \in rcvUnit : u.pos = b /\ u.block = b /\ b < rcvLastAckPos

\* The receiver's loss list is exactly what is missing up to the largest number
\* received: a missing number that is not listed would be acknowledged, a listed
\* one that is held would block acknowledgements for ever.
LossListExact ==
    rcvLossList = {s \in rcvLastAck .. rcvCurrSeqNo : ~Held(rcvLastAckPos + (s - rcvLastAck))}

\* The branches marked "this should not happen: attack or bug" are not reached by
\* two correct ends over a network that loses, repeats and reorders.
NoFalseAlarm == sndStatus # "attackOrBug"

\* A packet carries the block of its number, however the ACKs that release blocks
\* fall between the choice of a lost number and the reading of its block.
PacketCarriesItsBlock == \A m \in dataNet : m.block = m.seq

\* While the sender has a loss to repair, its socket is on the sending list or in
\* the sending worker's hands: packData returns 0 for a number acknowledged in
\* the meantime, and a socket it returns 0 for is not put back.
NoStrandedLoss ==
    sndStatus = "connected" /\ sndLossList # {} => onSndUList \/ packPC # "idle"

\* "after introducing lite ACK, the sndlosslist may not be cleared in time, so it
\* requires twice space": the array of 2 * m_iFlowWindowSize entries has room for
\* every loss from the first block kept.
LossListFits == \A s \in sndLossList : s - sndLastDataAck < 2 * FlightFlagSize

\* Positions that acknowledgements move only move forward, whatever order light
\* ACKs, full ACKs and ACK2s arrive in, and the sender's are never ahead of the
\* receiver's first missing number.
AcksOnlyAdvance ==
    [][/\ sndLastAck' >= sndLastAck /\ sndFirst' >= sndFirst /\ rcvLastAck' >= rcvLastAck
       /\ \A a \in AckNumber' : sndLastAck' <= a /\ sndFirst' <= rcvLastAck']_vars

\* The connection delivers what ReliableStream promises.
Stream == INSTANCE ReliableStream WITH written <- sndLast, delivered <- delivered
StreamSpec == Stream!Spec

\* All that was written is delivered, or an end finds the connection broken, again
\* and again, when the network loses only so much: no combination of lost packets,
\* closed windows and dropped sockets leaves both ends waiting.
EventuallyDelivered ==
    []<>(\/ Len(delivered) = sndLast
         \/ sndStatus # "connected" \/ rcvStatus # "connected")
=============================================================================
