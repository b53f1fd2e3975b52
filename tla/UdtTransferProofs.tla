------------------------- MODULE UdtTransferProofs -------------------------
(***************************************************************************)
(* Proofs, for every size of the buffers and windows, every number of      *)
(* blocks and every fault of the network, of the safety properties of      *)
(* UdtTransfer and of its refinement of ReliableStream.                    *)
(*                                                                         *)
(* None of the properties is inductive.  The inductive invariant IInv adds *)
(* what ties the two ends together: the sender's two acknowledged numbers  *)
(* trail the receiver's (SndInv, Trail), the receiver's numbers and buffer *)
(* agree (RcvInv), and every packet in flight, however old, says something *)
(* that is still true (NetInv).                                            *)
(*                                                                         *)
(* The second part is about CSeqNo (SeqNo), for every largest number: the  *)
(* operations on numbers used around and around agree with counting on,    *)
(* which is why UdtTransfer may count its packets without bound.           *)
(*                                                                         *)
(* The third part proves that the loss lists' arrays (UdtSndLossList and   *)
(* UdtRcvLossList) hold exactly the sets that UdtTransfer has for them.    *)
(* A list is described by the first numbers S of its ranges and their last *)
(* numbers E, in a window of numbers no longer than the ring; each turn of *)
(* each loop of the code is shown to keep such a description.              *)
(***************************************************************************)
EXTENDS UdtTransfer, SeqNo, UdtSndLossList, UdtRcvLossList, FiniteSetTheorems,
        WellFoundedInduction, TLAPS

\* The sender's buffer and its sequence numbers move together.
SndInv ==
    /\ sndFirst = sndLastDataAck
    /\ sndCurrBlock = sndCurrSeqNo + 1
    /\ sndLastDataAck <= sndLastAck
    /\ sndLastAck <= sndCurrSeqNo + 1
    /\ sndCurrBlock <= sndLast
    /\ \A s \in sndLossList : sndLastDataAck <= s /\ s <= sndCurrSeqNo
    /\ packPC = "lost" => 0 <= packArg /\ packArg <= sndCurrSeqNo
    /\ packPC = "lost" => onSndUList \/ packArg >= sndLastDataAck
    /\ packPC = "new" => onSndUList \/ sndLossList = {} \/ sndStatus # "connected"
    /\ \A a \in ackData : a <= sndLastAck

\* The receiver's buffer is in step with its sequence numbers and holds each
\* block at its own position.
RcvInv ==
    /\ rcvLastAckPos = rcvLastAck
    /\ rcvStartPos <= rcvLastAck
    /\ rcvLastAckAck <= rcvLastAck
    /\ rcvLastAck <= rcvCurrSeqNo + 1
    /\ \A u \in rcvUnit : u.block = u.pos /\ rcvStartPos <= u.pos /\ u.pos <= rcvCurrSeqNo

\* A number that nothing missing precedes: what an ACK may say.
Contiguous(a) == a <= rcvCurrSeqNo + 1 /\ \A l \in rcvLossList : a <= l

\* The sender trails the receiver.
Trail ==
    /\ rcvCurrSeqNo <= sndCurrSeqNo
    /\ Contiguous(sndLastAck)
    /\ sndLastDataAck <= rcvLastAck
    /\ \A a \in ackData : a <= rcvLastAck

NetInv ==
    /\ \A m \in dataNet : m.block = m.seq /\ m.seq <= sndCurrSeqNo
    /\ \A m \in ackNet : m.ack <= rcvLastAck
    /\ \A e \in ackWindow : e.ack <= rcvLastAck
    /\ \A a \in liteNet : Contiguous(a)
    /\ \A nak \in nakNet : \A s \in nak : s <= rcvCurrSeqNo

SndGood == SndTypeOK /\ SndInv /\ NoFalseAlarm /\ NoStrandedLoss
RcvGood == RcvTypeOK /\ RcvInv /\ StreamIntegrity /\ NoHole /\ LossListExact
NetGood == NetTypeOK /\ NetInv

IInv == SndGood /\ RcvGood /\ Trail /\ NetGood

-----------------------------------------------------------------------------
(* A step that leaves one end alone leaves that end's part alone.          *)

LEMMA SndUnchanged == ASSUME SndGood, UNCHANGED sndVars PROVE SndGood'
  BY DEF SndGood, SndTypeOK, SndInv, NoFalseAlarm, NoStrandedLoss, Blocks, Numbers,
         sndVars, bufVars, sndAckVars, packVars

LEMMA RcvUnchanged == ASSUME RcvGood, UNCHANGED rcvVars PROVE RcvGood'
  BY DEF RcvGood, RcvTypeOK, RcvInv, StreamIntegrity, NoHole, LossListExact, Held,
         Blocks, Numbers, rcvVars, rcvBufVars, rcvAckVars

LEMMA NetUnchanged ==
    ASSUME NetGood, sndCurrSeqNo' = sndCurrSeqNo, UNCHANGED rcvVars, UNCHANGED netVars
    PROVE  NetGood'
  BY DEF NetGood, NetTypeOK, NetInv, Contiguous, Blocks, Numbers, Ends,
         rcvVars, rcvBufVars, rcvAckVars, netVars
-----------------------------------------------------------------------------
(* Steps of the sender.                                                    *)

LEMMA SendStep ==
    ASSUME IInv, NEW n \in 1 .. SndBufSize, Send(n)
    PROVE  IInv'
<1>1. RcvGood'
  BY RcvUnchanged DEF IInv, Send, CurrBufSize
<1>2. SndGood'
  BY ConstantsAssumption DEF IInv, SndGood, SndTypeOK, SndInv, NoFalseAlarm, NoStrandedLoss, Blocks,
         Numbers, RcvGood, RcvTypeOK, RcvInv, Trail, NetGood, NetTypeOK, NetInv, Contiguous, Blocks,
         Numbers, Send, CurrBufSize, bufVars, sndAckVars, packVars
<1>3. Trail'
  BY DEF IInv, Trail, Contiguous, SndGood, SndTypeOK, SndInv, RcvGood, RcvTypeOK, RcvInv, NetGood,
         NetTypeOK, NetInv, Contiguous, Blocks, Numbers, Blocks, Numbers, Send, CurrBufSize,
         rcvVars, rcvBufVars, rcvAckVars, bufVars, sndAckVars, packVars
<1>4. NetGood'
  BY NetUnchanged DEF IInv, Send, CurrBufSize
<1>. QED  BY <1>1, <1>2, <1>3, <1>4 DEF IInv

LEMMA PackPopStep ==
    ASSUME IInv, PackPop
    PROVE  IInv'
<1>1. RcvGood'
  BY RcvUnchanged DEF IInv, PackPop
<1>2. SndGood'
  <2>. SndGood
    BY DEF IInv
  <2>1. CASE sndStatus # "connected"
    BY <2>1 DEF SndGood, SndTypeOK, SndInv, NoFalseAlarm, NoStrandedLoss, Blocks, Numbers,
                PackPop, bufVars, sndAckVars, packVars
  <2>2. CASE sndStatus = "connected" /\ sndLossList = {}
    <3>1. packPC' = "new" /\ packArg' \in Int /\ sndLossList' = {}
      BY <2>2, ConstantsAssumption DEF SndGood, SndTypeOK, PackPop, Cwnd
    <3>. QED  BY <2>2, <3>1 DEF SndGood, SndTypeOK, SndInv, NoFalseAlarm, NoStrandedLoss,
                   Blocks, Numbers, PackPop, bufVars, sndAckVars, packVars
  <2>3. CASE sndStatus = "connected" /\ sndLossList # {}
    <3>1. PICK s \in sndLossList :
            packPC' = "lost" /\ packArg' = s /\ sndLossList' = sndLossList \ {s}
      BY <2>3 DEF PackPop
    <3>2. s \in Int /\ sndLossList' \subseteq Blocks
      BY <3>1, ConstantsAssumption DEF SndGood, SndTypeOK, Blocks
    <3>3. SndTypeOK' /\ NoFalseAlarm'
      BY <3>1, <3>2, ConstantsAssumption DEF SndGood, SndTypeOK, NoFalseAlarm, Blocks, Numbers,
                  PackPop, bufVars, sndAckVars, packVars
    <3>4. SndInv' /\ NoStrandedLoss'
      BY <3>1 DEF SndGood, SndTypeOK, SndInv, NoStrandedLoss, Blocks, Numbers,
                  PackPop, bufVars, sndAckVars, packVars
    <3>. QED  BY <3>3, <3>4 DEF SndGood
  <2>. QED  BY <2>1, <2>2, <2>3
<1>3. Trail'
  BY DEF IInv, Trail, Contiguous, PackPop, rcvVars, rcvBufVars, rcvAckVars, bufVars, sndAckVars
<1>4. NetGood'
  BY NetUnchanged DEF IInv, PackPop
<1>. QED  BY <1>1, <1>2, <1>3, <1>4 DEF IInv

LEMMA PackRetransmitStep ==
    ASSUME IInv, PackRetransmit
    PROVE  IInv'
<1>1. RcvGood'
  BY RcvUnchanged DEF IInv, PackRetransmit
<1>2. SndGood'
  <2>. SndGood
    BY DEF IInv
  <2>1. packArg >= sndLastDataAck => onSndUList' = TRUE
    BY DEF SndGood, SndTypeOK, PackRetransmit, NoLongerSent
  <2>2. packArg < sndLastDataAck => onSndUList' = onSndUList
    BY DEF SndGood, SndTypeOK, PackRetransmit, NoLongerSent
  <2>3. NoStrandedLoss' /\ onSndUList' \in BOOLEAN
    BY <2>1, <2>2 DEF SndGood, SndTypeOK, SndInv, NoStrandedLoss, PackRetransmit
  <2>4. SndTypeOK' /\ SndInv' /\ NoFalseAlarm'
    BY <2>3 DEF SndGood, SndTypeOK, SndInv, NoFalseAlarm, Numbers, Blocks,
                PackRetransmit, bufVars, sndAckVars
  <2>. QED  BY <2>3, <2>4 DEF SndGood
<1>3. Trail'
  BY DEF IInv, Trail, Contiguous, PackRetransmit, rcvVars, rcvBufVars, rcvAckVars, bufVars, sndAckVars
<1>4. NetGood'
  <2>. SndGood /\ NetGood /\ RcvGood
    BY DEF IInv
  <2>1. CASE packArg < sndLastDataAck
    BY <2>1, NetUnchanged DEF SndGood, SndTypeOK, PackRetransmit, NoLongerSent, netVars
  <2>2. CASE packArg >= sndLastDataAck
    <3>1. packArg \in Blocks /\ packArg <= sndCurrSeqNo
      BY <2>2, ConstantsAssumption DEF SndGood, SndTypeOK, SndInv, Blocks, Numbers, PackRetransmit
    <3>2. ReadData(packArg - sndLastDataAck) = packArg
      BY <2>2 DEF SndGood, SndTypeOK, SndInv, ReadData
    <3>3. ~NoLongerSent(packArg - sndLastDataAck)
      BY <2>2 DEF SndGood, SndTypeOK, NoLongerSent
    <3>4. dataNet' = dataNet \cup {[seq |-> packArg, block |-> packArg]}
      BY <3>2, <3>3 DEF PackRetransmit
    <3>. QED  BY <3>1, <3>4 DEF NetGood, NetTypeOK, NetInv, Contiguous, Blocks, Numbers,
                   PackRetransmit, rcvVars, rcvBufVars, rcvAckVars
  <2>. QED  BY <2>1, <2>2 DEF SndGood, SndTypeOK
<1>. QED  BY <1>1, <1>2, <1>3, <1>4 DEF IInv

LEMMA PackNewStep ==
    ASSUME IInv, PackNew
    PROVE  IInv'
<1>. DEFINE Sends == packArg >= sndCurrSeqNo + 1 - sndLastAck + 1 /\ sndCurrBlock # sndLast
<1>. SndGood /\ NetGood /\ RcvGood /\ Trail
  BY DEF IInv
<1>1. RcvGood'
  BY RcvUnchanged DEF PackNew
<1>2. SndGood'
  <2>1. CASE Sends
    <3>1. sndCurrBlock' = sndCurrBlock + 1 /\ sndCurrSeqNo' = sndCurrSeqNo + 1 /\ onSndUList' = TRUE
      BY <2>1 DEF PackNew
    <3>2. sndCurrBlock < sndLast
      BY <2>1 DEF SndGood, SndTypeOK, SndInv
    <3>. QED  BY <3>1, <3>2, ConstantsAssumption DEF SndGood, SndTypeOK, SndInv, NoFalseAlarm, NoStrandedLoss,
                   Blocks, Numbers, PackNew, sndAckVars
  <2>2. CASE ~Sends
    <3>1. sndCurrBlock' = sndCurrBlock /\ sndCurrSeqNo' = sndCurrSeqNo /\ onSndUList' = onSndUList
      BY <2>2 DEF PackNew
    <3>2. SndTypeOK' /\ NoFalseAlarm'
      BY <3>1, ConstantsAssumption DEF SndGood, SndTypeOK, NoFalseAlarm, Numbers, PackNew, sndAckVars
    <3>3. SndInv' /\ NoStrandedLoss'
      BY <3>1 DEF SndGood, SndTypeOK, SndInv, NoStrandedLoss, PackNew, sndAckVars
    <3>. QED  BY <3>2, <3>3 DEF SndGood
  <2>. QED  BY <2>1, <2>2
<1>3. sndCurrSeqNo <= sndCurrSeqNo' /\ sndCurrSeqNo' \in Numbers
  BY <1>2 DEF SndGood, SndTypeOK, Numbers, PackNew
<1>4. Trail'
  BY <1>3 DEF Trail, Contiguous, PackNew, SndGood, SndTypeOK, RcvGood, RcvTypeOK, Numbers,
              rcvVars, rcvBufVars, rcvAckVars, sndAckVars
<1>5. NetGood'
  <2>1. CASE Sends
    <3>1. sndCurrBlock = sndCurrSeqNo + 1 /\ sndCurrBlock \in Blocks
      BY <2>1, ConstantsAssumption DEF SndGood, SndTypeOK, SndInv, Blocks, Numbers
    <3>2. /\ dataNet' = dataNet \cup {[seq |-> sndCurrBlock, block |-> sndCurrBlock]}
          /\ sndCurrSeqNo' = sndCurrBlock
      BY <2>1, <3>1 DEF PackNew
    <3>. QED  BY <3>1, <3>2 DEF NetGood, NetTypeOK, NetInv, Contiguous, Blocks, Numbers,
                   SndGood, SndTypeOK, PackNew, rcvVars, rcvBufVars, rcvAckVars
  <2>2. CASE ~Sends
    BY <2>2, NetUnchanged DEF PackNew, netVars
  <2>. QED  BY <2>1, <2>2
<1>. QED  BY <1>1, <1>2, <1>4, <1>5 DEF IInv

LEMMA RecvLiteAckStep ==
    ASSUME IInv, NEW ack \in liteNet, RecvLiteAck(ack)
    PROVE  IInv'
<1>. SndGood /\ NetGood /\ RcvGood /\ Trail
  BY DEF IInv
<1>1. RcvGood'
  BY RcvUnchanged DEF RecvLiteAck
<1>2. ack \in 0 .. MaxBlocks /\ Contiguous(ack) /\ ack <= sndCurrSeqNo + 1
  BY DEF NetGood, NetTypeOK, NetInv, Contiguous, Trail, SndGood, SndTypeOK, RcvGood, RcvTypeOK, Numbers
<1>3. \/ /\ sndLastAck' = ack /\ ack >= sndLastAck
         /\ flowWindow' = flowWindow - (ack - sndLastAck)
      \/ sndLastAck' = sndLastAck /\ flowWindow' = flowWindow
  BY DEF RecvLiteAck, IsNewAck, WindowAfterLiteAck
<1>4. SndGood'
  <2>1. SndTypeOK' /\ NoFalseAlarm'
    BY <1>2, <1>3, ConstantsAssumption DEF SndGood, SndTypeOK, NoFalseAlarm, RecvLiteAck, bufVars, packVars
  <2>2. SndInv' /\ NoStrandedLoss'
    BY <1>2, <1>3, ConstantsAssumption
       DEF SndGood, SndTypeOK, SndInv, NoStrandedLoss, Numbers, RecvLiteAck, SenderHandles, bufVars, packVars
  <2>. QED  BY <2>1, <2>2 DEF SndGood
<1>5. Trail'
  BY <1>2, <1>3 DEF Trail, Contiguous, RecvLiteAck, rcvVars, rcvBufVars, rcvAckVars
<1>6. NetGood'
  BY DEF NetGood, NetTypeOK, NetInv, Contiguous, RecvLiteAck, Left, rcvVars, rcvBufVars, rcvAckVars
<1>. QED  BY <1>1, <1>4, <1>5, <1>6 DEF IInv

\* The validity check passes: what the receiver acknowledged was sent.
LEMMA RecvAckStep ==
    ASSUME IInv, NEW m \in ackNet, NEW syn \in BOOLEAN, RecvAck(m, syn)
    PROVE  IInv'
<1>. SndGood /\ NetGood /\ RcvGood /\ Trail
  BY DEF IInv
<1>1. RcvGood'
  BY RcvUnchanged DEF RecvAck
<1>2. /\ m.ackNo \in 1 .. MaxAckNo /\ m.ack \in 0 .. MaxBlocks /\ m.wnd \in Int
      /\ m.ack <= rcvLastAck
  BY DEF NetGood, NetTypeOK, NetInv
<1>3. Contiguous(m.ack)
  BY <1>2, ConstantsAssumption
     DEF Contiguous, RcvGood, RcvTypeOK, RcvInv, LossListExact, Numbers, Blocks
<1>4. AckIsValid(m.ack)
  BY <1>2, <1>3, ConstantsAssumption DEF AckIsValid, Contiguous, Trail, SndGood, SndTypeOK, RcvGood, RcvTypeOK, Numbers
<1>5. /\ ackData' = {m.ack} /\ sndStatus' = sndStatus
      /\ \/ m.ack >= sndLastAck /\ flowWindow' = m.wnd /\ sndLastAck' = m.ack
         \/ m.ack < sndLastAck /\ flowWindow' = flowWindow /\ sndLastAck' = sndLastAck
  BY <1>2, <1>4 DEF RecvAck, IsNewAck, SndGood, SndTypeOK
<1>6. /\ sndLastAck2' \in {sndLastAck2, m.ackNo}
      /\ ack2Net' \in {ack2Net, ack2Net \cup {m.ackNo}}
  BY DEF RecvAck
<1>7. SndGood'
  <2>1. SndTypeOK' /\ NoFalseAlarm'
    BY <1>2, <1>5, <1>6, ConstantsAssumption DEF SndGood, SndTypeOK, NoFalseAlarm, RecvAck, bufVars, packVars
  <2>2. SndInv' /\ NoStrandedLoss'
    BY <1>2, <1>4, <1>5, ConstantsAssumption
       DEF SndGood, SndTypeOK, SndInv, NoStrandedLoss, Numbers, AckIsValid, RecvAck, bufVars, packVars
  <2>. QED  BY <2>1, <2>2 DEF SndGood
<1>8. Trail'
  BY <1>2, <1>3, <1>5 DEF Trail, Contiguous, RecvAck, rcvVars, rcvBufVars, rcvAckVars
<1>9. NetGood'
  BY <1>2, <1>6 DEF NetGood, NetTypeOK, NetInv, Contiguous, RecvAck, Left, rcvVars, rcvBufVars, rcvAckVars
<1>. QED  BY <1>1, <1>7, <1>8, <1>9 DEF IInv

LEMMA RecvAckLockedStep ==
    ASSUME IInv, RecvAckLocked
    PROVE  IInv'
<1>. SndGood /\ NetGood /\ RcvGood /\ Trail
  BY DEF IInv
<1>1. RcvGood'
  BY RcvUnchanged DEF RecvAckLocked
<1>2. NetGood'
  BY NetUnchanged DEF RecvAckLocked
<1>3. PICK ack \in ackData :
        \/ /\ UNCHANGED <<sndFirst, sndLastDataAck, sndLossList, onSndUList>>
        \/ /\ ack > sndLastDataAck
           /\ sndFirst' = ack /\ sndLastDataAck' = ack
           /\ sndLossList' = {s \in sndLossList : s > ack - 1} /\ onSndUList' = TRUE
  BY DEF RecvAckLocked, SndGood, SndTypeOK, SndInv
<1>4. ack \in 0 .. MaxBlocks /\ ack <= sndLastAck /\ ack <= rcvLastAck
  BY DEF SndGood, SndTypeOK, SndInv, Trail
<1>5. SndGood'
  <2>1. SndTypeOK' /\ NoFalseAlarm'
    BY <1>3, <1>4, ConstantsAssumption DEF SndGood, SndTypeOK, SndInv, NoFalseAlarm, RecvAckLocked, packVars
  <2>2. ASSUME NEW s \in sndLossList' PROVE sndLastDataAck' <= s /\ s <= sndCurrSeqNo
    <3>1. \/ s \in sndLossList /\ sndLastDataAck' = sndLastDataAck
          \/ s \in sndLossList /\ sndLastDataAck' = ack /\ s > ack - 1
      <4>1. CASE UNCHANGED <<sndFirst, sndLastDataAck, sndLossList, onSndUList>>
        BY <4>1
      <4>2. CASE sndLastDataAck' = ack /\ sndLossList' = {t \in sndLossList : t > ack - 1}
        BY <4>2
      <4>. QED  BY <1>3, <4>1, <4>2
    <3>2. s \in sndLossList
      BY <3>1
    <3>3. s \in Int
      BY <3>2, ConstantsAssumption DEF SndGood, SndTypeOK, Blocks
    <3>4. sndLastDataAck <= s /\ s <= sndCurrSeqNo
      BY <3>2 DEF SndGood, SndInv
    <3>. QED  BY <3>1, <3>3, <3>4, <1>4
  <2>3. SndInv'
    BY <1>3, <1>4, <2>2 DEF SndGood, SndTypeOK, SndInv, RecvAckLocked, packVars
  <2>4. NoStrandedLoss'
    BY <1>3 DEF SndGood, NoStrandedLoss, RecvAckLocked, packVars
  <2>. QED  BY <2>1, <2>3, <2>4 DEF SndGood
<1>6. Trail'
  BY <1>3, <1>4 DEF Trail, Contiguous, RecvAckLocked, rcvVars, rcvBufVars, rcvAckVars
<1>. QED  BY <1>1, <1>2, <1>5, <1>6 DEF IInv

\* Nor does a loss report name what was not sent.
LEMMA RecvNakStep ==
    ASSUME IInv, NEW nak \in nakNet, RecvNak(nak)
    PROVE  IInv'
<1>. SndGood /\ NetGood /\ RcvGood /\ Trail
  BY DEF IInv
<1>1. RcvGood'
  BY RcvUnchanged DEF RecvNak
<1>2. nak \subseteq Blocks /\ \A s \in nak : s <= sndCurrSeqNo
  BY ConstantsAssumption
     DEF NetGood, NetTypeOK, NetInv, Trail, SndGood, SndTypeOK, RcvGood, RcvTypeOK, Numbers, Blocks
<1>3. /\ onSndUList' = TRUE /\ sndStatus' = sndStatus
      /\ sndLossList' = sndLossList \cup {s \in nak : sndLastAck <= s /\ s <= sndCurrSeqNo}
  BY <1>2 DEF RecvNak
<1>4. SndGood'
  <2>1. SndTypeOK' /\ NoFalseAlarm' /\ NoStrandedLoss'
    BY <1>2, <1>3, ConstantsAssumption
       DEF SndGood, SndTypeOK, NoFalseAlarm, NoStrandedLoss, RecvNak, bufVars, sndAckVars, packVars
  <2>2. SndInv'
    BY <1>2, <1>3, ConstantsAssumption
       DEF SndGood, SndTypeOK, SndInv, Blocks, Numbers, RecvNak, bufVars, sndAckVars, packVars
  <2>. QED  BY <2>1, <2>2 DEF SndGood
<1>5. Trail'
  BY DEF Trail, Contiguous, RecvNak, sndAckVars, rcvVars, rcvBufVars, rcvAckVars
<1>6. NetGood'
  BY DEF NetGood, NetTypeOK, NetInv, Contiguous, RecvNak, Left, rcvVars, rcvBufVars, rcvAckVars
<1>. QED  BY <1>1, <1>4, <1>5, <1>6 DEF IInv

LEMMA SndRecvKeepAliveStep ==
    ASSUME IInv, SndRecvKeepAlive
    PROVE  IInv'
<1>. SndGood /\ NetGood /\ RcvGood /\ Trail
  BY DEF IInv
<1>1. RcvGood'
  BY RcvUnchanged DEF SndRecvKeepAlive
<1>2. SndGood'
  BY ConstantsAssumption
     DEF SndGood, SndTypeOK, SndInv, NoFalseAlarm, NoStrandedLoss, SndRecvKeepAlive,
         bufVars, sndAckVars, packVars
<1>3. Trail'
  BY DEF Trail, Contiguous, SndRecvKeepAlive, sndAckVars, rcvVars, rcvBufVars, rcvAckVars
<1>4. NetGood'
  BY DEF NetGood, NetTypeOK, NetInv, Contiguous, SndRecvKeepAlive, Left, rcvVars, rcvBufVars, rcvAckVars
<1>. QED  BY <1>1, <1>2, <1>3, <1>4 DEF IInv

LEMMA SndExpTimerStep ==
    ASSUME IInv, SndExpTimer
    PROVE  IInv'
<1>. SndGood /\ NetGood /\ RcvGood /\ Trail
  BY DEF IInv
<1>1. RcvGood'
  BY RcvUnchanged DEF SndExpTimer
<1>2. \/ /\ sndStatus' = "timeout" /\ onSndUList' = TRUE
         /\ sndEXPCount' = sndEXPCount /\ sndLossList' = sndLossList /\ keepNet' = keepNet
      \/ /\ sndStatus' = "connected" /\ sndEXPCount <= ExpLimit /\ sndEXPCount' = sndEXPCount + 1
         /\ sndLossList' = sndLossList \cup (sndLastAck .. sndCurrSeqNo) /\ keepNet' = keepNet
         /\ onSndUList' = (onSndUList \/ CurrBufSize > 0)
         /\ sndCurrSeqNo + 1 # sndLastAck
      \/ /\ sndStatus' = "connected" /\ sndEXPCount <= ExpLimit /\ sndEXPCount' = sndEXPCount + 1
         /\ sndLossList' = sndLossList /\ keepNet' = keepNet \cup {"snd"}
         /\ onSndUList' = (onSndUList \/ CurrBufSize > 0)
  BY ConstantsAssumption DEF SndExpTimer, SenderHandles, SndGood, SndTypeOK
<1>3. sndCurrSeqNo + 1 # sndLastAck => CurrBufSize > 0
  BY DEF SndGood, SndTypeOK, SndInv, CurrBufSize, Numbers
<1>4. SndGood'
  <2>0. ASSUME NEW s \in sndLossList'
        PROVE  s \in Blocks /\ sndLastDataAck <= s /\ s <= sndCurrSeqNo
    <3>1. s \in sndLossList \/ s \in sndLastAck .. sndCurrSeqNo
      BY <1>2
    <3>2. CASE s \in sndLossList
      BY <3>2 DEF SndGood, SndTypeOK, SndInv
    <3>3. CASE s \in sndLastAck .. sndCurrSeqNo
      <4>1. sndLastAck \in Nat /\ sndLastDataAck \in Nat /\ sndCurrSeqNo \in Int /\ sndCurrSeqNo <= MaxBlocks - 1
        BY ConstantsAssumption DEF SndGood, SndTypeOK, Numbers
      <4>. QED  BY <3>3, <4>1, ConstantsAssumption DEF SndGood, SndInv, Blocks
    <3>. QED  BY <3>1, <3>2, <3>3
  <2>1. SndTypeOK' /\ NoFalseAlarm'
    <3>1. onSndUList' \in BOOLEAN
      BY <1>2 DEF SndGood, SndTypeOK
    <3>2. sndEXPCount' \in 1 .. ExpLimit + 1 /\ sndStatus' \in {"connected", "timeout"}
      BY <1>2, ConstantsAssumption DEF SndGood, SndTypeOK
    <3>. QED  BY <2>0, <3>1, <3>2, ConstantsAssumption
              DEF SndGood, SndTypeOK, NoFalseAlarm, SndExpTimer, bufVars, sndAckVars, packVars
  <2>2. onSndUList' \/ (onSndUList' = onSndUList /\ (sndLossList' = sndLossList \/ sndStatus' # "connected"))
    BY <1>2, <1>3 DEF SndGood, SndTypeOK
  <2>3. SndInv'
    BY <2>0, <2>2 DEF SndGood, SndTypeOK, SndInv, SndExpTimer, SenderHandles, bufVars, sndAckVars, packVars
  <2>4. NoStrandedLoss'
    BY <2>2 DEF SndGood, NoStrandedLoss, SndExpTimer, SenderHandles, packVars
  <2>. QED  BY <2>1, <2>3, <2>4 DEF SndGood
<1>5. Trail'
  BY DEF Trail, Contiguous, SndExpTimer, sndAckVars, rcvVars, rcvBufVars, rcvAckVars
<1>6. NetGood'
  BY <1>2 DEF NetGood, NetTypeOK, NetInv, Contiguous, Ends, SndExpTimer, rcvVars, rcvBufVars, rcvAckVars
<1>. QED  BY <1>1, <1>4, <1>5, <1>6 DEF IInv

-----------------------------------------------------------------------------
(* Steps of the receiver.                                                  *)

LEMMA StillNext == \A a, b, c \in Int : a <= b + 1 /\ b <= c => a <= c + 1
  OBVIOUS

\* A packet is dropped, or fills the slot of its own number: the one it was
\* missing at, or one ahead, past numbers that then are noted as missing.
LEMMA RecvDataStep ==
    ASSUME IInv, NEW m \in dataNet, RecvData(m)
    PROVE  IInv'
<1>. DEFINE Dropped == \/ m.seq - rcvLastAck < 0 \/ m.seq - rcvLastAck >= AvailBufSize
                       \/ Held(rcvLastAckPos + (m.seq - rcvLastAck))
<1>. SndGood /\ NetGood /\ RcvGood /\ Trail
  BY DEF IInv
<1>1. SndGood'
  BY SndUnchanged DEF RecvData
<1>2. m.seq \in Blocks /\ m.block = m.seq /\ m.seq <= sndCurrSeqNo
  BY DEF NetGood, NetTypeOK, NetInv
<1>3. rcvLastAckPos + (m.seq - rcvLastAck) = m.seq
  BY <1>2, ConstantsAssumption DEF RcvGood, RcvTypeOK, RcvInv, Blocks
<1>4. dataNet' \subseteq dataNet
  BY DEF RecvData, Left
<1>5. CASE Dropped
  <2>1. UNCHANGED <<rcvUnit, rcvCurrSeqNo, rcvLossList, nakNet>>
    BY <1>5 DEF RecvData
  <2>2. RcvGood'
    BY <2>1, ConstantsAssumption
       DEF RcvGood, RcvTypeOK, RcvInv, StreamIntegrity, NoHole, LossListExact, Held, RecvData, rcvAckVars
  <2>3. Trail'
    BY <2>1 DEF Trail, Contiguous, RecvData, sndVars, sndAckVars, rcvAckVars
  <2>4. NetGood'
    BY <2>1, <1>4 DEF NetGood, NetTypeOK, NetInv, Contiguous, RecvData, sndVars, rcvAckVars
  <2>. QED  BY <1>1, <2>2, <2>3, <2>4 DEF IInv
<1>6. CASE ~Dropped
  <2>1. m.seq >= rcvLastAck /\ ~Held(m.seq)
    BY <1>2, <1>3, <1>6, ConstantsAssumption DEF RcvGood, RcvTypeOK, Blocks
  <2>2. rcvUnit' = rcvUnit \cup {[pos |-> m.seq, block |-> m.seq]}
    BY <1>2, <1>3, <1>6 DEF RecvData
  <2>3. ASSUME NEW p PROVE Held(p)' <=> Held(p) \/ p = m.seq
    <3>. DEFINE new == [pos |-> m.seq, block |-> m.seq]
    <3>1. new.pos = m.seq
      OBVIOUS
    <3>2. rcvUnit' = rcvUnit \cup {new}
      BY <2>2
    <3>. HIDE DEF new
    <3>. QED  BY <3>1, <3>2 DEF Held
  <2>4. \/ /\ m.seq > rcvCurrSeqNo /\ rcvCurrSeqNo' = m.seq
           /\ rcvLossList' = rcvLossList \cup (rcvCurrSeqNo + 1 .. m.seq - 1)
           /\ nakNet' \subseteq nakNet \cup {rcvCurrSeqNo + 1 .. m.seq - 1}
        \/ /\ m.seq <= rcvCurrSeqNo /\ rcvCurrSeqNo' = rcvCurrSeqNo
           /\ rcvLossList' = rcvLossList \ {m.seq}
           /\ nakNet' = nakNet
    <3>1. rcvCurrSeqNo \in Int /\ m.seq \in Int
      BY <1>2, ConstantsAssumption DEF RcvGood, RcvTypeOK, Numbers, Blocks
    <3>. QED  BY <1>6, <3>1 DEF RecvData, MissingBefore
  <2>5. rcvLossList' = {s \in rcvLastAck .. rcvCurrSeqNo' : ~Held(s)'}
    <3>1. rcvLossList = {s \in rcvLastAck .. rcvCurrSeqNo : ~Held(s)}
      BY ConstantsAssumption DEF RcvGood, RcvTypeOK, RcvInv, LossListExact, Numbers
    <3>2. \A s \in Int : s > rcvCurrSeqNo => ~Held(s)
      BY ConstantsAssumption DEF RcvGood, RcvTypeOK, RcvInv, Held, Blocks, Numbers
    <3>. QED  BY <1>2, <2>1, <2>3, <2>4, <3>1, <3>2, ConstantsAssumption
              DEF RcvGood, RcvTypeOK, RcvInv, Blocks, Numbers
  <2>6. LossListExact'
    BY <2>5, ConstantsAssumption DEF LossListExact, RecvData, RcvGood, RcvTypeOK, RcvInv, rcvAckVars, Numbers
  <2>7. rcvCurrSeqNo' \in Numbers /\ rcvCurrSeqNo <= rcvCurrSeqNo' /\ m.seq <= rcvCurrSeqNo'
    BY <2>4, <1>2, ConstantsAssumption DEF RcvGood, RcvTypeOK, Numbers, Blocks
  <2>8. rcvLossList' \subseteq Blocks
    <3>1. rcvCurrSeqNo + 1 >= 0 /\ m.seq - 1 <= MaxBlocks - 1 /\ m.seq \in Int /\ rcvCurrSeqNo \in Int
      BY <1>2, ConstantsAssumption DEF RcvGood, RcvTypeOK, Numbers, Blocks
    <3>2. rcvLossList \subseteq Blocks
      BY DEF RcvGood, RcvTypeOK
    <3>3. rcvCurrSeqNo + 1 .. m.seq - 1 \subseteq Blocks
      BY <3>1, ConstantsAssumption DEF Blocks
    <3>. QED  BY <2>4, <3>2, <3>3
  <2>9. RcvTypeOK'
    BY <1>2, <2>2, <2>7, <2>8, ConstantsAssumption
       DEF RcvGood, RcvTypeOK, RecvData, rcvAckVars, Blocks
  <2>10. RcvInv' /\ StreamIntegrity'
    <3>1. rcvLastAck' <= rcvCurrSeqNo' + 1
      <4>1. rcvLastAck \in Int /\ rcvCurrSeqNo \in Int /\ rcvCurrSeqNo' \in Int
        BY <2>7, ConstantsAssumption DEF RcvGood, RcvTypeOK, Numbers
      <4>2. rcvLastAck' = rcvLastAck
        BY DEF RecvData, rcvAckVars
      <4>3. rcvLastAck <= rcvCurrSeqNo + 1 /\ rcvCurrSeqNo <= rcvCurrSeqNo'
        BY <2>7 DEF RcvGood, RcvInv
      <4>. QED  BY <4>1, <4>2, <4>3, StillNext
    <3>2. ASSUME NEW u \in rcvUnit' PROVE u.block = u.pos /\ rcvStartPos <= u.pos /\ u.pos <= rcvCurrSeqNo'
      <4>1. CASE u \in rcvUnit
        BY <4>1, <2>7, ConstantsAssumption DEF RcvGood, RcvTypeOK, RcvInv, Numbers, Blocks
      <4>2. CASE u = [pos |-> m.seq, block |-> m.seq]
        BY <4>2, <2>1, <2>7, <1>2, ConstantsAssumption DEF RcvGood, RcvTypeOK, RcvInv, Numbers, Blocks
      <4>. QED  BY <2>2, <4>1, <4>2
    <3>. QED  BY <3>1, <3>2 DEF RcvGood, RcvInv, StreamIntegrity, RecvData, rcvAckVars
  <2>11. NoHole'
    BY <2>3 DEF RcvGood, NoHole, RecvData
  <2>12. ASSUME NEW a \in Int, Contiguous(a) PROVE Contiguous(a)'
    <3>1. rcvCurrSeqNo \in Int /\ rcvCurrSeqNo' \in Int
      BY <2>7, ConstantsAssumption DEF RcvGood, RcvTypeOK, Numbers
    <3>2. a <= rcvCurrSeqNo + 1 /\ \A l \in rcvLossList : a <= l
      BY <2>12 DEF Contiguous
    <3>3. a <= rcvCurrSeqNo' + 1
      BY <2>7, <3>1, <3>2, StillNext
    <3>4. ASSUME NEW l \in rcvLossList' PROVE a <= l
      <4>1. CASE l \in rcvLossList
        BY <3>2, <4>1
      <4>2. CASE l \in rcvCurrSeqNo + 1 .. m.seq - 1
        BY <1>2, <3>1, <3>2, <4>2 DEF Blocks
      <4>. QED  BY <2>4, <3>4, <4>1, <4>2
    <3>. QED  BY <3>3, <3>4 DEF Contiguous
  <2>13. Trail'
    <3>1. rcvCurrSeqNo' <= sndCurrSeqNo
      BY <2>4, <1>2 DEF Trail
    <3>2. Contiguous(sndLastAck)'
      <4>1. sndLastAck \in Int /\ Contiguous(sndLastAck) /\ sndLastAck' = sndLastAck
        BY DEF Trail, SndGood, SndTypeOK, RecvData, sndVars, sndAckVars
      <4>. QED  BY <2>12, <4>1 DEF Contiguous
    <3>. QED  BY <3>1, <3>2 DEF Trail, RecvData, sndVars, sndAckVars, rcvAckVars
  <2>14. \A nak \in nakNet' : nak \subseteq Blocks /\ \A s \in nak : s <= rcvCurrSeqNo'
    <3>1. \A nak \in nakNet : nak \subseteq Blocks /\ \A s \in nak : s <= rcvCurrSeqNo'
      BY <2>7, ConstantsAssumption
         DEF NetGood, NetTypeOK, NetInv, RcvGood, RcvTypeOK, Numbers, Blocks
    <3>2. rcvLossList' \subseteq Blocks /\ \A s \in rcvLossList' : s <= rcvCurrSeqNo'
      BY <2>5, <2>7, <2>8, ConstantsAssumption DEF RcvGood, RcvTypeOK, Numbers
    <3>. QED  BY <2>4, <3>1, <3>2
  <2>15. \A a \in liteNet' : Contiguous(a)'
    <3>1. liteNet' = liteNet /\ liteNet \subseteq Int /\ \A a \in liteNet : Contiguous(a)
      BY DEF NetGood, NetTypeOK, NetInv, RecvData
    <3>. QED  BY <2>12, <3>1 DEF Contiguous
  <2>16. NetGood'
    BY <1>4, <2>14, <2>15 DEF NetGood, NetTypeOK, NetInv, RecvData, sndVars, rcvAckVars
  <2>. QED  BY <1>1, <2>6, <2>9, <2>10, <2>11, <2>13, <2>16 DEF IInv, RcvGood
<1>. QED  BY <1>5, <1>6

\* The number an ACK carries lies between the last one and the next expected,
\* and nothing missing precedes it.
LEMMA AckNumberFacts ==
    ASSUME RcvGood, NEW ack \in AckNumber
    PROVE  ack \in 0 .. MaxBlocks /\ rcvLastAck <= ack /\ Contiguous(ack)
<1>1. rcvLastAck \in 0 .. MaxBlocks /\ rcvCurrSeqNo \in Numbers /\ rcvLastAck <= rcvCurrSeqNo + 1
  BY DEF RcvGood, RcvTypeOK, RcvInv
<1>2. \A s \in rcvLossList : s \in rcvLastAck .. rcvCurrSeqNo
  BY DEF RcvGood, LossListExact
<1>3. ack \in rcvLossList \cup {rcvCurrSeqNo + 1} /\ \A l \in rcvLossList : ack <= l
  BY DEF AckNumber
<1>4. rcvLastAck <= ack /\ ack <= rcvCurrSeqNo + 1 /\ ack \in 0 .. MaxBlocks
  BY <1>1, <1>2, <1>3, ConstantsAssumption DEF Numbers
<1>. QED  BY <1>3, <1>4 DEF Contiguous

\* The slots before the acknowledged number become readable: none is empty.
LEMMA AckTimerStep ==
    ASSUME IInv, AckTimer
    PROVE  IInv'
<1>. SndGood /\ NetGood /\ RcvGood /\ Trail
  BY DEF IInv
<1>1. SndGood'
  BY SndUnchanged DEF AckTimer
<1>2. PICK ack \in AckNumber :
        /\ rcvLastAck' = ack /\ rcvLastAckPos' = ack
        /\ \E avail \in Int : SendAck(ack, avail)
  <2>1. PICK ack \in AckNumber :
          \/ /\ ack > rcvLastAck
             /\ rcvLastAck' = ack
             /\ rcvLastAckPos' = rcvLastAckPos + (ack - rcvLastAck)
             /\ SendAck(ack, AvailBufSize - (ack - rcvLastAck))
          \/ /\ ack = rcvLastAck
             /\ SendAck(ack, AvailBufSize)
             /\ UNCHANGED <<rcvLastAck, rcvLastAckPos>>
    BY DEF AckTimer
  <2>2. ack \in Int /\ rcvLastAck \in Int /\ rcvLastAckPos = rcvLastAck
    BY AckNumberFacts DEF RcvGood, RcvTypeOK, RcvInv
  <2>3. AvailBufSize \in Int /\ AvailBufSize - (ack - rcvLastAck) \in Int
    BY <2>2, ConstantsAssumption DEF RcvGood, RcvTypeOK, AvailBufSize
  <2>. QED  BY <2>1, <2>2, <2>3
<1>3. ack \in 0 .. MaxBlocks /\ rcvLastAck <= ack /\ Contiguous(ack)
  BY AckNumberFacts
<1>4. /\ ackSeqNo' \in 0 .. MaxAckNo
      /\ \A m \in ackNet' : m \in ackNet \/ m \in [ackNo : 1 .. MaxAckNo, ack : {ack}, wnd : Int]
      /\ \A e \in ackWindow' : e \in ackWindow \/ e \in [ackNo : 1 .. MaxAckNo, ack : {ack}]
  <2>1. PICK avail \in Int : SendAck(ack, avail)
    BY <1>2
  <2>2. CASE ack > rcvLastAckAck
    <3>1. ackSeqNo + 1 \in 1 .. MaxAckNo /\ ackSeqNo' = ackSeqNo + 1
      BY <2>1, <2>2, ConstantsAssumption DEF SendAck, RcvGood, RcvTypeOK
    <3>2. AdvertisedWindow(avail) \in Int
      BY DEF AdvertisedWindow
    <3>3. /\ ackNet' = ackNet \cup {[ackNo |-> ackSeqNo + 1, ack |-> ack, wnd |-> AdvertisedWindow(avail)]}
          /\ ackWindow' = Stored(ackSeqNo + 1, ack)
      BY <2>1, <2>2 DEF SendAck
    <3>. QED  BY <3>1, <3>2, <3>3, ConstantsAssumption DEF Stored
  <2>3. CASE ~(ack > rcvLastAckAck)
    BY <2>1, <2>3 DEF SendAck, RcvGood, RcvTypeOK
  <2>. QED  BY <2>2, <2>3
<1>5. rcvLastAck \in Int /\ rcvCurrSeqNo \in Int /\ rcvLastAckAck \in Int /\ rcvStartPos \in Int /\ ack \in Int
  BY <1>3, ConstantsAssumption DEF RcvGood, RcvTypeOK, Numbers
<1>6. RcvTypeOK'
  BY <1>2, <1>3, <1>4, ConstantsAssumption DEF RcvGood, RcvTypeOK, AckTimer
<1>7. RcvInv' /\ StreamIntegrity'
  <2>1. rcvStartPos <= ack /\ rcvLastAckAck <= ack /\ ack <= rcvCurrSeqNo + 1
    BY <1>3, <1>5 DEF RcvGood, RcvInv, Contiguous
  <2>. QED  BY <1>2, <2>1 DEF RcvGood, RcvInv, StreamIntegrity, AckTimer
<1>8. rcvLossList = {s \in rcvLastAck .. rcvCurrSeqNo : ~Held(s)}
  BY <1>5, ConstantsAssumption DEF RcvGood, RcvTypeOK, RcvInv, LossListExact
<1>9. NoHole'
  <2>1. \A pos \in rcvStartPos .. rcvLastAck - 1 : Held(pos)
    BY DEF RcvGood, RcvInv, NoHole
  <2>2. \A pos \in rcvLastAck .. ack - 1 : Held(pos)
    BY <1>3, <1>5, <1>8 DEF Contiguous
  <2>3. \A pos \in rcvStartPos .. ack - 1 : Held(pos)
    BY <1>5, <2>1, <2>2
  <2>. QED  BY <1>2, <2>3 DEF NoHole, Held, AckTimer
<1>10. LossListExact'
  <2>1. rcvLossList = {s \in ack .. rcvCurrSeqNo : ~Held(s)}
    BY <1>3, <1>5, <1>8 DEF Contiguous
  <2>. QED  BY <1>2, <1>5, <2>1 DEF LossListExact, Held, AckTimer
<1>11. Trail'
  <2>1. sndLastDataAck <= ack /\ \A a \in ackData : a <= ack
    BY <1>3, <1>5, ConstantsAssumption DEF Trail, SndGood, SndTypeOK
  <2>. QED  BY <1>2, <2>1 DEF Trail, Contiguous, AckTimer, sndVars, sndAckVars
<1>12. NetGood'
  <2>1. NetTypeOK'
    BY <1>3, <1>4 DEF NetGood, NetTypeOK, AckTimer
  <2>2. (\A m \in ackNet' : m.ack <= ack) /\ (\A e \in ackWindow' : e.ack <= ack)
    BY <1>3, <1>4, <1>5, ConstantsAssumption DEF NetGood, NetTypeOK, NetInv, RcvGood, RcvTypeOK
  <2>. QED  BY <1>2, <2>1, <2>2 DEF NetGood, NetInv, Contiguous, AckTimer, sndVars
<1>. QED  BY <1>1, <1>6, <1>7, <1>9, <1>10, <1>11, <1>12 DEF IInv, RcvGood

LEMMA LiteAckStep ==
    ASSUME IInv, LiteAck
    PROVE  IInv'
<1>. SndGood /\ NetGood /\ RcvGood /\ Trail
  BY DEF IInv
<1>1. SndGood'
  BY SndUnchanged DEF LiteAck
<1>2. RcvGood'
  BY DEF RcvGood, RcvTypeOK, RcvInv, StreamIntegrity, NoHole, LossListExact, Held, LiteAck, rcvBufVars, rcvAckVars
<1>3. Trail'
  BY DEF Trail, Contiguous, LiteAck, sndVars, sndAckVars, rcvAckVars
<1>4. \A a \in liteNet' : a \in liteNet \/ (a \in 0 .. MaxBlocks /\ Contiguous(a))
  BY AckNumberFacts DEF LiteAck
<1>5. NetGood'
  BY <1>4 DEF NetGood, NetTypeOK, NetInv, Contiguous, LiteAck, sndVars, rcvAckVars
<1>. QED  BY <1>1, <1>2, <1>3, <1>5 DEF IInv

LEMMA NakTimerStep ==
    ASSUME IInv, NakTimer
    PROVE  IInv'
<1>. SndGood /\ NetGood /\ RcvGood /\ Trail
  BY DEF IInv
<1>1. SndGood' /\ RcvGood'
  BY SndUnchanged, RcvUnchanged DEF NakTimer
<1>2. Trail'
  BY DEF Trail, Contiguous, NakTimer, sndVars, sndAckVars, rcvVars, rcvAckVars
<1>3. \A nak \in nakNet' : nak \in nakNet \/ nak \subseteq rcvLossList
  BY DEF NakTimer
<1>4. \A s \in rcvLossList : s \in Blocks /\ s <= rcvCurrSeqNo
  BY ConstantsAssumption DEF RcvGood, RcvTypeOK, LossListExact, Numbers
<1>5. NetGood'
  BY <1>3, <1>4 DEF NetGood, NetTypeOK, NetInv, Contiguous, NakTimer, sndVars, rcvVars, rcvAckVars
<1>. QED  BY <1>1, <1>2, <1>5 DEF IInv

\* What the sender confirms to have was acknowledged at some time.
LEMMA RecvAck2Step ==
    ASSUME IInv, NEW no \in ack2Net, NEW rtt \in {0, 1}, RecvAck2(no, rtt)
    PROVE  IInv'
<1>. SndGood /\ NetGood /\ RcvGood /\ Trail
  BY DEF IInv
<1>1. SndGood'
  BY SndUnchanged DEF RecvAck2
<1>2. rcvLastAckAck' \in 0 .. MaxBlocks /\ rcvLastAckAck' <= rcvLastAck /\ ackWindow' \subseteq ackWindow
  BY DEF RecvAck2, RcvGood, RcvTypeOK, RcvInv, NetGood, NetInv
<1>3. ack2Net' \subseteq ack2Net
  BY DEF RecvAck2, Left
<1>4. RcvGood'
  <2>1. rcvEXPCount' \in 1 .. ExpLimit + 1
    BY ConstantsAssumption DEF RecvAck2
  <2>2. RcvTypeOK'
    BY <1>2, <2>1 DEF RcvGood, RcvTypeOK, RecvAck2, rcvBufVars
  <2>. QED  BY <1>2, <2>2
            DEF RcvGood, RcvInv, StreamIntegrity, NoHole, LossListExact, Held, RecvAck2, rcvBufVars
<1>5. Trail'
  BY DEF Trail, Contiguous, RecvAck2, sndVars, sndAckVars
<1>6. NetGood'
  BY <1>2, <1>3 DEF NetGood, NetTypeOK, NetInv, Contiguous, RecvAck2, sndVars
<1>. QED  BY <1>1, <1>4, <1>5, <1>6 DEF IInv

LEMMA RcvRecvKeepAliveStep ==
    ASSUME IInv, RcvRecvKeepAlive
    PROVE  IInv'
<1>. SndGood /\ NetGood /\ RcvGood /\ Trail
  BY DEF IInv
<1>1. SndGood'
  BY SndUnchanged DEF RcvRecvKeepAlive
<1>2. RcvGood'
  <2>1. rcvEXPCount' \in 1 .. ExpLimit + 1
    BY ConstantsAssumption DEF RcvRecvKeepAlive
  <2>. QED  BY <2>1
            DEF RcvGood, RcvTypeOK, RcvInv, StreamIntegrity, NoHole, LossListExact, Held, RcvRecvKeepAlive,
                rcvBufVars, rcvAckVars
<1>3. Trail'
  BY DEF Trail, Contiguous, RcvRecvKeepAlive, sndVars, sndAckVars, rcvAckVars
<1>4. NetGood'
  BY DEF NetGood, NetTypeOK, NetInv, Contiguous, Left, RcvRecvKeepAlive, sndVars, rcvAckVars
<1>. QED  BY <1>1, <1>2, <1>3, <1>4 DEF IInv

LEMMA RcvExpTimerStep ==
    ASSUME IInv, RcvExpTimer
    PROVE  IInv'
<1>. SndGood /\ NetGood /\ RcvGood /\ Trail
  BY DEF IInv
<1>1. SndGood'
  BY SndUnchanged DEF RcvExpTimer
<1>2. rcvEXPCount' \in 1 .. ExpLimit + 1 /\ rcvStatus' \in {"connected", "timeout"} /\ keepNet' \subseteq Ends
  <2>0. /\ rcvEXPCount \in 1 .. ExpLimit + 1 /\ rcvStatus \in {"connected", "timeout"}
        /\ keepNet \subseteq Ends /\ "rcv" \in Ends /\ ExpLimit \in Nat
    BY ConstantsAssumption DEF RcvGood, RcvTypeOK, NetGood, NetTypeOK, Ends
  <2>1. CASE rcvEXPCount > ExpLimit
    BY <2>0, <2>1 DEF RcvExpTimer
  <2>2. CASE ~(rcvEXPCount > ExpLimit)
    <3>1. /\ rcvEXPCount' = rcvEXPCount + 1 /\ keepNet' = keepNet \cup {"rcv"}
          /\ rcvStatus' = rcvStatus
      BY <2>2 DEF RcvExpTimer
    <3>2. rcvEXPCount' \in 1 .. ExpLimit + 1
      BY <2>0, <2>2, <3>1
    <3>. QED  BY <2>0, <3>1, <3>2
  <2>. QED  BY <2>1, <2>2
<1>3. RcvGood'
  BY <1>2 DEF RcvGood, RcvTypeOK, RcvInv, StreamIntegrity, NoHole, LossListExact, Held, RcvExpTimer,
              rcvBufVars, rcvAckVars
<1>4. Trail'
  BY DEF Trail, Contiguous, RcvExpTimer, sndVars, sndAckVars, rcvAckVars
<1>5. NetGood'
  BY <1>2 DEF NetGood, NetTypeOK, NetInv, Contiguous, RcvExpTimer, sndVars, rcvAckVars
<1>. QED  BY <1>1, <1>3, <1>4, <1>5 DEF IInv

\* What recv() reads lies before the acknowledged number: each slot is filled,
\* with the block of its own number.
LEMMA RecvStep ==
    ASSUME IInv, NEW k \in 1 .. RcvBufSize, Recv(k)
    PROVE  IInv'
<1>. DEFINE n == rcvStartPos + k
<1>. SndGood /\ NetGood /\ RcvGood /\ Trail
  BY DEF IInv
<1>1. SndGood'
  BY SndUnchanged DEF Recv
<1>2. /\ rcvStartPos \in Nat /\ rcvLastAck \in 0 .. MaxBlocks /\ rcvLastAckPos = rcvLastAck /\ k \in Nat
      /\ rcvCurrSeqNo \in Int /\ n \in 0 .. MaxBlocks /\ n <= rcvLastAck
  BY ConstantsAssumption DEF RcvGood, RcvTypeOK, RcvInv, Numbers, Recv
<1>3. rcvStartPos' = n /\ rcvUnit' = {u \in rcvUnit : u.pos >= n}
  BY DEF Recv
<1>4. \A pos \in rcvStartPos .. n - 1 : BlockAt(pos) = pos
  <2>. TAKE pos \in rcvStartPos .. n - 1
  <2>1. Held(pos)
    BY <1>2 DEF RcvGood, NoHole
  <2>2. \E u \in rcvUnit : u.pos = pos
    BY <2>1 DEF Held
  <2>3. (CHOOSE u \in rcvUnit : u.pos = pos) \in rcvUnit /\ (CHOOSE u \in rcvUnit : u.pos = pos).pos = pos
    BY <2>2
  <2>4. \A u \in rcvUnit : u.block = u.pos
    BY DEF RcvGood, RcvInv
  <2>. QED  BY <2>1, <2>3, <2>4 DEF BlockAt
<1>5. delivered' = [i \in 1 .. n |-> i - 1]
  <2>1. delivered' = [i \in 1 .. n |-> IF i <= rcvStartPos THEN delivered[i] ELSE BlockAt(i - 1)]
    BY DEF Recv
  <2>2. delivered = [i \in 1 .. rcvStartPos |-> i - 1]
    BY DEF RcvGood, StreamIntegrity
  <2>3. \A i \in 1 .. n : (IF i <= rcvStartPos THEN delivered[i] ELSE BlockAt(i - 1)) = i - 1
    BY <1>2, <1>4, <2>2
  <2>. HIDE DEF n
  <2>. QED  BY <2>1, <2>3
<1>6. delivered' \in Seq(Int)
  BY <1>2, <1>5
<1>7. \A pos \in Int : pos >= n => (Held(pos)' <=> Held(pos))
  BY <1>3 DEF Held
<1>8. RcvTypeOK'
  BY <1>2, <1>3, <1>6 DEF RcvGood, RcvTypeOK, Recv, rcvAckVars
<1>9. RcvInv' /\ StreamIntegrity'
  BY <1>2, <1>3, <1>5 DEF RcvGood, RcvInv, StreamIntegrity, Recv, rcvAckVars
<1>10. NoHole'
  BY <1>2, <1>3, <1>7 DEF RcvGood, NoHole, Recv
<1>11. LossListExact'
  <2>1. rcvLossList = {s \in rcvLastAck .. rcvCurrSeqNo : ~Held(rcvLastAckPos + (s - rcvLastAck))}
    BY DEF RcvGood, LossListExact
  <2>2. \A s \in rcvLastAck .. rcvCurrSeqNo : rcvLastAckPos + (s - rcvLastAck) \in Int /\ rcvLastAckPos + (s - rcvLastAck) >= n
    BY <1>2
  <2>3. \A s \in rcvLastAck .. rcvCurrSeqNo :
          Held(rcvLastAckPos + (s - rcvLastAck))' <=> Held(rcvLastAckPos + (s - rcvLastAck))
    BY <1>3, <2>2 DEF Held, Recv, rcvAckVars
  <2>. QED  BY <2>1, <2>3 DEF LossListExact, Recv, rcvAckVars
<1>12. Trail'
  BY DEF Trail, Contiguous, Recv, sndVars, sndAckVars, rcvAckVars
<1>13. NetGood'
  BY DEF NetGood, NetTypeOK, NetInv, Contiguous, Recv, sndVars, rcvAckVars, netVars
<1>. QED  BY <1>1, <1>8, <1>9, <1>10, <1>11, <1>12, <1>13 DEF IInv, RcvGood

-----------------------------------------------------------------------------
(* The network, and all steps together.                                    *)

LEMMA LoseStep ==
    ASSUME IInv, Lose
    PROVE  IInv'
<1>. SndGood /\ NetGood /\ RcvGood /\ Trail
  BY DEF IInv
<1>1. SndGood' /\ RcvGood'
  BY SndUnchanged, RcvUnchanged DEF Lose
<1>2. Trail'
  BY DEF Trail, Contiguous, Lose, sndVars, sndAckVars, rcvVars, rcvAckVars
<1>3. /\ dataNet' \subseteq dataNet /\ ackNet' \subseteq ackNet /\ liteNet' \subseteq liteNet
      /\ nakNet' \subseteq nakNet /\ ack2Net' \subseteq ack2Net /\ keepNet' \subseteq keepNet
  BY DEF Lose
<1>4. lost' \in 0 .. MaxLost
  BY ConstantsAssumption DEF Lose, NetGood, NetTypeOK
<1>5. NetGood'
  <2>1. NetTypeOK'
    BY <1>3, <1>4 DEF NetGood, NetTypeOK
  <2>2. NetInv'
    BY <1>3 DEF NetGood, NetInv, Contiguous, Lose, sndVars, rcvVars, rcvAckVars
  <2>. QED  BY <2>1, <2>2 DEF NetGood
<1>. QED  BY <1>1, <1>2, <1>5 DEF IInv

LEMMA InitIInv == Init => IInv
<1>. SUFFICES ASSUME Init PROVE IInv
  OBVIOUS
<1>1. SndGood
  <2>1. SndTypeOK
    <3>1. 0 \in 0 .. MaxBlocks /\ -1 \in Numbers /\ 0 \in 0 .. MaxAckNo /\ 1 \in 1 .. ExpLimit + 1 /\ FlightFlagSize \in Int
      BY ConstantsAssumption DEF Numbers
    <3>2. /\ sndLast \in 0 .. MaxBlocks /\ sndFirst \in 0 .. MaxBlocks /\ sndCurrBlock \in 0 .. MaxBlocks
          /\ sndCurrSeqNo \in Numbers /\ sndLastAck \in 0 .. MaxBlocks /\ sndLastDataAck \in 0 .. MaxBlocks
          /\ sndLastAck2 \in 0 .. MaxAckNo /\ flowWindow \in Int /\ packArg \in Int
          /\ sndEXPCount \in 1 .. ExpLimit + 1
      BY <3>1 DEF Init
    <3>3. sndLossList = {} /\ ackData = {} /\ onSndUList \in BOOLEAN
      BY DEF Init
    <3>. QED  BY <3>2, <3>3 DEF Init, SndTypeOK
  <2>2. SndInv
    BY ConstantsAssumption DEF Init, SndInv
  <2>. QED  BY <2>1, <2>2 DEF Init, SndGood, NoFalseAlarm, NoStrandedLoss
<1>2. RcvGood
  <2>1. RcvTypeOK
    <3>1. 0 \in 0 .. MaxBlocks /\ -1 \in Numbers /\ 0 \in 0 .. MaxAckNo /\ 1 \in 1 .. ExpLimit + 1 /\ << >> \in Seq(Int)
      BY ConstantsAssumption DEF Numbers
    <3>. QED  BY <3>1 DEF Init, RcvTypeOK
  <2>0. RcvInv
    BY DEF Init, RcvInv
  <2>2. StreamIntegrity /\ NoHole /\ LossListExact
    BY DEF Init, StreamIntegrity, NoHole, LossListExact
  <2>. QED  BY <2>0, <2>1, <2>2 DEF RcvGood
<1>3. Trail
  BY DEF Init, Trail, Contiguous
<1>4. NetGood
  BY ConstantsAssumption DEF Init, NetGood, NetTypeOK, NetInv, Contiguous
<1>. QED  BY <1>1, <1>2, <1>3, <1>4 DEF IInv

LEMMA NextIInv == IInv /\ [Next]_vars => IInv'
<1>. SUFFICES ASSUME IInv, [Next]_vars PROVE IInv'
  OBVIOUS
<1>1. ASSUME NEW n \in 1 .. SndBufSize, Send(n) PROVE IInv'
  BY <1>1, SendStep
<1>2. CASE PackPop
  BY <1>2, PackPopStep
<1>3. CASE PackRetransmit
  BY <1>3, PackRetransmitStep
<1>4. CASE PackNew
  BY <1>4, PackNewStep
<1>5. ASSUME NEW ack \in liteNet, RecvLiteAck(ack) PROVE IInv'
  BY <1>5, RecvLiteAckStep
<1>6. CASE RecvAckAny
  <2>1. PICK m \in ackNet, syn \in BOOLEAN : RecvAck(m, syn)
    BY <1>6 DEF RecvAckAny
  <2>. QED  BY <2>1, RecvAckStep
<1>7. CASE RecvAckLocked
  BY <1>7, RecvAckLockedStep
<1>8. ASSUME NEW nak \in nakNet, RecvNak(nak) PROVE IInv'
  BY <1>8, RecvNakStep
<1>9. CASE SndRecvKeepAlive
  BY <1>9, SndRecvKeepAliveStep
<1>10. CASE SndExpTimer
  BY <1>10, SndExpTimerStep
<1>11. ASSUME NEW m \in dataNet, RecvData(m) PROVE IInv'
  BY <1>11, RecvDataStep
<1>12. CASE AckTimer
  BY <1>12, AckTimerStep
<1>13. CASE LiteAck
  BY <1>13, LiteAckStep
<1>14. CASE NakTimer
  BY <1>14, NakTimerStep
<1>15. CASE RecvAck2Any
  <2>1. PICK no \in ack2Net, rtt \in {0, 1} : RecvAck2(no, rtt)
    BY <1>15 DEF RecvAck2Any
  <2>. QED  BY <2>1, RecvAck2Step
<1>16. CASE RcvRecvKeepAlive
  BY <1>16, RcvRecvKeepAliveStep
<1>17. CASE RcvExpTimer
  BY <1>17, RcvExpTimerStep
<1>18. ASSUME NEW k \in 1 .. RcvBufSize, Recv(k) PROVE IInv'
  BY <1>18, RecvStep
<1>19. CASE Lose
  BY <1>19, LoseStep
<1>20. CASE UNCHANGED vars
  <2>1. SndGood' /\ RcvGood'
    BY <1>20, SndUnchanged, RcvUnchanged DEF IInv, vars
  <2>2. NetGood'
    BY <1>20, NetUnchanged DEF IInv, vars, sndVars
  <2>3. Trail'
    BY <1>20 DEF IInv, Trail, Contiguous, vars, sndVars, sndAckVars, rcvVars, rcvAckVars
  <2>. QED  BY <2>1, <2>2, <2>3 DEF IInv
<1>. QED
  BY <1>1, <1>2, <1>3, <1>4, <1>5, <1>6, <1>7, <1>8, <1>9, <1>10, <1>11, <1>12, <1>13, <1>14,
     <1>15, <1>16, <1>17, <1>18, <1>19, <1>20 DEF Next

\* IInv holds always.
THEOREM Invariance == Spec => []IInv
<1>. QED  BY InitIInv, NextIInv, PTL DEF Spec

-----------------------------------------------------------------------------
(* The properties.                                                         *)

\* The variables of both ends and of the network keep their types.
THEOREM TypeCorrectness == Spec => []TypeOK
<1>1. IInv => TypeOK
  BY DEF IInv, SndGood, RcvGood, NetGood, TypeOK
<1>. QED  BY <1>1, Invariance, PTL

\* recv() returns the blocks written, in order, each once.
THEOREM StreamIntegrityHolds == Spec => []StreamIntegrity
<1>1. IInv => StreamIntegrity
  BY DEF IInv, RcvGood
<1>. QED  BY <1>1, Invariance, PTL

\* Every slot recv() may read is filled.
THEOREM NoHoleHolds == Spec => []NoHole
<1>1. IInv => NoHole
  BY DEF IInv, RcvGood
<1>. QED  BY <1>1, Invariance, PTL

\* The receiver's loss list is exactly what is missing.
THEOREM LossListExactHolds == Spec => []LossListExact
<1>1. IInv => LossListExact
  BY DEF IInv, RcvGood
<1>. QED  BY <1>1, Invariance, PTL

\* No ACK or NAK between two correct ends is taken for an attack or a bug.
THEOREM NoFalseAlarmHolds == Spec => []NoFalseAlarm
<1>1. IInv => NoFalseAlarm
  BY DEF IInv, SndGood
<1>. QED  BY <1>1, Invariance, PTL

\* A packet in flight carries the block of its number.
THEOREM PacketCarriesItsBlockHolds == Spec => []PacketCarriesItsBlock
<1>1. IInv => PacketCarriesItsBlock
  BY DEF IInv, NetGood, NetInv, PacketCarriesItsBlock
<1>. QED  BY <1>1, Invariance, PTL

\* A sender with a loss to repair will send.
THEOREM NoStrandedLossHolds == Spec => []NoStrandedLoss
<1>1. IInv => NoStrandedLoss
  BY DEF IInv, SndGood
<1>. QED  BY <1>1, Invariance, PTL

\* What the sender has released, the receiver holds or has delivered: the
\* sender's last ACK trails the receiver's, and nothing before that is missing.
THEOREM ReleasedIsReceivedHolds == Spec => []ReleasedIsReceived
<1>1. IInv => ReleasedIsReceived
  <2>. SUFFICES ASSUME IInv, NEW b \in 0 .. sndFirst - 1, ~(b < rcvStartPos)
                PROVE  \E u \in rcvUnit : u.pos = b /\ u.block = b /\ b < rcvLastAckPos
    BY DEF ReleasedIsReceived
  <2>1. sndFirst <= rcvLastAckPos /\ rcvLastAckPos \in Int /\ rcvStartPos \in Int /\ sndFirst \in Int
    BY ConstantsAssumption DEF IInv, SndGood, SndTypeOK, SndInv, RcvGood, RcvTypeOK, RcvInv, Trail
  <2>2. b \in rcvStartPos .. rcvLastAckPos - 1
    BY <2>1
  <2>3. PICK u \in rcvUnit : u.pos = b
    BY <2>2 DEF IInv, RcvGood, NoHole, Held
  <2>4. u.block = b
    BY <2>3 DEF IInv, RcvGood, RcvInv
  <2>. QED  BY <2>1, <2>2, <2>3, <2>4
<1>. QED  BY <1>1, Invariance, PTL

\* What is acknowledged stays acknowledged, and the sender never believes more
\* than the receiver would say.
THEOREM AcksOnlyAdvanceHolds == Spec => AcksOnlyAdvance
<1>1. IInv /\ IInv' /\ [Next]_vars => /\ sndLastAck' >= sndLastAck
                                      /\ sndFirst' >= sndFirst
                                      /\ rcvLastAck' >= rcvLastAck
  <2>. SUFFICES ASSUME IInv, IInv', [Next]_vars
                PROVE  sndLastAck' >= sndLastAck /\ sndFirst' >= sndFirst /\ rcvLastAck' >= rcvLastAck
    OBVIOUS
  <2>0. /\ sndLastAck \in Int /\ sndFirst \in Int /\ rcvLastAck \in Int
        /\ liteNet \subseteq Int /\ \A m \in ackNet : m.ack \in Int
        /\ ackData \subseteq Int /\ sndLastDataAck \in Int
    <3>1. SndTypeOK /\ RcvTypeOK /\ NetTypeOK
      BY DEF IInv, SndGood, RcvGood, NetGood
    <3>2. sndLastAck \in Int /\ sndFirst \in Int /\ rcvLastAck \in Int /\ sndLastDataAck \in Int
      BY <3>1, ConstantsAssumption DEF SndTypeOK, RcvTypeOK
    <3>3. liteNet \subseteq Int /\ ackData \subseteq Int
      BY <3>1, ConstantsAssumption DEF SndTypeOK, NetTypeOK
    <3>4. \A m \in ackNet : m.ack \in 0 .. MaxBlocks
      BY <3>1 DEF NetTypeOK
    <3>. QED  BY <3>2, <3>3, <3>4, ConstantsAssumption
  <2>1. ASSUME NEW ack \in liteNet, RecvLiteAck(ack)
        PROVE  sndLastAck' >= sndLastAck /\ sndFirst' = sndFirst /\ rcvLastAck' = rcvLastAck
    BY <2>0, <2>1 DEF RecvLiteAck, IsNewAck, bufVars, rcvVars, rcvAckVars
  <2>2. CASE RecvAckAny
    <3>1. PICK m \in ackNet, syn \in BOOLEAN : RecvAck(m, syn)
      BY <2>2 DEF RecvAckAny
    <3>. QED  BY <2>0, <3>1 DEF RecvAck, IsNewAck, bufVars, rcvVars, rcvAckVars
  <2>3. CASE RecvAckLocked
    <3>1. sndFirst' >= sndFirst
      BY <2>0, <2>3 DEF RecvAckLocked
    <3>. QED  BY <2>0, <2>3, <3>1 DEF RecvAckLocked, rcvVars, rcvAckVars
  <2>4. CASE AckTimer
    <3>1. rcvLastAck' >= rcvLastAck
      BY <2>0, <2>4, AckNumberFacts DEF AckTimer, IInv
    <3>. QED  BY <2>0, <2>4, <3>1 DEF AckTimer, sndVars, bufVars, sndAckVars
  <2>5. CASE UNCHANGED <<sndLastAck, sndFirst, rcvLastAck>>
    BY <2>0, <2>5
  <2>6. \/ \E n \in 1 .. SndBufSize : Send(n)
        \/ PackPop \/ PackRetransmit \/ PackNew
        \/ \E nak \in nakNet : RecvNak(nak)
        \/ SndRecvKeepAlive \/ SndExpTimer
        \/ \E m \in dataNet : RecvData(m)
        \/ LiteAck \/ NakTimer \/ RecvAck2Any \/ RcvRecvKeepAlive \/ RcvExpTimer
        \/ \E k \in 1 .. RcvBufSize : Recv(k)
        \/ Lose \/ UNCHANGED vars
        => UNCHANGED <<sndLastAck, sndFirst, rcvLastAck>>
    BY DEF Send, PackPop, PackRetransmit, PackNew, RecvNak, SndRecvKeepAlive, SndExpTimer, RecvData,
           LiteAck, NakTimer, RecvAck2Any, RecvAck2, RcvRecvKeepAlive, RcvExpTimer, Recv, Lose,
           vars, sndVars, rcvVars, bufVars, sndAckVars, rcvAckVars
  <2>. QED  BY <2>0, <2>1, <2>2, <2>3, <2>4, <2>5, <2>6 DEF Next
<1>2. IInv' => \A a \in AckNumber' : sndLastAck' <= a /\ sndFirst' <= rcvLastAck'
  BY DEF IInv, Trail, SndGood, SndInv, Contiguous, AckNumber
<1>3. IInv /\ IInv' /\ [Next]_vars
      => [/\ sndLastAck' >= sndLastAck /\ sndFirst' >= sndFirst /\ rcvLastAck' >= rcvLastAck
          /\ \A a \in AckNumber' : sndLastAck' <= a /\ sndFirst' <= rcvLastAck']_vars
  BY <1>1, <1>2
<1>. QED  BY <1>3, Invariance, PTL DEF Spec, AcksOnlyAdvance

-----------------------------------------------------------------------------
(* Refinement: Send writes, Recv delivers, every other step stutters.      *)

\* The connection implements the reliable stream.
THEOREM Refinement == Spec => StreamSpec
<1>1. Init => Stream!Init
  BY DEF Init, Stream!Init
<1>2. IInv /\ IInv' /\ [Next]_vars => [Stream!Next]_<<sndLast, delivered>>
  <2>. SUFFICES ASSUME IInv, IInv', [Next]_vars
                PROVE  Stream!Next \/ UNCHANGED <<sndLast, delivered>>
    OBVIOUS
  <2>1. ASSUME NEW n \in 1 .. SndBufSize, Send(n) PROVE Stream!Write
    <3>1. sndLast \in Int /\ n \in Int /\ n > 0
      BY ConstantsAssumption DEF IInv, SndGood, SndTypeOK
    <3>. QED  BY <2>1, <3>1 DEF Send, Stream!Write, rcvVars
  <2>2. ASSUME NEW k \in 1 .. RcvBufSize, Recv(k) PROVE Stream!Deliver
    <3>1. /\ rcvStartPos \in Nat /\ rcvStartPos' \in Nat /\ k \in Nat /\ k > 0
          /\ rcvStartPos' = rcvStartPos + k /\ sndLast' = sndLast
      BY <2>2, ConstantsAssumption DEF IInv, RcvGood, RcvTypeOK, Recv, sndVars, bufVars
    <3>2. /\ delivered = [i \in 1 .. rcvStartPos |-> i - 1]
          /\ delivered' = [i \in 1 .. rcvStartPos' |-> i - 1]
      BY DEF IInv, RcvGood, StreamIntegrity
    <3>3. Len(delivered) = rcvStartPos /\ Len(delivered') = rcvStartPos'
      BY <3>1, <3>2
    <3>4. rcvStartPos' <= sndLast
      <4>1. /\ rcvStartPos' \in Int /\ rcvLastAck' \in Int /\ rcvCurrSeqNo' \in Int /\ sndCurrSeqNo' \in Int
            /\ sndLast' \in Int /\ sndCurrBlock' \in Int
        BY ConstantsAssumption DEF IInv, RcvGood, RcvTypeOK, SndGood, SndTypeOK, Numbers
      <4>2. /\ rcvStartPos' <= rcvLastAck' /\ rcvLastAck' <= rcvCurrSeqNo' + 1
            /\ rcvCurrSeqNo' <= sndCurrSeqNo' /\ sndCurrBlock' = sndCurrSeqNo' + 1 /\ sndCurrBlock' <= sndLast'
        BY DEF IInv, RcvGood, RcvInv, Trail, SndGood, SndInv
      <4>3. \A a, b, c, d, e, f \in Int : a <= b /\ b <= c + 1 /\ c <= d /\ e = d + 1 /\ e <= f => a <= f
        OBVIOUS
      <4>4. rcvStartPos' <= sndLast'
        BY <4>1, <4>2, <4>3
      <4>. QED  BY <3>1, <4>4
    <3>. QED  BY <3>1, <3>2, <3>3, <3>4, ConstantsAssumption DEF IInv, SndGood, SndTypeOK, Stream!Deliver
  <2>3. \/ PackPop \/ PackRetransmit \/ PackNew
        \/ \E ack \in liteNet : RecvLiteAck(ack)
        \/ RecvAckAny \/ RecvAckLocked
        \/ \E nak \in nakNet : RecvNak(nak)
        \/ SndRecvKeepAlive \/ SndExpTimer
        => UNCHANGED <<sndLast, delivered>>
    BY DEF PackPop, PackRetransmit, PackNew, RecvLiteAck, RecvAckAny, RecvAck, RecvAckLocked, RecvNak,
           SndRecvKeepAlive, SndExpTimer, rcvVars, bufVars
  <2>4. \/ \E m \in dataNet : RecvData(m)
        \/ AckTimer \/ LiteAck \/ NakTimer \/ RecvAck2Any
        \/ RcvRecvKeepAlive \/ RcvExpTimer
        \/ Lose \/ UNCHANGED vars
        => UNCHANGED <<sndLast, delivered>>
    BY DEF RecvData, AckTimer, LiteAck, NakTimer, RecvAck2Any, RecvAck2, RcvRecvKeepAlive, RcvExpTimer,
           Lose, vars, sndVars, rcvVars, bufVars
  <2>. QED  BY <2>1, <2>2, <2>3, <2>4 DEF Next, Stream!Next
<1>. QED  BY <1>1, <1>2, Invariance, PTL DEF Spec, StreamSpec, Stream!Spec

-----------------------------------------------------------------------------
(* The sender's loss list has room, for every size of the windows and      *)
(* buffers in which the receiver's buffer is no larger than the flow       *)
(* window agreed on at set-up, as setOpt sees to.                          *)
(*                                                                         *)
(* The invariant bounds how far the sender runs ahead of the blocks it     *)
(* keeps.  Light ACKs move sndLastAck and not sndLastDataAck, packData     *)
(* compares a window it read before with an acknowledged number it reads   *)
(* after, and a full ACK moves the two numbers in two steps: so the        *)
(* distance reaches twice the flow window, and no more.                    *)

WindowAssumed == FlightFlagSize >= 2 /\ RcvBufSize - 1 <= FlightFlagSize

\* The full ACKs handled so far, the one between its two halves included, reach n.
AckedUpTo(n) == n <= sndLastDataAck \/ \E a \in ackData : n <= a

WindowInv ==
    /\ \A a, b \in ackData : a = b
    /\ \A m \in ackNet : m.wnd <= FlightFlagSize
    /\ AckedUpTo(sndLastAck + flowWindow - FlightFlagSize)
    /\ sndCurrSeqNo + 1 - sndLastAck <= FlightFlagSize
    /\ AckedUpTo(sndCurrSeqNo + 1 - 2 * FlightFlagSize)
    /\ packPC = "new" => /\ packArg <= FlightFlagSize
                         /\ AckedUpTo(packArg + sndCurrSeqNo + 1 - 2 * FlightFlagSize)
    /\ LossListFits

\* What the invariant speaks of are numbers.
LEMMA NumbersAre ==
    ASSUME IInv
    PROVE  /\ sndLastAck \in Int /\ sndLastDataAck \in Int /\ sndCurrSeqNo \in Int
           /\ flowWindow \in Int /\ packArg \in Int /\ FlightFlagSize \in Int
           /\ ackData \subseteq Int /\ sndLossList \subseteq Int
           /\ sndLastDataAck <= sndLastAck /\ sndLastAck <= sndCurrSeqNo + 1
           /\ \A a \in ackData : a <= sndLastAck
           /\ \A s \in sndLossList : s <= sndCurrSeqNo
<1>1. SndTypeOK /\ SndInv
  BY DEF IInv, SndGood
<1>2. /\ sndLastAck \in Int /\ sndLastDataAck \in Int /\ sndCurrSeqNo \in Int
      /\ flowWindow \in Int /\ packArg \in Int /\ FlightFlagSize \in Int
  BY <1>1, ConstantsAssumption DEF SndTypeOK, Numbers
<1>3. ackData \subseteq Int /\ sndLossList \subseteq Int
  BY <1>1, ConstantsAssumption DEF SndTypeOK, Blocks
<1>. QED  BY <1>1, <1>2, <1>3 DEF SndInv

\* A step of others than the sender's windows, its loss list and the ACKs sent.
LEMMA WindowUnchanged ==
    ASSUME WindowInv, ackNet' \subseteq ackNet,
           UNCHANGED <<sndLastAck, sndLastDataAck, sndCurrSeqNo, flowWindow, sndLossList,
                       packPC, packArg, ackData>>
    PROVE  WindowInv'
  BY DEF WindowInv, AckedUpTo, LossListFits

LEMMA InitWindow == Init => WindowInv
<1>1. FlightFlagSize \in Nat
  BY ConstantsAssumption
<1>. QED  BY <1>1 DEF Init, WindowInv, AckedUpTo, LossListFits

\* The window read is the window of now: the sender is within it twice.
LEMMA PackPopWindow ==
    ASSUME IInv, WindowInv, PackPop
    PROVE  WindowInv'
<1>. USE NumbersAre
<1>1. /\ UNCHANGED <<sndLastAck, sndLastDataAck, sndCurrSeqNo, flowWindow, ackData, ackNet>>
      /\ sndLossList' \subseteq sndLossList
  BY DEF PackPop, sndAckVars, netVars
<1>2. \A n : AckedUpTo(n)' <=> AckedUpTo(n)
  BY <1>1 DEF AckedUpTo
<1>3. LossListFits'
  BY <1>1 DEF WindowInv, LossListFits
<1>4. ASSUME packPC' = "new"
      PROVE  /\ packArg' <= FlightFlagSize
             /\ AckedUpTo(packArg' + sndCurrSeqNo + 1 - 2 * FlightFlagSize)
  <2>1. packArg' = Cwnd \/ UNCHANGED <<packPC, packArg>>
    BY <1>4 DEF PackPop, packVars
  <2>2. packPC = "idle" /\ packArg' = Cwnd
    BY <1>4, <2>1 DEF PackPop
  <2>3. packArg' \in Int /\ packArg' <= flowWindow
    BY <2>2, ConstantsAssumption DEF Cwnd
  <2>4. AckedUpTo(sndLastAck + flowWindow - FlightFlagSize) /\ sndCurrSeqNo + 1 - sndLastAck <= FlightFlagSize
    BY DEF WindowInv
  <2>. QED  BY <2>3, <2>4 DEF AckedUpTo
<1>. QED  BY <1>1, <1>2, <1>3, <1>4 DEF WindowInv

\* A new packet is within the window read, counted from the number read after it.
LEMMA PackNewWindow ==
    ASSUME IInv, WindowInv, PackNew
    PROVE  WindowInv'
<1>. USE NumbersAre
<1>1. /\ UNCHANGED <<sndLastAck, sndLastDataAck, flowWindow, sndLossList, ackData, ackNet>>
      /\ packPC = "new" /\ packPC' = "idle"
  BY DEF PackNew, sndAckVars
<1>2. \/ sndCurrSeqNo' = sndCurrSeqNo
      \/ packArg >= sndCurrSeqNo + 1 - sndLastAck + 1 /\ sndCurrSeqNo' = sndCurrSeqNo + 1
  BY DEF PackNew
<1>3. /\ packArg <= FlightFlagSize
      /\ AckedUpTo(packArg + sndCurrSeqNo + 1 - 2 * FlightFlagSize)
  BY <1>1 DEF WindowInv
<1>4. sndCurrSeqNo' + 1 - sndLastAck <= FlightFlagSize
  BY <1>2, <1>3 DEF WindowInv
<1>5. AckedUpTo(sndCurrSeqNo' + 1 - 2 * FlightFlagSize)
  <2>1. CASE sndCurrSeqNo' = sndCurrSeqNo
    BY <2>1 DEF WindowInv
  <2>2. CASE packArg >= sndCurrSeqNo + 1 - sndLastAck + 1 /\ sndCurrSeqNo' = sndCurrSeqNo + 1
    <3>1. packArg >= 1
      BY <2>2
    <3>. QED  BY <1>3, <2>2, <3>1 DEF AckedUpTo
  <2>. QED  BY <1>2, <2>1, <2>2
<1>. QED  BY <1>1, <1>4, <1>5 DEF WindowInv, AckedUpTo, LossListFits

\* A light ACK takes off the window what it adds to the number.
LEMMA RecvLiteAckWindow ==
    ASSUME IInv, WindowInv, NEW ack \in liteNet, RecvLiteAck(ack)
    PROVE  WindowInv'
<1>. USE NumbersAre
<1>1. ack \in Int
  BY ConstantsAssumption DEF IInv, NetGood, NetTypeOK
<1>2. /\ UNCHANGED <<sndLastDataAck, sndCurrSeqNo, sndLossList, packPC, packArg, ackData, ackNet>>
      /\ \/ sndLastAck' = ack /\ ack >= sndLastAck /\ flowWindow' = flowWindow - (ack - sndLastAck)
         \/ sndLastAck' = sndLastAck /\ flowWindow' = flowWindow
  BY DEF RecvLiteAck, IsNewAck, WindowAfterLiteAck, packVars
<1>3. sndLastAck' + flowWindow' = sndLastAck + flowWindow /\ sndLastAck' >= sndLastAck
      /\ sndLastAck' \in Int /\ flowWindow' \in Int
  BY <1>1, <1>2
<1>. QED  BY <1>2, <1>3 DEF WindowInv, AckedUpTo, LossListFits

\* A full ACK brings a window no larger than the receiver's buffer.
LEMMA RecvAckWindow ==
    ASSUME IInv, WindowInv, NEW m \in ackNet, NEW syn \in BOOLEAN, RecvAck(m, syn)
    PROVE  WindowInv'
<1>. USE NumbersAre
<1>1. m.ack \in Int /\ m.wnd \in Int /\ m.wnd <= FlightFlagSize
  BY ConstantsAssumption DEF IInv, NetGood, NetTypeOK, WindowInv
<1>2. /\ UNCHANGED <<sndLastDataAck, sndCurrSeqNo, sndLossList, packPC, packArg>>
      /\ ackNet' \subseteq ackNet /\ ackData = {}
      /\ \/ ackData' = {m.ack}
         \/ ackData' = ackData /\ sndLastAck' = sndLastAck /\ flowWindow' = flowWindow
      /\ \/ /\ ackData' = {m.ack} /\ sndLastAck' = m.ack /\ m.ack >= sndLastAck
            /\ flowWindow' = m.wnd
         \/ sndLastAck' = sndLastAck /\ flowWindow' = flowWindow
  BY DEF RecvAck, SenderHandles, IsNewAck, Left, packVars
<1>3. \A n \in Int : AckedUpTo(n) => AckedUpTo(n)'
  BY <1>2 DEF AckedUpTo
<1>4. AckedUpTo(sndLastAck + flowWindow - FlightFlagSize)'
  <2>1. CASE ackData' = {m.ack} /\ sndLastAck' = m.ack /\ flowWindow' = m.wnd
    BY <1>1, <2>1 DEF AckedUpTo
  <2>2. CASE sndLastAck' = sndLastAck /\ flowWindow' = flowWindow
    BY <1>2, <1>3, <2>2 DEF WindowInv, AckedUpTo
  <2>. QED  BY <1>2, <2>1, <2>2
<1>5. sndCurrSeqNo' + 1 - sndLastAck' <= FlightFlagSize
  BY <1>1, <1>2 DEF WindowInv
<1>6. /\ AckedUpTo(sndCurrSeqNo + 1 - 2 * FlightFlagSize)'
      /\ packPC' = "new" => AckedUpTo(packArg + sndCurrSeqNo + 1 - 2 * FlightFlagSize)'
  BY <1>2 DEF WindowInv, AckedUpTo
<1>. QED  BY <1>2, <1>4, <1>5, <1>6 DEF WindowInv, LossListFits

LEMMA RecvAckLockedWindow ==
    ASSUME IInv, WindowInv, RecvAckLocked
    PROVE  WindowInv'
<1>. USE NumbersAre
<1>1. /\ UNCHANGED <<sndLastAck, flowWindow, sndCurrSeqNo, packPC, packArg, ackNet>>
      /\ ackData' = {}
  BY DEF RecvAckLocked, packVars, netVars
<1>2. PICK ack \in ackData :
        \/ ack <= sndLastDataAck /\ UNCHANGED <<sndLastDataAck, sndLossList>>
        \/ ack > sndLastDataAck /\ sndLastDataAck' = ack /\ sndLossList' \subseteq sndLossList
  BY DEF RecvAckLocked
<1>3. \A a \in ackData : a = ack
  BY <1>2 DEF WindowInv
<1>4. sndLastDataAck' \in Int /\ sndLastDataAck' >= sndLastDataAck /\ sndLastDataAck' >= ack
  BY <1>2
<1>5. \A n \in Int : AckedUpTo(n) => n <= sndLastDataAck'
  BY <1>3, <1>4 DEF AckedUpTo
<1>6. LossListFits'
  <2>1. sndLossList' \subseteq sndLossList
    BY <1>2
  <2>. QED  BY <1>4, <2>1 DEF WindowInv, LossListFits
<1>. QED  BY <1>1, <1>5, <1>6 DEF WindowInv, AckedUpTo

\* Losses enter the list only while no ACK is between its halves.
LEMMA EnterLosses ==
    ASSUME IInv, WindowInv, IInv', ackData = {}, ackNet' \subseteq ackNet,
           UNCHANGED <<sndLastAck, sndLastDataAck, sndCurrSeqNo, flowWindow, packPC, packArg, ackData>>
    PROVE  WindowInv'
<1>. USE NumbersAre
<1>1. \A s \in sndLossList' : s \in Int /\ s <= sndCurrSeqNo
  <2>1. SndTypeOK' /\ SndInv'
    BY DEF IInv, SndGood
  <2>. QED  BY <2>1, ConstantsAssumption DEF SndTypeOK, SndInv, Blocks
<1>2. sndCurrSeqNo + 1 - 2 * FlightFlagSize <= sndLastDataAck
  BY DEF WindowInv, AckedUpTo
<1>3. LossListFits'
  BY <1>1, <1>2 DEF LossListFits
<1>. QED  BY <1>3 DEF WindowInv, AckedUpTo

\* The receiver never advertises more than its buffer can hold.
LEMMA AckTimerWindow ==
    ASSUME WindowAssumed, IInv, WindowInv, AckTimer
    PROVE  WindowInv'
<1>. USE NumbersAre
<1>1. UNCHANGED <<sndLastAck, sndLastDataAck, sndCurrSeqNo, flowWindow, sndLossList, packPC, packArg, ackData>>
  BY DEF AckTimer, sndVars, sndAckVars, packVars
<1>2. AvailBufSize \in Int /\ AvailBufSize <= RcvBufSize - 1
  BY ConstantsAssumption DEF IInv, RcvGood, RcvTypeOK, RcvInv, AvailBufSize
<1>3. PICK ack \in AckNumber :
        \/ ack > rcvLastAck /\ SendAck(ack, AvailBufSize - (ack - rcvLastAck))
        \/ SendAck(ack, AvailBufSize)
  BY DEF AckTimer
<1>4. ack \in Int /\ rcvLastAck \in Int
  BY <1>3, AckNumberFacts, ConstantsAssumption DEF IInv, RcvGood, RcvTypeOK
<1>5. PICK avail \in Int : avail <= RcvBufSize - 1 /\ SendAck(ack, avail)
  <2>1. CASE ack > rcvLastAck /\ SendAck(ack, AvailBufSize - (ack - rcvLastAck))
    BY <1>2, <1>4, <2>1, ConstantsAssumption
  <2>2. CASE SendAck(ack, AvailBufSize)
    BY <1>2, <2>2
  <2>. QED  BY <1>3, <2>1, <2>2
<1>6. AdvertisedWindow(avail) <= FlightFlagSize
  BY <1>5, ConstantsAssumption DEF AdvertisedWindow, WindowAssumed
<1>7. \A m \in ackNet' : m.wnd <= FlightFlagSize
  BY <1>5, <1>6 DEF SendAck, WindowInv
<1>. QED  BY <1>1, <1>7 DEF WindowInv, AckedUpTo, LossListFits

LEMMA NextWindow ==
    ASSUME WindowAssumed, IInv, IInv', WindowInv, [Next]_vars
    PROVE  WindowInv'
<1>1. CASE PackPop
  BY <1>1, PackPopWindow
<1>2. CASE PackNew
  BY <1>2, PackNewWindow
<1>3. ASSUME NEW ack \in liteNet, RecvLiteAck(ack) PROVE WindowInv'
  BY <1>3, RecvLiteAckWindow
<1>4. CASE RecvAckAny
  <2>1. PICK m \in ackNet, syn \in BOOLEAN : RecvAck(m, syn)
    BY <1>4 DEF RecvAckAny
  <2>. QED  BY <2>1, RecvAckWindow
<1>5. CASE RecvAckLocked
  BY <1>5, RecvAckLockedWindow
<1>6. ASSUME NEW nak \in nakNet, RecvNak(nak) PROVE WindowInv'
  BY <1>6, EnterLosses DEF RecvNak, SenderHandles, sndAckVars, packVars
<1>7. CASE SndExpTimer
  BY <1>7, EnterLosses DEF SndExpTimer, SenderHandles, sndAckVars, packVars
<1>8. CASE AckTimer
  BY <1>8, AckTimerWindow
<1>9. CASE PackRetransmit
  <2>1. packPC' = "idle" /\ UNCHANGED <<sndLastAck, sndLastDataAck, sndCurrSeqNo, flowWindow,
                                        sndLossList, ackData, ackNet>>
    BY <1>9 DEF PackRetransmit, sndAckVars
  <2>. QED  BY <2>1 DEF WindowInv, AckedUpTo, LossListFits
<1>10. \/ \E n \in 1 .. SndBufSize : Send(n)
       \/ SndRecvKeepAlive
       \/ \E m \in dataNet : RecvData(m)
       \/ LiteAck \/ NakTimer \/ RecvAck2Any
       \/ RcvRecvKeepAlive \/ RcvExpTimer
       \/ \E k \in 1 .. RcvBufSize : Recv(k)
       \/ Lose \/ UNCHANGED vars
       => /\ ackNet' \subseteq ackNet
          /\ UNCHANGED <<sndLastAck, sndLastDataAck, sndCurrSeqNo, flowWindow, sndLossList,
                         packPC, packArg, ackData>>
  BY DEF Send, SndRecvKeepAlive, RecvData, LiteAck, NakTimer, RecvAck2Any, RecvAck2, RcvRecvKeepAlive,
         RcvExpTimer, Recv, Lose, vars, sndVars, sndAckVars, packVars, netVars
<1>. QED
  BY <1>1, <1>2, <1>3, <1>4, <1>5, <1>6, <1>7, <1>8, <1>9, <1>10, WindowUnchanged DEF Next

\* The sender's loss list never holds a number further from the first block
\* kept than its array is long: getLostSeq and insert index inside it.
THEOREM LossListFitsHolds ==
    ASSUME WindowAssumed
    PROVE  Spec => []LossListFits
<1>1. Spec => [](IInv /\ WindowInv)
  <2>1. Init => WindowInv
    BY InitWindow
  <2>2. IInv /\ IInv' /\ WindowInv /\ [Next]_vars => WindowInv'
    BY NextWindow
  <2>. QED  BY <2>1, <2>2, Invariance, PTL DEF Spec
<1>2. WindowInv => LossListFits
  BY DEF WindowInv
<1>. QED  BY <1>1, <1>2, PTL

-----------------------------------------------------------------------------
(* What CSeqNo's operations mean: they agree with counting on, as long as  *)
(* the two numbers are less than the threshold apart.                      *)
(*                                                                         *)
(* OnLap says with a product what NumberOf says with a remainder: packet n *)
(* has the number a when they differ by whole laps.  The lemmas speak of   *)
(* OnLap, the theorems of NumberOf.                                        *)

Lap == MaxSeqNo + 1

\* The packet counted n, on lap k, has the sequence number a.
OnLap(n, k, a) == n \in Int /\ k \in Int /\ a \in SeqNos /\ n = k * Lap + a

\* The threshold is half the largest number, rounded down.
LEMMA Threshold ==
    /\ MaxSeqNo \in Nat /\ SeqNoTH \in Nat
    /\ SeqNoTH >= 1 /\ 2 * SeqNoTH + 1 = MaxSeqNo
  BY SeqNoAssumption DEF SeqNoTH

LEMMA NumberOnLap ==
    ASSUME NEW n \in Int
    PROVE  \E k \in Int : OnLap(n, k, NumberOf(n))
<1>1. Lap \in Nat \ {0} /\ Lap = MaxSeqNo + 1
  BY SeqNoAssumption DEF Lap
<1>2. n = (Lap * (n \div Lap)) + (n % Lap) /\ n % Lap \in 0 .. Lap - 1 /\ n \div Lap \in Int
  BY <1>1, SMTT(60)
<1>3. NumberOf(n) = n % Lap
  BY DEF NumberOf, Lap
<1>4. NumberOf(n) \in SeqNos
  BY <1>1, <1>2, <1>3, SeqNoAssumption DEF SeqNos
<1>5. n = (n \div Lap) * Lap + NumberOf(n)
  BY <1>1, <1>2, <1>3, <1>4
<1>6. OnLap(n, n \div Lap, NumberOf(n))
  BY <1>2, <1>4, <1>5 DEF OnLap
<1>. QED  BY <1>2, <1>6

\* Two packets nearer than the threshold are on the same lap or on neighbouring ones.
LEMMA NearLaps ==
    ASSUME NEW n, NEW m, NEW k, NEW l, NEW a, NEW b,
           OnLap(n, k, a), OnLap(m, l, b), n - m < SeqNoTH, m - n < SeqNoTH
    PROVE  \/ l = k /\ m - n = b - a
           \/ l = k + 1 /\ m - n = b - a + MaxSeqNo + 1 /\ a - b > SeqNoTH
           \/ l = k - 1 /\ m - n = b - a - MaxSeqNo - 1 /\ b - a > SeqNoTH
<1>. USE Threshold
<1>1. a \in Nat /\ b \in Nat /\ a <= MaxSeqNo /\ b <= MaxSeqNo /\ Lap \in Nat /\ Lap = MaxSeqNo + 1
  BY DEF OnLap, SeqNos, Lap
<1>2. k \in Int /\ l \in Int /\ n \in Int /\ m \in Int /\ n = k * Lap + a /\ m = l * Lap + b
  BY DEF OnLap
<1>3. m - n = (l - k) * Lap + (b - a)
  BY <1>1, <1>2
<1>4. ~(l - k >= 2)
  <2>. SUFFICES ASSUME l - k >= 2 PROVE FALSE
    OBVIOUS
  <2>1. (l - k) * Lap >= 2 * Lap
    BY <1>1, <1>2
  <2>. QED  BY <1>1, <1>2, <1>3, <2>1
<1>5. ~(k - l >= 2)
  <2>. SUFFICES ASSUME k - l >= 2 PROVE FALSE
    OBVIOUS
  <2>1. (k - l) * Lap >= 2 * Lap
    BY <1>1, <1>2
  <2>2. n - m = (k - l) * Lap + (a - b)
    BY <1>1, <1>2
  <2>. QED  BY <1>1, <1>2, <2>1, <2>2
<1>6. l = k \/ l = k + 1 \/ l = k - 1
  BY <1>2, <1>4, <1>5
<1>7. CASE l = k
  BY <1>1, <1>2, <1>3, <1>7
<1>8. CASE l = k + 1
  <2>1. m - n = Lap + (b - a)
    BY <1>1, <1>2, <1>3, <1>8
  <2>. QED  BY <1>1, <1>2, <1>8, <2>1
<1>9. CASE l = k - 1
  <2>1. m - n = (b - a) - Lap
    BY <1>1, <1>2, <1>3, <1>9
  <2>. QED  BY <1>1, <1>2, <1>9, <2>1
<1>. QED  BY <1>6, <1>7, <1>8, <1>9

LEMMA SeqcmpOnLaps ==
    ASSUME NEW n, NEW m, NEW k, NEW l, NEW a, NEW b,
           OnLap(n, k, a), OnLap(m, l, b), n - m < SeqNoTH, m - n < SeqNoTH
    PROVE  /\ seqcmp(a, b) < 0 <=> n < m
           /\ seqcmp(a, b) = 0 <=> n = m
           /\ seqcmp(a, b) > 0 <=> n > m
<1>. USE Threshold
<1>1. a \in 0 .. MaxSeqNo /\ b \in 0 .. MaxSeqNo /\ n \in Int /\ m \in Int
  BY DEF OnLap, SeqNos
<1>2. CASE m - n = b - a
  BY <1>1, <1>2 DEF seqcmp, Distance
<1>3. CASE m - n = b - a + MaxSeqNo + 1 /\ a - b > SeqNoTH
  <2>1. seqcmp(a, b) = b - a
    BY <1>1, <1>3 DEF seqcmp, Distance
  <2>2. b - a < 0 /\ n < m
    BY <1>1, <1>3
  <2>. QED  BY <1>1, <2>1, <2>2
<1>4. CASE m - n = b - a - MaxSeqNo - 1 /\ b - a > SeqNoTH
  <2>1. seqcmp(a, b) = b - a
    BY <1>1, <1>4 DEF seqcmp, Distance
  <2>2. b - a > 0 /\ n > m
    BY <1>1, <1>4
  <2>. QED  BY <1>1, <2>1, <2>2
<1>. QED  BY <1>2, <1>3, <1>4, NearLaps

LEMMA SeqoffOnLaps ==
    ASSUME NEW n, NEW m, NEW k, NEW l, NEW a, NEW b,
           OnLap(n, k, a), OnLap(m, l, b), n - m < SeqNoTH, m - n < SeqNoTH
    PROVE  seqoff(a, b) = m - n
<1>1. a \in Int /\ b \in Int /\ n \in Int /\ m \in Int
  BY Threshold DEF OnLap, SeqNos
<1>. QED  BY <1>1, NearLaps, Threshold DEF seqoff, Distance

LEMMA SeqlenOnLaps ==
    ASSUME NEW n, NEW m, NEW k, NEW l, NEW a, NEW b,
           OnLap(n, k, a), OnLap(m, l, b), n <= m, m - n <= MaxSeqNo
    PROVE  seqlen(a, b) = m - n + 1
<1>. USE Threshold
<1>1. a \in Nat /\ b \in Nat /\ a <= MaxSeqNo /\ b <= MaxSeqNo /\ Lap \in Nat /\ Lap = MaxSeqNo + 1
  BY DEF OnLap, SeqNos, Lap
<1>2. k \in Int /\ l \in Int /\ n \in Int /\ m \in Int /\ n = k * Lap + a /\ m = l * Lap + b
  BY DEF OnLap
<1>3. m - n = (l - k) * Lap + (b - a)
  BY <1>1, <1>2
<1>4. ~(l - k >= 2)
  <2>. SUFFICES ASSUME l - k >= 2 PROVE FALSE
    OBVIOUS
  <2>1. (l - k) * Lap >= 2 * Lap
    BY <1>1, <1>2
  <2>. QED  BY <1>1, <1>2, <1>3, <2>1
<1>5. ~(k - l >= 1)
  <2>. SUFFICES ASSUME k - l >= 1 PROVE FALSE
    OBVIOUS
  <2>1. (k - l) * Lap >= Lap
    BY <1>1, <1>2
  <2>2. n - m = (k - l) * Lap + (a - b)
    BY <1>1, <1>2
  <2>. QED  BY <1>1, <1>2, <2>1, <2>2
<1>6. CASE l = k
  <2>1. m - n = b - a
    BY <1>1, <1>2, <1>3, <1>6
  <2>. QED  BY <1>1, <1>2, <2>1 DEF seqlen
<1>7. CASE l = k + 1
  <2>1. m - n = Lap + (b - a)
    BY <1>1, <1>2, <1>3, <1>7
  <2>. QED  BY <1>1, <1>2, <2>1 DEF seqlen
<1>. QED  BY <1>2, <1>4, <1>5, <1>6, <1>7

LEMMA IncseqOnLaps ==
    ASSUME NEW n, NEW k, NEW a, OnLap(n, k, a)
    PROVE  /\ \E l \in Int : OnLap(n + 1, l, incseq(a))
           /\ \E l \in Int : OnLap(n - 1, l, decseq(a))
<1>. USE Threshold
<1>1. a \in Nat /\ a <= MaxSeqNo /\ k \in Int /\ n \in Int /\ n = k * Lap + a /\ Lap = MaxSeqNo + 1
  BY DEF OnLap, SeqNos, Lap
<1>2. (k + 1) * Lap = k * Lap + Lap /\ (k - 1) * Lap = k * Lap - Lap
  BY <1>1
<1>3. \E l \in Int : OnLap(n + 1, l, incseq(a))
  <2>1. CASE a = MaxSeqNo
    <3>1. OnLap(n + 1, k + 1, incseq(a))
      BY <1>1, <1>2, <2>1 DEF OnLap, SeqNos, incseq
    <3>. QED  BY <1>1, <3>1
  <2>2. CASE a # MaxSeqNo
    <3>1. OnLap(n + 1, k, incseq(a))
      BY <1>1, <2>2 DEF OnLap, SeqNos, incseq
    <3>. QED  BY <1>1, <3>1
  <2>. QED  BY <2>1, <2>2
<1>4. \E l \in Int : OnLap(n - 1, l, decseq(a))
  <2>1. CASE a = 0
    <3>1. OnLap(n - 1, k - 1, decseq(a))
      BY <1>1, <1>2, <2>1 DEF OnLap, SeqNos, decseq
    <3>. QED  BY <1>1, <3>1
  <2>2. CASE a # 0
    <3>1. OnLap(n - 1, k, decseq(a))
      BY <1>1, <2>2 DEF OnLap, SeqNos, decseq
    <3>. QED  BY <1>1, <3>1
  <2>. QED  BY <2>1, <2>2
<1>. QED  BY <1>3, <1>4

LEMMA IncseqByOnLaps ==
    ASSUME NEW n, NEW k, NEW a, NEW inc \in 0 .. MaxSeqNo, OnLap(n, k, a)
    PROVE  \E l \in Int : OnLap(n + inc, l, incseqBy(a, inc))
<1>. USE Threshold
<1>1. a \in Nat /\ a <= MaxSeqNo /\ k \in Int /\ n \in Int /\ n = k * Lap + a /\ Lap = MaxSeqNo + 1
  BY DEF OnLap, SeqNos, Lap
<1>2. (k + 1) * Lap = k * Lap + Lap
  BY <1>1
<1>3. CASE MaxSeqNo - a >= inc
  <2>1. OnLap(n + inc, k, incseqBy(a, inc))
    BY <1>1, <1>3 DEF OnLap, SeqNos, incseqBy
  <2>. QED  BY <1>1, <2>1
<1>4. CASE ~(MaxSeqNo - a >= inc)
  <2>1. OnLap(n + inc, k + 1, incseqBy(a, inc))
    BY <1>1, <1>2, <1>4 DEF OnLap, SeqNos, incseqBy
  <2>. QED  BY <1>1, <2>1
<1>. QED  BY <1>3, <1>4

\* A packet has one number.
LEMMA OnLapUnique ==
    ASSUME NEW n, NEW k, NEW l, NEW a, NEW b, OnLap(n, k, a), OnLap(n, l, b)
    PROVE  a = b
<1>1. n \in Int /\ a \in 0 .. MaxSeqNo /\ b \in 0 .. MaxSeqNo
  BY DEF OnLap, SeqNos
<1>. QED  BY <1>1, NearLaps, Threshold

-----------------------------------------------------------------------------
\* seqcmp tells which of two packets comes first, though the numbers have wrapped
\* between them: the checks of processData and of the loss lists rest on it.
THEOREM SeqcmpOrders ==
    ASSUME NEW n \in Int, NEW m \in Int, n - m < SeqNoTH, m - n < SeqNoTH
    PROVE  /\ seqcmp(NumberOf(n), NumberOf(m)) < 0 <=> n < m
           /\ seqcmp(NumberOf(n), NumberOf(m)) = 0 <=> n = m
           /\ seqcmp(NumberOf(n), NumberOf(m)) > 0 <=> n > m
<1>1. PICK k \in Int, l \in Int : OnLap(n, k, NumberOf(n)) /\ OnLap(m, l, NumberOf(m))
  BY NumberOnLap
<1>. QED  BY <1>1, SeqcmpOnLaps

\* seqoff is how far the second packet is from the first, forward or backward: the
\* offsets into the receiver's buffer and the loss lists' arrays.
THEOREM SeqoffCounts ==
    ASSUME NEW n \in Int, NEW m \in Int, n - m < SeqNoTH, m - n < SeqNoTH
    PROVE  seqoff(NumberOf(n), NumberOf(m)) = m - n
<1>1. PICK k \in Int, l \in Int : OnLap(n, k, NumberOf(n)) /\ OnLap(m, l, NumberOf(m))
  BY NumberOnLap
<1>. QED  BY <1>1, SeqoffOnLaps

\* seqlen counts the packets of a range, of whatever length up to a whole lap: the
\* window check of packData and what the loss lists add to their length.
THEOREM SeqlenCounts ==
    ASSUME NEW n \in Int, NEW m \in Int, n <= m, m - n <= MaxSeqNo
    PROVE  seqlen(NumberOf(n), NumberOf(m)) = m - n + 1
<1>1. PICK k \in Int, l \in Int : OnLap(n, k, NumberOf(n)) /\ OnLap(m, l, NumberOf(m))
  BY NumberOnLap
<1>. QED  BY <1>1, SeqlenOnLaps

\* incseq and decseq give the number of the next packet and of the one before, and
\* incseq by a number of packets gives that packet's.
THEOREM IncseqAdvances ==
    ASSUME NEW n \in Int, NEW inc \in 0 .. MaxSeqNo
    PROVE  /\ incseq(NumberOf(n)) = NumberOf(n + 1)
           /\ decseq(NumberOf(n)) = NumberOf(n - 1)
           /\ incseqBy(NumberOf(n), inc) = NumberOf(n + inc)
<1>0. inc \in Int
  BY Threshold
<1>1. PICK k \in Int : OnLap(n, k, NumberOf(n))
  BY NumberOnLap
<1>2. incseq(NumberOf(n)) = NumberOf(n + 1)
  <2>1. PICK l \in Int : OnLap(n + 1, l, incseq(NumberOf(n)))
    BY <1>1, IncseqOnLaps
  <2>2. PICK j \in Int : OnLap(n + 1, j, NumberOf(n + 1))
    BY NumberOnLap
  <2>. QED  BY <2>1, <2>2, OnLapUnique
<1>3. decseq(NumberOf(n)) = NumberOf(n - 1)
  <2>1. PICK l \in Int : OnLap(n - 1, l, decseq(NumberOf(n)))
    BY <1>1, IncseqOnLaps
  <2>2. PICK j \in Int : OnLap(n - 1, j, NumberOf(n - 1))
    BY NumberOnLap
  <2>. QED  BY <2>1, <2>2, OnLapUnique
<1>4. incseqBy(NumberOf(n), inc) = NumberOf(n + inc)
  <2>1. PICK l \in Int : OnLap(n + inc, l, incseqBy(NumberOf(n), inc))
    BY <1>1, IncseqByOnLaps
  <2>2. PICK j \in Int : OnLap(n + inc, j, NumberOf(n + inc))
    BY <1>0, NumberOnLap
  <2>. QED  BY <2>1, <2>2, OnLapUnique
<1>. QED  BY <1>2, <1>3, <1>4

-----------------------------------------------------------------------------
\* Every number has what zero has and what passes from each number to the next.
LEMMA AllNumbers ==
    ASSUME NEW S, 0 \in S, \A k \in Nat : k \in S => k + 1 \in S
    PROVE  \A k \in Nat : k \in S
<1> SUFFICES ASSUME Nat \ S # {} PROVE FALSE
  OBVIOUS
<1>1. PICK m \in Nat \ S : \A x \in Nat \ S : ~(<<x, m>> \in OpToRel(<, Nat))
  <2>1. Nat \ S \subseteq Nat
    OBVIOUS
  <2> QED  BY <2>1, NatLessThanWellFounded, WFMin
<1>2. m \in Nat /\ m \notin S
  BY <1>1
<1>3. m # 0
  BY <1>2
<1>4. m - 1 \in Nat /\ (m - 1) + 1 = m /\ m - 1 < m
  BY ONLY <1>2, <1>3
<1>5. <<m - 1, m>> \in OpToRel(<, Nat)
  BY ONLY <1>2, <1>4 DEF OpToRel
<1>6. m - 1 \in S
  BY <1>1, <1>4, <1>5
<1>7. (m - 1) + 1 \in S
  BY <1>4, <1>6
<1> QED
  BY ONLY <1>7, <1>4, <1>2

-----------------------------------------------------------------------------
(* The rings of the loss lists.                                            *)

\* The slots that numbers have, one after the other around the ring.
RingSlots(sl, size) ==
    /\ sl \in [Int -> 0 .. size - 1]
    /\ \A n, d \in Int : sl[n + d] = (sl[n] + d) % size
    /\ \A n \in Int : sl[n + size] = sl[n]
    /\ \A m, n \in Int : m < n /\ n - m < size => sl[m] # sl[n]

\* A remainder is known from any way to write the number.
LEMMA Remainder ==
    ASSUME NEW size \in Nat \ {0}, NEW x \in Int, NEW q \in Int, NEW r \in 0 .. size - 1, x = q * size + r
    PROVE  x % size = r
<1>1. PICK p \in Int : x = p * size + (x % size) /\ x % size \in 0 .. size - 1
  <2>1. x = size * (x \div size) + (x % size) /\ x % size \in 0 .. size - 1 /\ x \div size \in Int
    BY SMTT(60)
  <2>. QED  BY <2>1
<1>2. (q - p) * size = (x % size) - r
  BY <1>1
<1>3. ~(q - p >= 1)
  <2>. SUFFICES ASSUME q - p >= 1 PROVE FALSE
    OBVIOUS
  <2>1. (q - p) * size >= size
    BY <1>1
  <2>. QED  BY <1>1, <1>2, <2>1
<1>4. ~(p - q >= 1)
  <2>. SUFFICES ASSUME p - q >= 1 PROVE FALSE
    OBVIOUS
  <2>1. (p - q) * size >= size /\ (q - p) * size = -((p - q) * size)
    BY <1>1
  <2>. QED  BY <1>1, <1>2, <2>1
<1>5. q = p
  BY <1>1, <1>3, <1>4
<1>. QED  BY <1>1, <1>5

\* A number and its remainder are whole rings apart.
LEMMA Quotient ==
    ASSUME NEW size \in Nat \ {0}, NEW x \in Int
    PROVE  \E q \in Int : x = q * size + (x % size) /\ x % size \in 0 .. size - 1
<1>1. x = size * (x \div size) + (x % size) /\ x % size \in 0 .. size - 1 /\ x \div size \in Int
  BY SMTT(60)
<1>2. x = (x \div size) * size + (x % size)
  BY <1>1
<1>. QED  BY <1>1, <1>2

\* Any number may have slot 0: it gives all others theirs.
LEMMA RingSlotsFrom ==
    ASSUME NEW size \in Nat \ {0}, NEW a \in Int
    PROVE  \E sl : RingSlots(sl, size) /\ sl[a] = 0
<1>. DEFINE sl == [n \in Int |-> (n - a) % size]
<1>1. \A n \in Int : sl[n] = (n - a) % size /\ sl[n] \in 0 .. size - 1
  <2>. TAKE n \in Int
  <2>1. n - a \in Int
    OBVIOUS
  <2>2. (n - a) % size \in 0 .. size - 1
    BY <2>1, Quotient
  <2>. QED  BY <2>2
<1>2. sl \in [Int -> 0 .. size - 1]
  <2>1. \A n \in Int : (n - a) % size \in 0 .. size - 1
    BY <1>1
  <2>. QED  BY <2>1
<1>. HIDE DEF sl
<1>3. ASSUME NEW n \in Int PROVE \E q \in Int : n - a = q * size + sl[n]
  <2>1. n - a \in Int /\ sl[n] = (n - a) % size
    BY <1>1
  <2>. QED  BY <2>1, Quotient
<1>4. ASSUME NEW x \in Int, NEW q \in Int, NEW r \in 0 .. size - 1, x - a = q * size + r PROVE sl[x] = r
  <2>1. x - a \in Int
    OBVIOUS
  <2>. QED  BY <2>1, <1>1, <1>4, Remainder
<1>5. ASSUME NEW n \in Int, NEW d \in Int PROVE sl[n + d] = (sl[n] + d) % size
  <2>0. n + d \in Int /\ sl[n] \in Int /\ sl[n + d] \in 0 .. size - 1 /\ sl[n] + d \in Int
    BY <1>1
  <2>1. PICK q \in Int : n - a = q * size + sl[n]
    BY <1>3
  <2>2. PICK p \in Int : (n + d) - a = p * size + sl[n + d]
    BY <2>0, <1>3
  <2>3. sl[n] + d = (p - q) * size + sl[n + d] /\ p - q \in Int
    BY <2>0, <2>1, <2>2
  <2>. QED  BY <2>0, <2>3, Remainder
<1>6. ASSUME NEW n \in Int PROVE sl[n + size] = sl[n]
  <2>1. PICK q \in Int : n - a = q * size + sl[n]
    BY <1>3
  <2>2. sl[n] \in 0 .. size - 1 /\ n + size \in Int /\ q + 1 \in Int
    BY <1>1
  <2>3. (n + size) - a = (q + 1) * size + sl[n]
    BY <2>1, <2>2
  <2>. QED  BY ONLY <2>2, <2>3, <1>4
<1>7. ASSUME NEW m \in Int, NEW n \in Int, m < n, n - m < size, sl[m] = sl[n] PROVE FALSE
  <2>0. sl[n] \in Int
    BY <1>1
  <2>1. PICK q \in Int : n - a = q * size + sl[n]
    BY <1>3
  <2>2. PICK p \in Int : m - a = p * size + sl[n]
    BY <1>3, <1>7
  <2>3. n - m = (q - p) * size
    BY <2>0, <2>1, <2>2
  <2>4. ~(q - p >= 1)
    <3>. SUFFICES ASSUME q - p >= 1 PROVE FALSE
      OBVIOUS
    <3>1. (q - p) * size >= size
      BY <2>1
    <3>. QED  BY <1>7, <2>3, <3>1
  <2>5. ~(p - q >= 0)
    <3>. SUFFICES ASSUME p - q >= 0 PROVE FALSE
      OBVIOUS
    <3>1. (p - q) * size >= 0 /\ (q - p) * size = -((p - q) * size)
      BY <2>1
    <3>. QED  BY <1>7, <2>3, <3>1
  <2>. QED  BY <2>4, <2>5
<1>8. sl[a] = 0
  <2>1. 0 \in 0 .. size - 1 /\ a - a = 0 * size + 0
    OBVIOUS
  <2>. QED  BY <2>1, <1>4
<1>. QED  BY <1>2, <1>5, <1>6, <1>7, <1>8 DEF RingSlots

\* How the code finds slots: by the offset from a slot it knows.
LEMMA SlotIs ==
    ASSUME NEW size \in Nat \ {0}, NEW sl, RingSlots(sl, size), NEW m \in Int, NEW n \in Int
    PROVE  /\ (sl[m] + (n - m) + size) % size = sl[n]
           /\ (sl[m] + (n - m)) % size = sl[n]
           /\ (sl[m] + 1) % size = sl[m + 1]
           /\ sl[m] \in 0 .. size - 1
<1>1. sl[m] \in 0 .. size - 1 /\ m + (n - m) = n /\ n - m \in Int
  BY DEF RingSlots
<1>2. sl[m + (n - m)] = (sl[m] + (n - m)) % size
  BY DEF RingSlots
<1>3. sl[m + (n - m + size)] = (sl[m] + (n - m + size)) % size
  BY DEF RingSlots
<1>4. m + (n - m + size) = n + size /\ sl[n + size] = sl[n]
  BY DEF RingSlots
<1>5. sl[m] + (n - m + size) = sl[m] + (n - m) + size
  BY <1>1
<1>6. sl[m + 1] = (sl[m] + 1) % size
  BY DEF RingSlots
<1>. QED  BY <1>1, <1>2, <1>3, <1>4, <1>5, <1>6

\* Numbers of a window no longer than the ring have slots of their own.
LEMMA SlotsDiffer ==
    ASSUME NEW size \in Nat \ {0}, NEW sl, RingSlots(sl, size), NEW m \in Int, NEW n \in Int,
           m - n < size, n - m < size, sl[m] = sl[n]
    PROVE  m = n
  BY DEF RingSlots
-----------------------------------------------------------------------------
(* A loss list is a set of ranges, which start at the numbers S and end at *)
(* the numbers E tells, within a window lo .. hi no longer than the ring.  *)

Ranges(S, E, lo, hi) ==
    /\ S \subseteq Int /\ E \in [Int -> Int]
    /\ \A n \in S : lo <= n /\ n <= E[n] /\ E[n] <= hi

Covered(S, E) == {x \in Int : \E n \in S : n <= x /\ x <= E[n]}

Apart(S, E) == \A m, n \in S : m < n => E[m] < n

\* The numbers of the ranges are finitely many, and none when there is no range.
LEMMA CoveredIs ==
    ASSUME NEW S, NEW E, NEW lo \in Int, NEW hi \in Int, Ranges(S, E, lo, hi)
    PROVE  /\ Covered(S, E) \subseteq lo .. hi /\ S \subseteq Covered(S, E)
           /\ IsFiniteSet(Covered(S, E)) /\ Cardinality(Covered(S, E)) \in Nat
           /\ Cardinality(Covered(S, E)) = 0 <=> S = {}
<1>1. S \subseteq Covered(S, E)
  BY DEF Ranges, Covered
<1>2. Covered(S, E) \subseteq lo .. hi
  <2>. SUFFICES ASSUME NEW x \in Covered(S, E) PROVE x \in lo .. hi
    OBVIOUS
  <2>1. PICK n \in S : x \in Int /\ n <= x /\ x <= E[n]
    BY DEF Covered
  <2>2. lo <= n /\ E[n] <= hi /\ n \in Int /\ E[n] \in Int
    BY DEF Ranges
  <2>. QED  BY <2>1, <2>2
<1>3. IsFiniteSet(lo .. hi)
  BY FS_Interval
<1>4. IsFiniteSet(Covered(S, E))
  BY <1>2, <1>3, FS_Subset
<1>5. Cardinality(Covered(S, E)) \in Nat
  BY <1>4, FS_CardinalityType
<1>6. Cardinality(Covered(S, E)) = 0 <=> Covered(S, E) = {}
  BY <1>4, FS_EmptySet
<1>7. S = {} => Covered(S, E) = {}
  BY DEF Covered
<1>. QED  BY <1>1, <1>2, <1>4, <1>5, <1>6, <1>7

\* A range that none of the others touches counts with all its numbers.
LEMMA CoveredWith ==
    ASSUME NEW S, NEW E, NEW lo \in Int, NEW hi \in Int, Ranges(S, E, lo, hi), NEW x \in S,
           \A n \in S : n # x => E[n] < x \/ E[x] < n
    PROVE  /\ Cardinality(Covered(S, E)) = Cardinality(Covered(S \ {x}, E)) + (E[x] - x + 1)
           /\ Covered(S \ {x}, E) = Covered(S, E) \ (x .. E[x])
           /\ x .. E[x] \subseteq Covered(S, E)
<1>1. x \in Int /\ E[x] \in Int /\ x <= E[x] /\ \A n \in S : n \in Int /\ E[n] \in Int
  BY DEF Ranges
<1>2. x .. E[x] \subseteq Covered(S, E)
  BY <1>1 DEF Covered
<1>3. Covered(S \ {x}, E) = Covered(S, E) \ (x .. E[x])
  BY <1>1 DEF Covered
<1>4. IsFiniteSet(Covered(S, E))
  BY CoveredIs
<1>5. Cardinality(x .. E[x]) = E[x] - x + 1
  BY ONLY <1>1, FS_Interval
<1>6. Covered(S, E) \cap (x .. E[x]) = x .. E[x]
  BY <1>2
<1>7. IsFiniteSet(x .. E[x])
  BY ONLY <1>1, FS_Interval
<1>8. Cardinality(Covered(S, E) \ (x .. E[x])) = Cardinality(Covered(S, E)) - Cardinality(Covered(S, E) \cap (x .. E[x]))
  BY ONLY <1>4, <1>7, FS_Difference
<1>9. Cardinality(Covered(S, E)) \in Int
  BY CoveredIs
<1>10. Cardinality(Covered(S \ {x}, E)) = Cardinality(Covered(S, E)) - (E[x] - x + 1)
  BY ONLY <1>3, <1>5, <1>6, <1>8
<1>11. \A c, d, e \in Int : d = c - e => c = d + e
  OBVIOUS
<1>12. Cardinality(Covered(S \ {x}, E)) \in Int /\ E[x] - x + 1 \in Int
  BY ONLY <1>1, <1>9, <1>10
<1>. QED  BY <1>2, <1>3, <1>9, <1>10, <1>11, <1>12

\* The ranges before a change are those after it, but for the one that starts at x.
LEMMA CoveredElsewhere ==
    ASSUME NEW S, NEW E, NEW F, \A n \in S : F[n] = E[n]
    PROVE  Covered(S, F) = Covered(S, E)
  BY DEF Covered

\* A range may be added,
LEMMA RangesWith ==
    ASSUME NEW S, NEW E, NEW lo \in Int, NEW hi \in Int, Ranges(S, E, lo, hi),
           NEW a \in Int, NEW b \in Int, lo <= a, a <= b, b <= hi
    PROVE  /\ Ranges(S \cup {a}, [E EXCEPT ![a] = b], lo, hi)
           /\ \A n \in Int : n # a => [E EXCEPT ![a] = b][n] = E[n]
           /\ [E EXCEPT ![a] = b][a] = b
  BY DEF Ranges

\* and any taken away.
LEMMA RangesWithout ==
    ASSUME NEW S, NEW E, NEW lo, NEW hi, Ranges(S, E, lo, hi), NEW T \in SUBSET S
    PROVE  Ranges(T, E, lo, hi)
  BY DEF Ranges

-----------------------------------------------------------------------------
(* What the arrays hold of the ranges.                                     *)

Holding(d1, d2, size, sl, S, E) ==
    /\ d1 \in [0 .. size - 1 -> Int] /\ d2 \in [0 .. size - 1 -> Int]
    /\ \A n \in S : /\ d1[sl[n]] = NumberOf(n)
                    /\ \/ E[n] = n /\ d2[sl[n]] = -1
                       \/ E[n] # n /\ d2[sl[n]] = NumberOf(E[n])
    /\ \A i \in 0 .. size - 1 : (\A n \in S : sl[n] # i) => d1[i] = -1 /\ d2[i] = -1

\* The ring is long enough for the window, and the window short enough for seqcmp.
Window(size, sl, lo, hi) ==
    /\ size \in Nat \ {0} /\ size < SeqNoTH /\ RingSlots(sl, size)
    /\ lo \in Int /\ hi \in Int /\ hi - lo < size

\* Two numbers of a window never share a slot.
LEMMA WindowIs ==
    ASSUME NEW size, NEW sl, NEW lo, NEW hi, Window(size, sl, lo, hi)
    PROVE  /\ size \in Nat \ {0} /\ size < SeqNoTH /\ lo \in Int /\ hi \in Int /\ hi - lo < size
           /\ SeqNoTH \in Int
           /\ \A n \in Int : sl[n] \in 0 .. size - 1
           /\ \A m, n \in lo .. hi : sl[m] = sl[n] => m = n
<1>1. size \in Nat \ {0} /\ size < SeqNoTH /\ lo \in Int /\ hi \in Int /\ hi - lo < size
  BY DEF Window
<1>2. SeqNoTH \in Int
  BY Threshold
<1>3. \A n \in Int : sl[n] \in 0 .. size - 1
  <2>1. sl \in [Int -> 0 .. size - 1]
    BY DEF Window, RingSlots
  <2>. QED  BY <2>1
<1>4. ASSUME NEW m \in lo .. hi, NEW n \in lo .. hi, sl[m] = sl[n] PROVE m = n
  <2>1. m \in Int /\ n \in Int /\ m - n < size /\ n - m < size
    BY <1>1
  <2>2. RingSlots(sl, size)
    BY DEF Window
  <2>. QED  BY <2>1, <2>2, <1>1, <1>4, SlotsDiffer
<1>. QED  BY <1>1, <1>2, <1>3, <1>4

\* Nor have two packets nearer than the threshold one sequence number.
LEMMA NumbersDiffer ==
    ASSUME NEW m \in Int, NEW n \in Int, m - n < SeqNoTH, n - m < SeqNoTH
    PROVE  /\ NumberOf(m) = NumberOf(n) <=> m = n
           /\ NumberOf(m) \in Nat
<1>1. seqcmp(NumberOf(n), NumberOf(m)) = 0 <=> n = m
  BY SeqcmpOrders
<1>2. NumberOf(n) \in Nat /\ NumberOf(m) \in Nat
  BY NumberOnLap, Threshold DEF OnLap, SeqNos
<1>. QED  BY <1>1, <1>2 DEF seqcmp, Distance

\* A slot tells whether a range starts at the number it belongs to.
LEMMA StartsAt ==
    ASSUME NEW d1, NEW d2, NEW size, NEW sl, NEW S, NEW E, NEW lo, NEW hi,
           Window(size, sl, lo, hi), Ranges(S, E, lo, hi), Holding(d1, d2, size, sl, S, E),
           NEW n \in lo .. hi
    PROVE  /\ d1[sl[n]] = NumberOf(n) <=> n \in S
           /\ n \notin S => d1[sl[n]] = -1 /\ d2[sl[n]] = -1 /\ \A m \in S : sl[m] # sl[n]
           /\ sl[n] \in 0 .. size - 1
<1>1. n \in Int /\ lo \in Int /\ hi \in Int /\ lo <= n /\ n <= hi /\ sl[n] \in 0 .. size - 1
  BY WindowIs
<1>2. ASSUME n \notin S, NEW m \in S PROVE sl[m] # sl[n]
  <2>1. m \in Int /\ lo <= m /\ m <= hi /\ m # n
    BY <1>1, <1>2 DEF Ranges
  <2>. QED  BY <1>1, <2>1, WindowIs
<1>3. n \notin S => d1[sl[n]] = -1 /\ d2[sl[n]] = -1
  BY <1>1, <1>2 DEF Holding
<1>4. NumberOf(n) # -1
  BY <1>1, NumbersDiffer, Threshold
<1>. QED  BY <1>1, <1>2, <1>3, <1>4 DEF Holding

\* A range is added where none starts.
LEMMA StoredWith ==
    ASSUME NEW d1, NEW d2, NEW size, NEW sl, NEW S, NEW E, NEW lo, NEW hi,
           Window(size, sl, lo, hi), Ranges(S, E, lo, hi), Holding(d1, d2, size, sl, S, E),
           NEW a \in lo .. hi, a \notin S,
           NEW F, F[a] \in Int, a <= F[a], F[a] <= hi, \A n \in S : F[n] = E[n],
           NEW e1, e1 = [d1 EXCEPT ![sl[a]] = NumberOf(a)],
           NEW e2, e2 = [d2 EXCEPT ![sl[a]] = IF NumberOf(F[a]) # NumberOf(a) THEN NumberOf(F[a]) ELSE d2[sl[a]]]
    PROVE  Holding(e1, e2, size, sl, S \cup {a}, F)
<1>0. PICK b : b = F[a]
  OBVIOUS
<1>1. /\ a \in Int /\ b \in Int /\ lo \in Int /\ hi \in Int /\ lo <= a /\ a <= b /\ b <= hi
      /\ sl[a] \in 0 .. size - 1 /\ b - a < SeqNoTH /\ a - b < SeqNoTH
  BY <1>0, WindowIs
<1>2. NumberOf(a) \in Int /\ NumberOf(b) \in Int /\ (NumberOf(b) = NumberOf(a) <=> a = b)
  BY <1>1, NumbersDiffer
<1>3. d1 \in [0 .. size - 1 -> Int] /\ d2 \in [0 .. size - 1 -> Int]
  BY DEF Holding
<1>4. e1 \in [0 .. size - 1 -> Int] /\ e2 \in [0 .. size - 1 -> Int]
  BY <1>0, <1>1, <1>2, <1>3
<1>5. /\ \A i \in 0 .. size - 1 : i # sl[a] => e1[i] = d1[i] /\ e2[i] = d2[i]
      /\ e1[sl[a]] = NumberOf(a)
  BY <1>1, <1>3
<1>6. d2[sl[a]] = -1 /\ \A m \in S : sl[m] # sl[a]
  BY StartsAt
<1>7. (a = b /\ e2[sl[a]] = -1) \/ (a # b /\ e2[sl[a]] = NumberOf(b))
  BY <1>0, <1>1, <1>2, <1>3, <1>6
<1>8. F[a] = b /\ \A n \in S : F[n] = E[n] /\ n \in Int
  BY <1>0, <1>1 DEF Ranges
<1>9. \A n \in S : sl[n] \in 0 .. size - 1
  BY <1>8, WindowIs
<1>10. ASSUME NEW n \in S \cup {a}
       PROVE  /\ e1[sl[n]] = NumberOf(n)
              /\ (F[n] = n /\ e2[sl[n]] = -1) \/ (F[n] # n /\ e2[sl[n]] = NumberOf(F[n]))
  <2>1. CASE n = a
    BY <2>1, <1>5, <1>7, <1>8
  <2>2. CASE n \in S
    <3>1. e1[sl[n]] = d1[sl[n]] /\ e2[sl[n]] = d2[sl[n]] /\ F[n] = E[n]
      BY <2>2, <1>5, <1>6, <1>8, <1>9
    <3>. QED  BY <2>2, <3>1 DEF Holding
  <2>. QED  BY <2>1, <2>2
<1>11. ASSUME NEW i \in 0 .. size - 1, \A n \in S \cup {a} : sl[n] # i PROVE e1[i] = -1 /\ e2[i] = -1
  <2>1. i # sl[a] /\ \A n \in S : sl[n] # i
    BY <1>11
  <2>2. d1[i] = -1 /\ d2[i] = -1
    BY <2>1 DEF Holding
  <2>. QED  BY <2>1, <2>2, <1>5
<1>. QED  BY <1>4, <1>10, <1>11 DEF Holding

\* A range is taken out of the arrays.
LEMMA StoredWithout ==
    ASSUME NEW d1, NEW d2, NEW size, NEW sl, NEW S, NEW E, NEW lo, NEW hi,
           Window(size, sl, lo, hi), Ranges(S, E, lo, hi), Holding(d1, d2, size, sl, S, E),
           NEW m \in S,
           NEW e1, e1 = [d1 EXCEPT ![sl[m]] = -1], NEW e2, e2 = [d2 EXCEPT ![sl[m]] = -1]
    PROVE  Holding(e1, e2, size, sl, S \ {m}, E)
<1>1. d1 \in [0 .. size - 1 -> Int] /\ d2 \in [0 .. size - 1 -> Int]
  BY DEF Holding
<1>2. e1 \in [0 .. size - 1 -> Int] /\ e2 \in [0 .. size - 1 -> Int]
  <2>1. -1 \in Int
    OBVIOUS
  <2>. QED  BY ONLY <1>1, <2>1, e1 = [d1 EXCEPT ![sl[m]] = -1], e2 = [d2 EXCEPT ![sl[m]] = -1]
<1>3. \A n \in S : n \in Int /\ lo <= n /\ n <= hi /\ sl[n] \in 0 .. size - 1
  BY WindowIs DEF Ranges
<1>4. /\ \A i \in 0 .. size - 1 : i # sl[m] => e1[i] = d1[i] /\ e2[i] = d2[i]
      /\ e1[sl[m]] = -1 /\ e2[sl[m]] = -1
  BY <1>1, <1>3
<1>5. ASSUME NEW n \in S \ {m}
      PROVE  sl[n] # sl[m]
  BY <1>3, <1>5, WindowIs
<1>6. ASSUME NEW n \in S \ {m}
      PROVE  e1[sl[n]] = d1[sl[n]] /\ e2[sl[n]] = d2[sl[n]]
  BY <1>3, <1>4, <1>5
<1>7. ASSUME NEW i \in 0 .. size - 1, \A n \in S \ {m} : sl[n] # i PROVE e1[i] = -1 /\ e2[i] = -1
  <2>1. CASE i = sl[m]
    BY <2>1, <1>4
  <2>2. CASE i # sl[m]
    <3>1. d1[i] = -1 /\ d2[i] = -1
      BY <2>2, <1>7 DEF Holding
    <3>. QED  BY <2>2, <3>1, <1>4
  <2>. QED  BY <2>1, <2>2
<1>. QED  BY <1>2, <1>6, <1>7 DEF Holding

\* A range is made to end elsewhere.
LEMMA StoredToEnd ==
    ASSUME NEW d1, NEW d2, NEW size, NEW sl, NEW S, NEW E, NEW lo, NEW hi,
           Window(size, sl, lo, hi), Ranges(S, E, lo, hi), Holding(d1, d2, size, sl, S, E),
           NEW x \in S, NEW F, F[x] \in Int, F[x] <= hi, F[x] # x, \A n \in S : n # x => F[n] = E[n],
           NEW e2, e2 = [d2 EXCEPT ![sl[x]] = NumberOf(F[x])]
    PROVE  Holding(d1, e2, size, sl, S, F)
<1>1. d1 \in [0 .. size - 1 -> Int] /\ d2 \in [0 .. size - 1 -> Int]
  BY DEF Holding
<1>2. \A n \in S : n \in Int /\ lo <= n /\ n <= hi /\ sl[n] \in 0 .. size - 1
  BY WindowIs DEF Ranges
<1>3. NumberOf(F[x]) \in Int
  BY NumbersDiffer, Threshold
<1>4. e2 \in [0 .. size - 1 -> Int]
  BY <1>1, <1>3
<1>5. (\A i \in 0 .. size - 1 : i # sl[x] => e2[i] = d2[i]) /\ e2[sl[x]] = NumberOf(F[x])
  BY <1>1, <1>2
<1>6. \A n \in S : n # x => F[n] = E[n]
  OBVIOUS
<1>7. ASSUME NEW n \in S, n # x
      PROVE  e2[sl[n]] = d2[sl[n]]
  <2>1. sl[n] # sl[x]
    BY <1>2, <1>7, WindowIs
  <2>. QED  BY <1>2, <1>5, <2>1
<1>8. ASSUME NEW n \in S
      PROVE  (F[n] = n /\ e2[sl[n]] = -1) \/ (F[n] # n /\ e2[sl[n]] = NumberOf(F[n]))
  <2>1. CASE n = x
    BY <2>1, <1>5, <1>6
  <2>2. CASE n # x
    BY <2>2, <1>6, <1>7 DEF Holding
  <2>. QED  BY <2>1, <2>2
<1>9. ASSUME NEW i \in 0 .. size - 1, \A n \in S : sl[n] # i PROVE d1[i] = -1 /\ e2[i] = -1
  BY <1>5, <1>9 DEF Holding
<1>. QED  BY <1>1, <1>4, <1>8, <1>9 DEF Holding

\* A range is made to end with its first number.
LEMMA StoredToStart ==
    ASSUME NEW d1, NEW d2, NEW size, NEW sl, NEW S, NEW E, NEW lo, NEW hi,
           Window(size, sl, lo, hi), Ranges(S, E, lo, hi), Holding(d1, d2, size, sl, S, E),
           NEW x \in S, NEW F, F[x] = x, \A n \in S : n # x => F[n] = E[n],
           NEW e2, e2 = [d2 EXCEPT ![sl[x]] = -1]
    PROVE  Holding(d1, e2, size, sl, S, F)
<1>1. d1 \in [0 .. size - 1 -> Int] /\ d2 \in [0 .. size - 1 -> Int]
  BY DEF Holding
<1>2. \A n \in S : n \in Int /\ lo <= n /\ n <= hi /\ sl[n] \in 0 .. size - 1
  BY WindowIs DEF Ranges
<1>3. -1 \in Int
  OBVIOUS
<1>4. e2 \in [0 .. size - 1 -> Int]
  BY <1>1, <1>3
<1>5. (\A i \in 0 .. size - 1 : i # sl[x] => e2[i] = d2[i]) /\ e2[sl[x]] = -1
  BY <1>1, <1>2
<1>6. F[x] = x /\ \A n \in S : n # x => F[n] = E[n]
  OBVIOUS
<1>7. ASSUME NEW n \in S, n # x
      PROVE  e2[sl[n]] = d2[sl[n]]
  <2>1. sl[n] # sl[x]
    BY <1>2, <1>7, WindowIs
  <2>. QED  BY <1>2, <1>5, <2>1
<1>8. ASSUME NEW n \in S
      PROVE  (F[n] = n /\ e2[sl[n]] = -1) \/ (F[n] # n /\ e2[sl[n]] = NumberOf(F[n]))
  <2>1. CASE n = x
    BY <2>1, <1>5, <1>6
  <2>2. CASE n # x
    BY <2>2, <1>6, <1>7 DEF Holding
  <2>. QED  BY <2>1, <2>2
<1>9. ASSUME NEW i \in 0 .. size - 1, \A n \in S : sl[n] # i PROVE d1[i] = -1 /\ e2[i] = -1
  BY <1>5, <1>9 DEF Holding
<1>. QED  BY <1>1, <1>4, <1>8, <1>9 DEF Holding
-----------------------------------------------------------------------------
(* The links lead from every range to the next one.                        *)

\* i is what leads on from number n: the slot of the first range after it, or -1.
Follows(sl, S, n, i) ==
    \/ i = -1 /\ \A m \in S : m <= n
    \/ \E m \in S : n < m /\ i = sl[m] /\ \A q \in S : q <= n \/ m <= q

Links(next, size, sl, S) ==
    /\ next \in [0 .. size - 1 -> Int]
    /\ \A n \in S : Follows(sl, S, n, next[sl[n]])

HeadOf(sl, S, i) ==
    \/ i = -1 /\ S = {}
    \/ \E m \in S : i = sl[m] /\ \A q \in S : m <= q

\* A range that starts at a is linked behind that of p.
LEMMA LinksWith ==
    ASSUME NEW next, NEW size, NEW sl, NEW S, NEW lo, NEW hi, Window(size, sl, lo, hi),
           S \subseteq lo .. hi, Links(next, size, sl, S), NEW a \in lo .. hi, a \notin S,
           NEW p \in S, p < a, \A q \in S : q <= p \/ a < q,
           NEW nx, nx = [next EXCEPT ![sl[a]] = next[sl[p]], ![sl[p]] = sl[a]]
    PROVE  Links(nx, size, sl, S \cup {a})
<1>0. next \in [0 .. size - 1 -> Int] /\ S \cup {a} \subseteq lo .. hi
  BY DEF Links
<1>1. /\ next \in [0 .. size - 1 -> Int] /\ size \in Int
      /\ \A n \in S \cup {a} : n \in Int /\ sl[n] \in 0 .. size - 1
      /\ \A m, n \in S \cup {a} : sl[m] = sl[n] => m = n
  BY <1>0, WindowIs
<1>2. p # a
  BY <1>1
<1>3. sl[p] # sl[a]
  BY <1>1, <1>2
<1>4. next[sl[p]] \in Int /\ sl[a] \in Int
  BY <1>1
<1>5. nx \in [0 .. size - 1 -> Int]
  BY <1>1, <1>4
<1>6. nx[sl[p]] = sl[a] /\ nx[sl[a]] = next[sl[p]]
  BY <1>1, <1>3
<1>7. ASSUME NEW n \in S, n # p PROVE nx[sl[n]] = next[sl[n]]
  <2>1. sl[n] # sl[p] /\ sl[n] # sl[a]
    BY <1>1, <1>7
  <2>. QED  BY <1>1, <2>1
<1>8. ASSUME NEW n \in S \cup {a} PROVE Follows(sl, S \cup {a}, n, nx[sl[n]])
  <2>1. CASE n = a
    <3>1. Follows(sl, S, p, next[sl[p]])
      BY DEF Links
    <3>2. CASE next[sl[p]] = -1 /\ \A m \in S : m <= p
      <4>1. \A m \in S \cup {a} : m <= a
        BY <1>1, <3>2
      <4>. QED  BY <2>1, <3>2, <4>1, <1>6 DEF Follows
    <3>3. ASSUME NEW m \in S, p < m, next[sl[p]] = sl[m], \A q \in S : q <= p \/ m <= q
          PROVE  Follows(sl, S \cup {a}, n, nx[sl[n]])
      <4>1. a < m
        BY <1>1, <3>3
      <4>2. \A q \in S \cup {a} : q <= a \/ m <= q
        BY <1>1, <3>3
      <4>. QED  BY <2>1, <3>3, <4>1, <4>2, <1>6 DEF Follows
    <3>. QED  BY <3>1, <3>2, <3>3 DEF Follows
  <2>2. CASE n = p
    <3>1. \A q \in S \cup {a} : q <= p \/ a <= q
      BY <1>1
    <3>. QED  BY <2>2, <3>1, <1>6 DEF Follows
  <2>3. CASE n \in S /\ n # p
    <3>1. Follows(sl, S, n, next[sl[n]]) /\ nx[sl[n]] = next[sl[n]]
      BY <2>3, <1>7 DEF Links
    <3>2. CASE next[sl[n]] = -1 /\ \A m \in S : m <= n
      <4>1. p <= n /\ n # p
        BY <2>3, <3>2
      <4>2. a < n
        BY <1>1, <2>3, <4>1
      <4>3. \A m \in S \cup {a} : m <= n
        BY <1>1, <3>2, <4>2
      <4>. QED  BY <3>1, <3>2, <4>3 DEF Follows
    <3>3. ASSUME NEW m \in S, n < m, next[sl[n]] = sl[m], \A q \in S : q <= n \/ m <= q
          PROVE  Follows(sl, S \cup {a}, n, nx[sl[n]])
      <4>1. a <= n \/ m <= a
        <5>1. p <= n \/ m <= p
          BY <3>3
        <5>2. n <= p \/ a < n
          BY <2>3
        <5>. QED  BY <1>1, <2>3, <5>1, <5>2
      <4>2. \A q \in S \cup {a} : q <= n \/ m <= q
        BY <3>3, <4>1
      <4>. QED  BY <3>1, <3>3, <4>2 DEF Follows
    <3>. QED  BY <3>1, <3>2, <3>3 DEF Follows
  <2>. QED  BY <2>1, <2>2, <2>3
<1>. QED  BY <1>5, <1>8 DEF Links

\* A range before all others is linked to the first of them.
LEMMA LinksFirst ==
    ASSUME NEW next, NEW size, NEW sl, NEW S, NEW lo, NEW hi, Window(size, sl, lo, hi),
           S \subseteq lo .. hi, Links(next, size, sl, S), NEW a \in lo .. hi,
           \A q \in S : a < q, NEW i, HeadOf(sl, S, i),
           NEW nx, nx = [next EXCEPT ![sl[a]] = i]
    PROVE  Links(nx, size, sl, S \cup {a}) /\ HeadOf(sl, S \cup {a}, sl[a])
<1>0. next \in [0 .. size - 1 -> Int] /\ S \cup {a} \subseteq lo .. hi
  BY DEF Links
<1>1. /\ next \in [0 .. size - 1 -> Int] /\ size \in Int
      /\ \A n \in S \cup {a} : n \in Int /\ sl[n] \in 0 .. size - 1
      /\ \A m, n \in S \cup {a} : sl[m] = sl[n] => m = n
  BY <1>0, WindowIs
<1>2. i \in Int
  BY <1>1 DEF HeadOf
<1>3. nx \in [0 .. size - 1 -> Int] /\ nx[sl[a]] = i
  BY <1>1, <1>2
<1>4. ASSUME NEW n \in S PROVE nx[sl[n]] = next[sl[n]]
  <2>1. n # a
    BY <1>1
  <2>2. sl[n] # sl[a]
    BY <1>1, <2>1
  <2>. QED  BY <1>1, <2>2
<1>5. Follows(sl, S \cup {a}, a, nx[sl[a]])
  <2>1. CASE i = -1 /\ S = {}
    <3>1. \A m \in S \cup {a} : m <= a
      BY <1>1, <2>1
    <3>. QED  BY <2>1, <3>1, <1>3 DEF Follows
  <2>2. ASSUME NEW m \in S, i = sl[m], \A q \in S : m <= q PROVE Follows(sl, S \cup {a}, a, nx[sl[a]])
    <3>1. \A q \in S \cup {a} : q <= a \/ m <= q
      BY <1>1, <2>2
    <3>. QED  BY <2>2, <3>1, <1>3 DEF Follows
  <2>. QED  BY <2>1, <2>2 DEF HeadOf
<1>6. ASSUME NEW n \in S PROVE Follows(sl, S \cup {a}, n, nx[sl[n]])
  <2>1. Follows(sl, S, n, nx[sl[n]])
    BY <1>4 DEF Links
  <2>2. a <= n
    BY <1>1
  <2>. QED  BY <2>1, <2>2 DEF Follows
<1>7. HeadOf(sl, S \cup {a}, sl[a])
  <2>1. \A q \in S \cup {a} : a <= q
    BY <1>1
  <2>. QED  BY <2>1 DEF HeadOf
<1>. QED  BY <1>3, <1>5, <1>6, <1>7 DEF Links

\* The range after that of x is taken out of the chain.
LEMMA LinksWithout ==
    ASSUME NEW next, NEW size, NEW sl, NEW S, NEW lo, NEW hi, Window(size, sl, lo, hi),
           S \subseteq lo .. hi, Links(next, size, sl, S),
           NEW x \in S, NEW m \in S, x < m, \A q \in S : q <= x \/ m <= q,
           NEW nx, nx = [next EXCEPT ![sl[x]] = next[sl[m]]]
    PROVE  Links(nx, size, sl, S \ {m})
<1>0. next \in [0 .. size - 1 -> Int] /\ S \subseteq lo .. hi
  BY DEF Links
<1>1. /\ next \in [0 .. size - 1 -> Int] /\ size \in Int
      /\ \A n \in S : n \in Int /\ sl[n] \in 0 .. size - 1
      /\ \A k, n \in S : sl[k] = sl[n] => k = n
  BY <1>0, WindowIs
<1>2. nx \in [0 .. size - 1 -> Int] /\ nx[sl[x]] = next[sl[m]]
  BY <1>1
<1>3. ASSUME NEW n \in S, n # x PROVE nx[sl[n]] = next[sl[n]]
  <2>1. sl[n] # sl[x]
    BY <1>1, <1>3
  <2>. QED  BY <1>1, <2>1
<1>4. ASSUME NEW n \in S \ {m} PROVE Follows(sl, S \ {m}, n, nx[sl[n]])
  <2>1. CASE n = x
    <3>1. Follows(sl, S, m, nx[sl[n]])
      BY <2>1, <1>2 DEF Links
    <3>2. CASE nx[sl[n]] = -1 /\ \A q \in S : q <= m
      <4>1. \A q \in S \ {m} : q <= n
        BY <1>1, <2>1, <3>2
      <4>. QED  BY <3>2, <4>1 DEF Follows
    <3>3. ASSUME NEW k \in S, m < k, nx[sl[n]] = sl[k], \A q \in S : q <= m \/ k <= q
          PROVE  Follows(sl, S \ {m}, n, nx[sl[n]])
      <4>1. n < k /\ k # m
        BY <1>1, <2>1, <3>3
      <4>2. \A q \in S \ {m} : q <= n \/ k <= q
        BY <1>1, <2>1, <3>3
      <4>. QED  BY <3>3, <4>1, <4>2 DEF Follows
    <3>. QED  BY <3>1, <3>2, <3>3 DEF Follows
  <2>2. CASE n # x
    <3>1. Follows(sl, S, n, nx[sl[n]])
      BY <2>2, <1>3 DEF Links
    <3>2. CASE nx[sl[n]] = -1 /\ \A q \in S : q <= n
      BY <3>2 DEF Follows
    <3>3. ASSUME NEW k \in S, n < k, nx[sl[n]] = sl[k], \A q \in S : q <= n \/ k <= q
          PROVE  Follows(sl, S \ {m}, n, nx[sl[n]])
      <4>1. k # m
        <5>. SUFFICES ASSUME k = m PROVE FALSE
          OBVIOUS
        <5>1. x <= n \/ m <= x
          BY <3>3
        <5>2. n <= x \/ m <= n
          OBVIOUS
        <5>. QED  BY <1>1, <2>2, <3>3, <5>1, <5>2
      <4>. QED  BY <3>3, <4>1 DEF Follows
    <3>. QED  BY <3>1, <3>2, <3>3 DEF Follows
  <2>. QED  BY <2>1, <2>2
<1>. QED  BY <1>2, <1>4 DEF Links

\* Ranges at the front are taken out of the chain by moving the head.
LEMMA LinksFrom ==
    ASSUME NEW next, NEW size, NEW sl, NEW S, S \subseteq Int, Links(next, size, sl, S),
           NEW T \in SUBSET S, \A n \in T, m \in S : n <= m => m \in T
    PROVE  Links(next, size, sl, T)
<1>1. ASSUME NEW n \in T PROVE Follows(sl, T, n, next[sl[n]])
  <2>1. Follows(sl, S, n, next[sl[n]])
    BY DEF Links
  <2>2. CASE next[sl[n]] = -1 /\ \A m \in S : m <= n
    BY <2>2 DEF Follows
  <2>3. ASSUME NEW m \in S, n < m, next[sl[n]] = sl[m], \A q \in S : q <= n \/ m <= q
        PROVE  Follows(sl, T, n, next[sl[n]])
    <3>1. m \in T
      BY <2>3
    <3>. QED  BY <2>3, <3>1 DEF Follows
  <2>. QED  BY <2>1, <2>2, <2>3 DEF Follows
<1>. QED  BY <1>1 DEF Links

\* What follows the first range is the head of the others.
LEMMA HeadFrom ==
    ASSUME NEW sl, NEW S, S \subseteq Int, NEW m \in Int, NEW i, Follows(sl, S, m, i)
    PROVE  HeadOf(sl, {n \in S : m < n}, i)
<1>1. CASE i = -1 /\ \A n \in S : n <= m
  <2>1. \A n \in S : ~(m < n)
    BY <1>1
  <2>2. {n \in S : m < n} = {}
    BY <2>1
  <2>. QED  BY <1>1, <2>2 DEF HeadOf
<1>2. ASSUME NEW k \in S, m < k, i = sl[k], \A q \in S : q <= m \/ k <= q PROVE HeadOf(sl, {n \in S : m < n}, i)
  BY <1>2 DEF HeadOf
<1>. QED  BY <1>1, <1>2 DEF Follows
\* Numbers of the window, and the one after it, compare as the packets do.
LEMMA Compare ==
    ASSUME NEW size, NEW sl, NEW lo, NEW hi, Window(size, sl, lo, hi),
           NEW n \in lo .. hi + 1, NEW m \in lo .. hi + 1
    PROVE  /\ seqcmp(NumberOf(n), NumberOf(m)) < 0 <=> n < m
           /\ seqcmp(NumberOf(n), NumberOf(m)) <= 0 <=> n <= m
           /\ seqcmp(NumberOf(n), NumberOf(m)) > 0 <=> n > m
           /\ seqcmp(NumberOf(n), NumberOf(m)) >= 0 <=> n >= m
           /\ seqoff(NumberOf(n), NumberOf(m)) = m - n
           /\ n <= m => seqlen(NumberOf(n), NumberOf(m)) = m - n + 1
           /\ incseq(NumberOf(n)) = NumberOf(n + 1)
           /\ decseq(NumberOf(n)) = NumberOf(n - 1)
           /\ NumberOf(n) = NumberOf(m) <=> n = m
           /\ NumberOf(n) \in Nat
<1>1. size < SeqNoTH /\ lo \in Int /\ hi \in Int /\ hi - lo < size /\ SeqNoTH \in Int /\ size \in Int
  BY WindowIs
<1>2. n \in Int /\ m \in Int /\ n - m < SeqNoTH /\ m - n < SeqNoTH
  BY <1>1
<1>3. /\ seqcmp(NumberOf(n), NumberOf(m)) < 0 <=> n < m
      /\ seqcmp(NumberOf(n), NumberOf(m)) = 0 <=> n = m
      /\ seqcmp(NumberOf(n), NumberOf(m)) > 0 <=> n > m
  BY <1>2, SeqcmpOrders
<1>4. seqoff(NumberOf(n), NumberOf(m)) = m - n
  BY <1>2, SeqoffCounts
<1>5. n <= m => seqlen(NumberOf(n), NumberOf(m)) = m - n + 1
  <2>1. n <= m => m - n <= MaxSeqNo
    BY <1>2, Threshold
  <2>. QED  BY <1>2, <2>1, SeqlenCounts
<1>6. incseq(NumberOf(n)) = NumberOf(n + 1) /\ decseq(NumberOf(n)) = NumberOf(n - 1)
  <2>1. 0 \in 0 .. MaxSeqNo
    BY Threshold
  <2>. QED  BY <1>2, <2>1, IncseqAdvances
<1>7. (NumberOf(n) = NumberOf(m) <=> n = m) /\ NumberOf(n) \in Nat /\ NumberOf(m) \in Nat
  <2>1. NumberOf(m) = NumberOf(n) <=> m = n
    BY <1>2, NumbersDiffer
  <2>2. NumberOf(n) \in Nat
    BY <1>2, NumbersDiffer
  <2>3. NumberOf(m) \in Nat
    BY <1>2, NumbersDiffer
  <2>. QED  BY <2>1, <2>2, <2>3
<1>8. seqcmp(NumberOf(n), NumberOf(m)) \in Int
  BY <1>7 DEF seqcmp
<1>. QED  BY ONLY <1>2, <1>3, <1>4, <1>5, <1>6, <1>7, <1>8

\* What is read of a range.
LEMMA RangeRead ==
    ASSUME NEW d1, NEW d2, NEW size, NEW sl, NEW S, NEW E, NEW lo, NEW hi,
           Window(size, sl, lo, hi), Ranges(S, E, lo, hi), Holding(d1, d2, size, sl, S, E),
           NEW n \in S
    PROVE  /\ n \in lo .. hi /\ E[n] \in n .. hi /\ E[n] \in lo .. hi /\ n \in Int /\ E[n] \in Int
           /\ lo \in Int /\ hi \in Int
           /\ sl[n] \in 0 .. size - 1
           /\ d1[sl[n]] = NumberOf(n)
           /\ (IF d2[sl[n]] = -1 THEN d1[sl[n]] ELSE d2[sl[n]]) = NumberOf(E[n])
           /\ d2[sl[n]] = -1 <=> E[n] = n
           /\ d2[sl[n]] # -1 => d2[sl[n]] = NumberOf(E[n])
<1>1. lo \in Int /\ hi \in Int /\ n \in Int /\ E[n] \in Int /\ lo <= n /\ n <= E[n] /\ E[n] <= hi
  BY WindowIs DEF Ranges
<1>2. sl[n] \in 0 .. size - 1
  BY <1>1, WindowIs
<1>3. /\ d1[sl[n]] = NumberOf(n)
      /\ (E[n] = n /\ d2[sl[n]] = -1) \/ (E[n] # n /\ d2[sl[n]] = NumberOf(E[n]))
  BY DEF Holding
<1>4. NumberOf(E[n]) # -1
  <2>1. E[n] \in lo .. hi + 1
    BY <1>1
  <2>2. NumberOf(E[n]) \in Nat
    BY <2>1, Compare
  <2>. QED  BY <2>2
<1>. QED  BY <1>1, <1>2, <1>3, <1>4


\* Following the links from the head leads to every range, and to nothing else.
AllReached(node, size, sl, S) ==
    /\ \A k \in 0 .. size + 1 : node[k] = -1 \/ \E n \in S : node[k] = sl[n]
    /\ \A n \in S : \E k \in 0 .. size : node[k] = sl[n]

\* The nodes that the links reach from the head are the ranges, in order.
LEMMA ChainReaches ==
    ASSUME NEW next, NEW size, NEW sl, NEW S, NEW lo, NEW hi, Window(size, sl, lo, hi),
           S \subseteq lo .. hi, Links(next, size, sl, S), NEW node, HeadOf(sl, S, node[0]),
           \A k \in 1 .. size + 1 : node[k] = IF node[k - 1] = -1 THEN -1 ELSE next[node[k - 1]]
    PROVE  AllReached(node, size, sl, S)
<1>1. /\ size \in Nat \ {0} /\ lo \in Int /\ hi \in Int /\ hi - lo < size
      /\ \A n \in S : n \in Int /\ lo <= n /\ n <= hi /\ sl[n] # -1
  BY WindowIs
<1>2. \A n \in S : Follows(sl, S, n, next[sl[n]])
  BY DEF Links
<1>. DEFINE Node(k) == node[k] = -1 \/ \E n \in S : node[k] = sl[n]
            A == {k \in Nat : k <= size + 1 => Node(k)}
<1>3. 0 \in A
  BY DEF HeadOf
<1>4. ASSUME NEW k \in Nat, k \in A PROVE k + 1 \in A
  <2>. SUFFICES ASSUME k + 1 <= size + 1 PROVE Node(k + 1)
    OBVIOUS
  <2>1. k <= size + 1 /\ k + 1 \in 1 .. size + 1 /\ (k + 1) - 1 = k
    BY <1>1
  <2>2. node[k + 1] = IF node[k] = -1 THEN -1 ELSE next[node[k]]
    BY <2>1
  <2>3. Node(k)
    BY <1>4, <2>1
  <2>4. ASSUME NEW n \in S, node[k] = sl[n] PROVE Node(k + 1)
    <3>1. Follows(sl, S, n, node[k + 1])
      BY <1>1, <1>2, <2>2, <2>4
    <3>. QED  BY <3>1 DEF Follows
  <2>. QED  BY <2>2, <2>3, <2>4
<1>5. \A k \in 0 .. size + 1 : Node(k)
  <2>. HIDE DEF A
  <2>1. \A k \in Nat : k \in A => k + 1 \in A
    BY <1>4
  <2>2. \A k \in Nat : k \in A
    BY ONLY <1>3, <2>1, AllNumbers
  <2>3. \A k \in 0 .. size + 1 : k \in A /\ k \in Nat /\ k <= size + 1
    BY <1>1, <2>2
  <2>. QED  BY <2>3 DEF A
<1>. DEFINE Behind(q, k) == \E j \in 0 .. k : node[j] = sl[q]
            Ahead(q, k) == \E m \in S : node[k] = sl[m] /\ m <= q /\ m >= lo + k
            B == {k \in Nat : k <= size => \A q \in S : Behind(q, k) \/ Ahead(q, k)}
<1>6. 0 \in B
  <2>. SUFFICES ASSUME NEW q \in S PROVE Ahead(q, 0)
    OBVIOUS
  <2>1. PICK m \in S : node[0] = sl[m] /\ \A n \in S : m <= n
    BY DEF HeadOf
  <2>2. m <= q /\ m >= lo + 0
    BY <1>1, <2>1
  <2>. QED  BY <2>1, <2>2
<1>7. ASSUME NEW k \in Nat, k \in B PROVE k + 1 \in B
  <2>. SUFFICES ASSUME k + 1 <= size, NEW q \in S PROVE Behind(q, k + 1) \/ Ahead(q, k + 1)
    OBVIOUS
  <2>1. k <= size /\ k + 1 \in 1 .. size + 1 /\ (k + 1) - 1 = k /\ \A j \in 0 .. k : j \in 0 .. k + 1
    BY <1>1
  <2>2. CASE Behind(q, k)
    BY <2>1, <2>2
  <2>3. ASSUME NEW m \in S, node[k] = sl[m], m <= q, m >= lo + k PROVE Behind(q, k + 1) \/ Ahead(q, k + 1)
    <3>1. CASE m = q
      <4>1. k \in 0 .. k + 1
        OBVIOUS
      <4>. QED  BY <2>3, <3>1, <4>1
    <3>2. CASE m # q
      <4>1. m < q
        BY <1>1, <2>3, <3>2
      <4>2. node[k + 1] = next[sl[m]]
        <5>1. node[k + 1] = IF node[k] = -1 THEN -1 ELSE next[node[k]]
          BY <2>1
        <5>2. sl[m] # -1
          BY <1>1
        <5>. QED  BY <2>3, <5>1, <5>2
      <4>3. Follows(sl, S, m, node[k + 1])
        BY <1>2, <4>2
      <4>4. PICK o \in S : m < o /\ node[k + 1] = sl[o] /\ \A n \in S : n <= m \/ o <= n
        <5>1. ~(\A n \in S : n <= m)
          BY <1>1, <4>1
        <5>. QED  BY <4>3, <5>1 DEF Follows
      <4>5. o <= q /\ o >= lo + (k + 1)
        BY <1>1, <2>3, <4>1, <4>4
      <4>. QED  BY <4>4, <4>5
    <3>. QED  BY <3>1, <3>2
  <2>. QED  BY <1>7, <2>1, <2>2, <2>3
<1>8. size \in B
  <2>. HIDE DEF B
  <2>1. \A k \in Nat : k \in B => k + 1 \in B
    BY <1>7
  <2>2. \A k \in Nat : k \in B
    BY ONLY <1>6, <2>1, AllNumbers
  <2>. QED  BY <1>1, <2>2
<1>9. ASSUME NEW q \in S PROVE Behind(q, size)
  <2>1. Behind(q, size) \/ Ahead(q, size)
    BY <1>1, <1>8
  <2>2. ~Ahead(q, size)
    BY <1>1
  <2>. QED  BY <2>1, <2>2
<1>. QED  BY <1>5, <1>9 DEF AllReached
-----------------------------------------------------------------------------
(* The loops over the sender's list, turn by turn.                         *)

\* The turns of insert's last loop.
LEMMA CoalesceTurns ==
    ASSUME NEW L, NEW loc
    PROVE  \E g : /\ g[0] = L
                  /\ \A k \in 1 .. SndListSize : g[k] = CoalesceTurn(g[k - 1], loc)
                  /\ Coalesce(L, loc) = g[SndListSize]
<1>. DEFINE W(g, k) == IF k = 0 THEN L ELSE CoalesceTurn(g[k - 1], loc)
            turn == CHOOSE g : g = [k \in 0 .. SndListSize |-> W(g, k)]
            T == {n \in Nat : \E g : g = [k \in 0 .. n |-> W(g, k)]}
<1>1. 0 \in T
  <2>. DEFINE h == [k \in 0 .. 0 |-> L]
  <2>1. \A k \in 0 .. 0 : h[k] = W(h, k)
    OBVIOUS
  <2>2. h = [k \in 0 .. 0 |-> h[k]]
    OBVIOUS
  <2>. HIDE DEF h, W
  <2>3. h = [k \in 0 .. 0 |-> W(h, k)]
    BY <2>1, <2>2
  <2>. QED  BY <2>3
<1>2. ASSUME NEW n \in Nat, n \in T PROVE n + 1 \in T
  <2>1. PICK g : g = [k \in 0 .. n |-> W(g, k)]
    BY <1>2
  <2>2. \A k \in 0 .. n : g[k] = W(g, k)
    <3>. HIDE DEF W
    <3>. QED  BY <2>1
  <2>3. PICK x : x = W(g, n + 1)
    OBVIOUS
  <2>. DEFINE h == [k \in 0 .. n + 1 |-> IF k <= n THEN g[k] ELSE x]
  <2>4. \A k \in 0 .. n : h[k] = g[k]
    OBVIOUS
  <2>5. h[n + 1] = x
    OBVIOUS
  <2>6. ASSUME NEW k \in 0 .. n + 1 PROVE h[k] = W(h, k)
    <3>. HIDE DEF h
    <3>1. CASE k = 0
      <4>1. h[k] = g[k] /\ g[k] = W(g, k)
        BY <3>1, <2>2, <2>4
      <4>. QED  BY <3>1, <4>1
    <3>2. CASE k # 0 /\ k <= n
      <4>1. k \in 0 .. n /\ k - 1 \in 0 .. n
        BY <3>2
      <4>2. h[k] = g[k] /\ g[k] = W(g, k) /\ h[k - 1] = g[k - 1]
        BY <4>1, <2>2, <2>4
      <4>. QED  BY <3>2, <4>2
    <3>3. CASE k = n + 1
      <4>1. n \in 0 .. n /\ (n + 1) - 1 = n /\ n + 1 # 0
        OBVIOUS
      <4>2. h[n] = g[n]
        BY <4>1, <2>4
      <4>3. h[n + 1] = W(g, n + 1)
        BY <2>3, <2>5
      <4>4. W(g, n + 1) = W(h, n + 1)
        BY <4>1, <4>2
      <4>. QED  BY <3>3, <4>3, <4>4
    <3>4. k = n + 1 \/ k <= n
      OBVIOUS
    <3>. QED  BY <3>1, <3>2, <3>3, <3>4
  <2>7. h = [k \in 0 .. n + 1 |-> h[k]]
    OBVIOUS
  <2>. HIDE DEF h, W
  <2>8. h = [k \in 0 .. n + 1 |-> W(h, k)]
    BY <2>6, <2>7
  <2>. QED  BY <2>8
<1>3. SndListSize \in T
  <2>. HIDE DEF T
  <2>1. \A n \in Nat : n \in T => n + 1 \in T
    BY <1>2
  <2>2. \A n \in Nat : n \in T
    BY ONLY <1>1, <2>1, AllNumbers
  <2>3. SndListSize \in Nat
    BY SndLossListAssumption
  <2>. QED  BY <2>2, <2>3
<1>4. turn = [k \in 0 .. SndListSize |-> W(turn, k)]
  <2>1. \E g : g = [k \in 0 .. SndListSize |-> W(g, k)]
    BY <1>3
  <2>. HIDE DEF W
  <2>. QED  BY <2>1
<1>5. Coalesce(L, loc) = turn[SndListSize]
  BY DEF Coalesce
<1>. HIDE DEF turn
<1>6. \A k \in 0 .. SndListSize : turn[k] = W(turn, k)
  <2>. HIDE DEF W
  <2>. QED  BY <1>4
<1>7. SndListSize \in Nat
  BY SndLossListAssumption
<1>8. turn[0] = L
  <2>1. 0 \in 0 .. SndListSize
    BY <1>7
  <2>. QED  BY <1>6, <2>1
<1>9. ASSUME NEW k \in 1 .. SndListSize PROVE turn[k] = CoalesceTurn(turn[k - 1], loc)
  <2>1. k \in 0 .. SndListSize /\ k # 0
    BY <1>7
  <2>2. turn[k] = W(turn, k)
    BY <1>6, <2>1
  <2>. QED  BY <2>1, <2>2
<1>. QED
  BY <1>5, <1>8, <1>9

\* The turns of the searches for the node before a number.
LEMMA PriorTurns ==
    ASSUME NEW L, NEW i, NEW s
    PROVE  \E g : /\ g[0] = i
                  /\ \A k \in 1 .. SndListSize : g[k] = NextBefore(L, g[k - 1], s)
                  /\ PriorFrom(L, i, s) = g[SndListSize]
<1>. DEFINE W(g, k) == IF k = 0 THEN i ELSE NextBefore(L, g[k - 1], s)
            turn == CHOOSE g : g = [k \in 0 .. SndListSize |-> W(g, k)]
            T == {n \in Nat : \E g : g = [k \in 0 .. n |-> W(g, k)]}
<1>1. 0 \in T
  <2>. DEFINE h == [k \in 0 .. 0 |-> i]
  <2>1. \A k \in 0 .. 0 : h[k] = W(h, k)
    OBVIOUS
  <2>2. h = [k \in 0 .. 0 |-> h[k]]
    OBVIOUS
  <2>. HIDE DEF h, W
  <2>3. h = [k \in 0 .. 0 |-> W(h, k)]
    BY <2>1, <2>2
  <2>. QED  BY <2>3
<1>2. ASSUME NEW n \in Nat, n \in T PROVE n + 1 \in T
  <2>1. PICK g : g = [k \in 0 .. n |-> W(g, k)]
    BY <1>2
  <2>2. \A k \in 0 .. n : g[k] = W(g, k)
    <3>. HIDE DEF W
    <3>. QED  BY <2>1
  <2>3. PICK x : x = W(g, n + 1)
    OBVIOUS
  <2>. DEFINE h == [k \in 0 .. n + 1 |-> IF k <= n THEN g[k] ELSE x]
  <2>4. \A k \in 0 .. n : h[k] = g[k]
    OBVIOUS
  <2>5. h[n + 1] = x
    OBVIOUS
  <2>6. ASSUME NEW k \in 0 .. n + 1 PROVE h[k] = W(h, k)
    <3>. HIDE DEF h
    <3>1. CASE k = 0
      <4>1. h[k] = g[k] /\ g[k] = W(g, k)
        BY <3>1, <2>2, <2>4
      <4>. QED  BY <3>1, <4>1
    <3>2. CASE k # 0 /\ k <= n
      <4>1. k \in 0 .. n /\ k - 1 \in 0 .. n
        BY <3>2
      <4>2. h[k] = g[k] /\ g[k] = W(g, k) /\ h[k - 1] = g[k - 1]
        BY <4>1, <2>2, <2>4
      <4>. QED  BY <3>2, <4>2
    <3>3. CASE k = n + 1
      <4>1. n \in 0 .. n /\ (n + 1) - 1 = n /\ n + 1 # 0
        OBVIOUS
      <4>2. h[n] = g[n]
        BY <4>1, <2>4
      <4>3. h[n + 1] = W(g, n + 1)
        BY <2>3, <2>5
      <4>4. W(g, n + 1) = W(h, n + 1)
        BY <4>1, <4>2
      <4>. QED  BY <3>3, <4>3, <4>4
    <3>4. k = n + 1 \/ k <= n
      OBVIOUS
    <3>. QED  BY <3>1, <3>2, <3>3, <3>4
  <2>7. h = [k \in 0 .. n + 1 |-> h[k]]
    OBVIOUS
  <2>. HIDE DEF h, W
  <2>8. h = [k \in 0 .. n + 1 |-> W(h, k)]
    BY <2>6, <2>7
  <2>. QED  BY <2>8
<1>3. SndListSize \in T
  <2>. HIDE DEF T
  <2>1. \A n \in Nat : n \in T => n + 1 \in T
    BY <1>2
  <2>2. \A n \in Nat : n \in T
    BY ONLY <1>1, <2>1, AllNumbers
  <2>3. SndListSize \in Nat
    BY SndLossListAssumption
  <2>. QED  BY <2>2, <2>3
<1>4. turn = [k \in 0 .. SndListSize |-> W(turn, k)]
  <2>1. \E g : g = [k \in 0 .. SndListSize |-> W(g, k)]
    BY <1>3
  <2>. HIDE DEF W
  <2>. QED  BY <2>1
<1>5. PriorFrom(L, i, s) = turn[SndListSize]
  BY DEF PriorFrom
<1>. HIDE DEF turn
<1>6. \A k \in 0 .. SndListSize : turn[k] = W(turn, k)
  <2>. HIDE DEF W
  <2>. QED  BY <1>4
<1>7. SndListSize \in Nat
  BY SndLossListAssumption
<1>8. turn[0] = i
  <2>1. 0 \in 0 .. SndListSize
    BY <1>7
  <2>. QED  BY <1>6, <2>1
<1>9. ASSUME NEW k \in 1 .. SndListSize PROVE turn[k] = NextBefore(L, turn[k - 1], s)
  <2>1. k \in 0 .. SndListSize /\ k # 0
    BY <1>7
  <2>2. turn[k] = W(turn, k)
    BY <1>6, <2>1
  <2>. QED  BY <2>1, <2>2
<1>. QED
  BY <1>5, <1>8, <1>9

\* The turns of remove's last loop.
LEMMA PurgeTurns ==
    ASSUME NEW L, NEW i
    PROVE  \E g : /\ g[0] = [list |-> L, at |-> i]
                  /\ \A k \in 1 .. SndListSize : g[k] = PurgeTurn(g[k - 1])
                  /\ Purge(L, i) = g[SndListSize].list
<1>. DEFINE W(g, k) == IF k = 0 THEN [list |-> L, at |-> i] ELSE PurgeTurn(g[k - 1])
            turn == CHOOSE g : g = [k \in 0 .. SndListSize |-> W(g, k)]
            T == {n \in Nat : \E g : g = [k \in 0 .. n |-> W(g, k)]}
<1>1. 0 \in T
  <2>. DEFINE h == [k \in 0 .. 0 |-> [list |-> L, at |-> i]]
  <2>1. \A k \in 0 .. 0 : h[k] = W(h, k)
    OBVIOUS
  <2>2. h = [k \in 0 .. 0 |-> h[k]]
    OBVIOUS
  <2>. HIDE DEF h, W
  <2>3. h = [k \in 0 .. 0 |-> W(h, k)]
    BY <2>1, <2>2
  <2>. QED  BY <2>3
<1>2. ASSUME NEW n \in Nat, n \in T PROVE n + 1 \in T
  <2>1. PICK g : g = [k \in 0 .. n |-> W(g, k)]
    BY <1>2
  <2>2. \A k \in 0 .. n : g[k] = W(g, k)
    <3>. HIDE DEF W
    <3>. QED  BY <2>1
  <2>3. PICK x : x = W(g, n + 1)
    OBVIOUS
  <2>. DEFINE h == [k \in 0 .. n + 1 |-> IF k <= n THEN g[k] ELSE x]
  <2>4. \A k \in 0 .. n : h[k] = g[k]
    OBVIOUS
  <2>5. h[n + 1] = x
    OBVIOUS
  <2>6. ASSUME NEW k \in 0 .. n + 1 PROVE h[k] = W(h, k)
    <3>. HIDE DEF h
    <3>1. CASE k = 0
      <4>1. h[k] = g[k] /\ g[k] = W(g, k)
        BY <3>1, <2>2, <2>4
      <4>. QED  BY <3>1, <4>1
    <3>2. CASE k # 0 /\ k <= n
      <4>1. k \in 0 .. n /\ k - 1 \in 0 .. n
        BY <3>2
      <4>2. h[k] = g[k] /\ g[k] = W(g, k) /\ h[k - 1] = g[k - 1]
        BY <4>1, <2>2, <2>4
      <4>. QED  BY <3>2, <4>2
    <3>3. CASE k = n + 1
      <4>1. n \in 0 .. n /\ (n + 1) - 1 = n /\ n + 1 # 0
        OBVIOUS
      <4>2. h[n] = g[n]
        BY <4>1, <2>4
      <4>3. h[n + 1] = W(g, n + 1)
        BY <2>3, <2>5
      <4>4. W(g, n + 1) = W(h, n + 1)
        BY <4>1, <4>2
      <4>. QED  BY <3>3, <4>3, <4>4
    <3>4. k = n + 1 \/ k <= n
      OBVIOUS
    <3>. QED  BY <3>1, <3>2, <3>3, <3>4
  <2>7. h = [k \in 0 .. n + 1 |-> h[k]]
    OBVIOUS
  <2>. HIDE DEF h, W
  <2>8. h = [k \in 0 .. n + 1 |-> W(h, k)]
    BY <2>6, <2>7
  <2>. QED  BY <2>8
<1>3. SndListSize \in T
  <2>. HIDE DEF T
  <2>1. \A n \in Nat : n \in T => n + 1 \in T
    BY <1>2
  <2>2. \A n \in Nat : n \in T
    BY ONLY <1>1, <2>1, AllNumbers
  <2>3. SndListSize \in Nat
    BY SndLossListAssumption
  <2>. QED  BY <2>2, <2>3
<1>4. turn = [k \in 0 .. SndListSize |-> W(turn, k)]
  <2>1. \E g : g = [k \in 0 .. SndListSize |-> W(g, k)]
    BY <1>3
  <2>. HIDE DEF W
  <2>. QED  BY <2>1
<1>5. Purge(L, i) = turn[SndListSize].list
  BY DEF Purge
<1>. HIDE DEF turn
<1>6. \A k \in 0 .. SndListSize : turn[k] = W(turn, k)
  <2>. HIDE DEF W
  <2>. QED  BY <1>4
<1>7. SndListSize \in Nat
  BY SndLossListAssumption
<1>8. turn[0] = [list |-> L, at |-> i]
  <2>1. 0 \in 0 .. SndListSize
    BY <1>7
  <2>. QED  BY <1>6, <2>1
<1>9. ASSUME NEW k \in 1 .. SndListSize PROVE turn[k] = PurgeTurn(turn[k - 1])
  <2>1. k \in 0 .. SndListSize /\ k # 0
    BY <1>7
  <2>2. turn[k] = W(turn, k)
    BY <1>6, <2>1
  <2>. QED  BY <2>1, <2>2
<1>. QED
  BY <1>5, <1>8, <1>9
-----------------------------------------------------------------------------
(* CSndLossList                                                            *)

SndListRecord(L) ==
    /\ L = [data1 |-> L.data1, data2 |-> L.data2, next |-> L.next, head |-> L.head,
            length |-> L.length, lastInsertPos |-> L.lastInsertPos]
    /\ L.head \in Int /\ L.length \in Int /\ L.lastInsertPos \in Int

\* The arrays are those of the ranges, whatever the length says.
SndArrays(L, sl, S, E, lo, hi) ==
    /\ SndListRecord(L)
    /\ Window(SndListSize, sl, lo, hi) /\ Ranges(S, E, lo, hi)
    /\ Holding(L.data1, L.data2, SndListSize, sl, S, E)
    /\ Links(L.next, SndListSize, sl, S) /\ HeadOf(sl, S, L.head)

SndHolds(L, sl, S, E, lo, hi) ==
    /\ SndArrays(L, sl, S, E, lo, hi)
    /\ Apart(S, E)
    /\ L.lastInsertPos = -1 \/ \E n \in S : L.lastInsertPos = sl[n]
    /\ L.length = Cardinality(Covered(S, E))

\* The list holds the numbers C, in whatever ranges.
SndHoldsNumbers(L, C, lo, hi) == \E sl, S, E : SndHolds(L, sl, S, E, lo, hi) /\ Covered(S, E) = C

\* The range that starts at x may reach those after it, and counts with all its numbers.
SndMerging(L, sl, S, E, x, lo, hi) ==
    /\ SndArrays(L, sl, S, E, lo, hi)
    /\ x \in S /\ L.lastInsertPos = sl[x]
    /\ \A m, n \in S : m < n /\ m # x => E[m] < n
    /\ L.length = Cardinality(Covered(S \ {x}, E)) + (E[x] - x + 1)

-----------------------------------------------------------------------------
(* Coalesce                                                                *)

\* The loop goes on.
MayMerge(L, loc) == L.next[loc] # -1 /\ L.data2[loc] # -1 /\ Reaches(L, loc, L.next[loc])

\* What the test of insert's last loop says of the next range.
LEMMA MergeIs ==
    ASSUME NEW L, NEW sl, NEW S, NEW E, NEW x, NEW lo, NEW hi, SndMerging(L, sl, S, E, x, lo, hi)
    PROVE  IF MayMerge(L, sl[x])
           THEN \E m \in S : /\ E[x] # x /\ x < m /\ m <= E[x] + 1 /\ L.next[sl[x]] = sl[m]
                             /\ \A q \in S : q <= x \/ m <= q
           ELSE \A m \in S : m > x => E[x] < m
<1>1. /\ SndListRecord(L) /\ Window(SndListSize, sl, lo, hi) /\ Ranges(S, E, lo, hi)
      /\ Holding(L.data1, L.data2, SndListSize, sl, S, E)
      /\ Links(L.next, SndListSize, sl, S) /\ x \in S
  BY DEF SndMerging, SndArrays
<1>2. Follows(sl, S, x, L.next[sl[x]])
  BY <1>1 DEF Links
<1>3. \A n \in S : n \in Int /\ E[n] \in Int /\ n <= E[n]
  BY <1>1 DEF Ranges
<1>4. CASE L.next[sl[x]] = -1
  <2>1. ASSUME NEW m \in S, m > x PROVE FALSE
    <3>1. Follows(sl, S, x, -1)
      BY <1>2, <1>4
    <3>2. ASSUME NEW k \in S, -1 = sl[k] PROVE FALSE
      BY <3>2, <1>1, <1>3, RangeRead
    <3>3. m <= x
      BY <3>1, <3>2 DEF Follows
    <3>. QED  BY <1>1, <1>3, <2>1, <3>3
  <2>. QED  BY <1>4, <2>1 DEF MayMerge
<1>5. CASE L.next[sl[x]] # -1
  <2>1. PICK m \in S : x < m /\ L.next[sl[x]] = sl[m] /\ \A q \in S : q <= x \/ m <= q
    BY <1>2, <1>5 DEF Follows
  <2>2. L.data1[sl[m]] = NumberOf(m)
    BY <1>1, RangeRead
  <2>3. CASE E[x] = x
    <3>1. L.data2[sl[x]] = -1
      BY <1>1, <2>3, RangeRead
    <3>2. ~MayMerge(L, sl[x])
      BY <3>1 DEF MayMerge
    <3>. QED  BY <1>1, <1>3, <2>3, <3>2
  <2>4. CASE E[x] # x
    <3>1. L.data2[sl[x]] # -1 /\ L.data2[sl[x]] = NumberOf(E[x]) /\ E[x] \in lo .. hi /\ m \in lo .. hi
      BY <1>1, <2>4, RangeRead
    <3>2. lo \in Int /\ hi \in Int
      BY <1>1, WindowIs
    <3>3. E[x] \in lo .. hi + 1 /\ E[x] + 1 \in lo .. hi + 1 /\ m \in lo .. hi + 1
      BY <3>1, <3>2
    <3>4. incseq(NumberOf(E[x])) = NumberOf(E[x] + 1)
      BY <1>1, <3>3, Compare
    <3>5. seqcmp(NumberOf(m), NumberOf(E[x] + 1)) <= 0 <=> m <= E[x] + 1
      BY <1>1, <3>3, Compare
    <3>6. Reaches(L, sl[x], sl[m]) <=> m <= E[x] + 1
      BY <2>2, <3>1, <3>4, <3>5 DEF Reaches
    <3>7. MayMerge(L, sl[x]) <=> m <= E[x] + 1
      BY <1>5, <2>1, <3>1, <3>6 DEF MayMerge
    <3>8. CASE m <= E[x] + 1
      BY <2>1, <2>4, <3>7, <3>8
    <3>9. CASE ~(m <= E[x] + 1)
      <4>1. \A q \in S : q > x => E[x] < q
        BY <1>1, <1>3, <2>1, <3>9
      <4>. QED  BY <3>7, <3>9, <4>1
    <3>. QED  BY <3>8, <3>9
  <2>. QED  BY <2>3, <2>4
<1>. QED  BY <1>4, <1>5

\* A turn of the loop takes the next range in and changes no number.
LEMMA AbsorbKeeps ==
    ASSUME NEW L, NEW sl, NEW S, NEW E, NEW x, NEW lo, NEW hi, SndMerging(L, sl, S, E, x, lo, hi),
           NEW m \in S, E[x] # x, x < m, m <= E[x] + 1, L.next[sl[x]] = sl[m],
           \A q \in S : q <= x \/ m <= q
    PROVE  \E F : /\ SndMerging(Absorb(L, sl[x], sl[m]), sl, S \ {m}, F, x, lo, hi)
                  /\ Covered(S \ {m}, F) = Covered(S, E)
<1>. DEFINE M == Absorb(L, sl[x], sl[m])
<1>1. /\ SndListRecord(L) /\ Window(SndListSize, sl, lo, hi) /\ Ranges(S, E, lo, hi)
      /\ Holding(L.data1, L.data2, SndListSize, sl, S, E)
      /\ Links(L.next, SndListSize, sl, S) /\ HeadOf(sl, S, L.head) /\ x \in S
  BY DEF SndMerging, SndArrays
<1>2. /\ lo \in Int /\ hi \in Int /\ x \in Int /\ m \in Int /\ E[x] \in Int /\ E[m] \in Int
      /\ x <= E[x] /\ m <= E[m] /\ E[x] <= hi /\ E[m] <= hi /\ lo <= x
      /\ x \in lo .. hi + 1 /\ m \in lo .. hi + 1 /\ E[x] \in lo .. hi + 1 /\ E[m] \in lo .. hi + 1
  <2>1. /\ lo \in Int /\ hi \in Int /\ x \in Int /\ m \in Int /\ E[x] \in Int /\ E[m] \in Int
        /\ x \in lo .. hi /\ m \in lo .. hi /\ E[x] \in x .. hi /\ E[m] \in m .. hi
    BY <1>1, RangeRead
  <2>. QED  BY <2>1
<1>3. PICK e \in Int : (E[x] < E[m] /\ e = E[m]) \/ (~(E[x] < E[m]) /\ e = E[x])
  BY <1>2
<1>4. PICK F : F = [E EXCEPT ![x] = e]
  OBVIOUS
<1>5. sl[x] # sl[m]
  <2>1. x \in lo .. hi /\ m \in lo .. hi /\ x # m
    BY <1>1, <1>2, RangeRead
  <2>. QED  BY <1>1, <2>1, WindowIs
<1>7. /\ L.data1[sl[m]] = NumberOf(m) /\ LastOf(L, sl[m]) = NumberOf(E[m])
      /\ L.data2[sl[x]] = NumberOf(E[x])
  BY <1>1, RangeRead DEF LastOf
<1>8. seqcmp(NumberOf(E[m]), NumberOf(E[x])) > 0 <=> E[m] > E[x]
  BY <1>1, <1>2, Compare
<1>9. seqcmp(NumberOf(E[x]), NumberOf(m)) >= 0 <=> E[x] >= m
  BY <1>1, <1>2, Compare
<1>10. seqlen(NumberOf(m), NumberOf(E[m])) = E[m] - m + 1
  BY <1>1, <1>2, Compare
<1>11. m <= E[x] => seqlen(NumberOf(m), NumberOf(E[x])) = E[x] - m + 1
  BY <1>1, <1>2, Compare
<1>12. PICK a1, a2 : a1 = [L.data1 EXCEPT ![sl[m]] = -1] /\ a2 = [L.data2 EXCEPT ![sl[m]] = -1]
  OBVIOUS
<1>13. Holding(a1, a2, SndListSize, sl, S \ {m}, E)
  BY ONLY <1>1, <1>12, StoredWithout
<1>14. Ranges(S \ {m}, E, lo, hi)
  BY <1>1 DEF Ranges
<1>15. PICK ov \in Int : /\ ov = IF ~(seqcmp(NumberOf(E[m]), NumberOf(E[x])) > 0) THEN seqlen(NumberOf(m), NumberOf(E[m]))
                             ELSE IF seqcmp(NumberOf(E[x]), NumberOf(m)) >= 0 THEN seqlen(NumberOf(m), NumberOf(E[x]))
                             ELSE 0
                       /\ ov = IF E[x] < E[m] THEN E[x] - m + 1 ELSE E[m] - m + 1
  BY <1>2, <1>8, <1>9, <1>10, <1>11
<1>16. PICK v : v = IF seqcmp(NumberOf(E[m]), NumberOf(E[x])) > 0 THEN NumberOf(E[m]) ELSE NumberOf(E[x])
  OBVIOUS
<1>17. v = NumberOf(e)
  BY <1>2, <1>3, <1>8, <1>16
<1>18. /\ L.data1 \in [SndSlots -> Int] /\ L.data2 \in [SndSlots -> Int] /\ L.next \in [SndSlots -> Int]
       /\ sl[x] \in SndSlots /\ sl[m] \in SndSlots
  BY <1>1, <1>2, WindowIs DEF Holding, Links, SndSlots
<1>19. M = [L EXCEPT !.data1[sl[m]] = -1,
                     !.data2 = [L.data2 EXCEPT ![sl[m]] = -1, ![sl[x]] = IF seqcmp(NumberOf(E[m]), NumberOf(E[x])) > 0
                                                                  THEN NumberOf(E[m]) ELSE @],
                     !.next[sl[x]] = L.next[sl[m]],
                     !.length = @ - ov]
  BY <1>7, <1>15 DEF Absorb
<1>. HIDE DEF M
<1>20. /\ M.head = L.head /\ M.lastInsertPos = L.lastInsertPos /\ M.data1 = a1
       /\ M.next = [L.next EXCEPT ![sl[x]] = L.next[sl[m]]]
       /\ M.length = L.length - ov
  BY ONLY <1>19, <1>12, <1>1 DEF SndListRecord
<1>21. M.data2 = [a2 EXCEPT ![sl[x]] = v]
  <2>1. M.data2 = [L.data2 EXCEPT ![sl[m]] = -1, ![sl[x]] = IF seqcmp(NumberOf(E[m]), NumberOf(E[x])) > 0
                                                           THEN NumberOf(E[m]) ELSE @]
    BY ONLY <1>19, <1>1 DEF SndListRecord
  <2>2. a2[sl[x]] = NumberOf(E[x])
    BY ONLY <1>12, <1>5, <1>18, <1>7
  <2>3. M.data2 = [a2 EXCEPT ![sl[x]] = IF seqcmp(NumberOf(E[m]), NumberOf(E[x])) > 0
                                        THEN NumberOf(E[m]) ELSE a2[sl[x]]]
    BY ONLY <2>1, <1>12
  <2>. QED  BY ONLY <2>2, <2>3, <1>16
<1>22. SndListRecord(M)
  <2>1. M = [data1 |-> M.data1, data2 |-> M.data2, next |-> M.next, head |-> M.head,
             length |-> M.length, lastInsertPos |-> M.lastInsertPos]
    BY ONLY <1>19, <1>1 DEF SndListRecord
  <2>. QED  BY <2>1, <1>1, <1>15, <1>20 DEF SndListRecord
<1>23. F[x] = e /\ \A n \in S : n # x => F[n] = E[n]
  BY <1>1, <1>2, <1>4 DEF Ranges
<1>24. Ranges(S \ {m}, F, lo, hi)
  BY <1>1, <1>2, <1>3, <1>4, <1>23 DEF Ranges
<1>25. Holding(M.data1, M.data2, SndListSize, sl, S \ {m}, F)
  <2>1. PICK T : T = S \ {m}
    OBVIOUS
  <2>2. Window(SndListSize, sl, lo, hi)
    BY <1>1
  <2>3. Ranges(T, E, lo, hi)
    BY ONLY <1>14, <2>1
  <2>4. Holding(a1, a2, SndListSize, sl, T, E)
    BY ONLY <1>13, <2>1
  <2>5. x \in T
    BY <1>1, <1>2, <2>1
  <2>6. F[x] \in Int /\ F[x] <= hi /\ F[x] # x
    BY <1>2, <1>3, <1>23
  <2>7. \A n \in T : n # x => F[n] = E[n]
    BY <1>23, <2>1
  <2>8. M.data2 = [a2 EXCEPT ![sl[x]] = NumberOf(F[x])]
    BY <1>17, <1>21, <1>23
  <2>9. Holding(a1, M.data2, SndListSize, sl, T, F)
    BY ONLY <2>2, <2>3, <2>4, <2>5, <2>6, <2>7, <2>8, StoredToEnd
  <2>. QED  BY ONLY <2>9, <2>1, <1>20
<1>26. S \subseteq lo .. hi
  BY <1>1, RangeRead
<1>27. Links(M.next, SndListSize, sl, S \ {m})
  BY <1>1, <1>20, <1>26, LinksWithout
<1>28. HeadOf(sl, S \ {m}, M.head)
  <2>1. PICK k \in S : L.head = sl[k] /\ \A q \in S : k <= q
    BY <1>1 DEF HeadOf
  <2>2. k # m
    BY <1>1, <1>2, <2>1
  <2>. QED  BY <2>1, <2>2, <1>20 DEF HeadOf
<1>29. \A k, n \in S \ {m} : k < n /\ k # x => F[k] < n
  BY <1>23 DEF SndMerging
<1>30. M.length = Cardinality(Covered((S \ {m}) \ {x}, F)) + (F[x] - x + 1)
  <2>1. Ranges(S \ {x}, E, lo, hi) /\ m \in S \ {x}
    BY <1>1, <1>2 DEF Ranges
  <2>2. \A n \in S \ {x} : n # m => E[n] < m \/ E[m] < n
    <3>1. \A n \in S : n \in Int
      BY <1>1 DEF Ranges
    <3>2. \A k, n \in S : k < n /\ k # x => E[k] < n
      BY DEF SndMerging
    <3>3. TAKE n \in S \ {x}
    <3>4. HAVE n # m
    <3>10. n \in Int
      BY <3>1
    <3>11. m \in Int
      BY <1>2
    <3>5. n < m \/ m < n
      BY ONLY <3>4, <3>10, <3>11
    <3>6. n < m => E[n] < m
      BY <3>2
    <3>7. m < n => E[m] < n
      BY <1>2, <3>2
    <3>. QED  BY <3>5, <3>6, <3>7
  <2>3. Cardinality(Covered(S \ {x}, E)) = Cardinality(Covered((S \ {x}) \ {m}, E)) + (E[m] - m + 1)
    BY ONLY <1>2, <2>1, <2>2, CoveredWith
  <2>4. Covered((S \ {m}) \ {x}, F) = Covered((S \ {m}) \ {x}, E)
    BY <1>23, CoveredElsewhere
  <2>5. (S \ {m}) \ {x} = (S \ {x}) \ {m}
    OBVIOUS
  <2>6. L.length = Cardinality(Covered(S \ {x}, E)) + (E[x] - x + 1)
    BY DEF SndMerging
  <2>7. PICK c \in Int : c = Cardinality(Covered((S \ {m}) \ {x}, F))
    <3>1. Ranges((S \ {m}) \ {x}, F, lo, hi)
      BY <1>24 DEF Ranges
    <3>. QED  BY <1>2, <3>1, CoveredIs
  <2>9. Cardinality(Covered(S \ {x}, E)) = c + (E[m] - m + 1)
    BY ONLY <2>3, <2>4, <2>5, <2>7
  <2>10. L.length = (c + (E[m] - m + 1)) + (E[x] - x + 1)
    BY ONLY <2>6, <2>9
  <2>8. M.length = ((c + (E[m] - m + 1)) + (E[x] - x + 1)) - ov
    BY ONLY <2>10, <1>20
  <2>. QED  BY ONLY <2>7, <2>8, <1>2, <1>3, <1>15, <1>23
<1>31. Covered(S \ {m}, F) = Covered(S, E)
  <2>1. ASSUME NEW y \in Int PROVE (\E n \in S \ {m} : n <= y /\ y <= F[n]) <=> (\E n \in S : n <= y /\ y <= E[n])
    <3>1. ASSUME NEW n \in S \ {m}, n <= y, y <= F[n] PROVE \E k \in S : k <= y /\ y <= E[k]
      <4>1. CASE n = x /\ ~(y <= E[x])
        <5>1. m <= y /\ y <= E[m]
          BY <1>2, <1>3, <1>23, <3>1, <4>1
        <5>. QED  BY <5>1
      <4>2. CASE n = x /\ y <= E[x]
        BY <3>1, <4>2
      <4>3. CASE n # x
        BY <3>1, <4>3, <1>23
      <4>. QED  BY <4>1, <4>2, <4>3
    <3>2. ASSUME NEW n \in S, n <= y, y <= E[n] PROVE \E k \in S \ {m} : k <= y /\ y <= F[k]
      <4>1. CASE n = m \/ n = x
        <5>1. x <= y /\ y <= F[x] /\ x \in S \ {m}
          BY <1>1, <1>2, <1>3, <1>23, <3>2, <4>1
        <5>. QED  BY <5>1
      <4>2. CASE n # m /\ n # x
        BY <3>2, <4>2, <1>23
      <4>. QED  BY <4>1, <4>2
    <3>. QED  BY <3>1, <3>2
  <2>. QED  BY <2>1 DEF Covered
<1>32. SndMerging(M, sl, S \ {m}, F, x, lo, hi)
  <2>1. SndArrays(M, sl, S \ {m}, F, lo, hi)
    BY <1>1, <1>22, <1>24, <1>25, <1>27, <1>28 DEF SndArrays
  <2>2. x \in S \ {m} /\ M.lastInsertPos = sl[x]
    BY <1>1, <1>2, <1>20 DEF SndMerging
  <2>. QED  BY <2>1, <2>2, <1>29, <1>30 DEF SndMerging
<1>. QED  BY <1>31, <1>32 DEF M

\* When the loop ends, the ranges are apart again.
LEMMA MergedHolds ==
    ASSUME NEW L, NEW sl, NEW S, NEW E, NEW x, NEW lo, NEW hi, SndMerging(L, sl, S, E, x, lo, hi),
           \A m \in S : m > x => E[x] < m
    PROVE  SndHolds(L, sl, S, E, lo, hi)
<1>1. /\ Window(SndListSize, sl, lo, hi) /\ Ranges(S, E, lo, hi) /\ x \in S /\ SndArrays(L, sl, S, E, lo, hi)
      /\ L.lastInsertPos = sl[x]
  BY DEF SndMerging, SndArrays
<1>2. lo \in Int /\ hi \in Int /\ \A n \in S : n \in Int
  BY <1>1, WindowIs DEF Ranges
<1>3. \A m, n \in S : m < n /\ m # x => E[m] < n
  BY DEF SndMerging
<1>4. Apart(S, E)
  BY <1>1, <1>2, <1>3 DEF Apart
<1>5. \A n \in S : n # x => E[n] < x \/ E[x] < n
  <2>. TAKE n \in S
  <2>. HAVE n # x
  <2>1. n < x \/ x < n
    BY <1>1, <1>2
  <2>. QED  BY <2>1, <1>1, <1>3
<1>6. Cardinality(Covered(S, E)) = Cardinality(Covered(S \ {x}, E)) + (E[x] - x + 1)
  <2>1. lo \in Int /\ hi \in Int
    BY <1>2
  <2>2. Ranges(S, E, lo, hi) /\ x \in S
    BY <1>1
  <2>. QED  BY ONLY <2>1, <2>2, <1>5, CoveredWith
<1>7. L.length = Cardinality(Covered(S, E))
  BY <1>6 DEF SndMerging
<1>. QED  BY <1>1, <1>4, <1>7 DEF SndHolds

\* Coalescing ends, with the ranges apart and the same numbers in them.
LEMMA CoalesceHolds ==
    ASSUME NEW L, NEW sl, NEW S, NEW E, NEW x, NEW lo, NEW hi, SndMerging(L, sl, S, E, x, lo, hi)
    PROVE  \E T, F : SndHolds(Coalesce(L, sl[x]), sl, T, F, lo, hi) /\ Covered(T, F) = Covered(S, E)
<1>1. PICK loc, C : loc = sl[x] /\ C = Covered(S, E)
  OBVIOUS
<1>2. PICK g : /\ g[0] = L /\ \A k \in 1 .. SndListSize : g[k] = CoalesceTurn(g[k - 1], loc)
               /\ Coalesce(L, loc) = g[SndListSize]
  BY CoalesceTurns
<1>3. SndListSize \in Nat \ {0}
  BY SndLossListAssumption
<1>4. \A M, T, F : SndMerging(M, sl, T, F, x, lo, hi) => /\ \A n \in T : n \in Int /\ n \in lo .. hi
                                                         /\ x \in T /\ lo \in Int /\ hi \in Int
                                                         /\ hi - lo < SndListSize
  <2>. TAKE M, T, F
  <2>. HAVE SndMerging(M, sl, T, F, x, lo, hi)
  <2>1. Window(SndListSize, sl, lo, hi) /\ Ranges(T, F, lo, hi) /\ Holding(M.data1, M.data2, SndListSize, sl, T, F) /\ x \in T
    BY DEF SndMerging, SndArrays
  <2>2. \A n \in T : n \in Int /\ n \in lo .. hi
    BY ONLY <2>1, RangeRead
  <2>. QED  BY <2>1, <2>2, WindowIs
<1>. DEFINE Far(T, k) == \A n \in T : n > x => n > x + k
            Good(M, T, F, k) == /\ SndMerging(M, sl, T, F, x, lo, hi) /\ Covered(T, F) = C
                                /\ ~MayMerge(M, loc) \/ Far(T, k)
            Q == {k \in Nat : k <= SndListSize => \E T, F : Good(g[k], T, F, k)}
<1>5. 0 \in Q
  <2>1. Far(S, 0)
    BY <1>4
  <2>2. Good(g[0], S, E, 0)
    BY <2>1, <1>1, <1>2
  <2>. QED  BY <2>2
<1>6. ASSUME NEW k \in Nat, k \in Q PROVE k + 1 \in Q
  <2>. SUFFICES ASSUME k + 1 <= SndListSize PROVE \E T, F : Good(g[k + 1], T, F, k + 1)
    OBVIOUS
  <2>1. k <= SndListSize /\ k + 1 \in 1 .. SndListSize /\ (k + 1) - 1 = k
    BY <1>3
  <2>2. PICK T, F : Good(g[k], T, F, k)
    BY <1>6, <2>1
  <2>3. PICK M : M = g[k]
    OBVIOUS
  <2>4. g[k + 1] = CoalesceTurn(M, loc)
    BY <1>2, <2>1, <2>3
  <2>5. SndMerging(M, sl, T, F, x, lo, hi) /\ Covered(T, F) = C /\ (~MayMerge(M, loc) \/ Far(T, k))
    BY <2>2, <2>3
  <2>. HIDE DEF Far
  <2>6. CASE ~MayMerge(M, loc)
    <3>1. g[k + 1] = M
      BY <2>4, <2>6 DEF CoalesceTurn, MayMerge
    <3>2. Good(M, T, F, k + 1)
      BY <2>5, <2>6
    <3>. QED  BY <3>1, <3>2
  <2>7. CASE MayMerge(M, loc)
    <3>1. PICK m \in T : /\ F[x] # x /\ x < m /\ m <= F[x] + 1 /\ M.next[sl[x]] = sl[m]
                         /\ \A q \in T : q <= x \/ m <= q
      BY <1>1, <2>5, <2>7, MergeIs
    <3>2. PICK H : SndMerging(Absorb(M, sl[x], sl[m]), sl, T \ {m}, H, x, lo, hi) /\ Covered(T \ {m}, H) = Covered(T, F)
      BY <2>5, <3>1, AbsorbKeeps
    <3>3. g[k + 1] = Absorb(M, sl[x], sl[m])
      BY <1>1, <2>4, <2>7, <3>1 DEF CoalesceTurn, MayMerge
    <3>4. Far(T \ {m}, k + 1)
      <4>. SUFFICES ASSUME NEW n \in T, n # m, n > x PROVE n > x + (k + 1)
        BY DEF Far
      <4>1. n \in Int /\ m \in Int /\ x \in Int
        BY <1>4, <2>5
      <4>2. m > x + k
        BY <2>5, <2>7, <3>1, <4>1 DEF Far
      <4>3. m <= n
        BY <3>1, <4>1
      <4>. QED  BY <4>1, <4>2, <4>3
    <3>5. Good(g[k + 1], T \ {m}, H, k + 1)
      BY <2>5, <3>2, <3>3, <3>4
    <3>. QED  BY <3>5
  <2>. QED  BY <2>6, <2>7
<1>7. SndListSize \in Q
  <2>. HIDE DEF Q
  <2>1. \A k \in Nat : k \in Q => k + 1 \in Q
    BY <1>6
  <2>2. \A k \in Nat : k \in Q
    BY ONLY <1>5, <2>1, AllNumbers
  <2>. QED  BY <1>3, <2>2
<1>8. PICK T, F : Good(g[SndListSize], T, F, SndListSize)
  BY <1>3, <1>7
<1>9. PICK M : M = g[SndListSize]
  OBVIOUS
<1>10. SndMerging(M, sl, T, F, x, lo, hi) /\ Covered(T, F) = C /\ (~MayMerge(M, loc) \/ Far(T, SndListSize))
  BY <1>8, <1>9
<1>11. \A m \in T : m > x => F[x] < m
  <2>1. CASE MayMerge(M, loc)
    <3>1. PICK m \in T : x < m
      BY <1>1, <1>10, <2>1, MergeIs
    <3>2. m \in Int /\ x \in Int /\ m \in lo .. hi /\ x \in lo .. hi /\ lo \in Int /\ hi \in Int /\ hi - lo < SndListSize
      BY <1>4, <1>10, <3>1
    <3>3. m > x + SndListSize
      BY <1>10, <2>1, <3>1, <3>2
    <3>. QED  BY <3>2, <3>3, <1>3
  <2>2. CASE ~MayMerge(M, loc)
    BY <1>1, <1>10, <2>2, MergeIs
  <2>. QED  BY <2>1, <2>2
<1>12. SndHolds(M, sl, T, F, lo, hi)
  BY <1>10, <1>11, MergedHolds
<1>. QED  BY <1>1, <1>2, <1>9, <1>10, <1>12
-----------------------------------------------------------------------------
(* insert                                                                  *)

NodeAdded(N, L, loc, s1, s2) ==
    /\ N.data1 = [L.data1 EXCEPT ![loc] = s1]
    /\ N.data2 = [L.data2 EXCEPT ![loc] = IF s2 # s1 THEN s2 ELSE L.data2[loc]]
    /\ N.next = L.next /\ N.head = L.head /\ N.lastInsertPos = loc
    /\ N.length = L.length + seqlen(s1, s2)
    /\ N = [data1 |-> N.data1, data2 |-> N.data2, next |-> N.next, head |-> N.head,
            length |-> N.length, lastInsertPos |-> N.lastInsertPos]

\* What NewNode writes.
LEMMA NewNodeIs ==
    ASSUME NEW L, SndListRecord(L), NEW loc, NEW s1, NEW s2
    PROVE  NodeAdded(NewNode(L, loc, s1, s2), L, loc, s1, s2)
<1>0. PICK N : N = NewNode(L, loc, s1, s2)
  OBVIOUS
<1>1. N = [L EXCEPT !.data1[loc] = s1,
                    !.data2[loc] = IF s2 # s1 THEN s2 ELSE L.data2[loc],
                    !.length = L.length + seqlen(s1, s2), !.lastInsertPos = loc]
  BY <1>0 DEF NewNode
<1>2. L = [data1 |-> L.data1, data2 |-> L.data2, next |-> L.next, head |-> L.head,
           length |-> L.length, lastInsertPos |-> L.lastInsertPos]
  BY DEF SndListRecord
<1>3. /\ N.data1 = [L.data1 EXCEPT ![loc] = s1]
      /\ N.next = L.next /\ N.head = L.head /\ N.lastInsertPos = loc
      /\ N.length = L.length + seqlen(s1, s2)
  BY ONLY <1>1, <1>2
<1>4. N.data2 = [L.data2 EXCEPT ![loc] = IF s2 # s1 THEN s2 ELSE L.data2[loc]]
  BY ONLY <1>1, <1>2
<1>5. N = [data1 |-> N.data1, data2 |-> N.data2, next |-> N.next, head |-> N.head,
           length |-> N.length, lastInsertPos |-> N.lastInsertPos]
  BY ONLY <1>1, <1>2
<1>. QED  BY <1>0, <1>3, <1>4, <1>5 DEF NodeAdded

\* The numbers of a range that is added where none is, and counted.
RangeAdded(S, E, a, F, lo, hi) ==
    /\ Ranges(S \cup {a}, F, lo, hi)
    /\ Covered(S \cup {a}, F) = Covered(S, E) \cup (a .. F[a])
    /\ Covered((S \cup {a}) \ {a}, F) = Covered(S, E)

\* The range of a new node, among those that were there.
LEMMA NewRange ==
    ASSUME NEW S, NEW E, NEW lo \in Int, NEW hi \in Int, Ranges(S, E, lo, hi),
           NEW a \in lo .. hi, a \notin S,
           NEW F, F \in [Int -> Int], a <= F[a], F[a] <= hi, \A n \in S : F[n] = E[n]
    PROVE  RangeAdded(S, E, a, F, lo, hi)
<1>1. a \in Int /\ F[a] \in Int /\ lo <= a
  OBVIOUS
<1>2. Ranges(S \cup {a}, F, lo, hi)
  BY <1>1 DEF Ranges
<1>3. Covered(S \cup {a}, F) = Covered(S, E) \cup (a .. F[a])
  BY <1>1 DEF Covered
<1>4. (S \cup {a}) \ {a} = S
  OBVIOUS
<1>5. Covered(S, F) = Covered(S, E)
  BY CoveredElsewhere
<1>. QED  BY <1>2, <1>3, <1>4, <1>5 DEF RangeAdded

\* A range that starts at a and ends at b is added, and may reach those after it.
NodeMerges(M, sl, S, E, a, b, lo, hi) ==
    \E F : /\ SndMerging(M, sl, S \cup {a}, F, a, lo, hi)
           /\ Covered(S \cup {a}, F) = Covered(S, E) \cup (a .. b)

\* A new node, linked in, is ready to be merged with those behind it.
LEMMA NewNodeMerges ==
    ASSUME NEW L, NEW sl, NEW S, NEW E, NEW lo, NEW hi, SndHolds(L, sl, S, E, lo, hi),
           NEW a \in lo .. hi, NEW b \in a .. hi, a \notin S,
           NEW p \in S, p < a, E[p] < a, \A q \in S : q <= p \/ a < q,
           NEW M, M = [NewNode(L, sl[a], NumberOf(a), NumberOf(b)) EXCEPT
                          !.next = [L.next EXCEPT ![sl[a]] = L.next[sl[p]], ![sl[p]] = sl[a]]]
    PROVE  NodeMerges(M, sl, S, E, a, b, lo, hi)
<1>1. /\ SndListRecord(L) /\ Window(SndListSize, sl, lo, hi) /\ Ranges(S, E, lo, hi)
      /\ Holding(L.data1, L.data2, SndListSize, sl, S, E)
      /\ Links(L.next, SndListSize, sl, S) /\ HeadOf(sl, S, L.head)
      /\ Apart(S, E) /\ L.length = Cardinality(Covered(S, E))
  BY DEF SndHolds, SndArrays
<1>2. /\ lo \in Int /\ hi \in Int /\ a \in Int /\ b \in Int /\ lo <= a /\ a <= b /\ b <= hi
      /\ S \subseteq lo .. hi /\ \A n \in S : n \in Int
  <2>1. lo \in Int /\ hi \in Int
    BY <1>1, WindowIs
  <2>2. \A n \in S : n \in lo .. hi
    BY <1>1, RangeRead
  <2>. QED  BY <2>1, <2>2
<1>0. a \notin S
  OBVIOUS
<1>3. PICK N : N = NewNode(L, sl[a], NumberOf(a), NumberOf(b))
  OBVIOUS
<1>4. /\ N.data1 = [L.data1 EXCEPT ![sl[a]] = NumberOf(a)]
      /\ N.data2 = [L.data2 EXCEPT ![sl[a]] = IF NumberOf(b) # NumberOf(a) THEN NumberOf(b) ELSE L.data2[sl[a]]]
      /\ N.next = L.next /\ N.head = L.head /\ N.lastInsertPos = sl[a]
      /\ N.length = L.length + seqlen(NumberOf(a), NumberOf(b))
      /\ N = [data1 |-> N.data1, data2 |-> N.data2, next |-> N.next, head |-> N.head,
              length |-> N.length, lastInsertPos |-> N.lastInsertPos]
  <2>1. SndListRecord(L)
    BY <1>1
  <2>2. NodeAdded(N, L, sl[a], NumberOf(a), NumberOf(b))
    BY ONLY <2>1, <1>3, NewNodeIs
  <2>. QED  BY <2>2 DEF NodeAdded
<1>5. M = [N EXCEPT !.next = [L.next EXCEPT ![sl[a]] = L.next[sl[p]], ![sl[p]] = sl[a]]]
  BY <1>3
<1>6. /\ M.data1 = N.data1 /\ M.data2 = N.data2 /\ M.head = N.head /\ M.length = N.length
      /\ M.lastInsertPos = sl[a]
      /\ M = [data1 |-> M.data1, data2 |-> M.data2, next |-> M.next, head |-> M.head,
              length |-> M.length, lastInsertPos |-> M.lastInsertPos]
  BY ONLY <1>4, <1>5
<1>7. M.next = [L.next EXCEPT ![sl[a]] = L.next[sl[p]], ![sl[p]] = sl[a]]
  BY ONLY <1>4, <1>5
<1>8. PICK F : F = [E EXCEPT ![a] = b]
  OBVIOUS
<1>20. F[a] = b /\ F \in [Int -> Int] /\ \A n \in S : F[n] = E[n]
  BY <1>0, <1>1, <1>2, <1>8 DEF Ranges
<1>9. /\ Ranges(S \cup {a}, F, lo, hi) /\ F[a] = b /\ \A n \in S : F[n] = E[n]
      /\ Covered(S \cup {a}, F) = Covered(S, E) \cup (a .. b)
      /\ Covered((S \cup {a}) \ {a}, F) = Covered(S, E)
  <2>1. lo \in Int /\ hi \in Int /\ a \in lo .. hi
    BY <1>2
  <2>3. F[a] = b /\ a <= F[a] /\ F[a] <= hi
    BY <1>2, <1>20
  <2>4. Ranges(S, E, lo, hi)
    BY <1>1
  <2>5. F \in [Int -> Int]
    BY <1>20
  <2>6. \A n \in S : F[n] = E[n]
    BY <1>20
  <2>2. RangeAdded(S, E, a, F, lo, hi)
    BY ONLY <2>1, <2>3, <2>4, <2>5, <2>6, <1>0, NewRange
  <2>. QED  BY <2>3, <2>2, <1>20 DEF RangeAdded
<1>10. Holding(M.data1, M.data2, SndListSize, sl, S \cup {a}, F)
  <2>1. PICK e1, e2 : e1 = M.data1 /\ e2 = M.data2
    OBVIOUS
  <2>2. e1 = [L.data1 EXCEPT ![sl[a]] = NumberOf(a)]
    BY <2>1, <1>4, <1>6
  <2>3. e2 = [L.data2 EXCEPT ![sl[a]] = IF NumberOf(F[a]) # NumberOf(a) THEN NumberOf(F[a]) ELSE L.data2[sl[a]]]
    BY <2>1, <1>4, <1>6, <1>20
  <2>5. F[a] \in Int /\ a <= F[a] /\ F[a] <= hi
    BY <1>2, <1>20
  <2>6. \A n \in S : F[n] = E[n]
    BY <1>20
  <2>4. Holding(e1, e2, SndListSize, sl, S \cup {a}, F)
    BY <1>0, <1>1, <2>2, <2>3, <2>5, <2>6, StoredWith
  <2>. QED  BY <2>1, <2>4
<1>11. Links(M.next, SndListSize, sl, S \cup {a})
  BY <1>1, <1>2, <1>7, LinksWith
<1>12. HeadOf(sl, S \cup {a}, M.head)
  <2>1. PICK k \in S : L.head = sl[k] /\ \A q \in S : k <= q
    BY <1>1 DEF HeadOf
  <2>2. k <= a
    BY <1>2, <2>1
  <2>. QED  BY <2>1, <2>2, <1>4, <1>6 DEF HeadOf
<1>13. sl[a] \in Int
  BY <1>1, <1>2, WindowIs
<1>14. seqlen(NumberOf(a), NumberOf(b)) = b - a + 1
  <2>1. a \in lo .. hi + 1 /\ b \in lo .. hi + 1
    BY <1>2
  <2>. QED  BY <1>1, <1>2, <2>1, Compare
<1>15. M.length = Cardinality(Covered((S \cup {a}) \ {a}, F)) + (F[a] - a + 1)
  BY <1>1, <1>4, <1>6, <1>9, <1>14
<1>16. SndListRecord(M)
  <2>1. M.head \in Int /\ L.length \in Int
    BY <1>1, <1>4, <1>6 DEF SndListRecord
  <2>2. M.length \in Int
    BY <1>2, <1>4, <1>6, <1>14, <2>1
  <2>. QED  BY <1>6, <1>13, <2>1, <2>2 DEF SndListRecord
<1>17. \A m, n \in S \cup {a} : m < n /\ m # a => F[m] < n
  <2>. TAKE m, n \in S \cup {a}
  <2>. HAVE m < n /\ m # a
  <2>1. m \in S /\ F[m] = E[m]
    BY <1>9
  <2>2. CASE n \in S
    BY <2>1, <2>2, <1>1 DEF Apart
  <2>3. CASE n = a
    <3>1. m <= p
      BY <1>2, <2>1, <2>3
    <3>2. CASE m = p
      BY <2>1, <2>3, <3>2
    <3>3. CASE m # p
      <4>1. E[m] < p
        BY <1>1, <1>2, <2>1, <3>1, <3>3 DEF Apart
      <4>2. E[m] \in Int /\ p \in Int
        BY <1>1, <2>1 DEF Ranges
      <4>. QED  BY <1>2, <2>1, <2>3, <4>1, <4>2
    <3>. QED  BY <3>2, <3>3
  <2>. QED  BY <2>2, <2>3
<1>18. SndMerging(M, sl, S \cup {a}, F, a, lo, hi)
  <2>1. SndArrays(M, sl, S \cup {a}, F, lo, hi)
    BY <1>1, <1>9, <1>10, <1>11, <1>12, <1>16 DEF SndArrays
  <2>. QED  BY <2>1, <1>6, <1>15, <1>17 DEF SndMerging
<1>. QED  BY <1>9, <1>18 DEF NodeMerges

\* A range before all others becomes the head.
LEMMA NewHeadMerges ==
    ASSUME NEW L, NEW sl, NEW S, NEW E, NEW lo, NEW hi, SndHolds(L, sl, S, E, lo, hi),
           NEW a \in lo .. hi, NEW b \in a .. hi, \A q \in S : a < q,
           NEW M, M = [NewNode(L, sl[a], NumberOf(a), NumberOf(b)) EXCEPT !.next[sl[a]] = L.head, !.head = sl[a]]
    PROVE  NodeMerges(M, sl, S, E, a, b, lo, hi)
<1>1. /\ SndListRecord(L) /\ Window(SndListSize, sl, lo, hi) /\ Ranges(S, E, lo, hi)
      /\ Holding(L.data1, L.data2, SndListSize, sl, S, E)
      /\ Links(L.next, SndListSize, sl, S) /\ HeadOf(sl, S, L.head)
      /\ Apart(S, E) /\ L.length = Cardinality(Covered(S, E))
  BY DEF SndHolds, SndArrays
<1>2. /\ lo \in Int /\ hi \in Int /\ a \in Int /\ b \in Int /\ lo <= a /\ a <= b /\ b <= hi
      /\ S \subseteq lo .. hi /\ \A n \in S : n \in Int
  <2>1. lo \in Int /\ hi \in Int
    BY <1>1, WindowIs
  <2>2. \A n \in S : n \in lo .. hi
    BY <1>1, RangeRead
  <2>. QED  BY <2>1, <2>2
<1>0. a \notin S
  BY <1>2
<1>3. PICK N : N = NewNode(L, sl[a], NumberOf(a), NumberOf(b))
  OBVIOUS
<1>4. /\ N.data1 = [L.data1 EXCEPT ![sl[a]] = NumberOf(a)]
      /\ N.data2 = [L.data2 EXCEPT ![sl[a]] = IF NumberOf(b) # NumberOf(a) THEN NumberOf(b) ELSE L.data2[sl[a]]]
      /\ N.next = L.next /\ N.head = L.head /\ N.lastInsertPos = sl[a]
      /\ N.length = L.length + seqlen(NumberOf(a), NumberOf(b))
      /\ N = [data1 |-> N.data1, data2 |-> N.data2, next |-> N.next, head |-> N.head,
              length |-> N.length, lastInsertPos |-> N.lastInsertPos]
  <2>1. SndListRecord(L)
    BY <1>1
  <2>2. NodeAdded(N, L, sl[a], NumberOf(a), NumberOf(b))
    BY ONLY <2>1, <1>3, NewNodeIs
  <2>. QED  BY <2>2 DEF NodeAdded
<1>5. M = [N EXCEPT !.next[sl[a]] = L.head, !.head = sl[a]]
  BY <1>3
<1>6. /\ M.data1 = N.data1 /\ M.data2 = N.data2 /\ M.head = sl[a] /\ M.length = N.length
      /\ M.lastInsertPos = sl[a]
      /\ M = [data1 |-> M.data1, data2 |-> M.data2, next |-> M.next, head |-> M.head,
              length |-> M.length, lastInsertPos |-> M.lastInsertPos]
  BY ONLY <1>4, <1>5
<1>7. M.next = [L.next EXCEPT ![sl[a]] = L.head]
  BY ONLY <1>4, <1>5
<1>8. PICK F : F = [E EXCEPT ![a] = b]
  OBVIOUS
<1>20. F[a] = b /\ F \in [Int -> Int] /\ \A n \in S : F[n] = E[n]
  BY <1>0, <1>1, <1>2, <1>8 DEF Ranges
<1>9. /\ Ranges(S \cup {a}, F, lo, hi) /\ F[a] = b /\ \A n \in S : F[n] = E[n]
      /\ Covered(S \cup {a}, F) = Covered(S, E) \cup (a .. b)
      /\ Covered((S \cup {a}) \ {a}, F) = Covered(S, E)
  <2>1. lo \in Int /\ hi \in Int /\ a \in lo .. hi
    BY <1>2
  <2>3. F[a] = b /\ a <= F[a] /\ F[a] <= hi
    BY <1>2, <1>20
  <2>4. Ranges(S, E, lo, hi)
    BY <1>1
  <2>5. F \in [Int -> Int]
    BY <1>20
  <2>6. \A n \in S : F[n] = E[n]
    BY <1>20
  <2>2. RangeAdded(S, E, a, F, lo, hi)
    BY ONLY <2>1, <2>3, <2>4, <2>5, <2>6, <1>0, NewRange
  <2>. QED  BY <2>3, <2>2, <1>20 DEF RangeAdded
<1>10. Holding(M.data1, M.data2, SndListSize, sl, S \cup {a}, F)
  <2>1. PICK e1, e2 : e1 = M.data1 /\ e2 = M.data2
    OBVIOUS
  <2>2. e1 = [L.data1 EXCEPT ![sl[a]] = NumberOf(a)]
    BY <2>1, <1>4, <1>6
  <2>3. e2 = [L.data2 EXCEPT ![sl[a]] = IF NumberOf(F[a]) # NumberOf(a) THEN NumberOf(F[a]) ELSE L.data2[sl[a]]]
    BY <2>1, <1>4, <1>6, <1>20
  <2>5. F[a] \in Int /\ a <= F[a] /\ F[a] <= hi
    BY <1>2, <1>20
  <2>6. \A n \in S : F[n] = E[n]
    BY <1>20
  <2>4. Holding(e1, e2, SndListSize, sl, S \cup {a}, F)
    BY <1>0, <1>1, <2>2, <2>3, <2>5, <2>6, StoredWith
  <2>. QED  BY <2>1, <2>4
<1>11. Links(M.next, SndListSize, sl, S \cup {a}) /\ HeadOf(sl, S \cup {a}, M.head)
  BY <1>1, <1>2, <1>6, <1>7, LinksFirst
<1>13. sl[a] \in Int
  BY <1>1, <1>2, WindowIs
<1>14. seqlen(NumberOf(a), NumberOf(b)) = b - a + 1
  <2>1. a \in lo .. hi + 1 /\ b \in lo .. hi + 1
    BY <1>2
  <2>. QED  BY <1>1, <1>2, <2>1, Compare
<1>15. M.length = Cardinality(Covered((S \cup {a}) \ {a}, F)) + (F[a] - a + 1)
  BY <1>1, <1>4, <1>6, <1>9, <1>14
<1>16. SndListRecord(M)
  <2>1. M.head \in Int /\ L.length \in Int
    BY <1>1, <1>6, <1>13 DEF SndListRecord
  <2>2. M.length \in Int
    BY <1>2, <1>4, <1>6, <1>14, <2>1
  <2>. QED  BY <1>6, <1>13, <2>1, <2>2 DEF SndListRecord
<1>17. \A m, n \in S \cup {a} : m < n /\ m # a => F[m] < n
  <2>. TAKE m, n \in S \cup {a}
  <2>. HAVE m < n /\ m # a
  <2>1. m \in S /\ F[m] = E[m] /\ n \in S
    BY <1>2, <1>9
  <2>. QED  BY <2>1, <1>1 DEF Apart
<1>18. SndMerging(M, sl, S \cup {a}, F, a, lo, hi)
  <2>1. SndArrays(M, sl, S \cup {a}, F, lo, hi)
    BY <1>1, <1>9, <1>10, <1>11, <1>16 DEF SndArrays
  <2>. QED  BY <2>1, <1>6, <1>15, <1>17 DEF SndMerging
<1>. QED  BY <1>9, <1>18 DEF NodeMerges

\* The first range takes slot 0, and the ring is numbered from there.
LEMMA FirstNodeHolds ==
    ASSUME NEW L, NEW sl, NEW E, NEW lo, NEW hi, SndHolds(L, sl, {}, E, lo, hi),
           NEW a \in lo .. hi, NEW b \in a .. hi,
           NEW M, M = [NewNode(L, 0, NumberOf(a), NumberOf(b)) EXCEPT !.head = 0, !.next[0] = -1]
    PROVE  SndHoldsNumbers(M, a .. b, lo, hi)
<1>1. /\ SndListRecord(L) /\ Window(SndListSize, sl, lo, hi) /\ Ranges({}, E, lo, hi)
      /\ Holding(L.data1, L.data2, SndListSize, sl, {}, E)
      /\ Links(L.next, SndListSize, sl, {}) /\ HeadOf(sl, {}, L.head)
      /\ L.lastInsertPos = -1 /\ L.length = Cardinality(Covered({}, E))
  BY DEF SndHolds, SndArrays
<1>2. SndListSize \in Nat \ {0} /\ lo \in Int /\ hi \in Int /\ a \in Int /\ b \in Int
  BY <1>1, WindowIs
<1>3. PICK r : RingSlots(r, SndListSize) /\ r[a] = 0
  BY <1>2, RingSlotsFrom
<1>4. Window(SndListSize, r, lo, hi)
  BY <1>1, <1>3 DEF Window
<1>5. Holding(L.data1, L.data2, SndListSize, r, {}, E) /\ Links(L.next, SndListSize, r, {}) /\ HeadOf(r, {}, L.head)
  BY <1>1 DEF Holding, Links, HeadOf
<1>6. L.head = -1
  BY <1>1 DEF HeadOf
<1>7. SndHolds(L, r, {}, E, lo, hi)
  BY <1>1, <1>4, <1>5 DEF SndHolds, SndArrays, Apart
<1>8. PICK N : N = NewNode(L, 0, NumberOf(a), NumberOf(b))
  OBVIOUS
<1>9. N = [data1 |-> N.data1, data2 |-> N.data2, next |-> N.next, head |-> N.head,
           length |-> N.length, lastInsertPos |-> N.lastInsertPos]
  <2>1. SndListRecord(L)
    BY <1>1
  <2>2. NodeAdded(N, L, 0, NumberOf(a), NumberOf(b))
    BY ONLY <1>8, <2>1, NewNodeIs
  <2>. QED  BY <2>2 DEF NodeAdded
<1>10. M = [N EXCEPT !.next[0] = -1, !.head = 0]
  <2>1. M = [N EXCEPT !.head = 0, !.next[0] = -1]
    BY <1>8
  <2>. QED  BY ONLY <2>1, <1>9
<1>11. M = [NewNode(L, r[a], NumberOf(a), NumberOf(b)) EXCEPT !.next[r[a]] = L.head, !.head = r[a]]
  BY ONLY <1>3, <1>6, <1>8, <1>10
<1>12. PICK F : /\ SndMerging(M, r, {} \cup {a}, F, a, lo, hi)
                /\ Covered({} \cup {a}, F) = Covered({}, E) \cup (a .. b)
  <2>1. PICK S : S = {}
    OBVIOUS
  <2>2. \A q \in S : a < q
    BY <2>1
  <2>3. a \in lo .. hi
    OBVIOUS
  <2>6. b \in a .. hi
    OBVIOUS
  <2>4. SndHolds(L, r, S, E, lo, hi)
    BY <1>7, <2>1
  <2>5. NodeMerges(M, r, S, E, a, b, lo, hi)
    BY ONLY <1>11, <2>2, <2>3, <2>4, <2>6, NewHeadMerges
  <2>. QED  BY <2>1, <2>5 DEF NodeMerges
<1>13. \A m \in {} \cup {a} : m > a => F[a] < m
  BY <1>2
<1>14. SndHolds(M, r, {} \cup {a}, F, lo, hi)
  BY ONLY <1>12, <1>13, MergedHolds
<1>15. Covered({}, E) = {}
  BY DEF Covered
<1>. QED  BY <1>12, <1>14, <1>15 DEF SndHoldsNumbers

\* The numbers join a range that they start in.
LEMMA JoinHolds ==
    ASSUME NEW L, NEW sl, NEW S, NEW E, NEW lo, NEW hi, SndHolds(L, sl, S, E, lo, hi),
           NEW p \in S, NEW a \in lo .. hi, p <= a, a <= E[p], NEW b \in a .. hi
    PROVE  SndHoldsNumbers(Join(L, sl[p], NumberOf(b)), Covered(S, E) \cup (a .. b), lo, hi)
<1>1. /\ SndListRecord(L) /\ Window(SndListSize, sl, lo, hi) /\ Ranges(S, E, lo, hi)
      /\ Holding(L.data1, L.data2, SndListSize, sl, S, E)
      /\ Links(L.next, SndListSize, sl, S) /\ HeadOf(sl, S, L.head)
      /\ Apart(S, E) /\ L.length = Cardinality(Covered(S, E))
  BY DEF SndHolds, SndArrays
<1>2. /\ lo \in Int /\ hi \in Int /\ a \in Int /\ b \in Int /\ lo <= a /\ a <= b /\ b <= hi
      /\ p \in Int /\ E[p] \in Int /\ p <= E[p] /\ E[p] <= hi /\ lo <= p
      /\ sl[p] \in 0 .. SndListSize - 1 /\ LastOf(L, sl[p]) = NumberOf(E[p])
      /\ b \in lo .. hi + 1 /\ E[p] \in lo .. hi + 1 /\ SndListSize \in Int
  <2>1. lo \in Int /\ hi \in Int /\ SndListSize \in Int
    BY <1>1, WindowIs
  <2>2. /\ p \in lo .. hi /\ E[p] \in p .. hi /\ sl[p] \in 0 .. SndListSize - 1
        /\ LastOf(L, sl[p]) = NumberOf(E[p])
    BY <1>1, RangeRead DEF LastOf
  <2>. QED  BY <2>1, <2>2
<1>3. seqcmp(NumberOf(b), NumberOf(E[p])) > 0 <=> b > E[p]
  BY <1>1, <1>2, Compare
<1>4. PICK N : N = [L EXCEPT !.lastInsertPos = sl[p]]
  OBVIOUS
<1>5. LastOf(N, sl[p]) = NumberOf(E[p])
  BY <1>1, <1>2, <1>4 DEF LastOf, SndListRecord
<1>6. Join(L, sl[p], NumberOf(b)) = IF b > E[p] THEN Coalesce(Stretch(N, sl[p], NumberOf(b)), sl[p]) ELSE N
  BY <1>2, <1>3, <1>4 DEF Join
<1>7. /\ N.data1 = L.data1 /\ N.data2 = L.data2 /\ N.next = L.next /\ N.head = L.head
      /\ N.length = L.length /\ N.lastInsertPos = sl[p] /\ SndListRecord(N)
  <2>1. /\ N.data1 = L.data1 /\ N.data2 = L.data2 /\ N.next = L.next /\ N.head = L.head
        /\ N.length = L.length /\ N.lastInsertPos = sl[p]
        /\ N = [data1 |-> N.data1, data2 |-> N.data2, next |-> N.next, head |-> N.head,
                length |-> N.length, lastInsertPos |-> N.lastInsertPos]
    BY ONLY <1>1, <1>4 DEF SndListRecord
  <2>2. sl[p] \in Int
    BY <1>2
  <2>. QED  BY <1>1, <2>1, <2>2 DEF SndListRecord
<1>8. CASE ~(b > E[p])
  <2>1. Covered(S, E) = Covered(S, E) \cup (a .. b)
    <3>1. \A y \in a .. b : y \in Int /\ p <= y /\ y <= E[p]
      BY <1>2, <1>8
    <3>2. a .. b \subseteq Covered(S, E)
      BY <3>1 DEF Covered
    <3>. QED  BY <3>2
  <2>2. SndHolds(N, sl, S, E, lo, hi)
    BY <1>1, <1>7 DEF SndHolds, SndArrays
  <2>. QED  BY <1>6, <1>8, <2>1, <2>2 DEF SndHoldsNumbers
<1>9. CASE b > E[p]
  <2>1. PICK M : M = Stretch(N, sl[p], NumberOf(b))
    OBVIOUS
  <2>2. seqlen(NumberOf(E[p]), NumberOf(b)) = b - E[p] + 1
    BY <1>1, <1>2, <1>9, Compare
  <2>3. M = [N EXCEPT !.data2[sl[p]] = NumberOf(b), !.length = N.length + (b - E[p] + 1) - 1]
    BY <2>1, <2>2, <1>5 DEF Stretch
  <2>4. /\ M.data1 = L.data1 /\ M.data2 = [L.data2 EXCEPT ![sl[p]] = NumberOf(b)]
        /\ M.next = L.next /\ M.head = L.head /\ M.lastInsertPos = sl[p]
        /\ M.length = L.length + (b - E[p] + 1) - 1
        /\ M = [data1 |-> M.data1, data2 |-> M.data2, next |-> M.next, head |-> M.head,
                length |-> M.length, lastInsertPos |-> M.lastInsertPos]
    BY ONLY <2>3, <1>7 DEF SndListRecord
  <2>5. SndListRecord(M)
    <3>1. L.length \in Int /\ L.head \in Int /\ sl[p] \in Int
      BY <1>1, <1>2 DEF SndListRecord
    <3>2. M.length \in Int /\ M.head \in Int /\ M.lastInsertPos \in Int
      BY ONLY <2>4, <3>1, <1>2
    <3>. QED  BY ONLY <2>4, <3>2 DEF SndListRecord
  <2>6. PICK F : F = [E EXCEPT ![p] = b]
    OBVIOUS
  <2>7. F \in [Int -> Int] /\ F[p] = b /\ \A n \in S : n # p => F[n] = E[n]
    BY <1>1, <1>2, <2>6 DEF Ranges
  <2>8. Ranges(S, F, lo, hi)
    BY <1>1, <1>2, <2>7 DEF Ranges
  <2>9. Holding(M.data1, M.data2, SndListSize, sl, S, F)
    <3>1. /\ Window(SndListSize, sl, lo, hi) /\ Ranges(S, E, lo, hi)
          /\ Holding(L.data1, L.data2, SndListSize, sl, S, E)
      BY <1>1
    <3>2. F[p] \in Int /\ F[p] <= hi /\ F[p] # p
      BY <1>2, <1>9, <2>7
    <3>3. \A n \in S : n # p => F[n] = E[n]
      BY <2>7
    <3>4. M.data2 = [L.data2 EXCEPT ![sl[p]] = NumberOf(F[p])]
      BY <2>4, <2>7
    <3>5. p \in S
      OBVIOUS
    <3>6. Holding(L.data1, M.data2, SndListSize, sl, S, F)
      BY ONLY <3>1, <3>2, <3>3, <3>4, <3>5, StoredToEnd
    <3>. QED  BY <3>6, <2>4
  <2>10. \A m, n \in S : m < n /\ m # p => F[m] < n
    BY <1>1, <2>7 DEF Apart
  <2>11. M.length = Cardinality(Covered(S \ {p}, F)) + (F[p] - p + 1)
    <3>1. \A n \in S : n # p => E[n] < p \/ E[p] < n
      <4>. TAKE n \in S
      <4>. HAVE n # p
      <4>1. n < p \/ p < n
        BY <1>1, <1>2 DEF Ranges
      <4>. QED  BY <4>1, <1>1 DEF Apart
    <3>2. lo \in Int /\ hi \in Int
      BY <1>2
    <3>3. Ranges(S, E, lo, hi) /\ p \in S
      BY <1>1
    <3>4. Cardinality(Covered(S, E)) = Cardinality(Covered(S \ {p}, E)) + (E[p] - p + 1)
      BY ONLY <3>1, <3>2, <3>3, CoveredWith
    <3>5. Covered(S \ {p}, F) = Covered(S \ {p}, E)
      BY <2>7, CoveredElsewhere
    <3>6. PICK c \in Int : c = Cardinality(Covered(S \ {p}, E))
      <4>1. Ranges(S \ {p}, E, lo, hi)
        BY <1>1 DEF Ranges
      <4>. QED  BY <3>2, <4>1, CoveredIs
    <3>7. L.length = c + (E[p] - p + 1)
      BY ONLY <1>1, <3>4, <3>6
    <3>8. M.length = (c + (E[p] - p + 1)) + (b - E[p] + 1) - 1
      BY ONLY <3>7, <2>4
    <3>9. Cardinality(Covered(S \ {p}, F)) = c /\ F[p] = b
      BY ONLY <3>5, <3>6, <2>7
    <3>. QED  BY ONLY <3>6, <3>8, <3>9, <1>2
  <2>12. SndMerging(M, sl, S, F, p, lo, hi)
    <3>1. SndArrays(M, sl, S, F, lo, hi)
      BY <1>1, <2>4, <2>5, <2>8, <2>9 DEF SndArrays
    <3>. QED  BY <3>1, <2>4, <2>10, <2>11 DEF SndMerging
  <2>13. PICK T, G : SndHolds(Coalesce(M, sl[p]), sl, T, G, lo, hi) /\ Covered(T, G) = Covered(S, F)
    BY ONLY <2>12, CoalesceHolds
  <2>14. Covered(S, F) = Covered(S, E) \cup (a .. b)
    <3>1. ASSUME NEW y \in Int PROVE (\E n \in S : n <= y /\ y <= F[n]) <=> ((\E n \in S : n <= y /\ y <= E[n]) \/ (a <= y /\ y <= b))
      <4>1. ASSUME NEW n \in S, n <= y, y <= F[n] PROVE (\E k \in S : k <= y /\ y <= E[k]) \/ (a <= y /\ y <= b)
        <5>1. CASE n = p
          BY <1>2, <2>7, <4>1, <5>1
        <5>2. CASE n # p
          BY <2>7, <4>1, <5>2
        <5>. QED  BY <5>1, <5>2
      <4>2. ASSUME NEW n \in S, n <= y, y <= E[n] PROVE \E k \in S : k <= y /\ y <= F[k]
        <5>1. CASE n = p
          BY <1>2, <1>9, <2>7, <4>2, <5>1
        <5>2. CASE n # p
          BY <2>7, <4>2, <5>2
        <5>. QED  BY <5>1, <5>2
      <4>3. ASSUME a <= y, y <= b PROVE p <= y /\ y <= F[p]
        BY <1>2, <2>7, <4>3
      <4>. QED  BY <4>1, <4>2, <4>3
    <3>2. \A y : y \in a .. b <=> y \in Int /\ a <= y /\ y <= b
      BY <1>2
    <3>. QED  BY <3>1, <3>2 DEF Covered
  <2>. QED  BY <1>6, <1>9, <2>1, <2>13, <2>14 DEF SndHoldsNumbers
<1>. QED  BY <1>8, <1>9

\* The search finds the last range that starts before a.
LEMMA PriorHolds ==
    ASSUME NEW L, NEW sl, NEW S, NEW E, NEW lo, NEW hi, SndArrays(L, sl, S, E, lo, hi),
           NEW o \in S, NEW a \in lo .. hi, o < a
    PROVE  \E p \in S : /\ PriorFrom(L, sl[o], NumberOf(a)) = sl[p] /\ p < a
                        /\ \A q \in S : q <= p \/ a <= q
<1>1. /\ Window(SndListSize, sl, lo, hi) /\ Ranges(S, E, lo, hi)
      /\ Holding(L.data1, L.data2, SndListSize, sl, S, E) /\ Links(L.next, SndListSize, sl, S)
  BY DEF SndArrays
<1>2. PICK g : /\ g[0] = sl[o] /\ \A k \in 1 .. SndListSize : g[k] = NextBefore(L, g[k - 1], NumberOf(a))
               /\ PriorFrom(L, sl[o], NumberOf(a)) = g[SndListSize]
  BY PriorTurns
<1>3. SndListSize \in Nat \ {0} /\ lo \in Int /\ hi \in Int /\ hi - lo < SndListSize /\ a \in Int /\ a \in lo .. hi + 1
  BY <1>1, WindowIs
<1>4. \A n \in S : n \in Int /\ n \in lo .. hi + 1 /\ lo <= n /\ n <= hi /\ sl[n] # -1 /\ L.data1[sl[n]] = NumberOf(n)
  <2>1. \A n \in S : n \in lo .. hi /\ sl[n] \in 0 .. SndListSize - 1 /\ L.data1[sl[n]] = NumberOf(n)
    BY <1>1, RangeRead
  <2>. QED  BY <1>3, <2>1
<1>. DEFINE Done(p) == \A q \in S : q <= p \/ a <= q
            Q == {k \in Nat : k <= SndListSize =>
                     \E p \in S : g[k] = sl[p] /\ p < a /\ (Done(p) \/ p >= o + k)}
<1>5. 0 \in Q
  <2>1. o >= o + 0
    BY <1>4
  <2>. QED  BY <1>2, <2>1
<1>6. ASSUME NEW k \in Nat, k \in Q PROVE k + 1 \in Q
  <2>. SUFFICES ASSUME k + 1 <= SndListSize
                PROVE  \E p \in S : g[k + 1] = sl[p] /\ p < a /\ (Done(p) \/ p >= o + (k + 1))
    OBVIOUS
  <2>1. k <= SndListSize /\ k + 1 \in 1 .. SndListSize /\ (k + 1) - 1 = k
    BY <1>3
  <2>2. PICK p \in S : g[k] = sl[p] /\ p < a /\ (Done(p) \/ p >= o + k)
    BY <1>6, <2>1
  <2>3. g[k + 1] = NextBefore(L, sl[p], NumberOf(a))
    BY <1>2, <2>1, <2>2
  <2>4. Follows(sl, S, p, L.next[sl[p]])
    BY <1>1 DEF Links
  <2>5. CASE L.next[sl[p]] = -1
    <3>1. \A m \in S : m <= p
      BY <1>4, <2>4, <2>5 DEF Follows
    <3>2. g[k + 1] = sl[p]
      BY <2>3, <2>5 DEF NextBefore
    <3>. QED  BY <2>2, <3>1, <3>2
  <2>6. ASSUME NEW m \in S, p < m, L.next[sl[p]] = sl[m], \A q \in S : q <= p \/ m <= q
        PROVE  \E x \in S : g[k + 1] = sl[x] /\ x < a /\ (Done(x) \/ x >= o + (k + 1))
    <3>1. L.next[sl[p]] # -1 /\ L.data1[L.next[sl[p]]] = NumberOf(m)
      BY <1>4, <2>6
    <3>2. m \in lo .. hi + 1
      BY <1>4
    <3>3. seqcmp(NumberOf(m), NumberOf(a)) < 0 <=> m < a
      BY <1>1, <1>3, <3>2, Compare
    <3>4. g[k + 1] = IF m < a THEN sl[m] ELSE sl[p]
      BY <2>3, <2>6, <3>1, <3>3 DEF NextBefore
    <3>5. CASE m < a
      <4>1. ~Done(p)
        BY <1>3, <1>4, <2>6, <3>5
      <4>2. m >= o + (k + 1)
        BY <1>4, <2>2, <2>6, <4>1
      <4>. QED  BY <3>4, <3>5, <4>2
    <3>6. CASE ~(m < a)
      <4>1. Done(p)
        BY <1>3, <1>4, <2>6, <3>6
      <4>. QED  BY <2>2, <3>4, <3>6, <4>1
    <3>. QED  BY <3>5, <3>6
  <2>. QED  BY <2>4, <2>5, <2>6 DEF Follows
<1>7. SndListSize \in Q
  <2>. HIDE DEF Q
  <2>1. \A k \in Nat : k \in Q => k + 1 \in Q
    BY <1>6
  <2>2. \A k \in Nat : k \in Q
    BY ONLY <1>5, <2>1, AllNumbers
  <2>. QED  BY <1>3, <2>2
<1>8. PICK p \in S : g[SndListSize] = sl[p] /\ p < a /\ (Done(p) \/ p >= o + SndListSize)
  BY <1>3, <1>7
<1>9. Done(p)
  BY <1>3, <1>4, <1>8
<1>. QED  BY <1>2, <1>8, <1>9

\* The search starts at a range before a, be it the one inserted last or the head.
LEMMA StartHolds ==
    ASSUME NEW L, NEW sl, NEW S, NEW E, NEW lo, NEW hi, SndHolds(L, sl, S, E, lo, hi),
           NEW a \in lo .. hi, NEW h \in S, L.head = sl[h], h < a
    PROVE  \E o \in S : SearchStart(L, NumberOf(a)) = sl[o] /\ o < a
<1>1. /\ Window(SndListSize, sl, lo, hi) /\ Ranges(S, E, lo, hi)
      /\ Holding(L.data1, L.data2, SndListSize, sl, S, E)
  BY DEF SndHolds, SndArrays
<1>2. CASE L.lastInsertPos = -1
  BY <1>2 DEF SearchStart
<1>3. ASSUME NEW n \in S, L.lastInsertPos = sl[n] PROVE \E o \in S : SearchStart(L, NumberOf(a)) = sl[o] /\ o < a
  <2>1. L.data1[L.lastInsertPos] = NumberOf(n) /\ n \in lo .. hi /\ lo \in Int /\ hi \in Int
    BY <1>1, <1>3, RangeRead
  <2>2. n \in lo .. hi + 1 /\ a \in lo .. hi + 1
    BY <2>1
  <2>3. seqcmp(NumberOf(n), NumberOf(a)) < 0 <=> n < a
    BY <1>1, <2>2, Compare
  <2>4. CASE n < a /\ L.lastInsertPos # -1
    BY <1>3, <2>1, <2>3, <2>4 DEF SearchStart
  <2>5. CASE ~(n < a /\ L.lastInsertPos # -1)
    BY <1>3, <2>1, <2>3, <2>5 DEF SearchStart
  <2>. QED  BY <2>4, <2>5
<1>. QED  BY <1>2, <1>3 DEF SndHolds

\* Whatever is reported is in the list afterwards, with what was there before.
LEMMA InsertHolds ==
    ASSUME NEW L, NEW sl, NEW S, NEW E, NEW lo, NEW hi, SndHolds(L, sl, S, E, lo, hi),
           NEW a \in lo .. hi, NEW b \in a .. hi
    PROVE  SndHoldsNumbers(Insert(L, NumberOf(a), NumberOf(b)), Covered(S, E) \cup (a .. b), lo, hi)
<1>1. /\ Window(SndListSize, sl, lo, hi) /\ Ranges(S, E, lo, hi) /\ SndArrays(L, sl, S, E, lo, hi)
      /\ Holding(L.data1, L.data2, SndListSize, sl, S, E) /\ HeadOf(sl, S, L.head)
      /\ Apart(S, E) /\ L.length = Cardinality(Covered(S, E))
  BY DEF SndHolds, SndArrays
<1>2. /\ SndListSize \in Nat \ {0} /\ lo \in Int /\ hi \in Int /\ a \in Int /\ b \in Int
      /\ a \in lo .. hi + 1 /\ RingSlots(sl, SndListSize)
  <2>1. SndListSize \in Nat \ {0} /\ lo \in Int /\ hi \in Int
    BY <1>1, WindowIs
  <2>. QED  BY <1>1, <2>1 DEF Window
<1>3. L.length = 0 <=> S = {}
  BY <1>1, <1>2, CoveredIs
<1>4. PICK R : R = Insert(L, NumberOf(a), NumberOf(b))
  OBVIOUS
<1>5. CASE S = {}
  <2>1. R = [NewNode(L, 0, NumberOf(a), NumberOf(b)) EXCEPT !.head = 0, !.next[0] = -1]
    BY <1>3, <1>4, <1>5 DEF Insert
  <2>2. SndHolds(L, sl, {}, E, lo, hi) /\ Covered(S, E) = {}
    BY <1>5 DEF Covered
  <2>3. a \in lo .. hi
    OBVIOUS
  <2>4. b \in a .. hi
    OBVIOUS
  <2>5. SndHoldsNumbers(R, a .. b, lo, hi)
    BY ONLY <2>1, <2>2, <2>3, <2>4, FirstNodeHolds
  <2>6. a .. b = Covered(S, E) \cup (a .. b)
    BY <2>2
  <2>. QED  BY ONLY <1>4, <2>5, <2>6
<1>6. CASE S # {}
  <2>1. PICK h \in S : L.head = sl[h] /\ \A q \in S : h <= q
    BY <1>1, <1>6 DEF HeadOf
  <2>2. \A n \in S : n \in Int /\ n \in lo .. hi /\ n \in lo .. hi + 1 /\ L.data1[sl[n]] = NumberOf(n)
                     /\ LastOf(L, sl[n]) = NumberOf(E[n]) /\ E[n] \in Int /\ E[n] \in lo .. hi + 1
    <3>1. \A n \in S : /\ n \in Int /\ n \in lo .. hi /\ L.data1[sl[n]] = NumberOf(n)
                       /\ LastOf(L, sl[n]) = NumberOf(E[n]) /\ E[n] \in Int /\ E[n] \in lo .. hi
      BY <1>1, RangeRead DEF LastOf
    <3>. QED  BY <1>2, <3>1
  <2>3. seqoff(L.data1[L.head], NumberOf(a)) = a - h
    <3>1. seqoff(NumberOf(h), NumberOf(a)) = a - h
      BY <1>1, <1>2, <2>2, Compare
    <3>. QED  BY <2>1, <2>2, <3>1
  <2>4. (L.head + (a - h) + SndListSize) % SndListSize = sl[a]
    <3>1. h \in Int /\ a \in Int /\ SndListSize \in Nat \ {0} /\ RingSlots(sl, SndListSize)
      BY <1>2, <2>1, <2>2
    <3>2. (sl[h] + (a - h) + SndListSize) % SndListSize = sl[a]
      BY ONLY <3>1, SlotIs
    <3>. QED  BY ONLY <2>1, <3>2
  <2>5. L.data1[sl[a]] = NumberOf(a) <=> a \in S
    BY <1>1, StartsAt
  <2>6. PICK prior : prior = PriorFrom(L, SearchStart(L, NumberOf(a)), NumberOf(a))
    OBVIOUS
  <2>7. R = IF a - h < 0
            THEN Coalesce([NewNode(L, sl[a], NumberOf(a), NumberOf(b)) EXCEPT !.next[sl[a]] = L.head, !.head = sl[a]], sl[a])
            ELSE IF a \in S THEN Join(L, sl[a], NumberOf(b))
            ELSE IF seqcmp(LastOf(L, prior), NumberOf(a)) < 0
            THEN Coalesce([NewNode(L, sl[a], NumberOf(a), NumberOf(b)) EXCEPT
                              !.next = [L.next EXCEPT ![sl[a]] = L.next[prior], ![prior] = sl[a]]], sl[a])
            ELSE Join(L, prior, NumberOf(b))
    <3>1. L.length # 0
      BY <1>3, <1>6
    <3>2. LocOf(L, NumberOf(a)) = sl[a]
      BY ONLY <2>3, <2>4 DEF LocOf
    <3>3. R = IF seqoff(L.data1[L.head], NumberOf(a)) < 0
              THEN Coalesce([NewNode(L, LocOf(L, NumberOf(a)), NumberOf(a), NumberOf(b)) EXCEPT
                                !.next[LocOf(L, NumberOf(a))] = L.head, !.head = LocOf(L, NumberOf(a))], LocOf(L, NumberOf(a)))
              ELSE IF NumberOf(a) = L.data1[LocOf(L, NumberOf(a))] THEN Join(L, LocOf(L, NumberOf(a)), NumberOf(b))
              ELSE IF seqcmp(LastOf(L, prior), NumberOf(a)) < 0
              THEN Coalesce([NewNode(L, LocOf(L, NumberOf(a)), NumberOf(a), NumberOf(b)) EXCEPT
                                !.next = [L.next EXCEPT ![LocOf(L, NumberOf(a))] = L.next[prior],
                                                        ![prior] = LocOf(L, NumberOf(a))]], LocOf(L, NumberOf(a)))
              ELSE Join(L, prior, NumberOf(b))
      BY ONLY <1>4, <2>6, <3>1 DEF Insert
    <3>. QED  BY ONLY <2>3, <2>5, <3>2, <3>3
  <2>8. CASE a - h < 0
    <3>1. PICK M : M = [NewNode(L, sl[a], NumberOf(a), NumberOf(b)) EXCEPT !.next[sl[a]] = L.head, !.head = sl[a]]
      OBVIOUS
    <3>2. R = Coalesce(M, sl[a])
      BY <2>7, <2>8, <3>1
    <3>3. \A q \in S : a < q
      BY <1>2, <2>1, <2>2, <2>8
    <3>4. NodeMerges(M, sl, S, E, a, b, lo, hi)
      BY <3>1, <3>3, NewHeadMerges
    <3>5. PICK F : /\ SndMerging(M, sl, S \cup {a}, F, a, lo, hi)
                   /\ Covered(S \cup {a}, F) = Covered(S, E) \cup (a .. b)
      BY <3>4 DEF NodeMerges
    <3>6. \E T, G : SndHolds(Coalesce(M, sl[a]), sl, T, G, lo, hi) /\ Covered(T, G) = Covered(S \cup {a}, F)
      BY ONLY <3>5, CoalesceHolds
    <3>. QED  BY <1>4, <3>2, <3>5, <3>6 DEF SndHoldsNumbers
  <2>9. CASE ~(a - h < 0) /\ a \in S
    <3>1. a <= a /\ a <= E[a]
      BY <1>1, <2>9, <1>2 DEF Ranges
    <3>2. R = Join(L, sl[a], NumberOf(b))
      BY <2>7, <2>9
    <3>3. SndHoldsNumbers(Join(L, sl[a], NumberOf(b)), Covered(S, E) \cup (a .. b), lo, hi)
      BY <2>9, <3>1, JoinHolds
    <3>. QED  BY <1>4, <3>2, <3>3
  <2>10. CASE ~(a - h < 0) /\ a \notin S
    <3>1. h < a
      BY <1>2, <2>1, <2>2, <2>10
    <3>2. PICK o \in S : SearchStart(L, NumberOf(a)) = sl[o] /\ o < a
      BY <2>1, <3>1, StartHolds
    <3>3. PICK p \in S : PriorFrom(L, sl[o], NumberOf(a)) = sl[p] /\ p < a /\ \A q \in S : q <= p \/ a <= q
      BY <1>1, <3>2, PriorHolds
    <3>4. prior = sl[p]
      BY <2>6, <3>2, <3>3
    <3>5. seqcmp(LastOf(L, prior), NumberOf(a)) < 0 <=> E[p] < a
      <4>1. E[p] \in lo .. hi + 1 /\ LastOf(L, sl[p]) = NumberOf(E[p])
        BY <2>2
      <4>2. seqcmp(NumberOf(E[p]), NumberOf(a)) < 0 <=> E[p] < a
        BY <1>1, <1>2, <4>1, Compare
      <4>. QED  BY <3>4, <4>1, <4>2
    <3>6. CASE E[p] < a
      <4>1. PICK M : M = [NewNode(L, sl[a], NumberOf(a), NumberOf(b)) EXCEPT
                             !.next = [L.next EXCEPT ![sl[a]] = L.next[sl[p]], ![sl[p]] = sl[a]]]
        OBVIOUS
      <4>2. R = Coalesce(M, sl[a])
        BY <2>7, <2>10, <3>4, <3>5, <3>6, <4>1
      <4>3. \A q \in S : q <= p \/ a < q
        BY <1>2, <2>2, <2>10, <3>3
      <4>7. a \notin S /\ E[p] < a /\ p < a
        BY <2>10, <3>3, <3>6
      <4>4. NodeMerges(M, sl, S, E, a, b, lo, hi)
        BY <4>1, <4>3, <4>7, NewNodeMerges
      <4>5. PICK F : /\ SndMerging(M, sl, S \cup {a}, F, a, lo, hi)
                     /\ Covered(S \cup {a}, F) = Covered(S, E) \cup (a .. b)
        BY <4>4 DEF NodeMerges
      <4>6. \E T, G : SndHolds(Coalesce(M, sl[a]), sl, T, G, lo, hi) /\ Covered(T, G) = Covered(S \cup {a}, F)
        BY ONLY <4>5, CoalesceHolds
      <4>. QED  BY <1>4, <4>2, <4>5, <4>6 DEF SndHoldsNumbers
    <3>7. CASE ~(E[p] < a)
      <4>1. R = Join(L, sl[p], NumberOf(b))
        BY <2>7, <2>10, <3>4, <3>5, <3>7
      <4>2. p <= a /\ a <= E[p]
        BY <1>2, <2>2, <3>3, <3>7
      <4>3. SndHoldsNumbers(Join(L, sl[p], NumberOf(b)), Covered(S, E) \cup (a .. b), lo, hi)
        BY <4>2, JoinHolds
      <4>. QED  BY <1>4, <4>1, <4>3
    <3>. QED  BY <3>6, <3>7
  <2>. QED  BY <2>8, <2>9, <2>10
<1>. QED  BY <1>5, <1>6
-----------------------------------------------------------------------------
(* remove and getLostSeq                                                   *)

\* The ranges from node at on are still stored; the head is already the first after cut.
SndPurging(L, at, sl, S, E, cut, lo, hi) ==
    /\ SndListRecord(L)
    /\ Window(SndListSize, sl, lo, hi) /\ Ranges(S, E, lo, hi) /\ Apart(S, E)
    /\ Holding(L.data1, L.data2, SndListSize, sl, S, E) /\ Links(L.next, SndListSize, sl, S)
    /\ HeadOf(sl, S, at) /\ HeadOf(sl, {n \in S : n > cut}, L.head)
    /\ L.lastInsertPos = -1 \/ \E n \in S : L.lastInsertPos = sl[n]
    /\ L.length = Cardinality(Covered(S, E))
    /\ cut \in Int /\ \A n \in S : n <= cut => E[n] <= cut

Beyond(S, E, cut) == {y \in Covered(S, E) : y > cut}

\* Nothing is left to free when all ranges are after the cut.
LEMMA PurgedHolds ==
    ASSUME NEW L, NEW at, NEW sl, NEW S, NEW E, NEW cut, NEW lo, NEW hi,
           SndPurging(L, at, sl, S, E, cut, lo, hi), \A n \in S : n > cut
    PROVE  SndHoldsNumbers(L, Beyond(S, E, cut), lo, hi)
<1>1. {n \in S : n > cut} = S
  OBVIOUS
<1>2. HeadOf(sl, S, L.head)
  BY <1>1 DEF SndPurging
<1>3. SndHolds(L, sl, S, E, lo, hi)
  BY <1>2 DEF SndPurging, SndHolds, SndArrays
<1>4. ASSUME NEW y \in Covered(S, E) PROVE y > cut
  <2>1. PICK n \in S : n <= y /\ y \in Int
    BY DEF Covered
  <2>2. n \in Int /\ cut \in Int
    BY DEF SndPurging, Ranges
  <2>. QED  BY <2>1, <2>2
<1>5. Beyond(S, E, cut) = Covered(S, E)
  BY <1>4 DEF Beyond
<1>. QED  BY <1>3, <1>5 DEF SndHoldsNumbers

NodeCleared(N, L, i, d) ==
    /\ N.data1 = [L.data1 EXCEPT ![i] = -1] /\ N.data2 = [L.data2 EXCEPT ![i] = -1]
    /\ N.next = L.next /\ N.head = L.head /\ N.length = L.length - d
    /\ N.lastInsertPos = PosWithout(L, i)
    /\ SndListRecord(N)

\* What clearing a node writes.
LEMMA ClearedIs ==
    ASSUME NEW L, SndListRecord(L), NEW i, NEW d, d \in Int, NEW N, N = [Cleared(L, i) EXCEPT !.length = @ - d]
    PROVE  NodeCleared(N, L, i, d)
<1>1. PICK v : v = PosWithout(L, i)
  OBVIOUS
<1>2. L = [data1 |-> L.data1, data2 |-> L.data2, next |-> L.next, head |-> L.head,
           length |-> L.length, lastInsertPos |-> L.lastInsertPos]
  BY DEF SndListRecord
<1>3. PICK M : M = Cleared(L, i)
  OBVIOUS
<1>4. M = [L EXCEPT !.data1[i] = -1, !.data2[i] = -1, !.lastInsertPos = v]
  BY ONLY <1>1, <1>3 DEF Cleared
<1>5. /\ M.data1 = [L.data1 EXCEPT ![i] = -1] /\ M.data2 = [L.data2 EXCEPT ![i] = -1]
      /\ M.next = L.next /\ M.head = L.head /\ M.length = L.length /\ M.lastInsertPos = v
      /\ M = [data1 |-> M.data1, data2 |-> M.data2, next |-> M.next, head |-> M.head,
              length |-> M.length, lastInsertPos |-> M.lastInsertPos]
  BY ONLY <1>2, <1>4
<1>6. N = [M EXCEPT !.length = M.length - d]
  BY <1>3
<1>7. /\ N.data1 = M.data1 /\ N.data2 = M.data2 /\ N.next = M.next /\ N.head = M.head
      /\ N.length = M.length - d /\ N.lastInsertPos = M.lastInsertPos
      /\ N = [data1 |-> N.data1, data2 |-> N.data2, next |-> N.next, head |-> N.head,
              length |-> N.length, lastInsertPos |-> N.lastInsertPos]
  BY ONLY <1>5, <1>6
<1>8. v \in Int
  BY <1>1 DEF PosWithout, SndListRecord
<1>9. SndListRecord(N)
  <2>1. N.head \in Int /\ N.length \in Int /\ N.lastInsertPos \in Int
    BY <1>5, <1>7, <1>8 DEF SndListRecord
  <2>. QED  BY ONLY <1>7, <2>1 DEF SndListRecord
<1>. QED  BY ONLY <1>1, <1>5, <1>7, <1>9 DEF NodeCleared

\* The first node is freed.
OnePurged(N, L, m, sl, S, E, cut, lo, hi) ==
    /\ SndPurging(N, L.next[sl[m]], sl, S \ {m}, E, cut, lo, hi)
    /\ Beyond(S \ {m}, E, cut) = Beyond(S, E, cut)

\* The first node to free is cleared.
LEMMA ClearPurges ==
    ASSUME NEW L, NEW sl, NEW S, NEW E, NEW cut, NEW lo, NEW hi, NEW m \in S,
           SndPurging(L, sl[m], sl, S, E, cut, lo, hi), m <= cut, \A q \in S : m <= q,
           NEW N, N = [Cleared(L, sl[m]) EXCEPT !.length = @ - (E[m] - m + 1)]
    PROVE  OnePurged(N, L, m, sl, S, E, cut, lo, hi)
<1>1. /\ SndListRecord(L) /\ Window(SndListSize, sl, lo, hi) /\ Ranges(S, E, lo, hi) /\ Apart(S, E)
      /\ Holding(L.data1, L.data2, SndListSize, sl, S, E) /\ Links(L.next, SndListSize, sl, S)
      /\ HeadOf(sl, {n \in S : n > cut}, L.head)
      /\ L.length = Cardinality(Covered(S, E)) /\ cut \in Int /\ \A n \in S : n <= cut => E[n] <= cut
  BY DEF SndPurging
<1>2. /\ lo \in Int /\ hi \in Int /\ m \in Int /\ E[m] \in Int /\ m <= E[m] /\ E[m] <= cut
      /\ \A n \in S : n \in Int /\ E[n] \in Int /\ m <= n
  BY <1>1, WindowIs DEF Ranges
<1>3. PICK d \in Int : d = E[m] - m + 1
  BY <1>2
<1>4. N = [Cleared(L, sl[m]) EXCEPT !.length = @ - d]
  BY <1>3
<1>5. /\ N.data1 = [L.data1 EXCEPT ![sl[m]] = -1] /\ N.data2 = [L.data2 EXCEPT ![sl[m]] = -1]
      /\ N.next = L.next /\ N.head = L.head /\ N.length = L.length - d
      /\ N.lastInsertPos = PosWithout(L, sl[m])
      /\ SndListRecord(N)
  <2>1. SndListRecord(L)
    BY <1>1
  <2>2. d \in Int
    OBVIOUS
  <2>3. NodeCleared(N, L, sl[m], d)
    BY ONLY <1>4, <2>1, <2>2, ClearedIs
  <2>. QED  BY <2>3 DEF NodeCleared
<1>6. Holding(N.data1, N.data2, SndListSize, sl, S \ {m}, E)
  <2>1. m \in S
    OBVIOUS
  <2>. QED  BY ONLY <1>1, <1>5, <2>1, StoredWithout
<1>7. Ranges(S \ {m}, E, lo, hi) /\ Apart(S \ {m}, E)
  BY <1>1 DEF Ranges, Apart
<1>8. \A n \in S : n # m => m < n
  BY <1>2
<1>9. Links(N.next, SndListSize, sl, S \ {m})
  <2>1. \A n \in S \ {m}, k \in S : n <= k => k \in S \ {m}
    BY <1>2, <1>8
  <2>2. S \subseteq Int /\ S \ {m} \in SUBSET S
    BY <1>2
  <2>3. Links(N.next, SndListSize, sl, S)
    BY <1>1, <1>5
  <2>. QED  BY ONLY <2>1, <2>2, <2>3, LinksFrom
<1>10. HeadOf(sl, S \ {m}, L.next[sl[m]])
  <2>1. Follows(sl, S, m, L.next[sl[m]])
    BY <1>1 DEF Links
  <2>2. S \subseteq Int /\ m \in Int
    BY <1>2
  <2>3. HeadOf(sl, {n \in S : m < n}, L.next[sl[m]])
    BY ONLY <2>1, <2>2, HeadFrom
  <2>4. {n \in S : m < n} = S \ {m}
    BY <1>2, <1>8
  <2>. QED  BY <2>3, <2>4
<1>11. HeadOf(sl, {n \in S \ {m} : n > cut}, N.head)
  <2>1. {n \in S \ {m} : n > cut} = {n \in S : n > cut}
    BY <1>1, <1>2
  <2>. QED  BY <1>1, <1>5, <2>1
<1>12. N.lastInsertPos = -1 \/ \E n \in S \ {m} : N.lastInsertPos = sl[n]
  <2>1. CASE L.lastInsertPos = sl[m]
    BY <1>5, <2>1 DEF PosWithout
  <2>2. CASE L.lastInsertPos # sl[m]
    <3>1. N.lastInsertPos = L.lastInsertPos
      BY <1>5, <2>2 DEF PosWithout
    <3>2. L.lastInsertPos = -1 \/ \E n \in S : L.lastInsertPos = sl[n]
      BY DEF SndPurging
    <3>. QED  BY <2>2, <3>1, <3>2
  <2>. QED  BY <2>1, <2>2
<1>13. N.length = Cardinality(Covered(S \ {m}, E))
  <2>1. \A n \in S : n # m => E[n] < m \/ E[m] < n
    BY <1>1, <1>8 DEF Apart
  <2>2. lo \in Int /\ hi \in Int
    BY <1>2
  <2>3. Ranges(S, E, lo, hi) /\ m \in S
    BY <1>1
  <2>4. Cardinality(Covered(S, E)) = Cardinality(Covered(S \ {m}, E)) + (E[m] - m + 1)
    BY ONLY <2>1, <2>2, <2>3, CoveredWith
  <2>5. PICK c \in Int : c = Cardinality(Covered(S \ {m}, E))
    BY <1>7, <2>2, CoveredIs
  <2>6. N.length = (c + d) - d
    BY ONLY <1>1, <1>3, <1>5, <2>4, <2>5
  <2>. QED  BY ONLY <2>5, <2>6, <1>3
<1>14. Beyond(S \ {m}, E, cut) = Beyond(S, E, cut)
  <2>1. ASSUME NEW y \in Int, y > cut PROVE (\E n \in S \ {m} : n <= y /\ y <= E[n]) <=> (\E n \in S : n <= y /\ y <= E[n])
    BY <1>1, <1>2, <2>1
  <2>. QED  BY <2>1 DEF Beyond, Covered
<1>15. \A n \in S \ {m} : n <= cut => E[n] <= cut
  BY <1>1
<1>. QED  BY <1>1, <1>5, <1>6, <1>7, <1>9, <1>10, <1>11, <1>12, <1>13, <1>14, <1>15 DEF SndPurging, OnePurged

\* What is read of the first node.
LEMMA PurgeReads ==
    ASSUME NEW L, NEW at, NEW sl, NEW S, NEW E, NEW cut, NEW lo, NEW hi,
           SndPurging(L, at, sl, S, E, cut, lo, hi)
    PROVE  IF at = L.head THEN \A n \in S : n > cut
           ELSE \E m \in S : /\ at = sl[m] /\ m <= cut /\ \A q \in S : m <= q
                             /\ seqlen(L.data1[at], LastOf(L, at)) = E[m] - m + 1
<1>1. /\ Window(SndListSize, sl, lo, hi) /\ Ranges(S, E, lo, hi)
      /\ Holding(L.data1, L.data2, SndListSize, sl, S, E) /\ HeadOf(sl, S, at)
      /\ HeadOf(sl, {n \in S : n > cut}, L.head) /\ cut \in Int
  BY DEF SndPurging
<1>2. /\ lo \in Int /\ hi \in Int
      /\ \A n \in S : /\ n \in Int /\ n \in lo .. hi /\ sl[n] # -1 /\ n <= E[n] /\ n \in lo .. hi + 1 /\ E[n] \in lo .. hi + 1
                      /\ L.data1[sl[n]] = NumberOf(n) /\ LastOf(L, sl[n]) = NumberOf(E[n])
  <2>1. lo \in Int /\ hi \in Int
    BY <1>1, WindowIs
  <2>2. \A n \in S : /\ n \in lo .. hi /\ sl[n] \in 0 .. SndListSize - 1 /\ E[n] \in n .. hi
                     /\ L.data1[sl[n]] = NumberOf(n) /\ LastOf(L, sl[n]) = NumberOf(E[n])
    BY <1>1, RangeRead DEF LastOf
  <2>. QED  BY <2>1, <2>2
<1>3. CASE S = {}
  <2>1. {n \in S : n > cut} = {}
    BY <1>3
  <2>2. at = -1 /\ L.head = -1
    BY <1>1, <1>3, <2>1 DEF HeadOf
  <2>. QED  BY <1>3, <2>2
<1>4. CASE S # {}
  <2>1. PICK m \in S : at = sl[m] /\ \A q \in S : m <= q
    BY <1>1, <1>4 DEF HeadOf
  <2>2. seqlen(NumberOf(m), NumberOf(E[m])) = E[m] - m + 1
    BY <1>1, <1>2, Compare
  <2>3. seqlen(L.data1[at], LastOf(L, at)) = E[m] - m + 1
    BY <1>2, <2>1, <2>2
  <2>4. CASE m <= cut
    <3>1. at # L.head
      <4>. SUFFICES ASSUME at = L.head PROVE FALSE
        OBVIOUS
      <4>1. PICK k \in {n \in S : n > cut} : L.head = sl[k]
        BY <1>1, <1>2, <2>1 DEF HeadOf
      <4>2. k = m
        <5>1. k \in lo .. hi /\ m \in lo .. hi /\ sl[k] = sl[m]
          BY <1>2, <2>1, <4>1
        <5>. QED  BY <1>1, <5>1, WindowIs
      <4>. QED  BY <1>1, <1>2, <2>4, <4>1, <4>2
    <3>. QED  BY <2>1, <2>3, <2>4, <3>1
  <2>5. CASE ~(m <= cut)
    <3>1. \A n \in S : n > cut
      BY <1>1, <1>2, <2>1, <2>5
    <3>2. {n \in S : n > cut} = S
      BY <3>1
    <3>3. PICK k \in S : L.head = sl[k] /\ \A q \in S : k <= q
      BY <1>1, <1>4, <3>2 DEF HeadOf
    <3>4. k = m
      BY <1>2, <2>1, <3>3
    <3>. QED  BY <2>1, <3>1, <3>3, <3>4
  <2>. QED  BY <2>4, <2>5
<1>. QED  BY <1>3, <1>4

\* The loop frees every node up to the new head.
LEMMA PurgeHolds ==
    ASSUME NEW L, NEW at, NEW sl, NEW S, NEW E, NEW cut, NEW lo, NEW hi,
           SndPurging(L, at, sl, S, E, cut, lo, hi)
    PROVE  SndHoldsNumbers(Purge(L, at), Beyond(S, E, cut), lo, hi)
<1>1. PICK g : /\ g[0] = [list |-> L, at |-> at] /\ \A k \in 1 .. SndListSize : g[k] = PurgeTurn(g[k - 1])
               /\ Purge(L, at) = g[SndListSize].list
  BY PurgeTurns
<1>2. SndListSize \in Nat \ {0}
  BY SndLossListAssumption
<1>3. \A M, i, T : SndPurging(M, i, sl, T, E, cut, lo, hi) => /\ \A n \in T : n \in Int /\ lo <= n /\ n <= hi
                                                                /\ lo \in Int /\ hi \in Int /\ hi - lo < SndListSize
  BY WindowIs DEF SndPurging, Ranges
<1>. DEFINE Good(X, T, k) == /\ SndPurging(X.list, X.at, sl, T, E, cut, lo, hi) /\ Beyond(T, E, cut) = Beyond(S, E, cut)
                             /\ X.at = X.list.head \/ \A n \in T : n >= lo + k
            Q == {k \in Nat : k <= SndListSize => \E T : Good(g[k], T, k)}
<1>5. 0 \in Q
  <2>1. SndPurging(g[0].list, g[0].at, sl, S, E, cut, lo, hi)
    BY <1>1
  <2>2. \A n \in S : n >= lo + 0
    BY <1>3, <2>1
  <2>. QED  BY <2>1, <2>2
<1>6. ASSUME NEW k \in Nat, k \in Q PROVE k + 1 \in Q
  <2>. SUFFICES ASSUME k + 1 <= SndListSize PROVE \E T : Good(g[k + 1], T, k + 1)
    OBVIOUS
  <2>1. k <= SndListSize /\ k + 1 \in 1 .. SndListSize /\ (k + 1) - 1 = k
    BY <1>2
  <2>2. PICK T : Good(g[k], T, k)
    BY <1>6, <2>1
  <2>3. PICK X : X = g[k]
    OBVIOUS
  <2>4. g[k + 1] = PurgeTurn(X)
    BY <1>1, <2>1, <2>3
  <2>5. Good(X, T, k)
    BY <2>2, <2>3
  <2>6. CASE X.at = X.list.head
    <3>1. g[k + 1] = X
      BY <2>4, <2>6 DEF PurgeTurn
    <3>. QED  BY <2>5, <2>6, <3>1
  <2>7. CASE X.at # X.list.head
    <3>1. PICK M, i : M = X.list /\ i = X.at
      OBVIOUS
    <3>2. SndPurging(M, i, sl, T, E, cut, lo, hi) /\ i # M.head /\ \A n \in T : n >= lo + k
      BY <2>5, <2>7, <3>1
    <3>3. PICK m \in T : /\ i = sl[m] /\ m <= cut /\ \A q \in T : m <= q
                         /\ seqlen(M.data1[i], LastOf(M, i)) = E[m] - m + 1
      BY <3>2, PurgeReads
    <3>4. PICK N : N = [Cleared(M, sl[m]) EXCEPT !.length = @ - (E[m] - m + 1)]
      OBVIOUS
    <3>5. SndPurging(N, M.next[sl[m]], sl, T \ {m}, E, cut, lo, hi) /\ Beyond(T \ {m}, E, cut) = Beyond(T, E, cut)
      <4>1. SndPurging(M, sl[m], sl, T, E, cut, lo, hi)
        BY <3>2, <3>3
      <4>2. m <= cut /\ \A q \in T : m <= q
        BY <3>3
      <4>3. m \in T
        OBVIOUS
      <4>4. OnePurged(N, M, m, sl, T, E, cut, lo, hi)
        BY ONLY <3>4, <4>1, <4>2, <4>3, ClearPurges
      <4>. QED  BY <4>4 DEF OnePurged
    <3>6. g[k + 1] = [list |-> N, at |-> M.next[sl[m]]]
      BY <2>4, <2>7, <3>1, <3>3, <3>4 DEF PurgeTurn
    <3>7. g[k + 1].list = N /\ g[k + 1].at = M.next[sl[m]]
      BY <3>6
    <3>8. \A n \in T \ {m} : n >= lo + (k + 1)
      <4>1. \A n \in T : n \in Int /\ m <= n /\ n >= lo + k /\ lo \in Int
        BY <1>3, <3>2, <3>3
      <4>. QED  BY <4>1
    <3>. QED  BY <2>5, <3>5, <3>7, <3>8
  <2>. QED  BY <2>6, <2>7
<1>7. SndListSize \in Q
  <2>. HIDE DEF Q
  <2>1. \A k \in Nat : k \in Q => k + 1 \in Q
    BY <1>6
  <2>2. \A k \in Nat : k \in Q
    BY ONLY <1>5, <2>1, AllNumbers
  <2>. QED  BY <1>2, <2>2
<1>8. PICK T : Good(g[SndListSize], T, SndListSize)
  BY <1>2, <1>7
<1>9. PICK X : X = g[SndListSize]
  OBVIOUS
<1>10. /\ SndPurging(X.list, X.at, sl, T, E, cut, lo, hi) /\ Beyond(T, E, cut) = Beyond(S, E, cut)
       /\ X.at = X.list.head \/ \A n \in T : n >= lo + SndListSize
  BY <1>8, <1>9
<1>11. \A n \in T : n > cut
  <2>1. CASE X.at = X.list.head
    BY <1>10, <2>1, PurgeReads
  <2>2. CASE \A n \in T : n >= lo + SndListSize
    <3>1. \A n \in T : FALSE
      BY <1>2, <1>3, <1>10, <2>2
    <3>. QED  BY <3>1
  <2>. QED  BY <1>10, <2>1, <2>2
<1>12. SndHoldsNumbers(X.list, Beyond(T, E, cut), lo, hi)
  BY ONLY <1>10, <1>11, PurgedHolds
<1>. QED  BY <1>1, <1>9, <1>10, <1>12

RestAdded(R, L, i, loc, v, w) ==
    /\ R.data1 = [L.data1 EXCEPT ![loc] = v] /\ R.data2 = [L.data2 EXCEPT ![loc] = w]
    /\ R.next = [L.next EXCEPT ![loc] = L.next[i], ![i] = loc]
    /\ R.head = L.head /\ R.length = L.length /\ R.lastInsertPos = L.lastInsertPos
    /\ SndListRecord(R)

\* What Rest writes.
LEMMA RestIs ==
    ASSUME NEW L, SndListRecord(L), NEW i, NEW loc, NEW s, NEW v, v = incseq(s),
           NEW w, w = IF seqcmp(L.data2[i], incseq(s)) > 0 THEN L.data2[i] ELSE L.data2[loc]
    PROVE  RestAdded(Rest(L, i, loc, s), L, i, loc, v, w)
<1>1. PICK R : R = Rest(L, i, loc, s)
  OBVIOUS
<1>2. L = [data1 |-> L.data1, data2 |-> L.data2, next |-> L.next, head |-> L.head,
           length |-> L.length, lastInsertPos |-> L.lastInsertPos]
  BY DEF SndListRecord
<1>3. R = [L EXCEPT !.data1[loc] = v, !.data2[loc] = w,
                    !.next = [L.next EXCEPT ![loc] = L.next[i], ![i] = loc]]
  BY <1>1 DEF Rest
<1>4. /\ R.data1 = [L.data1 EXCEPT ![loc] = v] /\ R.data2 = [L.data2 EXCEPT ![loc] = w]
      /\ R.next = [L.next EXCEPT ![loc] = L.next[i], ![i] = loc]
      /\ R.head = L.head /\ R.length = L.length /\ R.lastInsertPos = L.lastInsertPos
      /\ R = [data1 |-> R.data1, data2 |-> R.data2, next |-> R.next, head |-> R.head,
              length |-> R.length, lastInsertPos |-> R.lastInsertPos]
  BY ONLY <1>2, <1>3
<1>5. SndListRecord(R)
  <2>1. R.head \in Int /\ R.length \in Int /\ R.lastInsertPos \in Int
    BY <1>4 DEF SndListRecord
  <2>. QED  BY ONLY <1>4, <2>1 DEF SndListRecord
<1>. QED  BY ONLY <1>1, <1>4, <1>5 DEF RestAdded

\* The range of p is cut in two after number x.
WasCut(N, at, sl, S, E, p, x, lo, hi) ==
    \E T, F : /\ SndPurging(N, at, sl, T, F, x, lo, hi) /\ Covered(T, F) = Covered(S, E)
              /\ p \in T /\ F[p] = x /\ \A n \in T : n \in S \/ n = x + 1

\* A range cut in two leaves its second part at the head.
LEMMA CutPurges ==
    ASSUME NEW L, NEW sl, NEW S, NEW E, NEW lo, NEW hi, SndHolds(L, sl, S, E, lo, hi),
           NEW p \in S, NEW x, x \in Int, p <= x, x < E[p],
           NEW N, N = [Rest(L, sl[p], sl[x + 1], NumberOf(x)) EXCEPT
                          !.head = sl[x + 1], !.data2[sl[p]] = IF x = p THEN -1 ELSE NumberOf(x)]
    PROVE  WasCut(N, L.head, sl, S, E, p, x, lo, hi)
<1>1. /\ SndListRecord(L) /\ Window(SndListSize, sl, lo, hi) /\ Ranges(S, E, lo, hi)
      /\ Holding(L.data1, L.data2, SndListSize, sl, S, E)
      /\ Links(L.next, SndListSize, sl, S) /\ HeadOf(sl, S, L.head)
      /\ Apart(S, E) /\ L.length = Cardinality(Covered(S, E))
  BY DEF SndHolds, SndArrays
<1>2. PICK a : a = x + 1
  OBVIOUS
<1>3. PICK c : c = E[p]
  OBVIOUS
<1>4. /\ lo \in Int /\ hi \in Int /\ a \in Int /\ x \in Int /\ c \in Int /\ p \in Int
      /\ lo <= p /\ p <= x /\ x < a /\ a <= c /\ c <= hi /\ a = x + 1 /\ c # p
      /\ a \in lo .. hi /\ a \in lo .. hi + 1 /\ c \in lo .. hi + 1 /\ x \in lo .. hi + 1
      /\ \A n \in S : n \in Int /\ E[n] \in Int /\ n \in lo .. hi /\ lo <= n /\ n <= E[n] /\ E[n] <= hi
  <2>1. lo \in Int /\ hi \in Int
    BY <1>1, WindowIs
  <2>2. \A n \in S : n \in Int /\ E[n] \in Int /\ lo <= n /\ n <= E[n] /\ E[n] <= hi
    BY <1>1 DEF Ranges
  <2>. QED  BY <1>2, <1>3, <2>1, <2>2
<1>5. \A q \in S : q <= p \/ a < q
  BY <1>1, <1>3, <1>4 DEF Apart
<1>6. a \notin S
  BY <1>4, <1>5
<1>7. /\ sl[p] \in 0 .. SndListSize - 1 /\ sl[a] \in 0 .. SndListSize - 1 /\ SndListSize \in Int
      /\ sl[a] # sl[p] /\ L.data2[sl[p]] = NumberOf(c)
  <2>1. L.data2[sl[p]] = NumberOf(c)
    BY <1>1, <1>3, <1>4, RangeRead
  <2>2. p # a /\ p \in lo .. hi
    BY <1>4
  <2>. QED  BY <1>1, <1>4, <2>1, <2>2, WindowIs
<1>8. incseq(NumberOf(x)) = NumberOf(a)
  BY <1>1, <1>4, Compare
<1>9. seqcmp(NumberOf(c), NumberOf(a)) > 0 <=> c > a
  BY <1>1, <1>4, Compare
<1>10. NumberOf(c) # NumberOf(a) <=> c > a
  <2>1. NumberOf(c) = NumberOf(a) <=> c = a
    BY <1>1, <1>4, Compare
  <2>. QED  BY <1>4, <2>1
<1>11. PICK w : w = IF NumberOf(c) # NumberOf(a) THEN NumberOf(c) ELSE L.data2[sl[a]]
  OBVIOUS
<1>12. PICK R : R = Rest(L, sl[p], sl[a], NumberOf(x))
  OBVIOUS
<1>13. /\ R.data1 = [L.data1 EXCEPT ![sl[a]] = NumberOf(a)] /\ R.data2 = [L.data2 EXCEPT ![sl[a]] = w]
       /\ R.next = [L.next EXCEPT ![sl[a]] = L.next[sl[p]], ![sl[p]] = sl[a]]
       /\ R.head = L.head /\ R.length = L.length /\ R.lastInsertPos = L.lastInsertPos
       /\ SndListRecord(R)
  <2>1. w = IF seqcmp(L.data2[sl[p]], incseq(NumberOf(x))) > 0 THEN L.data2[sl[p]] ELSE L.data2[sl[a]]
    BY ONLY <1>7, <1>8, <1>9, <1>10, <1>11
  <2>2. NumberOf(a) = incseq(NumberOf(x)) /\ SndListRecord(L)
    BY <1>1, <1>8
  <2>3. RestAdded(Rest(L, sl[p], sl[a], NumberOf(x)), L, sl[p], sl[a], NumberOf(a), w)
    BY ONLY <2>1, <2>2, RestIs
  <2>. QED  BY ONLY <2>3, <1>12 DEF RestAdded
<1>14. PICK v : v = IF x = p THEN -1 ELSE NumberOf(x)
  OBVIOUS
<1>15. N = [R EXCEPT !.head = sl[a], !.data2[sl[p]] = v]
  BY <1>2, <1>12, <1>14
<1>16. /\ N.data1 = R.data1 /\ N.data2 = [R.data2 EXCEPT ![sl[p]] = v]
       /\ N.next = R.next /\ N.head = sl[a] /\ N.length = R.length /\ N.lastInsertPos = R.lastInsertPos
       /\ N = [data1 |-> N.data1, data2 |-> N.data2, next |-> N.next, head |-> N.head,
               length |-> N.length, lastInsertPos |-> N.lastInsertPos]
  BY ONLY <1>13, <1>15 DEF SndListRecord
<1>17. SndListRecord(N)
  <2>1. N.head \in Int /\ N.length \in Int /\ N.lastInsertPos \in Int
    BY <1>7, <1>13, <1>16 DEF SndListRecord
  <2>. QED  BY ONLY <1>16, <2>1 DEF SndListRecord
<1>18. PICK G : G = [E EXCEPT ![a] = c]
  OBVIOUS
<1>19. G \in [Int -> Int] /\ G[a] = c /\ \A n \in S : G[n] = E[n]
  BY <1>1, <1>4, <1>6, <1>18 DEF Ranges
<1>20. PICK T : T = S \cup {a}
  OBVIOUS
<1>21. a \in T /\ p \in T /\ S \subseteq T /\ \A n \in T : n \in S \/ n = a
  BY <1>20
<1>22. Ranges(T, G, lo, hi)
  BY <1>1, <1>4, <1>19, <1>20 DEF Ranges
<1>23. Holding(R.data1, R.data2, SndListSize, sl, T, G)
  <2>1. R.data2 = [L.data2 EXCEPT ![sl[a]] = IF NumberOf(G[a]) # NumberOf(a) THEN NumberOf(G[a]) ELSE L.data2[sl[a]]]
    BY <1>11, <1>13, <1>19
  <2>2. R.data1 = [L.data1 EXCEPT ![sl[a]] = NumberOf(a)]
    BY <1>13
  <2>3. G[a] \in Int /\ a <= G[a] /\ G[a] <= hi
    BY <1>4, <1>19
  <2>4. \A n \in S : G[n] = E[n]
    BY <1>19
  <2>5. PICK e1, e2 : e1 = R.data1 /\ e2 = R.data2
    OBVIOUS
  <2>6. Holding(e1, e2, SndListSize, sl, S \cup {a}, G)
    BY <1>1, <1>4, <1>6, <2>1, <2>2, <2>3, <2>4, <2>5, StoredWith
  <2>. QED  BY <1>20, <2>5, <2>6
<1>24. PICK F : F = [G EXCEPT ![p] = x]
  OBVIOUS
<1>25. /\ F \in [Int -> Int] /\ F[p] = x /\ F[a] = c
       /\ \A n \in T : n # p => F[n] = G[n]
       /\ \A n \in S : n # p => F[n] = E[n]
  BY <1>4, <1>19, <1>21, <1>24
<1>26. Ranges(T, F, lo, hi)
  BY <1>1, <1>4, <1>20, <1>25 DEF Ranges
<1>27. Holding(N.data1, N.data2, SndListSize, sl, T, F)
  <2>0. /\ Window(SndListSize, sl, lo, hi) /\ Ranges(T, G, lo, hi)
        /\ Holding(R.data1, R.data2, SndListSize, sl, T, G)
    BY <1>1, <1>22, <1>23
  <2>1. \A n \in T : n # p => F[n] = G[n]
    BY <1>25
  <2>2. p \in T
    BY <1>21
  <2>3. CASE x = p
    <3>1. F[p] = p
      BY <1>25, <2>3
    <3>2. N.data2 = [R.data2 EXCEPT ![sl[p]] = -1]
      BY <1>14, <1>16, <2>3
    <3>3. Holding(R.data1, N.data2, SndListSize, sl, T, F)
      BY ONLY <2>0, <2>1, <2>2, <3>1, <3>2, StoredToStart
    <3>. QED  BY <3>3, <1>16
  <2>4. CASE x # p
    <3>1. F[p] # p /\ F[p] \in Int /\ F[p] <= hi
      BY <1>4, <1>25, <2>4
    <3>2. N.data2 = [R.data2 EXCEPT ![sl[p]] = NumberOf(F[p])]
      BY <1>14, <1>16, <1>25, <2>4
    <3>3. Holding(R.data1, N.data2, SndListSize, sl, T, F)
      BY ONLY <2>0, <2>1, <2>2, <3>1, <3>2, StoredToEnd
    <3>. QED  BY <3>3, <1>16
  <2>. QED  BY <2>3, <2>4
<1>28. Links(N.next, SndListSize, sl, T)
  <2>1. N.next = [L.next EXCEPT ![sl[a]] = L.next[sl[p]], ![sl[p]] = sl[a]]
    BY <1>13, <1>16
  <2>2. Window(SndListSize, sl, lo, hi) /\ Links(L.next, SndListSize, sl, S)
    BY <1>1
  <2>3. S \subseteq lo .. hi /\ a \in lo .. hi /\ a \notin S /\ p \in S /\ p < a
    BY <1>4, <1>6
  <2>4. Links(N.next, SndListSize, sl, S \cup {a})
    BY ONLY <1>5, <2>1, <2>2, <2>3, LinksWith
  <2>. QED  BY <1>20, <2>4
<1>29. HeadOf(sl, T, L.head)
  <2>1. PICK h \in S : L.head = sl[h] /\ \A q \in S : h <= q
    BY <1>1 DEF HeadOf
  <2>2. h <= a
    BY <1>4, <2>1
  <2>. QED  BY <1>20, <2>1, <2>2 DEF HeadOf
<1>30. HeadOf(sl, {n \in T : n > x}, N.head)
  <2>1. a \in {n \in T : n > x}
    BY <1>4, <1>21
  <2>2. \A q \in {n \in T : n > x} : a <= q
    BY <1>4, <1>21
  <2>. QED  BY <1>16, <2>1, <2>2 DEF HeadOf
<1>31. Apart(T, F)
  <2>1. ASSUME NEW m \in T, NEW n \in T, m < n PROVE F[m] < n
    <3>1. CASE m = a
      <4>1. n \in S /\ p < n
        BY <1>4, <1>21, <2>1, <3>1
      <4>. QED  BY <4>1, <3>1, <1>1, <1>3, <1>25 DEF Apart
    <3>2. CASE m = p
      <4>1. a <= n
        BY <1>4, <1>5, <1>21, <2>1, <3>2
      <4>2. n \in Int
        BY <1>4, <1>21
      <4>. QED  BY <4>1, <4>2, <3>2, <1>4, <1>25
    <3>3. CASE m \in S /\ m # p /\ n \in S
      BY <1>1, <1>25, <2>1, <3>3 DEF Apart
    <3>4. CASE m \in S /\ m # p /\ n = a
      <4>1. m < p
        BY <1>4, <1>5, <2>1, <3>4
      <4>2. E[m] < p
        BY <1>1, <3>4, <4>1 DEF Apart
      <4>. QED  BY <1>4, <1>25, <3>4, <4>2
    <3>. QED  BY <1>21, <3>1, <3>2, <3>3, <3>4
  <2>. QED  BY <2>1 DEF Apart
<1>32. Covered(T, F) = Covered(S, E)
  <2>1. ASSUME NEW y \in Int PROVE (\E n \in T : n <= y /\ y <= F[n]) <=> (\E n \in S : n <= y /\ y <= E[n])
    <3>1. ASSUME NEW n \in T, n <= y, y <= F[n] PROVE \E k \in S : k <= y /\ y <= E[k]
      <4>1. CASE n = a \/ n = p
        <5>1. p <= y /\ y <= E[p]
          BY <1>3, <1>4, <1>25, <3>1, <4>1
        <5>. QED  BY <5>1
      <4>2. CASE n \in S /\ n # p
        BY <1>25, <3>1, <4>2
      <4>. QED  BY <1>21, <4>1, <4>2
    <3>2. ASSUME NEW n \in S, n <= y, y <= E[n] PROVE \E k \in T : k <= y /\ y <= F[k]
      <4>1. CASE n = p
        <5>1. (p <= y /\ y <= F[p]) \/ (a <= y /\ y <= F[a])
          BY <1>3, <1>4, <1>25, <3>2, <4>1
        <5>. QED  BY <1>21, <5>1
      <4>2. CASE n # p
        BY <1>21, <1>25, <3>2, <4>2
      <4>. QED  BY <4>1, <4>2
    <3>. QED  BY <3>1, <3>2
  <2>. QED  BY <2>1 DEF Covered
<1>33. N.lastInsertPos = -1 \/ \E n \in T : N.lastInsertPos = sl[n]
  BY <1>13, <1>16, <1>21 DEF SndHolds
<1>34. N.length = Cardinality(Covered(T, F))
  BY <1>1, <1>13, <1>16, <1>32
<1>35. \A n \in T : n <= x => F[n] <= x
  <2>. TAKE n \in T
  <2>. HAVE n <= x
  <2>1. n < a /\ n \in Int
    BY <1>4, <1>21
  <2>2. F[n] < a /\ F[n] \in Int
    BY <1>21, <1>25, <1>31, <2>1 DEF Apart
  <2>. QED  BY <1>4, <2>2
<1>36. SndPurging(N, L.head, sl, T, F, x, lo, hi)
  BY <1>1, <1>4, <1>17, <1>26, <1>27, <1>28, <1>29, <1>30, <1>31, <1>33, <1>34, <1>35 DEF SndPurging
<1>. QED  BY <1>2, <1>21, <1>25, <1>32, <1>36 DEF WasCut

\* The head is moved past the range of p, the last that starts at x or before and ends there too.
LEMMA SkipPurges ==
    ASSUME NEW L, NEW sl, NEW S, NEW E, NEW lo, NEW hi, SndHolds(L, sl, S, E, lo, hi),
           NEW p \in S, NEW x, x \in Int, p <= x, E[p] <= x, \A q \in S : q <= p \/ x < q,
           NEW N, N = [L EXCEPT !.head = L.next[sl[p]]]
    PROVE  SndPurging(N, L.head, sl, S, E, x, lo, hi)
<1>1. /\ SndListRecord(L) /\ Window(SndListSize, sl, lo, hi) /\ Ranges(S, E, lo, hi)
      /\ Holding(L.data1, L.data2, SndListSize, sl, S, E)
      /\ Links(L.next, SndListSize, sl, S) /\ HeadOf(sl, S, L.head)
      /\ Apart(S, E) /\ L.length = Cardinality(Covered(S, E))
      /\ L.lastInsertPos = -1 \/ \E n \in S : L.lastInsertPos = sl[n]
  BY DEF SndHolds, SndArrays
<1>2. \A n \in S : n \in Int /\ E[n] \in Int /\ n <= E[n] /\ sl[n] \in 0 .. SndListSize - 1
  BY <1>1, WindowIs DEF Ranges
<1>3. /\ N.data1 = L.data1 /\ N.data2 = L.data2 /\ N.next = L.next /\ N.head = L.next[sl[p]]
      /\ N.length = L.length /\ N.lastInsertPos = L.lastInsertPos
      /\ N = [data1 |-> N.data1, data2 |-> N.data2, next |-> N.next, head |-> N.head,
              length |-> N.length, lastInsertPos |-> N.lastInsertPos]
  <2>1. N = [L EXCEPT !.head = L.next[sl[p]]]
    OBVIOUS
  <2>. QED  BY ONLY <2>1, <1>1 DEF SndListRecord
<1>4. L.next[sl[p]] \in Int
  BY <1>1, <1>2 DEF Links
<1>5. SndListRecord(N)
  <2>1. N.head \in Int /\ N.length \in Int /\ N.lastInsertPos \in Int
    BY <1>1, <1>3, <1>4 DEF SndListRecord
  <2>. QED  BY ONLY <1>3, <2>1 DEF SndListRecord
<1>6. HeadOf(sl, {n \in S : n > x}, N.head)
  <2>1. Follows(sl, S, p, L.next[sl[p]])
    BY <1>1 DEF Links
  <2>2. S \subseteq Int /\ p \in Int
    BY <1>2
  <2>3. HeadOf(sl, {n \in S : p < n}, L.next[sl[p]])
    BY ONLY <2>1, <2>2, HeadFrom
  <2>4. {n \in S : n > x} = {n \in S : p < n}
    BY <1>2
  <2>. QED  BY <1>3, <2>3, <2>4
<1>7. \A n \in S : n <= x => E[n] <= x
  <2>. TAKE n \in S
  <2>. HAVE n <= x
  <2>1. n = p \/ n < p
    BY <1>2
  <2>2. n < p => E[n] < p
    BY <1>1 DEF Apart
  <2>. QED  BY <1>2, <2>1, <2>2
<1>. QED  BY <1>1, <1>3, <1>5, <1>6, <1>7 DEF SndPurging

\* The first number is taken off.
LEMMA TakeHeadHolds ==
    ASSUME NEW L, NEW sl, NEW S, NEW E, NEW lo, NEW hi, SndHolds(L, sl, S, E, lo, hi),
           NEW h \in S, L.head = sl[h], \A q \in S : h <= q
    PROVE  SndHoldsNumbers(TakeHead(L), Beyond(S, E, h), lo, hi)
<1>1. /\ SndListRecord(L) /\ Window(SndListSize, sl, lo, hi) /\ Ranges(S, E, lo, hi)
      /\ Holding(L.data1, L.data2, SndListSize, sl, S, E) /\ Apart(S, E)
  BY DEF SndHolds, SndArrays
<1>2. /\ h \in Int /\ E[h] \in Int /\ h <= E[h] /\ L.data1[sl[h]] = NumberOf(h)
      /\ (L.data2[sl[h]] = -1 <=> E[h] = h)
      /\ \A n \in S : n \in Int
  <2>1. h \in Int /\ E[h] \in h .. hi /\ L.data1[sl[h]] = NumberOf(h) /\ (L.data2[sl[h]] = -1 <=> E[h] = h) /\ hi \in Int
    BY <1>1, RangeRead
  <2>. QED  BY <1>1, <2>1 DEF Ranges
<1>3. (sl[h] + 1) % SndListSize = sl[h + 1]
  <2>1. SndListSize \in Nat \ {0} /\ RingSlots(sl, SndListSize)
    BY <1>1 DEF Window
  <2>. QED  BY <1>2, <2>1, SlotIs
<1>4. PICK M : M = IF E[h] = h THEN [L EXCEPT !.head = L.next[sl[h]]]
                   ELSE [Rest(L, sl[h], sl[h + 1], NumberOf(h)) EXCEPT !.head = sl[h + 1]]
  OBVIOUS
<1>5. TakeHead(L) = [Cleared(M, sl[h]) EXCEPT !.length = @ - 1]
  BY ONLY <1>2, <1>3, <1>4, L.head = sl[h] DEF TakeHead
<1>6. CASE E[h] = h
  <2>1. M = [L EXCEPT !.head = L.next[sl[h]]]
    BY <1>4, <1>6
  <2>2. h <= h /\ E[h] <= h /\ \A q \in S : q <= h \/ h < q
    BY <1>2, <1>6
  <2>3. SndPurging(M, sl[h], sl, S, E, h, lo, hi)
    <3>1. SndPurging(M, L.head, sl, S, E, h, lo, hi)
      BY <1>2, <2>1, <2>2, SkipPurges
    <3>. QED  BY <3>1
  <2>4. PICK N : N = [Cleared(M, sl[h]) EXCEPT !.length = @ - (E[h] - h + 1)]
    OBVIOUS
  <2>5. E[h] - h + 1 = 1
    BY <1>2, <1>6
  <2>6. TakeHead(L) = N
    BY ONLY <1>5, <2>4, <2>5
  <2>7. OnePurged(N, M, h, sl, S, E, h, lo, hi)
    <3>1. h \in S /\ h <= h /\ \A q \in S : h <= q
      BY <2>2
    <3>. QED  BY ONLY <2>3, <2>4, <3>1, ClearPurges
  <2>8. SndPurging(N, M.next[sl[h]], sl, S \ {h}, E, h, lo, hi) /\ Beyond(S \ {h}, E, h) = Beyond(S, E, h)
    BY <2>7 DEF OnePurged
  <2>9. \A n \in S \ {h} : n > h
    BY <1>2
  <2>10. SndHoldsNumbers(N, Beyond(S \ {h}, E, h), lo, hi)
    BY ONLY <2>8, <2>9, PurgedHolds
  <2>. QED  BY <2>6, <2>8, <2>10
<1>7. CASE E[h] # h
  <2>1. M = [Rest(L, sl[h], sl[h + 1], NumberOf(h)) EXCEPT !.head = sl[h + 1]]
    BY <1>4, <1>7
  <2>2. PICK N : N = [Rest(L, sl[h], sl[h + 1], NumberOf(h)) EXCEPT
                         !.head = sl[h + 1], !.data2[sl[h]] = IF h = h THEN -1 ELSE NumberOf(h)]
    OBVIOUS
  <2>3. WasCut(N, L.head, sl, S, E, h, h, lo, hi)
    <3>1. SndHolds(L, sl, S, E, lo, hi)
      OBVIOUS
    <3>2. h \in S /\ h \in Int /\ h <= h /\ h < E[h]
      BY <1>2, <1>7
    <3>. QED  BY ONLY <2>2, <3>1, <3>2, CutPurges
  <2>4. PICK T, F : /\ SndPurging(N, sl[h], sl, T, F, h, lo, hi) /\ Covered(T, F) = Covered(S, E)
                    /\ h \in T /\ F[h] = h /\ \A n \in T : n \in S \/ n = h + 1
    BY <2>3 DEF WasCut
  <2>5. PICK Q : Q = [Cleared(N, sl[h]) EXCEPT !.length = @ - (F[h] - h + 1)]
    OBVIOUS
  <2>6. F[h] - h + 1 = 1
    BY <1>2, <2>4
  <2>7. SndListRecord(Rest(L, sl[h], sl[h + 1], NumberOf(h)))
    <3>1. PICK v, w : v = incseq(NumberOf(h)) /\ w = IF seqcmp(L.data2[sl[h]], incseq(NumberOf(h))) > 0 THEN L.data2[sl[h]] ELSE L.data2[sl[h + 1]]
      OBVIOUS
    <3>2. RestAdded(Rest(L, sl[h], sl[h + 1], NumberOf(h)), L, sl[h], sl[h + 1], v, w)
      BY <1>1, <3>1, RestIs
    <3>. QED  BY <3>2 DEF RestAdded
  <2>8. TakeHead(L) = Q
    <3>1. PICK R : R = Rest(L, sl[h], sl[h + 1], NumberOf(h))
      OBVIOUS
    <3>2. R = [data1 |-> R.data1, data2 |-> R.data2, next |-> R.next, head |-> R.head,
               length |-> R.length, lastInsertPos |-> R.lastInsertPos]
      BY <2>7, <3>1 DEF SndListRecord
    <3>3. M = [R EXCEPT !.head = sl[h + 1]]
      BY <2>1, <3>1
    <3>4. N = [R EXCEPT !.head = sl[h + 1], !.data2[sl[h]] = -1]
      BY <2>2, <3>1
    <3>5. /\ M.data1 = R.data1 /\ M.data2 = R.data2 /\ M.next = R.next /\ M.head = sl[h + 1]
          /\ M.length = R.length /\ M.lastInsertPos = R.lastInsertPos
          /\ M = [data1 |-> M.data1, data2 |-> M.data2, next |-> M.next, head |-> M.head,
                  length |-> M.length, lastInsertPos |-> M.lastInsertPos]
      BY ONLY <3>2, <3>3
    <3>6. /\ N.data1 = R.data1 /\ N.data2 = [R.data2 EXCEPT ![sl[h]] = -1] /\ N.next = R.next /\ N.head = sl[h + 1]
          /\ N.length = R.length /\ N.lastInsertPos = R.lastInsertPos
          /\ N = [data1 |-> N.data1, data2 |-> N.data2, next |-> N.next, head |-> N.head,
                  length |-> N.length, lastInsertPos |-> N.lastInsertPos]
      BY ONLY <3>2, <3>4
    <3>7. [M.data2 EXCEPT ![sl[h]] = -1] = [N.data2 EXCEPT ![sl[h]] = -1]
      <4>1. R.data2 \in [0 .. SndListSize - 1 -> Int]
        <5>1. PICK v, w : v = incseq(NumberOf(h)) /\ w = IF seqcmp(L.data2[sl[h]], incseq(NumberOf(h))) > 0 THEN L.data2[sl[h]] ELSE L.data2[sl[h + 1]]
          OBVIOUS
        <5>2. RestAdded(R, L, sl[h], sl[h + 1], v, w)
          BY <1>1, <3>1, <5>1, RestIs
        <5>3. L.data2 \in [0 .. SndListSize - 1 -> Int]
          BY <1>1 DEF Holding
        <5>4. N.data2 \in [0 .. SndListSize - 1 -> Int]
          BY <2>4 DEF SndPurging, Holding
        <5>5. R.data2 = [L.data2 EXCEPT ![sl[h + 1]] = w]
          BY <5>2 DEF RestAdded
        <5>6. sl[h] \in 0 .. SndListSize - 1 /\ sl[h + 1] \in 0 .. SndListSize - 1
          BY <1>1, <1>2, WindowIs
        <5>7. L.data2[sl[h]] \in Int /\ L.data2[sl[h + 1]] \in Int
          BY <5>3, <5>6
        <5>8. w \in Int
          BY <5>1, <5>7
        <5>. QED  BY <5>3, <5>5, <5>8
      <4>. QED  BY ONLY <3>5, <3>6, <4>1
    <3>8. PosWithout(M, sl[h]) = PosWithout(N, sl[h])
      BY <3>5, <3>6 DEF PosWithout
    <3>9. PICK v : v = PosWithout(M, sl[h])
      OBVIOUS
    <3>10. Cleared(M, sl[h]) = [M EXCEPT !.data1[sl[h]] = -1, !.data2[sl[h]] = -1, !.lastInsertPos = v]
      BY ONLY <3>9 DEF Cleared
    <3>11. Cleared(N, sl[h]) = [N EXCEPT !.data1[sl[h]] = -1, !.data2[sl[h]] = -1, !.lastInsertPos = v]
      BY ONLY <3>8, <3>9 DEF Cleared
    <3>12. Cleared(M, sl[h]) = [data1 |-> [R.data1 EXCEPT ![sl[h]] = -1], data2 |-> [M.data2 EXCEPT ![sl[h]] = -1],
                                next |-> R.next, head |-> sl[h + 1], length |-> R.length, lastInsertPos |-> v]
      BY ONLY <3>5, <3>10
    <3>13. Cleared(N, sl[h]) = [data1 |-> [R.data1 EXCEPT ![sl[h]] = -1], data2 |-> [N.data2 EXCEPT ![sl[h]] = -1],
                                next |-> R.next, head |-> sl[h + 1], length |-> R.length, lastInsertPos |-> v]
      BY ONLY <3>6, <3>11
    <3>14. Cleared(M, sl[h]) = Cleared(N, sl[h])
      BY ONLY <3>7, <3>12, <3>13
    <3>. QED  BY ONLY <1>5, <2>5, <2>6, <3>14
  <2>9. \A n \in T : n \in Int /\ h <= n
    BY <1>2, <2>4
  <2>10. OnePurged(Q, N, h, sl, T, F, h, lo, hi)
    <3>1. h \in T /\ h <= h /\ \A q \in T : h <= q
      BY <1>2, <2>4, <2>9
    <3>. QED  BY ONLY <2>4, <2>5, <3>1, ClearPurges
  <2>11. SndPurging(Q, N.next[sl[h]], sl, T \ {h}, F, h, lo, hi) /\ Beyond(T \ {h}, F, h) = Beyond(T, F, h)
    BY <2>10 DEF OnePurged
  <2>12. \A n \in T \ {h} : n > h
    BY <1>2, <2>9
  <2>13. SndHoldsNumbers(Q, Beyond(T \ {h}, F, h), lo, hi)
    BY ONLY <2>11, <2>12, PurgedHolds
  <2>14. Beyond(T, F, h) = Beyond(S, E, h)
    BY <2>4 DEF Beyond
  <2>. QED  BY <2>8, <2>11, <2>13, <2>14
<1>. QED  BY <1>6, <1>7

\* What an ACK leaves.
LEMMA RemoveHolds ==
    ASSUME NEW L, NEW sl, NEW S, NEW E, NEW lo, NEW hi, SndHolds(L, sl, S, E, lo, hi),
           NEW x \in lo .. hi
    PROVE  SndHoldsNumbers(RemoveUpTo(L, NumberOf(x)), Beyond(S, E, x), lo, hi)
<1>1. /\ Window(SndListSize, sl, lo, hi) /\ Ranges(S, E, lo, hi) /\ SndArrays(L, sl, S, E, lo, hi)
      /\ Holding(L.data1, L.data2, SndListSize, sl, S, E) /\ HeadOf(sl, S, L.head)
      /\ Apart(S, E) /\ L.length = Cardinality(Covered(S, E))
  BY DEF SndHolds, SndArrays
<1>2. /\ SndListSize \in Nat \ {0} /\ lo \in Int /\ hi \in Int /\ x \in Int
      /\ x \in lo .. hi + 1 /\ RingSlots(sl, SndListSize)
  <2>1. SndListSize \in Nat \ {0} /\ lo \in Int /\ hi \in Int
    BY <1>1, WindowIs
  <2>. QED  BY <1>1, <2>1 DEF Window
<1>3. L.length = 0 <=> S = {}
  BY <1>1, <1>2, CoveredIs
<1>4. PICK R : R = RemoveUpTo(L, NumberOf(x))
  OBVIOUS
<1>5. CASE S = {}
  <2>1. R = L
    BY <1>3, <1>4, <1>5 DEF RemoveUpTo
  <2>2. Beyond(S, E, x) = Covered(S, E)
    BY <1>5 DEF Beyond, Covered
  <2>. QED  BY <1>4, <2>1, <2>2 DEF SndHoldsNumbers
<1>6. CASE S # {}
  <2>1. PICK h \in S : L.head = sl[h] /\ \A q \in S : h <= q
    BY <1>1, <1>6 DEF HeadOf
  <2>2. \A n \in S : /\ n \in Int /\ n \in lo .. hi /\ n \in lo .. hi + 1 /\ n <= E[n]
                     /\ E[n] \in Int /\ E[n] \in lo .. hi + 1
                     /\ L.data1[sl[n]] = NumberOf(n) /\ (L.data2[sl[n]] = -1 <=> E[n] = n)
                     /\ (L.data2[sl[n]] # -1 => L.data2[sl[n]] = NumberOf(E[n]))
    <3>1. \A n \in S : /\ n \in Int /\ n \in lo .. hi /\ E[n] \in n .. hi
                       /\ L.data1[sl[n]] = NumberOf(n) /\ (L.data2[sl[n]] = -1 <=> E[n] = n)
                       /\ (L.data2[sl[n]] # -1 => L.data2[sl[n]] = NumberOf(E[n]))
      BY <1>1, RangeRead
    <3>. QED  BY <1>2, <3>1
  <2>3. seqoff(L.data1[L.head], NumberOf(x)) = x - h
    <3>1. seqoff(NumberOf(h), NumberOf(x)) = x - h
      BY <1>1, <1>2, <2>2, Compare
    <3>. QED  BY <2>1, <2>2, <3>1
  <2>4. LocOf(L, NumberOf(x)) = sl[x]
    <3>1. (L.head + (x - h) + SndListSize) % SndListSize = sl[x]
      <4>1. h \in Int
        BY <2>2
      <4>2. (sl[h] + (x - h) + SndListSize) % SndListSize = sl[x]
        BY ONLY <1>2, <4>1, SlotIs
      <4>. QED  BY <2>1, <4>2
    <3>. QED  BY ONLY <2>3, <3>1 DEF LocOf
  <2>5. L.data1[sl[x]] = NumberOf(x) <=> x \in S
    BY <1>1, StartsAt
  <2>6. PICK i : i = NodeUpTo(L, sl[x], NumberOf(x))
    OBVIOUS
  <2>7. R = IF x - h < 0 THEN L
            ELSE IF x - h = 0 THEN TakeHead(L)
            ELSE Purge(IF L.data2[i] # -1 /\ seqcmp(L.data2[i], NumberOf(x)) > 0 THEN Cut(L, i, sl[x], NumberOf(x))
                       ELSE [L EXCEPT !.head = L.next[i]], L.head)
    <3>1. L.length # 0
      BY <1>3, <1>6
    <3>2. R = IF seqoff(L.data1[L.head], NumberOf(x)) < 0 THEN L
              ELSE IF seqoff(L.data1[L.head], NumberOf(x)) = 0 THEN TakeHead(L)
              ELSE Purge(IF /\ L.data2[NodeUpTo(L, LocOf(L, NumberOf(x)), NumberOf(x))] # -1
                            /\ seqcmp(L.data2[NodeUpTo(L, LocOf(L, NumberOf(x)), NumberOf(x))], NumberOf(x)) > 0
                         THEN Cut(L, NodeUpTo(L, LocOf(L, NumberOf(x)), NumberOf(x)), LocOf(L, NumberOf(x)), NumberOf(x))
                         ELSE [L EXCEPT !.head = L.next[NodeUpTo(L, LocOf(L, NumberOf(x)), NumberOf(x))]], L.head)
      BY ONLY <1>4, <3>1 DEF RemoveUpTo
    <3>. QED  BY ONLY <2>3, <2>4, <2>6, <3>2
  <2>8. CASE x < h
    <3>1. R = L
      BY <1>2, <2>2, <2>7, <2>8
    <3>2. \A y \in Covered(S, E) : y > x
      <4>. SUFFICES ASSUME NEW y \in Int, NEW n \in S, n <= y PROVE y > x
        BY DEF Covered
      <4>. QED  BY <1>2, <2>1, <2>2, <2>8
    <3>3. Beyond(S, E, x) = Covered(S, E)
      BY <3>2 DEF Beyond
    <3>. QED  BY <1>4, <3>1, <3>3 DEF SndHoldsNumbers
  <2>9. CASE x = h
    <3>1. R = TakeHead(L)
      BY <1>2, <2>2, <2>7, <2>9
    <3>2. SndHoldsNumbers(TakeHead(L), Beyond(S, E, h), lo, hi)
      BY <2>1, TakeHeadHolds
    <3>. QED  BY <1>4, <2>9, <3>1, <3>2
  <2>10. CASE h < x
    <3>1. PICK p \in S : i = sl[p] /\ p <= x /\ \A q \in S : q <= p \/ x < q
      <4>1. CASE x \in S
        <5>1. \A q \in S : q <= x \/ x < q
          BY <1>2, <2>2
        <5>2. i = sl[x]
          BY <2>5, <2>6, <4>1 DEF NodeUpTo
        <5>. QED  BY <1>2, <4>1, <5>1, <5>2
      <4>2. CASE x \notin S
        <5>1. PICK p \in S : PriorFrom(L, sl[h], NumberOf(x)) = sl[p] /\ p < x /\ \A q \in S : q <= p \/ x <= q
          BY <1>1, <2>10, PriorHolds
        <5>2. \A q \in S : q <= p \/ x < q
          BY <1>2, <2>2, <4>2, <5>1
        <5>3. p <= x
          BY <1>2, <2>2, <5>1
        <5>4. i = sl[p]
          BY <2>1, <2>5, <2>6, <4>2, <5>1 DEF NodeUpTo
        <5>. QED  BY <5>2, <5>3, <5>4
      <4>. QED  BY <4>1, <4>2
    <3>2. L.data2[i] # -1 /\ seqcmp(L.data2[i], NumberOf(x)) > 0 <=> E[p] > x
      <4>1. seqcmp(NumberOf(E[p]), NumberOf(x)) > 0 <=> E[p] > x
        BY <1>1, <1>2, <2>2, Compare
      <4>2. /\ L.data2[sl[p]] = -1 <=> E[p] = p
            /\ L.data2[sl[p]] # -1 => L.data2[sl[p]] = NumberOf(E[p])
        BY <2>2
      <4>3. E[p] = p => ~(E[p] > x)
        BY <1>2, <2>2, <3>1
      <4>. QED  BY <3>1, <4>1, <4>2, <4>3
    <3>3. i = sl[x] <=> x = p
      <4>1. p \in lo .. hi /\ x \in lo .. hi
        BY <2>2
      <4>. QED  BY <1>1, <3>1, <4>1, WindowIs
    <3>4. ~(x - h < 0) /\ ~(x - h = 0)
      BY <1>2, <2>2, <2>10
    <3>5. CASE E[p] > x
      <4>1. PICK N : N = [Rest(L, sl[p], sl[x + 1], NumberOf(x)) EXCEPT
                             !.head = sl[x + 1], !.data2[sl[p]] = IF x = p THEN -1 ELSE NumberOf(x)]
        OBVIOUS
      <4>8. (sl[x] + 1) % SndListSize = sl[x + 1]
        BY <1>2, SlotIs
      <4>9. Cut(L, i, sl[x], NumberOf(x)) = N
        BY ONLY <3>1, <3>3, <4>1, <4>8 DEF Cut
      <4>2. R = Purge(N, L.head)
        BY ONLY <2>7, <3>1, <3>2, <3>4, <3>5, <4>9
      <4>3. x < E[p]
        BY <1>2, <2>2, <3>5
      <4>4. WasCut(N, L.head, sl, S, E, p, x, lo, hi)
        BY <1>2, <3>1, <4>1, <4>3, CutPurges
      <4>5. PICK T, F : SndPurging(N, L.head, sl, T, F, x, lo, hi) /\ Covered(T, F) = Covered(S, E)
        BY <4>4 DEF WasCut
      <4>6. SndHoldsNumbers(Purge(N, L.head), Beyond(T, F, x), lo, hi)
        BY ONLY <4>5, PurgeHolds
      <4>7. Beyond(T, F, x) = Beyond(S, E, x)
        BY <4>5 DEF Beyond
      <4>. QED  BY <1>4, <4>2, <4>6, <4>7
    <3>6. CASE ~(E[p] > x)
      <4>1. PICK N : N = [L EXCEPT !.head = L.next[sl[p]]]
        OBVIOUS
      <4>2. R = Purge(N, L.head)
        BY ONLY <2>7, <3>1, <3>2, <3>4, <3>6, <4>1
      <4>3. E[p] <= x
        BY <1>2, <2>2, <3>6
      <4>4. SndPurging(N, L.head, sl, S, E, x, lo, hi)
        BY <1>2, <3>1, <4>1, <4>3, SkipPurges
      <4>5. SndHoldsNumbers(Purge(N, L.head), Beyond(S, E, x), lo, hi)
        BY ONLY <4>4, PurgeHolds
      <4>. QED  BY <1>4, <4>2, <4>5
    <3>. QED  BY <3>5, <3>6
  <2>. QED  BY <1>2, <2>2, <2>8, <2>9, <2>10
<1>. QED  BY <1>5, <1>6
\* The links followed from the head.
LEMMA SndNodeTurns ==
    /\ SndNode[0] = IF sndList.length = 0 THEN -1 ELSE sndList.head
    /\ \A k \in 1 .. SndListSize + 1 : SndNode[k] = SndNodeAfter(SndNode[k - 1])
<1>. DEFINE W(g, k) == IF k = 0 THEN (IF sndList.length = 0 THEN -1 ELSE sndList.head) ELSE SndNodeAfter(g[k - 1])
            turn == CHOOSE g : g = [k \in 0 .. SndListSize + 1 |-> W(g, k)]
            T == {n \in Nat : \E g : g = [k \in 0 .. n |-> W(g, k)]}
<1>1. 0 \in T
  <2>. DEFINE h == [k \in 0 .. 0 |-> (IF sndList.length = 0 THEN -1 ELSE sndList.head)]
  <2>1. \A k \in 0 .. 0 : h[k] = W(h, k)
    OBVIOUS
  <2>2. h = [k \in 0 .. 0 |-> h[k]]
    OBVIOUS
  <2>. HIDE DEF h, W
  <2>3. h = [k \in 0 .. 0 |-> W(h, k)]
    BY <2>1, <2>2
  <2>. QED  BY <2>3
<1>2. ASSUME NEW n \in Nat, n \in T PROVE n + 1 \in T
  <2>1. PICK g : g = [k \in 0 .. n |-> W(g, k)]
    BY <1>2
  <2>2. \A k \in 0 .. n : g[k] = W(g, k)
    <3>. HIDE DEF W
    <3>. QED  BY <2>1
  <2>3. PICK x : x = W(g, n + 1)
    OBVIOUS
  <2>. DEFINE h == [k \in 0 .. n + 1 |-> IF k <= n THEN g[k] ELSE x]
  <2>4. \A k \in 0 .. n : h[k] = g[k]
    OBVIOUS
  <2>5. h[n + 1] = x
    OBVIOUS
  <2>6. ASSUME NEW k \in 0 .. n + 1 PROVE h[k] = W(h, k)
    <3>. HIDE DEF h
    <3>1. CASE k = 0
      <4>1. h[k] = g[k] /\ g[k] = W(g, k)
        BY <3>1, <2>2, <2>4
      <4>. QED  BY <3>1, <4>1
    <3>2. CASE k # 0 /\ k <= n
      <4>1. k \in 0 .. n /\ k - 1 \in 0 .. n
        BY <3>2
      <4>2. h[k] = g[k] /\ g[k] = W(g, k) /\ h[k - 1] = g[k - 1]
        BY <4>1, <2>2, <2>4
      <4>. QED  BY <3>2, <4>2
    <3>3. CASE k = n + 1
      <4>1. n \in 0 .. n /\ (n + 1) - 1 = n /\ n + 1 # 0
        OBVIOUS
      <4>2. h[n] = g[n]
        BY <4>1, <2>4
      <4>3. h[n + 1] = W(g, n + 1)
        BY <2>3, <2>5
      <4>4. W(g, n + 1) = W(h, n + 1)
        BY <4>1, <4>2
      <4>. QED  BY <3>3, <4>3, <4>4
    <3>4. k = n + 1 \/ k <= n
      OBVIOUS
    <3>. QED  BY <3>1, <3>2, <3>3, <3>4
  <2>7. h = [k \in 0 .. n + 1 |-> h[k]]
    OBVIOUS
  <2>. HIDE DEF h, W
  <2>8. h = [k \in 0 .. n + 1 |-> W(h, k)]
    BY <2>6, <2>7
  <2>. QED  BY <2>8
<1>3. SndListSize + 1 \in T
  <2>. HIDE DEF T
  <2>1. \A n \in Nat : n \in T => n + 1 \in T
    BY <1>2
  <2>2. \A n \in Nat : n \in T
    BY ONLY <1>1, <2>1, AllNumbers
  <2>3. SndListSize + 1 \in Nat
    BY SndLossListAssumption
  <2>. QED  BY <2>2, <2>3
<1>4. turn = [k \in 0 .. SndListSize + 1 |-> W(turn, k)]
  <2>1. \E g : g = [k \in 0 .. SndListSize + 1 |-> W(g, k)]
    BY <1>3
  <2>. HIDE DEF W
  <2>. QED  BY <2>1
<1>5. SndNode = turn
  BY DEF SndNode
<1>. HIDE DEF turn
<1>6. \A k \in 0 .. SndListSize + 1 : turn[k] = W(turn, k)
  <2>. HIDE DEF W
  <2>. QED  BY <1>4
<1>7. SndListSize + 1 \in Nat
  BY SndLossListAssumption
<1>8. turn[0] = (IF sndList.length = 0 THEN -1 ELSE sndList.head)
  <2>1. 0 \in 0 .. SndListSize + 1
    BY <1>7
  <2>. QED  BY <1>6, <2>1
<1>9. ASSUME NEW k \in 1 .. SndListSize + 1 PROVE turn[k] = SndNodeAfter(turn[k - 1])
  <2>1. k \in 0 .. SndListSize + 1 /\ k # 0
    BY <1>7
  <2>2. turn[k] = W(turn, k)
    BY <1>6, <2>1
  <2>. QED  BY <2>1, <2>2
<1>. QED
  BY <1>5, <1>8, <1>9

-----------------------------------------------------------------------------
(* The list's state and its invariant                                      *)

SndLossSpec == SndLossInit /\ [][SndLossNext]_sndListVars

SndLossInv ==
    /\ sndAcked \in Int /\ sndNext \in Int /\ sndNext - sndAcked <= SndListSize
    /\ SndHoldsNumbers(sndList, sndLost, sndAcked, sndNext - 1)

\* The window may move as long as it holds the numbers.
LEMMA WindowMoves ==
    ASSUME NEW L, NEW C, NEW lo, NEW hi, SndHoldsNumbers(L, C, lo, hi),
           NEW a, NEW b, a \in Int, b \in Int, b - a < SndListSize, \A y \in C : a <= y /\ y <= b
    PROVE  SndHoldsNumbers(L, C, a, b)
<1>1. PICK sl, S, E : SndHolds(L, sl, S, E, lo, hi) /\ Covered(S, E) = C
  BY DEF SndHoldsNumbers
<1>2. Ranges(S, E, lo, hi) /\ Window(SndListSize, sl, lo, hi)
  BY <1>1 DEF SndHolds, SndArrays
<1>3. Window(SndListSize, sl, a, b)
  BY <1>2 DEF Window
<1>4. \A n \in S : n \in C /\ E[n] \in C
  BY <1>1, <1>2 DEF Ranges, Covered
<1>5. Ranges(S, E, a, b)
  BY <1>2, <1>4 DEF Ranges
<1>6. SndHolds(L, sl, S, E, a, b)
  BY <1>1, <1>3, <1>5 DEF SndHolds, SndArrays
<1>. QED  BY <1>1, <1>6 DEF SndHoldsNumbers

\* The sender's list starts empty.
LEMMA EmptyHolds ==
    SndLossInit => SndLossInv
<1>. SUFFICES ASSUME SndLossInit PROVE SndLossInv
  OBVIOUS
<1>1. /\ SndListSize \in Nat \ {0} /\ SndListSize < SndListSize + 1 /\ SndListSize < SeqNoTH
      /\ FirstSndSeqNo \in Int /\ SndListSize \in Int
  BY SndLossListAssumption
<1>2. PICK sl : RingSlots(sl, SndListSize)
  BY <1>1, RingSlotsFrom
<1>3. PICK E : E = [n \in Int |-> n]
  OBVIOUS
<1>4. Window(SndListSize, sl, sndAcked, sndNext - 1)
  BY <1>1, <1>2 DEF SndLossInit, Window
<1>5. Ranges({}, E, sndAcked, sndNext - 1)
  BY <1>3 DEF Ranges
<1>6. PICK L : L = sndList
  OBVIOUS
<1>7. L = [data1 |-> [i \in SndSlots |-> -1], data2 |-> [i \in SndSlots |-> -1],
           next |-> [i \in SndSlots |-> -1], head |-> -1, length |-> 0, lastInsertPos |-> -1]
  BY <1>6 DEF SndLossInit, EmptySndList
<1>8. SndListRecord(L)
  BY <1>7 DEF SndListRecord
<1>9. L.data1 = [i \in SndSlots |-> -1] /\ L.data2 = [i \in SndSlots |-> -1] /\ L.next = [i \in SndSlots |-> -1]
  BY <1>7
<1>10. Holding(L.data1, L.data2, SndListSize, sl, {}, E)
  BY <1>9 DEF Holding, SndSlots
<1>11. Links(L.next, SndListSize, sl, {})
  BY <1>9 DEF Links, SndSlots
<1>12. HeadOf(sl, {}, L.head)
  BY <1>7 DEF HeadOf
<1>13. Covered({}, E) = {}
  BY DEF Covered
<1>14. L.length = Cardinality(Covered({}, E))
  BY <1>7, <1>13, FS_EmptySet
<1>15. SndHolds(L, sl, {}, E, sndAcked, sndNext - 1)
  BY <1>4, <1>5, <1>7, <1>8, <1>10, <1>11, <1>12, <1>14 DEF SndHolds, SndArrays, Apart
<1>16. SndHoldsNumbers(sndList, sndLost, sndAcked, sndNext - 1)
  BY <1>6, <1>13, <1>15 DEF SndHoldsNumbers, SndLossInit
<1>. QED  BY <1>1, <1>16 DEF SndLossInv, SndLossInit

\* Every call keeps the sender's list holding what was reported.
LEMMA SndLossStep ==
    SndLossInv /\ [SndLossNext]_sndListVars => SndLossInv'
<1>. SUFFICES ASSUME SndLossInv, [SndLossNext]_sndListVars PROVE SndLossInv'
  OBVIOUS
<1>1. PICK lo, hi, L, C : lo = sndAcked /\ hi = sndNext - 1 /\ L = sndList /\ C = sndLost
  OBVIOUS
<1>2. /\ lo \in Int /\ hi \in Int /\ hi - lo < SndListSize /\ SndHoldsNumbers(L, C, lo, hi)
      /\ sndNext = hi + 1 /\ SndListSize \in Int
  BY <1>1, SndLossListAssumption DEF SndLossInv
<1>3. PICK sl, S, E : SndHolds(L, sl, S, E, lo, hi) /\ Covered(S, E) = C
  BY <1>2 DEF SndHoldsNumbers
<1>4. Ranges(S, E, lo, hi) /\ Window(SndListSize, sl, lo, hi) /\ HeadOf(sl, S, L.head)
  BY <1>3 DEF SndHolds, SndArrays
<1>5. \A y \in C : y \in Int /\ lo <= y /\ y <= hi
  <2>1. C \subseteq lo .. hi
    BY <1>2, <1>3, <1>4, CoveredIs
  <2>. QED  BY <1>2, <2>1
<1>6. CASE SendPacket
  <2>1. sndNext' = hi + 2 /\ sndAcked' = lo /\ sndList' = L /\ sndLost' = C /\ hi + 1 - lo < SndListSize
    BY <1>1, <1>2, <1>6 DEF SendPacket
  <2>2. hi + 1 \in Int /\ \A y \in C : lo <= y /\ y <= hi + 1
    BY <1>2, <1>5
  <2>3. SndHoldsNumbers(L, C, lo, hi + 1)
    BY <1>2, <2>1, <2>2, WindowMoves
  <2>4. sndNext' - 1 = hi + 1
    BY <1>2, <2>1
  <2>. QED  BY <1>2, <2>1, <2>3, <2>4 DEF SndLossInv
<1>7. ASSUME NEW a \in SndLossNumbers, NEW b \in SndLossNumbers, ReportLoss(a, b) PROVE SndLossInv'
  <2>1. a \in Int /\ b \in Int
    BY SndLossListAssumption DEF SndLossNumbers
  <2>2. a \in lo .. hi /\ b \in a .. hi
    BY <1>1, <1>2, <1>7, <2>1 DEF ReportLoss
  <2>3. /\ sndList' = Insert(L, NumberOf(a), NumberOf(b)) /\ sndLost' = C \cup (a .. b)
        /\ sndAcked' = sndAcked /\ sndNext' = sndNext
    BY <1>1, <1>7 DEF ReportLoss
  <2>4. SndHoldsNumbers(Insert(L, NumberOf(a), NumberOf(b)), Covered(S, E) \cup (a .. b), lo, hi)
    BY <1>3, <2>2, InsertHolds
  <2>. QED  BY <1>1, <1>3, <2>3, <2>4 DEF SndLossInv
<1>8. ASSUME NEW n \in SndLossNumbers, AckPackets(n) PROVE SndLossInv'
  <2>1. n \in Int
    BY SndLossListAssumption DEF SndLossNumbers
  <2>2. n - 1 \in lo .. hi /\ n \in lo .. hi + 1 /\ n \in Int
    BY <1>1, <1>2, <1>8, <2>1 DEF AckPackets
  <2>3. decseq(NumberOf(n)) = NumberOf(n - 1)
    BY <1>4, <2>2, Compare
  <2>4. /\ sndList' = RemoveUpTo(L, NumberOf(n - 1)) /\ sndLost' = {s \in C : s >= n}
        /\ sndAcked' = n /\ sndNext' = sndNext
    BY <1>1, <1>8, <2>3 DEF AckPackets
  <2>5. SndHoldsNumbers(RemoveUpTo(L, NumberOf(n - 1)), Beyond(S, E, n - 1), lo, hi)
    BY <1>3, <2>2, RemoveHolds
  <2>6. Beyond(S, E, n - 1) = sndLost'
    BY <1>3, <1>5, <2>1, <2>4 DEF Beyond
  <2>7. SndHoldsNumbers(sndList', sndLost', lo, hi)
    BY <2>4, <2>5, <2>6
  <2>8. PICK M, D : M = sndList' /\ D = sndLost'
    OBVIOUS
  <2>9. SndHoldsNumbers(M, D, lo, hi) /\ \A y \in D : n <= y /\ y <= hi
    BY <1>5, <2>1, <2>4, <2>7, <2>8
  <2>10. hi - n < SndListSize
    BY <1>2, <2>2
  <2>11. SndHoldsNumbers(M, D, n, hi)
    BY <1>2, <2>1, <2>9, <2>10, WindowMoves
  <2>12. sndNext' - 1 = hi
    BY <1>1, <2>4
  <2>13. sndNext' - sndAcked' <= SndListSize /\ sndAcked' \in Int /\ sndNext' \in Int
    BY <1>2, <2>1, <2>4, <2>10
  <2>. QED  BY <2>4, <2>8, <2>11, <2>12, <2>13 DEF SndLossInv
<1>9. CASE TakeLost
  <2>1. /\ sndList' = TakeHead(L) /\ sndLost' = {s \in C : NumberOf(s) # L.data1[L.head]}
        /\ sndAcked' = sndAcked /\ sndNext' = sndNext /\ L.length > 0
    BY <1>1, <1>9 DEF TakeLost
  <2>2. S # {}
    <3>1. L.length = Cardinality(Covered(S, E)) /\ (Cardinality(Covered(S, E)) = 0 <=> S = {})
      BY <1>2, <1>3, <1>4, CoveredIs DEF SndHolds
    <3>. QED  BY <2>1, <3>1
  <2>3. PICK h \in S : L.head = sl[h] /\ \A q \in S : h <= q
    BY <1>4, <2>2 DEF HeadOf
  <2>4. SndHoldsNumbers(TakeHead(L), Beyond(S, E, h), lo, hi)
    BY <1>3, <2>3, TakeHeadHolds
  <2>5. L.data1[L.head] = NumberOf(h) /\ h \in lo .. hi
    <3>1. Holding(L.data1, L.data2, SndListSize, sl, S, E)
      BY <1>3 DEF SndHolds, SndArrays
    <3>. QED  BY <1>4, <2>3, <3>1, RangeRead
  <2>6. ASSUME NEW y \in C PROVE NumberOf(y) # NumberOf(h) <=> y > h
    <3>1. y \in lo .. hi + 1 /\ h \in lo .. hi + 1
      BY <1>2, <1>5, <2>5
    <3>2. NumberOf(y) = NumberOf(h) <=> y = h
      BY <1>4, <3>1, Compare
    <3>3. h <= y
      <4>1. PICK n \in S : n <= y
        BY <1>3 DEF Covered
      <4>2. h <= n /\ n \in Int
        BY <1>4, <2>3 DEF Ranges
      <4>. QED  BY <1>2, <3>1, <4>1, <4>2
    <3>. QED  BY <1>2, <3>1, <3>2, <3>3
  <2>7. sndLost' = Beyond(S, E, h)
    BY <1>3, <2>1, <2>5, <2>6 DEF Beyond
  <2>. QED  BY <1>1, <2>1, <2>4, <2>7 DEF SndLossInv
<1>10. CASE UNCHANGED sndListVars
  BY <1>10 DEF sndListVars, SndLossInv
<1>. QED  BY <1>6, <1>7, <1>8, <1>9, <1>10 DEF SndLossNext

\* The invariant says what SndListIsSet says of the nodes as they are linked.
LEMMA SndInvIsSet ==
    SndLossInv => SndListIsSet
<1>. SUFFICES ASSUME SndLossInv PROVE SndListIsSet
  OBVIOUS
<1>1. PICK lo, hi : lo = sndAcked /\ hi = sndNext - 1
  OBVIOUS
<1>2. PICK sl, S, E : SndHolds(sndList, sl, S, E, lo, hi) /\ Covered(S, E) = sndLost
  BY <1>1 DEF SndLossInv, SndHoldsNumbers
<1>3. /\ Window(SndListSize, sl, lo, hi) /\ Ranges(S, E, lo, hi)
      /\ Holding(sndList.data1, sndList.data2, SndListSize, sl, S, E)
      /\ Links(sndList.next, SndListSize, sl, S) /\ HeadOf(sl, S, sndList.head)
      /\ Apart(S, E) /\ sndList.length = Cardinality(Covered(S, E))
  BY <1>2 DEF SndHolds, SndArrays
<1>4. lo \in Int /\ hi \in Int /\ SndListSize \in Nat \ {0}
  BY <1>3, WindowIs
<1>5. \A n \in S : /\ n \in Int /\ n \in lo .. hi /\ n \in lo .. hi + 1 /\ E[n] \in lo .. hi + 1 /\ E[n] \in Int /\ sl[n] # -1
                   /\ sndList.data1[sl[n]] = NumberOf(n) /\ LastOf(sndList, sl[n]) = NumberOf(E[n])
  <2>1. \A n \in S : /\ n \in Int /\ n \in lo .. hi /\ E[n] \in lo .. hi /\ sl[n] \in 0 .. SndListSize - 1
                     /\ sndList.data1[sl[n]] = NumberOf(n) /\ LastOf(sndList, sl[n]) = NumberOf(E[n])
    BY <1>3, RangeRead DEF LastOf
  <2>. QED  BY <1>4, <2>1
<1>6. PICK node : node = SndNode
  OBVIOUS
<1>7. /\ node[0] = IF sndList.length = 0 THEN -1 ELSE sndList.head
      /\ \A k \in 1 .. SndListSize + 1 : node[k] = IF node[k - 1] = -1 THEN -1 ELSE sndList.next[node[k - 1]]
  BY <1>6, SndNodeTurns DEF SndNodeAfter
<1>8. HeadOf(sl, S, node[0])
  <2>1. sndList.length = 0 <=> S = {}
    BY <1>3, <1>4, CoveredIs
  <2>. QED  BY <1>3, <1>7, <2>1 DEF HeadOf
<1>9. /\ \A k \in 0 .. SndListSize + 1 : node[k] = -1 \/ \E n \in S : node[k] = sl[n]
      /\ \A n \in S : \E k \in 0 .. SndListSize : node[k] = sl[n]
  <2>1. Window(SndListSize, sl, lo, hi) /\ Links(sndList.next, SndListSize, sl, S)
    BY <1>3
  <2>2. S \subseteq lo .. hi
    BY <1>5
  <2>3. \A k \in 1 .. SndListSize + 1 : node[k] = IF node[k - 1] = -1 THEN -1 ELSE sndList.next[node[k - 1]]
    BY <1>7
  <2>4. AllReached(node, SndListSize, sl, S)
    BY ONLY <1>8, <2>1, <2>2, <2>3, ChainReaches
  <2>. QED  BY <2>4 DEF AllReached
<1>10. \A i : i \in SndNodes <=> \E n \in S : i = sl[n]
  <2>. TAKE i
  <2>1. ASSUME i \in SndNodes PROVE \E n \in S : i = sl[n]
    <3>1. PICK k \in 0 .. SndListSize : i = node[k] /\ i # -1
      BY <1>6, <2>1 DEF SndNodes
    <3>2. k \in 0 .. SndListSize + 1
      BY <1>4
    <3>. QED  BY <1>9, <3>1, <3>2
  <2>2. ASSUME NEW n \in S, i = sl[n] PROVE i \in SndNodes
    <3>1. PICK k \in 0 .. SndListSize : node[k] = sl[n]
      BY <1>9
    <3>. QED  BY <1>5, <1>6, <2>2, <3>1 DEF SndNodes
  <2>. QED  BY <2>1, <2>2
<1>11. ASSUME NEW m \in S, NEW n \in lo .. hi PROVE InNode(sndList, sl[m], NumberOf(n)) <=> m <= n /\ n <= E[m]
  <2>1. n \in lo .. hi + 1
    BY <1>4
  <2>2. seqcmp(NumberOf(m), NumberOf(n)) <= 0 <=> m <= n
    BY <1>3, <1>5, <2>1, Compare
  <2>3. seqcmp(NumberOf(n), NumberOf(E[m])) <= 0 <=> n <= E[m]
    BY <1>3, <1>5, <2>1, Compare
  <2>. QED  BY <1>5, <2>2, <2>3 DEF InNode
<1>12. sndLost = {n \in sndAcked .. sndNext - 1 : \E i \in SndNodes : InNode(sndList, i, NumberOf(n))}
  <2>1. Covered(S, E) \subseteq lo .. hi
    BY <1>3, <1>4, CoveredIs
  <2>2. ASSUME NEW n \in lo .. hi PROVE n \in Covered(S, E) <=> \E i \in SndNodes : InNode(sndList, i, NumberOf(n))
    BY <1>4, <1>10, <1>11 DEF Covered
  <2>. QED  BY <1>1, <1>2, <2>1, <2>2
<1>13. ASSUME NEW k \in 0 .. SndListSize, SndNode[k] # -1, SndNode[k + 1] # -1
       PROVE  seqcmp(LastOf(sndList, SndNode[k]), sndList.data1[SndNode[k + 1]]) < 0
  <2>1. k \in 0 .. SndListSize + 1 /\ k + 1 \in 1 .. SndListSize + 1 /\ (k + 1) - 1 = k
    BY <1>4
  <2>2. PICK m \in S : node[k] = sl[m]
    BY <1>6, <1>9, <1>13, <2>1
  <2>3. node[k + 1] = sndList.next[sl[m]] /\ node[k + 1] # -1
    <3>1. node[k + 1] = IF node[k] = -1 THEN -1 ELSE sndList.next[node[k]]
      BY <1>7, <2>1
    <3>. QED  BY <1>5, <1>6, <1>13, <2>2, <3>1
  <2>4. Follows(sl, S, m, node[k + 1])
    BY <1>3, <2>3 DEF Links
  <2>5. PICK n \in S : m < n /\ node[k + 1] = sl[n]
    BY <2>3, <2>4 DEF Follows
  <2>6. E[m] < n
    BY <1>3, <2>5 DEF Apart
  <2>7. seqcmp(NumberOf(E[m]), NumberOf(n)) < 0
    BY <1>3, <1>5, <2>6, Compare
  <2>. QED  BY <1>5, <1>6, <2>2, <2>5, <2>7
<1>14. sndList.length = Cardinality(sndLost)
  BY <1>2, <1>3
<1>. QED  BY <1>12, <1>13, <1>14 DEF SndListIsSet

\* The sender's list holds exactly the numbers that were reported lost and neither sent
\* again nor acknowledged, each in one range, in order, and counts them: for rings, windows
\* and sequence numbers of any size.
THEOREM SndListIsSetHolds ==
    SndLossSpec => []SndListIsSet
<1>1. SndLossInit => SndLossInv
  BY EmptyHolds
<1>2. SndLossInv /\ [SndLossNext]_sndListVars => SndLossInv'
  BY SndLossStep
<1>3. SndLossInv => SndListIsSet
  BY SndInvIsSet
<1>. QED  BY <1>1, <1>2, <1>3, PTL DEF SndLossSpec
-----------------------------------------------------------------------------
(* How the ranges change.                                                  *)

\* A range of numbers that no other range has is added.
RangeJoined(S, E, a, b, F, lo, hi) ==
    /\ Ranges(S \cup {a}, F, lo, hi) /\ Apart(S \cup {a}, F)
    /\ Covered(S \cup {a}, F) = Covered(S, E) \cup (a .. b)
    /\ Cardinality(Covered(S \cup {a}, F)) = Cardinality(Covered(S, E)) + (b - a + 1)
    /\ F[a] = b /\ \A n \in S : F[n] = E[n]
    /\ a \notin S

\* What a range added to others covers.
LEMMA RangeJoins ==
    ASSUME NEW S, NEW E, NEW lo \in Int, NEW hi \in Int, Ranges(S, E, lo, hi), Apart(S, E),
           NEW a, a \in lo .. hi, NEW b, b \in a .. hi, \A n \in S : E[n] < a \/ b < n,
           NEW F, F = [E EXCEPT ![a] = b]
    PROVE  RangeJoined(S, E, a, b, F, lo, hi)
<1>1. a \in Int /\ b \in Int /\ lo <= a /\ a <= b /\ b <= hi
  OBVIOUS
<1>2. \A n \in S : n \in Int /\ E[n] \in Int /\ n <= E[n]
  BY DEF Ranges
<1>3. a \notin S
  <2>. SUFFICES ASSUME a \in S PROVE FALSE
    OBVIOUS
  <2>1. a <= E[a] /\ E[a] \in Int
    BY <1>2
  <2>. QED  BY <1>1, <2>1
<1>4. Ranges(S \cup {a}, F, lo, hi) /\ (\A n \in S : F[n] = E[n]) /\ F[a] = b
  <2>1. /\ Ranges(S \cup {a}, [E EXCEPT ![a] = b], lo, hi)
        /\ \A n \in Int : n # a => [E EXCEPT ![a] = b][n] = E[n]
        /\ [E EXCEPT ![a] = b][a] = b
    <3>1. a \in Int /\ b \in Int
      BY <1>1
    <3>2. lo <= a /\ a <= b /\ b <= hi
      BY <1>1
    <3>3. Ranges(S, E, lo, hi) /\ lo \in Int /\ hi \in Int
      OBVIOUS
    <3>. QED  BY ONLY <3>1, <3>2, <3>3, RangesWith
  <2>. QED  BY <1>2, <1>3, <2>1
<1>5. (S \cup {a}) \ {a} = S
  BY <1>3
<1>6. Covered(S, F) = Covered(S, E)
  BY <1>4, CoveredElsewhere
<1>7. Covered(S \cup {a}, F) = Covered(S, E) \cup (a .. b)
  BY <1>1, <1>4 DEF Covered
<1>8. Cardinality(Covered(S \cup {a}, F)) = Cardinality(Covered(S, E)) + (b - a + 1)
  <2>1. PICK T : T = S \cup {a}
    OBVIOUS
  <2>2. Ranges(T, F, lo, hi) /\ a \in T
    BY <1>4, <2>1
  <2>3. \A n \in T : n # a => F[n] < a \/ F[a] < n
    BY <1>4, <2>1
  <2>4. Cardinality(Covered(T, F)) = Cardinality(Covered(T \ {a}, F)) + (F[a] - a + 1)
    <3>1. lo \in Int /\ hi \in Int
      OBVIOUS
    <3>. QED  BY ONLY <2>2, <2>3, <3>1, CoveredWith
  <2>. QED  BY <1>4, <1>5, <1>6, <2>1, <2>4
<1>9. Apart(S \cup {a}, F)
  <2>1. ASSUME NEW m \in S \cup {a}, NEW n \in S \cup {a}, m < n PROVE F[m] < n
    <3>1. CASE m = a
      <4>1. n \in S /\ n # a
        BY <1>1, <2>1, <3>1
      <4>2. n <= E[n] /\ n \in Int /\ E[n] \in Int
        BY <1>2, <4>1
      <4>3. E[n] < a \/ b < n
        BY <4>1
      <4>4. b < n
        BY <1>1, <2>1, <3>1, <4>2, <4>3
      <4>. QED  BY <1>4, <3>1, <4>4
    <3>2. CASE m \in S /\ n = a
      <4>1. E[m] < a \/ b < m
        BY <3>2
      <4>2. m < a /\ m \in Int
        BY <1>2, <2>1, <3>2
      <4>3. E[m] < a
        BY <1>1, <4>1, <4>2
      <4>. QED  BY <1>4, <3>2, <4>3
    <3>3. CASE m \in S /\ n \in S
      <4>1. E[m] < n
        BY <2>1, <3>3 DEF Apart
      <4>. QED  BY <1>4, <3>3, <4>1
    <3>. QED  BY <3>1, <3>2, <3>3
  <2>. QED  BY <2>1 DEF Apart
<1>. QED  BY <1>3, <1>4, <1>7, <1>8, <1>9 DEF RangeJoined

\* A range is made to end at e.
RangeEnds(S, E, p, e, F, lo, hi) ==
    /\ Ranges(S, F, lo, hi) /\ Apart(S, F)
    /\ Covered(S, F) = (Covered(S, E) \ (p .. E[p])) \cup (p .. e)
    /\ p .. E[p] \subseteq Covered(S, E)
    /\ F[p] = e /\ \A n \in S : n # p => F[n] = E[n]

\* What is covered when a range ends elsewhere.
LEMMA RangeToEnd ==
    ASSUME NEW S, NEW E, NEW lo \in Int, NEW hi \in Int, Ranges(S, E, lo, hi), Apart(S, E),
           NEW p \in S, NEW e, e \in p .. hi, \A q \in S : p < q => e < q,
           NEW F, F = [E EXCEPT ![p] = e]
    PROVE  RangeEnds(S, E, p, e, F, lo, hi)
<1>1. p \in Int /\ e \in Int /\ lo <= p /\ p <= e /\ e <= hi /\ E[p] \in Int /\ p <= E[p]
  BY DEF Ranges
<1>2. \A n \in S : n \in Int /\ E[n] \in Int /\ n <= E[n]
  BY DEF Ranges
<1>3. E \in [Int -> Int] /\ F \in [Int -> Int] /\ F[p] = e /\ \A n \in S : n # p => F[n] = E[n]
  BY <1>1, <1>2 DEF Ranges
<1>4. Ranges(S, F, lo, hi)
  <2>1. \A n \in S : lo <= n /\ n <= F[n] /\ F[n] <= hi
    BY <1>1, <1>3 DEF Ranges
  <2>. QED  BY <1>3, <2>1 DEF Ranges
<1>5. \A n \in S : n # p => E[n] < p \/ E[p] < n
  <2>. TAKE n \in S
  <2>. HAVE n # p
  <2>1. n < p \/ p < n
    BY <1>1, <1>2
  <2>. QED  BY <2>1 DEF Apart
<1>6. Apart(S, F)
  <2>1. ASSUME NEW m \in S, NEW n \in S, m < n PROVE F[m] < n
    <3>1. CASE m = p
      BY <1>3, <2>1, <3>1
    <3>2. CASE m # p
      BY <1>3, <2>1, <3>2 DEF Apart
    <3>. QED  BY <3>1, <3>2
  <2>. QED  BY <2>1 DEF Apart
<1>7. Covered(S \ {p}, E) = Covered(S, E) \ (p .. E[p]) /\ p .. E[p] \subseteq Covered(S, E)
  BY <1>5, CoveredWith
<1>8. Covered(S, F) = Covered(S \ {p}, E) \cup (p .. e)
  <2>1. Covered(S \ {p}, F) = Covered(S \ {p}, E)
    <3>1. \A n \in S \ {p} : F[n] = E[n]
      BY <1>3
    <3>. QED  BY ONLY <3>1, CoveredElsewhere
  <2>2. ASSUME NEW y \in Int PROVE y \in Covered(S, F) <=> y \in Covered(S \ {p}, F) \/ y \in p .. e
    <3>1. y \in Covered(S, F) <=> \E n \in S : n <= y /\ y <= F[n]
      BY DEF Covered
    <3>2. y \in Covered(S \ {p}, F) <=> \E n \in S : n # p /\ n <= y /\ y <= F[n]
      BY DEF Covered
    <3>3. y \in p .. e <=> p <= y /\ y <= F[p]
      BY <1>1, <1>3
    <3>. QED  BY <3>1, <3>2, <3>3
  <2>3. Covered(S, F) \subseteq Int /\ Covered(S \ {p}, F) \subseteq Int /\ p .. e \subseteq Int
    BY <1>1 DEF Covered
  <2>. QED  BY ONLY <2>1, <2>2, <2>3
<1>. QED  BY <1>3, <1>4, <1>6, <1>7, <1>8 DEF RangeEnds

\* A range is taken away.
RangeGone(S, E, m, lo, hi) ==
    /\ Ranges(S \ {m}, E, lo, hi) /\ Apart(S \ {m}, E)
    /\ Covered(S \ {m}, E) = Covered(S, E) \ (m .. E[m])
    /\ m .. E[m] \subseteq Covered(S, E)

\* What is covered without one of the ranges.
LEMMA RangeGoes ==
    ASSUME NEW S, NEW E, NEW lo \in Int, NEW hi \in Int, Ranges(S, E, lo, hi), Apart(S, E), NEW m \in S
    PROVE  RangeGone(S, E, m, lo, hi)
<1>1. \A n \in S : n \in Int
  BY DEF Ranges
<1>2. \A n \in S : n # m => E[n] < m \/ E[m] < n
  <2>. TAKE n \in S
  <2>. HAVE n # m
  <2>1. n < m \/ m < n
    BY <1>1
  <2>. QED  BY <2>1 DEF Apart
<1>3. Covered(S \ {m}, E) = Covered(S, E) \ (m .. E[m]) /\ m .. E[m] \subseteq Covered(S, E)
  BY <1>2, CoveredWith
<1>4. Ranges(S \ {m}, E, lo, hi)
  BY RangesWithout
<1>5. Apart(S \ {m}, E)
  BY DEF Apart
<1>. QED  BY <1>3, <1>4, <1>5 DEF RangeGone


\* A range is added where none starts, with what its slot is to hold.
LEMMA StoredJoin ==
    ASSUME NEW d1, NEW d2, NEW size, NEW sl, NEW S, NEW E, NEW lo, NEW hi,
           Window(size, sl, lo, hi), Ranges(S, E, lo, hi), Holding(d1, d2, size, sl, S, E),
           NEW a, a \in lo .. hi, a \notin S,
           NEW F, NEW b, b \in a .. hi, F[a] = b, \A n \in S : F[n] = E[n],
           NEW v, (b = a /\ v = -1) \/ (b # a /\ v = NumberOf(b)),
           NEW e1, e1 = [d1 EXCEPT ![sl[a]] = NumberOf(a)],
           NEW e2, e2 = [d2 EXCEPT ![sl[a]] = v]
    PROVE  Holding(e1, e2, size, sl, S \cup {a}, F)
<1>1. /\ a \in Int /\ b \in Int /\ lo \in Int /\ hi \in Int /\ lo <= a /\ a <= b /\ b <= hi
      /\ sl[a] \in 0 .. size - 1 /\ b - a < SeqNoTH /\ a - b < SeqNoTH
  BY WindowIs
<1>2. NumberOf(a) \in Int /\ NumberOf(b) \in Int
  BY <1>1, NumbersDiffer
<1>3. d1 \in [0 .. size - 1 -> Int] /\ d2 \in [0 .. size - 1 -> Int] /\ v \in Int
  BY <1>2 DEF Holding
<1>4. e1 \in [0 .. size - 1 -> Int] /\ e2 \in [0 .. size - 1 -> Int]
  BY <1>1, <1>2, <1>3
<1>5. /\ \A i \in 0 .. size - 1 : i # sl[a] => e1[i] = d1[i] /\ e2[i] = d2[i]
      /\ e1[sl[a]] = NumberOf(a) /\ e2[sl[a]] = v
  BY <1>1, <1>3
<1>6. \A m \in S : sl[m] # sl[a]
  BY StartsAt
<1>8. F[a] = b /\ \A n \in S : F[n] = E[n] /\ n \in Int
  BY <1>1 DEF Ranges
<1>9. \A n \in S : sl[n] \in 0 .. size - 1
  BY <1>8, WindowIs
<1>10. ASSUME NEW n \in S \cup {a}
       PROVE  /\ e1[sl[n]] = NumberOf(n)
              /\ (F[n] = n /\ e2[sl[n]] = -1) \/ (F[n] # n /\ e2[sl[n]] = NumberOf(F[n]))
  <2>1. CASE n = a
    BY <2>1, <1>5, <1>8
  <2>2. CASE n \in S
    <3>1. e1[sl[n]] = d1[sl[n]] /\ e2[sl[n]] = d2[sl[n]] /\ F[n] = E[n]
      BY <2>2, <1>5, <1>6, <1>8, <1>9
    <3>. QED  BY <2>2, <3>1 DEF Holding
  <2>. QED  BY <2>1, <2>2
<1>11. ASSUME NEW i \in 0 .. size - 1, \A n \in S \cup {a} : sl[n] # i PROVE e1[i] = -1 /\ e2[i] = -1
  <2>1. i # sl[a] /\ \A n \in S : sl[n] # i
    BY <1>11
  <2>2. d1[i] = -1 /\ d2[i] = -1
    BY <2>1 DEF Holding
  <2>. QED  BY <2>1, <2>2, <1>5
<1>. QED  BY <1>4, <1>10, <1>11 DEF Holding
-----------------------------------------------------------------------------
(* The receiver's list is linked backwards too, and has a tail.            *)

\* i is what leads back from number n: the slot of the last range before it, or -1.
Precedes(sl, S, n, i) ==
    \/ i = -1 /\ \A m \in S : n <= m
    \/ \E m \in S : m < n /\ i = sl[m] /\ \A q \in S : q <= m \/ n <= q

BackLinks(prior, size, sl, S) ==
    /\ prior \in [0 .. size - 1 -> Int]
    /\ \A n \in S : Precedes(sl, S, n, prior[sl[n]])

\* The tail of an empty list is whatever it was.
TailOf(sl, S, i) == S = {} \/ \E m \in S : i = sl[m] /\ \A q \in S : q <= m

\* The range after that of a leads back to it, and it to the one before.
BackLinked(prior, i, pr, loc) ==
    IF i = -1 THEN [prior EXCEPT ![loc] = pr] ELSE [prior EXCEPT ![loc] = pr, ![i] = loc]

\* The links back, when a range is linked in.
LEMMA BackLinksWith ==
    ASSUME NEW prior, NEW size, NEW sl, NEW S, NEW lo, NEW hi, Window(size, sl, lo, hi),
           S \subseteq lo .. hi, BackLinks(prior, size, sl, S), NEW a \in lo .. hi, a \notin S,
           NEW pr, Precedes(sl, S, a, pr), NEW i, Follows(sl, S, a, i),
           NEW px, px = BackLinked(prior, i, pr, sl[a])
    PROVE  BackLinks(px, size, sl, S \cup {a})
<1>0. prior \in [0 .. size - 1 -> Int] /\ S \cup {a} \subseteq lo .. hi
  BY DEF BackLinks
<1>1. /\ prior \in [0 .. size - 1 -> Int] /\ size \in Int
      /\ \A n \in S \cup {a} : n \in Int /\ sl[n] \in 0 .. size - 1
      /\ \A m, n \in S \cup {a} : sl[m] = sl[n] => m = n
  BY <1>0, WindowIs
<1>2. pr \in Int
  BY <1>1 DEF Precedes
<1>3. CASE i = -1 /\ \A m \in S : m <= a
  <2>1. px = [prior EXCEPT ![sl[a]] = pr]
    BY <1>3 DEF BackLinked
  <2>2. px \in [0 .. size - 1 -> Int] /\ px[sl[a]] = pr
    BY <1>1, <1>2, <2>1
  <2>3. Precedes(sl, S \cup {a}, a, px[sl[a]])
    <3>1. pr = -1 /\ (\A m \in S : a <= m) => \A m \in S \cup {a} : a <= m
      BY <1>1
    <3>2. ASSUME NEW m \in S, \A q \in S : q <= m \/ a <= q PROVE \A q \in S \cup {a} : q <= m \/ a <= q
      BY <1>1, <3>2
    <3>. QED  BY <2>2, <3>1, <3>2 DEF Precedes
  <2>4. ASSUME NEW n \in S PROVE Precedes(sl, S \cup {a}, n, px[sl[n]])
    <3>1. n # a /\ n <= a
      BY <1>3
    <3>2. sl[n] # sl[a]
      BY <1>1, <3>1
    <3>3. px[sl[n]] = prior[sl[n]]
      BY <1>1, <2>1, <3>2
    <3>4. Precedes(sl, S, n, px[sl[n]])
      BY <3>3 DEF BackLinks
    <3>. QED  BY <3>1, <3>4 DEF Precedes
  <2>. QED  BY <2>2, <2>3, <2>4 DEF BackLinks
<1>4. ASSUME NEW m \in S, a < m, i = sl[m], \A q \in S : q <= a \/ m <= q
      PROVE  BackLinks(px, size, sl, S \cup {a})
  <2>1. i # -1 /\ i # sl[a] /\ sl[a] \in Int
    <3>1. sl[m] \in 0 .. size - 1 /\ sl[a] \in 0 .. size - 1 /\ m # a
      BY <1>1, <1>4
    <3>. QED  BY <1>1, <1>4, <3>1
  <2>2. px = [prior EXCEPT ![sl[a]] = pr, ![i] = sl[a]]
    BY <2>1 DEF BackLinked
  <2>3. px \in [0 .. size - 1 -> Int] /\ px[sl[a]] = pr /\ px[sl[m]] = sl[a]
    <3>1. sl[a] \in 0 .. size - 1 /\ sl[m] \in 0 .. size - 1 /\ sl[m] # sl[a]
      BY <1>1, <1>4, <2>1
    <3>2. px = [prior EXCEPT ![sl[a]] = pr, ![sl[m]] = sl[a]]
      BY <1>4, <2>2
    <3>. QED  BY ONLY <1>0, <1>2, <2>1, <3>1, <3>2
  <2>4. Precedes(sl, S \cup {a}, a, px[sl[a]])
    <3>1. pr = -1 /\ (\A q \in S : a <= q) => \A q \in S \cup {a} : a <= q
      BY <1>1
    <3>2. ASSUME NEW k \in S, \A q \in S : q <= k \/ a <= q PROVE \A q \in S \cup {a} : q <= k \/ a <= q
      BY <1>1, <3>2
    <3>. QED  BY <2>3, <3>1, <3>2 DEF Precedes
  <2>5. Precedes(sl, S \cup {a}, m, px[sl[m]])
    <3>1. \A q \in S \cup {a} : q <= a \/ m <= q
      BY <1>1, <1>4
    <3>. QED  BY <1>4, <2>3, <3>1 DEF Precedes
  <2>6. ASSUME NEW n \in S, n # m PROVE Precedes(sl, S \cup {a}, n, px[sl[n]])
    <3>1. sl[n] # sl[a] /\ sl[n] # sl[m]
      BY <1>1, <2>6
    <3>2. px[sl[n]] = prior[sl[n]]
      BY <1>1, <1>4, <2>2, <3>1
    <3>3. Precedes(sl, S, n, px[sl[n]])
      BY <3>2 DEF BackLinks
    <3>4. CASE n <= a
      BY <3>3, <3>4 DEF Precedes
    <3>5. CASE m < n
      <4>1. ASSUME \A q \in S : n <= q PROVE FALSE
        <5>1. n <= m
          BY <4>1
        <5>. QED  BY <1>1, <3>5, <5>1
      <4>2. PICK k \in S : k < n /\ px[sl[n]] = sl[k] /\ \A q \in S : q <= k \/ n <= q
        BY <3>3, <4>1 DEF Precedes
      <4>3. m <= k
        BY <1>1, <3>5, <4>2
      <4>4. a <= k
        BY <1>1, <1>4, <4>3
      <4>5. \A q \in S \cup {a} : q <= k \/ n <= q
        BY <4>2, <4>4
      <4>. QED  BY <4>2, <4>5 DEF Precedes
    <3>6. n <= a \/ m < n
      <4>1. n <= a \/ m <= n
        BY <1>4
      <4>. QED  BY <1>1, <2>6, <4>1
    <3>. QED  BY <3>4, <3>5, <3>6
  <2>. QED  BY <2>3, <2>4, <2>5, <2>6 DEF BackLinks
<1>. QED  BY <1>3, <1>4 DEF Follows

\* The range of m is taken out of the backward chain.
LEMMA BackLinksWithout ==
    ASSUME NEW prior, NEW size, NEW sl, NEW S, NEW lo, NEW hi, Window(size, sl, lo, hi),
           S \subseteq lo .. hi, BackLinks(prior, size, sl, S), NEW m \in S,
           NEW i, Follows(sl, S, m, i),
           NEW px, px = IF i = -1 THEN prior ELSE [prior EXCEPT ![i] = prior[sl[m]]]
    PROVE  BackLinks(px, size, sl, S \ {m})
<1>0. prior \in [0 .. size - 1 -> Int] /\ S \subseteq lo .. hi
  BY DEF BackLinks
<1>1. /\ prior \in [0 .. size - 1 -> Int] /\ size \in Int
      /\ \A n \in S : n \in Int /\ sl[n] \in 0 .. size - 1
      /\ \A k, n \in S : sl[k] = sl[n] => k = n
  BY <1>0, WindowIs
<1>2. CASE i = -1 /\ \A q \in S : q <= m
  <2>1. px = prior
    BY <1>2
  <2>2. ASSUME NEW n \in S \ {m} PROVE Precedes(sl, S \ {m}, n, px[sl[n]])
    <3>1. Precedes(sl, S, n, px[sl[n]])
      BY <2>1 DEF BackLinks
    <3>2. n < m
      BY <1>1, <1>2
    <3>3. ASSUME NEW k \in S, k < n PROVE k # m
      BY <1>1, <3>2, <3>3
    <3>. QED  BY <3>1, <3>3 DEF Precedes
  <2>. QED  BY <1>1, <2>1, <2>2 DEF BackLinks
<1>3. ASSUME NEW t \in S, m < t, i = sl[t], \A q \in S : q <= m \/ t <= q
      PROVE  BackLinks(px, size, sl, S \ {m})
  <2>1. i # -1 /\ prior[sl[m]] \in Int
    BY <1>1, <1>3
  <2>2. px = [prior EXCEPT ![i] = prior[sl[m]]]
    BY <2>1
  <2>3. px \in [0 .. size - 1 -> Int] /\ px[sl[t]] = prior[sl[m]]
    BY <1>1, <1>3, <2>1, <2>2
  <2>4. Precedes(sl, S \ {m}, t, px[sl[t]])
    <3>1. Precedes(sl, S, m, px[sl[t]])
      BY <2>3 DEF BackLinks
    <3>2. CASE px[sl[t]] = -1 /\ \A q \in S : m <= q
      <4>1. \A q \in S \ {m} : t <= q
        BY <1>1, <1>3, <3>2
      <4>. QED  BY <3>2, <4>1 DEF Precedes
    <3>3. ASSUME NEW k \in S, k < m, px[sl[t]] = sl[k], \A q \in S : q <= k \/ m <= q
          PROVE  Precedes(sl, S \ {m}, t, px[sl[t]])
      <4>1. k < t /\ k # m
        BY <1>1, <1>3, <3>3
      <4>2. \A q \in S \ {m} : q <= k \/ t <= q
        BY <1>1, <1>3, <3>3
      <4>. QED  BY <3>3, <4>1, <4>2 DEF Precedes
    <3>. QED  BY <3>1, <3>2, <3>3 DEF Precedes
  <2>5. ASSUME NEW n \in S \ {m}, n # t PROVE Precedes(sl, S \ {m}, n, px[sl[n]])
    <3>1. sl[n] # sl[t]
      BY <1>1, <2>5
    <3>2. px[sl[n]] = prior[sl[n]]
      BY <1>1, <1>3, <2>2, <3>1
    <3>3. Precedes(sl, S, n, px[sl[n]])
      BY <3>2 DEF BackLinks
    <3>4. ASSUME NEW k \in S, k < n, \A q \in S : q <= k \/ n <= q PROVE k # m
      <4>. SUFFICES ASSUME k = m PROVE FALSE
        OBVIOUS
      <4>1. t <= m \/ n <= t
        BY <3>4
      <4>2. n <= m \/ t <= n
        BY <1>3
      <4>. QED  BY <1>1, <1>3, <2>5, <3>4, <4>1, <4>2
    <3>. QED  BY <3>3, <3>4 DEF Precedes
  <2>. QED  BY <2>3, <2>4, <2>5 DEF BackLinks
<1>. QED  BY <1>2, <1>3 DEF Follows

-----------------------------------------------------------------------------
(* The loops over the receiver's list, turn by turn.                       *)

\* The turns of the search for the range before a slot.
LEMMA SlotTurns ==
    ASSUME NEW L, NEW loc
    PROVE  \E g : /\ g[0] = SlotBack(loc)
                  /\ \A k \in 1 .. RcvListSize : g[k] = SearchBack(L, g[k - 1])
                  /\ SlotBefore(L, loc) = g[RcvListSize]
<1>. DEFINE W(g, k) == IF k = 0 THEN SlotBack(loc) ELSE SearchBack(L, g[k - 1])
            turn == CHOOSE g : g = [k \in 0 .. RcvListSize |-> W(g, k)]
            T == {n \in Nat : \E g : g = [k \in 0 .. n |-> W(g, k)]}
<1>1. 0 \in T
  <2>. DEFINE h == [k \in 0 .. 0 |-> SlotBack(loc)]
  <2>1. \A k \in 0 .. 0 : h[k] = W(h, k)
    OBVIOUS
  <2>2. h = [k \in 0 .. 0 |-> h[k]]
    OBVIOUS
  <2>. HIDE DEF h, W
  <2>3. h = [k \in 0 .. 0 |-> W(h, k)]
    BY <2>1, <2>2
  <2>. QED  BY <2>3
<1>2. ASSUME NEW n \in Nat, n \in T PROVE n + 1 \in T
  <2>1. PICK g : g = [k \in 0 .. n |-> W(g, k)]
    BY <1>2
  <2>2. \A k \in 0 .. n : g[k] = W(g, k)
    <3>. HIDE DEF W
    <3>. QED  BY <2>1
  <2>3. PICK x : x = W(g, n + 1)
    OBVIOUS
  <2>. DEFINE h == [k \in 0 .. n + 1 |-> IF k <= n THEN g[k] ELSE x]
  <2>4. \A k \in 0 .. n : h[k] = g[k]
    OBVIOUS
  <2>5. h[n + 1] = x
    OBVIOUS
  <2>6. ASSUME NEW k \in 0 .. n + 1 PROVE h[k] = W(h, k)
    <3>. HIDE DEF h
    <3>1. CASE k = 0
      <4>1. h[k] = g[k] /\ g[k] = W(g, k)
        BY <3>1, <2>2, <2>4
      <4>. QED  BY <3>1, <4>1
    <3>2. CASE k # 0 /\ k <= n
      <4>1. k \in 0 .. n /\ k - 1 \in 0 .. n
        BY <3>2
      <4>2. h[k] = g[k] /\ g[k] = W(g, k) /\ h[k - 1] = g[k - 1]
        BY <4>1, <2>2, <2>4
      <4>. QED  BY <3>2, <4>2
    <3>3. CASE k = n + 1
      <4>1. n \in 0 .. n /\ (n + 1) - 1 = n /\ n + 1 # 0
        OBVIOUS
      <4>2. h[n] = g[n]
        BY <4>1, <2>4
      <4>3. h[n + 1] = W(g, n + 1)
        BY <2>3, <2>5
      <4>4. W(g, n + 1) = W(h, n + 1)
        BY <4>1, <4>2
      <4>. QED  BY <3>3, <4>3, <4>4
    <3>4. k = n + 1 \/ k <= n
      OBVIOUS
    <3>. QED  BY <3>1, <3>2, <3>3, <3>4
  <2>7. h = [k \in 0 .. n + 1 |-> h[k]]
    OBVIOUS
  <2>. HIDE DEF h, W
  <2>8. h = [k \in 0 .. n + 1 |-> W(h, k)]
    BY <2>6, <2>7
  <2>. QED  BY <2>8
<1>3. RcvListSize \in T
  <2>. HIDE DEF T
  <2>1. \A n \in Nat : n \in T => n + 1 \in T
    BY <1>2
  <2>2. \A n \in Nat : n \in T
    BY ONLY <1>1, <2>1, AllNumbers
  <2>3. RcvListSize \in Nat
    BY RcvLossListAssumption
  <2>. QED  BY <2>2, <2>3
<1>4. turn = [k \in 0 .. RcvListSize |-> W(turn, k)]
  <2>1. \E g : g = [k \in 0 .. RcvListSize |-> W(g, k)]
    BY <1>3
  <2>. HIDE DEF W
  <2>. QED  BY <2>1
<1>5. SlotBefore(L, loc) = turn[RcvListSize]
  BY DEF SlotBefore
<1>. HIDE DEF turn
<1>6. \A k \in 0 .. RcvListSize : turn[k] = W(turn, k)
  <2>. HIDE DEF W
  <2>. QED  BY <1>4
<1>7. RcvListSize \in Nat
  BY RcvLossListAssumption
<1>8. turn[0] = SlotBack(loc)
  <2>1. 0 \in 0 .. RcvListSize
    BY <1>7
  <2>. QED  BY <1>6, <2>1
<1>9. ASSUME NEW k \in 1 .. RcvListSize PROVE turn[k] = SearchBack(L, turn[k - 1])
  <2>1. k \in 0 .. RcvListSize /\ k # 0
    BY <1>7
  <2>2. turn[k] = W(turn, k)
    BY <1>6, <2>1
  <2>. QED  BY <2>1, <2>2
<1>. QED
  BY <1>5, <1>8, <1>9

\* The turns of remove over a range.
LEMMA RemoveTurns ==
    ASSUME NEW L, NEW a, NEW b, NEW len, len = seqlen(a, b), len \in Nat
    PROVE  \E g : /\ g[0] = L
                  /\ \A k \in 1 .. len : g[k] = RemoveTurn(g[k - 1], incseqBy(a, k - 1), a > b)
                  /\ RemoveAll(L, a, b) = g[len]
<1>. DEFINE W(g, k) == IF k = 0 THEN L ELSE RemoveTurn(g[k - 1], incseqBy(a, k - 1), a > b)
            turn == CHOOSE g : g = [k \in 0 .. len |-> W(g, k)]
            T == {n \in Nat : \E g : g = [k \in 0 .. n |-> W(g, k)]}
<1>1. 0 \in T
  <2>. DEFINE h == [k \in 0 .. 0 |-> L]
  <2>1. \A k \in 0 .. 0 : h[k] = W(h, k)
    OBVIOUS
  <2>2. h = [k \in 0 .. 0 |-> h[k]]
    OBVIOUS
  <2>. HIDE DEF h, W
  <2>3. h = [k \in 0 .. 0 |-> W(h, k)]
    BY <2>1, <2>2
  <2>. QED  BY <2>3
<1>2. ASSUME NEW n \in Nat, n \in T PROVE n + 1 \in T
  <2>1. PICK g : g = [k \in 0 .. n |-> W(g, k)]
    BY <1>2
  <2>2. \A k \in 0 .. n : g[k] = W(g, k)
    <3>. HIDE DEF W
    <3>. QED  BY <2>1
  <2>3. PICK x : x = W(g, n + 1)
    OBVIOUS
  <2>. DEFINE h == [k \in 0 .. n + 1 |-> IF k <= n THEN g[k] ELSE x]
  <2>4. \A k \in 0 .. n : h[k] = g[k]
    OBVIOUS
  <2>5. h[n + 1] = x
    OBVIOUS
  <2>6. ASSUME NEW k \in 0 .. n + 1 PROVE h[k] = W(h, k)
    <3>. HIDE DEF h
    <3>1. CASE k = 0
      <4>1. h[k] = g[k] /\ g[k] = W(g, k)
        BY <3>1, <2>2, <2>4
      <4>. QED  BY <3>1, <4>1
    <3>2. CASE k # 0 /\ k <= n
      <4>1. k \in 0 .. n /\ k - 1 \in 0 .. n
        BY <3>2
      <4>2. h[k] = g[k] /\ g[k] = W(g, k) /\ h[k - 1] = g[k - 1]
        BY <4>1, <2>2, <2>4
      <4>. QED  BY <3>2, <4>2
    <3>3. CASE k = n + 1
      <4>1. n \in 0 .. n /\ (n + 1) - 1 = n /\ n + 1 # 0
        OBVIOUS
      <4>2. h[n] = g[n]
        BY <4>1, <2>4
      <4>3. h[n + 1] = W(g, n + 1)
        BY <2>3, <2>5
      <4>4. W(g, n + 1) = W(h, n + 1)
        BY <4>1, <4>2
      <4>. QED  BY <3>3, <4>3, <4>4
    <3>4. k = n + 1 \/ k <= n
      OBVIOUS
    <3>. QED  BY <3>1, <3>2, <3>3, <3>4
  <2>7. h = [k \in 0 .. n + 1 |-> h[k]]
    OBVIOUS
  <2>. HIDE DEF h, W
  <2>8. h = [k \in 0 .. n + 1 |-> W(h, k)]
    BY <2>6, <2>7
  <2>. QED  BY <2>8
<1>3. len \in T
  <2>. HIDE DEF T
  <2>1. \A n \in Nat : n \in T => n + 1 \in T
    BY <1>2
  <2>2. \A n \in Nat : n \in T
    BY ONLY <1>1, <2>1, AllNumbers
  <2>3. len \in Nat
    OBVIOUS
  <2>. QED  BY <2>2, <2>3
<1>4. turn = [k \in 0 .. len |-> W(turn, k)]
  <2>1. \E g : g = [k \in 0 .. len |-> W(g, k)]
    BY <1>3
  <2>. HIDE DEF W
  <2>. QED  BY <2>1
<1>5. RemoveAll(L, a, b) = turn[len]
  BY DEF RemoveAll
<1>. HIDE DEF turn
<1>6. \A k \in 0 .. len : turn[k] = W(turn, k)
  <2>. HIDE DEF W
  <2>. QED  BY <1>4
<1>7. len \in Nat
  OBVIOUS
<1>8. turn[0] = L
  <2>1. 0 \in 0 .. len
    BY <1>7
  <2>. QED  BY <1>6, <2>1
<1>9. ASSUME NEW k \in 1 .. len PROVE turn[k] = RemoveTurn(turn[k - 1], incseqBy(a, k - 1), a > b)
  <2>1. k \in 0 .. len /\ k # 0
    BY <1>7
  <2>2. turn[k] = W(turn, k)
    BY <1>6, <2>1
  <2>. QED  BY <2>1, <2>2
<1>. QED
  BY <1>5, <1>8, <1>9

\* The turns of getLossArray.
LEMMA LossTurns ==
    ASSUME NEW limit
    PROVE  \E g : /\ g[0] = [array |-> << >>, at |-> rcvList.head]
                  /\ \A k \in 1 .. RcvListSize : g[k] = LossTurn(g[k - 1], limit)
                  /\ GetLossArray(limit) = g[RcvListSize].array
<1>. DEFINE W(g, k) == IF k = 0 THEN [array |-> << >>, at |-> rcvList.head] ELSE LossTurn(g[k - 1], limit)
            turn == CHOOSE g : g = [k \in 0 .. RcvListSize |-> W(g, k)]
            T == {n \in Nat : \E g : g = [k \in 0 .. n |-> W(g, k)]}
<1>1. 0 \in T
  <2>. DEFINE h == [k \in 0 .. 0 |-> [array |-> << >>, at |-> rcvList.head]]
  <2>1. \A k \in 0 .. 0 : h[k] = W(h, k)
    OBVIOUS
  <2>2. h = [k \in 0 .. 0 |-> h[k]]
    OBVIOUS
  <2>. HIDE DEF h, W
  <2>3. h = [k \in 0 .. 0 |-> W(h, k)]
    BY <2>1, <2>2
  <2>. QED  BY <2>3
<1>2. ASSUME NEW n \in Nat, n \in T PROVE n + 1 \in T
  <2>1. PICK g : g = [k \in 0 .. n |-> W(g, k)]
    BY <1>2
  <2>2. \A k \in 0 .. n : g[k] = W(g, k)
    <3>. HIDE DEF W
    <3>. QED  BY <2>1
  <2>3. PICK x : x = W(g, n + 1)
    OBVIOUS
  <2>. DEFINE h == [k \in 0 .. n + 1 |-> IF k <= n THEN g[k] ELSE x]
  <2>4. \A k \in 0 .. n : h[k] = g[k]
    OBVIOUS
  <2>5. h[n + 1] = x
    OBVIOUS
  <2>6. ASSUME NEW k \in 0 .. n + 1 PROVE h[k] = W(h, k)
    <3>. HIDE DEF h
    <3>1. CASE k = 0
      <4>1. h[k] = g[k] /\ g[k] = W(g, k)
        BY <3>1, <2>2, <2>4
      <4>. QED  BY <3>1, <4>1
    <3>2. CASE k # 0 /\ k <= n
      <4>1. k \in 0 .. n /\ k - 1 \in 0 .. n
        BY <3>2
      <4>2. h[k] = g[k] /\ g[k] = W(g, k) /\ h[k - 1] = g[k - 1]
        BY <4>1, <2>2, <2>4
      <4>. QED  BY <3>2, <4>2
    <3>3. CASE k = n + 1
      <4>1. n \in 0 .. n /\ (n + 1) - 1 = n /\ n + 1 # 0
        OBVIOUS
      <4>2. h[n] = g[n]
        BY <4>1, <2>4
      <4>3. h[n + 1] = W(g, n + 1)
        BY <2>3, <2>5
      <4>4. W(g, n + 1) = W(h, n + 1)
        BY <4>1, <4>2
      <4>. QED  BY <3>3, <4>3, <4>4
    <3>4. k = n + 1 \/ k <= n
      OBVIOUS
    <3>. QED  BY <3>1, <3>2, <3>3, <3>4
  <2>7. h = [k \in 0 .. n + 1 |-> h[k]]
    OBVIOUS
  <2>. HIDE DEF h, W
  <2>8. h = [k \in 0 .. n + 1 |-> W(h, k)]
    BY <2>6, <2>7
  <2>. QED  BY <2>8
<1>3. RcvListSize \in T
  <2>. HIDE DEF T
  <2>1. \A n \in Nat : n \in T => n + 1 \in T
    BY <1>2
  <2>2. \A n \in Nat : n \in T
    BY ONLY <1>1, <2>1, AllNumbers
  <2>3. RcvListSize \in Nat
    BY RcvLossListAssumption
  <2>. QED  BY <2>2, <2>3
<1>4. turn = [k \in 0 .. RcvListSize |-> W(turn, k)]
  <2>1. \E g : g = [k \in 0 .. RcvListSize |-> W(g, k)]
    BY <1>3
  <2>. HIDE DEF W
  <2>. QED  BY <2>1
<1>5. GetLossArray(limit) = turn[RcvListSize].array
  BY DEF GetLossArray
<1>. HIDE DEF turn
<1>6. \A k \in 0 .. RcvListSize : turn[k] = W(turn, k)
  <2>. HIDE DEF W
  <2>. QED  BY <1>4
<1>7. RcvListSize \in Nat
  BY RcvLossListAssumption
<1>8. turn[0] = [array |-> << >>, at |-> rcvList.head]
  <2>1. 0 \in 0 .. RcvListSize
    BY <1>7
  <2>. QED  BY <1>6, <2>1
<1>9. ASSUME NEW k \in 1 .. RcvListSize PROVE turn[k] = LossTurn(turn[k - 1], limit)
  <2>1. k \in 0 .. RcvListSize /\ k # 0
    BY <1>7
  <2>2. turn[k] = W(turn, k)
    BY <1>6, <2>1
  <2>. QED  BY <2>1, <2>2
<1>. QED
  BY <1>5, <1>8, <1>9

\* The links followed from the head.
LEMMA RcvNodeTurns ==
    /\ RcvNode[0] = IF rcvList.length = 0 THEN -1 ELSE rcvList.head
    /\ \A k \in 1 .. RcvListSize + 1 : RcvNode[k] = RcvNodeAfter(RcvNode[k - 1])
<1>. DEFINE W(g, k) == IF k = 0 THEN (IF rcvList.length = 0 THEN -1 ELSE rcvList.head) ELSE RcvNodeAfter(g[k - 1])
            turn == CHOOSE g : g = [k \in 0 .. RcvListSize + 1 |-> W(g, k)]
            T == {n \in Nat : \E g : g = [k \in 0 .. n |-> W(g, k)]}
<1>1. 0 \in T
  <2>. DEFINE h == [k \in 0 .. 0 |-> (IF rcvList.length = 0 THEN -1 ELSE rcvList.head)]
  <2>1. \A k \in 0 .. 0 : h[k] = W(h, k)
    OBVIOUS
  <2>2. h = [k \in 0 .. 0 |-> h[k]]
    OBVIOUS
  <2>. HIDE DEF h, W
  <2>3. h = [k \in 0 .. 0 |-> W(h, k)]
    BY <2>1, <2>2
  <2>. QED  BY <2>3
<1>2. ASSUME NEW n \in Nat, n \in T PROVE n + 1 \in T
  <2>1. PICK g : g = [k \in 0 .. n |-> W(g, k)]
    BY <1>2
  <2>2. \A k \in 0 .. n : g[k] = W(g, k)
    <3>. HIDE DEF W
    <3>. QED  BY <2>1
  <2>3. PICK x : x = W(g, n + 1)
    OBVIOUS
  <2>. DEFINE h == [k \in 0 .. n + 1 |-> IF k <= n THEN g[k] ELSE x]
  <2>4. \A k \in 0 .. n : h[k] = g[k]
    OBVIOUS
  <2>5. h[n + 1] = x
    OBVIOUS
  <2>6. ASSUME NEW k \in 0 .. n + 1 PROVE h[k] = W(h, k)
    <3>. HIDE DEF h
    <3>1. CASE k = 0
      <4>1. h[k] = g[k] /\ g[k] = W(g, k)
        BY <3>1, <2>2, <2>4
      <4>. QED  BY <3>1, <4>1
    <3>2. CASE k # 0 /\ k <= n
      <4>1. k \in 0 .. n /\ k - 1 \in 0 .. n
        BY <3>2
      <4>2. h[k] = g[k] /\ g[k] = W(g, k) /\ h[k - 1] = g[k - 1]
        BY <4>1, <2>2, <2>4
      <4>. QED  BY <3>2, <4>2
    <3>3. CASE k = n + 1
      <4>1. n \in 0 .. n /\ (n + 1) - 1 = n /\ n + 1 # 0
        OBVIOUS
      <4>2. h[n] = g[n]
        BY <4>1, <2>4
      <4>3. h[n + 1] = W(g, n + 1)
        BY <2>3, <2>5
      <4>4. W(g, n + 1) = W(h, n + 1)
        BY <4>1, <4>2
      <4>. QED  BY <3>3, <4>3, <4>4
    <3>4. k = n + 1 \/ k <= n
      OBVIOUS
    <3>. QED  BY <3>1, <3>2, <3>3, <3>4
  <2>7. h = [k \in 0 .. n + 1 |-> h[k]]
    OBVIOUS
  <2>. HIDE DEF h, W
  <2>8. h = [k \in 0 .. n + 1 |-> W(h, k)]
    BY <2>6, <2>7
  <2>. QED  BY <2>8
<1>3. RcvListSize + 1 \in T
  <2>. HIDE DEF T
  <2>1. \A n \in Nat : n \in T => n + 1 \in T
    BY <1>2
  <2>2. \A n \in Nat : n \in T
    BY ONLY <1>1, <2>1, AllNumbers
  <2>3. RcvListSize + 1 \in Nat
    BY RcvLossListAssumption
  <2>. QED  BY <2>2, <2>3
<1>4. turn = [k \in 0 .. RcvListSize + 1 |-> W(turn, k)]
  <2>1. \E g : g = [k \in 0 .. RcvListSize + 1 |-> W(g, k)]
    BY <1>3
  <2>. HIDE DEF W
  <2>. QED  BY <2>1
<1>5. RcvNode = turn
  BY DEF RcvNode
<1>. HIDE DEF turn
<1>6. \A k \in 0 .. RcvListSize + 1 : turn[k] = W(turn, k)
  <2>. HIDE DEF W
  <2>. QED  BY <1>4
<1>7. RcvListSize + 1 \in Nat
  BY RcvLossListAssumption
<1>8. turn[0] = (IF rcvList.length = 0 THEN -1 ELSE rcvList.head)
  <2>1. 0 \in 0 .. RcvListSize + 1
    BY <1>7
  <2>. QED  BY <1>6, <2>1
<1>9. ASSUME NEW k \in 1 .. RcvListSize + 1 PROVE turn[k] = RcvNodeAfter(turn[k - 1])
  <2>1. k \in 0 .. RcvListSize + 1 /\ k # 0
    BY <1>7
  <2>2. turn[k] = W(turn, k)
    BY <1>6, <2>1
  <2>. QED  BY <2>1, <2>2
<1>. QED
  BY <1>5, <1>8, <1>9

\* The links both ways, with both ends.
Chained(next, prior, head, tail, size, sl, S) ==
    /\ Links(next, size, sl, S) /\ HeadOf(sl, S, head)
    /\ BackLinks(prior, size, sl, S) /\ TailOf(sl, S, tail)

\* What the links of the range of m tell.
ChainReads(next, prior, head, tail, sl, S, m) ==
    /\ Follows(sl, S, m, next[sl[m]]) /\ Precedes(sl, S, m, prior[sl[m]])
    /\ head = sl[m] <=> \A q \in S : m <= q
    /\ head = sl[m] => prior[sl[m]] = -1
    /\ head # sl[m] => \E x \in S : x < m /\ prior[sl[m]] = sl[x] /\ \A q \in S : q <= x \/ m <= q
    /\ tail = sl[m] <=> next[sl[m]] = -1
    /\ next[sl[m]] = -1 <=> \A q \in S : q <= m
    /\ next[sl[m]] # -1 => \E x \in S : m < x /\ next[sl[m]] = sl[x] /\ \A q \in S : q <= m \/ x <= q

\* What the links of one range say of its neighbours.
LEMMA ChainRead ==
    ASSUME NEW next, NEW prior, NEW head, NEW tail, NEW size, NEW sl, NEW S, NEW lo, NEW hi,
           Window(size, sl, lo, hi), S \subseteq lo .. hi,
           Chained(next, prior, head, tail, size, sl, S), NEW m \in S
    PROVE  ChainReads(next, prior, head, tail, sl, S, m)
<1>1. /\ size \in Int /\ \A n \in S : n \in Int /\ sl[n] \in 0 .. size - 1 /\ sl[n] # -1
      /\ \A k, n \in S : sl[k] = sl[n] => k = n
  <2>1. /\ size \in Int /\ \A n \in S : n \in Int /\ sl[n] \in 0 .. size - 1
        /\ \A k, n \in S : sl[k] = sl[n] => k = n
    BY WindowIs
  <2>. QED  BY <2>1
<1>2. Follows(sl, S, m, next[sl[m]]) /\ Precedes(sl, S, m, prior[sl[m]])
  BY DEF Chained, Links, BackLinks
<1>3. head = sl[m] <=> \A q \in S : m <= q
  <2>1. PICK h \in S : head = sl[h] /\ \A q \in S : h <= q
    BY DEF Chained, HeadOf
  <2>2. head = sl[m] <=> h = m
    BY <1>1, <2>1
  <2>3. h <= m
    BY <2>1
  <2>. QED  BY <1>1, <2>1, <2>2, <2>3
<1>4. (\A q \in S : m <= q) => prior[sl[m]] = -1
  BY <1>1, <1>2 DEF Precedes
<1>5. ASSUME head # sl[m]
      PROVE  \E x \in S : x < m /\ prior[sl[m]] = sl[x] /\ \A q \in S : q <= x \/ m <= q
  BY <1>2, <1>3, <1>5 DEF Precedes
<1>6. next[sl[m]] = -1 <=> \A q \in S : q <= m
  BY <1>1, <1>2 DEF Follows
<1>7. tail = sl[m] <=> \A q \in S : q <= m
  <2>1. PICK h \in S : tail = sl[h] /\ \A q \in S : q <= h
    BY DEF Chained, TailOf
  <2>2. tail = sl[m] <=> h = m
    BY <1>1, <2>1
  <2>3. m <= h
    BY <2>1
  <2>. QED  BY <1>1, <2>1, <2>2, <2>3
<1>8. ASSUME next[sl[m]] # -1
      PROVE  \E x \in S : m < x /\ next[sl[m]] = sl[x] /\ \A q \in S : q <= m \/ x <= q
  BY <1>2, <1>8 DEF Follows
<1>. QED  BY <1>2, <1>3, <1>4, <1>5, <1>6, <1>7, <1>8 DEF ChainReads

\* Slot loc is linked behind slot p.
LinkedNext(next, p, loc) == [next EXCEPT ![loc] = next[p], ![p] = loc]

LinkedTail(tail, p, loc) == IF tail = p THEN loc ELSE tail

\* A range that starts at a is linked behind that of p.
LEMMA ChainedWith ==
    ASSUME NEW next, NEW prior, NEW head, NEW tail, NEW size, NEW sl, NEW S, NEW lo, NEW hi,
           Window(size, sl, lo, hi), S \subseteq lo .. hi,
           Chained(next, prior, head, tail, size, sl, S), NEW a \in lo .. hi, a \notin S,
           NEW p \in S, p < a, \A q \in S : q <= p \/ a < q
    PROVE  Chained(LinkedNext(next, sl[p], sl[a]), BackLinked(prior, next[sl[p]], sl[p], sl[a]),
                   head, LinkedTail(tail, sl[p], sl[a]), size, sl, S \cup {a})
<1>0. PICK nx, px, t : /\ nx = LinkedNext(next, sl[p], sl[a])
                       /\ px = BackLinked(prior, next[sl[p]], sl[p], sl[a])
                       /\ t = LinkedTail(tail, sl[p], sl[a])
  OBVIOUS
<1>12. /\ nx = [next EXCEPT ![sl[a]] = next[sl[p]], ![sl[p]] = sl[a]]
       /\ t = IF tail = sl[p] THEN sl[a] ELSE tail
  BY <1>0 DEF LinkedNext, LinkedTail
<1>1. /\ Links(next, size, sl, S) /\ HeadOf(sl, S, head)
      /\ BackLinks(prior, size, sl, S) /\ TailOf(sl, S, tail)
  BY DEF Chained
<1>2. ChainReads(next, prior, head, tail, sl, S, p)
  BY ChainRead
<1>3. a \in Int /\ \A n \in S : n \in Int
  BY WindowIs
<1>4. Links(nx, size, sl, S \cup {a})
  BY <1>1, <1>12, LinksWith
<1>5. Precedes(sl, S, a, sl[p])
  <2>1. \A q \in S : q <= p \/ a <= q
    BY <1>3
  <2>. QED  BY <2>1 DEF Precedes
<1>6. PICK i : i = next[sl[p]]
  OBVIOUS
<1>7. Follows(sl, S, a, i)
  <2>1. CASE i = -1 /\ \A m \in S : m <= p
    <3>1. \A m \in S : m <= a
      BY <1>3, <2>1
    <3>. QED  BY <2>1, <3>1 DEF Follows
  <2>2. ASSUME NEW m \in S, p < m, i = sl[m], \A q \in S : q <= p \/ m <= q PROVE Follows(sl, S, a, i)
    <3>1. a < m
      BY <1>3, <2>2
    <3>2. \A q \in S : q <= a \/ m <= q
      BY <1>3, <2>2
    <3>. QED  BY <2>2, <3>1, <3>2 DEF Follows
  <2>. QED  BY <1>2, <1>6, <2>1, <2>2 DEF ChainReads, Follows
<1>8. BackLinks(px, size, sl, S \cup {a})
  <2>1. px = BackLinked(prior, i, sl[p], sl[a])
    BY <1>0, <1>6
  <2>. QED  BY <1>1, <1>5, <1>7, <2>1, BackLinksWith
<1>9. HeadOf(sl, S \cup {a}, head)
  <2>1. PICK k \in S : head = sl[k] /\ \A q \in S : k <= q
    BY <1>1 DEF HeadOf
  <2>2. k <= a
    BY <1>3, <2>1
  <2>. QED  BY <2>1, <2>2 DEF HeadOf
<1>10. TailOf(sl, S \cup {a}, t)
  <2>1. CASE tail = sl[p]
    <3>1. \A q \in S : q <= p
      BY <1>2, <2>1 DEF ChainReads
    <3>2. \A q \in S \cup {a} : q <= a
      BY <1>3, <3>1
    <3>. QED  BY <1>12, <2>1, <3>2 DEF TailOf
  <2>2. CASE tail # sl[p]
    <3>1. PICK k \in S : tail = sl[k] /\ \A q \in S : q <= k
      BY <1>1 DEF TailOf
    <3>2. p <= k /\ p # k
      BY <2>2, <3>1
    <3>3. a <= k
      BY <1>3, <3>2
    <3>. QED  BY <1>12, <2>2, <3>1, <3>3 DEF TailOf
  <2>. QED  BY <2>1, <2>2
<1>13. Chained(nx, px, head, t, size, sl, S \cup {a})
  BY <1>4, <1>8, <1>9, <1>10 DEF Chained
<1>. QED  BY <1>0, <1>13

\* A range before all others is linked to the first of them.
LEMMA ChainedFirst ==
    ASSUME NEW next, NEW prior, NEW head, NEW tail, NEW size, NEW sl, NEW S, NEW lo, NEW hi,
           Window(size, sl, lo, hi), S \subseteq lo .. hi,
           Chained(next, prior, head, tail, size, sl, S), NEW a \in lo .. hi, \A q \in S : a < q,
           NEW nx, nx = [next EXCEPT ![sl[a]] = head],
           NEW px, px = BackLinked(prior, head, -1, sl[a]),
           NEW t, t = IF head = -1 THEN sl[a] ELSE tail
    PROVE  Chained(nx, px, sl[a], t, size, sl, S \cup {a})
<1>1. /\ Links(next, size, sl, S) /\ HeadOf(sl, S, head)
      /\ BackLinks(prior, size, sl, S) /\ TailOf(sl, S, tail)
  BY DEF Chained
<1>2. a \in Int /\ \A n \in S : n \in Int /\ sl[n] # -1
  <2>1. a \in Int /\ \A n \in S : n \in Int /\ sl[n] \in 0 .. size - 1
    BY WindowIs
  <2>. QED  BY <2>1
<1>3. a \notin S
  BY <1>2
<1>4. Links(nx, size, sl, S \cup {a}) /\ HeadOf(sl, S \cup {a}, sl[a])
  BY <1>1, LinksFirst
<1>5. Precedes(sl, S, a, -1)
  <2>1. \A m \in S : a <= m
    BY <1>2
  <2>. QED  BY <2>1 DEF Precedes
<1>6. Follows(sl, S, a, head)
  <2>1. CASE head = -1 /\ S = {}
    BY <2>1 DEF Follows
  <2>2. ASSUME NEW m \in S, head = sl[m], \A q \in S : m <= q PROVE Follows(sl, S, a, head)
    BY <2>2 DEF Follows
  <2>. QED  BY <1>1, <2>1, <2>2 DEF HeadOf
<1>7. BackLinks(px, size, sl, S \cup {a})
  BY <1>1, <1>3, <1>5, <1>6, BackLinksWith
<1>8. TailOf(sl, S \cup {a}, t)
  <2>1. CASE head = -1 /\ S = {}
    <3>1. \A q \in S \cup {a} : q <= a
      BY <1>2, <2>1
    <3>. QED  BY <2>1, <3>1 DEF TailOf
  <2>2. ASSUME NEW m \in S, head = sl[m] PROVE TailOf(sl, S \cup {a}, t)
    <3>1. t = tail
      BY <1>2, <2>2
    <3>2. PICK k \in S : tail = sl[k] /\ \A q \in S : q <= k
      BY <1>1 DEF TailOf
    <3>3. a <= k
      BY <1>2
    <3>. QED  BY <3>1, <3>2, <3>3 DEF TailOf
  <2>. QED  BY <1>1, <2>1, <2>2 DEF HeadOf
<1>. QED  BY <1>4, <1>7, <1>8 DEF Chained

\* Slot i is unlinked.
UnlinkedNext(next, prior, head, i) == IF head = i THEN next ELSE [next EXCEPT ![prior[i]] = next[i]]

UnlinkedPrior(next, prior, i) == IF next[i] = -1 THEN prior ELSE [prior EXCEPT ![next[i]] = prior[i]]

UnlinkedHead(next, head, i) == IF head = i THEN next[i] ELSE head

UnlinkedTail(next, prior, head, tail, i) == IF head # i /\ next[i] = -1 THEN prior[i] ELSE tail

\* The range of m is unlinked.
LEMMA ChainedWithout ==
    ASSUME NEW next, NEW prior, NEW head, NEW tail, NEW size, NEW sl, NEW S, NEW lo, NEW hi,
           Window(size, sl, lo, hi), S \subseteq lo .. hi,
           Chained(next, prior, head, tail, size, sl, S), NEW m \in S
    PROVE  Chained(UnlinkedNext(next, prior, head, sl[m]), UnlinkedPrior(next, prior, sl[m]),
                   UnlinkedHead(next, head, sl[m]), UnlinkedTail(next, prior, head, tail, sl[m]),
                   size, sl, S \ {m})
<1>0. PICK nx, px, h, t :
         /\ nx = UnlinkedNext(next, prior, head, sl[m]) /\ px = UnlinkedPrior(next, prior, sl[m])
         /\ h = UnlinkedHead(next, head, sl[m]) /\ t = UnlinkedTail(next, prior, head, tail, sl[m])
  OBVIOUS
<1>8. /\ nx = IF head = sl[m] THEN next ELSE [next EXCEPT ![prior[sl[m]]] = next[sl[m]]]
      /\ px = IF next[sl[m]] = -1 THEN prior ELSE [prior EXCEPT ![next[sl[m]]] = prior[sl[m]]]
      /\ h = IF head = sl[m] THEN next[sl[m]] ELSE head
      /\ t = IF head # sl[m] /\ next[sl[m]] = -1 THEN prior[sl[m]] ELSE tail
  BY <1>0 DEF UnlinkedNext, UnlinkedPrior, UnlinkedHead, UnlinkedTail
<1>1. /\ Links(next, size, sl, S) /\ HeadOf(sl, S, head)
      /\ BackLinks(prior, size, sl, S) /\ TailOf(sl, S, tail)
  BY DEF Chained
<1>2. ChainReads(next, prior, head, tail, sl, S, m)
  BY ChainRead
<1>3. S \subseteq Int /\ m \in Int /\ \A n \in S : n \in Int
  BY WindowIs
<1>4. PICK i : i = next[sl[m]] /\ Follows(sl, S, m, i)
  BY <1>2 DEF ChainReads
<1>5. BackLinks(px, size, sl, S \ {m})
  <2>1. px = IF i = -1 THEN prior ELSE [prior EXCEPT ![i] = prior[sl[m]]]
    BY <1>4, <1>8
  <2>. QED  BY <1>1, <1>4, <2>1, BackLinksWithout
<1>6. ASSUME head = sl[m] PROVE Chained(nx, px, h, t, size, sl, S \ {m})
  <2>1. \A q \in S : m <= q
    BY <1>2, <1>6 DEF ChainReads
  <2>2. Links(nx, size, sl, S \ {m})
    <3>1. PICK T : T = S \ {m}
      OBVIOUS
    <3>2. \A n \in T, k \in S : n <= k => k \in T
      BY <1>3, <2>1, <3>1
    <3>3. T \in SUBSET S /\ nx = next
      BY <1>6, <1>8, <3>1
    <3>4. Links(next, size, sl, T)
      BY <1>1, <1>3, <3>2, <3>3, LinksFrom
    <3>. QED  BY <3>1, <3>3, <3>4
  <2>3. HeadOf(sl, S \ {m}, h)
    <3>1. HeadOf(sl, {n \in S : m < n}, i)
      BY <1>3, <1>4, HeadFrom
    <3>3. ASSUME NEW n \in S PROVE m < n <=> n # m
      <4>1. n \in Int /\ m \in Int /\ m <= n
        BY <1>3, <2>1
      <4>. QED  BY ONLY <4>1
    <3>2. {n \in S : m < n} = S \ {m}
      BY ONLY <3>3
    <3>. QED  BY <1>4, <1>6, <1>8, <3>1, <3>2
  <2>4. TailOf(sl, S \ {m}, t)
    <3>1. PICK k \in S : tail = sl[k] /\ \A q \in S : q <= k
      BY <1>1 DEF TailOf
    <3>2. CASE k = m
      <4>1. S \ {m} = {}
        BY <1>3, <2>1, <3>1, <3>2
      <4>. QED  BY <4>1 DEF TailOf
    <3>3. CASE k # m
      <4>1. t = tail
        BY <1>6, <1>8
      <4>. QED  BY <3>1, <3>3, <4>1 DEF TailOf
    <3>. QED  BY <3>2, <3>3
  <2>. QED  BY <1>5, <2>2, <2>3, <2>4 DEF Chained
<1>7. ASSUME head # sl[m] PROVE Chained(nx, px, h, t, size, sl, S \ {m})
  <2>1. PICK x \in S : x < m /\ prior[sl[m]] = sl[x] /\ \A q \in S : q <= x \/ m <= q
    BY <1>2, <1>7 DEF ChainReads
  <2>2. Links(nx, size, sl, S \ {m})
    <3>1. nx = [next EXCEPT ![sl[x]] = next[sl[m]]]
      BY <1>7, <1>8, <2>1
    <3>. QED  BY <1>1, <2>1, <3>1, LinksWithout
  <2>3. HeadOf(sl, S \ {m}, h)
    <3>1. PICK k \in S : head = sl[k] /\ \A q \in S : k <= q
      BY <1>1 DEF HeadOf
    <3>2. k # m /\ h = head
      BY <1>7, <1>8, <3>1
    <3>. QED  BY <3>1, <3>2 DEF HeadOf
  <2>4. TailOf(sl, S \ {m}, t)
    <3>1. CASE next[sl[m]] = -1
      <4>1. \A q \in S : q <= m
        BY <1>2, <3>1 DEF ChainReads
      <4>2. \A q \in S \ {m} : q <= x
        BY <1>3, <2>1, <4>1
      <4>3. x # m /\ t = sl[x]
        BY <1>3, <1>7, <1>8, <2>1, <3>1
      <4>. QED  BY <4>2, <4>3 DEF TailOf
    <3>2. CASE next[sl[m]] # -1
      <4>1. PICK k \in S : tail = sl[k] /\ \A q \in S : q <= k
        BY <1>1 DEF TailOf
      <4>2. t = tail /\ tail # sl[m]
        BY <1>2, <1>8, <3>2 DEF ChainReads
      <4>3. k # m
        BY <4>1, <4>2
      <4>. QED  BY <4>1, <4>2, <4>3 DEF TailOf
    <3>. QED  BY <3>1, <3>2
  <2>. QED  BY <1>5, <2>2, <2>3, <2>4 DEF Chained
<1>9. Chained(nx, px, h, t, size, sl, S \ {m})
  BY <1>6, <1>7
<1>. QED  BY <1>0, <1>9

\* What slot i has moves to slot j.
ShiftedNext(next, prior, head, i, j) ==
    IF head = i THEN [next EXCEPT ![j] = next[i]] ELSE [next EXCEPT ![j] = next[i], ![prior[i]] = j]

ShiftedPrior(next, prior, tail, i, j) ==
    IF tail = i THEN [prior EXCEPT ![j] = prior[i]] ELSE [prior EXCEPT ![j] = prior[i], ![next[i]] = j]

MovedEnd(end, i, j) == IF end = i THEN j ELSE end

\* The range of m moves to a slot before the next range.
LEMMA ChainedShift ==
    ASSUME NEW next, NEW prior, NEW head, NEW tail, NEW size, NEW sl, NEW S, NEW lo, NEW hi,
           Window(size, sl, lo, hi), S \subseteq lo .. hi,
           Chained(next, prior, head, tail, size, sl, S), NEW m \in S,
           NEW a, a \in lo .. hi, m < a, \A q \in S : q <= m \/ a < q
    PROVE  Chained(ShiftedNext(next, prior, head, sl[m], sl[a]), ShiftedPrior(next, prior, tail, sl[m], sl[a]),
                   MovedEnd(head, sl[m], sl[a]), MovedEnd(tail, sl[m], sl[a]), size, sl, (S \ {m}) \cup {a})
<1>0. PICK nx, px, h, t :
         /\ nx = ShiftedNext(next, prior, head, sl[m], sl[a])
         /\ px = ShiftedPrior(next, prior, tail, sl[m], sl[a])
         /\ h = MovedEnd(head, sl[m], sl[a]) /\ t = MovedEnd(tail, sl[m], sl[a])
  OBVIOUS
<1>1. next \in [0 .. size - 1 -> Int] /\ prior \in [0 .. size - 1 -> Int]
  BY DEF Chained, Links, BackLinks
<1>2. /\ size \in Int /\ m \in Int /\ a \in Int /\ \A n \in S : n \in Int /\ n \in lo .. hi
      /\ \A n \in Int : sl[n] \in 0 .. size - 1
      /\ \A n \in S : sl[n] = sl[a] => n = a
  <2>1. /\ size \in Int /\ \A n \in Int : sl[n] \in 0 .. size - 1
        /\ \A k, n \in lo .. hi : sl[k] = sl[n] => k = n
    BY WindowIs
  <2>. QED  BY <2>1
<1>3. a \notin S
  BY <1>2
<1>4. sl[a] \in 0 .. size - 1 /\ sl[m] \in 0 .. size - 1 /\ sl[m] # sl[a] /\ sl[a] \in Int /\ sl[m] # -1
  BY <1>2
<1>5. ChainReads(next, prior, head, tail, sl, S, m)
  BY ChainRead
<1>6. PICK i, j : i = next[sl[m]] /\ j = prior[sl[m]]
  OBVIOUS
<1>7. i \in Int /\ j \in Int
  BY <1>1, <1>4, <1>6
<1>8. /\ nx = IF head = sl[m] THEN [next EXCEPT ![sl[a]] = i] ELSE [next EXCEPT ![sl[a]] = i, ![j] = sl[a]]
      /\ px = IF tail = sl[m] THEN [prior EXCEPT ![sl[a]] = j] ELSE [prior EXCEPT ![sl[a]] = j, ![i] = sl[a]]
      /\ h = (IF head = sl[m] THEN sl[a] ELSE head) /\ t = (IF tail = sl[m] THEN sl[a] ELSE tail)
  BY <1>0, <1>6 DEF ShiftedNext, ShiftedPrior, MovedEnd
<1>9. i # -1 => \E x \in S : m < x /\ i = sl[x]
  BY <1>5, <1>6 DEF ChainReads
<1>10. i # -1 => i \in 0 .. size - 1 /\ i # sl[a] /\ i # sl[m]
  <2>1. ASSUME NEW x \in S, m < x, i = sl[x] PROVE i \in 0 .. size - 1 /\ i # sl[a] /\ i # sl[m]
    <3>1. x \in lo .. hi /\ m \in lo .. hi /\ x # m /\ x # a
      BY <1>2, <1>3, <2>1
    <3>2. \A k, n \in lo .. hi : sl[k] = sl[n] => k = n
      BY WindowIs
    <3>. QED  BY <1>2, <2>1, <3>1, <3>2
  <2>. QED  BY <1>9, <2>1
<1>11. tail = sl[m] <=> i = -1
  BY <1>5, <1>6 DEF ChainReads
<1>12. PICK T : T = S \ {m}
  OBVIOUS
<1>13. T \subseteq lo .. hi /\ a \notin T
  BY <1>3, <1>12
<1>14. PICK n1, p1, h1, t1 :
          /\ n1 = IF head = sl[m] THEN next ELSE [next EXCEPT ![j] = i]
          /\ p1 = IF i = -1 THEN prior ELSE [prior EXCEPT ![i] = j]
          /\ h1 = IF head = sl[m] THEN i ELSE head
          /\ t1 = IF head # sl[m] /\ i = -1 THEN j ELSE tail
  OBVIOUS
<1>15. Chained(n1, p1, h1, t1, size, sl, T)
  <2>1. /\ n1 = UnlinkedNext(next, prior, head, sl[m]) /\ p1 = UnlinkedPrior(next, prior, sl[m])
        /\ h1 = UnlinkedHead(next, head, sl[m]) /\ t1 = UnlinkedTail(next, prior, head, tail, sl[m])
    BY <1>6, <1>14 DEF UnlinkedNext, UnlinkedPrior, UnlinkedHead, UnlinkedTail
  <2>2. Chained(n1, p1, h1, t1, size, sl, S \ {m})
    BY <2>1, ChainedWithout
  <2>. QED  BY <1>12, <2>2
<1>18. Window(size, sl, lo, hi)
  OBVIOUS
<1>19. T \subseteq lo .. hi
  BY <1>13
<1>20. a \in lo .. hi
  OBVIOUS
<1>21. a \notin T
  BY <1>13
<1>16. ASSUME head = sl[m] PROVE Chained(nx, px, h, t, size, sl, (S \ {m}) \cup {a})
  <2>1. \A q \in S : m <= q
    BY <1>5, <1>16 DEF ChainReads
  <2>2. \A q \in T : a < q
    BY <1>2, <1>12, <2>1
  <2>3. j = -1 /\ h1 = i /\ n1 = next /\ t1 = tail
    BY <1>5, <1>6, <1>14, <1>16 DEF ChainReads
  <2>4. nx = [n1 EXCEPT ![sl[a]] = h1]
    BY <1>8, <1>16, <2>3
  <2>5. px = BackLinked(p1, h1, -1, sl[a])
    <3>1. CASE i = -1
      BY <1>8, <1>11, <1>14, <2>3, <3>1 DEF BackLinked
    <3>2. CASE i # -1
      <4>1. px = [[prior EXCEPT ![sl[a]] = j] EXCEPT ![i] = sl[a]]
        BY <1>8, <1>11, <3>2
      <4>2. p1 = [prior EXCEPT ![i] = j]
        BY <1>14, <3>2
      <4>3. BackLinked(p1, h1, -1, sl[a]) = [[p1 EXCEPT ![sl[a]] = j] EXCEPT ![i] = sl[a]]
        BY <2>3, <3>2 DEF BackLinked
      <4>4. [[[prior EXCEPT ![i] = j] EXCEPT ![sl[a]] = j] EXCEPT ![i] = sl[a]] = [[prior EXCEPT ![sl[a]] = j] EXCEPT ![i] = sl[a]]
        BY ONLY <1>1, <1>4, <1>7, <1>10, <3>2
      <4>. QED  BY <4>1, <4>2, <4>3, <4>4
    <3>. QED  BY <3>1, <3>2
  <2>6. t = IF h1 = -1 THEN sl[a] ELSE t1
    BY <1>8, <1>11, <2>3
  <2>7. Chained(nx, px, sl[a], t, size, sl, T \cup {a})
    BY ONLY <1>15, <1>18, <1>19, <1>20, <2>2, <2>4, <2>5, <2>6, ChainedFirst
  <2>. QED  BY <1>8, <1>12, <1>16, <2>7
<1>17. ASSUME head # sl[m] PROVE Chained(nx, px, h, t, size, sl, (S \ {m}) \cup {a})
  <2>1. PICK x \in S : x < m /\ j = sl[x] /\ \A q \in S : q <= x \/ m <= q
    BY <1>5, <1>6, <1>17 DEF ChainReads
  <2>2. x \in T /\ x \in Int /\ x \in lo .. hi /\ x < a /\ x # m
    BY <1>2, <1>12, <2>1
  <2>3. \A q \in T : q <= x \/ a < q
    <3>. TAKE q \in T
    <3>1. q \in S /\ q # m
      BY <1>12
    <3>2. (q <= x \/ m <= q) /\ (q <= m \/ a < q)
      BY <2>1, <3>1
    <3>. QED  BY <1>2, <3>1, <3>2
  <2>4. j \in 0 .. size - 1 /\ j # sl[a] /\ j # sl[m]
    <3>1. \A k, n \in lo .. hi : sl[k] = sl[n] => k = n
      BY WindowIs
    <3>2. m \in lo .. hi /\ x # a
      BY <1>3
    <3>. QED  BY <1>2, <2>1, <2>2, <3>1, <3>2
  <2>5. n1 = [next EXCEPT ![j] = i] /\ h1 = head
    BY <1>14, <1>17
  <2>6. n1[sl[x]] = i
    BY <1>1, <2>1, <2>4, <2>5
  <2>7. nx = LinkedNext(n1, sl[x], sl[a])
    <3>1. nx = [[next EXCEPT ![sl[a]] = i] EXCEPT ![j] = sl[a]]
      BY <1>8, <1>17
    <3>2. [[next EXCEPT ![sl[a]] = i] EXCEPT ![j] = sl[a]] = [[[next EXCEPT ![j] = i] EXCEPT ![sl[a]] = i] EXCEPT ![j] = sl[a]]
      BY ONLY <1>1, <1>4, <1>7, <2>4
    <3>3. [n1 EXCEPT ![sl[a]] = i, ![j] = sl[a]] = [[[next EXCEPT ![j] = i] EXCEPT ![sl[a]] = i] EXCEPT ![j] = sl[a]]
      BY ONLY <2>5
    <3>4. nx = [n1 EXCEPT ![sl[a]] = i, ![j] = sl[a]]
      BY ONLY <3>1, <3>2, <3>3
    <3>. QED  BY <2>1, <2>6, <3>4 DEF LinkedNext
  <2>8. px = BackLinked(p1, n1[sl[x]], sl[x], sl[a])
    <3>1. CASE i = -1
      <4>1. px = [prior EXCEPT ![sl[a]] = j] /\ p1 = prior
        BY <1>8, <1>11, <1>14, <3>1
      <4>. QED  BY <2>1, <2>6, <3>1, <4>1 DEF BackLinked
    <3>2. CASE i # -1
      <4>1. px = [[prior EXCEPT ![sl[a]] = j] EXCEPT ![i] = sl[a]]
        BY <1>8, <1>11, <3>2
      <4>2. p1 = [prior EXCEPT ![i] = j]
        BY <1>14, <3>2
      <4>3. BackLinked(p1, n1[sl[x]], sl[x], sl[a]) = [[p1 EXCEPT ![sl[a]] = j] EXCEPT ![i] = sl[a]]
        BY <2>1, <2>6, <3>2 DEF BackLinked
      <4>4. [[[prior EXCEPT ![i] = j] EXCEPT ![sl[a]] = j] EXCEPT ![i] = sl[a]] = [[prior EXCEPT ![sl[a]] = j] EXCEPT ![i] = sl[a]]
        BY ONLY <1>1, <1>4, <1>7, <1>10, <3>2
      <4>. QED  BY <4>1, <4>2, <4>3, <4>4
    <3>. QED  BY <3>1, <3>2
  <2>9. t = LinkedTail(t1, sl[x], sl[a])
    <3>1. CASE i = -1
      <4>1. t1 = sl[x] /\ t = sl[a]
        BY <1>8, <1>11, <1>14, <1>17, <2>1, <3>1
      <4>. QED  BY <4>1 DEF LinkedTail
    <3>2. CASE i # -1
      <4>1. t1 = tail /\ t = tail
        BY <1>8, <1>11, <1>14, <3>2
      <4>2. ChainReads(next, prior, head, tail, sl, S, x)
        BY ChainRead
      <4>3. tail # sl[x]
        <5>. SUFFICES ASSUME tail = sl[x] PROVE FALSE
          OBVIOUS
        <5>1. m <= x
          BY <4>2 DEF ChainReads
        <5>. QED  BY <1>2, <2>1, <5>1
      <4>. QED  BY <4>1, <4>3 DEF LinkedTail
    <3>. QED  BY <3>1, <3>2
  <2>11. x \in T
    BY <2>2
  <2>12. x < a
    BY <2>2
  <2>13. Chained(LinkedNext(n1, sl[x], sl[a]), BackLinked(p1, n1[sl[x]], sl[x], sl[a]), h1,
                 LinkedTail(t1, sl[x], sl[a]), size, sl, T \cup {a})
    BY ONLY <1>15, <1>18, <1>19, <1>20, <1>21, <2>11, <2>12, <2>3, ChainedWith
  <2>10. Chained(nx, px, h1, t, size, sl, T \cup {a})
    BY <2>7, <2>8, <2>9, <2>13
  <2>. QED  BY <1>8, <1>12, <1>17, <2>5, <2>10
<1>22. Chained(nx, px, h, t, size, sl, (S \ {m}) \cup {a})
  BY <1>16, <1>17
<1>. QED  BY <1>0, <1>22

-----------------------------------------------------------------------------
(* CRcvLossList                                                            *)

RcvListRecord(L) ==
    /\ L = [data1 |-> L.data1, data2 |-> L.data2, next |-> L.next, prior |-> L.prior,
            head |-> L.head, tail |-> L.tail, length |-> L.length]
    /\ L.head \in Int /\ L.tail \in Int /\ L.length \in Int

\* The arrays are those of the ranges, whatever the length says.
RcvArrays(L, sl, S, E, lo, hi) ==
    /\ RcvListRecord(L)
    /\ Window(RcvListSize, sl, lo, hi) /\ Ranges(S, E, lo, hi) /\ Apart(S, E)
    /\ Holding(L.data1, L.data2, RcvListSize, sl, S, E)
    /\ Chained(L.next, L.prior, L.head, L.tail, RcvListSize, sl, S)

RcvHolds(L, sl, S, E, lo, hi) ==
    /\ RcvArrays(L, sl, S, E, lo, hi)
    /\ L.length = Cardinality(Covered(S, E))

\* The list holds the numbers C, in whatever ranges.
RcvHoldsNumbers(L, C, lo, hi) == \E sl, S, E : RcvHolds(L, sl, S, E, lo, hi) /\ Covered(S, E) = C

\* What is known of a list that holds ranges, and of the numbers of its window.
LEMMA RcvRead ==
    ASSUME NEW L, NEW sl, NEW S, NEW E, NEW lo, NEW hi, RcvArrays(L, sl, S, E, lo, hi)
    PROVE  /\ RcvListSize \in Nat \ {0} /\ lo \in Int /\ hi \in Int
           /\ S \subseteq lo .. hi /\ S \subseteq Int
           /\ \A n \in S : /\ n \in Int /\ E[n] \in Int /\ lo <= n /\ n <= E[n] /\ E[n] <= hi
                           /\ n \in lo .. hi + 1 /\ E[n] \in lo .. hi + 1
           /\ \A n \in Int : sl[n] \in RcvSlots /\ sl[n] \in Int /\ sl[n] # -1
           /\ \A m, n \in lo .. hi : sl[m] = sl[n] => m = n
           /\ L.data1 \in [RcvSlots -> Int] /\ L.data2 \in [RcvSlots -> Int]
           /\ L.next \in [RcvSlots -> Int] /\ L.prior \in [RcvSlots -> Int]
<1>1. /\ Window(RcvListSize, sl, lo, hi) /\ Ranges(S, E, lo, hi)
      /\ Holding(L.data1, L.data2, RcvListSize, sl, S, E)
      /\ Chained(L.next, L.prior, L.head, L.tail, RcvListSize, sl, S)
  BY DEF RcvArrays
<1>2. /\ RcvListSize \in Nat \ {0} /\ lo \in Int /\ hi \in Int
      /\ \A n \in Int : sl[n] \in 0 .. RcvListSize - 1
      /\ \A m, n \in lo .. hi : sl[m] = sl[n] => m = n
  BY <1>1, WindowIs
<1>3. \A n \in S : n \in Int /\ E[n] \in Int /\ lo <= n /\ n <= E[n] /\ E[n] <= hi
  BY <1>1 DEF Ranges
<1>4. S \subseteq lo .. hi /\ S \subseteq Int
  BY <1>2, <1>3
<1>5. \A n \in S : n \in lo .. hi + 1 /\ E[n] \in lo .. hi + 1
  BY <1>2, <1>3
<1>6. \A n \in Int : sl[n] \in RcvSlots /\ sl[n] \in Int /\ sl[n] # -1
  BY <1>2 DEF RcvSlots
<1>7. L.data1 \in [RcvSlots -> Int] /\ L.data2 \in [RcvSlots -> Int]
  BY <1>1 DEF Holding, RcvSlots
<1>8. L.next \in [RcvSlots -> Int] /\ L.prior \in [RcvSlots -> Int]
  BY <1>1 DEF Chained, Links, BackLinks, RcvSlots
<1>. QED  BY <1>2, <1>3, <1>4, <1>5, <1>6, <1>7, <1>8

\* The length is zero when there are no ranges.
LEMMA RcvEmpty ==
    ASSUME NEW L, NEW sl, NEW S, NEW E, NEW lo, NEW hi, RcvHolds(L, sl, S, E, lo, hi)
    PROVE  L.length = 0 <=> S = {}
<1>1. RcvArrays(L, sl, S, E, lo, hi) /\ L.length = Cardinality(Covered(S, E))
  BY DEF RcvHolds
<1>2. lo \in Int /\ hi \in Int /\ Ranges(S, E, lo, hi)
  BY <1>1, RcvRead DEF RcvArrays
<1>. QED  BY <1>1, <1>2, CoveredIs

\* The head is the smallest range and the tail the largest.
LEMMA RcvEnds ==
    ASSUME NEW L, NEW sl, NEW S, NEW E, NEW lo, NEW hi, RcvArrays(L, sl, S, E, lo, hi), S # {}
    PROVE  /\ \E h \in S : L.head = sl[h] /\ \A q \in S : h <= q
           /\ \E t \in S : L.tail = sl[t] /\ \A q \in S : q <= t
BY DEF RcvArrays, Chained, HeadOf, TailOf

-----------------------------------------------------------------------------
(* insert                                                                  *)

\* A list N is L with a range that starts at s1 in slot loc, linked as told.
LastAdded(N, L, loc, s1, s2, next, prior, head, d) ==
    /\ N.data1 = [L.data1 EXCEPT ![loc] = s1]
    /\ N.data2 = [L.data2 EXCEPT ![loc] = IF s2 # s1 THEN s2 ELSE L.data2[loc]]
    /\ N.next = next /\ N.prior = prior /\ N.head = head /\ N.tail = loc /\ N.length = L.length + d
    /\ RcvListRecord(N)

\* What LastNode writes behind the last node,
LEMMA LastNodeIs ==
    ASSUME NEW L, RcvListRecord(L), NEW loc, loc \in Int, NEW s1, NEW s2, NEW d, d \in Int,
           L.length # 0,
           NEW N, N = [LastNode(L, loc, s1, s2) EXCEPT !.length = @ + d]
    PROVE  LastAdded(N, L, loc, s1, s2, [L.next EXCEPT ![L.tail] = loc, ![loc] = -1],
                     [L.prior EXCEPT ![loc] = L.tail], L.head, d)
<1>1. L = [data1 |-> L.data1, data2 |-> L.data2, next |-> L.next, prior |-> L.prior,
           head |-> L.head, tail |-> L.tail, length |-> L.length]
  BY DEF RcvListRecord
<1>2. L.head \in Int /\ L.tail \in Int /\ L.length \in Int
  BY DEF RcvListRecord
<1>3. PICK M : M = LastNode(L, loc, s1, s2)
  OBVIOUS
<1>4. M = [L EXCEPT !.data1[loc] = s1, !.data2[loc] = IF s2 # s1 THEN s2 ELSE L.data2[loc],
                    !.next = [L.next EXCEPT ![L.tail] = loc, ![loc] = -1],
                    !.prior[loc] = L.tail, !.head = L.head, !.tail = loc]
  BY <1>3 DEF LastNode
<1>5. /\ M.data1 = [L.data1 EXCEPT ![loc] = s1]
      /\ M.next = [L.next EXCEPT ![L.tail] = loc, ![loc] = -1]
      /\ M.head = L.head /\ M.tail = loc /\ M.length = L.length
  BY ONLY <1>1, <1>4
<1>6. M.data2 = [L.data2 EXCEPT ![loc] = IF s2 # s1 THEN s2 ELSE L.data2[loc]]
  BY ONLY <1>1, <1>4
<1>7. M.prior = [L.prior EXCEPT ![loc] = L.tail]
  BY ONLY <1>1, <1>4
<1>8. M = [data1 |-> M.data1, data2 |-> M.data2, next |-> M.next, prior |-> M.prior,
           head |-> M.head, tail |-> M.tail, length |-> M.length]
  BY ONLY <1>1, <1>4
<1>9. N = [M EXCEPT !.length = M.length + d]
  BY <1>3
<1>10. /\ N.data1 = M.data1 /\ N.data2 = M.data2 /\ N.next = M.next /\ N.prior = M.prior
       /\ N.head = M.head /\ N.tail = M.tail /\ N.length = M.length + d
       /\ N = [data1 |-> N.data1, data2 |-> N.data2, next |-> N.next, prior |-> N.prior,
               head |-> N.head, tail |-> N.tail, length |-> N.length]
  BY ONLY <1>8, <1>9
<1>11. RcvListRecord(N)
  BY <1>2, <1>5, <1>10 DEF RcvListRecord
<1>. QED  BY <1>5, <1>6, <1>7, <1>10, <1>11 DEF LastAdded

\* and what it writes in an empty list.
LEMMA FirstNodeIs ==
    ASSUME NEW L, RcvListRecord(L), NEW loc, loc \in Int, NEW s1, NEW s2, NEW d, d \in Int,
           L.length = 0,
           NEW N, N = [LastNode(L, loc, s1, s2) EXCEPT !.length = @ + d]
    PROVE  LastAdded(N, L, loc, s1, s2, [L.next EXCEPT ![loc] = -1], [L.prior EXCEPT ![loc] = -1], loc, d)
<1>1. L = [data1 |-> L.data1, data2 |-> L.data2, next |-> L.next, prior |-> L.prior,
           head |-> L.head, tail |-> L.tail, length |-> L.length]
  BY DEF RcvListRecord
<1>2. L.head \in Int /\ L.tail \in Int /\ L.length \in Int
  BY DEF RcvListRecord
<1>3. PICK M : M = LastNode(L, loc, s1, s2)
  OBVIOUS
<1>4. M = [L EXCEPT !.data1[loc] = s1, !.data2[loc] = IF s2 # s1 THEN s2 ELSE L.data2[loc],
                    !.next = [L.next EXCEPT ![loc] = -1],
                    !.prior[loc] = -1, !.head = loc, !.tail = loc]
  BY <1>3 DEF LastNode
<1>5. /\ M.data1 = [L.data1 EXCEPT ![loc] = s1]
      /\ M.next = [L.next EXCEPT ![loc] = -1]
      /\ M.head = loc /\ M.tail = loc /\ M.length = L.length
  BY ONLY <1>1, <1>4
<1>6. M.data2 = [L.data2 EXCEPT ![loc] = IF s2 # s1 THEN s2 ELSE L.data2[loc]]
  BY ONLY <1>1, <1>4
<1>7. M.prior = [L.prior EXCEPT ![loc] = -1]
  BY ONLY <1>1, <1>4
<1>8. M = [data1 |-> M.data1, data2 |-> M.data2, next |-> M.next, prior |-> M.prior,
           head |-> M.head, tail |-> M.tail, length |-> M.length]
  BY ONLY <1>1, <1>4
<1>9. N = [M EXCEPT !.length = M.length + d]
  BY <1>3
<1>10. /\ N.data1 = M.data1 /\ N.data2 = M.data2 /\ N.next = M.next /\ N.prior = M.prior
       /\ N.head = M.head /\ N.tail = M.tail /\ N.length = M.length + d
       /\ N = [data1 |-> N.data1, data2 |-> N.data2, next |-> N.next, prior |-> N.prior,
               head |-> N.head, tail |-> N.tail, length |-> N.length]
  BY ONLY <1>8, <1>9
<1>11. RcvListRecord(N)
  BY <1>2, <1>5, <1>10 DEF RcvListRecord
<1>. QED  BY <1>5, <1>6, <1>7, <1>10, <1>11 DEF LastAdded

\* A range behind all others is added.
LEMMA LastAddedHolds ==
    ASSUME NEW L, NEW sl, NEW S, NEW E, NEW lo, NEW hi, RcvHolds(L, sl, S, E, lo, hi),
           NEW a, a \in lo .. hi, NEW b, b \in a .. hi, \A n \in S : E[n] < a,
           NEW nx, NEW px, NEW h, Chained(nx, px, h, sl[a], RcvListSize, sl, S \cup {a}),
           NEW N, LastAdded(N, L, sl[a], NumberOf(a), NumberOf(b), nx, px, h, b - a + 1)
    PROVE  RcvHoldsNumbers(N, Covered(S, E) \cup (a .. b), lo, hi)
<1>1. /\ RcvArrays(L, sl, S, E, lo, hi) /\ L.length = Cardinality(Covered(S, E))
      /\ Window(RcvListSize, sl, lo, hi) /\ Ranges(S, E, lo, hi) /\ Apart(S, E)
      /\ Holding(L.data1, L.data2, RcvListSize, sl, S, E)
  BY DEF RcvHolds, RcvArrays
<1>2. lo \in Int /\ hi \in Int
  BY <1>1, RcvRead
<1>3. PICK F : F = [E EXCEPT ![a] = b]
  OBVIOUS
<1>4. RangeJoined(S, E, a, b, F, lo, hi)
  <2>1. \A n \in S : E[n] < a \/ b < n
    OBVIOUS
  <2>2. a \in lo .. hi /\ b \in a .. hi
    OBVIOUS
  <2>. QED  BY ONLY <1>1, <1>2, <1>3, <2>1, <2>2, RangeJoins
<1>5. Holding(N.data1, N.data2, RcvListSize, sl, S \cup {a}, F)
  <2>1. PICK e1, e2 : e1 = N.data1 /\ e2 = N.data2
    OBVIOUS
  <2>2. e1 = [L.data1 EXCEPT ![sl[a]] = NumberOf(a)]
    BY <2>1 DEF LastAdded
  <2>3. e2 = [L.data2 EXCEPT ![sl[a]] = IF NumberOf(F[a]) # NumberOf(a) THEN NumberOf(F[a]) ELSE L.data2[sl[a]]]
    BY <1>4, <2>1 DEF LastAdded, RangeJoined
  <2>4. a \notin S /\ \A n \in S : F[n] = E[n]
    BY <1>4 DEF RangeJoined
  <2>5. F[a] \in Int /\ a <= F[a] /\ F[a] <= hi
    BY <1>2, <1>4 DEF RangeJoined
  <2>6. a \in lo .. hi
    OBVIOUS
  <2>7. Holding(e1, e2, RcvListSize, sl, S \cup {a}, F)
    BY ONLY <1>1, <2>2, <2>3, <2>4, <2>5, <2>6, StoredWith
  <2>. QED  BY <2>1, <2>7
<1>6. Chained(N.next, N.prior, N.head, N.tail, RcvListSize, sl, S \cup {a}) /\ RcvListRecord(N)
  BY DEF LastAdded
<1>7. RcvArrays(N, sl, S \cup {a}, F, lo, hi)
  BY <1>1, <1>4, <1>5, <1>6 DEF RcvArrays, RangeJoined
<1>8. N.length = Cardinality(Covered(S \cup {a}, F))
  BY <1>1, <1>4 DEF LastAdded, RangeJoined
<1>9. Covered(S \cup {a}, F) = Covered(S, E) \cup (a .. b)
  BY <1>4 DEF RangeJoined
<1>. QED  BY <1>7, <1>8, <1>9 DEF RcvHolds, RcvHoldsNumbers

\* A range behind all others becomes the tail.
LEMMA AppendHolds ==
    ASSUME NEW L, NEW sl, NEW S, NEW E, NEW lo, NEW hi, RcvHolds(L, sl, S, E, lo, hi),
           NEW a, a \in lo .. hi, NEW b, b \in a .. hi, \A n \in S : E[n] < a, S # {},
           NEW N, N = [LastNode(L, sl[a], NumberOf(a), NumberOf(b)) EXCEPT !.length = @ + (b - a + 1)]
    PROVE  RcvHoldsNumbers(N, Covered(S, E) \cup (a .. b), lo, hi)
<1>1. RcvArrays(L, sl, S, E, lo, hi) /\ L.length # 0
  BY RcvEmpty DEF RcvHolds
<1>2. /\ RcvListRecord(L) /\ Window(RcvListSize, sl, lo, hi)
      /\ Chained(L.next, L.prior, L.head, L.tail, RcvListSize, sl, S)
  BY <1>1 DEF RcvArrays
<1>3. /\ lo \in Int /\ hi \in Int /\ S \subseteq lo .. hi
      /\ \A n \in S : n \in Int /\ E[n] \in Int /\ n <= E[n]
      /\ \A n \in Int : sl[n] \in RcvSlots /\ sl[n] \in Int
      /\ \A m, n \in lo .. hi : sl[m] = sl[n] => m = n
      /\ L.next \in [RcvSlots -> Int]
  BY <1>1, RcvRead
<1>4. a \in Int /\ b \in Int /\ b - a + 1 \in Int /\ sl[a] \in Int
  BY <1>3
<1>5. PICK t \in S : L.tail = sl[t] /\ \A q \in S : q <= t
  BY <1>1, RcvEnds
<1>6. \A n \in S : n < a
  BY <1>3, <1>4
<1>7. a \notin S /\ t < a /\ sl[t] # sl[a]
  <2>1. a \notin S /\ t < a
    BY <1>4, <1>6
  <2>2. t \in lo .. hi /\ t # a
    BY <1>3, <2>1
  <2>. QED  BY <1>3, <2>1, <2>2
<1>8. L.next[sl[t]] = -1
  <2>1. ChainReads(L.next, L.prior, L.head, L.tail, sl, S, t)
    BY <1>2, <1>3, ChainRead
  <2>. QED  BY <1>5, <2>1 DEF ChainReads
<1>9. PICK nx, px : nx = [L.next EXCEPT ![L.tail] = sl[a], ![sl[a]] = -1] /\ px = [L.prior EXCEPT ![sl[a]] = L.tail]
  OBVIOUS
<1>10. LastAdded(N, L, sl[a], NumberOf(a), NumberOf(b), nx, px, L.head, b - a + 1)
  BY <1>1, <1>2, <1>4, <1>9, LastNodeIs
<1>11. nx = LinkedNext(L.next, sl[t], sl[a])
  <2>1. nx = [L.next EXCEPT ![sl[t]] = sl[a], ![sl[a]] = -1]
    BY <1>5, <1>9
  <2>2. LinkedNext(L.next, sl[t], sl[a]) = [L.next EXCEPT ![sl[a]] = -1, ![sl[t]] = sl[a]]
    BY <1>8 DEF LinkedNext
  <2>3. sl[t] \in RcvSlots /\ sl[a] \in RcvSlots /\ sl[t] # sl[a] /\ L.next \in [RcvSlots -> Int]
    BY <1>3, <1>4, <1>7
  <2>. QED  BY ONLY <2>1, <2>2, <2>3
<1>12. px = BackLinked(L.prior, L.next[sl[t]], sl[t], sl[a])
  BY <1>5, <1>8, <1>9 DEF BackLinked
<1>13. sl[a] = LinkedTail(L.tail, sl[t], sl[a])
  BY <1>5 DEF LinkedTail
<1>14. Chained(nx, px, L.head, sl[a], RcvListSize, sl, S \cup {a})
  <2>1. \A q \in S : q <= t \/ a < q
    BY <1>5
  <2>2. S \subseteq lo .. hi
    BY <1>3
  <2>3. a \in lo .. hi /\ t \in S
    OBVIOUS
  <2>4. Chained(LinkedNext(L.next, sl[t], sl[a]), BackLinked(L.prior, L.next[sl[t]], sl[t], sl[a]),
                L.head, LinkedTail(L.tail, sl[t], sl[a]), RcvListSize, sl, S \cup {a})
    BY ONLY <1>2, <1>7, <2>1, <2>2, <2>3, ChainedWith
  <2>. QED  BY <1>11, <1>12, <1>13, <2>4
<1>. QED  BY <1>10, <1>14, LastAddedHolds

\* The first range takes slot 0, and the ring is numbered from there.
LEMMA FirstHolds ==
    ASSUME NEW L, NEW sl, NEW E, NEW lo, NEW hi, RcvHolds(L, sl, {}, E, lo, hi),
           NEW a, a \in lo .. hi, NEW b, b \in a .. hi,
           NEW N, N = [LastNode(L, 0, NumberOf(a), NumberOf(b)) EXCEPT !.length = @ + (b - a + 1)]
    PROVE  RcvHoldsNumbers(N, a .. b, lo, hi)
<1>1. RcvArrays(L, sl, {}, E, lo, hi) /\ L.length = 0
  BY RcvEmpty DEF RcvHolds
<1>2. /\ RcvListRecord(L) /\ Window(RcvListSize, sl, lo, hi) /\ Ranges({}, E, lo, hi)
      /\ Holding(L.data1, L.data2, RcvListSize, sl, {}, E)
      /\ Chained(L.next, L.prior, L.head, L.tail, RcvListSize, sl, {})
  BY <1>1 DEF RcvArrays
<1>3. RcvListSize \in Nat \ {0} /\ lo \in Int /\ hi \in Int /\ a \in Int /\ b \in Int
  BY <1>1, RcvRead
<1>4. PICK r : RingSlots(r, RcvListSize) /\ r[a] = 0
  BY <1>3, RingSlotsFrom
<1>5. PICK S : S = {}
  OBVIOUS
<1>6. Window(RcvListSize, r, lo, hi)
  BY <1>2, <1>4 DEF Window
<1>7. /\ Holding(L.data1, L.data2, RcvListSize, r, S, E)
      /\ Chained(L.next, L.prior, L.head, L.tail, RcvListSize, r, S)
  BY <1>2, <1>5 DEF Holding, Chained, Links, BackLinks, HeadOf, TailOf
<1>8. L.head = -1
  BY <1>2 DEF Chained, HeadOf
<1>9. RcvHolds(L, r, S, E, lo, hi)
  BY <1>2, <1>5, <1>6, <1>7 DEF RcvHolds, RcvArrays
<1>10. PICK nx, px : nx = [L.next EXCEPT ![r[a]] = -1] /\ px = [L.prior EXCEPT ![r[a]] = -1]
  OBVIOUS
<1>11. LastAdded(N, L, r[a], NumberOf(a), NumberOf(b), nx, px, r[a], b - a + 1)
  <2>1. LastAdded(N, L, 0, NumberOf(a), NumberOf(b), [L.next EXCEPT ![0] = -1], [L.prior EXCEPT ![0] = -1], 0, b - a + 1)
    <3>1. b - a + 1 \in Int /\ 0 \in Int
      BY <1>3
    <3>. QED  BY <1>1, <1>2, <3>1, FirstNodeIs
  <2>. QED  BY <1>4, <1>10, <2>1
<1>12. Chained(nx, px, r[a], r[a], RcvListSize, r, S \cup {a})
  <2>1. PICK t : t = IF L.head = -1 THEN r[a] ELSE L.tail
    OBVIOUS
  <2>2. nx = [L.next EXCEPT ![r[a]] = L.head] /\ px = BackLinked(L.prior, L.head, -1, r[a]) /\ t = r[a]
    BY <1>8, <1>10, <2>1 DEF BackLinked
  <2>3. S \subseteq lo .. hi /\ (\A q \in S : a < q) /\ a \in lo .. hi
    BY <1>5
  <2>4. Chained(nx, px, r[a], t, RcvListSize, r, S \cup {a})
    BY ONLY <1>6, <1>7, <2>1, <2>2, <2>3, ChainedFirst
  <2>. QED  BY <2>2, <2>4
<1>13. RcvHoldsNumbers(N, Covered(S, E) \cup (a .. b), lo, hi)
  <2>1. \A n \in S : E[n] < a
    BY <1>5
  <2>2. a \in lo .. hi /\ b \in a .. hi
    OBVIOUS
  <2>. QED  BY ONLY <1>9, <1>11, <1>12, <2>1, <2>2, LastAddedHolds
<1>14. Covered(S, E) = {}
  BY <1>5 DEF Covered
<1>. QED  BY <1>13, <1>14

\* The last range takes the numbers that follow it.
LEMMA StretchHolds ==
    ASSUME NEW L, NEW sl, NEW S, NEW E, NEW lo, NEW hi, RcvHolds(L, sl, S, E, lo, hi),
           NEW t \in S, \A q \in S : q <= t, E[t] # t, NEW b, b \in E[t] + 1 .. hi,
           NEW N, N = [[L EXCEPT !.data2[sl[t]] = NumberOf(b)] EXCEPT !.length = @ + (b - E[t])]
    PROVE  RcvHoldsNumbers(N, Covered(S, E) \cup (E[t] + 1 .. b), lo, hi)
<1>1. RcvArrays(L, sl, S, E, lo, hi) /\ L.length = Cardinality(Covered(S, E))
  BY DEF RcvHolds
<1>2. /\ RcvListRecord(L) /\ Window(RcvListSize, sl, lo, hi) /\ Ranges(S, E, lo, hi) /\ Apart(S, E)
      /\ Holding(L.data1, L.data2, RcvListSize, sl, S, E)
      /\ Chained(L.next, L.prior, L.head, L.tail, RcvListSize, sl, S)
  BY <1>1 DEF RcvArrays
<1>3. /\ lo \in Int /\ hi \in Int /\ t \in Int /\ E[t] \in Int /\ lo <= t /\ t <= E[t] /\ E[t] <= hi
      /\ \A n \in S : n \in Int
  BY <1>1, RcvRead
<1>4. b \in Int /\ b \in t .. hi /\ E[t] < b /\ b # t /\ b <= hi
  BY <1>3
<1>5. PICK F : F = [E EXCEPT ![t] = b]
  OBVIOUS
<1>6. RangeEnds(S, E, t, b, F, lo, hi)
  <2>1. \A q \in S : t < q => b < q
    <3>. TAKE q \in S
    <3>1. q <= t /\ q \in Int
      BY <1>3
    <3>. QED  BY <1>3, <3>1
  <2>2. b \in t .. hi /\ lo \in Int /\ hi \in Int
    BY <1>3, <1>4
  <2>3. t \in S
    OBVIOUS
  <2>. QED  BY ONLY <1>2, <1>5, <2>1, <2>2, <2>3, RangeToEnd
<1>7. /\ N.data1 = L.data1 /\ N.data2 = [L.data2 EXCEPT ![sl[t]] = NumberOf(b)] /\ N.next = L.next
      /\ N.prior = L.prior /\ N.head = L.head /\ N.tail = L.tail /\ N.length = L.length + (b - E[t])
      /\ RcvListRecord(N)
  <2>1. L = [data1 |-> L.data1, data2 |-> L.data2, next |-> L.next, prior |-> L.prior,
             head |-> L.head, tail |-> L.tail, length |-> L.length]
    BY <1>2 DEF RcvListRecord
  <2>2. PICK M : M = [L EXCEPT !.data2[sl[t]] = NumberOf(b)]
    OBVIOUS
  <2>3. /\ M.data1 = L.data1 /\ M.data2 = [L.data2 EXCEPT ![sl[t]] = NumberOf(b)] /\ M.next = L.next
        /\ M.prior = L.prior /\ M.head = L.head /\ M.tail = L.tail /\ M.length = L.length
        /\ M = [data1 |-> M.data1, data2 |-> M.data2, next |-> M.next, prior |-> M.prior,
                head |-> M.head, tail |-> M.tail, length |-> M.length]
    BY ONLY <2>1, <2>2
  <2>4. N = [M EXCEPT !.length = M.length + (b - E[t])]
    BY <2>2
  <2>5. /\ N.data1 = M.data1 /\ N.data2 = M.data2 /\ N.next = M.next
        /\ N.prior = M.prior /\ N.head = M.head /\ N.tail = M.tail /\ N.length = M.length + (b - E[t])
        /\ N = [data1 |-> N.data1, data2 |-> N.data2, next |-> N.next, prior |-> N.prior,
                head |-> N.head, tail |-> N.tail, length |-> N.length]
    BY ONLY <2>3, <2>4
  <2>6. N.length \in Int
    BY <1>2, <1>3, <1>4, <2>3, <2>5 DEF RcvListRecord
  <2>. QED  BY <1>2, <2>3, <2>5, <2>6 DEF RcvListRecord
<1>8. Holding(N.data1, N.data2, RcvListSize, sl, S, F)
  <2>1. PICK d1, d2, e2 : d1 = L.data1 /\ d2 = L.data2 /\ e2 = N.data2
    OBVIOUS
  <2>2. F[t] = b /\ \A n \in S : n # t => F[n] = E[n]
    BY <1>6 DEF RangeEnds
  <2>3. e2 = [d2 EXCEPT ![sl[t]] = NumberOf(F[t])]
    BY <1>7, <2>1, <2>2
  <2>4. F[t] \in Int /\ F[t] <= hi /\ F[t] # t
    BY <1>4, <2>2
  <2>5. Holding(d1, d2, RcvListSize, sl, S, E)
    BY <1>2, <2>1
  <2>6. t \in S
    OBVIOUS
  <2>7. Holding(d1, e2, RcvListSize, sl, S, F)
    BY ONLY <1>2, <2>2, <2>3, <2>4, <2>5, <2>6, StoredToEnd
  <2>. QED  BY <1>7, <2>1, <2>7
<1>9. RcvArrays(N, sl, S, F, lo, hi)
  <2>1. Chained(N.next, N.prior, N.head, N.tail, RcvListSize, sl, S)
    BY <1>2, <1>7
  <2>. QED  BY <1>2, <1>6, <1>7, <1>8, <2>1 DEF RcvArrays, RangeEnds
<1>10. Covered(S, F) = Covered(S, E) \cup (E[t] + 1 .. b)
  <2>1. t .. b = (t .. E[t]) \cup (E[t] + 1 .. b)
    BY <1>3, <1>4
  <2>2. Covered(S, F) = (Covered(S, E) \ (t .. E[t])) \cup (t .. b) /\ t .. E[t] \subseteq Covered(S, E)
    BY <1>6 DEF RangeEnds
  <2>. QED  BY <2>1, <2>2
<1>11. N.length = Cardinality(Covered(S, F))
  <2>1. \A n \in S : n # t => E[n] < t /\ F[n] < t
    <3>. TAKE n \in S
    <3>. HAVE n # t
    <3>1. n < t
      BY <1>3
    <3>2. E[n] < t /\ F[n] = E[n]
      BY <1>2, <1>6, <3>1 DEF Apart, RangeEnds
    <3>. QED  BY <3>2
  <2>2. Cardinality(Covered(S, E)) = Cardinality(Covered(S \ {t}, E)) + (E[t] - t + 1)
    BY <1>2, <1>3, <2>1, CoveredWith
  <2>3. Cardinality(Covered(S, F)) = Cardinality(Covered(S \ {t}, F)) + (F[t] - t + 1)
    <3>1. Ranges(S, F, lo, hi)
      BY <1>6 DEF RangeEnds
    <3>. QED  BY <1>3, <2>1, <3>1, CoveredWith
  <2>4. Covered(S \ {t}, F) = Covered(S \ {t}, E)
    <3>1. \A n \in S \ {t} : F[n] = E[n]
      BY <1>6 DEF RangeEnds
    <3>. QED  BY ONLY <3>1, CoveredElsewhere
  <2>5. PICK c : c = Cardinality(Covered(S \ {t}, E)) /\ c \in Int
    <3>1. Ranges(S \ {t}, E, lo, hi)
      BY <1>2, RangesWithout
    <3>. QED  BY <1>3, <3>1, CoveredIs
  <2>6. F[t] = b
    BY <1>6 DEF RangeEnds
  <2>7. Cardinality(Covered(S, F)) = c + (b - t + 1) /\ N.length = c + (E[t] - t + 1) + (b - E[t])
    BY <1>1, <1>7, <2>2, <2>3, <2>4, <2>5, <2>6
  <2>. QED  BY <1>3, <1>4, <2>5, <2>7
<1>. QED  BY <1>9, <1>10, <1>11 DEF RcvHolds, RcvHoldsNumbers

\* What is passed over joins the list, behind what it holds.
LEMMA InsertLastHolds ==
    ASSUME NEW L, NEW sl, NEW S, NEW E, NEW lo, NEW hi, RcvHolds(L, sl, S, E, lo, hi),
           NEW a, a \in lo .. hi, NEW b, b \in a .. hi, \A n \in S : E[n] < a
    PROVE  RcvHoldsNumbers(InsertLast(L, NumberOf(a), NumberOf(b)), Covered(S, E) \cup (a .. b), lo, hi)
<1>1. RcvArrays(L, sl, S, E, lo, hi) /\ (L.length = 0 <=> S = {})
  BY RcvEmpty DEF RcvHolds
<1>2. Window(RcvListSize, sl, lo, hi) /\ Holding(L.data1, L.data2, RcvListSize, sl, S, E) /\ Ranges(S, E, lo, hi)
  BY <1>1 DEF RcvArrays
<1>3. /\ RcvListSize \in Nat \ {0} /\ lo \in Int /\ hi \in Int
      /\ \A n \in S : n \in Int /\ E[n] \in Int /\ n <= E[n] /\ E[n] <= hi /\ lo <= n
                      /\ n \in lo .. hi + 1 /\ E[n] \in lo .. hi + 1
  BY <1>1, RcvRead
<1>4. a \in Int /\ b \in Int /\ a \in lo .. hi + 1 /\ b \in lo .. hi + 1 /\ a <= b
  BY <1>3
<1>5. seqlen(NumberOf(a), NumberOf(b)) = b - a + 1
  BY <1>2, <1>4, Compare
<1>6. PICK N : N = InsertLast(L, NumberOf(a), NumberOf(b))
  OBVIOUS
<1>7. CASE S = {}
  <2>1. L.length = 0
    BY <1>1, <1>7
  <2>2. N = [LastNode(L, 0, NumberOf(a), NumberOf(b)) EXCEPT !.length = @ + (b - a + 1)]
    BY <1>5, <1>6, <2>1 DEF InsertLast
  <2>3. RcvHolds(L, sl, {}, E, lo, hi)
    BY <1>7
  <2>4. RcvHoldsNumbers(N, a .. b, lo, hi)
    BY <2>2, <2>3, FirstHolds
  <2>5. Covered(S, E) = {}
    BY <1>7 DEF Covered
  <2>. QED  BY <1>6, <2>4, <2>5
<1>8. CASE S # {}
  <2>0. L.length # 0
    BY <1>1, <1>8
  <2>1. PICK h \in S : L.head = sl[h]
    BY <1>1, <1>8, RcvEnds
  <2>2. PICK t \in S : L.tail = sl[t] /\ \A q \in S : q <= t
    BY <1>1, <1>8, RcvEnds
  <2>3. L.data1[L.head] = NumberOf(h) /\ (L.data2[L.tail] = -1 <=> E[t] = t)
        /\ (L.data2[L.tail] # -1 => L.data2[L.tail] = NumberOf(E[t]))
    BY <1>2, <2>1, <2>2, RangeRead
  <2>4. E[t] < a /\ E[t] \in Int /\ t \in Int /\ h \in Int /\ t <= E[t] /\ E[t] + 1 \in lo .. hi + 1
    BY <1>3, <1>4
  <2>5. L.data2[L.tail] # -1 => (incseq(L.data2[L.tail]) = NumberOf(a) <=> E[t] + 1 = a)
    <3>1. incseq(NumberOf(E[t])) = NumberOf(E[t] + 1)
      BY <1>2, <1>3, Compare
    <3>2. NumberOf(E[t] + 1) = NumberOf(a) <=> E[t] + 1 = a
      BY <1>2, <1>4, <2>4, Compare
    <3>. QED  BY <2>3, <3>1, <3>2
  <2>6. CASE L.data2[L.tail] # -1 /\ incseq(L.data2[L.tail]) = NumberOf(a)
    <3>1. E[t] # t /\ E[t] + 1 = a /\ b - a + 1 = b - E[t]
      BY <1>4, <2>3, <2>4, <2>5, <2>6
    <3>2. N = [[L EXCEPT !.data2[sl[t]] = NumberOf(b)] EXCEPT !.length = @ + (b - E[t])]
      BY <1>5, <1>6, <2>0, <2>2, <2>6, <3>1 DEF InsertLast
    <3>3. b \in E[t] + 1 .. hi
      BY <3>1
    <3>4. RcvHoldsNumbers(N, Covered(S, E) \cup (E[t] + 1 .. b), lo, hi)
      BY <2>2, <3>1, <3>2, <3>3, StretchHolds
    <3>. QED  BY <1>6, <3>1, <3>4
  <2>7. CASE ~(L.data2[L.tail] # -1 /\ incseq(L.data2[L.tail]) = NumberOf(a))
    <3>1. (L.head + seqoff(L.data1[L.head], NumberOf(a))) % RcvListSize = sl[a]
      <4>1. seqoff(NumberOf(h), NumberOf(a)) = a - h
        BY <1>2, <1>3, <1>4, Compare
      <4>2. RingSlots(sl, RcvListSize)
        BY <1>2 DEF Window
      <4>3. (sl[h] + (a - h)) % RcvListSize = sl[a]
        BY <1>3, <1>4, <2>4, <4>2, SlotIs
      <4>. QED  BY <2>1, <2>3, <4>1, <4>3
    <3>2. N = [LastNode(L, sl[a], NumberOf(a), NumberOf(b)) EXCEPT !.length = @ + (b - a + 1)]
      BY <1>5, <1>6, <2>0, <2>7, <3>1 DEF InsertLast
    <3>3. RcvHoldsNumbers(N, Covered(S, E) \cup (a .. b), lo, hi)
      BY <1>8, <3>2, AppendHolds
    <3>. QED  BY <1>6, <3>3
  <2>. QED  BY <2>6, <2>7
<1>. QED  BY <1>7, <1>8

-----------------------------------------------------------------------------
(* remove                                                                  *)

\* One number less.
LEMMA OneLessHolds ==
    ASSUME NEW L, NEW sl, NEW S, NEW E, NEW lo, NEW hi, RcvHolds(L, sl, S, E, lo, hi),
           NEW M, NEW T, NEW F, RcvArrays(M, sl, T, F, lo, hi), M.length = L.length,
           NEW x, x \in Covered(S, E), Covered(T, F) = Covered(S, E) \ {x}
    PROVE  RcvHoldsNumbers(OneLess(M), Covered(S, E) \ {x}, lo, hi)
<1>1. RcvArrays(L, sl, S, E, lo, hi) /\ L.length = Cardinality(Covered(S, E))
  BY DEF RcvHolds
<1>2. lo \in Int /\ hi \in Int /\ Ranges(S, E, lo, hi)
  BY <1>1, RcvRead DEF RcvArrays
<1>3. IsFiniteSet(Covered(S, E)) /\ Cardinality(Covered(S, E)) \in Nat
  BY <1>2, CoveredIs
<1>4. Cardinality(Covered(S, E) \ {x}) = Cardinality(Covered(S, E)) - 1
  BY <1>3, FS_RemoveElement
<1>5. M = [data1 |-> M.data1, data2 |-> M.data2, next |-> M.next, prior |-> M.prior,
           head |-> M.head, tail |-> M.tail, length |-> M.length] /\ M.length \in Int
  BY DEF RcvArrays, RcvListRecord
<1>6. PICK N : N = OneLess(M)
  OBVIOUS
<1>7. N = [M EXCEPT !.length = M.length - 1]
  BY <1>6 DEF OneLess
<1>8. /\ N.data1 = M.data1 /\ N.data2 = M.data2 /\ N.next = M.next
      /\ N.prior = M.prior /\ N.head = M.head /\ N.tail = M.tail /\ N.length = M.length - 1
      /\ N = [data1 |-> N.data1, data2 |-> N.data2, next |-> N.next, prior |-> N.prior,
              head |-> N.head, tail |-> N.tail, length |-> N.length]
  BY ONLY <1>5, <1>7
<1>9. RcvListRecord(N)
  BY <1>5, <1>8 DEF RcvListRecord, RcvArrays
<1>10. RcvArrays(N, sl, T, F, lo, hi)
  BY <1>8, <1>9 DEF RcvArrays
<1>11. N.length = Cardinality(Covered(T, F))
  BY <1>1, <1>4, <1>8
<1>. QED  BY <1>6, <1>10, <1>11 DEF RcvHolds, RcvHoldsNumbers

\* A range of one number is unlinked.
LEMMA UnlinkHolds ==
    ASSUME NEW L, NEW sl, NEW S, NEW E, NEW lo, NEW hi, RcvHolds(L, sl, S, E, lo, hi),
           NEW x \in S, E[x] = x
    PROVE  RcvHoldsNumbers(OneLess(Unlink(L, sl[x])), Covered(S, E) \ {x}, lo, hi)
<1>1. RcvArrays(L, sl, S, E, lo, hi)
  BY DEF RcvHolds
<1>2. /\ RcvListRecord(L) /\ Window(RcvListSize, sl, lo, hi) /\ Ranges(S, E, lo, hi) /\ Apart(S, E)
      /\ Holding(L.data1, L.data2, RcvListSize, sl, S, E)
      /\ Chained(L.next, L.prior, L.head, L.tail, RcvListSize, sl, S)
  BY <1>1 DEF RcvArrays
<1>3. lo \in Int /\ hi \in Int /\ x \in Int /\ S \subseteq lo .. hi /\ sl[x] \in RcvSlots
      /\ L.data2 \in [RcvSlots -> Int]
  BY <1>1, RcvRead
<1>4. PICK M : M = Unlink(L, sl[x])
  OBVIOUS
<1>5. ChainReads(L.next, L.prior, L.head, L.tail, sl, S, x)
  BY <1>2, <1>3, ChainRead
<1>6. PICK i, n, p : i = sl[x] /\ n = L.next[i] /\ p = L.prior[i]
  OBVIOUS
<1>7. M = [L EXCEPT !.data1[i] = -1,
                    !.head = IF L.head = i THEN n ELSE L.head,
                    !.next = IF L.head = i THEN L.next ELSE [L.next EXCEPT ![p] = n],
                    !.prior = IF n = -1 THEN L.prior ELSE [L.prior EXCEPT ![n] = IF L.head = i THEN -1 ELSE p],
                    !.tail = IF L.head # i /\ n = -1 THEN p ELSE L.tail]
  BY <1>4, <1>6 DEF Unlink
<1>8. L = [data1 |-> L.data1, data2 |-> L.data2, next |-> L.next, prior |-> L.prior,
           head |-> L.head, tail |-> L.tail, length |-> L.length]
  BY <1>2 DEF RcvListRecord
<1>9. M.data1 = [L.data1 EXCEPT ![i] = -1] /\ M.data2 = L.data2 /\ M.length = L.length
  BY ONLY <1>7, <1>8
<1>10. M.head = (IF L.head = i THEN n ELSE L.head) /\ M.tail = (IF L.head # i /\ n = -1 THEN p ELSE L.tail)
  BY ONLY <1>7, <1>8
<1>11. M.next = IF L.head = i THEN L.next ELSE [L.next EXCEPT ![p] = n]
  BY ONLY <1>7, <1>8
<1>12. M.prior = IF n = -1 THEN L.prior ELSE [L.prior EXCEPT ![n] = IF L.head = i THEN -1 ELSE p]
  BY ONLY <1>7, <1>8
<1>13. M = [data1 |-> M.data1, data2 |-> M.data2, next |-> M.next, prior |-> M.prior,
            head |-> M.head, tail |-> M.tail, length |-> M.length]
  BY ONLY <1>7, <1>8
<1>14. p = IF L.head = i THEN -1 ELSE p
  BY <1>5, <1>6 DEF ChainReads
<1>15. Chained(M.next, M.prior, M.head, M.tail, RcvListSize, sl, S \ {x})
  <2>1. M.next = UnlinkedNext(L.next, L.prior, L.head, sl[x])
    BY <1>6, <1>11 DEF UnlinkedNext
  <2>2. M.prior = UnlinkedPrior(L.next, L.prior, sl[x])
    BY <1>6, <1>12, <1>14 DEF UnlinkedPrior
  <2>3. M.head = UnlinkedHead(L.next, L.head, sl[x]) /\ M.tail = UnlinkedTail(L.next, L.prior, L.head, L.tail, sl[x])
    BY <1>6, <1>10 DEF UnlinkedHead, UnlinkedTail
  <2>4. Chained(UnlinkedNext(L.next, L.prior, L.head, sl[x]), UnlinkedPrior(L.next, L.prior, sl[x]),
                UnlinkedHead(L.next, L.head, sl[x]), UnlinkedTail(L.next, L.prior, L.head, L.tail, sl[x]),
                RcvListSize, sl, S \ {x})
    BY <1>2, <1>3, ChainedWithout
  <2>. QED  BY <2>1, <2>2, <2>3, <2>4
<1>16. Holding(M.data1, M.data2, RcvListSize, sl, S \ {x}, E)
  <2>1. PICK e1, e2 : e1 = M.data1 /\ e2 = M.data2
    OBVIOUS
  <2>2. e1 = [L.data1 EXCEPT ![sl[x]] = -1]
    BY <1>6, <1>9, <2>1
  <2>3. L.data2[sl[x]] = -1
    BY <1>2, RangeRead
  <2>4. e2 = [L.data2 EXCEPT ![sl[x]] = -1]
    BY <1>3, <1>9, <2>1, <2>3
  <2>5. x \in S
    OBVIOUS
  <2>6. Holding(e1, e2, RcvListSize, sl, S \ {x}, E)
    BY ONLY <1>2, <2>2, <2>4, <2>5, StoredWithout
  <2>. QED  BY <2>1, <2>6
<1>17. RangeGone(S, E, x, lo, hi)
  BY <1>2, <1>3, RangeGoes
<1>18. RcvListRecord(M)
  <2>1. \A j : HeadOf(sl, S \ {x}, j) => j \in Int
    <3>1. \A m \in S : sl[m] \in Int
      BY <1>1, RcvRead
    <3>. QED  BY <3>1 DEF HeadOf
  <2>2. M.head \in Int
    BY <1>15, <2>1 DEF Chained
  <2>3. p \in Int
    BY <1>1, <1>3, <1>6, RcvRead
  <2>4. M.tail \in Int /\ M.length \in Int
    BY <1>2, <1>9, <1>10, <2>3 DEF RcvListRecord
  <2>. QED  BY <1>13, <2>2, <2>4 DEF RcvListRecord
<1>19. PICK T : T = S \ {x}
  OBVIOUS
<1>20. RcvArrays(M, sl, T, E, lo, hi)
  BY <1>2, <1>15, <1>16, <1>17, <1>18, <1>19 DEF RcvArrays, RangeGone
<1>21. Covered(T, E) = Covered(S, E) \ {x} /\ x \in Covered(S, E)
  <2>1. x .. E[x] = {x}
    BY <1>3
  <2>. QED  BY <1>17, <1>19, <2>1 DEF RangeGone
<1>22. M.length = L.length
  BY <1>9
<1>23. RcvHoldsNumbers(OneLess(M), Covered(S, E) \ {x}, lo, hi)
  BY <1>20, <1>21, <1>22, OneLessHolds
<1>. QED  BY <1>4, <1>23

\* N is L, with what slot i has moved to slot j.
NodeShifted(N, L, i, j, v, w) ==
    /\ N.data1 = [L.data1 EXCEPT ![j] = v, ![i] = -1]
    /\ N.data2 = [L.data2 EXCEPT ![j] = w, ![i] = -1]
    /\ N.next = ShiftedNext(L.next, L.prior, L.head, i, j)
    /\ N.prior = ShiftedPrior(L.next, L.prior, L.tail, i, j)
    /\ N.head = MovedEnd(L.head, i, j) /\ N.tail = MovedEnd(L.tail, i, j) /\ N.length = L.length
    /\ RcvListRecord(N)

\* What Shift writes.
LEMMA ShiftIs ==
    ASSUME NEW L, RcvListRecord(L), L.next \in [RcvSlots -> Int], L.prior \in [RcvSlots -> Int],
           NEW i, i \in RcvSlots, NEW j, j \in RcvSlots, j = (i + 1) % RcvListSize,
           NEW v, v = incseq(L.data1[i]),
           NEW w, w = IF seqcmp(L.data2[i], incseq(L.data1[i])) > 0 THEN L.data2[i] ELSE L.data2[j]
    PROVE  NodeShifted(Shift(L, i), L, i, j, v, w)
<1>1. L = [data1 |-> L.data1, data2 |-> L.data2, next |-> L.next, prior |-> L.prior,
           head |-> L.head, tail |-> L.tail, length |-> L.length]
  BY DEF RcvListRecord
<1>2. L.head \in Int /\ L.tail \in Int /\ L.length \in Int
  BY DEF RcvListRecord
<1>3. PICK M : M = [L EXCEPT !.data1 = [L.data1 EXCEPT ![j] = v, ![i] = -1],
                             !.data2 = [L.data2 EXCEPT ![j] = w, ![i] = -1],
                             !.next[j] = L.next[i], !.prior[j] = L.prior[i]]
  OBVIOUS
<1>4. M.data1 = [L.data1 EXCEPT ![j] = v, ![i] = -1] /\ M.head = L.head /\ M.tail = L.tail /\ M.length = L.length
  BY ONLY <1>1, <1>3
<1>5. M.data2 = [L.data2 EXCEPT ![j] = w, ![i] = -1]
  BY ONLY <1>1, <1>3
<1>6. M.next = [L.next EXCEPT ![j] = L.next[i]]
  BY ONLY <1>1, <1>3
<1>7. M.prior = [L.prior EXCEPT ![j] = L.prior[i]]
  BY ONLY <1>1, <1>3
<1>8. M = [data1 |-> M.data1, data2 |-> M.data2, next |-> M.next, prior |-> M.prior,
           head |-> M.head, tail |-> M.tail, length |-> M.length]
  BY ONLY <1>1, <1>3
<1>9. PICK N : N = Shift(L, i)
  OBVIOUS
<1>10. N = [M EXCEPT !.next = IF L.head = i THEN M.next ELSE [M.next EXCEPT ![M.prior[j]] = j],
                     !.head = IF M.head = i THEN j ELSE M.head,
                     !.prior = IF L.tail = i THEN M.prior ELSE [M.prior EXCEPT ![M.next[j]] = j],
                     !.tail = IF M.tail = i THEN j ELSE M.tail]
  <2>1. Moved(L, i, j) = M
    BY <1>3 DEF Moved
  <2>. QED  BY <1>9, <2>1 DEF Shift
<1>11. N.next = IF L.head = i THEN M.next ELSE [M.next EXCEPT ![M.prior[j]] = j]
  BY ONLY <1>8, <1>10
<1>12. N.prior = IF L.tail = i THEN M.prior ELSE [M.prior EXCEPT ![M.next[j]] = j]
  BY ONLY <1>8, <1>10
<1>13. /\ N.data1 = M.data1 /\ N.data2 = M.data2 /\ N.length = M.length
       /\ N.head = (IF M.head = i THEN j ELSE M.head) /\ N.tail = (IF M.tail = i THEN j ELSE M.tail)
  BY ONLY <1>8, <1>10
<1>14. N = [data1 |-> N.data1, data2 |-> N.data2, next |-> N.next, prior |-> N.prior,
            head |-> N.head, tail |-> N.tail, length |-> N.length]
  BY ONLY <1>8, <1>10
<1>15. M.next[j] = L.next[i] /\ M.prior[j] = L.prior[i]
  BY <1>6, <1>7
<1>16. N.next = ShiftedNext(L.next, L.prior, L.head, i, j)
  BY <1>6, <1>11, <1>15 DEF ShiftedNext
<1>17. N.prior = ShiftedPrior(L.next, L.prior, L.tail, i, j)
  BY <1>7, <1>12, <1>15 DEF ShiftedPrior
<1>18. N.head = MovedEnd(L.head, i, j) /\ N.tail = MovedEnd(L.tail, i, j)
  BY <1>4, <1>13 DEF MovedEnd
<1>19. j \in Int
  BY RcvLossListAssumption DEF RcvSlots
<1>20. N.head \in Int /\ N.tail \in Int /\ N.length \in Int
  BY <1>2, <1>4, <1>13, <1>19
<1>21. RcvListRecord(N)
  BY <1>14, <1>20 DEF RcvListRecord
<1>. QED  BY <1>4, <1>5, <1>9, <1>13, <1>16, <1>17, <1>18, <1>21 DEF NodeShifted

\* A range of more numbers loses its first and moves to the next slot.
LEMMA ShiftHolds ==
    ASSUME NEW L, NEW sl, NEW S, NEW E, NEW lo, NEW hi, RcvHolds(L, sl, S, E, lo, hi),
           NEW x \in S, E[x] # x
    PROVE  RcvHoldsNumbers(OneLess(Shift(L, sl[x])), Covered(S, E) \ {x}, lo, hi)
<1>1. RcvArrays(L, sl, S, E, lo, hi)
  BY DEF RcvHolds
<1>2. /\ RcvListRecord(L) /\ Window(RcvListSize, sl, lo, hi) /\ Ranges(S, E, lo, hi) /\ Apart(S, E)
      /\ Holding(L.data1, L.data2, RcvListSize, sl, S, E)
      /\ Chained(L.next, L.prior, L.head, L.tail, RcvListSize, sl, S)
  BY <1>1 DEF RcvArrays
<1>3. /\ lo \in Int /\ hi \in Int /\ x \in Int /\ S \subseteq lo .. hi
      /\ E[x] \in Int /\ lo <= x /\ x <= E[x] /\ E[x] <= hi
      /\ x \in lo .. hi + 1 /\ E[x] \in lo .. hi + 1
      /\ L.data1 \in [RcvSlots -> Int] /\ L.data2 \in [RcvSlots -> Int]
      /\ L.next \in [RcvSlots -> Int] /\ L.prior \in [RcvSlots -> Int]
      /\ \A n \in Int : sl[n] \in RcvSlots
      /\ \A m, n \in lo .. hi : sl[m] = sl[n] => m = n
      /\ \A n \in S : n \in Int
      /\ RcvListSize \in Nat \ {0}
  BY <1>1, RcvRead
<1>4. PICK a : a = x + 1
  OBVIOUS
<1>5. a \in Int /\ a \in lo .. hi /\ a \in lo .. hi + 1 /\ x < a /\ a <= E[x] /\ x \in lo .. hi
  BY <1>3, <1>4
<1>6. \A q \in S : q <= x \/ a < q
  <2>. TAKE q \in S
  <2>1. x < q => E[x] < q
    BY <1>2 DEF Apart
  <2>. QED  BY <1>3, <1>5, <2>1
<1>7. a \notin S /\ sl[a] # sl[x]
  BY <1>3, <1>5, <1>6
<1>8. PICK i, j : i = sl[x] /\ j = sl[a]
  OBVIOUS
<1>9. i \in RcvSlots /\ j \in RcvSlots /\ i # j
  BY <1>3, <1>5, <1>7, <1>8
<1>10. j = (i + 1) % RcvListSize
  <2>1. RingSlots(sl, RcvListSize)
    BY <1>2 DEF Window
  <2>2. (sl[x] + 1) % RcvListSize = sl[x + 1]
    <3>1. x \in Int /\ RcvListSize \in Nat \ {0}
      BY <1>3
    <3>. QED  BY ONLY <2>1, <3>1, SlotIs
  <2>. QED  BY <1>4, <1>8, <2>2
<1>11. /\ L.data1[i] = NumberOf(x) /\ L.data2[i] = NumberOf(E[x])
       /\ incseq(NumberOf(x)) = NumberOf(a)
       /\ (seqcmp(NumberOf(E[x]), NumberOf(a)) > 0 <=> E[x] > a)
       /\ (NumberOf(E[x]) = NumberOf(a) <=> E[x] = a)
  <2>1. L.data1[i] = NumberOf(x) /\ L.data2[i] = NumberOf(E[x])
    BY <1>2, <1>8, RangeRead
  <2>2. incseq(NumberOf(x)) = NumberOf(a)
    BY <1>2, <1>3, <1>4, Compare
  <2>3. (seqcmp(NumberOf(E[x]), NumberOf(a)) > 0 <=> E[x] > a) /\ (NumberOf(E[x]) = NumberOf(a) <=> E[x] = a)
    <3>1. Window(RcvListSize, sl, lo, hi)
      BY <1>2
    <3>2. E[x] \in lo .. hi + 1
      BY <1>3
    <3>3. a \in lo .. hi + 1
      BY <1>5
    <3>. QED  BY ONLY <3>1, <3>2, <3>3, Compare
  <2>. QED  BY <2>1, <2>2, <2>3
<1>12. PICK w : w = IF NumberOf(E[x]) # NumberOf(a) THEN NumberOf(E[x]) ELSE L.data2[j]
  OBVIOUS
<1>13. w = IF seqcmp(L.data2[i], incseq(L.data1[i])) > 0 THEN L.data2[i] ELSE L.data2[j]
  <2>1. E[x] > a <=> E[x] # a
    BY <1>3, <1>5
  <2>. QED  BY <1>11, <1>12, <2>1
<1>14. PICK M : M = Shift(L, i)
  OBVIOUS
<1>15. NodeShifted(M, L, i, j, NumberOf(a), w)
  <2>1. NumberOf(a) = incseq(L.data1[i])
    BY <1>11
  <2>2. L.next \in [RcvSlots -> Int] /\ L.prior \in [RcvSlots -> Int]
    BY <1>3
  <2>. QED  BY ONLY <1>2, <1>9, <1>10, <1>13, <1>14, <2>1, <2>2, ShiftIs
<1>16. PICK T : T = (S \ {x}) \cup {a}
  OBVIOUS
<1>17. Chained(M.next, M.prior, M.head, M.tail, RcvListSize, sl, T)
  <2>1. Chained(ShiftedNext(L.next, L.prior, L.head, sl[x], sl[a]), ShiftedPrior(L.next, L.prior, L.tail, sl[x], sl[a]),
                MovedEnd(L.head, sl[x], sl[a]), MovedEnd(L.tail, sl[x], sl[a]), RcvListSize, sl, (S \ {x}) \cup {a})
    BY <1>2, <1>3, <1>5, <1>6, ChainedShift
  <2>. QED  BY <1>8, <1>15, <1>16, <2>1 DEF NodeShifted
<1>18. RangeGone(S, E, x, lo, hi)
  BY <1>2, <1>3, RangeGoes
<1>19. PICK R : R = S \ {x}
  OBVIOUS
<1>20. Ranges(R, E, lo, hi) /\ Apart(R, E) /\ Covered(R, E) = Covered(S, E) \ (x .. E[x]) /\ x .. E[x] \subseteq Covered(S, E)
  BY <1>18, <1>19 DEF RangeGone
<1>21. PICK F : F = [E EXCEPT ![a] = E[x]]
  OBVIOUS
<1>22. RangeJoined(R, E, a, E[x], F, lo, hi)
  <2>1. \A n \in R : E[n] < a \/ E[x] < n
    <3>. TAKE n \in R
    <3>1. n \in S /\ n # x /\ n \in Int
      BY <1>3, <1>19
    <3>2. CASE n < x
      <4>1. E[n] < x /\ E[n] \in Int
        BY <1>2, <3>1, <3>2 DEF Apart, Ranges
      <4>. QED  BY <1>3, <1>5, <4>1
    <3>3. CASE x < n
      BY <1>2, <3>1, <3>3 DEF Apart
    <3>. QED  BY <1>3, <3>1, <3>2, <3>3
  <2>2. lo \in Int /\ hi \in Int /\ a \in lo .. hi /\ E[x] \in a .. hi
    BY <1>3, <1>5
  <2>. QED  BY ONLY <1>20, <1>21, <2>1, <2>2, RangeJoins
<1>23. Holding(M.data1, M.data2, RcvListSize, sl, T, F)
  <2>1. PICK d1, d2 : d1 = [L.data1 EXCEPT ![sl[x]] = -1] /\ d2 = [L.data2 EXCEPT ![sl[x]] = -1]
    OBVIOUS
  <2>2. Holding(d1, d2, RcvListSize, sl, R, E)
    <3>1. x \in S
      OBVIOUS
    <3>2. Holding(d1, d2, RcvListSize, sl, S \ {x}, E)
      BY ONLY <1>2, <2>1, <3>1, StoredWithout
    <3>. QED  BY <1>19, <3>2
  <2>3. PICK e1, e2 : e1 = M.data1 /\ e2 = M.data2
    OBVIOUS
  <2>4. F[a] = E[x] /\ a \notin R /\ \A n \in R : F[n] = E[n]
    BY <1>22 DEF RangeJoined
  <2>5. e1 = [d1 EXCEPT ![sl[a]] = NumberOf(a)]
    <3>1. e1 = [L.data1 EXCEPT ![j] = NumberOf(a), ![i] = -1]
      BY <1>15, <2>3 DEF NodeShifted
    <3>2. d1 = [L.data1 EXCEPT ![i] = -1]
      BY <1>8, <2>1
    <3>3. L.data1 \in [RcvSlots -> Int]
      BY <1>3
    <3>4. e1 = [d1 EXCEPT ![j] = NumberOf(a)]
      BY ONLY <1>9, <3>1, <3>2, <3>3
    <3>. QED  BY <1>8, <3>4
  <2>6. e2 = [d2 EXCEPT ![sl[a]] = w]
    <3>1. e2 = [L.data2 EXCEPT ![j] = w, ![i] = -1]
      BY <1>15, <2>3 DEF NodeShifted
    <3>2. d2 = [L.data2 EXCEPT ![i] = -1]
      BY <1>8, <2>1
    <3>3. L.data2 \in [RcvSlots -> Int]
      BY <1>3
    <3>4. e2 = [d2 EXCEPT ![j] = w]
      BY ONLY <1>9, <3>1, <3>2, <3>3
    <3>. QED  BY <1>8, <3>4
  <2>7. (E[x] = a /\ w = -1) \/ (E[x] # a /\ w = NumberOf(E[x]))
    <3>1. L.data2[j] = -1
      BY <1>2, <1>5, <1>7, <1>8, StartsAt
    <3>. QED  BY <1>11, <1>12, <3>1
  <2>8. Window(RcvListSize, sl, lo, hi) /\ Ranges(R, E, lo, hi)
    BY <1>2, <1>20
  <2>9. Holding(e1, e2, RcvListSize, sl, R \cup {a}, F)
    <3>1. a \in lo .. hi /\ a \notin R
      BY <1>5, <2>4
    <3>2. E[x] \in a .. hi
      BY <1>3, <1>5
    <3>3. F[a] = E[x] /\ \A n \in R : F[n] = E[n]
      BY <2>4
    <3>. QED  BY ONLY <2>2, <2>5, <2>6, <2>7, <2>8, <3>1, <3>2, <3>3, StoredJoin
  <2>. QED  BY <1>16, <1>19, <2>3, <2>9
<1>24. T = R \cup {a}
  BY <1>16, <1>19
<1>25. RcvArrays(M, sl, T, F, lo, hi)
  <2>1. Ranges(T, F, lo, hi) /\ Apart(T, F)
    BY <1>22, <1>24 DEF RangeJoined
  <2>2. RcvListRecord(M)
    BY <1>15 DEF NodeShifted
  <2>. QED  BY <1>2, <1>17, <1>23, <2>1, <2>2 DEF RcvArrays
<1>26. Covered(T, F) = Covered(S, E) \ {x} /\ x \in Covered(S, E)
  <2>1. x .. E[x] = {x} \cup (a .. E[x]) /\ x \notin a .. E[x]
    BY <1>3, <1>4
  <2>2. Covered(T, F) = Covered(R, E) \cup (a .. E[x])
    BY <1>22, <1>24 DEF RangeJoined
  <2>. QED  BY <1>20, <2>1, <2>2
<1>27. M.length = L.length
  BY <1>15 DEF NodeShifted
<1>28. RcvHoldsNumbers(OneLess(M), Covered(S, E) \ {x}, lo, hi)
  BY <1>25, <1>26, <1>27, OneLessHolds
<1>. QED  BY <1>8, <1>14, <1>28


\* What a range that starts in slot i is given, to end before s.
EndOf(d1, i, s) == IF s = incseq(d1[i]) THEN -1 ELSE decseq(s)

\* A range ends before x.
LEMMA RangeCut ==
    ASSUME NEW d1, NEW d2, NEW sl, NEW S, NEW E, NEW lo, NEW hi,
           Window(RcvListSize, sl, lo, hi), Ranges(S, E, lo, hi), Apart(S, E),
           Holding(d1, d2, RcvListSize, sl, S, E),
           NEW p, p \in S, NEW x, x \in Int, p < x, x <= E[p], 
           NEW e2, e2 = [d2 EXCEPT ![sl[p]] = EndOf(d1, sl[p], NumberOf(x))]
    PROVE  \E F : RangeEnds(S, E, p, x - 1, F, lo, hi) /\ Holding(d1, e2, RcvListSize, sl, S, F)
<1>1. /\ lo \in Int /\ hi \in Int /\ p \in Int /\ E[p] \in Int /\ x \in Int
      /\ lo <= p /\ p < x /\ x <= E[p] /\ E[p] <= hi
  BY WindowIs DEF Ranges
<1>2. PICK e, F : e = x - 1 /\ F = [E EXCEPT ![p] = e]
  OBVIOUS
<1>3. e \in p .. hi /\ e \in Int /\ e <= hi /\ e < E[p] /\ F = [E EXCEPT ![p] = e] /\ p + 1 \in lo .. hi + 1 /\ x \in lo .. hi + 1
  BY <1>1, <1>2
<1>4. \A q \in S : p < q => e < q
  <2>. TAKE q \in S
  <2>. HAVE p < q
  <2>1. E[p] < q /\ q \in Int
    BY DEF Apart, Ranges
  <2>. QED  BY <1>1, <1>3, <2>1
<1>5. RangeEnds(S, E, p, e, F, lo, hi)
  BY ONLY <1>1, <1>3, <1>4, RangeToEnd, Ranges(S, E, lo, hi), Apart(S, E), p \in S
<1>6. F[p] = e /\ \A n \in S : n # p => F[n] = E[n]
  BY <1>5 DEF RangeEnds
<1>7. d1[sl[p]] = NumberOf(p) /\ incseq(NumberOf(p)) = NumberOf(p + 1) /\ decseq(NumberOf(x)) = NumberOf(e)
      /\ (NumberOf(x) = NumberOf(p + 1) <=> x = p + 1)
  <2>1. d1[sl[p]] = NumberOf(p)
    BY RangeRead
  <2>2. p \in lo .. hi + 1
    BY <1>1
  <2>3. incseq(NumberOf(p)) = NumberOf(p + 1)
    BY <2>2, Compare
  <2>4. decseq(NumberOf(x)) = NumberOf(e)
    BY <1>2, <1>3, Compare
  <2>5. NumberOf(x) = NumberOf(p + 1) <=> x = p + 1
    BY ONLY <1>3, Compare, Window(RcvListSize, sl, lo, hi)
  <2>. QED  BY <2>1, <2>3, <2>4, <2>5
<1>0. PICK v : v = EndOf(d1, sl[p], NumberOf(x))
  OBVIOUS
<1>10. e2 = [d2 EXCEPT ![sl[p]] = v]
  BY <1>0
<1>11. v = IF NumberOf(x) = incseq(d1[sl[p]]) THEN -1 ELSE decseq(NumberOf(x))
  BY <1>0 DEF EndOf
<1>12. Holding(d1, d2, RcvListSize, sl, S, E) /\ Window(RcvListSize, sl, lo, hi) /\ Ranges(S, E, lo, hi) /\ p \in S
  OBVIOUS
<1>8. CASE x = p + 1
  <2>1. v = -1
    BY <1>7, <1>8, <1>11
  <2>2. F[p] = p
    BY <1>1, <1>2, <1>6, <1>8
  <2>4. \A n \in S : n # p => F[n] = E[n]
    BY <1>6
  <2>5. Holding(d1, e2, RcvListSize, sl, S, F)
    <3>1. Holding(d1, d2, RcvListSize, sl, S, E)
      OBVIOUS
    <3>2. Window(RcvListSize, sl, lo, hi)
      OBVIOUS
    <3>3. Ranges(S, E, lo, hi)
      OBVIOUS
    <3>4. p \in S
      OBVIOUS
    <3>. QED  BY ONLY <3>1, <3>2, <3>3, <3>4, <1>10, <2>1, <2>2, <2>4, StoredToStart
  <2>. QED  BY <1>2, <1>5, <2>5
<1>9. CASE x # p + 1
  <2>1. e2 = [d2 EXCEPT ![sl[p]] = NumberOf(F[p])]
    <3>1. v = NumberOf(e)
      BY <1>7, <1>9, <1>11
    <3>. QED  BY <1>6, <1>10, <3>1
  <2>2. F[p] # p /\ F[p] \in Int /\ F[p] <= hi
    BY <1>1, <1>2, <1>3, <1>6, <1>9
  <2>3. Holding(d1, e2, RcvListSize, sl, S, F)
    BY ONLY <1>6, <1>12, <2>1, <2>2, StoredToEnd
  <2>. QED  BY <1>2, <1>5, <2>3
<1>. QED  BY <1>8, <1>9

\* A range of more numbers loses its last.
LEMMA EndBeforeHolds ==
    ASSUME NEW L, NEW sl, NEW S, NEW E, NEW lo, NEW hi, RcvHolds(L, sl, S, E, lo, hi),
           NEW p \in S, NEW x, x = E[p], p < x
    PROVE  RcvHoldsNumbers(OneLess(EndBefore(L, sl[p], NumberOf(x))), Covered(S, E) \ {x}, lo, hi)
<1>1. RcvArrays(L, sl, S, E, lo, hi)
  BY DEF RcvHolds
<1>2. /\ RcvListRecord(L) /\ Window(RcvListSize, sl, lo, hi) /\ Ranges(S, E, lo, hi) /\ Apart(S, E)
      /\ Holding(L.data1, L.data2, RcvListSize, sl, S, E)
      /\ Chained(L.next, L.prior, L.head, L.tail, RcvListSize, sl, S)
  BY <1>1 DEF RcvArrays
<1>3. lo \in Int /\ hi \in Int /\ p \in Int /\ x \in Int /\ p < x /\ x <= E[p]
  BY <1>1, RcvRead
<1>4. PICK i, s : i = sl[p] /\ s = NumberOf(x)
  OBVIOUS
<1>5. PICK v : v = EndOf(L.data1, i, s)
  OBVIOUS
<1>6. PICK M : M = EndBefore(L, i, s)
  OBVIOUS
<1>7. PICK e2 : e2 = [L.data2 EXCEPT ![i] = v]
  OBVIOUS
<1>8. M = [L EXCEPT !.data2 = e2]
  BY <1>5, <1>6, <1>7 DEF EndBefore, EndOf
<1>9. L = [data1 |-> L.data1, data2 |-> L.data2, next |-> L.next, prior |-> L.prior,
           head |-> L.head, tail |-> L.tail, length |-> L.length]
  BY <1>2 DEF RcvListRecord
<1>10. /\ M.data1 = L.data1 /\ M.data2 = e2 /\ M.next = L.next /\ M.prior = L.prior
       /\ M.head = L.head /\ M.tail = L.tail /\ M.length = L.length
       /\ M = [data1 |-> M.data1, data2 |-> M.data2, next |-> M.next, prior |-> M.prior,
               head |-> M.head, tail |-> M.tail, length |-> M.length]
  BY ONLY <1>8, <1>9
<1>11. RcvListRecord(M)
  BY <1>2, <1>10 DEF RcvListRecord
<1>12. PICK F : RangeEnds(S, E, p, x - 1, F, lo, hi) /\ Holding(L.data1, M.data2, RcvListSize, sl, S, F)
  <2>1. M.data2 = [L.data2 EXCEPT ![sl[p]] = EndOf(L.data1, sl[p], NumberOf(x))]
    BY <1>4, <1>5, <1>7, <1>10
  <2>2. p \in S /\ x \in Int /\ p < x /\ x <= E[p]
    BY <1>3
  <2>. QED  BY ONLY <1>2, <2>1, <2>2, RangeCut
<1>14. RcvArrays(M, sl, S, F, lo, hi)
  BY <1>2, <1>10, <1>11, <1>12 DEF RcvArrays, RangeEnds
<1>15. Covered(S, F) = Covered(S, E) \ {x} /\ x \in Covered(S, E)
  <2>1. p .. E[p] = (p .. x - 1) \cup {x} /\ x \notin p .. x - 1
    BY <1>3
  <2>. QED  BY <1>12, <2>1 DEF RangeEnds
<1>16. RcvHoldsNumbers(OneLess(M), Covered(S, E) \ {x}, lo, hi)
  BY <1>10, <1>14, <1>15, OneLessHolds
<1>. QED  BY <1>4, <1>6, <1>16

\* N is L, with what slot i has from s on in slot loc, but for s itself.
NodeSplit(N, L, i, s, loc, w) ==
    /\ N.data1 = [L.data1 EXCEPT ![loc] = incseq(s)]
    /\ N.data2 = [L.data2 EXCEPT ![loc] = w, ![i] = EndOf(L.data1, i, s)]
    /\ N.next = LinkedNext(L.next, i, loc)
    /\ N.prior = BackLinked(L.prior, L.next[i], i, loc)
    /\ N.head = L.head /\ N.tail = LinkedTail(L.tail, i, loc) /\ N.length = L.length
    /\ RcvListRecord(N)

\* What Split writes.
LEMMA SplitIs ==
    ASSUME NEW L, RcvListRecord(L), L.data1 \in [RcvSlots -> Int],
           L.next \in [RcvSlots -> Int], L.prior \in [RcvSlots -> Int],
           NEW i, i \in RcvSlots, NEW loc, loc \in RcvSlots, i # loc, NEW s,
           L.tail = i <=> L.next[i] = -1,
           NEW w, w = IF seqcmp(L.data2[i], incseq(s)) > 0 THEN L.data2[i] ELSE L.data2[loc]
    PROVE  NodeSplit(Split(L, i, s, loc), L, i, s, loc, w)
<1>1. L = [data1 |-> L.data1, data2 |-> L.data2, next |-> L.next, prior |-> L.prior,
           head |-> L.head, tail |-> L.tail, length |-> L.length]
  BY DEF RcvListRecord
<1>2. L.head \in Int /\ L.tail \in Int /\ L.length \in Int
  BY DEF RcvListRecord
<1>3. PICK M : M = [L EXCEPT !.data1[loc] = incseq(s),
                             !.data2[loc] = IF seqcmp(L.data2[i], incseq(s)) > 0 THEN L.data2[i] ELSE @,
                             !.next = [L.next EXCEPT ![loc] = L.next[i], ![i] = loc],
                             !.prior[loc] = i]
  OBVIOUS
<1>4. PICK d1, u : d1 = [L.data1 EXCEPT ![loc] = incseq(s)] /\ u = [L.data2 EXCEPT ![loc] = w]
  OBVIOUS
<1>5. PICK nx, px : nx = LinkedNext(L.next, i, loc) /\ px = [L.prior EXCEPT ![loc] = i]
  OBVIOUS
<1>6. M = [L EXCEPT !.data1 = d1, !.data2 = u, !.next = nx, !.prior = px]
  BY <1>1, <1>3, <1>4, <1>5 DEF LinkedNext
<1>7. /\ M.data1 = d1 /\ M.data2 = u /\ M.next = nx /\ M.prior = px
      /\ M.head = L.head /\ M.tail = L.tail /\ M.length = L.length
      /\ M = [data1 |-> M.data1, data2 |-> M.data2, next |-> M.next, prior |-> M.prior,
              head |-> M.head, tail |-> M.tail, length |-> M.length]
  BY ONLY <1>1, <1>6
<1>8. PICK t, qx : t = (IF M.tail = i THEN loc ELSE M.tail)
                   /\ qx = (IF L.tail = i THEN M.prior ELSE [M.prior EXCEPT ![M.next[loc]] = loc])
  OBVIOUS
<1>9. PICK K : K = [M EXCEPT !.tail = t, !.prior = qx]
  OBVIOUS
<1>10. /\ K.data1 = d1 /\ K.data2 = u /\ K.next = nx /\ K.prior = qx
       /\ K.head = L.head /\ K.tail = t /\ K.length = L.length
       /\ K = [data1 |-> K.data1, data2 |-> K.data2, next |-> K.next, prior |-> K.prior,
               head |-> K.head, tail |-> K.tail, length |-> K.length]
  BY ONLY <1>7, <1>9
<1>11. PICK N : N = Split(L, i, s, loc)
  OBVIOUS
<1>12. N = EndBefore(K, i, s)
  BY <1>3, <1>8, <1>9, <1>11 DEF Split, BackLink
<1>13. PICK y : y = [u EXCEPT ![i] = EndOf(d1, i, s)]
  OBVIOUS
<1>14. N = [K EXCEPT !.data2 = y]
  BY <1>10, <1>12, <1>13 DEF EndBefore, EndOf
<1>15. /\ N.data1 = d1 /\ N.data2 = y /\ N.next = nx /\ N.prior = qx
       /\ N.head = L.head /\ N.tail = t /\ N.length = L.length
       /\ N = [data1 |-> N.data1, data2 |-> N.data2, next |-> N.next, prior |-> N.prior,
               head |-> N.head, tail |-> N.tail, length |-> N.length]
  BY ONLY <1>10, <1>14
<1>16. N.data2 = [L.data2 EXCEPT ![loc] = w, ![i] = EndOf(L.data1, i, s)]
  <2>1. d1[i] = L.data1[i]
    BY <1>4
  <2>2. EndOf(d1, i, s) = EndOf(L.data1, i, s)
    BY <2>1 DEF EndOf
  <2>. QED  BY <1>4, <1>13, <1>15, <2>2
<1>17. N.prior = BackLinked(L.prior, L.next[i], i, loc)
  <2>1. M.next[loc] = L.next[i]
    BY <1>5, <1>7 DEF LinkedNext
  <2>2. N.prior = IF L.tail = i THEN px ELSE [px EXCEPT ![L.next[i]] = loc]
    BY <1>7, <1>8, <1>15, <2>1
  <2>. QED  BY <1>5, <2>2 DEF BackLinked
<1>18. N.tail = LinkedTail(L.tail, i, loc)
  BY <1>7, <1>8, <1>15 DEF LinkedTail
<1>19. loc \in Int
  BY RcvLossListAssumption DEF RcvSlots
<1>20. N.head \in Int /\ N.tail \in Int /\ N.length \in Int
  BY <1>2, <1>15, <1>18, <1>19 DEF LinkedTail
<1>21. RcvListRecord(N)
  BY <1>15, <1>20 DEF RcvListRecord
<1>. QED  BY <1>4, <1>5, <1>11, <1>15, <1>16, <1>17, <1>18, <1>21 DEF NodeSplit

\* A range loses a number inside it, and becomes two.
LEMMA SplitHolds ==
    ASSUME NEW L, NEW sl, NEW S, NEW E, NEW lo, NEW hi, RcvHolds(L, sl, S, E, lo, hi),
           NEW p \in S, NEW x, x \in Int, p < x, x < E[p]
    PROVE  RcvHoldsNumbers(OneLess(Split(L, sl[p], NumberOf(x), sl[x + 1])), Covered(S, E) \ {x}, lo, hi)
<1>1. RcvArrays(L, sl, S, E, lo, hi)
  BY DEF RcvHolds
<1>2. /\ RcvListRecord(L) /\ Window(RcvListSize, sl, lo, hi) /\ Ranges(S, E, lo, hi) /\ Apart(S, E)
      /\ Holding(L.data1, L.data2, RcvListSize, sl, S, E)
      /\ Chained(L.next, L.prior, L.head, L.tail, RcvListSize, sl, S)
  BY <1>1 DEF RcvArrays
<1>3. /\ lo \in Int /\ hi \in Int /\ p \in Int /\ S \subseteq lo .. hi
      /\ E[p] \in Int /\ lo <= p /\ p <= E[p] /\ E[p] <= hi /\ E[p] \in lo .. hi + 1
      /\ L.data1 \in [RcvSlots -> Int] /\ L.data2 \in [RcvSlots -> Int]
      /\ L.next \in [RcvSlots -> Int] /\ L.prior \in [RcvSlots -> Int]
      /\ \A n \in Int : sl[n] \in RcvSlots
      /\ \A m, n \in lo .. hi : sl[m] = sl[n] => m = n
      /\ \A n \in S : n \in Int /\ E[n] \in Int
  BY <1>1, RcvRead
<1>4. PICK a : a = x + 1
  OBVIOUS
<1>5. a \in Int /\ a \in lo .. hi /\ a \in lo .. hi + 1 /\ x < a /\ a <= E[p] /\ x \in lo .. hi + 1 /\ p < a
      /\ p \in lo .. hi
  BY <1>3, <1>4
<1>6. \A q \in S : q <= p \/ E[p] < q
  BY <1>2, <1>3 DEF Apart
<1>7. a \notin S /\ sl[a] # sl[p] /\ \A q \in S : q <= p \/ a < q
  BY <1>3, <1>5, <1>6
<1>8. PICK i, j, s : i = sl[p] /\ j = sl[a] /\ s = NumberOf(x)
  OBVIOUS
<1>9. i \in RcvSlots /\ j \in RcvSlots /\ i # j
  BY <1>3, <1>5, <1>7, <1>8
<1>10. /\ L.data1[i] = NumberOf(p) /\ L.data2[i] = NumberOf(E[p]) /\ L.data2[j] = -1
       /\ incseq(s) = NumberOf(a)
       /\ (seqcmp(NumberOf(E[p]), NumberOf(a)) > 0 <=> E[p] > a)
  <2>1. L.data1[i] = NumberOf(p) /\ L.data2[i] = NumberOf(E[p])
    <3>1. E[p] # p
      BY <1>3
    <3>. QED  BY <1>2, <1>8, <3>1, RangeRead
  <2>2. incseq(NumberOf(x)) = NumberOf(a)
    BY <1>2, <1>4, <1>5, Compare
  <2>3. seqcmp(NumberOf(E[p]), NumberOf(a)) > 0 <=> E[p] > a
    <3>1. Window(RcvListSize, sl, lo, hi)
      BY <1>2
    <3>2. E[p] \in lo .. hi + 1
      BY <1>3
    <3>3. a \in lo .. hi + 1
      BY <1>5
    <3>. QED  BY ONLY <3>1, <3>2, <3>3, Compare
  <2>4. L.data2[j] = -1
    BY <1>2, <1>5, <1>7, <1>8, StartsAt
  <2>. QED  BY <1>8, <2>1, <2>2, <2>3, <2>4
<1>11. PICK w : w = IF seqcmp(L.data2[i], incseq(s)) > 0 THEN L.data2[i] ELSE L.data2[j]
  OBVIOUS
<1>12. (E[p] = a /\ w = -1) \/ (E[p] # a /\ w = NumberOf(E[p]))
  BY <1>3, <1>5, <1>10, <1>11
<1>13. PICK N : N = Split(L, i, s, j)
  OBVIOUS
<1>14. NodeSplit(N, L, i, s, j, w)
  <2>1. L.tail = i <=> L.next[i] = -1
    <3>1. ChainReads(L.next, L.prior, L.head, L.tail, sl, S, p)
      BY <1>2, <1>3, ChainRead
    <3>. QED  BY <1>8, <3>1 DEF ChainReads
  <2>2. L.data1 \in [RcvSlots -> Int] /\ L.next \in [RcvSlots -> Int] /\ L.prior \in [RcvSlots -> Int]
    BY <1>3
  <2>. QED  BY ONLY <1>2, <1>9, <1>11, <1>13, <2>1, <2>2, SplitIs
<1>15. PICK T : T = S \cup {a}
  OBVIOUS
<1>16. Chained(N.next, N.prior, N.head, N.tail, RcvListSize, sl, T)
  <2>1. Chained(LinkedNext(L.next, sl[p], sl[a]), BackLinked(L.prior, L.next[sl[p]], sl[p], sl[a]),
                L.head, LinkedTail(L.tail, sl[p], sl[a]), RcvListSize, sl, S \cup {a})
    BY <1>2, <1>3, <1>5, <1>7, ChainedWith
  <2>. QED  BY <1>8, <1>14, <1>15, <2>1 DEF NodeSplit
<1>17. PICK R : R = [data2 |-> [L.data2 EXCEPT ![i] = EndOf(L.data1, i, s)]]
  OBVIOUS
<1>18. PICK F : RangeEnds(S, E, p, x - 1, F, lo, hi) /\ Holding(L.data1, R.data2, RcvListSize, sl, S, F)
  <2>1. R.data2 = [L.data2 EXCEPT ![sl[p]] = EndOf(L.data1, sl[p], NumberOf(x))]
    BY <1>8, <1>17
  <2>2. p \in S /\ x \in Int /\ p < x /\ x <= E[p]
    BY <1>3
  <2>. QED  BY ONLY <1>2, <2>1, <2>2, RangeCut
<1>19. /\ Ranges(S, F, lo, hi) /\ Apart(S, F) /\ F[p] = x - 1 /\ \A n \in S : n # p => F[n] = E[n]
       /\ Covered(S, F) = (Covered(S, E) \ (p .. E[p])) \cup (p .. x - 1) /\ p .. E[p] \subseteq Covered(S, E)
  BY <1>18 DEF RangeEnds
<1>20. PICK G : G = [F EXCEPT ![a] = E[p]]
  OBVIOUS
<1>21. RangeJoined(S, F, a, E[p], G, lo, hi)
  <2>1. \A n \in S : F[n] < a \/ E[p] < n
    <3>. TAKE n \in S
    <3>1. CASE n = p
      BY <1>4, <1>5, <1>19, <3>1
    <3>2. CASE n # p /\ n <= p
      <4>1. n < p
        BY <1>3, <3>2
      <4>2. E[n] < p
        BY <1>2, <4>1 DEF Apart
      <4>3. F[n] = E[n] /\ E[n] \in Int
        BY <1>2, <1>19, <3>2 DEF Ranges
      <4>. QED  BY <1>3, <1>5, <4>2, <4>3
    <3>3. CASE E[p] < n
      BY <3>3
    <3>. QED  BY <1>3, <1>6, <3>1, <3>2, <3>3
  <2>2. lo \in Int /\ hi \in Int /\ a \in lo .. hi /\ E[p] \in a .. hi
    BY <1>3, <1>5
  <2>3. Ranges(S, F, lo, hi) /\ Apart(S, F)
    BY <1>19
  <2>. QED  BY ONLY <1>20, <2>1, <2>2, <2>3, RangeJoins
<1>22. Holding(N.data1, N.data2, RcvListSize, sl, T, G)
  <2>1. N.data1 = [L.data1 EXCEPT ![sl[a]] = NumberOf(a)]
    BY <1>8, <1>10, <1>14 DEF NodeSplit
  <2>2. N.data2 = [R.data2 EXCEPT ![sl[a]] = w]
    <3>1. N.data2 = [L.data2 EXCEPT ![j] = w, ![i] = EndOf(L.data1, i, s)]
      BY <1>14 DEF NodeSplit
    <3>2. R.data2 = [L.data2 EXCEPT ![i] = EndOf(L.data1, i, s)]
      BY <1>17
    <3>3. L.data2 \in [RcvSlots -> Int]
      BY <1>3
    <3>4. N.data2 = [R.data2 EXCEPT ![j] = w]
      BY ONLY <1>9, <3>1, <3>2, <3>3
    <3>. QED  BY <1>8, <3>4
  <2>3. Window(RcvListSize, sl, lo, hi) /\ Ranges(S, F, lo, hi)
    BY <1>2, <1>19
  <2>4. a \in lo .. hi /\ a \notin S
    BY <1>5, <1>7
  <2>5. E[p] \in a .. hi
    BY <1>3, <1>5
  <2>6. G[a] = E[p] /\ \A n \in S : G[n] = F[n]
    BY <1>21 DEF RangeJoined
  <2>7. Holding(L.data1, R.data2, RcvListSize, sl, S, F)
    BY <1>18
  <2>8. Holding(N.data1, N.data2, RcvListSize, sl, S \cup {a}, G)
    <3>1. PICK d1, d2, e1, e2 : d1 = L.data1 /\ d2 = R.data2 /\ e1 = N.data1 /\ e2 = N.data2
      OBVIOUS
    <3>2. Holding(d1, d2, RcvListSize, sl, S, F)
      BY <2>7, <3>1
    <3>3. e1 = [d1 EXCEPT ![sl[a]] = NumberOf(a)]
      BY <2>1, <3>1
    <3>4. e2 = [d2 EXCEPT ![sl[a]] = w]
      BY <2>2, <3>1
    <3>5. Holding(e1, e2, RcvListSize, sl, S \cup {a}, G)
      BY ONLY <1>12, <2>3, <2>4, <2>5, <2>6, <3>2, <3>3, <3>4, StoredJoin
    <3>. QED  BY <3>1, <3>5
  <2>. QED  BY <1>15, <2>8
<1>23. RcvArrays(N, sl, T, G, lo, hi)
  <2>1. Ranges(T, G, lo, hi) /\ Apart(T, G)
    BY <1>15, <1>21 DEF RangeJoined
  <2>2. RcvListRecord(N)
    BY <1>14 DEF NodeSplit
  <2>. QED  BY <1>2, <1>16, <1>22, <2>1, <2>2 DEF RcvArrays
<1>24. Covered(T, G) = Covered(S, E) \ {x} /\ x \in Covered(S, E)
  <2>1. p .. E[p] = (p .. x - 1) \cup {x} \cup (a .. E[p])
    <3>1. \A y \in Int : y \in p .. E[p] <=> y \in p .. x - 1 \/ y = x \/ y \in a .. E[p]
      BY <1>3, <1>4
    <3>2. p .. E[p] \subseteq Int /\ p .. x - 1 \subseteq Int /\ a .. E[p] \subseteq Int
      OBVIOUS
    <3>. QED  BY <3>1, <3>2
  <2>3. x \notin p .. x - 1 /\ x \notin a .. E[p] /\ x \in p .. E[p]
    BY <1>3, <1>4
  <2>2. Covered(T, G) = Covered(S, F) \cup (a .. E[p])
    BY <1>15, <1>21 DEF RangeJoined
  <2>. QED  BY <1>19, <2>1, <2>2, <2>3
<1>25. N.length = L.length
  BY <1>14 DEF NodeSplit
<1>26. RcvHoldsNumbers(OneLess(N), Covered(S, E) \ {x}, lo, hi)
  BY <1>23, <1>24, <1>25, OneLessHolds
<1>. QED  BY <1>4, <1>8, <1>13, <1>26

\* The search back ends at the last range that starts before x.
LEMMA SlotBeforeIs ==
    ASSUME NEW L, NEW sl, NEW S, NEW E, NEW lo, NEW hi, RcvArrays(L, sl, S, E, lo, hi),
           NEW x, x \in lo .. hi, NEW h, h \in S, h < x
    PROVE  \E p \in S : /\ p < x /\ SlotBefore(L, sl[x]) = sl[p]
                        /\ \A q \in S : q <= p \/ x <= q
<1>1. /\ Window(RcvListSize, sl, lo, hi) /\ Ranges(S, E, lo, hi)
      /\ Holding(L.data1, L.data2, RcvListSize, sl, S, E)
  BY DEF RcvArrays
<1>2. /\ RcvListSize \in Nat \ {0} /\ lo \in Int /\ hi \in Int /\ hi - lo < RcvListSize
      /\ \A n \in S : n \in Int /\ lo <= n /\ n <= hi
  BY <1>1, RcvRead DEF Window
<1>3. x \in Int /\ lo <= x /\ x <= hi /\ h \in Int /\ lo <= h /\ h <= x - 1 /\ x - 1 \in Int
  BY <1>2
<1>4. \A y \in Int : SlotBack(sl[y]) = sl[y - 1]
  <2>1. RingSlots(sl, RcvListSize)
    BY <1>1 DEF Window
  <2>. TAKE y \in Int
  <2>2. PICK z : z = y - 1
    OBVIOUS
  <2>3. z \in Int /\ z - y = -1
    BY <2>2
  <2>4. (sl[y] + (z - y) + RcvListSize) % RcvListSize = sl[z]
    BY ONLY <1>2, <2>1, <2>3, SlotIs, y \in Int
  <2>5. sl[y] \in Int
    BY <1>1, <1>2, WindowIs
  <2>6. sl[y] - 1 + RcvListSize = sl[y] + (z - y) + RcvListSize
    BY <1>2, <2>3, <2>5
  <2>. QED  BY <2>2, <2>4, <2>6 DEF SlotBack
<1>5. PICK g : /\ g[0] = SlotBack(sl[x])
               /\ \A k \in 1 .. RcvListSize : g[k] = SearchBack(L, g[k - 1])
               /\ SlotBefore(L, sl[x]) = g[RcvListSize]
  BY SlotTurns
<1>. DEFINE At(k, y) == /\ y \in Int /\ g[k] = sl[y] /\ h <= y /\ y < x
                        /\ \A q \in S : q <= y \/ x <= q
                        /\ y \in S \/ y = x - 1 - k
            T == {k \in Nat : k <= RcvListSize => \E y : At(k, y)}
<1>6. 0 \in T
  <2>1. g[0] = sl[x - 1]
    BY <1>3, <1>4, <1>5
  <2>2. \A q \in S : q <= x - 1 \/ x <= q
    BY <1>2, <1>3
  <2>3. At(0, x - 1)
    BY <1>3, <2>1, <2>2
  <2>. QED  BY <2>3
<1>7. ASSUME NEW k \in Nat, k \in T PROVE k + 1 \in T
  <2>. SUFFICES ASSUME k + 1 <= RcvListSize PROVE \E y : At(k + 1, y)
    OBVIOUS
  <2>1. PICK y : At(k, y)
    BY <1>2, <1>7
  <2>2. k + 1 \in 1 .. RcvListSize /\ (k + 1) - 1 = k
    BY <1>2
  <2>3. g[k + 1] = SearchBack(L, sl[y])
    BY <1>5, <2>1, <2>2
  <2>4. y \in lo .. hi
    BY <1>2, <1>3, <2>1
  <2>5. CASE y \in S
    <3>1. L.data1[sl[y]] = NumberOf(y) /\ NumberOf(y) \in Nat
      <4>1. y \in lo .. hi + 1
        BY <1>2, <2>4
      <4>. QED  BY <1>1, <2>5, <4>1, RangeRead, Compare
    <3>2. g[k + 1] = sl[y]
      BY <2>3, <3>1 DEF SearchBack
    <3>3. At(k + 1, y)
      BY <2>1, <2>5, <3>2
    <3>. QED  BY <3>3
  <2>6. CASE y \notin S
    <3>1. L.data1[sl[y]] = -1
      BY <1>1, <2>4, <2>6, StartsAt
    <3>2. g[k + 1] = sl[y - 1]
      BY <1>4, <2>1, <2>3, <3>1 DEF SearchBack
    <3>3. h <= y - 1 /\ y - 1 < x /\ y - 1 = x - 1 - (k + 1) /\ y - 1 \in Int
      <4>1. y = x - 1 - k /\ y # h
        BY <2>1, <2>6
      <4>. QED  BY <1>3, <2>1, <4>1
    <3>4. \A q \in S : q <= y - 1 \/ x <= q
      BY <1>2, <2>1, <2>6
    <3>5. At(k + 1, y - 1)
      BY <3>2, <3>3, <3>4
    <3>. QED  BY <3>5
  <2>. QED  BY <2>5, <2>6
<1>8. RcvListSize \in T
  <2>. HIDE DEF T
  <2>1. \A k \in Nat : k \in T => k + 1 \in T
    BY <1>7
  <2>. QED  BY <1>2, <1>6, <2>1, AllNumbers
<1>9. PICK p : At(RcvListSize, p)
  BY <1>2, <1>8
<1>10. p \in S
  <2>1. x - 1 - RcvListSize < lo
    BY <1>2, <1>3
  <2>. QED  BY <1>2, <1>3, <1>9, <2>1
<1>11. p < x /\ SlotBefore(L, sl[x]) = sl[p] /\ \A q \in S : q <= p \/ x <= q
  BY <1>5, <1>9
<1>. QED  BY <1>10, <1>11

\* A number is taken out, wherever it is; one that the list does not hold changes nothing.
LEMMA RemoveOneHolds ==
    ASSUME NEW L, NEW C, NEW lo, NEW hi, RcvHoldsNumbers(L, C, lo, hi),
           NEW x, x \in lo - 1 .. hi
    PROVE  RcvHoldsNumbers(RemoveOne(L, NumberOf(x)), C \ {x}, lo, hi)
<1>1. PICK sl, S, E : RcvHolds(L, sl, S, E, lo, hi) /\ Covered(S, E) = C
  BY DEF RcvHoldsNumbers
<1>2. RcvArrays(L, sl, S, E, lo, hi) /\ (L.length = 0 <=> S = {})
  BY <1>1, RcvEmpty DEF RcvHolds
<1>3. /\ Window(RcvListSize, sl, lo, hi) /\ Ranges(S, E, lo, hi) /\ Apart(S, E)
      /\ Holding(L.data1, L.data2, RcvListSize, sl, S, E)
  BY <1>2 DEF RcvArrays
<1>4. /\ RcvListSize \in Nat \ {0} /\ lo \in Int /\ hi \in Int
      /\ \A n \in S : n \in Int /\ E[n] \in Int /\ lo <= n /\ n <= E[n] /\ E[n] <= hi
                      /\ n \in lo .. hi + 1 /\ E[n] \in lo .. hi + 1
  BY <1>2, RcvRead
<1>5. x \in Int /\ lo - 1 <= x /\ x <= hi
  BY <1>4
<1>6. x \notin C => RcvHoldsNumbers(L, C \ {x}, lo, hi)
  <2>1. x \notin C => C \ {x} = C
    OBVIOUS
  <2>. QED  BY <2>1
<1>7. CASE S = {}
  <2>1. x \notin C
    BY <1>1, <1>7 DEF Covered
  <2>2. RemoveOne(L, NumberOf(x)) = L
    BY <1>2, <1>7 DEF RemoveOne
  <2>. QED  BY <1>6, <2>1, <2>2
<1>8. CASE S # {}
  <2>1. PICK h \in S : L.head = sl[h] /\ \A q \in S : h <= q
    BY <1>2, <1>8, RcvEnds
  <2>2. h \in Int /\ lo <= h /\ h <= hi /\ L.length # 0
    BY <1>2, <1>4, <1>8, <2>1
  <2>3. L.data1[L.head] = NumberOf(h)
    BY <1>3, <2>1, RangeRead
  <2>4. seqoff(NumberOf(h), NumberOf(x)) = x - h
    <3>1. PICK l, r : l = lo - 1 /\ r = hi - 1
      OBVIOUS
    <3>2. Window(RcvListSize, sl, l, r)
      BY <1>3, <1>4, <3>1 DEF Window
    <3>3. h \in l .. r + 1 /\ x \in l .. r + 1
      BY <1>4, <1>5, <2>2, <3>1
    <3>. QED  BY ONLY <3>2, <3>3, Compare
  <2>5. PICK s, offset, loc, i : /\ s = NumberOf(x) /\ offset = seqoff(L.data1[L.head], s)
                                 /\ loc = (L.head + offset) % RcvListSize /\ i = SlotBefore(L, loc)
    OBVIOUS
  <2>6. PICK N : N = RemoveOne(L, s)
    OBVIOUS
  <2>7. N = IF offset < 0 THEN L
            ELSE IF s = L.data1[loc] THEN OneLess(IF L.data2[loc] = -1 THEN Unlink(L, loc) ELSE Shift(L, loc))
            ELSE IF L.data2[i] = -1 \/ seqcmp(s, L.data2[i]) > 0 THEN L
            ELSE OneLess(IF s = L.data2[i] THEN EndBefore(L, i, s)
                      ELSE Split(L, i, s, (loc + 1) % RcvListSize))
    BY <2>2, <2>5, <2>6 DEF RemoveOne
  <2>8. offset = x - h
    BY <2>3, <2>4, <2>5
  <2>9. CASE x < h
    <3>1. N = L
      BY <1>5, <2>2, <2>7, <2>8, <2>9
    <3>2. x \notin C
      <4>1. \A n \in S : x < n
        BY <1>4, <1>5, <2>1, <2>9
      <4>. QED  BY <1>1, <1>4, <1>5, <4>1 DEF Covered
    <3>. QED  BY <1>6, <2>5, <2>6, <3>1, <3>2
  <2>10. CASE h <= x
    <3>1. ~(offset < 0) /\ x \in lo .. hi /\ x \in lo .. hi + 1
      BY <1>4, <1>5, <2>2, <2>8, <2>10
    <3>2. RingSlots(sl, RcvListSize)
      BY <1>3 DEF Window
    <3>3. loc = sl[x] /\ (loc + 1) % RcvListSize = sl[x + 1]
      <4>1. (sl[h] + (x - h)) % RcvListSize = sl[x]
        BY ONLY <1>4, <1>5, <2>2, <3>2, SlotIs
      <4>2. (sl[x] + 1) % RcvListSize = sl[x + 1]
        BY <1>5, <3>2 DEF RingSlots
      <4>. QED  BY <2>1, <2>5, <2>8, <4>1, <4>2
    <3>4. s = L.data1[loc] <=> x \in S
      <4>1. L.data1[sl[x]] = NumberOf(x) <=> x \in S
        BY <1>3, <3>1, StartsAt
      <4>. QED  BY <2>5, <3>3, <4>1
    <3>5. CASE x \in S
      <4>1. L.data2[loc] = -1 <=> E[x] = x
        BY <1>3, <3>3, <3>5, RangeRead
      <4>2. CASE E[x] = x
        <5>1. N = OneLess(Unlink(L, sl[x]))
          BY <2>7, <3>1, <3>3, <3>4, <3>5, <4>1, <4>2
        <5>2. RcvHoldsNumbers(OneLess(Unlink(L, sl[x])), Covered(S, E) \ {x}, lo, hi)
          BY <1>1, <3>5, <4>2, UnlinkHolds
        <5>. QED  BY <1>1, <2>5, <2>6, <5>1, <5>2
      <4>3. CASE E[x] # x
        <5>1. N = OneLess(Shift(L, sl[x]))
          BY <2>7, <3>1, <3>3, <3>4, <3>5, <4>1, <4>3
        <5>2. RcvHoldsNumbers(OneLess(Shift(L, sl[x])), Covered(S, E) \ {x}, lo, hi)
          BY <1>1, <3>5, <4>3, ShiftHolds
        <5>. QED  BY <1>1, <2>5, <2>6, <5>1, <5>2
      <4>. QED  BY <4>2, <4>3
    <3>6. CASE x \notin S
      <4>1. h < x
        BY <1>5, <2>1, <2>2, <2>10, <3>6
      <4>2. PICK p \in S : /\ p < x /\ SlotBefore(L, sl[x]) = sl[p]
                           /\ \A q \in S : q <= p \/ x <= q
        BY <1>2, <2>1, <3>1, <4>1, SlotBeforeIs
      <4>3. i = sl[p]
        BY <2>5, <3>3, <4>2
      <4>4. (L.data2[i] = -1 <=> E[p] = p) /\ (L.data2[i] # -1 => L.data2[i] = NumberOf(E[p]))
        BY <1>3, <4>2, <4>3, RangeRead
      <4>5. (seqcmp(s, NumberOf(E[p])) > 0 <=> x > E[p]) /\ (s = NumberOf(E[p]) <=> x = E[p])
        <5>1. E[p] \in lo .. hi + 1
          BY <1>4, <4>2
        <5>. QED  BY <1>3, <2>5, <3>1, <5>1, Compare
      <4>6. p \in Int /\ E[p] \in Int /\ p <= E[p]
        BY <1>4, <4>2
      <4>7. CASE x > E[p]
        <5>1. N = L
          BY <2>7, <3>1, <3>4, <3>6, <4>4, <4>5, <4>7
        <5>2. x \notin C
          <6>1. ASSUME NEW n \in S PROVE ~(n <= x /\ x <= E[n])
            <7>1. CASE n = p
              BY <1>5, <4>6, <4>7, <7>1
            <7>2. CASE n < p
              <8>1. E[n] < p /\ E[n] \in Int
                BY <1>3, <1>4, <4>2, <7>2 DEF Apart
              <8>. QED  BY <1>5, <4>2, <4>6, <8>1
            <7>3. CASE x <= n
              <8>1. n # x
                BY <3>6
              <8>. QED  BY <1>4, <1>5, <7>3, <8>1
            <7>. QED  BY <1>4, <4>2, <4>6, <7>1, <7>2, <7>3
          <6>. QED  BY <1>1, <6>1 DEF Covered
        <5>. QED  BY <1>6, <2>5, <2>6, <5>1, <5>2
      <4>8. CASE x = E[p]
        <5>1. N = OneLess(EndBefore(L, sl[p], s))
          <6>1. E[p] # p /\ ~(x > E[p])
            BY <1>5, <4>2, <4>6, <4>8
          <6>. QED  BY <2>7, <3>1, <3>4, <3>6, <4>3, <4>4, <4>5, <4>8, <6>1
        <5>2. RcvHoldsNumbers(OneLess(EndBefore(L, sl[p], NumberOf(x))), Covered(S, E) \ {x}, lo, hi)
          BY <1>1, <4>2, <4>8, EndBeforeHolds
        <5>. QED  BY <1>1, <2>5, <2>6, <5>1, <5>2
      <4>9. CASE x < E[p]
        <5>1. N = OneLess(Split(L, sl[p], s, sl[x + 1]))
          <6>1. E[p] # p /\ ~(x > E[p]) /\ x # E[p]
            BY <1>5, <4>2, <4>6, <4>9
          <6>. QED  BY <2>7, <3>1, <3>3, <3>4, <3>6, <4>3, <4>4, <4>5, <6>1
        <5>2. RcvHoldsNumbers(OneLess(Split(L, sl[p], NumberOf(x), sl[x + 1])), Covered(S, E) \ {x}, lo, hi)
          BY <1>1, <1>5, <4>2, <4>9, SplitHolds
        <5>. QED  BY <1>1, <2>5, <2>6, <5>1, <5>2
      <4>. QED  BY <1>5, <4>6, <4>7, <4>8, <4>9
    <3>. QED  BY <3>5, <3>6
  <2>. QED  BY <1>5, <2>2, <2>9, <2>10
<1>. QED  BY <1>7, <1>8

\* The numbers of a range are taken out one by one.
LEMMA RemoveAllHolds ==
    ASSUME NEW L, NEW C, NEW lo, NEW hi, RcvHoldsNumbers(L, C, lo, hi),
           NEW a, a \in lo - 1 .. hi, NEW b, b \in a .. hi, NumberOf(a) <= NumberOf(b)
    PROVE  RcvHoldsNumbers(RemoveAll(L, NumberOf(a), NumberOf(b)), C \ (a .. b), lo, hi)
<1>1. PICK sl, S, E : RcvArrays(L, sl, S, E, lo, hi)
  BY DEF RcvHoldsNumbers, RcvHolds
<1>2. Window(RcvListSize, sl, lo, hi)
  BY <1>1 DEF RcvArrays
<1>3. lo \in Int /\ hi \in Int /\ hi - lo < RcvListSize /\ RcvListSize < SeqNoTH /\ RcvListSize \in Int /\ SeqNoTH \in Int
  BY <1>2, WindowIs
<1>4. a \in Int /\ b \in Int /\ a <= b /\ lo - 1 <= a /\ b <= hi
  BY <1>3
<1>5. PICK len : len = b - a + 1
  OBVIOUS
<1>6. len \in Nat /\ len <= MaxSeqNo /\ b - a <= MaxSeqNo
  BY <1>3, <1>4, <1>5, Threshold
<1>7. len = seqlen(NumberOf(a), NumberOf(b))
  BY <1>4, <1>5, <1>6, SeqlenCounts
<1>8. PICK s1, s2 : s1 = NumberOf(a) /\ s2 = NumberOf(b)
  OBVIOUS
<1>9. s1 <= s2 /\ s1 \in Int /\ s2 \in Int
  BY <1>4, <1>8, Threshold DEF NumberOf
<1>10. PICK g : /\ g[0] = L
                /\ \A k \in 1 .. len : g[k] = RemoveTurn(g[k - 1], incseqBy(s1, k - 1), s1 > s2)
                /\ RemoveAll(L, s1, s2) = g[len]
  BY <1>6, <1>7, <1>8, RemoveTurns
<1>. DEFINE Done(k) == RcvHoldsNumbers(g[k], C \ (a .. a + k - 1), lo, hi)
            T == {k \in Nat : k <= len => Done(k)}
<1>11. 0 \in T
  <2>1. C \ (a .. a + 0 - 1) = C
    BY <1>4
  <2>. QED  BY <1>10, <2>1
<1>12. ASSUME NEW k \in Nat, k \in T PROVE k + 1 \in T
  <2>. SUFFICES ASSUME k + 1 <= len PROVE Done(k + 1)
    OBVIOUS
  <2>0. k <= len => Done(k)
    BY <1>12
  <2>. HIDE DEF Done, T
  <2>1. Done(k) /\ k + 1 \in 1 .. len /\ (k + 1) - 1 = k /\ k \in 0 .. MaxSeqNo
    BY <1>6, <2>0, Threshold
  <2>2. incseqBy(s1, k) = NumberOf(a + k)
    BY <1>4, <1>8, <2>1, IncseqAdvances
  <2>3. g[k + 1] = RemoveOne(g[k], NumberOf(a + k))
    <3>1. g[k + 1] = RemoveTurn(g[k], incseqBy(s1, k), s1 > s2)
      BY <1>10, <2>1
    <3>2. ~(s1 > s2)
      BY <1>9
    <3>. QED  BY <2>2, <3>1, <3>2 DEF RemoveTurn
  <2>4. PICK x, M, D : x = a + k /\ M = g[k] /\ D = C \ (a .. a + k - 1)
    OBVIOUS
  <2>5. x \in lo - 1 .. hi
    BY <1>3, <1>4, <1>5, <2>4
  <2>6. RcvHoldsNumbers(M, D, lo, hi)
    BY <2>1, <2>4 DEF Done
  <2>7. RcvHoldsNumbers(RemoveOne(M, NumberOf(x)), D \ {x}, lo, hi)
    BY <2>5, <2>6, RemoveOneHolds
  <2>8. D \ {x} = C \ (a .. a + (k + 1) - 1)
    <3>1. a .. a + (k + 1) - 1 = (a .. a + k - 1) \cup {x}
      BY <1>4, <2>4
    <3>. QED  BY <2>4, <3>1
  <2>. QED  BY <2>3, <2>4, <2>7, <2>8 DEF Done
<1>13. len \in T
  <2>. HIDE DEF T
  <2>1. \A k \in Nat : k \in T => k + 1 \in T
    BY <1>12
  <2>. QED  BY <1>6, <1>11, <2>1, AllNumbers
<1>14. Done(len)
  BY <1>6, <1>13
<1>15. a + len - 1 = b
  BY <1>4, <1>5
<1>. QED  BY <1>8, <1>10, <1>14, <1>15

-----------------------------------------------------------------------------
(* The list's state and its invariant                                      *)

RcvLossSpec == RcvLossInit /\ [][RcvLossNext]_rcvListVars

RcvLossInv ==
    /\ rcvAcked \in Int /\ rcvNext \in Int
    /\ rcvAcked <= rcvNext /\ rcvNext <= rcvAcked + RcvListSize
    /\ RcvHoldsNumbers(rcvList, rcvLost, rcvAcked, rcvAcked + RcvListSize - 1)
    /\ \A y \in rcvLost : y \in Int /\ rcvAcked <= y /\ y < rcvNext

\* The window may move as long as it holds the numbers.
LEMMA RcvWindowMoves ==
    ASSUME NEW L, NEW C, NEW lo, NEW hi, RcvHoldsNumbers(L, C, lo, hi),
           NEW a, NEW b, a \in Int, b \in Int, b - a < RcvListSize, \A y \in C : a <= y /\ y <= b
    PROVE  RcvHoldsNumbers(L, C, a, b)
<1>1. PICK sl, S, E : RcvHolds(L, sl, S, E, lo, hi) /\ Covered(S, E) = C
  BY DEF RcvHoldsNumbers
<1>2. Ranges(S, E, lo, hi) /\ Window(RcvListSize, sl, lo, hi)
  BY <1>1 DEF RcvHolds, RcvArrays
<1>3. Window(RcvListSize, sl, a, b)
  BY <1>2 DEF Window
<1>4. \A n \in S : n \in C /\ E[n] \in C
  BY <1>1, <1>2 DEF Ranges, Covered
<1>5. Ranges(S, E, a, b)
  BY <1>2, <1>4 DEF Ranges
<1>6. RcvHolds(L, sl, S, E, a, b)
  BY <1>1, <1>3, <1>5 DEF RcvHolds, RcvArrays
<1>. QED  BY <1>1, <1>6 DEF RcvHoldsNumbers

\* The receiver's list starts empty.
LEMMA EmptyRcvHolds ==
    RcvLossInit => RcvLossInv
<1>. SUFFICES ASSUME RcvLossInit PROVE RcvLossInv
  OBVIOUS
<1>0. PICK lo, hi : lo = rcvAcked /\ hi = rcvAcked + RcvListSize - 1
  OBVIOUS
<1>1. /\ RcvListSize \in Nat \ {0} /\ RcvListSize < SeqNoTH
      /\ lo \in Int /\ hi \in Int /\ hi - lo < RcvListSize
  BY <1>0, RcvLossListAssumption DEF RcvLossInit
<1>2. PICK sl : RingSlots(sl, RcvListSize)
  BY <1>1, RingSlotsFrom
<1>3. PICK E : E = [n \in Int |-> n]
  OBVIOUS
<1>4. Window(RcvListSize, sl, lo, hi)
  BY <1>1, <1>2 DEF Window
<1>5. Ranges({}, E, lo, hi)
  BY <1>3 DEF Ranges
<1>6. PICK L : L = rcvList
  OBVIOUS
<1>7. L = [data1 |-> [i \in RcvSlots |-> -1], data2 |-> [i \in RcvSlots |-> -1],
           next |-> [i \in RcvSlots |-> -1], prior |-> [i \in RcvSlots |-> -1],
           head |-> -1, tail |-> -1, length |-> 0]
  BY <1>6 DEF RcvLossInit, EmptyRcvList
<1>8. RcvListRecord(L)
  BY <1>7 DEF RcvListRecord
<1>9. /\ L.data1 = [i \in RcvSlots |-> -1] /\ L.data2 = [i \in RcvSlots |-> -1]
      /\ L.next = [i \in RcvSlots |-> -1] /\ L.prior = [i \in RcvSlots |-> -1]
      /\ L.head = -1 /\ L.tail = -1 /\ L.length = 0
  BY <1>7
<1>10. Holding(L.data1, L.data2, RcvListSize, sl, {}, E)
  BY <1>9 DEF Holding, RcvSlots
<1>11. Chained(L.next, L.prior, L.head, L.tail, RcvListSize, sl, {})
  <2>1. Links(L.next, RcvListSize, sl, {})
    BY <1>9 DEF Links, RcvSlots
  <2>2. BackLinks(L.prior, RcvListSize, sl, {})
    BY <1>9 DEF BackLinks, RcvSlots
  <2>. QED  BY <1>9, <2>1, <2>2 DEF Chained, HeadOf, TailOf
<1>12. Covered({}, E) = {}
  BY DEF Covered
<1>13. L.length = Cardinality(Covered({}, E))
  BY <1>9, <1>12, FS_EmptySet
<1>14. RcvHolds(L, sl, {}, E, lo, hi)
  BY <1>4, <1>5, <1>8, <1>10, <1>11, <1>13 DEF RcvHolds, RcvArrays, Apart
<1>15. RcvHoldsNumbers(rcvList, rcvLost, lo, hi)
  BY <1>6, <1>12, <1>14 DEF RcvHoldsNumbers, RcvLossInit
<1>16. rcvNext = lo /\ rcvLost = {}
  BY <1>0 DEF RcvLossInit
<1>. QED  BY <1>0, <1>1, <1>15, <1>16 DEF RcvLossInv

\* A packet takes its number from the list or adds those it passed over.
LEMMA ReceiveNumberHolds ==
    ASSUME RcvLossInv, NEW n, n \in Int, ReceiveNumber(n)
    PROVE  RcvLossInv'
<1>1. PICK lo, hi, t, L, C : lo = rcvAcked /\ hi = rcvAcked + RcvListSize - 1 /\ t = rcvNext /\ L = rcvList /\ C = rcvLost
  OBVIOUS
<1>2. /\ lo \in Int /\ hi \in Int /\ hi = lo + RcvListSize - 1 /\ RcvListSize \in Int
      /\ t \in Int /\ lo <= t /\ t <= hi + 1
      /\ RcvHoldsNumbers(L, C, lo, hi) /\ \A y \in C : y \in Int /\ lo <= y /\ y < t
  BY <1>1, RcvLossListAssumption DEF RcvLossInv
<1>3. /\ lo <= n /\ n <= hi /\ rcvAcked' = lo
      /\ rcvNext' = (IF n >= t THEN n + 1 ELSE t)
      /\ rcvLost' = (C \cup (t .. n - 1)) \ {n}
      /\ rcvList' = IF n > t THEN InsertLast(L, NumberOf(t), decseq(NumberOf(n)))
                    ELSE IF n < t THEN RemoveOne(L, NumberOf(n)) ELSE L
  BY <1>1, <1>2 DEF ReceiveNumber
<1>4. /\ rcvNext' \in Int /\ lo <= rcvNext' /\ rcvNext' <= hi + 1
      /\ \A y \in rcvLost' : y \in Int /\ lo <= y /\ y < rcvNext'
  BY <1>2, <1>3
<1>5. RcvHoldsNumbers(rcvList', rcvLost', lo, hi)
  <2>1. CASE n > t
    <3>1. PICK sl, S, E : RcvHolds(L, sl, S, E, lo, hi) /\ Covered(S, E) = C
      BY <1>2 DEF RcvHoldsNumbers
    <3>2. Ranges(S, E, lo, hi) /\ Window(RcvListSize, sl, lo, hi)
      BY <3>1 DEF RcvHolds, RcvArrays
    <3>3. PICK b : b = n - 1
      OBVIOUS
    <3>4. t \in lo .. hi /\ b \in t .. hi /\ n \in lo .. hi + 1
      BY <1>2, <1>3, <2>1, <3>3
    <3>5. \A q \in S : E[q] < t
      <4>1. \A q \in S : E[q] \in C
        BY <3>1, <3>2 DEF Ranges, Covered
      <4>. QED  BY <1>2, <4>1
    <3>6. RcvHoldsNumbers(InsertLast(L, NumberOf(t), NumberOf(b)), Covered(S, E) \cup (t .. b), lo, hi)
      BY ONLY <3>1, <3>4, <3>5, InsertLastHolds
    <3>7. decseq(NumberOf(n)) = NumberOf(b)
      BY <3>2, <3>3, <3>4, Compare
    <3>8. rcvList' = InsertLast(L, NumberOf(t), NumberOf(b))
      BY <1>3, <2>1, <3>7
    <3>9. rcvLost' = C \cup (t .. b)
      <4>1. n \notin C /\ n \notin t .. b
        BY <1>2, <2>1, <3>3
      <4>. QED  BY <1>3, <3>3, <4>1
    <3>. QED  BY <3>1, <3>6, <3>8, <3>9
  <2>2. CASE n < t
    <3>1. rcvList' = RemoveOne(L, NumberOf(n))
      BY <1>2, <1>3, <2>2
    <3>2. rcvLost' = C \ {n}
      <4>1. t .. n - 1 = {}
        BY <1>2, <2>2
      <4>. QED  BY <1>3, <4>1
    <3>3. n \in lo - 1 .. hi
      BY <1>2, <1>3
    <3>4. RcvHoldsNumbers(RemoveOne(L, NumberOf(n)), C \ {n}, lo, hi)
      BY <1>2, <3>3, RemoveOneHolds
    <3>. QED  BY <3>1, <3>2, <3>4
  <2>3. CASE n = t
    <3>1. rcvList' = L
      BY <1>2, <1>3, <2>3
    <3>2. rcvLost' = C
      <4>1. t .. n - 1 = {} /\ n \notin C
        BY <1>2, <2>3
      <4>. QED  BY <1>3, <4>1
    <3>. QED  BY <1>2, <3>1, <3>2
  <2>. QED  BY <1>2, <2>1, <2>2, <2>3
<1>. QED  BY <1>2, <1>3, <1>4, <1>5 DEF RcvLossInv

\* A drop request takes its numbers from the list.
LEMMA DropMessageHolds ==
    ASSUME RcvLossInv, ~DropsWrap, NEW a, a \in Int, NEW b, b \in Int, DropMessage(a, b)
    PROVE  RcvLossInv'
<1>1. PICK lo, hi, t, L, C : lo = rcvAcked /\ hi = rcvAcked + RcvListSize - 1 /\ t = rcvNext /\ L = rcvList /\ C = rcvLost
  OBVIOUS
<1>2. /\ lo \in Int /\ hi \in Int /\ hi = lo + RcvListSize - 1 /\ RcvListSize \in Int
      /\ t \in Int /\ lo <= t /\ t <= hi + 1
      /\ RcvHoldsNumbers(L, C, lo, hi) /\ \A y \in C : y \in Int /\ lo <= y /\ y < t
  BY <1>1, RcvLossListAssumption DEF RcvLossInv
<1>3. /\ lo - 1 <= a /\ a <= b /\ b <= hi /\ rcvAcked' = lo /\ NumberOf(a) <= NumberOf(b)
      /\ rcvNext' = (IF a <= t /\ b >= t THEN b + 1 ELSE t)
      /\ rcvLost' = C \ (a .. b)
      /\ rcvList' = RemoveAll(L, NumberOf(a), NumberOf(b))
  BY <1>1, <1>2 DEF DropMessage
<1>4. /\ rcvNext' \in Int /\ lo <= rcvNext' /\ rcvNext' <= hi + 1
      /\ \A y \in rcvLost' : y \in Int /\ lo <= y /\ y < rcvNext'
  BY <1>2, <1>3
<1>5. a \in lo - 1 .. hi /\ b \in a .. hi
  BY <1>2, <1>3
<1>6. RcvHoldsNumbers(RemoveAll(L, NumberOf(a), NumberOf(b)), C \ (a .. b), lo, hi)
  BY <1>2, <1>3, <1>5, RemoveAllHolds
<1>. QED  BY <1>2, <1>3, <1>4, <1>6 DEF RcvLossInv

\* The window moves up to the first number that is missing.
LEMMA AckReceivedHolds ==
    ASSUME RcvLossInv, AckReceived
    PROVE  RcvLossInv'
<1>1. PICK lo, hi, t, L, C : lo = rcvAcked /\ hi = rcvAcked + RcvListSize - 1 /\ t = rcvNext /\ L = rcvList /\ C = rcvLost
  OBVIOUS
<1>2. /\ lo \in Int /\ hi \in Int /\ hi = lo + RcvListSize - 1 /\ RcvListSize \in Int
      /\ t \in Int /\ lo <= t /\ t <= hi + 1
      /\ RcvHoldsNumbers(L, C, lo, hi) /\ \A y \in C : y \in Int /\ lo <= y /\ y < t
  BY <1>1, RcvLossListAssumption DEF RcvLossInv
<1>3. PICK sl, S, E : RcvHolds(L, sl, S, E, lo, hi) /\ Covered(S, E) = C
  BY <1>2 DEF RcvHoldsNumbers
<1>4. /\ RcvArrays(L, sl, S, E, lo, hi) /\ (L.length = 0 <=> S = {})
      /\ Ranges(S, E, lo, hi) /\ Window(RcvListSize, sl, lo, hi)
      /\ Holding(L.data1, L.data2, RcvListSize, sl, S, E)
  BY <1>3, RcvEmpty DEF RcvHolds, RcvArrays
<1>5. \A m \in lo .. hi + 1 : lo + seqoff(NumberOf(lo), NumberOf(m)) = m
  <2>. TAKE m \in lo .. hi + 1
  <2>1. lo \in lo .. hi + 1
    BY <1>2
  <2>2. seqoff(NumberOf(lo), NumberOf(m)) = m - lo
    BY <1>4, <2>1, Compare
  <2>. QED  BY <1>2, <2>2
<1>6. PICK n : n = lo + seqoff(NumberOf(lo), AckSeqNo)
  OBVIOUS
<1>7. n \in lo .. t /\ \A y \in C : n <= y
  <2>1. CASE S = {}
    <3>1. AckSeqNo = NumberOf(t)
      BY <1>1, <1>4, <2>1 DEF AckSeqNo
    <3>2. n = t
      BY <1>2, <1>5, <1>6, <3>1
    <3>3. C = {}
      BY <1>3, <2>1 DEF Covered
    <3>. QED  BY <1>2, <3>2, <3>3
  <2>2. CASE S # {}
    <3>1. PICK h \in S : L.head = sl[h] /\ \A q \in S : h <= q
      BY <1>4, <2>2, RcvEnds
    <3>2. AckSeqNo = NumberOf(h)
      <4>1. L.data1[L.head] = NumberOf(h)
        BY <1>4, <3>1, RangeRead
      <4>. QED  BY <1>1, <1>4, <2>2, <4>1 DEF AckSeqNo
    <3>3. h \in C /\ h \in Int
      BY <1>3, <1>4, <3>1 DEF Covered, Ranges
    <3>4. h \in lo .. hi + 1 /\ h < t
      BY <1>2, <3>3
    <3>5. n = h
      BY <1>5, <1>6, <3>2, <3>4
    <3>6. ASSUME NEW y \in C PROVE h <= y
      <4>1. PICK q \in S : q <= y
        BY <1>3 DEF Covered
      <4>2. h <= q /\ q \in Int
        BY <1>4, <3>1 DEF Ranges
      <4>. QED  BY <1>2, <3>3, <4>1, <4>2
    <3>. QED  BY <1>2, <3>3, <3>4, <3>5, <3>6
  <2>. QED  BY <2>1, <2>2
<1>8. rcvAcked' = n /\ rcvList' = L /\ rcvNext' = t /\ rcvLost' = C
  BY <1>1, <1>6 DEF AckReceived
<1>9. n \in Int /\ n <= t /\ lo <= n
  BY <1>2, <1>7
<1>10. PICK l, r : l = n /\ r = n + RcvListSize - 1
  OBVIOUS
<1>11. l \in Int /\ r \in Int /\ r - l < RcvListSize /\ \A y \in C : l <= y /\ y <= r
  BY <1>2, <1>7, <1>9, <1>10
<1>12. RcvHoldsNumbers(L, C, l, r)
  BY <1>2, <1>11, RcvWindowMoves
<1>13. t <= n + RcvListSize
  BY <1>2, <1>9
<1>. QED  BY <1>2, <1>7, <1>8, <1>9, <1>10, <1>12, <1>13 DEF RcvLossInv

\* Every call keeps the receiver's list holding what is missing.
LEMMA RcvLossStep ==
    ASSUME ~DropsWrap
    PROVE  RcvLossInv /\ [RcvLossNext]_rcvListVars => RcvLossInv'
<1>. SUFFICES ASSUME RcvLossInv, [RcvLossNext]_rcvListVars PROVE RcvLossInv'
  OBVIOUS
<1>1. RcvLossNumbers \subseteq Int
  BY RcvLossListAssumption DEF RcvLossNumbers
<1>2. ASSUME NEW n \in RcvLossNumbers, ReceiveNumber(n) PROVE RcvLossInv'
  BY <1>1, <1>2, ReceiveNumberHolds
<1>3. ASSUME NEW a \in RcvLossNumbers, NEW b \in RcvLossNumbers, DropMessage(a, b) PROVE RcvLossInv'
  BY <1>1, <1>3, DropMessageHolds
<1>4. CASE AckReceived
  BY <1>4, AckReceivedHolds
<1>5. CASE UNCHANGED rcvListVars
  BY <1>5 DEF rcvListVars, RcvLossInv
<1>. QED  BY <1>2, <1>3, <1>4, <1>5 DEF RcvLossNext

\* The invariant says what RcvListIsSet says of the nodes as they are linked.
LEMMA RcvInvIsSet ==
    RcvLossInv => RcvListIsSet
<1>. SUFFICES ASSUME RcvLossInv PROVE RcvListIsSet
  OBVIOUS
<1>1. PICK lo, hi, t : lo = rcvAcked /\ hi = rcvAcked + RcvListSize - 1 /\ t = rcvNext - 1
  OBVIOUS
<1>2. PICK sl, S, E : RcvHolds(rcvList, sl, S, E, lo, hi) /\ Covered(S, E) = rcvLost
  BY <1>1 DEF RcvLossInv, RcvHoldsNumbers
<1>3. /\ Window(RcvListSize, sl, lo, hi) /\ Ranges(S, E, lo, hi)
      /\ Holding(rcvList.data1, rcvList.data2, RcvListSize, sl, S, E)
      /\ Chained(rcvList.next, rcvList.prior, rcvList.head, rcvList.tail, RcvListSize, sl, S)
      /\ Links(rcvList.next, RcvListSize, sl, S) /\ HeadOf(sl, S, rcvList.head)
      /\ Apart(S, E) /\ rcvList.length = Cardinality(Covered(S, E))
  BY <1>2 DEF RcvHolds, RcvArrays, Chained
<1>4. lo \in Int /\ hi \in Int /\ RcvListSize \in Nat \ {0} /\ t \in Int /\ t <= hi
  BY <1>1, <1>3, WindowIs DEF RcvLossInv
<1>5. \A n \in S : /\ n \in Int /\ n \in lo .. hi /\ n \in lo .. hi + 1 /\ E[n] \in lo .. hi + 1 /\ E[n] \in Int /\ sl[n] # -1
                   /\ rcvList.data1[sl[n]] = NumberOf(n) /\ LastIn(rcvList, sl[n]) = NumberOf(E[n])
  <2>1. \A n \in S : /\ n \in Int /\ n \in lo .. hi /\ E[n] \in lo .. hi /\ sl[n] \in 0 .. RcvListSize - 1
                     /\ rcvList.data1[sl[n]] = NumberOf(n) /\ LastIn(rcvList, sl[n]) = NumberOf(E[n])
    BY <1>3, RangeRead DEF LastIn
  <2>. QED  BY <1>4, <2>1
<1>6. PICK node : node = RcvNode
  OBVIOUS
<1>7. /\ node[0] = IF rcvList.length = 0 THEN -1 ELSE rcvList.head
      /\ \A k \in 1 .. RcvListSize + 1 : node[k] = IF node[k - 1] = -1 THEN -1 ELSE rcvList.next[node[k - 1]]
  BY <1>6, RcvNodeTurns DEF RcvNodeAfter
<1>8. HeadOf(sl, S, node[0])
  <2>1. rcvList.length = 0 <=> S = {}
    BY <1>3, <1>4, CoveredIs
  <2>. QED  BY <1>3, <1>7, <2>1 DEF HeadOf
<1>9. /\ \A k \in 0 .. RcvListSize + 1 : node[k] = -1 \/ \E n \in S : node[k] = sl[n]
      /\ \A n \in S : \E k \in 0 .. RcvListSize : node[k] = sl[n]
  <2>1. Window(RcvListSize, sl, lo, hi) /\ Links(rcvList.next, RcvListSize, sl, S)
    BY <1>3
  <2>2. S \subseteq lo .. hi
    BY <1>5
  <2>3. \A k \in 1 .. RcvListSize + 1 : node[k] = IF node[k - 1] = -1 THEN -1 ELSE rcvList.next[node[k - 1]]
    BY <1>7
  <2>4. AllReached(node, RcvListSize, sl, S)
    BY ONLY <1>8, <2>1, <2>2, <2>3, ChainReaches
  <2>. QED  BY <2>4 DEF AllReached
<1>10. \A i : i \in RcvNodes <=> \E n \in S : i = sl[n]
  <2>. TAKE i
  <2>1. ASSUME i \in RcvNodes PROVE \E n \in S : i = sl[n]
    <3>1. PICK k \in 0 .. RcvListSize : i = node[k] /\ i # -1
      BY <1>6, <2>1 DEF RcvNodes
    <3>2. k \in 0 .. RcvListSize + 1
      BY <1>4
    <3>. QED  BY <1>9, <3>1, <3>2
  <2>2. ASSUME NEW n \in S, i = sl[n] PROVE i \in RcvNodes
    <3>1. PICK k \in 0 .. RcvListSize : node[k] = sl[n]
      BY <1>9
    <3>. QED  BY <1>5, <1>6, <2>2, <3>1 DEF RcvNodes
  <2>. QED  BY <2>1, <2>2
<1>11. ASSUME NEW m \in S, NEW n \in lo .. hi PROVE InRange(sl[m], NumberOf(n)) <=> m <= n /\ n <= E[m]
  <2>1. n \in lo .. hi + 1
    BY <1>4
  <2>2. seqcmp(NumberOf(m), NumberOf(n)) <= 0 <=> m <= n
    BY <1>3, <1>5, <2>1, Compare
  <2>3. seqcmp(NumberOf(n), NumberOf(E[m])) <= 0 <=> n <= E[m]
    BY <1>3, <1>5, <2>1, Compare
  <2>. QED  BY <1>5, <2>2, <2>3 DEF InRange
<1>12. rcvLost = {n \in rcvAcked .. rcvNext - 1 : \E i \in RcvNodes : InRange(i, NumberOf(n))}
  <2>1. rcvLost \subseteq lo .. t
    BY <1>1, <1>4 DEF RcvLossInv
  <2>2. ASSUME NEW n \in lo .. t PROVE n \in Covered(S, E) <=> \E i \in RcvNodes : InRange(i, NumberOf(n))
    <3>1. n \in lo .. hi /\ n \in Int
      BY <1>4
    <3>. QED  BY <1>10, <1>11, <3>1 DEF Covered
  <2>. QED  BY <1>1, <1>2, <2>1, <2>2
<1>13. ASSUME NEW k \in 0 .. RcvListSize, RcvNode[k] # -1, RcvNode[k + 1] # -1
       PROVE  /\ seqcmp(LastIn(rcvList, RcvNode[k]), rcvList.data1[RcvNode[k + 1]]) < 0
              /\ rcvList.prior[RcvNode[k + 1]] = RcvNode[k]
  <2>1. k \in 0 .. RcvListSize + 1 /\ k + 1 \in 1 .. RcvListSize + 1 /\ (k + 1) - 1 = k
    BY <1>4
  <2>2. PICK m \in S : node[k] = sl[m]
    BY <1>6, <1>9, <1>13, <2>1
  <2>3. node[k + 1] = rcvList.next[sl[m]] /\ node[k + 1] # -1
    <3>1. node[k + 1] = IF node[k] = -1 THEN -1 ELSE rcvList.next[node[k]]
      BY <1>7, <2>1
    <3>. QED  BY <1>5, <1>6, <1>13, <2>2, <3>1
  <2>4. Follows(sl, S, m, node[k + 1])
    BY <1>3, <2>3 DEF Links
  <2>5. PICK n \in S : m < n /\ node[k + 1] = sl[n] /\ \A q \in S : q <= m \/ n <= q
    BY <2>3, <2>4 DEF Follows
  <2>6. E[m] < n
    BY <1>3, <2>5 DEF Apart
  <2>7. seqcmp(NumberOf(E[m]), NumberOf(n)) < 0
    BY <1>3, <1>5, <2>6, Compare
  <2>8. rcvList.prior[sl[n]] = sl[m]
    <3>1. ChainReads(rcvList.next, rcvList.prior, rcvList.head, rcvList.tail, sl, S, n)
      BY <1>3, <1>5, ChainRead
    <3>2. rcvList.head # sl[n]
      BY <1>5, <2>5, <3>1 DEF ChainReads
    <3>3. PICK x \in S : x < n /\ rcvList.prior[sl[n]] = sl[x] /\ \A q \in S : q <= x \/ n <= q
      BY <3>1, <3>2 DEF ChainReads
    <3>4. x = m
      BY <1>5, <2>5, <3>3
    <3>. QED  BY <3>3, <3>4
  <2>. QED  BY <1>5, <1>6, <2>2, <2>5, <2>7, <2>8
<1>14. rcvList.length = Cardinality(rcvLost)
  BY <1>2, <1>3
<1>. QED  BY <1>12, <1>13, <1>14 DEF RcvListIsSet

-----------------------------------------------------------------------------
(* getLossArray                                                            *)

NakEntries == [first : BOOLEAN, no : Int]

\* Entry j is the number v, or the first of a pair of v and w.
EntryIs(array, j, v) == ~array[j].first /\ array[j].no = v

PairIs(array, j, v, w) ==
    array[j].first /\ array[j].no = v /\ j + 1 \in 1 .. Len(array) /\ array[j + 1].no = w

\* The array names the ranges that start at the numbers D.
Names(array, D, E) ==
    /\ \A j \in 1 .. Len(array) : \E n \in D : \/ EntryIs(array, j, NumberOf(E[n]))
                                               \/ PairIs(array, j, NumberOf(n), NumberOf(E[n]))
    /\ \A n \in D : \E j \in 1 .. Len(array) : \/ E[n] = n /\ EntryIs(array, j, NumberOf(n))
                                               \/ PairIs(array, j, NumberOf(n), NumberOf(E[n]))

\* What a node adds: one entry for one number, two for more.
Added(more, array, n, E) ==
    LET len == Len(array)
    IN /\ len \in Nat /\ \A j \in 1 .. len : more[j] = array[j]
       /\ \/ Len(more) = len + 1 /\ E[n] = n /\ EntryIs(more, len + 1, NumberOf(n))
          \/ Len(more) = len + 2 /\ PairIs(more, len + 1, NumberOf(n), NumberOf(E[n]))
                                 /\ EntryIs(more, len + 2, NumberOf(E[n]))

\* What the array names when a node's entries are added.
LEMMA NamesMore ==
    ASSUME NEW array, NEW more, NEW D, NEW E, NEW n, Names(array, D, E), Added(more, array, n, E)
    PROVE  Names(more, D \cup {n}, E)
<1>1. PICK len : len = Len(array)
  OBVIOUS
<1>2. /\ len \in Nat /\ \A j \in 1 .. len : more[j] = array[j]
      /\ \/ Len(more) = len + 1 /\ E[n] = n /\ EntryIs(more, len + 1, NumberOf(n))
         \/ Len(more) = len + 2 /\ PairIs(more, len + 1, NumberOf(n), NumberOf(E[n]))
                                /\ EntryIs(more, len + 2, NumberOf(E[n]))
  BY <1>1 DEF Added
<1>3. Len(more) \in Nat /\ 1 .. len \subseteq 1 .. Len(more)
  BY <1>2
<1>4. \A j \in 1 .. len : \A v : EntryIs(array, j, v) => EntryIs(more, j, v)
  BY <1>2 DEF EntryIs
<1>5. \A j \in 1 .. len : \A v, w : PairIs(array, j, v, w) => PairIs(more, j, v, w)
  <2>. TAKE j \in 1 .. len
  <2>. TAKE v, w
  <2>. HAVE PairIs(array, j, v, w)
  <2>1. array[j].first /\ array[j].no = v /\ j + 1 \in 1 .. len /\ array[j + 1].no = w
    BY <1>1 DEF PairIs
  <2>2. more[j] = array[j] /\ more[j + 1] = array[j + 1] /\ j + 1 \in 1 .. Len(more)
    BY <1>2, <1>3, <2>1
  <2>. QED  BY <2>1, <2>2 DEF PairIs
<1>6. ASSUME NEW j \in 1 .. Len(more)
      PROVE  \E d \in D \cup {n} : \/ EntryIs(more, j, NumberOf(E[d]))
                                   \/ PairIs(more, j, NumberOf(d), NumberOf(E[d]))
  <2>1. CASE j \in 1 .. len
    <3>1. PICK d \in D : EntryIs(array, j, NumberOf(E[d])) \/ PairIs(array, j, NumberOf(d), NumberOf(E[d]))
      BY <1>1, <2>1 DEF Names
    <3>2. EntryIs(more, j, NumberOf(E[d])) \/ PairIs(more, j, NumberOf(d), NumberOf(E[d]))
      BY <1>4, <1>5, <2>1, <3>1
    <3>. QED  BY <3>2
  <2>2. CASE j = len + 1
    <3>1. EntryIs(more, j, NumberOf(E[n])) \/ PairIs(more, j, NumberOf(n), NumberOf(E[n]))
      BY <1>2, <2>2
    <3>. QED  BY <3>1
  <2>3. CASE j = len + 2
    <3>1. Len(more) # len + 1
      BY <1>2, <2>3
    <3>2. EntryIs(more, j, NumberOf(E[n]))
      BY <1>2, <2>3, <3>1
    <3>. QED  BY <3>2
  <2>4. j \in 1 .. len \/ j = len + 1 \/ j = len + 2
    BY <1>2
  <2>. QED  BY <2>1, <2>2, <2>3, <2>4
<1>7. ASSUME NEW d \in D \cup {n}
      PROVE  \E j \in 1 .. Len(more) : \/ E[d] = d /\ EntryIs(more, j, NumberOf(d))
                                       \/ PairIs(more, j, NumberOf(d), NumberOf(E[d]))
  <2>1. CASE d \in D
    <3>1. PICK j \in 1 .. len : \/ E[d] = d /\ EntryIs(array, j, NumberOf(d))
                                \/ PairIs(array, j, NumberOf(d), NumberOf(E[d]))
      BY <1>1, <2>1 DEF Names
    <3>2. (E[d] = d /\ EntryIs(more, j, NumberOf(d))) \/ PairIs(more, j, NumberOf(d), NumberOf(E[d]))
      BY <1>4, <1>5, <3>1
    <3>. QED  BY <1>3, <3>2
  <2>2. CASE d = n
    <3>1. len + 1 \in 1 .. Len(more)
      BY <1>2
    <3>2. (E[n] = n /\ EntryIs(more, len + 1, NumberOf(n))) \/ PairIs(more, len + 1, NumberOf(n), NumberOf(E[n]))
      BY <1>2
    <3>. QED  BY <2>2, <3>1, <3>2
  <2>. QED  BY <2>1, <2>2
<1>. QED  BY <1>6, <1>7 DEF Names

\* What the turn of a range adds.
LEMMA NodeAdds ==
    ASSUME NEW i, NEW n, NEW E, NEW array, array \in Seq(NakEntries),
           rcvList.data1[i] = NumberOf(n), NumberOf(n) \in Int, NumberOf(E[n]) \in Int,
           (E[n] = n /\ rcvList.data2[i] = -1) \/ (E[n] # n /\ rcvList.data2[i] = NumberOf(E[n]) /\ rcvList.data2[i] # -1),
           NEW more, more = array \o NodeEntries(rcvList, i)
    PROVE  Added(more, array, n, E) /\ more \in Seq(NakEntries)
<1>1. PICK len : len = Len(array)
  OBVIOUS
<1>2. len \in Nat /\ \A j \in 1 .. len : array[j] \in NakEntries
  BY <1>1
<1>3. CASE E[n] = n /\ rcvList.data2[i] = -1
  <2>1. PICK e : e = [first |-> FALSE, no |-> NumberOf(n)]
    OBVIOUS
  <2>2. e \in NakEntries /\ ~e.first /\ e.no = NumberOf(n)
    BY <2>1 DEF NakEntries
  <2>3. more = array \o <<e>>
    BY <1>3, <2>1 DEF NodeEntries
  <2>4. /\ more \in Seq(NakEntries) /\ Len(more) = len + 1 /\ more[len + 1] = e
        /\ \A j \in 1 .. len : more[j] = array[j]
    BY <1>1, <2>2, <2>3
  <2>5. EntryIs(more, len + 1, NumberOf(n))
    BY <2>2, <2>4 DEF EntryIs
  <2>. QED  BY <1>1, <1>2, <1>3, <2>4, <2>5 DEF Added
<1>4. CASE E[n] # n /\ rcvList.data2[i] = NumberOf(E[n]) /\ rcvList.data2[i] # -1
  <2>1. PICK e, f : e = [first |-> TRUE, no |-> NumberOf(n)] /\ f = [first |-> FALSE, no |-> NumberOf(E[n])]
    OBVIOUS
  <2>2. /\ e \in NakEntries /\ e.first /\ e.no = NumberOf(n)
        /\ f \in NakEntries /\ ~f.first /\ f.no = NumberOf(E[n])
    BY <2>1 DEF NakEntries
  <2>3. more = array \o <<e, f>>
    BY <1>4, <2>1 DEF NodeEntries
  <2>4. /\ more \in Seq(NakEntries) /\ Len(more) = len + 2 /\ more[len + 1] = e /\ more[len + 2] = f
        /\ \A j \in 1 .. len : more[j] = array[j]
    BY <1>1, <2>2, <2>3
  <2>5. EntryIs(more, len + 2, NumberOf(E[n]))
    BY <2>2, <2>4 DEF EntryIs
  <2>6. PairIs(more, len + 1, NumberOf(n), NumberOf(E[n]))
    <3>1. (len + 1) + 1 = len + 2 /\ len + 2 \in 1 .. Len(more)
      BY <1>2, <2>4
    <3>. QED  BY <2>2, <2>4, <3>1 DEF PairIs
  <2>. QED  BY <1>1, <1>2, <2>4, <2>5, <2>6 DEF Added
<1>. QED  BY <1>3, <1>4

\* The array so far names the ranges that start at the numbers D, the first of all.
NakSoFar(array, at, limit, sl, S, E, D) ==
    /\ D \subseteq S /\ array \in Seq(NakEntries) /\ Len(array) <= limit
    /\ Names(array, D, E)
    /\ HeadOf(sl, S \ D, at)
    /\ \A d \in D, m \in S \ D : d < m

\* The limits a NAK may have: two entries at least.
NakLimits == {l \in Nat : l >= 2}

\* That holds of some ranges.
NakGoes(st, limit, sl, S, E) ==
    \E D : NakSoFar(st.array, st.at, limit, sl, S, E, D) /\ (S # {} => D # {})

\* A turn of getLossArray's loop adds the next range, if there is room.
LEMMA NakTurn ==
    ASSUME NEW lo, NEW hi, NEW sl, NEW S, NEW E, RcvArrays(rcvList, sl, S, E, lo, hi),
           NEW limit, limit \in NakLimits,
           NEW st, NEW D, NakSoFar(st.array, st.at, limit, sl, S, E, D)
    PROVE  NakGoes(LossTurn(st, limit), limit, sl, S, E)
<1>0. PICK new : new = LossTurn(st, limit)
  OBVIOUS
<1>1. /\ D \subseteq S /\ st.array \in Seq(NakEntries) /\ Len(st.array) <= limit
      /\ Names(st.array, D, E) /\ HeadOf(sl, S \ D, st.at)
      /\ \A d \in D, m \in S \ D : d < m
  BY DEF NakSoFar
<1>2. /\ Window(RcvListSize, sl, lo, hi) /\ Ranges(S, E, lo, hi)
      /\ Holding(rcvList.data1, rcvList.data2, RcvListSize, sl, S, E)
      /\ Links(rcvList.next, RcvListSize, sl, S)
  BY DEF RcvArrays, Chained
<1>3. Len(st.array) \in Nat
  BY <1>1
<1>4. \A m \in S : m \in Int /\ sl[m] # -1
  BY RcvRead
<1>5. CASE st.at = -1
  <2>1. new = st
    BY <1>0, <1>5 DEF LossTurn
  <2>2. S \ D = {}
    BY <1>1, <1>4, <1>5 DEF HeadOf
  <2>3. \E F : NakSoFar(new.array, new.at, limit, sl, S, E, F) /\ (S # {} => F # {})
    BY <1>1, <2>1, <2>2
  <2>. QED  BY <1>0, <2>3 DEF NakGoes
<1>6. CASE st.at # -1 /\ ~RoomFor(Len(st.array), limit)
  <2>1. new = st
    BY <1>0, <1>6 DEF LossTurn
  <2>2. D # {}
    <3>1. Len(st.array) # 0
      BY <1>6 DEF RoomFor, NakLimits
    <3>2. 1 \in 1 .. Len(st.array)
      BY <1>3, <3>1
    <3>. QED  BY <1>1, <3>2 DEF Names
  <2>3. \E F : NakSoFar(new.array, new.at, limit, sl, S, E, F) /\ (S # {} => F # {})
    BY <2>1, <2>2
  <2>. QED  BY <1>0, <2>3 DEF NakGoes
<1>7. CASE st.at # -1 /\ RoomFor(Len(st.array), limit)
  <2>1. PICK m \in S \ D : st.at = sl[m] /\ \A q \in S \ D : m <= q
    BY <1>1, <1>7 DEF HeadOf
  <2>2. PICK array, more, i : array = st.array /\ more = array \o NodeEntries(rcvList, i) /\ i = sl[m]
    OBVIOUS
  <2>3. new.array = more /\ new.at = rcvList.next[i]
    BY <1>0, <1>7, <2>1, <2>2 DEF LossTurn
  <2>4. Added(more, array, m, E) /\ more \in Seq(NakEntries)
    <3>1. m \in S
      OBVIOUS
    <3>2. /\ rcvList.data1[i] = NumberOf(m) /\ m \in lo .. hi + 1 /\ E[m] \in lo .. hi + 1
          /\ (rcvList.data2[i] = -1 <=> E[m] = m) /\ (rcvList.data2[i] # -1 => rcvList.data2[i] = NumberOf(E[m]))
      <4>1. /\ rcvList.data1[sl[m]] = NumberOf(m)
            /\ (rcvList.data2[sl[m]] = -1 <=> E[m] = m)
            /\ (rcvList.data2[sl[m]] # -1 => rcvList.data2[sl[m]] = NumberOf(E[m]))
        BY <1>2, <3>1, RangeRead
      <4>2. m \in lo .. hi + 1 /\ E[m] \in lo .. hi + 1
        BY <3>1, RcvRead
      <4>. QED  BY <2>2, <4>1, <4>2
    <3>3. NumberOf(m) \in Int /\ NumberOf(E[m]) \in Int
      <4>1. NumberOf(m) \in Nat /\ NumberOf(E[m]) \in Nat
        BY <1>2, <3>2, Compare
      <4>. QED  BY <4>1
    <3>4. array \in Seq(NakEntries)
      BY <1>1, <2>2
    <3>5. (E[m] = m /\ rcvList.data2[i] = -1) \/ (E[m] # m /\ rcvList.data2[i] = NumberOf(E[m]) /\ rcvList.data2[i] # -1)
      BY <3>2
    <3>6. rcvList.data1[i] = NumberOf(m) /\ more = array \o NodeEntries(rcvList, i)
      BY <2>2, <3>2
    <3>. QED  BY <3>3, <3>4, <3>5, <3>6, NodeAdds
  <2>5. Names(more, D \cup {m}, E)
    BY <1>1, <2>2, <2>4, NamesMore
  <2>6. Len(more) <= limit
    <3>1. Len(more) = Len(array) + 1 \/ Len(more) = Len(array) + 2
      BY <2>4 DEF Added
    <3>2. Len(array) < limit - 1
      BY <1>7, <2>2 DEF RoomFor
    <3>3. Len(array) \in Nat
      BY <1>3, <2>2
    <3>. QED  BY <3>1, <3>2, <3>3 DEF NakLimits
  <2>7. PICK F : F = D \cup {m}
    OBVIOUS
  <2>8. S \ F = {n \in S : m < n}
    <3>1. ASSUME NEW n \in S PROVE n \notin F <=> m < n
      BY <1>1, <1>4, <2>1, <2>7
    <3>. QED  BY <3>1
  <2>9. HeadOf(sl, S \ F, rcvList.next[i])
    <3>1. Follows(sl, S, m, rcvList.next[i])
      BY <1>2, <2>2 DEF Links
    <3>2. S \subseteq Int /\ m \in Int
      BY <1>4
    <3>3. HeadOf(sl, {n \in S : m < n}, rcvList.next[i])
      BY <3>1, <3>2, HeadFrom
    <3>. QED  BY <2>8, <3>3
  <2>10. \A d \in F, n \in S \ F : d < n
    BY <1>1, <2>7, <2>8
  <2>11. F \subseteq S /\ F # {}
    BY <1>1, <2>7
  <2>12. NakSoFar(more, rcvList.next[i], limit, sl, S, E, F)
    BY <2>4, <2>5, <2>6, <2>7, <2>9, <2>10, <2>11 DEF NakSoFar
  <2>. QED  BY <1>0, <2>3, <2>11, <2>12 DEF NakGoes
<1>. QED  BY <1>5, <1>6, <1>7

\* The array of a NAK fits and names the first ranges.
LEMMA NakIs ==
    ASSUME NEW lo, NEW hi, NEW sl, NEW S, NEW E, RcvArrays(rcvList, sl, S, E, lo, hi),
           NEW limit, limit \in NakLimits
    PROVE  \E D, at : NakSoFar(GetLossArray(limit), at, limit, sl, S, E, D) /\ (S # {} => D # {})
<1>1. RcvListSize \in Nat \ {0}
  BY RcvLossListAssumption
<1>2. PICK g : /\ g[0] = [array |-> << >>, at |-> rcvList.head]
               /\ \A k \in 1 .. RcvListSize : g[k] = LossTurn(g[k - 1], limit)
               /\ GetLossArray(limit) = g[RcvListSize].array
  BY LossTurns
<1>. DEFINE So(k) == \E D : NakSoFar(g[k].array, g[k].at, limit, sl, S, E, D) /\ (k > 0 /\ S # {} => D # {})
            T == {k \in Nat : k <= RcvListSize => So(k)}
<1>3. 0 \in T
  <2>0. limit \in Nat
    BY DEF NakLimits
  <2>1. HeadOf(sl, S \ {}, rcvList.head)
    <3>1. S \ {} = S
      OBVIOUS
    <3>. QED  BY <3>1 DEF RcvArrays, Chained
  <2>2. NakSoFar(<< >>, rcvList.head, limit, sl, S, E, {})
    <3>1. << >> \in Seq(NakEntries) /\ Len(<< >>) = 0
      OBVIOUS
    <3>2. Names(<< >>, {}, E)
      BY <3>1 DEF Names
    <3>. QED  BY <2>0, <2>1, <3>1, <3>2 DEF NakSoFar
  <2>3. g[0].array = << >> /\ g[0].at = rcvList.head
    BY <1>2
  <2>. QED  BY <2>2, <2>3
<1>4. ASSUME NEW k \in Nat, k \in T PROVE k + 1 \in T
  <2>. SUFFICES ASSUME k + 1 <= RcvListSize PROVE So(k + 1)
    OBVIOUS
  <2>1. PICK D : NakSoFar(g[k].array, g[k].at, limit, sl, S, E, D)
    BY <1>1, <1>4
  <2>2. k + 1 \in 1 .. RcvListSize /\ (k + 1) - 1 = k
    BY <1>1
  <2>3. PICK st : st = g[k]
    OBVIOUS
  <2>4. g[k + 1] = LossTurn(st, limit)
    BY <1>2, <2>2, <2>3
  <2>5. NakSoFar(st.array, st.at, limit, sl, S, E, D)
    BY <2>1, <2>3
  <2>6. NakGoes(LossTurn(st, limit), limit, sl, S, E)
    <3>1. RcvArrays(rcvList, sl, S, E, lo, hi)
      OBVIOUS
    <3>2. limit \in NakLimits
      OBVIOUS
    <3>. QED  BY ONLY <2>5, <3>1, <3>2, NakTurn
  <2>. QED  BY <2>4, <2>6 DEF NakGoes
<1>5. RcvListSize \in T
  <2>. HIDE DEF T
  <2>1. \A k \in Nat : k \in T => k + 1 \in T
    BY <1>4
  <2>. QED  BY <1>1, <1>3, <2>1, AllNumbers
<1>6. So(RcvListSize) /\ RcvListSize > 0
  BY <1>1, <1>5
<1>. QED  BY <1>2, <1>6

\* A NAK of any limit fits and names the smallest numbers.
LEMMA RcvInvNak ==
    RcvLossInv => NakFitsAndIsExact
<1>. SUFFICES ASSUME RcvLossInv PROVE NakFitsAndIsExact
  OBVIOUS
<1>1. PICK lo, hi, t : lo = rcvAcked /\ hi = rcvAcked + RcvListSize - 1 /\ t = rcvNext - 1
  OBVIOUS
<1>2. PICK sl, S, E : RcvHolds(rcvList, sl, S, E, lo, hi) /\ Covered(S, E) = rcvLost
  BY <1>1 DEF RcvLossInv, RcvHoldsNumbers
<1>3. /\ RcvArrays(rcvList, sl, S, E, lo, hi) /\ Window(RcvListSize, sl, lo, hi) /\ Apart(S, E)
  BY <1>2 DEF RcvHolds, RcvArrays
<1>4. /\ lo \in Int /\ hi \in Int /\ t \in Int /\ t <= hi
      /\ \A n \in S : n \in Int /\ E[n] \in Int /\ n <= E[n] /\ n \in lo .. hi + 1 /\ E[n] \in lo .. hi + 1
  <2>1. t \in Int /\ t <= hi
    BY <1>1, RcvLossListAssumption DEF RcvLossInv
  <2>. QED  BY <1>3, <2>1, RcvRead
<1>5. \A y \in rcvLost : y \in lo .. t
  BY <1>1, <1>4 DEF RcvLossInv
<1>6. SUFFICES ASSUME NEW limit \in 2 .. 4
               PROVE  LET array == GetLossArray(limit)
                      IN /\ Len(array) <= limit
                         /\ Reported(array) \subseteq rcvLost
                         /\ \A n \in rcvLost \ Reported(array) : \A m \in Reported(array) : m < n
                         /\ rcvLost # {} => Reported(array) # {}
  BY DEF NakFitsAndIsExact
<1>7. PICK array : array = GetLossArray(limit)
  OBVIOUS
<1>8. PICK D, at : NakSoFar(array, at, limit, sl, S, E, D) /\ (S # {} => D # {})
  <2>1. limit \in NakLimits
    BY DEF NakLimits
  <2>. QED  BY ONLY <1>3, <1>7, <2>1, NakIs
<1>9. /\ D \subseteq S /\ array \in Seq(NakEntries) /\ Len(array) <= limit /\ Names(array, D, E)
      /\ \A d \in D, m \in S \ D : d < m
  BY <1>8 DEF NakSoFar
<1>10. DOMAIN array = 1 .. Len(array)
  BY <1>9
<1>11. ASSUME NEW n \in lo .. t PROVE n \in Reported(array) <=> \E d \in D : d <= n /\ n <= E[d]
  <2>1. n \in lo .. hi + 1 /\ n \in Int /\ n \in rcvAcked .. rcvNext - 1
    BY <1>1, <1>4
  <2>2. \A v \in lo .. hi + 1 : /\ seqcmp(NumberOf(v), NumberOf(n)) <= 0 <=> v <= n
                                /\ seqcmp(NumberOf(n), NumberOf(v)) <= 0 <=> n <= v
                                /\ NumberOf(n) = NumberOf(v) <=> n = v
    BY <1>3, <2>1, Compare
  <2>3. ASSUME n \in Reported(array) PROVE \E d \in D : d <= n /\ n <= E[d]
    <3>1. PICK k \in 1 .. Len(array) :
              \/ ~array[k].first /\ NumberOf(n) = array[k].no
              \/ array[k].first /\ seqcmp(array[k].no, NumberOf(n)) <= 0 /\ seqcmp(NumberOf(n), array[k + 1].no) <= 0
      BY <1>10, <2>3 DEF Reported
    <3>2. PICK d \in D : EntryIs(array, k, NumberOf(E[d])) \/ PairIs(array, k, NumberOf(d), NumberOf(E[d]))
      BY <1>9 DEF Names
    <3>3. d \in lo .. hi + 1 /\ E[d] \in lo .. hi + 1 /\ d \in Int /\ E[d] \in Int /\ d <= E[d]
      BY <1>4, <1>9
    <3>4. CASE EntryIs(array, k, NumberOf(E[d]))
      <4>1. n = E[d]
        BY <2>2, <3>1, <3>3, <3>4 DEF EntryIs
      <4>. QED  BY <3>3, <4>1
    <3>5. CASE PairIs(array, k, NumberOf(d), NumberOf(E[d]))
      <4>1. d <= n /\ n <= E[d]
        BY <2>2, <3>1, <3>3, <3>5 DEF PairIs
      <4>. QED  BY <4>1
    <3>. QED  BY <3>2, <3>4, <3>5
  <2>4. ASSUME NEW d \in D, d <= n, n <= E[d] PROVE n \in Reported(array)
    <3>1. PICK k \in 1 .. Len(array) : \/ E[d] = d /\ EntryIs(array, k, NumberOf(d))
                                       \/ PairIs(array, k, NumberOf(d), NumberOf(E[d]))
      BY <1>9 DEF Names
    <3>2. d \in lo .. hi + 1 /\ E[d] \in lo .. hi + 1 /\ d \in Int /\ E[d] \in Int
      BY <1>4, <1>9
    <3>3. \/ ~array[k].first /\ NumberOf(n) = array[k].no
          \/ array[k].first /\ seqcmp(array[k].no, NumberOf(n)) <= 0 /\ seqcmp(NumberOf(n), array[k + 1].no) <= 0
      <4>1. CASE E[d] = d /\ EntryIs(array, k, NumberOf(d))
        <5>1. n = d
          BY <2>1, <2>4, <3>2, <4>1
        <5>. QED  BY <4>1, <5>1 DEF EntryIs
      <4>2. CASE PairIs(array, k, NumberOf(d), NumberOf(E[d]))
        BY <2>2, <2>4, <3>2, <4>2 DEF PairIs
      <4>. QED  BY <3>1, <4>1, <4>2
    <3>. QED  BY <1>10, <2>1, <3>3 DEF Reported
  <2>. QED  BY <2>3, <2>4
<1>12. Reported(array) \subseteq lo .. t
  BY <1>1 DEF Reported
<1>13. Reported(array) \subseteq rcvLost
  <2>1. ASSUME NEW n \in Reported(array) PROVE n \in rcvLost
    <3>1. n \in lo .. t /\ n \in Int
      BY <1>4, <1>12
    <3>2. PICK d \in D : d <= n /\ n <= E[d]
      BY <1>11, <3>1
    <3>. QED  BY <1>2, <1>9, <3>1, <3>2 DEF Covered
  <2>. QED  BY <2>1
<1>14. ASSUME NEW n \in rcvLost, n \notin Reported(array), NEW m \in Reported(array) PROVE m < n
  <2>1. n \in lo .. t /\ m \in lo .. t /\ n \in Int /\ m \in Int
    BY <1>4, <1>5, <1>12
  <2>2. PICK d \in D : d <= m /\ m <= E[d]
    BY <1>11, <2>1
  <2>3. PICK e \in S : e <= n /\ n <= E[e]
    BY <1>2 DEF Covered
  <2>4. e \notin D
    BY <1>11, <1>14, <2>1, <2>3
  <2>5. d < e /\ d \in S
    BY <1>9, <2>4
  <2>6. E[d] < e
    BY <1>3, <2>5 DEF Apart
  <2>. QED  BY <1>4, <2>1, <2>2, <2>3, <2>5, <2>6
<1>15. rcvLost # {} => Reported(array) # {}
  <2>. HAVE rcvLost # {}
  <2>1. S # {}
    BY <1>2 DEF Covered
  <2>2. PICK d \in D : TRUE
    BY <1>8, <2>1
  <2>3. d \in S /\ d \in Int /\ d <= E[d]
    BY <1>4, <1>9
  <2>4. d \in rcvLost
    BY <1>2, <2>3 DEF Covered
  <2>5. d \in Reported(array)
    BY <1>5, <1>11, <2>3, <2>4
  <2>. QED  BY <2>5
<1>. QED  BY <1>7, <1>9, <1>13, <1>14, <1>15

\* The receiver's list holds exactly the numbers that are missing, each in one range, in
\* order, linked both ways and counted, wherever ranges are cut or moved by a slot; and what
\* a NAK takes from it fits and names the smallest of them: for rings, windows and sequence
\* numbers of any size, as long as no drop request spans the largest number.
THEOREM RcvListIsExactHolds ==
    ASSUME ~DropsWrap
    PROVE  RcvLossSpec => []RcvListIsExact
<1>1. RcvLossInit => RcvLossInv
  BY EmptyRcvHolds
<1>2. RcvLossInv /\ [RcvLossNext]_rcvListVars => RcvLossInv'
  BY RcvLossStep
<1>3. RcvLossInv => RcvListIsExact
  BY RcvInvIsSet, RcvInvNak DEF RcvListIsExact
<1>. QED  BY <1>1, <1>2, <1>3, PTL DEF RcvLossSpec

=============================================================================
