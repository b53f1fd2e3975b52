----------------------------- MODULE UdtMessages -----------------------------
(***************************************************************************)
(* Message mode (sendmsg and recvmsg of CUDT, packData, CRcvBuffer's       *)
(* scanMsg, readMsg and dropMsg): messages of a few packets, which may be  *)
(* read before their turn unless they are in-order ones, and which the     *)
(* sender gives up, with a drop request, when their time to live is over.  *)
(* Numbers and positions are counted without bound, a packet's block being *)
(* its number; the rings are the business of UdtSndBuffer, UdtRcvBuffer    *)
(* and the loss lists' modules.  Data packets and drop requests may be     *)
(* lost and overtaken; ACKs and NAKs repeat what the receiver knows now.   *)
(***************************************************************************)
EXTENDS Integers, Sequences, FiniteSetsExt

CONSTANTS
    MsgBufSize,     \* the receiver's buffer
    MsgKinds,       \* of "plain", "ttl" and "inorder", the messages sent
    MaxMsgLen,      \* bound: packets of a message
    MaxMsgPackets,  \* bound: packets of all messages
    MaxOnWire,      \* bound: packets on their way at a time
    LateDrops       \* a message expires only when two packets after it have come

ASSUME MessagesAssumption ==
    /\ MsgBufSize \in Nat \ {0, 1} /\ MaxMsgLen \in Nat /\ MaxMsgPackets \in Nat
    /\ MaxOnWire \in Nat /\ MsgKinds \subseteq {"plain", "ttl", "inorder"} /\ LateDrops \in BOOLEAN

VARIABLES
    blocks,     \* the packets of the messages sent: message, boundary bits, TTL, order flag
    msgSender,  \* m_iSndLastAck, the current block, m_iSndCurrSeqNo + 1, and the loss list
    expired,    \* the messages whose time to live is over
    msgWire,    \* data packets and drop requests on their way
    units,      \* the receiver's buffer: a packet and its unit's flag at each position taken
    msgRecv,    \* m_iStartPos, m_iRcvLastAck, m_iRcvCurrSeqNo + 1, m_iMaxPos and the loss list
    readMsgs    \* history: what recvmsg returned, as the positions it was read from

msgVars == <<blocks, msgSender, expired, msgWire, units, msgRecv, readMsgs>>

MsgInit ==
    /\ blocks = << >>
    /\ msgSender = [acked |-> 1, curr |-> 1, next |-> 1, lost |-> {}]
    /\ expired = {} /\ msgWire = {}
    /\ units = << >>
    /\ msgRecv = [start |-> 1, acked |-> 1, next |-> 1, max |-> -1, lost |-> {}]
    /\ readMsgs = << >>

-----------------------------------------------------------------------------
(* The sender                                                              *)

\* sendmsg and addBuffer: the blocks of a message carry its number and where it ends.
\* All messages are written before the first packet is sent, as a bound.
SendMsg(len, kind) ==
    LET m == IF blocks = << >> THEN 1 ELSE blocks[Len(blocks)].msg + 1
    IN /\ Len(blocks) + len <= MaxMsgPackets
       /\ msgSender.next = 1
       /\ blocks' = blocks \o [i \in 1 .. len |-> [msg |-> m, first |-> i = 1, last |-> i = len,
                                                   ttl |-> kind = "ttl", order |-> kind = "inorder"]]
       /\ UNCHANGED <<msgSender, expired, msgWire, units, msgRecv, readMsgs>>

\* A packet is on its way, or lost at once: one that stays on its way is lost too.
Transmit(p) == msgWire' \in {w \in {msgWire, msgWire \cup {p}} : Cardinality(w) <= MaxOnWire}

DataPacket(s, b) == [kind |-> "data", no |-> s, block |-> blocks[b]]

\* packData, no loss: the next packet, when the window has room for it.
PackNextPacket ==
    /\ msgSender.lost = {}
    /\ msgSender.curr <= Len(blocks)
    /\ msgSender.next - msgSender.acked < MsgBufSize - 1
    /\ Transmit(DataPacket(msgSender.next, msgSender.curr))
    /\ msgSender' = [msgSender EXCEPT !.curr = @ + 1, !.next = @ + 1]
    /\ UNCHANGED <<blocks, expired, units, msgRecv, readMsgs>>

Larger(a, b) == IF a > b THEN a ELSE b

\* packData, a loss: its packet is sent again, or its message dropped with a request that
\* names the number after the message's last one, as packData computes it.
PackLost ==
    LET s    == Min(msgSender.lost)
        end  == CHOOSE b \in s .. Len(blocks) :
                    /\ blocks[b].msg = blocks[s].msg
                    /\ b = Len(blocks) \/ blocks[b + 1].msg # blocks[s].msg
        upTo == end + 1
    IN /\ msgSender.lost # {}
       /\ IF s > Len(blocks)
          THEN msgSender' = [msgSender EXCEPT !.lost = @ \ {s}] /\ UNCHANGED msgWire
          ELSE IF blocks[s].msg \in expired
          THEN /\ Transmit([kind |-> "drop", msg |-> blocks[s].msg, from |-> s, to |-> upTo])
               /\ msgSender' = [msgSender EXCEPT
                      !.curr = IF s < @ /\ @ <= end THEN end + 1 ELSE @,
                      !.lost = {l \in @ : l > upTo},
                      !.next = Larger(@, upTo + 2)]
          ELSE /\ Transmit(DataPacket(s, s))
               /\ msgSender' = [msgSender EXCEPT !.lost = @ \ {s}]
       /\ UNCHANGED <<blocks, expired, units, msgRecv, readMsgs>>

\* The time to live of a message that has been sent is over.
Expire(m) ==
    LET mine == {b \in DOMAIN blocks : blocks[b].msg = m}
    IN /\ m \notin expired
       /\ \E b \in mine : blocks[b].ttl /\ b < msgSender.next
       /\ LateDrops => \A b \in Max(mine) + 1 .. Max(mine) + 2 : b < msgRecv.next /\ b \notin msgRecv.lost
       /\ expired' = expired \cup {m}
       /\ UNCHANGED <<blocks, msgSender, msgWire, units, msgRecv, readMsgs>>

\* An ACK comes, a NAK, or the EXP timer expires.
SenderAcked ==
    /\ msgRecv.acked > msgSender.acked
    /\ msgSender' = [msgSender EXCEPT !.acked = msgRecv.acked, !.lost = {s \in @ : s >= msgRecv.acked}]
    /\ UNCHANGED <<blocks, expired, msgWire, units, msgRecv, readMsgs>>

LossReported ==
    LET lost == IF msgSender.lost = {} THEN msgSender.acked .. msgSender.next - 1
                ELSE {s \in msgRecv.lost : s >= msgSender.acked}
    IN /\ \E new \in {lost, {s \in msgRecv.lost : s >= msgSender.acked}} :
              msgSender' = [msgSender EXCEPT !.lost = @ \cup new]
       /\ UNCHANGED <<blocks, expired, msgWire, units, msgRecv, readMsgs>>

-----------------------------------------------------------------------------
(* The receiver                                                            *)

Taken(p) == p \in DOMAIN units

\* Units may be in any position: the buffer is a function on the positions taken.
Put(p, unit) == [q \in DOMAIN units \cup {p} |-> IF q = p THEN unit ELSE units[q]]

Without(P) == [q \in DOMAIN units \ P |-> units[q]]

\* processData.
ReceiveData(p) ==
    LET offset == p.no - msgRecv.acked
    IN /\ p.kind = "data"
       /\ msgWire' = msgWire \ {p}
       /\ IF offset >= 0 /\ offset < MsgBufSize - (msgRecv.acked - msgRecv.start) - 1
          THEN IF Taken(p.no) THEN msgRecv' = [msgRecv EXCEPT !.max = Larger(@, offset)] /\ UNCHANGED units
               ELSE /\ units' = Put(p.no, [flag |-> 1, block |-> p.block])
                    /\ msgRecv' = [msgRecv EXCEPT !.max = Larger(@, offset),
                                                  !.lost = (@ \cup (msgRecv.next .. p.no - 1)) \ {p.no},
                                                  !.next = Larger(@, p.no + 1)]
          ELSE UNCHANGED <<units, msgRecv>>
       /\ UNCHANGED <<blocks, msgSender, expired, readMsgs>>

Dropped(p) == {s \in Nat : p.from <= s /\ s <= p.to}

\* processCtrl, a drop request: dropMsg marks the message's units, all but the furthest.
ReceiveDrop(p) ==
    /\ p.kind = "drop"
    /\ msgWire' = msgWire \ {p}
    /\ units' = [q \in DOMAIN units |->
                    IF /\ q >= msgRecv.start /\ q < msgRecv.acked + msgRecv.max
                       /\ units[q].block.msg = p.msg
                    THEN [units[q] EXCEPT !.flag = 3] ELSE units[q]]
    /\ msgRecv' = [msgRecv EXCEPT !.lost = {s \in @ : s \notin Dropped(p)},
                                  !.next = IF p.from <= @ /\ p.to >= @ THEN p.to + 1 ELSE @]
    /\ UNCHANGED <<blocks, msgSender, expired, readMsgs>>

\* Mutant: what came last is acknowledged, missing or not.
CurrentNo == msgRecv.next

AckNo == IF msgRecv.lost = {} THEN msgRecv.next ELSE Min(msgRecv.lost)

\* The ACK timer and ackData.
AckTimerTurn ==
    /\ AckNo > msgRecv.acked
    /\ msgRecv' = [msgRecv EXCEPT !.acked = AckNo,
                                  !.max = IF @ < AckNo - msgRecv.acked THEN 0 ELSE @ - (AckNo - msgRecv.acked)]
    /\ UNCHANGED <<blocks, msgSender, expired, msgWire, units, readMsgs>>

-----------------------------------------------------------------------------
(* recvmsg                                                                 *)

\* Mutant: a unit that was read, or dropped, and not freed yet is read again.
Kept(p) == Taken(p)

\* A unit that has not been read or dropped.
Fresh(p) == Taken(p) /\ units[p].flag = 1

\* The first loop of scanMsg stops at a head whose message is whole as far as it goes.
GoodHead(p) ==
    /\ Fresh(p) /\ units[p].block.first
    /\ \A q \in p .. msgRecv.acked - 1 :
           Fresh(q) \/ \E r \in p .. q - 1 : Fresh(r) /\ units[r].block.last

NewStart == Min({p \in msgRecv.start .. msgRecv.acked : p = msgRecv.acked \/ GoodHead(p)})

\* The heads with no hole from there to q.
Heads(q) == {p \in NewStart .. q : Fresh(p) /\ units[p].block.first /\ \A r \in p .. q : Fresh(r)}

\* Mutant: the head stays where it was when another message begins.
FirstHead(q) == Min(Heads(q))

LastHead(q) == Max(Heads(q))

\* Mutant: an in-order message is read like any other.
AnyTurn(q) == TRUE

\* Its turn has come, or it does not wait for it.
Readable(q) == q < msgRecv.acked \/ ~units[q].block.order

\* The ends of messages scanMsg may return.
MessageEnds == {q \in NewStart .. msgRecv.acked + msgRecv.max :
            Fresh(q) /\ units[q].block.last /\ Heads(q) # {} /\ Readable(q)}

\* The skipped units are freed; the message is read and freed, or, when it is not all
\* acknowledged, marked as read.
RecvMsg ==
    LET q == Min(MessageEnds)
        p == LastHead(q)
    IN IF MessageEnds = {}
       THEN /\ NewStart # msgRecv.start
            /\ units' = Without(msgRecv.start .. NewStart - 1)
            /\ msgRecv' = [msgRecv EXCEPT !.start = NewStart]
            /\ UNCHANGED <<blocks, msgSender, expired, msgWire, readMsgs>>
       ELSE /\ readMsgs' = Append(readMsgs, [i \in 1 .. q - p + 1 |-> units[p + i - 1].block])
            /\ IF q < msgRecv.acked
               THEN /\ units' = Without((msgRecv.start .. NewStart - 1) \cup (p .. q))
                    /\ msgRecv' = [msgRecv EXCEPT !.start = q + 1]
               ELSE /\ units' = [r \in DOMAIN units \ (msgRecv.start .. NewStart - 1) |->
                                    IF r \in p .. q THEN [units[r] EXCEPT !.flag = 2] ELSE units[r]]
                    /\ msgRecv' = [msgRecv EXCEPT !.start = NewStart]
            /\ UNCHANGED <<blocks, msgSender, expired, msgWire>>

MsgNext ==
    \/ \E len \in 1 .. MaxMsgLen, kind \in MsgKinds : SendMsg(len, kind)
    \/ PackNextPacket \/ PackLost
    \/ \E p \in msgWire : ReceiveData(p) \/ ReceiveDrop(p)
    \/ \E m \in {blocks[b].msg : b \in DOMAIN blocks} : Expire(m)
    \/ SenderAcked \/ LossReported \/ AckTimerTurn \/ RecvMsg

-----------------------------------------------------------------------------
(* Properties                                                              *)

MsgNos == {blocks[b].msg : b \in DOMAIN blocks}

PacketsOf(m) ==
    LET mine == {b \in DOMAIN blocks : blocks[b].msg = m}
    IN SubSeq(blocks, Min(mine), Max(mine))

\* recvmsg returns messages whole: the packets of one message, all of them, in order.
MessagesWhole == \A i \in DOMAIN readMsgs : readMsgs[i] = PacketsOf(readMsgs[i][1].msg)

\* No message is returned twice, although one read out of order stays in the buffer until
\* it is acknowledged, and its packets may come again.
ReadOnce == \A i, j \in DOMAIN readMsgs : readMsgs[i][1].msg = readMsgs[j][1].msg => i = j

IsRead(m) == \E i \in DOMAIN readMsgs : readMsgs[i][1].msg = m

\* An in-order message is returned only when all before it were, or may have been discarded.
InOrderWaits ==
    \A i \in DOMAIN readMsgs : readMsgs[i][1].order =>
        \A m \in 1 .. readMsgs[i][1].msg - 1 :
            m \in expired \/ \E j \in 1 .. i - 1 : readMsgs[j][1].msg = m

\* A message that has no time to live, or is still within it, is not lost: once the
\* buffer's start is past it, recvmsg has returned it.
KeptAreRead ==
    \A m \in MsgNos : m \in expired \/ IsRead(m) \/ \E b \in DOMAIN blocks : blocks[b].msg = m /\ b >= msgRecv.start

\* What recvmsg returns: whole messages, each once, and in-order ones in their turn.
MessagesArriveWell == MessagesWhole /\ ReadOnce /\ InOrderWaits
=============================================================================
