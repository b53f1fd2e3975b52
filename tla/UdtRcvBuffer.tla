---------------------------- MODULE UdtRcvBuffer ----------------------------
(***************************************************************************)
(* CRcvBuffer and CUnitQueue (UDT4/src/buffer.cpp and queue.cpp): packets  *)
(* are received into units of a pool, a slot of the receiver's buffer      *)
(* points to the unit of each packet that is kept, and reading frees the   *)
(* unit.  The receiving worker takes units and fills slots; the            *)
(* application's thread empties slots and frees units with no lock between *)
(* the two: a flag in the unit and the buffer's positions keep them apart, *)
(* and the pool's count of busy units, updated by both, may be wrong.      *)
(***************************************************************************)
EXTENDS Integers, Sequences, FiniteSetsExt

CONSTANTS
    RcvSlotCount,   \* the buffer's m_iSize
    PoolUnit,       \* units of the pool at first, and of each growth (32)
    PoolPercent,    \* the pool grows when more of it is busy (90)
    PacketLen,      \* bytes of a packet
    MaxReadLen,     \* bound: bytes of one read
    MaxRcvPackets   \* bound: packets of the stream

\* The pool is full enough to grow when all units but the one that is passed over are busy.
ASSUME RcvBufferAssumption ==
    /\ RcvSlotCount \in Nat \ {0, 1} /\ PoolUnit \in Nat \ {0, 1} /\ PacketLen \in Nat \ {0}
    /\ MaxReadLen \in Nat /\ MaxRcvPackets \in Nat
    /\ PoolPercent \in 1 .. 99 /\ PoolPercent * PoolUnit <= 100 * (PoolUnit - 1)

VARIABLES
    slots,      \* m_pUnit: the unit in each slot, 0 for NULL
    positions,  \* m_iStartPos, m_iLastAckPos, m_iMaxPos and m_iNotch
    pool,       \* the CUnitQueue: flags, m_iCount, m_pCurrQueue and m_pAvailUnit
    packetIn,   \* the packet whose bytes each unit holds, -1 for bytes that are not kept
    unitWorker,     \* the receiving worker between two halves of ++ m_iCount
    reader,     \* the application's call of readBuffer
    ackedTo,    \* m_iRcvLastAck, counted without bound
    bytesRead,  \* history: the bytes the application has read
    refusals    \* history: how often in a row there was no unit

rcvBufferVars == <<slots, positions, pool, packetIn, unitWorker, reader, ackedTo, bytesRead, refusals>>

Idle == [pc |-> "idle"]

RcvBufInit ==
    /\ slots = [i \in 0 .. RcvSlotCount - 1 |-> 0]
    /\ positions = [start |-> 0, lastAck |-> 0, max |-> -1, notch |-> 0]
    /\ pool = [flag |-> [u \in 1 .. PoolUnit |-> 0], count |-> 0, currQueue |-> 1, avail |-> 1]
    /\ packetIn = [u \in 1 .. PoolUnit |-> -1]
    /\ unitWorker = Idle /\ reader = Idle
    /\ ackedTo = 0 /\ bytesRead = << >> /\ refusals = 0

-----------------------------------------------------------------------------
(* CUnitQueue                                                              *)

PoolSize(P) == Len(P.flag)

Queues(P) == PoolSize(P) \div PoolUnit

FirstUnit(q) == (q - 1) * PoolUnit + 1

\* Mutant: the busy units are not counted again, and the count is believed.
GrowAsCounted(P) ==
    [P EXCEPT !.flag = IF 100 * P.count < PoolPercent * PoolSize(P) THEN @
                       ELSE @ \o [u \in 1 .. PoolUnit |-> 0]]

\* m_iCount is counted again; the pool gets a unit queue when it is full enough.
Increase(P) ==
    LET busy == Quantify(DOMAIN P.flag, LAMBDA u : P.flag[u] # 0)
    IN [P EXCEPT !.count = busy,
                 !.flag = IF 100 * busy < PoolPercent * PoolSize(P) THEN @
                          ELSE @ \o [u \in 1 .. PoolUnit |-> 0]]

\* The first free unit of a queue from unit u on, its last one passed over, or else the
\* queue's first one; 0 when there is none.
FreeIn(P, q, u) ==
    LET free == {v \in u .. FirstUnit(q) + PoolUnit - 2 : P.flag[v] = 0}
    IN IF free # {} THEN Min(free) ELSE IF P.flag[FirstUnit(q)] = 0 THEN FirstUnit(q) ELSE 0

\* Mutant: the unit found is not looked at for being busy.
AnyUnit(P) == [unit |-> P.avail, pool |-> [P EXCEPT !.avail = (@ % PoolSize(P)) + 1]]

\* getNextAvailUnit: the unit, 0 for NULL, and the pool after the search.
GetNextAvailUnit(P) ==
    LET M        == IF 100 * P.count > PoolPercent * PoolSize(P) THEN Increase(P) ELSE P
        Turn(i)  == ((M.currQueue - 1 + i) % Queues(M)) + 1
        Found(i) == FreeIn(M, Turn(i), IF i = 0 THEN M.avail ELSE FirstUnit(Turn(i)))
        hits     == {i \in 0 .. Queues(M) - 1 : Found(i) # 0}
    IN IF M.count >= PoolSize(M) THEN [unit |-> 0, pool |-> M]
       ELSE IF hits # {}
       THEN [unit |-> Found(Min(hits)),
             pool |-> [M EXCEPT !.currQueue = Turn(Min(hits)), !.avail = Found(Min(hits))]]
       ELSE [unit |-> 0, pool |-> Increase([M EXCEPT !.avail = FirstUnit(M.currQueue)])]

-----------------------------------------------------------------------------
(* CRcvBuffer                                                              *)

GetRcvDataSize ==
    IF positions.lastAck >= positions.start THEN positions.lastAck - positions.start
    ELSE RcvSlotCount + positions.lastAck - positions.start

GetAvailBufSize == RcvSlotCount - GetRcvDataSize - 1

SlotOf(offset) == (positions.lastAck + offset) % RcvSlotCount

\* A packet comes, any of the peer's window and at any time: the worker takes a unit, the
\* packet is read into it, and processData keeps it or leaves the unit free.
ReceivePacket(n) ==
    LET got    == GetNextAvailUnit(pool)
        offset == n - ackedTo
        kept   == offset >= 0 /\ offset < GetAvailBufSize /\ slots[SlotOf(offset)] = 0
    IN /\ unitWorker = Idle
       /\ refusals' = IF got.unit = 0 THEN refusals + 1 ELSE 0
       /\ packetIn' = [u \in 1 .. PoolSize(got.pool) |->
                          IF u = got.unit THEN IF kept THEN n ELSE -1
                          ELSE IF u \in DOMAIN packetIn THEN packetIn[u] ELSE -1]
       /\ positions' = [positions EXCEPT !.max =
              IF got.unit # 0 /\ offset >= 0 /\ offset < GetAvailBufSize /\ offset > @ THEN offset ELSE @]
       /\ IF got.unit # 0 /\ kept
          THEN /\ slots' = [slots EXCEPT ![SlotOf(offset)] = got.unit]
               /\ pool' = [got.pool EXCEPT !.flag[got.unit] = 1]
               /\ unitWorker' = [pc |-> "count", tmp |-> got.pool.count]
          ELSE pool' = got.pool /\ UNCHANGED <<slots, unitWorker>>
       /\ UNCHANGED <<reader, ackedTo, bytesRead>>

\* ++ m_iCount ends: what the application counted meanwhile is lost.
CountUnit ==
    /\ unitWorker.pc = "count"
    /\ pool' = [pool EXCEPT !.count = unitWorker.tmp + 1]
    /\ unitWorker' = Idle
    /\ UNCHANGED <<slots, positions, packetIn, reader, ackedTo, bytesRead, refusals>>

\* ackData: the ACK timer has found n packets received without a gap, and no more.
AckData(n) ==
    /\ unitWorker = Idle
    /\ \A i \in 0 .. n - 1 : i < GetAvailBufSize /\ slots[SlotOf(i)] # 0
    /\ n < GetAvailBufSize => slots[SlotOf(n)] = 0
    /\ positions' = [positions EXCEPT !.lastAck = SlotOf(n), !.max = IF @ < n THEN 0 ELSE @ - n]
    /\ ackedTo' = ackedTo + n
    /\ UNCHANGED <<slots, pool, packetIn, unitWorker, reader, bytesRead, refusals>>

\* The application calls readBuffer.
StartRead(len) ==
    /\ reader = Idle /\ GetRcvDataSize > 0
    /\ reader' = [pc |-> "copy", p |-> positions.start, lastAck |-> positions.lastAck, rs |-> len]
    /\ UNCHANGED <<slots, positions, pool, packetIn, unitWorker, ackedTo, bytesRead, refusals>>

\* The bytes of the unit at the reader's position are copied.
CopyUnit ==
    LET unit == slots[reader.p]
        left == PacketLen - positions.notch
        n    == Min({left, reader.rs})
    IN /\ reader.pc = "copy" /\ reader.p # reader.lastAck /\ reader.rs > 0
       /\ bytesRead' = bytesRead \o [i \in 1 .. n |-> <<packetIn[unit], positions.notch + i>>]
       /\ IF reader.rs >= left
          THEN reader' = [reader EXCEPT !.pc = "free", !.rs = @ - n] /\ UNCHANGED positions
          ELSE /\ positions' = [positions EXCEPT !.notch = @ + n]
               /\ reader' = [reader EXCEPT !.rs = 0]
       /\ UNCHANGED <<slots, pool, packetIn, unitWorker, ackedTo, refusals>>

\* The slot is emptied and the unit freed; -- m_iCount begins.
FreeUnit ==
    /\ reader.pc = "free"
    /\ slots' = [slots EXCEPT ![reader.p] = 0]
    /\ pool' = [pool EXCEPT !.flag[slots[reader.p]] = 0]
    /\ reader' = [pc |-> "uncount", p |-> (reader.p + 1) % RcvSlotCount, lastAck |-> reader.lastAck,
                  rs |-> reader.rs, tmp |-> pool.count]
    /\ positions' = [positions EXCEPT !.notch = 0]
    /\ packetIn' = [packetIn EXCEPT ![slots[reader.p]] = -1]
    /\ UNCHANGED <<unitWorker, ackedTo, bytesRead, refusals>>

\* -- m_iCount ends: what the worker counted meanwhile is lost.
UncountUnit ==
    /\ reader.pc = "uncount"
    /\ pool' = [pool EXCEPT !.count = reader.tmp - 1]
    /\ reader' = [pc |-> "copy", p |-> reader.p, lastAck |-> reader.lastAck, rs |-> reader.rs]
    /\ UNCHANGED <<slots, positions, packetIn, unitWorker, ackedTo, bytesRead, refusals>>

EndRead ==
    /\ reader.pc = "copy" /\ (reader.p = reader.lastAck \/ reader.rs = 0)
    /\ positions' = [positions EXCEPT !.start = reader.p]
    /\ reader' = Idle
    /\ UNCHANGED <<slots, pool, packetIn, unitWorker, ackedTo, bytesRead, refusals>>

RcvBufNext ==
    \/ \E n \in 0 .. MaxRcvPackets - 1 : ReceivePacket(n)
    \/ CountUnit
    \/ \E n \in 1 .. RcvSlotCount : AckData(n)
    \/ \E len \in 1 .. MaxReadLen : StartRead(len)
    \/ CopyUnit \/ FreeUnit \/ UncountUnit \/ EndRead

-----------------------------------------------------------------------------
(* Properties                                                              *)

\* The application reads the bytes of the stream in order, each once, whatever the sizes
\* of its reads: no unit is received into while a slot points to it or it is being copied,
\* and no packet lands in a slot that has still to be read.
BytesInOrder ==
    \A i \in DOMAIN bytesRead : bytesRead[i] = <<(i - 1) \div PacketLen, ((i - 1) % PacketLen) + 1>>

\* However wrong the count of busy units has become, a unit is refused at most once in a
\* row: the search that fails has put the pool's pointer, count and size right.
RefusedOnce == refusals <= 1
=============================================================================
