---------------------------- MODULE UdtSndBuffer ----------------------------
(***************************************************************************)
(* CSndBuffer (UDT4/src/buffer.cpp): what the application sent and the     *)
(* peer has not acknowledged, a packet to a block.  Blocks form a ring     *)
(* through their next links; it grows by whole units, spliced in behind    *)
(* the block that is written next.  The application adds under m_SendLock  *)
(* and counts the blocks a little later; the sending worker reads and the  *)
(* receiving one frees what an ACK covers, without that lock.  UdtTransfer *)
(* takes the buffer for a sequence; here the ring is shown to be one.      *)
(***************************************************************************)
EXTENDS Integers, Sequences

CONSTANTS
    SndUnit,        \* blocks of the first physical buffer, and of each one more (32)
    SndBufLimit,    \* m_iSndBufSize, in packets
    FileBlock,      \* the packets sendfile reads at a time
    MaxCallSize,    \* bound: the packets of one call
    MaxSndPackets,  \* bound: packets written
    ShortReads      \* a file may end before the size sendfile was asked for

ASSUME SndBufferAssumption ==
    /\ SndUnit \in Nat \ {0} /\ SndBufLimit \in Nat \ {0} /\ FileBlock \in Nat \ {0}
    /\ MaxCallSize \in Nat /\ MaxSndPackets \in Nat /\ ShortReads \in BOOLEAN

VARIABLES
    ring,       \* the CSndBuffer: each block's data and next block, three blocks, size and count
    sndCall,    \* the application's call: what it sends and how much of it is left
    uncounted,  \* what addBuffer has still to add to m_iCount; 0 when it is done
    inBuffer,   \* history: the packets written and not acknowledged, in order
    sentOnce,   \* history: how many of them have been sent
    written     \* history: packets written, numbered without bound

sndBufVars == <<ring, sndCall, uncounted, inBuffer, sentOnce, written>>

NoCall == [kind |-> "none", left |-> 0]

SndBufInit ==
    /\ ring = [data |-> [b \in 1 .. SndUnit |-> 0],
               next |-> [b \in 1 .. SndUnit |-> IF b = SndUnit THEN 1 ELSE b + 1],
               first |-> 1, curr |-> 1, last |-> 1, size |-> SndUnit, count |-> 0]
    /\ sndCall = NoCall /\ uncounted = 0
    /\ inBuffer = << >> /\ sentOnce = 0 /\ written = 0

-----------------------------------------------------------------------------
\* The block n links after b.
BlockAfter(r, b, n) ==
    LET walk[i \in 0 .. n] == IF i = 0 THEN b ELSE r.next[walk[i - 1]] IN walk[n]

\* A unit of new blocks follows the block that is written next.
IncreaseRing(r) ==
    LET new == r.size + 1 .. r.size + SndUnit
    IN [r EXCEPT !.data = [b \in 1 .. r.size + SndUnit |-> IF b \in new THEN 0 ELSE @[b]],
                 !.next = [b \in 1 .. r.size + SndUnit |->
                              IF b = r.last THEN r.size + 1
                              ELSE IF b = r.size + SndUnit THEN r.next[r.last]
                              ELSE IF b \in new THEN b + 1 ELSE @[b]],
                 !.size = @ + SndUnit]

\* Mutant: the ring may become full, and then looks empty.
MayFill(r, n) == n + r.count > r.size

TooSmall(r, n) == n + r.count >= r.size

\* A turn of the loop that makes room for n more, and the loop: each turn adds a block at
\* least, so n turns are enough.
Widened(r, n) == IF TooSmall(r, n) THEN IncreaseRing(r) ELSE r

Grown(r, n) ==
    LET turn[k \in 0 .. n] == IF k = 0 THEN r ELSE Widened(turn[k - 1], n) IN turn[n]

\* n blocks are asked for, and got of them written; m_iCount is left for later.
AddBlocks(n, got) ==
    LET r   == Grown(ring, n)
        new == {BlockAfter(r, r.last, i) : i \in 0 .. got - 1}
        Nth(b) == CHOOSE i \in 0 .. got - 1 : BlockAfter(r, r.last, i) = b
    IN /\ ring' = [r EXCEPT !.data = [b \in DOMAIN @ |-> IF b \in new THEN written + Nth(b) + 1 ELSE @[b]],
                            !.last = BlockAfter(r, @, got)]
       /\ uncounted' = n
       /\ inBuffer' = inBuffer \o [i \in 1 .. got |-> written + i]
       /\ written' = written + got
       /\ UNCHANGED sentOnce

Smaller(a, b) == IF a < b THEN a ELSE b

-----------------------------------------------------------------------------
\* The application calls send, sendmsg or sendfile for n packets.
CallSend(kind, n) ==
    /\ sndCall = NoCall /\ uncounted = 0
    /\ kind = "sendmsg" => n <= SndBufLimit
    /\ sndCall' = [kind |-> kind, left |-> n]
    /\ UNCHANGED <<ring, uncounted, inBuffer, sentOnce, written>>

\* send and sendmsg: what fits is written, or the whole message when it fits.
WriteCall ==
    LET room == SndBufLimit - ring.count
        n    == Smaller(sndCall.left, room)
    IN /\ \/ sndCall.kind = "send" /\ room > 0
          \/ sndCall.kind = "sendmsg" /\ room >= sndCall.left
       /\ written + n <= MaxSndPackets
       /\ AddBlocks(n, n)
       /\ sndCall' = NoCall

\* A turn of sendfile's loop; a read that comes up short has met the end of the file.
SendFileBlock ==
    LET n == Smaller(sndCall.left, FileBlock)
    IN /\ sndCall.kind = "sendfile" /\ uncounted = 0
       /\ ring.count < SndBufLimit
       /\ \E got \in 0 .. n :
              /\ got < n => ShortReads
              /\ written + got <= MaxSndPackets
              /\ AddBlocks(n, got)
              /\ sndCall' = IF got < n \/ n = sndCall.left THEN NoCall
                            ELSE [sndCall EXCEPT !.left = @ - n]

\* The end of addBuffer and addBufferFromFile, under m_BufLock.
CountBlocks ==
    /\ uncounted > 0
    /\ ring' = [ring EXCEPT !.count = @ + uncounted]
    /\ uncounted' = 0
    /\ UNCHANGED <<sndCall, inBuffer, sentOnce, written>>

\* readData for a new packet: the sending worker takes the current block.
ReadNew ==
    /\ ring.curr # ring.last
    /\ ring' = [ring EXCEPT !.curr = ring.next[ring.curr]]
    /\ sentOnce' = sentOnce + 1
    /\ UNCHANGED <<sndCall, uncounted, inBuffer, written>>

\* Mutant: what is acknowledged is freed, but still counted.
AckUncounted(n) ==
    /\ n <= sentOnce
    /\ ring' = [ring EXCEPT !.first = BlockAfter(ring, @, n)]
    /\ inBuffer' = SubSeq(inBuffer, n + 1, Len(inBuffer))
    /\ sentOnce' = sentOnce - n
    /\ UNCHANGED <<sndCall, uncounted, written>>

\* ackData: the peer has acknowledged the first n packets it was sent.
AckSent(n) ==
    /\ n <= sentOnce
    /\ ring' = [ring EXCEPT !.first = BlockAfter(ring, @, n), !.count = @ - n]
    /\ inBuffer' = SubSeq(inBuffer, n + 1, Len(inBuffer))
    /\ sentOnce' = sentOnce - n
    /\ UNCHANGED <<sndCall, uncounted, written>>

SndBufNext ==
    \/ \E kind \in {"send", "sendmsg", "sendfile"}, n \in 1 .. MaxCallSize : CallSend(kind, n)
    \/ WriteCall \/ SendFileBlock \/ CountBlocks \/ ReadNew
    \/ \E n \in 1 .. MaxSndPackets : AckSent(n)

-----------------------------------------------------------------------------
(* Properties                                                              *)

\* readData with an offset, for a packet that is sent again.
ReadAgain(offset) == ring.data[BlockAfter(ring, ring.first, offset)]

\* However the ring has grown, wrapped or been freed meanwhile, the blocks from the first
\* to the last are the packets not yet acknowledged, in order: a retransmission at any
\* offset reads the packet that was sent with that number, and a new one the next packet.
RingIsSequence ==
    /\ \A i \in 1 .. Len(inBuffer) : ReadAgain(i - 1) = inBuffer[i]
    /\ ring.curr = BlockAfter(ring, ring.first, sentOnce)
    /\ ring.last = BlockAfter(ring, ring.first, Len(inBuffer))
    /\ ring.first = ring.last => inBuffer = << >>

\* A call waits for room only while there is something the peer has not acknowledged:
\* otherwise no ACK would come to wake it.
WaitsForSomeAck ==
    sndCall.kind # "none" /\ uncounted = 0 /\ ring.count >= SndBufLimit => inBuffer # << >>
=============================================================================
