--------------------------- MODULE UdtRcvLossList ---------------------------
(***************************************************************************)
(* CRcvLossList (UDT4/src/list.cpp): the numbers the receiver misses, as   *)
(* ranges in a ring of arrays like CSndLossList's, linked both ways, since *)
(* numbers are added behind the last one but removed anywhere.  The calls  *)
(* are those of CUDT: a data packet, a message drop request, the ACK timer *)
(* that moves the window on, and the NAK timer.                            *)
(***************************************************************************)
EXTENDS SeqNo, Sequences, FiniteSets

CONSTANTS
    RcvListSize,    \* m_iSize, the flight flag size, no less than the receiver's buffer
    FirstRcvSeqNo,  \* the peer's ISN, where the numbers start
    MaxRcvSeqs,     \* bound: numbers received
    DropsWrap       \* drop requests may span the largest sequence number

ASSUME RcvLossListAssumption ==
    /\ RcvListSize \in Nat \ {0} /\ RcvListSize < SeqNoTH
    /\ FirstRcvSeqNo \in Nat /\ MaxRcvSeqs \in Nat /\ DropsWrap \in BOOLEAN

VARIABLES
    rcvList,    \* the CRcvLossList
    rcvAcked,   \* m_iRcvLastAck, counted without bound
    rcvNext,    \* m_iRcvCurrSeqNo + 1, counted without bound
    rcvLost     \* history: the numbers that were passed over, and neither received nor dropped

rcvListVars == <<rcvList, rcvAcked, rcvNext, rcvLost>>

RcvSlots == 0 .. RcvListSize - 1

EmptyRcvList ==
    [data1 |-> [i \in RcvSlots |-> -1], data2 |-> [i \in RcvSlots |-> -1],
     next |-> [i \in RcvSlots |-> -1], prior |-> [i \in RcvSlots |-> -1],
     head |-> -1, tail |-> -1, length |-> 0]

RcvLossInit ==
    /\ rcvList = EmptyRcvList
    /\ rcvAcked = FirstRcvSeqNo /\ rcvNext = FirstRcvSeqNo /\ rcvLost = {}

-----------------------------------------------------------------------------
(* insert                                                                  *)

LastIn(L, i) == IF L.data2[i] = -1 THEN L.data1[i] ELSE L.data2[i]

\* A range that starts at s1 becomes the last, in slot loc.
LastNode(L, loc, s1, s2) ==
    [L EXCEPT !.data1[loc] = s1, !.data2[loc] = IF s2 # s1 THEN s2 ELSE @,
              !.next = IF L.length = 0 THEN [L.next EXCEPT ![loc] = -1]
                       ELSE [L.next EXCEPT ![L.tail] = loc, ![loc] = -1],
              !.prior[loc] = IF L.length = 0 THEN -1 ELSE L.tail,
              !.head = IF L.length = 0 THEN loc ELSE @,
              !.tail = loc]

\* [s1, s2] lies behind every number of the list.
InsertLast(L, s1, s2) ==
    LET loc == (L.head + seqoff(L.data1[L.head], s1)) % RcvListSize
        M   == IF L.length = 0 THEN LastNode(L, 0, s1, s2)
               ELSE IF L.data2[L.tail] # -1 /\ incseq(L.data2[L.tail]) = s1
               THEN [L EXCEPT !.data2[L.tail] = s2]
               ELSE LastNode(L, loc, s1, s2)
    IN [M EXCEPT !.length = @ + seqlen(s1, s2)]

-----------------------------------------------------------------------------
(* remove                                                                  *)

\* A node of one number is unlinked.
Unlink(L, i) ==
    LET p == L.prior[i]
        n == L.next[i]
    IN [L EXCEPT !.data1[i] = -1,
                 !.head = IF @ = i THEN n ELSE @,
                 !.next = IF L.head = i THEN L.next ELSE [L.next EXCEPT ![p] = n],
                 !.prior = IF n = -1 THEN L.prior
                           ELSE [L.prior EXCEPT ![n] = IF L.head = i THEN -1 ELSE p],
                 !.tail = IF L.head # i /\ n = -1 THEN p ELSE @]

\* What node i has moves to slot j, but for its first number.
Moved(L, i, j) ==
    [L EXCEPT !.data1 = [L.data1 EXCEPT ![j] = incseq(L.data1[i]), ![i] = -1],
              !.data2 = [L.data2 EXCEPT ![j] = IF seqcmp(L.data2[i], incseq(L.data1[i])) > 0
                                               THEN L.data2[i] ELSE @,
                                        ![i] = -1],
              !.next[j] = L.next[i], !.prior[j] = L.prior[i]]

\* A node loses its first number and moves to the next slot.
Shift(L, i) ==
    LET j == (i + 1) % RcvListSize
        M == Moved(L, i, j)
    IN [M EXCEPT !.next = IF L.head = i THEN M.next ELSE [M.next EXCEPT ![M.prior[j]] = j],
                 !.head = IF @ = i THEN j ELSE @,
                 !.prior = IF L.tail = i THEN M.prior ELSE [M.prior EXCEPT ![M.next[j]] = j],
                 !.tail = IF @ = i THEN j ELSE @]

\* A node ends before s.
EndBefore(L, i, s) == [L EXCEPT !.data2[i] = IF s = incseq(L.data1[i]) THEN -1 ELSE decseq(s)]

\* Mutant: the node after a range that is cut in two still points back to the first part.
BackLinkKept(prior, n, loc) == prior

BackLink(prior, n, loc) == [prior EXCEPT ![n] = loc]

\* The part of node i after s becomes a node of its own, in slot loc.
Split(L, i, s, loc) ==
    LET M == [L EXCEPT !.data1[loc] = incseq(s),
                       !.data2[loc] = IF seqcmp(L.data2[i], incseq(s)) > 0 THEN L.data2[i] ELSE @,
                       !.next = [L.next EXCEPT ![loc] = L.next[i], ![i] = loc],
                       !.prior[loc] = i]
    IN EndBefore([M EXCEPT !.tail = IF @ = i THEN loc ELSE @,
                           !.prior = IF L.tail = i THEN M.prior ELSE BackLink(M.prior, M.next[loc], loc)],
                 i, s)

SlotBack(i) == (i - 1 + RcvListSize) % RcvListSize

SearchBack(L, i) == IF L.data1[i] # -1 THEN i ELSE SlotBack(i)

\* The nearest slot before loc that starts a range.
SlotBefore(L, loc) ==
    LET turn[k \in 0 .. RcvListSize] == IF k = 0 THEN SlotBack(loc) ELSE SearchBack(L, turn[k - 1])
    IN turn[RcvListSize]

OneLess(L) == [L EXCEPT !.length = @ - 1]

RemoveOne(L, s) ==
    LET offset == seqoff(L.data1[L.head], s)
        loc    == (L.head + offset) % RcvListSize
        i      == SlotBefore(L, loc)
    IN IF L.length = 0 THEN L
       ELSE IF offset < 0 THEN L
       ELSE IF s = L.data1[loc] THEN OneLess(IF L.data2[loc] = -1 THEN Unlink(L, loc) ELSE Shift(L, loc))
       ELSE IF L.data2[i] = -1 \/ seqcmp(s, L.data2[i]) > 0 THEN L
       ELSE OneLess(IF s = L.data2[i] THEN EndBefore(L, i, s)
                 ELSE Split(L, i, s, (loc + 1) % RcvListSize))

\* remove(seqno1, seqno2) goes through the numbers; when the range spans the largest
\* one, the loop's test stops before it.
RemoveTurn(L, s, wraps) == IF wraps /\ s = MaxSeqNo THEN L ELSE RemoveOne(L, s)

RemoveAll(L, s1, s2) ==
    LET turn[k \in 0 .. seqlen(s1, s2)] ==
            IF k = 0 THEN L ELSE RemoveTurn(turn[k - 1], incseqBy(s1, k - 1), s1 > s2)
    IN turn[seqlen(s1, s2)]

-----------------------------------------------------------------------------
(* getLossArray: pairs of a marked first and a last number, and numbers.   *)

\* Mutant: the array may be filled to its end before a pair is written.
FillToLimit(len, limit) == len < limit

RoomFor(len, limit) == len < limit - 1

\* What a node adds to the array.
NodeEntries(L, i) ==
    IF L.data2[i] = -1 THEN <<[first |-> FALSE, no |-> L.data1[i]]>>
    ELSE <<[first |-> TRUE, no |-> L.data1[i]], [first |-> FALSE, no |-> L.data2[i]]>>

LossTurn(S, limit) ==
    IF S.at = -1 \/ ~RoomFor(Len(S.array), limit) THEN S
    ELSE [array |-> S.array \o NodeEntries(rcvList, S.at), at |-> rcvList.next[S.at]]

GetLossArray(limit) ==
    LET turn[k \in 0 .. RcvListSize] ==
            IF k = 0 THEN [array |-> << >>, at |-> rcvList.head] ELSE LossTurn(turn[k - 1], limit)
    IN turn[RcvListSize].array

-----------------------------------------------------------------------------
\* processData, for a packet that finds its slot of the buffer empty.
ReceiveNumber(n) ==
    /\ rcvAcked <= n /\ n < rcvAcked + RcvListSize /\ n < FirstRcvSeqNo + MaxRcvSeqs
    /\ n < rcvNext => n \in rcvLost
    /\ rcvList' = IF n > rcvNext THEN InsertLast(rcvList, NumberOf(rcvNext), decseq(NumberOf(n)))
                  ELSE IF n < rcvNext THEN RemoveOne(rcvList, NumberOf(n))
                  ELSE rcvList
    /\ rcvLost' = (rcvLost \cup (rcvNext .. n - 1)) \ {n}
    /\ rcvNext' = IF n >= rcvNext THEN n + 1 ELSE rcvNext
    /\ UNCHANGED rcvAcked

\* processCtrl, for a drop request that may come late or more than once.
DropMessage(a, b) ==
    /\ a <= b /\ rcvAcked - 1 <= a /\ b < rcvAcked + RcvListSize /\ b < FirstRcvSeqNo + MaxRcvSeqs
    /\ DropsWrap \/ NumberOf(a) <= NumberOf(b)
    /\ rcvList' = RemoveAll(rcvList, NumberOf(a), NumberOf(b))
    /\ rcvLost' = rcvLost \ (a .. b)
    /\ rcvNext' = IF a <= rcvNext /\ b >= rcvNext THEN b + 1 ELSE rcvNext
    /\ UNCHANGED rcvAcked

\* What sendCtrl(2) acknowledges, a sequence number.
AckSeqNo == IF rcvList.length = 0 THEN NumberOf(rcvNext) ELSE rcvList.data1[rcvList.head]

\* The ACK timer.
AckReceived ==
    LET n == rcvAcked + seqoff(NumberOf(rcvAcked), AckSeqNo)
    IN /\ n > rcvAcked
       /\ rcvAcked' = n
       /\ UNCHANGED <<rcvList, rcvNext, rcvLost>>

RcvLossNumbers == FirstRcvSeqNo - 1 .. FirstRcvSeqNo + MaxRcvSeqs

RcvLossNext ==
    \/ \E n \in RcvLossNumbers : ReceiveNumber(n)
    \/ \E a, b \in RcvLossNumbers : DropMessage(a, b)
    \/ AckReceived

-----------------------------------------------------------------------------
(* Properties                                                              *)

RcvNodeAfter(i) == IF i = -1 THEN -1 ELSE rcvList.next[i]

\* The nodes in the order they are linked, -1 after the last.
RcvNode[k \in 0 .. RcvListSize + 1] ==
    IF k = 0 THEN (IF rcvList.length = 0 THEN -1 ELSE rcvList.head) ELSE RcvNodeAfter(RcvNode[k - 1])

RcvNodes == {RcvNode[k] : k \in 0 .. RcvListSize} \ {-1}

InRange(i, s) == seqcmp(rcvList.data1[i], s) <= 0 /\ seqcmp(s, LastIn(rcvList, i)) <= 0

\* The arrays hold exactly the numbers that are missing, in order and linked both ways,
\* and m_iLength counts them: wherever ranges are cut, moved by a slot, or wrap.
RcvListIsSet ==
    /\ rcvLost = {n \in rcvAcked .. rcvNext - 1 : \E i \in RcvNodes : InRange(i, NumberOf(n))}
    /\ rcvList.length = Cardinality(rcvLost)
    /\ \A k \in 0 .. RcvListSize : RcvNode[k] # -1 /\ RcvNode[k + 1] # -1 =>
           /\ seqcmp(LastIn(rcvList, RcvNode[k]), rcvList.data1[RcvNode[k + 1]]) < 0
           /\ rcvList.prior[RcvNode[k + 1]] = RcvNode[k]

\* The numbers an array of a NAK means, as RecvNak reads it.
Reported(array) ==
    {n \in rcvAcked .. rcvNext - 1 :
        \E k \in DOMAIN array :
            \/ ~array[k].first /\ NumberOf(n) = array[k].no
            \/ array[k].first /\ seqcmp(array[k].no, NumberOf(n)) <= 0 /\ seqcmp(NumberOf(n), array[k + 1].no) <= 0}

\* A NAK never overflows the packet it is written in, and names the smallest missing
\* numbers: as many as there is room for, and no others.
NakFitsAndIsExact ==
    \A limit \in 2 .. 4 :
        LET array == GetLossArray(limit)
        IN /\ Len(array) <= limit
           /\ Reported(array) \subseteq rcvLost
           /\ \A n \in rcvLost \ Reported(array) : \A m \in Reported(array) : m < n
           /\ rcvLost # {} => Reported(array) # {}

\* The list is the set of the missing numbers, and what a NAK takes from it is part of it.
RcvListIsExact == RcvListIsSet /\ NakFitsAndIsExact
=============================================================================
