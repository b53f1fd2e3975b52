--------------------------- MODULE UdtSndLossList ---------------------------
(***************************************************************************)
(* CSndLossList (UDT4/src/list.cpp): the numbers to send again, kept as    *)
(* ranges in arrays used as a ring.  The range that starts at a number     *)
(* lies as far from the head's slot as the number is from the head's       *)
(* number; slots that start no range hold -1, and next links the others    *)
(* in order.  UdtTransfer takes the list for the set of its numbers; here  *)
(* the arrays are shown to hold that set.  The calls are those of CUDT:    *)
(* losses reported by a NAK or by the EXP timer, an ACK, packData.         *)
(***************************************************************************)
EXTENDS SeqNo, FiniteSets

CONSTANTS
    SndListSize,    \* m_iSize, twice the flow window
    FirstSndSeqNo,  \* the connection's ISN, where the numbers start
    MaxSndSeqs      \* bound: numbers sent

ASSUME SndLossListAssumption ==
    /\ SndListSize \in Nat \ {0} /\ SndListSize < SeqNoTH
    /\ FirstSndSeqNo \in Nat /\ MaxSndSeqs \in Nat

VARIABLES
    sndList,    \* the CSndLossList
    sndAcked,   \* m_iSndLastDataAck, counted without bound
    sndNext,    \* m_iSndCurrSeqNo + 1, counted without bound
    sndLost     \* history: the numbers that were reported, and neither sent again nor ACKed

sndListVars == <<sndList, sndAcked, sndNext, sndLost>>

SndSlots == 0 .. SndListSize - 1

EmptySndList ==
    [data1 |-> [i \in SndSlots |-> -1], data2 |-> [i \in SndSlots |-> -1],
     next |-> [i \in SndSlots |-> -1], head |-> -1, length |-> 0, lastInsertPos |-> -1]

SndLossInit ==
    /\ sndList = EmptySndList
    /\ sndAcked = FirstSndSeqNo /\ sndNext = FirstSndSeqNo /\ sndLost = {}

-----------------------------------------------------------------------------
(* insert                                                                  *)

\* The slot of a number, as far from the head's as the number is from the head's.
LocOf(L, s) == (L.head + seqoff(L.data1[L.head], s) + SndListSize) % SndListSize

\* A range that starts at s1 in slot loc; data2 is written for two numbers or more.
NewNode(L, loc, s1, s2) ==
    [L EXCEPT !.data1[loc] = s1,
              !.data2[loc] = IF s2 # s1 THEN s2 ELSE @,
              !.length = @ + seqlen(s1, s2),
              !.lastInsertPos = loc]

\* The last number of a node's range.
LastOf(L, i) == IF L.data2[i] = -1 THEN L.data1[i] ELSE L.data2[i]

\* A node's range is made to end at s2.
Stretch(L, i, s2) ==
    [L EXCEPT !.data2[i] = s2, !.length = @ + seqlen(LastOf(L, i), s2) - 1]

\* Node i, which node loc reaches or touches, is taken into it.
Absorb(L, loc, i) ==
    LET e       == LastOf(L, i)
        longer  == seqcmp(e, L.data2[loc]) > 0
        overlap == IF ~longer THEN seqlen(L.data1[i], e)
                   ELSE IF seqcmp(L.data2[loc], L.data1[i]) >= 0 THEN seqlen(L.data1[i], L.data2[loc])
                   ELSE 0
    IN [L EXCEPT !.data1[i] = -1,
                 !.data2 = [L.data2 EXCEPT ![i] = -1, ![loc] = IF longer THEN e ELSE @],
                 !.next[loc] = L.next[i],
                 !.length = @ - overlap]

\* Mutant: a range that ends just before the next one is taken to reach it.
ReachesOnly(L, loc, i) == seqcmp(L.data1[i], incseqBy(L.data2[loc], 2)) <= 0

Reaches(L, loc, i) == seqcmp(L.data1[i], incseq(L.data2[loc])) <= 0

\* A turn of insert's last loop.  No loop over the list takes more turns than there are slots.
CoalesceTurn(L, loc) ==
    LET i == L.next[loc]
    IN IF i # -1 /\ L.data2[loc] # -1 /\ Reaches(L, loc, i) THEN Absorb(L, loc, i) ELSE L

Coalesce(L, loc) ==
    LET turn[k \in 0 .. SndListSize] == IF k = 0 THEN L ELSE CoalesceTurn(turn[k - 1], loc)
    IN turn[SndListSize]

\* The node after i, if it is before s.
NextBefore(L, i, s) == IF L.next[i] # -1 /\ seqcmp(L.data1[L.next[i]], s) < 0 THEN L.next[i] ELSE i

\* The last node before s, searched from node i on.
PriorFrom(L, i, s) ==
    LET turn[k \in 0 .. SndListSize] == IF k = 0 THEN i ELSE NextBefore(L, turn[k - 1], s)
    IN turn[SndListSize]

SearchStart(L, s) ==
    IF L.lastInsertPos # -1 /\ seqcmp(L.data1[L.lastInsertPos], s) < 0 THEN L.lastInsertPos ELSE L.head

\* [s1, s2] joins the range of node i unless it is within it.
Join(L, i, s2) ==
    LET M == [L EXCEPT !.lastInsertPos = i]
    IN IF seqcmp(s2, LastOf(L, i)) > 0 THEN Coalesce(Stretch(M, i, s2), i) ELSE M

Insert(L, s1, s2) ==
    LET offset == seqoff(L.data1[L.head], s1)
        loc    == LocOf(L, s1)
        prior  == PriorFrom(L, SearchStart(L, s1), s1)
    IN IF L.length = 0
       THEN [NewNode(L, 0, s1, s2) EXCEPT !.head = 0, !.next[0] = -1]
       ELSE IF offset < 0
       THEN Coalesce([NewNode(L, loc, s1, s2) EXCEPT !.next[loc] = L.head, !.head = loc], loc)
       ELSE IF s1 = L.data1[loc] THEN Join(L, loc, s2)
       ELSE IF seqcmp(LastOf(L, prior), s1) < 0
       THEN Coalesce([NewNode(L, loc, s1, s2) EXCEPT
                         !.next = [L.next EXCEPT ![loc] = L.next[prior], ![prior] = loc]], loc)
       ELSE Join(L, prior, s2)

-----------------------------------------------------------------------------
(* remove and getLostSeq                                                   *)

PosWithout(L, i) == IF L.lastInsertPos = i THEN -1 ELSE L.lastInsertPos

\* The range of node i from after s on, in slot loc, linked after i.
Rest(L, i, loc, s) ==
    [L EXCEPT !.data1[loc] = incseq(s),
              !.data2[loc] = IF seqcmp(L.data2[i], incseq(s)) > 0 THEN L.data2[i] ELSE @,
              !.next = [L.next EXCEPT ![loc] = L.next[i], ![i] = loc]]

\* A node that is no longer used.
Cleared(L, i) == [L EXCEPT !.data1[i] = -1, !.data2[i] = -1, !.lastInsertPos = PosWithout(L, i)]

\* The head's first number is taken off.
TakeHead(L) ==
    LET loc == (L.head + 1) % SndListSize
        M   == IF L.data2[L.head] = -1 THEN [L EXCEPT !.head = L.next[L.head]]
               ELSE [Rest(L, L.head, loc, L.data1[L.head]) EXCEPT !.head = loc]
    IN [Cleared(M, L.head) EXCEPT !.length = @ - 1]

\* The nodes from h up to the head are freed.
PurgeTurn(S) ==
    LET L == S.list
    IN IF S.at = L.head THEN S
       ELSE [list |-> [Cleared(L, S.at) EXCEPT !.length = @ - seqlen(L.data1[S.at], LastOf(L, S.at))],
             at   |-> L.next[S.at]]

Purge(L, h) ==
    LET turn[k \in 0 .. SndListSize] == IF k = 0 THEN [list |-> L, at |-> h] ELSE PurgeTurn(turn[k - 1])
    IN turn[SndListSize].list

\* The node that holds s or is the last before it.
NodeUpTo(L, loc, s) == IF s = L.data1[loc] THEN loc ELSE PriorFrom(L, L.head, s)

\* Node i is cut after s, the number of slot loc, and what follows becomes the head.
Cut(L, i, loc, s) ==
    LET rest == (loc + 1) % SndListSize
    IN [Rest(L, i, rest, s) EXCEPT !.head = rest, !.data2[i] = IF i = loc THEN -1 ELSE s]

\* Every number up to s is taken off.
RemoveUpTo(L, s) ==
    LET offset == seqoff(L.data1[L.head], s)
        i      == NodeUpTo(L, LocOf(L, s), s)
    IN IF L.length = 0 \/ offset < 0 THEN L
       ELSE IF offset = 0 THEN TakeHead(L)
       ELSE Purge(IF L.data2[i] # -1 /\ seqcmp(L.data2[i], s) > 0 THEN Cut(L, i, LocOf(L, s), s)
                  ELSE [L EXCEPT !.head = L.next[i]], L.head)

-----------------------------------------------------------------------------
\* A new packet; LossListFits of UdtTransfer says how far apart losses are.
SendPacket ==
    /\ sndNext - FirstSndSeqNo < MaxSndSeqs /\ sndNext - sndAcked < SndListSize
    /\ sndNext' = sndNext + 1
    /\ UNCHANGED <<sndList, sndAcked, sndLost>>

\* A range of a NAK, or all that is not acknowledged when the EXP timer expires.
ReportLoss(a, b) ==
    /\ sndAcked <= a /\ a <= b /\ b < sndNext
    /\ sndList' = Insert(sndList, NumberOf(a), NumberOf(b))
    /\ sndLost' = sndLost \cup (a .. b)
    /\ UNCHANGED <<sndAcked, sndNext>>

AckPackets(n) ==
    /\ sndAcked < n /\ n <= sndNext
    /\ sndAcked' = n
    /\ sndList' = RemoveUpTo(sndList, decseq(NumberOf(n)))
    /\ sndLost' = {s \in sndLost : s >= n}
    /\ UNCHANGED sndNext

\* packData takes the number at the head.
TakeLost ==
    /\ sndList.length > 0
    /\ sndList' = TakeHead(sndList)
    /\ sndLost' = {s \in sndLost : NumberOf(s) # sndList.data1[sndList.head]}
    /\ UNCHANGED <<sndAcked, sndNext>>

SndLossNumbers == FirstSndSeqNo .. FirstSndSeqNo + MaxSndSeqs

SndLossNext ==
    \/ SendPacket \/ TakeLost
    \/ \E a, b \in SndLossNumbers : ReportLoss(a, b)
    \/ \E n \in SndLossNumbers : AckPackets(n)

-----------------------------------------------------------------------------
(* Properties                                                              *)

SndNodeAfter(i) == IF i = -1 THEN -1 ELSE sndList.next[i]

\* The nodes in the order they are linked, -1 after the last.
SndNode[k \in 0 .. SndListSize + 1] ==
    IF k = 0 THEN (IF sndList.length = 0 THEN -1 ELSE sndList.head) ELSE SndNodeAfter(SndNode[k - 1])

SndNodes == {SndNode[k] : k \in 0 .. SndListSize} \ {-1}

InNode(L, i, s) == seqcmp(L.data1[i], s) <= 0 /\ seqcmp(s, LastOf(L, i)) <= 0

\* The arrays hold exactly the numbers reported and not yet sent again or acknowledged,
\* each in one node, in order, and m_iLength counts them: however ranges overlap, touch,
\* are cut by ACKs or wrap around the largest number and the end of the arrays.
SndListIsSet ==
    /\ sndLost = {n \in sndAcked .. sndNext - 1 : \E i \in SndNodes : InNode(sndList, i, NumberOf(n))}
    /\ sndList.length = Cardinality(sndLost)
    /\ \A k \in 0 .. SndListSize : SndNode[k] # -1 /\ SndNode[k + 1] # -1 =>
           seqcmp(LastOf(sndList, SndNode[k]), sndList.data1[SndNode[k + 1]]) < 0
=============================================================================
