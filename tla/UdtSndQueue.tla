---------------------------- MODULE UdtSndQueue ----------------------------
(***************************************************************************)
(* CSndUList and the worker of CSndQueue (UDT4/src/queue.cpp): sockets     *)
(* with something to send form a heap by the time of their next packet,    *)
(* each knowing its place.  The worker sleeps until the first one's time,  *)
(* pops it, packs a packet and inserts it again with its next time; with   *)
(* an empty heap it waits to be signalled.  Applications and the receiving *)
(* worker insert sockets, bring them forward and remove them.  m_ListLock  *)
(* is held over each call, the signal included.                            *)
(***************************************************************************)
EXTENDS Integers, Sequences, FiniteSets

CONSTANTS
    Senders,        \* the sockets of the multiplexer
    MaxSndTime,     \* bound: the clock
    MaxSndData      \* bound: packets each socket is given to send

ASSUME SndQueueAssumption == MaxSndTime \in Nat /\ MaxSndData \in Nat

VARIABLES
    heap,       \* m_pHeap up to m_iLastEntry
    node,       \* each socket's CSNode: m_llTimeStamp and m_iHeapLoc, 0 for none
    toSend,     \* packets each socket could send now
    given,      \* packets each socket was given
    telling,    \* the calls about to be made: sockets with new data, or with new losses
    signaller,  \* who holds m_ListLock and is about to signal m_pWindowCond
    sndWorker,  \* the worker: its loop's top, asleep, due, waiting, gone
    queueEnd,   \* the destructor: m_bClosing set, and then the signal given
    clock

sndQueueVars == <<heap, node, toSend, given, telling, signaller, sndWorker, queueEnd, clock>>

Nobody == "nobody"

SndQueueInit ==
    /\ heap = << >> /\ node = [u \in Senders |-> [ts |-> 0, loc |-> 0]]
    /\ toSend = [u \in Senders |-> 0] /\ given = [u \in Senders |-> 0]
    /\ telling = {} /\ signaller = Nobody
    /\ sndWorker = [pc |-> "top", until |-> 0] /\ queueEnd = "open" /\ clock = 1

-----------------------------------------------------------------------------
(* The heap: H.heap from 1, so that the children of q are 2q and 2q + 1.   *)

Stamp(H, i) == H.node[H.heap[i]].ts

\* The entry at i, which is being moved, changes places with the one at j; the sockets are told.
Swap(S, i, j) ==
    [heap |-> [S.heap EXCEPT ![i] = S.heap[j], ![j] = S.heap[i]],
     node |-> [S.node EXCEPT ![S.heap[i]].loc = j, ![S.heap[j]].loc = i],
     at   |-> j]

\* A turn of insert_'s loop: the entry rises above a later one.
Rise(S) ==
    IF S.at > 1 /\ Stamp(S, S.at \div 2) > Stamp(S, S.at) THEN Swap(S, S.at, S.at \div 2) ELSE S

\* A turn of remove_'s loop: it sinks below the earlier of the two under it.
Sink(S) ==
    LET left == 2 * S.at
        p    == IF left + 1 <= Len(S.heap) /\ Stamp(S, left) > Stamp(S, left + 1) THEN left + 1 ELSE left
    IN IF left <= Len(S.heap) /\ Stamp(S, S.at) > Stamp(S, p) THEN Swap(S, S.at, p) ELSE S

\* The loops: an entry passes each of the others at most once.
SiftUp(H, q) ==
    LET turn[k \in 0 .. Len(H.heap)] ==
            IF k = 0 THEN [heap |-> H.heap, node |-> H.node, at |-> q] ELSE Rise(turn[k - 1])
        S == turn[Len(H.heap)]
    IN [heap |-> S.heap, node |-> S.node]

SiftDown(H, q) ==
    LET turn[k \in 0 .. Len(H.heap)] ==
            IF k = 0 THEN [heap |-> H.heap, node |-> H.node, at |-> q] ELSE Sink(turn[k - 1])
        S == turn[Len(H.heap)]
    IN [heap |-> S.heap, node |-> S.node]

\* insert_
Inserted(H, u, ts) ==
    IF H.node[u].loc > 0 THEN H
    ELSE SiftUp([heap |-> Append(H.heap, u),
                 node |-> [H.node EXCEPT ![u] = [ts |-> ts, loc |-> Len(H.heap) + 1]]],
                Len(H.heap) + 1)

\* Mutant: the last entry takes the place that is free, and stays there.
NotSifted(H, loc) == H

Sifted(H, loc) == SiftDown(H, loc)

\* Mutant: the entry that takes the place is not told.
PlaceUntold(H, last, loc) == H.node

PlaceTold(H, last, loc) == [H.node EXCEPT ![last].loc = loc]

\* remove_
Removed(H, u) ==
    LET loc  == H.node[u].loc
        n    == Len(H.heap)
        last == H.heap[n]
        M    == [heap |-> SubSeq([H.heap EXCEPT ![loc] = last], 1, n - 1), node |-> PlaceTold(H, last, loc)]
    IN IF loc = 0 THEN H
       ELSE LET R == IF loc < n THEN Sifted(M, loc) ELSE M IN [R EXCEPT !.node[u].loc = 0]

TheHeap == [heap |-> heap, node |-> node]

\* The list becomes H; when it has its first entry, m_ListLock is held until the signal.
ListBecomes(H, inserted) ==
    /\ heap' = H.heap /\ node' = H.node
    /\ signaller' = IF inserted /\ Len(H.heap) = 1 THEN "list" ELSE Nobody

-----------------------------------------------------------------------------
\* addBuffer, or a NAK that lists losses; update is called afterwards.
GiveData(u, why) ==
    /\ given[u] < MaxSndData
    /\ [u |-> u, reschedule |-> why = "loss"] \notin telling
    /\ given' = [given EXCEPT ![u] = @ + 1]
    /\ toSend' = [toSend EXCEPT ![u] = @ + 1]
    /\ telling' = telling \cup {[u |-> u, reschedule |-> why = "loss"]}
    /\ UNCHANGED <<heap, node, signaller, sndWorker, queueEnd, clock>>

\* update: the socket is inserted, or brought forward; the worker that sleeps for it as
\* the first one is interrupted.
Update(t) ==
    LET first == node[t.u].loc = 1
    IN /\ signaller = Nobody /\ t \in telling
       /\ telling' = telling \ {t}
       /\ IF node[t.u].loc > 0 /\ ~t.reschedule
          THEN UNCHANGED <<heap, node, signaller, sndWorker>>
          ELSE IF first
          THEN /\ node' = [node EXCEPT ![t.u].ts = 1]
               /\ sndWorker' = IF sndWorker.pc = "asleep" THEN [sndWorker EXCEPT !.until = clock] ELSE sndWorker
               /\ UNCHANGED <<heap, signaller>>
          ELSE /\ ListBecomes(Inserted(Removed(TheHeap, t.u), t.u, 1), TRUE)
               /\ UNCHANGED sndWorker
       /\ UNCHANGED <<toSend, given, queueEnd, clock>>

\* close: the socket is taken off the list; what it had to send stays unsent.
RemoveSocket(u) ==
    /\ signaller = Nobody /\ node[u].loc > 0
    /\ ListBecomes(Removed(TheHeap, u), FALSE)
    /\ toSend' = [toSend EXCEPT ![u] = 0] /\ given' = [given EXCEPT ![u] = MaxSndData]
    /\ telling' = {t \in telling : t.u # u}
    /\ UNCHANGED <<sndWorker, queueEnd, clock>>

Woken == IF sndWorker.pc = "waiting" THEN [sndWorker EXCEPT !.pc = "top"] ELSE sndWorker

\* The end of insert_: the signal, given with the window lock held.
Signal ==
    /\ signaller = "list"
    /\ signaller' = Nobody
    /\ sndWorker' = Woken
    /\ UNCHANGED <<heap, node, toSend, given, telling, queueEnd, clock>>

\* The worker's loop: the first entry's time is read, and slept for unless it is past.
ReadNextTime ==
    /\ sndWorker.pc = "top" /\ signaller = Nobody
    /\ sndWorker' = IF queueEnd # "open" THEN [sndWorker EXCEPT !.pc = "gone"]
                    ELSE IF heap = << >> THEN [sndWorker EXCEPT !.pc = "empty"]
                    ELSE [pc |-> "asleep", until |-> node[heap[1]].ts]
    /\ UNCHANGED <<heap, node, toSend, given, telling, signaller, queueEnd, clock>>

\* Mutant: the worker waits because it found the heap empty before it took the lock.
FoundEmpty == TRUE

StillEmpty == queueEnd = "open" /\ heap = << >>

\* With the window lock: m_bClosing and the heap are looked at again before the wait.
WaitForSocket ==
    /\ sndWorker.pc = "empty"
    /\ sndWorker' = [sndWorker EXCEPT !.pc = IF StillEmpty THEN "waiting" ELSE "top"]
    /\ UNCHANGED <<heap, node, toSend, given, telling, signaller, queueEnd, clock>>

WakeUp ==
    /\ sndWorker.pc = "asleep" /\ sndWorker.until <= clock
    /\ sndWorker' = [sndWorker EXCEPT !.pc = "due"]
    /\ UNCHANGED <<heap, node, toSend, given, telling, signaller, queueEnd, clock>>

\* Mutant: a socket with nothing more to send now stays off the list although it may have more later.
Once(H, u) == H

Again(H, u) == Inserted(H, u, clock + 1)

\* pop, with m_ListLock held from the removal to the insertion, packData in between.
Pop ==
    LET u == heap[1]
        H == Removed(TheHeap, u)
    IN /\ sndWorker.pc = "due" /\ signaller = Nobody
       /\ sndWorker' = [sndWorker EXCEPT !.pc = "top"]
       /\ IF heap = << >> THEN UNCHANGED <<heap, node, toSend, signaller>>
          ELSE IF toSend[u] = 0 THEN ListBecomes(H, FALSE) /\ UNCHANGED toSend
          ELSE ListBecomes(Again(H, u), TRUE) /\ toSend' = [toSend EXCEPT ![u] = @ - 1]
       /\ UNCHANGED <<given, telling, queueEnd, clock>>

\* The destructor: m_bClosing, then the signal.
EndQueue ==
    /\ \/ queueEnd = "open" /\ queueEnd' = "closing" /\ UNCHANGED sndWorker
       \/ queueEnd = "closing" /\ queueEnd' = "signalled" /\ sndWorker' = Woken
    /\ UNCHANGED <<heap, node, toSend, given, telling, signaller, clock>>

Tick ==
    /\ clock < MaxSndTime /\ clock' = clock + 1
    /\ UNCHANGED <<heap, node, toSend, given, telling, signaller, sndWorker, queueEnd>>

SndQueueNext ==
    \/ \E u \in Senders : (\E why \in {"data", "loss"} : GiveData(u, why)) \/ RemoveSocket(u)
    \/ \E t \in telling : Update(t)
    \/ Signal \/ ReadNextTime \/ WaitForSocket \/ WakeUp \/ Pop \/ EndQueue \/ Tick

-----------------------------------------------------------------------------
(* Properties                                                              *)

\* Every socket on the heap knows its place, and is there once.
PlacesRight ==
    /\ \A i \in DOMAIN heap : node[heap[i]].loc = i
    /\ \A u \in Senders : node[u].loc > 0 => node[u].loc <= Len(heap) /\ heap[node[u].loc] = u

\* The worker sleeps for the earliest socket: after any insertions and removals no socket
\* on the heap comes before the first one.  (For up to five sockets: remove_ only sifts
\* down, and of six the entry that fills a place may be earlier than the one above it.)
FirstIsEarliest == \A i \in DOMAIN heap : node[heap[1]].ts <= node[heap[i]].ts

\* The worker does not wait while a socket is on the heap or the queue is being closed,
\* unless whoever changed that is about to signal it.
NoLostSignal ==
    sndWorker.pc = "waiting" =>
        /\ heap = << >> \/ signaller = "list"
        /\ queueEnd # "signalled"

\* A socket that has something to send is on the heap, or somebody is about to put it there.
WorkIsScheduled == \A u \in Senders : toSend[u] > 0 => node[u].loc > 0 \/ \E t \in telling : t.u = u

\* The heap is in order and its sockets know where they are.
HeapInOrder == PlacesRight /\ FirstIsEarliest
=============================================================================
