---------------------------- MODULE UdtRcvQueue ----------------------------
(***************************************************************************)
(* CRcvQueue (UDT4/src/queue.cpp): the receiving worker owns a hash table  *)
(* of connections and CRcvUList, a linked list of them by the time they    *)
(* were last looked after.  Threads that connect pass new connections to   *)
(* the worker, and until then wait for the packets it stores for them;     *)
(* the garbage collector deletes a closed connection that is not on the    *)
(* list, looking at m_bOnList without a lock.                              *)
(***************************************************************************)
EXTENDS Integers, Sequences, SequencesExt, FiniteSets

CONSTANTS
    Conns,          \* the connections of the multiplexer, numbers: their socket IDs
    Dialled,        \* those that connect; a listener accepts the others
    HashSize,       \* m_iHashSize
    MaxRounds,      \* bound: the clock
    WorkerKeepsUp   \* a new connection reaches the list within a second of its closing

ASSUME RcvQueueAssumption ==
    /\ Conns \subseteq Nat \ {0} /\ IsFiniteSet(Conns) /\ Dialled \subseteq Conns
    /\ HashSize \in Nat \ {0} /\ MaxRounds \in Nat
    /\ WorkerKeepsUp \in BOOLEAN

VARIABLES
    conn,       \* each connection: being dialled, connected, closed or deleted
    uList,      \* CRcvUList: the nodes' links, m_bOnList and time, the first and last of it
    buckets,    \* CHash
    newEntries, \* m_vNewEntry
    dialling,   \* m_vRendezvousID
    stored,     \* m_mBuffer: the sockets a packet is stored for
    rcvWorker,  \* the worker: where in its loop it is, the connection at hand
    time

rcvQueueVars == <<conn, uList, buckets, newEntries, dialling, stored, rcvWorker, time>>

Nil == 0

RcvQueueInit ==
    /\ conn = [c \in Conns |-> "none"]
    /\ uList = [prev |-> [c \in Conns |-> Nil], next |-> [c \in Conns |-> Nil],
                on |-> [c \in Conns |-> FALSE], ts |-> [c \in Conns |-> 0], first |-> Nil, last |-> Nil]
    /\ buckets = [b \in 0 .. HashSize - 1 |-> << >>]
    /\ newEntries = << >> /\ dialling = << >> /\ stored = {}
    /\ rcvWorker = [pc |-> "top", c |-> Nil] /\ time = 1

Usable(c) == conn[c] = "connected"

-----------------------------------------------------------------------------
(* CRcvUList, and CHash                                                    *)

\* A node, its time set, is linked behind the last one.
LinkedLast(L, c) ==
    [L EXCEPT !.prev[c] = L.last, !.next = [n \in Conns |-> IF n = c THEN Nil ELSE IF n = L.last THEN c ELSE @[n]],
              !.first = IF @ = Nil THEN c ELSE @, !.last = c]

Unlinked(L, c) ==
    LET p == L.prev[c]
        n == L.next[c]
    IN [L EXCEPT !.next = [m \in Conns |-> IF m = p THEN n ELSE @[m]],
                 !.prev = [m \in Conns |-> IF m = n THEN p ELSE @[m]],
                 !.first = IF p = Nil THEN n ELSE @,
                 !.last = IF n = Nil THEN p ELSE @]

ListInsert(L, c) == LinkedLast([L EXCEPT !.on[c] = TRUE, !.ts[c] = time], c)

ListRemove(L, c) ==
    IF L.on[c] THEN [Unlinked(L, c) EXCEPT !.next[c] = Nil, !.prev[c] = Nil, !.on[c] = FALSE] ELSE L

\* Mutant: the time is set and the node stays where it is.
StampOnly(L, c) == [L EXCEPT !.ts[c] = time]

ListUpdate(L, c) ==
    LET M == [L EXCEPT !.ts[c] = time]
    IN IF ~L.on[c] THEN L ELSE IF L.next[c] = Nil THEN M ELSE LinkedLast(Unlinked(M, c), c)

Bucket(c) == c % HashSize

Lookup(c) == IF Contains(buckets[Bucket(c)], c) THEN c ELSE Nil

HashInsert(c) == [buckets EXCEPT ![Bucket(c)] = <<c>> \o @]

\* Mutant: the entry stays in the table.
HashKept(c) == buckets

HashRemove(c) == [buckets EXCEPT ![Bucket(c)] = RemoveFirst(@, c)]

-----------------------------------------------------------------------------
(* The threads that connect and close, and the garbage collector           *)

\* connect: the socket is registered in the rendezvous queue.
Dial(c) ==
    /\ c \in Dialled /\ conn[c] = "none"
    /\ conn' = [conn EXCEPT ![c] = "dialling"]
    /\ dialling' = Append(dialling, c)
    /\ UNCHANGED <<uList, buckets, newEntries, stored, rcvWorker, time>>

\* recvfrom finds the packet that was stored: the response, and connect's last lines up
\* to setNewEntry; or another one, which leads to another request.
TakeStored(c) ==
    /\ conn[c] = "dialling" /\ c \in stored
    /\ stored' = stored \ {c}
    /\ \/ /\ conn' = [conn EXCEPT ![c] = "connected"]
          /\ newEntries' = Append(newEntries, c)
       \/ UNCHANGED <<conn, newEntries>>
    /\ UNCHANGED <<uList, buckets, dialling, rcvWorker, time>>

\* connect leaves the rendezvous queue, after setNewEntry.
LeaveDialling(c) ==
    /\ conn[c] \notin {"none", "dialling"} /\ Contains(dialling, c)
    /\ dialling' = Remove(dialling, c)
    /\ UNCHANGED <<conn, uList, buckets, newEntries, stored, rcvWorker, time>>

\* newConnection, for a listener: nothing is dialled.
Accept(c) ==
    /\ c \notin Dialled /\ conn[c] = "none" /\ rcvWorker.pc = "receive"
    /\ conn' = [conn EXCEPT ![c] = "connected"]
    /\ newEntries' = Append(newEntries, c)
    /\ rcvWorker' = [rcvWorker EXCEPT !.pc = "timers"]
    /\ UNCHANGED <<uList, buckets, dialling, stored, time>>

\* close, or a broken connection.
Close(c) ==
    /\ conn[c] = "connected" /\ ~Contains(dialling, c)
    /\ conn' = [conn EXCEPT ![c] = "closed"]
    /\ UNCHANGED <<uList, buckets, newEntries, dialling, stored, rcvWorker, time>>

\* Mutant: whether the worker still has the connection on its list is not asked.
AnyTime(c) == TRUE

OffList(c) == ~uList.on[c]

\* checkBrokenSockets: closed for a second, and not on the list.  In a second the worker
\* takes every new entry and ends what it is doing.
Delete(c) ==
    /\ conn[c] = "closed" /\ OffList(c)
    /\ WorkerKeepsUp => ~Contains(newEntries, c) /\ rcvWorker.c # c
    /\ conn' = [conn EXCEPT ![c] = "deleted"]
    /\ UNCHANGED <<uList, buckets, newEntries, dialling, stored, rcvWorker, time>>

-----------------------------------------------------------------------------
(* CRcvQueue::worker                                                       *)

\* The top of the loop: a new connection is put on the list, and then in the hash table.
TakeNewEntry ==
    /\ rcvWorker.pc = "top"
    /\ IF newEntries = << >>
       THEN rcvWorker' = [pc |-> "receive", c |-> Nil] /\ UNCHANGED <<uList, newEntries>>
       ELSE /\ uList' = ListInsert(uList, Head(newEntries))
            /\ newEntries' = Tail(newEntries)
            /\ rcvWorker' = [pc |-> "hash", c |-> Head(newEntries)]
    /\ UNCHANGED <<conn, buckets, dialling, stored, time>>

HashNewEntry ==
    /\ rcvWorker.pc = "hash"
    /\ buckets' = HashInsert(rcvWorker.c)
    /\ rcvWorker' = [pc |-> "receive", c |-> Nil]
    /\ UNCHANGED <<conn, uList, newEntries, dialling, stored, time>>

\* A packet for socket c: the connection is looked up and asked whether it can be used,
\* or the packet is stored for whoever dials; or no packet comes before the time-out.
ReceiveFor(c) ==
    /\ rcvWorker.pc = "receive"
    /\ rcvWorker' = IF Lookup(c) # Nil /\ Usable(c) THEN [pc |-> "process", c |-> c]
                    ELSE [pc |-> "timers", c |-> Nil]
    /\ stored' = IF Lookup(c) = Nil /\ Contains(dialling, c) THEN stored \cup {c} ELSE stored
    /\ UNCHANGED <<conn, uList, buckets, newEntries, dialling, time>>

NoPacket ==
    /\ rcvWorker.pc = "receive"
    /\ rcvWorker' = [pc |-> "timers", c |-> Nil]
    /\ UNCHANGED <<conn, uList, buckets, newEntries, dialling, stored, time>>

\* processData or processCtrl and checkTimers, on a connection that may be closed meanwhile.
ProcessPacket ==
    /\ rcvWorker.pc = "process"
    /\ uList' = ListUpdate(uList, rcvWorker.c)
    /\ rcvWorker' = [pc |-> "timers", c |-> Nil]
    /\ UNCHANGED <<conn, buckets, newEntries, dialling, stored, time>>

Overdue(c) == uList.ts[c] < time - 1

\* The first connection of the list, when it is overdue: looked after, or taken out of the
\* hash table if it can no longer be used.
TimeFirst ==
    /\ rcvWorker.pc = "timers"
    /\ IF uList.first = Nil \/ ~Overdue(uList.first)
       THEN rcvWorker' = [pc |-> "top", c |-> Nil] /\ UNCHANGED <<uList, buckets>>
       ELSE IF Usable(uList.first)
       THEN uList' = ListUpdate(uList, uList.first) /\ UNCHANGED <<buckets, rcvWorker>>
       ELSE /\ buckets' = HashRemove(uList.first)
            /\ rcvWorker' = [pc |-> "unlist", c |-> uList.first]
            /\ UNCHANGED uList
    /\ UNCHANGED <<conn, newEntries, dialling, stored, time>>

\* And then off the list: from now on it may be deleted.
UnlistFirst ==
    /\ rcvWorker.pc = "unlist"
    /\ uList' = ListRemove(uList, rcvWorker.c)
    /\ rcvWorker' = [pc |-> "timers", c |-> Nil]
    /\ UNCHANGED <<conn, buckets, newEntries, dialling, stored, time>>

Clock ==
    /\ time < MaxRounds /\ time' = time + 1
    /\ UNCHANGED <<conn, uList, buckets, newEntries, dialling, stored, rcvWorker>>

RcvQueueNext ==
    \/ \E c \in Conns : Dial(c) \/ TakeStored(c) \/ LeaveDialling(c) \/ Accept(c) \/ Close(c)
                        \/ Delete(c) \/ ReceiveFor(c)
    \/ TakeNewEntry \/ HashNewEntry \/ NoPacket \/ ProcessPacket \/ TimeFirst \/ UnlistFirst \/ Clock

-----------------------------------------------------------------------------
(* Properties                                                              *)

\* The list from its first node on, as the links have it.
Listed[k \in Nat] ==
    IF k = 0 THEN uList.first ELSE IF Listed[k - 1] = Nil THEN Nil ELSE uList.next[Listed[k - 1]]

\* The links hold together in both directions, and connections lie in the order of their
\* times: the loop that stops at the first one not overdue has looked after all that are.
ListInTimeOrder ==
    /\ {Listed[k] : k \in 0 .. Cardinality(Conns)} \ {Nil} = {c \in Conns : uList.on[c]}
    /\ \A k \in 0 .. Cardinality(Conns) : Listed[k] # Nil =>
           /\ uList.prev[Listed[k]] = IF k = 0 THEN Nil ELSE Listed[k - 1]
           /\ Listed[k + 1] = Nil => uList.last = Listed[k]
           /\ Listed[k + 1] # Nil => uList.ts[Listed[k]] <= uList.ts[Listed[k + 1]]

\* The worker never meets a deleted connection: not in the hash table, where a packet
\* finds it, not on the list, not among the new ones, nor at hand.
DeletedIsForgotten ==
    \A c \in Conns : conn[c] = "deleted" =>
        /\ Lookup(c) = Nil /\ ~uList.on[c] /\ ~Contains(newEntries, c) /\ rcvWorker.c # c

\* What is in the hash table is on the list and once in the table, so that its timers are
\* looked after and it is taken out in the end.
HashedAreListed ==
    \A c \in Conns : Lookup(c) # Nil =>
        uList.on[c] /\ Cardinality({i \in DOMAIN buckets[Bucket(c)] : buckets[Bucket(c)][i] = c}) = 1

\* The worker's list and its hash table are sound, and agree.
ListsHoldTogether == ListInTimeOrder /\ HashedAreListed
=============================================================================
