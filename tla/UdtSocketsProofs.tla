-------------------------- MODULE UdtSocketsProofs --------------------------
(***************************************************************************)
(* Proofs about UdtSockets, for any number of sockets, handshakes and      *)
(* accepting threads.  A multiplexer is counted by every socket that uses  *)
(* it, and so is not deleted before them (SocketsInv).  A connection made  *)
(* at a listener is with one party at a time, from the handshake to accept *)
(* and close, and its listener is not deleted under a thread in accept     *)
(* (ConnectionsInv).                                                       *)
(***************************************************************************)
EXTENDS UdtSockets, FiniteSetTheorems, WellFoundedInduction, TLAPS

Fields ==
    {"where", "status", "conn", "listening", "broken", "unread", "old", "of", "attempt", "mux",
     "named", "dial"}

\* The shapes of the records, and the types that a share of a multiplexer depends on.
Shapes ==
    /\ DOMAIN sock = Ids /\ \A i \in Ids : DOMAIN sock[i] = Fields
    /\ \A i \in Ids : sock[i].mux \in Ids \cup {None}
    /\ refs \in [Ids -> Nat] /\ nextId \in Int
    /\ DOMAIN closer = {"at", "on", "status"}
    /\ DOMAIN worker = {"at", "ls", "req", "ns"}
    /\ worker.at # "idle" => worker.ls \in Ids

LEMMA NewSocketShape ==
    /\ DOMAIN NewCUDTSocket = Fields /\ NewCUDTSocket.mux = None
    /\ NewCUDTSocket.where = "sockets" /\ NewCUDTSocket.status = "INIT"
BY DEF NewCUDTSocket, Fields

LEMMA InitShapes == Init => Shapes
<1> SUFFICES ASSUME Init PROVE Shapes
  OBVIOUS
<1>1. \A i \in Ids : DOMAIN sock[i] = Fields /\ sock[i].mux = None
  BY NewSocketShape DEF Init, Fields
<1>2. DOMAIN sock = Ids /\ refs \in [Ids -> Nat] /\ nextId \in Int
  BY SocketsAssumption DEF Init, MaxSockets
<1>3. /\ DOMAIN closer = {"at", "on", "status"}
      /\ DOMAIN worker = {"at", "ls", "req", "ns"} /\ worker.at = "idle"
  BY DEF Init, NotClosing, NotHandling
<1> QED
  BY <1>1, <1>2, <1>3 DEF Shapes

LEMMA AppShapes == Shapes /\ AppStep => Shapes'
<1> SUFFICES ASSUME Shapes, AppStep PROVE Shapes'
  OBVIOUS
<1> USE DEF Shapes, Fields, appVars, endVars
<1>1. CASE NewSocket
  BY <1>1, NewSocketShape DEF NewSocket
<1>2. CASE Cleanup
  BY <1>2 DEF Cleanup
<1>3. ASSUME NEW i \in Ids, Bind(i) PROVE Shapes'
  BY <1>3 DEF Bind
<1>4. ASSUME NEW i \in Ids, Listen(i) PROVE Shapes'
  BY <1>4 DEF Listen
<1>5. ASSUME NEW i \in Ids, Dial(i) PROVE Shapes'
  BY <1>5 DEF Dial
<1>6. ASSUME NEW i \in Ids, Close(i) PROVE Shapes'
  BY <1>6 DEF Close
<1>7. ASSUME NEW i \in Ids, NEW a \in Acceptors, Accept(a, i) PROVE Shapes'
  BY <1>7 DEF Accept
<1> QED
  BY <1>1, <1>2, <1>3, <1>4, <1>5, <1>6, <1>7 DEF AppStep

\* What newConnection's step does, whichever way it ends.
LEMMA CreateEffect ==
    ASSUME Shapes, CreateConnection
    PROVE  LET m == sock[worker.ls].mux
           IN \/ /\ UNCHANGED sock /\ worker' = NotHandling /\ nextId' \in {nextId, nextId - 1}
                 /\ refs' \in {refs, Shared(m)}
              \/ /\ refs' = Shared(m) /\ nextId' = nextId - 1
                 /\ DOMAIN sock' = Ids /\ \A i \in Ids \ {nextId} : sock'[i] = sock[i]
                 /\ nextId \in Ids =>
                        /\ DOMAIN sock'[nextId] = Fields /\ sock'[nextId].mux = m
                        /\ sock'[nextId].where = "none" /\ sock'[nextId].status = "CONNECTED"
                 /\ worker'.at = "insert" /\ worker'.ns = nextId /\ worker'.ls = worker.ls
                 /\ DOMAIN worker' = DOMAIN worker
<1> USE DEF CreateConnection, appVars
<1> DEFINE new == [NewCUDTSocket EXCEPT !.where = "none", !.status = "CONNECTED", !.conn = TRUE,
                       !.of = worker.ls, !.attempt = worker.req,
                       !.mux = sock[worker.ls].mux, !.named = TRUE]
<1>1. /\ DOMAIN new = Fields /\ new.mux = sock[worker.ls].mux
      /\ new.where = "none" /\ new.status = "CONNECTED"
  BY NewSocketShape DEF Fields
<1>2. \/ /\ UNCHANGED <<sock, nextId, refs>> /\ worker' = NotHandling
      \/ /\ UNCHANGED sock /\ worker' = NotHandling /\ nextId' = nextId - 1
         /\ refs' \in {refs, Shared(sock[worker.ls].mux)}
      \/ /\ sock' = [sock EXCEPT ![nextId] = new] /\ nextId' = nextId - 1
         /\ refs' = Shared(sock[worker.ls].mux)
         /\ worker' = [worker EXCEPT !.at = "insert", !.ns = nextId]
  OBVIOUS
<1> HIDE DEF new
<1>3. CASE /\ sock' = [sock EXCEPT ![nextId] = new] /\ nextId' = nextId - 1
           /\ refs' = Shared(sock[worker.ls].mux)
           /\ worker' = [worker EXCEPT !.at = "insert", !.ns = nextId]
  <2>1. /\ DOMAIN sock' = Ids /\ \A i \in Ids \ {nextId} : sock'[i] = sock[i]
        /\ nextId \in Ids => sock'[nextId] = new
    BY <1>3 DEF Shapes
  <2>2. /\ worker'.at = "insert" /\ worker'.ns = nextId /\ worker'.ls = worker.ls
        /\ DOMAIN worker' = DOMAIN worker
    BY <1>3 DEF Shapes
  <2> QED
    BY <1>1, <1>3, <2>1, <2>2
<1> QED
  BY <1>2, <1>3

LEMMA SharedType ==
    ASSUME Shapes, NEW m
    PROVE  /\ Shared(m) \in [Ids -> Nat]
           /\ \A n \in Ids : Shared(m)[n] = IF n = m THEN refs[n] + 1 ELSE refs[n]
<1>1. Shared(m) = [n \in Ids |-> IF n = m THEN refs[n] + 1 ELSE refs[n]]
  BY DEF Shapes, Shared
<1> QED
  BY <1>1 DEF Shapes

LEMMA WorkerShapes == Shapes /\ (WorkerStep \/ PeerStep) => Shapes'
<1> SUFFICES ASSUME Shapes, WorkerStep \/ PeerStep PROVE Shapes'
  OBVIOUS
<1> USE DEF Shapes, Fields, appVars, endVars
<1>1. CASE KnownConnection
  BY <1>1 DEF KnownConnection, NotHandling
<1>2. CASE CreateConnection
  <2> DEFINE m == sock[worker.ls].mux
  <2>1. UNCHANGED closer /\ m \in Ids \cup {None}
    BY <1>2 DEF CreateConnection
  <2>2. refs' \in [Ids -> Nat] /\ nextId' \in Int
    BY <1>2, CreateEffect, SharedType
  <2>3. CASE UNCHANGED sock /\ worker' = NotHandling
    BY <2>1, <2>2, <2>3 DEF NotHandling
  <2>4. CASE /\ DOMAIN sock' = Ids /\ \A i \in Ids \ {nextId} : sock'[i] = sock[i]
             /\ nextId \in Ids => DOMAIN sock'[nextId] = Fields /\ sock'[nextId].mux = m
             /\ worker'.ls = worker.ls /\ DOMAIN worker' = DOMAIN worker
    <3>1. worker.ls \in Ids
      BY <1>2 DEF CreateConnection
    <3>2. \A i \in Ids : DOMAIN sock'[i] = Fields /\ sock'[i].mux \in Ids \cup {None}
      BY <2>1, <2>4
    <3> QED
      BY <2>1, <2>2, <2>4, <3>1, <3>2
  <2> QED
    BY <1>2, <2>3, <2>4, CreateEffect
<1>3. CASE InsertConnection
  BY <1>3 DEF InsertConnection
<1>4. CASE QueueConnection
  BY <1>4 DEF QueueConnection
<1>5. CASE SignalAccept
  BY <1>5 DEF SignalAccept, NotHandling
<1>6. ASSUME NEW i \in Ids, Break(i) PROVE Shapes'
  BY <1>6 DEF Break
<1>7. ASSUME NEW i \in Ids, NEW a \in Attempts, Request(i, a) PROVE Shapes'
  BY <1>7 DEF Request
<1> QED
  BY <1>1, <1>2, <1>3, <1>4, <1>5, <1>6, <1>7 DEF WorkerStep, PeerStep

LEMMA IdsAreFinite ==
    ASSUME NEW S \in SUBSET Ids
    PROVE  IsFiniteSet(S) /\ Cardinality(S) \in Nat
<1>1. MaxSockets \in Nat
  BY SocketsAssumption DEF MaxSockets
<1>2. IsFiniteSet(Ids)
  BY <1>1, FS_Interval DEF Ids
<1> QED
  BY <1>2, FS_Subset, FS_CardinalityType

LEMMA IdsAreInts == \A i \in Ids : i \in Int
BY SocketsAssumption DEF Ids, MaxSockets

Removed == {i \in Ids : sock[i].where = "closed" /\ sock[i].old}

NamedUsers(m) == {i \in Removed : sock[i].mux = m /\ sock[i].named}

\* What garbage collection does to the sockets and the multiplexers.
LEMMA ScanEffect ==
    ASSUME Shapes, Scan
    PROVE  /\ UNCHANGED <<nextId, closing, acc, closer, worker>> /\ owned' \subseteq owned
           /\ \/ UNCHANGED <<sock, refs>>
              \/ /\ DOMAIN sock' = Ids
                 /\ \A i \in Ids : DOMAIN sock'[i] = Fields /\ sock'[i].mux = sock[i].mux
                 /\ \A i \in Removed : sock'[i].where = "deleted" /\ sock'[i].status = sock[i].status
                 /\ \A i \in Ids \ Removed :
                        \/ /\ sock'[i].where = sock[i].where /\ sock'[i].status = sock[i].status
                           /\ sock'[i].old = sock[i].old
                        \/ /\ sock[i].where = "sockets" /\ sock'[i].where = "closed"
                           /\ sock'[i].status = "CLOSED" /\ sock'[i].old = closing
                 /\ refs' \in [Ids -> Nat]
                 /\ \A m \in Ids : /\ refs'[m] >= refs[m] - Cardinality(NamedUsers(m))
                                   /\ refs'[m] <= refs[m]
<1> DEFINE gone    == {i \in Ids : InMap(i) /\ sock[i].broken /\ sock[i].unread = 0}
           waiting == {i \in Ids : InMap(i) /\ sock[i].broken /\ sock[i].unread > 0}
           goneOf(i) == {j \in gone : sock[j].of = i}
           queues  == [i \in Ids |-> IF InMap(i) THEN queued[i] \ goneOf(i) ELSE queued[i]]
           orphans == Unaccepted(Removed, queues)
<1>1. UNCHANGED <<nextId, closing, acc, closer, worker>> /\ owned' \subseteq owned
  BY DEF Scan
<1>2. CASE \E q \in orphans : ~InMap(q) \/ q \in gone
  BY <1>1, <1>2 DEF Scan, Removed
<1>3. CASE ~\E q \in orphans : ~InMap(q) \/ q \in gone
  <2>1. sock' = [i \in Ids |->
                     IF i \in Removed THEN [sock[i] EXCEPT !.where = "deleted"]
                     ELSE IF i \in gone \cup orphans
                     THEN [sock[i] EXCEPT !.where = "closed", !.status = "CLOSED", !.old = closing,
                                          !.conn = @ /\ i \in gone]
                     ELSE IF i \in waiting THEN [sock[i] EXCEPT !.unread = UnreadAfter(i)]
                     ELSE sock[i]]
    BY <1>3 DEF Scan, Removed
  <2>2. \A i \in gone \cup orphans : sock[i].where = "sockets"
    BY <1>3 DEF InMap
  <2>3. refs' = [m \in Ids |-> IF refs[m] > Cardinality(NamedUsers(m))
                               THEN refs[m] - Cardinality(NamedUsers(m)) ELSE 0]
    BY <1>3 DEF Scan, Removed, NamedUsers
  <2> HIDE DEF gone, waiting, orphans
  <2>4. \A i \in Ids : DOMAIN sock'[i] = Fields /\ sock'[i].mux = sock[i].mux
    BY <2>1 DEF Shapes, Fields
  <2>5. \A i \in Removed : sock'[i].where = "deleted" /\ sock'[i].status = sock[i].status
    BY <2>1 DEF Shapes, Fields, Removed
  <2>6. ASSUME NEW i \in Ids \ Removed
        PROVE  \/ /\ sock'[i].where = sock[i].where /\ sock'[i].status = sock[i].status
                  /\ sock'[i].old = sock[i].old
               \/ /\ sock[i].where = "sockets" /\ sock'[i].where = "closed"
                  /\ sock'[i].status = "CLOSED" /\ sock'[i].old = closing
    BY <2>1, <2>2 DEF Shapes, Fields
  <2>7. \A m \in Ids : Cardinality(NamedUsers(m)) \in Nat
    BY IdsAreFinite DEF NamedUsers, Removed
  <2>8. /\ refs' \in [Ids -> Nat]
        /\ \A m \in Ids : refs'[m] >= refs[m] - Cardinality(NamedUsers(m)) /\ refs'[m] <= refs[m]
    BY <2>3, <2>7 DEF Shapes
  <2> QED
    BY <1>1, <2>1, <2>4, <2>5, <2>6, <2>8
<1> QED
  BY <1>2, <1>3

LEMMA OtherShapes ==
    ASSUME Shapes,
           \/ CloseStep \/ Scan \/ Second
           \/ \E a \in Acceptors : AcceptStep(a)
           \/ \E i \in Ids : DialStep(i)
    PROVE  Shapes'
<1> USE DEF appVars, endVars
<1>1. CASE CloseMove
  BY <1>1 DEF CloseMove, NotClosing, AfterMove, Shapes, Fields
<1>2. CASE CloseSync
  BY <1>2 DEF CloseSync, Shapes
<1>3. CASE CloseWake
  BY <1>3 DEF CloseWake, NotClosing, Shapes
<1>4. CASE Scan
  BY <1>4, ScanEffect DEF Shapes
<1>5. CASE Second
  BY <1>5 DEF Second, Shapes, Fields
<1>6. ASSUME NEW a \in Acceptors, AcceptStep(a) PROVE Shapes'
  BY <1>6 DEF AcceptStep, AcceptTake, AcceptWait, AcceptWoken, AcceptLocate, Shapes
<1>7. ASSUME NEW i \in Ids, DialStep(i) PROVE Shapes'
  <2>1. UNCHANGED <<refs, nextId, closer, worker>>
    BY <1>7 DEF DialStep, DialResult, DialName
  <2>2. DOMAIN sock' = Ids /\ \A j \in Ids : DOMAIN sock'[j] = Fields /\ sock'[j].mux = sock[j].mux
    <3>1. CASE DialResult(i)
      BY <3>1 DEF DialResult, Shapes, Fields
    <3>2. CASE DialName(i)
      BY <3>2 DEF DialName, Shapes, Fields
    <3> QED
      BY <1>7, <3>1, <3>2 DEF DialStep
  <2> QED
    BY <2>1, <2>2 DEF Shapes
<1> QED
  BY <1>1, <1>2, <1>3, <1>4, <1>5, <1>6, <1>7 DEF CloseStep

LEMMA NextShapes == Shapes /\ [Next]_vars => Shapes'
<1>1. CASE UNCHANGED vars
  BY <1>1 DEF Shapes, vars, appVars
<1> QED
  BY <1>1, AppShapes, WorkerShapes, OtherShapes DEF Next

-----------------------------------------------------------------------------
(* Steps that move no socket between the maps and make none.               *)

Steady ==
    /\ UNCHANGED <<nextId, closing>>
    /\ \A i \in Ids : UNCHANGED <<sock[i].where, sock[i].old>>

\* Nor do they give one a multiplexer.
MuxesKept ==
    /\ UNCHANGED refs
    /\ \A i \in Ids : sock'[i].mux = sock[i].mux /\ (sock'[i].status = "INIT" => sock[i].status = "INIT")

LEMMA AppSteady ==
    ASSUME Shapes, NEW i \in Ids
    PROVE  /\ Bind(i) \/ Dial(i) => Steady
           /\ Listen(i) \/ Close(i) \/ DialStep(i) \/ Break(i) => Steady /\ MuxesKept
<1> USE DEF Steady, MuxesKept, Shapes, Fields, appVars, endVars
<1>1. ASSUME Bind(i) PROVE Steady
  BY <1>1 DEF Bind
<1>2. ASSUME Dial(i) PROVE Steady
  BY <1>2 DEF Dial
<1>3. ASSUME Listen(i) PROVE Steady /\ MuxesKept
  BY <1>3 DEF Listen
<1>4. ASSUME Close(i) PROVE Steady /\ MuxesKept
  BY <1>4 DEF Close
<1>5. ASSUME DialResult(i) PROVE Steady /\ MuxesKept
  BY <1>5 DEF DialResult
<1>6. ASSUME DialName(i) PROVE Steady /\ MuxesKept
  BY <1>6 DEF DialName
<1>7. ASSUME Break(i) PROVE Steady /\ MuxesKept
  BY <1>7 DEF Break
<1> QED
  BY <1>1, <1>2, <1>3, <1>4, <1>5, <1>6, <1>7 DEF DialStep

LEMMA ThreadSteady ==
    ASSUME Shapes,
           \/ KnownConnection \/ QueueConnection \/ SignalAccept \/ CloseSync \/ CloseWake
           \/ \E a \in Acceptors : AcceptStep(a) \/ \E i \in Ids : Accept(a, i)
           \/ \E i \in Ids, a \in Attempts : Request(i, a)
    PROVE  Steady /\ MuxesKept
<1> USE DEF Steady, MuxesKept, appVars, endVars
<1>1. CASE KnownConnection
  BY <1>1 DEF KnownConnection, Shapes, Fields
<1>2. CASE QueueConnection
  BY <1>2 DEF QueueConnection
<1>3. CASE SignalAccept
  BY <1>3 DEF SignalAccept
<1>4. CASE CloseSync
  BY <1>4 DEF CloseSync
<1>5. CASE CloseWake
  BY <1>5 DEF CloseWake
<1>6. ASSUME NEW a \in Acceptors, AcceptStep(a) PROVE Steady /\ MuxesKept
  BY <1>6 DEF AcceptStep, AcceptTake, AcceptWait, AcceptWoken, AcceptLocate
<1>7. ASSUME NEW a \in Acceptors, NEW i \in Ids, Accept(a, i) PROVE Steady /\ MuxesKept
  BY <1>7 DEF Accept
<1>8. ASSUME NEW i \in Ids, NEW a \in Attempts, Request(i, a) PROVE Steady /\ MuxesKept
  BY <1>8 DEF Request
<1> QED
  BY <1>1, <1>2, <1>3, <1>4, <1>5, <1>6, <1>7, <1>8

-----------------------------------------------------------------------------
(* Closing.                                                                *)

\* cleanup leaves nothing in progress and no socket to the application.
NothingAfterCleanup ==
    closing => owned = {} /\ closer.at = "idle" /\ \A a \in Acceptors : acc[a].at = "idle"

\* A socket that is being closed is not deleted before it is moved: no second has passed.
CloserHasSocket ==
    closer.at = "move" =>
        /\ closer.on \in Ids /\ sock[closer.on].where \in {"sockets", "closed"}
        /\ sock[closer.on].where = "closed" => ~sock[closer.on].old

\* Numbers not yet given have no socket, and a socket that newConnection has not
\* inserted is in neither map.
NotYetMade ==
    /\ \A i \in Ids : i <= nextId => sock[i].where = "none"
    /\ worker.at = "insert" =>
           /\ worker.ns \in Int /\ nextId < worker.ns
           /\ worker.ns \in Ids => sock[worker.ns].where = "none"

CloseInv == NothingAfterCleanup /\ CloserHasSocket /\ NotYetMade

LEMMA InitCloseInv == Init => CloseInv
<1> SUFFICES ASSUME Init PROVE CloseInv
  OBVIOUS
<1>1. ~closing /\ closer.at = "idle" /\ worker.at = "idle"
  BY Zenon DEF Init, NotClosing, NotHandling
<1>2. \A i \in Ids : sock[i].where = "none"
  BY DEF Init, NewCUDTSocket
<1> QED
  BY <1>1, <1>2 DEF CloseInv, NothingAfterCleanup, CloserHasSocket, NotYetMade

LEMMA SteadyNotYetMade ==
    ASSUME NotYetMade, Steady, worker'.at = "insert" => worker' = worker
    PROVE  NotYetMade'
BY DEF NotYetMade, Steady

LEMMA SteadyCloser ==
    ASSUME CloserHasSocket, Steady, closer'.at = "move" => closer' = closer
    PROVE  CloserHasSocket'
BY DEF CloserHasSocket, Steady

LEMMA AppCloseInv == Shapes /\ CloseInv /\ AppStep => CloseInv'
<1> SUFFICES ASSUME Shapes, CloseInv, AppStep PROVE CloseInv'
  OBVIOUS
<1> USE DEF CloseInv
<1>1. CASE NewSocket
  <2>1. /\ DOMAIN sock' = Ids /\ \A i \in Ids \ {nextId} : sock'[i] = sock[i]
        /\ nextId \in Ids => sock'[nextId].where = "sockets"
    BY <1>1, NewSocketShape DEF NewSocket, Shapes
  <2>2. NothingAfterCleanup'
    BY <1>1, Zenon DEF NewSocket, NothingAfterCleanup, endVars
  <2>3. nextId' = nextId - 1 /\ UNCHANGED <<closer, worker>>
    BY <1>1 DEF NewSocket
  <2>4. CloserHasSocket'
    BY <2>1, <2>3 DEF CloserHasSocket
  <2>5. NotYetMade'
    <3>1. \A i \in Ids : i <= nextId - 1 => i <= nextId /\ i # nextId
      BY IdsAreInts DEF Shapes
    <3>2. \A i \in Ids : i <= nextId' => sock'[i].where = "none"
      BY <2>1, <2>3, <3>1 DEF NotYetMade
    <3>3. ASSUME worker.at = "insert"
          PROVE  nextId - 1 < worker.ns /\ worker.ns # nextId
      BY <3>3 DEF NotYetMade, Shapes
    <3> QED
      BY <2>1, <2>3, <3>2, <3>3 DEF NotYetMade
  <2> QED
    BY <2>2, <2>4, <2>5
<1>2. CASE Cleanup
  <2>1. NothingAfterCleanup' /\ CloserHasSocket'
    BY <1>2 DEF Cleanup, Quiet, NothingAfterCleanup, CloserHasSocket
  <2>2. \A i \in Ids : sock[i].where = "none" => sock'[i].where = "none"
    BY <1>2 DEF Cleanup
  <2>3. NotYetMade'
    BY <1>2, <2>2 DEF Cleanup, NotYetMade
  <2> QED
    BY <2>1, <2>3
<1>3. ASSUME NEW i \in Ids, Bind(i) \/ Listen(i) \/ Dial(i) PROVE CloseInv'
  <2>1. UNCHANGED <<owned, closer, worker, acc, closing>> /\ Steady
    BY <1>3, AppSteady DEF Bind, Listen, Dial, appVars, endVars
  <2> QED
    BY <2>1, SteadyNotYetMade, SteadyCloser DEF NothingAfterCleanup
<1>4. ASSUME NEW i \in Ids, Close(i) PROVE CloseInv'
  <2>1. UNCHANGED <<acc, closing, worker>> /\ Steady
    BY <1>4, AppSteady DEF Close, endVars
  <2>2. closing = FALSE
    BY <1>4 DEF Close, NothingAfterCleanup
  <2>3. /\ closer'.on = i /\ sock[i].where = "sockets"
    BY <1>4 DEF Close, Located
  <2>4. CloserHasSocket'
    BY <2>1, <2>3 DEF CloserHasSocket, Steady
  <2> QED
    BY <2>1, <2>2, <2>4, SteadyNotYetMade DEF NothingAfterCleanup
<1>5. ASSUME NEW i \in Ids, NEW a \in Acceptors, Accept(a, i) PROVE CloseInv'
  <2>1. UNCHANGED <<closer, worker, closing>> /\ ~closing /\ Steady
    BY <1>5, ThreadSteady DEF Accept, endVars
  <2> QED
    BY <2>1, SteadyNotYetMade, SteadyCloser DEF NothingAfterCleanup
<1> QED
  BY <1>1, <1>2, <1>3, <1>4, <1>5 DEF AppStep

LEMMA WorkerCloseInv == Shapes /\ CloseInv /\ (WorkerStep \/ PeerStep) => CloseInv'
<1> SUFFICES ASSUME Shapes, CloseInv, WorkerStep \/ PeerStep PROVE CloseInv'
  OBVIOUS
<1> USE DEF CloseInv
<1>1. CASE KnownConnection
  <2>1. UNCHANGED <<owned, closer, acc, closing>> /\ Steady
    BY <1>1, ThreadSteady DEF KnownConnection, appVars, endVars
  <2>2. worker'.at # "insert"
    BY <1>1 DEF KnownConnection, NotHandling, Shapes
  <2> QED
    BY <2>1, <2>2, SteadyNotYetMade, SteadyCloser DEF NothingAfterCleanup
<1>2. CASE CreateConnection
  <2>1. UNCHANGED <<owned, closer, acc, closing>>
    BY <1>2 DEF CreateConnection, endVars
  <2>2. CASE UNCHANGED sock /\ worker' = NotHandling /\ nextId' \in {nextId, nextId - 1}
    <3>1. \A i \in Ids : i <= nextId' => i <= nextId
      BY <2>2, IdsAreInts DEF Shapes
    <3>2. NotYetMade'
      BY <2>2, <3>1 DEF NotYetMade, NotHandling
    <3> QED
      BY <2>1, <2>2, <3>2 DEF NothingAfterCleanup, CloserHasSocket
  <2>3. CASE /\ nextId' = nextId - 1
             /\ \A i \in Ids \ {nextId} : sock'[i] = sock[i]
             /\ nextId \in Ids => sock'[nextId].where = "none"
             /\ worker'.at = "insert" /\ worker'.ns = nextId
    <3>1. \A i \in Ids : i <= nextId' => i <= nextId /\ i # nextId
      BY <2>3, IdsAreInts DEF Shapes
    <3>2. nextId \in Int /\ nextId' < nextId
      BY <2>3 DEF Shapes
    <3>3. NotYetMade'
      BY <2>3, <3>1, <3>2 DEF NotYetMade
    <3>4. nextId \in Ids => sock[nextId].where = "none"
      BY IdsAreInts DEF NotYetMade
    <3>5. CloserHasSocket'
      BY <2>1, <2>3, <3>4 DEF CloserHasSocket
    <3> QED
      BY <2>1, <3>3, <3>5 DEF NothingAfterCleanup
  <2> QED
    BY <1>2, <2>2, <2>3, CreateEffect
<1>3. CASE InsertConnection
  <2>1. UNCHANGED <<nextId, owned, closer, acc, closing>> /\ worker'.at # "insert" /\ worker.at = "insert"
    BY <1>3 DEF InsertConnection, appVars, endVars, Shapes
  <2>2. /\ \A i \in Ids \ {worker.ns} : sock'[i] = sock[i]
        /\ worker.ns \in Ids => sock'[worker.ns].where = "sockets"
    BY <1>3 DEF InsertConnection, Shapes, Fields
  <2>3. CloserHasSocket'
    BY <2>1, <2>2 DEF CloserHasSocket
  <2>4. \A i \in Ids : i <= nextId => i # worker.ns
    BY <2>1, IdsAreInts DEF NotYetMade, Shapes
  <2>5. NotYetMade'
    BY <2>1, <2>2, <2>4 DEF NotYetMade
  <2> QED
    BY <2>1, <2>3, <2>5 DEF NothingAfterCleanup
<1>4. CASE QueueConnection
  <2>1. UNCHANGED <<owned, closer, acc, closing>> /\ Steady
    BY <1>4, ThreadSteady DEF QueueConnection, appVars, endVars
  <2>2. worker'.at # "insert"
    BY <1>4 DEF QueueConnection, Shapes
  <2> QED
    BY <2>1, <2>2, SteadyNotYetMade, SteadyCloser DEF NothingAfterCleanup
<1>5. CASE SignalAccept
  <2>1. UNCHANGED <<owned, closer, closing>> /\ Steady
    BY <1>5, ThreadSteady DEF SignalAccept, appVars, endVars
  <2>2. worker'.at # "insert"
    BY <1>5 DEF SignalAccept, NotHandling
  <2>3. (\A a \in Acceptors : acc[a].at = "idle") => UNCHANGED acc
    BY <1>5 DEF SignalAccept, ToWake, Waiting
  <2> QED
    BY <2>1, <2>2, <2>3, SteadyNotYetMade, SteadyCloser DEF NothingAfterCleanup
<1>6. ASSUME NEW i \in Ids, Break(i) PROVE CloseInv'
  <2>1. UNCHANGED <<owned, closer, worker, acc, closing>> /\ Steady
    BY <1>6, AppSteady DEF Break, appVars, endVars
  <2> QED
    BY <2>1, SteadyNotYetMade, SteadyCloser DEF NothingAfterCleanup
<1>7. ASSUME NEW i \in Ids, NEW a \in Attempts, Request(i, a) PROVE CloseInv'
  <2>1. UNCHANGED <<owned, closer, acc, closing>> /\ Steady
    BY <1>7, ThreadSteady DEF Request, endVars
  <2>2. worker'.at # "insert"
    BY <1>7 DEF Request
  <2> QED
    BY <2>1, <2>2, SteadyNotYetMade, SteadyCloser DEF NothingAfterCleanup
<1> QED
  BY <1>1, <1>2, <1>3, <1>4, <1>5, <1>6, <1>7 DEF WorkerStep, PeerStep

LEMMA OtherCloseInv ==
    ASSUME Shapes, CloseInv,
           \/ CloseStep \/ Scan \/ Second
           \/ \E a \in Acceptors : AcceptStep(a)
           \/ \E i \in Ids : DialStep(i)
    PROVE  CloseInv'
<1> USE DEF CloseInv
<1>1. CASE CloseMove
  <2>1. UNCHANGED <<nextId, owned, acc, worker, closing>> /\ closer.at = "move" /\ closer'.at # "move"
    BY <1>1 DEF CloseMove, AfterMove, NotClosing, appVars, endVars, Shapes
  <2>2. \A i \in Ids \ {closer.on} : sock'[i] = sock[i]
    BY <1>1 DEF CloseMove, Shapes
  <2>3. closer.on \in Ids /\ sock[closer.on].where # "none"
    BY <2>1 DEF CloserHasSocket
  <2>4. NotYetMade'
    BY <2>1, <2>2, <2>3 DEF NotYetMade
  <2> QED
    BY <2>1, <2>4 DEF NothingAfterCleanup, CloserHasSocket
<1>2. CASE CloseSync \/ CloseWake
  <2>1. UNCHANGED <<owned, worker, closing>> /\ Steady /\ closer'.at # "move" /\ closer.at # "idle"
    BY <1>2, ThreadSteady DEF CloseSync, CloseWake, NotClosing, appVars, endVars, Shapes
  <2> QED
    BY <2>1, SteadyNotYetMade, SteadyCloser DEF NothingAfterCleanup
<1>3. CASE Scan
  <2>1. UNCHANGED <<nextId, closing, acc, closer, worker>> /\ owned' \subseteq owned
    BY <1>3, ScanEffect
  <2>2. NothingAfterCleanup'
    BY <2>1 DEF NothingAfterCleanup
  <2>3. CASE UNCHANGED sock
    BY <2>1, <2>2, <2>3 DEF CloserHasSocket, NotYetMade
  <2>4. CASE \A i \in Ids :
                 \/ i \in Removed
                 \/ sock'[i].where = sock[i].where /\ sock'[i].old = sock[i].old
                 \/ sock[i].where = "sockets" /\ sock'[i].where = "closed" /\ sock'[i].old = closing
    <3>1. \A i \in Removed : sock[i].where = "closed" /\ sock[i].old
      BY DEF Removed
    <3>2. NotYetMade'
      BY <2>1, <2>4, <3>1 DEF NotYetMade
    <3>3. closer.at = "move" => closing = FALSE \/ ~closing
      BY DEF NothingAfterCleanup
    <3>4. CloserHasSocket'
      BY <2>1, <2>4, <3>1, <3>3 DEF CloserHasSocket
    <3> QED
      BY <2>2, <3>2, <3>4
  <2> QED
    BY <1>3, <2>3, <2>4, ScanEffect
<1>4. CASE Second
  <2>1. UNCHANGED <<nextId, owned, acc, closer, worker, closing>> /\ closer.at = "idle"
    BY <1>4 DEF Second, Quiet, appVars, endVars
  <2>2. \A i \in Ids : sock'[i].where = sock[i].where
    BY <1>4 DEF Second, Shapes, Fields
  <2> QED
    BY <2>1, <2>2 DEF NothingAfterCleanup, CloserHasSocket, NotYetMade
<1>5. ASSUME NEW a \in Acceptors, AcceptStep(a) PROVE CloseInv'
  <2>1. UNCHANGED <<closer, worker, closing>> /\ Steady
    BY <1>5, ThreadSteady DEF AcceptStep, AcceptTake, AcceptWait, AcceptWoken, AcceptLocate, endVars
  <2>2. acc[a].at # "idle"
    BY <1>5 DEF AcceptStep, AcceptTake, AcceptWait, AcceptWoken, AcceptLocate
  <2> QED
    BY <2>1, <2>2, SteadyNotYetMade, SteadyCloser DEF NothingAfterCleanup
<1>6. ASSUME NEW i \in Ids, DialStep(i) PROVE CloseInv'
  <2>1. UNCHANGED <<owned, closer, worker, acc, closing>> /\ Steady
    BY <1>6, AppSteady DEF DialStep, DialResult, DialName, appVars, endVars
  <2> QED
    BY <2>1, SteadyNotYetMade, SteadyCloser DEF NothingAfterCleanup
<1> QED
  BY <1>1, <1>2, <1>3, <1>4, <1>5, <1>6 DEF CloseStep

LEMMA NextCloseInv == Shapes /\ CloseInv /\ [Next]_vars => CloseInv'
<1>1. CASE UNCHANGED vars
  BY <1>1 DEF CloseInv, NothingAfterCleanup, CloserHasSocket, NotYetMade, vars, appVars, endVars
<1> QED
  BY <1>1, AppCloseInv, WorkerCloseInv, OtherCloseInv DEF Next

-----------------------------------------------------------------------------
(* Multiplexers.                                                           *)

Users(m) == {i \in Ids : sock[i].mux = m /\ sock[i].where # "deleted"}

\* Every user is counted; a multiplexer is named by a socket that uses or used it; a
\* socket that is new has none.
MuxInv ==
    /\ \A m \in Ids : refs[m] >= Cardinality(Users(m))
    /\ \A m \in Ids : sock[m].mux = None => refs[m] = 0 /\ \A i \in Ids : sock[i].mux # m
    /\ \A i \in Ids : i <= nextId \/ sock[i].status = "INIT" => sock[i].mux = None

LEMMA InitMuxInv == Init => MuxInv
<1> SUFFICES ASSUME Init PROVE MuxInv
  OBVIOUS
<1>1. \A i \in Ids : sock[i].mux = None /\ refs[i] = 0
  BY DEF Init, NewCUDTSocket
<1>2. \A m \in Ids : m # None
  BY SocketsAssumption DEF Ids, None, MaxSockets
<1>3. \A m \in Ids : Users(m) = {}
  BY <1>1, <1>2 DEF Users
<1> QED
  BY <1>1, <1>2, <1>3, FS_EmptySet DEF MuxInv

\* No socket starts to use a multiplexer, and the counts are kept or go up.
LEMMA NoNewUser ==
    ASSUME Shapes, Shapes', MuxInv, nextId' \in {nextId, nextId - 1},
           \A m \in Ids : refs'[m] >= refs[m] /\ (sock[m].mux = None => refs'[m] = 0),
           \A i \in Ids : /\ sock'[i].mux = sock[i].mux
                          /\ sock[i].where = "deleted" /\ sock[i].mux # None => sock'[i].where = "deleted"
                          /\ sock'[i].status = "INIT" => sock[i].status = "INIT" \/ sock[i].mux = None
    PROVE  MuxInv'
<1>1. ASSUME NEW m \in Ids PROVE refs'[m] >= Cardinality(Users(m)')
  <2>1. m # None
    BY SocketsAssumption DEF Ids, None, MaxSockets
  <2>2. Users(m)' \subseteq Users(m) /\ Users(m) \in SUBSET Ids
    BY <2>1 DEF Users
  <2>3. Cardinality(Users(m)') <= Cardinality(Users(m))
    BY <2>2, IdsAreFinite, FS_Subset
  <2>4. Cardinality(Users(m)') \in Nat /\ Cardinality(Users(m)) \in Nat
    BY <2>2, IdsAreFinite
  <2>5. refs[m] >= Cardinality(Users(m)) /\ refs[m] \in Nat /\ refs'[m] >= refs[m] /\ refs'[m] \in Nat
    BY DEF MuxInv, Shapes
  <2> QED
    BY <2>3, <2>4, <2>5
<1>2. \A i \in Ids : i <= nextId' => i <= nextId
  BY IdsAreInts DEF Shapes
<1> QED
  BY <1>1, <1>2 DEF MuxInv

\* One socket starts to use a multiplexer, which is counted.
LEMMA NewUser ==
    ASSUME Shapes, Shapes', MuxInv, NEW u \in Ids, NEW m \in Ids,
           sock[u].mux = None, sock'[u].mux = m, sock'[u].status # "INIT", m = u \/ sock[m].mux # None,
           nextId' \in {nextId, nextId - 1}, u > nextId',
           \A i \in Ids \ {u} : sock'[i] = sock[i],
           refs'[m] >= refs[m] + 1, \A n \in Ids \ {m} : refs'[n] = refs[n]
    PROVE  MuxInv'
<1>1. ASSUME NEW n \in Ids PROVE refs'[n] >= Cardinality(Users(n)')
  <2>1. n # None
    BY SocketsAssumption DEF Ids, None, MaxSockets
  <2>2. Users(n)' \in SUBSET Ids /\ Users(n) \in SUBSET Ids
    BY DEF Users
  <2>3. /\ IsFiniteSet(Users(n)) /\ Cardinality(Users(n)) \in Nat
        /\ IsFiniteSet(Users(n)') /\ Cardinality(Users(n)') \in Nat
    BY <2>2, IdsAreFinite
  <2>4. refs[n] >= Cardinality(Users(n)) /\ refs[n] \in Nat /\ refs'[n] \in Nat
    BY DEF MuxInv, Shapes
  <2>5. CASE n = m
    <3>1. u \notin Users(n) /\ Users(n)' \subseteq Users(n) \cup {u}
      BY <2>1, <2>5 DEF Users
    <3>2. /\ IsFiniteSet(Users(n) \cup {u})
          /\ Cardinality(Users(n) \cup {u}) = Cardinality(Users(n)) + 1
      BY <2>3, <3>1, FS_AddElement
    <3>3. Cardinality(Users(n)') <= Cardinality(Users(n)) + 1
      BY <3>1, <3>2, FS_Subset
    <3> QED
      BY <2>3, <2>4, <2>5, <3>3
  <2>6. CASE n # m
    <3>1. Users(n)' = Users(n)
      BY <2>1, <2>6 DEF Users
    <3> QED
      BY <2>4, <2>6, <3>1
  <2> QED
    BY <2>5, <2>6
<1>2. \A i \in Ids : i <= nextId' => i <= nextId /\ i # u
  BY IdsAreInts DEF Shapes
<1>3. \A n \in Ids : sock'[n].mux = None => sock[n].mux = None /\ n # m
  BY SocketsAssumption DEF Ids, None, MaxSockets
<1>4. \A n \in Ids : sock'[n].mux = None => refs'[n] = 0 /\ \A i \in Ids : sock'[i].mux # n
  BY <1>3 DEF MuxInv
<1>5. \A i \in Ids : i <= nextId' \/ sock'[i].status = "INIT" => sock'[i].mux = None
  BY <1>2 DEF MuxInv
<1> QED
  BY <1>1, <1>4, <1>5 DEF MuxInv

LEMMA SteadyMuxInv ==
    ASSUME Shapes, Shapes', MuxInv, Steady, MuxesKept
    PROVE  MuxInv'
<1>1. \A m \in Ids : refs'[m] >= refs[m] /\ (sock[m].mux = None => refs'[m] = 0)
  BY DEF MuxesKept, MuxInv, Shapes
<1>2. nextId' = nextId
  BY DEF Steady
<1> QED
  BY <1>1, <1>2, NoNewUser DEF MuxesKept, Steady

LEMMA BindMuxInv ==
    ASSUME Shapes, Shapes', CloseInv, MuxInv, NEW i \in Ids, Bind(i) \/ Dial(i)
    PROVE  MuxInv'
<1>1. nextId' = nextId /\ sock[i].where = "sockets"
  BY DEF Bind, Dial, Located, appVars
<1>2. i > nextId
  BY <1>1, IdsAreInts DEF CloseInv, NotYetMade, Shapes
<1>3. ASSUME NEW m \in Ids, sock[i].status = "INIT", m = i \/ refs[m] > 0,
             sock'[i].mux = m, sock'[i].status = "OPENED", \A j \in Ids \ {i} : sock'[j] = sock[j],
             refs'[m] = refs[m] + 1, \A n \in Ids \ {m} : refs'[n] = refs[n]
      PROVE  MuxInv'
  <2>1. sock[i].mux = None /\ (m = i \/ sock[m].mux # None)
    BY <1>3 DEF MuxInv
  <2>2. refs'[m] >= refs[m] + 1
    BY <1>3 DEF Shapes
  <2> QED
    BY <1>1, <1>2, <1>3, <2>1, <2>2, NewUser
<1>4. CASE Bind(i)
  <2>1. PICK m \in {j \in Ids : refs[j] > 0} \cup {i} :
          /\ refs' = [refs EXCEPT ![m] = @ + 1]
          /\ sock' = [sock EXCEPT ![i].mux = m, ![i].named = TRUE, ![i].status = "OPENED"]
    BY <1>4 DEF Bind
  <2>2. /\ sock'[i].mux = m /\ sock'[i].status = "OPENED"
        /\ \A j \in Ids \ {i} : sock'[j] = sock[j]
    BY <2>1 DEF Shapes, Fields
  <2>3. m \in Ids /\ refs'[m] = refs[m] + 1 /\ \A n \in Ids \ {m} : refs'[n] = refs[n]
    BY <2>1 DEF Shapes
  <2> QED
    BY <1>3, <1>4, <2>1, <2>2, <2>3 DEF Bind
<1>5. CASE Dial(i) /\ sock[i].status = "INIT"
  <2>1. /\ refs' = [refs EXCEPT ![i] = 1]
        /\ sock' = [sock EXCEPT ![i].mux = i, ![i].status = "OPENED", ![i].dial = "dialling"]
    BY <1>5 DEF Dial
  <2>2. /\ sock'[i].mux = i /\ sock'[i].status = "OPENED"
        /\ \A j \in Ids \ {i} : sock'[j] = sock[j]
    BY <2>1 DEF Shapes, Fields
  <2>3. refs[i] = 0
    BY <1>5 DEF MuxInv
  <2>4. refs'[i] = refs[i] + 1 /\ \A n \in Ids \ {i} : refs'[n] = refs[n]
    BY <2>1, <2>3 DEF Shapes
  <2> QED
    BY <1>3, <1>5, <2>2, <2>4
<1>6. CASE Dial(i) /\ sock[i].status # "INIT"
  <2>1. /\ sock[i].status = "OPENED" /\ UNCHANGED refs
        /\ sock' = [sock EXCEPT ![i].dial = "dialling"]
    BY <1>6 DEF Dial
  <2>2. Steady /\ MuxesKept
    BY <1>6, <2>1, AppSteady DEF MuxesKept, Shapes, Fields
  <2> QED
    BY <2>2, SteadyMuxInv
<1> QED
  BY <1>4, <1>5, <1>6

LEMMA NewSocketMuxInv ==
    ASSUME Shapes, Shapes', CloseInv, MuxInv, NewSocket
    PROVE  MuxInv'
<1>1. /\ \A i \in Ids \ {nextId} : sock'[i] = sock[i]
      /\ nextId \in Ids => sock'[nextId].mux = None
  BY NewSocketShape DEF NewSocket, Shapes
<1>2. nextId' = nextId - 1 /\ UNCHANGED refs
  BY DEF NewSocket
<1>3. nextId \in Ids => sock[nextId].mux = None
  BY IdsAreInts DEF MuxInv
<1>4. \A i \in Ids : /\ sock'[i].mux = sock[i].mux
                     /\ sock[i].where = "deleted" /\ sock[i].mux # None => sock'[i].where = "deleted"
                     /\ sock'[i].status = "INIT" => sock[i].status = "INIT" \/ sock[i].mux = None
  BY <1>1, <1>3
<1>5. \A m \in Ids : refs'[m] >= refs[m] /\ (sock[m].mux = None => refs'[m] = 0)
  BY <1>2 DEF MuxInv, Shapes
<1> QED
  BY <1>2, <1>4, <1>5, NoNewUser

LEMMA CreateMuxInv ==
    ASSUME Shapes, Shapes', CloseInv, MuxInv, CreateConnection
    PROVE  MuxInv'
<1> DEFINE m == sock[worker.ls].mux
<1>1. m \in Ids \cup {None}
  BY DEF CreateConnection, Shapes
<1>2. m \in Ids => sock[m].mux # None
  BY DEF MuxInv, CreateConnection, Shapes
<1>3. None \notin Ids
  BY SocketsAssumption DEF Ids, None, MaxSockets
<1> HIDE DEF m
<1>4. ASSUME refs' \in {refs, Shared(m)}
      PROVE  \A n \in Ids : refs'[n] >= refs[n] /\ (sock[n].mux = None => refs'[n] = 0)
  <2>1. \A n \in Ids : refs'[n] \in {refs[n], refs[n] + 1} /\ (n # m => refs'[n] = refs[n])
    BY <1>4, SharedType DEF Shapes
  <2>2. \A n \in Ids : refs[n] \in Nat
    BY DEF Shapes
  <2>3. \A n \in Ids : sock[n].mux = None => refs[n] = 0
    BY DEF MuxInv
  <2> QED
    BY <1>2, <2>1, <2>2, <2>3
<1>5. CASE /\ UNCHANGED sock /\ nextId' \in {nextId, nextId - 1} /\ refs' \in {refs, Shared(m)}
  BY <1>4, <1>5, NoNewUser
<1>6. CASE /\ refs' = Shared(m) /\ nextId' = nextId - 1
           /\ \A i \in Ids \ {nextId} : sock'[i] = sock[i]
           /\ nextId \in Ids => sock'[nextId].mux = m /\ sock'[nextId].status = "CONNECTED"
  <2>1. nextId > nextId' /\ (nextId \in Ids => sock[nextId].mux = None /\ sock[nextId].where = "none")
    BY <1>6 DEF Shapes, MuxInv, CloseInv, NotYetMade
  <2>2. CASE nextId \in Ids /\ m \in Ids
    <3>1. refs'[m] >= refs[m] + 1 /\ \A n \in Ids \ {m} : refs'[n] = refs[n]
      BY <1>6, <2>2, SharedType DEF Shapes
    <3> QED
      BY <1>2, <1>6, <2>1, <2>2, <3>1, NewUser
  <2>3. CASE ~(nextId \in Ids /\ m \in Ids)
    <3>1. \A i \in Ids : sock'[i] = sock[i] \/ /\ sock'[i].mux = sock[i].mux
                                               /\ sock[i].where # "deleted" /\ sock[i].mux = None
      BY <1>1, <1>6, <2>1, <2>3
    <3> QED
      BY <1>4, <1>6, <3>1, NoNewUser
  <2> QED
    BY <2>2, <2>3
<1> QED
  BY <1>5, <1>6, CreateEffect DEF m

\* removeSocket gives back a share of each deleted socket that knows its port; the
\* sockets deleted used the multiplexer until now.
LEMMA ScanMuxInv ==
    ASSUME Shapes, Shapes', MuxInv, Scan
    PROVE  MuxInv'
<1>1. nextId' = nextId
  BY ScanEffect
<1>2. CASE UNCHANGED <<sock, refs>>
  BY <1>1, <1>2, Zenon DEF MuxInv, Users
<1>3. CASE /\ \A i \in Ids : sock'[i].mux = sock[i].mux
           /\ \A i \in Removed : sock'[i].where = "deleted" /\ sock'[i].status = sock[i].status
           /\ \A i \in Ids \ Removed :
                  \/ /\ sock'[i].where = sock[i].where /\ sock'[i].status = sock[i].status
                  \/ sock'[i].status = "CLOSED" /\ sock[i].where = "sockets"
           /\ \A m \in Ids : /\ refs'[m] >= refs[m] - Cardinality(NamedUsers(m))
                             /\ refs'[m] <= refs[m]
  <2>1. ASSUME NEW m \in Ids PROVE refs'[m] >= Cardinality(Users(m)')
    <3>1. Users(m)' \subseteq Users(m) \ NamedUsers(m)
      BY <1>3 DEF Users, NamedUsers
    <3>2. NamedUsers(m) \subseteq Users(m)
      BY DEF Users, NamedUsers, Removed
    <3>3. Users(m) \in SUBSET Ids /\ NamedUsers(m) \in SUBSET Ids
      BY DEF Users, NamedUsers, Removed
    <3>4. /\ IsFiniteSet(Users(m)) /\ Cardinality(Users(m)) \in Nat
          /\ IsFiniteSet(NamedUsers(m)) /\ Cardinality(NamedUsers(m)) \in Nat
          /\ IsFiniteSet(Users(m) \ NamedUsers(m))
      BY <3>3, IdsAreFinite
    <3>5. Cardinality(Users(m) \ NamedUsers(m)) = Cardinality(Users(m)) - Cardinality(NamedUsers(m))
      <4>1. Users(m) \cap NamedUsers(m) = NamedUsers(m)
        BY <3>2
      <4> QED
        BY <3>4, <4>1, FS_Difference
    <3>6. Cardinality(Users(m)') <= Cardinality(Users(m) \ NamedUsers(m)) /\ Cardinality(Users(m)') \in Nat
      <4>1. Users(m)' \in SUBSET Ids
        BY DEF Users
      <4> QED
        BY <3>1, <3>4, <4>1, FS_Subset, IdsAreFinite
    <3>7. refs[m] >= Cardinality(Users(m)) /\ refs[m] \in Nat /\ refs'[m] \in Nat
      BY DEF MuxInv, Shapes
    <3> QED
      BY <1>3, <3>4, <3>5, <3>6, <3>7
  <2>2. \A m \in Ids : refs[m] = 0 => refs'[m] = 0
    BY <1>3 DEF Shapes
  <2>3. \A i \in Ids : sock'[i].status = "INIT" => sock[i].status = "INIT"
    BY <1>3
  <2> QED
    BY <1>1, <1>3, <2>1, <2>2, <2>3 DEF MuxInv
<1> QED
  BY <1>2, <1>3, ScanEffect

\* The steps that move a socket between the maps and keep its multiplexer.
LEMMA MoveMuxInv ==
    ASSUME Shapes, Shapes', CloseInv, MuxInv, InsertConnection \/ CloseMove \/ Second \/ Cleanup
    PROVE  MuxInv'
<1> USE DEF appVars, endVars
<1>1. UNCHANGED refs /\ nextId' = nextId
  BY DEF InsertConnection, CloseMove, Second, Cleanup
<1>2. ASSUME \A i \in Ids : /\ sock'[i].mux = sock[i].mux
                            /\ sock[i].where = "deleted" => sock'[i].where = "deleted"
                            /\ sock'[i].status = "INIT" => sock[i].status = "INIT"
      PROVE  MuxInv'
  <2>1. \A m \in Ids : refs'[m] >= refs[m] /\ (sock[m].mux = None => refs'[m] = 0)
    BY <1>1 DEF MuxInv, Shapes
  <2> QED
    BY <1>1, <1>2, <2>1, NoNewUser
<1>3. CASE InsertConnection
  <2>1. worker.ns \in Ids => sock[worker.ns].where = "none"
    BY <1>3 DEF InsertConnection, CloseInv, NotYetMade
  <2>2. \A i \in Ids : /\ sock'[i].mux = sock[i].mux /\ sock'[i].status = sock[i].status
                       /\ i # worker.ns => sock'[i].where = sock[i].where
    BY <1>3 DEF InsertConnection, Shapes, Fields
  <2> QED
    BY <1>2, <2>1, <2>2
<1>4. CASE CloseMove
  <2>1. closer.on \in Ids /\ sock[closer.on].where # "deleted"
    BY <1>4 DEF CloseMove, CloseInv, CloserHasSocket
  <2>2. /\ \A i \in Ids \ {closer.on} : sock'[i] = sock[i]
        /\ sock'[closer.on].mux = sock[closer.on].mux /\ sock'[closer.on].status = "CLOSED"
    BY <1>4, <2>1 DEF CloseMove, Shapes, Fields
  <2> QED
    BY <1>2, <2>1, <2>2
<1>5. CASE Second
  <2>1. \A i \in Ids : /\ sock'[i].mux = sock[i].mux /\ sock'[i].where = sock[i].where
                       /\ sock'[i].status = sock[i].status
    BY <1>5 DEF Second, Shapes, Fields
  <2> QED
    BY <1>2, <2>1
<1>6. CASE Cleanup
  <2>1. \A i \in Ids : \/ sock'[i] = sock[i]
                       \/ /\ sock[i].where # "deleted"
                          /\ sock'[i].mux = sock[i].mux /\ sock'[i].status = "CLOSED"
    BY <1>6 DEF Cleanup, Shapes, Fields
  <2> QED
    BY <1>2, <2>1
<1> QED
  BY <1>3, <1>4, <1>5, <1>6

SocketsInv == Shapes /\ CloseInv /\ MuxInv

LEMMA NextInv == SocketsInv /\ [Next]_vars => SocketsInv'
<1> SUFFICES ASSUME SocketsInv, [Next]_vars PROVE SocketsInv'
  OBVIOUS
<1>1. Shapes /\ CloseInv /\ MuxInv /\ Shapes' /\ CloseInv'
  BY NextShapes, NextCloseInv DEF SocketsInv
<1>2. CASE UNCHANGED vars
  <2>1. Steady /\ MuxesKept
    BY <1>2 DEF Steady, MuxesKept, vars, appVars, endVars
  <2> QED
    BY <1>1, <2>1, SteadyMuxInv DEF SocketsInv
<1>3. CASE AppStep
  <2>1. ASSUME NEW i \in Ids, Listen(i) \/ Close(i) PROVE MuxInv'
    BY <1>1, <2>1, AppSteady, SteadyMuxInv
  <2>2. ASSUME NEW i \in Ids, NEW a \in Acceptors, Accept(a, i) PROVE MuxInv'
    BY <1>1, <2>2, ThreadSteady, SteadyMuxInv
  <2> QED
    BY <1>1, <1>3, <2>1, <2>2, NewSocketMuxInv, BindMuxInv, MoveMuxInv DEF AppStep, SocketsInv
<1>4. CASE PeerStep
  <2>1. ASSUME NEW i \in Ids, Break(i) PROVE MuxInv'
    BY <1>1, <2>1, AppSteady, SteadyMuxInv
  <2>2. ASSUME NEW i \in Ids, NEW a \in Attempts, Request(i, a) PROVE MuxInv'
    BY <1>1, <2>2, ThreadSteady, SteadyMuxInv
  <2> QED
    BY <1>1, <1>4, <2>1, <2>2 DEF PeerStep, SocketsInv
<1>5. CASE WorkerStep
  BY <1>1, <1>5, ThreadSteady, SteadyMuxInv, CreateMuxInv, MoveMuxInv DEF WorkerStep, SocketsInv
<1>6. CASE CloseStep \/ Scan \/ Second
  BY <1>1, <1>6, ThreadSteady, SteadyMuxInv, ScanMuxInv, MoveMuxInv DEF CloseStep, SocketsInv
<1>7. ASSUME NEW a \in Acceptors, AcceptStep(a) PROVE SocketsInv'
  BY <1>1, <1>7, ThreadSteady, SteadyMuxInv DEF SocketsInv
<1>8. ASSUME NEW i \in Ids, DialStep(i) PROVE SocketsInv'
  BY <1>1, <1>8, AppSteady, SteadyMuxInv DEF SocketsInv
<1> QED
  BY <1>2, <1>3, <1>4, <1>5, <1>6, <1>7, <1>8 DEF Next

LEMMA InvGivesUse == SocketsInv => MuxOutlivesUsers
<1> SUFFICES ASSUME SocketsInv, NEW i \in Ids, sock[i].mux # None, sock[i].where # "deleted"
             PROVE  refs[sock[i].mux] > 0
  BY DEF MuxOutlivesUsers
<1> DEFINE m == sock[i].mux
<1>1. m \in Ids /\ i \in Users(m) /\ Users(m) \in SUBSET Ids
  BY DEF SocketsInv, Shapes, Users
<1>2. Cardinality(Users(m)) \in Nat /\ Cardinality(Users(m)) # 0
  BY <1>1, IdsAreFinite, FS_EmptySet
<1>3. refs[m] >= Cardinality(Users(m)) /\ refs[m] \in Nat
  BY <1>1 DEF SocketsInv, MuxInv, Shapes
<1> QED
  BY <1>2, <1>3

\* api.cpp: whatever sockets are bound, connected, accepted, closed and collected, and in
\* whatever order, removeSocket never deletes a multiplexer, with the two queues its
\* sockets point to, while one of them is left.
THEOREM MuxIsKept == Spec => []MuxOutlivesUsers
<1>1. Init => SocketsInv
  BY InitShapes, InitCloseInv, InitMuxInv DEF SocketsInv
<1> QED
  BY <1>1, NextInv, InvGivesUse, PTL DEF Spec

-----------------------------------------------------------------------------
(* Connections: where a socket is from the handshake to accept and close.  *)

\* The shapes of the rest of the state.
MoreShapes ==
    /\ DOMAIN acc = Acceptors /\ \A a \in Acceptors : DOMAIN acc[a] = {"at", "on", "took"}
    /\ DOMAIN queued = Ids /\ DOMAIN accepts = Ids /\ DOMAIN acceptLock = Ids

MadeByApp == {i \in Ids : sock[i].where # "none" /\ sock[i].of = None}

\* The numbers suffice: each socket of the application and each handshake takes one at most.
NumbersLeft ==
    /\ requests \in Nat /\ requests <= MaxRequests /\ nextId <= MaxSockets
    /\ Cardinality(MadeByApp) <= MaxApp
    /\ nextId >= (MaxApp - Cardinality(MadeByApp)) + (MaxRequests - requests)
                 + (IF worker.at \in {"known", "create"} THEN 1 ELSE 0)

\* A listener is in m_Sockets and has never been connected.
Listeners ==
    \A i \in Ids :
        /\ sock[i].listening => sock[i].status = "LISTENING"
        /\ sock[i].status = "LISTENING" => InMap(i) /\ sock[i].of = None /\ sock[i].dial = "no"
        /\ sock[i].of = None /\ (sock[i].conn \/ sock[i].broken) => sock[i].dial \in {"dialled", "done"}

\* A connection made at a listener is connected from the start.
Connections ==
    \A j \in Ids :
        /\ sock[j].of # None =>
               /\ sock[j].of \in Ids /\ sock[sock[j].of].of = None /\ sock[sock[j].of].where # "none"
               /\ sock[j].status \in {"CONNECTED", "CLOSED"} /\ sock[j].dial = "no"
        /\ j <= nextId => sock[j].of = None

\* The listener is not closed while the worker handles its handshake.
WorkerHasListener == worker.at # "idle" => sock[worker.ls].listening

\* A listener that is being closed wakes those who wait at it, after it is moved.
CloserIsDone ==
    /\ closer.at # "idle" => closer.on \in Ids
    /\ closer.at = "move" =>
           /\ closer.on \notin owned /\ ~sock[closer.on].listening
           /\ closer.status = "LISTENING" <=> sock[closer.on].status = "LISTENING"
    /\ closer.at \in {"sync", "wake"} => sock[closer.on].where \in {"closed", "deleted"}

\* A thread in accept has a listener that is not deleted yet, nor old; one that waits
\* there, or is about to, is woken when the listener is closed.
AcceptPlaces ==
    \A a \in Acceptors :
        /\ acc[a].at # "idle" =>
               /\ acc[a].on \in Ids /\ sock[acc[a].on].of = None
               /\ sock[acc[a].on].where \in {"sockets", "closed"}
               /\ sock[acc[a].on].where = "closed" => ~sock[acc[a].on].old
        /\ acc[a].at \in {"check", "waiting"} /\ sock[acc[a].on].status # "LISTENING" =>
               closer.on = acc[a].on /\ closer.at \in {"sync", "wake"}
        /\ acc[a].at = "check" =>
               acceptLock[acc[a].on] = a /\ ~(closer.on = acc[a].on /\ closer.at = "wake")

\* The two sets of a listener have its own connections; a deleted one has none queued.
ListsHold ==
    \A i \in Ids :
        /\ queued[i] \subseteq Ids /\ accepts[i] \subseteq Ids
        /\ sock[i].where = "deleted" => queued[i] = {}
        /\ \A j \in queued[i] \cup accepts[i] : sock[j].of = i /\ (InMap(i) => InMap(j))

Taken(j) == \E a \in Acceptors : acc[a].at = "locate" /\ acc[a].took = j
InHand(j) == worker.at \in {"insert", "queue"} /\ worker.ns = j
BeingClosed(j) == closer.at = "move" /\ closer.on = j

\* A connection is with one party at a time.
HeldOnce ==
    /\ owned \subseteq Ids
    /\ \A i, j \in Ids :
           j \in queued[i] => j \notin owned /\ ~Taken(j) /\ ~InHand(j) /\ ~BeingClosed(j)
    /\ \A j \in Ids :
           /\ Taken(j) => j \notin owned /\ ~InHand(j) /\ ~BeingClosed(j)
           /\ InHand(j) => j \notin owned /\ ~BeingClosed(j)
           /\ j \in owned => sock[j].where # "none"

Takers ==
    \A a \in Acceptors : acc[a].at = "locate" =>
        /\ acc[a].took \in Ids /\ sock[acc[a].took].of = acc[a].on
        /\ \A b \in Acceptors : acc[b].at = "locate" /\ acc[b].took = acc[a].took => b = a

\* What newConnection is making, and that it has found no connection of the attempt.
NewConnection ==
    /\ worker.at \in {"insert", "queue"} =>
           /\ worker.ns \in Ids
           /\ sock[worker.ns].of = worker.ls /\ sock[worker.ns].attempt = worker.req
           /\ sock[worker.ns].mux = sock[worker.ls].mux /\ ~sock[worker.ns].broken
           /\ \A i \in Ids : worker.ns \notin queued[i] \cup accepts[i]
           /\ worker.at = "insert" => sock[worker.ns].where = "none"
           /\ worker.at = "queue" => sock[worker.ns].where = "sockets"
    /\ worker.at \in {"create", "insert", "queue"} =>
           \A j \in queued[worker.ls] \cup accepts[worker.ls] : sock[j].attempt # worker.req

OnePerAttempt ==
    \A i \in Ids : InMap(i) =>
        \A j, k \in queued[i] \cup accepts[i] : sock[j].attempt = sock[k].attempt => j = k

LiveAreListed ==
    \A j \in Ids : Live(j) /\ InMap(sock[j].of) =>
        j \in queued[sock[j].of] \cup accepts[sock[j].of] \/ InHand(j)

LiveAreHeld ==
    crashed = "no" =>
        \A j \in Ids : Live(j) => j \in owned \/ j \in queued[sock[j].of] \/ Taken(j) \/ InHand(j)

ConnInv ==
    /\ MoreShapes /\ NumbersLeft /\ Listeners /\ Connections /\ WorkerHasListener /\ CloserIsDone
    /\ AcceptPlaces /\ ListsHold /\ HeldOnce /\ Takers /\ NewConnection
    /\ OnePerAttempt /\ LiveAreListed /\ OneSocketPerAttempt /\ LiveAreHeld

LEMMA InitConnInv == Init => ConnInv
<1> SUFFICES ASSUME Init PROVE ConnInv
  OBVIOUS
<1>1. /\ closer.at = "idle" /\ worker.at = "idle" /\ \A a \in Acceptors : acc[a].at = "idle"
      /\ nextId = MaxSockets /\ requests = 0 /\ owned = {} /\ MoreShapes
      /\ \A i \in Ids : queued[i] = {} /\ accepts[i] = {}
  BY Zenon DEF Init, NotClosing, NotHandling, NotAccepting, MoreShapes
<1>2. \A i \in Ids :
          /\ sock[i].where = "none" /\ sock[i].of = None /\ ~sock[i].listening
          /\ sock[i].status = "INIT" /\ ~sock[i].conn /\ ~sock[i].broken
  BY DEF Init, NewCUDTSocket
<1>3. NumbersLeft
  <2>1. MadeByApp = {} /\ Cardinality(MadeByApp) = 0
    BY <1>2, FS_EmptySet DEF MadeByApp
  <2> QED
    BY <1>1, <2>1, SocketsAssumption DEF NumbersLeft, MaxSockets
<1>4. Listeners /\ Connections /\ WorkerHasListener /\ CloserIsDone
  BY <1>1, <1>2 DEF Listeners, Connections, WorkerHasListener, CloserIsDone
<1>5. AcceptPlaces /\ ListsHold /\ HeldOnce /\ Takers /\ NewConnection
  BY <1>1, <1>2
  DEF AcceptPlaces, ListsHold, HeldOnce, Takers, NewConnection, Taken, InHand
<1>6. OnePerAttempt /\ LiveAreListed /\ OneSocketPerAttempt /\ LiveAreHeld
  BY <1>1, <1>2 DEF OnePerAttempt, LiveAreListed, OneSocketPerAttempt, LiveAreHeld, Live, InMap
<1> QED
  BY <1>1, <1>3, <1>4, <1>5, <1>6 DEF ConnInv

LEMMA IdsAreNotNone == None \notin Ids
BY SocketsAssumption DEF Ids, None, MaxSockets

\* The application's sockets are counted, and only newSocket adds one.
LEMMA MadeByAppKept ==
    ASSUME \A i \in Ids : /\ sock'[i].where = "none" <=> sock[i].where = "none"
                          /\ sock'[i].of = sock[i].of
    PROVE  MadeByApp' = MadeByApp
BY DEF MadeByApp

\* What holds before the step.
LEMMA NumberIsThere ==
    ASSUME Shapes, NumbersLeft,
           worker.at \in {"known", "create"} \/ Cardinality(MadeByApp) < MaxApp
    PROVE  nextId \in Ids
<1>1. Cardinality(MadeByApp) \in Nat
  BY IdsAreFinite DEF MadeByApp
<1> QED
  BY <1>1, SocketsAssumption DEF Shapes, NumbersLeft, Ids, MaxSockets

-----------------------------------------------------------------------------
(* Steps on one socket that move it nowhere.                               *)

\* What such a step changes of a socket: a connection made at a listener can only break,
\* and a socket becomes a listener while it is neither connected nor connecting.
Tuned(i) ==
    /\ sock'[i].where = sock[i].where /\ sock'[i].of = sock[i].of
    /\ sock'[i].attempt = sock[i].attempt /\ sock'[i].old = sock[i].old
    /\ sock[i].of # None =>
           /\ sock'[i].status = sock[i].status /\ sock'[i].dial = sock[i].dial
           /\ sock'[i].mux = sock[i].mux /\ sock'[i].conn = sock[i].conn
           /\ sock[i].broken => sock'[i].broken
    /\ sock[i].status = "LISTENING" =>
           sock'[i].status = "LISTENING" /\ sock'[i].listening = sock[i].listening /\ sock'[i].mux = sock[i].mux
    /\ sock'[i].listening => sock'[i].status = "LISTENING"
    /\ sock'[i].status = "LISTENING" => InMap(i) /\ sock[i].of = None /\ sock'[i].dial = "no"
    /\ sock[i].of = None /\ (sock'[i].conn \/ sock'[i].broken) => sock'[i].dial \in {"dialled", "done"}
    /\ i \notin owned => (sock'[i].status = "LISTENING" <=> sock[i].status = "LISTENING")
    /\ i \notin owned => sock'[i].listening = sock[i].listening

LEMMA TuneEffect ==
    ASSUME Shapes, Listeners, Connections, NEW i \in Ids,
           Bind(i) \/ Listen(i) \/ Dial(i) \/ DialStep(i) \/ Break(i)
    PROVE  /\ UNCHANGED <<nextId, requests, owned, queued, accepts, acceptLock, acc, closer, worker,
                          closing, crashed>>
           /\ \A j \in Ids : Tuned(j)
           /\ \A j \in Ids : Break(j) \/ sock'[j].broken = sock[j].broken
<1> USE DEF Tuned, Shapes, Fields, appVars, queueVars, endVars, InMap
<1>1. \A j \in Ids : sock'[j] = sock[j] => Tuned(j)
  BY DEF Listeners
<1>2. ASSUME Bind(i)
      PROVE  Tuned(i) /\ sock'[i].broken = sock[i].broken /\ \A j \in Ids \ {i} : sock'[j] = sock[j]
  <2>1. PICK m : sock' = [sock EXCEPT ![i].mux = m, ![i].named = TRUE, ![i].status = "OPENED"]
    BY <1>2 DEF Bind
  <2>2. i \in owned /\ sock[i].status = "INIT"
    BY <1>2 DEF Bind
  <2>3. \A j \in Ids \ {i} : sock'[j] = sock[j]
    BY <2>1
  <2>4. /\ sock'[i].status = "OPENED"
        /\ sock'[i].where = sock[i].where /\ sock'[i].of = sock[i].of
        /\ sock'[i].attempt = sock[i].attempt /\ sock'[i].old = sock[i].old
        /\ sock'[i].conn = sock[i].conn /\ sock'[i].broken = sock[i].broken
        /\ sock'[i].dial = sock[i].dial /\ sock'[i].listening = sock[i].listening
    BY <2>1
  <2> QED
    BY <2>2, <2>3, <2>4 DEF Listeners, Connections
<1>3. ASSUME Listen(i)
      PROVE  Tuned(i) /\ sock'[i].broken = sock[i].broken /\ \A j \in Ids \ {i} : sock'[j] = sock[j]
  BY <1>3 DEF Listen, Listeners, Connections, Located
<1>4. ASSUME Dial(i)
      PROVE  Tuned(i) /\ sock'[i].broken = sock[i].broken /\ \A j \in Ids \ {i} : sock'[j] = sock[j]
  BY <1>4 DEF Dial, Listeners, Connections
<1>5. ASSUME DialResult(i)
      PROVE  Tuned(i) /\ sock'[i].broken = sock[i].broken /\ \A j \in Ids \ {i} : sock'[j] = sock[j]
  BY <1>5 DEF DialResult, Listeners, Connections
<1>6. ASSUME DialName(i)
      PROVE  Tuned(i) /\ sock'[i].broken = sock[i].broken /\ \A j \in Ids \ {i} : sock'[j] = sock[j]
  BY <1>6 DEF DialName, Listeners, Connections
<1>7. ASSUME Break(i)
      PROVE  Tuned(i) /\ \A j \in Ids \ {i} : sock'[j] = sock[j]
  <2>1. PICK n \in {0, 1} : sock' = [sock EXCEPT ![i].broken = TRUE, ![i].unread = n]
    BY <1>7 DEF Break
  <2>2. sock[i].conn
    BY <1>7 DEF Break
  <2>3. \A j \in Ids \ {i} : sock'[j] = sock[j]
    BY <2>1
  <2>4. /\ sock'[i].status = sock[i].status /\ sock'[i].mux = sock[i].mux
        /\ sock'[i].where = sock[i].where /\ sock'[i].of = sock[i].of
        /\ sock'[i].attempt = sock[i].attempt /\ sock'[i].old = sock[i].old
        /\ sock'[i].conn = sock[i].conn /\ sock'[i].broken
        /\ sock'[i].dial = sock[i].dial /\ sock'[i].listening = sock[i].listening
    BY <2>1
  <2> QED
    BY <2>2, <2>3, <2>4 DEF Listeners, Connections
<1>8. UNCHANGED <<nextId, requests, owned, queued, accepts, acceptLock, acc, closer, worker, closing, crashed>>
  BY DEF Bind, Listen, Dial, DialStep, DialResult, DialName, Break
<1>9. CASE Break(i)
  BY <1>1, <1>7, <1>8, <1>9
<1> QED
  BY <1>1, <1>2, <1>3, <1>4, <1>5, <1>6, <1>8, <1>9 DEF DialStep

\* A socket in m_Sockets that works still is one, or was one before.
LEMMA LiveWasLive ==
    ASSUME \A j \in Ids : Tuned(j), NEW j \in Ids
    PROVE  /\ Live(j)' => Live(j)
           /\ InMap(j)' <=> InMap(j)
BY DEF Tuned, Live, InMap

LEMMA TuneConnInv ==
    ASSUME Shapes, Shapes', ConnInv, NEW i \in Ids,
           Bind(i) \/ Listen(i) \/ Dial(i) \/ DialStep(i) \/ Break(i)
    PROVE  ConnInv'
<1>1. /\ UNCHANGED <<nextId, requests, owned, queued, accepts, acceptLock, acc, closer, worker,
                     closing, crashed>>
      /\ \A j \in Ids : Tuned(j)
      /\ \A j \in Ids : Break(j) \/ sock'[j].broken = sock[j].broken
  BY TuneEffect DEF ConnInv
<1>2. MoreShapes' /\ NumbersLeft'
  <2>1. MadeByApp' = MadeByApp
    BY <1>1, MadeByAppKept DEF Tuned
  <2> QED
    BY <1>1, <2>1 DEF ConnInv, MoreShapes, NumbersLeft
<1>3. Listeners'
  BY <1>1 DEF Tuned, ConnInv, Listeners, InMap
<1>4. Connections'
  BY <1>1 DEF Tuned, ConnInv, Connections
<1>5. WorkerHasListener' /\ CloserIsDone'
  BY <1>1 DEF Tuned, ConnInv, WorkerHasListener, CloserIsDone, Listeners, Shapes
<1>6. AcceptPlaces'
  BY <1>1 DEF Tuned, ConnInv, AcceptPlaces
<1>7. ListsHold' /\ HeldOnce' /\ Takers'
  BY <1>1 DEF Tuned, ConnInv, ListsHold, HeldOnce, Takers, Taken, InHand, BeingClosed, InMap
<1>8. NewConnection'
  <2>1. ASSUME worker.at \in {"insert", "queue"} PROVE ~sock'[worker.ns].broken
    <3>1. /\ worker.ns \in Ids /\ ~sock[worker.ns].broken
          /\ sock[worker.ns].mux = sock[worker.ls].mux
      BY <2>1 DEF ConnInv, NewConnection
    <3>2. ~Break(worker.ns)
      BY <2>1, <3>1 DEF Break
    <3> QED
      BY <1>1, <3>1, <3>2
  <2>2. ASSUME worker.at \in {"insert", "queue"}
        PROVE  /\ worker.ns \in Ids
               /\ sock'[worker.ns].of = worker.ls /\ sock'[worker.ns].attempt = worker.req
               /\ sock'[worker.ns].mux = sock'[worker.ls].mux
               /\ sock'[worker.ns].where = sock[worker.ns].where
    <3>1. /\ worker.ns \in Ids /\ worker.ls \in Ids
          /\ sock[worker.ns].of = worker.ls /\ sock[worker.ns].attempt = worker.req
          /\ sock[worker.ns].mux = sock[worker.ls].mux
          /\ sock[worker.ls].status = "LISTENING" /\ worker.ls # None
      BY <2>2, IdsAreNotNone DEF ConnInv, NewConnection, WorkerHasListener, Listeners, Shapes
    <3> QED
      BY <1>1, <3>1 DEF Tuned
  <2>3. ASSUME worker.at \in {"create", "insert", "queue"}
        PROVE  \A j \in queued[worker.ls] \cup accepts[worker.ls] : sock'[j].attempt # worker.req
    <3>1. worker.ls \in Ids
      BY <2>3 DEF Shapes
    <3> QED
      BY <1>1, <2>3, <3>1 DEF Tuned, ConnInv, NewConnection, ListsHold
  <2> QED
    BY <1>1, <2>1, <2>2, <2>3 DEF ConnInv, NewConnection
<1>9. OnePerAttempt' /\ LiveAreListed' /\ OneSocketPerAttempt' /\ LiveAreHeld'
  <2>1. \A j \in Ids : /\ Live(j)' => Live(j) /\ sock[j].of \in Ids
                       /\ InMap(j)' <=> InMap(j)
                       /\ sock'[j].of = sock[j].of /\ sock'[j].attempt = sock[j].attempt
    BY <1>1, LiveWasLive DEF Tuned, Live, ConnInv, Connections
  <2>2. OnePerAttempt' /\ OneSocketPerAttempt'
    BY <1>1, <2>1 DEF ConnInv, OnePerAttempt, OneSocketPerAttempt, ListsHold
  <2>3. LiveAreListed' /\ LiveAreHeld'
    BY <1>1, <2>1 DEF ConnInv, LiveAreListed, LiveAreHeld, Taken, InHand
  <2> QED
    BY <2>2, <2>3
<1> QED
  BY <1>2, <1>3, <1>4, <1>5, <1>6, <1>7, <1>8, <1>9 DEF ConnInv

-----------------------------------------------------------------------------
(* accept.                                                                 *)

\* Sockets are numbered from one, so a set of them that is not empty has a first.
LEMMA FirstOf ==
    ASSUME NEW S \in SUBSET Ids, S # {}
    PROVE  Min(S) \in S
<1>0. S \in SUBSET Nat
  BY SocketsAssumption DEF Ids, MaxSockets
<1>1. PICK m \in S : \A n \in S : ~ (<<n, m>> \in OpToRel(<, Nat))
  BY <1>0, NatLessThanWellFounded, WFMin
<1>2. \A n \in S : ~ (n < m)
  BY <1>0, <1>1 DEF OpToRel
<1>3. m \in S /\ \A n \in S : m <= n
  BY <1>0, <1>2
<1> QED
  BY <1>3 DEF Min

\* Steps that change no socket.
LEMMA SockKept ==
    ASSUME Shapes, ConnInv, UNCHANGED <<sock, nextId, requests, closer, worker>>,
           closer.at = "move" => closer.on \notin owned'
    PROVE  /\ NumbersLeft' /\ Listeners' /\ Connections' /\ WorkerHasListener' /\ CloserIsDone'
           /\ OneSocketPerAttempt'
           /\ \A j \in Ids : (Live(j)' <=> Live(j)) /\ (InMap(j)' <=> InMap(j))
<1>1. MadeByApp' = MadeByApp
  BY DEF MadeByApp
<1>2. NumbersLeft' /\ Listeners' /\ Connections'
  BY <1>1 DEF ConnInv, NumbersLeft, Listeners, Connections, InMap
<1>3. WorkerHasListener' /\ CloserIsDone'
  BY DEF ConnInv, WorkerHasListener, CloserIsDone
<1>4. OneSocketPerAttempt' /\ \A j \in Ids : (Live(j)' <=> Live(j)) /\ (InMap(j)' <=> InMap(j))
  BY DEF ConnInv, OneSocketPerAttempt, Live, InMap
<1> QED
  BY <1>2, <1>3, <1>4

\* Only the thread's own place changes.
LEMMA PlaceConnInv ==
    ASSUME Shapes, ConnInv, NEW a \in Acceptors, UNCHANGED <<sock, appVars, queued, accepts, closer, worker, crashed>>,
           DOMAIN acc' = Acceptors, DOMAIN acc'[a] = {"at", "on", "took"}, acc'[a].at # "locate", acc[a].at # "locate",
           \A b \in Acceptors \ {a} : acc'[b] = acc[b],
           DOMAIN acceptLock' = Ids, AcceptPlaces'
    PROVE  ConnInv'
<1> USE DEF appVars
<1>1. closer.at = "move" => closer.on \notin owned'
  BY DEF ConnInv, CloserIsDone
<1>2. MoreShapes'
  BY DEF ConnInv, MoreShapes
<1>3. \A j : (Taken(j)' <=> Taken(j)) /\ (InHand(j)' <=> InHand(j)) /\ (BeingClosed(j)' <=> BeingClosed(j))
  BY DEF Taken, InHand, BeingClosed
<1>4. \A j \in Ids : (Live(j)' <=> Live(j)) /\ (InMap(j)' <=> InMap(j))
  BY <1>1, SockKept
<1>5. ListsHold' /\ HeldOnce' /\ Takers' /\ NewConnection'
  <2>1. ListsHold' /\ NewConnection'
    BY <1>4 DEF ConnInv, ListsHold, NewConnection
  <2>2. HeldOnce'
    BY <1>3 DEF ConnInv, HeldOnce
  <2>3. Takers'
    BY DEF ConnInv, Takers
  <2> QED
    BY <2>1, <2>2, <2>3
<1>6. OnePerAttempt' /\ LiveAreListed' /\ LiveAreHeld'
  <2>1. \A j \in Ids : Live(j) => sock[j].of \in Ids
    BY DEF Live, ConnInv, Connections
  <2> QED
    BY <1>3, <1>4, <2>1 DEF ConnInv, OnePerAttempt, LiveAreListed, LiveAreHeld
<1> QED
  BY <1>1, <1>2, <1>5, <1>6, SockKept DEF ConnInv

LEMMA AcceptConnInv ==
    ASSUME Shapes, ConnInv, NEW a \in Acceptors,
           AcceptWait(a) \/ AcceptWoken(a) \/ \E i \in Ids : Accept(a, i)
    PROVE  ConnInv'
<1> USE DEF queueVars, endVars
<1>1. CASE AcceptWait(a)
  <2>1. /\ UNCHANGED <<sock, appVars, queued, accepts, closer, worker, crashed>>
        /\ DOMAIN acc' = Acceptors /\ DOMAIN acc'[a] = {"at", "on", "took"}
        /\ \A b \in Acceptors \ {a} : acc'[b] = acc[b]
        /\ acc[a].at = "check" /\ acc'[a].at = "waiting" /\ acc'[a].on = acc[a].on
        /\ DOMAIN acceptLock' = Ids
    BY <1>1 DEF AcceptWait, ConnInv, MoreShapes
  <2>2. \A i \in Ids \ {acc[a].on} : acceptLock'[i] = acceptLock[i]
    BY <1>1 DEF AcceptWait, ConnInv, MoreShapes
  <2>3. \A b \in Acceptors \ {a} : acc[b].at = "check" => acc[b].on # acc[a].on /\ acc[b].on \in Ids
    BY <2>1 DEF ConnInv, AcceptPlaces
  <2>4. AcceptPlaces'
    BY <2>1, <2>2, <2>3 DEF ConnInv, AcceptPlaces
  <2> QED
    BY <2>1, <2>4, PlaceConnInv
<1>2. CASE AcceptWoken(a)
  <2>1. /\ UNCHANGED <<sock, appVars, queued, accepts, acceptLock, closer, worker, crashed>>
        /\ DOMAIN acc' = Acceptors /\ DOMAIN acc'[a] = {"at", "on", "took"}
        /\ \A b \in Acceptors \ {a} : acc'[b] = acc[b]
        /\ acc[a].at = "woken" /\ (acc'[a].at = "idle" \/ (acc'[a].at = "lock" /\ acc'[a].on = acc[a].on))
    <3> DEFINE woken == [acc[a] EXCEPT !.at = "lock"]
    <3>1. PICK r \in {woken, NotAccepting} : acc' = [acc EXCEPT ![a] = r]
      BY <1>2 DEF AcceptWoken
    <3>2. DOMAIN woken = {"at", "on", "took"} /\ woken.at = "lock" /\ woken.on = acc[a].on
      BY DEF ConnInv, MoreShapes
    <3>3. DOMAIN NotAccepting = {"at", "on", "took"} /\ NotAccepting.at = "idle"
      BY DEF NotAccepting
    <3>4. DOMAIN acc = Acceptors /\ acc[a].at = "woken"
      BY <1>2 DEF AcceptWoken, ConnInv, MoreShapes
    <3>5. UNCHANGED <<sock, appVars, queued, accepts, acceptLock, closer, worker, crashed>>
      BY <1>2 DEF AcceptWoken
    <3> HIDE DEF woken
    <3>6. DOMAIN acc' = Acceptors /\ acc'[a] = r /\ \A b \in Acceptors \ {a} : acc'[b] = acc[b]
      BY <3>1, <3>4
    <3> QED
      BY <3>1, <3>2, <3>3, <3>4, <3>5, <3>6
  <2>2. AcceptPlaces'
    BY <2>1 DEF ConnInv, AcceptPlaces
  <2> QED
    BY <2>1, <2>2, PlaceConnInv DEF ConnInv, MoreShapes
<1>3. ASSUME NEW i \in Ids, Accept(a, i) PROVE ConnInv'
  <2>1. /\ UNCHANGED <<sock, appVars, queued, accepts, acceptLock, closer, worker, crashed>>
        /\ DOMAIN acc' = Acceptors /\ DOMAIN acc'[a] = {"at", "on", "took"}
        /\ \A b \in Acceptors \ {a} : acc'[b] = acc[b]
        /\ acc[a].at = "idle" /\ acc'[a].at = "lock" /\ acc'[a].on = i
    BY <1>3 DEF Accept, ConnInv, MoreShapes
  <2>2. sock[i].where = "sockets" /\ sock[i].of = None
    BY <1>3 DEF Accept, Located, ConnInv, Listeners
  <2>3. AcceptPlaces'
    BY <2>1, <2>2 DEF ConnInv, AcceptPlaces
  <2> QED
    BY <2>1, <2>3, PlaceConnInv DEF ConnInv, MoreShapes
<1> QED
  BY <1>1, <1>2, <1>3

\* A connection leaves the queue for the accepted sockets, and is the thread's.
LEMMA TakeConnInv ==
    ASSUME Shapes, ConnInv, NEW a \in Acceptors, AcceptTake(a)
    PROVE  ConnInv'
<1> DEFINE i == acc[a].on
           q == Min(queued[i])
<1> USE DEF appVars, endVars
<1>1. /\ i \in Ids /\ acc[a].at = "lock" /\ acceptLock[i] = Free
      /\ UNCHANGED <<sock, appVars, closer, worker, crashed>>
  BY DEF AcceptTake, ConnInv, AcceptPlaces
<1>2. CASE /\ queued[i] = {} /\ sock[i].status = "LISTENING"
           /\ acceptLock' = [acceptLock EXCEPT ![i] = a] /\ acc' = [acc EXCEPT ![a].at = "check"]
           /\ UNCHANGED <<queued, accepts>>
  <2>1. /\ DOMAIN acc' = Acceptors /\ DOMAIN acc'[a] = {"at", "on", "took"}
        /\ \A b \in Acceptors \ {a} : acc'[b] = acc[b]
        /\ acc'[a].at = "check" /\ acc'[a].on = i
        /\ DOMAIN acceptLock' = Ids /\ acceptLock'[i] = a
        /\ \A j \in Ids \ {i} : acceptLock'[j] = acceptLock[j]
    BY <1>1, <1>2 DEF ConnInv, MoreShapes
  <2>2. \A b \in Acceptors \ {a} : acc[b].at = "check" => acc[b].on # i
    BY <1>1, SocketsAssumption DEF ConnInv, AcceptPlaces
  <2>3. ~(closer.on = i /\ closer.at = "wake")
    BY <1>2 DEF ConnInv, CloserIsDone, Listeners, InMap
  <2>4. AcceptPlaces'
    BY <1>1, <1>2, <2>1, <2>2, <2>3 DEF ConnInv, AcceptPlaces
  <2> QED
    BY <1>1, <1>2, <2>1, <2>4, PlaceConnInv
<1>3. CASE /\ acc' = [acc EXCEPT ![a] = NotAccepting] /\ UNCHANGED <<queued, accepts, acceptLock>>
  <2>1. /\ DOMAIN acc' = Acceptors /\ DOMAIN acc'[a] = {"at", "on", "took"}
        /\ \A b \in Acceptors \ {a} : acc'[b] = acc[b]
        /\ acc'[a].at = "idle"
    BY <1>1, <1>3 DEF ConnInv, MoreShapes, NotAccepting
  <2>2. AcceptPlaces'
    BY <1>1, <1>3, <2>1 DEF ConnInv, AcceptPlaces
  <2> QED
    BY <1>1, <1>3, <2>1, <2>2, PlaceConnInv DEF ConnInv, MoreShapes
<1>4. CASE /\ queued[i] # {} /\ queued' = [queued EXCEPT ![i] = @ \ {q}]
           /\ accepts' = [accepts EXCEPT ![i] = @ \cup {q}]
           /\ acc' = [acc EXCEPT ![a].at = "locate", ![a].took = q] /\ UNCHANGED acceptLock
  <2>1. q \in queued[i] /\ q \in Ids /\ sock[q].of = i
    BY <1>1, <1>4, FirstOf DEF ConnInv, ListsHold
  <2> HIDE DEF q
  <2>2. /\ DOMAIN acc' = Acceptors /\ DOMAIN acc'[a] = {"at", "on", "took"}
        /\ \A b \in Acceptors \ {a} : acc'[b] = acc[b]
        /\ acc'[a].at = "locate" /\ acc'[a].on = i /\ acc'[a].took = q
        /\ DOMAIN queued' = Ids /\ DOMAIN accepts' = Ids
        /\ queued'[i] = queued[i] \ {q} /\ accepts'[i] = accepts[i] \cup {q}
        /\ \A j \in Ids \ {i} : queued'[j] = queued[j] /\ accepts'[j] = accepts[j]
    BY <1>1, <1>4 DEF ConnInv, MoreShapes
  <2> HIDE DEF i
  <2>3. MoreShapes'
    BY <1>4, <2>2 DEF ConnInv, MoreShapes
  <2>4. /\ \A j \in Ids : queued'[j] \cup accepts'[j] = queued[j] \cup accepts[j]
        /\ \A j \in Ids : queued'[j] = queued[j] \ {q}
    BY <2>1, <2>2 DEF ConnInv, ListsHold
  <2>5. /\ \A j : Taken(j)' <=> Taken(j) \/ j = q
        /\ \A j : (InHand(j)' <=> InHand(j)) /\ (BeingClosed(j)' <=> BeingClosed(j))
    BY <1>1, <2>2 DEF Taken, InHand, BeingClosed
  <2>6. closer.at = "move" => closer.on \notin owned'
    BY <1>1 DEF ConnInv, CloserIsDone
  <2>7. \A j \in Ids : (Live(j)' <=> Live(j)) /\ (InMap(j)' <=> InMap(j))
    BY <1>1, <2>6, SockKept
  <2>8. AcceptPlaces'
    BY <1>1, <1>4, <2>2 DEF ConnInv, AcceptPlaces
  <2>9. ListsHold'
    <3>1. \A j \in Ids : queued'[j] \subseteq Ids /\ accepts'[j] \subseteq Ids
      BY <2>1, <2>2 DEF ConnInv, ListsHold
    <3> QED
      BY <1>1, <2>4, <2>7, <3>1 DEF ConnInv, ListsHold
  <2>10. HeldOnce'
    <3>1. q \notin owned /\ ~Taken(q) /\ ~InHand(q) /\ ~BeingClosed(q)
      BY <1>1, <2>1 DEF ConnInv, HeldOnce
    <3> QED
      BY <1>1, <2>4, <2>5, <3>1 DEF ConnInv, HeldOnce
  <2>11. Takers'
    <3>1. ~Taken(q)
      BY <1>1, <2>1 DEF ConnInv, HeldOnce
    <3> QED
      BY <1>1, <2>1, <2>2, <3>1 DEF ConnInv, Takers, Taken
  <2>12. NewConnection'
    <3>1. worker.at \in {"create", "insert", "queue"} => worker.ls \in Ids
      BY DEF Shapes
    <3> QED
      BY <1>1, <2>4, <3>1 DEF ConnInv, NewConnection
  <2>13. OnePerAttempt'
    BY <1>1, <2>4, <2>7 DEF ConnInv, OnePerAttempt
  <2>14. LiveAreListed' /\ LiveAreHeld'
    <3>1. \A j \in Ids : Live(j) => sock[j].of \in Ids
      BY DEF Live, ConnInv, Connections
    <3>2. LiveAreListed'
      BY <1>1, <2>4, <2>5, <2>7, <3>1 DEF ConnInv, LiveAreListed
    <3>3. LiveAreHeld'
      BY <1>1, <2>4, <2>5, <2>7, <3>1 DEF ConnInv, LiveAreHeld
    <3> QED
      BY <3>2, <3>3
  <2> QED
    BY <1>1, <2>3, <2>6, <2>8, <2>9, <2>10, <2>11, <2>12, <2>13, <2>14, SockKept DEF ConnInv
<1> QED
  BY <1>2, <1>3, <1>4 DEF AcceptTake

\* The connection is the application's now.
LEMMA LocateConnInv ==
    ASSUME Shapes, ConnInv, NEW a \in Acceptors, AcceptLocate(a)
    PROVE  ConnInv'
<1> DEFINE q == acc[a].took
<1> USE DEF queueVars
<1>1. /\ UNCHANGED <<sock, nextId, requests, queued, accepts, acceptLock, closer, worker>>
      /\ acc[a].at = "locate" /\ acc' = [acc EXCEPT ![a] = NotAccepting]
      /\ \/ owned' = owned \cup {q} /\ Located(q)
         \/ owned' = owned /\ crashed' = "accept"
      /\ crashed' = "no" => crashed = "no"
  BY DEF AcceptLocate
<1>2. q \in Ids /\ Taken(q) /\ sock[q].of = acc[a].on
  BY <1>1 DEF ConnInv, Takers, Taken
<1> HIDE DEF q
<1>3. /\ DOMAIN acc' = Acceptors /\ DOMAIN acc'[a] = {"at", "on", "took"}
      /\ \A b \in Acceptors \ {a} : acc'[b] = acc[b]
      /\ acc'[a].at = "idle"
  BY <1>1 DEF NotAccepting, ConnInv, MoreShapes
<1>4. \A j \in Ids : Taken(j)' <=> Taken(j) /\ j # q
  BY <1>1, <1>3 DEF Taken, ConnInv, Takers, q
<1>5. \A j : (InHand(j)' <=> InHand(j)) /\ (BeingClosed(j)' <=> BeingClosed(j))
  BY <1>1 DEF InHand, BeingClosed
<1>6. closer.at = "move" => closer.on \notin owned'
  BY <1>1, <1>2 DEF ConnInv, CloserIsDone, HeldOnce, BeingClosed
<1>7. \A j \in Ids : (Live(j)' <=> Live(j)) /\ (InMap(j)' <=> InMap(j))
  BY <1>1, <1>6, SockKept
<1>8. MoreShapes' /\ AcceptPlaces' /\ Takers'
  BY <1>1, <1>3 DEF ConnInv, MoreShapes, AcceptPlaces, Takers
<1>9. ListsHold' /\ NewConnection' /\ OnePerAttempt' /\ LiveAreListed'
  <2>1. \A j \in Ids : Live(j) => sock[j].of \in Ids
    BY DEF Live, ConnInv, Connections
  <2>2. ListsHold' /\ NewConnection'
    BY <1>1, <1>7 DEF ConnInv, ListsHold, NewConnection
  <2>3. OnePerAttempt' /\ LiveAreListed'
    BY <1>1, <1>5, <1>7, <2>1 DEF ConnInv, OnePerAttempt, LiveAreListed
  <2> QED
    BY <2>2, <2>3
<1>10. HeldOnce'
  <2>1. Located(q) => sock[q].where # "none"
    BY DEF Located
  <2> QED
    BY <1>1, <1>2, <1>4, <1>5, <2>1 DEF ConnInv, HeldOnce
<1>11. LiveAreHeld'
  BY <1>1, <1>4, <1>5, <1>7 DEF ConnInv, LiveAreHeld
<1> QED
  BY <1>1, <1>6, <1>8, <1>9, <1>10, <1>11, SockKept DEF ConnInv

-----------------------------------------------------------------------------
(* The receive worker.                                                     *)

\* Steps that change the worker's place, and maybe what numbers are left.
LEMMA HandlingConnInv ==
    ASSUME Shapes, ConnInv,
           UNCHANGED <<sock, owned, queued, accepts, acceptLock, acc, closer, crashed>>,
           nextId' \in {nextId, nextId - 1}, NumbersLeft', WorkerHasListener', NewConnection',
           \A j : InHand(j)' <=> InHand(j)
    PROVE  ConnInv'
<1>1. nextId' <= nextId /\ nextId' \in Int
  BY DEF Shapes
<1>2. MoreShapes' /\ Listeners' /\ CloserIsDone' /\ AcceptPlaces' /\ ListsHold' /\ Takers'
  BY DEF ConnInv, MoreShapes, Listeners, CloserIsDone, AcceptPlaces, ListsHold, Takers, InMap
<1>3. Connections'
  BY <1>1, IdsAreInts DEF ConnInv, Connections, Shapes
<1>4. HeldOnce'
  BY DEF ConnInv, HeldOnce, Taken, BeingClosed
<1>5. \A j \in Ids : (Live(j)' <=> Live(j)) /\ (InMap(j)' <=> InMap(j))
  BY DEF Live, InMap
<1>6. \A j \in Ids : Live(j) => sock[j].of \in Ids
  BY DEF Live, ConnInv, Connections
<1>7. OnePerAttempt' /\ LiveAreListed' /\ OneSocketPerAttempt' /\ LiveAreHeld'
  BY <1>5, <1>6 DEF ConnInv, OnePerAttempt, LiveAreListed, OneSocketPerAttempt, LiveAreHeld, Taken
<1> QED
  BY <1>2, <1>3, <1>4, <1>7 DEF ConnInv

LEMMA MadeByAppType == Cardinality(MadeByApp) \in Nat
BY IdsAreFinite DEF MadeByApp

\* A number is taken at the end of a handshake only.
LEMMA NumbersKept ==
    ASSUME Shapes, NumbersLeft, requests' = requests,
           \A i \in Ids : sock'[i].where = "none" \/ sock'[i].of # None <=>
                             sock[i].where = "none" \/ sock[i].of # None,
           \/ nextId' = nextId
           \/ nextId' = nextId - 1 /\ worker.at = "create" /\ worker'.at \notin {"known", "create"},
           worker'.at \in {"known", "create"} => worker.at \in {"known", "create"}
    PROVE  NumbersLeft'
<1> DEFINE pending == IF worker.at \in {"known", "create"} THEN 1 ELSE 0
           left == (MaxApp - Cardinality(MadeByApp)) + (MaxRequests - requests)
<1>1. MadeByApp' = MadeByApp
  BY DEF MadeByApp
<1>2. pending \in {0, 1} /\ pending' \in {0, 1} /\ nextId' - pending' >= nextId - pending
  BY DEF Shapes
<1>3. left' = left /\ left \in Int
  BY <1>1, MadeByAppType, SocketsAssumption DEF NumbersLeft
<1>4. nextId >= left + pending /\ nextId \in Int /\ nextId' \in Int /\ nextId' <= nextId
  BY DEF NumbersLeft, Shapes
<1>5. nextId' >= left' + pending'
  <2>1. \A p, q \in {0, 1}, l, m, n \in Int : n >= l + p /\ m - q >= n - p => m >= l + q
    OBVIOUS
  <2>2. nextId' >= left + pending'
    BY <1>2, <1>3, <1>4, <2>1
  <2> QED
    BY <1>3, <2>2
<1> QED
  BY <1>1, <1>4, <1>5, SocketsAssumption DEF NumbersLeft, MaxSockets

LEMMA RequestConnInv ==
    ASSUME Shapes, ConnInv, NEW i \in Ids, NEW p \in Attempts, Request(i, p)
    PROVE  ConnInv'
<1>1. /\ UNCHANGED <<sock, owned, nextId, queued, accepts, acceptLock, acc, closer, crashed>>
      /\ worker.at = "idle" /\ worker'.at = "known" /\ worker'.ls = i /\ sock[i].listening
      /\ requests < MaxRequests /\ requests' = requests + 1
  BY DEF Request, queueVars, endVars
<1>2. MadeByApp' = MadeByApp
  BY <1>1 DEF MadeByApp
<1>3. NumbersLeft'
  BY <1>1, <1>2, MadeByAppType, SocketsAssumption DEF ConnInv, NumbersLeft, Shapes
<1>4. WorkerHasListener' /\ NewConnection' /\ \A j : InHand(j)' <=> InHand(j)
  BY <1>1 DEF WorkerHasListener, NewConnection, InHand
<1> QED
  BY <1>1, <1>3, <1>4, HandlingConnInv

\* A broken connection of the attempt is taken off the sets.
LEMMA KnownConnInv ==
    ASSUME Shapes, ConnInv, KnownConnection
    PROVE  ConnInv'
<1> USE DEF appVars, endVars
<1>1. /\ worker.at = "known" /\ UNCHANGED <<nextId, requests, owned, acceptLock, acc, closer, crashed>>
      /\ worker.ls \in Ids /\ sock[worker.ls].listening /\ InMap(worker.ls)
  BY DEF KnownConnection, ConnInv, WorkerHasListener, Listeners, Shapes
<1> DEFINE i == worker.ls
           known == {q \in LookedUp(i) : InMap(q) /\ sock[q].attempt = worker.req}
<1>2. \A j : ~InHand(j)
  BY <1>1 DEF InHand
<1>4. CASE worker' = NotHandling /\ UNCHANGED <<sock, queued, accepts>>
  <2>1. worker'.at = "idle"
    BY <1>4 DEF NotHandling
  <2>2. NumbersLeft'
    BY <1>1, <1>4, <2>1, NumbersKept DEF ConnInv
  <2>3. WorkerHasListener' /\ NewConnection' /\ \A j : ~InHand(j)'
    BY <1>4 DEF WorkerHasListener, NewConnection, InHand, NotHandling
  <2> QED
    BY <1>1, <1>2, <1>4, <2>2, <2>3, HandlingConnInv
<1>5. CASE known = {} /\ worker' = [worker EXCEPT !.at = "create"] /\ UNCHANGED <<sock, queued, accepts>>
  <2>2. worker'.at = "create" /\ worker'.ls = worker.ls /\ worker'.req = worker.req
    BY <1>5 DEF Shapes
  <2>3. NumbersLeft'
    BY <1>1, <1>5, <2>2, NumbersKept DEF ConnInv
  <2>4. \A j \in queued[i] \cup accepts[i] : sock[j].attempt # worker.req
    BY <1>1, <1>5 DEF ConnInv, ListsHold, LookedUp
  <2>5. WorkerHasListener' /\ NewConnection' /\ \A j : ~InHand(j)'
    BY <1>1, <1>5, <2>2, <2>4 DEF WorkerHasListener, NewConnection, InHand
  <2> QED
    BY <1>1, <1>2, <1>5, <2>3, <2>5, HandlingConnInv
<1>6. ASSUME NEW q \in known, sock[q].broken, sock' = [sock EXCEPT ![q].status = "CLOSED"],
             queued' = [queued EXCEPT ![i] = @ \ {q}], accepts' = [accepts EXCEPT ![i] = @ \ {q}],
             worker' = [worker EXCEPT !.at = "create"]
      PROVE  ConnInv'
  <2>1. /\ q \in queued[i] \cup accepts[i] /\ q \in Ids /\ sock[q].of = i
        /\ InMap(q) /\ sock[q].attempt = worker.req /\ i # None
    BY <1>1, IdsAreNotNone DEF ConnInv, ListsHold, LookedUp
  <2>2. worker'.at = "create" /\ worker'.ls = worker.ls /\ worker'.req = worker.req
    BY <1>6 DEF Shapes
  <2>3. /\ \A j \in Ids \ {q} : sock'[j] = sock[j]
        /\ \A j \in Ids :
               /\ sock'[j].where = sock[j].where /\ sock'[j].of = sock[j].of /\ sock'[j].old = sock[j].old
               /\ sock'[j].attempt = sock[j].attempt /\ sock'[j].mux = sock[j].mux
               /\ sock'[j].conn = sock[j].conn /\ sock'[j].broken = sock[j].broken
               /\ sock'[j].dial = sock[j].dial /\ sock'[j].listening = sock[j].listening
        /\ sock'[q].status = "CLOSED"
    BY <1>6, <2>1 DEF Shapes, Fields
  <2>4. /\ DOMAIN queued' = Ids /\ DOMAIN accepts' = Ids
        /\ queued'[i] = queued[i] \ {q} /\ accepts'[i] = accepts[i] \ {q}
        /\ \A j \in Ids \ {i} : queued'[j] = queued[j] /\ accepts'[j] = accepts[j]
    BY <1>1, <1>6 DEF ConnInv, MoreShapes
  <2> HIDE DEF i, known
  <2>5. MoreShapes'
    BY <1>1, <2>4 DEF ConnInv, MoreShapes
  <2>6. NumbersLeft'
    BY <1>1, <2>2, <2>3, NumbersKept DEF ConnInv
  <2>7. sock[q].status # "LISTENING" /\ ~sock[q].listening
    BY <2>1 DEF ConnInv, Connections, Listeners
  <2>8. Listeners' /\ Connections'
    BY <1>1, <2>1, <2>3, <2>7 DEF ConnInv, Listeners, Connections, InMap
  <2>9. WorkerHasListener' /\ CloserIsDone'
    BY <1>1, <2>2, <2>3, <2>7 DEF ConnInv, WorkerHasListener, CloserIsDone
  <2>10. AcceptPlaces'
    BY <1>1, <2>1, <2>3 DEF ConnInv, AcceptPlaces
  <2>11. \A j \in Ids : queued'[j] \subseteq queued[j] /\ accepts'[j] \subseteq accepts[j]
    BY <2>4
  <2>12. \A j : (Taken(j)' <=> Taken(j)) /\ (InHand(j)' <=> InHand(j)) /\ (BeingClosed(j)' <=> BeingClosed(j))
    BY <1>1, <1>2, <2>2 DEF Taken, InHand, BeingClosed
  <2>13. \A j \in Ids : (Live(j)' <=> Live(j)) /\ (InMap(j)' <=> InMap(j)) /\ (Live(j) => j # q)
    BY <1>6, <2>3 DEF Live, InMap
  <2>14. ListsHold' /\ HeldOnce' /\ Takers'
    <3>1. ListsHold'
      BY <2>3, <2>11, <2>13 DEF ConnInv, ListsHold
    <3>2. HeldOnce'
      BY <1>1, <2>3, <2>11, <2>12 DEF ConnInv, HeldOnce
    <3>3. Takers'
      BY <1>1, <2>3 DEF ConnInv, Takers
    <3> QED
      BY <3>1, <3>2, <3>3
  <2>15. NewConnection'
    <3>1. \A j \in queued[i] \cup accepts[i] : sock[j].attempt = worker.req => j = q
      BY <1>1, <2>1 DEF ConnInv, OnePerAttempt, i
    <3>2. \A j \in queued'[i] \cup accepts'[i] : j \in Ids /\ sock[j].attempt # worker.req
      BY <1>1, <2>4, <3>1 DEF ConnInv, ListsHold, i
    <3> QED
      BY <2>2, <2>3, <3>2 DEF NewConnection, i
  <2>16. OnePerAttempt'
    BY <2>3, <2>11, <2>13 DEF ConnInv, OnePerAttempt, ListsHold
  <2>17. \A j \in Ids : Live(j) => /\ sock[j].of \in Ids
                                   /\ j \in queued'[sock[j].of] <=> j \in queued[sock[j].of]
                                   /\ j \in accepts'[sock[j].of] <=> j \in accepts[sock[j].of]
    BY <1>1, <2>4, <2>13 DEF Live, ConnInv, Connections, i
  <2>18. LiveAreListed' /\ OneSocketPerAttempt' /\ LiveAreHeld'
    BY <1>1, <2>3, <2>12, <2>13, <2>17 DEF ConnInv, LiveAreListed, OneSocketPerAttempt, LiveAreHeld
  <2> QED
    BY <2>5, <2>6, <2>8, <2>9, <2>10, <2>14, <2>15, <2>16, <2>18 DEF ConnInv
<1> QED
  BY <1>4, <1>5, <1>6 DEF KnownConnection

\* The connection newConnection makes.
LEMMA MadeConnection ==
    ASSUME Shapes, ConnInv, CreateConnection
    PROVE  /\ worker.at = "create" /\ worker.ls \in Ids /\ nextId' \in {nextId, nextId - 1}
           /\ UNCHANGED <<requests, owned, queued, accepts, acceptLock, acc, closer, crashed>>
           /\ \/ UNCHANGED sock /\ worker' = NotHandling
              \/ /\ nextId \in Ids /\ nextId' = nextId - 1
                 /\ \A j \in Ids \ {nextId} : sock'[j] = sock[j]
                 /\ sock'[nextId].where = "none" /\ sock'[nextId].status = "CONNECTED"
                 /\ sock'[nextId].conn /\ ~sock'[nextId].broken /\ ~sock'[nextId].listening
                 /\ sock'[nextId].of = worker.ls /\ sock'[nextId].attempt = worker.req
                 /\ sock'[nextId].mux = sock[worker.ls].mux /\ sock'[nextId].dial = "no"
                 /\ worker'.at = "insert" /\ worker'.ls = worker.ls
                 /\ worker'.req = worker.req /\ worker'.ns = nextId
<1> USE DEF queueVars, endVars
<1>1. /\ worker.at = "create" /\ worker.ls \in Ids /\ nextId' \in {nextId, nextId - 1}
      /\ UNCHANGED <<requests, owned, queued, accepts, acceptLock, acc, closer, crashed>>
  BY DEF CreateConnection, Shapes
<1> DEFINE new == [NewCUDTSocket EXCEPT !.where = "none", !.status = "CONNECTED", !.conn = TRUE,
                       !.of = worker.ls, !.attempt = worker.req,
                       !.mux = sock[worker.ls].mux, !.named = TRUE]
<1>2. /\ new.where = "none" /\ new.status = "CONNECTED" /\ new.conn /\ ~new.broken /\ ~new.listening
      /\ new.of = worker.ls /\ new.attempt = worker.req /\ new.mux = sock[worker.ls].mux /\ new.dial = "no"
  BY DEF NewCUDTSocket
<1>3. \/ UNCHANGED sock /\ worker' = NotHandling
      \/ /\ sock' = [sock EXCEPT ![nextId] = new] /\ nextId' = nextId - 1
         /\ worker' = [worker EXCEPT !.at = "insert", !.ns = nextId]
  BY DEF CreateConnection
<1> HIDE DEF new
<1>4. nextId \in Ids
  BY <1>1, NumberIsThere DEF ConnInv
<1>5. CASE /\ sock' = [sock EXCEPT ![nextId] = new] /\ nextId' = nextId - 1
           /\ worker' = [worker EXCEPT !.at = "insert", !.ns = nextId]
  <2>1. /\ \A j \in Ids \ {nextId} : sock'[j] = sock[j]
        /\ sock'[nextId] = new
    BY <1>4, <1>5 DEF Shapes
  <2>2. /\ worker'.at = "insert" /\ worker'.ns = nextId /\ worker'.ls = worker.ls /\ worker'.req = worker.req
    BY <1>5 DEF Shapes
  <2> QED
    BY <1>1, <1>2, <1>4, <1>5, <2>1, <2>2
<1> QED
  BY <1>1, <1>3, <1>5

LEMMA CreateConnInv ==
    ASSUME Shapes, CloseInv, ConnInv, CreateConnection
    PROVE  ConnInv'
<1>1. /\ worker.at = "create" /\ worker.ls \in Ids /\ nextId' \in {nextId, nextId - 1}
      /\ UNCHANGED <<requests, owned, queued, accepts, acceptLock, acc, closer, crashed>>
  BY MadeConnection
<1>2. \A j : ~InHand(j)
  BY <1>1 DEF InHand
<1>3. CASE UNCHANGED sock /\ worker' = NotHandling
  <2>1. worker'.at = "idle"
    BY <1>3 DEF NotHandling
  <2>2. NumbersLeft'
    BY <1>1, <1>3, <2>1, NumbersKept DEF ConnInv
  <2>3. WorkerHasListener' /\ NewConnection' /\ \A j : ~InHand(j)'
    BY <1>3 DEF WorkerHasListener, NewConnection, InHand, NotHandling
  <2> QED
    BY <1>1, <1>2, <1>3, <2>2, <2>3, HandlingConnInv
<1>4. CASE /\ nextId \in Ids /\ nextId' = nextId - 1
           /\ \A j \in Ids \ {nextId} : sock'[j] = sock[j]
           /\ sock'[nextId].where = "none" /\ sock'[nextId].status = "CONNECTED"
           /\ sock'[nextId].conn /\ ~sock'[nextId].broken /\ ~sock'[nextId].listening
           /\ sock'[nextId].of = worker.ls /\ sock'[nextId].attempt = worker.req
           /\ sock'[nextId].mux = sock[worker.ls].mux /\ sock'[nextId].dial = "no"
           /\ worker'.at = "insert" /\ worker'.ls = worker.ls
           /\ worker'.req = worker.req /\ worker'.ns = nextId
  <2>0. PICK n \in Ids : n = nextId
    BY <1>4
  <2>1. /\ nextId' = n - 1 /\ \A j \in Ids \ {n} : sock'[j] = sock[j]
        /\ sock'[n].where = "none" /\ sock'[n].status = "CONNECTED"
        /\ sock'[n].conn /\ ~sock'[n].broken /\ ~sock'[n].listening
        /\ sock'[n].of = worker.ls /\ sock'[n].attempt = worker.req
        /\ sock'[n].mux = sock[worker.ls].mux /\ sock'[n].dial = "no"
        /\ worker'.at = "insert" /\ worker'.ls = worker.ls
        /\ worker'.req = worker.req /\ worker'.ns = n
    BY <1>4, <2>0
  <2>2. /\ sock[n].where = "none" /\ sock[n].of = None
        /\ sock[worker.ls].listening /\ sock[worker.ls].status = "LISTENING" /\ sock[worker.ls].of = None
        /\ InMap(worker.ls) /\ worker.ls # None /\ n # worker.ls
    BY <1>1, <2>0, IdsAreInts, IdsAreNotNone
    DEF CloseInv, NotYetMade, ConnInv, Connections, WorkerHasListener, Listeners, InMap
  <2>3. \A j \in Ids : sock'[j].where = "none" \/ sock'[j].of # None <=>
                         sock[j].where = "none" \/ sock[j].of # None
    BY <2>1, <2>2
  <2>4. MoreShapes' /\ NumbersLeft'
    BY <1>1, <1>4, <2>3, NumbersKept DEF ConnInv, MoreShapes
  <2>5. Listeners' /\ WorkerHasListener'
    BY <1>1, <2>1, <2>2 DEF ConnInv, Listeners, WorkerHasListener, InMap
  <2>6. Connections'
    <3>1. \A j \in Ids : j <= nextId' => j <= nextId /\ j # n
      BY <2>0, <2>1, IdsAreInts
    <3>2. \A j \in Ids : sock[j].of # None => sock[j].of # n
      BY <2>2 DEF ConnInv, Connections
    <3> QED
      BY <1>1, <2>1, <2>2, <3>1, <3>2 DEF ConnInv, Connections, InMap
  <2>7. CloserIsDone'
    <3>1. closer.at \in {"move", "sync", "wake"} => closer.on # n
      BY <2>2 DEF CloseInv, CloserHasSocket, ConnInv, CloserIsDone
    <3> QED
      BY <1>1, <2>1, <3>1 DEF ConnInv, CloserIsDone
  <2>8. AcceptPlaces'
    BY <1>1, <2>1, <2>2 DEF ConnInv, AcceptPlaces
  <2>9. \A j \in Ids : (Live(j)' <=> Live(j)) /\ (InMap(j)' <=> InMap(j)) /\ (InMap(j) => j # n)
    BY <2>1, <2>2 DEF Live, InMap
  <2>10. \A i \in Ids : \A j \in queued[i] \cup accepts[i] : j \in Ids /\ j # n
    BY <2>2, IdsAreNotNone DEF ConnInv, ListsHold
  <2>11. ListsHold'
    BY <1>1, <2>1, <2>9, <2>10 DEF ConnInv, ListsHold
  <2>12. \A j : /\ (Taken(j)' <=> Taken(j)) /\ (BeingClosed(j)' <=> BeingClosed(j))
                /\ InHand(j)' <=> j = n
    BY <1>1, <2>1 DEF Taken, InHand, BeingClosed
  <2>13. n \notin owned /\ ~Taken(n) /\ ~BeingClosed(n)
    <3>1. n \notin owned /\ ~BeingClosed(n)
      BY <2>2 DEF ConnInv, HeldOnce, BeingClosed, CloseInv, CloserHasSocket
    <3>2. ~Taken(n)
      BY <2>2, IdsAreNotNone DEF Taken, ConnInv, Takers, AcceptPlaces
    <3> QED
      BY <3>1, <3>2
  <2>14. HeldOnce'
    BY <1>1, <1>2, <2>1, <2>10, <2>12, <2>13 DEF ConnInv, HeldOnce
  <2>15. Takers'
    BY <1>1, <2>1, <2>2, IdsAreNotNone DEF ConnInv, Takers, AcceptPlaces
  <2>16. NewConnection'
    BY <1>1, <2>1, <2>2, <2>10 DEF ConnInv, NewConnection
  <2>17. OnePerAttempt'
    BY <1>1, <2>1, <2>9, <2>10 DEF ConnInv, OnePerAttempt
  <2>18. \A j \in Ids : Live(j) => j # n /\ sock[j].of \in Ids
    BY <2>2 DEF Live, ConnInv, Connections
  <2>19. LiveAreListed' /\ OneSocketPerAttempt' /\ LiveAreHeld'
    BY <1>1, <1>2, <2>1, <2>9, <2>12, <2>18
    DEF ConnInv, LiveAreListed, OneSocketPerAttempt, LiveAreHeld
  <2> QED
    BY <2>4, <2>5, <2>6, <2>7, <2>8, <2>11, <2>14, <2>15, <2>16, <2>17, <2>19 DEF ConnInv
<1> QED
  BY <1>3, <1>4, MadeConnection

\* The new socket comes into m_Sockets: no other connection of its attempt works.
LEMMA InsertConnInv ==
    ASSUME Shapes, CloseInv, ConnInv, InsertConnection
    PROVE  ConnInv'
<1>1. /\ worker.at = "insert" /\ sock' = [sock EXCEPT ![worker.ns].where = "sockets"]
      /\ UNCHANGED <<nextId, requests, owned, queued, accepts, acceptLock, acc, closer, crashed>>
      /\ worker' = [worker EXCEPT !.at = "queue"]
  BY DEF InsertConnection, appVars, queueVars, endVars
<1>2. PICK n \in Ids : n = worker.ns
  BY <1>1 DEF ConnInv, NewConnection
<1>3. /\ worker'.at = "queue" /\ worker'.ls = worker.ls /\ worker'.req = worker.req /\ worker'.ns = n
  BY <1>1, <1>2 DEF Shapes
<1>4. /\ worker.ls \in Ids /\ sock[worker.ls].listening /\ InMap(worker.ls) /\ sock[worker.ls].of = None
      /\ sock[n].of = worker.ls /\ sock[n].attempt = worker.req /\ sock[n].where = "none"
      /\ sock[n].mux = sock[worker.ls].mux /\ ~sock[n].broken /\ worker.ls # None
      /\ \A i \in Ids : n \notin queued[i] \cup accepts[i]
      /\ \A j \in queued[worker.ls] \cup accepts[worker.ls] : sock[j].attempt # worker.req
  BY <1>1, <1>2, IdsAreNotNone DEF ConnInv, NewConnection, WorkerHasListener, Listeners, Shapes
<1>5. /\ \A j \in Ids \ {n} : sock'[j] = sock[j]
      /\ \A j \in Ids :
             /\ sock'[j].status = sock[j].status /\ sock'[j].of = sock[j].of /\ sock'[j].old = sock[j].old
             /\ sock'[j].attempt = sock[j].attempt /\ sock'[j].mux = sock[j].mux
             /\ sock'[j].conn = sock[j].conn /\ sock'[j].broken = sock[j].broken
             /\ sock'[j].dial = sock[j].dial /\ sock'[j].listening = sock[j].listening
      /\ sock'[n].where = "sockets"
  BY <1>1, <1>2 DEF Shapes, Fields
<1>7. MoreShapes' /\ NumbersLeft'
  <2>1. \A j \in Ids : sock'[j].where = "none" \/ sock'[j].of # None <=>
                         sock[j].where = "none" \/ sock[j].of # None
    BY <1>4, <1>5
  <2> QED
    BY <1>1, <1>3, <2>1, NumbersKept DEF ConnInv, MoreShapes
<1>8. Listeners' /\ WorkerHasListener'
  BY <1>3, <1>4, <1>5 DEF ConnInv, Listeners, WorkerHasListener, InMap
<1>9. Connections'
  BY <1>1, <1>4, <1>5 DEF ConnInv, Connections
<1>10. CloserIsDone'
  BY <1>1, <1>4, <1>5 DEF ConnInv, CloserIsDone
<1>11. AcceptPlaces'
  BY <1>1, <1>4, <1>5 DEF ConnInv, AcceptPlaces
<1>12. \A j \in Ids : /\ InMap(j)' <=> InMap(j) \/ j = n
                      /\ Live(j)' => Live(j) \/ j = n
                      /\ Live(j) => j # n /\ sock[j].of \in Ids /\ sock[j].of # n
  BY <1>4, <1>5 DEF Live, InMap, ConnInv, Connections
<1>13. queued[n] = {} /\ accepts[n] = {}
  BY <1>4, IdsAreNotNone DEF ConnInv, ListsHold, Connections
<1>14. ListsHold'
  BY <1>1, <1>4, <1>5, <1>12, <1>13 DEF ConnInv, ListsHold
<1>15. \A j : (Taken(j)' <=> Taken(j)) /\ (InHand(j)' <=> InHand(j)) /\ (BeingClosed(j)' <=> BeingClosed(j))
  BY <1>1, <1>2, <1>3 DEF Taken, InHand, BeingClosed
<1>16. HeldOnce' /\ Takers'
  <2>1. HeldOnce'
    BY <1>1, <1>5, <1>15 DEF ConnInv, HeldOnce
  <2>2. Takers'
    BY <1>1, <1>5 DEF ConnInv, Takers
  <2> QED
    BY <2>1, <2>2
<1>17. NewConnection'
  BY <1>1, <1>3, <1>4, <1>5 DEF ConnInv, NewConnection, ListsHold
<1>18. OnePerAttempt'
  BY <1>1, <1>5, <1>12, <1>13 DEF ConnInv, OnePerAttempt, ListsHold
<1>19. InHand(n) /\ \A j : InHand(j) => j = n
  BY <1>1, <1>2 DEF InHand
<1>20. LiveAreListed' /\ LiveAreHeld'
  BY <1>1, <1>5, <1>12, <1>15, <1>19 DEF ConnInv, LiveAreListed, LiveAreHeld
<1>21. OneSocketPerAttempt'
  <2>1. ASSUME NEW j \in Ids, Live(j), sock[j].of = worker.ls PROVE sock[j].attempt # worker.req
    BY <1>4, <1>12, <1>19, <2>1 DEF ConnInv, LiveAreListed
  <2> QED
    BY <1>4, <1>5, <1>12, <2>1 DEF ConnInv, OneSocketPerAttempt
<1> QED
  BY <1>7, <1>8, <1>9, <1>10, <1>11, <1>14, <1>16, <1>17, <1>18, <1>20, <1>21 DEF ConnInv

LEMMA QueueConnInv ==
    ASSUME Shapes, CloseInv, ConnInv, QueueConnection
    PROVE  ConnInv'
<1>1. /\ worker.at = "queue" /\ queued' = [queued EXCEPT ![worker.ls] = @ \cup {worker.ns}]
      /\ UNCHANGED <<sock, nextId, requests, owned, accepts, acceptLock, acc, closer, crashed>>
      /\ worker' = [worker EXCEPT !.at = "signal"]
  BY DEF QueueConnection, appVars, endVars
<1>2. PICK n \in Ids : n = worker.ns
  BY <1>1 DEF ConnInv, NewConnection
<1>3. PICK l \in Ids : l = worker.ls
  BY <1>1 DEF Shapes
<1>4. worker'.at = "signal" /\ worker'.ls = l
  BY <1>1, <1>3 DEF Shapes
<1>5. /\ DOMAIN queued' = Ids /\ queued'[l] = queued[l] \cup {n}
      /\ \A i \in Ids \ {l} : queued'[i] = queued[i]
  BY <1>1, <1>2, <1>3 DEF ConnInv, MoreShapes
<1>6. /\ sock[n].of = l /\ sock[n].attempt = worker.req /\ InMap(n) /\ InMap(l)
      /\ \A j \in queued[l] \cup accepts[l] : sock[j].attempt # worker.req
  BY <1>1, <1>2, <1>3 DEF ConnInv, NewConnection, WorkerHasListener, Listeners, InMap
<1>7. /\ \A j : InHand(j) <=> j = n
      /\ \A j : ~InHand(j)' /\ (Taken(j)' <=> Taken(j)) /\ (BeingClosed(j)' <=> BeingClosed(j))
  BY <1>1, <1>2, <1>4 DEF InHand, Taken, BeingClosed
<1>8. \A j \in Ids : /\ (Live(j)' <=> Live(j)) /\ (InMap(j)' <=> InMap(j))
                     /\ Live(j) => sock[j].of \in Ids
  BY <1>1 DEF Live, InMap, ConnInv, Connections
<1>9. MoreShapes' /\ NumbersLeft' /\ Listeners' /\ Connections'
  <2>1. MoreShapes' /\ NumbersLeft'
    BY <1>1, <1>4, <1>5, NumbersKept DEF ConnInv, MoreShapes
  <2>2. Listeners' /\ Connections'
    BY <1>1, <1>8 DEF ConnInv, Listeners, Connections
  <2> QED
    BY <2>1, <2>2
<1>10. WorkerHasListener' /\ CloserIsDone' /\ AcceptPlaces' /\ Takers'
  BY <1>1, <1>3, <1>4 DEF ConnInv, WorkerHasListener, CloserIsDone, AcceptPlaces, Takers
<1>11. ListsHold'
  <2>1. sock[l].where # "deleted"
    BY <1>6 DEF InMap
  <2> QED
    BY <1>1, <1>5, <1>6, <1>8, <2>1 DEF ConnInv, ListsHold
<1>12. HeldOnce'
  <2>1. n \notin owned /\ ~Taken(n) /\ ~BeingClosed(n)
    BY <1>7 DEF ConnInv, HeldOnce
  <2> QED
    BY <1>1, <1>5, <1>7, <2>1 DEF ConnInv, HeldOnce
<1>13. NewConnection'
  BY <1>4 DEF NewConnection
<1>14. OnePerAttempt'
  BY <1>1, <1>5, <1>6, <1>8 DEF ConnInv, OnePerAttempt
<1>15. LiveAreListed' /\ OneSocketPerAttempt' /\ LiveAreHeld'
  BY <1>1, <1>5, <1>6, <1>7, <1>8 DEF ConnInv, LiveAreListed, OneSocketPerAttempt, LiveAreHeld
<1> QED
  BY <1>9, <1>10, <1>11, <1>12, <1>13, <1>14, <1>15 DEF ConnInv

\* Threads that wait are woken.
LEMMA WakeConnInv ==
    ASSUME Shapes, ConnInv,
           UNCHANGED <<sock, nextId, requests, owned, queued, accepts, acceptLock, crashed>>,
           DOMAIN acc' = Acceptors,
           \A a \in Acceptors :
               /\ DOMAIN acc'[a] = {"at", "on", "took"}
               /\ \/ acc'[a] = acc[a]
                  \/ acc[a].at = "waiting" /\ acc'[a].at = "woken" /\ acc'[a].on = acc[a].on,
           AcceptPlaces', CloserIsDone', closer' = closer \/ (closer.at # "move" /\ closer'.at # "move"),
           worker' = worker \/ (worker.at = "signal" /\ worker'.at = "idle")
    PROVE  ConnInv'
<1>1. \A j : /\ (Taken(j)' <=> Taken(j)) /\ (InHand(j)' <=> InHand(j))
             /\ (BeingClosed(j)' <=> BeingClosed(j))
  <2>1. \A a \in Acceptors : acc'[a].at = "locate" \/ acc[a].at = "locate" => acc'[a] = acc[a]
    OBVIOUS
  <2> QED
    BY <2>1 DEF Taken, InHand, BeingClosed
<1>2. \A j \in Ids : /\ (Live(j)' <=> Live(j)) /\ (InMap(j)' <=> InMap(j))
                     /\ Live(j) => sock[j].of \in Ids
  BY DEF Live, InMap, ConnInv, Connections
<1>3. MoreShapes' /\ NumbersLeft' /\ Listeners' /\ Connections'
  <2>1. MoreShapes' /\ NumbersLeft'
    BY NumbersKept DEF ConnInv, MoreShapes
  <2>2. Listeners' /\ Connections'
    BY <1>2 DEF ConnInv, Listeners, Connections
  <2> QED
    BY <2>1, <2>2
<1>4. WorkerHasListener' /\ NewConnection'
  BY DEF ConnInv, WorkerHasListener, NewConnection
<1>5. ListsHold' /\ HeldOnce' /\ Takers'
  <2>1. ListsHold' /\ HeldOnce'
    BY <1>1, <1>2 DEF ConnInv, ListsHold, HeldOnce
  <2>2. \A a \in Acceptors : acc'[a].at = "locate" => acc'[a] = acc[a]
    OBVIOUS
  <2>3. Takers'
    BY <2>2 DEF ConnInv, Takers
  <2> QED
    BY <2>1, <2>3
<1>6. OnePerAttempt' /\ LiveAreListed' /\ OneSocketPerAttempt' /\ LiveAreHeld'
  BY <1>1, <1>2 DEF ConnInv, OnePerAttempt, LiveAreListed, OneSocketPerAttempt, LiveAreHeld
<1> QED
  BY <1>3, <1>4, <1>5, <1>6 DEF ConnInv

LEMMA SignalConnInv ==
    ASSUME Shapes, ConnInv, SignalAccept
    PROVE  ConnInv'
<1>1. /\ UNCHANGED <<sock, nextId, requests, owned, queued, accepts, acceptLock, closer, crashed>>
      /\ worker.at = "signal" /\ worker'.at = "idle"
  BY DEF SignalAccept, NotHandling, appVars, queueVars, endVars
<1>2. /\ DOMAIN acc' = Acceptors
      /\ \A a \in Acceptors :
             /\ DOMAIN acc'[a] = {"at", "on", "took"}
             /\ \/ acc'[a] = acc[a]
                \/ acc[a].at = "waiting" /\ acc'[a].at = "woken" /\ acc'[a].on = acc[a].on
  <2>1. CASE UNCHANGED acc
    BY <2>1 DEF ConnInv, MoreShapes
  <2>2. ASSUME NEW a \in ToWake(worker.ls), acc' = [acc EXCEPT ![a].at = "woken"]
        PROVE  /\ DOMAIN acc' = Acceptors
               /\ \A b \in Acceptors :
                      /\ DOMAIN acc'[b] = {"at", "on", "took"}
                      /\ \/ acc'[b] = acc[b]
                         \/ acc[b].at = "waiting" /\ acc'[b].at = "woken" /\ acc'[b].on = acc[b].on
    <3>1. a \in Acceptors /\ acc[a].at = "waiting"
      BY DEF ToWake, Waiting
    <3> QED
      BY <2>2, <3>1 DEF ConnInv, MoreShapes
  <2> QED
    BY <2>1, <2>2 DEF SignalAccept
<1>3. AcceptPlaces' /\ CloserIsDone'
  BY <1>1, <1>2 DEF ConnInv, AcceptPlaces, CloserIsDone
<1> QED
  BY <1>1, <1>2, <1>3, WakeConnInv

-----------------------------------------------------------------------------
(* The application makes and closes sockets.                               *)

LEMMA NewSocketConnInv ==
    ASSUME Shapes, CloseInv, ConnInv, NewSocket
    PROVE  ConnInv'
<1>1. /\ sock' = [sock EXCEPT ![nextId] = NewCUDTSocket] /\ owned' = owned \cup {nextId}
      /\ nextId' = nextId - 1
      /\ UNCHANGED <<requests, queued, accepts, acceptLock, acc, closer, worker, crashed>>
      /\ Cardinality(MadeByApp) < MaxApp
  BY DEF NewSocket, queueVars, endVars, MadeByApp
<1>2. PICK n \in Ids : n = nextId
  BY <1>1, NumberIsThere DEF ConnInv
<1>3. /\ \A j \in Ids \ {n} : sock'[j] = sock[j]
      /\ sock'[n].where = "sockets" /\ sock'[n].status = "INIT" /\ sock'[n].of = None
      /\ ~sock'[n].conn /\ ~sock'[n].broken /\ ~sock'[n].listening
  <2>1. /\ \A j \in Ids \ {n} : sock'[j] = sock[j]
        /\ sock'[n] = NewCUDTSocket
    BY <1>1, <1>2 DEF Shapes
  <2> QED
    BY <2>1 DEF NewCUDTSocket
<1>4. sock[n].where = "none" /\ sock[n].of = None
  BY <1>2, IdsAreInts DEF CloseInv, NotYetMade, ConnInv, Connections
<1>5. MoreShapes' /\ NumbersLeft'
  <2>1. MadeByApp' = MadeByApp \cup {n} /\ n \notin MadeByApp
    BY <1>3, <1>4 DEF MadeByApp
  <2>2. IsFiniteSet(MadeByApp)
    BY IdsAreFinite DEF MadeByApp
  <2>3. Cardinality(MadeByApp') = Cardinality(MadeByApp) + 1
    BY <2>1, <2>2, FS_AddElement
  <2>4. NumbersLeft'
    BY <1>1, <2>3, MadeByAppType, SocketsAssumption DEF ConnInv, NumbersLeft, Shapes, MaxSockets
  <2> QED
    BY <1>1, <2>4 DEF ConnInv, MoreShapes
<1>6. \A j \in Ids : /\ InMap(j)' <=> InMap(j) \/ j = n
                     /\ Live(j)' <=> Live(j)
                     /\ Live(j) => j # n /\ sock[j].of \in Ids /\ sock[j].of # n
  BY <1>3, <1>4 DEF Live, InMap, ConnInv, Connections
<1>7. Listeners'
  BY <1>1, <1>3, <1>4 DEF ConnInv, Listeners, InMap
<1>8. Connections'
  <2>1. \A j \in Ids : j <= nextId' => j <= nextId /\ j # n
    BY <1>1, <1>2, IdsAreInts
  <2> QED
    BY <1>3, <1>4, <2>1 DEF ConnInv, Connections
<1>9. WorkerHasListener' /\ CloserIsDone'
  <2>1. closer.at \in {"move", "sync", "wake"} => closer.on # n
    BY <1>4 DEF CloseInv, CloserHasSocket, ConnInv, CloserIsDone
  <2>2. CloserIsDone'
    BY <1>1, <1>2, <1>3, <2>1 DEF ConnInv, CloserIsDone
  <2>3. WorkerHasListener'
    BY <1>1, <1>3, <1>4 DEF ConnInv, WorkerHasListener, Listeners, InMap, Shapes
  <2> QED
    BY <2>2, <2>3
<1>10. AcceptPlaces'
  BY <1>1, <1>3, <1>4 DEF ConnInv, AcceptPlaces
<1>11. /\ queued[n] = {} /\ accepts[n] = {}
       /\ \A i \in Ids : \A j \in queued[i] \cup accepts[i] : j \in Ids /\ j # n
  BY <1>4, IdsAreNotNone DEF ConnInv, ListsHold, Connections
<1>12. ListsHold'
  BY <1>1, <1>3, <1>6, <1>11 DEF ConnInv, ListsHold
<1>13. \A j : (Taken(j)' <=> Taken(j)) /\ (InHand(j)' <=> InHand(j)) /\ (BeingClosed(j)' <=> BeingClosed(j))
  BY <1>1 DEF Taken, InHand, BeingClosed
<1>14. ~Taken(n) /\ ~InHand(n) /\ ~BeingClosed(n)
  <2>1. ~Taken(n)
    BY <1>4, IdsAreNotNone DEF Taken, ConnInv, Takers, AcceptPlaces
  <2>2. ~InHand(n)
    BY <1>4, IdsAreNotNone DEF InHand, ConnInv, NewConnection, Shapes
  <2>3. ~BeingClosed(n)
    BY <1>4 DEF BeingClosed, CloseInv, CloserHasSocket
  <2> QED
    BY <2>1, <2>2, <2>3
<1>15. HeldOnce'
  BY <1>1, <1>2, <1>3, <1>11, <1>13, <1>14 DEF ConnInv, HeldOnce
<1>16. Takers'
  BY <1>1, <1>3, <1>14 DEF ConnInv, Takers, Taken
<1>17. NewConnection'
  <2>1. worker.at \in {"insert", "queue"} => worker.ns # n
    BY <1>14 DEF InHand
  <2>2. worker.at # "idle" => worker.ls \in Ids /\ worker.ls # n
    BY <1>4 DEF ConnInv, WorkerHasListener, Listeners, InMap, Shapes
  <2> QED
    BY <1>1, <1>3, <1>11, <2>1, <2>2 DEF ConnInv, NewConnection
<1>18. OnePerAttempt'
  BY <1>1, <1>3, <1>6, <1>11 DEF ConnInv, OnePerAttempt
<1>19. LiveAreListed' /\ OneSocketPerAttempt' /\ LiveAreHeld'
  BY <1>1, <1>3, <1>6, <1>13 DEF ConnInv, LiveAreListed, OneSocketPerAttempt, LiveAreHeld
<1> QED
  BY <1>5, <1>7, <1>8, <1>9, <1>10, <1>12, <1>15, <1>16, <1>17, <1>18, <1>19 DEF ConnInv

\* A socket that is closed works no more, and is the closing thread's.
LEMMA CloseConnInv ==
    ASSUME Shapes, CloseInv, ConnInv, NEW i \in Ids, Close(i)
    PROVE  ConnInv'
<1>0. sock' = [sock EXCEPT ![i].conn = FALSE, ![i].listening = FALSE]
  BY DEF Close
<1>1. /\ owned' = owned \ {i} /\ i \in owned /\ InMap(i)
      /\ closer.at = "idle" /\ closer'.at = "move" /\ closer'.on = i /\ closer'.status = sock[i].status
      /\ worker.at # "idle" => worker.ls # i
      /\ UNCHANGED <<nextId, requests, queued, accepts, acceptLock, acc, worker, crashed>>
  BY DEF Close, Located, InMap, queueVars, endVars
<1>2. /\ \A j \in Ids \ {i} : sock'[j] = sock[j]
      /\ \A j \in Ids :
             /\ sock'[j].where = sock[j].where /\ sock'[j].of = sock[j].of /\ sock'[j].old = sock[j].old
             /\ sock'[j].attempt = sock[j].attempt /\ sock'[j].mux = sock[j].mux
             /\ sock'[j].status = sock[j].status /\ sock'[j].broken = sock[j].broken
             /\ sock'[j].dial = sock[j].dial
      /\ ~sock'[i].conn /\ ~sock'[i].listening
  BY <1>0 DEF Shapes, Fields
<1>3. MoreShapes' /\ NumbersLeft'
  BY <1>1, <1>2, NumbersKept DEF ConnInv, MoreShapes
<1>4. Listeners' /\ Connections'
  BY <1>1, <1>2 DEF ConnInv, Listeners, Connections, InMap
<1>5. WorkerHasListener' /\ CloserIsDone'
  BY <1>1, <1>2 DEF ConnInv, WorkerHasListener, CloserIsDone, Shapes
<1>6. AcceptPlaces'
  BY <1>1, <1>2 DEF ConnInv, AcceptPlaces
<1>7. /\ \A j : (Taken(j)' <=> Taken(j)) /\ (InHand(j)' <=> InHand(j)) /\ ~BeingClosed(j)
      /\ \A j : BeingClosed(j)' <=> j = i
  BY <1>1 DEF Taken, InHand, BeingClosed
<1>8. \A j \in Ids : /\ InMap(j)' <=> InMap(j)
                     /\ Live(j)' <=> Live(j) /\ j # i
                     /\ Live(j) => sock[j].of \in Ids
  BY <1>2 DEF Live, InMap, ConnInv, Connections
<1>9. ListsHold' /\ Takers'
  BY <1>1, <1>2, <1>8 DEF ConnInv, ListsHold, Takers
<1>10. HeldOnce'
  BY <1>1, <1>2, <1>7 DEF ConnInv, HeldOnce
<1>11. NewConnection'
  BY <1>1, <1>2 DEF ConnInv, NewConnection, ListsHold, Shapes
<1>12. OnePerAttempt'
  BY <1>1, <1>2, <1>8 DEF ConnInv, OnePerAttempt, ListsHold
<1>13. LiveAreListed' /\ OneSocketPerAttempt' /\ LiveAreHeld'
  BY <1>1, <1>2, <1>7, <1>8 DEF ConnInv, LiveAreListed, OneSocketPerAttempt, LiveAreHeld
<1> QED
  BY <1>3, <1>4, <1>5, <1>6, <1>9, <1>10, <1>11, <1>12, <1>13 DEF ConnInv

\* It leaves m_Sockets, and the accepted sockets of its listener.
LEMMA MoveConnInv ==
    ASSUME Shapes, CloseInv, ConnInv, CloseMove
    PROVE  ConnInv'
<1> DEFINE listed == sock[closer.on].of # None /\ InMap(sock[closer.on].of)
<1>0. /\ sock' = [sock EXCEPT ![closer.on].status = "CLOSED", ![closer.on].where = "closed",
                              ![closer.on].old = FALSE]
      /\ accepts' = IF listed THEN [accepts EXCEPT ![sock[closer.on].of] = @ \ {closer.on}] ELSE accepts
      /\ closer' = IF closer.status = "LISTENING" THEN [closer EXCEPT !.at = "sync"] ELSE NotClosing
  BY DEF CloseMove, AfterMove
<1>1. /\ closer.at = "move"
      /\ UNCHANGED <<nextId, requests, owned, queued, acceptLock, acc, worker, crashed>>
  BY DEF CloseMove, appVars, endVars
<1>2. PICK i \in Ids : i = closer.on
  BY <1>1 DEF ConnInv, CloserIsDone
<1>3. /\ sock[i].where \in {"sockets", "closed"} /\ i \notin owned /\ ~sock[i].listening
      /\ closer.status = "LISTENING" <=> sock[i].status = "LISTENING"
  BY <1>1, <1>2 DEF ConnInv, CloserIsDone, CloseInv, CloserHasSocket
<1>4. /\ \A j \in Ids \ {i} : sock'[j] = sock[j]
      /\ \A j \in Ids :
             /\ sock'[j].of = sock[j].of /\ sock'[j].attempt = sock[j].attempt
             /\ sock'[j].mux = sock[j].mux /\ sock'[j].conn = sock[j].conn
             /\ sock'[j].broken = sock[j].broken /\ sock'[j].dial = sock[j].dial
             /\ sock'[j].listening = sock[j].listening
      /\ sock'[i].where = "closed" /\ sock'[i].status = "CLOSED" /\ ~sock'[i].old
  BY <1>0, <1>2 DEF Shapes, Fields
<1>5. closer'.at # "move" /\ (sock[i].status = "LISTENING" => closer'.at = "sync" /\ closer'.on = i)
      /\ (closer'.at # "idle" => closer'.at = "sync" /\ closer'.on = i)
  BY <1>0, <1>1, <1>2, <1>3 DEF NotClosing, Shapes
<1>6. /\ DOMAIN accepts' = Ids
      /\ \A j \in Ids : accepts'[j] = IF listed /\ j = sock[i].of THEN accepts[j] \ {i} ELSE accepts[j]
  BY <1>0, <1>2 DEF ConnInv, MoreShapes
<1>7. ~InHand(i) /\ ~Taken(i) /\ BeingClosed(i) /\ \A j \in Ids : i \notin queued[j]
  BY <1>1, <1>2 DEF ConnInv, HeldOnce, BeingClosed
<1>8. \A j : (Taken(j)' <=> Taken(j)) /\ (InHand(j)' <=> InHand(j)) /\ ~BeingClosed(j)'
  BY <1>1, <1>5 DEF Taken, InHand, BeingClosed
<1>9. \A j \in Ids : /\ InMap(j)' <=> InMap(j) /\ j # i
                     /\ Live(j)' <=> Live(j) /\ j # i
                     /\ Live(j) => sock[j].of \in Ids
  BY <1>4 DEF Live, InMap, ConnInv, Connections
<1>10. MoreShapes' /\ NumbersLeft'
  <2>1. \A j \in Ids : sock'[j].where = "none" \/ sock'[j].of # None <=>
                         sock[j].where = "none" \/ sock[j].of # None
    BY <1>3, <1>4
  <2> QED
    BY <1>1, <1>6, <2>1, NumbersKept DEF ConnInv, MoreShapes
<1>11. Listeners' /\ Connections'
  BY <1>1, <1>3, <1>4 DEF ConnInv, Listeners, Connections, InMap
<1>12. WorkerHasListener' /\ CloserIsDone'
  BY <1>1, <1>3, <1>4, <1>5 DEF ConnInv, WorkerHasListener, CloserIsDone, Shapes
<1>13. AcceptPlaces'
  BY <1>1, <1>2, <1>3, <1>4, <1>5 DEF ConnInv, AcceptPlaces
<1>14. ListsHold'
  <2>1. \A j \in Ids : InMap(j) => i \notin accepts'[j]
    BY <1>2, <1>6, IdsAreNotNone DEF ConnInv, ListsHold
  <2> QED
    BY <1>1, <1>4, <1>6, <1>7, <1>9, <2>1 DEF ConnInv, ListsHold
<1>15. HeldOnce' /\ Takers'
  <2>1. HeldOnce'
    BY <1>1, <1>3, <1>4, <1>8 DEF ConnInv, HeldOnce
  <2>2. Takers'
    BY <1>1, <1>4 DEF ConnInv, Takers
  <2> QED
    BY <2>1, <2>2
<1>16. NewConnection'
  <2>1. worker.at \in {"insert", "queue"} => worker.ns # i
    BY <1>7 DEF InHand
  <2>2. worker.at # "idle" => worker.ls \in Ids
    BY DEF Shapes
  <2>3. \A j \in Ids : accepts'[j] \subseteq accepts[j]
    BY <1>6
  <2> QED
    BY <1>1, <1>4, <2>1, <2>2, <2>3 DEF ConnInv, NewConnection, ListsHold
<1>17. OnePerAttempt'
  <2>1. \A j \in Ids : accepts'[j] \subseteq accepts[j]
    BY <1>6
  <2> QED
    BY <1>1, <1>4, <1>9, <2>1 DEF ConnInv, OnePerAttempt, ListsHold
<1>18. LiveAreListed'
  BY <1>1, <1>4, <1>6, <1>8, <1>9 DEF ConnInv, LiveAreListed
<1>19. OneSocketPerAttempt' /\ LiveAreHeld'
  BY <1>1, <1>4, <1>8, <1>9 DEF ConnInv, OneSocketPerAttempt, LiveAreHeld
<1> QED
  BY <1>10, <1>11, <1>12, <1>13, <1>14, <1>15, <1>16, <1>17, <1>18, <1>19 DEF ConnInv

\* The accept lock keeps the broadcast from a thread that has yet to wait.
LEMMA SyncConnInv ==
    ASSUME Shapes, ConnInv, CloseSync \/ CloseWake
    PROVE  ConnInv'
<1>1. /\ UNCHANGED <<sock, nextId, requests, owned, queued, accepts, acceptLock, worker, crashed>>
      /\ closer.at \in {"sync", "wake"} /\ closer.on \in Ids
  BY DEF CloseSync, CloseWake, appVars, queueVars, endVars, ConnInv, CloserIsDone
<1>2. CASE CloseSync
  <2>1. UNCHANGED acc /\ closer'.at = "wake" /\ closer'.on = closer.on /\ acceptLock[closer.on] = Free
    BY <1>2 DEF CloseSync, Shapes
  <2>2. \A a \in Acceptors : acc[a].at = "check" => acc[a].on # closer.on
    BY <2>1, SocketsAssumption DEF ConnInv, AcceptPlaces
  <2>3. AcceptPlaces' /\ CloserIsDone'
    BY <1>1, <2>1, <2>2 DEF ConnInv, AcceptPlaces, CloserIsDone
  <2> QED
    BY <1>1, <2>1, <2>3, WakeConnInv DEF ConnInv, MoreShapes
<1>3. CASE CloseWake
  <2>1. /\ closer.at = "wake" /\ closer'.at = "idle" /\ DOMAIN acc' = Acceptors
        /\ \A a \in Acceptors : acc'[a] = IF acc[a].at = "waiting" /\ acc[a].on = closer.on
                                          THEN [acc[a] EXCEPT !.at = "woken"] ELSE acc[a]
    BY <1>3 DEF CloseWake, NotClosing, Waiting
  <2>2. \A a \in Acceptors :
            /\ DOMAIN acc'[a] = {"at", "on", "took"}
            /\ IF acc[a].at = "waiting" /\ acc[a].on = closer.on
               THEN acc'[a].at = "woken" /\ acc'[a].on = acc[a].on
               ELSE acc'[a] = acc[a]
    BY <2>1 DEF ConnInv, MoreShapes
  <2>3. AcceptPlaces' /\ CloserIsDone'
    BY <1>1, <2>1, <2>2 DEF ConnInv, AcceptPlaces, CloserIsDone
  <2> QED
    BY <1>1, <2>1, <2>2, <2>3, WakeConnInv
<1> QED
  BY <1>2, <1>3

-----------------------------------------------------------------------------
(* Garbage collection and cleanup.                                         *)

LEMMA SecondConnInv ==
    ASSUME Shapes, ConnInv, Second
    PROVE  ConnInv'
<1>0. sock' = [i \in Ids |-> IF sock[i].where = "closed" /\ ~sock[i].old
                             THEN [sock[i] EXCEPT !.old = TRUE] ELSE sock[i]]
  BY DEF Second
<1>1. /\ UNCHANGED <<nextId, requests, owned, queued, accepts, acceptLock, acc, closer, worker, crashed>>
      /\ closer.at = "idle" /\ \A a \in Acceptors : acc[a].at \in {"idle", "waiting"}
  BY DEF Second, Quiet, appVars, queueVars, endVars
<1>2. \A j \in Ids :
          /\ sock'[j].where = sock[j].where /\ sock'[j].of = sock[j].of
          /\ sock'[j].attempt = sock[j].attempt /\ sock'[j].mux = sock[j].mux
          /\ sock'[j].status = sock[j].status /\ sock'[j].broken = sock[j].broken
          /\ sock'[j].dial = sock[j].dial /\ sock'[j].conn = sock[j].conn
          /\ sock'[j].listening = sock[j].listening
          /\ sock[j].where # "closed" => sock'[j].old = sock[j].old
  BY <1>0 DEF Shapes, Fields
<1>3. MoreShapes' /\ NumbersLeft' /\ Listeners' /\ Connections'
  <2>1. MoreShapes' /\ NumbersLeft'
    BY <1>1, <1>2, NumbersKept DEF ConnInv, MoreShapes
  <2>2. Listeners' /\ Connections'
    BY <1>1, <1>2 DEF ConnInv, Listeners, Connections, InMap
  <2> QED
    BY <2>1, <2>2
<1>4. WorkerHasListener' /\ CloserIsDone'
  BY <1>1, <1>2 DEF ConnInv, WorkerHasListener, CloserIsDone, Shapes
<1>5. AcceptPlaces'
  <2>1. ASSUME NEW a \in Acceptors, acc[a].at # "idle"
        PROVE  acc[a].at = "waiting" /\ acc[a].on \in Ids /\ sock[acc[a].on].where = "sockets"
    BY <1>1, <2>1 DEF ConnInv, AcceptPlaces, Listeners, InMap
  <2> QED
    BY <1>1, <1>2, <2>1 DEF ConnInv, AcceptPlaces
<1>6. /\ \A j \in Ids : /\ (Live(j)' <=> Live(j)) /\ (InMap(j)' <=> InMap(j))
                        /\ Live(j) => sock[j].of \in Ids
      /\ \A j : (Taken(j)' <=> Taken(j)) /\ (InHand(j)' <=> InHand(j)) /\ (BeingClosed(j)' <=> BeingClosed(j))
  BY <1>1, <1>2 DEF Live, InMap, Taken, InHand, BeingClosed, ConnInv, Connections
<1>7. ListsHold' /\ HeldOnce' /\ Takers' /\ NewConnection'
  <2>1. ListsHold' /\ Takers'
    BY <1>1, <1>2, <1>6 DEF ConnInv, ListsHold, Takers
  <2>2. HeldOnce'
    BY <1>1, <1>2, <1>6 DEF ConnInv, HeldOnce
  <2>3. NewConnection'
    BY <1>1, <1>2 DEF ConnInv, NewConnection, ListsHold, Shapes
  <2> QED
    BY <2>1, <2>2, <2>3
<1>8. OnePerAttempt' /\ LiveAreListed' /\ OneSocketPerAttempt' /\ LiveAreHeld'
  <2>1. OnePerAttempt'
    BY <1>1, <1>2, <1>6 DEF ConnInv, OnePerAttempt, ListsHold
  <2>2. LiveAreListed' /\ OneSocketPerAttempt' /\ LiveAreHeld'
    BY <1>1, <1>2, <1>6 DEF ConnInv, LiveAreListed, OneSocketPerAttempt, LiveAreHeld
  <2> QED
    BY <2>1, <2>2
<1> QED
  BY <1>3, <1>4, <1>5, <1>7, <1>8 DEF ConnInv

LEMMA CleanupConnInv ==
    ASSUME Shapes, ConnInv, Cleanup
    PROVE  ConnInv'
<1>0. sock' = [i \in Ids |->
           IF sock[i].where \in {"sockets", "closed"}
           THEN [sock[i] EXCEPT !.where = "closed", !.status = "CLOSED", !.conn = FALSE,
                                !.listening = FALSE, !.old = TRUE]
           ELSE sock[i]]
  BY DEF Cleanup
<1>1. /\ UNCHANGED <<nextId, requests, queued, accepts, acceptLock, acc, closer, worker, crashed>>
      /\ owned' = {} /\ closer.at = "idle" /\ worker.at = "idle" /\ \A a \in Acceptors : acc[a].at = "idle"
  BY DEF Cleanup, Quiet, queueVars
<1>2. \A j \in Ids :
          /\ sock'[j].of = sock[j].of /\ sock'[j].broken = sock[j].broken /\ sock'[j].dial = sock[j].dial
          /\ \/ /\ sock'[j].where = "closed" /\ sock'[j].status = "CLOSED" /\ sock[j].where # "none"
                /\ ~sock'[j].conn /\ ~sock'[j].listening
             \/ sock'[j] = sock[j] /\ sock[j].where \notin {"sockets", "closed"}
  <2> TAKE j \in Ids
  <2>1. DOMAIN sock[j] = Fields
    BY DEF Shapes
  <2>2. CASE sock[j].where \in {"sockets", "closed"}
    <3>1. sock'[j] = [sock[j] EXCEPT !.where = "closed", !.status = "CLOSED", !.conn = FALSE,
                                     !.listening = FALSE, !.old = TRUE]
      BY <1>0, <2>2
    <3>2. /\ sock'[j].of = sock[j].of /\ sock'[j].broken = sock[j].broken /\ sock'[j].dial = sock[j].dial
          /\ sock'[j].where = "closed" /\ sock'[j].status = "CLOSED"
          /\ ~sock'[j].conn /\ ~sock'[j].listening
      BY ONLY <2>1, <3>1 DEF Fields
    <3>3. sock[j].where # "none"
      BY <2>2
    <3> QED  BY <3>2, <3>3
  <2>3. CASE sock[j].where \notin {"sockets", "closed"}
    <3>1. sock'[j] = sock[j]
      BY <1>0, <2>3
    <3> QED  BY <2>3, <3>1
  <2> QED  BY <2>2, <2>3
<1>3. MoreShapes' /\ NumbersLeft' /\ Listeners' /\ Connections'
  <2>1. MoreShapes' /\ NumbersLeft'
    BY <1>1, <1>2, NumbersKept DEF ConnInv, MoreShapes
  <2>2. Listeners'
    BY <1>2 DEF ConnInv, Listeners, InMap
  <2>3. Connections'
    BY <1>1, <1>2 DEF ConnInv, Connections
  <2> QED
    BY <2>1, <2>2, <2>3
<1>4. \A j \in Ids : ~InMap(j)' /\ ~Live(j)'
  BY <1>2 DEF InMap, Live
<1>5. WorkerHasListener' /\ CloserIsDone' /\ AcceptPlaces' /\ NewConnection' /\ Takers'
  BY <1>1 DEF ConnInv, WorkerHasListener, CloserIsDone, AcceptPlaces, NewConnection, Takers
<1>6. ListsHold' /\ HeldOnce'
  <2>1. ListsHold'
    BY <1>1, <1>2, <1>4 DEF ConnInv, ListsHold
  <2>2. HeldOnce'
    BY <1>1 DEF HeldOnce, Taken, InHand, BeingClosed
  <2> QED
    BY <2>1, <2>2
<1>7. OnePerAttempt' /\ LiveAreListed' /\ OneSocketPerAttempt' /\ LiveAreHeld'
  BY <1>4 DEF OnePerAttempt, LiveAreListed, OneSocketPerAttempt, LiveAreHeld
<1> QED
  BY <1>3, <1>5, <1>6, <1>7 DEF ConnInv

\* What the scan does to connections: it moves the broken ones, and what removed
\* listeners have queued, out of m_Sockets, and takes them off the sets.
Collected(moved) ==
    /\ UNCHANGED crashed /\ DOMAIN queued' = Ids /\ DOMAIN accepts' = Ids
    /\ \A i \in Ids :
           /\ sock'[i].of = sock[i].of /\ sock'[i].attempt = sock[i].attempt
           /\ sock'[i].mux = sock[i].mux /\ sock'[i].broken = sock[i].broken
           /\ sock'[i].dial = sock[i].dial /\ sock'[i].listening = sock[i].listening
           /\ sock'[i].conn => sock[i].conn
    /\ \A i \in moved :
           /\ InMap(i) /\ (sock[i].broken \/ \E r \in Removed : i \in queued[r])
           /\ sock'[i].where = "closed" /\ sock'[i].status = "CLOSED" /\ sock'[i].old = closing
    /\ \A i \in Removed : sock'[i].where = "deleted" /\ sock'[i].status = sock[i].status
    /\ \A i \in Ids \ (Removed \cup moved) :
           /\ sock'[i].where = sock[i].where /\ sock'[i].status = sock[i].status
           /\ sock'[i].old = sock[i].old
    /\ \A r \in Removed : queued'[r] = {} /\ accepts'[r] = {} /\ queued[r] \subseteq moved
    /\ \A i \in Ids \ Removed :
           /\ queued[i] \ moved \subseteq queued'[i] /\ accepts[i] \ moved \subseteq accepts'[i]
           /\ queued'[i] \subseteq queued[i] /\ accepts'[i] \subseteq accepts[i]
    /\ \A i, j \in Ids : InMap(i) /\ j \in moved /\ sock[j].of = i /\ sock[j].broken =>
           j \notin queued'[i] \cup accepts'[i]
    /\ owned \ moved \subseteq owned'

LEMMA ScanConnections ==
    ASSUME Shapes, ConnInv, Scan
    PROVE  /\ UNCHANGED <<nextId, requests, acceptLock, acc, closer, worker>> /\ owned' \subseteq owned
           /\ \/ UNCHANGED <<sock, queued, accepts>> /\ crashed' = "remove"
              \/ \E moved \in SUBSET Ids : Collected(moved)
<1> DEFINE gone    == {i \in Ids : InMap(i) /\ sock[i].broken /\ sock[i].unread = 0}
           waiting == {i \in Ids : InMap(i) /\ sock[i].broken /\ sock[i].unread > 0}
           goneOf(i) == {j \in gone : sock[j].of = i}
           queues  == [i \in Ids |-> IF InMap(i) THEN queued[i] \ goneOf(i) ELSE queued[i]]
           orphans == Unaccepted(Removed, queues)
           moved   == gone \cup orphans
<1>1. UNCHANGED <<nextId, requests, acceptLock, acc, closer, worker>> /\ owned' = owned \ gone
  BY DEF Scan
<1>2. CASE \E q \in orphans : ~InMap(q) \/ q \in gone
  BY <1>1, <1>2 DEF Scan, Removed
<1>3. CASE ~\E q \in orphans : ~InMap(q) \/ q \in gone
  <2>1. /\ sock' = [i \in Ids |->
                     IF i \in Removed THEN [sock[i] EXCEPT !.where = "deleted"]
                     ELSE IF i \in gone \cup orphans
                     THEN [sock[i] EXCEPT !.where = "closed", !.status = "CLOSED", !.old = closing,
                                          !.conn = @ /\ i \in gone]
                     ELSE IF i \in waiting THEN [sock[i] EXCEPT !.unread = UnreadAfter(i)]
                     ELSE sock[i]]
        /\ queued' = [i \in Ids |-> IF i \in Removed THEN {} ELSE queues[i]]
        /\ accepts' = [i \in Ids |-> IF i \in Removed THEN {}
                                     ELSE IF InMap(i) THEN Erased(accepts[i], goneOf(i)) ELSE accepts[i]]
        /\ UNCHANGED crashed
    BY <1>3 DEF Scan, Removed
  <2>2. \A r \in Removed : queues[r] = queued[r]
    BY DEF Removed, InMap
  <2>3. orphans = UNION {queued[r] : r \in Removed}
    BY <2>2 DEF Unaccepted
  <2>4. orphans \subseteq Ids /\ \A i \in orphans : InMap(i) /\ \E r \in Removed : i \in queued[r]
    BY <1>3, <2>3 DEF ConnInv, ListsHold, Removed
  <2>5. \A r \in Removed : queued[r] \subseteq orphans
    BY <2>3
  <2>6. /\ moved \in SUBSET Ids
        /\ \A i \in moved : InMap(i) /\ (sock[i].broken \/ \E r \in Removed : i \in queued[r])
    BY <2>4
  <2>7. \A i \in moved : i \notin Removed
    BY <2>6 DEF InMap, Removed
  <2>8. \A i \in Ids \ Removed : queued'[i] = IF InMap(i) THEN queued[i] \ goneOf(i) ELSE queued[i]
    BY <2>1
  <2>9. \A i \in Ids \ Removed : accepts'[i] = IF InMap(i) THEN accepts[i] \ goneOf(i) ELSE accepts[i]
    BY <2>1 DEF Erased
  <2>10. /\ DOMAIN queued' = Ids /\ DOMAIN accepts' = Ids
         /\ \A r \in Removed : queued'[r] = {} /\ accepts'[r] = {}
    BY <2>1 DEF Removed
  <2>11. \A i \in Ids \ Removed :
             /\ queued[i] \ moved \subseteq queued'[i] /\ accepts[i] \ moved \subseteq accepts'[i]
             /\ queued'[i] \subseteq queued[i] /\ accepts'[i] \subseteq accepts[i]
    BY <2>8, <2>9
  <2>12. \A i, j \in Ids : InMap(i) /\ j \in moved /\ sock[j].of = i /\ sock[j].broken =>
             j \notin queued'[i] \cup accepts'[i]
    <3> SUFFICES ASSUME NEW i \in Ids, NEW j \in moved, InMap(i), sock[j].of = i
                 PROVE  j \notin queued'[i] \cup accepts'[i]
      OBVIOUS
    <3>1. j \in gone
      BY <2>4 DEF ConnInv, ListsHold, InMap, Removed
    <3>2. j \in goneOf(i) /\ i \notin Removed
      BY <3>1 DEF InMap, Removed
    <3> HIDE DEF gone
    <3> QED
      BY <2>8, <2>9, <3>2
  <2> HIDE DEF gone, waiting, orphans
  <2>13. \A i \in Ids :
             /\ sock'[i].of = sock[i].of /\ sock'[i].attempt = sock[i].attempt
             /\ sock'[i].mux = sock[i].mux /\ sock'[i].broken = sock[i].broken
             /\ sock'[i].dial = sock[i].dial /\ sock'[i].listening = sock[i].listening
             /\ sock'[i].conn => sock[i].conn
    BY <2>1 DEF Shapes, Fields
  <2>14. \A i \in moved : sock'[i].where = "closed" /\ sock'[i].status = "CLOSED" /\ sock'[i].old = closing
    BY <2>1, <2>6, <2>7 DEF Shapes, Fields
  <2>15. \A i \in Removed : sock'[i].where = "deleted" /\ sock'[i].status = sock[i].status
    BY <2>1 DEF Shapes, Fields, Removed
  <2>16. \A i \in Ids \ (Removed \cup moved) :
             /\ sock'[i].where = sock[i].where /\ sock'[i].status = sock[i].status
             /\ sock'[i].old = sock[i].old
    BY <2>1 DEF Shapes, Fields
  <2>17. owned \ moved \subseteq owned'
    BY <1>1
  <2>18. \A r \in Removed : queued[r] \subseteq moved
    BY <2>5
  <2> HIDE DEF moved
  <2>19. Collected(moved)
    BY <2>1, <2>6, <2>10, <2>11, <2>12, <2>13, <2>14, <2>15, <2>16, <2>17, <2>18 DEF Collected
  <2> QED
    BY <1>1, <2>6, <2>19
<1> QED
  BY <1>2, <1>3

LEMMA ScanConnInv ==
    ASSUME Shapes, CloseInv, ConnInv, Scan
    PROVE  ConnInv'
<1>1. UNCHANGED <<nextId, requests, acceptLock, acc, closer, worker>> /\ owned' \subseteq owned
  BY ScanConnections
<1>2. \A j : (Taken(j)' <=> Taken(j)) /\ (InHand(j)' <=> InHand(j)) /\ (BeingClosed(j)' <=> BeingClosed(j))
  BY <1>1 DEF Taken, InHand, BeingClosed
<1>3. CASE UNCHANGED <<sock, queued, accepts>> /\ crashed' = "remove"
  <2>1. \A j \in Ids : /\ (Live(j)' <=> Live(j)) /\ (InMap(j)' <=> InMap(j))
                       /\ Live(j) => sock[j].of \in Ids
    BY <1>3 DEF Live, InMap, ConnInv, Connections
  <2>2. closer.at = "move" => closer.on \notin owned'
    BY <1>1 DEF ConnInv, CloserIsDone
  <2>3. MoreShapes' /\ AcceptPlaces' /\ Takers' /\ NewConnection' /\ LiveAreHeld'
    BY <1>1, <1>3 DEF ConnInv, MoreShapes, AcceptPlaces, Takers, NewConnection, LiveAreHeld
  <2>4. ListsHold' /\ OnePerAttempt' /\ LiveAreListed'
    BY <1>1, <1>2, <1>3, <2>1 DEF ConnInv, ListsHold, OnePerAttempt, LiveAreListed
  <2>5. HeldOnce'
    BY <1>1, <1>2, <1>3 DEF ConnInv, HeldOnce
  <2> QED
    BY <1>1, <1>3, <2>2, <2>3, <2>4, <2>5, SockKept DEF ConnInv
<1>4. ASSUME NEW moved \in SUBSET Ids, Collected(moved) PROVE ConnInv'
  <2> DEFINE Gone == moved \cup Removed
  <2>1. /\ \A i \in Ids :
               /\ sock'[i].of = sock[i].of /\ sock'[i].attempt = sock[i].attempt
               /\ sock'[i].mux = sock[i].mux /\ sock'[i].broken = sock[i].broken
               /\ sock'[i].dial = sock[i].dial /\ sock'[i].listening = sock[i].listening
               /\ sock'[i].conn => sock[i].conn
        /\ UNCHANGED crashed /\ DOMAIN queued' = Ids /\ DOMAIN accepts' = Ids
    BY <1>4 DEF Collected
  <2>2. \A i \in moved :
            /\ sock[i].where = "sockets" /\ (sock[i].broken \/ \E r \in Removed : i \in queued[r])
            /\ sock'[i].where = "closed" /\ sock'[i].status = "CLOSED" /\ sock'[i].old = closing
    BY <1>4 DEF Collected, InMap
  <2>3. \A i \in Removed : /\ sock[i].where = "closed" /\ sock[i].old
                           /\ sock'[i].where = "deleted" /\ sock'[i].status = sock[i].status
    BY <1>4 DEF Collected, Removed
  <2>4. \A i \in Ids \ (Removed \cup moved) :
            /\ sock'[i].where = sock[i].where /\ sock'[i].status = sock[i].status
            /\ sock'[i].old = sock[i].old
    BY <1>4 DEF Collected
  <2>5. \A i \in Ids : queued'[i] \subseteq queued[i] /\ accepts'[i] \subseteq accepts[i]
    BY <1>4 DEF Collected
  \* A listener is neither broken nor a connection.
  <2>6. \A i \in moved : sock[i].status # "LISTENING"
    BY <2>2, IdsAreNotNone DEF ConnInv, Listeners, ListsHold, Removed
  <2>7. \A i \in Ids : sock'[i].status = sock[i].status \/
                       (sock'[i].status = "CLOSED" /\ sock[i].status # "LISTENING")
    BY <2>2, <2>3, <2>4, <2>6
  <2>8. MoreShapes' /\ NumbersLeft'
    <3>1. \A i \in Ids : sock'[i].where = "none" <=> sock[i].where = "none"
      BY <2>2, <2>3, <2>4
    <3> QED
      BY <1>1, <2>1, <3>1, NumbersKept DEF ConnInv, MoreShapes
  <2>9. Listeners'
    BY <2>1, <2>2, <2>3, <2>4, <2>7 DEF ConnInv, Listeners, InMap
  <2>10. Connections'
    BY <1>1, <2>1, <2>2, <2>3, <2>4, <2>7 DEF ConnInv, Connections
  <2>11. WorkerHasListener' /\ CloserIsDone'
    BY <1>1, <2>1, <2>2, <2>3, <2>4, <2>7 DEF ConnInv, WorkerHasListener, CloserIsDone, Shapes
  <2>12. AcceptPlaces'
    <3>1. ASSUME NEW a \in Acceptors, acc[a].at # "idle"
          PROVE  /\ acc[a].on \in Ids /\ acc[a].on \notin Removed /\ ~closing
                 /\ sock[acc[a].on].of = None /\ sock[acc[a].on].where \in {"sockets", "closed"}
                 /\ sock[acc[a].on].where = "closed" => ~sock[acc[a].on].old
      BY <2>3, <3>1 DEF ConnInv, AcceptPlaces, CloseInv, NothingAfterCleanup
    <3>2. ASSUME NEW a \in Acceptors, acc[a].at # "idle"
          PROVE  /\ sock'[acc[a].on].where \in {"sockets", "closed"}
                 /\ sock'[acc[a].on].where = "closed" => ~sock'[acc[a].on].old
      <4>1. CASE acc[a].on \in moved
        BY <2>2, <3>1, <3>2, <4>1
      <4>2. CASE acc[a].on \notin moved
        BY <2>4, <3>1, <3>2, <4>2
      <4> QED
        BY <4>1, <4>2
    <3> QED
      BY <1>1, <2>1, <2>7, <3>1, <3>2 DEF ConnInv, AcceptPlaces
  <2>13. \A i \in Ids : /\ InMap(i)' <=> InMap(i) /\ i \notin moved
                        /\ InMap(i) => i \notin Removed
                        /\ Live(i)' => Live(i) /\ i \notin moved
                        /\ Live(i) => sock[i].of \in Ids
    BY <2>1, <2>2, <2>3, <2>4 DEF InMap, Live, ConnInv, Connections
  <2>14. ListsHold'
    <3>1. ASSUME NEW i \in Ids, NEW j \in queued'[i] \cup accepts'[i], InMap(i), InMap(j)
          PROVE  j \notin moved
      <4>1. j \in Ids /\ sock[j].of = i /\ i \notin Removed
        BY <2>5, <2>13, <3>1 DEF ConnInv, ListsHold
      <4>2. \A r \in Removed : j \notin queued[r]
        BY <4>1 DEF ConnInv, ListsHold, Removed
      <4>3. j \in moved => sock[j].broken
        BY <2>2, <4>2
      <4> QED
        BY <1>4, <3>1, <4>1, <4>3 DEF Collected
    <3>2. \A i \in Ids : sock'[i].where = "deleted" => queued'[i] = {}
      <4>1. \A i \in Removed : queued'[i] = {}
        BY <1>4 DEF Collected
      <4>2. \A i \in Ids : sock[i].where = "deleted" => queued'[i] = {}
        BY <2>5 DEF ConnInv, ListsHold
      <4> QED
        BY <2>2, <2>4, <4>1, <4>2
    <3> QED
      BY <2>1, <2>5, <2>13, <3>1, <3>2 DEF ConnInv, ListsHold
  <2>15. HeldOnce'
    BY <1>1, <1>2, <2>2, <2>3, <2>4, <2>5 DEF ConnInv, HeldOnce
  <2>16. Takers'
    BY <1>1, <2>1 DEF ConnInv, Takers
  <2>17. NewConnection'
    <3>1. ASSUME worker.at \in {"insert", "queue"}
          PROVE  /\ worker.ns \in Ids /\ worker.ns \notin moved /\ worker.ns \notin Removed
                 /\ worker.ls \in Ids
      BY <2>2, <2>3, <3>1 DEF ConnInv, NewConnection, Removed, Shapes
    <3>2. worker.at # "idle" => worker.ls \in Ids
      BY DEF Shapes
    <3> QED
      BY <1>1, <2>1, <2>4, <2>5, <3>1, <3>2 DEF ConnInv, NewConnection, ListsHold
  <2>18. OnePerAttempt'
    BY <2>1, <2>5, <2>13 DEF ConnInv, OnePerAttempt, ListsHold
  <2>19. \A i \in Ids \ Removed : /\ queued[i] \ moved \subseteq queued'[i]
                                  /\ accepts[i] \ moved \subseteq accepts'[i]
    BY <1>4 DEF Collected
  <2>20. LiveAreListed' /\ OneSocketPerAttempt'
    BY <1>2, <2>1, <2>13, <2>19 DEF ConnInv, LiveAreListed, OneSocketPerAttempt
  <2>21. LiveAreHeld'
    <3>1. \A r \in Removed : queued[r] \subseteq moved
      BY <1>4 DEF Collected
    <3>2. owned \ moved \subseteq owned'
      BY <1>4 DEF Collected
    <3> QED
      BY <1>2, <2>1, <2>13, <2>19, <3>1, <3>2 DEF ConnInv, LiveAreHeld
  <2> QED
    BY <2>8, <2>9, <2>10, <2>11, <2>12, <2>14, <2>15, <2>16, <2>17, <2>18, <2>20, <2>21 DEF ConnInv
<1> QED
  BY <1>3, <1>4, ScanConnections

LEMMA NextConnInv == Shapes /\ CloseInv /\ ConnInv /\ [Next]_vars => Shapes' /\ ConnInv'
<1> SUFFICES ASSUME Shapes, CloseInv, ConnInv, [Next]_vars PROVE Shapes' /\ ConnInv'
  OBVIOUS
<1>1. Shapes'
  BY NextShapes
<1>2. CASE UNCHANGED vars
  <2>1. /\ UNCHANGED <<sock, nextId, requests, owned, queued, accepts, acceptLock, acc, closer, worker,
                       crashed>>
    BY <1>2 DEF vars, appVars, queueVars, endVars
  <2>2. AcceptPlaces' /\ CloserIsDone'
    BY <2>1 DEF ConnInv, AcceptPlaces, CloserIsDone
  <2> QED
    BY <1>1, <2>1, <2>2, WakeConnInv DEF ConnInv, MoreShapes
<1>3. CASE AppStep
  BY <1>1, <1>3, NewSocketConnInv, CleanupConnInv, TuneConnInv, CloseConnInv, AcceptConnInv DEF AppStep
<1>4. CASE PeerStep
  BY <1>1, <1>4, TuneConnInv, RequestConnInv DEF PeerStep
<1>5. CASE WorkerStep
  BY <1>1, <1>5, KnownConnInv, CreateConnInv, InsertConnInv, QueueConnInv, SignalConnInv DEF WorkerStep
<1>6. CASE CloseStep \/ Scan \/ Second
  BY <1>1, <1>6, MoveConnInv, SyncConnInv, ScanConnInv, SecondConnInv DEF CloseStep
<1>7. ASSUME NEW a \in Acceptors, AcceptStep(a) PROVE ConnInv'
  BY <1>7, AcceptConnInv, TakeConnInv, LocateConnInv DEF AcceptStep
<1>8. ASSUME NEW i \in Ids, DialStep(i) PROVE ConnInv'
  BY <1>1, <1>8, TuneConnInv
<1> QED
  BY <1>1, <1>2, <1>3, <1>4, <1>5, <1>6, <1>7, <1>8 DEF Next

-----------------------------------------------------------------------------
(* What follows.                                                           *)

ConnectionsInv == Shapes /\ CloseInv /\ ConnInv

LEMMA InvGivesConnections ==
    ConnectionsInv => NoAcceptOnDeleted /\ OneSocketPerAttempt /\ ListedAreInMap /\ NoneLeftInQueue
<1> SUFFICES ASSUME ConnectionsInv
             PROVE  NoAcceptOnDeleted /\ OneSocketPerAttempt /\ ListedAreInMap /\ NoneLeftInQueue
  OBVIOUS
<1> USE DEF ConnectionsInv, ConnInv
<1>1. NoAcceptOnDeleted
  BY DEF AcceptPlaces, NoAcceptOnDeleted
<1>2. ListedAreInMap
  BY DEF ListsHold, ListedAreInMap
<1>3. NoneLeftInQueue
  <2> SUFFICES ASSUME crashed = "no", NEW j \in Ids, Live(j), sock[sock[j].of].where = "deleted", j \notin owned
               PROVE  FALSE
    BY DEF NoneLeftInQueue
  <2>1. sock[j].of \in Ids /\ InMap(j)
    BY DEF Live, Connections
  <2>2. ~Taken(j)
    BY <2>1 DEF Taken, Takers, AcceptPlaces
  <2>3. ~InHand(j)
    BY DEF InHand, NewConnection, WorkerHasListener, Listeners, InMap, Shapes
  <2>4. j \notin queued[sock[j].of]
    BY <2>1 DEF ListsHold
  <2> QED
    BY <2>2, <2>3, <2>4 DEF LiveAreHeld
<1> QED
  BY <1>1, <1>2, <1>3

LEMMA ConnectionsHold == Spec => []ConnectionsInv
<1>1. Init => ConnectionsInv
  BY InitShapes, InitCloseInv, InitConnInv DEF ConnectionsInv
<1>2. ConnectionsInv /\ [Next]_vars => ConnectionsInv'
  BY NextCloseInv, NextConnInv DEF ConnectionsInv
<1> QED
  BY <1>1, <1>2, PTL DEF Spec

\* api.cpp: no thread is in accept at a listener that garbage collection has deleted, for
\* any number of sockets and threads: closing wakes those who wait, through the accept
\* lock, before a second passes.
THEOREM NoAcceptIsLost == Spec => []NoAcceptOnDeleted
BY ConnectionsHold, InvGivesConnections, PTL

\* api.cpp: however often a handshake is repeated, and however its connections break, are
\* accepted, closed and collected, a listener has one working connection of an attempt.
THEOREM AttemptsAreSingle == Spec => []OneSocketPerAttempt
BY ConnectionsHold, InvGivesConnections, PTL

\* api.cpp: the sets of a listener that is in m_Sockets name only sockets that are there
\* too, so newConnection and accept do not follow a socket that has gone.
THEOREM ListsAreInMap == Spec => []ListedAreInMap
BY ConnectionsHold, InvGivesConnections, PTL

\* api.cpp: when a listener is deleted, each of its connections that still works is one the
\* application holds; those in its queue have been closed, and a thread in accept has none.
THEOREM QueueIsEmptied == Spec => []NoneLeftInQueue
BY ConnectionsHold, InvGivesConnections, PTL
=============================================================================
