----------------------------- MODULE UdtSockets -----------------------------
(***************************************************************************)
(* The life of UDT sockets (UDT4/src/api.cpp): creation, bind, listen,     *)
(* connect and close by the application, connections made by a handshake   *)
(* at a listener and taken by accept, the garbage collection thread, and   *)
(* the multiplexers (a UDP port with its two queues) that sockets share.   *)
(*                                                                         *)
(* A closed socket is moved from m_Sockets to m_ClosedSockets and deleted  *)
(* a second later, so that calls that hold a pointer to it can finish.     *)
(* m_ControlLock protects the maps and the multiplexers: what is done      *)
(* under it is one step here.  A listener's m_AcceptLock protects its two  *)
(* sets; only accept keeps it from one step to the next.  A listener's     *)
(* m_ConnectionLock keeps CUDT::close away while a handshake is handled.   *)
(*                                                                         *)
(* Socket numbers count down, so the first of a set is the newest.         *)
(***************************************************************************)
EXTENDS Integers, FiniteSets, FiniteSetsExt

CONSTANTS
    MaxApp,         \* bound: sockets the application makes itself
    Acceptors,      \* application threads that call accept
    Attempts,       \* the peers' connection attempts: address, socket and ISN
    MaxRequests,    \* bound: handshakes received, repetitions included
    Backlog,        \* m_uiBackLog
    Cleaning        \* the application may call cleanup

Free == "free"

ASSUME SocketsAssumption ==
    /\ MaxApp \in Nat /\ MaxRequests \in Nat /\ Backlog \in Nat \ {0}
    /\ Cleaning \in BOOLEAN /\ Free \notin Acceptors

\* Enough numbers: a handshake makes one socket at most.
MaxSockets == MaxApp + MaxRequests

Ids == 1 .. MaxSockets

VARIABLES
    sock,           \* per number: the CUDTSocket with its CUDT
    nextId,         \* the next number
    requests,       \* handshakes received
    owned,          \* open sockets the application knows
    queued,         \* per listener: m_pQueuedSockets
    accepts,        \* per listener: m_pAcceptSockets
    acceptLock,     \* per listener: who holds m_AcceptLock between two steps
    refs,           \* per multiplexer, named by its first socket: m_iRefCount
    acc,            \* per acceptor: where it is, its listener, the socket it took
    closer,         \* the thread that closes: where it is, its socket, the status it had
    worker,         \* the receive worker: where it is, listener, attempt, new socket
    closing,        \* cleanup was called
    crashed         \* a null CUDTSocket was followed, in "accept" or "remove"

appVars    == <<nextId, requests, owned>>
queueVars  == <<queued, accepts, acceptLock>>
endVars    == <<closing, crashed>>
vars == <<sock, appVars, queueVars, refs, acc, closer, worker, endVars>>

None == 0

\* where: "none", in m_Sockets, in m_ClosedSockets, or deleted.  conn, listening and
\* broken are the CUDT's flags, unread its m_iBrokenCounter while data is unread, old
\* says that its time stamp is a second past, named that m_pSelfAddr has its port,
\* dial where a connect on it is.
NewCUDTSocket ==
    [where |-> "sockets", status |-> "INIT", conn |-> FALSE, listening |-> FALSE,
     broken |-> FALSE, unread |-> 0, old |-> FALSE, of |-> None, attempt |-> None,
     mux |-> None, named |-> FALSE, dial |-> "no"]

NotAccepting == [at |-> "idle", on |-> None, took |-> None]

NotClosing == [at |-> "idle", on |-> None, status |-> "INIT"]

NotHandling == [at |-> "idle", ls |-> None, req |-> None, ns |-> None]

Init ==
    /\ sock = [i \in Ids |-> [NewCUDTSocket EXCEPT !.where = "none"]]
    /\ nextId = MaxSockets /\ requests = 0 /\ owned = {}
    /\ queued = [i \in Ids |-> {}] /\ accepts = [i \in Ids |-> {}]
    /\ acceptLock = [i \in Ids |-> Free]
    /\ refs = [i \in Ids |-> 0]
    /\ acc = [a \in Acceptors |-> NotAccepting] /\ closer = NotClosing /\ worker = NotHandling
    /\ closing = FALSE /\ crashed = "no"

\* What locate() finds.
Located(i) == sock[i].where = "sockets" /\ sock[i].status # "CLOSED"

InMap(i) == sock[i].where = "sockets"

-----------------------------------------------------------------------------
(* The application makes, binds and connects sockets.                      *)

NewSocket ==
    /\ ~closing
    /\ Cardinality({i \in Ids : sock[i].where # "none" /\ sock[i].of = None}) < MaxApp
    /\ sock' = [sock EXCEPT ![nextId] = NewCUDTSocket]
    /\ owned' = owned \cup {nextId} /\ nextId' = nextId - 1
    /\ UNCHANGED <<requests, queueVars, refs, acc, closer, worker, endVars>>

\* updateMux: a bound address whose port a multiplexer has shares it.
Bind(i) ==
    /\ i \in owned /\ Located(i) /\ sock[i].status = "INIT"
    /\ \E m \in {j \in Ids : refs[j] > 0} \cup {i} :
         /\ refs' = [refs EXCEPT ![m] = @ + 1]
         /\ sock' = [sock EXCEPT ![i].mux = m, ![i].named = TRUE, ![i].status = "OPENED"]
    /\ UNCHANGED <<appVars, queueVars, acc, closer, worker, endVars>>

\* One listener for each multiplexer.
Listen(i) ==
    /\ i \in owned /\ Located(i) /\ sock[i].status = "OPENED" /\ sock[i].dial = "no"
    /\ ~\E j \in Ids : sock[j].listening /\ sock[j].mux = sock[i].mux
    /\ sock' = [sock EXCEPT ![i].listening = TRUE, ![i].status = "LISTENING"]
    /\ UNCHANGED <<appVars, queueVars, refs, acc, closer, worker, endVars>>

\* connect, with a multiplexer of its own for a socket that was not bound.
Dial(i) ==
    /\ i \in owned /\ Located(i) /\ sock[i].dial = "no"
    /\ \/ /\ sock[i].status = "INIT"
          /\ refs' = [refs EXCEPT ![i] = 1]
          /\ sock' = [sock EXCEPT ![i].mux = i, ![i].status = "OPENED", ![i].dial = "dialling"]
       \/ /\ sock[i].status = "OPENED"
          /\ sock' = [sock EXCEPT ![i].dial = "dialling"]
          /\ UNCHANGED refs
    /\ UNCHANGED <<appVars, queueVars, acc, closer, worker, endVars>>

\* CUDT::connect, under m_ConnectionLock: connected, or an exception.
DialResult(i) ==
    /\ sock[i].dial = "dialling"
    /\ \/ sock' = [sock EXCEPT ![i].dial = "dialled", ![i].conn = TRUE]
       \/ sock' = [sock EXCEPT ![i].dial = "no"]
    /\ UNCHANGED <<appVars, queueVars, refs, acc, closer, worker, endVars>>

\* The status and the addresses come later, whatever close did meanwhile.
DialName(i) ==
    /\ sock[i].dial = "dialled"
    /\ sock' = [sock EXCEPT ![i].dial = "done", ![i].status = "CONNECTED", ![i].named = TRUE]
    /\ UNCHANGED <<appVars, queueVars, refs, acc, closer, worker, endVars>>

-----------------------------------------------------------------------------
(* The receive worker: CUDT::listen and newConnection.                     *)

\* A handshake reaches the listener, whose m_ConnectionLock is held from here on.
Request(i, a) ==
    /\ worker.at = "idle" /\ requests < MaxRequests /\ sock[i].listening
    /\ requests' = requests + 1
    /\ worker' = [at |-> "known", ls |-> i, req |-> a, ns |-> None]
    /\ UNCHANGED <<sock, nextId, owned, queueVars, refs, acc, closer, endVars>>

\* Mutant: only connections not yet accepted are looked up.
QueuedOf(i) == queued[i]

\* The sockets newConnection looks the attempt up in.
LookedUp(i) == queued[i] \cup accepts[i]

\* A connection that exists is answered for again; one that has broken is taken off
\* the sets and replaced.
KnownConnection ==
    /\ worker.at = "known" /\ acceptLock[worker.ls] = Free
    /\ LET known == {q \in LookedUp(worker.ls) : InMap(q) /\ sock[q].attempt = worker.req}
       IN \/ known = {} /\ worker' = [worker EXCEPT !.at = "create"]
             /\ UNCHANGED <<sock, queued, accepts>>
          \/ \E q \in known :
               IF sock[q].broken
               THEN /\ sock' = [sock EXCEPT ![q].status = "CLOSED"]
                    /\ queued' = [queued EXCEPT ![worker.ls] = @ \ {q}]
                    /\ accepts' = [accepts EXCEPT ![worker.ls] = @ \ {q}]
                    /\ worker' = [worker EXCEPT !.at = "create"]
               ELSE worker' = NotHandling /\ UNCHANGED <<sock, queued, accepts>>
    /\ UNCHANGED <<appVars, acceptLock, refs, acc, closer, endVars>>

\* Mutant: the shared multiplexer is not counted.
NotShared(m) == refs

\* updateMux for a listener's connection.
Shared(m) == [refs EXCEPT ![m] = @ + 1]

\* Too many wait to be accepted; or a step fails (no memory, no thread), and the socket
\* is given up with the number and the share of the multiplexer it had; or it is made.
CreateConnection ==
    /\ worker.at = "create"
    /\ \/ /\ Cardinality(queued[worker.ls]) >= Backlog
          /\ worker' = NotHandling /\ UNCHANGED <<sock, nextId, refs>>
       \/ /\ Cardinality(queued[worker.ls]) < Backlog
          /\ worker' = NotHandling /\ nextId' = nextId - 1
          /\ refs' \in {refs, Shared(sock[worker.ls].mux)}
          /\ UNCHANGED sock
       \/ /\ Cardinality(queued[worker.ls]) < Backlog
          /\ sock' = [sock EXCEPT ![nextId] =
                 [NewCUDTSocket EXCEPT !.where = "none", !.status = "CONNECTED", !.conn = TRUE,
                     !.of = worker.ls, !.attempt = worker.req,
                     !.mux = sock[worker.ls].mux, !.named = TRUE]]
          /\ nextId' = nextId - 1
          /\ refs' = Shared(sock[worker.ls].mux)
          /\ worker' = [worker EXCEPT !.at = "insert", !.ns = nextId]
    /\ UNCHANGED <<requests, owned, queueVars, acc, closer, endVars>>

InsertConnection ==
    /\ worker.at = "insert"
    /\ sock' = [sock EXCEPT ![worker.ns].where = "sockets"]
    /\ worker' = [worker EXCEPT !.at = "queue"]
    /\ UNCHANGED <<appVars, queueVars, refs, acc, closer, endVars>>

QueueConnection ==
    /\ worker.at = "queue" /\ acceptLock[worker.ls] = Free
    /\ queued' = [queued EXCEPT ![worker.ls] = @ \cup {worker.ns}]
    /\ worker' = [worker EXCEPT !.at = "signal"]
    /\ UNCHANGED <<sock, appVars, accepts, acceptLock, refs, acc, closer, endVars>>

Waiting(i) == {a \in Acceptors : acc[a].at = "waiting" /\ acc[a].on = i}

\* Mutant: the signal is forgotten.
NobodyToWake(i) == {}

\* The threads one of which pthread_cond_signal wakes.
ToWake(i) == Waiting(i)

SignalAccept ==
    /\ worker.at = "signal" /\ acceptLock[worker.ls] = Free
    /\ \/ ToWake(worker.ls) = {} /\ UNCHANGED acc
       \/ \E a \in ToWake(worker.ls) : acc' = [acc EXCEPT ![a].at = "woken"]
    /\ worker' = NotHandling
    /\ UNCHANGED <<sock, appVars, queueVars, refs, closer, endVars>>

\* The peer closes or falls silent, or sends nonsense; the application may have data
\* to read, for which garbage collection waits.
Break(i) ==
    /\ InMap(i) /\ sock[i].conn /\ ~sock[i].broken
    /\ worker.at # "idle" => sock[worker.ls].mux # sock[i].mux
    /\ \E n \in {0, 1} : sock' = [sock EXCEPT ![i].broken = TRUE, ![i].unread = n]
    /\ UNCHANGED <<appVars, queueVars, refs, acc, closer, worker, endVars>>

-----------------------------------------------------------------------------
(* accept, in blocking mode.                                               *)

Accept(a, i) ==
    /\ ~closing /\ acc[a].at = "idle" /\ i \in owned /\ Located(i) /\ sock[i].status = "LISTENING"
    /\ acc' = [acc EXCEPT ![a].at = "lock", ![a].on = i]
    /\ UNCHANGED <<sock, appVars, queueVars, refs, closer, worker, endVars>>

\* A connection is taken; or there is none, and the thread is about to wait with the
\* lock held; or the listener is closed, and accept fails.
AcceptTake(a) ==
    /\ acc[a].at = "lock" /\ acceptLock[acc[a].on] = Free
    /\ LET i == acc[a].on
       IN \/ /\ queued[i] # {}
             /\ queued' = [queued EXCEPT ![i] = @ \ {Min(queued[i])}]
             /\ accepts' = [accepts EXCEPT ![i] = @ \cup {Min(queued[i])}]
             /\ acc' = [acc EXCEPT ![a].at = "locate", ![a].took = Min(queued[i])]
             /\ UNCHANGED acceptLock
          \/ /\ queued[i] = {} /\ sock[i].status = "LISTENING"
             /\ acceptLock' = [acceptLock EXCEPT ![i] = a]
             /\ acc' = [acc EXCEPT ![a].at = "check"]
             /\ UNCHANGED <<queued, accepts>>
          \/ /\ queued[i] = {} /\ sock[i].status # "LISTENING"
             /\ acc' = [acc EXCEPT ![a] = NotAccepting]
             /\ UNCHANGED <<queued, accepts, acceptLock>>
    /\ UNCHANGED <<sock, appVars, refs, closer, worker, endVars>>

\* pthread_cond_wait.
AcceptWait(a) ==
    /\ acc[a].at = "check"
    /\ acceptLock' = [acceptLock EXCEPT ![acc[a].on] = Free]
    /\ acc' = [acc EXCEPT ![a].at = "waiting"]
    /\ UNCHANGED <<sock, appVars, queued, accepts, refs, closer, worker, endVars>>

AcceptWoken(a) ==
    /\ acc[a].at = "woken" /\ acceptLock[acc[a].on] = Free
    /\ acc' = [acc EXCEPT ![a] = IF sock[@.on].status = "LISTENING" THEN [@ EXCEPT !.at = "lock"]
                                                                   ELSE NotAccepting]
    /\ UNCHANGED <<sock, appVars, queueVars, refs, closer, worker, endVars>>

\* locate(u)->m_iIPversion: a socket garbage collection has moved meanwhile is not
\* found, and the null pointer is followed.
AcceptLocate(a) ==
    /\ acc[a].at = "locate"
    /\ IF Located(acc[a].took)
       THEN owned' = owned \cup {acc[a].took} /\ UNCHANGED crashed
       ELSE crashed' = "accept" /\ UNCHANGED owned
    /\ acc' = [acc EXCEPT ![a] = NotAccepting]
    /\ UNCHANGED <<sock, nextId, requests, queueVars, refs, closer, worker, closing>>

-----------------------------------------------------------------------------
(* close.                                                                  *)

\* CUDT::close waits for m_ConnectionLock.
Close(i) ==
    /\ closer.at = "idle" /\ i \in owned /\ Located(i)
    /\ sock[i].dial # "dialling" /\ ~(worker.at # "idle" /\ worker.ls = i)
    /\ sock' = [sock EXCEPT ![i].conn = FALSE, ![i].listening = FALSE]
    /\ owned' = owned \ {i}
    /\ closer' = [at |-> "move", on |-> i, status |-> sock[i].status]
    /\ UNCHANGED <<nextId, requests, queueVars, refs, acc, worker, endVars>>

\* Mutant: the accept lock is not passed through before the broadcast.
BroadcastAtOnce == "wake"

\* What follows for a listener.
AfterMove == "sync"

CloseMove ==
    LET i  == closer.on
        of == sock[i].of
        listed == of # None /\ InMap(of)
    IN /\ closer.at = "move" /\ (listed => acceptLock[of] = Free)
       /\ sock' = [sock EXCEPT ![i].status = "CLOSED", ![i].where = "closed", ![i].old = FALSE]
       /\ accepts' = IF listed THEN [accepts EXCEPT ![of] = @ \ {i}] ELSE accepts
       /\ closer' = IF closer.status = "LISTENING" THEN [closer EXCEPT !.at = AfterMove]
                                                   ELSE NotClosing
       /\ UNCHANGED <<appVars, queued, acceptLock, refs, acc, worker, endVars>>

\* The accept lock is taken and given back: a thread that has seen LISTENING waits by
\* now.
CloseSync ==
    /\ closer.at = "sync" /\ acceptLock[closer.on] = Free
    /\ closer' = [closer EXCEPT !.at = "wake"]
    /\ UNCHANGED <<sock, appVars, queueVars, refs, acc, worker, endVars>>

CloseWake ==
    /\ closer.at = "wake"
    /\ acc' = [a \in Acceptors |->
           IF a \in Waiting(closer.on) THEN [acc[a] EXCEPT !.at = "woken"] ELSE acc[a]]
    /\ closer' = NotClosing
    /\ UNCHANGED <<sock, appVars, queueVars, refs, worker, endVars>>

-----------------------------------------------------------------------------
(* Garbage collection.                                                     *)

\* Mutants: a broken socket that has data keeps waiting; the accepted sockets of a
\* listener are not updated; a removed listener's queue is forgotten.
WaitsOn(i) == 1
ErasedFromQueue(s, gone) == s
QueueKept(removed, queues) == {}

UnreadAfter(i) == sock[i].unread - 1

\* Broken connections are erased from the accepted sockets of their listener.
Erased(s, gone) == s \ gone

\* The connections of removed listeners that were never accepted.
Unaccepted(removed, queues) == UNION {queues[i] : i \in removed}

\* checkBrokenSockets and removeSocket, under m_ControlLock.
Scan ==
    LET gone    == {i \in Ids : InMap(i) /\ sock[i].broken /\ sock[i].unread = 0}
        waiting == {i \in Ids : InMap(i) /\ sock[i].broken /\ sock[i].unread > 0}
        removed == {i \in Ids : sock[i].where = "closed" /\ sock[i].old}
        goneOf(i) == {j \in gone : sock[j].of = i}
        queues  == [i \in Ids |-> IF InMap(i) THEN queued[i] \ goneOf(i) ELSE queued[i]]
        orphans == Unaccepted(removed, queues)
        users(m) == Cardinality({i \in removed : sock[i].mux = m /\ sock[i].named})
        locked  == (removed \cup {sock[j].of : j \in gone}) \ {None}
    IN /\ \A i \in locked : acceptLock[i] = Free
       /\ gone \cup waiting \cup removed # {}
       /\ IF \E q \in orphans : ~InMap(q) \/ q \in gone
          THEN crashed' = "remove" /\ UNCHANGED <<sock, queued, accepts, refs>>
          ELSE /\ sock' = [i \in Ids |->
                     IF i \in removed THEN [sock[i] EXCEPT !.where = "deleted"]
                     ELSE IF i \in gone \cup orphans
                     THEN [sock[i] EXCEPT !.where = "closed", !.status = "CLOSED", !.old = closing,
                                          !.conn = @ /\ i \in gone]
                     ELSE IF i \in waiting THEN [sock[i] EXCEPT !.unread = UnreadAfter(i)]
                     ELSE sock[i]]
               /\ queued' = [i \in Ids |-> IF i \in removed THEN {} ELSE queues[i]]
               /\ accepts' = [i \in Ids |-> IF i \in removed THEN {}
                                            ELSE IF InMap(i) THEN Erased(accepts[i], goneOf(i))
                                            ELSE accepts[i]]
               /\ refs' = [m \in Ids |-> IF refs[m] > users(m) THEN refs[m] - users(m) ELSE 0]
               /\ UNCHANGED crashed
       /\ owned' = owned \ gone
       /\ UNCHANGED <<nextId, requests, acceptLock, acc, closer, worker, closing>>

Quiet ==
    /\ \A a \in Acceptors : acc[a].at \in {"idle", "waiting"}
    /\ closer.at = "idle" /\ worker.at = "idle" /\ \A i \in Ids : sock[i].dial # "dialled"

\* A second passes: no thread that can run needs as long for what it is doing.
Second ==
    LET closed == {i \in Ids : sock[i].where = "closed" /\ ~sock[i].old}
    IN /\ Quiet /\ closed # {}
       /\ sock' = [i \in Ids |-> IF i \in closed THEN [sock[i] EXCEPT !.old = TRUE] ELSE sock[i]]
       /\ UNCHANGED <<appVars, queueVars, refs, acc, closer, worker, endVars>>

\* cleanup, called when no other call is in progress: every socket is closed and its
\* time stamp put back.
Cleanup ==
    /\ Cleaning /\ ~closing /\ Quiet /\ (\A a \in Acceptors : acc[a].at = "idle")
    /\ \A i \in Ids : sock[i].dial # "dialling"
    /\ closing' = TRUE /\ owned' = {}
    /\ sock' = [i \in Ids |->
           IF sock[i].where \in {"sockets", "closed"}
           THEN [sock[i] EXCEPT !.where = "closed", !.status = "CLOSED", !.conn = FALSE,
                                !.listening = FALSE, !.old = TRUE]
           ELSE sock[i]]
    /\ UNCHANGED <<nextId, requests, queueVars, refs, acc, closer, worker, crashed>>

-----------------------------------------------------------------------------
WorkerStep ==
    KnownConnection \/ CreateConnection \/ InsertConnection \/ QueueConnection \/ SignalAccept

AcceptStep(a) == AcceptTake(a) \/ AcceptWait(a) \/ AcceptWoken(a) \/ AcceptLocate(a)

CloseStep == CloseMove \/ CloseSync \/ CloseWake

DialStep(i) == DialResult(i) \/ DialName(i)

AppStep ==
    \/ NewSocket \/ Cleanup
    \/ \E i \in Ids : Bind(i) \/ Listen(i) \/ Dial(i) \/ Close(i) \/ \E a \in Acceptors : Accept(a, i)

PeerStep == \E i \in Ids : Break(i) \/ \E a \in Attempts : Request(i, a)

Next ==
    /\ crashed = "no"
    /\ \/ AppStep \/ PeerStep \/ WorkerStep \/ CloseStep \/ Scan \/ Second
       \/ \E a \in Acceptors : AcceptStep(a)
       \/ \E i \in Ids : DialStep(i)

Spec == Init /\ [][Next]_vars

\* Threads that can run do; a second passes in the end, however often calls are made.
Running(A) == crashed = "no" /\ A

Fairness ==
    /\ WF_vars(Running(WorkerStep)) /\ WF_vars(Running(CloseStep)) /\ WF_vars(Running(Scan))
    /\ \A a \in Acceptors : WF_vars(Running(AcceptStep(a)))
    /\ \A i \in Ids : WF_vars(Running(DialStep(i)))
    /\ SF_vars(Running(Second))

FairSpec == Spec /\ Fairness

-----------------------------------------------------------------------------
(* Properties.                                                             *)

TypeOK ==
    /\ \A i \in Ids :
         /\ sock[i].where \in {"none", "sockets", "closed", "deleted"}
         /\ sock[i].status \in {"INIT", "OPENED", "LISTENING", "CONNECTED", "CLOSED"}
         /\ sock[i].unread \in {0, 1} /\ sock[i].dial \in {"no", "dialling", "dialled", "done"}
         /\ queued[i] \subseteq Ids /\ accepts[i] \subseteq Ids
         /\ acceptLock[i] \in Acceptors \cup {Free}
         /\ refs[i] \in 0 .. MaxSockets
    /\ nextId \in 0 .. MaxSockets /\ owned \subseteq Ids
    /\ \A a \in Acceptors :
         /\ acc[a].at \in {"idle", "lock", "check", "waiting", "woken", "locate"}
         /\ {acc[a].on, acc[a].took} \subseteq Ids \cup {None}
    /\ closer.at \in {"idle", "move", "sync", "wake"}
    /\ worker.at \in {"idle", "known", "create", "insert", "queue", "signal"}
    /\ crashed \in {"no", "accept", "remove"}

\* A socket is kept a second "in order to prevent other methods from accessing invalid
\* address": no accept is still on a listener that is deleted, though it waits without
\* a limit.
NoAcceptOnDeleted ==
    \A a \in Acceptors : acc[a].at # "idle" => sock[acc[a].on].where # "deleted"

\* A connection made at a listener, as long as it works.
Live(i) == InMap(i) /\ sock[i].of # None /\ sock[i].conn /\ ~sock[i].broken

\* "this is a repeated connection request": at one listener an attempt has at most one
\* connection that is not broken, however often its handshake comes.
OneSocketPerAttempt ==
    \A i, j \in Ids :
        Live(i) /\ Live(j) /\ sock[i].of = sock[j].of /\ sock[i].attempt = sock[j].attempt
        => i = j

\* The sets of a listener name sockets of m_Sockets only: newConnection and accept
\* follow them there.
ListedAreInMap ==
    \A i \in Ids : InMap(i) => \A j \in queued[i] \cup accepts[i] : InMap(j)

\* A multiplexer, with the queues its sockets point to, is not deleted before them.
MuxOutlivesUsers ==
    \A i \in Ids : sock[i].mux # None /\ sock[i].where # "deleted" => refs[sock[i].mux] > 0

\* "close all un-accepted sockets in its queue": of a deleted listener's connections
\* only those the application has accepted still work.
NoneLeftInQueue ==
    crashed = "no" =>
        \A i \in Ids : Live(i) /\ sock[sock[i].of].where = "deleted" => i \in owned

\* A connection that is queued while a thread waits in accept is taken.
WaiterIsServed ==
    \A a \in Acceptors :
        acc[a].at = "waiting" /\ queued[acc[a].on] # {} ~>
            acc[a].at # "waiting" \/ queued[acc[a].on] = {} \/ crashed # "no"

\* What breaks or is closed is deleted in the end.
EverySocketReclaimed ==
    \A i \in Ids : sock[i].where = "closed" \/ (InMap(i) /\ sock[i].broken) ~>
                       sock[i].where = "deleted" \/ crashed # "no"

\* removeSocket finds in m_Sockets the connections queued at the listener it removes.
RemoveFindsQueued == crashed # "remove"
=============================================================================
