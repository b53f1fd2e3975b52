---------------------------- MODULE UdtfsServer ----------------------------
(***************************************************************************)
(* The udtfs server (udtfs/udtfs_server.cpp): the loop that accepts TCP    *)
(* clients and forks a child for each, the SIGCHLD and SIGINT handlers     *)
(* that share _num_clients with it, and what each child does until it      *)
(* serves commands (client_handler, server_accept_udt): it tells its       *)
(* client a UDT port, binds it, and accepts one data connection on it.     *)
(*                                                                         *)
(* _num_clients is a volatile int: an increment or a decrement is a load   *)
(* and a store, and a signal can come between them.  UDT::startup starts a *)
(* garbage collection thread before the handlers are installed, so the     *)
(* kernel may run a handler there, beside the main loop.                   *)
(*                                                                         *)
(* Each client connects once; a child is named by the client it serves.    *)
(***************************************************************************)
EXTENDS Integers, FiniteSets

CONSTANTS
    Clients,
    MaxClients,     \* M_MAX_CLIENTS: the UDT ports are reused modulo this
    Threads,        \* the threads that may run a signal handler
    MaxStops,       \* bound: children stopped or continued (no SA_NOCLDSTOP)
    Leaving         \* clients may leave

ASSUME ServerAssumption ==
    /\ MaxClients \in Nat \ {0} /\ MaxStops \in Nat /\ Leaving \in BOOLEAN
    /\ Threads \subseteq {"main", "gc"} /\ "main" \in Threads

VARIABLES
    alive,          \* the server process runs
    numClients,     \* _num_clients
    pc,             \* the accept loop: "accept", "port", "load", "store" or "fork"
    current,        \* the client whose TCP connection was accepted last
    udtport,        \* its UDT port, as an offset from M_PORT_UDTBASE
    loaded,         \* what the loop loaded for its increment
    chldPending,    \* SIGCHLD is pending: further ones merge with it
    hpc, hval,      \* per thread: where its SIGCHLD handler stands, what it loaded
    stops,
    client,         \* "out", "tcp", "told", "mounted", "noData", "gone"
    child,          \* "none", "forked", "told", "listening", "serving", "zombie", "reaped"
    port,           \* the port each child was given
    bound,          \* children whose process holds its UDP port
    queued,         \* per child, the clients connected to its listener and not accepted
    accepted        \* per child, {} or the client at the end of its data connection

loopVars   == <<pc, current, udtport, loaded>>
signalVars == <<numClients, chldPending, hpc, hval, stops>>
clientVars == <<client, queued, accepted>>
childVars  == <<child, port, bound>>
vars == <<alive, loopVars, signalVars, clientVars, childVars>>

Live(c) == child[c] \in {"forked", "told", "listening", "serving"}

Init ==
    /\ alive = TRUE /\ numClients = 0
    /\ pc = "accept" /\ current = "nobody" /\ udtport = 0 /\ loaded = 0
    /\ chldPending = FALSE /\ stops = 0
    /\ hpc = [t \in Threads |-> "idle"] /\ hval = [t \in Threads |-> 0]
    /\ client = [c \in Clients |-> "out"]
    /\ child = [c \in Clients |-> "none"]
    /\ port = [c \in Clients |-> 0]
    /\ bound = {}
    /\ queued = [c \in Clients |-> {}] /\ accepted = [c \in Clients |-> {}]

-----------------------------------------------------------------------------
(* The accept loop.  A handler that runs on the main thread suspends it.   *)

LoopRuns == alive /\ hpc["main"] = "idle"

Accept(c) ==
    /\ LoopRuns /\ pc = "accept"
    /\ client[c] = "tcp" /\ child[c] = "none"
    /\ current' = c /\ pc' = "port"
    /\ UNCHANGED <<alive, udtport, loaded, signalVars, clientVars, childVars>>

\* Mutant: every child is given the same port.
BasePort(n) == 0

\* C's remainder has the sign of the dividend.
PortOffset(n) == IF n >= 0 THEN n % MaxClients ELSE -((-n) % MaxClients)

ChoosePort ==
    /\ LoopRuns /\ pc = "port"
    /\ udtport' = PortOffset(numClients)
    /\ pc' = "load"
    /\ UNCHANGED <<alive, current, loaded, signalVars, clientVars, childVars>>

CountLoad ==
    /\ LoopRuns /\ pc = "load"
    /\ loaded' = numClients
    /\ pc' = "store"
    /\ UNCHANGED <<alive, current, udtport, signalVars, clientVars, childVars>>

\* Mutant: the client is not counted.
Uncounted(n) == n

Counted(n) == n + 1

CountStore ==
    /\ LoopRuns /\ pc = "store"
    /\ numClients' = Counted(loaded)
    /\ pc' = "fork"
    /\ UNCHANGED <<alive, current, udtport, loaded, chldPending, hpc, hval, stops, clientVars, childVars>>

Fork ==
    /\ LoopRuns /\ pc = "fork"
    /\ child' = [child EXCEPT ![current] = "forked"]
    /\ port' = [port EXCEPT ![current] = udtport]
    /\ pc' = "accept"
    /\ UNCHANGED <<alive, current, udtport, loaded, signalVars, clientVars, bound>>

-----------------------------------------------------------------------------
(* Signals.                                                                *)

Zombies == {c \in Clients : child[c] = "zombie"}

\* A thread takes the pending SIGCHLD, unless it is handling one: the signal
\* stays blocked in it meanwhile.
TakeSigchld(t) ==
    /\ alive /\ chldPending /\ hpc[t] = "idle"
    /\ chldPending' = FALSE
    /\ hpc' = [hpc EXCEPT ![t] = "reap"]
    /\ UNCHANGED <<alive, loopVars, numClients, hval, stops, clientVars, childVars>>

\* Mutant: one child is reaped for one signal.
ReapOne(zombies) == {CHOOSE c \in zombies : TRUE}

\* waitpid is called until no zombie is left.
Reap(zombies) == zombies

\* sigchld_handler: waitpid in a loop, then the decrement.
ReapChildren(t) ==
    /\ alive /\ hpc[t] = "reap"
    /\ IF Zombies = {}
       THEN hpc' = [hpc EXCEPT ![t] = "load"] /\ UNCHANGED child
       ELSE /\ child' = [c \in Clients |-> IF c \in Reap(Zombies) THEN "reaped" ELSE child[c]]
            /\ hpc' = [hpc EXCEPT ![t] = IF Reap(Zombies) = Zombies THEN "reap" ELSE "load"]
    /\ UNCHANGED <<alive, loopVars, numClients, chldPending, hval, stops, clientVars, port, bound>>

UncountLoad(t) ==
    /\ alive /\ hpc[t] = "load"
    /\ hval' = [hval EXCEPT ![t] = numClients]
    /\ hpc' = [hpc EXCEPT ![t] = "store"]
    /\ UNCHANGED <<alive, loopVars, numClients, chldPending, stops, clientVars, childVars>>

UncountStore(t) ==
    /\ alive /\ hpc[t] = "store"
    /\ numClients' = hval[t] - 1
    /\ hval' = [hval EXCEPT ![t] = 0]
    /\ hpc' = [hpc EXCEPT ![t] = "idle"]
    /\ UNCHANGED <<alive, loopVars, chldPending, stops, clientVars, childVars>>

\* sigint_handler: with no client counted the signal is let through and ends the
\* server; the children ignore it.
Interrupt ==
    /\ alive
    /\ alive' = (numClients > 0)
    /\ UNCHANGED <<loopVars, signalVars, clientVars, childVars>>

\* A child that is stopped or continued raises SIGCHLD too.
StopOrContinue(c) ==
    /\ alive /\ Live(c) /\ stops < MaxStops
    /\ stops' = stops + 1
    /\ chldPending' = TRUE
    /\ UNCHANGED <<alive, loopVars, numClients, hpc, hval, clientVars, childVars>>

-----------------------------------------------------------------------------
(* A child, up to the commands.                                            *)

\* exchange_versions, and the port sent to the client before it is bound.
TellPort(c) ==
    /\ child[c] = "forked" /\ client[c] = "tcp"
    /\ child' = [child EXCEPT ![c] = "told"]
    /\ client' = [client EXCEPT ![c] = "told"]
    /\ UNCHANGED <<alive, loopVars, signalVars, queued, accepted, port, bound>>

\* UDT::bind: a UDP port that another process holds cannot be bound; the failure
\* is reported and the child goes on to the commands without a data connection.
BindAndListen(c) ==
    /\ child[c] = "told"
    /\ IF \E d \in bound : port[d] = port[c]
       THEN child' = [child EXCEPT ![c] = "serving"] /\ UNCHANGED bound
       ELSE child' = [child EXCEPT ![c] = "listening"] /\ bound' = bound \cup {c}
    /\ UNCHANGED <<alive, loopVars, signalVars, clientVars, port>>

\* UDT::accept takes a connection, then the listener is closed.  The accepted
\* socket shares its UDP port, which stays bound as long as the process lives.
AcceptData(c) ==
    /\ child[c] = "listening"
    /\ \E d \in queued[c] : accepted' = [accepted EXCEPT ![c] = {d}]
    /\ child' = [child EXCEPT ![c] = "serving"]
    /\ UNCHANGED <<alive, loopVars, signalVars, client, queued, port, bound>>

Exited(c) ==
    /\ child' = [child EXCEPT ![c] = "zombie"]
    /\ bound' = bound \ {c}
    /\ queued' = [queued EXCEPT ![c] = {}]
    /\ accepted' = [accepted EXCEPT ![c] = {}]
    /\ chldPending' = TRUE

\* The TCP connection is closed: recv_str returns 0 and the child exits.  A child
\* that waits in UDT::accept does not look at TCP.
ChildExits(c) ==
    /\ child[c] \in {"forked", "serving"} /\ client[c] = "gone"
    /\ Exited(c)
    /\ UNCHANGED <<alive, loopVars, numClients, hpc, hval, stops, client, port>>

-----------------------------------------------------------------------------
(* The clients (udtfs main).                                               *)

ConnectTcp(c) ==
    /\ alive /\ client[c] = "out"
    /\ client' = [client EXCEPT ![c] = "tcp"]
    /\ UNCHANGED <<alive, loopVars, signalVars, queued, accepted, childVars>>

\* The handshake reaches whichever child listens on the port.
ConnectUdt(c) ==
    /\ client[c] = "told"
    /\ \E d \in Clients :
         /\ child[d] = "listening" /\ port[d] = port[c]
         /\ queued' = [queued EXCEPT ![d] = @ \cup {c}]
    /\ client' = [client EXCEPT ![c] = "mounted"]
    /\ UNCHANGED <<alive, loopVars, signalVars, accepted, childVars>>

\* UDT::connect times out when nobody listens; the file system is mounted all the
\* same, with an invalid data socket.  A listener that is about to appear answers
\* a retry.
ConnectFails(c) ==
    /\ client[c] = "told"
    /\ ~\E d \in Clients : child[d] \in {"told", "listening"} /\ port[d] = port[c]
    /\ client' = [client EXCEPT ![c] = "noData"]
    /\ UNCHANGED <<alive, loopVars, signalVars, queued, accepted, childVars>>

\* A client is unmounted or killed.
Leave(c) ==
    /\ Leaving /\ client[c] \in {"tcp", "told", "mounted", "noData"} /\ child[c] # "none"
    /\ client' = [client EXCEPT ![c] = "gone"]
    /\ UNCHANGED <<alive, loopVars, signalVars, queued, accepted, childVars>>

-----------------------------------------------------------------------------
Next ==
    \/ \E c \in Clients : Accept(c)
    \/ ChoosePort \/ CountLoad \/ CountStore \/ Fork
    \/ \E t \in Threads : TakeSigchld(t) \/ ReapChildren(t) \/ UncountLoad(t) \/ UncountStore(t)
    \/ Interrupt
    \/ \E c \in Clients : StopOrContinue(c)
    \/ \E c \in Clients : TellPort(c) \/ BindAndListen(c) \/ AcceptData(c) \/ ChildExits(c)
    \/ \E c \in Clients : ConnectTcp(c) \/ ConnectUdt(c) \/ ConnectFails(c) \/ Leave(c)

Spec == Init /\ [][Next]_vars

\* Processes and threads that can run do; nobody has to connect, leave or press
\* Control-C.
Fairness ==
    /\ WF_vars(\E c \in Clients : Accept(c))
    /\ WF_vars(ChoosePort) /\ WF_vars(CountLoad) /\ WF_vars(CountStore) /\ WF_vars(Fork)
    /\ WF_vars(\E t \in Threads : TakeSigchld(t))
    /\ \A t \in Threads : WF_vars(ReapChildren(t)) /\ WF_vars(UncountLoad(t)) /\ WF_vars(UncountStore(t))
    /\ \A c \in Clients : /\ WF_vars(TellPort(c)) /\ WF_vars(BindAndListen(c)) /\ WF_vars(AcceptData(c))
                          /\ WF_vars(ChildExits(c)) /\ WF_vars(ConnectUdt(c)) /\ WF_vars(ConnectFails(c))

FairSpec == Spec /\ Fairness

-----------------------------------------------------------------------------
(* Properties.                                                             *)

\* The counts are any integers: a child that is stopped, or a second thread that runs
\* the handlers, makes them negative.
TypeOK ==
    /\ alive \in BOOLEAN /\ numClients \in Int
    /\ pc \in {"accept", "port", "load", "store", "fork"}
    /\ pc # "accept" => current \in Clients
    /\ udtport \in Int /\ loaded \in Int
    /\ chldPending \in BOOLEAN /\ stops \in 0 .. MaxStops
    /\ hpc \in [Threads -> {"idle", "reap", "load", "store"}] /\ hval \in [Threads -> Int]
    /\ client \in [Clients -> {"out", "tcp", "told", "mounted", "noData", "gone"}]
    /\ child \in [Clients -> {"none", "forked", "told", "listening", "serving", "zombie", "reaped"}]
    /\ port \in [Clients -> Int] /\ bound \subseteq Clients
    /\ queued \in [Clients -> SUBSET Clients] /\ accepted \in [Clients -> SUBSET Clients]

\* "prevent Control-C with open remote mounts": the server does not end while a
\* child of its serves a client that is mounted; a child that has been stopped or
\* continued counts as gone.
InterruptSparesMounts ==
    [][alive /\ ~alive' /\ stops = 0 => ~\E c \in Clients : Live(c) /\ client[c] \in {"mounted", "noData"}]_vars

\* Each child's data connection leads to the client whose commands it obeys, and
\* a mounted client has one: "Tell our UDT port number and wait for connection".
DataPathIsOwn ==
    \A c \in Clients : child[c] = "serving" /\ client[c] \in {"mounted", "noData"} => accepted[c] = {c}

\* Ports are handed out anew when a client has been counted as gone.
NobodyGone == stops = 0 /\ \A c \in Clients : client[c] # "gone"

\* "reap all dead processes": merged signals leave no zombie behind.
EveryChildReaped ==
    \A c \in Clients : child[c] = "zombie" ~> child[c] = "reaped" \/ ~alive

\* A client that connects is mounted with a data connection, or leaves, while no
\* other has left.
EveryClientMounted ==
    \A c \in Clients : client[c] = "tcp" ~> client[c] \in {"mounted", "gone"} \/ ~NobodyGone \/ ~alive
=============================================================================
