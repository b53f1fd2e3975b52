------------------------- MODULE UdtfsServerProofs --------------------------
(***************************************************************************)
(* Proofs about UdtfsServer, for any number of clients: the types, and     *)
(* that Control-C ends no server with a client mounted, when the handlers  *)
(* run on the main thread and no child is stopped or continued.            *)
(***************************************************************************)
EXTENDS UdtfsServer, FiniteSetTheorems, TLAPS

Serving == {c \in Clients : Live(c)}

ChildStates == {"none", "forked", "told", "listening", "serving", "zombie", "reaped"}

\* Children counted or about to be: a fork follows its count.
Forking == IF pc = "fork" THEN 1 ELSE 0

\* Decrements to come: one for the pending signal, one for the handler that runs.
Pending == IF chldPending THEN 1 ELSE 0

Handling == IF hpc["main"] # "idle" THEN 1 ELSE 0

\* The count may lag behind children that are gone, never behind those that are not: what
\* the loop or the handler has loaded is no less than what it should store upon.
CountCovers ==
    stops = 0 =>
        /\ numClients >= Cardinality(Serving) + Forking + Pending + Handling
        /\ pc = "store" => loaded >= numClients
        /\ hpc["main"] = "store" => hval["main"] = numClients

\* The client of the loop has no child yet.
NotYetForked == pc # "accept" => child[current] = "none"

-----------------------------------------------------------------------------
LEMMA InitTypeOK == Init => TypeOK
<1> SUFFICES ASSUME Init PROVE TypeOK
  OBVIOUS
<1>1. alive \in BOOLEAN /\ chldPending \in BOOLEAN
  BY Zenon DEF Init
<1>2. /\ numClients \in Int /\ pc = "accept" /\ udtport \in Int /\ loaded \in Int /\ stops \in 0 .. MaxStops
      /\ hpc \in [Threads -> {"idle", "reap", "load", "store"}] /\ hval \in [Threads -> Int]
  BY ServerAssumption DEF Init
<1>3. /\ client \in [Clients -> {"out", "tcp", "told", "mounted", "noData", "gone"}]
      /\ child \in [Clients -> {"none", "forked", "told", "listening", "serving", "zombie", "reaped"}]
      /\ port \in [Clients -> Int] /\ bound \subseteq Clients
      /\ queued \in [Clients -> SUBSET Clients] /\ accepted \in [Clients -> SUBSET Clients]
  BY DEF Init
<1> QED
  BY <1>1, <1>2, <1>3 DEF TypeOK

LEMMA PortIsInt == ASSUME NEW n \in Int PROVE PortOffset(n) \in Int
BY ServerAssumption DEF PortOffset

LEMMA LoopTypeOK ==
    ASSUME TypeOK, (\E c \in Clients : Accept(c)) \/ ChoosePort \/ CountLoad \/ CountStore \/ Fork
    PROVE  TypeOK'
<1> USE DEF TypeOK, signalVars, clientVars, childVars
<1>1. ASSUME NEW c \in Clients, Accept(c) PROVE TypeOK'
  BY <1>1 DEF Accept
<1>2. CASE ChoosePort
  BY <1>2, PortIsInt DEF ChoosePort
<1>3. CASE CountLoad
  BY <1>3 DEF CountLoad
<1>4. CASE CountStore
  BY <1>4 DEF CountStore, Counted
<1>5. CASE Fork
  BY <1>5 DEF Fork
<1> QED
  BY <1>1, <1>2, <1>3, <1>4, <1>5

LEMMA SignalTypeOK ==
    ASSUME TypeOK,
           \/ \E t \in Threads : TakeSigchld(t) \/ ReapChildren(t) \/ UncountLoad(t) \/ UncountStore(t)
           \/ Interrupt
           \/ \E c \in Clients : StopOrContinue(c)
    PROVE  TypeOK'
<1> USE DEF TypeOK, loopVars, signalVars, clientVars, childVars
<1>1. ASSUME NEW t \in Threads, TakeSigchld(t) PROVE TypeOK'
  BY <1>1 DEF TakeSigchld
<1>2. ASSUME NEW t \in Threads, ReapChildren(t) PROVE TypeOK'
  BY <1>2 DEF ReapChildren
<1>3. ASSUME NEW t \in Threads, UncountLoad(t) PROVE TypeOK'
  BY <1>3 DEF UncountLoad
<1>4. ASSUME NEW t \in Threads, UncountStore(t) PROVE TypeOK'
  BY <1>4 DEF UncountStore
<1>5. CASE Interrupt
  <2>1. alive' \in BOOLEAN
    BY <1>5 DEF Interrupt
  <2> QED
    BY <1>5, <2>1 DEF Interrupt
<1>6. ASSUME NEW c \in Clients, StopOrContinue(c) PROVE TypeOK'
  BY <1>6, ServerAssumption DEF StopOrContinue
<1> QED
  BY <1>1, <1>2, <1>3, <1>4, <1>5, <1>6

LEMMA PeerTypeOK ==
    ASSUME TypeOK, NEW c \in Clients,
           \/ TellPort(c) \/ BindAndListen(c) \/ AcceptData(c) \/ ChildExits(c)
           \/ ConnectTcp(c) \/ ConnectUdt(c) \/ ConnectFails(c) \/ Leave(c)
    PROVE  TypeOK'
<1> USE DEF TypeOK, loopVars, signalVars, clientVars, childVars
<1>1. CASE TellPort(c)
  BY <1>1 DEF TellPort
<1>2. CASE BindAndListen(c)
  BY <1>2 DEF BindAndListen
<1>3. CASE AcceptData(c)
  BY <1>3 DEF AcceptData
<1>4. CASE ChildExits(c)
  BY <1>4 DEF ChildExits, Exited
<1>5. CASE ConnectTcp(c)
  BY <1>5 DEF ConnectTcp
<1>6. CASE ConnectUdt(c)
  BY <1>6 DEF ConnectUdt
<1>7. CASE ConnectFails(c)
  BY <1>7 DEF ConnectFails
<1>8. CASE Leave(c)
  BY <1>8 DEF Leave
<1> QED
  BY <1>1, <1>2, <1>3, <1>4, <1>5, <1>6, <1>7, <1>8

LEMMA NextTypeOK == TypeOK /\ [Next]_vars => TypeOK'
<1> SUFFICES ASSUME TypeOK, [Next]_vars PROVE TypeOK'
  OBVIOUS
<1>1. CASE UNCHANGED vars
  BY <1>1 DEF TypeOK, vars, loopVars, signalVars, clientVars, childVars
<1>2. CASE Next
  BY <1>2, LoopTypeOK, SignalTypeOK, PeerTypeOK DEF Next
<1> QED
  BY <1>1, <1>2

\* The server, its children and their clients keep their types, with any threads.
THEOREM TypeCorrect == Spec => []TypeOK
BY InitTypeOK, NextTypeOK, PTL DEF Spec

-----------------------------------------------------------------------------
(* The count.                                                              *)

LEMMA ServingIsFinite ==
    ASSUME IsFiniteSet(Clients)
    PROVE  IsFiniteSet(Serving) /\ Cardinality(Serving) \in Nat
BY FS_Subset, FS_CardinalityType DEF Serving

LEMMA InitCovers == Init => CountCovers /\ NotYetForked
<1> SUFFICES ASSUME Init PROVE CountCovers /\ NotYetForked
  OBVIOUS
<1>1. Serving = {}
  BY DEF Init, Serving, Live
<1>2. Forking = 0 /\ Pending = 0 /\ Handling = 0
  BY ServerAssumption DEF Init, Forking, Pending, Handling
<1> QED
  BY <1>1, <1>2, FS_EmptySet, ServerAssumption DEF Init, CountCovers, NotYetForked

\* Steps that leave the count, the loop, the handler and the set of children alone.
LEMMA CoversStays ==
    ASSUME CountCovers, stops' = 0 => stops = 0, Serving' = Serving, 
           UNCHANGED <<numClients, pc, loaded, hpc, hval, chldPending>>
    PROVE  CountCovers'
BY DEF CountCovers, Forking, Pending, Handling

LEMMA LoopCovers ==
    ASSUME TypeOK, CountCovers, NotYetForked, IsFiniteSet(Clients),
           (\E c \in Clients : Accept(c)) \/ ChoosePort \/ CountLoad \/ CountStore \/ Fork
    PROVE  CountCovers' /\ NotYetForked'
<1> DEFINE live == Cardinality(Serving)
<1> USE DEF signalVars, clientVars, childVars
<1>1. live \in Nat
  BY ServingIsFinite
<1>2. CASE (\E c \in Clients : Accept(c)) \/ ChoosePort \/ CountLoad \/ CountStore
  <2>1. Serving' = Serving /\ UNCHANGED <<stops, hpc, hval, chldPending>>
    BY <1>2 DEF Serving, Live, Accept, ChoosePort, CountLoad, CountStore
  <2>2. NotYetForked'
    BY <1>2 DEF NotYetForked, Accept, ChoosePort, CountLoad, CountStore, TypeOK
  <2>3. hpc["main"] = "idle" /\ pc # "fork"
    BY <1>2 DEF Accept, ChoosePort, CountLoad, CountStore, LoopRuns
  <2>4. Pending \in {0, 1} /\ Pending' = Pending /\ Handling = 0 /\ Handling' = 0 /\ Forking = 0
    BY <2>1, <2>3 DEF Pending, Handling, Forking
  <2>5. CASE (\E c \in Clients : Accept(c)) \/ ChoosePort
    <3>1. UNCHANGED numClients /\ pc' \in {"port", "load"}
      BY <2>5 DEF Accept, ChoosePort
    <3> QED
      BY <1>1, <2>1, <2>2, <2>3, <2>4, <3>1 DEF CountCovers, Forking, TypeOK
  <2>6. CASE CountLoad
    <3>1. UNCHANGED numClients /\ pc' = "store" /\ loaded' = numClients
      BY <2>6 DEF CountLoad
    <3> QED
      BY <1>1, <2>1, <2>2, <2>3, <2>4, <3>1 DEF CountCovers, Forking, TypeOK
  <2>7. CASE CountStore
    <3>1. numClients' = loaded + 1 /\ pc = "store" /\ pc' = "fork"
      BY <2>7 DEF CountStore, Counted
    <3> QED
      BY <1>1, <2>1, <2>2, <2>3, <2>4, <3>1 DEF CountCovers, Forking, TypeOK
  <2> QED
    BY <1>2, <2>2, <2>5, <2>6, <2>7
<1>3. CASE Fork
  <2>1. current \in Clients /\ current \notin Serving /\ Serving' = Serving \cup {current}
    BY <1>3 DEF Fork, Serving, Live, NotYetForked, TypeOK
  <2>2. Cardinality(Serving') = live + 1
    BY <2>1, ServingIsFinite, FS_AddElement
  <2> HIDE DEF live
  <2>3. /\ pc = "fork" /\ pc' = "accept"
        /\ UNCHANGED <<numClients, loaded, stops, hpc, hval, chldPending>>
    BY <1>3 DEF Fork
  <2> QED
    BY <1>1, <2>2, <2>3 DEF CountCovers, NotYetForked, Forking, Pending, Handling, TypeOK, live
<1> QED
  BY <1>2, <1>3

\* The handler runs on the main thread, so that the loop is suspended meanwhile.
LEMMA SignalCovers ==
    ASSUME TypeOK, CountCovers, NotYetForked, IsFiniteSet(Clients),
           \/ TakeSigchld("main") \/ ReapChildren("main") \/ UncountLoad("main") \/ UncountStore("main")
    PROVE  CountCovers' /\ NotYetForked'
<1> USE DEF loopVars, signalVars, clientVars, childVars
<1>1. Cardinality(Serving) \in Nat /\ Forking \in {0, 1} /\ Pending \in {0, 1} /\ numClients \in Int
  BY ServingIsFinite DEF Forking, Pending, TypeOK
<1>2. UNCHANGED <<pc, current, loaded, stops>> /\ Forking' = Forking
  BY DEF TakeSigchld, ReapChildren, UncountLoad, UncountStore, Forking
<1>3. CASE TakeSigchld("main")
  <2>1. UNCHANGED <<numClients, child>> /\ Serving' = Serving
    BY <1>3 DEF TakeSigchld, Serving, Live
  <2>2. Pending = 1 /\ Pending' = 0 /\ Handling = 0
    BY <1>3, Zenon DEF TakeSigchld, Pending, Handling
  <2>3. hpc'["main"] = "reap" /\ Handling' = 1
    BY <1>3, ServerAssumption DEF TakeSigchld, Handling, TypeOK
  <2> QED
    BY <1>1, <1>2, <2>1, <2>2, <2>3 DEF CountCovers, NotYetForked
<1>4. CASE ReapChildren("main")
  <2>1. UNCHANGED <<numClients, chldPending>> /\ Pending' = Pending
    BY <1>4 DEF ReapChildren, Pending
  <2>2. Handling = 1 /\ hpc'["main"] \in {"reap", "load"} /\ Handling' = 1
    BY <1>4, ServerAssumption DEF ReapChildren, Handling, TypeOK
  <2>3. \A c \in Clients : child[c] # "zombie" => child'[c] = child[c]
    BY <1>4 DEF ReapChildren, Reap, Zombies
  <2>4. \A c \in Clients : child[c] = "zombie" => child'[c] \in {"zombie", "reaped"}
    BY <1>4 DEF ReapChildren, Reap, Zombies
  <2>5. Serving' = Serving /\ NotYetForked'
    BY <1>2, <2>3, <2>4 DEF Serving, Live, NotYetForked, TypeOK
  <2> QED
    BY <1>1, <1>2, <2>1, <2>2, <2>5 DEF CountCovers
<1>5. CASE UncountLoad("main")
  <2>1. /\ UNCHANGED <<numClients, child>> /\ Serving' = Serving /\ Pending' = Pending
        /\ Handling = 1
    BY <1>5 DEF UncountLoad, Serving, Live, Pending, Handling
  <2>2. hpc'["main"] = "store" /\ Handling' = 1 /\ hval'["main"] = numClients
    BY <1>5, ServerAssumption DEF UncountLoad, Handling, TypeOK
  <2> QED
    BY <1>1, <1>2, <2>1, <2>2 DEF CountCovers, NotYetForked
<1>6. CASE UncountStore("main")
  <2>1. /\ UNCHANGED child /\ Serving' = Serving /\ Pending' = Pending /\ Handling = 1
        /\ hpc["main"] = "store" /\ numClients' = hval["main"] - 1
    BY <1>6 DEF UncountStore, Serving, Live, Pending, Handling
  <2>2. hpc'["main"] = "idle" /\ Handling' = 0
    BY <1>6, ServerAssumption DEF UncountStore, Handling, TypeOK
  <2> QED
    BY <1>1, <1>2, <2>1, <2>2 DEF CountCovers, NotYetForked, TypeOK
<1> QED
  BY <1>3, <1>4, <1>5, <1>6

LEMMA PeerCovers ==
    ASSUME TypeOK, CountCovers, NotYetForked, IsFiniteSet(Clients), NEW c \in Clients,
           \/ TellPort(c) \/ BindAndListen(c) \/ AcceptData(c) \/ ChildExits(c)
           \/ ConnectTcp(c) \/ ConnectUdt(c) \/ ConnectFails(c) \/ Leave(c)
    PROVE  CountCovers' /\ NotYetForked'
<1> USE DEF loopVars, signalVars, clientVars, childVars
<1>1. UNCHANGED <<numClients, pc, current, loaded, stops, hpc, hval>>
  BY DEF TellPort, BindAndListen, AcceptData, ChildExits, ConnectTcp, ConnectUdt, ConnectFails, Leave
<1>2. \A d \in Clients : child[d] = "none" => child'[d] = "none"
  BY DEF TellPort, BindAndListen, AcceptData, ChildExits, Exited, ConnectTcp, ConnectUdt, ConnectFails, Leave, TypeOK
<1>3. NotYetForked'
  BY <1>1, <1>2 DEF NotYetForked, TypeOK
<1>4. CASE ~ChildExits(c)
  <2>1. UNCHANGED chldPending
    BY <1>4 DEF TellPort, BindAndListen, AcceptData, ConnectTcp, ConnectUdt, ConnectFails, Leave
  <2>2. \A d \in Clients : Live(d)' <=> Live(d)
    BY <1>4 DEF Live, TellPort, BindAndListen, AcceptData, ConnectTcp, ConnectUdt, ConnectFails, Leave, TypeOK
  <2>3. Serving' = Serving
    BY <2>2 DEF Serving
  <2> QED
    BY <1>1, <1>3, <2>1, <2>3, CoversStays
<1>5. CASE ChildExits(c)
  <2>1. c \in Serving /\ Serving' = Serving \ {c}
    BY <1>5 DEF ChildExits, Exited, Serving, Live, TypeOK
  <2>2. Cardinality(Serving') = Cardinality(Serving) - 1 /\ Cardinality(Serving) \in Nat
    BY <2>1, ServingIsFinite, FS_RemoveElement
  <2>3. Pending \in {0, 1} /\ Pending' = 1
    BY <1>5, Zenon DEF ChildExits, Exited, Pending
  <2>4. Forking' = Forking /\ Handling' = Handling /\ Forking \in {0, 1} /\ Handling \in {0, 1}
    BY <1>1 DEF Forking, Handling
  <2> QED
    BY <1>1, <1>3, <2>2, <2>3, <2>4 DEF CountCovers, TypeOK
<1> QED
  BY <1>4, <1>5

LEMMA NextCovers ==
    ASSUME Threads = {"main"}, IsFiniteSet(Clients), TypeOK, CountCovers, NotYetForked, [Next]_vars
    PROVE  CountCovers' /\ NotYetForked'
<1>1. CASE UNCHANGED vars
  <2>1. /\ UNCHANGED <<numClients, pc, current, loaded, hpc, hval, chldPending, stops, child>>
        /\ Serving' = Serving
    BY <1>1 DEF vars, loopVars, signalVars, childVars, Serving, Live
  <2> QED
    BY <2>1, CoversStays DEF NotYetForked
<1>2. CASE Interrupt
  <2>1. /\ UNCHANGED <<numClients, pc, current, loaded, hpc, hval, chldPending, stops, child>>
        /\ Serving' = Serving
    BY <1>2 DEF Interrupt, loopVars, signalVars, childVars, Serving, Live
  <2> QED
    BY <2>1, CoversStays DEF NotYetForked
<1>3. ASSUME NEW c \in Clients, StopOrContinue(c)
      PROVE  CountCovers' /\ NotYetForked'
  <2>1. stops' # 0 /\ UNCHANGED <<pc, current, child>>
    BY <1>3 DEF StopOrContinue, TypeOK, loopVars, childVars
  <2> QED
    BY <2>1 DEF CountCovers, NotYetForked
<1>4. CASE Next
  BY <1>2, <1>3, <1>4, LoopCovers, SignalCovers, PeerCovers DEF Next
<1> QED
  BY <1>1, <1>4

\* "prevent Control-C with open remote mounts", for any number of clients: when the
\* handlers run on the main thread and no child is stopped or continued, the server does
\* not end while a child serves a mounted client.
THEOREM MountsAreSpared ==
    ASSUME Threads = {"main"}, IsFiniteSet(Clients)
    PROVE  Spec => InterruptSparesMounts
<1>1. TypeOK /\ CountCovers /\ [Next]_vars =>
          [alive /\ ~alive' /\ stops = 0 => ~\E c \in Clients : Live(c) /\ client[c] \in {"mounted", "noData"}]_vars
  <2> SUFFICES ASSUME TypeOK, CountCovers, Next, alive, ~alive', stops = 0,
                      NEW c \in Clients, Live(c)
               PROVE  FALSE
    BY Zenon
  <2>1. Interrupt
    BY Zenon DEF Next, Accept, ChoosePort, CountLoad, CountStore, Fork, TakeSigchld, ReapChildren,
                 UncountLoad, UncountStore, StopOrContinue, TellPort, BindAndListen, AcceptData,
                 ChildExits, ConnectTcp, ConnectUdt, ConnectFails, Leave
  <2>2. ~(numClients > 0)
    BY <2>1, Zenon DEF Interrupt
  <2>3. Forking \in {0, 1} /\ Pending \in {0, 1} /\ Handling \in {0, 1} /\ numClients \in Int
    BY DEF Forking, Pending, Handling, TypeOK
  <2>4. Cardinality(Serving) \in Nat /\ Cardinality(Serving) <= 0
    BY <2>2, <2>3, ServingIsFinite DEF CountCovers
  <2>5. Serving = {}
    BY <2>4, ServingIsFinite, FS_EmptySet
  <2> QED
    BY <2>5 DEF Serving
<1>2. TypeOK /\ CountCovers /\ NotYetForked /\ [Next]_vars => CountCovers' /\ NotYetForked'
  BY NextCovers
<1> QED
  BY InitTypeOK, NextTypeOK, InitCovers, <1>1, <1>2, PTL DEF Spec, InterruptSparesMounts
=============================================================================
