---------------------------- MODULE UdtHandshake ----------------------------
(***************************************************************************)
(* Setting options and connecting (CUDT::setOpt, connect, listen and       *)
(* processCtrl in UDT4/src/core.cpp, with newConnection in api.cpp).       *)
(*                                                                         *)
(* In regular mode end "a" connects and end "b" listens: the first request *)
(* is answered by a cookie, the second one, with the cookie, makes a       *)
(* connection.  In rendezvous mode both ends connect to each other.  A     *)
(* handshake that comes for an end that is connecting is stored, in place  *)
(* of the one stored before, until connect() takes it.  Every packet that  *)
(* was sent may come late, out of order, more than once, or never.         *)
(* Initial sequence numbers are random: every attempt has its own.         *)
(***************************************************************************)
EXTENDS Integers, FiniteSetsExt

CONSTANTS
    HsModes,        \* of "regular" and "rendezvous"
    MSSs,           \* packet sizes that may be set
    WindowSizes,    \* flight flag sizes and receiver's buffer sizes that may be set
    MaxSetOpts,     \* bound: calls of setOpt
    MaxAttempts,    \* bound: calls of connect on a socket, in regular mode
    MixedMSS,       \* the modes in which the ends may be set to different packet sizes
    FcBelowBuffer   \* UDT_FC may be set below the size of the receiver's buffer

\* The largest int, in which setOpt keeps every size.
MaxInt == 2147483647

ASSUME HandshakeAssumption ==
    /\ HsModes \subseteq {"regular", "rendezvous"} /\ MixedMSS \subseteq HsModes
    /\ MSSs \subseteq 0 .. MaxInt /\ MSSs # {} /\ WindowSizes \subseteq 0 .. MaxInt /\ WindowSizes # {}
    /\ MaxSetOpts \in Nat /\ MaxAttempts \in Nat /\ FcBelowBuffer \in BOOLEAN

VARIABLES
    mode,       \* m_bRendezvous of both ends
    opts,       \* per end: m_iMSS, m_iFlightFlagSize, m_iRcvBufSize, m_bOpened
    setOpts,    \* calls of setOpt made
    dial,       \* per end: its connect(): attempt, type of the request, and tmp
    hsStored,   \* per end: m_mBuffer, the packet stored for connect
    agreed,     \* per end: m_iMSS, m_iFlowWindowSize and m_iPeerISN once it is connected
    accepted,   \* the listener's connections, by the initial sequence number they are for
    hsWire      \* packets sent

handshakeVars == <<mode, opts, setOpts, dial, hsStored, agreed, accepted, hsWire>>

Sides == {"a", "b"}

Peer(e) == IF e = "a" THEN "b" ELSE "a"

None == [kind |-> "none"]

Smallest(m, n) == Min({m, n})

\* The defaults of the sizes are 25600 and 8192 packets.
HandshakeInit ==
    /\ mode \in HsModes
    /\ opts = [e \in Sides |-> [mss |-> Max(MSSs), flight |-> Max(WindowSizes), rcvBuf |-> Min(WindowSizes),
                               opened |-> FALSE]]
    /\ setOpts = 0
    /\ dial = [e \in Sides |-> [pc |-> "idle", attempt |-> 0, type |-> 0, tmp |-> None]]
    /\ hsStored = [e \in Sides |-> None] /\ agreed = [e \in Sides |-> None]
    /\ accepted = << >> /\ hsWire = {}

-----------------------------------------------------------------------------
(* Options                                                                 *)

MayConnect(e) == dial[e].pc \in {"idle", "failed"}

SetMSS(e, n) ==
    /\ ~opts[e].opened
    /\ mode \in MixedMSS
    /\ opts' = [opts EXCEPT ![e].mss = n]

\* m_bConnected forbids it, and connect holds the lock that setOpt takes.
SetFlightFlag(e, n) ==
    /\ MayConnect(e)
    /\ FcBelowBuffer \/ n >= opts[e].rcvBuf
    /\ opts' = [opts EXCEPT ![e].flight = n]

\* Mutant: the buffer is given the size that was asked for.
BufferAsAsked(e, n) == n

BufferSize(e, n) == Smallest(n, opts[e].flight)

SetRcvBuffer(e, n) ==
    /\ ~opts[e].opened
    /\ opts' = [opts EXCEPT ![e].rcvBuf = BufferSize(e, n)]

\* Before the first packet is sent, as a bound.
SetOpt ==
    /\ setOpts < MaxSetOpts /\ setOpts' = setOpts + 1
    /\ hsWire = {}
    /\ \E e \in Sides :
           \/ \E n \in MSSs : SetMSS(e, n)
           \/ \E n \in WindowSizes : SetFlightFlag(e, n) \/ SetRcvBuffer(e, n)
    /\ UNCHANGED <<mode, dial, hsStored, agreed, accepted, hsWire>>

\* bind, or connect and listen on a socket that is not bound.
OpenSocket(e) ==
    /\ ~opts[e].opened
    /\ opts' = [opts EXCEPT ![e].opened = TRUE]
    /\ UNCHANGED <<mode, setOpts, dial, hsStored, agreed, accepted, hsWire>>

-----------------------------------------------------------------------------
(* connect                                                                 *)

ISN(e) == <<e, dial[e].attempt>>

\* What an end tells its peer about its own buffers when it is set up.
OwnWindow(e) == Smallest(opts[e].rcvBuf, opts[e].flight)

\* connect begins; tried again after a failure in regular mode only, as a bound.
CallConnect(e) ==
    /\ mode = "rendezvous" \/ e = "a"
    /\ opts[e].opened /\ MayConnect(e)
    /\ dial[e].attempt < IF mode = "regular" THEN MaxAttempts ELSE 1
    /\ dial' = [dial EXCEPT ![e] = [pc |-> "dialling", attempt |-> @.attempt + 1, tmp |-> None,
                                    type |-> IF mode = "regular" THEN 1 ELSE 0]]
    /\ UNCHANGED <<mode, opts, setOpts, hsStored, agreed, accepted, hsWire>>

\* A turn of the loop begins with the request; once the peer's socket ID is known, to it.
SendRequest(e) ==
    /\ dial[e].pc = "dialling"
    /\ hsWire' = hsWire \cup
           {[kind |-> "handshake", to |-> Peer(e), type |-> dial[e].type, isn |-> ISN(e), mss |-> opts[e].mss,
             flight |-> OwnWindow(e), byID |-> dial[e].tmp # None]}
    /\ UNCHANGED <<mode, opts, setOpts, dial, hsStored, agreed, accepted>>

\* The receiving worker stores a packet for connect; in regular mode a failed one too,
\* which stays in the rendezvous queue.
StorePacket(p) ==
    /\ \/ dial[p.to].pc = "dialling"
       \/ dial[p.to].pc = "failed" /\ mode = "regular"
    /\ hsStored' = [hsStored EXCEPT ![p.to] = p]
    /\ UNCHANGED <<mode, opts, setOpts, dial, agreed, accepted, hsWire>>

Connected(e, p) ==
    /\ dial' = [dial EXCEPT ![e].pc = "connected"]
    /\ agreed' = [agreed EXCEPT ![e] = [kind |-> "agreed", mss |-> p.mss, window |-> p.flight, peerISN |-> p.isn]]

\* Mutant: a response to any attempt will do.
AnyISN(e, p) == TRUE

IsMyISN(e, p) == p.isn = ISN(e)

\* Regular mode: a cookie is sent back with the next request, a refusal or a response to
\* an earlier attempt is a failure, and any packet but a handshake is not looked at.
TakeRegular(e, p) ==
    \/ p.kind # "handshake" /\ UNCHANGED <<dial, agreed>>
    \/ /\ p.kind = "handshake" /\ p.type = 1
       /\ dial' = [dial EXCEPT ![e].type = -1]
       /\ UNCHANGED agreed
    \/ /\ p.kind = "handshake" /\ p.type # 1
       /\ IF p.type = -1 /\ IsMyISN(e, p) THEN Connected(e, p)
          ELSE dial' = [dial EXCEPT ![e].pc = "failed"] /\ UNCHANGED agreed

\* Mutant: once a response has been recorded any other one completes the connection.
OwnRequestIsFirst(e, p) == dial[e].type = 0

\* Whether a response shows only that the peer is there, not that it has heard of us.
IsFirstHearing(e, p) == p.type = 0 \/ dial[e].type = 0

\* Rendezvous mode: the first response is recorded; the next one completes the
\* connection, or with the recorded one a packet of a peer that is already connected.
TakeRendezvous(e, p) ==
    \/ /\ p.kind # "handshake"
       /\ IF dial[e].tmp # None THEN Connected(e, dial[e].tmp) ELSE UNCHANGED <<dial, agreed>>
    \/ /\ p.kind = "handshake" /\ IsFirstHearing(e, p)
       /\ dial' = [dial EXCEPT ![e].tmp = p, ![e].type = -1]
       /\ UNCHANGED agreed
    \/ /\ p.kind = "handshake" /\ ~IsFirstHearing(e, p)
       /\ Connected(e, p)

\* recvfrom returns what is stored.
TakeResponse(e) ==
    /\ dial[e].pc = "dialling" /\ hsStored[e] # None
    /\ hsStored' = [hsStored EXCEPT ![e] = None]
    /\ IF mode = "regular" THEN TakeRegular(e, hsStored[e]) ELSE TakeRendezvous(e, hsStored[e])
    /\ UNCHANGED <<mode, opts, setOpts, accepted, hsWire>>

GiveUp(e) ==
    /\ dial[e].pc = "dialling"
    /\ dial' = [dial EXCEPT ![e].pc = "failed"]
    /\ UNCHANGED <<mode, opts, setOpts, hsStored, agreed, accepted, hsWire>>

-----------------------------------------------------------------------------
(* The listener, and connected ends                                        *)

Reply(p, type, mss, flight) ==
    hsWire' = hsWire \cup {[p EXCEPT !.to = "a", !.type = type, !.mss = mss, !.flight = flight, !.byID = TRUE]}

\* Mutant: the peer's packet size is taken over.
PeersMSS(p) == p.mss

NegotiatedMSS(p) == Smallest(p.mss, opts["b"].mss)

\* A request with its cookie: answered again when its connection is there, and otherwise
\* refused, when the queue is full, or a connection made with the listener's options.
\* The second answer tells the flight flag size, whatever the buffer's.
MakeConnection(p) ==
    LET new == [kind |-> "agreed", mss |-> NegotiatedMSS(p), window |-> p.flight, peerISN |-> p.isn,
                flight |-> opts["b"].flight, rcvBuf |-> opts["b"].rcvBuf]
    IN \/ /\ p.isn \in DOMAIN accepted
          /\ Reply(p, -1, accepted[p.isn].mss, accepted[p.isn].flight)
          /\ UNCHANGED accepted
       \/ /\ p.isn \notin DOMAIN accepted
          /\ Reply(p, 1002, p.mss, p.flight)
          /\ UNCHANGED accepted
       \/ /\ p.isn \notin DOMAIN accepted
          /\ Reply(p, -1, new.mss, OwnWindow("b"))
          /\ accepted' = [i \in DOMAIN accepted \cup {p.isn} |-> IF i = p.isn THEN new ELSE accepted[i]]

\* The first request is sent back with a cookie.  A request with a cookie that is too
\* old is ignored, which its being lost stands for.
ListenerReceives(p) ==
    /\ mode = "regular" /\ p.to = "b" /\ opts["b"].opened
    /\ \/ p.type = 1 /\ UNCHANGED accepted
          /\ hsWire' = hsWire \cup {[p EXCEPT !.to = "a", !.byID = TRUE]}
       \/ p.type = -1 /\ MakeConnection(p)
    /\ UNCHANGED <<mode, opts, setOpts, dial, hsStored, agreed>>

\* processCtrl: a connected rendezvous end answers a handshake sent to its socket with
\* what it has agreed to, unless that is an answer itself.
AnswerHandshake(p) ==
    /\ mode = "rendezvous" /\ dial[p.to].pc = "connected"
    /\ p.kind = "handshake" /\ p.byID /\ p.type # -2
    /\ hsWire' = hsWire \cup
           {[kind |-> "handshake", to |-> Peer(p.to), type |-> -2, isn |-> ISN(p.to), mss |-> agreed[p.to].mss,
             flight |-> opts[p.to].flight, byID |-> TRUE]}
    /\ UNCHANGED <<mode, opts, setOpts, dial, hsStored, agreed, accepted>>

\* Data or a keep-alive from an end that is connected.
SendOther(e) ==
    /\ IF mode = "regular" THEN e = "b" /\ accepted # << >> ELSE dial[e].pc = "connected"
    /\ hsWire' = hsWire \cup {[kind |-> "other", to |-> Peer(e)]}
    /\ UNCHANGED <<mode, opts, setOpts, dial, hsStored, agreed, accepted>>

HandshakeNext ==
    \/ SetOpt
    \/ \E e \in Sides : OpenSocket(e) \/ CallConnect(e) \/ SendRequest(e) \/ TakeResponse(e) \/ GiveUp(e) \/ SendOther(e)
    \/ \E p \in hsWire : StorePacket(p) \/ ListenerReceives(p) \/ AnswerHandshake(p)

HandshakeSpec == HandshakeInit /\ [][HandshakeNext]_handshakeVars

-----------------------------------------------------------------------------
(* Properties                                                              *)

\* The connection an end that is connected has at its peer, None when there is none.
Other(e) ==
    IF mode = "rendezvous" THEN agreed[Peer(e)]
    ELSE IF ISN("a") \in DOMAIN accepted THEN accepted[ISN("a")] ELSE None

\* An end is connected to a connection of the attempt it is in: no late response to an
\* earlier attempt, and no packet of another kind, gives it a sequence number its peer
\* does not use.
SeqNosAgree ==
    \A e \in Sides : agreed[e] # None =>
        IF mode = "regular" THEN Other(e) # None /\ agreed[e].peerISN = Other(e).peerISN
        ELSE agreed[e].peerISN = ISN(Peer(e))

\* "rendezvous connect require 3-way handshake": an end is connected only when its peer
\* has heard of it, so that the peer connects on the next packet of any kind.
PeerHasHeard ==
    \A e \in Sides : mode = "rendezvous" /\ agreed[e] # None => dial[Peer(e)].tmp # None

\* "A UDT connection will choose the smaller value of the MSS between the two peer sides"
\* (t-config.htm): both ends then send packets the other has room for.
SmallerMSS ==
    \A e \in Sides : agreed[e] # None /\ Other(e) # None =>
        agreed[e].mss = Smallest(opts["a"].mss, opts["b"].mss) /\ Other(e).mss = agreed[e].mss

\* What two ends have agreed on when both are connected: initial sequence numbers, packet
\* sizes (where MixedMSS lets them differ), and that each has heard of the other.
EndsAgree == SeqNosAgree /\ PeerHasHeard /\ SmallerMSS

\* What e may have on its way when the peer's buffer is as free as it can be: what was
\* agreed, or what an ACK advertises later.
LargestWindow(c, peerRcvBuf) == Max({c.window, peerRcvBuf - 1})

\* The loss arrays, of the receiver's flight flag size and of twice the sender's window,
\* have a slot for every packet of the largest window, in both directions: also when the
\* first answer was lost and the second one told another window.
WindowFitsLossLists ==
    mode = "regular" /\ agreed["a"] # None =>
        LET c == agreed["a"]
            s == Other("a")
            forth == LargestWindow(c, s.rcvBuf)
            back  == LargestWindow(s, opts["a"].rcvBuf)
        IN forth <= s.flight /\ forth <= 2 * c.window /\ back <= opts["a"].flight /\ back <= 2 * s.window
=============================================================================
