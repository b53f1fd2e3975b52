------------------------ MODULE UdtConnectionProofs ------------------------
(***************************************************************************)
(* Proofs about UdtHandshake and UdtMessages.  For any number of attempts  *)
(* and settings and whatever is lost, repeated or reordered, two connected *)
(* ends agree, and the loss arrays have room for the largest window; and   *)
(* for messages of any number and length, recvmsg returns them whole, once *)
(* and in their turn, and loses none that has not expired.                 *)
(***************************************************************************)
EXTENDS UdtHandshake, UdtMessages, SequenceTheorems, WellFoundedInduction, TLAPS

ISNs == Sides \X Nat

PacketTypes == {0, 1, -1, -2, 1002}

Handshakes ==
    [kind : {"handshake"}, to : Sides, type : PacketTypes, isn : ISNs, mss : Nat, flight : Nat, byID : BOOLEAN]

Others == [kind : {"other"}, to : Sides]

Agreements == [kind : {"agreed"}, mss : Nat, window : Nat, peerISN : ISNs]

Connections == [kind : {"agreed"}, mss : Nat, window : Nat, peerISN : ISNs, flight : Nat, rcvBuf : Nat]

Options == [mss : Nat, flight : Nat, rcvBuf : Nat, opened : BOOLEAN]

Dials == [pc : {"idle", "dialling", "connected", "failed"}, attempt : Nat, type : {0, 1, -1}, tmp : Handshakes \cup {None}]

HsTypes ==
    /\ mode \in {"regular", "rendezvous"}
    /\ opts \in [Sides -> Options] /\ dial \in [Sides -> Dials]
    /\ hsWire \subseteq Handshakes \cup Others
    /\ agreed \in [Sides -> Agreements \cup {None}]
    /\ accepted \in [DOMAIN accepted -> Connections]
    /\ hsStored \in [Sides -> Handshakes \cup Others \cup {None}]

\* What is stored for an end was sent to it.
StoredWasSent == \A e \in Sides : hsStored[e] # None => hsStored[e] \in hsWire /\ hsStored[e].to = e

\* An end has agreed on something when it is connected, and never before it sent.
AgreedIsConnected ==
    /\ \A e \in Sides : (agreed[e] # None) = (dial[e].pc = "connected")
    /\ \A i \in DOMAIN accepted : hsWire # {}
    /\ \A e \in Sides : agreed[e] # None => hsWire # {}

\* The receiver's buffer is never larger than the flight flag size, where that may not
\* be set below it.
BufferFits == ~FcBelowBuffer => \A e \in Sides : opts[e].rcvBuf <= opts[e].flight

-----------------------------------------------------------------------------
(* Regular mode.                                                           *)

LessMSS == Smallest(opts["a"].mss, opts["b"].mss)

\* A request tells the options of the end that connects.
RequestTells(p) == p.kind = "handshake" /\ p.mss = opts["a"].mss /\ p.flight = OwnWindow("a")

\* A response is for a connection of the listener's and tells what that has agreed to.
ResponseTells(p) ==
    p.kind = "handshake" /\ p.type = -1 =>
        /\ p.isn \in DOMAIN accepted /\ p.mss = accepted[p.isn].mss
        /\ p.flight \in {opts["b"].flight, OwnWindow("b")}

ConnectionIs(i) ==
    /\ accepted[i].peerISN = i /\ accepted[i].mss = LessMSS /\ accepted[i].window = OwnWindow("a")
    /\ accepted[i].flight = opts["b"].flight /\ accepted[i].rcvBuf = opts["b"].rcvBuf

RegularInv ==
    mode = "regular" =>
        /\ dial["b"].pc = "idle"
        /\ \A p \in hsWire : (p.to = "b" => RequestTells(p)) /\ (p.to = "a" => ResponseTells(p))
        /\ \A i \in DOMAIN accepted : ConnectionIs(i)
        /\ agreed["a"] # None =>
               /\ ISN("a") \in DOMAIN accepted /\ agreed["a"].peerISN = ISN("a") /\ agreed["a"].mss = LessMSS
               /\ agreed["a"].window \in {opts["b"].flight, OwnWindow("b")}

-----------------------------------------------------------------------------
(* Rendezvous mode.                                                        *)

\* Unless the ends may be set to different packet sizes, there is one.
IsDefaultMSS(n) == "rendezvous" \in MixedMSS \/ n = Max(MSSs)

\* A packet is of its sender's only attempt, and any but a first request is proof that
\* the sender has heard of the end it is sent to.
PacketTells(p) ==
    /\ dial[Peer(p.to)].attempt = 1
    /\ p.kind = "handshake" => p.isn = ISN(Peer(p.to)) /\ IsDefaultMSS(p.mss)
    /\ p.kind = "other" \/ p.type # 0 => dial[Peer(p.to)].tmp # None

RendezvousInv ==
    mode = "rendezvous" =>
        /\ \A e \in Sides : IsDefaultMSS(opts[e].mss) /\ dial[e].type \in {0, -1}
        /\ \A e \in Sides : dial[e].attempt = IF dial[e].pc = "idle" THEN 0 ELSE 1
        /\ \A e \in Sides : (dial[e].type = -1) = (dial[e].tmp # None)
        /\ \A e \in Sides : dial[e].tmp # None => dial[e].attempt = 1 /\ dial[e].tmp \in hsWire /\ dial[e].tmp.to = e
        /\ \A p \in hsWire : PacketTells(p)
        /\ \A e \in Sides : agreed[e] # None =>
               /\ dial[e].tmp # None /\ dial[Peer(e)].tmp # None
               /\ agreed[e].peerISN = ISN(Peer(e)) /\ IsDefaultMSS(agreed[e].mss)

USE DEF IsDefaultMSS

HandshakeInv == HsTypes /\ StoredWasSent /\ AgreedIsConnected /\ BufferFits /\ RegularInv /\ RendezvousInv

-----------------------------------------------------------------------------
(* Sizes.                                                                  *)

LEMMA LeastOf ==
    ASSUME NEW S \in SUBSET Nat, S # {}
    PROVE  Min(S) \in S /\ \A n \in S : Min(S) <= n
<1>1. PICK m \in S : \A n \in S : ~ (<<n, m>> \in OpToRel(<, Nat))
  BY NatLessThanWellFounded, WFMin
<1>2. \A n \in S : ~ (n < m)
  BY <1>1 DEF OpToRel
<1>3. m \in S /\ \A n \in S : m <= n
  BY <1>2
<1> QED
  BY <1>3 DEF Min

LEMMA GreatestOf ==
    ASSUME NEW B \in Nat, NEW S \in SUBSET (0 .. B), S # {}
    PROVE  Max(S) \in S /\ \A n \in S : n <= Max(S)
<1> DEFINE T == {B - n : n \in S}
<1>1. T \in SUBSET Nat /\ T # {}
  <2>1. \A x \in T : x \in Nat
    OBVIOUS
  <2>2. PICK n \in S : TRUE
    OBVIOUS
  <2>3. B - n \in T
    BY <2>2
  <2> QED
    BY <2>1, <2>3
<1>2. Min(T) \in T /\ \A n \in T : Min(T) <= n
  BY <1>1, LeastOf
<1>3. PICK m \in S : B - m = Min(T)
  BY <1>2
<1>4. ASSUME NEW n \in S PROVE m >= n
  <2>1. B - n \in T
    OBVIOUS
  <2>2. B - m <= B - n
    BY <2>1, <1>2, <1>3
  <2> QED
    BY <2>2
<1>5. Max(S) \in S /\ \A n \in S : Max(S) >= n
  BY <1>4 DEF Max
<1> QED
  BY <1>5

LEMMA SmallestIs ==
    ASSUME NEW m \in Nat, NEW n \in Nat
    PROVE  Smallest(m, n) = IF m <= n THEN m ELSE n
<1>1. Min({m, n}) \in {m, n} /\ \A k \in {m, n} : Min({m, n}) <= k
  BY LeastOf
<1> QED
  BY <1>1 DEF Smallest

LEMMA SizesType ==
    /\ Max(MSSs) \in Nat /\ MSSs \subseteq Nat
    /\ WindowSizes \subseteq Nat /\ Max(WindowSizes) \in WindowSizes /\ Min(WindowSizes) \in WindowSizes
    /\ Min(WindowSizes) <= Max(WindowSizes)
<1>0. MaxInt \in Nat
  BY SMT DEF MaxInt
<1>1. MSSs \in SUBSET (0 .. MaxInt) /\ WindowSizes \in SUBSET (0 .. MaxInt) /\ MSSs # {} /\ WindowSizes # {}
  BY HandshakeAssumption
<1>2. MSSs \in SUBSET Nat /\ WindowSizes \in SUBSET Nat
  BY <1>0, <1>1
<1>3. Max(MSSs) \in MSSs /\ Max(WindowSizes) \in WindowSizes /\ \A n \in WindowSizes : n <= Max(WindowSizes)
  BY <1>0, <1>1, GreatestOf
<1>4. Min(WindowSizes) \in WindowSizes
  BY <1>1, <1>2, LeastOf
<1> QED
  BY <1>2, <1>3, <1>4

LEMMA OwnWindowIs ==
    ASSUME HsTypes, BufferFits, NEW e \in Sides
    PROVE  OwnWindow(e) \in Nat /\ (~FcBelowBuffer => OwnWindow(e) = opts[e].rcvBuf)
BY SmallestIs DEF OwnWindow, HsTypes, Options, BufferFits

LEMMA SidesAre ==
    /\ "a" \in Sides /\ "b" \in Sides /\ Peer("a") = "b" /\ Peer("b") = "a"
    /\ \A e \in Sides : Peer(e) \in Sides /\ Peer(e) # e /\ Peer(Peer(e)) = e
BY DEF Sides, Peer

\* A packet has an addressee, and says what it is.
LEMMA PacketType ==
    ASSUME HsTypes, NEW p \in hsWire
    PROVE  /\ p.to \in Sides /\ p # None /\ p.kind \in {"handshake", "other"}
           /\ p.kind = "handshake" => p \in Handshakes
           /\ p \in Handshakes \cup Others \cup {None}
BY DEF HsTypes, Handshakes, Others, None

-----------------------------------------------------------------------------
(* Setting options and opening.                                            *)

LEMMA SetOptStep ==
    ASSUME HandshakeInv, SetOpt
    PROVE  HandshakeInv'
<1> USE DEF HandshakeInv
<1>1. hsWire = {} /\ UNCHANGED <<mode, dial, hsStored, agreed, accepted, hsWire>>
  BY DEF SetOpt
<1>2. PICK e \in Sides : \/ \E n \in MSSs : SetMSS(e, n)
                         \/ \E n \in WindowSizes : SetFlightFlag(e, n) \/ SetRcvBuffer(e, n)
  BY DEF SetOpt
<1>3. /\ opts' \in [Sides -> Options] /\ BufferFits'
      /\ mode = "rendezvous" => \A u \in Sides : IsDefaultMSS(opts[u].mss) => IsDefaultMSS(opts'[u].mss)
  <2>1. opts \in [Sides -> Options] /\ opts[e].rcvBuf \in Nat /\ opts[e].flight \in Nat
    BY DEF HsTypes, Options
  <2>2. CASE \E n \in MSSs : SetMSS(e, n)
    BY <2>1, <2>2, SizesType DEF SetMSS, Options, BufferFits
  <2>3. CASE \E n \in WindowSizes : SetFlightFlag(e, n)
    BY <2>1, <2>3, SizesType DEF SetFlightFlag, Options, BufferFits
  <2>4. CASE \E n \in WindowSizes : SetRcvBuffer(e, n)
    <3>1. PICK n \in Nat : SetRcvBuffer(e, n)
      BY <2>4, SizesType
    <3>2. BufferSize(e, n) \in Nat /\ BufferSize(e, n) <= opts[e].flight
      BY <2>1, SmallestIs DEF BufferSize
    <3> QED
      BY <2>1, <3>1, <3>2 DEF SetRcvBuffer, Options, BufferFits
  <2> QED
    BY <1>2, <2>2, <2>3, <2>4
<1>4. HsTypes' /\ BufferFits'
  BY <1>1, <1>3 DEF HsTypes, BufferFits
<1>5. StoredWasSent' /\ AgreedIsConnected'
  BY <1>1 DEF StoredWasSent, AgreedIsConnected
<1>6. RegularInv'
  BY <1>1, SidesAre DEF RegularInv, AgreedIsConnected
<1>7. RendezvousInv'
  BY <1>1, <1>3 DEF RendezvousInv, AgreedIsConnected
<1> QED
  BY <1>4, <1>5, <1>6, <1>7

LEMMA OpenStep ==
    ASSUME HandshakeInv, NEW e \in Sides, OpenSocket(e)
    PROVE  HandshakeInv'
<1> USE DEF HandshakeInv
<1>1. /\ UNCHANGED <<mode, dial, hsStored, agreed, accepted, hsWire>> /\ opts' \in [Sides -> Options]
      /\ \A u \in Sides : opts'[u].mss = opts[u].mss /\ opts'[u].flight = opts[u].flight /\ opts'[u].rcvBuf = opts[u].rcvBuf
  BY DEF OpenSocket, HsTypes, Options
<1>2. HsTypes' /\ BufferFits'
  BY <1>1 DEF HsTypes, BufferFits
<1>3. StoredWasSent' /\ AgreedIsConnected'
  BY <1>1 DEF StoredWasSent, AgreedIsConnected
<1>4. OwnWindow("a")' = OwnWindow("a") /\ OwnWindow("b")' = OwnWindow("b") /\ LessMSS' = LessMSS
  BY <1>1, SidesAre DEF OwnWindow, LessMSS
<1>5. RegularInv'
  BY <1>1, <1>4, SidesAre DEF RegularInv, RequestTells, ResponseTells, ConnectionIs, ISN
<1>6. RendezvousInv'
  BY <1>1 DEF RendezvousInv, PacketTells, ISN
<1> QED
  BY <1>2, <1>3, <1>5, <1>6

-----------------------------------------------------------------------------
(* connect.                                                                *)

LEMMA CallConnectStep ==
    ASSUME HandshakeInv, NEW e \in Sides, CallConnect(e)
    PROVE  HandshakeInv'
<1> USE DEF HandshakeInv
<1>1. /\ UNCHANGED <<mode, opts, hsStored, agreed, accepted, hsWire>> /\ dial[e].pc # "connected"
      /\ dial' = [dial EXCEPT ![e] = [pc |-> "dialling", attempt |-> dial[e].attempt + 1, tmp |-> None,
                                      type |-> IF mode = "regular" THEN 1 ELSE 0]]
      /\ mode = "rendezvous" \/ e = "a"
  BY DEF CallConnect, MayConnect
<1>2. HsTypes'
  BY <1>1 DEF HsTypes, Dials
<1>3. StoredWasSent' /\ BufferFits'
  BY <1>1 DEF StoredWasSent, BufferFits
<1>4. agreed[e] = None
  BY <1>1 DEF AgreedIsConnected
<1>5. AgreedIsConnected'
  BY <1>1, <1>4 DEF AgreedIsConnected, HsTypes
<1>6. ASSUME mode = "regular" PROVE RegularInv'
  <2>1. e = "a" /\ dial'["b"] = dial["b"] /\ agreed'["a"] = None
    BY <1>1, <1>4, <1>6, SidesAre DEF HsTypes
  <2>2. OwnWindow("a")' = OwnWindow("a") /\ OwnWindow("b")' = OwnWindow("b") /\ LessMSS' = LessMSS
    BY <1>1 DEF OwnWindow, LessMSS
  <2> QED
    BY <1>1, <2>1, <2>2, <1>6 DEF RegularInv, RequestTells, ResponseTells, ConnectionIs
<1>7. ASSUME mode = "rendezvous" PROVE RendezvousInv'
  <2>1. dial[e].attempt = 0 /\ dial[e].tmp = None
    BY <1>7 DEF RendezvousInv, CallConnect
  <2>2. /\ \A u \in Sides : u # e => dial'[u] = dial[u]
        /\ dial'[e].attempt = 1 /\ dial'[e].type = 0 /\ dial'[e].tmp = None /\ dial'[e].pc = "dialling"
    BY <1>1, <1>7, <2>1 DEF HsTypes
  <2>3. \A p \in hsWire : Peer(p.to) \in Sides /\ Peer(p.to) # e
    BY <1>7, <2>1, PacketType, SidesAre DEF RendezvousInv, PacketTells
  <2>4. \A p \in hsWire : PacketTells(p)'
    BY <1>1, <1>7, <2>2, <2>3 DEF RendezvousInv, PacketTells, ISN
  <2>5. \A u \in Sides : agreed[u] # None => u # e /\ Peer(u) # e /\ Peer(u) \in Sides
    BY <1>4, <1>7, <2>1, SidesAre DEF RendezvousInv
  <2>6. \A u \in Sides : agreed'[u] # None =>
               /\ dial'[u].tmp # None /\ dial'[Peer(u)].tmp # None
               /\ agreed'[u].peerISN = ISN(Peer(u))' /\ IsDefaultMSS(agreed'[u].mss)
    BY <1>1, <1>7, <2>2, <2>5 DEF RendezvousInv, ISN
  <2>7. \A u \in Sides : /\ IsDefaultMSS(opts'[u].mss) /\ dial'[u].type \in {0, -1}
                         /\ dial'[u].attempt = IF dial'[u].pc = "idle" THEN 0 ELSE 1
                         /\ (dial'[u].type = -1) = (dial'[u].tmp # None)
                         /\ dial'[u].tmp # None => dial'[u].attempt = 1 /\ dial'[u].tmp \in hsWire' /\ dial'[u].tmp.to = u
    BY <1>1, <1>7, <2>2 DEF RendezvousInv
  <2> QED
    BY <1>1, <2>4, <2>6, <2>7 DEF RendezvousInv
<1> QED
  BY <1>1, <1>2, <1>3, <1>5, <1>6, <1>7 DEF RegularInv, RendezvousInv, HsTypes

LEMMA GiveUpStep ==
    ASSUME HandshakeInv, NEW e \in Sides, GiveUp(e)
    PROVE  HandshakeInv'
<1> USE DEF HandshakeInv
<1>1. /\ UNCHANGED <<mode, opts, hsStored, agreed, accepted, hsWire>> /\ dial[e].pc = "dialling"
      /\ dial' \in [Sides -> Dials] /\ dial'[e].pc = "failed"
      /\ \A u \in Sides : /\ u # e => dial'[u].pc = dial[u].pc
                          /\ dial'[u].attempt = dial[u].attempt /\ dial'[u].type = dial[u].type /\ dial'[u].tmp = dial[u].tmp
  BY DEF GiveUp, HsTypes, Dials
<1>2. HsTypes' /\ StoredWasSent' /\ BufferFits' /\ AgreedIsConnected'
  BY <1>1 DEF HsTypes, StoredWasSent, BufferFits, AgreedIsConnected
<1>3. ISN("a")' = ISN("a") /\ ISN("b")' = ISN("b")
      /\ OwnWindow("a")' = OwnWindow("a") /\ OwnWindow("b")' = OwnWindow("b") /\ LessMSS' = LessMSS
  BY <1>1, SidesAre DEF ISN, OwnWindow, LessMSS
<1>4. \A u \in Sides : ISN(Peer(u))' = ISN(Peer(u)) /\ Peer(u) \in Sides
  BY <1>1, SidesAre DEF ISN
<1>5. RegularInv'
  <2>1. mode = "regular" => dial'["b"].pc = "idle"
    BY <1>1, SidesAre DEF RegularInv
  <2> QED
    BY <1>1, <1>3, <2>1 DEF RegularInv, RequestTells, ResponseTells, ConnectionIs
<1>6. \A p \in hsWire : PacketTells(p)' = PacketTells(p)
  BY <1>1, <1>4, PacketType DEF PacketTells
<1>7. RendezvousInv'
  BY <1>1, <1>4, <1>6 DEF RendezvousInv
<1> QED
  BY <1>2, <1>5, <1>7

-----------------------------------------------------------------------------
(* Packets.                                                                *)

\* One more packet that tells the truth, and maybe one more connection.
LEMMA WireGrows ==
    ASSUME HandshakeInv, NEW q \in Handshakes \cup Others, hsWire' = hsWire \cup {q},
           UNCHANGED <<mode, opts, dial, hsStored, agreed>>,
           accepted' \in [DOMAIN accepted' -> Connections],
           \A i \in DOMAIN accepted : i \in DOMAIN accepted' /\ accepted'[i] = accepted[i],
           mode = "regular" => /\ \A i \in DOMAIN accepted' : ConnectionIs(i)'
                               /\ q.to = "b" => RequestTells(q)
                               /\ q.to = "a" => ResponseTells(q)',
           mode = "rendezvous" => PacketTells(q)
    PROVE  HandshakeInv'
<1> USE DEF HandshakeInv
<1>1. HsTypes'
  BY DEF HsTypes
<1>2. StoredWasSent' /\ BufferFits' /\ AgreedIsConnected'
  BY DEF StoredWasSent, BufferFits, AgreedIsConnected
<1>3. ASSUME mode = "regular" PROVE RegularInv'
  <2>1. \A p \in hsWire' : p.to = "b" => RequestTells(p)'
    BY <1>3 DEF RegularInv, RequestTells, OwnWindow
  <2>2. \A p \in hsWire' : p.to = "a" => ResponseTells(p)'
    BY <1>3 DEF RegularInv, ResponseTells, OwnWindow
  <2>3. ISN("a")' = ISN("a") /\ OwnWindow("b")' = OwnWindow("b") /\ LessMSS' = LessMSS
    BY DEF ISN, OwnWindow, LessMSS
  <2> QED
    BY <1>3, <2>1, <2>2, <2>3 DEF RegularInv
<1>4. ASSUME mode = "rendezvous" PROVE RendezvousInv'
  <2>1. \A p \in hsWire' : PacketTells(p)'
    BY <1>4 DEF RendezvousInv, PacketTells, ISN
  <2>2. \A e \in Sides : ISN(Peer(e))' = ISN(Peer(e))
    BY DEF ISN
  <2> QED
    BY <1>4, <2>1, <2>2 DEF RendezvousInv
<1> QED
  BY <1>1, <1>2, <1>3, <1>4 DEF RegularInv, RendezvousInv

\* Nothing else changes: what the listener has accepted stays as it is.
LEMMA PacketSent ==
    ASSUME HandshakeInv, NEW q \in Handshakes \cup Others, hsWire' = hsWire \cup {q},
           UNCHANGED <<mode, opts, dial, hsStored, agreed, accepted>>,
           mode = "regular" => (q.to = "b" => RequestTells(q)) /\ (q.to = "a" => ResponseTells(q)),
           mode = "rendezvous" => PacketTells(q)
    PROVE  HandshakeInv'
<1>1. ResponseTells(q)' = ResponseTells(q)
  BY DEF ResponseTells, OwnWindow
<1>2. mode = "regular" => \A i \in DOMAIN accepted' : ConnectionIs(i)'
  BY DEF HandshakeInv, RegularInv, ConnectionIs, OwnWindow, LessMSS
<1>3. accepted' \in [DOMAIN accepted' -> Connections]
  BY DEF HandshakeInv, HsTypes
<1> QED
  BY <1>1, <1>2, <1>3, WireGrows

LEMMA SendRequestStep ==
    ASSUME HandshakeInv, NEW e \in Sides, SendRequest(e)
    PROVE  HandshakeInv'
<1> DEFINE q == [kind |-> "handshake", to |-> Peer(e), type |-> dial[e].type, isn |-> ISN(e), mss |-> opts[e].mss,
                 flight |-> OwnWindow(e), byID |-> dial[e].tmp # None]
<1>1. hsWire' = hsWire \cup {q} /\ UNCHANGED <<mode, opts, dial, hsStored, agreed, accepted>> /\ dial[e].pc = "dialling"
  BY DEF SendRequest
<1>2. /\ dial[e].type \in {0, 1, -1} /\ ISN(e) \in ISNs /\ opts[e].mss \in Nat /\ OwnWindow(e) \in Nat /\ Peer(e) \in Sides
      /\ (dial[e].tmp # None) \in BOOLEAN
  BY OwnWindowIs, SidesAre DEF HandshakeInv, HsTypes, Dials, Options, ISN, ISNs
<1>3. q \in Handshakes
  BY <1>2 DEF Handshakes, PacketTypes
<1>4. mode = "regular" => e = "a"
  BY <1>1 DEF HandshakeInv, RegularInv, Sides
<1>5. mode = "regular" => q.to = "b" /\ RequestTells(q)
  BY <1>4, SidesAre DEF RequestTells
<1>6. Peer(q.to) = e
  BY SidesAre
<1>7. ASSUME mode = "rendezvous" PROVE PacketTells(q)
  <2>1. dial[e].attempt = 1
    BY <1>1, <1>7 DEF HandshakeInv, RendezvousInv
  <2> QED
    BY <2>1, <1>6, <1>7 DEF HandshakeInv, RendezvousInv, PacketTells
<1> QED
  BY <1>1, <1>3, <1>5, <1>7, PacketSent, SidesAre

LEMMA SendOtherStep ==
    ASSUME HandshakeInv, NEW e \in Sides, SendOther(e)
    PROVE  HandshakeInv'
<1> DEFINE q == [kind |-> "other", to |-> Peer(e)]
<1>1. /\ hsWire' = hsWire \cup {q} /\ UNCHANGED <<mode, opts, dial, hsStored, agreed, accepted>>
      /\ IF mode = "regular" THEN e = "b" ELSE dial[e].pc = "connected"
  BY DEF SendOther
<1>2. q \in Others /\ Peer(q.to) = e
  BY SidesAre DEF Others
<1>3. mode = "regular" => q.to = "a" /\ ResponseTells(q)
  BY <1>1, SidesAre DEF ResponseTells
<1>4. ASSUME mode = "rendezvous" PROVE PacketTells(q)
  <2>1. dial[e].attempt = 1 /\ dial[e].tmp # None
    BY <1>1, <1>4 DEF HandshakeInv, AgreedIsConnected, RendezvousInv
  <2> QED
    BY <2>1, <1>2 DEF PacketTells
<1> QED
  BY <1>1, <1>2, <1>3, <1>4, PacketSent

LEMMA AnswerStep ==
    ASSUME HandshakeInv, NEW p \in hsWire, AnswerHandshake(p)
    PROVE  HandshakeInv'
<1> DEFINE e == p.to
           q == [kind |-> "handshake", to |-> Peer(e), type |-> -2, isn |-> ISN(e), mss |-> agreed[e].mss,
                 flight |-> opts[e].flight, byID |-> TRUE]
<1>1. /\ hsWire' = hsWire \cup {q} /\ UNCHANGED <<mode, opts, dial, hsStored, agreed, accepted>>
      /\ mode = "rendezvous" /\ dial[e].pc = "connected"
  BY DEF AnswerHandshake
<1>2. e \in Sides
  BY PacketType DEF HandshakeInv
<1> HIDE DEF e
<1>3. agreed[e] # None /\ agreed[e] \in Agreements /\ agreed[e].mss \in Nat
  BY <1>1, <1>2 DEF HandshakeInv, HsTypes, AgreedIsConnected, Agreements
<1>4. /\ dial[e].attempt = 1 /\ dial[e].tmp # None /\ IsDefaultMSS(agreed[e].mss)
  BY <1>1, <1>2, <1>3 DEF HandshakeInv, RendezvousInv
<1>5. ISN(e) \in ISNs /\ opts[e].flight \in Nat /\ Peer(e) \in Sides /\ Peer(Peer(e)) = e
  BY <1>2, SidesAre DEF HandshakeInv, HsTypes, Dials, Options, ISN, ISNs
<1>6. q \in Handshakes
  BY <1>3, <1>5 DEF Handshakes, PacketTypes
<1>7. PacketTells(q)
  BY <1>4, <1>5 DEF PacketTells
<1> QED
  BY <1>1, <1>6, <1>7, PacketSent

LEMMA ListenerStep ==
    ASSUME HandshakeInv, NEW p \in hsWire, ListenerReceives(p)
    PROVE  HandshakeInv'
<1>1. mode = "regular" /\ p.to = "b" /\ UNCHANGED <<mode, opts, setOpts, dial, hsStored, agreed>>
  BY DEF ListenerReceives
<1>2. RequestTells(p) /\ p \in Handshakes /\ HsTypes /\ RegularInv
  BY <1>1, PacketType DEF HandshakeInv, RegularInv, RequestTells
<1>3. OwnWindow("a") \in Nat /\ OwnWindow("b") \in Nat
  BY OwnWindowIs, SidesAre DEF HandshakeInv
<1>4. ASSUME NEW type \in {-1, 1002}, NEW mss \in Nat, NEW flight \in Nat, Reply(p, type, mss, flight)
      PROVE  \E q \in Handshakes : /\ hsWire' = hsWire \cup {q} /\ q.to = "a" /\ q.type = type /\ q.mss = mss
                                   /\ q.flight = flight /\ q.isn = p.isn
  <2> DEFINE q == [p EXCEPT !.to = "a", !.type = type, !.mss = mss, !.flight = flight, !.byID = TRUE]
  <2>1. q \in Handshakes /\ q.to = "a" /\ q.type = type /\ q.mss = mss /\ q.flight = flight /\ q.isn = p.isn
    <3>1. type \in PacketTypes
      BY DEF PacketTypes
    <3> QED
      BY <3>1, <1>2, SidesAre DEF Handshakes
  <2> QED
    BY <1>4, <2>1 DEF Reply
<1>5. CASE p.type = 1 /\ UNCHANGED accepted /\ hsWire' = hsWire \cup {[p EXCEPT !.to = "a", !.byID = TRUE]}
  <2> DEFINE q == [p EXCEPT !.to = "a", !.byID = TRUE]
  <2>1. q \in Handshakes /\ q.to = "a" /\ q.type = 1
    BY <1>2, <1>5, SidesAre DEF Handshakes
  <2>2. ResponseTells(q)
    BY <2>1 DEF ResponseTells
  <2>3. q.to # "b" /\ mode # "rendezvous"
    BY <2>1, <1>1
  <2> QED
    BY <1>1, <1>5, <2>1, <2>2, <2>3, PacketSent
<1>6. CASE MakeConnection(p)
  <2> DEFINE new == [kind |-> "agreed", mss |-> NegotiatedMSS(p), window |-> p.flight, peerISN |-> p.isn,
                     flight |-> opts["b"].flight, rcvBuf |-> opts["b"].rcvBuf]
  <2>1. /\ p.mss \in Nat /\ p.flight \in Nat /\ p.isn \in ISNs /\ opts["b"].mss \in Nat
        /\ opts["b"].flight \in Nat /\ opts["b"].rcvBuf \in Nat
    BY <1>2, SidesAre DEF HsTypes, Handshakes, Options
  <2>2. NegotiatedMSS(p) \in Nat /\ NegotiatedMSS(p) = LessMSS
    BY <2>1, <1>2, SmallestIs DEF NegotiatedMSS, LessMSS, RequestTells
  <2>3. CASE p.isn \in DOMAIN accepted /\ Reply(p, -1, accepted[p.isn].mss, accepted[p.isn].flight) /\ UNCHANGED accepted
    <3>1. accepted[p.isn].mss \in Nat /\ accepted[p.isn].flight \in Nat /\ accepted[p.isn].flight = opts["b"].flight
      BY <2>3, <1>1, <1>2 DEF HsTypes, Connections, RegularInv, ConnectionIs
    <3>2. PICK q \in Handshakes : /\ hsWire' = hsWire \cup {q} /\ q.to = "a" /\ q.mss = accepted[p.isn].mss
                                  /\ q.flight = accepted[p.isn].flight /\ q.isn = p.isn
      BY <2>3, <3>1, <1>4
    <3>3. ResponseTells(q)
      BY <2>3, <3>1, <3>2 DEF ResponseTells
    <3> QED
      BY <1>1, <2>3, <3>2, <3>3, PacketSent
  <2>4. CASE Reply(p, 1002, p.mss, p.flight) /\ UNCHANGED accepted
    <3>1. PICK q \in Handshakes : hsWire' = hsWire \cup {q} /\ q.to = "a" /\ q.type = 1002
      BY <2>1, <2>4, <1>4
    <3>2. ResponseTells(q)
      BY <3>1 DEF ResponseTells
    <3> QED
      BY <1>1, <2>4, <3>1, <3>2, PacketSent
  <2>5. CASE /\ p.isn \notin DOMAIN accepted /\ Reply(p, -1, new.mss, OwnWindow("b"))
             /\ accepted' = [i \in DOMAIN accepted \cup {p.isn} |-> IF i = p.isn THEN new ELSE accepted[i]]
    <3>1. new \in Connections /\ new.mss = LessMSS /\ new.mss \in Nat /\ new.window = OwnWindow("a") /\ new.peerISN = p.isn
          /\ new.flight = opts["b"].flight /\ new.rcvBuf = opts["b"].rcvBuf
      BY <2>1, <2>2, <1>2 DEF Connections, RequestTells
    <3> HIDE DEF new
    <3>2. PICK q \in Handshakes : /\ hsWire' = hsWire \cup {q} /\ q.to = "a" /\ q.mss = new.mss
                                  /\ q.flight = OwnWindow("b") /\ q.isn = p.isn
      BY <2>5, <3>1, <1>3, <1>4
    <3>3. /\ DOMAIN accepted' = DOMAIN accepted \cup {p.isn} /\ accepted'[p.isn] = new
          /\ \A i \in DOMAIN accepted : accepted'[i] = accepted[i]
      BY <2>5
    <3>4. accepted' \in [DOMAIN accepted' -> Connections]
      BY <2>5, <3>1, <1>2 DEF HsTypes
    <3>5. OwnWindow("a")' = OwnWindow("a") /\ OwnWindow("b")' = OwnWindow("b") /\ LessMSS' = LessMSS
      BY <1>1 DEF OwnWindow, LessMSS
    <3>6. ResponseTells(q)'
      BY <3>2, <3>3, <3>5, <1>1 DEF ResponseTells
    <3>7. \A i \in DOMAIN accepted' : ConnectionIs(i)'
      BY <3>1, <3>3, <3>5, <1>1, <1>2 DEF RegularInv, ConnectionIs
    <3>8. \A i \in DOMAIN accepted : i \in DOMAIN accepted' /\ accepted'[i] = accepted[i]
      BY <3>3
    <3>9. q.to # "b" /\ mode # "rendezvous" /\ q \in Handshakes \cup Others
      BY <3>2, <1>1
    <3> QED
      BY <1>1, <3>2, <3>4, <3>6, <3>7, <3>8, <3>9, WireGrows
  <2> QED
    BY <1>6, <2>3, <2>4, <2>5 DEF MakeConnection
<1> QED
  BY <1>5, <1>6 DEF ListenerReceives

LEMMA StoreStep ==
    ASSUME HandshakeInv, NEW p \in hsWire, StorePacket(p)
    PROVE  HandshakeInv'
<1> USE DEF HandshakeInv
<1>1. /\ hsStored' = [hsStored EXCEPT ![p.to] = p] /\ UNCHANGED <<mode, opts, dial, agreed, accepted, hsWire>>
  BY DEF StorePacket
<1>2. p.to \in Sides /\ p \in Handshakes \cup Others \cup {None}
  BY PacketType
<1>3. HsTypes' /\ StoredWasSent'
  BY <1>1, <1>2 DEF HsTypes, StoredWasSent
<1>4. BufferFits' /\ AgreedIsConnected' /\ RegularInv' /\ RendezvousInv'
  BY <1>1 DEF BufferFits, AgreedIsConnected, RegularInv, RequestTells, ResponseTells, ConnectionIs, LessMSS, OwnWindow, ISN,
              RendezvousInv, PacketTells
<1> QED
  BY <1>3, <1>4

-----------------------------------------------------------------------------
(* A response is taken.                                                    *)

LEMMA TakeRegularStep ==
    ASSUME HandshakeInv, NEW e \in Sides, TakeResponse(e), mode = "regular"
    PROVE  HandshakeInv'
<1> USE DEF HandshakeInv
<1> DEFINE p == hsStored[e]
<1>1. /\ dial[e].pc = "dialling" /\ p # None /\ p \in hsWire /\ p.to = e /\ hsStored' = [hsStored EXCEPT ![e] = None]
      /\ TakeRegular(e, p) /\ UNCHANGED <<mode, opts, accepted, hsWire>>
  BY DEF TakeResponse, StoredWasSent
<1>2. e = "a"
  BY <1>1 DEF RegularInv, Sides
<1>3. ResponseTells(p) /\ (p.kind = "handshake" => p \in Handshakes) /\ agreed[e] = None
  BY <1>1, <1>2, PacketType DEF RegularInv, AgreedIsConnected
<1> HIDE DEF p
<1>4. StoredWasSent' /\ BufferFits' /\ hsStored' \in [Sides -> Handshakes \cup Others \cup {None}]
  BY <1>1 DEF StoredWasSent, BufferFits, HsTypes
<1>5. OwnWindow("a")' = OwnWindow("a") /\ OwnWindow("b")' = OwnWindow("b") /\ LessMSS' = LessMSS
  BY <1>1 DEF OwnWindow, LessMSS
<1>9. /\ \A q \in hsWire' : (q.to = "b" => RequestTells(q)') /\ (q.to = "a" => ResponseTells(q)')
      /\ \A i \in DOMAIN accepted' : ConnectionIs(i)'
  BY <1>1, <1>5 DEF RegularInv, RequestTells, ResponseTells, ConnectionIs
<1>6. CASE dial' \in [Sides -> Dials] /\ dial'["b"] = dial["b"] /\ dial'["a"].pc # "connected" /\ agreed' = agreed
  <2>1. HsTypes' /\ AgreedIsConnected'
    BY <1>1, <1>2, <1>3, <1>4, <1>6, SidesAre DEF HsTypes, AgreedIsConnected, Sides
  <2>2. agreed'["a"] = None /\ dial'["b"].pc = "idle"
    BY <1>2, <1>3, <1>6 DEF RegularInv
  <2>3. RegularInv'
    BY <2>2, <1>9 DEF RegularInv
  <2> QED
    BY <1>1, <1>4, <2>1, <2>3 DEF RendezvousInv
<1>7. CASE p.kind = "handshake" /\ p.type = -1 /\ IsMyISN(e, p) /\ Connected(e, p)
  <2>1. /\ p.isn = ISN("a") /\ p.isn \in DOMAIN accepted /\ p.mss = accepted[p.isn].mss
        /\ p.flight \in {opts["b"].flight, OwnWindow("b")} /\ p \in Handshakes
    BY <1>2, <1>3, <1>7 DEF ResponseTells, IsMyISN
  <2>2. p.mss = LessMSS /\ p.mss \in Nat /\ p.flight \in Nat /\ p.isn \in ISNs
    BY <2>1 DEF RegularInv, ConnectionIs, Handshakes
  <2>3. /\ dial' = [dial EXCEPT !["a"].pc = "connected"]
        /\ agreed' = [agreed EXCEPT !["a"] = [kind |-> "agreed", mss |-> p.mss, window |-> p.flight, peerISN |-> p.isn]]
    BY <1>2, <1>7 DEF Connected
  <2>4. /\ dial' \in [Sides -> Dials] /\ dial'["b"] = dial["b"] /\ dial'["a"].pc = "connected"
        /\ dial'["a"].attempt = dial["a"].attempt
    BY <2>3, SidesAre DEF HsTypes, Dials
  <2>5. /\ agreed'["b"] = agreed["b"] /\ agreed'["a"].mss = p.mss /\ agreed'["a"].window = p.flight
        /\ agreed'["a"].peerISN = p.isn /\ agreed'["a"] \in Agreements /\ agreed'["a"] # None
        /\ agreed' \in [Sides -> Agreements \cup {None}]
    BY <2>2, <2>3, SidesAre DEF HsTypes, Agreements, None
  <2>6. HsTypes'
    BY <1>1, <1>4, <2>4, <2>5 DEF HsTypes
  <2>7. AgreedIsConnected'
    BY <1>1, <2>4, <2>5 DEF AgreedIsConnected, Sides
  <2>8. ISN("a")' = ISN("a")
    BY <2>4 DEF ISN
  <2>9. RegularInv'
    BY <1>1, <1>5, <1>9, <2>1, <2>2, <2>4, <2>5, <2>8 DEF RegularInv
  <2> QED
    BY <1>1, <1>4, <2>6, <2>7, <2>9 DEF RendezvousInv
<1> QED
  <2>1. \/ UNCHANGED <<dial, agreed>>
        \/ dial' = [dial EXCEPT ![e].type = -1] /\ UNCHANGED agreed
        \/ dial' = [dial EXCEPT ![e].pc = "failed"] /\ UNCHANGED agreed
        \/ p.kind = "handshake" /\ p.type = -1 /\ IsMyISN(e, p) /\ Connected(e, p)
    BY <1>1 DEF TakeRegular
  <2>2. CASE UNCHANGED <<dial, agreed>>
    BY <2>2, <1>1, <1>2, <1>6 DEF HsTypes
  <2>3. CASE dial' = [dial EXCEPT ![e].type = -1] /\ UNCHANGED agreed
    BY <2>3, <1>1, <1>2, <1>6, SidesAre DEF HsTypes, Dials
  <2>4. CASE dial' = [dial EXCEPT ![e].pc = "failed"] /\ UNCHANGED agreed
    BY <2>4, <1>1, <1>2, <1>6, SidesAre DEF HsTypes, Dials
  <2> QED
    BY <2>1, <2>2, <2>3, <2>4, <1>7

LEMMA TakeRendezvousStep ==
    ASSUME HandshakeInv, NEW e \in Sides, TakeResponse(e), mode = "rendezvous"
    PROVE  HandshakeInv'
<1> USE DEF HandshakeInv
<1> DEFINE p == hsStored[e]
<1>1. /\ dial[e].pc = "dialling" /\ p # None /\ p \in hsWire /\ p.to = e /\ hsStored' = [hsStored EXCEPT ![e] = None]
      /\ TakeRendezvous(e, p) /\ UNCHANGED <<mode, opts, accepted, hsWire>>
  BY DEF TakeResponse, StoredWasSent
<1>2. /\ PacketTells(p) /\ p.kind \in {"handshake", "other"} /\ (p.kind = "handshake" => p \in Handshakes) /\ agreed[e] = None
      /\ Peer(e) \in Sides /\ Peer(e) # e
  BY <1>1, PacketType, SidesAre DEF RendezvousInv, AgreedIsConnected
<1> HIDE DEF p
<1>3. StoredWasSent' /\ BufferFits' /\ hsStored' \in [Sides -> Handshakes \cup Others \cup {None}]
  BY <1>1 DEF StoredWasSent, BufferFits, HsTypes
<1>4. CASE UNCHANGED <<dial, agreed>>
  BY <1>1, <1>3, <1>4 DEF HsTypes, AgreedIsConnected, RegularInv, RendezvousInv, PacketTells, ISN
<1>5. CASE p.kind = "handshake" /\ dial' = [dial EXCEPT ![e].tmp = p, ![e].type = -1] /\ UNCHANGED agreed
  <2>1. p \in Handshakes
    BY <1>2, <1>5
  <2>2. /\ dial' \in [Sides -> Dials] /\ dial'[e].tmp = p /\ dial'[e].type = -1
        /\ \A u \in Sides : dial'[u].pc = dial[u].pc /\ dial'[u].attempt = dial[u].attempt
        /\ \A u \in Sides : u # e => dial'[u] = dial[u]
    BY <1>5, <2>1 DEF HsTypes, Dials
  <2>3. HsTypes' /\ AgreedIsConnected'
    BY <1>1, <1>3, <1>5, <2>2 DEF HsTypes, AgreedIsConnected
  <2>4. \A u \in Sides : dial[u].tmp # None => dial'[u].tmp # None
    BY <1>1, <2>2
  <2>5. \A u \in Sides : Peer(u) \in Sides /\ ISN(Peer(u))' = ISN(Peer(u))
    BY <2>2, SidesAre DEF ISN
  <2>6. \A q \in hsWire : PacketTells(q)'
    BY <1>1, <2>2, <2>4, <2>5, PacketType DEF RendezvousInv, PacketTells
  <2>7. \A u \in Sides : /\ (dial'[u].type = -1) = (dial'[u].tmp # None) /\ dial'[u].type \in {0, -1}
                         /\ dial'[u].tmp # None => dial'[u].attempt = 1 /\ dial'[u].tmp \in hsWire /\ dial'[u].tmp.to = u
    BY <1>1, <2>2 DEF RendezvousInv
  <2>8. RendezvousInv'
    BY <1>1, <1>5, <2>2, <2>4, <2>5, <2>6, <2>7 DEF RendezvousInv
  <2> QED
    BY <1>1, <1>3, <2>3, <2>8 DEF RegularInv
<1>6. ASSUME NEW r \in hsWire, r.to = e, r \in Handshakes, r.kind = "handshake", Connected(e, r),
             dial[e].tmp # None, dial[Peer(e)].tmp # None
      PROVE  HandshakeInv'
  <2>1. /\ dial' = [dial EXCEPT ![e].pc = "connected"]
        /\ agreed' = [agreed EXCEPT ![e] = [kind |-> "agreed", mss |-> r.mss, window |-> r.flight, peerISN |-> r.isn]]
    BY <1>6 DEF Connected
  <2>2. r.mss \in Nat /\ r.flight \in Nat /\ r.isn \in ISNs /\ r.isn = ISN(Peer(e)) /\ IsDefaultMSS(r.mss)
    BY <1>1, <1>6 DEF Handshakes, RendezvousInv, PacketTells
  <2>3. /\ dial' \in [Sides -> Dials] /\ dial'[e].pc = "connected"
        /\ \A u \in Sides : u # e => dial'[u].pc = dial[u].pc
        /\ \A u \in Sides : dial'[u].attempt = dial[u].attempt /\ dial'[u].type = dial[u].type /\ dial'[u].tmp = dial[u].tmp
    BY <2>1 DEF HsTypes, Dials
  <2>4. /\ agreed' \in [Sides -> Agreements \cup {None}] /\ agreed'[e] # None
        /\ agreed'[e].mss = r.mss /\ agreed'[e].peerISN = r.isn
        /\ \A u \in Sides : u # e => agreed'[u] = agreed[u]
    BY <2>1, <2>2 DEF HsTypes, Agreements, None
  <2>5. HsTypes'
    BY <1>1, <1>3, <2>3, <2>4 DEF HsTypes
  <2>6. AgreedIsConnected'
    BY <1>1, <2>3, <2>4 DEF AgreedIsConnected
  <2>7. \A u \in Sides : Peer(u) \in Sides /\ ISN(Peer(u))' = ISN(Peer(u))
    BY <2>3, SidesAre DEF ISN
  <2>8. \A q \in hsWire : PacketTells(q)'
    BY <1>1, <2>3, <2>7, PacketType DEF RendezvousInv, PacketTells
  <2>9. \A u \in Sides : agreed'[u] # None =>
               /\ dial'[u].tmp # None /\ dial'[Peer(u)].tmp # None
               /\ agreed'[u].peerISN = ISN(Peer(u))' /\ IsDefaultMSS(agreed'[u].mss)
    BY <1>1, <1>6, <2>2, <2>3, <2>4, <2>7 DEF RendezvousInv
  <2>10. \A u \in Sides : dial'[u].attempt = IF dial'[u].pc = "idle" THEN 0 ELSE 1
    BY <1>1, <2>3 DEF RendezvousInv
  <2>11. RendezvousInv'
    BY <1>1, <2>3, <2>8, <2>9, <2>10 DEF RendezvousInv
  <2> QED
    BY <1>1, <1>3, <2>5, <2>6, <2>11 DEF RegularInv
<1>7. CASE p.kind # "handshake" /\ dial[e].tmp # None /\ Connected(e, dial[e].tmp)
  <2>1. dial[e].tmp \in hsWire /\ dial[e].tmp.to = e /\ dial[e].tmp \in Handshakes /\ dial[e].tmp.kind = "handshake"
    BY <1>1, <1>7 DEF RendezvousInv, HsTypes, Dials, Handshakes
  <2>2. dial[Peer(e)].tmp # None
    BY <1>1, <1>2, <1>7 DEF PacketTells
  <2> QED
    BY <1>6, <1>7, <2>1, <2>2
<1>8. CASE p.kind = "handshake" /\ ~IsFirstHearing(e, p) /\ Connected(e, p)
  <2>1. p.type # 0 /\ dial[e].type # 0
    BY <1>8 DEF IsFirstHearing
  <2>2. dial[e].tmp # None /\ dial[Peer(e)].tmp # None
    BY <2>1, <1>1, <1>2 DEF RendezvousInv, PacketTells
  <2> QED
    BY <1>1, <1>2, <1>6, <1>8, <2>2
<1> QED
  BY <1>1, <1>4, <1>5, <1>7, <1>8 DEF TakeRendezvous

-----------------------------------------------------------------------------

LEMMA InitHandshake ==
    ASSUME HandshakeInit
    PROVE  HandshakeInv
<1> USE DEF HandshakeInit
<1>1. /\ \A e \in Sides : /\ IsDefaultMSS(opts[e].mss) /\ opts[e].flight = Max(WindowSizes) /\ opts[e].rcvBuf = Min(WindowSizes)
                          /\ dial[e].pc = "idle" /\ dial[e].attempt = 0 /\ dial[e].type = 0 /\ dial[e].tmp = None
                          /\ agreed[e] = None /\ hsStored[e] = None
      /\ hsWire = {} /\ DOMAIN accepted = {}
  OBVIOUS
<1>2. opts \in [Sides -> Options]
  BY SizesType DEF Options
<1>3. dial \in [Sides -> Dials]
  BY DEF Dials
<1>4. accepted \in [DOMAIN accepted -> Connections]
  BY <1>1
<1>5. mode \in {"regular", "rendezvous"}
  BY HandshakeAssumption
<1>6. HsTypes
  BY <1>1, <1>2, <1>3, <1>4, <1>5 DEF HsTypes
<1>7. BufferFits
  BY <1>1, SizesType DEF BufferFits
<1>8. StoredWasSent /\ AgreedIsConnected
  BY <1>1 DEF StoredWasSent, AgreedIsConnected
<1>9. RegularInv /\ RendezvousInv
  BY <1>1, SidesAre DEF RegularInv, RendezvousInv
<1> QED
  BY <1>6, <1>7, <1>8, <1>9 DEF HandshakeInv

LEMMA NextHandshake ==
    ASSUME HandshakeInv, [HandshakeNext]_handshakeVars
    PROVE  HandshakeInv'
<1>1. CASE SetOpt
  BY <1>1, SetOptStep
<1>2. ASSUME NEW e \in Sides,
             OpenSocket(e) \/ CallConnect(e) \/ SendRequest(e) \/ TakeResponse(e) \/ GiveUp(e) \/ SendOther(e)
      PROVE  HandshakeInv'
  <2>1. TakeResponse(e) => HandshakeInv'
    BY TakeRegularStep, TakeRendezvousStep DEF HandshakeInv, HsTypes
  <2> QED
    BY <1>2, <2>1, OpenStep, CallConnectStep, SendRequestStep, GiveUpStep, SendOtherStep
<1>3. ASSUME NEW p \in hsWire, StorePacket(p) \/ ListenerReceives(p) \/ AnswerHandshake(p)
      PROVE  HandshakeInv'
  BY <1>3, StoreStep, ListenerStep, AnswerStep
<1>4. CASE UNCHANGED handshakeVars
  BY <1>4 DEF handshakeVars, HandshakeInv, HsTypes, StoredWasSent, AgreedIsConnected, BufferFits, RegularInv, RequestTells,
              ResponseTells, ConnectionIs, LessMSS, OwnWindow, ISN, RendezvousInv, PacketTells
<1> QED
  BY <1>1, <1>2, <1>3, <1>4 DEF HandshakeNext

LEMMA InvariantHandshake ==
    HandshakeSpec => []HandshakeInv
<1>1. HandshakeInit => HandshakeInv
  BY InitHandshake
<1>2. HandshakeInv /\ [HandshakeNext]_handshakeVars => HandshakeInv'
  BY NextHandshake
<1> QED
  BY <1>1, <1>2, PTL DEF HandshakeSpec

LEMMA InvAgrees ==
    ASSUME HandshakeInv, "rendezvous" \notin MixedMSS
    PROVE  EndsAgree
<1> USE DEF HandshakeInv
<1>1. CASE mode = "regular"
  <2>1. agreed["b"] = None
    BY <1>1, SidesAre DEF AgreedIsConnected, RegularInv
  <2>2. ASSUME agreed["a"] # None
        PROVE  /\ Other("a") = accepted[ISN("a")] /\ Other("a") # None /\ Other("a").peerISN = ISN("a")
               /\ agreed["a"].peerISN = ISN("a") /\ agreed["a"].mss = LessMSS /\ Other("a").mss = LessMSS
    <3>1. ISN("a") \in DOMAIN accepted /\ agreed["a"].peerISN = ISN("a") /\ agreed["a"].mss = LessMSS /\ ConnectionIs(ISN("a"))
      BY <1>1, <2>2 DEF RegularInv
    <3>2. accepted[ISN("a")] \in Connections
      BY <3>1 DEF HsTypes
    <3> QED
      BY <1>1, <3>1, <3>2 DEF Other, ConnectionIs, Connections, None
  <2> QED
    BY <1>1, <2>1, <2>2 DEF EndsAgree, SeqNosAgree, PeerHasHeard, SmallerMSS, LessMSS, Sides
<1>2. CASE mode = "rendezvous"
  <2>1. SeqNosAgree /\ PeerHasHeard
    BY <1>2 DEF SeqNosAgree, PeerHasHeard, RendezvousInv
  <2>2. Smallest(opts["a"].mss, opts["b"].mss) = Max(MSSs)
    BY <1>2, SizesType, SmallestIs, SidesAre DEF RendezvousInv
  <2>3. SmallerMSS
    BY <1>2, <2>2, SidesAre DEF SmallerMSS, Other, RendezvousInv
  <2> QED
    BY <2>1, <2>3 DEF EndsAgree
<1> QED
  BY <1>1, <1>2 DEF HsTypes

LEMMA LargestIs ==
    ASSUME NEW c, c.window \in Nat, NEW r \in Nat
    PROVE  /\ LargestWindow(c, r) \in Int /\ LargestWindow(c, r) >= c.window /\ LargestWindow(c, r) >= r - 1
           /\ LargestWindow(c, r) = c.window \/ LargestWindow(c, r) = r - 1
<1>1. PICK m \in {c.window, r - 1} : \A n \in {c.window, r - 1} : m >= n
  OBVIOUS
<1>2. Max({c.window, r - 1}) \in {c.window, r - 1} /\ \A n \in {c.window, r - 1} : Max({c.window, r - 1}) >= n
  BY <1>1 DEF Max
<1> QED
  BY <1>2 DEF LargestWindow

LEMMA InvWindowFits ==
    ASSUME HandshakeInv, ~FcBelowBuffer
    PROVE  WindowFitsLossLists
<1> USE DEF HandshakeInv
<1> SUFFICES ASSUME mode = "regular", agreed["a"] # None PROVE WindowFitsLossLists
  BY DEF WindowFitsLossLists
<1> DEFINE c == agreed["a"]
           s == Other("a")
<1>1. /\ opts["a"].rcvBuf \in Nat /\ opts["a"].flight \in Nat /\ opts["a"].rcvBuf <= opts["a"].flight
      /\ opts["b"].rcvBuf \in Nat /\ opts["b"].flight \in Nat /\ opts["b"].rcvBuf <= opts["b"].flight
  BY SidesAre DEF HsTypes, Options, BufferFits
<1>2. ISN("a") \in DOMAIN accepted /\ c.window \in {opts["b"].flight, OwnWindow("b")} /\ ConnectionIs(ISN("a"))
  BY DEF RegularInv
<1>3. s = accepted[ISN("a")]
  BY <1>2 DEF Other
<1>4. s.window = opts["a"].rcvBuf /\ s.rcvBuf = opts["b"].rcvBuf /\ s.flight = opts["b"].flight
  BY <1>2, <1>3, OwnWindowIs, SidesAre DEF ConnectionIs
<1>5. c.window \in {opts["b"].flight, opts["b"].rcvBuf} /\ c.window \in Nat
  BY <1>1, <1>2, OwnWindowIs, SidesAre
<1> HIDE DEF c, s
<1>6. LargestWindow(c, s.rcvBuf) <= s.flight /\ LargestWindow(c, s.rcvBuf) <= 2 * c.window
  BY <1>1, <1>4, <1>5, LargestIs
<1>7. LargestWindow(s, opts["a"].rcvBuf) <= opts["a"].flight /\ LargestWindow(s, opts["a"].rcvBuf) <= 2 * s.window
  BY <1>1, <1>4, LargestIs
<1> QED
  BY <1>6, <1>7 DEF WindowFitsLossLists, c, s

\* "rendezvous connect require 3-way handshake", and the smaller packet size of the two:
\* whatever is lost, late or repeated and however often connect is tried again, an end
\* that is connected and its peer have agreed on the same numbers and sizes, unless the
\* two ends of a rendezvous are set to different packet sizes (a run shows what happens).
THEOREM ConnectedEndsAgree ==
    ASSUME "rendezvous" \notin MixedMSS
    PROVE  HandshakeSpec => []EndsAgree
<1>1. HandshakeInv => EndsAgree
  BY InvAgrees
<1> QED
  BY <1>1, InvariantHandshake, PTL

\* No window that the other end advertises, at once or later, has more packets than the
\* loss arrays have slots, when the flight flag size is not set below the buffer's.
THEOREM LossListsAreLongEnough ==
    ASSUME ~FcBelowBuffer
    PROVE  HandshakeSpec => []WindowFitsLossLists
<1>1. HandshakeInv => WindowFitsLossLists
  BY InvWindowFits
<1> QED
  BY <1>1, InvariantHandshake, PTL

-----------------------------------------------------------------------------
(* Messages.  What the sender and the wire say is about packets written;   *)
(* the receiver's units hold those packets, marked when their message was  *)
(* returned or dropped; what is behind the start was returned or expired.  *)

MsgSpec == MsgInit /\ [][MsgNext]_msgVars

\* Positions f to l are one message, whole.
Message(f, l) ==
    /\ f \in DOMAIN blocks /\ l \in DOMAIN blocks /\ f <= l
    /\ \A b \in DOMAIN blocks : blocks[b].msg = blocks[f].msg <=> f <= b /\ b <= l
    /\ \A b \in f .. l : /\ blocks[b].first <=> b = f
                         /\ blocks[b].last <=> b = l
                         /\ blocks[b].order = blocks[f].order

MsgBlock == [msg : Nat \ {0}, first : BOOLEAN, last : BOOLEAN, ttl : BOOLEAN, order : BOOLEAN]

\* What was written is a sequence of messages, numbered from 1.
Written ==
    /\ blocks \in Seq(MsgBlock)
    /\ \A b \in DOMAIN blocks : \E f, l \in DOMAIN blocks : Message(f, l) /\ f <= b /\ b <= l
    /\ \A b, c \in DOMAIN blocks : b < c => blocks[b].msg <= blocks[c].msg
    /\ \A b \in DOMAIN blocks : \A m \in 1 .. blocks[b].msg : m \in MsgNos

SenderInStep ==
    /\ msgSender \in [acked : Nat \ {0}, curr : Nat \ {0}, next : Nat \ {0}, lost : SUBSET Nat]
    /\ msgSender.curr = msgSender.next /\ msgSender.next <= Len(blocks) + 1
    /\ \A s \in msgSender.lost : 1 <= s /\ s < msgSender.next

ReceiverInStep ==
    /\ msgRecv \in [start : Nat \ {0}, acked : Nat \ {0}, next : Nat \ {0}, max : Int, lost : SUBSET Nat]
    /\ msgRecv.start <= msgRecv.acked /\ msgRecv.acked <= msgRecv.next
    /\ msgRecv.next <= msgSender.next /\ msgRecv.max >= -1
    /\ \A s \in msgRecv.lost : msgRecv.acked <= s /\ s < msgRecv.next

\* What a message that has expired is followed by has come.
ExpiredLate ==
    /\ expired \subseteq MsgNos
    /\ \A f, l \in DOMAIN blocks : Message(f, l) /\ blocks[f].msg \in expired =>
           l + 2 < msgRecv.next /\ l + 1 \notin msgRecv.lost

WireTells ==
    \A p \in msgWire :
        \/ /\ p.kind = "data" /\ p.no \in 1 .. msgSender.next - 1 /\ p.block = blocks[p.no]
        \/ /\ p.kind = "drop" /\ p.msg \in expired
           /\ \E f, l \in DOMAIN blocks :
                  /\ Message(f, l) /\ blocks[f].msg = p.msg
                  /\ p.from \in Nat /\ f <= p.from /\ p.to = l + 1

UnitsHold ==
    /\ DOMAIN units \subseteq 1 .. msgRecv.next - 1
    /\ \A p \in DOMAIN units :
           /\ DOMAIN units[p] = {"flag", "block"}
           /\ units[p].block = blocks[p] /\ units[p].flag \in {1, 2, 3}
           /\ units[p].flag = 2 => IsRead(blocks[p].msg)
           /\ units[p].flag = 3 => blocks[p].msg \in expired

\* What is not missing is there.
Present ==
    \A p \in msgRecv.start .. msgRecv.next - 1 :
        p \in msgRecv.lost \/ blocks[p].msg \in expired \/ Taken(p)

\* A message that was returned is behind the start, or is marked.
ReadOf(i, f, l) ==
    /\ Message(f, l) /\ l < msgRecv.next
    /\ readMsgs[i] = SubSeq(blocks, f, l)
    /\ f < msgRecv.start \/ \A p \in f .. l : Taken(p) /\ ~Fresh(p)

Reads ==
    /\ readMsgs \in Seq(Seq(MsgBlock))
    /\ \A i \in DOMAIN readMsgs : \E f, l \in DOMAIN blocks : ReadOf(i, f, l)

\* The start is not past the beginning of a message that is kept.
KeptAhead ==
    \A f, l \in DOMAIN blocks : Message(f, l) =>
        blocks[f].msg \in expired \/ IsRead(blocks[f].msg) \/ msgRecv.start <= f

MessagesInv ==
    /\ Written /\ SenderInStep /\ ReceiverInStep /\ ExpiredLate /\ WireTells
    /\ UnitsHold /\ Present /\ Reads /\ KeptAhead
    /\ ReadOnce /\ InOrderWaits

-----------------------------------------------------------------------------
(* Messages and their packets.                                             *)

\* The largest and the smallest of a set.
\* The largest and the smallest of a set.
LEMMA MaxIs ==
    ASSUME NEW S \in SUBSET Int, NEW x \in S, \A y \in S : x >= y
    PROVE  Max(S) = x
<1>1. Max(S) \in S /\ \A y \in S : Max(S) >= y
  BY DEF Max
<1>2. PICK m : m = Max(S)
  OBVIOUS
<1>3. m \in Int /\ x \in Int /\ m >= x /\ x >= m
  BY <1>1, <1>2
<1>4. m = x
  BY ONLY <1>3
<1> QED
  BY <1>2, <1>4

LEMMA MinIs ==
    ASSUME NEW S \in SUBSET Int, NEW x \in S, \A y \in S : x <= y
    PROVE  Min(S) = x
<1>1. Min(S) \in S /\ \A y \in S : Min(S) <= y
  BY DEF Min
<1>2. PICK m : m = Min(S)
  OBVIOUS
<1>3. m \in Int /\ x \in Int /\ m <= x /\ x <= m
  BY <1>1, <1>2
<1>4. m = x
  BY ONLY <1>3
<1> QED
  BY <1>2, <1>4

\* A message is told by any of its packets.
LEMMA MessageIsOne ==
    ASSUME NEW f, NEW l, NEW g, NEW k, Written, Message(f, l), Message(g, k), blocks[f].msg = blocks[g].msg
    PROVE  f = g /\ l = k
<1>1. DOMAIN blocks = 1 .. Len(blocks) /\ Len(blocks) \in Nat
  BY DEF Written
<1>2. f \in Int /\ l \in Int /\ g \in Int /\ k \in Int /\ f <= l /\ g <= k
  BY <1>1 DEF Message
<1>3. g <= f /\ f <= k /\ f <= g /\ g <= l
  BY DEF Message
<1>4. blocks[l].msg = blocks[f].msg /\ blocks[k].msg = blocks[g].msg
  BY <1>2 DEF Message
<1>5. g <= l /\ l <= k /\ f <= k /\ k <= l
  BY <1>4 DEF Message
<1> QED
  BY <1>2, <1>3, <1>5

\* The positions of a message are those of its packets.
LEMMA MessagePositions ==
    ASSUME NEW f, NEW l, Written, Message(f, l)
    PROVE  /\ f \in 1 .. Len(blocks) /\ l \in 1 .. Len(blocks) /\ f <= l
           /\ \A b \in f .. l : b \in DOMAIN blocks /\ blocks[b].msg = blocks[f].msg
           /\ \A b \in DOMAIN blocks : blocks[b].msg = blocks[f].msg => f <= b /\ b <= l
           /\ {b \in DOMAIN blocks : blocks[b].msg = blocks[f].msg} = f .. l
<1>1. DOMAIN blocks = 1 .. Len(blocks) /\ Len(blocks) \in Nat
  BY DEF Written
<1>2. f \in 1 .. Len(blocks) /\ l \in 1 .. Len(blocks) /\ f <= l
  BY <1>1 DEF Message
<1>3. \A b \in f .. l : b \in DOMAIN blocks
  BY <1>1, <1>2
<1>4. \A b \in DOMAIN blocks : blocks[b].msg = blocks[f].msg <=> f <= b /\ b <= l
  BY DEF Message
<1>5. \A b \in DOMAIN blocks : b \in Int
  BY <1>1
<1>6. \A b \in f .. l : f <= b /\ b <= l
  BY <1>2
<1>7. \A b \in Int : f <= b /\ b <= l => b \in f .. l
  BY <1>2
<1> QED
  BY <1>2, <1>3, <1>4, <1>5, <1>6, <1>7

\* Every number is that of a message.
LEMMA MessageNumber ==
    ASSUME NEW m \in MsgNos, Written
    PROVE  \E f, l \in DOMAIN blocks : Message(f, l) /\ blocks[f].msg = m
<1>1. PICK b \in DOMAIN blocks : blocks[b].msg = m
  BY DEF MsgNos
<1>2. PICK f, l \in DOMAIN blocks : Message(f, l) /\ f <= b /\ b <= l
  BY DEF Written
<1>3. blocks[f].msg = m
  BY <1>1, <1>2 DEF Message
<1> QED  BY <1>2, <1>3

\* What PacketsOf says of a message.
LEMMA PacketsAre ==
    ASSUME NEW f, NEW l, Written, Message(f, l)
    PROVE  PacketsOf(blocks[f].msg) = SubSeq(blocks, f, l)
<1> DEFINE mine == {b \in DOMAIN blocks : blocks[b].msg = blocks[f].msg}
<1>1. mine = f .. l /\ f <= l /\ f \in Int /\ l \in Int
  BY MessagePositions
<1> HIDE DEF mine
<1>2. Min(mine) = f /\ Max(mine) = l
  <2>1. mine \in SUBSET Int /\ f \in mine /\ l \in mine /\ \A y \in mine : f <= y /\ l >= y
    BY <1>1
  <2> QED  BY <2>1, MaxIs, MinIs
<1> QED
  BY <1>2 DEF PacketsOf, mine

\* What was returned says which message it is.
LEMMA ReadIs ==
    ASSUME NEW i, NEW f, NEW l, Written, ReadOf(i, f, l)
    PROVE  /\ readMsgs[i] \in Seq(MsgBlock) /\ Len(readMsgs[i]) = l - f + 1 /\ readMsgs[i][1] = blocks[f]
           /\ readMsgs[i] = PacketsOf(blocks[f].msg)
<1>1. /\ f \in 1 .. Len(blocks) /\ l \in 1 .. Len(blocks) /\ f <= l
      /\ \A b \in f .. l : b \in DOMAIN blocks
  BY MessagePositions DEF ReadOf
<1>2. \A b \in f .. l : blocks[b] \in MsgBlock
  BY <1>1 DEF Written
<1>3. f \in Int /\ l \in Int
  BY <1>1
<1>4. /\ SubSeq(blocks, f, l) \in Seq(MsgBlock)
      /\ Len(SubSeq(blocks, f, l)) = IF f <= l THEN l - f + 1 ELSE 0
      /\ \A j \in 1 .. l - f + 1 : SubSeq(blocks, f, l)[j] = blocks[f + j - 1]
  BY ONLY <1>2, <1>3, SubSeqProperties
<1>5. 1 \in 1 .. l - f + 1 /\ f + 1 - 1 = f
  BY <1>1
<1>6. readMsgs[i] = SubSeq(blocks, f, l)
  BY DEF ReadOf
<1>7. SubSeq(blocks, f, l)[1] = blocks[f]
  BY <1>4, <1>5
<1> QED
  BY <1>1, <1>4, <1>6, <1>7, PacketsAre DEF ReadOf

\* What was returned is whole.
LEMMA WholeIfReads ==
    ASSUME Written, Reads
    PROVE  MessagesWhole
<1> SUFFICES ASSUME NEW i \in DOMAIN readMsgs PROVE readMsgs[i] = PacketsOf(readMsgs[i][1].msg)
  BY DEF MessagesWhole
<1>1. PICK f, l \in DOMAIN blocks : ReadOf(i, f, l)
  BY DEF Reads
<1> QED  BY <1>1, ReadIs

-----------------------------------------------------------------------------
\* At the start.
LEMMA InitMessagesInv == MsgInit => MessagesInv
<1> SUFFICES ASSUME MsgInit PROVE MessagesInv
  OBVIOUS
<1>1. blocks = << >> /\ DOMAIN blocks = {} /\ Len(blocks) = 0 /\ blocks \in Seq(MsgBlock)
  BY DEF MsgInit
<1>2. /\ readMsgs = << >> /\ DOMAIN readMsgs = {} /\ readMsgs \in Seq(Seq(MsgBlock))
      /\ DOMAIN units = {} /\ expired = {} /\ msgWire = {}
  BY DEF MsgInit
<1>3. SenderInStep
  BY <1>1 DEF MsgInit, SenderInStep
<1>4. ReceiverInStep
  BY DEF MsgInit, ReceiverInStep
<1>5. Present
  BY <1>4 DEF MsgInit, Present
<1> QED
  BY <1>1, <1>2, <1>3, <1>4, <1>5
     DEF MessagesInv, Written, ExpiredLate, WireTells, UnitsHold, Reads, KeptAhead, ReadOnce, InOrderWaits

-----------------------------------------------------------------------------
(* Steps that neither write nor return a message.                          *)

\* What is written stays as it is.
LEMMA SameMessages ==
    ASSUME blocks' = blocks
    PROVE  /\ \A f, l : Message(f, l)' <=> Message(f, l)
           /\ Written => Written'
           /\ MsgNos' = MsgNos
<1>1. \A f, l : Message(f, l)' <=> Message(f, l)
  BY DEF Message
<1>2. MsgNos' = MsgNos
  BY DEF MsgNos
<1>3. ASSUME Written PROVE Written'
  <2>1. \A b \in DOMAIN blocks : \E f, l \in DOMAIN blocks : Message(f, l)' /\ f <= b /\ b <= l
    BY <1>1, <1>3 DEF Written
  <2>2. /\ blocks \in Seq(MsgBlock)
        /\ \A b, c \in DOMAIN blocks : b < c => blocks[b].msg <= blocks[c].msg
        /\ \A b \in DOMAIN blocks : \A m \in 1 .. blocks[b].msg : m \in MsgNos
    BY <1>3 DEF Written
  <2> QED
    BY <2>1, <2>2, <1>2 DEF Written
<1> QED
  BY <1>1, <1>2, <1>3

\* Nothing is returned, no packet taken is given up, and no mark is lost.
KeepsMarks ==
    /\ blocks' = blocks /\ readMsgs' = readMsgs /\ expired \subseteq expired'
    /\ msgRecv'.start = msgRecv.start /\ msgRecv'.next >= msgRecv.next
    /\ \A p \in DOMAIN units : p \in DOMAIN units' /\ (units[p].flag # 1 => units'[p].flag # 1)

\* A step that returns nothing and forgets no mark keeps what is said of the history.
LEMMA HistoryKept ==
    ASSUME Written, ReceiverInStep, ReceiverInStep', Reads, ReadOnce, InOrderWaits, KeptAhead, KeepsMarks
    PROVE  Reads' /\ ReadOnce' /\ InOrderWaits' /\ KeptAhead'
<1>1. blocks' = blocks /\ readMsgs' = readMsgs /\ expired \subseteq expired'
  BY DEF KeepsMarks
<1>2. ReadOnce'
  BY <1>1 DEF ReadOnce
<1>3. InOrderWaits'
  BY <1>1 DEF InOrderWaits
<1>4. \A f, l : Message(f, l)' <=> Message(f, l)
  BY <1>1, SameMessages
<1>5. \A m : IsRead(m)' <=> IsRead(m)
  BY <1>1 DEF IsRead
<1>6. KeptAhead'
  <2>1. msgRecv'.start = msgRecv.start
    BY DEF KeepsMarks
  <2> QED  BY <2>1, <1>1, <1>4, <1>5 DEF KeptAhead
<1>7. \A p : Taken(p) /\ ~Fresh(p) => Taken(p)' /\ ~Fresh(p)'
  BY DEF KeepsMarks, Taken, Fresh
<1>8. msgRecv'.start = msgRecv.start /\ msgRecv'.next >= msgRecv.next /\ msgRecv.next \in Nat /\ msgRecv'.next \in Nat
  BY DEF KeepsMarks, ReceiverInStep
<1>9. \A i, f, l : f \in DOMAIN blocks /\ l \in DOMAIN blocks /\ ReadOf(i, f, l) => ReadOf(i, f, l)'
  <2> SUFFICES ASSUME NEW i, NEW f \in DOMAIN blocks, NEW l \in DOMAIN blocks, ReadOf(i, f, l) PROVE ReadOf(i, f, l)'
    OBVIOUS
  <2>1. l \in Nat
    <3>1. blocks \in Seq(MsgBlock)
      BY DEF Written
    <3> QED  BY <3>1
  <2>2. Message(f, l)' /\ l < msgRecv'.next
    <3>1. l < msgRecv.next /\ Message(f, l)
      BY DEF ReadOf
    <3> QED  BY <3>1, <2>1, <1>4, <1>8
  <2>3. readMsgs'[i] = SubSeq(blocks', f, l)
    BY <1>1 DEF ReadOf
  <2>4. f < msgRecv'.start \/ \A p \in f .. l : Taken(p)' /\ ~Fresh(p)'
    BY <1>7, <1>8 DEF ReadOf
  <2> QED  BY <2>2, <2>3, <2>4 DEF ReadOf
<1>10. Reads'
  BY <1>1, <1>9 DEF Reads
<1> QED
  BY <1>2, <1>3, <1>6, <1>10

-----------------------------------------------------------------------------
(* The sender's steps.                                                     *)

\* What the sender does says nothing new of what the receiver has.
LEMMA ReceiverAside ==
    ASSUME MessagesInv, UNCHANGED <<blocks, expired, units, msgRecv, readMsgs>>,
           SenderInStep', msgSender'.next >= msgSender.next, WireTells'
    PROVE  MessagesInv'
<1>1. /\ Written /\ SenderInStep /\ ReceiverInStep /\ ExpiredLate /\ UnitsHold /\ Present
      /\ Reads /\ KeptAhead /\ ReadOnce /\ InOrderWaits
  BY DEF MessagesInv
<1>2. Written' /\ MsgNos' = MsgNos /\ \A f, l : Message(f, l)' <=> Message(f, l)
  BY <1>1, SameMessages
<1>3. ReceiverInStep'
  <2>1. msgSender.next \in Nat /\ msgSender'.next \in Nat /\ msgRecv.next \in Nat
    BY <1>1 DEF SenderInStep, ReceiverInStep
  <2>2. msgRecv.next <= msgSender'.next
    BY <2>1, <1>1 DEF ReceiverInStep
  <2> QED  BY <2>2, <1>1 DEF ReceiverInStep
<1>4. KeepsMarks
  BY <1>1 DEF KeepsMarks, ReceiverInStep
<1>5. Reads' /\ ReadOnce' /\ InOrderWaits' /\ KeptAhead'
  BY <1>1, <1>3, <1>4, HistoryKept
<1>6. ExpiredLate'
  BY <1>1, <1>2 DEF ExpiredLate
<1>7. UnitsHold'
  BY <1>1 DEF UnitsHold, IsRead
<1>8. Present'
  BY <1>1 DEF Present, Taken
<1> QED
  BY <1>2, <1>3, <1>5, <1>6, <1>7, <1>8 DEF MessagesInv

\* A packet on its way is still one.
LEMMA WireKept ==
    ASSUME Written, SenderInStep, SenderInStep', WireTells, blocks' = blocks, expired \subseteq expired',
           msgSender'.next >= msgSender.next
    PROVE  \A p \in msgWire :
               \/ /\ p.kind = "data" /\ p.no \in 1 .. msgSender'.next - 1 /\ p.block = blocks'[p.no]
               \/ /\ p.kind = "drop" /\ p.msg \in expired'
                  /\ \E f, l \in DOMAIN blocks' :
                         /\ Message(f, l)' /\ blocks'[f].msg = p.msg
                         /\ p.from \in Nat /\ f <= p.from /\ p.to = l + 1
<1>1. \A f, l : Message(f, l)' <=> Message(f, l)
  BY SameMessages
<1>2. msgSender.next \in Nat /\ msgSender'.next \in Nat
  BY DEF SenderInStep
<1>3. \A n \in 1 .. msgSender.next - 1 : n \in 1 .. msgSender'.next - 1
  BY <1>2
<1> QED
  BY <1>1, <1>3 DEF WireTells

\* The next packet is sent.
LEMMA PackNextKeeps ==
    ASSUME MessagesInv, PackNextPacket
    PROVE  MessagesInv'
<1>1. Written /\ SenderInStep /\ WireTells
  BY DEF MessagesInv
<1> DEFINE n == msgSender.next
<1>2. /\ n \in Nat \ {0} /\ n <= Len(blocks) /\ msgSender.curr = n
      /\ msgSender' = [msgSender EXCEPT !.curr = @ + 1, !.next = @ + 1]
      /\ msgSender \in [acked : Nat \ {0}, curr : Nat \ {0}, next : Nat \ {0}, lost : SUBSET Nat]
      /\ \A s \in msgSender.lost : 1 <= s /\ s < n
  BY <1>1 DEF PackNextPacket, SenderInStep
<1>3. UNCHANGED <<blocks, expired, units, msgRecv, readMsgs>> /\ Len(blocks) \in Nat
  BY <1>1 DEF PackNextPacket, Written
<1>4. msgSender' = [acked |-> msgSender.acked, curr |-> n + 1, next |-> n + 1, lost |-> msgSender.lost]
  BY <1>2
<1>5. SenderInStep'
  <2>1. n + 1 \in Nat \ {0} /\ n + 1 <= Len(blocks) + 1 /\ \A s \in msgSender.lost : 1 <= s /\ s < n + 1
    <3>1. \A s \in msgSender.lost : s \in Nat
      BY <1>2
    <3> QED  BY <3>1, <1>2, <1>3
  <2> QED  BY <2>1, <1>2, <1>3, <1>4 DEF SenderInStep
<1>6. msgSender'.next >= msgSender.next /\ msgSender'.next = n + 1
  BY <1>2, <1>4
<1>7. WireTells'
  <2>1. \A p \in msgWire' : p \in msgWire \/ p = [kind |-> "data", no |-> n, block |-> blocks[n]]
    BY <1>2 DEF PackNextPacket, Transmit, DataPacket
  <2>2. ASSUME NEW p, p = [kind |-> "data", no |-> n, block |-> blocks[n]]
        PROVE  p.kind = "data" /\ p.no \in 1 .. msgSender'.next - 1 /\ p.block = blocks'[p.no]
    <3>1. p.kind = "data" /\ p.no = n /\ p.block = blocks[n]
      BY <2>2
    <3> QED  BY <3>1, <1>2, <1>3, <1>6
  <2> QED  BY <2>1, <2>2, <1>1, <1>3, <1>5, <1>6, WireKept DEF WireTells
<1> QED
  BY <1>3, <1>5, <1>6, <1>7, ReceiverAside

\* An ACK comes.
LEMMA AckedKeeps ==
    ASSUME MessagesInv, SenderAcked
    PROVE  MessagesInv'
<1>1. Written /\ SenderInStep /\ WireTells /\ ReceiverInStep
  BY DEF MessagesInv
<1>2. UNCHANGED <<blocks, expired, units, msgRecv, readMsgs, msgWire>>
  BY DEF SenderAcked
<1>3. /\ msgSender' = [msgSender EXCEPT !.acked = msgRecv.acked, !.lost = {s \in @ : s >= msgRecv.acked}]
      /\ msgSender \in [acked : Nat \ {0}, curr : Nat \ {0}, next : Nat \ {0}, lost : SUBSET Nat]
      /\ msgRecv.acked \in Nat \ {0}
  BY <1>1 DEF SenderAcked, SenderInStep, ReceiverInStep
<1>4. msgSender' = [acked |-> msgRecv.acked, curr |-> msgSender.curr, next |-> msgSender.next,
                    lost |-> {s \in msgSender.lost : s >= msgRecv.acked}]
  BY <1>3
<1>5. SenderInStep' /\ msgSender'.next = msgSender.next /\ msgSender.next \in Nat
  BY <1>1, <1>2, <1>3, <1>4 DEF SenderInStep
<1>6. msgSender'.next >= msgSender.next
  BY <1>5
<1>7. WireTells'
  BY <1>1, <1>2, <1>5, <1>6, WireKept DEF WireTells
<1> QED
  BY <1>2, <1>5, <1>6, <1>7, ReceiverAside

\* A NAK comes, or EXP expires.
LEMMA LossReportedKeeps ==
    ASSUME MessagesInv, LossReported
    PROVE  MessagesInv'
<1>1. Written /\ SenderInStep /\ WireTells /\ ReceiverInStep
  BY DEF MessagesInv
<1>2. UNCHANGED <<blocks, expired, units, msgRecv, readMsgs, msgWire>>
  BY DEF LossReported
<1>3. /\ msgSender \in [acked : Nat \ {0}, curr : Nat \ {0}, next : Nat \ {0}, lost : SUBSET Nat]
      /\ \A s \in msgSender.lost : 1 <= s /\ s < msgSender.next
      /\ msgRecv.lost \subseteq Nat /\ msgRecv.next \in Nat /\ msgRecv.next <= msgSender.next
      /\ msgRecv.acked \in Nat \ {0}
      /\ \A s \in msgRecv.lost : msgRecv.acked <= s /\ s < msgRecv.next
  BY <1>1 DEF SenderInStep, ReceiverInStep
<1>4. PICK new : /\ msgSender' = [msgSender EXCEPT !.lost = @ \cup new]
                 /\ new = msgSender.acked .. msgSender.next - 1 \/ new \subseteq msgRecv.lost
  BY DEF LossReported
<1>5. \A s \in new : s \in Nat /\ 1 <= s /\ s < msgSender.next
  <2>1. CASE new = msgSender.acked .. msgSender.next - 1
    BY <2>1, <1>3
  <2>2. CASE new \subseteq msgRecv.lost
    <3>1. ASSUME NEW s \in msgRecv.lost PROVE s \in Nat /\ 1 <= s /\ s < msgSender.next
      <4>1. s \in Nat /\ msgRecv.acked <= s /\ s < msgRecv.next /\ msgSender.next \in Nat
        BY <1>3
      <4> QED  BY <4>1, <1>3
    <3> QED  BY <2>2, <3>1
  <2> QED  BY <2>1, <2>2, <1>4
<1>6. msgSender' = [acked |-> msgSender.acked, curr |-> msgSender.curr, next |-> msgSender.next,
                    lost |-> msgSender.lost \cup new]
  BY <1>3, <1>4
<1>7. SenderInStep' /\ msgSender'.next = msgSender.next /\ msgSender.next \in Nat
  BY <1>1, <1>2, <1>3, <1>5, <1>6 DEF SenderInStep
<1>8. msgSender'.next >= msgSender.next
  BY <1>7
<1>9. WireTells'
  BY <1>1, <1>2, <1>7, <1>8, WireKept DEF WireTells
<1> QED
  BY <1>2, <1>7, <1>8, <1>9, ReceiverAside

\* packData finds where a message ends from any packet of it.
LEMMA EndIs ==
    ASSUME Written, NEW f, NEW l, Message(f, l), NEW s \in f .. l
    PROVE  l = CHOOSE b \in s .. Len(blocks) :
                   /\ blocks[b].msg = blocks[s].msg
                   /\ b = Len(blocks) \/ blocks[b + 1].msg # blocks[s].msg
<1> DEFINE N == Len(blocks)
           Is(b) == /\ b \in s .. N /\ blocks[b].msg = blocks[s].msg
                    /\ b = N \/ blocks[b + 1].msg # blocks[s].msg
<1>0. N \in Nat /\ DOMAIN blocks = 1 .. N
  <2>1. blocks \in Seq(MsgBlock)
    BY DEF Written
  <2> QED  BY <2>1
<1>1. /\ f \in 1 .. N /\ l \in 1 .. N /\ f <= l
      /\ \A b \in f .. l : blocks[b].msg = blocks[f].msg
      /\ \A b \in 1 .. N : blocks[b].msg = blocks[f].msg => f <= b /\ b <= l
  BY <1>0, MessagePositions
<1> HIDE DEF N
<1>2. blocks[s].msg = blocks[f].msg /\ blocks[l].msg = blocks[f].msg
  BY <1>1
<1>3. l \in s .. N
  BY <1>0, <1>1
<1>4. l = N \/ blocks[l + 1].msg # blocks[f].msg
  <2>1. ASSUME l # N, blocks[l + 1].msg = blocks[f].msg PROVE FALSE
    <3>1. l + 1 \in 1 .. N
      BY <1>0, <1>1, <2>1
    <3>2. l + 1 <= l
      BY <1>1, <2>1, <3>1
    <3> QED  BY <1>1, <3>2
  <2> QED  BY <2>1
<1>5. Is(l)
  BY <1>2, <1>3, <1>4
<1>6. \A b : Is(b) => b = l
  <2> SUFFICES ASSUME NEW b, Is(b) PROVE b = l
    OBVIOUS
  <2>1. b \in 1 .. N /\ s <= b /\ blocks[b].msg = blocks[f].msg
    BY <1>0, <1>1, <1>2
  <2>2. b <= l
    BY <1>1, <2>1
  <2>3. ASSUME b < l PROVE FALSE
    <3>1. b + 1 \in f .. l /\ b # N
      BY <1>0, <1>1, <2>1, <2>3
    <3>2. blocks[b + 1].msg = blocks[f].msg
      BY <1>1, <3>1
    <3> QED  BY <3>1, <3>2, <1>2
  <2> QED  BY <2>1, <2>2, <2>3, <1>0, <1>1
<1> DEFINE C == CHOOSE b : Is(b)
<1>7. Is(C)
  BY <1>5
<1>8. C = l
  BY <1>6, <1>7
<1>9. C = CHOOSE b \in s .. Len(blocks) : /\ blocks[b].msg = blocks[s].msg
                                          /\ b = Len(blocks) \/ blocks[b + 1].msg # blocks[s].msg
  BY DEF N
<1> HIDE DEF C
<1> QED
  BY <1>8, <1>9

\* A lost packet is sent again, or its message dropped.
LEMMA PackLostKeeps ==
    ASSUME MessagesInv, PackLost
    PROVE  MessagesInv'
<1>1. Written /\ SenderInStep /\ WireTells /\ ReceiverInStep /\ ExpiredLate
  BY DEF MessagesInv
<1>2. UNCHANGED <<blocks, expired, units, msgRecv, readMsgs>> /\ msgSender.lost # {}
  BY DEF PackLost
<1> DEFINE s == Min(msgSender.lost)
           n == msgSender.next
<1>3. /\ msgSender \in [acked : Nat \ {0}, curr : Nat \ {0}, next : Nat \ {0}, lost : SUBSET Nat]
      /\ msgSender.curr = n /\ n \in Nat /\ n <= Len(blocks) + 1 /\ Len(blocks) \in Nat
      /\ DOMAIN blocks = 1 .. Len(blocks)
      /\ \A x \in msgSender.lost : 1 <= x /\ x < n
      /\ msgRecv.next \in Nat /\ msgRecv.next <= n
  BY <1>1 DEF SenderInStep, ReceiverInStep, Written
<1>4. s \in msgSender.lost
  BY <1>2, <1>3, LeastOf
<1>5. s \in Nat /\ 1 <= s /\ s < n /\ s \in DOMAIN blocks /\ ~(s > Len(blocks)) /\ s \in 1 .. n - 1
  BY <1>3, <1>4
<1>6. PICK f, l \in DOMAIN blocks : Message(f, l) /\ f <= s /\ s <= l
  BY <1>1, <1>5 DEF Written
<1>7. f \in Nat /\ l \in Nat /\ s \in f .. l
  BY <1>3, <1>5, <1>6
<1>8. blocks[s].msg = blocks[f].msg
  BY <1>1, <1>6, <1>7, MessagePositions
<1>9. l = CHOOSE b \in s .. Len(blocks) :
                   /\ blocks[b].msg = blocks[s].msg
                   /\ b = Len(blocks) \/ blocks[b + 1].msg # blocks[s].msg
  BY <1>1, <1>6, <1>7, EndIs
<1>10. IF blocks[s].msg \in expired
       THEN /\ Transmit([kind |-> "drop", msg |-> blocks[s].msg, from |-> s, to |-> l + 1])
            /\ msgSender' = [msgSender EXCEPT
                      !.curr = IF s < @ /\ @ <= l THEN l + 1 ELSE @,
                      !.lost = {x \in @ : x > l + 1},
                      !.next = Larger(@, l + 1 + 2)]
       ELSE /\ Transmit(DataPacket(s, s))
            /\ msgSender' = [msgSender EXCEPT !.lost = @ \ {s}]
  BY <1>5, <1>9 DEF PackLost
<1> HIDE DEF s, n
<1>11. SUFFICES /\ \E L \in SUBSET msgSender.lost :
                     msgSender' = [acked |-> msgSender.acked, curr |-> n, next |-> n, lost |-> L]
                /\ \A p \in msgWire' :
                      \/ p \in msgWire
                      \/ p = [kind |-> "data", no |-> s, block |-> blocks[s]]
                      \/ /\ p = [kind |-> "drop", msg |-> blocks[s].msg, from |-> s, to |-> l + 1]
                         /\ blocks[s].msg \in expired
  <2>1. PICK L \in SUBSET msgSender.lost :
            msgSender' = [acked |-> msgSender.acked, curr |-> n, next |-> n, lost |-> L]
    BY <1>11
  <2>2. SenderInStep' /\ msgSender'.next = n
    BY <2>1, <1>1, <1>2, <1>3 DEF SenderInStep, n
  <2>3. msgSender'.next >= msgSender.next
    BY <2>2, <1>3 DEF n
  <2>4. \A f1, l1 : Message(f1, l1)' <=> Message(f1, l1)
    BY <1>2, SameMessages
  <2>5. ASSUME NEW p, p = [kind |-> "data", no |-> s, block |-> blocks[s]]
        PROVE  p.kind = "data" /\ p.no \in 1 .. msgSender'.next - 1 /\ p.block = blocks'[p.no]
    <3>1. p.kind = "data" /\ p.no = s /\ p.block = blocks[s]
      BY <2>5
    <3> QED  BY <3>1, <1>2, <1>5, <2>2 DEF s, n
  <2>6. ASSUME NEW p, p = [kind |-> "drop", msg |-> blocks[s].msg, from |-> s, to |-> l + 1], blocks[s].msg \in expired
        PROVE  /\ p.kind = "drop" /\ p.msg \in expired'
               /\ \E f1, l1 \in DOMAIN blocks' :
                      /\ Message(f1, l1)' /\ blocks'[f1].msg = p.msg
                      /\ p.from \in Nat /\ f1 <= p.from /\ p.to = l1 + 1
    <3>1. p.kind = "drop" /\ p.msg = blocks[s].msg /\ p.from = s /\ p.to = l + 1
      BY <2>6
    <3> QED  BY <3>1, <2>4, <2>6, <1>2, <1>5, <1>6, <1>8 DEF s
  <2>7. WireTells'
    BY <1>11, <2>5, <2>6, <2>2, <2>3, <1>1, <1>2, WireKept DEF WireTells
  <2> QED
    BY <1>2, <2>2, <2>3, <2>7, ReceiverAside
<1>12. CASE blocks[s].msg \in expired
  <2>1. l + 2 < msgRecv.next
    BY <1>1, <1>6, <1>8, <1>12 DEF ExpiredLate
  <2>2. l + 1 + 2 <= n /\ ~(n <= l)
    BY <1>3, <1>7, <2>1 DEF n
  <2>3. Larger(n, l + 1 + 2) = n
    BY <1>3, <1>7, <2>2 DEF Larger, n
  <2>4. msgSender' = [msgSender EXCEPT
                      !.curr = IF s < @ /\ @ <= l THEN l + 1 ELSE @,
                      !.lost = {x \in @ : x > l + 1},
                      !.next = Larger(@, l + 1 + 2)]
    BY <1>10, <1>12
  <2>5. msgSender' = [acked |-> msgSender.acked, curr |-> n, next |-> n, lost |-> {x \in msgSender.lost : x > l + 1}]
    BY <2>4, <2>2, <2>3, <1>3 DEF n
  <2>6. \A p \in msgWire' : p \in msgWire \/ p = [kind |-> "drop", msg |-> blocks[s].msg, from |-> s, to |-> l + 1]
    BY <1>10, <1>12 DEF Transmit
  <2> QED
    BY <2>5, <2>6, <1>12
<1>13. CASE blocks[s].msg \notin expired
  <2>1. \A p \in msgWire' : p \in msgWire \/ p = [kind |-> "data", no |-> s, block |-> blocks[s]]
    BY <1>10, <1>13 DEF Transmit, DataPacket
  <2>2. msgSender' = [msgSender EXCEPT !.lost = @ \ {s}]
    BY <1>10, <1>13
  <2>3. msgSender' = [acked |-> msgSender.acked, curr |-> n, next |-> n, lost |-> msgSender.lost \ {s}]
    BY <2>2, <1>3 DEF n
  <2> QED
    BY <2>1, <2>3
<1> QED
  BY <1>12, <1>13

\* The message expires when two packets behind it have come: the drop request takes nothing else.
LEMMA ExpireKeeps ==
    ASSUME MessagesInv, LateDrops, NEW m \in MsgNos, Expire(m)
    PROVE  MessagesInv'
<1>1. /\ Written /\ SenderInStep /\ ReceiverInStep /\ ExpiredLate /\ WireTells /\ UnitsHold /\ Present
      /\ Reads /\ KeptAhead /\ ReadOnce /\ InOrderWaits
  BY DEF MessagesInv
<1> DEFINE mine == {b \in DOMAIN blocks : blocks[b].msg = m}
<1>2. /\ expired' = expired \cup {m} /\ UNCHANGED <<blocks, msgSender, msgWire, units, msgRecv, readMsgs>>
      /\ \A b \in Max(mine) + 1 .. Max(mine) + 2 : b < msgRecv.next /\ b \notin msgRecv.lost
  BY DEF Expire
<1>3. PICK f, l \in DOMAIN blocks : Message(f, l) /\ blocks[f].msg = m
  BY <1>1, MessageNumber
<1>4. mine = f .. l /\ f \in Nat /\ l \in Nat /\ f <= l
  BY <1>1, <1>3, MessagePositions
<1> HIDE DEF mine
<1>5. Max(mine) = l
  <2>1. mine \in SUBSET Int /\ l \in mine /\ \A y \in mine : l >= y
    BY <1>4
  <2> QED  BY <2>1, MaxIs
<1>6. l + 2 < msgRecv.next /\ l + 1 \notin msgRecv.lost
  <2>1. l + 1 \in l + 1 .. l + 2 /\ l + 2 \in l + 1 .. l + 2
    BY <1>4
  <2> QED  BY <2>1, <1>2, <1>5
<1>7. Written' /\ MsgNos' = MsgNos /\ \A f1, l1 : Message(f1, l1)' <=> Message(f1, l1)
  BY <1>1, <1>2, SameMessages
<1>8. SenderInStep' /\ ReceiverInStep'
  BY <1>1, <1>2 DEF SenderInStep, ReceiverInStep
<1>9. ExpiredLate'
  <2>1. expired' \subseteq MsgNos'
    BY <1>1, <1>2, <1>7 DEF ExpiredLate
  <2>2. ASSUME NEW f1 \in DOMAIN blocks, NEW l1 \in DOMAIN blocks, Message(f1, l1), blocks[f1].msg \in expired'
        PROVE  l1 + 2 < msgRecv.next /\ l1 + 1 \notin msgRecv.lost
    <3>1. CASE blocks[f1].msg \in expired
      BY <3>1, <2>2, <1>1 DEF ExpiredLate
    <3>2. CASE blocks[f1].msg = m
      <4>1. l1 = l
        BY <3>2, <2>2, <1>1, <1>3, MessageIsOne
      <4> QED  BY <4>1, <1>6
    <3> QED  BY <3>1, <3>2, <2>2, <1>2
  <2> QED  BY <2>1, <2>2, <1>2, <1>7 DEF ExpiredLate
<1>10. WireTells'
  <2>1. expired \subseteq expired' /\ msgSender'.next >= msgSender.next
    BY <1>1, <1>2 DEF SenderInStep
  <2> QED  BY <2>1, <1>1, <1>2, <1>8, WireKept DEF WireTells
<1>11. UnitsHold'
  BY <1>1, <1>2 DEF UnitsHold, IsRead
<1>12. Present'
  BY <1>1, <1>2 DEF Present, Taken
<1>13. KeepsMarks
  BY <1>1, <1>2 DEF KeepsMarks, ReceiverInStep
<1> QED
  BY <1>1, <1>7, <1>8, <1>9, <1>10, <1>11, <1>12, <1>13, HistoryKept DEF MessagesInv

\* A message is written.
LEMMA SendMsgKeeps ==
    ASSUME MessagesInv, NEW len \in 1 .. MaxMsgLen, NEW kind \in MsgKinds, SendMsg(len, kind)
    PROVE  MessagesInv'
<1>1. /\ Written /\ SenderInStep /\ ReceiverInStep /\ ExpiredLate /\ WireTells /\ UnitsHold /\ Present
      /\ Reads /\ KeptAhead /\ ReadOnce /\ InOrderWaits
  BY DEF MessagesInv
<1>0. PICK N : N = Len(blocks)
  OBVIOUS
<1> DEFINE m == IF blocks = << >> THEN 1 ELSE blocks[Len(blocks)].msg + 1
           chunk == [i \in 1 .. len |-> [msg |-> m, first |-> i = 1, last |-> i = len,
                                         ttl |-> kind = "ttl", order |-> kind = "inorder"]]
<1>2. /\ blocks' = blocks \o chunk /\ msgSender.next = 1
      /\ UNCHANGED <<msgSender, expired, msgWire, units, msgRecv, readMsgs>>
  BY DEF SendMsg
<1>3. blocks \in Seq(MsgBlock) /\ N \in Nat /\ DOMAIN blocks = 1 .. N /\ len \in Nat /\ len >= 1
  <2>1. blocks \in Seq(MsgBlock)
    BY <1>1 DEF Written
  <2>2. len \in Nat /\ len >= 1
    BY MessagesAssumption
  <2> QED  BY <2>1, <2>2, <1>0
<1>4. \A b \in 1 .. N : blocks[b].msg \in Nat \ {0} /\ blocks[b] \in MsgBlock
  <2>1. \A b \in 1 .. N : blocks[b] \in MsgBlock
    BY <1>0, <1>3
  <2> QED  BY <2>1 DEF MsgBlock
<1>5. m \in Nat \ {0} /\ \A b \in 1 .. N : blocks[b].msg < m /\ (\A k \in 1 .. m - 1 : k \in MsgNos)
  <2>1. CASE blocks = << >>
    BY <2>1, <1>0, <1>3
  <2>2. CASE blocks # << >>
    <3>1. N # 0 /\ N \in 1 .. N
      BY <2>2, <1>0, <1>3
    <3>2. \A b \in 1 .. N : blocks[b].msg <= blocks[N].msg
      <4>1. \A b \in 1 .. N : b < N => blocks[b].msg <= blocks[N].msg
        BY <1>1, <1>3, <3>1 DEF Written
      <4> QED  BY <4>1, <3>1, <1>3, <1>4
    <3>3. \A k \in 1 .. blocks[N].msg : k \in MsgNos
      BY <1>1, <1>3, <3>1 DEF Written
    <3>4. m = blocks[N].msg + 1 /\ blocks[N].msg \in Nat
      BY <2>2, <3>1, <1>0, <1>4
    <3> HIDE DEF m
    <3> QED  BY <3>2, <3>3, <3>4, <1>4
  <2> QED  BY <2>1, <2>2
<1>6. /\ Len(chunk) = len /\ chunk \in Seq(MsgBlock)
      /\ \A i \in 1 .. len : /\ chunk[i].msg = m /\ (chunk[i].first <=> i = 1) /\ (chunk[i].last <=> i = len)
                             /\ chunk[i].order = (kind = "inorder")
  <2> HIDE DEF m
  <2>2. chunk \in [1 .. len -> MsgBlock]
    BY <1>5 DEF MsgBlock
  <2> HIDE DEF chunk
  <2>3. chunk \in Seq(MsgBlock) /\ Len(chunk) = len
    <3>1. len \in Nat
      BY <1>3
    <3> QED  BY ONLY <2>2, <3>1
  <2>4. ASSUME NEW i \in 1 .. len
        PROVE  /\ chunk[i].msg = m /\ (chunk[i].first <=> i = 1) /\ (chunk[i].last <=> i = len)
               /\ chunk[i].order = (kind = "inorder")
    <3>1. chunk[i].msg = m
      BY DEF chunk
    <3>2. (chunk[i].first <=> i = 1) /\ (chunk[i].last <=> i = len) /\ chunk[i].order = (kind = "inorder")
      BY DEF chunk
    <3> QED  BY <3>1, <3>2
  <2> QED  BY <2>3, <2>4
<1> HIDE DEF m, chunk
<1>7. /\ blocks' \in Seq(MsgBlock) /\ Len(blocks') = N + len /\ DOMAIN blocks' = 1 .. N + len
      /\ \A b \in 1 .. N : blocks'[b] = blocks[b]
      /\ \A b \in N + 1 .. N + len : blocks'[b] = chunk[b - N] /\ b - N \in 1 .. len
  <2>1. /\ blocks \o chunk \in Seq(MsgBlock) /\ Len(blocks \o chunk) = Len(blocks) + Len(chunk)
        /\ \A i \in 1 .. Len(blocks) + Len(chunk) :
               (blocks \o chunk)[i] = IF i <= Len(blocks) THEN blocks[i] ELSE chunk[i - Len(blocks)]
    <3>1. blocks \in Seq(MsgBlock) /\ chunk \in Seq(MsgBlock)
      BY <1>3, <1>6
    <3> QED  BY ONLY <3>1, ConcatProperties
  <2>2. blocks' \in Seq(MsgBlock) /\ Len(blocks') = N + len
    BY <2>1, <1>0, <1>2, <1>6
  <2>3. DOMAIN blocks' = 1 .. N + len
    BY <2>2
  <2>4. \A i \in 1 .. N + len : blocks'[i] = IF i <= N THEN blocks[i] ELSE chunk[i - N]
    BY <2>1, <1>0, <1>2, <1>6
  <2>5. \A b \in 1 .. N : blocks'[b] = blocks[b]
    BY <2>4, <1>3
  <2>6. \A b \in N + 1 .. N + len : blocks'[b] = chunk[b - N] /\ b - N \in 1 .. len
    BY <2>4, <1>3
  <2> QED  BY <2>2, <2>3, <2>5, <2>6
<1>8. \A b \in N + 1 .. N + len : /\ blocks'[b].msg = m /\ (blocks'[b].first <=> b = N + 1)
                                  /\ (blocks'[b].last <=> b = N + len) /\ blocks'[b].order = (kind = "inorder")
  BY <1>3, <1>6, <1>7
<1>9. \A b \in 1 .. N + len : b \in 1 .. N \/ b \in N + 1 .. N + len
  BY <1>3
<1>10. \A b \in 1 .. N : b \in 1 .. N + len /\ b \notin N + 1 .. N + len
  BY <1>3
<1>11. ASSUME NEW f \in 1 .. N, NEW l \in 1 .. N, Message(f, l) PROVE Message(f, l)'
  <2>1. /\ f <= l /\ \A b \in f .. l : b \in 1 .. N
        /\ \A b \in 1 .. N : blocks[b].msg = blocks[f].msg <=> f <= b /\ b <= l
        /\ \A b \in f .. l : /\ blocks[b].first <=> b = f
                             /\ blocks[b].last <=> b = l
                             /\ blocks[b].order = blocks[f].order
    BY <1>3, <1>11 DEF Message
  <2>2. \A b \in 1 .. N + len : blocks'[b].msg = blocks'[f].msg <=> f <= b /\ b <= l
    <3> SUFFICES ASSUME NEW b \in 1 .. N + len PROVE blocks'[b].msg = blocks'[f].msg <=> f <= b /\ b <= l
      OBVIOUS
    <3>1. CASE b \in 1 .. N
      BY <3>1, <2>1, <1>7
    <3>2. CASE b \in N + 1 .. N + len
      <4>1. blocks'[b].msg = m /\ blocks'[f].msg < m /\ blocks'[f].msg \in Nat /\ ~(b <= l)
        BY <3>2, <1>3, <1>4, <1>5, <1>7, <1>8
      <4> QED  BY <4>1, <1>5
    <3> QED  BY <3>1, <3>2, <1>9
  <2>3. \A b \in f .. l : blocks'[b] = blocks[b]
    BY <2>1, <1>7
  <2>4. blocks'[f] = blocks[f] /\ f \in 1 .. N + len /\ l \in 1 .. N + len
    BY <1>7, <1>10
  <2> QED  BY <2>1, <2>2, <2>3, <2>4, <1>7 DEF Message
<1>12. Message(N + 1, N + len)'
  <2>1. N + 1 \in 1 .. N + len /\ N + len \in 1 .. N + len /\ N + 1 <= N + len /\ N + 1 \in N + 1 .. N + len
    BY <1>3
  <2>2. blocks'[N + 1].msg = m /\ blocks'[N + 1].order = (kind = "inorder")
    BY <2>1, <1>8
  <2>3. \A b \in 1 .. N + len : blocks'[b].msg = m <=> N + 1 <= b /\ b <= N + len
    <3> SUFFICES ASSUME NEW b \in 1 .. N + len PROVE blocks'[b].msg = m <=> N + 1 <= b /\ b <= N + len
      OBVIOUS
    <3>1. CASE b \in 1 .. N
      <4>1. blocks'[b].msg \in Nat /\ blocks'[b].msg < m
        BY <3>1, <1>4, <1>5, <1>7
      <4>2. ~(N + 1 <= b)
        BY <3>1, <1>3
      <4> QED  BY <4>1, <4>2, <1>5
    <3>2. CASE b \in N + 1 .. N + len
      BY <3>2, <1>3, <1>8
    <3> QED  BY <3>1, <3>2, <1>9
  <2> QED  BY <2>1, <2>2, <2>3, <1>7, <1>8 DEF Message
<1>13. \A k \in MsgNos : k \in MsgNos'
  BY <1>3, <1>7, <1>10 DEF MsgNos
<1>14. m \in MsgNos'
  <2>1. N + 1 \in 1 .. N + len /\ N + 1 \in N + 1 .. N + len
    BY <1>3
  <2> QED  BY <2>1, <1>7, <1>8 DEF MsgNos
<1>15. Written'
  <2>1. \A b \in 1 .. N + len : \E f, l \in 1 .. N + len : Message(f, l)' /\ f <= b /\ b <= l
    <3> SUFFICES ASSUME NEW b \in 1 .. N + len PROVE \E f, l \in 1 .. N + len : Message(f, l)' /\ f <= b /\ b <= l
      OBVIOUS
    <3>1. CASE b \in 1 .. N
      <4>1. PICK f, l \in 1 .. N : Message(f, l) /\ f <= b /\ b <= l
        BY <3>1, <1>1, <1>3 DEF Written
      <4> QED  BY <4>1, <1>10, <1>11
    <3>2. CASE b \in N + 1 .. N + len
      <4>1. N + 1 \in 1 .. N + len /\ N + len \in 1 .. N + len /\ N + 1 <= b /\ b <= N + len
        BY <3>2, <1>3
      <4> QED  BY <4>1, <1>12
    <3> QED  BY <3>1, <3>2, <1>9
  <2>2. \A b, c \in 1 .. N + len : b < c => blocks'[b].msg <= blocks'[c].msg
    <3> SUFFICES ASSUME NEW b \in 1 .. N + len, NEW c \in 1 .. N + len, b < c PROVE blocks'[b].msg <= blocks'[c].msg
      OBVIOUS
    <3>1. CASE b \in 1 .. N /\ c \in 1 .. N
      BY <3>1, <1>1, <1>3, <1>7 DEF Written
    <3>2. CASE b \in 1 .. N /\ c \in N + 1 .. N + len
      <4>1. blocks'[b].msg < m /\ blocks'[b].msg \in Nat /\ blocks'[c].msg = m
        BY <3>2, <1>4, <1>5, <1>7, <1>8
      <4> QED  BY <4>1, <1>5
    <3>3. CASE b \in N + 1 .. N + len /\ c \in N + 1 .. N + len
      BY <3>3, <1>5, <1>8
    <3>4. ~(b \in N + 1 .. N + len /\ c \in 1 .. N)
      BY <1>3
    <3> QED  BY <3>1, <3>2, <3>3, <3>4, <1>9
  <2>3. \A b \in 1 .. N + len : \A k \in 1 .. blocks'[b].msg : k \in MsgNos'
    <3> SUFFICES ASSUME NEW b \in 1 .. N + len, NEW k \in 1 .. blocks'[b].msg PROVE k \in MsgNos'
      OBVIOUS
    <3>1. CASE b \in 1 .. N
      <4>1. k \in MsgNos
        BY <3>1, <1>1, <1>3, <1>7 DEF Written
      <4> QED  BY <4>1, <1>13
    <3>2. CASE b \in N + 1 .. N + len
      <4>1. blocks'[b].msg = m
        BY <3>2, <1>8
      <4>2. CASE k = m
        BY <4>2, <1>14
      <4>3. CASE k # m
        <5>1. k \in 1 .. m - 1
          BY <4>1, <4>3, <1>5
        <5>2. ASSUME N = 0 PROVE FALSE
          <6>1. blocks = << >>
            BY <5>2, <1>0, <1>3
          <6>2. m = 1
            BY <6>1 DEF m
          <6> QED  BY <5>1, <6>2
        <5>3. 1 \in 1 .. N
          BY <5>2, <1>3
        <5> QED  BY <5>1, <5>3, <1>5, <1>13
      <4> QED  BY <4>2, <4>3
    <3> QED  BY <3>1, <3>2, <1>9
  <2> QED  BY <2>1, <2>2, <2>3, <1>7 DEF Written
<1>16. /\ msgRecv.start = 1 /\ msgRecv.next = 1 /\ DOMAIN units = {} /\ msgWire = {} /\ expired = {} /\ DOMAIN readMsgs = {}
  <2>1. msgRecv.start \in Nat \ {0} /\ msgRecv.acked \in Nat \ {0} /\ msgRecv.next \in Nat \ {0}
        /\ msgRecv.start <= msgRecv.acked /\ msgRecv.acked <= msgRecv.next /\ msgRecv.next <= 1
    BY <1>1, <1>2 DEF ReceiverInStep
  <2>2. msgRecv.start = 1 /\ msgRecv.next = 1
    BY <2>1
  <2>3. DOMAIN units = {}
    BY <1>1, <2>2 DEF UnitsHold
  <2>4. expired = {}
    <3>1. ASSUME NEW e \in expired PROVE FALSE
      <4>1. PICK f, l \in DOMAIN blocks : Message(f, l) /\ blocks[f].msg = e
        BY <1>1, <3>1, MessageNumber DEF ExpiredLate
      <4>2. l + 2 < msgRecv.next
        BY <4>1, <1>1, <3>1 DEF ExpiredLate
      <4> QED  BY <4>2, <2>2, <1>3
    <3> QED  BY <3>1
  <2>5. msgWire = {}
    BY <1>1, <1>2, <2>4 DEF WireTells
  <2>6. DOMAIN readMsgs = {}
    <3>1. ASSUME NEW i \in DOMAIN readMsgs PROVE FALSE
      <4>1. PICK f, l \in DOMAIN blocks : ReadOf(i, f, l)
        BY <1>1 DEF Reads
      <4>2. l < msgRecv.next
        BY <4>1 DEF ReadOf
      <4> QED  BY <4>2, <2>2, <1>3
    <3> QED  BY <3>1
  <2> QED  BY <2>2, <2>3, <2>4, <2>5, <2>6
<1>17. SenderInStep'
  <2>1. 1 <= N + len + 1 /\ msgSender.next = 1
    BY <1>2, <1>3
  <2> QED  BY <2>1, <1>1, <1>2, <1>7 DEF SenderInStep
<1>18. ReceiverInStep'
  BY <1>1, <1>2 DEF ReceiverInStep
<1>19. ExpiredLate' /\ WireTells' /\ UnitsHold'
  BY <1>2, <1>16 DEF ExpiredLate, WireTells, UnitsHold
<1>20. Present'
  <2>1. msgRecv.start .. msgRecv.next - 1 = {}
    BY <1>16
  <2> QED  BY <2>1, <1>2 DEF Present
<1>21. Reads' /\ ReadOnce' /\ InOrderWaits'
  BY <1>1, <1>2, <1>16 DEF Reads, ReadOnce, InOrderWaits
<1>22. KeptAhead'
  <2>1. \A f \in 1 .. N + len : 1 <= f
    BY <1>3
  <2> QED  BY <2>1, <1>2, <1>7, <1>16 DEF KeptAhead
<1> QED
  BY <1>15, <1>17, <1>18, <1>19, <1>20, <1>21, <1>22 DEF MessagesInv

-----------------------------------------------------------------------------
(* The receiver's steps, but recvmsg.                                      *)

\* A data packet comes.
LEMMA ReceiveDataKeeps ==
    ASSUME MessagesInv, NEW p \in msgWire, ReceiveData(p)
    PROVE  MessagesInv'
<1>1. /\ Written /\ SenderInStep /\ ReceiverInStep /\ ExpiredLate /\ WireTells /\ UnitsHold /\ Present
      /\ Reads /\ KeptAhead /\ ReadOnce /\ InOrderWaits
  BY DEF MessagesInv
<1>2. /\ p.kind = "data" /\ msgWire' = msgWire \ {p}
      /\ UNCHANGED <<blocks, msgSender, expired, readMsgs>>
  BY DEF ReceiveData
<1>3. p.no \in 1 .. msgSender.next - 1 /\ p.block = blocks[p.no]
  BY <1>1, <1>2 DEF WireTells
<1> DEFINE n == p.no
           offset == n - msgRecv.acked
<1>4. /\ msgRecv \in [start : Nat \ {0}, acked : Nat \ {0}, next : Nat \ {0}, max : Int, lost : SUBSET Nat]
      /\ msgRecv.start <= msgRecv.acked /\ msgRecv.acked <= msgRecv.next
      /\ msgRecv.next <= msgSender.next /\ msgRecv.max >= -1
      /\ \A s \in msgRecv.lost : msgRecv.acked <= s /\ s < msgRecv.next
      /\ msgSender.next \in Nat \ {0}
  BY <1>1 DEF ReceiverInStep, SenderInStep
<1>5. n \in Nat /\ n >= 1 /\ n + 1 <= msgSender.next /\ offset \in Int
  BY <1>3, <1>4
<1>6. Written' /\ MsgNos' = MsgNos /\ SenderInStep' /\ \A f, l : Message(f, l)' <=> Message(f, l)
  BY <1>1, <1>2, SameMessages DEF SenderInStep
<1>7. WireTells'
  <2>1. expired \subseteq expired' /\ msgSender'.next >= msgSender.next
    BY <1>2, <1>4
  <2> QED  BY <2>1, <1>1, <1>2, <1>6, WireKept DEF WireTells
<1> DEFINE top == Larger(msgRecv.max, offset)
<1>8. top \in Int /\ top >= -1
  BY <1>4, <1>5 DEF Larger
<1>9. CASE units' = units /\ msgRecv' \in {msgRecv, [msgRecv EXCEPT !.max = top]}
  <2>1. PICK t \in Int : t >= -1 /\ msgRecv' = [start |-> msgRecv.start, acked |-> msgRecv.acked,
                                                next |-> msgRecv.next, max |-> t, lost |-> msgRecv.lost]
    <3>1. CASE msgRecv' = msgRecv
      <4>1. msgRecv = [start |-> msgRecv.start, acked |-> msgRecv.acked,
                       next |-> msgRecv.next, max |-> msgRecv.max, lost |-> msgRecv.lost]
        BY <1>4
      <4> QED  BY <3>1, <4>1, <1>4
    <3>2. CASE msgRecv' = [msgRecv EXCEPT !.max = top]
      <4>1. msgRecv' = [start |-> msgRecv.start, acked |-> msgRecv.acked,
                        next |-> msgRecv.next, max |-> top, lost |-> msgRecv.lost]
        BY <3>2, <1>4
      <4> QED  BY <4>1, <1>8
    <3> QED  BY <3>1, <3>2, <1>9
  <2>2. ReceiverInStep'
    BY <2>1, <1>1, <1>2 DEF ReceiverInStep
  <2>3. msgRecv'.start = msgRecv.start /\ msgRecv'.next = msgRecv.next /\ msgRecv'.lost = msgRecv.lost
    BY <2>1
  <2>4. ExpiredLate' /\ UnitsHold' /\ Present'
    BY <2>3, <1>1, <1>2, <1>6, <1>9 DEF ExpiredLate, UnitsHold, IsRead, Present, Taken
  <2>5. KeepsMarks
    BY <2>3, <1>2, <1>4, <1>9 DEF KeepsMarks
  <2> QED
    BY <2>2, <2>4, <2>5, <1>1, <1>6, <1>7, HistoryKept DEF MessagesInv
<1>10. CASE /\ n \notin DOMAIN units /\ offset >= 0
            /\ units' = Put(n, [flag |-> 1, block |-> blocks[n]])
            /\ msgRecv' = [msgRecv EXCEPT !.max = Larger(@, offset),
                                          !.lost = (@ \cup (msgRecv.next .. n - 1)) \ {n},
                                          !.next = Larger(@, n + 1)]
  <2> DEFINE lost1 == (msgRecv.lost \cup (msgRecv.next .. n - 1)) \ {n}
             next1 == Larger(msgRecv.next, n + 1)
  <2>1. msgRecv' = [start |-> msgRecv.start, acked |-> msgRecv.acked, next |-> next1, max |-> top, lost |-> lost1]
    BY <1>4, <1>10
  <2>2. next1 \in Nat \ {0} /\ next1 <= msgSender.next /\ msgRecv.next <= next1 /\ n < next1 /\ msgRecv.acked <= n
        /\ (next1 = msgRecv.next \/ next1 = n + 1)
    BY <1>4, <1>5, <1>10 DEF Larger
  <2>3. \A s \in lost1 : s \in Nat /\ msgRecv.acked <= s /\ s < next1
    <3>1. ASSUME NEW s \in msgRecv.lost PROVE s \in Nat /\ msgRecv.acked <= s /\ s < next1
      <4>1. s \in Nat /\ msgRecv.acked <= s /\ s < msgRecv.next
        BY <1>4
      <4> QED  BY <4>1, <2>2, <1>4
    <3>2. ASSUME NEW s \in msgRecv.next .. n - 1 PROVE s \in Nat /\ msgRecv.acked <= s /\ s < next1
      BY <2>2, <1>4, <1>5
    <3> QED  BY <3>1, <3>2
  <2> HIDE DEF next1, lost1, top, offset
  <2>4. /\ msgRecv'.start = msgRecv.start /\ msgRecv'.acked = msgRecv.acked /\ msgRecv'.next = next1
        /\ msgRecv'.max = top /\ msgRecv'.lost = lost1
    BY <2>1
  <2>5. ReceiverInStep'
    <3>1. msgRecv.acked <= next1
      BY <2>2, <1>4
    <3>2. msgRecv' \in [start : Nat \ {0}, acked : Nat \ {0}, next : Nat \ {0}, max : Int, lost : SUBSET Nat]
      BY <2>1, <2>2, <2>3, <1>4, <1>8
    <3> QED  BY <3>1, <3>2, <2>2, <2>3, <2>4, <1>2, <1>4, <1>8 DEF ReceiverInStep
  <2>6. ExpiredLate'
    <3> SUFFICES ASSUME NEW f \in DOMAIN blocks, NEW l \in DOMAIN blocks, Message(f, l), blocks[f].msg \in expired
                 PROVE  l + 2 < next1 /\ l + 1 \notin lost1
      BY <2>4, <1>1, <1>2, <1>6 DEF ExpiredLate
    <3>1. l + 2 < msgRecv.next /\ l + 1 \notin msgRecv.lost /\ l \in Nat
      BY <1>1, MessagePositions DEF ExpiredLate
    <3>2. l + 1 \notin msgRecv.next .. n - 1
      BY <3>1, <1>4
    <3> QED  BY <3>1, <3>2, <2>2, <1>4 DEF lost1
  <2>7. /\ DOMAIN units' = DOMAIN units \cup {n} /\ \A r \in DOMAIN units : units'[r] = units[r]
        /\ units'[n] = [flag |-> 1, block |-> blocks[n]]
    BY <1>10 DEF Put
  <2>8. UnitsHold'
    <3>1. DOMAIN units' \subseteq 1 .. next1 - 1
      <4>1. n \in 1 .. next1 - 1
        BY <2>2, <1>5
      <4>2. \A r \in 1 .. msgRecv.next - 1 : r \in 1 .. next1 - 1
        BY <2>2, <1>4
      <4> QED  BY <4>1, <4>2, <2>7, <1>1 DEF UnitsHold
    <3>2. /\ DOMAIN units'[n] = {"flag", "block"} /\ units'[n].block = blocks[n] /\ units'[n].flag = 1
      BY <2>7
    <3>3. \A m : IsRead(m)' <=> IsRead(m)
      BY <1>2 DEF IsRead
    <3> QED  BY <3>1, <3>2, <3>3, <2>4, <2>7, <1>1, <1>2 DEF UnitsHold
  <2>9. Present'
    <3> SUFFICES ASSUME NEW r \in msgRecv.start .. next1 - 1
                 PROVE  r \in lost1 \/ blocks[r].msg \in expired \/ r \in DOMAIN units'
      BY <2>4, <1>2 DEF Present, Taken
    <3>1. CASE r < msgRecv.next
      <4>1. r \in msgRecv.start .. msgRecv.next - 1
        BY <3>1, <1>4
      <4>2. r \in msgRecv.lost \/ blocks[r].msg \in expired \/ r \in DOMAIN units
        BY <4>1, <1>1 DEF Present, Taken
      <4> QED  BY <4>2, <2>7 DEF lost1
    <3>2. CASE ~(r < msgRecv.next)
      <4>1. r \in msgRecv.next .. n - 1 \/ r = n
        BY <3>2, <2>2, <1>4, <1>5
      <4> QED  BY <4>1, <2>7 DEF lost1
    <3> QED  BY <3>1, <3>2
  <2>10. KeepsMarks
    BY <2>2, <2>4, <2>7, <1>2, <1>4 DEF KeepsMarks
  <2> QED
    BY <2>5, <2>6, <2>8, <2>9, <2>10, <1>1, <1>6, <1>7, HistoryKept DEF MessagesInv
<1> QED
  BY <1>3, <1>9, <1>10 DEF ReceiveData, Taken

\* A drop request comes.
LEMMA ReceiveDropKeeps ==
    ASSUME MessagesInv, NEW p \in msgWire, ReceiveDrop(p)
    PROVE  MessagesInv'
<1>1. /\ Written /\ SenderInStep /\ ReceiverInStep /\ ExpiredLate /\ WireTells /\ UnitsHold /\ Present
      /\ Reads /\ KeptAhead /\ ReadOnce /\ InOrderWaits
  BY DEF MessagesInv
<1>2. /\ p.kind = "drop" /\ msgWire' = msgWire \ {p}
      /\ UNCHANGED <<blocks, msgSender, expired, readMsgs>>
  BY DEF ReceiveDrop
<1>3. /\ units' = [q \in DOMAIN units |->
                    IF /\ q >= msgRecv.start /\ q < msgRecv.acked + msgRecv.max
                       /\ units[q].block.msg = p.msg
                    THEN [units[q] EXCEPT !.flag = 3] ELSE units[q]]
      /\ msgRecv' = [msgRecv EXCEPT !.lost = {s \in @ : s \notin Dropped(p)},
                                  !.next = IF p.from <= @ /\ p.to >= @ THEN p.to + 1 ELSE @]
  BY DEF ReceiveDrop
<1>4. PICK f, l \in DOMAIN blocks : /\ Message(f, l) /\ blocks[f].msg = p.msg /\ p.msg \in expired
                                    /\ p.from \in Nat /\ f <= p.from /\ p.to = l + 1
  BY <1>1, <1>2 DEF WireTells
<1>5. /\ msgRecv \in [start : Nat \ {0}, acked : Nat \ {0}, next : Nat \ {0}, max : Int, lost : SUBSET Nat]
      /\ \A s \in msgRecv.lost : msgRecv.acked <= s /\ s < msgRecv.next
  BY <1>1 DEF ReceiverInStep
<1>6. l + 2 < msgRecv.next /\ l + 1 \notin msgRecv.lost /\ l \in Nat /\ f \in Nat
  BY <1>1, <1>4, MessagePositions DEF ExpiredLate
<1> DEFINE lost1 == {s \in msgRecv.lost : s \notin Dropped(p)}
<1>7. msgRecv' = [start |-> msgRecv.start, acked |-> msgRecv.acked, next |-> msgRecv.next,
                  max |-> msgRecv.max, lost |-> lost1]
  <2>1. ~(p.to >= msgRecv.next)
    BY <1>4, <1>5, <1>6
  <2> QED  BY <2>1, <1>3, <1>5
<1>8. \A r \in msgRecv.lost : r \in lost1 \/ blocks[r].msg \in expired
  <2> SUFFICES ASSUME NEW r \in msgRecv.lost, r \in Dropped(p) PROVE blocks[r].msg \in expired
    OBVIOUS
  <2>1. r \in Nat /\ p.from <= r /\ r <= l + 1 /\ r # l + 1
    BY <1>4, <1>6 DEF Dropped
  <2>2. r \in f .. l
    BY <2>1, <1>4, <1>6
  <2>3. blocks[r].msg = blocks[f].msg
    BY <2>2, <1>1, <1>4, MessagePositions
  <2> QED  BY <2>3, <1>4
<1> HIDE DEF lost1
<1>9. /\ msgRecv'.start = msgRecv.start /\ msgRecv'.acked = msgRecv.acked /\ msgRecv'.next = msgRecv.next
      /\ msgRecv'.max = msgRecv.max /\ msgRecv'.lost = lost1 /\ lost1 \subseteq msgRecv.lost
  BY <1>7 DEF lost1
<1>10. Written' /\ MsgNos' = MsgNos /\ SenderInStep' /\ \A g, k : Message(g, k)' <=> Message(g, k)
  BY <1>1, <1>2, SameMessages DEF SenderInStep
<1>11. WireTells'
  <2>1. expired \subseteq expired' /\ msgSender'.next >= msgSender.next
    BY <1>1, <1>2 DEF SenderInStep
  <2> QED  BY <2>1, <1>1, <1>2, <1>10, WireKept DEF WireTells
<1>12. ReceiverInStep'
  BY <1>1, <1>2, <1>7, <1>9 DEF ReceiverInStep
<1>13. ExpiredLate'
  BY <1>1, <1>2, <1>9, <1>10 DEF ExpiredLate
<1>14. /\ DOMAIN units' = DOMAIN units
       /\ \A q \in DOMAIN units :
              \/ units'[q] = units[q]
              \/ units[q].block.msg = p.msg /\ units'[q] = [units[q] EXCEPT !.flag = 3]
  BY <1>3
<1>15. \A q \in DOMAIN units : /\ DOMAIN units'[q] = {"flag", "block"} /\ units'[q].block = blocks[q]
                               /\ \/ units'[q].flag = units[q].flag
                                  \/ units'[q].flag = 3 /\ blocks[q].msg \in expired
  <2> SUFFICES ASSUME NEW q \in DOMAIN units
               PROVE  /\ DOMAIN units'[q] = {"flag", "block"} /\ units'[q].block = blocks[q]
                      /\ \/ units'[q].flag = units[q].flag
                         \/ units'[q].flag = 3 /\ blocks[q].msg \in expired
    OBVIOUS
  <2>1. DOMAIN units[q] = {"flag", "block"} /\ units[q].block = blocks[q]
    BY <1>1 DEF UnitsHold
  <2>2. CASE units'[q] = units[q]
    BY <2>1, <2>2
  <2>3. CASE units[q].block.msg = p.msg /\ units'[q] = [units[q] EXCEPT !.flag = 3]
    BY <2>1, <2>3, <1>4
  <2> QED  BY <2>2, <2>3, <1>14
<1>16. UnitsHold'
  <2>1. \A m : IsRead(m)' <=> IsRead(m)
    BY <1>2 DEF IsRead
  <2> QED  BY <2>1, <1>1, <1>2, <1>9, <1>14, <1>15 DEF UnitsHold
<1>17. Present'
  BY <1>1, <1>2, <1>8, <1>9, <1>14 DEF Present, Taken
<1>18. KeepsMarks
  <2>1. \A q \in DOMAIN units : units[q].flag # 1 => units'[q].flag # 1
    BY <1>15
  <2> QED  BY <2>1, <1>2, <1>5, <1>9, <1>14 DEF KeepsMarks
<1> QED
  BY <1>1, <1>10, <1>11, <1>12, <1>13, <1>16, <1>17, <1>18, HistoryKept DEF MessagesInv

\* The ACK timer expires.
LEMMA AckTimerKeeps ==
    ASSUME MessagesInv, AckTimerTurn
    PROVE  MessagesInv'
<1>1. /\ Written /\ SenderInStep /\ ReceiverInStep /\ ExpiredLate /\ WireTells /\ UnitsHold /\ Present
      /\ Reads /\ KeptAhead /\ ReadOnce /\ InOrderWaits
  BY DEF MessagesInv
<1> DEFINE a == AckNo
           top == IF msgRecv.max < a - msgRecv.acked THEN 0 ELSE msgRecv.max - (a - msgRecv.acked)
<1>2. /\ a > msgRecv.acked /\ UNCHANGED <<blocks, msgSender, expired, msgWire, units, readMsgs>>
      /\ msgRecv' = [msgRecv EXCEPT !.acked = a,
                                    !.max = IF @ < a - msgRecv.acked THEN 0 ELSE @ - (a - msgRecv.acked)]
  BY DEF AckTimerTurn
<1>3. /\ msgRecv \in [start : Nat \ {0}, acked : Nat \ {0}, next : Nat \ {0}, max : Int, lost : SUBSET Nat]
      /\ msgRecv.start <= msgRecv.acked /\ msgRecv.acked <= msgRecv.next
      /\ msgRecv.next <= msgSender.next /\ msgRecv.max >= -1
      /\ \A s \in msgRecv.lost : msgRecv.acked <= s /\ s < msgRecv.next
  BY <1>1 DEF ReceiverInStep
<1>4. a \in Nat /\ a <= msgRecv.next /\ \A s \in msgRecv.lost : a <= s
  <2>1. CASE msgRecv.lost = {}
    BY <2>1, <1>3 DEF AckNo
  <2>2. CASE msgRecv.lost # {}
    <3>1. a \in msgRecv.lost /\ \A s \in msgRecv.lost : a <= s
      BY <2>2, <1>3, LeastOf DEF AckNo
    <3> HIDE DEF a
    <3>2. a \in Nat /\ a < msgRecv.next
      BY <3>1, <1>3
    <3> QED  BY <3>1, <3>2, <1>3
  <2> QED  BY <2>1, <2>2
<1> HIDE DEF a
<1>5. msgRecv' = [start |-> msgRecv.start, acked |-> a, next |-> msgRecv.next, max |-> top, lost |-> msgRecv.lost]
  BY <1>2, <1>3
<1>6. top \in Int /\ top >= -1 /\ a \in Nat \ {0} /\ msgRecv.start <= a
  BY <1>2, <1>3, <1>4
<1> HIDE DEF top
<1>7. ReceiverInStep'
  <2>1. msgRecv' \in [start : Nat \ {0}, acked : Nat \ {0}, next : Nat \ {0}, max : Int, lost : SUBSET Nat]
    BY <1>3, <1>5, <1>6
  <2>2. /\ msgRecv'.start = msgRecv.start /\ msgRecv'.acked = a /\ msgRecv'.next = msgRecv.next
        /\ msgRecv'.max = top /\ msgRecv'.lost = msgRecv.lost
    BY <1>5
  <2> QED  BY <2>1, <2>2, <1>2, <1>3, <1>4, <1>6 DEF ReceiverInStep
<1>8. msgRecv'.start = msgRecv.start /\ msgRecv'.next = msgRecv.next /\ msgRecv'.lost = msgRecv.lost
  BY <1>5
<1>9. Written' /\ MsgNos' = MsgNos /\ SenderInStep' /\ \A g, k : Message(g, k)' <=> Message(g, k)
  BY <1>1, <1>2, SameMessages DEF SenderInStep
<1>10. ExpiredLate' /\ UnitsHold' /\ Present'
  BY <1>1, <1>2, <1>8, <1>9 DEF ExpiredLate, UnitsHold, IsRead, Present, Taken
<1>11. WireTells'
  <2>1. expired \subseteq expired' /\ msgSender'.next >= msgSender.next
    BY <1>1, <1>2 DEF SenderInStep
  <2> QED  BY <2>1, <1>1, <1>2, <1>9, WireKept DEF WireTells
<1>12. KeepsMarks
  BY <1>2, <1>3, <1>8 DEF KeepsMarks
<1> QED
  BY <1>1, <1>7, <1>9, <1>10, <1>11, <1>12, HistoryKept DEF MessagesInv

-----------------------------------------------------------------------------
(* recvmsg.                                                                *)

\* The scan moves the start within what is acknowledged, and not past a head.
LEMMA NewStartIs ==
    ASSUME MessagesInv
    PROVE  /\ NewStart \in msgRecv.start .. msgRecv.acked /\ NewStart \in Nat \ {0}
           /\ msgRecv.start <= NewStart /\ NewStart <= msgRecv.acked
           /\ \A p \in msgRecv.start .. msgRecv.acked : GoodHead(p) => NewStart <= p
<1> DEFINE S == {p \in msgRecv.start .. msgRecv.acked : p = msgRecv.acked \/ GoodHead(p)}
<1>1. msgRecv.start \in Nat \ {0} /\ msgRecv.acked \in Nat \ {0} /\ msgRecv.start <= msgRecv.acked
  BY DEF MessagesInv, ReceiverInStep
<1>2. S \in SUBSET Nat /\ msgRecv.acked \in S
  BY <1>1
<1>3. Min(S) \in S /\ \A p \in S : Min(S) <= p
  <2> HIDE DEF S
  <2> QED  BY <1>2, LeastOf
<1>4. NewStart \in S /\ \A p \in S : NewStart <= p
  BY <1>3 DEF NewStart
<1> QED
  BY <1>1, <1>4

\* A message that is kept and whole as far as it goes is a place to start from.
LEMMA KeptIsFresh ==
    ASSUME MessagesInv, NEW f, NEW l, Message(f, l), blocks[f].msg \notin expired, ~IsRead(blocks[f].msg)
    PROVE  /\ \A q \in f .. l : q < msgRecv.acked => Fresh(q) /\ units[q].block = blocks[q]
           /\ msgRecv.start <= f /\ NewStart <= f
<1>1. Written /\ UnitsHold /\ Present /\ KeptAhead
  BY DEF MessagesInv
<1>2. /\ msgRecv.start \in Nat /\ msgRecv.acked \in Nat /\ msgRecv.next \in Nat
      /\ msgRecv.acked <= msgRecv.next
      /\ \A s \in msgRecv.lost : msgRecv.acked <= s
  BY DEF MessagesInv, ReceiverInStep
<1>3. /\ f \in Nat /\ l \in Nat /\ f <= l /\ f \in DOMAIN blocks /\ l \in DOMAIN blocks
      /\ \A b \in f .. l : b \in DOMAIN blocks /\ blocks[b].msg = blocks[f].msg
  BY <1>1, MessagePositions DEF Message
<1>4. msgRecv.start <= f
  BY <1>1, <1>3 DEF KeptAhead
<1>5. ASSUME NEW q \in f .. l, q < msgRecv.acked PROVE Fresh(q) /\ units[q].block = blocks[q]
  <2>1. q \in msgRecv.start .. msgRecv.next - 1 /\ q \notin msgRecv.lost
    BY <1>2, <1>3, <1>4, <1>5
  <2>2. blocks[q].msg = blocks[f].msg
    BY <1>3
  <2>3. q \in DOMAIN units
    BY <2>1, <2>2, <1>1 DEF Present, Taken
  <2>4. units[q].block = blocks[q] /\ units[q].flag \in {1, 2, 3} /\ units[q].flag # 2 /\ units[q].flag # 3
    BY <2>2, <2>3, <1>1 DEF UnitsHold
  <2> QED  BY <2>3, <2>4 DEF Fresh, Taken
<1>6. NewStart \in Nat /\ NewStart <= msgRecv.acked
      /\ \A p \in msgRecv.start .. msgRecv.acked : GoodHead(p) => NewStart <= p
  BY NewStartIs
<1>7. CASE f >= msgRecv.acked
  BY <1>3, <1>4, <1>5, <1>6, <1>7, <1>2
<1>8. CASE f < msgRecv.acked
  <2>1. Fresh(f) /\ units[f].block.first
    <3>1. f \in f .. l /\ (blocks[f].first <=> f = f)
      BY <1>3 DEF Message
    <3> QED  BY <3>1, <1>5, <1>8
  <2>2. ASSUME NEW q \in f .. msgRecv.acked - 1
        PROVE  Fresh(q) \/ \E r \in f .. q - 1 : Fresh(r) /\ units[r].block.last
    <3>1. CASE q <= l
      <4>1. q \in f .. l /\ q < msgRecv.acked
        BY <3>1, <1>2, <1>3
      <4> QED  BY <4>1, <1>5
    <3>2. CASE ~(q <= l)
      <4>1. l \in f .. q - 1 /\ l \in f .. l /\ l < msgRecv.acked
        BY <3>2, <1>2, <1>3
      <4>2. blocks[l].last
        BY <4>1 DEF Message
      <4> QED  BY <4>1, <4>2, <1>5
    <3> QED  BY <3>1, <3>2
  <2>3. GoodHead(f)
    BY <2>1, <2>2 DEF GoodHead
  <2>4. f \in msgRecv.start .. msgRecv.acked
    BY <1>2, <1>3, <1>4, <1>8
  <2> QED  BY <2>3, <2>4, <1>4, <1>5, <1>6
<1> QED
  BY <1>2, <1>3, <1>7, <1>8

\* What recvmsg returns is a message, with every packet there and not yet returned.
LEMMA ScanFinds ==
    ASSUME MessagesInv, MessageEnds # {}
    PROVE  \E f, q \in Nat :
               /\ q = Min(MessageEnds) /\ f = LastHead(q) /\ Message(f, q)
               /\ NewStart <= f /\ f <= q /\ q < msgRecv.next
               /\ \A r \in f .. q : Fresh(r)
               /\ Readable(q)
               /\ \A k \in MessageEnds : q <= k
<1>1. Written /\ UnitsHold
  BY DEF MessagesInv
<1>2. /\ NewStart \in Nat /\ msgRecv.acked \in Nat /\ msgRecv.max \in Int /\ msgRecv.next \in Nat
  BY NewStartIs DEF MessagesInv, ReceiverInStep
<1>3. MessageEnds \in SUBSET Nat
  BY <1>2 DEF MessageEnds
<1> DEFINE q == Min(MessageEnds)
<1>4. q \in MessageEnds /\ \A k \in MessageEnds : q <= k
  BY <1>3, LeastOf
<1> HIDE DEF q
<1>5. q \in Nat /\ NewStart <= q /\ Fresh(q) /\ units[q].block.last /\ Heads(q) # {} /\ Readable(q)
  BY <1>2, <1>4 DEF MessageEnds
<1>6. q \in DOMAIN units /\ units[q].block = blocks[q]
  BY <1>1, <1>5 DEF Fresh, Taken, UnitsHold
<1>7. q < msgRecv.next /\ q >= 1
  BY <1>1, <1>2, <1>6 DEF UnitsHold
<1>8. q \in DOMAIN blocks
  <2>1. msgRecv.next <= msgSender.next /\ msgSender.next <= Len(blocks) + 1 /\ msgSender.next \in Nat
    BY DEF MessagesInv, ReceiverInStep, SenderInStep
  <2>2. blocks \in Seq(MsgBlock)
    BY <1>1 DEF Written
  <2>3. Len(blocks) \in Nat /\ DOMAIN blocks = 1 .. Len(blocks)
    BY <2>2
  <2> QED  BY <2>1, <2>3, <1>2, <1>5, <1>7
<1>9. PICK f, l \in DOMAIN blocks : Message(f, l) /\ f <= q /\ q <= l
  BY <1>1, <1>8 DEF Written
<1>10. /\ f \in Nat /\ l \in Nat /\ f <= l
       /\ \A b \in f .. l : b \in DOMAIN blocks
  BY <1>1, <1>9, MessagePositions
<1>11. q = l
  <2>1. q \in f .. l
    BY <1>5, <1>9, <1>10
  <2> QED  BY <2>1, <1>5, <1>6, <1>9 DEF Message
<1>12. \A h \in Heads(q) : /\ h \in Nat /\ NewStart <= h /\ h <= f /\ \A r \in h .. q : Fresh(r)
  <2> SUFFICES ASSUME NEW h \in Heads(q)
               PROVE  h \in Nat /\ NewStart <= h /\ h <= f /\ \A r \in h .. q : Fresh(r)
    OBVIOUS
  <2>1. h \in NewStart .. q /\ Fresh(h) /\ units[h].block.first /\ \A r \in h .. q : Fresh(r)
    BY DEF Heads
  <2>2. h \in Nat /\ NewStart <= h /\ h <= q
    BY <2>1, <1>2, <1>5
  <2>3. blocks[h].first
    BY <2>1, <1>1 DEF Fresh, Taken, UnitsHold
  <2>4. ASSUME h > f PROVE FALSE
    <3>1. h \in f .. l
      BY <2>2, <2>4, <1>10, <1>11
    <3>2. h = f
      BY <3>1, <2>3, <1>9 DEF Message
    <3> QED  BY <3>2, <2>4, <1>10
  <2> QED  BY <2>1, <2>2, <2>4, <1>10
<1>13. PICK h \in Heads(q) : TRUE
  BY <1>5
<1>14. NewStart <= f /\ \A r \in f .. q : r \in h .. q /\ Fresh(r)
  BY <1>12, <1>13, <1>2, <1>5, <1>10
<1>15. f \in Heads(q)
  <2>1. f \in NewStart .. q /\ f \in f .. q /\ f \in f .. l
    BY <1>2, <1>5, <1>9, <1>10, <1>14
  <2>2. Fresh(f) /\ units[f].block = blocks[f]
    BY <2>1, <1>1, <1>14 DEF Fresh, Taken, UnitsHold
  <2>3. blocks[f].first
    BY <2>1, <1>9 DEF Message
  <2> QED  BY <2>1, <2>2, <2>3, <1>14 DEF Heads
<1>16. LastHead(q) = f
  <2>1. Heads(q) \in SUBSET Int /\ f \in Heads(q) /\ \A y \in Heads(q) : f >= y
    BY <1>10, <1>12, <1>15
  <2> QED  BY <2>1, MaxIs DEF LastHead
<1>17. Message(f, q) /\ f <= q
  BY <1>9, <1>11
<1> QED
  BY <1>4, <1>5, <1>7, <1>10, <1>14, <1>16, <1>17 DEF q

\* No message that is kept and all acknowledged is passed over.
LEMMA NonePassedOver ==
    ASSUME MessagesInv, NEW f, NEW l, Message(f, l), blocks[f].msg \notin expired, ~IsRead(blocks[f].msg),
           l < msgRecv.acked
    PROVE  l \in MessageEnds
<1>1. Written
  BY DEF MessagesInv
<1>2. /\ NewStart \in Nat /\ msgRecv.acked \in Nat /\ msgRecv.max \in Int /\ msgRecv.max >= -1
  BY NewStartIs DEF MessagesInv, ReceiverInStep
<1>3. f \in Nat /\ l \in Nat /\ f <= l /\ f \in f .. l /\ l \in f .. l
  BY <1>1, MessagePositions
<1>4. /\ \A q \in f .. l : q < msgRecv.acked => Fresh(q) /\ units[q].block = blocks[q]
      /\ NewStart <= f
  BY KeptIsFresh
<1>5. \A q \in f .. l : Fresh(q) /\ units[q].block = blocks[q]
  BY <1>2, <1>3, <1>4
<1>6. blocks[f].first /\ blocks[l].last
  BY <1>3 DEF Message
<1>7. f \in Heads(l)
  <2>1. f \in NewStart .. l
    BY <1>2, <1>3, <1>4
  <2> QED  BY <2>1, <1>3, <1>5, <1>6 DEF Heads
<1>8. l \in NewStart .. msgRecv.acked + msgRecv.max
  BY <1>2, <1>3, <1>4
<1> QED
  BY <1>3, <1>5, <1>6, <1>7, <1>8 DEF MessageEnds, Readable

\* Of two messages, one ends before the other begins.
LEMMA Apart ==
    ASSUME Written, NEW f, NEW l, NEW g, NEW k, Message(f, l), Message(g, k), blocks[f].msg # blocks[g].msg
    PROVE  l < g \/ k < f
<1>1. f \in Nat /\ l \in Nat /\ f <= l /\ g \in Nat /\ k \in Nat /\ g <= k /\ g \in DOMAIN blocks /\ f \in DOMAIN blocks
  BY MessagePositions DEF Message
<1>2. ~(f <= g /\ g <= l) /\ ~(g <= f /\ f <= k)
  BY <1>1 DEF Message
<1> QED
  BY <1>1, <1>2

\* recvmsg finds no message.
LEMMA RecvNothingKeeps ==
    ASSUME MessagesInv, RecvMsg, MessageEnds = {}
    PROVE  MessagesInv'
<1>1. /\ Written /\ SenderInStep /\ ReceiverInStep /\ ExpiredLate /\ WireTells /\ UnitsHold /\ Present
      /\ Reads /\ KeptAhead /\ ReadOnce /\ InOrderWaits
  BY DEF MessagesInv
<1> DEFINE S == NewStart
<1>2. /\ units' = Without(msgRecv.start .. S - 1) /\ msgRecv' = [msgRecv EXCEPT !.start = S]
      /\ UNCHANGED <<blocks, msgSender, expired, msgWire, readMsgs>>
  BY DEF RecvMsg
<1>3. S \in Nat \ {0} /\ msgRecv.start <= S /\ S <= msgRecv.acked /\ msgRecv.start \in Nat
  BY <1>1, NewStartIs DEF ReceiverInStep
<1>4. \A f, l : Message(f, l) /\ blocks[f].msg \notin expired /\ ~IsRead(blocks[f].msg) => S <= f
  BY KeptIsFresh
<1> HIDE DEF S
<1>5. /\ msgRecv \in [start : Nat \ {0}, acked : Nat \ {0}, next : Nat \ {0}, max : Int, lost : SUBSET Nat]
      /\ msgRecv.next \in Nat
  BY <1>1 DEF ReceiverInStep
<1>6. msgRecv' = [start |-> S, acked |-> msgRecv.acked, next |-> msgRecv.next, max |-> msgRecv.max, lost |-> msgRecv.lost]
  BY <1>2, <1>5
<1>7. /\ msgRecv'.start = S /\ msgRecv'.acked = msgRecv.acked /\ msgRecv'.next = msgRecv.next
      /\ msgRecv'.max = msgRecv.max /\ msgRecv'.lost = msgRecv.lost
  BY <1>6
<1>8. Written' /\ MsgNos' = MsgNos /\ SenderInStep' /\ \A g, k : Message(g, k)' <=> Message(g, k)
  BY <1>1, <1>2, SameMessages DEF SenderInStep
<1>9. ReceiverInStep'
  <2>1. msgRecv' \in [start : Nat \ {0}, acked : Nat \ {0}, next : Nat \ {0}, max : Int, lost : SUBSET Nat]
    BY <1>3, <1>5, <1>6
  <2> QED  BY <2>1, <1>1, <1>2, <1>3, <1>7 DEF ReceiverInStep
<1>10. ExpiredLate'
  BY <1>1, <1>2, <1>7, <1>8 DEF ExpiredLate
<1>11. WireTells'
  <2>1. expired \subseteq expired' /\ msgSender'.next >= msgSender.next
    BY <1>1, <1>2 DEF SenderInStep
  <2> QED  BY <2>1, <1>1, <1>2, <1>8, WireKept DEF WireTells
<1>12. /\ DOMAIN units' = DOMAIN units \ (msgRecv.start .. S - 1)
       /\ \A r \in DOMAIN units' : r \in DOMAIN units /\ units'[r] = units[r]
  BY <1>2 DEF Without
<1>13. \A m : IsRead(m)' <=> IsRead(m)
  BY <1>2 DEF IsRead
<1>14. UnitsHold'
  BY <1>1, <1>2, <1>7, <1>12, <1>13 DEF UnitsHold
<1>15. \A r \in Nat : r >= S /\ r \in DOMAIN units => r \in DOMAIN units' /\ units'[r] = units[r]
  BY <1>3, <1>12
<1>16. Present'
  <2> SUFFICES ASSUME NEW r \in S .. msgRecv.next - 1
               PROVE  r \in msgRecv.lost \/ blocks[r].msg \in expired \/ r \in DOMAIN units'
    BY <1>2, <1>7 DEF Present, Taken
  <2>1. r \in msgRecv.start .. msgRecv.next - 1 /\ r \in Nat /\ r >= S
    BY <1>3, <1>5
  <2> QED  BY <2>1, <1>1, <1>15 DEF Present, Taken
<1>17. Reads'
  <2>1. ASSUME NEW i, NEW f \in DOMAIN blocks, NEW l \in DOMAIN blocks, ReadOf(i, f, l) PROVE ReadOf(i, f, l)'
    <3>1. Message(f, l) /\ l < msgRecv.next /\ readMsgs[i] = SubSeq(blocks, f, l)
          /\ (f < msgRecv.start \/ \A p \in f .. l : Taken(p) /\ ~Fresh(p))
      BY <2>1 DEF ReadOf
    <3>2. f \in Nat /\ l \in Nat
      BY <3>1, <1>1, MessagePositions
    <3>3. f < S \/ \A p \in f .. l : Taken(p)' /\ ~Fresh(p)'
      <4>1. CASE f < S
        BY <4>1
      <4>2. CASE ~(f < S)
        <5>1. \A p \in f .. l : Taken(p) /\ ~Fresh(p)
          BY <3>1, <3>2, <4>2, <1>3
        <5>2. \A p \in f .. l : p \in Nat /\ p >= S
          BY <3>2, <4>2, <1>3
        <5> QED  BY <5>1, <5>2, <1>15 DEF Taken, Fresh
      <4> QED  BY <4>1, <4>2
    <3> QED  BY <3>1, <3>3, <1>2, <1>7, <1>8 DEF ReadOf
  <2> QED  BY <2>1, <1>1, <1>2 DEF Reads
<1>18. ReadOnce' /\ InOrderWaits'
  BY <1>1, <1>2 DEF ReadOnce, InOrderWaits
<1>19. KeptAhead'
  BY <1>2, <1>4, <1>7, <1>8, <1>13 DEF KeptAhead
<1> QED
  BY <1>8, <1>9, <1>10, <1>11, <1>14, <1>16, <1>17, <1>18, <1>19 DEF MessagesInv

\* recvmsg returns a message.
LEMMA RecvMessageKeeps ==
    ASSUME MessagesInv, RecvMsg, MessageEnds # {}
    PROVE  MessagesInv'
<1>1. /\ Written /\ SenderInStep /\ ReceiverInStep /\ ExpiredLate /\ WireTells /\ UnitsHold /\ Present
      /\ Reads /\ KeptAhead /\ ReadOnce /\ InOrderWaits
  BY DEF MessagesInv
<1>2. PICK f, q \in Nat :
               /\ q = Min(MessageEnds) /\ f = LastHead(q) /\ Message(f, q)
               /\ NewStart <= f /\ f <= q /\ q < msgRecv.next
               /\ \A r \in f .. q : Fresh(r)
               /\ Readable(q)
               /\ \A k \in MessageEnds : q <= k
  BY ScanFinds
<1> DEFINE mine == [i \in 1 .. q - f + 1 |-> units[f + i - 1].block]
<1>3. PICK S : S = NewStart
  OBVIOUS
<1>4. /\ readMsgs' = Append(readMsgs, mine)
      /\ IF q < msgRecv.acked
         THEN /\ units' = Without((msgRecv.start .. S - 1) \cup (f .. q))
              /\ msgRecv' = [msgRecv EXCEPT !.start = q + 1]
         ELSE /\ units' = [r \in DOMAIN units \ (msgRecv.start .. S - 1) |->
                              IF r \in f .. q THEN [units[r] EXCEPT !.flag = 2] ELSE units[r]]
              /\ msgRecv' = [msgRecv EXCEPT !.start = S]
      /\ UNCHANGED <<blocks, msgSender, expired, msgWire>>
  BY <1>2, <1>3 DEF RecvMsg
<1>5. /\ S \in Nat \ {0} /\ msgRecv.start <= S /\ S <= msgRecv.acked /\ msgRecv.start \in Nat
      /\ S <= f /\ f \in Nat /\ q \in Nat /\ f <= q
  BY <1>1, <1>2, <1>3, NewStartIs DEF ReceiverInStep
<1>6. /\ msgRecv \in [start : Nat \ {0}, acked : Nat \ {0}, next : Nat \ {0}, max : Int, lost : SUBSET Nat]
      /\ msgRecv.acked <= msgRecv.next
  BY <1>1 DEF ReceiverInStep
<1>7. \A g, k : Message(g, k) /\ blocks[g].msg \notin expired /\ ~IsRead(blocks[g].msg) => S <= g
  BY <1>3, KeptIsFresh
<1>30. PICK m : m = blocks[f].msg
  OBVIOUS
<1>8. ~IsRead(m)
  <2> SUFFICES ASSUME NEW i \in DOMAIN readMsgs, readMsgs[i][1].msg = m PROVE FALSE
    BY DEF IsRead
  <2>1. PICK g, k \in DOMAIN blocks : ReadOf(i, g, k)
    BY <1>1 DEF Reads
  <2>2. readMsgs[i][1] = blocks[g]
    BY <2>1, <1>1, ReadIs
  <2>3. Message(g, k)
    BY <2>1 DEF ReadOf
  <2>4. g = f /\ k = q
    BY <2>2, <2>3, <1>1, <1>2, <1>30, MessageIsOne
  <2>5. f < msgRecv.start \/ ~Fresh(f)
    <3>1. f \in f .. q
      BY <1>5
    <3> QED  BY <3>1, <2>1, <2>4 DEF ReadOf
  <2>6. Fresh(f)
    <3>1. f \in f .. q
      BY <1>5
    <3> QED  BY <3>1, <1>2
  <2> QED  BY <2>5, <2>6, <1>5
\* What is kept and was written before m is not all acknowledged.
<1>9. ASSUME NEW g, NEW k, Message(g, k), blocks[g].msg \notin expired, ~IsRead(blocks[g].msg),
             k < q, q < msgRecv.acked
      PROVE  FALSE
  <2>1. k \in Nat
    BY <1>1, <1>9, MessagePositions
  <2>2. k < msgRecv.acked
    BY <2>1, <1>5, <1>6, <1>9
  <2>3. k \in MessageEnds
    BY <2>2, <1>9, NonePassedOver
  <2> QED  BY <2>3, <2>1, <1>2, <1>5, <1>9
<1>10. /\ readMsgs \in Seq(Seq(MsgBlock)) /\ Len(readMsgs) \in Nat /\ DOMAIN readMsgs = 1 .. Len(readMsgs)
  <2>1. readMsgs \in Seq(Seq(MsgBlock))
    BY <1>1 DEF Reads
  <2> QED  BY <2>1
<1>11. /\ mine = SubSeq(blocks, f, q) /\ SubSeq(blocks, f, q) \in Seq(MsgBlock)
       /\ SubSeq(blocks, f, q)[1] = blocks[f]
  <2>1. /\ \A b \in f .. q : b \in DOMAIN blocks /\ blocks[b] \in MsgBlock
    <3>1. \A b \in f .. q : b \in DOMAIN blocks
      BY <1>1, <1>2, MessagePositions
    <3>2. blocks \in Seq(MsgBlock)
      BY <1>1 DEF Written
    <3> QED  BY <3>1, <3>2
  <2>2. f \in Int /\ q \in Int
    BY <1>5
  <2>3. /\ SubSeq(blocks, f, q) \in Seq(MsgBlock)
        /\ Len(SubSeq(blocks, f, q)) = IF f <= q THEN q - f + 1 ELSE 0
        /\ \A i \in 1 .. q - f + 1 : SubSeq(blocks, f, q)[i] = blocks[f + i - 1]
    BY ONLY <2>1, <2>2, SubSeqProperties
  <2>4. \A i \in 1 .. q - f + 1 : f + i - 1 \in f .. q
    BY <1>5
  <2>5. \A i \in 1 .. q - f + 1 : units[f + i - 1].block = blocks[f + i - 1]
    BY <2>4, <1>1, <1>2 DEF Fresh, Taken, UnitsHold
  <2> DEFINE w == SubSeq(blocks, f, q)
  <2>6. \A i \in 1 .. q - f + 1 : w[i] = units[f + i - 1].block
    BY <2>3, <2>5
  <2>7. w \in Seq(MsgBlock) /\ Len(w) = q - f + 1 /\ q - f + 1 \in Nat
    BY <2>3, <1>5
  <2>8. w[1] = blocks[f]
    <3>1. 1 \in 1 .. q - f + 1 /\ f + 1 - 1 = f
      BY <1>5
    <3> QED  BY <3>1, <2>3
  <2> HIDE DEF w
  <2>9. w = [i \in 1 .. q - f + 1 |-> w[i]]
    BY <2>7
  <2>10. w = mine
    BY <2>6, <2>9
  <2> QED  BY <2>7, <2>8, <2>10 DEF w
<1> HIDE DEF mine
<1>31. PICK n : n = Len(readMsgs)
  OBVIOUS
<1>12. /\ readMsgs' \in Seq(Seq(MsgBlock)) /\ DOMAIN readMsgs' = 1 .. n + 1
       /\ \A i \in 1 .. n : readMsgs'[i] = readMsgs[i]
       /\ readMsgs'[n + 1] = SubSeq(blocks, f, q) /\ readMsgs'[n + 1][1] = blocks[f]
  <2>1. mine \in Seq(MsgBlock)
    BY <1>11
  <2>2. /\ Append(readMsgs, mine) \in Seq(Seq(MsgBlock)) /\ Len(Append(readMsgs, mine)) = n + 1
        /\ \A i \in 1 .. n : Append(readMsgs, mine)[i] = readMsgs[i]
        /\ Append(readMsgs, mine)[n + 1] = mine
    BY <2>1, <1>10, <1>31, AppendProperties
  <2>3. /\ readMsgs' \in Seq(Seq(MsgBlock)) /\ Len(readMsgs') = n + 1
        /\ \A i \in 1 .. n : readMsgs'[i] = readMsgs[i]
        /\ readMsgs'[n + 1] = mine
    BY <2>2, <1>4
  <2>4. DOMAIN readMsgs' = 1 .. n + 1
    BY <2>3
  <2> QED  BY <2>3, <2>4, <1>11
<1>13. n \in Nat /\ DOMAIN readMsgs = 1 .. n
  BY <1>10, <1>31
<1>14. \A i \in 1 .. n + 1 : i \in 1 .. n \/ i = n + 1
  BY <1>13
<1>15. \A i \in 1 .. n : i \in 1 .. n + 1
  BY <1>13
<1>16. n + 1 \in 1 .. n + 1
  BY <1>13
<1>17. \A x : IsRead(x)' <=> IsRead(x) \/ x = m
  <2>1. \A x : IsRead(x) => IsRead(x)'
    BY <1>12, <1>13, <1>15 DEF IsRead
  <2>2. IsRead(m)'
    <3>1. n + 1 \in DOMAIN readMsgs' /\ readMsgs'[n + 1][1].msg = m
      BY <1>12, <1>16, <1>30
    <3> QED  BY <3>1 DEF IsRead
  <2>3. ASSUME NEW x, IsRead(x)', x # m PROVE IsRead(x)
    <3>1. PICK i \in 1 .. n + 1 : readMsgs'[i][1].msg = x
      BY <2>3, <1>12 DEF IsRead
    <3>2. i \in 1 .. n
      BY <3>1, <2>3, <1>12, <1>14, <1>30
    <3> QED  BY <3>1, <3>2, <1>12, <1>13 DEF IsRead
  <2> QED  BY <2>1, <2>2, <2>3
<1>18. ReadOnce'
  <2> SUFFICES ASSUME NEW i \in 1 .. n + 1, NEW j \in 1 .. n + 1, readMsgs'[i][1].msg = readMsgs'[j][1].msg
               PROVE  i = j
    BY <1>12 DEF ReadOnce
  <2>1. CASE i \in 1 .. n /\ j \in 1 .. n
    BY <2>1, <1>1, <1>12, <1>13 DEF ReadOnce
  <2>2. ASSUME NEW k \in 1 .. n, readMsgs'[k][1].msg = readMsgs'[n + 1][1].msg PROVE FALSE
    BY <2>2, <1>8, <1>12, <1>13, <1>30 DEF IsRead
  <2> QED  BY <2>1, <2>2, <1>14
<1>19. InOrderWaits'
  <2> SUFFICES ASSUME NEW i \in 1 .. n + 1, readMsgs'[i][1].order, NEW x \in 1 .. readMsgs'[i][1].msg - 1,
                      x \notin expired
               PROVE  \E j \in 1 .. i - 1 : readMsgs'[j][1].msg = x
    <3>1. expired' = expired
      BY <1>4
    <3>2. DOMAIN readMsgs' = 1 .. n + 1
      BY <1>12
    <3> QED  BY <3>1, <3>2 DEF InOrderWaits
  <2>1. CASE i \in 1 .. n
    <3>1. readMsgs[i][1].order /\ x \in 1 .. readMsgs[i][1].msg - 1
      BY <2>1, <1>12
    <3>2. PICK j \in 1 .. i - 1 : readMsgs[j][1].msg = x
      BY <3>1, <2>1, <1>1, <1>13 DEF InOrderWaits
    <3>3. j \in 1 .. n
      BY <2>1, <1>13
    <3> QED  BY <3>2, <3>3, <1>12
  <2>2. CASE i = n + 1
    <3>1. blocks[f].order /\ x \in 1 .. m - 1 /\ f \in DOMAIN blocks /\ q \in DOMAIN blocks
      BY <2>2, <1>2, <1>12, <1>30 DEF Message
    <3>2. q < msgRecv.acked
      <4>1. q \in f .. q
        BY <1>5
      <4>2. units[q].block = blocks[q] /\ blocks[q].order = blocks[f].order
        BY <4>1, <1>1, <1>2 DEF Fresh, Taken, UnitsHold, Message
      <4> QED  BY <4>2, <3>1, <1>2 DEF Readable
    <3>3. m \in Nat /\ x \in 1 .. m /\ x < m
      <4>1. blocks[f] \in MsgBlock
        BY <3>1, <1>1 DEF Written
      <4>2. m \in Nat
        BY <4>1, <1>30 DEF MsgBlock
      <4> QED  BY <4>2, <3>1
    <3>4. x \in MsgNos
      BY <3>1, <3>3, <1>1, <1>30 DEF Written
    <3>5. PICK g, k \in DOMAIN blocks : Message(g, k) /\ blocks[g].msg = x
      BY <3>4, <1>1, MessageNumber
    <3>6. k < f
      <4>1. k < f \/ q < g
        BY <3>3, <3>5, <1>1, <1>2, Apart, <1>30
      <4>2. ASSUME q < g PROVE FALSE
        <5>1. f < g
          <6>1. g \in Nat
            BY <3>5, <1>1, MessagePositions
          <6> QED  BY <6>1, <4>2, <1>5
        <5>2. m <= x
          BY <5>1, <3>1, <3>5, <1>1, <1>30 DEF Written
        <5> QED  BY <5>2, <3>3
      <4> QED  BY <4>1, <4>2
    <3>7. k < q
      <4>1. k \in Nat
        BY <3>5, <1>1, MessagePositions
      <4> QED  BY <4>1, <3>6, <1>5
    <3>8. IsRead(x)
      BY <3>2, <3>5, <3>7, <1>9
    <3>9. PICK j \in 1 .. n : readMsgs[j][1].msg = x
      BY <3>8, <1>13 DEF IsRead
    <3>10. j \in 1 .. i - 1
      BY <2>2, <1>13
    <3> QED  BY <3>9, <3>10, <1>12
  <2> QED  BY <2>1, <2>2, <1>14
\* Where the start goes, and what becomes of the units from there on.
<1>20. PICK s1 \in Nat \ {0} :
           /\ msgRecv' = [start |-> s1, acked |-> msgRecv.acked, next |-> msgRecv.next,
                          max |-> msgRecv.max, lost |-> msgRecv.lost]
           /\ S <= s1 /\ s1 <= msgRecv.acked
           /\ DOMAIN units' \subseteq DOMAIN units
           /\ \A r \in DOMAIN units' : \/ units'[r] = units[r]
                                       \/ r \in f .. q /\ units'[r] = [units[r] EXCEPT !.flag = 2]
           /\ \A r \in Nat : r >= s1 /\ r \in DOMAIN units => r \in DOMAIN units'
           /\ f < s1 \/ \A r \in f .. q : r \in DOMAIN units' /\ units'[r] = [units[r] EXCEPT !.flag = 2]
           /\ s1 = S \/ (s1 = q + 1 /\ q < msgRecv.acked)
  <2>1. CASE q < msgRecv.acked
    <3>1. units' = Without((msgRecv.start .. S - 1) \cup (f .. q)) /\ msgRecv' = [msgRecv EXCEPT !.start = q + 1]
      BY <2>1, <1>4
    <3>2. msgRecv' = [start |-> q + 1, acked |-> msgRecv.acked, next |-> msgRecv.next,
                      max |-> msgRecv.max, lost |-> msgRecv.lost]
      BY <3>1, <1>6
    <3>3. /\ DOMAIN units' = DOMAIN units \ ((msgRecv.start .. S - 1) \cup (f .. q))
          /\ \A r \in DOMAIN units' : units'[r] = units[r]
      BY <3>1 DEF Without
    <3>4. q + 1 \in Nat \ {0} /\ S <= q + 1 /\ q + 1 <= msgRecv.acked /\ f < q + 1
      BY <2>1, <1>5, <1>6
    <3>5. \A r \in Nat : r >= q + 1 => r \notin (msgRecv.start .. S - 1) \cup (f .. q)
      BY <1>5
    <3> QED  BY <2>1, <3>2, <3>3, <3>4, <3>5
  <2>2. CASE ~(q < msgRecv.acked)
    <3>1. /\ units' = [r \in DOMAIN units \ (msgRecv.start .. S - 1) |->
                              IF r \in f .. q THEN [units[r] EXCEPT !.flag = 2] ELSE units[r]]
          /\ msgRecv' = [msgRecv EXCEPT !.start = S]
      BY <2>2, <1>4
    <3>2. msgRecv' = [start |-> S, acked |-> msgRecv.acked, next |-> msgRecv.next,
                      max |-> msgRecv.max, lost |-> msgRecv.lost]
      BY <3>1, <1>6
    <3>3. /\ DOMAIN units' = DOMAIN units \ (msgRecv.start .. S - 1)
          /\ \A r \in DOMAIN units' : r \in f .. q => units'[r] = [units[r] EXCEPT !.flag = 2]
          /\ \A r \in DOMAIN units' : r \notin f .. q => units'[r] = units[r]
      BY <3>1
    <3>4. \A r \in Nat : r >= S => r \notin msgRecv.start .. S - 1
      BY <1>5
    <3>5. \A r \in f .. q : r \in Nat /\ r >= S /\ r \in DOMAIN units
      <4>1. \A r \in f .. q : r \in Nat /\ r >= S
        BY <1>5
      <4> QED  BY <4>1, <1>2 DEF Fresh, Taken
    <3>6. \A r \in f .. q : r \in DOMAIN units'
      BY <3>3, <3>4, <3>5
    <3> QED  BY <1>5, <3>2, <3>3, <3>4, <3>6
  <2> QED  BY <2>1, <2>2
<1>21. /\ msgRecv'.start = s1 /\ msgRecv'.acked = msgRecv.acked /\ msgRecv'.next = msgRecv.next
       /\ msgRecv'.max = msgRecv.max /\ msgRecv'.lost = msgRecv.lost
  BY <1>20
<1>22. Written' /\ MsgNos' = MsgNos /\ SenderInStep' /\ \A g, k : Message(g, k)' <=> Message(g, k)
  BY <1>1, <1>4, SameMessages DEF SenderInStep
<1>23. ReceiverInStep'
  <2>1. msgRecv' \in [start : Nat \ {0}, acked : Nat \ {0}, next : Nat \ {0}, max : Int, lost : SUBSET Nat]
    BY <1>6, <1>20
  <2> QED  BY <2>1, <1>1, <1>4, <1>20, <1>21 DEF ReceiverInStep
<1>24. ExpiredLate'
  BY <1>1, <1>4, <1>21, <1>22 DEF ExpiredLate
<1>25. WireTells'
  <2>1. expired \subseteq expired' /\ msgSender'.next >= msgSender.next
    BY <1>1, <1>4 DEF SenderInStep
  <2> QED  BY <2>1, <1>1, <1>4, <1>22, WireKept DEF WireTells
<1>26. UnitsHold'
  <2>1. ASSUME NEW r \in DOMAIN units'
        PROVE  /\ DOMAIN units'[r] = {"flag", "block"}
               /\ units'[r].block = blocks[r] /\ units'[r].flag \in {1, 2, 3}
               /\ units'[r].flag = 2 => IsRead(blocks[r].msg)'
               /\ units'[r].flag = 3 => blocks[r].msg \in expired
    <3>1. /\ DOMAIN units[r] = {"flag", "block"}
          /\ units[r].block = blocks[r] /\ units[r].flag \in {1, 2, 3}
          /\ units[r].flag = 2 => IsRead(blocks[r].msg)
          /\ units[r].flag = 3 => blocks[r].msg \in expired
      BY <1>1, <1>20 DEF UnitsHold
    <3>2. blocks' = blocks
      BY <1>4
    <3>3. \A x : IsRead(blocks[r].msg)' <=> IsRead(blocks[r].msg) \/ blocks[r].msg = m
      <4>1. PICK y : y = blocks[r].msg
        OBVIOUS
      <4>2. IsRead(y)' <=> IsRead(y) \/ y = m
        BY <1>17
      <4>3. y = blocks'[r].msg
        BY <4>1, <3>2
      <4> QED  BY <4>1, <4>2, <4>3 DEF IsRead
    <3>4. CASE units'[r] = units[r]
      BY <3>1, <3>3, <3>4
    <3>5. CASE r \in f .. q /\ units'[r] = [units[r] EXCEPT !.flag = 2]
      <4>1. blocks[r].msg = m
        BY <3>5, <1>1, <1>2, MessagePositions, <1>30
      <4>2. DOMAIN units'[r] = {"flag", "block"} /\ units'[r].block = units[r].block /\ units'[r].flag = 2
        BY <3>1, <3>5
      <4> QED  BY <4>1, <4>2, <3>1, <3>3
    <3> QED  BY <3>4, <3>5, <1>20
  <2>2. DOMAIN units' \subseteq 1 .. msgRecv'.next - 1
    BY <1>1, <1>20, <1>21 DEF UnitsHold
  <2>3. blocks' = blocks /\ expired' = expired
    BY <1>4
  <2> QED  BY <2>1, <2>2, <2>3 DEF UnitsHold
<1>27. Present'
  <2> SUFFICES ASSUME NEW r \in s1 .. msgRecv.next - 1
               PROVE  r \in msgRecv.lost \/ blocks[r].msg \in expired \/ r \in DOMAIN units'
    BY <1>4, <1>21 DEF Present, Taken
  <2>1. r \in msgRecv.start .. msgRecv.next - 1 /\ r \in Nat /\ r >= s1
    BY <1>5, <1>6, <1>20
  <2> QED  BY <2>1, <1>1, <1>20 DEF Present, Taken
<1>28. Reads'
  <2>1. ASSUME NEW i \in 1 .. n, NEW g \in DOMAIN blocks, NEW k \in DOMAIN blocks, ReadOf(i, g, k)
        PROVE  ReadOf(i, g, k)'
    <3>1. /\ Message(g, k) /\ k < msgRecv.next /\ readMsgs[i] = SubSeq(blocks, g, k)
          /\ g < msgRecv.start \/ \A p \in g .. k : Taken(p) /\ ~Fresh(p)
      BY <2>1 DEF ReadOf
    <3>2. g \in Nat /\ k \in Nat
      BY <3>1, <1>1, MessagePositions
    <3>3. g < s1 \/ \A p \in g .. k : Taken(p)' /\ ~Fresh(p)'
      <4> SUFFICES ASSUME ~(g < s1), NEW p \in g .. k PROVE Taken(p)' /\ ~Fresh(p)'
        OBVIOUS
      <4>1. Taken(p) /\ ~Fresh(p)
        BY <3>1, <3>2, <1>5, <1>20
      <4>2. p \in Nat /\ p >= s1
        BY <3>2, <1>20
      <4>3. p \in DOMAIN units'
        BY <4>1, <4>2, <1>20 DEF Taken
      <4>4. units[p].flag # 1 /\ DOMAIN units[p] = {"flag", "block"}
        BY <4>1, <1>1 DEF Fresh, Taken, UnitsHold
      <4>5. units'[p].flag # 1
        BY <4>3, <4>4, <1>20
      <4> QED  BY <4>3, <4>5 DEF Taken, Fresh
    <3>4. readMsgs'[i] = SubSeq(blocks', g, k)
      BY <3>1, <1>4, <1>12
    <3> QED  BY <3>1, <3>3, <3>4, <1>21, <1>22 DEF ReadOf
  <2>2. ReadOf(n + 1, f, q)'
    <3>1. f < s1 \/ \A p \in f .. q : Taken(p)' /\ ~Fresh(p)'
      <4> SUFFICES ASSUME ~(f < s1), NEW p \in f .. q PROVE Taken(p)' /\ ~Fresh(p)'
        OBVIOUS
      <4>1. p \in DOMAIN units' /\ units'[p] = [units[p] EXCEPT !.flag = 2] /\ p \in DOMAIN units
        BY <1>20
      <4>2. DOMAIN units[p] = {"flag", "block"}
        BY <4>1, <1>1 DEF UnitsHold
      <4>3. units'[p].flag = 2
        BY <4>1, <4>2
      <4> QED  BY <4>1, <4>3 DEF Taken, Fresh
    <3>2. PICK n1 : n1 = n + 1
      OBVIOUS
    <3>3. readMsgs'[n1] = SubSeq(blocks', f, q)
      BY <3>2, <1>4, <1>12
    <3>4. ReadOf(n1, f, q)'
      BY <3>1, <3>3, <1>2, <1>21, <1>22 DEF ReadOf
    <3> QED  BY <3>2, <3>4
  <2>3. ASSUME NEW i \in 1 .. n PROVE \E g, k \in DOMAIN blocks : ReadOf(i, g, k)'
    <3>1. PICK g, k \in DOMAIN blocks : ReadOf(i, g, k)
      BY <1>1, <1>13 DEF Reads
    <3> QED  BY <3>1, <2>1
  <2>4. f \in DOMAIN blocks /\ q \in DOMAIN blocks
    BY <1>2 DEF Message
  <2>5. blocks' = blocks
    BY <1>4
  <2>6. ASSUME NEW i \in 1 .. n + 1 PROVE \E g, k \in DOMAIN blocks : ReadOf(i, g, k)'
    BY <2>2, <2>3, <2>4, <1>14
  <2>7. DOMAIN readMsgs' = 1 .. n + 1 /\ readMsgs' \in Seq(Seq(MsgBlock))
    BY <1>12
  <2> QED  BY <2>5, <2>6, <2>7 DEF Reads
<1>29. KeptAhead'
  <2> SUFFICES ASSUME NEW g \in DOMAIN blocks, NEW k \in DOMAIN blocks, Message(g, k),
                      blocks[g].msg \notin expired, ~IsRead(blocks[g].msg), blocks[g].msg # m
               PROVE  s1 <= g
    <3>1. blocks' = blocks /\ expired' = expired
      BY <1>4
    <3>2. \A g \in DOMAIN blocks : IsRead(blocks[g].msg)' <=> IsRead(blocks[g].msg) \/ blocks[g].msg = m
      <4> TAKE g \in DOMAIN blocks
      <4>1. PICK y : y = blocks[g].msg
        OBVIOUS
      <4>2. IsRead(y)' <=> IsRead(y) \/ y = m
        BY <1>17
      <4>3. y = blocks'[g].msg
        BY <4>1, <3>1
      <4> QED  BY <4>1, <4>2, <4>3 DEF IsRead
    <3> QED  BY <3>1, <3>2, <1>21, <1>22 DEF KeptAhead
  <2>1. S <= g
    BY <1>7
  <2>2. CASE s1 = S
    BY <2>1, <2>2
  <2>3. CASE s1 = q + 1 /\ q < msgRecv.acked
    <3>1. k < f \/ q < g
      BY <1>1, <1>2, Apart, <1>30
    <3>2. g \in Nat /\ k \in Nat
      BY <1>1, MessagePositions
    <3>3. ASSUME k < f PROVE FALSE
      <4>1. k < q
        BY <3>2, <3>3, <1>5
      <4> QED  BY <4>1, <2>3, <1>9
    <3> QED  BY <3>1, <3>2, <3>3, <2>3, <1>5
  <2> QED  BY <2>2, <2>3, <1>20
<1> QED
  BY <1>18, <1>19, <1>22, <1>23, <1>24, <1>25, <1>26, <1>27, <1>28, <1>29 DEF MessagesInv

\* Only what was sent with a time to live may expire.
TtlAsSent == \A b \in DOMAIN blocks : blocks[b].ttl => "ttl" \in MsgKinds

\* The time to live of a packet is that of its message.
LEMMA TtlAsSentKept ==
    ASSUME Written, TtlAsSent, [MsgNext]_msgVars
    PROVE  TtlAsSent'
<1>1. ASSUME NEW len \in 1 .. MaxMsgLen, NEW kind \in MsgKinds, SendMsg(len, kind) PROVE TtlAsSent'
  <2> DEFINE m == IF blocks = << >> THEN 1 ELSE blocks[Len(blocks)].msg + 1
             chunk == [i \in 1 .. len |-> [msg |-> m, first |-> i = 1, last |-> i = len,
                                           ttl |-> kind = "ttl", order |-> kind = "inorder"]]
  <2>1. blocks' = blocks \o chunk
    BY <1>1 DEF SendMsg
  <2>2. blocks \in Seq(MsgBlock)
    BY DEF Written
  <2>3. len \in Nat
    BY MessagesAssumption
  <2>4. \A i \in 1 .. len : chunk[i].ttl => kind = "ttl"
    OBVIOUS
  <2>5. PICK D : D = {chunk[i] : i \in 1 .. len}
    OBVIOUS
  <2>6. chunk \in [1 .. len -> D]
    BY <2>5
  <2> HIDE DEF chunk
  <2>7. chunk \in Seq(D) /\ Len(chunk) = len
    BY ONLY <2>3, <2>6
  <2>8. PICK T : T = MsgBlock \cup D
    OBVIOUS
  <2>9. blocks \in Seq(T) /\ chunk \in Seq(T)
    BY <2>2, <2>7, <2>8
  <2>10. /\ Len(blocks \o chunk) = Len(blocks) + Len(chunk) /\ blocks \o chunk \in Seq(T)
         /\ \A i \in 1 .. Len(blocks) + Len(chunk) :
                (blocks \o chunk)[i] = IF i <= Len(blocks) THEN blocks[i] ELSE chunk[i - Len(blocks)]
    BY ONLY <2>9, ConcatProperties
  <2>11. Len(blocks) \in Nat /\ DOMAIN blocks = 1 .. Len(blocks)
    BY <2>2
  <2> SUFFICES ASSUME NEW b \in 1 .. Len(blocks) + len, blocks'[b].ttl PROVE "ttl" \in MsgKinds
    BY <2>1, <2>7, <2>10 DEF TtlAsSent
  <2>12. CASE b <= Len(blocks)
    <3>1. b \in DOMAIN blocks /\ blocks'[b] = blocks[b]
      BY <2>1, <2>7, <2>10, <2>11, <2>12
    <3> QED  BY <3>1 DEF TtlAsSent
  <2>13. CASE ~(b <= Len(blocks))
    <3>1. b - Len(blocks) \in 1 .. len
      BY <2>3, <2>11, <2>13
    <3>2. blocks'[b] = chunk[b - Len(blocks)]
      BY <2>1, <2>7, <2>10, <2>13
    <3> QED  BY <3>1, <3>2, <2>4
  <2> QED  BY <2>12, <2>13
<1>2. CASE blocks' = blocks
  BY <1>2 DEF TtlAsSent
<1> QED
  BY <1>1, <1>2 DEF MsgNext, PackNextPacket, PackLost, ReceiveData, ReceiveDrop, Expire, SenderAcked,
                    LossReported, AckTimerTurn, RecvMsg, msgVars

\* Every step keeps the invariant, when messages expire late or never.
LEMMA NextMessagesInv ==
    ASSUME MessagesInv, TtlAsSent, LateDrops \/ "ttl" \notin MsgKinds, [MsgNext]_msgVars
    PROVE  MessagesInv'
<1>1. ASSUME NEW len \in 1 .. MaxMsgLen, NEW kind \in MsgKinds, SendMsg(len, kind) PROVE MessagesInv'
  BY <1>1, SendMsgKeeps
<1>2. CASE PackNextPacket
  BY <1>2, PackNextKeeps
<1>3. CASE PackLost
  BY <1>3, PackLostKeeps
<1>4. ASSUME NEW p \in msgWire, ReceiveData(p) PROVE MessagesInv'
  BY <1>4, ReceiveDataKeeps
<1>5. ASSUME NEW p \in msgWire, ReceiveDrop(p) PROVE MessagesInv'
  BY <1>5, ReceiveDropKeeps
<1>6. ASSUME NEW m \in MsgNos, Expire(m) PROVE MessagesInv'
  <2>1. LateDrops
    BY <1>6 DEF Expire, TtlAsSent
  <2> QED  BY <2>1, <1>6, ExpireKeeps
<1>7. CASE SenderAcked
  BY <1>7, AckedKeeps
<1>8. CASE LossReported
  BY <1>8, LossReportedKeeps
<1>9. CASE AckTimerTurn
  BY <1>9, AckTimerKeeps
<1>10. CASE RecvMsg
  BY <1>10, RecvNothingKeeps, RecvMessageKeeps
<1>11. CASE UNCHANGED msgVars
  <2>1. /\ UNCHANGED <<blocks, expired, units, msgRecv, readMsgs>>
        /\ msgSender' = msgSender /\ msgWire' = msgWire
    BY <1>11 DEF msgVars
  <2>2. Written /\ SenderInStep /\ WireTells
    BY DEF MessagesInv
  <2>3. SenderInStep' /\ msgSender'.next >= msgSender.next
    BY <2>1, <2>2 DEF SenderInStep
  <2>4. \A p \in msgWire' : p \in msgWire
    BY <2>1
  <2>5. blocks' = blocks /\ expired \subseteq expired'
    BY <2>1
  <2>6. WireTells'
    BY <2>2, <2>3, <2>4, <2>5, WireKept DEF WireTells
  <2> QED  BY <2>1, <2>3, <2>6, ReceiverAside
<1> QED
  BY <1>1, <1>2, <1>3, <1>4, <1>5, <1>6, <1>7, <1>8, <1>9, <1>10, <1>11 DEF MsgNext, MsgNos

\* recvmsg returns whole messages, each once, and in-order ones in their turn, for messages of
\* any number and length and a buffer of any size, whatever the network loses and reorders,
\* when no message has a time to live or what has one expires late (see LateDrops).
THEOREM MessagesArriveWellHolds ==
    ASSUME LateDrops \/ "ttl" \notin MsgKinds
    PROVE  MsgSpec => []MessagesArriveWell
<1>1. MsgInit => MessagesInv /\ TtlAsSent
  BY InitMessagesInv DEF MsgInit, TtlAsSent
<1>2. MessagesInv /\ TtlAsSent /\ [MsgNext]_msgVars => MessagesInv' /\ TtlAsSent'
  BY NextMessagesInv, TtlAsSentKept DEF MessagesInv
<1>3. MessagesInv => MessagesArriveWell
  BY WholeIfReads DEF MessagesInv, MessagesArriveWell
<1> QED
  BY <1>1, <1>2, <1>3, PTL DEF MsgSpec

\* A message that has not expired is returned before the buffer's start passes it: the scan of
\* the buffer, which frees what it skips, never skips a packet of it.
THEOREM KeptAreReadHolds ==
    ASSUME LateDrops \/ "ttl" \notin MsgKinds
    PROVE  MsgSpec => []KeptAreRead
<1>1. MsgInit => MessagesInv /\ TtlAsSent
  BY InitMessagesInv DEF MsgInit, TtlAsSent
<1>2. MessagesInv /\ TtlAsSent /\ [MsgNext]_msgVars => MessagesInv' /\ TtlAsSent'
  BY NextMessagesInv, TtlAsSentKept DEF MessagesInv
<1>3. MessagesInv => KeptAreRead
  <2> SUFFICES ASSUME MessagesInv, NEW m \in MsgNos, m \notin expired, ~IsRead(m)
               PROVE  \E b \in DOMAIN blocks : blocks[b].msg = m /\ b >= msgRecv.start
    BY DEF KeptAreRead
  <2>1. Written /\ KeptAhead /\ ReceiverInStep
    BY DEF MessagesInv
  <2>2. PICK f, l \in DOMAIN blocks : Message(f, l) /\ blocks[f].msg = m
    BY <2>1, MessageNumber
  <2>3. msgRecv.start <= f
    BY <2>1, <2>2 DEF KeptAhead
  <2>4. f \in Nat /\ msgRecv.start \in Nat
    BY <2>1, <2>2, MessagePositions DEF ReceiverInStep
  <2> QED  BY <2>2, <2>3, <2>4
<1> QED
  BY <1>1, <1>2, <1>3, PTL DEF MsgSpec
=============================================================================
