------------------------- MODULE UdtfsSessionProofs -------------------------
(***************************************************************************)
(* Proofs about UdtfsSession, for any number of threads and calls and with *)
(* the server child gone at any moment, when a call that changes files     *)
(* runs alone and no name is longer than the server's buffers: requests    *)
(* reach the server whole, and answers the calls that asked.               *)
(***************************************************************************)
EXTENDS UdtfsSession, SequenceTheorems, TLAPS

Strings == [call : Nat, text : Commands \cup {"arg"}]

Answers == [call : Nat, text : {"TERM", "attr", "entry"}]

Shapes ==
    /\ pc \in [Threads -> {"idle", "tcp", "send", "udt", "recv", "data"}]
    /\ op \in [Threads -> Commands \cup {"none"}]
    /\ call \in [Threads -> Nat] /\ calls \in Nat
    /\ sent \in [Threads -> Nat] /\ got \in [Threads -> Seq(Nat)]
    /\ c2s \in Seq(Strings) /\ s2c \in Seq(Answers) /\ udt \in Seq(Nat)
    /\ salive \in BOOLEAN /\ sop \in Commands \cup {"none"} /\ sfrom \in Nat
    /\ sargs \in Seq(Strings)

-----------------------------------------------------------------------------
(* The stream of strings: what the server child has read of the request it *)
(* is reading, and then what is on the connection.                         *)

Taken == IF sop = "none" THEN 0 ELSE 1 + Len(sargs)

StreamLen == Taken + Len(c2s)

At(i) ==
    IF i > Taken THEN c2s[i - Taken]
    ELSE IF i = 1 THEN [call |-> sfrom, text |-> sop] ELSE sargs[i - 1]

Stream == 1 .. StreamLen

IsCommand(i) == At(i).text \in Commands

\* The last string of the request that begins at i.
End(i) == i + Args[At(i).text]

\* Part of t's request is out.
Sending(t) == pc[t] \in {"send", "udt"} /\ sent[t] > 0

Request(t) == [call |-> call[t], text |-> op[t]]

ServerPlace ==
    /\ sop = "none" => sargs = << >>
    /\ sop # "none" => Len(sargs) <= Args[sop]

\* One request follows the other, and only the last one may be incomplete.
StreamWhole ==
    /\ StreamLen > 0 => IsCommand(1)
    /\ \A i, j \in Stream : IsCommand(i) =>
           /\ i < j /\ j <= End(i) => At(j) = [call |-> At(i).call, text |-> "arg"]
           /\ j = End(i) + 1 => IsCommand(j)

\* The incomplete one is that of the thread that is sending.
StreamEnds ==
    salive =>
        /\ \A i \in Stream : IsCommand(i) /\ End(i) > StreamLen =>
               \E t \in Threads : Sending(t) /\ At(i) = Request(t) /\ sent[t] = StreamLen - i + 1
        /\ \A t \in Threads : Sending(t) =>
               \E i \in Stream : i = StreamLen - sent[t] + 1 /\ At(i) = Request(t)

-----------------------------------------------------------------------------
(* Threads and mutexes.                                                    *)

ThreadPlace(t) ==
    /\ pc[t] \in {"tcp", "udt", "recv", "data"} => op[t] \in Locked
    /\ pc[t] \in {"udt", "data"} => op[t] = "read"
    /\ pc[t] = "recv" => op[t] # "read"
    /\ pc[t] # "idle" => op[t] \in Commands
    /\ pc[t] \in {"send", "udt"} => sent[t] <= Args[op[t]]
    /\ pc[t] = "tcp" => sent[t] = 0
    /\ pc[t] = "udt" => sent[t] = 1
    /\ pc[t] \in {"recv", "data"} => sent[t] > 0
    /\ pc[t] \in {"tcp", "send", "udt"} => got[t] = << >>

ThreadPlaces == \A t \in Threads : ThreadPlace(t)

HoldsTcp(t) == op[t] \in Locked /\ pc[t] \in {"send", "udt", "recv"}

HoldsUdt(t) == pc[t] = "data" \/ (pc[t] = "send" /\ op[t] = "read" /\ sent[t] > 0)

Ownership ==
    /\ \A t \in Threads : (HoldsTcp(t) => tcpmutex = t) /\ (HoldsUdt(t) => udtmutex = t)
    /\ \A t, u \in Threads : t # u /\ pc[t] # "idle" /\ pc[u] # "idle" => op[t] \in Locked

-----------------------------------------------------------------------------
(* Calls, requests and answers.                                            *)

\* Every call has its own number, and its command is in the stream once at most.
Numbers ==
    /\ \A t \in Threads : call[t] <= calls
    /\ \A t, u \in Threads : t # u /\ pc[t] # "idle" /\ pc[u] # "idle" => call[t] # call[u]
    /\ \A i \in Stream : At(i).call <= calls
    /\ \A i, j \in Stream : IsCommand(i) /\ IsCommand(j) /\ At(i).call = At(j).call => i = j
    /\ \A t \in Threads : pc[t] # "idle" /\ sent[t] = 0 => \A i \in Stream : At(i).call # call[t]

Asked(c) == \E i \in Stream : IsCommand(i) /\ At(i).call = c

\* A request in the stream is still waited for.
AskersWait ==
    salive => \A i \in Stream : At(i).text \in Locked =>
        \E t \in Threads : /\ pc[t] \notin {"idle", "tcp"} /\ sent[t] > 0 /\ got[t] = << >>
                           /\ At(i) = Request(t)

\* The rest of an answer of which n strings were received.
IsRest(o, n, s) ==
    \/ Len(s) = 1 /\ s[1].text = "TERM" /\ (n = 0 \/ o = "dir")
    \/ Len(s) = 2 /\ s[1].text = "entry" /\ s[2].text = "TERM" /\ o = "dir"
    \/ Len(s) = 2 - n /\ n \in {0, 1} /\ o = "getattr" /\ \A k \in 1 .. Len(s) : s[k].text = "attr"

AnswersFit ==
    /\ s2c # << >> => \E t \in Threads :
           /\ pc[t] = "recv" /\ ~Asked(call[t]) /\ IsRest(op[t], Len(got[t]), s2c)
           /\ \A k \in 1 .. Len(s2c) : s2c[k].call = call[t]
    /\ udt # << >> => \E t \in Threads : pc[t] = "data" /\ ~Asked(call[t]) /\ udt = <<call[t]>>
    /\ AnswersReachAsker

SessionInv ==
    Shapes /\ ServerPlace /\ StreamWhole /\ StreamEnds /\ ThreadPlaces /\ Ownership /\ Numbers /\ AskersWait /\ AnswersFit

-----------------------------------------------------------------------------
(* Shapes.                                                                 *)

LEMMA ArgsType ==
    /\ \A o \in Commands : Args[o] \in 1 .. 4
    /\ Args["read"] = 3 /\ "read" \in Locked /\ Locked \subseteq Commands
    /\ "arg" \notin Commands /\ "none" \notin Commands
BY DEF Args, Commands, Locked

LEMMA CallShapes ==
    ASSUME Shapes, NEW t \in Threads, NEW o \in Calls, Call(t, o)
    PROVE  Shapes'
BY SessionAssumption DEF Shapes, Call, mutexVars, netVars, serverVars

LEMMA ThreadShapes ==
    ASSUME Shapes, ThreadPlaces, NEW t \in Threads, ThreadStep(t)
    PROVE  Shapes'
<1> USE DEF Shapes, mutexVars, netVars, serverVars
<1>1. CASE LockTcp(t)
  BY <1>1 DEF LockTcp
<1>2. CASE SendString(t)
  <2>1. [call |-> call[t], text |-> Text(op[t], sent[t])] \in Strings
    BY <1>2 DEF SendString, Text, Strings, ThreadPlaces, ThreadPlace
  <2>2. c2s' \in Seq(Strings)
    BY <1>2, <2>1 DEF SendString
  <2> QED
    BY <1>2, <2>2 DEF SendString
<1>3. CASE SendFails(t)
  BY <1>3 DEF SendFails
<1>4. CASE LockUdt(t)
  BY <1>4 DEF LockUdt
<1>5. CASE RecvString(t)
  <2>1. Head(s2c) \in Answers /\ Tail(s2c) \in Seq(Answers)
    BY <1>5, HeadTailProperties DEF RecvString
  <2>2. Head(s2c).call \in Nat
    BY <2>1 DEF Answers
  <2>3. Append(got[t], Head(s2c).call) \in Seq(Nat)
    BY <2>2
  <2> QED
    BY <1>5, <2>1, <2>3 DEF RecvString
<1>6. CASE RecvClosed(t)
  BY <1>6 DEF RecvClosed
<1>7. CASE RecvSegment(t)
  BY <1>7 DEF RecvSegment
<1>8. CASE RecvSegmentFails(t)
  BY <1>8 DEF RecvSegmentFails
<1> QED
  BY <1>1, <1>2, <1>3, <1>4, <1>5, <1>6, <1>7, <1>8 DEF ThreadStep

LEMMA LeftOverNone ==
    ASSUME ~LongNames, NEW s, NEW n
    PROVE  LeftOver(s, n) = {<< >>}
BY DEF LeftOver

\* One string of the command is read.
LEMMA ArgRead ==
    ASSUME Shapes, ~LongNames, ServerRecvArg
    PROVE  c2s' = Tail(c2s)
<1>1. c2s' = << >> \o Tail(c2s)
  BY LeftOverNone DEF ServerRecvArg
<1> QED
  BY <1>1 DEF Shapes, ServerRecvArg

\* What an execution sends.
LEMMA ExecuteEffect ==
    ASSUME Shapes, ServerExecute
    PROVE  /\ sop' = "none" /\ sfrom' = 0 /\ sargs' = << >> /\ UNCHANGED c2s
           /\ \/ /\ sop = "getattr" /\ UNCHANGED <<udt, salive>>
                 /\ \/ s2c' = Append(s2c, Answer("TERM"))
                    \/ s2c' = Append(Append(s2c, Answer("attr")), Answer("attr"))
              \/ /\ sop = "dir" /\ UNCHANGED <<udt, salive>>
                 /\ \/ s2c' = Append(s2c, Answer("TERM"))
                    \/ s2c' = Append(Append(s2c, Answer("entry")), Answer("TERM"))
              \/ sop = "read" /\ udt' = Append(udt, sfrom) /\ UNCHANGED <<s2c, salive>>
              \/ sop = "read" /\ salive' = FALSE /\ UNCHANGED <<s2c, udt>>
              \/ sop \notin Locked /\ UNCHANGED <<s2c, udt, salive>>
<1>1. Answer("TERM") \in Answers /\ Answer("attr") \in Answers /\ Answer("entry") \in Answers
  BY DEF Answer, Answers, Shapes
<1>2. s2c \o [i \in 1 .. AttrStrings |-> Answer("attr")] = Append(Append(s2c, Answer("attr")), Answer("attr"))
  <2> DEFINE a == Answer("attr")
             two == [i \in 1 .. AttrStrings |-> a]
  <2>1. two \in Seq(Answers) /\ Len(two) = 2 /\ two[1] = a /\ two[2] = a
    BY <1>1 DEF AttrStrings
  <2> HIDE DEF a, two
  <2>2. s2c \in Seq(Answers) /\ a \in Answers
    BY <1>1 DEF Shapes, a
  <2>3. Append(Append(s2c, a), a) \in Seq(Answers) /\ s2c \o two \in Seq(Answers)
    <3>1. Append(s2c, a) \in Seq(Answers)
      BY <2>2, AppendProperties
    <3>2. Append(Append(s2c, a), a) \in Seq(Answers)
      BY <2>2, <3>1, AppendProperties
    <3>3. s2c \o two \in Seq(Answers)
      BY <2>1, <2>2, ConcatProperties
    <3> QED
      BY <3>2, <3>3
  <2>4. /\ Len(s2c \o two) = Len(s2c) + 2 /\ Len(Append(Append(s2c, a), a)) = Len(s2c) + 2
        /\ \A i \in 1 .. Len(s2c) + 2 : (s2c \o two)[i] = IF i <= Len(s2c) THEN s2c[i] ELSE two[i - Len(s2c)]
    <3>1. Append(s2c, a) \in Seq(Answers) /\ Len(Append(s2c, a)) = Len(s2c) + 1
      BY <2>2, AppendProperties
    <3>2. Len(Append(Append(s2c, a), a)) = Len(s2c) + 2
      BY <2>2, <3>1, AppendProperties
    <3>3. Len(s2c \o two) = Len(s2c) + Len(two)
      BY <2>1, <2>2, ConcatProperties
    <3>4. \A i \in 1 .. Len(s2c) + Len(two) : (s2c \o two)[i] = IF i <= Len(s2c) THEN s2c[i] ELSE two[i - Len(s2c)]
      BY <2>1, <2>2, ConcatProperties
    <3> QED
      BY <2>1, <3>2, <3>3, <3>4
  <2>5. \A i \in 1 .. Len(s2c) + 2 : Append(Append(s2c, a), a)[i] = IF i <= Len(s2c) THEN s2c[i] ELSE a
    BY <2>2
  <2>6. \A i \in 1 .. Len(s2c) + 2 : i > Len(s2c) => two[i - Len(s2c)] = a
    BY <2>1, <2>2
  <2>7. s2c \o two = Append(Append(s2c, a), a)
    BY <2>3, <2>4, <2>5, <2>6, SeqEqual
  <2> QED
    BY <2>7 DEF a, two
<1>3. s2c \o <<Answer("entry"), Answer("TERM")>> = Append(Append(s2c, Answer("entry")), Answer("TERM"))
  BY <1>1 DEF Shapes
<1> QED
  BY <1>2, <1>3 DEF ServerExecute

LEMMA ServerShapes ==
    ASSUME Shapes, ~LongNames, ServerStep
    PROVE  Shapes'
<1> USE DEF threadVars, mutexVars
<1>1. CASE ServerRecvCommand
  <2>1. Head(c2s) \in Strings /\ Tail(c2s) \in Seq(Strings)
    BY <1>1, HeadTailProperties DEF ServerRecvCommand, Shapes
  <2>2. Head(c2s).call \in Nat
    BY <2>1 DEF Strings
  <2>4. sop' \in Commands \cup {"none"} /\ sfrom' \in Nat
    BY <1>1, <2>2 DEF ServerRecvCommand, Shapes
  <2>5. sargs' \in Seq(Strings)
    BY <1>1, EmptySeq DEF ServerRecvCommand, Shapes
  <2>3. sop' \in Commands \cup {"none"} /\ sfrom' \in Nat /\ sargs' \in Seq(Strings) /\ c2s' \in Seq(Strings)
    BY <1>1, <2>1, <2>4, <2>5 DEF ServerRecvCommand
  <2> QED
    BY <1>1, <2>3 DEF ServerRecvCommand, Shapes
<1>2. CASE ServerRecvArg
  <2>1. Head(c2s) \in Strings /\ Tail(c2s) \in Seq(Strings)
    BY <1>2, HeadTailProperties DEF ServerRecvArg, Shapes
  <2>3. Append(sargs, Head(c2s)) \in Seq(Strings)
    BY <2>1, AppendProperties DEF Shapes
  <2>4. sargs' = Append(sargs, Head(c2s)) /\ c2s' = Tail(c2s)
    BY <1>2, ArgRead DEF ServerRecvArg
  <2>2. sargs' \in Seq(Strings) /\ c2s' \in Seq(Strings)
    BY <2>1, <2>3, <2>4
  <2> QED
    BY <1>2, <2>2 DEF ServerRecvArg, Shapes
<1>3. CASE ServerExecute
  <2>1. Answer("TERM") \in Answers /\ Answer("attr") \in Answers /\ Answer("entry") \in Answers
    BY DEF Answer, Answers, Shapes
  <2> HIDE DEF Answer
  <2>2. /\ Append(s2c, Answer("TERM")) \in Seq(Answers)
        /\ Append(Append(s2c, Answer("attr")), Answer("attr")) \in Seq(Answers)
        /\ Append(Append(s2c, Answer("entry")), Answer("TERM")) \in Seq(Answers)
        /\ Append(udt, sfrom) \in Seq(Nat)
    BY <2>1 DEF Shapes
  <2>4. s2c' \in Seq(Answers) /\ udt' \in Seq(Nat)
    BY <1>3, <2>2, ExecuteEffect DEF Shapes
  <2>5. salive' \in BOOLEAN
    BY <1>3, ExecuteEffect, Zenon DEF Shapes
  <2>3. UNCHANGED <<pc, op, call, calls, sent, got, c2s>>
    BY <1>3 DEF ServerExecute
  <2>6. sop' \in Commands \cup {"none"} /\ sfrom' \in Nat
    BY <1>3, ExecuteEffect
  <2>7. sargs' \in Seq(Strings)
    BY <1>3, ExecuteEffect, EmptySeq
  <2> QED
    BY <2>3, <2>4, <2>5, <2>6, <2>7 DEF Shapes
<1> QED
  BY <1>1, <1>2, <1>3 DEF ServerStep
-----------------------------------------------------------------------------
(* What a step does to the stream: nothing, one string at its end, or the  *)
(* first request goes.                                                     *)

SameStream == StreamLen' = StreamLen /\ \A i \in Stream : At(i)' = At(i)

GrownBy(s) ==
    /\ StreamLen' = StreamLen + 1
    /\ \A i \in Stream : At(i)' = At(i)
    /\ \A i : i = StreamLen + 1 => At(i)' = s

ShrunkBy(n) ==
    /\ StreamLen' = StreamLen - n
    /\ \A i \in 1 .. StreamLen - n : At(i)' = At(i + n)

LEMMA StreamType ==
    ASSUME Shapes, ServerPlace
    PROVE  /\ Taken \in Nat /\ StreamLen \in Nat /\ Taken <= StreamLen
           /\ \A i \in Stream : /\ At(i) \in Strings /\ At(i).call \in Nat
                                /\ (IsCommand(i) \/ At(i).text = "arg")
                                /\ IsCommand(i) => End(i) \in i + 1 .. i + 4
<1>1. Taken \in Nat /\ StreamLen \in Nat /\ Taken <= StreamLen /\ Len(c2s) \in Nat /\ Len(sargs) \in Nat
  BY DEF Shapes, Taken, StreamLen
<1>2. ASSUME NEW i \in Stream PROVE At(i) \in Strings
  <2>1. CASE i > Taken
    <3>1. i - Taken \in 1 .. Len(c2s)
      BY <1>1, <2>1 DEF Stream, StreamLen
    <3>2. c2s \in Seq(Strings)
      BY DEF Shapes
    <3>3. c2s[i - Taken] \in Strings
      BY <3>1, <3>2, ElementOfSeq
    <3> QED
      BY <2>1, <3>3 DEF At
  <2>2. CASE ~(i > Taken) /\ i = 1
    <3>1. sop # "none"
      BY <2>2, <1>1 DEF Taken
    <3> QED
      BY <2>2, <3>1 DEF At, Shapes, Strings
  <2>3. CASE ~(i > Taken) /\ i # 1
    <3>1. i - 1 \in 1 .. Len(sargs)
      BY <2>3, <1>1 DEF Taken, Stream
    <3>2. sargs \in Seq(Strings)
      BY DEF Shapes
    <3>3. sargs[i - 1] \in Strings
      BY <3>1, <3>2, ElementOfSeq
    <3> QED
      BY <2>3, <3>3 DEF At
  <2> QED
    BY <2>1, <2>2, <2>3
<1>3. ASSUME NEW i \in Stream
      PROVE  /\ At(i).call \in Nat /\ (IsCommand(i) \/ At(i).text = "arg")
             /\ IsCommand(i) => End(i) \in i + 1 .. i + 4
  <2>1. At(i).call \in Nat /\ (IsCommand(i) \/ At(i).text = "arg")
    BY <1>2 DEF Strings, IsCommand
  <2>2. ASSUME IsCommand(i) PROVE End(i) \in i + 1 .. i + 4
    <3>1. Args[At(i).text] \in 1 .. 4
      BY <2>2, ArgsType DEF IsCommand
    <3> QED
      BY <3>1, <1>1 DEF End, Stream
  <2> QED
    BY <2>1, <2>2
<1> QED
  BY <1>1, <1>2, <1>3

LEMMA QuietCall ==
    ASSUME NEW t, NEW o, Call(t, o)
    PROVE  SameStream
BY DEF Call, SameStream, StreamLen, Taken, At, netVars, serverVars

LEMMA QuietThread ==
    ASSUME NEW t, ThreadStep(t), SendString(t) => ~salive
    PROVE  SameStream
BY DEF ThreadStep, LockTcp, SendString, SendFails, LockUdt, RecvString, RecvClosed, RecvSegment, RecvSegmentFails,
       SameStream, StreamLen, Taken, At, netVars, serverVars

LEMMA SendGrows ==
    ASSUME Shapes, ServerPlace, NEW t \in Threads, SendString(t), ThreadPlaces, salive
    PROVE  GrownBy([call |-> call[t], text |-> Text(op[t], sent[t])])
<1> DEFINE s == [call |-> call[t], text |-> Text(op[t], sent[t])]
<1>1. s \in Strings
  BY DEF SendString, Text, Strings, ThreadPlaces, ThreadPlace, Shapes
<1>2. c2s \in Seq(Strings) /\ c2s' = Append(c2s, s) /\ UNCHANGED <<sop, sfrom, sargs>>
  BY DEF SendString, serverVars, Shapes
<1> HIDE DEF s
<1>3. /\ Len(c2s') = Len(c2s) + 1 /\ c2s'[Len(c2s) + 1] = s
      /\ \A k \in 1 .. Len(c2s) : c2s'[k] = c2s[k]
  BY <1>1, <1>2, AppendProperties
<1>4. Len(c2s) \in Nat /\ Taken \in Nat /\ UNCHANGED Taken
  BY <1>2, StreamType DEF Taken
<1>5. StreamLen' = StreamLen + 1
  BY <1>3, <1>4 DEF StreamLen
<1>6. ASSUME NEW i \in Stream PROVE At(i)' = At(i)
  BY <1>2, <1>3, <1>4 DEF At, Stream, StreamLen
<1>7. ASSUME NEW i, i = StreamLen + 1 PROVE At(i)' = s
  BY <1>2, <1>3, <1>4, <1>7 DEF At, StreamLen
<1> QED
  BY <1>5, <1>6, <1>7 DEF GrownBy, s

LEMMA QuietServer ==
    ASSUME Shapes, ServerPlace, StreamWhole, ~LongNames, ServerRecvCommand \/ ServerRecvArg
    PROVE  SameStream /\ ServerPlace' /\ UNCHANGED <<threadVars, mutexVars, s2c, udt, salive>>
<1>1. c2s \in Seq(Strings) /\ sargs \in Seq(Strings) /\ Len(c2s) \in Nat /\ Len(sargs) \in Nat /\ c2s # << >>
  BY DEF Shapes, ServerRecvCommand, ServerRecvArg
<1>2. c2s' = Tail(c2s)
  BY ArgRead DEF ServerRecvCommand
<1>3. /\ Len(c2s) > 0 /\ Head(c2s) = c2s[1] /\ Head(c2s) \in Strings
      /\ Len(c2s') = Len(c2s) - 1 /\ \A k \in 1 .. Len(c2s) - 1 : c2s'[k] = c2s[k + 1]
  BY <1>1, <1>2, HeadTailProperties, EmptySeq
<1>4. CASE ServerRecvCommand
  <2>1. sop = "none" /\ Taken = 0
    BY <1>4 DEF ServerRecvCommand, Taken
  <2>2. At(1) = Head(c2s) /\ StreamLen = Len(c2s)
    BY <2>1, <1>3, <1>1 DEF At, StreamLen
  <2>3. Head(c2s).text \in Commands
    BY <2>2, <1>3, <1>1 DEF StreamWhole, IsCommand
  <2>4. sop' = Head(c2s).text /\ sfrom' = Head(c2s).call /\ sargs' = << >> /\ sop' # "none"
    BY <1>4, <2>3, ArgsType DEF ServerRecvCommand
  <2>5. Taken' = 1 /\ Len(sargs') = 0
    BY <2>4 DEF Taken
  <2>6. StreamLen' = StreamLen
    BY <2>5, <2>2, <1>3, <1>1 DEF StreamLen
  <2>7. [call |-> Head(c2s).call, text |-> Head(c2s).text] = Head(c2s)
    BY <1>3 DEF Strings
  <2>8. ASSUME NEW i \in Stream PROVE At(i)' = At(i)
    <3>1. i \in 1 .. Len(c2s)
      BY <2>2 DEF Stream
    <3>2. CASE i = 1
      BY <3>2, <2>2, <2>4, <2>5, <2>7 DEF At
    <3>3. CASE i # 1
      <4>1. At(i)' = c2s'[i - 1]
        BY <3>1, <3>3, <2>5 DEF At
      <4>2. At(i) = c2s[i] /\ i - 1 \in 1 .. Len(c2s) - 1
        BY <3>1, <3>3, <2>1, <1>1 DEF At
      <4> QED
        BY <4>1, <4>2, <1>3, <3>1
    <3> QED
      BY <3>2, <3>3
  <2>9. Args[sop'] \in 1 .. 4
    BY <2>3, <2>4, ArgsType
  <2>10. ServerPlace'
    BY <2>4, <2>5, <2>9 DEF ServerPlace
  <2> QED
    BY <1>4, <2>6, <2>8, <2>10 DEF SameStream, ServerRecvCommand
<1>5. CASE ServerRecvArg
  <2>1. sop # "none" /\ Len(sargs) < Args[sop] /\ UNCHANGED <<sop, sfrom>> /\ sargs' = Append(sargs, Head(c2s))
    BY <1>5 DEF ServerRecvArg, StringsRead
  <2>2. /\ Len(sargs') = Len(sargs) + 1 /\ sargs'[Len(sargs) + 1] = Head(c2s)
        /\ \A k \in 1 .. Len(sargs) : sargs'[k] = sargs[k]
    BY <2>1, <1>1, <1>3, AppendProperties
  <2>3. Taken = 1 + Len(sargs) /\ Taken' = Taken + 1
    BY <2>1, <2>2, <1>1 DEF Taken
  <2>4. StreamLen' = StreamLen
    BY <2>3, <1>3, <1>1 DEF StreamLen
  <2>5. ASSUME NEW i \in Stream PROVE At(i)' = At(i)
    <3>1. i \in Nat /\ 1 <= i /\ i <= Taken + Len(c2s)
      BY <1>1, <2>3 DEF Stream, StreamLen
    <3>2. CASE i <= Taken
      BY <3>1, <3>2, <2>1, <2>2, <2>3, <1>1 DEF At
    <3>3. CASE i = Taken + 1
      BY <3>1, <3>3, <2>1, <2>2, <2>3, <1>1, <1>3 DEF At
    <3>4. CASE i > Taken + 1
      <4>1. At(i)' = c2s'[i - (Taken + 1)]
        BY <3>1, <3>4, <2>3, <1>1 DEF At
      <4>2. At(i) = c2s[i - Taken] /\ i - (Taken + 1) \in 1 .. Len(c2s) - 1 /\ i - (Taken + 1) + 1 = i - Taken
        BY <3>1, <3>4, <2>3, <1>1 DEF At
      <4> QED
        BY <4>1, <4>2, <1>3
    <3> QED
      BY <3>1, <3>2, <3>3, <3>4, <2>3, <1>1
  <2>6. Args[sop] \in 1 .. 4
    BY <2>1, ArgsType DEF Shapes
  <2>7. ServerPlace'
    BY <2>1, <2>2, <2>6, <1>1 DEF ServerPlace
  <2> QED
    BY <1>5, <2>4, <2>5, <2>7 DEF SameStream, ServerRecvArg
<1> QED
  BY <1>4, <1>5

\* The request that is executed is the first of the stream, and whole.
LEMMA ExecuteShrinks ==
    ASSUME Shapes, ServerPlace, ServerExecute
    PROVE  /\ \E n \in 2 .. 5 : n = End(1) /\ n = 1 + Args[sop] /\ n <= StreamLen /\ ShrunkBy(n)
           /\ sop \in Commands /\ 1 \in Stream /\ IsCommand(1)
           /\ At(1) = [call |-> sfrom, text |-> sop] /\ ServerPlace'
           /\ UNCHANGED <<pc, op, call, sent, got, calls, tcpmutex, udtmutex, c2s>>
<1>1. /\ sop \in Commands /\ sop # "none" /\ Len(sargs) = Args[sop] /\ Args[sop] \in 1 .. 4
      /\ UNCHANGED <<pc, op, call, sent, got, calls, tcpmutex, udtmutex, c2s>>
      /\ sop' = "none" /\ sargs' = << >> /\ Len(c2s) \in Nat
  BY ArgsType DEF ServerExecute, StringsRead, Shapes, threadVars, mutexVars
<1>2. PICK n \in 2 .. 5 : n = 1 + Args[sop]
  BY <1>1
<1>3. Taken = n /\ Taken' = 0
  BY <1>1, <1>2 DEF Taken
<1>4. At(1) = [call |-> sfrom, text |-> sop]
  BY <1>1, <1>3 DEF At
<1>5. IsCommand(1) /\ End(1) = n /\ StreamLen >= n /\ 1 \in Stream
  BY <1>1, <1>2, <1>3, <1>4 DEF IsCommand, End, Stream, StreamLen
<1>6. StreamLen' = StreamLen - n
  BY <1>1, <1>3 DEF StreamLen
<1>7. ASSUME NEW i \in 1 .. StreamLen - n PROVE At(i)' = At(i + n)
  <2>1. i \in Int /\ i + n > Taken /\ i > 0 /\ (i + n) - Taken = i
    BY <1>1, <1>3, StreamType
  <2>2. At(i)' = c2s[i]
    BY <2>1, <1>1, <1>3 DEF At
  <2>3. At(i + n) = c2s[i]
    <3>1. At(i + n) = c2s[(i + n) - Taken]
      BY <2>1, <1>3 DEF At
    <3> QED
      BY <2>1, <3>1
  <2> QED
    BY <2>2, <2>3
<1> QED
  BY <1>1, <1>2, <1>4, <1>5, <1>6, <1>7 DEF ShrunkBy, ServerPlace

-----------------------------------------------------------------------------
(* One thread at a time sends, holds a mutex, or waits on a connection.    *)

LEMMA OneAtATime ==
    ASSUME Shapes, ThreadPlaces, Ownership, NEW t \in Threads, NEW u \in Threads, t # u
    PROVE  /\ pc[t] = "send" => pc[u] \notin {"send", "udt"}
           /\ ~(Sending(t) /\ Sending(u))
           /\ ~(pc[t] = "recv" /\ pc[u] = "recv") /\ ~(pc[t] = "data" /\ pc[u] = "data")
<1>1. pc[t] \in {"send", "udt"} => ~(pc[u] \in {"send", "udt"})
  <2> SUFFICES ASSUME pc[t] \in {"send", "udt"}, pc[u] \in {"send", "udt"} PROVE FALSE
    OBVIOUS
  <2>1. op[t] \in Locked /\ op[u] \in Locked
    BY DEF Ownership
  <2> QED
    BY <2>1 DEF Ownership, HoldsTcp
<1>2. ~(pc[t] = "recv" /\ pc[u] = "recv") /\ ~(pc[t] = "data" /\ pc[u] = "data")
  BY DEF Ownership, HoldsTcp, HoldsUdt, ThreadPlaces, ThreadPlace
<1> QED
  BY <1>1, <1>2 DEF Sending

\* Nothing of the stream changes, and the thread that sends is the same.
LEMMA SameWhole ==
    ASSUME Shapes, ServerPlace, StreamWhole, SameStream
    PROVE  StreamWhole' /\ Stream' = Stream /\ \A i \in Stream : IsCommand(i)' = IsCommand(i) /\ End(i)' = End(i)
<1>1. StreamLen \in Nat
  BY StreamType
<1>2. Stream' = Stream
  BY DEF SameStream, Stream
<1>3. \A i \in Stream : IsCommand(i)' = IsCommand(i) /\ End(i)' = End(i)
  BY DEF SameStream, IsCommand, End
<1>4. StreamLen > 0 => 1 \in Stream
  BY <1>1 DEF Stream
<1> QED
  BY <1>2, <1>3, <1>4 DEF SameStream, StreamWhole

LEMMA SameEnds ==
    ASSUME Shapes, ServerPlace, StreamWhole, StreamEnds, SameStream, salive' => salive,
           \A u \in Threads : /\ Sending(u)' = Sending(u)
                              /\ Sending(u) => sent'[u] = sent[u] /\ Request(u)' = Request(u)
    PROVE  StreamEnds'
<1> SUFFICES ASSUME salive, salive' PROVE StreamEnds'
  BY DEF StreamEnds
<1>1. Stream' = Stream /\ \A i \in Stream : IsCommand(i)' = IsCommand(i) /\ End(i)' = End(i) /\ At(i)' = At(i)
  BY SameWhole DEF SameStream
<1>2. StreamLen' = StreamLen
  BY DEF SameStream
<1> QED
  BY <1>1, <1>2 DEF StreamEnds

\* One more string of the request that is being sent.
LEMMA GrownWhole ==
    ASSUME Shapes, ServerPlace, ThreadPlaces, Ownership, StreamWhole, StreamEnds, salive, NEW t \in Threads, SendString(t)
    PROVE  StreamWhole' /\ StreamEnds'
<1>1. pc[t] = "send" /\ op[t] \in Commands /\ Args[op[t]] \in 1 .. 4 /\ sent[t] \in Nat /\ sent[t] <= Args[op[t]]
  BY ArgsType DEF SendString, ThreadPlaces, ThreadPlace, Shapes
<1>2. \A u \in Threads \ {t} : ~Sending(u)
  BY <1>1, OneAtATime DEF Sending
<1>3. GrownBy([call |-> call[t], text |-> Text(op[t], sent[t])])
  BY SendGrows
<1>4. PICK N \in Nat : N = StreamLen
  BY StreamType
<1>5. PICK k \in Nat : k = sent[t]
  BY <1>1
<1> DEFINE s == [call |-> call[t], text |-> Text(op[t], k)]
<1>6. StreamLen' = N + 1 /\ Stream = 1 .. N /\ Stream' = 1 .. N + 1
  BY <1>3, <1>4 DEF GrownBy, Stream
<1>7. At(N + 1)' = s /\ \A i \in 1 .. N : At(i)' = At(i)
  BY <1>3, <1>4, <1>5 DEF GrownBy, Stream
<1>8. \A i \in 1 .. N : IsCommand(i)' = IsCommand(i) /\ End(i)' = End(i)
  BY <1>7 DEF IsCommand, End
<1>9. \A i \in 1 .. N : IsCommand(i) => End(i) \in i + 1 .. i + 4
  BY StreamType, <1>6
<1>10. /\ call'[t] = call[t] /\ op'[t] = op[t] /\ sent'[t] = k + 1 /\ salive'
       /\ pc'[t] \in {"send", "udt"} <=> k < Args[op[t]]
  BY <1>1, <1>5, ArgsType DEF SendString, serverVars, Shapes, LockUdtAfter, Locked
<1>11. \A u \in Threads \ {t} : pc'[u] = pc[u] /\ sent'[u] = sent[u]
  BY DEF SendString, Shapes
<1>12. \A u \in Threads : Sending(u)' => u = t /\ k < Args[op[t]]
  BY <1>2, <1>10, <1>11 DEF Sending
<1>13. Sending(t)' <=> k < Args[op[t]]
  BY <1>5, <1>10 DEF Sending
<1>14. Request(t)' = Request(t)
  BY <1>10 DEF Request
<1>15. CASE k = 0
  <2>1. IsCommand(N + 1)' /\ At(N + 1)' = Request(t) /\ End(N + 1)' = N + 1 + Args[op[t]]
    BY <1>1, <1>7, <1>15 DEF Text, IsCommand, End, Request
  <2>2. ~Sending(t)
    BY <1>5, <1>15 DEF Sending
  <2>3. \A i \in 1 .. N : IsCommand(i) => End(i) <= N
    BY <1>2, <2>2, <1>4, <1>6, <1>9 DEF StreamEnds
  <2>4. IsCommand(1)'
    BY <2>1, <1>6, <1>8, <1>4 DEF StreamWhole
  <2>5. ASSUME NEW i \in 1 .. N + 1, NEW j \in 1 .. N + 1, IsCommand(i)'
        PROVE  /\ i < j /\ j <= End(i)' => At(j)' = [call |-> At(i)'.call, text |-> "arg"]
               /\ j = End(i)' + 1 => IsCommand(j)'
    <3>1. CASE i = N + 1
      BY <3>1, <2>1, <1>1
    <3>2. CASE i # N + 1 /\ j = N + 1
      <4>1. i \in 1 .. N
        BY <3>2
      <4> QED
        BY <3>2, <4>1, <2>1, <2>3, <1>8, <1>9, <2>5
    <3>3. CASE i # N + 1 /\ j # N + 1
      <4>1. i \in 1 .. N /\ j \in 1 .. N
        BY <3>3
      <4> QED
        BY <4>1, <1>6, <1>7, <1>8, <2>5 DEF StreamWhole
    <3> QED
      BY <3>1, <3>2, <3>3
  <2>6. StreamWhole'
    BY <2>4, <2>5, <1>6 DEF StreamWhole
  <2>7. ASSUME NEW i \in 1 .. N + 1, IsCommand(i)', End(i)' > N + 1
        PROVE  Sending(t)' /\ At(i)' = Request(t)' /\ sent'[t] = (N + 1) - i + 1
    <3>1. i = N + 1
      BY <2>3, <2>7, <1>8, <1>9
    <3> QED
      BY <3>1, <2>1, <1>1, <1>10, <1>13, <1>14, <1>15
  <2>8. ASSUME NEW u \in Threads, Sending(u)' PROVE N + 1 = (N + 1) - sent'[u] + 1 /\ At(N + 1)' = Request(u)'
    BY <2>8, <1>12, <1>10, <1>15, <2>1, <1>14
  <2>9. StreamEnds'
    BY <2>7, <2>8, <1>6 DEF StreamEnds
  <2> QED
    BY <2>6, <2>9
<1>16. CASE k # 0
  <2>1. s = [call |-> call[t], text |-> "arg"] /\ ~IsCommand(N + 1)'
    BY <1>16, <1>7, ArgsType DEF Text, IsCommand
  <2>2. Sending(t)
    BY <1>1, <1>5, <1>16 DEF Sending
  <2>3. PICK p \in 1 .. N : p = N - k + 1 /\ At(p) = Request(t)
    BY <2>2, <1>4, <1>5, <1>6 DEF StreamEnds
  <2>4. IsCommand(p) /\ End(p) = p + Args[op[t]] /\ End(p) > N
    BY <2>3, <1>1, <1>5 DEF IsCommand, End, Request
  <2>5. \A i \in 1 .. N : IsCommand(i) /\ End(i) > N => i = p /\ At(i) = Request(t)
    BY <1>2, <1>4, <1>5, <1>6, <2>3 DEF StreamEnds
  <2>6. ASSUME NEW i \in 1 .. N, IsCommand(i) PROVE End(i) # N
    <3>1. CASE i < p
      <4>1. End(i) = N => At(p) = [call |-> At(i).call, text |-> "arg"]
        BY <3>1, <2>6, <2>3, <1>6, <1>9 DEF StreamWhole
      <4> QED
        BY <4>1, <2>4, ArgsType DEF IsCommand
    <3>2. CASE i > p
      <4>1. At(i) = [call |-> At(p).call, text |-> "arg"]
        BY <3>2, <2>4, <1>6, <1>9 DEF StreamWhole
      <4> QED
        BY <4>1, <2>6, ArgsType DEF IsCommand
    <3> QED
      BY <3>1, <3>2, <2>4
  <2>7. ASSUME NEW i \in 1 .. N + 1, NEW j \in 1 .. N + 1, IsCommand(i)'
        PROVE  /\ i < j /\ j <= End(i)' => At(j)' = [call |-> At(i)'.call, text |-> "arg"]
               /\ j = End(i)' + 1 => IsCommand(j)'
    <3>1. i \in 1 .. N /\ IsCommand(i) /\ End(i)' = End(i) /\ At(i)' = At(i)
      BY <2>1, <2>7, <1>7, <1>8
    <3>2. CASE j = N + 1
      <4>1. i < j /\ j <= End(i) => At(i) = Request(t)
        BY <3>1, <3>2, <2>5, <1>9
      <4>2. j # End(i) + 1
        BY <3>1, <3>2, <2>6, <1>9
      <4>3. Request(t).call = call[t]
        BY DEF Request
      <4> QED
        BY <3>1, <3>2, <4>1, <4>2, <4>3, <2>1, <1>7
    <3>3. CASE j # N + 1
      <4>1. j \in 1 .. N
        BY <3>3
      <4> QED
        BY <4>1, <3>1, <1>6, <1>7, <1>8 DEF StreamWhole
    <3> QED
      BY <3>2, <3>3
  <2>8. IsCommand(1)'
    BY <2>3, <1>4, <1>8 DEF StreamWhole
  <2>9. StreamWhole'
    BY <2>7, <2>8, <1>6 DEF StreamWhole
  <2>10. ASSUME NEW i \in 1 .. N + 1, IsCommand(i)', End(i)' > N + 1
         PROVE  Sending(t)' /\ At(i)' = Request(t)' /\ sent'[t] = (N + 1) - i + 1
    <3>1. i \in 1 .. N /\ IsCommand(i) /\ End(i)' = End(i) /\ At(i)' = At(i)
      BY <2>1, <2>10, <1>7, <1>8
    <3>2. i = p /\ At(i) = Request(t)
      BY <3>1, <2>5, <2>10, <1>9
    <3>3. k < Args[op[t]]
      BY <3>1, <3>2, <2>10, <2>3, <2>4, <1>1
    <3> QED
      BY <3>1, <3>2, <3>3, <2>3, <1>10, <1>13, <1>14
  <2>11. ASSUME NEW u \in Threads, Sending(u)' PROVE p = (N + 1) - sent'[u] + 1 /\ At(p)' = Request(u)'
    BY <2>11, <2>3, <1>7, <1>10, <1>12, <1>14
  <2>12. StreamEnds'
    BY <2>10, <2>11, <1>6 DEF StreamEnds
  <2> QED
    BY <2>9, <2>12
<1> QED
  BY <1>15, <1>16

\* The first request goes.
LEMMA ShrunkWhole ==
    ASSUME Shapes, ServerPlace, ThreadPlaces, StreamWhole, StreamEnds, ServerExecute
    PROVE  StreamWhole' /\ StreamEnds'
<1>1. PICK n \in 2 .. 5 : n = End(1) /\ n = 1 + Args[sop] /\ n <= StreamLen /\ ShrunkBy(n)
  BY ExecuteShrinks
<1>2. PICK N \in Nat : N = StreamLen
  BY StreamType
<1>3. StreamLen' = N - n /\ Stream = 1 .. N /\ Stream' = 1 .. N - n /\ n <= N
  BY <1>1, <1>2 DEF ShrunkBy, Stream
<1>4. \A i \in 1 .. N - n : i + n \in 1 .. N /\ At(i)' = At(i + n)
  BY <1>1, <1>2 DEF ShrunkBy
<1>5. \A i \in 1 .. N - n : IsCommand(i)' = IsCommand(i + n) /\ (IsCommand(i + n) => End(i)' = End(i + n) - n /\ End(i + n) \in Int)
  <2> TAKE i \in 1 .. N - n
  <2>1. PICK j \in 1 .. N : j = i + n /\ At(i)' = At(j)
    BY <1>4
  <2>2. IsCommand(j) => Args[At(j).text] \in 1 .. 4
    BY ArgsType DEF IsCommand
  <2> QED
    BY <2>1, <2>2 DEF IsCommand, End
<1>6. IsCommand(1) /\ At(1) = [call |-> sfrom, text |-> sop] /\ sop \in Commands
      /\ UNCHANGED <<pc, op, call, sent, got, calls, tcpmutex, udtmutex, c2s>>
  BY ExecuteShrinks
<1>7. ASSUME N - n > 0 PROVE IsCommand(1)'
  <2>1. n + 1 \in 1 .. N /\ IsCommand(n + 1)
    BY <1>1, <1>3, <1>6, <1>7 DEF StreamWhole
  <2>2. 1 + n = n + 1 /\ 1 \in 1 .. N - n
    BY <1>7
  <2> QED
    BY <2>1, <2>2, <1>5
<1>8. ASSUME NEW i \in 1 .. N - n, NEW j \in 1 .. N - n, IsCommand(i)'
      PROVE  /\ i < j /\ j <= End(i)' => At(j)' = [call |-> At(i)'.call, text |-> "arg"]
             /\ j = End(i)' + 1 => IsCommand(j)'
  <2>1. PICK v \in 1 .. N, w \in 1 .. N : v = i + n /\ w = j + n
    BY <1>4
  <2>2. IsCommand(v) /\ End(i)' = End(v) - n /\ At(i)' = At(v) /\ At(j)' = At(w) /\ IsCommand(j)' = IsCommand(w) /\ End(v) \in Int
    BY <1>4, <1>5, <1>8, <2>1
  <2>3. /\ v < w /\ w <= End(v) => At(w) = [call |-> At(v).call, text |-> "arg"]
        /\ w = End(v) + 1 => IsCommand(w)
    BY <2>1, <2>2, <1>3 DEF StreamWhole
  <2> QED
    BY <2>1, <2>2, <2>3
<1>9. StreamWhole'
  BY <1>3, <1>7, <1>8 DEF StreamWhole
<1>10. ASSUME salive PROVE StreamEnds'
  <2>1. ASSUME NEW i \in 1 .. N - n, IsCommand(i)', End(i)' > N - n
        PROVE  \E t \in Threads : Sending(t)' /\ At(i)' = Request(t)' /\ sent'[t] = (N - n) - i + 1
    <3>1. PICK v \in 1 .. N : v = i + n
      BY <1>4
    <3>2. IsCommand(v) /\ End(i)' = End(v) - n /\ At(i)' = At(v) /\ End(v) \in Int
      BY <1>4, <1>5, <2>1, <3>1
    <3>3. PICK t \in Threads : Sending(t) /\ At(v) = Request(t) /\ sent[t] = N - v + 1
      BY <3>1, <3>2, <2>1, <1>2, <1>3, <1>10 DEF StreamEnds
    <3>4. Sending(t)' /\ Request(t)' = Request(t) /\ sent' = sent
      BY <3>3, <1>6 DEF Sending, Request
    <3> QED
      BY <3>1, <3>2, <3>3, <3>4
  <2>2. ASSUME NEW t \in Threads, Sending(t)'
        PROVE  \E i \in 1 .. N - n : i = (N - n) - sent'[t] + 1 /\ At(i)' = Request(t)'
    <3>1. Sending(t) /\ Request(t)' = Request(t) /\ sent' = sent /\ sent[t] \in Nat
      BY <2>2, <1>6 DEF Sending, Request, Shapes
    <3>2. PICK p \in 1 .. N : p = N - sent[t] + 1 /\ At(p) = Request(t)
      BY <3>1, <1>2, <1>3, <1>10 DEF StreamEnds
    <3>3. op[t] \in Commands /\ sent[t] <= Args[op[t]]
      BY <3>1 DEF Sending, ThreadPlaces, ThreadPlace
    <3>4. IsCommand(p)
      BY <3>2, <3>3 DEF IsCommand, Request
    <3>5. p # 1
      <4>1. p = 1 => sop = op[t]
        BY <3>2, <1>6 DEF Request
      <4>2. p = 1 => sent[t] = N
        BY <3>1, <3>2
      <4>3. p = 1 => sent[t] <= Args[sop] /\ n = 1 + Args[sop] /\ Args[sop] \in Int
        BY <4>1, <3>3, <1>1, <1>6, ArgsType
      <4> QED
        BY <4>2, <4>3, <1>3
    <3>6. p > n
      <4>1. p <= n => At(p) = [call |-> At(1).call, text |-> "arg"]
        BY <3>5, <1>1, <1>3, <1>6 DEF StreamWhole
      <4> QED
        BY <4>1, <3>4, ArgsType DEF IsCommand
    <3>7. p - n \in 1 .. N - n /\ (p - n) + n = p
      BY <3>6
    <3>8. At(p - n)' = At(p)
      BY <3>7, <1>4
    <3> QED
      BY <3>1, <3>2, <3>7, <3>8
  <2> QED
    BY <2>1, <2>2, <1>3 DEF StreamEnds
<1>11. ~salive => ~salive'
  BY DEF ServerExecute
<1> QED
  BY <1>9, <1>10, <1>11 DEF StreamEnds

-----------------------------------------------------------------------------
(* Threads and mutexes keep their places.                                  *)

LEMMA CallPlaces ==
    ASSUME Shapes, ThreadPlaces, Ownership, ChangesAlone, NEW t \in Threads, NEW o \in Calls, Call(t, o)
    PROVE  ThreadPlaces' /\ Ownership'
<1>1. /\ pc[t] = "idle" /\ o \in Commands /\ Locked \subseteq Commands /\ Args[o] \in 1 .. 4
      /\ call' = [call EXCEPT ![t] = calls + 1] /\ op' = [op EXCEPT ![t] = o] /\ sent' = [sent EXCEPT ![t] = 0]
      /\ got' = [got EXCEPT ![t] = << >>] /\ pc' = [pc EXCEPT ![t] = IF o \in Locked THEN "tcp" ELSE "send"]
      /\ UNCHANGED mutexVars
  BY ArgsType, SessionAssumption DEF Call
<1>2. ASSUME NEW u \in Threads, u # t
      PROVE  pc'[u] = pc[u] /\ op'[u] = op[u] /\ sent'[u] = sent[u] /\ got'[u] = got[u]
  BY <1>1, <1>2 DEF Shapes
<1>3. /\ pc'[t] = (IF o \in Locked THEN "tcp" ELSE "send") /\ op'[t] = o /\ sent'[t] = 0 /\ got'[t] = << >>
  BY <1>1 DEF Shapes
<1>4. ThreadPlaces'
  <2> SUFFICES ASSUME NEW u \in Threads PROVE ThreadPlace(u)'
    BY DEF ThreadPlaces
  <2>1. CASE u = t
    BY <2>1, <1>1, <1>3 DEF ThreadPlace
  <2>2. CASE u # t
    BY <2>2, <1>2 DEF ThreadPlaces, ThreadPlace
  <2> QED
    BY <2>1, <2>2
<1>5. ~HoldsTcp(t)' /\ ~HoldsUdt(t)'
  BY <1>3 DEF HoldsTcp, HoldsUdt
<1>6. \A u \in Threads : (HoldsTcp(u)' => tcpmutex' = u) /\ (HoldsUdt(u)' => udtmutex' = u)
  BY <1>1, <1>2, <1>5 DEF HoldsTcp, HoldsUdt, Ownership, mutexVars
<1>7. \A u \in Threads : u # t /\ pc[u] # "idle" => o \in Locked /\ op[u] \in Locked
  BY DEF Call
<1>8. \A u, v \in Threads : u # v /\ pc'[u] # "idle" /\ pc'[v] # "idle" => op'[u] \in Locked
  BY <1>2, <1>3, <1>7 DEF Ownership
<1> QED
  BY <1>4, <1>6, <1>8 DEF Ownership

LEMMA StepPlaces ==
    ASSUME Shapes, ThreadPlaces, Ownership, NEW t \in Threads, ThreadStep(t)
    PROVE  ThreadPlaces' /\ Ownership'
<1>1. /\ pc[t] # "idle" /\ op' = op /\ pc' = [pc EXCEPT ![t] = pc'[t]] /\ sent' = [sent EXCEPT ![t] = sent'[t]]
      /\ got' = [got EXCEPT ![t] = got'[t]]
  BY DEF ThreadStep, LockTcp, SendString, SendFails, LockUdt, RecvString, RecvClosed, RecvSegment, RecvSegmentFails, Shapes
<1>2. ASSUME NEW u \in Threads, u # t
      PROVE  pc'[u] = pc[u] /\ op'[u] = op[u] /\ sent'[u] = sent[u] /\ got'[u] = got[u]
  BY <1>1, <1>2 DEF Shapes
<1>3. op[t] \in Commands /\ Args[op[t]] \in 1 .. 4 /\ Args["read"] = 3 /\ sent[t] \in Nat
  BY <1>1, ArgsType DEF ThreadPlaces, ThreadPlace, Shapes
<1>4. ThreadPlace(t)'
  <2> USE <1>3 DEF ThreadPlaces, ThreadPlace, Shapes
  <2>1. CASE LockTcp(t)
    BY <2>1 DEF LockTcp
  <2>2. CASE SendString(t)
    BY <2>2, ArgsType DEF SendString, LockUdtAfter
  <2>3. CASE LockUdt(t)
    BY <2>3 DEF LockUdt
  <2>4. CASE RecvString(t)
    BY <2>4 DEF RecvString
  <2>5. CASE SendFails(t) \/ RecvClosed(t) \/ RecvSegment(t) \/ RecvSegmentFails(t)
    BY <2>5 DEF SendFails, RecvClosed, RecvSegment, RecvSegmentFails
  <2> QED
    BY <2>1, <2>2, <2>3, <2>4, <2>5 DEF ThreadStep
<1>5. ThreadPlaces'
  BY <1>2, <1>4 DEF ThreadPlaces, ThreadPlace
<1>6. \A u, v \in Threads : u # v /\ pc'[u] # "idle" /\ pc'[v] # "idle" => op'[u] \in Locked
  BY <1>1, <1>2 DEF Ownership
\* The mutexes after the step: the thread keeps what it needs, nobody else loses.
<1>7. (HoldsTcp(t)' => tcpmutex' = t) /\ (HoldsUdt(t)' => udtmutex' = t)
  <2> USE <1>3 DEF Shapes, Ownership, HoldsTcp, HoldsUdt
  <2>1. CASE LockTcp(t)
    BY <2>1 DEF LockTcp, ThreadPlaces, ThreadPlace
  <2>2. CASE SendString(t)
    BY <2>2 DEF SendString, LockUdtAfter
  <2>3. CASE LockUdt(t)
    BY <2>3 DEF LockUdt
  <2>4. CASE RecvString(t)
    BY <2>4 DEF RecvString
  <2>5. CASE SendFails(t) \/ RecvClosed(t) \/ RecvSegment(t) \/ RecvSegmentFails(t)
    BY <2>5 DEF SendFails, RecvClosed, RecvSegment, RecvSegmentFails
  <2> QED
    BY <2>1, <2>2, <2>3, <2>4, <2>5 DEF ThreadStep
<1>8. ASSUME NEW u \in Threads, u # t PROVE (HoldsTcp(u)' => tcpmutex' = u) /\ (HoldsUdt(u)' => udtmutex' = u)
  <2>1. (HoldsTcp(u)' = HoldsTcp(u)) /\ (HoldsUdt(u)' = HoldsUdt(u))
    BY <1>2, <1>8 DEF HoldsTcp, HoldsUdt
  <2>2. HoldsTcp(u) => tcpmutex = u /\ u # Free /\ ~HoldsTcp(t)
    BY <1>8, SessionAssumption DEF Ownership
  <2>3. HoldsUdt(u) => udtmutex = u /\ u # Free /\ ~HoldsUdt(t)
    BY <1>8, SessionAssumption DEF Ownership
  <2>4. HoldsTcp(u) => op[t] \in Locked
    BY <1>1, <1>8 DEF HoldsTcp, Ownership
  <2>5. HoldsTcp(u) => tcpmutex' = tcpmutex
    <3> SUFFICES ASSUME HoldsTcp(u) PROVE tcpmutex' = tcpmutex
      OBVIOUS
    <3>1. tcpmutex # Free /\ op[t] \in Locked /\ pc[t] \notin {"send", "udt", "recv"}
      BY <2>2, <2>4 DEF HoldsTcp
    <3> QED
      BY <3>1 DEF ThreadStep, LockTcp, SendString, SendFails, LockUdt, RecvString, RecvClosed, RecvSegment, RecvSegmentFails
  <2>6. HoldsUdt(u) => udtmutex' = udtmutex
    <3> SUFFICES ASSUME HoldsUdt(u) PROVE udtmutex' = udtmutex
      OBVIOUS
    <3>1. udtmutex # Free /\ pc[t] # "data"
      BY <2>3 DEF HoldsUdt
    <3> QED
      BY <3>1 DEF ThreadStep, LockTcp, SendString, SendFails, LockUdt, RecvString, RecvClosed, RecvSegment, RecvSegmentFails
  <2> QED
    BY <2>1, <2>2, <2>3, <2>5, <2>6
<1>9. \A u \in Threads : (HoldsTcp(u)' => tcpmutex' = u) /\ (HoldsUdt(u)' => udtmutex' = u)
  BY <1>7, <1>8
<1> QED
  BY <1>5, <1>6, <1>9 DEF Ownership

\* What a step other than a send leaves of the threads that are sending.
LEMMA SendersKept ==
    ASSUME Shapes, ThreadPlaces, NEW t \in Threads, ThreadStep(t), ~SendString(t), salive
    PROVE  \A u \in Threads : /\ Sending(u)' = Sending(u)
                              /\ Sending(u) => sent'[u] = sent[u] /\ Request(u)' = Request(u)
<1>1. op' = op /\ call' = call /\ sent' = sent /\ \A u \in Threads \ {t} : pc'[u] = pc[u]
  BY DEF ThreadStep, LockTcp, SendFails, LockUdt, RecvString, RecvClosed, RecvSegment, RecvSegmentFails, Shapes
<1>2. Sending(t)' = Sending(t)
  <2> USE DEF Sending, Shapes, ThreadPlaces, ThreadPlace
  <2>1. CASE LockTcp(t)
    BY <2>1 DEF LockTcp
  <2>2. CASE LockUdt(t)
    <3>1. sent[t] = 1 /\ ~(sent[t] > Args[op[t]])
      BY <2>2, ArgsType DEF LockUdt
    <3> QED
      BY <2>2, <3>1 DEF LockUdt
  <2>3. CASE RecvString(t) \/ RecvClosed(t) \/ RecvSegment(t) \/ RecvSegmentFails(t)
    BY <2>3 DEF RecvString, RecvClosed, RecvSegment, RecvSegmentFails
  <2> QED
    BY <2>1, <2>2, <2>3 DEF ThreadStep, SendFails
<1> QED
  BY <1>1, <1>2 DEF Sending, Request

-----------------------------------------------------------------------------
(* The numbers of calls.                                                   *)

LEMMA CallNumbers ==
    ASSUME Shapes, ServerPlace, StreamWhole, Numbers, NEW t \in Threads, NEW o \in Calls, Call(t, o)
    PROVE  Numbers'
<1>1. SameStream /\ Stream' = Stream /\ \A i \in Stream : IsCommand(i)' = IsCommand(i) /\ At(i)' = At(i) /\ At(i).call \in Nat
  BY QuietCall, SameWhole, StreamType DEF SameStream
<1>2. /\ calls \in Nat /\ calls' = calls + 1 /\ call'[t] = calls + 1 /\ sent'[t] = 0
      /\ \A u \in Threads : call[u] \in Nat
      /\ \A u \in Threads : u # t => pc'[u] = pc[u] /\ call'[u] = call[u] /\ sent'[u] = sent[u]
  BY DEF Call, Shapes
<1>3. (\A u \in Threads : call'[u] <= calls') /\ (\A i \in Stream : At(i)'.call <= calls')
  BY <1>1, <1>2 DEF Numbers
<1>4. \A u, v \in Threads : u # v /\ pc'[u] # "idle" /\ pc'[v] # "idle" => call'[u] # call'[v]
  BY <1>2 DEF Numbers
<1>5. \A i, j \in Stream : IsCommand(i)' /\ IsCommand(j)' /\ At(i)'.call = At(j)'.call => i = j
  BY <1>1 DEF Numbers
<1>6. \A u \in Threads : pc'[u] # "idle" /\ sent'[u] = 0 => \A i \in Stream : At(i)'.call # call'[u]
  BY <1>1, <1>2 DEF Numbers
<1> QED
  BY <1>1, <1>3, <1>4, <1>5, <1>6 DEF Numbers

LEMMA StepNumbers ==
    ASSUME Shapes, ServerPlace, ThreadPlaces, StreamWhole, Numbers, NEW t \in Threads, ThreadStep(t)
    PROVE  Numbers'
<1>1. /\ call' = call /\ calls' = calls /\ \A u \in Threads : pc'[u] # "idle" => pc[u] # "idle"
      /\ \A u \in Threads : sent'[u] = 0 => sent[u] = 0
  BY DEF ThreadStep, LockTcp, SendString, SendFails, LockUdt, RecvString, RecvClosed, RecvSegment, RecvSegmentFails, Shapes
<1>2. CASE ~(SendString(t) /\ salive)
  <2>1. SameStream /\ Stream' = Stream /\ \A i \in Stream : IsCommand(i)' = IsCommand(i) /\ At(i)' = At(i)
    BY <1>2, QuietThread, SameWhole DEF SameStream
  <2>2. (\A u \in Threads : call'[u] <= calls') /\ (\A i \in Stream : At(i)'.call <= calls')
    BY <1>1, <2>1 DEF Numbers
  <2>3. \A u, v \in Threads : u # v /\ pc'[u] # "idle" /\ pc'[v] # "idle" => call'[u] # call'[v]
    BY <1>1 DEF Numbers
  <2>4. \A i, j \in Stream : IsCommand(i)' /\ IsCommand(j)' /\ At(i)'.call = At(j)'.call => i = j
    BY <2>1 DEF Numbers
  <2>5. \A u \in Threads : pc'[u] # "idle" /\ sent'[u] = 0 => \A i \in Stream : At(i)'.call # call'[u]
    BY <1>1, <2>1 DEF Numbers
  <2> QED
    BY <2>1, <2>2, <2>3, <2>4, <2>5 DEF Numbers
<1>3. CASE SendString(t) /\ salive
  <2>1. GrownBy([call |-> call[t], text |-> Text(op[t], sent[t])])
    BY <1>3, SendGrows
  <2>2. PICK N \in Nat : N = StreamLen
    BY StreamType
  <2>3. Stream = 1 .. N /\ Stream' = 1 .. N + 1
    BY <2>1, <2>2 DEF GrownBy, Stream
  <2>4. At(N + 1)' = [call |-> call[t], text |-> Text(op[t], sent[t])] /\ \A i \in 1 .. N : At(i)' = At(i)
    BY <2>1, <2>2, <2>3 DEF GrownBy
  <2>5. \A i \in 1 .. N : IsCommand(i)' = IsCommand(i)
    BY <2>4 DEF IsCommand
  <2>6. pc[t] = "send" /\ sent[t] \in Nat /\ sent'[t] = sent[t] + 1
    BY <1>3 DEF SendString, Shapes
  <2>7. IsCommand(N + 1)' => sent[t] = 0
    BY <2>4, ArgsType DEF IsCommand, Text
  <2>8. (\A u \in Threads : call'[u] <= calls') /\ (\A i \in 1 .. N + 1 : At(i)'.call <= calls')
    BY <1>1, <2>3, <2>4 DEF Numbers
  <2>9. \A u, v \in Threads : u # v /\ pc'[u] # "idle" /\ pc'[v] # "idle" => call'[u] # call'[v]
    BY <1>1 DEF Numbers
  <2>10. ASSUME NEW i \in 1 .. N, IsCommand(N + 1)' PROVE At(i)'.call # At(N + 1)'.call
    BY <2>10, <2>3, <2>4, <2>6, <2>7 DEF Numbers
  <2>11. \A i, j \in 1 .. N + 1 : IsCommand(i)' /\ IsCommand(j)' /\ At(i)'.call = At(j)'.call => i = j
    <3> TAKE i, j \in 1 .. N + 1
    <3>1. CASE i \in 1 .. N /\ j \in 1 .. N
      BY <3>1, <2>3, <2>4, <2>5 DEF Numbers
    <3>2. CASE i = N + 1 /\ j \in 1 .. N
      BY <3>2, <2>10
    <3>3. CASE i \in 1 .. N /\ j = N + 1
      BY <3>3, <2>10
    <3> QED
      BY <3>1, <3>2, <3>3
  <2>12. \A u \in Threads : pc'[u] # "idle" /\ sent'[u] = 0 => \A i \in 1 .. N + 1 : At(i)'.call # call'[u]
    <3> SUFFICES ASSUME NEW u \in Threads, pc'[u] # "idle", sent'[u] = 0 PROVE \A i \in 1 .. N + 1 : At(i)'.call # call'[u]
      OBVIOUS
    <3>1. u # t /\ pc[u] # "idle" /\ sent[u] = 0 /\ call[u] # call[t]
      BY <1>1, <2>6 DEF Numbers
    <3> QED
      BY <3>1, <1>1, <2>3, <2>4 DEF Numbers
  <2> QED
    BY <2>3, <2>8, <2>9, <2>11, <2>12 DEF Numbers
<1> QED
  BY <1>2, <1>3

\* What is gone from the stream is asked no more, and what was asked once is gone.
LEMMA ExecuteNumbers ==
    ASSUME Shapes, ServerPlace, Numbers, ServerExecute
    PROVE  Numbers' /\ \A c : Asked(c)' => Asked(c) /\ c # sfrom
<1>1. PICK n \in 2 .. 5 : n = End(1) /\ n = 1 + Args[sop] /\ n <= StreamLen /\ ShrunkBy(n)
  BY ExecuteShrinks
<1>2. PICK N \in Nat : N = StreamLen
  BY StreamType
<1>3. StreamLen' = N - n /\ Stream = 1 .. N /\ Stream' = 1 .. N - n /\ n <= N
  BY <1>1, <1>2 DEF ShrunkBy, Stream
<1>4. \A i \in 1 .. N - n : \E v \in 1 .. N : v = i + n /\ At(i)' = At(v) /\ IsCommand(i)' = IsCommand(v)
  BY <1>1, <1>2 DEF ShrunkBy, IsCommand
<1>5. IsCommand(1) /\ At(1) = [call |-> sfrom, text |-> sop] /\ 1 \in 1 .. N
      /\ UNCHANGED <<pc, op, call, sent, got, calls, tcpmutex, udtmutex, c2s>>
  BY ExecuteShrinks, <1>3
<1>6. (\A u \in Threads : call'[u] <= calls') /\ (\A i \in 1 .. N - n : At(i)'.call <= calls')
  BY <1>3, <1>4, <1>5 DEF Numbers
<1>7. \A u, v \in Threads : u # v /\ pc'[u] # "idle" /\ pc'[v] # "idle" => call'[u] # call'[v]
  BY <1>5 DEF Numbers
<1>8. \A i, j \in 1 .. N - n : IsCommand(i)' /\ IsCommand(j)' /\ At(i)'.call = At(j)'.call => i = j
  <2> SUFFICES ASSUME NEW i \in 1 .. N - n, NEW j \in 1 .. N - n, IsCommand(i)', IsCommand(j)', At(i)'.call = At(j)'.call
               PROVE  i = j
    OBVIOUS
  <2>1. PICK v \in 1 .. N, w \in 1 .. N : /\ v = i + n /\ At(i)' = At(v) /\ IsCommand(i)' = IsCommand(v)
                                          /\ w = j + n /\ At(j)' = At(w) /\ IsCommand(j)' = IsCommand(w)
    BY <1>4
  <2>2. v = w
    BY <2>1, <1>3 DEF Numbers
  <2> QED
    BY <2>1, <2>2
<1>9. \A u \in Threads : pc'[u] # "idle" /\ sent'[u] = 0 => \A i \in 1 .. N - n : At(i)'.call # call'[u]
  BY <1>3, <1>4, <1>5 DEF Numbers
<1>11. \A i \in 1 .. N - n : IsCommand(i)' => At(i)'.call # sfrom
  <2> SUFFICES ASSUME NEW i \in 1 .. N - n, IsCommand(i)' PROVE At(i)'.call # sfrom
    OBVIOUS
  <2>1. PICK v \in 1 .. N : v = i + n /\ At(i)' = At(v) /\ IsCommand(i)' = IsCommand(v)
    BY <1>4
  <2>2. At(v).call = sfrom => v = 1
    BY <2>1, <1>3, <1>5 DEF Numbers
  <2> QED
    BY <2>1, <2>2
<1>10. \A c : Asked(c)' => Asked(c) /\ c # sfrom
  BY <1>3, <1>4, <1>11 DEF Asked
<1>12. Numbers'
  BY <1>3, <1>6, <1>7, <1>8, <1>9 DEF Numbers
<1> QED
  BY <1>10, <1>11, <1>12

-----------------------------------------------------------------------------
(* Askers and answers.                                                     *)

Reading ==
    Shapes /\ ServerPlace /\ StreamWhole /\ StreamEnds /\ ThreadPlaces /\ Ownership /\ Numbers

LEMMA AskedAfter ==
    ASSUME Reading, NEW t \in Threads, ThreadStep(t)
    PROVE  \A c : Asked(c)' => Asked(c) \/ (SendString(t) /\ c = call[t])
<1> USE DEF Reading
<1>1. CASE ~(SendString(t) /\ salive)
  <2>1. SameStream /\ Stream' = Stream /\ \A i \in Stream : IsCommand(i)' = IsCommand(i) /\ At(i)' = At(i)
    BY <1>1, QuietThread, SameWhole DEF SameStream
  <2> QED
    BY <2>1 DEF Asked
<1>2. CASE SendString(t) /\ salive
  <2>1. GrownBy([call |-> call[t], text |-> Text(op[t], sent[t])])
    BY <1>2, SendGrows
  <2>2. PICK N \in Nat : N = StreamLen
    BY StreamType
  <2>3. Stream = 1 .. N /\ Stream' = 1 .. N + 1
    BY <2>1, <2>2 DEF GrownBy, Stream
  <2>4. At(N + 1)' = [call |-> call[t], text |-> Text(op[t], sent[t])] /\ \A i \in 1 .. N : At(i)' = At(i)
    BY <2>1, <2>2, <2>3 DEF GrownBy
  <2>5. \A i \in 1 .. N : IsCommand(i)' = IsCommand(i)
    BY <2>4 DEF IsCommand
  <2> QED
    BY <1>2, <2>3, <2>4, <2>5 DEF Asked
<1> QED
  BY <1>1, <1>2

\* The call that waits for the answer to the request that is executed.
LEMMA AskerOfExecuted ==
    ASSUME Reading, AskersWait, ServerExecute, sop \in Locked
    PROVE  \E w \in Threads : /\ call[w] = sfrom /\ op[w] = sop /\ got[w] = << >> /\ Asked(call[w])
                              /\ pc[w] = IF sop = "read" THEN "data" ELSE "recv"
<1> USE DEF Reading
<1>1. PICK n \in 2 .. 5 : n = End(1) /\ n = 1 + Args[sop] /\ n <= StreamLen
  BY ExecuteShrinks
<1>2. /\ sop \in Commands /\ 1 \in Stream /\ IsCommand(1) /\ At(1) = [call |-> sfrom, text |-> sop] /\ salive
      /\ Args[sop] \in 1 .. 4
  BY ExecuteShrinks, ArgsType DEF ServerExecute
<1>3. PICK w \in Threads : pc[w] \notin {"idle", "tcp"} /\ sent[w] > 0 /\ got[w] = << >> /\ At(1) = Request(w)
  BY <1>2 DEF AskersWait
<1>4. call[w] = sfrom /\ op[w] = sop /\ Asked(call[w])
  BY <1>2, <1>3 DEF Request, Asked
<1>5. ~Sending(w)
  <2> SUFFICES ASSUME Sending(w) PROVE FALSE
    OBVIOUS
  <2>1. PICK p \in Stream : p = StreamLen - sent[w] + 1 /\ At(p) = Request(w)
    BY <1>2 DEF StreamEnds
  <2>2. p = 1
    BY <2>1, <1>2, <1>3 DEF Numbers, IsCommand
  <2>3. sent[w] <= Args[sop] /\ sent[w] \in Nat /\ StreamLen \in Nat
    BY <1>4, StreamType DEF Sending, ThreadPlaces, ThreadPlace, Shapes
  <2> QED
    BY <2>1, <2>2, <2>3, <1>1, <1>2
<1>6. pc[w] \in {"recv", "data"}
  BY <1>3, <1>5 DEF Sending, Shapes
<1>7. pc[w] = IF sop = "read" THEN "data" ELSE "recv"
  BY <1>4, <1>6 DEF ThreadPlaces, ThreadPlace
<1> QED
  BY <1>3, <1>4, <1>7

LEMMA CallWaits ==
    ASSUME Reading, AskersWait, AnswersFit, NEW t \in Threads, NEW o \in Calls, Call(t, o)
    PROVE  AskersWait' /\ AnswersFit'
<1> USE DEF Reading
<1>1. SameStream /\ Stream' = Stream /\ \A i \in Stream : IsCommand(i)' = IsCommand(i) /\ At(i)' = At(i)
  BY QuietCall, SameWhole DEF SameStream
<1>2. /\ pc[t] = "idle" /\ salive' = salive /\ s2c' = s2c /\ udt' = udt /\ got'[t] = << >>
      /\ \A u \in Threads : u # t => /\ pc'[u] = pc[u] /\ call'[u] = call[u] /\ sent'[u] = sent[u]
                                     /\ got'[u] = got[u] /\ op'[u] = op[u]
  BY DEF Call, Shapes, netVars, serverVars
<1>3. AskersWait'
  <2> SUFFICES ASSUME salive, NEW i \in Stream, At(i).text \in Locked
               PROVE  \E u \in Threads : /\ pc'[u] \notin {"idle", "tcp"} /\ sent'[u] > 0 /\ got'[u] = << >>
                                         /\ At(i) = Request(u)'
    BY <1>1, <1>2 DEF AskersWait
  <2>1. PICK u \in Threads : /\ pc[u] \notin {"idle", "tcp"} /\ sent[u] > 0 /\ got[u] = << >> /\ At(i) = Request(u)
    BY DEF AskersWait
  <2> QED
    BY <2>1, <1>2 DEF Request
<1>4. \A c : Asked(c)' => Asked(c)
  BY <1>1 DEF Asked
<1>5. AnswersReachAsker'
  BY <1>2 DEF AnswersFit, AnswersReachAsker
<1>6. s2c' # << >> => \E u \in Threads :
           /\ pc'[u] = "recv" /\ ~Asked(call[u])' /\ IsRest(op'[u], Len(got'[u]), s2c')
           /\ \A k \in 1 .. Len(s2c') : s2c'[k].call = call'[u]
  <2> SUFFICES ASSUME s2c # << >> PROVE \E u \in Threads :
           /\ pc'[u] = "recv" /\ ~Asked(call[u])' /\ IsRest(op'[u], Len(got'[u]), s2c')
           /\ \A k \in 1 .. Len(s2c') : s2c'[k].call = call'[u]
    BY <1>2
  <2>1. PICK u \in Threads : /\ pc[u] = "recv" /\ ~Asked(call[u]) /\ IsRest(op[u], Len(got[u]), s2c)
                             /\ \A k \in 1 .. Len(s2c) : s2c[k].call = call[u]
    BY DEF AnswersFit
  <2>2. u # t /\ call'[u] = call[u]
    BY <2>1, <1>2
  <2>3. \A c : c = call'[u] => ~Asked(c)'
    BY <2>1, <2>2, <1>4
  <2>4. ~Asked(call[u])'
    BY <2>3 DEF Asked
  <2> QED
    BY <2>1, <2>2, <2>4, <1>2
<1>7. udt' # << >> => \E u \in Threads : pc'[u] = "data" /\ ~Asked(call[u])' /\ udt' = <<call'[u]>>
  <2> SUFFICES ASSUME udt # << >> PROVE \E u \in Threads : pc'[u] = "data" /\ ~Asked(call[u])' /\ udt' = <<call'[u]>>
    BY <1>2
  <2>1. PICK u \in Threads : pc[u] = "data" /\ ~Asked(call[u]) /\ udt = <<call[u]>>
    BY DEF AnswersFit
  <2>2. u # t /\ call'[u] = call[u]
    BY <2>1, <1>2
  <2>3. \A c : c = call'[u] => ~Asked(c)'
    BY <2>1, <2>2, <1>4
  <2>4. ~Asked(call[u])'
    BY <2>3 DEF Asked
  <2> QED
    BY <2>1, <2>2, <2>4, <1>2
<1> QED
  BY <1>3, <1>5, <1>6, <1>7 DEF AnswersFit

\* An answer ends where the client takes it to end.
LEMMA RestOfAnswer ==
    ASSUME NEW s \in Seq(Answers), s # << >>, NEW n \in Nat, NEW o, IsRest(o, n, s)
    PROVE  /\ Complete(o, n + 1, Head(s).text) => Tail(s) = << >>
           /\ ~Complete(o, n + 1, Head(s).text) => IsRest(o, n + 1, Tail(s))
<1>1. /\ Head(s) = s[1] /\ Len(s) \in Nat /\ Tail(s) \in Seq(Answers)
      /\ Len(Tail(s)) = Len(s) - 1 /\ \A k \in 1 .. Len(s) - 1 : Tail(s)[k] = s[k + 1]
  BY HeadTailProperties
<1>2. Len(Tail(s)) = 0 => Tail(s) = << >>
  BY <1>1, EmptySeq
<1>3. CASE Len(s) = 1 /\ s[1].text = "TERM" /\ (n = 0 \/ o = "dir")
  BY <1>1, <1>2, <1>3 DEF Complete
<1>4. CASE Len(s) = 2 /\ s[1].text = "entry" /\ s[2].text = "TERM" /\ o = "dir"
  <2>1. Head(s).text = "entry" /\ Len(Tail(s)) = 1 /\ Tail(s)[1].text = "TERM"
    BY <1>1, <1>4
  <2> QED
    BY <2>1, <1>4 DEF Complete, IsRest
<1>5. CASE Len(s) = 2 - n /\ n \in {0, 1} /\ o = "getattr" /\ \A k \in 1 .. Len(s) : s[k].text = "attr"
  <2>1. Head(s).text = "attr"
    BY <1>1, <1>5
  <2>2. CASE n = 1
    BY <1>1, <1>2, <1>5, <2>1, <2>2 DEF Complete, AttrStrings
  <2>3. CASE n = 0
    <3>1. Len(Tail(s)) = 1 /\ Tail(s)[1].text = "attr" /\ Len(s) = 2
      BY <1>1, <1>5, <2>3
    <3>2. n + 1 = 1 /\ n + 1 \in {0, 1} /\ Len(Tail(s)) = 2 - (n + 1) /\ \A k \in 1 .. Len(Tail(s)) : Tail(s)[k].text = "attr"
      <4>1. n + 1 = 1 /\ n + 1 \in {0, 1} /\ Len(Tail(s)) = 2 - (n + 1)
        BY <3>1, <2>3
      <4>2. ASSUME NEW k \in 1 .. Len(Tail(s)) PROVE Tail(s)[k].text = "attr"
        <5>1. k = 1
          <6>1. 1 .. Len(Tail(s)) = 1 .. 1
            BY <3>1
          <6>2. k \in 1 .. 1
            BY <4>2, <6>1
          <6> QED
            BY <6>2
        <5> QED
          BY <5>1, <3>1
      <4> QED
        BY <4>1, <4>2
    <3>3. IsRest(o, n + 1, Tail(s))
      BY <3>2, <1>5 DEF IsRest
    <3> QED
      BY <3>2, <3>3, <2>1 DEF Complete, AttrStrings
  <2> QED
    BY <1>5, <2>2, <2>3
<1> QED
  BY <1>3, <1>4, <1>5 DEF IsRest

\* The thread that receives is the one the answer is for.
LEMMA ReceiverIsAsker ==
    ASSUME Reading, AnswersFit, NEW t \in Threads
    PROVE  /\ RecvString(t) => /\ ~Asked(call[t]) /\ IsRest(op[t], Len(got[t]), s2c)
                               /\ \A k \in 1 .. Len(s2c) : s2c[k].call = call[t]
           /\ RecvSegment(t) => ~Asked(call[t]) /\ udt = <<call[t]>>
<1>1. ASSUME RecvString(t)
      PROVE  /\ ~Asked(call[t]) /\ IsRest(op[t], Len(got[t]), s2c)
             /\ \A k \in 1 .. Len(s2c) : s2c[k].call = call[t]
  <2>1. s2c # << >> /\ pc[t] = "recv"
    BY <1>1 DEF RecvString
  <2>2. PICK u \in Threads : /\ pc[u] = "recv" /\ ~Asked(call[u]) /\ IsRest(op[u], Len(got[u]), s2c)
                             /\ \A k \in 1 .. Len(s2c) : s2c[k].call = call[u]
    BY <2>1 DEF AnswersFit
  <2>3. u = t
    BY <2>1, <2>2, OneAtATime DEF Reading
  <2> QED
    BY <2>2, <2>3
<1>2. ASSUME RecvSegment(t) PROVE ~Asked(call[t]) /\ udt = <<call[t]>>
  <2>1. udt # << >> /\ pc[t] = "data"
    BY <1>2 DEF RecvSegment
  <2>2. PICK u \in Threads : pc[u] = "data" /\ ~Asked(call[u]) /\ udt = <<call[u]>>
    BY <2>1 DEF AnswersFit
  <2>3. u = t
    BY <2>1, <2>2, OneAtATime DEF Reading
  <2> QED
    BY <2>2, <2>3
<1> QED
  BY <1>1, <1>2

LEMMA StepAskers ==
    ASSUME Reading, AskersWait, AnswersFit, NEW t \in Threads, ThreadStep(t)
    PROVE  AskersWait'
<1> USE DEF Reading
<1> DEFINE Waits(w, s) == pc[w] \notin {"idle", "tcp"} /\ sent[w] > 0 /\ got[w] = << >> /\ s = Request(w)
<1>1. salive' = salive /\ op' = op /\ call' = call
      /\ \A u \in Threads \ {t} : pc'[u] = pc[u] /\ sent'[u] = sent[u] /\ got'[u] = got[u]
  BY DEF ThreadStep, LockTcp, SendString, SendFails, LockUdt, RecvString, RecvClosed, RecvSegment, RecvSegmentFails, Shapes, serverVars
<1>2. ASSUME salive, NEW i \in Stream, At(i).text \in Locked
      PROVE  \E w \in Threads : pc'[w] \notin {"idle", "tcp"} /\ sent'[w] > 0 /\ got'[w] = << >> /\ At(i) = Request(w)'
  <2>1. PICK w \in Threads : pc[w] \notin {"idle", "tcp"} /\ sent[w] > 0 /\ got[w] = << >> /\ At(i) = Request(w)
    BY <1>2 DEF AskersWait
  <2>2. CASE w # t
    BY <2>1, <2>2, <1>1 DEF Request
  <2>3. CASE w = t
    <3>1. Asked(call[t]) /\ op[t] \in Locked
      BY <2>1, <2>3, <1>2, ArgsType DEF Asked, IsCommand, Request
    <3>2. ~RecvString(t) /\ ~RecvSegment(t)
      BY <3>1, ReceiverIsAsker
    <3>3. pc'[t] \notin {"idle", "tcp"} /\ sent'[t] > 0 /\ got'[t] = << >>
      BY <2>1, <2>3, <3>1, <3>2, <1>2 DEF ThreadStep, LockTcp, SendString, SendFails, LockUdt, RecvClosed, RecvSegmentFails, Shapes
    <3> QED
      BY <2>1, <2>3, <3>3, <1>1 DEF Request
  <2> QED
    BY <2>2, <2>3
<1>3. CASE ~(SendString(t) /\ salive)
  <2>1. SameStream /\ Stream' = Stream
    BY <1>3, QuietThread, SameWhole
  <2> QED
    BY <2>1, <1>1, <1>2 DEF AskersWait, SameStream
<1>4. CASE SendString(t) /\ salive
  <2>1. GrownBy([call |-> call[t], text |-> Text(op[t], sent[t])])
    BY <1>4, SendGrows
  <2>2. PICK N \in Nat : N = StreamLen
    BY StreamType
  <2>3. Stream = 1 .. N /\ Stream' = 1 .. N + 1
    BY <2>1, <2>2 DEF GrownBy, Stream
  <2>4. At(N + 1)' = [call |-> call[t], text |-> Text(op[t], sent[t])] /\ \A i \in 1 .. N : At(i)' = At(i)
    BY <2>1, <2>2, <2>3 DEF GrownBy
  <2>5. ASSUME At(N + 1)'.text \in Locked
        PROVE  pc'[t] \notin {"idle", "tcp"} /\ sent'[t] > 0 /\ got'[t] = << >> /\ At(N + 1)' = Request(t)'
    <3>1. sent[t] = 0 /\ op[t] \in Locked
      BY <2>4, <2>5, ArgsType DEF Text, Locked
    <3>2. pc[t] = "send" /\ got[t] = << >> /\ sent'[t] = 1 /\ got' = got
      BY <1>4, <3>1 DEF SendString, ThreadPlaces, ThreadPlace, Shapes
    <3>3. pc'[t] \in {"send", "udt"}
      <4>1. Args[op[t]] \in 1 .. 4
        BY <3>1, ArgsType
      <4> QED
        BY <1>4, <3>1, <4>1 DEF SendString, Shapes
    <3>4. At(N + 1)' = Request(t)
      BY <2>4, <3>1 DEF Text, Request
    <3> QED
      BY <3>2, <3>3, <3>4, <1>1 DEF Request
  <2>6. ASSUME NEW i \in 1 .. N + 1, At(i)'.text \in Locked
        PROVE  \E w \in Threads : pc'[w] \notin {"idle", "tcp"} /\ sent'[w] > 0 /\ got'[w] = << >> /\ At(i)' = Request(w)'
    <3>1. CASE i = N + 1
      BY <3>1, <2>5, <2>6
    <3>2. CASE i # N + 1
      <4>1. i \in 1 .. N /\ At(i)' = At(i)
        BY <3>2, <2>4
      <4> QED
        BY <4>1, <2>3, <2>6, <1>2, <1>4
    <3> QED
      BY <3>1, <3>2
  <2> QED
    BY <2>3, <2>6 DEF AskersWait
<1> QED
  BY <1>3, <1>4

LEMMA StepAnswers ==
    ASSUME Reading, AnswersFit, NEW t \in Threads, ThreadStep(t)
    PROVE  AnswersFit'
<1> USE DEF Reading
<1>1. op' = op /\ call' = call /\ pc[t] # "idle"
      /\ \A u \in Threads \ {t} : pc'[u] = pc[u] /\ got'[u] = got[u]
  BY DEF ThreadStep, LockTcp, SendString, SendFails, LockUdt, RecvString, RecvClosed, RecvSegment, RecvSegmentFails, Shapes
\* What was not asked for is not asked for by this step, unless its own thread sends.
<1>2. ASSUME NEW u \in Threads, pc[u] \in {"recv", "data"}, ~Asked(call[u]) PROVE ~Asked(call[u])'
  <2>1. ~(SendString(t) /\ call[u] = call[t])
    BY <1>2 DEF SendString, Numbers
  <2>2. \A c : c = call[u] => ~Asked(c)'
    BY <2>1, <1>2, AskedAfter
  <2> QED
    BY <2>2, <1>1 DEF Asked
<1>3. CASE RecvString(t)
  <2>1. /\ ~Asked(call[t]) /\ IsRest(op[t], Len(got[t]), s2c) /\ pc[t] = "recv" /\ s2c # << >>
        /\ \A k \in 1 .. Len(s2c) : s2c[k].call = call[t]
    BY <1>3, ReceiverIsAsker DEF RecvString
  <2>2. /\ s2c \in Seq(Answers) /\ Len(s2c) \in Nat /\ Len(s2c) > 0 /\ Head(s2c) = s2c[1] /\ Head(s2c).call = call[t]
        /\ Len(Tail(s2c)) = Len(s2c) - 1 /\ \A k \in 1 .. Len(s2c) - 1 : Tail(s2c)[k] = s2c[k + 1]
    <3>1. s2c \in Seq(Answers)
      BY DEF Shapes
    <3>2. Head(s2c) = s2c[1] /\ Len(Tail(s2c)) = Len(s2c) - 1 /\ \A k \in 1 .. Len(s2c) - 1 : Tail(s2c)[k] = s2c[k + 1]
      BY <2>1, <3>1, HeadTailProperties
    <3>3. Len(s2c) \in Nat /\ Len(s2c) > 0
      BY <2>1, <3>1, EmptySeq
    <3> QED
      BY <2>1, <3>1, <3>2, <3>3
  <2>3. got[t] \in Seq(Nat) /\ call[t] \in Nat /\ Len(got[t]) \in Nat
    BY DEF Shapes
  <2>4. got'[t] = Append(got[t], call[t]) /\ s2c' = Tail(s2c) /\ udt' = udt
    BY <1>3, <2>2 DEF RecvString, Shapes
  <2>5. Len(got'[t]) = Len(got[t]) + 1 /\ \A k \in 1 .. Len(got[t]) + 1 : got'[t][k] = call[t]
    BY <2>3, <2>4 DEF AnswersFit, AnswersReachAsker
  <2>6. AnswersReachAsker'
    BY <2>5, <1>1 DEF AnswersFit, AnswersReachAsker
  <2>7. s2c' # << >> => pc'[t] = "recv" /\ IsRest(op'[t], Len(got'[t]), s2c')
    <3>1. /\ Complete(op[t], Len(got[t]) + 1, Head(s2c).text) => Tail(s2c) = << >>
          /\ ~Complete(op[t], Len(got[t]) + 1, Head(s2c).text) => IsRest(op[t], Len(got[t]) + 1, Tail(s2c))
      BY <2>1, <2>2, <2>3, RestOfAnswer
    <3>2. ~Complete(op[t], Len(got[t]) + 1, Head(s2c).text) => pc' = pc
      BY <1>3 DEF RecvString
    <3> QED
      BY <3>1, <3>2, <2>1, <2>4, <2>5, <1>1
  <2>8. \A k \in 1 .. Len(s2c') : s2c'[k].call = call'[t]
    BY <2>1, <2>2, <2>4, <1>1
  <2>9. ~Asked(call[t])'
    BY <2>1, <1>2
  <2>10. udt' # << >> => \E u \in Threads : pc'[u] = "data" /\ ~Asked(call[u])' /\ udt' = <<call'[u]>>
    <3> SUFFICES ASSUME udt # << >> PROVE \E u \in Threads : pc'[u] = "data" /\ ~Asked(call[u])' /\ udt' = <<call'[u]>>
      BY <2>4
    <3>1. PICK u \in Threads : pc[u] = "data" /\ ~Asked(call[u]) /\ udt = <<call[u]>>
      BY DEF AnswersFit
    <3>2. u # t
      BY <3>1, <2>1
    <3> QED
      BY <3>1, <3>2, <1>1, <1>2, <2>4
  <2> QED
    BY <2>6, <2>7, <2>8, <2>9, <2>10 DEF AnswersFit
<1>4. CASE RecvSegment(t)
  <2>1. ~Asked(call[t]) /\ udt = <<call[t]>> /\ pc[t] = "data"
    BY <1>4, ReceiverIsAsker DEF RecvSegment
  <2>2. got[t] \in Seq(Nat) /\ call[t] \in Nat /\ Len(got[t]) \in Nat
    BY DEF Shapes
  <2>3. got'[t] = Append(got[t], call[t]) /\ udt' = << >> /\ s2c' = s2c
    BY <1>4, <2>1, <2>2 DEF RecvSegment, Shapes
  <2>4. AnswersReachAsker'
    <3>1. Len(got'[t]) = Len(got[t]) + 1 /\ \A k \in 1 .. Len(got[t]) + 1 : got'[t][k] = call[t]
      BY <2>2, <2>3 DEF AnswersFit, AnswersReachAsker
    <3> QED
      BY <3>1, <1>1 DEF AnswersFit, AnswersReachAsker
  <2>5. s2c' # << >> => \E u \in Threads :
           /\ pc'[u] = "recv" /\ ~Asked(call[u])' /\ IsRest(op'[u], Len(got'[u]), s2c')
           /\ \A k \in 1 .. Len(s2c') : s2c'[k].call = call'[u]
    <3> SUFFICES ASSUME s2c # << >> PROVE \E u \in Threads :
           /\ pc'[u] = "recv" /\ ~Asked(call[u])' /\ IsRest(op'[u], Len(got'[u]), s2c')
           /\ \A k \in 1 .. Len(s2c') : s2c'[k].call = call'[u]
      BY <2>3
    <3>1. PICK u \in Threads : /\ pc[u] = "recv" /\ ~Asked(call[u]) /\ IsRest(op[u], Len(got[u]), s2c)
                               /\ \A k \in 1 .. Len(s2c) : s2c[k].call = call[u]
      BY DEF AnswersFit
    <3>2. u # t
      BY <3>1, <2>1
    <3>3. pc'[u] = pc[u] /\ got'[u] = got[u] /\ ~Asked(call[u])'
      BY <3>1, <3>2, <1>1, <1>2
    <3> QED
      BY <3>1, <3>3, <1>1, <2>3
  <2> QED
    BY <2>3, <2>4, <2>5 DEF AnswersFit
<1>5. CASE ~RecvString(t) /\ ~RecvSegment(t)
  <2>1. got' = got /\ s2c' = s2c /\ udt' = udt
    BY <1>5 DEF ThreadStep, LockTcp, SendString, SendFails, LockUdt, RecvClosed, RecvSegmentFails, netVars
  <2>2. /\ pc[t] = "recv" => s2c = << >>
        /\ pc[t] = "data" => udt = << >>
    BY <1>5 DEF ThreadStep, LockTcp, SendString, SendFails, LockUdt, RecvClosed, RecvSegmentFails
  <2>3. s2c' # << >> => \E u \in Threads :
           /\ pc'[u] = "recv" /\ ~Asked(call[u])' /\ IsRest(op'[u], Len(got'[u]), s2c')
           /\ \A k \in 1 .. Len(s2c') : s2c'[k].call = call'[u]
    <3> SUFFICES ASSUME s2c # << >> PROVE \E u \in Threads :
           /\ pc'[u] = "recv" /\ ~Asked(call[u])' /\ IsRest(op'[u], Len(got'[u]), s2c')
           /\ \A k \in 1 .. Len(s2c') : s2c'[k].call = call'[u]
      BY <2>1
    <3>1. PICK u \in Threads : /\ pc[u] = "recv" /\ ~Asked(call[u]) /\ IsRest(op[u], Len(got[u]), s2c)
                               /\ \A k \in 1 .. Len(s2c) : s2c[k].call = call[u]
      BY DEF AnswersFit
    <3>2. u # t
      BY <3>1, <2>2
    <3>3. pc'[u] = pc[u] /\ ~Asked(call[u])'
      BY <3>1, <3>2, <1>1, <1>2
    <3> QED
      BY <3>1, <3>3, <1>1, <2>1
  <2>4. udt' # << >> => \E u \in Threads : pc'[u] = "data" /\ ~Asked(call[u])' /\ udt' = <<call'[u]>>
    <3> SUFFICES ASSUME udt # << >> PROVE \E u \in Threads : pc'[u] = "data" /\ ~Asked(call[u])' /\ udt' = <<call'[u]>>
      BY <2>1
    <3>1. PICK u \in Threads : pc[u] = "data" /\ ~Asked(call[u]) /\ udt = <<call[u]>>
      BY DEF AnswersFit
    <3>2. u # t
      BY <3>1, <2>2
    <3> QED
      BY <3>1, <3>2, <1>1, <1>2, <2>1
  <2>5. AnswersReachAsker'
    BY <2>1, <1>1 DEF AnswersFit, AnswersReachAsker
  <2> QED
    BY <2>3, <2>4, <2>5 DEF AnswersFit
<1> QED
  BY <1>3, <1>4, <1>5

LEMMA QuietWaits ==
    ASSUME Reading, AskersWait, AnswersFit, ~LongNames, ServerRecvCommand \/ ServerRecvArg
    PROVE  Reading' /\ AskersWait' /\ AnswersFit'
<1> USE DEF Reading
<1>1. SameStream /\ ServerPlace' /\ UNCHANGED <<pc, op, call, sent, got, calls, tcpmutex, udtmutex, s2c, udt, salive>>
  BY QuietServer DEF threadVars, mutexVars
<1>2. StreamWhole' /\ Stream' = Stream
      /\ \A i \in Stream : IsCommand(i)' = IsCommand(i) /\ End(i)' = End(i) /\ At(i)' = At(i)
  BY <1>1, SameWhole DEF SameStream
<1>3. Shapes'
  BY ServerShapes DEF ServerStep
<1>4. StreamEnds'
  BY <1>1, SameEnds DEF Sending, Request
<1>5. ThreadPlaces' /\ Ownership'
  BY <1>1 DEF ThreadPlaces, ThreadPlace, Ownership, HoldsTcp, HoldsUdt
<1>6. Numbers'
  BY <1>1, <1>2 DEF Numbers
<1>7. AskersWait'
  BY <1>1, <1>2 DEF AskersWait, Request
<1>8. \A u \in Threads : Asked(call[u])' = Asked(call[u])
  BY <1>1, <1>2 DEF Asked
<1>9. AnswersFit'
  BY <1>1, <1>8 DEF AnswersFit, AnswersReachAsker, IsRest
<1> QED
  BY <1>1, <1>2, <1>3, <1>4, <1>5, <1>6, <1>7, <1>9

LEMMA ExecuteAnswers ==
    ASSUME Reading, AskersWait, AnswersFit, ServerExecute
    PROVE  AnswersFit'
<1> USE DEF Reading
<1>1. UNCHANGED <<pc, op, call, sent, got, calls>>
  BY ExecuteShrinks
<1>2. \A u \in Threads : /\ ~Asked(call[u]) => ~Asked(call[u])'
                         /\ call[u] = sfrom => ~Asked(call[u])'
  <2> TAKE u \in Threads
  <2>1. \A c : c = call[u] /\ (~Asked(c) \/ c = sfrom) => ~Asked(c)'
    BY ExecuteNumbers
  <2> QED
    BY <2>1, <1>1 DEF Asked
<1>3. AnswersReachAsker'
  BY <1>1 DEF AnswersFit, AnswersReachAsker
\* A request that is answered on TCP finds no other answer there, and so on UDT.
<1>4. ASSUME sop \in Locked, sop # "read"
      PROVE  s2c = << >> /\ \E w \in Threads : call[w] = sfrom /\ op[w] = sop /\ got[w] = << >> /\ pc[w] = "recv"
  <2>1. PICK w \in Threads : call[w] = sfrom /\ op[w] = sop /\ got[w] = << >> /\ Asked(call[w]) /\ pc[w] = "recv"
    BY <1>4, AskerOfExecuted
  <2>2. s2c # << >> => \E u \in Threads : pc[u] = "recv" /\ ~Asked(call[u])
    BY DEF AnswersFit
  <2> QED
    BY <2>1, <2>2, OneAtATime
<1>5. ASSUME sop = "read"
      PROVE  udt = << >> /\ \E w \in Threads : call[w] = sfrom /\ pc[w] = "data"
  <2>1. PICK w \in Threads : call[w] = sfrom /\ Asked(call[w]) /\ pc[w] = "data"
    BY <1>5, AskerOfExecuted, ArgsType
  <2>2. udt # << >> => \E u \in Threads : pc[u] = "data" /\ ~Asked(call[u])
    BY DEF AnswersFit
  <2> QED
    BY <2>1, <2>2, OneAtATime
<1>6. s2c' # << >> => \E u \in Threads :
           /\ pc'[u] = "recv" /\ ~Asked(call[u])' /\ IsRest(op'[u], Len(got'[u]), s2c')
           /\ \A k \in 1 .. Len(s2c') : s2c'[k].call = call'[u]
  <2>1. CASE s2c' = s2c
    BY <2>1, <1>1, <1>2 DEF AnswersFit
  <2>2. CASE s2c' # s2c
    <3>1. /\ sop \in Locked /\ sop # "read"
          /\ \/ s2c' = Append(s2c, Answer("TERM"))
             \/ sop = "getattr" /\ s2c' = Append(Append(s2c, Answer("attr")), Answer("attr"))
             \/ sop = "dir" /\ s2c' = Append(Append(s2c, Answer("entry")), Answer("TERM"))
      BY <2>2, ExecuteEffect DEF Locked
    <3>2. PICK w \in Threads : call[w] = sfrom /\ op[w] = sop /\ got[w] = << >> /\ pc[w] = "recv" /\ s2c = << >>
      BY <3>1, <1>4
    <3>3. \A a, b \in Answers : /\ Len(Append(<< >>, a)) = 1 /\ Append(<< >>, a)[1] = a
                                /\ Len(Append(Append(<< >>, a), b)) = 2
                                /\ Append(Append(<< >>, a), b)[1] = a /\ Append(Append(<< >>, a), b)[2] = b
      <4> TAKE a, b \in Answers
      <4>1. << >> \in Seq(Answers) /\ Len(<< >>) = 0
        BY EmptySeq
      <4>2. Append(<< >>, a) \in Seq(Answers) /\ Len(Append(<< >>, a)) = 1 /\ Append(<< >>, a)[1] = a
        BY <4>1, AppendProperties
      <4> QED
        BY <4>2, AppendProperties
    <3>4. Answer("TERM") \in Answers /\ Answer("attr") \in Answers /\ Answer("entry") \in Answers
      BY DEF Answer, Answers, Shapes
    <3>5. \/ Len(s2c') = 1 /\ s2c'[1] = Answer("TERM")
          \/ sop = "getattr" /\ Len(s2c') = 2 /\ s2c'[1] = Answer("attr") /\ s2c'[2] = Answer("attr")
          \/ sop = "dir" /\ Len(s2c') = 2 /\ s2c'[1] = Answer("entry") /\ s2c'[2] = Answer("TERM")
      BY <3>1, <3>2, <3>3, <3>4
    <3>6. IsRest(sop, 0, s2c') /\ \A k \in 1 .. Len(s2c') : s2c'[k].call = sfrom
      BY <3>5 DEF IsRest, Answer
    <3>7. Len(got'[w]) = 0
      BY <3>2, <1>1
    <3> QED
      BY <3>2, <3>6, <3>7, <1>1, <1>2
  <2> QED
    BY <2>1, <2>2
<1>7. udt' # << >> => \E u \in Threads : pc'[u] = "data" /\ ~Asked(call[u])' /\ udt' = <<call'[u]>>
  <2>1. CASE udt' = udt
    BY <2>1, <1>1, <1>2 DEF AnswersFit
  <2>2. CASE udt' # udt
    <3>1. sop = "read" /\ udt' = Append(udt, sfrom)
      BY <2>2, ExecuteEffect
    <3>2. PICK w \in Threads : call[w] = sfrom /\ pc[w] = "data" /\ udt = << >>
      BY <3>1, <1>5
    <3>3. udt' = <<call[w]>>
      BY <3>1, <3>2
    <3> QED
      BY <3>2, <3>3, <1>1, <1>2
  <2> QED
    BY <2>1, <2>2
<1> QED
  BY <1>3, <1>6, <1>7 DEF AnswersFit

LEMMA ExecuteAskers ==
    ASSUME Reading, AskersWait, ServerExecute
    PROVE  AskersWait'
<1> USE DEF Reading
<1>1. PICK n \in 2 .. 5 : n = End(1) /\ n <= StreamLen /\ ShrunkBy(n)
  BY ExecuteShrinks
<1>2. PICK N \in Nat : N = StreamLen
  BY StreamType
<1>3. Stream = 1 .. N /\ Stream' = 1 .. N - n /\ \A i \in 1 .. N - n : \E v \in 1 .. N : At(i)' = At(v)
  BY <1>1, <1>2 DEF ShrunkBy, Stream
<1>4. UNCHANGED <<pc, op, call, sent, got, calls>> /\ (salive' => salive)
  BY ExecuteShrinks DEF ServerExecute
<1> QED
  BY <1>3, <1>4 DEF AskersWait, Request

-----------------------------------------------------------------------------

LEMMA NextSession ==
    ASSUME SessionInv, ChangesAlone, ~LongNames, Next
    PROVE  SessionInv'
<1> USE DEF SessionInv
<1>0. Reading
  BY DEF Reading
<1>1. ASSUME NEW t \in Threads, NEW o \in Calls, Call(t, o) PROVE SessionInv'
  <2>1. Shapes'
    BY <1>1, CallShapes
  <2>2. UNCHANGED <<sop, sargs, salive>>
    BY <1>1 DEF Call, serverVars
  <2>3. ServerPlace'
    BY <2>2 DEF ServerPlace
  <2>4. SameStream
    BY <1>1, QuietCall
  <2>5. \A u \in Threads : Sending(u)' = Sending(u) /\ (Sending(u) => sent'[u] = sent[u] /\ Request(u)' = Request(u))
    BY <1>1 DEF Call, Sending, Request, Shapes
  <2>6. StreamWhole' /\ StreamEnds'
    BY <2>2, <2>4, <2>5, SameWhole, SameEnds
  <2>7. ThreadPlaces' /\ Ownership'
    BY <1>1, CallPlaces
  <2>8. Numbers'
    BY <1>1, CallNumbers
  <2>9. AskersWait' /\ AnswersFit'
    BY <1>0, <1>1, CallWaits
  <2> QED
    BY <2>1, <2>3, <2>6, <2>7, <2>8, <2>9
<1>2. ASSUME NEW t \in Threads, ThreadStep(t) PROVE SessionInv'
  <2>1. Shapes'
    BY <1>2, ThreadShapes
  <2>2. UNCHANGED <<sop, sargs, salive>>
    BY <1>2 DEF ThreadStep, LockTcp, SendString, SendFails, LockUdt, RecvString, RecvClosed, RecvSegment, RecvSegmentFails, serverVars
  <2>3. ServerPlace'
    BY <2>2 DEF ServerPlace
  <2>4. StreamWhole' /\ StreamEnds'
    <3>1. CASE SendString(t) /\ salive
      BY <3>1, GrownWhole
    <3>2. CASE ~(SendString(t) /\ salive)
      <4>1. SameStream
        BY <1>2, <3>2, QuietThread
      <4>2. StreamWhole'
        BY <4>1, SameWhole
      <4>3. salive => StreamEnds'
        BY <1>2, <3>2, <4>1, <2>2, SendersKept, SameEnds
      <4>4. ~salive => StreamEnds'
        BY <2>2 DEF StreamEnds
      <4> QED
        BY <4>2, <4>3, <4>4
    <3> QED
      BY <3>1, <3>2
  <2>5. ThreadPlaces' /\ Ownership'
    BY <1>2, StepPlaces
  <2>6. Numbers'
    BY <1>2, StepNumbers
  <2>7. AskersWait' /\ AnswersFit'
    BY <1>0, <1>2, StepAskers, StepAnswers
  <2> QED
    BY <2>1, <2>3, <2>4, <2>5, <2>6, <2>7
<1>3. ASSUME ServerRecvCommand \/ ServerRecvArg PROVE SessionInv'
  BY <1>0, <1>3, QuietWaits DEF Reading
<1>4. ASSUME ServerExecute PROVE SessionInv'
  <2>1. Shapes'
    BY <1>4, ServerShapes DEF ServerStep
  <2>2. ServerPlace' /\ UNCHANGED <<pc, op, call, sent, got, calls, tcpmutex, udtmutex, c2s>>
    BY <1>4, ExecuteShrinks
  <2>3. ThreadPlaces' /\ Ownership'
    BY <2>2 DEF ThreadPlaces, ThreadPlace, Ownership, HoldsTcp, HoldsUdt
  <2>4. StreamWhole' /\ StreamEnds' /\ Numbers'
    BY <1>4, ShrunkWhole, ExecuteNumbers
  <2>5. AskersWait' /\ AnswersFit'
    BY <1>0, <1>4, ExecuteAskers, ExecuteAnswers
  <2> QED
    BY <2>1, <2>2, <2>3, <2>4, <2>5
<1> QED
  BY <1>1, <1>2, <1>3, <1>4 DEF Next, ServerStep

LEMMA StutterSession ==
    ASSUME SessionInv, UNCHANGED vars
    PROVE  SessionInv'
<1>1. UNCHANGED <<pc, op, call, sent, got, calls, tcpmutex, udtmutex, c2s, s2c, udt, salive, sop, sfrom, sargs>>
  BY DEF vars, threadVars, mutexVars, netVars, serverVars
<1>2. Shapes' /\ ServerPlace' /\ ThreadPlaces' /\ Ownership'
  BY <1>1 DEF SessionInv, Shapes, ServerPlace, ThreadPlaces, ThreadPlace, Ownership, HoldsTcp, HoldsUdt
<1>3. SameStream
  BY <1>1 DEF SameStream, StreamLen, Taken, At
<1>4. StreamWhole' /\ StreamEnds' /\ Stream' = Stream
      /\ \A i \in Stream : IsCommand(i)' = IsCommand(i) /\ At(i)' = At(i)
  BY <1>1, <1>3, SameWhole, SameEnds DEF SessionInv, Sending, Request, SameStream
<1>5. Numbers' /\ AskersWait'
  BY <1>1, <1>4 DEF SessionInv, Numbers, AskersWait, Request
<1>6. \A u \in Threads : Asked(call[u])' = Asked(call[u])
  BY <1>1, <1>4 DEF Asked
<1>7. AnswersFit'
  BY <1>1, <1>6 DEF SessionInv, AnswersFit, AnswersReachAsker, IsRest
<1> QED
  BY <1>2, <1>4, <1>5, <1>7 DEF SessionInv

LEMMA InitSession ==
    ASSUME Init
    PROVE  SessionInv
<1> USE DEF Init
<1>1. Shapes
  <2>1. << >> \in Seq(Strings) /\ << >> \in Seq(Answers) /\ << >> \in Seq(Nat)
    BY EmptySeq
  <2> QED
    BY <2>1 DEF Shapes
<1>2. StreamLen = 0 /\ Stream = {}
  BY DEF StreamLen, Taken, Stream
<1>3. \A t \in Threads : pc[t] = "idle" /\ sent[t] = 0 /\ call[t] = 0 /\ got[t] = << >>
  OBVIOUS
<1>4. ServerPlace /\ StreamWhole /\ StreamEnds
  BY <1>2, <1>3 DEF ServerPlace, StreamWhole, StreamEnds, Sending
<1>5. ThreadPlaces /\ Ownership
  BY <1>3 DEF ThreadPlaces, ThreadPlace, Ownership, HoldsTcp, HoldsUdt
<1>6. Numbers /\ AskersWait
  BY <1>2, <1>3 DEF Numbers, AskersWait
<1>7. AnswersFit
  BY <1>3 DEF AnswersFit, AnswersReachAsker
<1> QED
  BY <1>1, <1>4, <1>5, <1>6, <1>7 DEF SessionInv

\* The strings before the end of the first request are arguments of its call.
LEMMA SessionWhole ==
    ASSUME SessionInv
    PROVE  RequestsWhole
<1> USE DEF SessionInv
<1>1. CASE sop = "none"
  BY <1>1 DEF ServerPlace, RequestsWhole
<1>2. CASE sop # "none"
  <2>1. /\ Len(sargs) \in Nat /\ Len(c2s) \in Nat /\ sop \in Commands /\ Args[sop] \in 1 .. 4 /\ Len(sargs) <= Args[sop]
    BY <1>2, ArgsType DEF Shapes, ServerPlace
  <2>2. Taken = 1 + Len(sargs) /\ Stream = 1 .. 1 + Len(sargs) + Len(c2s)
    BY <1>2 DEF Taken, Stream, StreamLen
  <2>3. At(1) = [call |-> sfrom, text |-> sop] /\ 1 \in Stream
    BY <2>1, <2>2 DEF At
  <2>4. IsCommand(1) /\ End(1) = 1 + Args[sop]
    BY <2>1, <2>3 DEF IsCommand, End
  <2>5. ASSUME NEW i \in 1 .. Len(sargs) PROVE sargs[i].call = sfrom /\ sargs[i].text = "arg"
    <3>1. i + 1 \in Stream /\ i + 1 <= End(1) /\ 1 < i + 1 /\ ~(i + 1 > Taken) /\ i + 1 # 1 /\ (i + 1) - 1 = i
      BY <2>1, <2>2, <2>4
    <3>2. At(i + 1) = [call |-> sfrom, text |-> "arg"]
      BY <3>1, <2>3, <2>4 DEF StreamWhole
    <3>3. At(i + 1) = sargs[(i + 1) - 1]
      BY <3>1 DEF At
    <3> QED
      BY <3>1, <3>2, <3>3
  <2> QED
    BY <2>5 DEF RequestsWhole
<1> QED
  BY <1>1, <1>2

\* "Receive the request": when changes run alone and names fit, whatever the server
\* child reads after a command is that call's own arguments, whoever else calls and
\* whenever the child goes.
THEOREM RequestsArriveWhole ==
    ASSUME ChangesAlone, ~LongNames
    PROVE  Spec => []RequestsWhole
<1>1. Init => SessionInv
  BY InitSession
<1>2. SessionInv /\ [Next]_vars => SessionInv'
  BY NextSession, StutterSession
<1>3. SessionInv => RequestsWhole
  BY SessionWhole
<1> QED
  BY <1>1, <1>2, <1>3, PTL DEF Spec

\* An answer on TCP or data on UDT reaches the call that asked for it, although read()
\* waits for its data while other calls hold _tcpmutex.
THEOREM AnswersReachTheirCalls ==
    ASSUME ChangesAlone, ~LongNames
    PROVE  Spec => []AnswersReachAsker
<1>1. Init => SessionInv
  BY InitSession
<1>2. SessionInv /\ [Next]_vars => SessionInv'
  BY NextSession, StutterSession
<1>3. SessionInv => AnswersReachAsker
  BY DEF SessionInv, AnswersFit
<1> QED
  BY <1>1, <1>2, <1>3, PTL DEF Spec
=============================================================================
