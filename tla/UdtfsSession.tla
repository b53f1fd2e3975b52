---------------------------- MODULE UdtfsSession ----------------------------
(***************************************************************************)
(* One mounted client and its server child (udtfs/udtfs.cpp, common.cpp,   *)
(* client_handler in udtfs_server.cpp).  FUSE runs the callbacks of the    *)
(* client on several threads, which share one TCP connection for requests  *)
(* and answers and one UDT connection for file data.                       *)
(*                                                                         *)
(* A request is a command word and a fixed number of strings, each sent by *)
(* a send() of its own; nothing marks where a request ends.  getattr,      *)
(* readdir and read hold _tcpmutex meanwhile, the calls that change files  *)
(* do not.  read takes _udtmutex before it gives _tcpmutex back.           *)
(*                                                                         *)
(* A string is [call, text]: the call that sent it, and the command word   *)
(* or "arg"; "rest" is what recv_str leaves of a name that its buffer of   *)
(* M_MAX_VAL bytes is too short for.                                       *)
(***************************************************************************)
EXTENDS Integers, Sequences

CONSTANTS
    Threads,        \* FUSE worker threads of the client
    Calls,          \* the callbacks the kernel makes
    ChangesAlone,   \* a call that changes files runs while no other call does
    Crashes,        \* a read of a file that is gone ends the server child
    LongNames,      \* names may be longer than the server's buffers for them
    MaxCalls        \* bound: calls made

Free == "free"

Commands == {"getattr", "dir", "read", "truncate", "write", "rename", "unlink", "utime"}

ASSUME SessionAssumption ==
    /\ Calls \subseteq Commands /\ Free \notin Threads
    /\ ChangesAlone \in BOOLEAN /\ Crashes \in BOOLEAN /\ LongNames \in BOOLEAN
    /\ MaxCalls \in Nat

VARIABLES
    pc,             \* per thread: "idle", "tcp", "send", "udt", "recv" or "data"
    op,             \* per thread: its current call's command
    call,           \* per thread: its current call's number
    sent,           \* per thread: strings of the request sent
    got,            \* per thread: the calls whose answers this call has received
    tcpmutex, udtmutex,
    calls,          \* calls made
    c2s, s2c,       \* the TCP connection, each way
    udt,            \* the UDT connection, server to client: one entry per segment
    salive,         \* the server child runs
    sop,            \* the command it has read, or "none"
    sfrom,          \* the call that command belongs to
    sargs           \* the strings it has read for it

threadVars == <<pc, op, call, sent, got, calls>>
mutexVars  == <<tcpmutex, udtmutex>>
netVars    == <<c2s, s2c, udt>>
serverVars == <<salive, sop, sfrom, sargs>>
vars == <<threadVars, mutexVars, netVars, serverVars>>

\* The strings that follow each command.
Args == [getattr |-> 1, dir |-> 1, read |-> 3, truncate |-> 2, write |-> 4,
         rename |-> 2, unlink |-> 1, utime |-> 1]

\* The answer to getattr (eight strings in the code).
AttrStrings == 2

\* The calls that hold _tcpmutex.
Locked == {"getattr", "dir", "read"}

Init ==
    /\ pc = [t \in Threads |-> "idle"] /\ op = [t \in Threads |-> "none"]
    /\ call = [t \in Threads |-> 0] /\ sent = [t \in Threads |-> 0]
    /\ got = [t \in Threads |-> << >>]
    /\ tcpmutex = Free /\ udtmutex = Free /\ calls = 0
    /\ c2s = << >> /\ s2c = << >> /\ udt = << >>
    /\ salive = TRUE /\ sop = "none" /\ sfrom = 0 /\ sargs = << >>

-----------------------------------------------------------------------------
(* The client's threads.                                                   *)

Call(t, o) ==
    /\ pc[t] = "idle" /\ calls < MaxCalls
    /\ ChangesAlone => \A u \in Threads :
           pc[u] # "idle" => o \in Locked /\ op[u] \in Locked
    /\ calls' = calls + 1
    /\ call' = [call EXCEPT ![t] = calls + 1]
    /\ op' = [op EXCEPT ![t] = o]
    /\ sent' = [sent EXCEPT ![t] = 0]
    /\ got' = [got EXCEPT ![t] = << >>]
    /\ pc' = [pc EXCEPT ![t] = IF o \in Locked THEN "tcp" ELSE "send"]
    /\ UNCHANGED <<mutexVars, netVars, serverVars>>

LockTcp(t) ==
    /\ pc[t] = "tcp" /\ tcpmutex = Free
    /\ tcpmutex' = t
    /\ pc' = [pc EXCEPT ![t] = "send"]
    /\ UNCHANGED <<op, call, sent, got, calls, udtmutex, netVars, serverVars>>

\* Mutant: the data lock is taken when the request is out and _tcpmutex is free.
LockUdtLate == 4

\* The number of strings read() has sent when it takes _udtmutex: the command.
LockUdtAfter == 1

\* String n of a request.
Text(o, n) == IF n = 0 THEN o ELSE "arg"

\* One send(); after the last one a call waits for its answer, waits for its data
\* with _tcpmutex free again, or returns.  Nothing arrives at a child that is gone.
SendString(t) ==
    LET o == op[t]  last == sent[t] = Args[o]
    IN /\ pc[t] = "send"
       /\ c2s' = IF salive THEN Append(c2s, [call |-> call[t], text |-> Text(o, sent[t])]) ELSE c2s
       /\ sent' = [sent EXCEPT ![t] = @ + 1]
       /\ pc' = [pc EXCEPT ![t] = IF o = "read" /\ sent[t] + 1 = LockUdtAfter THEN "udt"
                                  ELSE IF ~last THEN "send"
                                  ELSE IF o = "read" THEN "data"
                                  ELSE IF o \in Locked THEN "recv" ELSE "idle"]
       /\ tcpmutex' = IF last /\ o = "read" THEN Free ELSE tcpmutex
       /\ UNCHANGED <<op, call, got, calls, udtmutex, s2c, udt, serverVars>>

\* A command that cannot be sent ends the call, which unlocks _tcpmutex, whether
\* it took it or another thread did (a normal mutex does not check its owner).
SendFails(t) ==
    /\ pc[t] = "send" /\ sent[t] = 0 /\ ~salive
    /\ tcpmutex' = Free
    /\ pc' = [pc EXCEPT ![t] = "idle"]
    /\ UNCHANGED <<op, call, sent, got, calls, udtmutex, netVars, serverVars>>

LockUdt(t) ==
    /\ pc[t] = "udt" /\ udtmutex = Free
    /\ udtmutex' = t
    /\ pc' = [pc EXCEPT ![t] = IF sent[t] > Args[op[t]] THEN "data" ELSE "send"]
    /\ UNCHANGED <<op, call, sent, got, calls, tcpmutex, netVars, serverVars>>

\* An answer is complete: readdir's at the end marker; getattr's at an end marker
\* that comes first, or when it has all its strings.
Complete(o, n, text) ==
    \/ text = "TERM" /\ (o = "dir" \/ n = 1)
    \/ o = "getattr" /\ n = AttrStrings

\* Mutant: the error return forgets the lock.
KeptOnError(t, text) == IF text = "TERM" THEN t ELSE Free

\* The owner of _tcpmutex when the call has its answer.
OwnerAfter(t, text) == Free

RecvString(t) ==
    /\ pc[t] = "recv" /\ s2c # << >>
    /\ s2c' = Tail(s2c)
    /\ got' = [got EXCEPT ![t] = Append(@, Head(s2c).call)]
    /\ IF Complete(op[t], Len(got[t]) + 1, Head(s2c).text)
       THEN pc' = [pc EXCEPT ![t] = "idle"] /\ tcpmutex' = OwnerAfter(t, Head(s2c).text)
       ELSE UNCHANGED <<pc, tcpmutex>>
    /\ UNCHANGED <<op, call, sent, calls, udtmutex, c2s, udt, serverVars>>

\* The connection is closed: recv_str returns 0, readdir takes it for the end and
\* getattr for strings without a value.
RecvClosed(t) ==
    /\ pc[t] = "recv" /\ s2c = << >> /\ ~salive
    /\ pc' = [pc EXCEPT ![t] = "idle"] /\ tcpmutex' = Free
    /\ UNCHANGED <<op, call, sent, got, calls, udtmutex, netVars, serverVars>>

RecvSegment(t) ==
    /\ pc[t] = "data" /\ udt # << >>
    /\ udt' = Tail(udt)
    /\ got' = [got EXCEPT ![t] = Append(@, Head(udt))]
    /\ udtmutex' = Free
    /\ pc' = [pc EXCEPT ![t] = "idle"]
    /\ UNCHANGED <<op, call, sent, calls, tcpmutex, c2s, s2c, serverVars>>

\* UDT gives the silent peer up; the error of client_recvsegment is ignored.
RecvSegmentFails(t) ==
    /\ pc[t] = "data" /\ udt = << >> /\ ~salive
    /\ udtmutex' = Free
    /\ pc' = [pc EXCEPT ![t] = "idle"]
    /\ UNCHANGED <<op, call, sent, got, calls, tcpmutex, netVars, serverVars>>

-----------------------------------------------------------------------------
(* The server child: client_handler.                                       *)

\* Mutant: the handler of utime reads one string more.
OneStringMore(o) == IF o = "utime" THEN Args[o] + 1 ELSE Args[o]

\* The strings each handler reads.
StringsRead(o) == Args[o]

\* A string where a command is expected: anything else is ignored.
ServerRecvCommand ==
    /\ salive /\ sop = "none" /\ c2s # << >>
    /\ c2s' = Tail(c2s)
    /\ LET s == Head(c2s)
       IN IF s.text \in Commands
          THEN sop' = s.text /\ sfrom' = s.call /\ sargs' = << >>
          ELSE UNCHANGED <<sop, sfrom, sargs>>
    /\ UNCHANGED <<threadVars, mutexVars, s2c, udt, salive>>

\* The name a file is read or changed by, for which the buffer is short.
IsFileName(o, n) == o \notin {"getattr", "dir"} /\ (n = 1 \/ o = "rename")

\* What recv_str may leave of string n of the command on the connection.
LeftOver(s, n) ==
    {<< >>} \cup
    IF LongNames /\ IsFileName(sop, n) THEN {<<[s EXCEPT !.text = "rest"]>>} ELSE {}

\* Whatever comes next is the command's next string.
ServerRecvArg ==
    /\ salive /\ sop # "none" /\ Len(sargs) < StringsRead(sop) /\ c2s # << >>
    /\ \E rest \in LeftOver(Head(c2s), Len(sargs) + 1) : c2s' = rest \o Tail(c2s)
    /\ sargs' = Append(sargs, Head(c2s))
    /\ UNCHANGED <<threadVars, mutexVars, s2c, udt, salive, sop, sfrom>>

Answer(text) == [call |-> sfrom, text |-> text]

ServerExecute ==
    /\ salive /\ sop # "none" /\ Len(sargs) = StringsRead(sop)
    /\ \/ sop = "getattr" /\ s2c' \in {Append(s2c, Answer("TERM")),
                                       s2c \o [i \in 1 .. AttrStrings |-> Answer("attr")]}
          /\ UNCHANGED <<udt, salive>>
       \/ sop = "dir" /\ s2c' \in {Append(s2c, Answer("TERM")),
                                   s2c \o <<Answer("entry"), Answer("TERM")>>}
          /\ UNCHANGED <<udt, salive>>
       \/ sop = "read" /\ udt' = Append(udt, sfrom) /\ UNCHANGED <<s2c, salive>>
       \/ sop = "read" /\ Crashes /\ salive' = FALSE /\ UNCHANGED <<s2c, udt>>
       \/ sop \notin Locked /\ UNCHANGED <<s2c, udt, salive>>
    /\ sop' = "none" /\ sfrom' = 0 /\ sargs' = << >>
    /\ UNCHANGED <<threadVars, mutexVars, c2s>>

-----------------------------------------------------------------------------
ThreadStep(t) ==
    \/ LockTcp(t) \/ SendString(t) \/ SendFails(t) \/ LockUdt(t)
    \/ RecvString(t) \/ RecvClosed(t) \/ RecvSegment(t) \/ RecvSegmentFails(t)

ServerStep == ServerRecvCommand \/ ServerRecvArg \/ ServerExecute

Next ==
    \/ \E t \in Threads : (\E o \in Calls : Call(t, o)) \/ ThreadStep(t)
    \/ ServerStep

Spec == Init /\ [][Next]_vars

\* Threads and the server child run; a mutex goes to some waiting thread.
Fairness == WF_vars(ServerStep) /\ \A t \in Threads : WF_vars(ThreadStep(t))

FairSpec == Spec /\ Fairness

-----------------------------------------------------------------------------
(* Properties.                                                             *)

Owners == Threads \cup {Free}

TypeOK ==
    /\ pc \in [Threads -> {"idle", "tcp", "send", "udt", "recv", "data"}]
    /\ op \in [Threads -> Commands \cup {"none"}]
    /\ call \in [Threads -> 0 .. MaxCalls] /\ calls \in 0 .. MaxCalls
    /\ \A t \in Threads : sent[t] \in 0 .. 5
    /\ tcpmutex \in Owners /\ udtmutex \in Owners
    /\ salive \in BOOLEAN /\ sop \in Commands \cup {"none"} /\ sfrom \in 0 .. MaxCalls

\* "Receive the request": the strings the server child takes for a command's are
\* those the call that sent the command sent.
RequestsWhole ==
    \A i \in 1 .. Len(sargs) :
        sargs[i].call = sfrom /\ sargs[i].text = "arg"

\* What a call receives, on TCP or on UDT, was sent in answer to it: read() waits
\* for its data without _tcpmutex, while other calls send requests.
AnswersReachAsker ==
    \A t \in Threads : \A i \in 1 .. Len(got[t]) : got[t][i] = call[t]

\* Every call returns, also when the server child is gone: no order of the two
\* locks and the two connections leaves everyone waiting.
EveryCallReturns == \A t \in Threads : pc[t] # "idle" ~> pc[t] = "idle"
=============================================================================
