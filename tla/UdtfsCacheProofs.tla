-------------------------- MODULE UdtfsCacheProofs --------------------------
(***************************************************************************)
(* Proofs about UdtfsCache, for every set of files, every size of the      *)
(* cache and of the reads, and any changes: the types, and, for one call   *)
(* at a time, that a copy stays within the cache, that a write reaches the *)
(* file it names, and that a read returns the bytes of its file.           *)
(***************************************************************************)
EXTENDS UdtfsCache, SequenceTheorems, TLAPS

OneThread == \A t, u \in Threads : t = u

Reading == {"fetch", "offset", "length", "copy"}

Opening == {"getattr", "name"}

\* At most one file is open, once, and it is the current one; an open in progress finds none.
OneFile ==
    /\ \A f \in Files : opens[f] > 0 => fileIsOpen /\ fileName = f /\ opens[f] = 1
    /\ \A t \in Threads : pc[t] \in Opening => ~fileIsOpen
    /\ \A t \in Threads : pc[t] \in Reading => opens[arg[t].path] > 0
    /\ fileName = NoFile => ~fileIsOpen

\* Where a read is to copy from, between its refill, if any, and its copy.
CopyRange ==
    \A t \in Threads :
        /\ pc[t] = "length" => cacheOffset = arg[t].offset
        /\ pc[t] = "copy" => /\ cacheOffset <= arg[t].offset
                             /\ arg[t].offset + amount[t].actual <= cacheOffset + CacheSize

-----------------------------------------------------------------------------
(* Types.                                                                  *)

LEMMA FreshIsBytes ==
    ASSUME NEW f \in Files, NEW v \in Nat, NEW n \in Nat
    PROVE  Fresh(f, v, n) \in Seq(Bytes)
BY DEF Fresh, Bytes

LEMMA InitTypeOK == Init => TypeOK
<1> SUFFICES ASSUME Init PROVE TypeOK
  OBVIOUS
<1>1. content \in [Files -> Seq(Bytes)]
  <2>1. {Fresh(f, 0, n) : f \in Files, n \in 0 .. MaxLen} \subseteq Seq(Bytes)
    BY FreshIsBytes, CacheAssumption
  <2> QED
    BY <2>1 DEF Init
<1>2. /\ pc \in [Threads -> {"idle", "getattr", "name", "fetch", "offset", "length", "copy"}]
      /\ \A t \in Threads : pc[t] = "idle"
  BY DEF Init
<1>3. arg \in [Threads -> [path : Files \cup {NoFile}, offset : Nat, size : Nat]]
  BY DEF Init
<1>4. amount \in [Threads -> [actual : 0 .. MaxRead, fetch : 0 .. CacheSize]]
  BY CacheAssumption DEF Init
<1>5. /\ changes \in Nat /\ fileIsOpen \in BOOLEAN /\ fileName \in Files \cup {NoFile}
      /\ DOMAIN cache = 0 .. CacheSize - 1 /\ seen = [t \in Threads |-> {}] /\ DOMAIN answer = Threads
  BY Zenon DEF Init
<1>6. opens \in [Files -> Nat] /\ stSize \in Nat /\ cacheOffset \in Nat /\ cacheLen \in 0 .. CacheSize
  BY CacheAssumption DEF Init
<1> QED
  BY <1>1, <1>2, <1>3, <1>4, <1>5, <1>6 DEF TypeOK

LEMMA AmountIsBounded ==
    ASSUME NEW offset \in Nat, NEW size \in 1 .. MaxRead, stSize \in Nat
    PROVE  /\ ActualSize(offset, size) \in 0 .. size
           /\ FetchSize \in 0 .. CacheSize
           /\ offset < stSize => /\ ActualSize(offset, size) > 0
                                 /\ offset + ActualSize(offset, size) <= stSize
                                 /\ ActualSize(offset, size) <= FetchSize
BY CacheAssumption DEF ActualSize, FetchSize

LEMMA ChangeTypeOK ==
    ASSUME TypeOK, NEW f \in Files \cup {NoFile}, NEW c, f \in Files => c \in Seq(Bytes),
           Change(f, c)
    PROVE  TypeOK'
<1>1. content' \in [Files -> Seq(Bytes)] /\ changes' \in Nat
  <2>1. content' = [g \in Files |-> IF g = f THEN c ELSE content[g]]
    BY DEF TypeOK, Change
  <2>2. changes' \in Nat
    BY DEF TypeOK, Change
  <2> QED
    BY <2>1, <2>2 DEF TypeOK
<1>2. seen' \in [Threads -> SUBSET Seq(Bytes)]
  BY DEF TypeOK, Change
<1> QED
  BY <1>1, <1>2 DEF TypeOK, Change, fileVars, cacheVars

LEMMA ReadTypeOK ==
    ASSUME TypeOK, NEW t \in Threads, ReadStep(t)
    PROVE  TypeOK'
<1>1. ASSUME NEW f \in Files, NEW offset \in 0 .. MaxLen - 1, NEW size \in 1 .. MaxRead,
             ReadCheck(t, f, offset, size)
      PROVE  TypeOK'
  <2>1. offset \in Nat /\ size \in Nat /\ stSize \in Nat
    BY CacheAssumption DEF TypeOK
  <2>2. ActualSize(offset, size) \in 0 .. MaxRead /\ FetchSize \in 0 .. CacheSize
    BY <2>1, AmountIsBounded, CacheAssumption
  <2> QED
    BY <1>1, <2>1, <2>2, SMTT(30) DEF TypeOK, ReadCheck, serverVars, fileVars, cacheVars
<1>2. CASE ReadFetch(t)
  BY <1>2 DEF TypeOK, ReadFetch, serverVars, fileVars
<1>3. CASE ReadSetOffset(t)
  BY <1>3 DEF TypeOK, ReadSetOffset, serverVars, fileVars
<1>4. CASE ReadSetLen(t)
  BY <1>4 DEF TypeOK, ReadSetLen, serverVars, fileVars
<1>5. CASE ReadCopy(t)
  BY <1>5 DEF TypeOK, ReadCopy, serverVars, fileVars, cacheVars
<1> QED
  BY <1>1, <1>2, <1>3, <1>4, <1>5 DEF ReadStep

LEMMA OpenTypeOK ==
    ASSUME TypeOK, NEW t \in Threads, OpenStep(t)
    PROVE  TypeOK'
<1>1. ASSUME NEW f \in Files, OpenCheck(t, f)
      PROVE  TypeOK'
  <2>1. /\ stSize' \in Nat
        /\ pc' \in [Threads -> {"idle", "getattr", "name", "fetch", "offset", "length", "copy"}]
        /\ \A u \in Threads : u # t => pc'[u] = pc[u]
    <3>1. CASE MayOpen
      <4>1. stSize' = 0 /\ pc' = [pc EXCEPT ![t] = "getattr"]
        BY <1>1, <3>1, Zenon DEF OpenCheck
      <4> QED
        BY <4>1 DEF TypeOK
    <3>2. CASE ~MayOpen
      BY <1>1, <3>2 DEF TypeOK, OpenCheck
    <3> QED
      BY <3>1, <3>2
  <2>2. /\ arg' \in [Threads -> [path : Files \cup {NoFile}, offset : Nat, size : Nat]]
        /\ arg'[t].path = f /\ \A u \in Threads : u # t => arg'[u] = arg[u]
    BY <1>1 DEF TypeOK, OpenCheck
  <2> QED
    BY <1>1, <2>1, <2>2 DEF TypeOK, OpenCheck, serverVars, cacheVars
<1>2. ASSUME NEW f \in Files, Release(t, f)
      PROVE  TypeOK'
  <2>1. opens' \in [Files -> Nat]
    BY <1>2 DEF TypeOK, Release
  <2>2. fileIsOpen' \in BOOLEAN /\ cacheOffset' \in Nat /\ cacheLen' \in 0 .. CacheSize
    <3>1. CASE fileIsOpen /\ fileName = f
      <4>1. fileIsOpen' = FALSE /\ cacheOffset' = 0 /\ cacheLen' = 0
        BY <1>2, <3>1, Zenon DEF Release, CacheCleared
      <4>2. 0 \in 0 .. CacheSize /\ 0 \in Nat
        BY CacheAssumption
      <4> QED
        BY <4>1, <4>2, Zenon
    <3>2. CASE ~(fileIsOpen /\ fileName = f)
      BY <1>2, <3>2, Zenon DEF TypeOK, Release
    <3> QED
      BY <3>1, <3>2
  <2> QED
    BY <1>2, <2>1, <2>2 DEF TypeOK, Release, serverVars, threadVars
<1>3. CASE OpenGetattr(t)
  BY <1>3 DEF TypeOK, OpenGetattr, cacheVars
<1>4. CASE OpenName(t)
  BY <1>4 DEF TypeOK, OpenName, serverVars, cacheVars
<1> QED
  BY <1>1, <1>2, <1>3, <1>4 DEF OpenStep

\* The steps that change a file, as the Change they make.
LEMMA ChangeSteps ==
    ASSUME TypeOK, Next
    PROVE  \/ \E t \in Threads : ReadStep(t) \/ OpenStep(t)
           \/ \E f \in Files, c \in Seq(Bytes) : Change(f, c) /\ UNCHANGED written
           \/ \E f \in Files : \E c :
                  /\ opens[f] > 0 /\ Change(fileName, c)
                  /\ fileName \in Files => c \in Seq(Bytes)
                  /\ written' = <<f, fileName>>
<1>1. ASSUME NEW f \in Files, NEW n \in 0 .. MaxLen, Other(f, n)
      PROVE  \E c \in Seq(Bytes) : Change(f, c) /\ UNCHANGED written
  <2>1. Fresh(f, changes + 1, n) \in Seq(Bytes)
    BY CacheAssumption DEF Fresh, Bytes, TypeOK
  <2> QED
    BY <1>1, <2>1 DEF Other
<1>2. ASSUME NEW f \in Files, NEW t \in Threads, Write(t, f)
      PROVE  \E c : /\ opens[f] > 0 /\ Change(fileName, c)
                    /\ fileName \in Files => c \in Seq(Bytes)
                    /\ written' = <<f, fileName>>
  <2>1. fileName \in Files => Appended(content[fileName], changes + 1) \in Seq(Bytes)
    <3> SUFFICES ASSUME fileName \in Files
                 PROVE  Appended(content[fileName], changes + 1) \in Seq(Bytes)
      OBVIOUS
    <3>1. content[fileName] \in Seq(Bytes) /\ changes \in Nat
      BY DEF TypeOK
    <3>2. <<fileName, changes + 1, Len(content[fileName]) + 1>> \in Bytes
      BY <3>1 DEF Bytes
    <3> QED
      BY <3>1, <3>2 DEF Appended
  <2> QED
    BY <1>2, <2>1 DEF Write, Target
<1>3. ASSUME NEW f \in Files, NEW t \in Threads, NEW n \in 0 .. MaxLen, Truncate(t, f, n)
      PROVE  \E g \in Files, c \in Seq(Bytes) : Change(g, c) /\ UNCHANGED written
  <2> DEFINE old == content[fileName]
             new == [i \in 1 .. n |-> IF i <= Len(old) THEN old[i] ELSE Zero]
  <2>1. fileName \in Files /\ old \in Seq(Bytes)
    BY <1>3 DEF Truncate, Target, TypeOK
  <2>2. Zero \in Bytes
    BY DEF Zero, Bytes
  <2>3. new \in Seq(Bytes)
    BY <2>1, <2>2, CacheAssumption
  <2> QED
    BY <1>3, <2>1, <2>3 DEF Truncate, Target
<1> QED
  BY <1>1, <1>2, <1>3 DEF Next

LEMMA NextTypeOK == TypeOK /\ [Next]_vars => TypeOK'
<1> SUFFICES ASSUME TypeOK, [Next]_vars PROVE TypeOK'
  OBVIOUS
<1>1. CASE UNCHANGED vars
  BY <1>1 DEF TypeOK, vars, serverVars, fileVars, cacheVars, threadVars
<1>2. CASE Next
  BY <1>2, ChangeSteps, ChangeTypeOK, ReadTypeOK, OpenTypeOK DEF TypeOK
<1> QED
  BY <1>1, <1>2

\* The state of the client keeps its types: lengths, offsets and amounts never leave the
\* ranges the code computes them in, whatever the threads do.
THEOREM TypeCorrect == Spec => []TypeOK
BY InitTypeOK, NextTypeOK, PTL DEF Spec

-----------------------------------------------------------------------------
(* The copy.                                                               *)

LEMMA InitCopyRange == Init => CopyRange
BY DEF Init, CopyRange

LEMMA ChangeKeeps ==
    ASSUME NEW f, NEW c, Change(f, c)
    PROVE  UNCHANGED <<fileIsOpen, fileName, stSize, cache, cacheOffset, cacheLen, opens, pc, arg, amount>>
BY DEF Change, fileVars, cacheVars

LEMMA NextCopyRange ==
    ASSUME OneThread, TypeOK, CopyRange, [Next]_vars
    PROVE  CopyRange'
<1>1. CASE UNCHANGED vars
  BY <1>1 DEF CopyRange, vars, fileVars, cacheVars, threadVars
<1>2. ASSUME NEW f, NEW c, Change(f, c)
      PROVE  CopyRange'
  BY <1>2, ChangeKeeps DEF CopyRange
<1>3. ASSUME NEW t \in Threads, OpenStep(t)
      PROVE  CopyRange'
  <2>1. \A u \in Threads : u = t
    BY DEF OneThread
  <2>2. pc'[t] \in {"idle", "getattr", "name"}
    BY <1>3, Zenon DEF OpenStep, OpenCheck, OpenGetattr, OpenName, Release, threadVars, TypeOK
  <2> QED
    BY <2>1, <2>2 DEF CopyRange
<1>4. ASSUME NEW t \in Threads, ReadStep(t)
      PROVE  CopyRange'
  <2>1. \A u \in Threads : u = t
    BY DEF OneThread
  <2>2. ASSUME NEW f \in Files, NEW offset \in 0 .. MaxLen - 1, NEW size \in 1 .. MaxRead,
               ReadCheck(t, f, offset, size)
        PROVE  CopyRange'
    <3> DEFINE actual == ActualSize(offset, size)
    <3>1. offset \in Nat /\ stSize \in Nat /\ cacheOffset \in Nat /\ cacheLen \in 0 .. CacheSize
      BY CacheAssumption DEF TypeOK
    <3>2. actual \in 0 .. size
      BY <3>1, AmountIsBounded
    <3>3. arg'[t].offset = offset /\ amount'[t].actual = actual /\ UNCHANGED <<cacheOffset, cacheLen>>
      BY <2>2 DEF ReadCheck, TypeOK, cacheVars
    <3>4. pc'[t] \in {"idle", "fetch", "copy"} /\ (pc'[t] = "copy" => ~Refill(offset, actual))
      BY <2>2, Zenon DEF ReadCheck, TypeOK
    <3> HIDE DEF actual
    <3>5. ~Refill(offset, actual) => /\ cacheOffset <= offset
                                     /\ offset + actual <= cacheOffset + CacheSize
      BY <3>1, <3>2, CacheAssumption DEF Refill
    <3> QED
      BY <2>1, <3>3, <3>4, <3>5 DEF CopyRange
  <2>3. CASE ReadFetch(t)
    BY <2>1, <2>3 DEF CopyRange, ReadFetch, TypeOK
  <2>4. CASE ReadSetOffset(t)
    BY <2>1, <2>4 DEF CopyRange, ReadSetOffset, TypeOK
  <2>5. CASE ReadSetLen(t)
    BY <2>1, <2>5, CacheAssumption DEF CopyRange, ReadSetLen, TypeOK
  <2>6. CASE ReadCopy(t)
    BY <2>1, <2>6 DEF CopyRange, ReadCopy, TypeOK
  <2> QED
    BY <1>4, <2>2, <2>3, <2>4, <2>5, <2>6 DEF ReadStep
<1> QED
  BY <1>1, <1>2, <1>3, <1>4, ChangeSteps

\* One call at a time: the memcpy of a read stays within the cache, whatever the file and
\* its size have become since it was opened.
THEOREM CopyIsSafe == ASSUME OneThread PROVE Spec => []CopyStaysInCache
<1>1. TypeOK /\ CopyRange => CopyStaysInCache
  BY CacheAssumption DEF TypeOK, CopyRange, CopyStaysInCache
<1>2. TypeOK /\ CopyRange /\ [Next]_vars => CopyRange'
  BY NextCopyRange
<1> QED
  BY InitTypeOK, NextTypeOK, InitCopyRange, <1>1, <1>2, PTL DEF Spec

-----------------------------------------------------------------------------
(* The current file.                                                       *)

LEMMA InitOneFile == Init => OneFile
BY DEF Init, OneFile, Opening, Reading

LEMMA OpenOneFile ==
    ASSUME OneThread, TypeOK, OneFile, NEW t \in Threads, OpenStep(t)
    PROVE  OneFile'
<1> USE DEF Opening, Reading
<1>1. \A u \in Threads : u = t
  BY DEF OneThread
<1>2. ASSUME NEW f \in Files, OpenCheck(t, f)
      PROVE  OneFile'
  <2>1. /\ UNCHANGED <<fileIsOpen, fileName, opens>>
        /\ pc'[t] = "idle" \/ (pc'[t] = "getattr" /\ ~fileIsOpen)
    BY <1>2, Zenon DEF OpenCheck, MayOpen, TypeOK
  <2> QED
    BY <1>1, <2>1 DEF OneFile
<1>3. ASSUME NEW f \in Files, Release(t, f)
      PROVE  OneFile'
  <2>1. pc[t] = "idle" /\ opens[f] > 0 /\ opens' = [opens EXCEPT ![f] = @ - 1] /\ UNCHANGED <<fileName, pc, arg>>
    BY <1>3 DEF Release, threadVars
  <2>2. fileIsOpen /\ fileName = f /\ opens[f] = 1
    BY <2>1 DEF OneFile
  <2>3. ~fileIsOpen'
    BY <1>3, <2>2, Zenon DEF Release
  <2>4. \A g \in Files : ~(opens'[g] > 0)
    BY <2>1, <2>2 DEF OneFile, TypeOK
  <2> QED
    BY <1>1, <2>1, <2>3, <2>4 DEF OneFile
<1>4. CASE OpenGetattr(t)
  BY <1>1, <1>4 DEF OpenGetattr, OneFile, TypeOK
<1>5. CASE OpenName(t)
  <2> DEFINE f == arg[t].path
  <2>1. f \in Files /\ f # NoFile
    BY <1>5, CacheAssumption DEF OpenName, TypeOK
  <2>2. \A g \in Files : opens[g] = 0
    BY <1>5 DEF OpenName, OneFile, TypeOK
  <2>3. /\ fileName' = f /\ fileIsOpen' = TRUE /\ pc'[t] = "idle"
        /\ opens' = [opens EXCEPT ![f] = @ + 1]
    BY <1>5 DEF OpenName, TypeOK
  <2>4. fileIsOpen'
    BY <2>3, Zenon
  <2>5. opens'[f] = 1 /\ \A g \in Files : opens'[g] > 0 => g = f
    BY <2>1, <2>2, <2>3 DEF TypeOK
  <2> HIDE DEF f
  <2> QED
    BY <1>1, <2>1, <2>3, <2>4, <2>5 DEF OneFile
<1> QED
  BY <1>2, <1>3, <1>4, <1>5 DEF OpenStep

LEMMA NextOneFile ==
    ASSUME OneThread, TypeOK, OneFile, [Next]_vars
    PROVE  OneFile'
<1> USE DEF Opening, Reading
<1>1. CASE UNCHANGED vars
  BY <1>1 DEF OneFile, vars, fileVars, threadVars
<1>2. ASSUME NEW f, NEW c, Change(f, c)
      PROVE  OneFile'
  BY <1>2, ChangeKeeps DEF OneFile
<1>3. ASSUME NEW t \in Threads, ReadStep(t)
      PROVE  OneFile'
  <2>1. \A u \in Threads : u = t
    BY DEF OneThread
  <2>2. /\ UNCHANGED <<fileIsOpen, fileName, opens>> /\ pc'[t] \notin Opening
        /\ pc'[t] \in Reading => opens[arg'[t].path] > 0
    <3>1. ASSUME NEW f \in Files, NEW offset \in 0 .. MaxLen - 1, NEW size \in 1 .. MaxRead,
                 ReadCheck(t, f, offset, size)
          PROVE  <2>2
      <4>1. pc'[t] \notin Opening
        BY <3>1, Zenon DEF ReadCheck, TypeOK
      <4>2. arg'[t].path = f /\ opens[f] > 0 /\ UNCHANGED <<fileIsOpen, fileName, opens>>
        BY <3>1 DEF ReadCheck, TypeOK, fileVars
      <4> QED
        BY <4>1, <4>2
    <3>2. CASE ReadFetch(t)
      BY <3>2 DEF ReadFetch, OneFile, TypeOK, fileVars
    <3>3. CASE ReadSetOffset(t)
      BY <3>3 DEF ReadSetOffset, OneFile, TypeOK, fileVars
    <3>4. CASE ReadSetLen(t)
      BY <3>4 DEF ReadSetLen, OneFile, TypeOK, fileVars
    <3>5. CASE ReadCopy(t)
      BY <3>5 DEF ReadCopy, OneFile, TypeOK, fileVars
    <3> QED
      BY <1>3, <3>1, <3>2, <3>3, <3>4, <3>5 DEF ReadStep
  <2> QED
    BY <2>1, <2>2 DEF OneFile
<1> QED
  BY <1>1, <1>2, <1>3, ChangeSteps, OpenOneFile

\* One call at a time: a write, which goes to the current file, reaches the file the call
\* names, since no other file can be open.
THEOREM WriteIsRight == ASSUME OneThread PROVE Spec => []WritesGoToPath
<1>1. Init => WritesGoToPath
  BY DEF Init, WritesGoToPath
<1>2. TypeOK /\ OneFile /\ WritesGoToPath /\ [Next]_vars => WritesGoToPath'
  <2> SUFFICES ASSUME TypeOK, OneFile, WritesGoToPath, [Next]_vars PROVE WritesGoToPath'
    OBVIOUS
  <2>1. CASE UNCHANGED written
    BY <2>1 DEF WritesGoToPath
  <2>2. ASSUME NEW t \in Threads, ReadStep(t) \/ OpenStep(t)
        PROVE  UNCHANGED written
    BY <2>2, Zenon DEF ReadStep, ReadCheck, ReadFetch, ReadSetOffset, ReadSetLen, ReadCopy,
                OpenStep, OpenCheck, OpenGetattr, OpenName, Release, serverVars
  <2>3. ASSUME NEW f \in Files, opens[f] > 0, written' = <<f, fileName>>
        PROVE  WritesGoToPath'
    BY <2>3 DEF OneFile, WritesGoToPath
  <2> QED
    BY <2>1, <2>2, <2>3, ChangeSteps DEF vars, serverVars
<1>3. TypeOK /\ OneFile /\ [Next]_vars => OneFile'
  BY NextOneFile
<1> QED
  BY InitTypeOK, NextTypeOK, InitOneFile, <1>1, <1>2, <1>3, PTL DEF Spec

-----------------------------------------------------------------------------
(* The bytes a read returns.                                               *)

\* What a read of the open file finds in n bytes of the cache that begin at position
\* offset of the file.
Holds(offset, n) == \A i \in 0 .. n - 1 : cache[i] = Sent(offset, i)

\* A file that nobody has changed since its size was taken has that size, and lies in the
\* cache; the cache of no file is empty.
SizeIsKnown ==
    /\ fileIsOpen /\ fileName \notin touched => stSize = Len(content[fileName])
    /\ \A t \in Threads :
           pc[t] = "name" /\ arg[t].path \notin touched => stSize = Len(content[arg[t].path])

CacheHolds ==
    /\ ~fileIsOpen => cacheLen = 0
    /\ fileIsOpen /\ fileName \notin touched /\ (\A t \in Threads : pc[t] \notin {"offset", "length"})
          => Holds(cacheOffset, cacheLen)

\* A read in progress of such a file: how much it copies, what it has fetched, and that
\* the content it is to return is one its file has had during the call.
ReadHolds(t) ==
    pc[t] \in Reading /\ arg[t].path \notin touched =>
        LET c == content[arg[t].path]
        IN /\ c \in seen[t] /\ arg[t].offset < Len(c)
           /\ amount[t].actual \in 1 .. amount[t].fetch
           /\ arg[t].offset + amount[t].actual =
                  IF arg[t].offset + arg[t].size < Len(c) THEN arg[t].offset + arg[t].size ELSE Len(c)
           /\ pc[t] \in {"offset", "length"} => Holds(arg[t].offset, amount[t].fetch)
           /\ pc[t] = "length" => cacheOffset = arg[t].offset
           /\ pc[t] = "copy" => /\ cacheOffset <= arg[t].offset
                                /\ arg[t].offset + amount[t].actual <= cacheOffset + cacheLen

\* An open asks for no bytes and returns none.
OpenHolds(t) ==
    pc[t] \in Opening => arg[t].offset = 0 /\ arg[t].size = 0 /\ answer[t] = << >>

ReadInv ==
    /\ SizeIsKnown /\ CacheHolds /\ ReadOfUnchanged
    /\ \A t \in Threads : ReadHolds(t) /\ OpenHolds(t)

LEMMA InitReadInv == Init => ReadInv
BY DEF Init, ReadInv, SizeIsKnown, CacheHolds, Holds, ReadHolds, OpenHolds, ReadOfUnchanged, ReturnedData,
       Reading, Opening

\* A part of a file is the function of its bytes.
LEMMA SubSeqIsFunction ==
    ASSUME NEW c \in Seq(Bytes), NEW offset \in Nat, NEW n \in Nat, offset + n <= Len(c)
    PROVE  SubSeq(c, offset + 1, offset + n) = [i \in 1 .. n |-> c[offset + i]]
<1> DEFINE s == SubSeq(c, offset + 1, offset + n)
           g == [i \in 1 .. n |-> c[offset + i]]
<1>1. \A i \in offset + 1 .. offset + n : c[i] \in Bytes
  BY LenProperties
<1>2. s \in Seq(Bytes) /\ Len(s) = n /\ \A i \in 1 .. n : s[i] = c[offset + i]
  BY <1>1, SubSeqProperties
<1>3. g \in Seq(Bytes) /\ Len(g) = n
  BY <1>1
<1>4. \A i \in 1 .. n : g[i] = c[offset + i]
  OBVIOUS
<1> HIDE DEF s, g
<1> QED
  BY <1>2, <1>3, <1>4, SeqEqual

LEMMA ChangeReadInv ==
    ASSUME TypeOK, OneFile, ReadInv, NEW f \in Files \cup {NoFile}, NEW c, Change(f, c)
    PROVE  ReadInv'
<1> USE DEF Opening, Reading
<1>1. \A g \in Files : g \notin touched' => g \notin touched /\ content'[g] = content[g]
  BY DEF Change, TypeOK
<1>2. UNCHANGED <<fileIsOpen, fileName, stSize, cache, cacheOffset, cacheLen, opens, pc, arg, amount, answer>>
  BY DEF Change, fileVars, cacheVars
<1>3. \A t \in Threads : /\ seen[t] \subseteq seen'[t]
                         /\ pc[t] = "idle" => seen'[t] = seen[t]
  BY DEF Change, TypeOK
<1>4. fileIsOpen => fileName \in Files
  BY DEF OneFile, TypeOK
<1>5. touched \subseteq touched'
  BY DEF Change
<1>6. SizeIsKnown'
  BY <1>1, <1>2, <1>4 DEF ReadInv, SizeIsKnown, TypeOK
<1>7. CacheHolds'
  BY <1>1, <1>2, <1>4 DEF ReadInv, CacheHolds, Holds, Sent
<1>8. ReadOfUnchanged'
  BY <1>2, <1>3, <1>5 DEF ReadInv, ReadOfUnchanged, ReturnedData
<1>9. ASSUME NEW t \in Threads
      PROVE  ReadHolds(t)' /\ OpenHolds(t)'
  <2>1. OpenHolds(t)'
    BY <1>2 DEF ReadInv, OpenHolds
  <2>2. ASSUME pc[t] \in Reading, arg[t].path \notin touched'
        PROVE  ReadHolds(t)'
    <3>1. /\ arg[t].path \in Files /\ arg[t].path = fileName /\ arg[t].path \notin touched
          /\ content'[arg[t].path] = content[arg[t].path]
      BY <1>1, <2>2 DEF TypeOK, OneFile
    <3> QED
      BY <1>2, <1>3, <2>2, <3>1 DEF ReadInv, ReadHolds, Holds, Sent
  <2> QED
    BY <1>2, <2>1, <2>2 DEF ReadHolds
<1> QED
  BY <1>6, <1>7, <1>8, <1>9 DEF ReadInv

LEMMA OpenReadInv ==
    ASSUME OneThread, TypeOK, OneFile, ReadInv, NEW t \in Threads, OpenStep(t)
    PROVE  ReadInv'
<1> USE DEF Opening, Reading
<1>1. \A u \in Threads : u = t
  BY DEF OneThread
<1>2. ASSUME NEW f \in Files, OpenCheck(t, f)
      PROVE  ReadInv'
  <2>1. UNCHANGED <<content, touched, fileIsOpen, fileName, cache, cacheOffset, cacheLen>>
    BY <1>2 DEF OpenCheck, serverVars, cacheVars
  <2>2. /\ pc[t] = "idle" /\ pc'[t] \in {"idle", "getattr"}
        /\ fileIsOpen => stSize' = stSize
    BY <1>2, Zenon DEF OpenCheck, MayOpen, TypeOK
  <2>3. /\ arg'[t].offset = 0 /\ arg'[t].size = 0 /\ answer'[t] = << >> /\ seen'[t] = {}
    BY <1>2 DEF OpenCheck, TypeOK
  <2>4. SizeIsKnown'
    BY <1>1, <2>1, <2>2 DEF ReadInv, SizeIsKnown
  <2>5. CacheHolds'
    BY <1>1, <2>1, <2>2 DEF ReadInv, CacheHolds, Holds, Sent
  <2>6. ReadOfUnchanged' /\ ReadHolds(t)' /\ OpenHolds(t)'
    BY <1>1, <2>2, <2>3 DEF ReadOfUnchanged, ReturnedData, ReadHolds, OpenHolds
  <2> QED
    BY <1>1, <2>4, <2>5, <2>6 DEF ReadInv
<1>3. ASSUME NEW f \in Files, Release(t, f)
      PROVE  ReadInv'
  <2>1. fileIsOpen /\ fileName = f
    BY <1>3 DEF Release, OneFile
  <2>2. ~fileIsOpen' /\ cacheLen' = 0
    BY <1>3, <2>1, Zenon DEF Release, CacheCleared
  <2>3. pc[t] = "idle" /\ UNCHANGED <<content, touched, pc, arg, amount, seen, answer>>
    BY <1>3 DEF Release, serverVars, threadVars
  <2> QED
    BY <1>1, <2>2, <2>3 DEF ReadInv, SizeIsKnown, CacheHolds, ReadOfUnchanged, ReturnedData,
                            ReadHolds, OpenHolds
<1>4. CASE OpenGetattr(t)
  <2>1. /\ ~fileIsOpen /\ UNCHANGED <<fileIsOpen, cacheLen>>
        /\ pc[t] = "getattr" /\ pc'[t] = "name"
    BY <1>4 DEF OpenGetattr, OneFile, TypeOK, cacheVars
  <2>2. UNCHANGED <<content, arg, answer>> /\ stSize' = Len(content[arg[t].path])
    BY <1>4 DEF OpenGetattr
  <2> QED
    BY <1>1, <2>1, <2>2 DEF ReadInv, SizeIsKnown, CacheHolds, ReadOfUnchanged, ReturnedData,
                            ReadHolds, OpenHolds
<1>5. CASE OpenName(t)
  <2> DEFINE f == arg[t].path
  <2>1. /\ pc[t] = "name" /\ pc'[t] = "idle" /\ f \in Files /\ fileName' = f
        /\ ~fileIsOpen /\ UNCHANGED <<content, touched, stSize, cacheLen, arg, answer, seen>>
    BY <1>5 DEF OpenName, OneFile, TypeOK, serverVars, cacheVars
  <2>2. cacheLen' = 0
    BY <2>1 DEF ReadInv, CacheHolds, TypeOK
  <2>3. SizeIsKnown'
    BY <1>1, <2>1 DEF ReadInv, SizeIsKnown
  <2>4. CacheHolds'
    BY <2>2 DEF CacheHolds, Holds
  <2>5. arg[t].offset = 0 /\ arg[t].size = 0 /\ answer[t] = << >>
    BY <2>1 DEF ReadInv, OpenHolds
  <2>6. \A c \in seen[t] : Slice(c, 0, 0) = << >>
    <3>1. \A c \in seen[t] : Len(c) \in Nat
      BY DEF TypeOK
    <3> QED
      BY <3>1, SubSeqEmpty DEF Slice
  <2>7. ReadOfUnchanged' /\ ReadHolds(t)' /\ OpenHolds(t)'
    BY <1>1, <2>1, <2>5, <2>6 DEF ReadOfUnchanged, ReturnedData, ReadHolds, OpenHolds
  <2> QED
    BY <1>1, <2>3, <2>4, <2>7 DEF ReadInv
<1> QED
  BY <1>2, <1>3, <1>4, <1>5 DEF OpenStep

LEMMA ReadCheckReadInv ==
    ASSUME OneThread, TypeOK, OneFile, ReadInv, NEW t \in Threads, NEW f \in Files,
           NEW offset \in 0 .. MaxLen - 1, NEW size \in 1 .. MaxRead, ReadCheck(t, f, offset, size)
    PROVE  ReadInv'
<1> USE DEF Opening, Reading
<1> DEFINE actual == ActualSize(offset, size)
<1>1. \A u \in Threads : u = t
  BY DEF OneThread
<1>2. /\ UNCHANGED <<content, touched, fileIsOpen, fileName, stSize, cache, cacheOffset, cacheLen>>
      /\ fileIsOpen /\ fileName = f /\ pc[t] = "idle" /\ offset < Len(content[f])
  BY DEF ReadCheck, OneFile, serverVars, fileVars, cacheVars
<1>3. /\ arg'[t].path = f /\ arg'[t].offset = offset /\ arg'[t].size = size
      /\ amount'[t].actual = actual /\ amount'[t].fetch = FetchSize
      /\ seen'[t] = {content[f]} /\ answer'[t] = << >>
  BY DEF ReadCheck, TypeOK
<1>4. /\ pc'[t] \in {"idle", "fetch", "copy"}
      /\ pc'[t] = "idle" => actual = 0
      /\ pc'[t] = "copy" => ~Refill(offset, actual)
  BY Zenon DEF ReadCheck, TypeOK
<1>5. SizeIsKnown' /\ CacheHolds'
  BY <1>1, <1>2, <1>4 DEF ReadInv, SizeIsKnown, CacheHolds, Holds, Sent
<1>6. ASSUME f \notin touched
      PROVE  /\ actual \in 1 .. FetchSize /\ pc'[t] # "idle"
             /\ offset + actual = IF offset + size < Len(content[f]) THEN offset + size ELSE Len(content[f])
  <2>1. stSize = Len(content[f])
    BY <1>2, <1>6 DEF ReadInv, SizeIsKnown
  <2>2. offset \in Nat /\ stSize \in Nat /\ size \in Nat /\ offset < stSize
    BY <1>2, <2>1, CacheAssumption DEF TypeOK
  <2>3. /\ actual \in 0 .. size /\ actual > 0 /\ actual <= FetchSize
        /\ FetchSize \in 0 .. CacheSize
    BY <2>2, AmountIsBounded
  <2>4. offset + actual = IF offset + size < stSize THEN offset + size ELSE stSize
    BY <2>2 DEF ActualSize
  <2> HIDE DEF actual
  <2> QED
    BY <1>4, <2>1, <2>3, <2>4, CacheAssumption
<1>7. ~Refill(offset, actual) => cacheOffset <= offset /\ offset + actual <= cacheOffset + cacheLen
  <2>1. offset \in Nat /\ stSize \in Nat /\ cacheOffset \in Nat /\ cacheLen \in Nat
    BY CacheAssumption DEF TypeOK
  <2>2. actual \in Nat
    BY <2>1, AmountIsBounded
  <2> HIDE DEF actual
  <2> QED
    BY <2>1, <2>2 DEF Refill
<1> HIDE DEF actual
<1>8. ReadOfUnchanged'
  BY <1>1, <1>2, <1>3, <1>6 DEF ReadOfUnchanged, ReturnedData
<1>9. ReadHolds(t)' /\ OpenHolds(t)'
  BY <1>2, <1>3, <1>4, <1>6, <1>7 DEF ReadHolds, OpenHolds
<1> QED
  BY <1>1, <1>5, <1>8, <1>9 DEF ReadInv

\* The copy returns the bytes of the file, from the cache or from what was just fetched.
LEMMA CopyIsSlice ==
    ASSUME TypeOK, OneFile, ReadInv, NEW t \in Threads, OneThread, ReadCopy(t),
           arg[t].path \notin touched
    PROVE  answer'[t] = Slice(content[arg[t].path], arg[t].offset, arg[t].size)
<1> USE DEF Opening, Reading
<1> DEFINE c == content[arg[t].path]
           offset == arg[t].offset
           actual == amount[t].actual
<1>1. pc[t] = "copy" /\ arg[t].path \in Files /\ fileIsOpen /\ fileName = arg[t].path
  BY DEF ReadCopy, OneFile, TypeOK
<1>2. /\ c \in Seq(Bytes) /\ offset \in Nat /\ actual \in Nat /\ arg[t].size \in Nat
      /\ cacheOffset \in Nat /\ cacheLen \in 0 .. CacheSize /\ DOMAIN cache = 0 .. CacheSize - 1
  BY <1>1, CacheAssumption DEF TypeOK
<1>3. /\ cacheOffset <= offset /\ offset + actual <= cacheOffset + cacheLen
      /\ offset + actual = IF offset + arg[t].size < Len(c) THEN offset + arg[t].size ELSE Len(c)
  BY <1>1 DEF ReadInv, ReadHolds
<1>4. Holds(cacheOffset, cacheLen)
  <2>1. \A u \in Threads : pc[u] \notin {"offset", "length"}
    BY <1>1 DEF OneThread
  <2> QED
    BY <1>1, <2>1 DEF ReadInv, CacheHolds
<1>5. answer'[t] = [i \in 1 .. actual |->
                      LET at == offset - cacheOffset + i - 1
                      IN IF at \in DOMAIN cache THEN cache[at] ELSE Junk]
  BY DEF ReadCopy, TypeOK
<1>6. content[fileName] = c
  BY <1>1
<1> HIDE DEF c, offset, actual
<1>7. offset + actual <= Len(c) /\ Len(c) \in Nat
  BY <1>2, <1>3
<1>8. ASSUME NEW i \in 1 .. actual
      PROVE  /\ offset - cacheOffset + i - 1 \in DOMAIN cache
             /\ cache[offset - cacheOffset + i - 1] = c[offset + i]
  <2> DEFINE at == offset - cacheOffset + i - 1
  <2>1. at \in 0 .. cacheLen - 1 /\ at \in DOMAIN cache /\ cacheOffset + at = offset + i - 1
    <3>1. i \in Nat /\ 1 <= i /\ i <= actual /\ CacheSize \in Nat /\ cacheLen \in Nat /\ cacheLen <= CacheSize
      BY <1>2, CacheAssumption
    <3>2. at \in Int /\ 0 <= at /\ at <= cacheLen - 1 /\ cacheOffset + at = offset + i - 1
      BY <1>2, <1>3, <3>1
    <3> HIDE DEF at
    <3> QED
      BY <1>2, <3>1, <3>2
  <2>2. cache[at] = Sent(cacheOffset, at)
    BY <1>4, <2>1 DEF Holds
  <2>3. offset + i - 1 < Len(c) /\ offset + i - 1 + 1 = offset + i
    BY <1>2, <1>7
  <2> QED
    BY <1>6, <2>1, <2>2, <2>3 DEF Sent
<1>9. answer'[t] = [i \in 1 .. actual |-> c[offset + i]]
  BY <1>5, <1>8
<1>10. Slice(c, offset, arg[t].size) = SubSeq(c, offset + 1, offset + actual)
  BY <1>3 DEF Slice
<1>11. answer'[t] = Slice(c, offset, arg[t].size)
  BY <1>2, <1>7, <1>9, <1>10, SubSeqIsFunction
<1> QED
  BY <1>11 DEF c, offset

LEMMA ReadReadInv ==
    ASSUME OneThread, TypeOK, OneFile, ReadInv, NEW t \in Threads, ReadStep(t)
    PROVE  ReadInv'
<1> USE DEF Opening, Reading
<1>1. \A u \in Threads : u = t
  BY DEF OneThread
<1>2. ASSUME NEW f \in Files, NEW offset \in 0 .. MaxLen - 1, NEW size \in 1 .. MaxRead,
             ReadCheck(t, f, offset, size)
      PROVE  ReadInv'
  BY <1>2, ReadCheckReadInv
<1>3. CASE ReadFetch(t)
  <2>1. /\ pc[t] = "fetch" /\ pc'[t] = "offset"
        /\ UNCHANGED <<content, touched, fileIsOpen, fileName, stSize, cacheLen, arg, amount, seen>>
    BY <1>3 DEF ReadFetch, TypeOK, serverVars, fileVars
  <2>2. fileIsOpen /\ fileName = arg[t].path
    BY <2>1 DEF OneFile, TypeOK
  <2>3. amount[t].fetch \in 0 .. CacheSize
    BY DEF TypeOK
  <2>4. \A i \in 0 .. amount[t].fetch - 1 : cache'[i] = Sent(arg[t].offset, i)
    BY <1>3, <2>3, CacheAssumption DEF ReadFetch, TypeOK
  <2>5. ReadHolds(t)'
    BY <2>1, <2>4 DEF ReadInv, ReadHolds, Holds, Sent
  <2> QED
    BY <1>1, <2>1, <2>2, <2>5 DEF ReadInv, SizeIsKnown, CacheHolds, ReadOfUnchanged, ReturnedData, OpenHolds
<1>4. CASE ReadSetOffset(t)
  <2>1. /\ pc[t] = "offset" /\ pc'[t] = "length" /\ cacheOffset' = arg[t].offset
        /\ UNCHANGED <<content, touched, fileIsOpen, fileName, stSize, cache, cacheLen, arg, amount, seen>>
    BY <1>4 DEF ReadSetOffset, TypeOK, serverVars, fileVars
  <2>2. fileIsOpen
    BY <2>1 DEF OneFile, TypeOK
  <2>3. ReadHolds(t)'
    BY <2>1 DEF ReadInv, ReadHolds, Holds, Sent
  <2> QED
    BY <1>1, <2>1, <2>2, <2>3 DEF ReadInv, SizeIsKnown, CacheHolds, ReadOfUnchanged, ReturnedData, OpenHolds
<1>5. CASE ReadSetLen(t)
  <2>1. /\ pc[t] = "length" /\ pc'[t] = "copy" /\ cacheLen' = amount[t].fetch
        /\ UNCHANGED <<content, touched, fileIsOpen, fileName, stSize, cache, cacheOffset, arg, amount, seen>>
    BY <1>5 DEF ReadSetLen, TypeOK, serverVars, fileVars
  <2>2. fileIsOpen /\ fileName = arg[t].path
    BY <2>1 DEF OneFile, TypeOK
  <2>3. CacheHolds'
    BY <1>1, <2>1, <2>2 DEF ReadInv, ReadHolds, CacheHolds, Holds, Sent
  <2>4. ReadHolds(t)'
    BY <2>1 DEF ReadInv, ReadHolds, TypeOK
  <2> QED
    BY <1>1, <2>1, <2>3, <2>4 DEF ReadInv, SizeIsKnown, ReadOfUnchanged, ReturnedData, OpenHolds
<1>6. CASE ReadCopy(t)
  <2>1. /\ pc[t] = "copy" /\ pc'[t] = "idle"
        /\ UNCHANGED <<content, touched, fileIsOpen, fileName, stSize, cache, cacheOffset, cacheLen, arg, seen>>
    BY <1>6 DEF ReadCopy, TypeOK, serverVars, fileVars, cacheVars
  <2>2. ReadOfUnchanged'
    <3> SUFFICES ASSUME arg[t].path \notin touched
                 PROVE  answer'[t] \in {Slice(c, arg[t].offset, arg[t].size) : c \in seen[t]}
      BY <1>1, <2>1 DEF ReadOfUnchanged, ReturnedData
    <3>1. content[arg[t].path] \in seen[t]
      BY <2>1 DEF ReadInv, ReadHolds
    <3> QED
      BY <1>6, <3>1, CopyIsSlice
  <2> QED
    BY <1>1, <2>1, <2>2 DEF ReadInv, SizeIsKnown, CacheHolds, Holds, Sent, ReadHolds, OpenHolds
<1> QED
  BY <1>2, <1>3, <1>4, <1>5, <1>6 DEF ReadStep

LEMMA NextReadInv ==
    ASSUME OneThread, TypeOK, OneFile, ReadInv, [Next]_vars
    PROVE  ReadInv'
<1>1. CASE UNCHANGED vars
  BY <1>1 DEF ReadInv, SizeIsKnown, CacheHolds, Holds, Sent, ReadHolds, OpenHolds, ReadOfUnchanged, ReturnedData,
              vars, serverVars, fileVars, cacheVars, threadVars
<1>2. CASE Next
  BY <1>2, ChangeSteps, ChangeReadInv, OpenReadInv, ReadReadInv DEF TypeOK
<1> QED
  BY <1>1, <1>2

\* One call at a time: a read of a file that nobody has changed since it was opened
\* returns its bytes, whatever was read, opened, written and released before.
THEOREM ReadIsRight == ASSUME OneThread PROVE Spec => []ReadOfUnchanged
<1>1. ReadInv => ReadOfUnchanged
  BY DEF ReadInv
<1>2. TypeOK /\ OneFile /\ [Next]_vars => OneFile'
  BY NextOneFile
<1>3. TypeOK /\ OneFile /\ ReadInv /\ [Next]_vars => ReadInv'
  BY NextReadInv
<1> QED
  BY InitTypeOK, NextTypeOK, InitOneFile, InitReadInv, <1>1, <1>2, <1>3, PTL DEF Spec
=============================================================================
