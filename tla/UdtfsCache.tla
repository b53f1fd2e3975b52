----------------------------- MODULE UdtfsCache -----------------------------
(***************************************************************************)
(* Opening and reading a file on a mounted client (udtfs/udtfs.cpp) with   *)
(* the server's side of a read (server_sendsegment in common.cpp).         *)
(*                                                                         *)
(* The client has ONE current file and ONE cache of MAX_CACHE_SIZE bytes:  *)
(* the globals _file_is_open, _file_name, _file_stats, _cache,             *)
(* _cache_offset and _cache_len.  open sets them, release clears the flag  *)
(* and the cache, read serves the current file from the cache or refills   *)
(* it, and write and truncate, whatever path they get, go to the current   *)
(* file.  No lock protects any of it.                                      *)
(*                                                                         *)
(* A byte is <<file, version, position>>, so no two bytes ever written are *)
(* equal.  Requests reach the server whole (UdtfsSession).                 *)
(***************************************************************************)
EXTENDS Integers, Sequences

CONSTANTS
    Files, Threads,
    MaxLen,         \* bound: length of a file
    CacheSize,      \* MAX_CACHE_SIZE
    MaxRead,        \* bound: bytes the kernel asks for at a time
    Changes,        \* the ways a file may change: "write", "truncate", "other"
    MaxChanges,     \* bound: changes made
    NoFile          \* _file_name before the first open

ASSUME CacheAssumption ==
    /\ MaxLen \in Nat /\ CacheSize \in Nat \ {0} /\ MaxRead \in 1 .. CacheSize
    /\ Changes \subseteq {"write", "truncate", "other"}
    /\ MaxChanges \in Nat /\ NoFile \notin Files

VARIABLES
    content,                            \* per file: its bytes at the server
    changes,                            \* changes made
    written,                            \* this client's last write: <<path, file written>>
    touched,                            \* files changed since this client took their size
    fileIsOpen, fileName, stSize,       \* _file_is_open, _file_name, _file_stats.st_size
    cache, cacheOffset, cacheLen,
    opens,                              \* per file: opens that succeeded, not yet released
    pc,                                 \* per thread: where it is in its call
    arg,                                \* per thread: the call's path, offset and size
    amount,                             \* per thread: actualsize, then also fetchsize
    seen,                               \* per thread: contents its file had during the call
    answer                              \* per thread: the bytes the last read returned

serverVars == <<content, changes, written, touched>>
fileVars   == <<fileIsOpen, fileName, stSize>>
cacheVars  == <<cache, cacheOffset, cacheLen>>
threadVars == <<pc, arg, amount, seen, answer>>
vars == <<serverVars, fileVars, cacheVars, opens, threadVars>>

Zero == <<NoFile, 0, 0>>        \* sent in place of what lies beyond the end of the file
Junk == <<NoFile, 0, 1>>        \* what memory the cache never received holds

Fresh(f, v, n) == [i \in 1 .. n |-> <<f, v, i>>]

\* At most `size' bytes of c from position `offset' on.
Slice(c, offset, size) == SubSeq(c, offset + 1, IF offset + size < Len(c) THEN offset + size ELSE Len(c))

Init ==
    /\ content \in [Files -> {Fresh(f, 0, n) : f \in Files, n \in 0 .. MaxLen}]
    /\ \A f \in Files : content[f] = Fresh(f, 0, Len(content[f]))
    /\ changes = 0 /\ written = <<NoFile, NoFile>> /\ touched = {}
    /\ fileIsOpen = FALSE /\ fileName = NoFile /\ stSize = 0
    /\ cache = [i \in 0 .. CacheSize - 1 |-> Junk] /\ cacheOffset = 0 /\ cacheLen = 0
    /\ opens = [f \in Files |-> 0]
    /\ pc = [t \in Threads |-> "idle"]
    /\ arg = [t \in Threads |-> [path |-> NoFile, offset |-> 0, size |-> 0]]
    /\ amount = [t \in Threads |-> [actual |-> 0, fetch |-> 0]]
    /\ seen = [t \in Threads |-> {}] /\ answer = [t \in Threads |-> << >>]

-----------------------------------------------------------------------------
(* open and release.                                                       *)

\* Mutant: a second open is let through.
AlwaysOpens == TRUE

\* The test at the top of udtfs_open.
MayOpen == ~fileIsOpen

\* An open that passes the test zeroes _file_stats and asks the server.
OpenCheck(t, f) ==
    /\ pc[t] = "idle"
    /\ IF MayOpen
       THEN stSize' = 0 /\ pc' = [pc EXCEPT ![t] = "getattr"]
       ELSE UNCHANGED <<stSize, pc>>                                \* -EIO
    /\ arg' = [arg EXCEPT ![t] = [path |-> f, offset |-> 0, size |-> 0]]
    /\ answer' = [answer EXCEPT ![t] = << >>]
    /\ seen' = [seen EXCEPT ![t] = {}]
    /\ UNCHANGED <<serverVars, fileIsOpen, fileName, cacheVars, opens, amount>>

OpenGetattr(t) ==
    /\ pc[t] = "getattr"
    /\ stSize' = Len(content[arg[t].path])
    /\ touched' = touched \ {arg[t].path}
    /\ pc' = [pc EXCEPT ![t] = "name"]
    /\ UNCHANGED <<content, changes, written, fileIsOpen, fileName, cacheVars, opens, arg, amount, seen, answer>>

OpenName(t) ==
    /\ pc[t] = "name"
    /\ fileName' = arg[t].path /\ fileIsOpen' = TRUE
    /\ opens' = [opens EXCEPT ![arg[t].path] = @ + 1]
    /\ pc' = [pc EXCEPT ![t] = "idle"]
    /\ UNCHANGED <<serverVars, stSize, cacheVars, arg, amount, seen, answer>>

\* Mutant: release leaves the cache as it is.
CacheKept == cacheOffset' = cacheOffset /\ cacheLen' = cacheLen

\* What release does to the cache.
CacheCleared == cacheOffset' = 0 /\ cacheLen' = 0

\* The kernel releases a file nobody reads any more.
Release(t, f) ==
    /\ pc[t] = "idle" /\ opens[f] > 0
    /\ \A u \in Threads : pc[u] \in {"fetch", "offset", "length", "copy"} => arg[u].path # f
    /\ opens' = [opens EXCEPT ![f] = @ - 1]
    /\ IF fileIsOpen /\ fileName = f
       THEN fileIsOpen' = FALSE /\ CacheCleared
       ELSE UNCHANGED <<fileIsOpen, cacheOffset, cacheLen>>
    /\ UNCHANGED <<serverVars, fileName, stSize, cache, threadVars>>

-----------------------------------------------------------------------------
(* read.                                                                   *)

\* Crop at EOF.  st_size - offset is compared as a size_t: for an offset beyond
\* st_size it is a huge number, and nothing is cropped.
ActualSize(offset, size) ==
    IF stSize >= offset /\ stSize - offset < size THEN stSize - offset ELSE size

FetchSize == IF stSize < CacheSize THEN stSize ELSE CacheSize

\* Mutant: one of the two bounds forgotten.
OnlyUpperBound(offset, actual) == offset + actual > cacheOffset + cacheLen

\* The condition to refill the cache.
Refill(offset, actual) ==
    offset < cacheOffset \/ offset + actual > cacheOffset + cacheLen

\* Refill the cache if necessary.
ReadCheck(t, f, offset, size) ==
    /\ pc[t] = "idle" /\ opens[f] > 0
    /\ offset < Len(content[f])         \* the kernel asks for what getattr says there is
    /\ LET actual == ActualSize(offset, size)
       IN /\ amount' = [amount EXCEPT ![t] =
                 [actual |-> actual, fetch |-> FetchSize]]
          /\ pc' = [pc EXCEPT ![t] = IF actual = 0 THEN "idle"
                                     ELSE IF Refill(offset, actual) THEN "fetch" ELSE "copy"]
    /\ arg' = [arg EXCEPT ![t] = [path |-> f, offset |-> offset, size |-> size]]
    /\ seen' = [seen EXCEPT ![t] = {content[f]}]
    /\ answer' = [answer EXCEPT ![t] = << >>]
    /\ UNCHANGED <<serverVars, fileVars, cacheVars, opens>>

\* Byte i of the segment the server sends: the file's, or zero.
Sent(offset, i) ==
    IF offset + i < Len(content[fileName]) THEN content[fileName][offset + i + 1] ELSE Zero

\* The request for the current file and its data, under the two locks.
ReadFetch(t) ==
    /\ pc[t] = "fetch"
    /\ cache' = [i \in DOMAIN cache |->
                    IF i < amount[t].fetch THEN Sent(arg[t].offset, i) ELSE cache[i]]
    /\ pc' = [pc EXCEPT ![t] = "offset"]
    /\ UNCHANGED <<serverVars, fileVars, cacheOffset, cacheLen, opens, arg, amount, seen, answer>>

ReadSetOffset(t) ==
    /\ pc[t] = "offset"
    /\ cacheOffset' = arg[t].offset
    /\ pc' = [pc EXCEPT ![t] = "length"]
    /\ UNCHANGED <<serverVars, fileVars, cache, cacheLen, opens, arg, amount, seen, answer>>

ReadSetLen(t) ==
    /\ pc[t] = "length"
    /\ cacheLen' = amount[t].fetch
    /\ pc' = [pc EXCEPT ![t] = "copy"]
    /\ UNCHANGED <<serverVars, fileVars, cache, cacheOffset, opens, arg, amount, seen, answer>>

\* Return the data: a memcpy, wherever in memory it leads.
ReadCopy(t) ==
    /\ pc[t] = "copy"
    /\ answer' = [answer EXCEPT ![t] =
           [i \in 1 .. amount[t].actual |->
               LET at == arg[t].offset - cacheOffset + i - 1
               IN IF at \in DOMAIN cache THEN cache[at] ELSE Junk]]
    /\ pc' = [pc EXCEPT ![t] = "idle"]
    /\ UNCHANGED <<serverVars, fileVars, cacheVars, opens, arg, amount, seen>>

-----------------------------------------------------------------------------
(* Changes of files.                                                       *)

\* Every call in progress may see the new content.
Change(f, c) ==
    /\ changes < MaxChanges /\ changes' = changes + 1
    /\ content' = [content EXCEPT ![f] = c]
    /\ touched' = touched \cup {f}
    /\ seen' = [t \in Threads |-> IF pc[t] # "idle" /\ arg[t].path = f THEN seen[t] \cup {c} ELSE seen[t]]
    /\ UNCHANGED <<fileVars, cacheVars, opens, pc, arg, amount, answer>>

\* Another client, or a process at the server, writes the file anew.
Other(f, n) ==
    /\ "other" \in Changes
    /\ Change(f, Fresh(f, changes + 1, n))
    /\ UNCHANGED written

\* The file that write and truncate change.
Target(f) == fileName

\* fopen(path, "a"): the offset and the size of the write are not looked at.
Appended(c, v) == Append(c, <<fileName, v, Len(c) + 1>>)

Write(t, f) ==
    /\ "write" \in Changes /\ pc[t] = "idle" /\ opens[f] > 0
    /\ Len(content[Target(f)]) < MaxLen
    /\ Change(Target(f), Appended(content[Target(f)], changes + 1))
    /\ written' = <<f, Target(f)>>

\* truncate() needs no open file; with no current file the name is empty and the
\* server's call fails.
Truncate(t, f, n) ==
    /\ "truncate" \in Changes /\ pc[t] = "idle" /\ Target(f) # NoFile
    /\ LET c == content[Target(f)]
       IN Change(Target(f), [i \in 1 .. n |-> IF i <= Len(c) THEN c[i] ELSE Zero])
    /\ UNCHANGED written

-----------------------------------------------------------------------------
ReadStep(t) ==
    \/ \E f \in Files, offset \in 0 .. MaxLen - 1, size \in 1 .. MaxRead : ReadCheck(t, f, offset, size)
    \/ ReadFetch(t) \/ ReadSetOffset(t) \/ ReadSetLen(t) \/ ReadCopy(t)

OpenStep(t) ==
    \/ \E f \in Files : OpenCheck(t, f) \/ Release(t, f)
    \/ OpenGetattr(t) \/ OpenName(t)

Next ==
    \/ \E t \in Threads : ReadStep(t) \/ OpenStep(t)
    \/ \E f \in Files : \/ \E n \in 0 .. MaxLen : Other(f, n)
                        \/ \E t \in Threads : Write(t, f)
                        \/ \E t \in Threads, n \in 0 .. MaxLen : Truncate(t, f, n)

Spec == Init /\ [][Next]_vars

-----------------------------------------------------------------------------
(* Properties.                                                             *)

Bytes == (Files \cup {NoFile}) \X Nat \X Nat

TypeOK ==
    /\ content \in [Files -> Seq(Bytes)] /\ changes \in Nat
    /\ fileIsOpen \in BOOLEAN /\ fileName \in Files \cup {NoFile} /\ opens \in [Files -> Nat]
    /\ stSize \in Nat /\ cacheOffset \in Nat /\ cacheLen \in 0 .. CacheSize
    /\ DOMAIN cache = 0 .. CacheSize - 1
    /\ pc \in [Threads -> {"idle", "getattr", "name", "fetch", "offset", "length", "copy"}]
    /\ arg \in [Threads -> [path : Files \cup {NoFile}, offset : Nat, size : Nat]]
    /\ amount \in [Threads -> [actual : 0 .. MaxRead, fetch : 0 .. CacheSize]]
    /\ seen \in [Threads -> SUBSET Seq(Bytes)] /\ DOMAIN answer = Threads
    /\ \A t \in Threads : pc[t] # "idle" => arg[t].path \in Files

\* The thread's last read returned what lies at that position of its file, as the file
\* was at some moment of the call, and as much of it as was asked for or the file has.
ReturnedData(t) ==
    pc[t] = "idle" /\ seen[t] # {} =>
        answer[t] \in {Slice(c, arg[t].offset, arg[t].size) : c \in seen[t]}

\* "Return the data": a read of a file nobody has changed since it was opened returns
\* its bytes, whatever was read, opened, changed and released before.
ReadOfUnchanged == \A t \in Threads : arg[t].path \notin touched => ReturnedData(t)

\* The memcpy of a read stays within the cache's memory, whatever has happened to the
\* file, its size at the server and the cache since it was opened.
CopyStaysInCache ==
    \A t \in Threads : pc[t] = "copy" =>
        LET from == arg[t].offset - cacheOffset
        IN from >= 0 /\ from + amount[t].actual <= CacheSize

\* A write, which goes to the current file, reaches the file the kernel names in the
\* call: "another file is currently open" keeps every other from being opened.
WritesGoToPath == written[1] = written[2]
=============================================================================
