--------------------------- MODULE ReliableStream ---------------------------
(***************************************************************************)
(* What a UDT stream promises the two applications (UDT4/doc, send and     *)
(* recv): the receiver is given the blocks written, each once, in the      *)
(* order written, and never one not written yet.  Blocks are numbered from *)
(* 0 in the order they are written.  Nothing is said of when: a connection *)
(* may break.                                                              *)
(***************************************************************************)
EXTENDS Integers, Sequences

VARIABLES
    written,    \* number of blocks the sending application has written
    delivered   \* the blocks recv() has returned

Init == written = 0 /\ delivered = << >>

Write ==
    /\ written' > written
    /\ UNCHANGED delivered

\* recv() returns the next blocks.
Deliver ==
    /\ Len(delivered') \in (Len(delivered) + 1) .. written
    /\ delivered' = [i \in 1 .. Len(delivered') |-> i - 1]
    /\ UNCHANGED written

Next == Write \/ Deliver

Spec == Init /\ [][Next]_<<written, delivered>>
=============================================================================
