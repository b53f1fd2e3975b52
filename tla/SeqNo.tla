------------------------------- MODULE SeqNo -------------------------------
(***************************************************************************)
(* Sequence numbers (CSeqNo in UDT4/src/common.h): 0 .. MaxSeqNo, used     *)
(* around and around.  Two numbers are compared as if they were near each  *)
(* other, nearer than SeqNoTH.                                             *)
(***************************************************************************)
EXTENDS Integers

CONSTANT MaxSeqNo       \* m_iMaxSeqNo, 2^31 - 1

\* The threshold, 0x3FFFFFFF for a largest number of 0x7FFFFFFF.
ASSUME SeqNoAssumption == MaxSeqNo \in Nat /\ MaxSeqNo >= 3 /\ MaxSeqNo % 2 = 1

SeqNoTH == MaxSeqNo \div 2

SeqNos == 0 .. MaxSeqNo

Distance(a, b) == IF a < b THEN b - a ELSE a - b

\* Negative, zero or positive, as the first number is before, at or after the second.
seqcmp(a, b) == IF Distance(a, b) < SeqNoTH THEN a - b ELSE b - a

\* How many numbers there are from a to b.
seqlen(a, b) == IF a <= b THEN b - a + 1 ELSE b - a + MaxSeqNo + 2

\* How far b is from a.
seqoff(a, b) ==
    IF Distance(a, b) < SeqNoTH THEN b - a
    ELSE IF a < b THEN b - a - MaxSeqNo - 1 ELSE b - a + MaxSeqNo + 1

incseq(a) == IF a = MaxSeqNo THEN 0 ELSE a + 1

decseq(a) == IF a = 0 THEN MaxSeqNo ELSE a - 1

\* incseq by a number.
incseqBy(a, n) == IF MaxSeqNo - a >= n THEN a + n ELSE a - MaxSeqNo + n - 1

\* The sequence number of the n-th packet, packets counted without bound.
NumberOf(n) == n % (MaxSeqNo + 1)
=============================================================================
