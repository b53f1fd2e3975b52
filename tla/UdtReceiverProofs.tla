------------------------- MODULE UdtReceiverProofs -------------------------
(***************************************************************************)
(* Proofs, for every number of connections and every size of the table,    *)
(* the buffer and the pool, of what the receiving worker's structures      *)
(* promise: the linked list of its connections and the hash table agree    *)
(* (UdtRcvQueue), the application reads the stream's bytes in order, and   *)
(* the unit pool refuses no two units in a row (UdtRcvBuffer).             *)
(*                                                                         *)
(* The pointers of CRcvUList are shown to lead through a sequence, and     *)
(* every operation to be one on that sequence.  The buffer's invariant     *)
(* says which packet belongs in each slot, that what a slot points to is a *)
(* busy unit with that packet, and where the application's call stands     *)
(* among the slots; the pool's count of busy units is not in it, for it    *)
(* may have any value.                                                     *)
(***************************************************************************)
EXTENDS UdtRcvQueue, UdtRcvBuffer, SequenceTheorems, FiniteSetTheorems, WellFoundedInduction, TLAPS

RcvQueueSpec == RcvQueueInit /\ [][RcvQueueNext]_rcvQueueVars

-----------------------------------------------------------------------------
(* The linked list is a sequence                                           *)

Nodes == Conns \cup {Nil}

ListTypes(L) ==
    L \in [prev : [Conns -> Nodes], next : [Conns -> Nodes], on : [Conns -> BOOLEAN],
           ts : [Conns -> Nat], first : Nodes, last : Nodes]

Distinct(q) == \A i, j \in DOMAIN q : q[i] = q[j] => i = j

\* The links lead through the nodes of q, in both directions.
LinkedAs(L, q) ==
    /\ q \in Seq(Conns) /\ Distinct(q)
    /\ Len(q) = 0 => L.first = Nil /\ L.last = Nil
    /\ Len(q) # 0 => L.first = q[1] /\ L.last = q[Len(q)]
    /\ \A i \in 1 .. Len(q) : /\ i = Len(q) => L.next[q[i]] = Nil
                              /\ i # Len(q) => L.next[q[i]] = q[i + 1]
                              /\ i = 1 => L.prev[q[i]] = Nil
                              /\ i # 1 => L.prev[q[i]] = q[i - 1]

\* What is on the list is what q has.
OnIs(L, q) == \A c \in Conns : L.on[c] <=> \E i \in 1 .. Len(q) : q[i] = c

\* The times do not decrease along q, and none is later than now.
TimesIn(L, q, now) ==
    /\ \A i, j \in 1 .. Len(q) : i <= j => L.ts[q[i]] <= L.ts[q[j]]
    /\ \A i \in 1 .. Len(q) : L.ts[q[i]] <= now

ListIs(L, q, now) == ListTypes(L) /\ LinkedAs(L, q) /\ OnIs(L, q) /\ TimesIn(L, q, now)

LEMMA NilIsNone == Nil \notin Conns
  BY RcvQueueAssumption DEF Nil

LEMMA LinkedLastIs ==
    ASSUME NEW L, ListTypes(L), NEW c \in Conns
    PROVE  /\ ListTypes(LinkedLast(L, c))
           /\ LinkedLast(L, c).on = L.on /\ LinkedLast(L, c).ts = L.ts
           /\ LinkedLast(L, c).first = IF L.first = Nil THEN c ELSE L.first
           /\ LinkedLast(L, c).last = c
           /\ \A n \in Conns : /\ LinkedLast(L, c).next[n] = IF n = c THEN Nil ELSE IF n = L.last THEN c ELSE L.next[n]
                               /\ LinkedLast(L, c).prev[n] = IF n = c THEN L.last ELSE L.prev[n]
  BY DEF ListTypes, LinkedLast, Nodes

LEMMA UnlinkedIs ==
    ASSUME NEW L, ListTypes(L), NEW c \in Conns
    PROVE  /\ ListTypes(Unlinked(L, c))
           /\ Unlinked(L, c).on = L.on /\ Unlinked(L, c).ts = L.ts
           /\ Unlinked(L, c).first = IF L.prev[c] = Nil THEN L.next[c] ELSE L.first
           /\ Unlinked(L, c).last = IF L.next[c] = Nil THEN L.prev[c] ELSE L.last
           /\ \A n \in Conns : /\ Unlinked(L, c).next[n] = IF n = L.prev[c] THEN L.next[c] ELSE L.next[n]
                               /\ Unlinked(L, c).prev[n] = IF n = L.next[c] THEN L.prev[c] ELSE L.prev[n]
  BY DEF ListTypes, Unlinked, Nodes

LEMMA RemoveAtIs ==
    ASSUME NEW q \in Seq(Conns), NEW i \in 1 .. Len(q)
    PROVE  /\ RemoveAt(q, i) \in Seq(Conns) /\ Len(RemoveAt(q, i)) = Len(q) - 1
           /\ \A j \in 1 .. Len(q) - 1 : RemoveAt(q, i)[j] = IF j < i THEN q[j] ELSE q[j + 1]
<1> DEFINE s == SubSeq(q, 1, i - 1)
           t == SubSeq(q, i + 1, Len(q))
<1>1. Len(q) \in Nat /\ i \in Nat /\ \A j \in 1 .. Len(q) : q[j] \in Conns
  BY LenProperties
<1>2. s \in Seq(Conns) /\ Len(s) = i - 1 /\ \A j \in 1 .. i - 1 : s[j] = q[j]
  <2>1. /\ s \in Seq(Conns) /\ Len(s) = IF 1 <= i - 1 THEN (i - 1) - 1 + 1 ELSE 0
        /\ \A j \in 1 .. (i - 1) - 1 + 1 : s[j] = q[1 + j - 1]
    BY <1>1, SubSeqProperties
  <2> HIDE DEF s
  <2> QED  BY <2>1, <1>1
<1>3. t \in Seq(Conns) /\ Len(t) = Len(q) - i /\ \A j \in 1 .. Len(q) - i : t[j] = q[i + j]
  <2>1. /\ t \in Seq(Conns) /\ Len(t) = IF i + 1 <= Len(q) THEN Len(q) - (i + 1) + 1 ELSE 0
        /\ \A j \in 1 .. Len(q) - (i + 1) + 1 : t[j] = q[(i + 1) + j - 1]
    BY <1>1, SubSeqProperties
  <2> HIDE DEF t
  <2> QED  BY <2>1, <1>1
<1>4. RemoveAt(q, i) = s \o t
  BY DEF RemoveAt
<1> HIDE DEF s, t
<1>5. /\ s \o t \in Seq(Conns) /\ Len(s \o t) = Len(s) + Len(t)
      /\ \A j \in 1 .. Len(s) + Len(t) : (s \o t)[j] = IF j <= Len(s) THEN s[j] ELSE t[j - Len(s)]
  BY <1>2, <1>3, ConcatProperties
<1>6. ASSUME NEW j \in 1 .. Len(q) - 1 PROVE (s \o t)[j] = IF j < i THEN q[j] ELSE q[j + 1]
  <2>1. CASE j < i
    BY <2>1, <1>1, <1>2, <1>3, <1>5
  <2>2. CASE ~(j < i)
    <3>1. j - (i - 1) \in 1 .. Len(q) - i /\ i + (j - (i - 1)) = j + 1
      BY <2>2, <1>1
    <3>2. (s \o t)[j] = t[j - (i - 1)]
      BY <2>2, <1>1, <1>2, <1>3, <1>5
    <3> QED  BY <2>2, <3>1, <3>2, <1>3
  <2> QED  BY <2>1, <2>2
<1> QED
  BY <1>1, <1>2, <1>3, <1>4, <1>5, <1>6

LEMMA RemoveAtKeeps ==
    ASSUME NEW q \in Seq(Conns), Distinct(q), NEW i \in 1 .. Len(q)
    PROVE  /\ Distinct(RemoveAt(q, i))
           /\ \A j \in 1 .. Len(q) - 1 : RemoveAt(q, i)[j] # q[i]
           /\ \A k \in 1 .. Len(q) : k # i => \E j \in 1 .. Len(q) - 1 : RemoveAt(q, i)[j] = q[k]
<1> DEFINE n == Len(q) - 1
           r == RemoveAt(q, i)
<1>1. n \in Nat /\ DOMAIN q = 1 .. Len(q) /\ Len(q) \in Nat
  BY LenProperties
<1>2. DOMAIN r = 1 .. n /\ \A j \in 1 .. n : r[j] = IF j < i THEN q[j] ELSE q[j + 1]
  BY RemoveAtIs, LenProperties
<1> HIDE DEF r
<1>3. Distinct(r)
  <2> SUFFICES ASSUME NEW j \in 1 .. n, NEW k \in 1 .. n, r[j] = r[k] PROVE j = k
    BY <1>2 DEF Distinct
  <2> DEFINE jq == IF j < i THEN j ELSE j + 1
             kq == IF k < i THEN k ELSE k + 1
  <2>1. jq \in 1 .. Len(q) /\ kq \in 1 .. Len(q) /\ r[j] = q[jq] /\ r[k] = q[kq]
    BY <1>1, <1>2
  <2>2. jq = kq
    BY <2>1, <1>1 DEF Distinct
  <2> QED  BY <2>2, <1>1
<1>4. ASSUME NEW j \in 1 .. n PROVE r[j] # q[i]
  <2> DEFINE jq == IF j < i THEN j ELSE j + 1
  <2>1. jq \in 1 .. Len(q) /\ r[j] = q[jq] /\ jq # i
    BY <1>1, <1>2
  <2> QED  BY <2>1, <1>1 DEF Distinct
<1>5. \A k \in 1 .. Len(q) : k # i => \E j \in 1 .. n : r[j] = q[k]
  <2> TAKE k \in 1 .. Len(q)
  <2> HAVE k # i
  <2>1. CASE k < i
    <3>1. k \in 1 .. n /\ r[k] = q[k]
      BY <2>1, <1>1, <1>2
    <3> QED  BY <3>1
  <2>2. CASE k > i
    <3>1. k - 1 \in 1 .. n /\ ~(k - 1 < i) /\ (k - 1) + 1 = k
      BY <2>2, <1>1
    <3>2. r[k - 1] = q[(k - 1) + 1]
      BY <3>1, <1>2
    <3> QED  BY <3>1, <3>2
  <2> QED  BY <1>1, <2>1, <2>2
<1> QED
  BY <1>3, <1>4, <1>5 DEF r

LEMMA LinkLast ==
    ASSUME NEW L, ListTypes(L), NEW q, LinkedAs(L, q), NEW c \in Conns, \A i \in 1 .. Len(q) : q[i] # c
    PROVE  LinkedAs(LinkedLast(L, c), Append(q, c))
<1> DEFINE r == Append(q, c)
           M == LinkedLast(L, c)
           m == Len(q)
<1>1. /\ q \in Seq(Conns) /\ m \in Nat /\ DOMAIN q = 1 .. m
      /\ \A i \in 1 .. m : q[i] \in Conns /\ q[i] # Nil
  BY LenProperties, NilIsNone DEF LinkedAs
<1>2. /\ r \in Seq(Conns) /\ Len(r) = m + 1 /\ DOMAIN r = 1 .. m + 1
      /\ \A i \in 1 .. m : r[i] = q[i]
      /\ r[m + 1] = c
  BY <1>1, AppendProperties, LenProperties
<1>3. /\ M.first = IF L.first = Nil THEN c ELSE L.first
      /\ M.last = c
      /\ \A n \in Conns : /\ M.next[n] = IF n = c THEN Nil ELSE IF n = L.last THEN c ELSE L.next[n]
                          /\ M.prev[n] = IF n = c THEN L.last ELSE L.prev[n]
  BY LinkedLastIs
<1>4. /\ m = 0 => L.first = Nil /\ L.last = Nil
      /\ m # 0 => L.first = q[1] /\ L.last = q[m]
      /\ \A i, j \in 1 .. m : q[i] = q[j] => i = j
      /\ \A i \in 1 .. m : /\ i # m => L.next[q[i]] = q[i + 1]
                           /\ i = 1 => L.prev[q[i]] = Nil
                           /\ i # 1 => L.prev[q[i]] = q[i - 1]
      /\ \A i \in 1 .. m : q[i] # c
  BY <1>1 DEF LinkedAs, Distinct
<1> HIDE DEF r, M
<1>5. Distinct(r)
  <2> SUFFICES ASSUME NEW i \in 1 .. m + 1, NEW j \in 1 .. m + 1, r[i] = r[j] PROVE i = j
    BY <1>2 DEF Distinct
  <2> HIDE DEF m
  <2>1. (i \in 1 .. m \/ i = m + 1) /\ (j \in 1 .. m \/ j = m + 1)
    BY <1>1
  <2> QED
    BY <2>1, <1>2, <1>4
<1> HIDE DEF m
<1>6. M.first = r[1]
  BY <1>1, <1>2, <1>3, <1>4
<1>7. ASSUME NEW i \in 1 .. m + 1
      PROVE  /\ i = m + 1 => M.next[r[i]] = Nil
             /\ i # m + 1 => M.next[r[i]] = r[i + 1]
             /\ i = 1 => M.prev[r[i]] = Nil
             /\ i # 1 => M.prev[r[i]] = r[i - 1]
  <2>1. CASE i = m + 1
    <3>1. r[i] = c /\ M.next[c] = Nil /\ M.prev[c] = L.last
      BY <2>1, <1>2, <1>3
    <3>2. i = 1 => L.last = Nil
      BY <2>1, <1>1, <1>4
    <3>3. i # 1 => L.last = r[i - 1]
      <4> SUFFICES ASSUME m # 0 PROVE L.last = r[m]
        BY <2>1, <1>1
      <4>1. m \in 1 .. m
        BY <1>1
      <4> QED  BY <4>1, <1>2, <1>4
    <3> QED  BY <2>1, <3>1, <3>2, <3>3
  <2>2. CASE i # m + 1
    <3>1. i \in 1 .. m /\ r[i] = q[i] /\ q[i] \in Conns /\ q[i] # c
      BY <2>2, <1>1, <1>2
    <3>2. M.prev[q[i]] = L.prev[q[i]] /\ M.next[q[i]] = IF q[i] = L.last THEN c ELSE L.next[q[i]]
      BY <3>1, <1>3
    <3>3. i # 1 => i - 1 \in 1 .. m /\ r[i - 1] = q[i - 1]
      BY <3>1, <1>1, <1>2
    <3>4. i # m => i + 1 \in 1 .. m /\ r[i + 1] = q[i + 1]
      BY <3>1, <1>1, <1>2
    <3>5. m # 0 /\ m \in 1 .. m /\ L.last = q[m]
      BY <3>1, <1>1, <1>4
    <3>6. i = m <=> q[i] = L.last
      BY <3>1, <3>5, <1>4
    <3>7. M.next[q[i]] = r[i + 1]
      BY <3>1, <3>2, <3>4, <3>6, <1>2, <1>4
    <3> QED  BY <2>2, <3>1, <3>2, <3>3, <3>7, <1>4
  <2> QED  BY <2>1, <2>2
<1>8. \A i \in 1 .. m + 1 : /\ i = m + 1 => M.next[r[i]] = Nil
                            /\ i # m + 1 => M.next[r[i]] = r[i + 1]
                            /\ i = 1 => M.prev[r[i]] = Nil
                            /\ i # 1 => M.prev[r[i]] = r[i - 1]
  BY <1>7
<1>9. LinkedAs(M, r)
  BY <1>1, <1>2, <1>3, <1>5, <1>6, <1>8 DEF LinkedAs
<1> QED
  BY <1>9 DEF r, M

LEMMA Unlink ==
    ASSUME NEW L, ListTypes(L), NEW q, LinkedAs(L, q), NEW i \in 1 .. Len(q)
    PROVE  LinkedAs(Unlinked(L, q[i]), RemoveAt(q, i))
<1> DEFINE r == RemoveAt(q, i)
           c == q[i]
           M == Unlinked(L, c)
           m == Len(q)
<1>1. /\ q \in Seq(Conns) /\ m \in Nat /\ DOMAIN q = 1 .. m /\ i \in 1 .. m
      /\ \A j \in 1 .. m : q[j] \in Conns /\ q[j] # Nil
  BY LenProperties, NilIsNone DEF LinkedAs
<1>2. /\ r \in Seq(Conns) /\ Len(r) = m - 1 /\ Distinct(r)
      /\ \A j \in 1 .. m - 1 : r[j] = IF j < i THEN q[j] ELSE q[j + 1]
  <2>1. Distinct(q)
    BY DEF LinkedAs
  <2>2. Distinct(r)
    BY <2>1, <1>1, RemoveAtKeeps
  <2> QED  BY <2>2, <1>1, RemoveAtIs
<1>3. /\ M.first = IF L.prev[c] = Nil THEN L.next[c] ELSE L.first
      /\ M.last = IF L.next[c] = Nil THEN L.prev[c] ELSE L.last
      /\ \A n \in Conns : /\ M.next[n] = IF n = L.prev[c] THEN L.next[c] ELSE L.next[n]
                          /\ M.prev[n] = IF n = L.next[c] THEN L.prev[c] ELSE L.prev[n]
  BY <1>1, UnlinkedIs
<1>4. /\ m # 0 => L.first = q[1] /\ L.last = q[m]
      /\ \A k, j \in 1 .. m : q[k] = q[j] => k = j
      /\ \A k \in 1 .. m : /\ k = m => L.next[q[k]] = Nil
                           /\ k # m => L.next[q[k]] = q[k + 1]
                           /\ k = 1 => L.prev[q[k]] = Nil
                           /\ k # 1 => L.prev[q[k]] = q[k - 1]
  BY <1>1 DEF LinkedAs, Distinct
<1>5. /\ i = m => L.next[c] = Nil
      /\ i # m => L.next[c] = q[i + 1] /\ i + 1 \in 1 .. m
      /\ i = 1 => L.prev[c] = Nil
      /\ i # 1 => L.prev[c] = q[i - 1] /\ i - 1 \in 1 .. m
  <2>1. (i # m => i + 1 \in 1 .. m) /\ (i # 1 => i - 1 \in 1 .. m)
    <3> HIDE DEF m
    <3> QED  BY <1>1
  <2> QED  BY <2>1, <1>1, <1>4
<1> HIDE DEF r, M, c, m
<1>6. Len(r) = 0 => M.first = Nil /\ M.last = Nil
  <2> SUFFICES ASSUME m = 1 PROVE M.first = Nil /\ M.last = Nil
    BY <1>1, <1>2
  <2> QED  BY <1>1, <1>3, <1>5
<1>7. Len(r) # 0 => M.first = r[1] /\ M.last = r[Len(r)]
  <2> SUFFICES ASSUME m > 1 PROVE M.first = r[1] /\ M.last = r[m - 1]
    BY <1>1, <1>2
  <2>1. 1 \in 1 .. m - 1 /\ m - 1 \in 1 .. m - 1 /\ m \in 1 .. m /\ m - 1 + 1 = m
    BY <1>1
  <2>2. r[1] = IF i = 1 THEN q[2] ELSE q[1]
    BY <2>1, <1>1, <1>2
  <2>3. r[m - 1] = IF i = m THEN q[m - 1] ELSE q[m]
    BY <2>1, <1>1, <1>2
  <2>4. M.first = r[1]
    BY <2>1, <2>2, <1>1, <1>3, <1>4, <1>5
  <2>5. M.last = r[m - 1]
    BY <2>1, <2>3, <1>1, <1>3, <1>4, <1>5
  <2> QED  BY <2>4, <2>5
<1>8. ASSUME NEW j \in 1 .. m - 1
      PROVE  /\ j = m - 1 => M.next[r[j]] = Nil
             /\ j # m - 1 => M.next[r[j]] = r[j + 1]
             /\ j = 1 => M.prev[r[j]] = Nil
             /\ j # 1 => M.prev[r[j]] = r[j - 1]
  <2> DEFINE k == IF j < i THEN j ELSE j + 1
  <2>1. k \in 1 .. m /\ k # i /\ r[j] = q[k] /\ q[k] \in Conns
    BY <1>1, <1>2
  <2>2. /\ k = m => L.next[q[k]] = Nil
        /\ k # m => L.next[q[k]] = q[k + 1]
        /\ k = 1 => L.prev[q[k]] = Nil
        /\ k # 1 => L.prev[q[k]] = q[k - 1]
    BY <2>1, <1>4
  <2>3. q[k] = L.prev[c] <=> k = i - 1
    BY <2>1, <1>1, <1>4, <1>5
  <2>4. q[k] = L.next[c] <=> k = i + 1
    BY <2>1, <1>1, <1>4, <1>5
  <2>5. M.next[r[j]] = IF k = i - 1 THEN L.next[c] ELSE L.next[q[k]]
    BY <2>1, <2>3, <1>3
  <2>6. M.prev[r[j]] = IF k = i + 1 THEN L.prev[c] ELSE L.prev[q[k]]
    BY <2>1, <2>4, <1>3
  <2>7. j # m - 1 => r[j + 1] = IF j + 1 < i THEN q[j + 1] ELSE q[j + 2]
    BY <1>1, <1>2
  <2>8. j # 1 => r[j - 1] = IF j - 1 < i THEN q[j - 1] ELSE q[j]
    BY <1>1, <1>2
  <2>9. k = IF j < i THEN j ELSE j + 1
    OBVIOUS
  <2> HIDE DEF k
  <2>10. j = m - 1 => M.next[r[j]] = Nil
    BY <2>1, <2>2, <2>5, <2>9, <1>1, <1>5
  <2>11. j # m - 1 => M.next[r[j]] = r[j + 1]
    BY <2>1, <2>2, <2>5, <2>7, <2>9, <1>1, <1>5
  <2>12. j = 1 => M.prev[r[j]] = Nil
    BY <2>1, <2>2, <2>6, <2>9, <1>1, <1>5
  <2>13. j # 1 => M.prev[r[j]] = r[j - 1]
    BY <2>1, <2>2, <2>6, <2>8, <2>9, <1>1, <1>5
  <2> QED  BY <2>10, <2>11, <2>12, <2>13
<1>9. \A j \in 1 .. Len(r) : /\ j = Len(r) => M.next[r[j]] = Nil
                             /\ j # Len(r) => M.next[r[j]] = r[j + 1]
                             /\ j = 1 => M.prev[r[j]] = Nil
                             /\ j # 1 => M.prev[r[j]] = r[j - 1]
  BY <1>2, <1>8
<1>10. LinkedAs(M, r)
  BY <1>2, <1>6, <1>7, <1>9 DEF LinkedAs
<1> QED
  BY <1>10 DEF r, M, c

LEMMA SameLinks ==
    ASSUME NEW L, NEW M, NEW q, LinkedAs(L, q),
           M.first = L.first, M.last = L.last, M.next = L.next, M.prev = L.prev
    PROVE  LinkedAs(M, q)
  BY DEF LinkedAs

\* A list is what its nodes on the list say.
LEMMA SameList ==
    ASSUME NEW L, NEW q, ListIs(L, q, time), NEW M, ListTypes(M), M.first = L.first, M.last = L.last,
           \A n \in Conns : /\ M.on[n] <=> L.on[n]
                            /\ L.on[n] => M.next[n] = L.next[n] /\ M.prev[n] = L.prev[n] /\ M.ts[n] = L.ts[n]
    PROVE  ListIs(M, q, time)
<1>1. LinkedAs(L, q) /\ OnIs(L, q) /\ TimesIn(L, q, time)
  BY DEF ListIs
<1>2. q \in Seq(Conns) /\ Len(q) \in Nat /\ \A i \in 1 .. Len(q) : q[i] \in Conns
  BY <1>1, LenProperties DEF LinkedAs
<1>3. \A i \in 1 .. Len(q) : L.on[q[i]]
  BY <1>1, <1>2 DEF OnIs
<1>4. \A i \in 1 .. Len(q) : M.next[q[i]] = L.next[q[i]] /\ M.prev[q[i]] = L.prev[q[i]] /\ M.ts[q[i]] = L.ts[q[i]]
  BY <1>2, <1>3
<1>5. LinkedAs(M, q)
  BY <1>1, <1>4 DEF LinkedAs
<1>6. OnIs(M, q)
  BY <1>1 DEF OnIs
<1>7. TimesIn(M, q, time)
  BY <1>1, <1>4 DEF TimesIn
<1> QED
  BY <1>5, <1>6, <1>7 DEF ListIs

\* insert puts the node, stamped, at the end.
LEMMA InsertIs ==
    ASSUME NEW L, NEW q, ListIs(L, q, time), time \in Nat, NEW c \in Conns, ~L.on[c]
    PROVE  /\ ListIs(ListInsert(L, c), Append(q, c), time)
           /\ \A n \in Conns : ListInsert(L, c).on[n] <=> n = c \/ L.on[n]
<1> DEFINE K == [L EXCEPT !.on[c] = TRUE, !.ts[c] = time]
           M == LinkedLast(K, c)
           r == Append(q, c)
<1>1. ListTypes(L) /\ LinkedAs(L, q) /\ OnIs(L, q) /\ TimesIn(L, q, time)
  BY DEF ListIs
<1>2. ListInsert(L, c) = M
  BY DEF ListInsert
<1>3. /\ ListTypes(K) /\ K.first = L.first /\ K.last = L.last /\ K.next = L.next /\ K.prev = L.prev
      /\ \A n \in Conns : /\ K.on[n] = IF n = c THEN TRUE ELSE L.on[n]
                          /\ K.ts[n] = IF n = c THEN time ELSE L.ts[n]
  BY <1>1 DEF ListTypes
<1> HIDE DEF K
<1>4. LinkedAs(K, q)
  BY <1>1, <1>3, SameLinks
<1>5. ListTypes(M) /\ M.on = K.on /\ M.ts = K.ts
  BY <1>3, LinkedLastIs
<1>6. \A i \in 1 .. Len(q) : q[i] # c
  BY <1>1 DEF OnIs
<1>7. LinkedAs(M, r)
  BY <1>3, <1>4, <1>6, LinkLast
<1>8. q \in Seq(Conns) /\ Len(q) \in Nat /\ \A i \in 1 .. Len(q) : q[i] \in Conns
  BY <1>1, LenProperties DEF LinkedAs
<1>9. Len(r) = Len(q) + 1 /\ (\A i \in 1 .. Len(q) : r[i] = q[i]) /\ r[Len(q) + 1] = c
  BY <1>8, AppendProperties
<1> HIDE DEF M, r
<1>10. \A n \in Conns : M.on[n] <=> n = c \/ L.on[n]
  BY <1>3, <1>5
<1>11. OnIs(M, r)
  <2> SUFFICES ASSUME NEW n \in Conns PROVE M.on[n] <=> \E i \in 1 .. Len(r) : r[i] = n
    BY DEF OnIs
  <2>1. L.on[n] <=> \E i \in 1 .. Len(q) : q[i] = n
    BY <1>1 DEF OnIs
  <2>2. (\E i \in 1 .. Len(r) : r[i] = n) <=> n = c \/ \E i \in 1 .. Len(q) : q[i] = n
    <3>1. \A i \in 1 .. Len(r) : i \in 1 .. Len(q) \/ i = Len(q) + 1
      BY <1>8, <1>9
    <3>2. Len(q) + 1 \in 1 .. Len(r) /\ \A i \in 1 .. Len(q) : i \in 1 .. Len(r)
      BY <1>8, <1>9
    <3> QED  BY <3>1, <3>2, <1>9
  <2> QED  BY <2>1, <2>2, <1>10
<1>12. TimesIn(M, r, time)
  <2>1. \A i \in 1 .. Len(q) : M.ts[r[i]] = L.ts[q[i]] /\ L.ts[q[i]] \in Nat /\ L.ts[q[i]] <= time
    BY <1>1, <1>3, <1>5, <1>6, <1>8, <1>9 DEF TimesIn, ListTypes
  <2>2. M.ts[r[Len(q) + 1]] = time
    BY <1>3, <1>5, <1>9
  <2>3. \A i \in 1 .. Len(r) : i \in 1 .. Len(q) \/ i = Len(q) + 1
    BY <1>8, <1>9
  <2>4. ASSUME NEW i \in 1 .. Len(r), NEW j \in 1 .. Len(r), i <= j PROVE M.ts[r[i]] <= M.ts[r[j]]
    <3>1. CASE j = Len(q) + 1
      BY <3>1, <2>1, <2>2, <2>3
    <3>2. CASE j # Len(q) + 1
      <4>1. i \in 1 .. Len(q) /\ j \in 1 .. Len(q)
        BY <3>2, <2>3, <2>4, <1>8, <1>9
      <4> QED  BY <4>1, <2>1, <2>4, <1>1 DEF TimesIn
    <3> QED  BY <3>1, <3>2
  <2>5. \A i \in 1 .. Len(r) : M.ts[r[i]] <= time
    BY <2>1, <2>2, <2>3
  <2> QED  BY <2>4, <2>5 DEF TimesIn
<1> QED
  BY <1>2, <1>5, <1>7, <1>10, <1>11, <1>12 DEF ListIs, M, r

\* A list that holds a node of q holds the rest of q once it is unlinked.
LEMMA UnlinkKeeps ==
    ASSUME NEW L, NEW q, ListIs(L, q, time), time \in Nat, NEW i \in 1 .. Len(q),
           NEW M, ListTypes(M), M.first = L.first, M.last = L.last, M.next = L.next, M.prev = L.prev,
           \A n \in Conns : n # q[i] => (M.on[n] <=> L.on[n]) /\ M.ts[n] = L.ts[n],
           ~M.on[q[i]]
    PROVE  ListIs(Unlinked(M, q[i]), RemoveAt(q, i), time)
<1> DEFINE r == RemoveAt(q, i)
           U == Unlinked(M, q[i])
<1>1. ListTypes(L) /\ LinkedAs(L, q) /\ OnIs(L, q) /\ TimesIn(L, q, time)
  BY DEF ListIs
<1>2. LinkedAs(M, q)
  BY <1>1, SameLinks
<1>3. LinkedAs(U, r)
  BY <1>2, Unlink
<1>4. q \in Seq(Conns) /\ Distinct(q) /\ Len(q) \in Nat /\ \A j \in 1 .. Len(q) : q[j] \in Conns
  BY <1>1, LenProperties DEF LinkedAs
<1>5. ListTypes(U) /\ U.on = M.on /\ U.ts = M.ts
  BY <1>4, UnlinkedIs
<1>6. Len(r) = Len(q) - 1 /\ \A j \in 1 .. Len(q) - 1 : r[j] = IF j < i THEN q[j] ELSE q[j + 1]
  BY <1>4, RemoveAtIs
<1>7. /\ \A j \in 1 .. Len(q) - 1 : r[j] # q[i]
      /\ \A k \in 1 .. Len(q) : k # i => \E j \in 1 .. Len(q) - 1 : r[j] = q[k]
  BY <1>4, RemoveAtKeeps
<1> HIDE DEF r, U
<1>8. \A j \in 1 .. Len(r) : \E k \in 1 .. Len(q) : r[j] = q[k] /\ (j < i => k = j) /\ (j >= i => k = j + 1)
  <2> TAKE j \in 1 .. Len(r)
  <2>1. CASE j < i
    <3>1. j \in 1 .. Len(q) /\ r[j] = q[j]
      BY <2>1, <1>4, <1>6
    <3> QED  BY <3>1, <2>1, <1>4
  <2>2. CASE j >= i
    <3>1. j + 1 \in 1 .. Len(q) /\ r[j] = q[j + 1]
      BY <2>2, <1>4, <1>6
    <3> QED  BY <3>1, <2>2, <1>4
  <2> QED  BY <2>1, <2>2, <1>4, <1>6
<1>9. OnIs(U, r)
  <2> SUFFICES ASSUME NEW n \in Conns PROVE U.on[n] <=> \E j \in 1 .. Len(r) : r[j] = n
    BY DEF OnIs
  <2>1. CASE n = q[i]
    BY <2>1, <1>5, <1>6, <1>7
  <2>2. CASE n # q[i]
    <3>1. U.on[n] <=> \E k \in 1 .. Len(q) : q[k] = n
      BY <2>2, <1>1, <1>5 DEF OnIs
    <3>2. ASSUME NEW k \in 1 .. Len(q), q[k] = n PROVE \E j \in 1 .. Len(r) : r[j] = n
      BY <2>2, <3>2, <1>6, <1>7
    <3>3. ASSUME NEW j \in 1 .. Len(r), r[j] = n PROVE \E k \in 1 .. Len(q) : q[k] = n
      BY <3>3, <1>8
    <3> QED  BY <3>1, <3>2, <3>3
  <2> QED  BY <2>1, <2>2
<1>10. \A j \in 1 .. Len(r) : r[j] \in Conns /\ U.ts[r[j]] = L.ts[r[j]]
  BY <1>4, <1>5, <1>6, <1>7, <1>8
<1>11. TimesIn(U, r, time)
  <2>1. ASSUME NEW j \in 1 .. Len(r), NEW k \in 1 .. Len(r), j <= k PROVE U.ts[r[j]] <= U.ts[r[k]]
    <3>1. PICK jq \in 1 .. Len(q) : r[j] = q[jq] /\ (j < i => jq = j) /\ (j >= i => jq = j + 1)
      BY <1>8
    <3>2. PICK kq \in 1 .. Len(q) : r[k] = q[kq] /\ (k < i => kq = k) /\ (k >= i => kq = k + 1)
      BY <1>8
    <3>3. jq <= kq
      BY <2>1, <3>1, <3>2, <1>4, <1>6
    <3>4. L.ts[q[jq]] <= L.ts[q[kq]]
      BY <3>3, <1>1 DEF TimesIn
    <3> QED  BY <3>1, <3>2, <3>4, <1>10
  <2>2. ASSUME NEW j \in 1 .. Len(r) PROVE U.ts[r[j]] <= time
    <3>1. PICK jq \in 1 .. Len(q) : r[j] = q[jq]
      BY <1>8
    <3>2. L.ts[q[jq]] <= time
      BY <1>1 DEF TimesIn
    <3> QED  BY <3>1, <3>2, <1>10
  <2> QED  BY <2>1, <2>2 DEF TimesIn
<1> QED
  BY <1>3, <1>5, <1>9, <1>11 DEF ListIs, r, U

LEMMA RemoveIs ==
    ASSUME NEW L, NEW q, ListIs(L, q, time), time \in Nat, NEW c \in Conns, L.on[c]
    PROVE  /\ \E r : ListIs(ListRemove(L, c), r, time)
           /\ \A n \in Conns : ListRemove(L, c).on[n] <=> n # c /\ L.on[n]
<1>1. ListTypes(L) /\ LinkedAs(L, q) /\ OnIs(L, q)
  BY DEF ListIs
<1>2. PICK i \in 1 .. Len(q) : q[i] = c
  BY <1>1 DEF OnIs
<1> DEFINE M == [L EXCEPT !.on[c] = FALSE]
           U == Unlinked(M, c)
           N == ListRemove(L, c)
           r == RemoveAt(q, i)
<1>3. /\ ListTypes(M) /\ M.first = L.first /\ M.last = L.last /\ M.next = L.next /\ M.prev = L.prev /\ M.ts = L.ts
      /\ \A n \in Conns : M.on[n] <=> n # c /\ L.on[n]
  BY <1>1 DEF ListTypes
<1>4. ListIs(U, r, time)
  <2> HIDE DEF M
  <2> QED  BY <1>2, <1>3, UnlinkKeeps
<1>5. /\ ListTypes(U) /\ U.on = M.on /\ U.ts = M.ts
      /\ U.first = IF M.prev[c] = Nil THEN M.next[c] ELSE M.first
      /\ U.last = IF M.next[c] = Nil THEN M.prev[c] ELSE M.last
      /\ \A n \in Conns : /\ U.next[n] = IF n = M.prev[c] THEN M.next[c] ELSE M.next[n]
                          /\ U.prev[n] = IF n = M.next[c] THEN M.prev[c] ELSE M.prev[n]
  <2>1. ListTypes(M)
    BY <1>3
  <2> HIDE DEF M
  <2> QED  BY <2>1, UnlinkedIs
<1> DEFINE D == Unlinked(L, c)
<1>6. /\ ListTypes(D) /\ D.on = L.on /\ D.ts = L.ts
      /\ D.first = IF L.prev[c] = Nil THEN L.next[c] ELSE L.first
      /\ D.last = IF L.next[c] = Nil THEN L.prev[c] ELSE L.last
      /\ \A n \in Conns : /\ D.next[n] = IF n = L.prev[c] THEN L.next[c] ELSE L.next[n]
                          /\ D.prev[n] = IF n = L.next[c] THEN L.prev[c] ELSE L.prev[n]
  BY <1>1, UnlinkedIs
<1>7. N = [D EXCEPT !.next[c] = Nil, !.prev[c] = Nil, !.on[c] = FALSE]
  BY DEF ListRemove
<1> HIDE DEF M, U, N, D
<1>8. /\ ListTypes(N) /\ N.ts = D.ts /\ N.first = D.first /\ N.last = D.last
      /\ \A n \in Conns : /\ N.on[n] <=> n # c /\ D.on[n]
                          /\ n # c => N.next[n] = D.next[n] /\ N.prev[n] = D.prev[n]
  <2>1. ListTypes(D)
    BY <1>6
  <2> QED  BY <2>1, <1>7 DEF ListTypes, Nodes
<1>9. U.first = D.first /\ U.last = D.last /\ U.ts = D.ts
  BY <1>3, <1>5, <1>6
<1>10. \A n \in Conns : U.next[n] = D.next[n] /\ U.prev[n] = D.prev[n]
  BY <1>3, <1>5, <1>6
<1>11. \A n \in Conns : /\ U.on[n] <=> n # c /\ L.on[n]
                        /\ N.on[n] <=> n # c /\ L.on[n]
  BY <1>3, <1>5, <1>6, <1>8
<1>12. ListIs(N, r, time)
  <2>1. ListTypes(N) /\ N.first = U.first /\ N.last = U.last
    BY <1>8, <1>9
  <2>2. \A n \in Conns : /\ N.on[n] <=> U.on[n]
                         /\ U.on[n] => N.next[n] = U.next[n] /\ N.prev[n] = U.prev[n] /\ N.ts[n] = U.ts[n]
    BY <1>8, <1>9, <1>10, <1>11
  <2> HIDE DEF r
  <2> QED  BY <2>1, <2>2, <1>4, SameList
<1> QED
  BY <1>11, <1>12 DEF N

\* update moves the node, stamped, to the end.
LEMMA UpdateIs ==
    ASSUME NEW L, NEW q, ListIs(L, q, time), time \in Nat, NEW c \in Conns, L.on[c]
    PROVE  /\ \E r : ListIs(ListUpdate(L, c), r, time)
           /\ \A n \in Conns : ListUpdate(L, c).on[n] <=> L.on[n]
<1>1. ListTypes(L) /\ LinkedAs(L, q) /\ OnIs(L, q) /\ TimesIn(L, q, time)
  BY DEF ListIs
<1>2. PICK i \in 1 .. Len(q) : q[i] = c
  BY <1>1 DEF OnIs
<1>3. q \in Seq(Conns) /\ Len(q) \in Nat /\ Distinct(q) /\ DOMAIN q = 1 .. Len(q) /\ \A j \in 1 .. Len(q) : q[j] \in Conns
  BY <1>1, LenProperties DEF LinkedAs
<1> DEFINE M == [L EXCEPT !.ts[c] = time]
           F == [L EXCEPT !.on[c] = FALSE]
<1>4. /\ ListTypes(M) /\ M.first = L.first /\ M.last = L.last /\ M.next = L.next /\ M.prev = L.prev /\ M.on = L.on
      /\ \A n \in Conns : M.ts[n] = IF n = c THEN time ELSE L.ts[n]
  BY <1>1 DEF ListTypes
<1>5. /\ ListTypes(F) /\ F.first = L.first /\ F.last = L.last /\ F.next = L.next /\ F.prev = L.prev /\ F.ts = L.ts
      /\ \A n \in Conns : F.on[n] = IF n = c THEN FALSE ELSE L.on[n]
  BY <1>1 DEF ListTypes
<1>6. ListUpdate(L, c) = IF L.next[c] = Nil THEN M ELSE LinkedLast(Unlinked(M, c), c)
  BY DEF ListUpdate
<1> HIDE DEF M, F
<1>7. CASE L.next[c] = Nil
  <2>1. i = Len(q)
    <3>1. ASSUME i # Len(q) PROVE FALSE
      <4> DEFINE m == Len(q)
      <4>1. m \in Nat /\ i \in 1 .. m /\ i # m
        BY <1>2, <1>3, <3>1
      <4> HIDE DEF m
      <4>2. i + 1 \in 1 .. m
        BY ONLY <4>1
      <4>3. q[i + 1] \in Conns
        BY <4>2, <1>3 DEF m
      <4>4. L.next[q[i]] = q[i + 1]
        BY <3>1, <1>1, <1>2 DEF LinkedAs
      <4> QED  BY <4>3, <4>4, <1>2, <1>7, NilIsNone
    <3> QED  BY <3>1
  <2>2. LinkedAs(M, q) /\ OnIs(M, q)
    BY <1>1, <1>4, SameLinks DEF OnIs
  <2>3. \A j \in 1 .. Len(q) : j # i => q[j] # c
    BY <1>2, <1>3 DEF Distinct
  <2>4. \A j \in 1 .. Len(q) : M.ts[q[j]] = IF j = i THEN time ELSE L.ts[q[j]]
    BY <1>2, <1>3, <1>4, <2>3
  <2>5. \A j \in 1 .. Len(q) : L.ts[q[j]] \in Nat /\ L.ts[q[j]] <= time
    BY <1>1, <1>3 DEF ListTypes, TimesIn
  <2>6. ASSUME NEW j \in 1 .. Len(q), NEW k \in 1 .. Len(q), j <= k PROVE M.ts[q[j]] <= M.ts[q[k]]
    <3>1. CASE k = i
      BY <3>1, <2>4, <2>5
    <3>2. CASE k # i
      <4>1. j # i
        BY <3>2, <2>1, <2>6, <1>3
      <4>2. L.ts[q[j]] <= L.ts[q[k]]
        BY <2>6, <1>1 DEF TimesIn
      <4> QED  BY <3>2, <4>1, <4>2, <2>4
    <3> QED  BY <3>1, <3>2
  <2>7. TimesIn(M, q, time)
    <3>1. \A j \in 1 .. Len(q) : M.ts[q[j]] <= time
      BY <2>4, <2>5, <1>1 DEF TimesIn
    <3>2. \A j, k \in 1 .. Len(q) : j <= k => M.ts[q[j]] <= M.ts[q[k]]
      BY <2>6
    <3> QED  BY <3>1, <3>2 DEF TimesIn
  <2>8. ListUpdate(L, c) = M
    BY <1>6, <1>7
  <2> QED  BY <2>2, <2>7, <2>8, <1>4 DEF ListIs
<1>8. CASE L.next[c] # Nil
  <2> DEFINE G == [M EXCEPT !.on[c] = FALSE]
             U == Unlinked(M, c)
             V == Unlinked(G, c)
             r == RemoveAt(q, i)
  <2>1. /\ ListTypes(G) /\ G.first = M.first /\ G.last = M.last /\ G.next = M.next /\ G.prev = M.prev /\ G.ts = M.ts
        /\ \A n \in Conns : G.on[n] <=> n # c /\ M.on[n]
    BY <1>4 DEF ListTypes
  <2> HIDE DEF G
  <2>2. /\ ListTypes(G) /\ G.first = L.first /\ G.last = L.last /\ G.next = L.next /\ G.prev = L.prev
        /\ \A n \in Conns : /\ G.on[n] <=> n # c /\ L.on[n]
                            /\ n # c => G.ts[n] = L.ts[n]
    BY <1>4, <2>1
  <2>3. /\ \A n \in Conns : n # c => (G.on[n] <=> L.on[n]) /\ G.ts[n] = L.ts[n]
        /\ ~G.on[c]
    BY <2>2
  <2>4. ListIs(V, r, time)
    BY <1>2, <2>2, <2>3, UnlinkKeeps
  <2>5. /\ ListTypes(U) /\ U.on = M.on /\ U.ts = M.ts
        /\ U.first = IF M.prev[c] = Nil THEN M.next[c] ELSE M.first
        /\ U.last = IF M.next[c] = Nil THEN M.prev[c] ELSE M.last
        /\ \A n \in Conns : /\ U.next[n] = IF n = M.prev[c] THEN M.next[c] ELSE M.next[n]
                            /\ U.prev[n] = IF n = M.next[c] THEN M.prev[c] ELSE M.prev[n]
    <3>1. ListTypes(M)
      BY <1>4
    <3> QED  BY <3>1, UnlinkedIs
  <2>6. /\ ListTypes(V) /\ V.on = G.on /\ V.ts = G.ts
        /\ V.first = IF G.prev[c] = Nil THEN G.next[c] ELSE G.first
        /\ V.last = IF G.next[c] = Nil THEN G.prev[c] ELSE G.last
        /\ \A n \in Conns : /\ V.next[n] = IF n = G.prev[c] THEN G.next[c] ELSE G.next[n]
                            /\ V.prev[n] = IF n = G.next[c] THEN G.prev[c] ELSE G.prev[n]
    <3>1. ListTypes(G)
      BY <2>1
    <3> QED  BY <3>1, UnlinkedIs
  <2> HIDE DEF U, V
  <2>7. U.first = V.first /\ U.last = V.last /\ U.ts = V.ts
    BY <2>1, <2>5, <2>6
  <2>8. \A n \in Conns : U.next[n] = V.next[n] /\ U.prev[n] = V.prev[n]
    BY <2>1, <2>5, <2>6
  <2>9. \A n \in Conns : (U.on[n] <=> L.on[n]) /\ (V.on[n] <=> n # c /\ L.on[n])
    BY <1>4, <2>2, <2>5, <2>6
  <2>10. \A n \in Conns : U.ts[n] = IF n = c THEN time ELSE L.ts[n]
    BY <1>4, <2>5
  <2> DEFINE H == LinkedLast(U, c)
             W == [V EXCEPT !.on[c] = TRUE, !.ts[c] = time]
             J == LinkedLast(W, c)
  <2>11. /\ ListTypes(W) /\ W.first = V.first /\ W.last = V.last /\ W.next = V.next /\ W.prev = V.prev
         /\ \A n \in Conns : /\ W.on[n] <=> n = c \/ V.on[n]
                             /\ W.ts[n] = IF n = c THEN time ELSE V.ts[n]
    <3>1. ListTypes(V)
      BY <2>6
    <3> QED  BY <3>1 DEF ListTypes
  <2>12. J = ListInsert(V, c)
    BY DEF ListInsert
  <2> HIDE DEF W
  <2>13. /\ ListTypes(H) /\ H.on = U.on /\ H.ts = U.ts
         /\ H.first = IF U.first = Nil THEN c ELSE U.first
         /\ H.last = c
         /\ \A n \in Conns : /\ H.next[n] = IF n = c THEN Nil ELSE IF n = U.last THEN c ELSE U.next[n]
                             /\ H.prev[n] = IF n = c THEN U.last ELSE U.prev[n]
    <3>1. ListTypes(U)
      BY <2>5
    <3> QED  BY <3>1, LinkedLastIs
  <2>14. /\ ListTypes(J) /\ J.on = W.on /\ J.ts = W.ts
         /\ J.first = IF W.first = Nil THEN c ELSE W.first
         /\ J.last = c
         /\ \A n \in Conns : /\ J.next[n] = IF n = c THEN Nil ELSE IF n = W.last THEN c ELSE W.next[n]
                             /\ J.prev[n] = IF n = c THEN W.last ELSE W.prev[n]
    <3>1. ListTypes(W)
      BY <2>11
    <3> QED  BY <3>1, LinkedLastIs
  <2> HIDE DEF H, J
  <2>15. H.first = J.first /\ H.last = J.last
    BY <2>7, <2>11, <2>13, <2>14
  <2>16. \A n \in Conns : H.next[n] = J.next[n] /\ H.prev[n] = J.prev[n]
    BY <2>7, <2>8, <2>11, <2>13, <2>14
  <2>17. \A n \in Conns : (H.on[n] <=> L.on[n]) /\ (J.on[n] <=> L.on[n])
    BY <2>9, <2>11, <2>13, <2>14
  <2>18. \A n \in Conns : H.ts[n] = J.ts[n]
    BY <2>7, <2>10, <2>11, <2>13, <2>14
  <2>19. ~V.on[c]
    BY <2>9
  <2>20. ListIs(J, Append(r, c), time)
    <3> HIDE DEF r
    <3> QED  BY <2>4, <2>12, <2>19, InsertIs
  <2>21. ListIs(H, Append(r, c), time)
    <3> HIDE DEF r
    <3> QED  BY <2>13, <2>15, <2>16, <2>17, <2>18, <2>20, SameList
  <2>22. ListUpdate(L, c) = H
    BY <1>6, <1>8 DEF H, U
  <2> QED  BY <2>17, <2>21, <2>22
<1> QED
  BY <1>7, <1>8

-----------------------------------------------------------------------------
(* The inductive invariant                                                 *)

RcvTypes ==
    /\ conn \in [Conns -> {"none", "dialling", "connected", "closed", "deleted"}]
    /\ buckets \in [0 .. HashSize - 1 -> Seq(Conns)]
    /\ newEntries \in Seq(Conns)
    /\ rcvWorker \in [pc : {"top", "hash", "receive", "process", "timers", "unlist"}, c : Nodes]
    /\ time \in Nat

ListIsSound == \E q : ListIs(uList, q, time)

IsNew(c) == Contains(newEntries, c)

IsHashed(c) == Contains(buckets[Bucket(c)], c)

\* A connection is waiting to be taken, or on the list, and then perhaps in the table, and
\* nowhere more than once.
OnePlace ==
    /\ Distinct(newEntries)
    /\ \A b \in 0 .. HashSize - 1 : Distinct(buckets[b])
    /\ \A c \in Conns : IsNew(c) \/ uList.on[c] => conn[c] \notin {"none", "dialling"}
    /\ \A c \in Conns : IsNew(c) => ~uList.on[c]
    /\ \A c \in Conns : IsHashed(c) => uList.on[c]

\* What the worker has at hand.
AtHand ==
    /\ rcvWorker.pc \in {"hash", "process", "unlist"} =>
           rcvWorker.c \in Conns /\ uList.on[rcvWorker.c]
    /\ rcvWorker.pc \in {"hash", "unlist"} => ~IsHashed(rcvWorker.c)
    /\ rcvWorker.pc \notin {"hash", "process", "unlist"} => rcvWorker.c = Nil

RcvQueueInv == RcvTypes /\ ListIsSound /\ OnePlace /\ AtHand

LEMMA BucketOf ==
    ASSUME NEW c \in Conns
    PROVE  Bucket(c) \in 0 .. HashSize - 1
<1>1. c \in Nat /\ HashSize \in Nat /\ HashSize > 0
  BY RcvQueueAssumption
<1>2. c % HashSize \in 0 .. HashSize - 1
  BY <1>1
<1> QED
  BY <1>2 DEF Bucket

LEMMA LookupFinds ==
    ASSUME NEW c \in Conns
    PROVE  Lookup(c) # Nil <=> IsHashed(c)
  BY NilIsNone DEF Lookup, IsHashed

LEMMA FirstIsOn ==
    ASSUME ListIsSound, uList.first # Nil
    PROVE  uList.first \in Conns /\ uList.on[uList.first]
<1>1. PICK q : ListIs(uList, q, time)
  BY DEF ListIsSound
<1>2. q \in Seq(Conns) /\ Len(q) \in Nat
  BY <1>1, LenProperties DEF ListIs, LinkedAs
<1>3. Len(q) # 0 /\ uList.first = q[1]
  BY <1>1 DEF ListIs, LinkedAs
<1>4. 1 \in 1 .. Len(q) /\ q[1] \in Conns
  BY <1>2, <1>3, LenProperties
<1> QED
  BY <1>1, <1>3, <1>4 DEF ListIs, OnIs

LEMMA AppendContains ==
    ASSUME NEW s \in Seq(Conns), Distinct(s), NEW c \in Conns, ~Contains(s, c)
    PROVE  /\ Append(s, c) \in Seq(Conns) /\ Distinct(Append(s, c))
           /\ \A d \in Conns : Contains(Append(s, c), d) <=> d = c \/ Contains(s, d)
<1> DEFINE r == Append(s, c)
           n == Len(s)
<1>1. /\ r \in Seq(Conns) /\ Len(r) = n + 1 /\ DOMAIN r = 1 .. n + 1 /\ n \in Nat /\ DOMAIN s = 1 .. n
      /\ \A i \in 1 .. n : r[i] = s[i]
      /\ r[n + 1] = c
  BY AppendProperties, LenProperties
<1>2. \A i \in 1 .. n : s[i] # c
  BY DEF Contains
<1>3. \A i, j \in 1 .. n : s[i] = s[j] => i = j
  BY <1>1 DEF Distinct
<1>4. \A d : Contains(s, d) <=> \E i \in 1 .. n : s[i] = d
  BY DEF Contains
<1>5. \A d : Contains(r, d) <=> \E i \in 1 .. n + 1 : r[i] = d
  BY <1>1 DEF Contains
<1> HIDE DEF r, n
<1>6. (\A i \in 1 .. n + 1 : i \in 1 .. n \/ i = n + 1) /\ n + 1 \in 1 .. n + 1 /\ \A i \in 1 .. n : i \in 1 .. n + 1
  BY <1>1
<1>7. Distinct(r)
  BY <1>1, <1>2, <1>3, <1>6 DEF Distinct
<1>8. \A d \in Conns : Contains(r, d) <=> d = c \/ Contains(s, d)
  BY <1>1, <1>4, <1>5, <1>6
<1> QED
  BY <1>1, <1>7, <1>8 DEF r

LEMMA PrependContains ==
    ASSUME NEW s \in Seq(Conns), Distinct(s), NEW c \in Conns, ~Contains(s, c)
    PROVE  /\ <<c>> \o s \in Seq(Conns) /\ Distinct(<<c>> \o s)
           /\ \A d \in Conns : Contains(<<c>> \o s, d) <=> d = c \/ Contains(s, d)
<1> DEFINE r == <<c>> \o s
           n == Len(s)
<1>1. <<c>> \in Seq(Conns) /\ Len(<<c>>) = 1 /\ <<c>>[1] = c
  OBVIOUS
<1>2. /\ r \in Seq(Conns) /\ Len(r) = 1 + n /\ n \in Nat /\ DOMAIN s = 1 .. n
      /\ \A i \in 1 .. 1 + n : r[i] = IF i <= 1 THEN <<c>>[i] ELSE s[i - 1]
  BY <1>1, ConcatProperties, LenProperties
<1>3. DOMAIN r = 1 .. n + 1 /\ Len(r) = n + 1
  BY <1>2, LenProperties
<1>4. \A i \in 1 .. n : s[i] # c
  BY DEF Contains
<1>5. \A i, j \in 1 .. n : s[i] = s[j] => i = j
  BY <1>2 DEF Distinct
<1>6. \A d : Contains(s, d) <=> \E i \in 1 .. n : s[i] = d
  BY DEF Contains
<1>7. \A d : Contains(r, d) <=> \E i \in 1 .. n + 1 : r[i] = d
  BY <1>3 DEF Contains
<1> HIDE DEF r, n
<1>8. r[1] = c /\ 1 \in 1 .. n + 1 /\ \A i \in 1 .. n + 1 : i # 1 => i - 1 \in 1 .. n /\ r[i] = s[i - 1]
  BY <1>1, <1>2
<1>9. \A i \in 1 .. n : i + 1 \in 1 .. n + 1 /\ r[i + 1] = s[i]
  BY <1>2
<1>10. Distinct(r)
  <2> SUFFICES ASSUME NEW i \in 1 .. n + 1, NEW j \in 1 .. n + 1, r[i] = r[j] PROVE i = j
    BY <1>3 DEF Distinct
  <2>1. CASE i = 1 \/ j = 1
    BY <2>1, <1>4, <1>8
  <2>2. CASE i # 1 /\ j # 1
    <3>1. i - 1 = j - 1
      BY <2>2, <1>5, <1>8
    <3> QED  BY <3>1, <1>2
  <2> QED  BY <2>1, <2>2
<1>11. \A d \in Conns : Contains(r, d) <=> d = c \/ Contains(s, d)
  <2> TAKE d \in Conns
  <2>1. ASSUME NEW i \in 1 .. n + 1, r[i] = d PROVE d = c \/ \E j \in 1 .. n : s[j] = d
    BY <2>1, <1>8
  <2>2. ASSUME NEW j \in 1 .. n, s[j] = d PROVE \E i \in 1 .. n + 1 : r[i] = d
    BY <2>2, <1>9
  <2> QED  BY <2>1, <2>2, <1>6, <1>7, <1>8
<1> QED
  BY <1>2, <1>10, <1>11 DEF r

LEMMA TailContains ==
    ASSUME NEW s \in Seq(Conns), Distinct(s), s # << >>
    PROVE  /\ Head(s) \in Conns /\ Contains(s, Head(s))
           /\ Tail(s) \in Seq(Conns) /\ Distinct(Tail(s))
           /\ \A d \in Conns : Contains(Tail(s), d) <=> d # Head(s) /\ Contains(s, d)
<1> DEFINE r == Tail(s)
           n == Len(s)
           h == Head(s)
<1>1. /\ r \in Seq(Conns) /\ Len(r) = n - 1 /\ n \in Nat /\ n > 0 /\ DOMAIN s = 1 .. n /\ h \in Conns
      /\ \A i \in 1 .. n - 1 : r[i] = s[i + 1]
      /\ h = s[1]
  BY HeadTailProperties, LenProperties, EmptySeq
<1>2. DOMAIN r = 1 .. n - 1
  BY <1>1, LenProperties
<1>3. \A i, j \in 1 .. n : s[i] = s[j] => i = j
  BY <1>1 DEF Distinct
<1>4. \A d : Contains(s, d) <=> \E i \in 1 .. n : s[i] = d
  BY DEF Contains
<1>5. \A d : Contains(r, d) <=> \E i \in 1 .. n - 1 : r[i] = d
  BY <1>1 DEF Contains
<1> HIDE DEF r, n, h
<1>6. \A i \in 1 .. n - 1 : i + 1 \in 1 .. n /\ i + 1 # 1
  BY <1>1
<1>7. \A i \in 1 .. n : i # 1 => i - 1 \in 1 .. n - 1 /\ r[i - 1] = s[i]
  BY <1>1
<1>8. Distinct(r)
  <2> SUFFICES ASSUME NEW i \in 1 .. n - 1, NEW j \in 1 .. n - 1, r[i] = r[j] PROVE i = j
    BY <1>2 DEF Distinct
  <2>1. i + 1 = j + 1
    BY <1>1, <1>3, <1>6
  <2> QED  BY <2>1, <1>1
<1>9. \A d \in Conns : Contains(r, d) <=> d # h /\ Contains(s, d)
  <2> TAKE d \in Conns
  <2>1. ASSUME NEW i \in 1 .. n - 1, r[i] = d PROVE d # h /\ \E j \in 1 .. n : s[j] = d
    BY <2>1, <1>1, <1>3, <1>6
  <2>2. ASSUME NEW j \in 1 .. n, s[j] = d, d # h PROVE \E i \in 1 .. n - 1 : r[i] = d
    BY <2>2, <1>1, <1>7
  <2> QED  BY <2>1, <2>2, <1>4, <1>5
<1>10. Contains(s, h)
  BY <1>1, <1>4
<1> QED
  BY <1>1, <1>8, <1>9, <1>10 DEF r, h

LEMMA RemoveFirstContains ==
    ASSUME NEW s \in Seq(Conns), Distinct(s), NEW c \in Conns
    PROVE  /\ RemoveFirst(s, c) \in Seq(Conns) /\ Distinct(RemoveFirst(s, c))
           /\ \A d \in Conns : Contains(RemoveFirst(s, c), d) <=> d # c /\ Contains(s, d)
<1>1. CASE ~Contains(s, c)
  <2>1. RemoveFirst(s, c) = s
    BY <1>1 DEF RemoveFirst, Contains
  <2> QED  BY <1>1, <2>1
<1>2. CASE Contains(s, c)
  <2>1. PICK i \in 1 .. Len(s) : s[i] = c
    BY <1>2 DEF Contains
  <2>2. DOMAIN s = 1 .. Len(s) /\ Len(s) \in Nat
    BY LenProperties
  <2>3. {j \in 1 .. Len(s) : s[j] = c} = {i}
    BY <2>1, <2>2 DEF Distinct
  <2>4. Min({i}) = i
    BY <2>1, <2>2 DEF Min
  <2>5. SelectInSeq(s, LAMBDA v : v = c) = i
    BY <2>3, <2>4 DEF SelectInSeq
  <2>6. RemoveFirst(s, c) = RemoveAt(s, i)
    BY <1>2, <2>5 DEF RemoveFirst, Contains
  <2> DEFINE r == RemoveAt(s, i)
             n == Len(s)
  <2>7. /\ r \in Seq(Conns) /\ Len(r) = n - 1
        /\ \A j \in 1 .. n - 1 : r[j] = IF j < i THEN s[j] ELSE s[j + 1]
    BY RemoveAtIs
  <2>8. /\ Distinct(r)
        /\ \A j \in 1 .. n - 1 : r[j] # c
        /\ \A k \in 1 .. n : s[k] # c => \E j \in 1 .. n - 1 : r[j] = s[k]
    <3>1. s \in Seq(Conns) /\ Distinct(s) /\ i \in 1 .. Len(s)
      BY <2>1
    <3>2. /\ Distinct(RemoveAt(s, i))
          /\ \A j \in 1 .. Len(s) - 1 : RemoveAt(s, i)[j] # s[i]
          /\ \A k \in 1 .. Len(s) : k # i => \E j \in 1 .. Len(s) - 1 : RemoveAt(s, i)[j] = s[k]
      BY ONLY <3>1, RemoveAtKeeps
    <3>3. s[i] = c
      BY <2>1
    <3> HIDE DEF r
    <3> QED  BY <3>2, <3>3 DEF r
  <2> HIDE DEF r
  <2>9. \A d \in Conns : Contains(r, d) <=> d # c /\ Contains(s, d)
    <3> TAKE d \in Conns
    <3>1. ASSUME NEW j \in 1 .. n - 1, r[j] = d PROVE d # c /\ \E k \in 1 .. n : s[k] = d
      <4>1. j \in 1 .. n /\ j + 1 \in 1 .. n
        BY <2>2
      <4> QED  BY <3>1, <4>1, <2>7, <2>8
    <3>2. ASSUME NEW k \in 1 .. n, s[k] = d, d # c PROVE \E j \in 1 .. n - 1 : r[j] = d
      BY <3>2, <2>8
    <3>3. Contains(r, d) <=> \E j \in 1 .. n - 1 : r[j] = d
      BY <2>7 DEF Contains
    <3>4. Contains(s, d) <=> \E k \in 1 .. n : s[k] = d
      BY DEF Contains
    <3> QED  BY <3>1, <3>2, <3>3, <3>4
  <2> QED  BY <2>6, <2>7, <2>8, <2>9 DEF r
<1> QED
  BY <1>1, <1>2

LEMMA HashInsertIs ==
    ASSUME RcvTypes, OnePlace, NEW c \in Conns, ~IsHashed(c)
    PROVE  /\ HashInsert(c) \in [0 .. HashSize - 1 -> Seq(Conns)]
           /\ \A b \in 0 .. HashSize - 1 : Distinct(HashInsert(c)[b])
           /\ \A d \in Conns : Contains(HashInsert(c)[Bucket(d)], d) <=> d = c \/ IsHashed(d)
<1> DEFINE s == buckets[Bucket(c)]
           r == <<c>> \o s
<1>1. Bucket(c) \in 0 .. HashSize - 1 /\ \A d \in Conns : Bucket(d) \in 0 .. HashSize - 1
  BY BucketOf
<1>2. s \in Seq(Conns) /\ Distinct(s) /\ ~Contains(s, c)
  BY <1>1 DEF RcvTypes, OnePlace, IsHashed
<1>3. r \in Seq(Conns) /\ Distinct(r) /\ \A d \in Conns : Contains(r, d) <=> d = c \/ Contains(s, d)
  BY <1>2, PrependContains
<1>4. HashInsert(c) = [buckets EXCEPT ![Bucket(c)] = r]
  BY <1>1 DEF HashInsert, RcvTypes
<1>5. HashInsert(c) \in [0 .. HashSize - 1 -> Seq(Conns)]
      /\ \A b \in 0 .. HashSize - 1 : HashInsert(c)[b] = IF b = Bucket(c) THEN r ELSE buckets[b]
  BY <1>1, <1>3, <1>4 DEF RcvTypes
<1> HIDE DEF r
<1>6. \A d \in Conns : Contains(HashInsert(c)[Bucket(d)], d) <=> d = c \/ IsHashed(d)
  <2> TAKE d \in Conns
  <2>1. CASE Bucket(d) = Bucket(c)
    BY <2>1, <1>1, <1>3, <1>5 DEF IsHashed
  <2>2. CASE Bucket(d) # Bucket(c)
    BY <2>2, <1>1, <1>5 DEF IsHashed
  <2> QED  BY <2>1, <2>2
<1> QED
  BY <1>3, <1>5, <1>6 DEF OnePlace

LEMMA HashRemoveIs ==
    ASSUME RcvTypes, OnePlace, NEW c \in Conns
    PROVE  /\ HashRemove(c) \in [0 .. HashSize - 1 -> Seq(Conns)]
           /\ \A b \in 0 .. HashSize - 1 : Distinct(HashRemove(c)[b])
           /\ \A d \in Conns : Contains(HashRemove(c)[Bucket(d)], d) <=> d # c /\ IsHashed(d)
<1> DEFINE s == buckets[Bucket(c)]
           r == RemoveFirst(s, c)
<1>1. Bucket(c) \in 0 .. HashSize - 1 /\ \A d \in Conns : Bucket(d) \in 0 .. HashSize - 1
  BY BucketOf
<1>2. s \in Seq(Conns) /\ Distinct(s)
  BY <1>1 DEF RcvTypes, OnePlace
<1>3. r \in Seq(Conns) /\ Distinct(r) /\ \A d \in Conns : Contains(r, d) <=> d # c /\ Contains(s, d)
  BY <1>2, RemoveFirstContains
<1> HIDE DEF r
<1>4. HashRemove(c) = [buckets EXCEPT ![Bucket(c)] = r]
  BY <1>1 DEF HashRemove, RcvTypes, r
<1>5. HashRemove(c) \in [0 .. HashSize - 1 -> Seq(Conns)]
      /\ \A b \in 0 .. HashSize - 1 : HashRemove(c)[b] = IF b = Bucket(c) THEN r ELSE buckets[b]
  BY <1>1, <1>3, <1>4 DEF RcvTypes
<1>6. \A d \in Conns : Contains(HashRemove(c)[Bucket(d)], d) <=> d # c /\ IsHashed(d)
  <2> TAKE d \in Conns
  <2>1. CASE Bucket(d) = Bucket(c)
    BY <2>1, <1>1, <1>3, <1>5 DEF IsHashed
  <2>2. CASE Bucket(d) # Bucket(c)
    BY <2>2, <1>1, <1>5 DEF IsHashed
  <2> QED  BY <2>1, <2>2
<1> QED
  BY <1>3, <1>5, <1>6 DEF OnePlace

LEMMA InitRcvQueue == RcvQueueInit => RcvQueueInv
<1> SUFFICES ASSUME RcvQueueInit PROVE RcvQueueInv
  OBVIOUS
<1> USE DEF RcvQueueInit
<1>1. << >> \in Seq(Conns) /\ Len(<< >>) = 0 /\ Distinct(<< >>) /\ \A d : ~Contains(<< >>, d)
  BY EmptySeq DEF Distinct, Contains
<1>2. RcvTypes
  BY <1>1 DEF RcvTypes, Nodes
<1>3. ListTypes(uList) /\ uList.first = Nil /\ uList.last = Nil /\ \A c \in Conns : uList.on[c] <=> FALSE
  BY DEF ListTypes, Nodes
<1>4. ListIs(uList, << >>, time)
  BY <1>1, <1>3 DEF ListIs, LinkedAs, OnIs, TimesIn
<1>5. OnePlace
  <2>1. \A b \in 0 .. HashSize - 1 : buckets[b] = << >>
    OBVIOUS
  <2>2. \A c \in Conns : ~IsHashed(c)
    BY <1>1, <2>1, BucketOf DEF IsHashed
  <2> QED  BY <1>1, <1>3, <2>1, <2>2 DEF OnePlace, IsNew
<1> QED
  BY <1>2, <1>4, <1>5 DEF RcvQueueInv, ListIsSound, AtHand

\* A connection becomes one: it waits to be taken.
LEMMA NewEntryStep ==
    ASSUME RcvQueueInv, NEW c \in Conns, conn[c] \in {"none", "dialling"},
           conn' = [conn EXCEPT ![c] = "connected"], newEntries' = Append(newEntries, c),
           rcvWorker' \in [pc : {"timers"}, c : {Nil}] \/ UNCHANGED rcvWorker,
           UNCHANGED <<uList, buckets, time>>
    PROVE  RcvQueueInv'
<1>1. newEntries \in Seq(Conns) /\ Distinct(newEntries) /\ ~Contains(newEntries, c) /\ ~uList.on[c]
  BY DEF RcvQueueInv, RcvTypes, OnePlace, IsNew
<1>2. /\ newEntries' \in Seq(Conns) /\ Distinct(newEntries')
      /\ \A d \in Conns : Contains(newEntries', d) <=> d = c \/ Contains(newEntries, d)
  BY <1>1, AppendContains
<1>3. RcvTypes'
  BY <1>2 DEF RcvQueueInv, RcvTypes, Nodes
<1>4. \A d \in Conns : conn'[d] = IF d = c THEN "connected" ELSE conn[d]
  BY DEF RcvQueueInv, RcvTypes
<1>5. OnePlace'
  BY <1>1, <1>2, <1>4 DEF RcvQueueInv, OnePlace, IsNew, IsHashed, Bucket
<1>6. AtHand'
  BY DEF RcvQueueInv, AtHand, IsHashed, Bucket
<1>7. ListIsSound'
  BY DEF RcvQueueInv, ListIsSound
<1> QED
  BY <1>3, <1>5, <1>6, <1>7 DEF RcvQueueInv

\* A connection goes on to be closed or deleted, or one is dialled.
LEMMA ConnStep ==
    ASSUME RcvQueueInv, NEW c \in Conns, NEW s \in {"dialling", "closed", "deleted"},
           conn' = [conn EXCEPT ![c] = s], s = "dialling" => conn[c] = "none",
           UNCHANGED <<uList, buckets, newEntries, rcvWorker, time>>
    PROVE  RcvQueueInv'
<1>1. RcvTypes'
  BY DEF RcvQueueInv, RcvTypes
<1>2. \A d \in Conns : conn'[d] = IF d = c THEN s ELSE conn[d]
  BY DEF RcvQueueInv, RcvTypes
<1>3. OnePlace'
  BY <1>2 DEF RcvQueueInv, OnePlace, IsNew, IsHashed, Bucket
<1>4. AtHand' /\ ListIsSound'
  BY DEF RcvQueueInv, AtHand, ListIsSound, IsHashed, Bucket
<1> QED
  BY <1>1, <1>3, <1>4 DEF RcvQueueInv

\* The worker goes on, its lists as they were.
LEMMA WorkerStep ==
    ASSUME RcvQueueInv, NEW w \in [pc : {"top", "receive", "process", "timers"}, c : Nodes], rcvWorker' = w,
           w.pc = "process" => w.c \in Conns /\ IsHashed(w.c), w.pc # "process" => w.c = Nil,
           UNCHANGED <<conn, uList, buckets, newEntries, time>>
    PROVE  RcvQueueInv'
<1>1. RcvTypes' /\ OnePlace' /\ ListIsSound'
  BY DEF RcvQueueInv, RcvTypes, OnePlace, ListIsSound, IsNew, IsHashed, Bucket
<1>2. AtHand'
  BY DEF RcvQueueInv, AtHand, OnePlace
<1> QED
  BY <1>1, <1>2 DEF RcvQueueInv

LEMMA TakeNewEntryStep ==
    ASSUME RcvQueueInv, TakeNewEntry
    PROVE  RcvQueueInv'
<1>1. CASE newEntries = << >>
  <2>1. [pc |-> "receive", c |-> Nil] \in [pc : {"top", "receive", "process", "timers"}, c : Nodes]
    BY DEF Nodes
  <2> QED  BY <1>1, <2>1, WorkerStep DEF TakeNewEntry
<1>2. CASE newEntries # << >>
  <2> DEFINE c == Head(newEntries)
  <2>1. /\ uList' = ListInsert(uList, c) /\ newEntries' = Tail(newEntries)
        /\ rcvWorker' = [pc |-> "hash", c |-> c]
        /\ UNCHANGED <<conn, buckets, time>>
    BY <1>2 DEF TakeNewEntry
  <2>2. newEntries \in Seq(Conns) /\ Distinct(newEntries)
    BY DEF RcvQueueInv, RcvTypes, OnePlace
  <2>3. /\ c \in Conns /\ IsNew(c)
        /\ newEntries' \in Seq(Conns) /\ Distinct(newEntries')
        /\ \A d \in Conns : Contains(newEntries', d) <=> d # c /\ IsNew(d)
    BY <1>2, <2>1, <2>2, TailContains DEF IsNew
  <2> HIDE DEF c
  <2>4. ~uList.on[c] /\ ~IsHashed(c) /\ conn[c] \notin {"none", "dialling"}
    BY <2>3 DEF RcvQueueInv, OnePlace
  <2>5. PICK q : ListIs(uList, q, time)
    BY DEF RcvQueueInv, ListIsSound
  <2>6. time \in Nat
    BY DEF RcvQueueInv, RcvTypes
  <2>7. /\ ListIs(uList', Append(q, c), time)
        /\ \A n \in Conns : uList'.on[n] <=> n = c \/ uList.on[n]
    BY <2>1, <2>3, <2>4, <2>5, <2>6, InsertIs
  <2>8. ListIsSound'
    BY <2>1, <2>7 DEF ListIsSound
  <2>9. RcvTypes'
    BY <2>1, <2>3 DEF RcvQueueInv, RcvTypes, Nodes
  <2>10. \A d \in Conns : IsHashed(d)' <=> IsHashed(d)
    BY <2>1 DEF IsHashed, Bucket
  <2>11. OnePlace'
    BY <2>1, <2>3, <2>4, <2>7, <2>10 DEF RcvQueueInv, OnePlace, IsNew
  <2>12. AtHand'
    BY <2>1, <2>3, <2>4, <2>7 DEF AtHand, IsHashed, Bucket
  <2> QED  BY <2>8, <2>9, <2>11, <2>12 DEF RcvQueueInv
<1> QED
  BY <1>1, <1>2

LEMMA HashNewEntryStep ==
    ASSUME RcvQueueInv, HashNewEntry
    PROVE  RcvQueueInv'
<1> DEFINE c == rcvWorker.c
<1>1. /\ buckets' = HashInsert(c) /\ rcvWorker' = [pc |-> "receive", c |-> Nil] /\ rcvWorker.pc = "hash"
      /\ UNCHANGED <<conn, uList, newEntries, time>>
  BY DEF HashNewEntry
<1>2. c \in Conns /\ uList.on[c] /\ ~IsHashed(c)
  BY <1>1 DEF RcvQueueInv, AtHand
<1> HIDE DEF c
<1>3. /\ buckets' \in [0 .. HashSize - 1 -> Seq(Conns)]
      /\ \A b \in 0 .. HashSize - 1 : Distinct(buckets'[b])
      /\ \A d \in Conns : Contains(buckets'[Bucket(d)], d) <=> d = c \/ IsHashed(d)
  BY <1>1, <1>2, HashInsertIs DEF RcvQueueInv
<1>4. \A d \in Conns : IsHashed(d)' <=> d = c \/ IsHashed(d)
  BY <1>3 DEF IsHashed, Bucket
<1>5. RcvTypes'
  BY <1>1, <1>3 DEF RcvQueueInv, RcvTypes, Nodes
<1>6. OnePlace'
  BY <1>1, <1>2, <1>3, <1>4 DEF RcvQueueInv, OnePlace, IsNew
<1>7. AtHand' /\ ListIsSound'
  BY <1>1 DEF RcvQueueInv, AtHand, ListIsSound
<1> QED
  BY <1>5, <1>6, <1>7 DEF RcvQueueInv

LEMMA ProcessPacketStep ==
    ASSUME RcvQueueInv, NEW c \in Conns, uList.on[c], uList' = ListUpdate(uList, c),
           rcvWorker' = [pc |-> "timers", c |-> Nil],
           UNCHANGED <<conn, buckets, newEntries, time>>
    PROVE  RcvQueueInv'
<1>1. PICK q : ListIs(uList, q, time)
  BY DEF RcvQueueInv, ListIsSound
<1>2. time \in Nat
  BY DEF RcvQueueInv, RcvTypes
<1>3. /\ \E r : ListIs(uList', r, time)
      /\ \A n \in Conns : uList'.on[n] <=> uList.on[n]
  BY <1>1, <1>2, UpdateIs
<1>4. ListIsSound'
  BY <1>3 DEF ListIsSound
<1>5. RcvTypes'
  BY DEF RcvQueueInv, RcvTypes, Nodes
<1>6. \A d \in Conns : IsHashed(d)' <=> IsHashed(d)
  BY DEF IsHashed, Bucket
<1>7. OnePlace'
  BY <1>3, <1>6 DEF RcvQueueInv, OnePlace, IsNew
<1>8. AtHand'
  BY DEF RcvQueueInv, AtHand
<1> QED
  BY <1>4, <1>5, <1>7, <1>8 DEF RcvQueueInv

LEMMA TimeFirstStep ==
    ASSUME RcvQueueInv, TimeFirst
    PROVE  RcvQueueInv'
<1> DEFINE c == uList.first
<1>1. CASE c = Nil \/ ~Overdue(c)
  <2>1. [pc |-> "top", c |-> Nil] \in [pc : {"top", "receive", "process", "timers"}, c : Nodes]
    BY DEF Nodes
  <2> QED  BY <1>1, <2>1, WorkerStep DEF TimeFirst
<1>2. CASE ~(c = Nil \/ ~Overdue(c)) /\ Usable(c)
  <2>1. c \in Conns /\ uList.on[c]
    BY <1>2, FirstIsOn DEF RcvQueueInv
  <2>2. uList' = ListUpdate(uList, c) /\ UNCHANGED <<rcvWorker, conn, buckets, newEntries, time>> /\ rcvWorker.pc = "timers"
    BY <1>2 DEF TimeFirst
  <2>3. rcvWorker' = [pc |-> "timers", c |-> Nil]
    BY <2>2 DEF RcvQueueInv, RcvTypes, AtHand
  <2> HIDE DEF c
  <2> QED  BY <2>1, <2>2, <2>3, ProcessPacketStep
<1>3. CASE ~(c = Nil \/ ~Overdue(c)) /\ ~Usable(c)
  <2>1. c \in Conns /\ uList.on[c]
    BY <1>3, FirstIsOn DEF RcvQueueInv
  <2>2. /\ buckets' = HashRemove(c) /\ rcvWorker' = [pc |-> "unlist", c |-> c]
        /\ UNCHANGED <<conn, uList, newEntries, time>>
    BY <1>3 DEF TimeFirst
  <2> HIDE DEF c
  <2>3. /\ buckets' \in [0 .. HashSize - 1 -> Seq(Conns)]
        /\ \A b \in 0 .. HashSize - 1 : Distinct(buckets'[b])
        /\ \A d \in Conns : Contains(buckets'[Bucket(d)], d) <=> d # c /\ IsHashed(d)
    BY <2>1, <2>2, HashRemoveIs DEF RcvQueueInv
  <2>4. \A d \in Conns : IsHashed(d)' <=> d # c /\ IsHashed(d)
    BY <2>3 DEF IsHashed, Bucket
  <2>5. RcvTypes'
    BY <2>1, <2>2, <2>3 DEF RcvQueueInv, RcvTypes, Nodes
  <2>6. OnePlace'
    BY <2>2, <2>3, <2>4 DEF RcvQueueInv, OnePlace, IsNew
  <2>7. AtHand'
    <3>1. rcvWorker'.c = c /\ rcvWorker'.pc = "unlist" /\ ~Contains(buckets'[Bucket(c)], c)
      BY <2>1, <2>2, <2>3
    <3> QED  BY <3>1, <2>1, <2>2 DEF AtHand, IsHashed, Bucket
  <2>8. ListIsSound'
    BY <2>2 DEF RcvQueueInv, ListIsSound
  <2> QED  BY <2>5, <2>6, <2>7, <2>8 DEF RcvQueueInv
<1> QED
  BY <1>1, <1>2, <1>3

LEMMA UnlistFirstStep ==
    ASSUME RcvQueueInv, UnlistFirst
    PROVE  RcvQueueInv'
<1> DEFINE c == rcvWorker.c
<1>1. /\ uList' = ListRemove(uList, c) /\ rcvWorker' = [pc |-> "timers", c |-> Nil] /\ rcvWorker.pc = "unlist"
      /\ UNCHANGED <<conn, buckets, newEntries, time>>
  BY DEF UnlistFirst
<1>2. c \in Conns /\ uList.on[c] /\ ~IsHashed(c)
  BY <1>1 DEF RcvQueueInv, AtHand
<1> HIDE DEF c
<1>3. PICK q : ListIs(uList, q, time)
  BY DEF RcvQueueInv, ListIsSound
<1>4. time \in Nat
  BY DEF RcvQueueInv, RcvTypes
<1>5. /\ \E r : ListIs(uList', r, time)
      /\ \A n \in Conns : uList'.on[n] <=> n # c /\ uList.on[n]
  BY <1>1, <1>2, <1>3, <1>4, RemoveIs
<1>6. ListIsSound'
  BY <1>1, <1>5 DEF ListIsSound
<1>7. RcvTypes'
  BY <1>1 DEF RcvQueueInv, RcvTypes, Nodes
<1>8. \A d \in Conns : IsHashed(d)' <=> IsHashed(d)
  BY <1>1 DEF IsHashed, Bucket
<1>9. OnePlace'
  BY <1>1, <1>2, <1>5, <1>8 DEF RcvQueueInv, OnePlace, IsNew
<1>10. AtHand'
  BY <1>1 DEF AtHand
<1> QED
  BY <1>6, <1>7, <1>9, <1>10 DEF RcvQueueInv

LEMMA ClockStep ==
    ASSUME RcvQueueInv, Clock
    PROVE  RcvQueueInv'
<1>1. PICK q : ListIs(uList, q, time)
  BY DEF RcvQueueInv, ListIsSound
<1>2. time \in Nat /\ time' = time + 1 /\ UNCHANGED <<conn, uList, buckets, newEntries, rcvWorker>>
  BY DEF Clock, RcvQueueInv, RcvTypes
<1>3. q \in Seq(Conns) /\ \A i \in 1 .. Len(q) : q[i] \in Conns /\ uList.ts[q[i]] \in Nat
  BY <1>1, LenProperties DEF ListIs, LinkedAs, ListTypes
<1>4. TimesIn(uList, q, time')
  BY <1>1, <1>2, <1>3 DEF ListIs, TimesIn
<1>5. ListIsSound'
  BY <1>1, <1>2, <1>4 DEF ListIs, ListIsSound
<1>6. RcvTypes' /\ OnePlace' /\ AtHand'
  BY <1>2 DEF RcvQueueInv, RcvTypes, OnePlace, AtHand, IsNew, IsHashed, Bucket
<1> QED
  BY <1>5, <1>6 DEF RcvQueueInv

LEMMA NextRcvQueue ==
    ASSUME RcvQueueInv, [RcvQueueNext]_rcvQueueVars
    PROVE  RcvQueueInv'
<1>1. CASE UNCHANGED rcvQueueVars
  BY <1>1 DEF rcvQueueVars, RcvQueueInv, RcvTypes, ListIsSound, OnePlace, AtHand, IsNew, IsHashed, Bucket
<1>2. ASSUME NEW c \in Conns, Dial(c) PROVE RcvQueueInv'
  BY <1>2, ConnStep DEF Dial
<1>3. ASSUME NEW c \in Conns, TakeStored(c) PROVE RcvQueueInv'
  <2>1. CASE UNCHANGED <<conn, newEntries>>
    BY <1>3, <2>1 DEF TakeStored, RcvQueueInv, RcvTypes, ListIsSound, OnePlace, AtHand, IsNew, IsHashed, Bucket
  <2>2. CASE conn' = [conn EXCEPT ![c] = "connected"] /\ newEntries' = Append(newEntries, c)
    BY <1>3, <2>2, NewEntryStep DEF TakeStored
  <2> QED  BY <1>3, <2>1, <2>2 DEF TakeStored
<1>4. ASSUME NEW c \in Conns, LeaveDialling(c) PROVE RcvQueueInv'
  BY <1>4 DEF LeaveDialling, RcvQueueInv, RcvTypes, ListIsSound, OnePlace, AtHand, IsNew, IsHashed, Bucket
<1>5. ASSUME NEW c \in Conns, Accept(c) PROVE RcvQueueInv'
  <2>1. rcvWorker' = [pc |-> "timers", c |-> rcvWorker.c] /\ rcvWorker.c = Nil
    BY <1>5 DEF Accept, RcvQueueInv, RcvTypes, AtHand
  <2> QED  BY <1>5, <2>1, NewEntryStep DEF Accept
<1>6. ASSUME NEW c \in Conns, Close(c) PROVE RcvQueueInv'
  BY <1>6, ConnStep DEF Close
<1>7. ASSUME NEW c \in Conns, Delete(c) PROVE RcvQueueInv'
  BY <1>7, ConnStep DEF Delete
<1>8. ASSUME NEW c \in Conns, ReceiveFor(c) PROVE RcvQueueInv'
  <2> DEFINE w == IF Lookup(c) # Nil /\ Usable(c) THEN [pc |-> "process", c |-> c] ELSE [pc |-> "timers", c |-> Nil]
  <2>1. rcvWorker' = w /\ UNCHANGED <<conn, uList, buckets, newEntries, time>>
    BY <1>8 DEF ReceiveFor
  <2>2. w \in [pc : {"top", "receive", "process", "timers"}, c : Nodes]
    BY DEF Nodes
  <2>3. (w.pc = "process" => w.c \in Conns /\ IsHashed(w.c)) /\ (w.pc # "process" => w.c = Nil)
    BY LookupFinds
  <2> HIDE DEF w
  <2> QED  BY <2>1, <2>2, <2>3, WorkerStep
<1>9. CASE NoPacket
  <2>1. [pc |-> "timers", c |-> Nil] \in [pc : {"top", "receive", "process", "timers"}, c : Nodes]
    BY DEF Nodes
  <2> QED  BY <1>9, <2>1, WorkerStep DEF NoPacket
<1>10. CASE ProcessPacket
  <2>1. rcvWorker.c \in Conns /\ uList.on[rcvWorker.c]
    BY <1>10 DEF ProcessPacket, RcvQueueInv, AtHand
  <2> DEFINE c == rcvWorker.c
  <2>2. /\ uList' = ListUpdate(uList, c) /\ rcvWorker' = [pc |-> "timers", c |-> Nil]
        /\ UNCHANGED <<conn, buckets, newEntries, time>>
    BY <1>10 DEF ProcessPacket
  <2>3. c \in Conns /\ uList.on[c]
    BY <2>1
  <2> HIDE DEF c
  <2> QED  BY <2>2, <2>3, ProcessPacketStep
<1> QED
  BY <1>1, <1>2, <1>3, <1>4, <1>5, <1>6, <1>7, <1>8, <1>9, <1>10, TakeNewEntryStep, HashNewEntryStep,
     TimeFirstStep, UnlistFirstStep, ClockStep DEF RcvQueueNext

LEMMA RcvQueueIsSound == RcvQueueSpec => []RcvQueueInv
<1> QED
  BY InitRcvQueue, NextRcvQueue, PTL DEF RcvQueueSpec

-----------------------------------------------------------------------------
(* The list and the table hold together                                    *)

\* A recursive definition over the numbers has one solution.
LEMMA ListedIs ==
    ASSUME NEW q, ListIs(uList, q, time)
    PROVE  /\ \A k \in Nat : k < Len(q) => Listed[k] = q[k + 1]
           /\ \A k \in Nat : k >= Len(q) => Listed[k] = Nil
<1> DEFINE f == [k \in Nat |-> IF k < Len(q) THEN q[k + 1] ELSE Nil]
           Next1(g, k) == IF k = 0 THEN uList.first ELSE IF g[k - 1] = Nil THEN Nil ELSE uList.next[g[k - 1]]
<1>1. q \in Seq(Conns) /\ Len(q) \in Nat /\ \A i \in 1 .. Len(q) : q[i] \in Conns /\ q[i] # Nil
  BY LenProperties, NilIsNone DEF ListIs, LinkedAs
<1>2. \A k \in Nat : f[k] = Next1(f, k)
  <2> TAKE k \in Nat
  <2>1. CASE k = 0
    <3>1. Len(q) # 0 => 0 < Len(q)
      BY <1>1
    <3> QED  BY <2>1, <3>1 DEF ListIs, LinkedAs
  <2>2. CASE k # 0 /\ k - 1 >= Len(q)
    <3>1. k - 1 \in Nat /\ ~(k < Len(q)) /\ ~(k - 1 < Len(q))
      BY <2>2, <1>1
    <3> QED  BY <2>2, <3>1
  <2>3. CASE k # 0 /\ k - 1 < Len(q)
    <3>1. k - 1 \in Nat /\ k \in 1 .. Len(q) /\ (k - 1) + 1 = k /\ (k < Len(q) <=> k # Len(q))
      BY <2>3, <1>1
    <3>2. f[k - 1] = q[k] /\ q[k] # Nil
      BY <2>3, <3>1, <1>1
    <3>3. Next1(f, k) = uList.next[q[k]]
      BY <2>3, <3>2
    <3> QED  BY <3>1, <3>3 DEF ListIs, LinkedAs
  <2> QED  BY <2>1, <2>2, <2>3, <1>1
<1>3. f = [k \in Nat |-> Next1(f, k)]
  BY <1>2
<1>4. Listed = [k \in Nat |-> Next1(Listed, k)]
  <2> HIDE DEF f
  <2> QED  BY <1>3 DEF Listed
<1>5. \A k \in Nat : Listed[k] = Next1(Listed, k)
  BY <1>4
<1> HIDE DEF f
<1>6. \A k \in Nat : Listed[k] = f[k]
  <2> SUFFICES ASSUME {k \in Nat : Listed[k] # f[k]} # {} PROVE FALSE
    OBVIOUS
  <2>1. PICK k \in {k \in Nat : Listed[k] # f[k]} :
            \A j \in {j \in Nat : Listed[j] # f[j]} : ~(<<j, k>> \in OpToRel(<, Nat))
    BY NatLessThanWellFounded, WFMin
  <2>2. k # 0
    BY <2>1, <1>2, <1>5
  <2>3. k - 1 \in Nat /\ <<k - 1, k>> \in OpToRel(<, Nat)
    BY <2>2 DEF OpToRel
  <2>4. Listed[k - 1] = f[k - 1]
    BY <2>1, <2>3
  <2> QED  BY <2>1, <2>2, <2>4, <1>2, <1>5
<1> QED
  BY <1>1, <1>6 DEF f

\* No more nodes than connections.
LEMMA ListIsShort ==
    ASSUME NEW q \in Seq(Conns), Distinct(q)
    PROVE  Len(q) <= Cardinality(Conns) /\ Cardinality(Conns) \in Nat
<1>1. Len(q) \in Nat /\ q \in [1 .. Len(q) -> Conns] /\ DOMAIN q = 1 .. Len(q)
  BY LenProperties
<1>2. IsFiniteSet(Conns) /\ Cardinality(Conns) \in Nat
  BY RcvQueueAssumption, FS_CardinalityType
<1>3. IsFiniteSet(1 .. Len(q)) /\ Cardinality(1 .. Len(q)) = Len(q)
  BY <1>1, FS_Interval
<1>4. q \in Injection(1 .. Len(q), Conns)
  BY <1>1 DEF Injection, IsInjective, Distinct
<1>5. Cardinality(1 .. Len(q)) <= Cardinality(Conns)
  BY <1>2, <1>4, FS_Injection
<1> QED
  BY <1>2, <1>3, <1>5

LEMMA InvListInOrder ==
    ASSUME RcvQueueInv
    PROVE  ListInTimeOrder
<1>1. PICK q : ListIs(uList, q, time)
  BY DEF RcvQueueInv, ListIsSound
<1> DEFINE n == Len(q)
           N == Cardinality(Conns)
<1>2. /\ q \in Seq(Conns) /\ n \in Nat /\ Distinct(q)
      /\ \A i \in 1 .. n : q[i] \in Conns /\ q[i] # Nil
  BY <1>1, LenProperties, NilIsNone DEF ListIs, LinkedAs
<1>3. n <= N /\ N \in Nat
  BY <1>2, ListIsShort
<1>4. /\ \A k \in Nat : k < n => Listed[k] = q[k + 1]
      /\ \A k \in Nat : k >= n => Listed[k] = Nil
  BY <1>1, ListedIs
<1>5. /\ n # 0 => uList.last = q[n]
      /\ \A i \in 1 .. n : /\ i = 1 => uList.prev[q[i]] = Nil
                           /\ i # 1 => uList.prev[q[i]] = q[i - 1]
      /\ \A c \in Conns : uList.on[c] <=> \E i \in 1 .. n : q[i] = c
      /\ \A i, j \in 1 .. n : i <= j => uList.ts[q[i]] <= uList.ts[q[j]]
  BY <1>1 DEF ListIs, LinkedAs, OnIs, TimesIn
<1> HIDE DEF n, N
<1>6. {Listed[k] : k \in 0 .. N} \ {Nil} = {c \in Conns : uList.on[c]}
  <2>1. ASSUME NEW k \in 0 .. N, Listed[k] # Nil PROVE Listed[k] \in Conns /\ uList.on[Listed[k]]
    <3>1. k \in Nat /\ k < n /\ k + 1 \in 1 .. n
      BY <2>1, <1>2, <1>3, <1>4
    <3> QED  BY <3>1, <1>2, <1>4, <1>5
  <2>2. ASSUME NEW c \in Conns, uList.on[c] PROVE c # Nil /\ \E k \in 0 .. N : Listed[k] = c
    <3>1. PICK i \in 1 .. n : q[i] = c
      BY <2>2, <1>5
    <3>2. i - 1 \in 0 .. N /\ i - 1 \in Nat /\ i - 1 < n /\ (i - 1) + 1 = i
      BY <1>2, <1>3
    <3> QED  BY <3>1, <3>2, <1>4, NilIsNone
  <2> QED  BY <2>1, <2>2
<1>7. ASSUME NEW k \in 0 .. N, Listed[k] # Nil
      PROVE  /\ uList.prev[Listed[k]] = IF k = 0 THEN Nil ELSE Listed[k - 1]
             /\ Listed[k + 1] = Nil => uList.last = Listed[k]
             /\ Listed[k + 1] # Nil => uList.ts[Listed[k]] <= uList.ts[Listed[k + 1]]
  <2>1. k \in Nat /\ k < n /\ k + 1 \in 1 .. n /\ k + 1 \in Nat /\ Listed[k] = q[k + 1]
    BY <1>7, <1>2, <1>3, <1>4
  <2>2. uList.prev[Listed[k]] = IF k = 0 THEN Nil ELSE Listed[k - 1]
    <3>1. CASE k = 0
      BY <3>1, <2>1, <1>5
    <3>2. CASE k # 0
      <4>1. k - 1 \in Nat /\ k - 1 < n /\ (k - 1) + 1 = k /\ (k + 1) - 1 = k /\ k + 1 # 1
        BY <3>2, <2>1, <1>2
      <4>2. Listed[k - 1] = q[k] /\ uList.prev[q[k + 1]] = q[k]
        BY <4>1, <2>1, <1>4, <1>5
      <4> QED  BY <3>2, <4>2, <2>1
    <3> QED  BY <3>1, <3>2
  <2>3. CASE k + 1 = n
    <3>1. Listed[k + 1] = Nil /\ n # 0
      BY <2>1, <2>3, <1>2, <1>4
    <3> QED  BY <2>1, <2>2, <2>3, <3>1, <1>5
  <2>4. CASE k + 1 # n
    <3>1. k + 1 < n /\ k + 2 \in 1 .. n /\ (k + 1) + 1 = k + 2 /\ k + 1 <= k + 2
      BY <2>1, <2>4, <1>2
    <3>2. Listed[k + 1] = q[k + 2] /\ q[k + 2] # Nil
      BY <2>1, <3>1, <1>2, <1>4
    <3> QED  BY <2>1, <2>2, <3>1, <3>2, <1>5
  <2> QED  BY <2>3, <2>4
<1> QED
  BY <1>6, <1>7 DEF ListInTimeOrder, N

LEMMA InvHashedListed ==
    ASSUME RcvQueueInv
    PROVE  HashedAreListed
<1> SUFFICES ASSUME NEW c \in Conns, Lookup(c) # Nil
             PROVE  /\ uList.on[c]
                    /\ Cardinality({i \in DOMAIN buckets[Bucket(c)] : buckets[Bucket(c)][i] = c}) = 1
  BY DEF HashedAreListed
<1> DEFINE s == buckets[Bucket(c)]
<1>1. IsHashed(c) /\ uList.on[c]
  BY LookupFinds DEF RcvQueueInv, OnePlace
<1>2. s \in Seq(Conns) /\ Distinct(s)
  BY BucketOf DEF RcvQueueInv, RcvTypes, OnePlace
<1>3. PICK i \in 1 .. Len(s) : s[i] = c
  BY <1>1 DEF IsHashed, Contains
<1>4. DOMAIN s = 1 .. Len(s)
  BY <1>2, LenProperties
<1> HIDE DEF s
<1>5. {j \in DOMAIN s : s[j] = c} = {i}
  BY <1>2, <1>3, <1>4 DEF Distinct
<1>6. Cardinality({j \in DOMAIN s : s[j] = c}) = 1
  BY <1>5, FS_Singleton
<1> QED
  BY <1>1, <1>6 DEF s

\* For any number of connections and size of the table: the links of the worker's list
\* lead through what is on it, in both directions and in the order of the times, and what
\* is in the hash table is there once and on the list.
THEOREM ListAndTableAgree == RcvQueueSpec => []ListsHoldTogether
<1>1. RcvQueueInv => ListsHoldTogether
  BY InvListInOrder, InvHashedListed DEF ListsHoldTogether
<1> QED
  BY <1>1, RcvQueueIsSound, PTL

-----------------------------------------------------------------------------
(* A deleted connection is forgotten                                       *)

Forgotten ==
    \A c \in Conns : conn[c] = "deleted" =>
        ~IsHashed(c) /\ ~uList.on[c] /\ ~IsNew(c) /\ rcvWorker.c # c

\* What is deleted was, when it was deleted, neither on the list nor anywhere the worker
\* could take it from.
LEMMA DeleteForgets ==
    ASSUME RcvQueueInv, Forgotten, WorkerKeepsUp, NEW c \in Conns, Delete(c)
    PROVE  Forgotten'
<1>1. ~uList.on[c] /\ ~IsNew(c) /\ rcvWorker.c # c
  BY DEF Delete, OffList, IsNew
<1>2. ~IsHashed(c)
  BY <1>1 DEF RcvQueueInv, OnePlace
<1>3. \A d \in Conns : conn'[d] = IF d = c THEN "deleted" ELSE conn[d]
  BY DEF Delete, RcvQueueInv, RcvTypes
<1> QED
  BY <1>1, <1>2, <1>3 DEF Delete, Forgotten, IsHashed, IsNew, Bucket

\* The worker takes up only what is not deleted.
LEMMA NextForgets ==
    ASSUME RcvQueueInv, Forgotten, WorkerKeepsUp, [RcvQueueNext]_rcvQueueVars
    PROVE  Forgotten'
<1> USE DEF Forgotten, IsNew
<1>0. \A d \in Conns : conn[d] = "deleted" => ~IsHashed(d) /\ ~uList.on[d] /\ ~Contains(newEntries, d) /\ rcvWorker.c # d
  OBVIOUS
<1>1. CASE UNCHANGED rcvQueueVars
  BY <1>1 DEF rcvQueueVars, IsHashed, Bucket
<1>2. ASSUME NEW c \in Conns, Dial(c) \/ LeaveDialling(c) \/ Close(c) PROVE Forgotten'
  <2>1. \A d \in Conns : conn'[d] = "deleted" => conn[d] = "deleted"
    BY <1>2 DEF Dial, LeaveDialling, Close, RcvQueueInv, RcvTypes
  <2> QED  BY <1>2, <2>1 DEF Dial, LeaveDialling, Close, IsHashed, Bucket
<1>3. ASSUME NEW c \in Conns, TakeStored(c) \/ Accept(c) PROVE Forgotten'
  <2>1. \/ UNCHANGED <<conn, newEntries>>
        \/ conn' = [conn EXCEPT ![c] = "connected"] /\ newEntries' = Append(newEntries, c)
    BY <1>3 DEF TakeStored, Accept
  <2>2. conn[c] \in {"none", "dialling"} /\ rcvWorker'.c = rcvWorker.c /\ UNCHANGED <<uList, buckets>>
    BY <1>3 DEF TakeStored, Accept, RcvQueueInv, RcvTypes
  <2>3. newEntries \in Seq(Conns) /\ Distinct(newEntries) /\ ~Contains(newEntries, c)
    BY <2>2 DEF RcvQueueInv, RcvTypes, OnePlace
  <2>4. \A d \in Conns : Contains(Append(newEntries, c), d) <=> d = c \/ Contains(newEntries, d)
    BY <2>3, AppendContains
  <2>5. \A d \in Conns : conn'[d] = "deleted" => conn[d] = "deleted" /\ (Contains(newEntries', d) => Contains(newEntries, d))
    BY <2>1, <2>2, <2>4 DEF RcvQueueInv, RcvTypes
  <2> QED  BY <2>2, <2>5 DEF IsHashed, Bucket
<1>4. ASSUME NEW c \in Conns, ReceiveFor(c) PROVE Forgotten'
  <2>1. /\ rcvWorker' = (IF Lookup(c) # Nil /\ Usable(c) THEN [pc |-> "process", c |-> c] ELSE [pc |-> "timers", c |-> Nil])
        /\ UNCHANGED <<conn, uList, buckets, newEntries>>
    BY <1>4 DEF ReceiveFor
  <2>2. rcvWorker'.c = Nil \/ (rcvWorker'.c = c /\ conn[c] # "deleted")
    BY <2>1 DEF Usable
  <2> QED  BY <2>1, <2>2, NilIsNone DEF IsHashed, Bucket
<1>5. CASE TakeNewEntry
  <2>1. CASE newEntries = << >>
    <3>1. rcvWorker'.c = Nil /\ UNCHANGED <<conn, uList, buckets, newEntries>>
      BY <1>5, <2>1 DEF TakeNewEntry
    <3> QED  BY <3>1, NilIsNone DEF IsHashed, Bucket
  <2>2. CASE newEntries # << >>
    <3> DEFINE c == Head(newEntries)
    <3>1. /\ uList' = ListInsert(uList, c) /\ newEntries' = Tail(newEntries) /\ rcvWorker'.c = c
          /\ UNCHANGED <<conn, buckets>>
      BY <1>5, <2>2 DEF TakeNewEntry
    <3>2. newEntries \in Seq(Conns) /\ Distinct(newEntries)
      BY DEF RcvQueueInv, RcvTypes, OnePlace
    <3>3. /\ c \in Conns /\ Contains(newEntries, c)
          /\ \A d \in Conns : Contains(newEntries', d) <=> d # c /\ Contains(newEntries, d)
      BY <2>2, <3>1, <3>2, TailContains
    <3> HIDE DEF c
    <3>4. ~uList.on[c] /\ conn[c] # "deleted"
      BY <3>3 DEF RcvQueueInv, OnePlace
    <3>5. PICK q : ListIs(uList, q, time)
      BY DEF RcvQueueInv, ListIsSound
    <3>6. time \in Nat
      BY DEF RcvQueueInv, RcvTypes
    <3>7. \A n \in Conns : uList'.on[n] <=> n = c \/ uList.on[n]
      BY <3>1, <3>3, <3>4, <3>5, <3>6, InsertIs
    <3> QED  BY <3>1, <3>3, <3>4, <3>7 DEF IsHashed, Bucket
  <2> QED  BY <2>1, <2>2
<1>6. CASE HashNewEntry
  <2> DEFINE c == rcvWorker.c
  <2>1. buckets' = HashInsert(c) /\ rcvWorker'.c = Nil /\ rcvWorker.pc = "hash" /\ UNCHANGED <<conn, uList, newEntries>>
    BY <1>6 DEF HashNewEntry
  <2>2. c \in Conns /\ ~IsHashed(c) /\ conn[c] # "deleted"
    BY <2>1 DEF RcvQueueInv, AtHand
  <2> HIDE DEF c
  <2>3. \A d \in Conns : Contains(buckets'[Bucket(d)], d) <=> d = c \/ IsHashed(d)
    BY <2>1, <2>2, HashInsertIs DEF RcvQueueInv
  <2>4. \A d \in Conns : IsHashed(d)' <=> d = c \/ IsHashed(d)
    BY <2>3 DEF IsHashed, Bucket
  <2> QED  BY <2>1, <2>2, <2>4, NilIsNone
<1>7. CASE NoPacket \/ Clock
  <2>1. (rcvWorker'.c = Nil \/ UNCHANGED rcvWorker) /\ UNCHANGED <<conn, uList, buckets, newEntries>>
    BY <1>7 DEF NoPacket, Clock
  <2> QED  BY <2>1, NilIsNone DEF IsHashed, Bucket
<1>8. ASSUME NEW c \in Conns, uList.on[c], uList' = ListUpdate(uList, c), rcvWorker'.c = Nil,
             UNCHANGED <<conn, buckets, newEntries>>
      PROVE  Forgotten'
  <2>1. PICK q : ListIs(uList, q, time)
    BY DEF RcvQueueInv, ListIsSound
  <2>2. time \in Nat
    BY DEF RcvQueueInv, RcvTypes
  <2>3. \A n \in Conns : uList'.on[n] <=> uList.on[n]
    BY <1>8, <2>1, <2>2, UpdateIs
  <2> QED  BY <1>8, <2>3, NilIsNone DEF IsHashed, Bucket
<1>9. CASE ProcessPacket
  <2> DEFINE c == rcvWorker.c
  <2>1. uList' = ListUpdate(uList, c) /\ rcvWorker'.c = Nil /\ UNCHANGED <<conn, buckets, newEntries>>
    BY <1>9 DEF ProcessPacket
  <2>2. c \in Conns /\ uList.on[c]
    BY <1>9 DEF ProcessPacket, RcvQueueInv, AtHand
  <2> HIDE DEF c
  <2> QED  BY <2>1, <2>2, <1>8
<1>10. CASE TimeFirst
  <2> DEFINE c == uList.first
  <2>1. CASE c = Nil \/ ~Overdue(c)
    <3>1. rcvWorker'.c = Nil /\ UNCHANGED <<conn, uList, buckets, newEntries>>
      BY <1>10, <2>1 DEF TimeFirst
    <3> QED  BY <3>1, NilIsNone DEF IsHashed, Bucket
  <2>2. CASE ~(c = Nil \/ ~Overdue(c)) /\ Usable(c)
    <3>1. c \in Conns /\ uList.on[c]
      BY <2>2, FirstIsOn DEF RcvQueueInv
    <3>2. uList' = ListUpdate(uList, c) /\ UNCHANGED <<rcvWorker, conn, buckets, newEntries>> /\ rcvWorker.pc = "timers"
      BY <1>10, <2>2 DEF TimeFirst
    <3>3. rcvWorker'.c = Nil
      BY <3>2 DEF RcvQueueInv, AtHand
    <3> HIDE DEF c
    <3> QED  BY <3>1, <3>2, <3>3, <1>8
  <2>3. CASE ~(c = Nil \/ ~Overdue(c)) /\ ~Usable(c)
    <3>1. c \in Conns /\ uList.on[c]
      BY <2>3, FirstIsOn DEF RcvQueueInv
    <3>2. buckets' = HashRemove(c) /\ rcvWorker'.c = c /\ UNCHANGED <<conn, uList, newEntries>>
      BY <1>10, <2>3 DEF TimeFirst
    <3> HIDE DEF c
    <3>3. \A d \in Conns : Contains(buckets'[Bucket(d)], d) <=> d # c /\ IsHashed(d)
      BY <3>1, <3>2, HashRemoveIs DEF RcvQueueInv
    <3>4. \A d \in Conns : IsHashed(d)' <=> d # c /\ IsHashed(d)
      BY <3>3 DEF IsHashed, Bucket
    <3> QED  BY <3>1, <3>2, <3>4
  <2> QED  BY <2>1, <2>2, <2>3
<1>11. CASE UnlistFirst
  <2> DEFINE c == rcvWorker.c
  <2>1. /\ uList' = ListRemove(uList, c) /\ rcvWorker'.c = Nil /\ rcvWorker.pc = "unlist"
        /\ UNCHANGED <<conn, buckets, newEntries>>
    BY <1>11 DEF UnlistFirst
  <2>2. c \in Conns /\ uList.on[c]
    BY <2>1 DEF RcvQueueInv, AtHand
  <2> HIDE DEF c
  <2>3. PICK q : ListIs(uList, q, time)
    BY DEF RcvQueueInv, ListIsSound
  <2>4. time \in Nat
    BY DEF RcvQueueInv, RcvTypes
  <2>5. \A n \in Conns : uList'.on[n] <=> n # c /\ uList.on[n]
    BY <2>1, <2>2, <2>3, <2>4, RemoveIs
  <2> QED  BY <2>1, <2>5, NilIsNone DEF IsHashed, Bucket
<1> QED
  BY <1>1, <1>2, <1>3, <1>4, <1>5, <1>6, <1>7, <1>9, <1>10, <1>11, DeleteForgets DEF RcvQueueNext

\* "timeout 1 second to destroy a socket AND it has been removed from RcvUList" (api.cpp):
\* when a new connection reaches the worker's list within the second for which a closed one
\* is kept (WorkerKeepsUp), the worker never meets a deleted connection (DeletedIsForgotten),
\* on its list, in the table, among the new entries or at hand.
THEOREM WorkerForgetsDeleted ==
    ASSUME WorkerKeepsUp
    PROVE  RcvQueueSpec => []DeletedIsForgotten
<1>1. RcvQueueInit => Forgotten
  BY DEF RcvQueueInit, Forgotten
<1>2. RcvQueueInv /\ Forgotten /\ [RcvQueueNext]_rcvQueueVars => Forgotten'
  BY NextForgets
<1>3. Forgotten => DeletedIsForgotten
  BY LookupFinds DEF Forgotten, DeletedIsForgotten, IsNew
<1> QED
  BY <1>1, <1>2, <1>3, RcvQueueIsSound, PTL DEF RcvQueueSpec

-----------------------------------------------------------------------------
(* The buffer and the unit pool: arithmetic                                *)

RcvBufSpec == RcvBufInit /\ [][RcvBufNext]_rcvBufferVars

LEMMA DivMod ==
    ASSUME NEW a \in Nat, NEW n \in Nat \ {0}, NEW r \in 0 .. n - 1
    PROVE  (a * n + r) \div n = a /\ (a * n + r) % n = r
<1> DEFINE x == a * n + r
           d == x \div n
           m == x % n
<1>1. a * n \in Nat /\ x \in Nat
  OBVIOUS
<1>2. d \in Int /\ m \in 0 .. n - 1 /\ x = n * d + m
  BY <1>1
<1>3. n * d = d * n /\ (d - a) * n = d * n - a * n /\ d - a \in Int
  BY <1>2
<1>4. (d - a) * n = r - m
  BY <1>1, <1>2, <1>3
<1>5. d - a >= 1 => (d - a) * n >= n
  <2>1. ASSUME d - a >= 1 PROVE (d - a - 1) * n >= 0 /\ (d - a) * n = (d - a - 1) * n + n
    BY <2>1, <1>3
  <2> QED  BY <2>1, <1>3
<1>6. d - a <= -1 => (d - a) * n <= -n
  <2>1. ASSUME d - a <= -1 PROVE (a - d - 1) * n >= 0 /\ (d - a) * n = - ((a - d - 1) * n) - n
    BY <2>1, <1>3
  <2> QED  BY <2>1, <1>3
<1> HIDE DEF x, d, m
<1>7. d = a
  BY <1>2, <1>3, <1>4, <1>5, <1>6
<1>8. m = r
  BY <1>2, <1>3, <1>4, <1>7
<1> QED
  BY <1>7, <1>8 DEF d, m, x

LEMMA DivExact ==
    ASSUME NEW k \in Nat, NEW n \in Nat \ {0}
    PROVE  (k * n) \div n = k
<1>1. (k * n + 0) \div n = k
  BY DivMod
<1>2. k * n + 0 = k * n
  OBVIOUS
<1> QED
  BY <1>1, <1>2

LEMMA ModSmall ==
    ASSUME NEW n \in Nat \ {0}, NEW x \in 0 .. 2 * n - 1
    PROVE  x % n = IF x < n THEN x ELSE x - n
<1>1. CASE x < n
  <2>1. (0 * n + x) % n = x /\ 0 * n + x = x
    BY <1>1, DivMod
  <2> QED  BY <1>1, <2>1
<1>2. CASE x >= n
  <2>1. x - n \in 0 .. n - 1
    BY <1>2
  <2>2. (1 * n + (x - n)) % n = x - n
    BY <2>1, DivMod
  <2>3. 1 * n + (x - n) = x
    OBVIOUS
  <2> QED  BY <1>2, <2>2, <2>3
<1> QED
  BY <1>1, <1>2

LEMMA Multiples ==
    ASSUME NEW k \in Nat, NEW q \in 1 .. k, NEW n \in Nat \ {0}
    PROVE  /\ (q - 1) * n \in Nat /\ q * n \in Nat /\ k * n \in Nat
           /\ q * n = (q - 1) * n + n /\ q * n <= k * n
<1>1. (q - 1) * n \in Nat /\ q * n \in Nat /\ k * n \in Nat /\ q * n = (q - 1) * n + n
  OBVIOUS
<1>2. (k - q) * n \in Nat /\ (k - q) * n = k * n - q * n
  OBVIOUS
<1> QED
  BY <1>1, <1>2

LEMMA MinOfNats ==
    ASSUME NEW S, S \subseteq Nat, S # {}
    PROVE  Min(S) \in S /\ \A x \in S : Min(S) <= x
<1>1. PICK m \in S : \A x \in S : ~(<<x, m>> \in OpToRel(<, Nat))
  BY NatLessThanWellFounded, WFMin
<1>2. ASSUME NEW x \in S PROVE m <= x
  <2>1. ASSUME x < m PROVE FALSE
    <3>1. <<x, m>> \in OpToRel(<, Nat)
      BY <2>1 DEF OpToRel
    <3> QED  BY <3>1, <1>1
  <2> QED  BY <2>1
<1> QED
  BY <1>2 DEF Min

LEMMA MinOfTwo ==
    ASSUME NEW a \in Nat, NEW b \in Nat
    PROVE  Min({a, b}) = IF a <= b THEN a ELSE b
<1>1. Min({a, b}) \in {a, b} /\ \A x \in {a, b} : Min({a, b}) <= x
  BY MinOfNats
<1> HIDE DEF Min
<1> QED
  BY <1>1

-----------------------------------------------------------------------------
(* The unit pool                                                           *)

UnitsWell(flag, k) == flag \in Seq({0, 1}) /\ k \in Nat \ {0} /\ Len(flag) = k * PoolUnit

PoolWell(P) ==
    /\ P \in [flag : Seq({0, 1}), count : Int, currQueue : Nat, avail : Nat]
    /\ \E k \in Nat \ {0} : Len(P.flag) = k * PoolUnit
    /\ P.currQueue \in 1 .. Queues(P)
    /\ P.avail \in FirstUnit(P.currQueue) .. FirstUnit(P.currQueue) + PoolUnit - 1

Busy(P) == Cardinality({u \in DOMAIN P.flag : P.flag[u] # 0})

LEMMA PoolSizes ==
    ASSUME NEW P, PoolWell(P)
    PROVE  /\ Queues(P) \in Nat \ {0} /\ PoolSize(P) = Queues(P) * PoolUnit /\ PoolSize(P) = Len(P.flag)
           /\ PoolSize(P) \in Nat \ {0} /\ DOMAIN P.flag = 1 .. PoolSize(P)
           /\ \A u \in 1 .. PoolSize(P) : P.flag[u] \in {0, 1}
<1>1. PICK k \in Nat \ {0} : Len(P.flag) = k * PoolUnit
  BY DEF PoolWell
<1>2. P.flag \in Seq({0, 1})
  BY DEF PoolWell
<1>3. Len(P.flag) \in Nat /\ DOMAIN P.flag = 1 .. Len(P.flag) /\ \A u \in 1 .. Len(P.flag) : P.flag[u] \in {0, 1}
  BY <1>2, LenProperties
<1>4. PoolUnit \in Nat \ {0}
  BY RcvBufferAssumption
<1>5. Queues(P) = k
  BY <1>1, <1>4, DivExact DEF Queues, PoolSize
<1>6. k * PoolUnit # 0
  BY <1>4
<1> QED
  BY <1>1, <1>3, <1>5, <1>6 DEF PoolSize

\* The units of queue q lie in the pool.
LEMMA QueueInPool ==
    ASSUME NEW P, PoolWell(P), NEW q \in 1 .. Queues(P)
    PROVE  /\ FirstUnit(q) \in 1 .. PoolSize(P) /\ FirstUnit(q) + PoolUnit - 1 \in 1 .. PoolSize(P)
           /\ FirstUnit(q) + PoolUnit - 1 = q * PoolUnit
<1>1. Queues(P) \in Nat \ {0} /\ PoolSize(P) = Queues(P) * PoolUnit /\ PoolUnit \in Nat \ {0} /\ PoolSize(P) \in Nat
  BY PoolSizes, RcvBufferAssumption
<1>2. /\ (q - 1) * PoolUnit \in Nat /\ q * PoolUnit \in Nat
      /\ q * PoolUnit = (q - 1) * PoolUnit + PoolUnit /\ q * PoolUnit <= PoolSize(P)
  BY <1>1, Multiples
<1> QED
  BY <1>1, <1>2 DEF FirstUnit

LEMMA BusyIs ==
    ASSUME NEW P, PoolWell(P)
    PROVE  /\ IsFiniteSet({u \in DOMAIN P.flag : P.flag[u] # 0})
           /\ Busy(P) \in Nat /\ Busy(P) <= PoolSize(P)
<1>1. DOMAIN P.flag = 1 .. PoolSize(P) /\ PoolSize(P) \in Nat
  BY PoolSizes
<1>2. IsFiniteSet(1 .. PoolSize(P)) /\ Cardinality(1 .. PoolSize(P)) = PoolSize(P)
  BY <1>1, FS_Interval
<1>3. {u \in DOMAIN P.flag : P.flag[u] # 0} \in SUBSET (1 .. PoolSize(P))
  BY <1>1
<1> QED
  BY <1>2, <1>3, FS_Subset, FS_CardinalityType DEF Busy

\* increase counts the busy units, and appends a queue of free ones or leaves the pool as
\* it is, less full than that.
LEMMA IncreaseIs ==
    ASSUME NEW P, PoolWell(P)
    PROVE  /\ PoolWell(Increase(P))
           /\ Increase(P).currQueue = P.currQueue /\ Increase(P).avail = P.avail /\ Increase(P).count = Busy(P)
           /\ \A u \in 1 .. PoolSize(P) : Increase(P).flag[u] = P.flag[u]
           /\ \/ Increase(P).flag = P.flag /\ 100 * Busy(P) < PoolPercent * PoolSize(P)
              \/ /\ PoolSize(Increase(P)) = PoolSize(P) + PoolUnit
                 /\ \A u \in PoolSize(P) + 1 .. PoolSize(P) + PoolUnit : Increase(P).flag[u] = 0
<1> DEFINE n == PoolSize(P)
           z == [u \in 1 .. PoolUnit |-> 0]
           f == P.flag
           g == IF 100 * Busy(P) < PoolPercent * n THEN f ELSE f \o z
           I == Increase(P)
<1>1. P \in [flag : Seq({0, 1}), count : Int, currQueue : Nat, avail : Nat] /\ f \in Seq({0, 1}) /\ Len(f) = n
  BY PoolSizes DEF PoolWell
<1>2. PoolUnit \in Nat \ {0, 1} /\ n \in Nat /\ Queues(P) \in Nat \ {0} /\ n = Queues(P) * PoolUnit
  BY PoolSizes, RcvBufferAssumption
<1>3. z \in Seq({0, 1}) /\ Len(z) = PoolUnit /\ \A u \in 1 .. PoolUnit : z[u] = 0
  <2>1. z \in Seq({0, 1})
    BY <1>2, IsASeq
  <2>2. DOMAIN z = 1 .. PoolUnit
    OBVIOUS
  <2>3. Len(z) = PoolUnit
    BY <1>2, <2>1, <2>2, LenProperties
  <2> QED  BY <2>1, <2>3
<1> HIDE DEF z
<1>4. /\ f \o z \in Seq({0, 1}) /\ Len(f \o z) = n + PoolUnit
      /\ \A u \in 1 .. n : (f \o z)[u] = f[u]
      /\ \A u \in n + 1 .. n + PoolUnit : (f \o z)[u] = 0
  <2>1. /\ f \o z \in Seq({0, 1}) /\ Len(f \o z) = Len(f) + Len(z)
        /\ \A u \in 1 .. Len(f) + Len(z) : (f \o z)[u] = IF u <= Len(f) THEN f[u] ELSE z[u - Len(f)]
    BY <1>1, <1>3, ConcatProperties
  <2>2. \A u \in n + 1 .. n + PoolUnit : u \in 1 .. n + PoolUnit /\ ~(u <= n) /\ u - n \in 1 .. PoolUnit
    BY <1>2
  <2>3. \A u \in 1 .. n : u \in 1 .. n + PoolUnit /\ u <= n
    BY <1>2
  <2> QED  BY <2>1, <2>2, <2>3, <1>1, <1>3
<1>5. I = [P EXCEPT !.count = Busy(P), !.flag = g]
  BY DEF Increase, Quantify, Busy, z
<1>6. g \in Seq({0, 1}) /\ Busy(P) \in Int
  <2>1. g = f \/ g = f \o z
    OBVIOUS
  <2>2. g \in Seq({0, 1})
    BY <2>1, <1>1, <1>4
  <2>3. Busy(P) \in Nat
    BY BusyIs
  <2> HIDE DEF g
  <2> QED  BY <2>2, <2>3
<1>7. \/ g = f /\ 100 * Busy(P) < PoolPercent * n
      \/ Len(g) = n + PoolUnit /\ \A u \in n + 1 .. n + PoolUnit : g[u] = 0
  BY <1>4
<1>8. \A u \in 1 .. n : g[u] = f[u]
  BY <1>4
<1>9. \E k \in Nat \ {0} : Len(g) = k * PoolUnit /\ k >= Queues(P)
  <2>1. (Queues(P) + 1) * PoolUnit = n + PoolUnit /\ Queues(P) + 1 \in Nat \ {0}
    BY <1>2
  <2>2. Len(g) = n \/ Len(g) = n + PoolUnit
    BY <1>1, <1>7
  <2> HIDE DEF g, n
  <2>3. CASE Len(g) = n
    BY <2>3, <1>2
  <2>4. CASE Len(g) = n + PoolUnit
    BY <2>4, <2>1, <1>2
  <2> QED  BY <2>2, <2>3, <2>4
<1> HIDE DEF g, I
<1>10. /\ I \in [flag : Seq({0, 1}), count : Int, currQueue : Nat, avail : Nat]
       /\ I.flag = g /\ I.count = Busy(P) /\ I.currQueue = P.currQueue /\ I.avail = P.avail
  BY <1>1, <1>5, <1>6
<1>11. PICK k \in Nat \ {0} : Len(g) = k * PoolUnit /\ k >= Queues(P)
  BY <1>9
<1>12. Queues(I) = k
  BY <1>2, <1>10, <1>11, DivExact DEF Queues, PoolSize
<1>13. I.currQueue \in 1 .. Queues(I)
  BY <1>2, <1>10, <1>11, <1>12 DEF PoolWell
<1>14. PoolWell(I)
  BY <1>10, <1>11, <1>13 DEF PoolWell
<1> QED
  BY <1>7, <1>8, <1>10, <1>14 DEF I, PoolSize

InQueue(q) == FirstUnit(q) .. FirstUnit(q) + PoolUnit - 1

\* All but the last unit of queue q, which the search passes over.
Searched(q) == FirstUnit(q) .. FirstUnit(q) + PoolUnit - 2

LEMMA FreeInIs ==
    ASSUME NEW P, PoolWell(P), NEW q \in 1 .. Queues(P), NEW u \in InQueue(q)
    PROVE  /\ FreeIn(P, q, u) # 0 => FreeIn(P, q, u) \in InQueue(q) /\ P.flag[FreeIn(P, q, u)] = 0
           /\ (\E v \in Searched(q) : P.flag[v] = 0) /\ u = FirstUnit(q) => FreeIn(P, q, u) # 0
<1> DEFINE free == {v \in u .. FirstUnit(q) + PoolUnit - 2 : P.flag[v] = 0}
<1>1. PoolUnit \in Nat \ {0, 1} /\ FirstUnit(q) \in Nat \ {0} /\ u \in Nat \ {0}
  <2>1. PoolUnit \in Nat \ {0, 1} /\ PoolSize(P) \in Nat /\ FirstUnit(q) \in 1 .. PoolSize(P)
    BY QueueInPool, PoolSizes, RcvBufferAssumption
  <2>2. u \in FirstUnit(q) .. FirstUnit(q) + PoolUnit - 1
    BY DEF InQueue
  <2> QED  BY <2>1, <2>2
<1>2. free \subseteq Nat /\ free \subseteq InQueue(q) /\ 0 \notin free /\ FirstUnit(q) \in InQueue(q)
  BY <1>1 DEF InQueue
<1>3. free # {} => Min(free) \in free
  <2> HIDE DEF free
  <2> QED  BY <1>2, MinOfNats
<1>4. FreeIn(P, q, u) = IF free # {} THEN Min(free) ELSE IF P.flag[FirstUnit(q)] = 0 THEN FirstUnit(q) ELSE 0
  BY DEF FreeIn
<1>5. FreeIn(P, q, u) # 0 => FreeIn(P, q, u) \in InQueue(q) /\ P.flag[FreeIn(P, q, u)] = 0
  <2>1. CASE free # {}
    BY <2>1, <1>2, <1>3, <1>4
  <2>2. CASE free = {}
    BY <2>2, <1>2, <1>4
  <2> QED  BY <2>1, <2>2
<1>6. ASSUME NEW v \in Searched(q), P.flag[v] = 0, u = FirstUnit(q) PROVE FreeIn(P, q, u) # 0
  <2>1. v \in free
    BY <1>6 DEF Searched
  <2> HIDE DEF free
  <2> QED  BY <2>1, <1>2, <1>3, <1>4
<1> QED
  BY <1>5, <1>6

\* The pool that getNextAvailUnit searches.
ToSearch(P) == IF 100 * P.count > PoolPercent * PoolSize(P) THEN Increase(P) ELSE P

LEMMA PercentIs ==
    ASSUME NEW n \in Nat
    PROVE  PoolPercent * n \in Nat /\ PoolPercent * n <= 99 * n
<1>1. PoolPercent \in 1 .. 99
  BY RcvBufferAssumption
<1>2. PoolPercent * n \in Nat /\ (99 - PoolPercent) * n \in Nat /\ (99 - PoolPercent) * n = 99 * n - PoolPercent * n
  BY <1>1
<1> QED
  BY <1>2

LEMMA ToSearchIs ==
    ASSUME NEW P, PoolWell(P)
    PROVE  /\ PoolWell(ToSearch(P)) /\ ToSearch(P).count < PoolSize(ToSearch(P))
           /\ ToSearch(P).currQueue = P.currQueue /\ ToSearch(P).avail = P.avail
           /\ PoolSize(ToSearch(P)) >= PoolSize(P)
           /\ \A u \in 1 .. PoolSize(P) : ToSearch(P).flag[u] = P.flag[u]
<1> DEFINE n == PoolSize(P)
           I == Increase(P)
<1>1. n \in Nat \ {0} /\ PoolPercent * n \in Nat /\ PoolPercent * n <= 99 * n /\ PoolUnit \in Nat \ {0} /\ P.count \in Int
  BY PoolSizes, PercentIs, RcvBufferAssumption DEF PoolWell
<1>2. Busy(P) \in Nat /\ Busy(P) <= n
  BY BusyIs
<1>3. /\ PoolWell(I) /\ I.currQueue = P.currQueue /\ I.avail = P.avail /\ I.count = Busy(P)
      /\ \A u \in 1 .. n : I.flag[u] = P.flag[u]
      /\ \/ PoolSize(I) = n /\ 100 * Busy(P) < PoolPercent * n
         \/ PoolSize(I) = n + PoolUnit
  BY IncreaseIs DEF PoolSize
<1> HIDE DEF n, I
<1>4. I.count < PoolSize(I) /\ PoolSize(I) >= n
  BY <1>1, <1>2, <1>3
<1>5. 100 * P.count <= PoolPercent * n => P.count < n
  BY <1>1
<1>6. CASE 100 * P.count > PoolPercent * n
  BY <1>3, <1>4, <1>6 DEF ToSearch, n, I
<1>7. CASE ~(100 * P.count > PoolPercent * n)
  <2>1. 100 * P.count <= PoolPercent * n
    BY <1>1, <1>7
  <2>2. ToSearch(P) = P
    BY <1>7 DEF ToSearch, n
  <2> QED  BY <2>1, <2>2, <1>1, <1>5 DEF n
<1> QED
  BY <1>6, <1>7

Turned(M, i) == ((M.currQueue - 1 + i) % Queues(M)) + 1

FoundIn(M, i) == FreeIn(M, Turned(M, i), IF i = 0 THEN M.avail ELSE FirstUnit(Turned(M, i)))

LEMMA TurnedIs ==
    ASSUME NEW M, PoolWell(M)
    PROVE  /\ \A i \in 0 .. Queues(M) - 1 : Turned(M, i) \in 1 .. Queues(M)
           /\ Turned(M, 0) = M.currQueue
           /\ \A q \in 1 .. Queues(M) : q # M.currQueue =>
                  \E i \in 1 .. Queues(M) - 1 : Turned(M, i) = q
<1> DEFINE n == Queues(M)
           c == M.currQueue
<1>1. n \in Nat \ {0} /\ c \in 1 .. n
  BY PoolSizes DEF PoolWell
<1>2. \A i \in 0 .. n - 1 : Turned(M, i) = ((c - 1 + i) % n) + 1
  BY DEF Turned
<1> HIDE DEF n, c
<1>3. ASSUME NEW i \in 0 .. n - 1 PROVE Turned(M, i) = IF c + i <= n THEN c + i ELSE c + i - n
  <2> DEFINE x == c - 1 + i
  <2>1. x \in 0 .. 2 * n - 1 /\ Turned(M, i) = (x % n) + 1
    BY <1>1, <1>2
  <2> HIDE DEF x
  <2>2. x % n = IF x < n THEN x ELSE x - n
    BY <2>1, <1>1, ModSmall
  <2>3. Turned(M, i) = IF x < n THEN x + 1 ELSE x - n + 1
    BY <2>1, <2>2
  <2> QED  BY <2>3, <1>1 DEF x
<1>4. \A i \in 0 .. n - 1 : Turned(M, i) \in 1 .. n
  BY <1>1, <1>3
<1>5. Turned(M, 0) = c
  BY <1>1, <1>3
<1>6. ASSUME NEW q \in 1 .. n, q # c PROVE \E i \in 1 .. n - 1 : Turned(M, i) = q
  <2>1. CASE q > c
    <3>1. q - c \in 1 .. n - 1 /\ c + (q - c) = q
      BY <2>1, <1>1
    <3>2. Turned(M, q - c) = q
      BY <3>1, <1>1, <1>3
    <3> QED  BY <3>1, <3>2
  <2>2. CASE q < c
    <3>1. q - c + n \in 1 .. n - 1 /\ c + (q - c + n) = q + n
      BY <2>2, <1>1
    <3>2. Turned(M, q - c + n) = q
      BY <3>1, <1>1, <1>3
    <3> QED  BY <3>1, <3>2
  <2> QED  BY <2>1, <2>2, <1>1, <1>6
<1> QED
  BY <1>4, <1>5, <1>6 DEF n, c

LEMMA FoundInIs ==
    ASSUME NEW M, PoolWell(M), NEW i \in 0 .. Queues(M) - 1
    PROVE  FoundIn(M, i) # 0 => FoundIn(M, i) \in InQueue(Turned(M, i)) /\ M.flag[FoundIn(M, i)] = 0
<1> DEFINE q == Turned(M, i)
           u == IF i = 0 THEN M.avail ELSE FirstUnit(q)
<1>1. q \in 1 .. Queues(M) /\ (i = 0 => q = M.currQueue)
  BY TurnedIs
<1>2. PoolUnit \in Nat \ {0, 1} /\ FirstUnit(q) \in Nat
  BY <1>1, QueueInPool, PoolSizes, RcvBufferAssumption
<1>3. u \in InQueue(q)
  BY <1>1, <1>2 DEF InQueue, PoolWell
<1>4. FoundIn(M, i) = FreeIn(M, q, u)
  BY DEF FoundIn
<1> HIDE DEF q, u
<1>5. FreeIn(M, q, u) # 0 => FreeIn(M, q, u) \in InQueue(q) /\ M.flag[FreeIn(M, q, u)] = 0
  BY <1>1, <1>3, FreeInIs
<1> QED
  BY <1>4, <1>5 DEF q

LEMMA GetNextIs ==
    ASSUME NEW P, PoolWell(P)
    PROVE  LET M == ToSearch(P)
               hits == {i \in 0 .. Queues(M) - 1 : FoundIn(M, i) # 0}
           IN GetNextAvailUnit(P) =
                  IF hits # {}
                  THEN [unit |-> FoundIn(M, Min(hits)),
                        pool |-> [M EXCEPT !.currQueue = Turned(M, Min(hits)), !.avail = FoundIn(M, Min(hits))]]
                  ELSE [unit |-> 0, pool |-> Increase([M EXCEPT !.avail = FirstUnit(M.currQueue)])]
<1> DEFINE M == ToSearch(P)
<1>1. ~(M.count >= PoolSize(M))
  <2>1. PoolWell(M) /\ M.count < PoolSize(M)
    BY ToSearchIs
  <2>2. M.count \in Int /\ PoolSize(M) \in Nat
    BY <2>1, PoolSizes DEF PoolWell
  <2> HIDE DEF M
  <2> QED  BY <2>1, <2>2
<1> QED
  BY <1>1 DEF GetNextAvailUnit, ToSearch, FoundIn, Turned

LEMMA AvailMoved ==
    ASSUME NEW M, PoolWell(M), NEW q \in 1 .. Queues(M), NEW u \in InQueue(q)
    PROVE  /\ PoolWell([M EXCEPT !.currQueue = q, !.avail = u])
           /\ [M EXCEPT !.currQueue = q, !.avail = u].flag = M.flag
           /\ PoolSize([M EXCEPT !.currQueue = q, !.avail = u]) = PoolSize(M)
           /\ Queues([M EXCEPT !.currQueue = q, !.avail = u]) = Queues(M)
<1> DEFINE R == [M EXCEPT !.currQueue = q, !.avail = u]
<1>1. M \in [flag : Seq({0, 1}), count : Int, currQueue : Nat, avail : Nat]
  BY DEF PoolWell
<1>2. Queues(M) \in Nat /\ FirstUnit(q) \in Nat /\ PoolUnit \in Nat
  BY PoolSizes, QueueInPool, RcvBufferAssumption
<1>3. q \in Nat /\ u \in Nat
  BY <1>2 DEF InQueue
<1>4. /\ R \in [flag : Seq({0, 1}), count : Int, currQueue : Nat, avail : Nat]
      /\ R.flag = M.flag /\ R.currQueue = q /\ R.avail = u
  BY <1>1, <1>3
<1> HIDE DEF R
<1>5. Queues(R) = Queues(M) /\ PoolSize(R) = PoolSize(M)
  BY <1>4 DEF Queues, PoolSize
<1>6. PoolWell(R)
  BY <1>4, <1>5 DEF PoolWell, InQueue
<1> QED
  BY <1>4, <1>5, <1>6 DEF R

\* What getNextAvailUnit returns is free, and what the pool was it still is.
LEMMA UnitIsFree ==
    ASSUME NEW P, PoolWell(P)
    PROVE  /\ PoolWell(GetNextAvailUnit(P).pool)
           /\ GetNextAvailUnit(P).unit \in 0 .. PoolSize(GetNextAvailUnit(P).pool)
           /\ GetNextAvailUnit(P).unit # 0 =>
                  GetNextAvailUnit(P).pool.flag[GetNextAvailUnit(P).unit] = 0
           /\ PoolSize(GetNextAvailUnit(P).pool) >= PoolSize(P)
           /\ \A u \in 1 .. PoolSize(P) : GetNextAvailUnit(P).pool.flag[u] = P.flag[u]
<1> DEFINE M == ToSearch(P)
           hits == {i \in 0 .. Queues(M) - 1 : FoundIn(M, i) # 0}
           got == GetNextAvailUnit(P)
<1>1. /\ PoolWell(M) /\ PoolSize(M) >= PoolSize(P) /\ PoolSize(M) \in Nat /\ PoolSize(P) \in Nat
      /\ \A u \in 1 .. PoolSize(P) : M.flag[u] = P.flag[u]
  BY ToSearchIs, PoolSizes
<1>2. got = IF hits # {}
            THEN [unit |-> FoundIn(M, Min(hits)),
                  pool |-> [M EXCEPT !.currQueue = Turned(M, Min(hits)), !.avail = FoundIn(M, Min(hits))]]
            ELSE [unit |-> 0, pool |-> Increase([M EXCEPT !.avail = FirstUnit(M.currQueue)])]
  BY GetNextIs
<1>3. \A u \in 1 .. PoolSize(P) : u \in 1 .. PoolSize(M)
  BY <1>1
<1> HIDE DEF M, got
<1>4. CASE hits # {}
  <2> DEFINE i == Min(hits)
             R == [M EXCEPT !.currQueue = Turned(M, i), !.avail = FoundIn(M, i)]
  <2>1. i \in hits
    <3>1. hits \subseteq Nat
      BY <1>1, PoolSizes
    <3> HIDE DEF hits
    <3> QED  BY <3>1, <1>4, MinOfNats
  <2>2. i \in 0 .. Queues(M) - 1 /\ FoundIn(M, i) # 0
    BY <2>1
  <2>3. got.unit = FoundIn(M, i) /\ got.pool = R
    BY <1>2, <1>4
  <2> HIDE DEF i, hits
  <2>4. FoundIn(M, i) \in InQueue(Turned(M, i)) /\ M.flag[FoundIn(M, i)] = 0 /\ Turned(M, i) \in 1 .. Queues(M)
    BY <2>2, <1>1, FoundInIs, TurnedIs
  <2>5. PoolWell(R) /\ R.flag = M.flag /\ PoolSize(R) = PoolSize(M)
    BY <2>4, <1>1, AvailMoved
  <2> HIDE DEF R
  <2>6. got.unit \in 0 .. PoolSize(M)
    <3>1. FirstUnit(Turned(M, i)) \in 1 .. PoolSize(M) /\ FirstUnit(Turned(M, i)) + PoolUnit - 1 \in 1 .. PoolSize(M)
      BY <2>4, <1>1, QueueInPool
    <3> HIDE DEF FirstUnit
    <3> QED  BY <3>1, <2>3, <2>4, <1>1, RcvBufferAssumption DEF InQueue
  <2> QED  BY <2>3, <2>4, <2>5, <2>6, <1>1 DEF got
<1>5. CASE hits = {}
  <2> DEFINE c == M.currQueue
             R == [M EXCEPT !.avail = FirstUnit(c)]
  <2>1. got.unit = 0 /\ got.pool = Increase(R)
    BY <1>2, <1>5
  <2>2. c \in 1 .. Queues(M) /\ FirstUnit(c) \in InQueue(c) /\ R = [M EXCEPT !.currQueue = c, !.avail = FirstUnit(c)]
    <3>1. c \in 1 .. Queues(M) /\ M \in [flag : Seq({0, 1}), count : Int, currQueue : Nat, avail : Nat]
      BY <1>1 DEF PoolWell
    <3>2. FirstUnit(c) \in InQueue(c)
      BY <3>1, <1>1, QueueInPool, RcvBufferAssumption DEF InQueue
    <3> QED  BY <3>1, <3>2
  <2> HIDE DEF R, c
  <2>3. PoolWell(R) /\ R.flag = M.flag /\ PoolSize(R) = PoolSize(M)
    BY <2>2, <1>1, AvailMoved
  <2>4. /\ PoolWell(Increase(R)) /\ \A u \in 1 .. PoolSize(R) : Increase(R).flag[u] = R.flag[u]
        /\ PoolSize(Increase(R)) = PoolSize(R) \/ PoolSize(Increase(R)) = PoolSize(R) + PoolUnit
    BY <2>3, IncreaseIs DEF PoolSize
  <2>5. PoolSize(Increase(R)) \in Nat /\ PoolUnit \in Nat
    BY <2>4, PoolSizes, RcvBufferAssumption
  <2> QED  BY <2>1, <2>3, <2>4, <2>5, <1>1, <1>3 DEF got
<1> QED
  BY <1>4, <1>5

-----------------------------------------------------------------------------
(* A unit is refused once                                                  *)

\* The next search finds a unit: it starts at the first of a queue, and one that it does
\* not pass over is free.
Roomy(P) ==
    /\ P.avail = FirstUnit(P.currQueue)
    /\ \E q \in 1 .. Queues(P) : \E v \in Searched(q) : P.flag[v] = 0

LEMMA QueueOf ==
    ASSUME NEW P, PoolWell(P), NEW u \in 1 .. PoolSize(P)
    PROVE  \E q \in 1 .. Queues(P) : u \in InQueue(q) /\ (u \notin Searched(q) => u = q * PoolUnit)
<1> DEFINE d == (u - 1) \div PoolUnit
           m == (u - 1) % PoolUnit
           n == Queues(P)
<1>1. PoolUnit \in Nat \ {0, 1} /\ n \in Nat /\ PoolSize(P) = n * PoolUnit /\ PoolSize(P) \in Nat
  BY PoolSizes, RcvBufferAssumption
<1>2. u - 1 \in Nat /\ u - 1 < n * PoolUnit
  BY <1>1
<1>3. d \in Int /\ m \in 0 .. PoolUnit - 1 /\ u - 1 = PoolUnit * d + m /\ PoolUnit * d = d * PoolUnit
  BY <1>1, <1>2
<1> HIDE DEF d, m, n
<1>4. d >= 0
  <2> SUFFICES ASSUME d <= -1 PROVE FALSE
    BY <1>3
  <2>1. (- d - 1) * PoolUnit \in Nat /\ (- d - 1) * PoolUnit = - (d * PoolUnit) - PoolUnit
    BY <1>1, <1>3
  <2> QED  BY <2>1, <1>1, <1>2, <1>3
<1>5. d < n
  <2> SUFFICES ASSUME d >= n PROVE FALSE
    BY <1>1, <1>3
  <2>1. (d - n) * PoolUnit \in Nat /\ (d - n) * PoolUnit = d * PoolUnit - n * PoolUnit
    BY <1>1, <1>3
  <2> QED  BY <2>1, <1>1, <1>2, <1>3
<1>6. d + 1 \in 1 .. n
  BY <1>1, <1>3, <1>4, <1>5
<1>7. FirstUnit(d + 1) = d * PoolUnit + 1
  <2>1. (d + 1) - 1 = d
    BY <1>3
  <2> QED  BY <2>1 DEF FirstUnit
<1>8. (d + 1) * PoolUnit = d * PoolUnit + PoolUnit /\ d * PoolUnit \in Int
  BY <1>1, <1>3
<1>9. u = d * PoolUnit + 1 + m
  BY <1>2, <1>3, <1>8
<1> HIDE DEF FirstUnit
<1>10. u \in InQueue(d + 1)
  BY <1>1, <1>3, <1>7, <1>8, <1>9 DEF InQueue
<1>11. u \notin Searched(d + 1) => u = (d + 1) * PoolUnit
  BY <1>1, <1>3, <1>7, <1>8, <1>9 DEF Searched
<1> QED
  BY <1>6, <1>10, <1>11 DEF n

\* A pool of which no more than the last unit of each queue is free is full enough to grow.
LEMMA FullGrows ==
    ASSUME NEW P, PoolWell(P), \A q \in 1 .. Queues(P) : \A v \in Searched(q) : P.flag[v] # 0
    PROVE  PoolPercent * PoolSize(P) <= 100 * Busy(P)
<1> DEFINE n == Queues(P)
           s == PoolSize(P)
           busy == {u \in DOMAIN P.flag : P.flag[u] # 0}
           lasts == {q * PoolUnit : q \in 1 .. n}
           f == [q \in 1 .. n |-> q * PoolUnit]
<1>1. /\ n \in Nat /\ s \in Nat /\ s = n * PoolUnit /\ DOMAIN P.flag = 1 .. s
      /\ PoolUnit \in Nat \ {0, 1} /\ PoolPercent \in 1 .. 99 /\ PoolPercent * PoolUnit <= 100 * (PoolUnit - 1)
  BY PoolSizes, RcvBufferAssumption
<1>2. IsFiniteSet(1 .. n) /\ Cardinality(1 .. n) = n /\ IsFiniteSet(1 .. s) /\ Cardinality(1 .. s) = s
  <2> HIDE DEF n, s
  <2>1. (IF 1 > n THEN 0 ELSE n - 1 + 1) = n /\ (IF 1 > s THEN 0 ELSE s - 1 + 1) = s /\ n \in Int /\ s \in Int
    BY <1>1
  <2> QED  BY <2>1, FS_Interval
<1>3. f \in Surjection(1 .. n, lasts)
  BY DEF Surjection
<1>4. IsFiniteSet(lasts) /\ Cardinality(lasts) <= n /\ Cardinality(lasts) \in Nat
  <2> HIDE DEF f, lasts
  <2> QED  BY <1>2, <1>3, FS_Surjection, FS_CardinalityType
<1>5. IsFiniteSet(busy) /\ Cardinality(busy) = Busy(P) /\ Busy(P) \in Nat
  BY BusyIs DEF Busy
<1>6. 1 .. s \subseteq busy \cup lasts
  <2> SUFFICES ASSUME NEW u \in 1 .. s PROVE u \in busy \cup lasts
    OBVIOUS
  <2>1. PICK q \in 1 .. n : u \in InQueue(q) /\ (u \notin Searched(q) => u = q * PoolUnit)
    <3>1. \E q \in 1 .. Queues(P) : u \in InQueue(q) /\ (u \notin Searched(q) => u = q * PoolUnit)
      BY QueueOf
    <3> QED  BY <3>1
  <2>2. CASE u \in Searched(q)
    BY <2>2, <1>1
  <2>3. CASE u = q * PoolUnit
    BY <2>3
  <2> QED  BY <2>1, <2>2, <2>3
<1> HIDE DEF busy, lasts
<1>7. /\ IsFiniteSet(busy \cup lasts) /\ Cardinality(busy \cup lasts) \in Nat /\ Cardinality(busy \cap lasts) \in Nat
      /\ Cardinality(busy \cup lasts) = Cardinality(busy) + Cardinality(lasts) - Cardinality(busy \cap lasts)
  <2>1. IsFiniteSet(busy \cap lasts)
    <3>1. busy \cap lasts \in SUBSET busy
      OBVIOUS
    <3> QED  BY <3>1, <1>5, FS_Subset
  <2> QED  BY <2>1, <1>4, <1>5, FS_Union, FS_CardinalityType
<1>8. s <= Cardinality(busy \cup lasts)
  <2>1. 1 .. s \in SUBSET (busy \cup lasts)
    BY <1>6
  <2> QED  BY <2>1, <1>2, <1>7, FS_Subset
<1>9. s <= Busy(P) + n
  BY <1>1, <1>4, <1>5, <1>7, <1>8
<1> HIDE DEF s
<1> HIDE DEF n
<1>10. PoolPercent * s <= 100 * s - 100 * n
  <2> DEFINE slack == 100 * (PoolUnit - 1) - PoolPercent * PoolUnit
  <2>1. slack \in Nat /\ n * slack \in Nat
    BY <1>1
  <2>2. n * slack = 100 * (n * PoolUnit) - 100 * n - PoolPercent * (n * PoolUnit)
    BY <1>1
  <2> HIDE DEF slack
  <2>3. PoolPercent * s \in Int
    BY <1>1
  <2> QED  BY <2>1, <2>2, <2>3, <1>1
<1>11. PoolPercent * s \in Int
  BY <1>1
<1>12. PoolPercent * s <= 100 * Busy(P)
  BY <1>1, <1>5, <1>9, <1>10, <1>11
<1> QED
  BY <1>12 DEF s

\* A search that finds nothing leaves a pool in which the next one finds a unit.
LEMMA RefusedIsRoomy ==
    ASSUME NEW P, PoolWell(P), GetNextAvailUnit(P).unit = 0
    PROVE  Roomy(GetNextAvailUnit(P).pool)
<1> DEFINE M == ToSearch(P)
           c == M.currQueue
           R == [M EXCEPT !.avail = FirstUnit(c)]
           I == Increase(R)
           hits == {i \in 0 .. Queues(M) - 1 : FoundIn(M, i) # 0}
<1>1. PoolWell(M)
  BY ToSearchIs
<1>2. GetNextAvailUnit(P) =
          IF hits # {}
          THEN [unit |-> FoundIn(M, Min(hits)),
                pool |-> [M EXCEPT !.currQueue = Turned(M, Min(hits)), !.avail = FoundIn(M, Min(hits))]]
          ELSE [unit |-> 0, pool |-> I]
  BY GetNextIs
<1> HIDE DEF M
<1>3. GetNextAvailUnit(P).pool = I
  <2>1. hits = {} \/ Min(hits) \in hits
    <3>1. hits \subseteq Nat
      BY <1>1, PoolSizes
    <3> HIDE DEF hits
    <3> QED  BY <3>1, MinOfNats
  <2>2. CASE hits = {}
    BY <2>2, <1>2
  <2>3. CASE hits # {}
    <3>1. FoundIn(M, Min(hits)) # 0
      BY <2>1, <2>3
    <3>2. GetNextAvailUnit(P).unit = FoundIn(M, Min(hits))
      BY <2>3, <1>2
    <3> QED  BY <3>1, <3>2
  <2> QED  BY <2>2, <2>3
<1>4. c \in 1 .. Queues(M) /\ M \in [flag : Seq({0, 1}), count : Int, currQueue : Nat, avail : Nat]
  BY <1>1 DEF PoolWell
<1>5. R = [M EXCEPT !.currQueue = c, !.avail = FirstUnit(c)] /\ FirstUnit(c) \in InQueue(c)
  <2>1. FirstUnit(c) \in InQueue(c)
    BY <1>1, <1>4, QueueInPool, RcvBufferAssumption DEF InQueue
  <2> QED  BY <2>1, <1>4
<1>6. R.avail = FirstUnit(c) /\ R.currQueue = c
  BY <1>4
<1>7. PoolWell(R)
  BY <1>1, <1>4, <1>5, AvailMoved
<1> HIDE DEF R, c, hits
<1>8. /\ PoolWell(I) /\ I.currQueue = c /\ I.avail = FirstUnit(c)
      /\ \/ I.flag = R.flag /\ 100 * Busy(R) < PoolPercent * PoolSize(R)
         \/ /\ PoolSize(I) = PoolSize(R) + PoolUnit
            /\ \A u \in PoolSize(R) + 1 .. PoolSize(R) + PoolUnit : I.flag[u] = 0
  BY <1>6, <1>7, IncreaseIs
<1>9. \E q \in 1 .. Queues(I) : \E v \in Searched(q) : I.flag[v] = 0
  <2>1. CASE I.flag = R.flag /\ 100 * Busy(R) < PoolPercent * PoolSize(R)
    <3>1. PoolPercent * PoolSize(R) \in Nat /\ Busy(R) \in Nat
      BY <1>7, PoolSizes, PercentIs, BusyIs
    <3>2. ~(PoolPercent * PoolSize(R) <= 100 * Busy(R))
      BY <2>1, <3>1
    <3>3. \E q \in 1 .. Queues(R) : \E v \in Searched(q) : R.flag[v] = 0
      BY <3>2, <1>7, FullGrows
    <3>4. Queues(I) = Queues(R)
      BY <2>1 DEF Queues, PoolSize
    <3> QED  BY <2>1, <3>3, <3>4
  <2>2. CASE /\ PoolSize(I) = PoolSize(R) + PoolUnit
             /\ \A u \in PoolSize(R) + 1 .. PoolSize(R) + PoolUnit : I.flag[u] = 0
    <3> DEFINE k == Queues(R)
    <3>1. /\ k \in Nat \ {0} /\ PoolSize(R) = k * PoolUnit /\ PoolSize(R) \in Nat /\ PoolUnit \in Nat \ {0, 1}
          /\ PoolSize(I) = Queues(I) * PoolUnit /\ Queues(I) \in Nat
      BY <1>7, <1>8, PoolSizes, RcvBufferAssumption
    <3> HIDE DEF k
    <3>2. (k + 1) * PoolUnit = k * PoolUnit + PoolUnit /\ k + 1 \in Nat
      BY <3>1
    <3>3. Queues(I) = k + 1
      <4>1. Queues(I) = PoolSize(I) \div PoolUnit
        BY DEF Queues
      <4>2. PoolSize(I) = (k + 1) * PoolUnit
        BY <2>2, <3>1, <3>2
      <4> QED  BY <4>1, <4>2, <3>1, <3>2, DivExact
    <3>4. FirstUnit(k + 1) = PoolSize(R) + 1
      <4>1. (k + 1) - 1 = k
        BY <3>1
      <4> QED  BY <4>1, <3>1 DEF FirstUnit
    <3> HIDE DEF FirstUnit
    <3>5. FirstUnit(k + 1) \in Searched(k + 1) /\ FirstUnit(k + 1) \in PoolSize(R) + 1 .. PoolSize(R) + PoolUnit
      BY <3>1, <3>4 DEF Searched
    <3>6. k + 1 \in 1 .. Queues(I)
      BY <3>1, <3>3
    <3> QED  BY <2>2, <3>5, <3>6
  <2> QED  BY <1>8, <2>1, <2>2
<1> QED
  BY <1>3, <1>8, <1>9 DEF Roomy

LEMMA RoomyIsNotRefused ==
    ASSUME NEW P, PoolWell(P), Roomy(P)
    PROVE  GetNextAvailUnit(P).unit # 0
<1> DEFINE M == ToSearch(P)
           hits == {i \in 0 .. Queues(M) - 1 : FoundIn(M, i) # 0}
<1>1. /\ PoolWell(M) /\ M.currQueue = P.currQueue /\ M.avail = P.avail /\ PoolSize(M) >= PoolSize(P)
      /\ \A u \in 1 .. PoolSize(P) : M.flag[u] = P.flag[u]
  BY ToSearchIs
<1>2. GetNextAvailUnit(P) =
          IF hits # {}
          THEN [unit |-> FoundIn(M, Min(hits)),
                pool |-> [M EXCEPT !.currQueue = Turned(M, Min(hits)), !.avail = FoundIn(M, Min(hits))]]
          ELSE [unit |-> 0, pool |-> Increase([M EXCEPT !.avail = FirstUnit(M.currQueue)])]
  BY GetNextIs
<1> HIDE DEF M
<1>3. PICK q \in 1 .. Queues(P) : \E v \in Searched(q) : P.flag[v] = 0
  BY DEF Roomy
<1>4. PICK v \in Searched(q) : P.flag[v] = 0
  BY <1>3
<1>5. v \in 1 .. PoolSize(P)
  <2>1. FirstUnit(q) \in 1 .. PoolSize(P) /\ FirstUnit(q) + PoolUnit - 1 \in 1 .. PoolSize(P) /\ PoolSize(P) \in Nat
    BY QueueInPool, PoolSizes
  <2> HIDE DEF FirstUnit
  <2> QED  BY <2>1, RcvBufferAssumption DEF Searched
<1>6. M.flag[v] = 0
  BY <1>1, <1>4, <1>5
<1>7. q \in 1 .. Queues(M)
  <2>1. /\ Queues(P) \in Nat /\ Queues(M) \in Nat /\ PoolUnit \in Nat \ {0}
        /\ PoolSize(P) = Queues(P) * PoolUnit /\ PoolSize(M) = Queues(M) * PoolUnit
    BY <1>1, PoolSizes, RcvBufferAssumption
  <2>2. Queues(P) <= Queues(M)
    <3> SUFFICES ASSUME Queues(M) <= Queues(P) - 1 PROVE FALSE
      BY <2>1
    <3>1. /\ (Queues(P) - 1 - Queues(M)) * PoolUnit \in Nat
          /\ (Queues(P) - 1 - Queues(M)) * PoolUnit = Queues(P) * PoolUnit - PoolUnit - Queues(M) * PoolUnit
      BY <2>1
    <3> HIDE DEF Queues
    <3> QED  BY <3>1, <2>1, <1>1
  <2> QED  BY <2>1, <2>2
<1>8. \E i \in 0 .. Queues(M) - 1 : Turned(M, i) = q /\ (i = 0 => M.avail = FirstUnit(q))
  <2>1. CASE q = M.currQueue
    <3>1. Turned(M, 0) = q /\ M.avail = FirstUnit(q) /\ 0 \in 0 .. Queues(M) - 1
      BY <2>1, <1>1, TurnedIs, PoolSizes DEF Roomy
    <3> QED  BY <3>1
  <2>2. CASE q # M.currQueue
    <3>1. PICK i \in 1 .. Queues(M) - 1 : Turned(M, i) = q
      BY <2>2, <1>1, <1>7, TurnedIs
    <3>2. i \in 0 .. Queues(M) - 1 /\ i # 0
      BY <3>1
    <3> QED  BY <3>1, <3>2
  <2> QED  BY <2>1, <2>2
<1>9. PICK i \in 0 .. Queues(M) - 1 : Turned(M, i) = q /\ (i = 0 => M.avail = FirstUnit(q))
  BY <1>8
<1>10. FoundIn(M, i) = FreeIn(M, q, FirstUnit(q))
  BY <1>9 DEF FoundIn
<1>11. FirstUnit(q) \in InQueue(q)
  BY <1>1, <1>7, QueueInPool, RcvBufferAssumption DEF InQueue
<1>12. FoundIn(M, i) # 0
  BY <1>1, <1>4, <1>6, <1>7, <1>10, <1>11, FreeInIs
<1>13. hits # {} /\ Min(hits) \in hits
  <2>1. i \in hits /\ hits \subseteq Nat
    BY <1>1, <1>12, PoolSizes
  <2> HIDE DEF hits
  <2> QED  BY <2>1, MinOfNats
<1>14. FoundIn(M, Min(hits)) # 0
  BY <1>13
<1> HIDE DEF hits
<1> QED
  BY <1>2, <1>13, <1>14

-----------------------------------------------------------------------------
(* The buffer                                                              *)

Positions == 0 .. RcvSlotCount - 1

\* Slots from a to b.
Dist(a, b) == IF b >= a THEN b - a ELSE RcvSlotCount + b - a

BufTypes ==
    /\ slots \in [Positions -> Nat]
    /\ positions \in [start : Positions, lastAck : Positions, max : Int, notch : 0 .. PacketLen - 1]
    /\ packetIn \in [1 .. PoolSize(pool) -> Int]
    /\ unitWorker = Idle \/ unitWorker \in [pc : {"count"}, tmp : Int]
    /\ \/ reader = Idle
       \/ reader \in [pc : {"copy", "free"}, p : Positions, lastAck : Positions, rs : Nat]
       \/ reader \in [pc : {"uncount"}, p : Positions, lastAck : Positions, rs : Nat, tmp : Int]
    /\ ackedTo \in Nat /\ bytesRead \in Seq(Int \X Int) /\ refusals \in Nat

Acked == Dist(positions.start, positions.lastAck)

\* Slots that the call in progress has emptied.
Emptied == IF reader.pc = "idle" THEN 0 ELSE Dist(positions.start, reader.p)

\* The packet that belongs in slot s, and the one that is read next.
PacketOf(s) == ackedTo - Acked + Dist(positions.start, s)
ReadTo == ackedTo - Acked + Emptied

\* The reader is between the first slot and the last one that was acknowledged.
ReaderPlace ==
    /\ ReadTo \in Nat
    /\ reader.pc # "idle" => /\ Emptied <= Dist(positions.start, reader.lastAck)
                             /\ Dist(positions.start, reader.lastAck) <= Acked
    /\ reader.pc = "free" => reader.p # reader.lastAck

\* What a slot points to is a busy unit of its own, with the packet that belongs there.
SlotsHold ==
    /\ \A s \in Positions : slots[s] # 0 =>
           /\ slots[s] \in 1 .. PoolSize(pool) /\ pool.flag[slots[s]] = 1
           /\ packetIn[slots[s]] = PacketOf(s)
    /\ \A s, t \in Positions : slots[s] = slots[t] /\ slots[s] # 0 => s = t
    /\ \A s \in Positions : Emptied <= Dist(positions.start, s) /\ Dist(positions.start, s) < Acked => slots[s] # 0
    /\ \A s \in Positions : Dist(positions.start, s) < Emptied => slots[s] = 0

BytesSoFar ==
    /\ Len(bytesRead) = ReadTo * PacketLen + (IF reader.pc = "free" THEN PacketLen ELSE positions.notch)
    /\ BytesInOrder

RcvBufInv == PoolWell(pool) /\ BufTypes /\ ReaderPlace /\ SlotsHold /\ BytesSoFar

LEMMA FlagSet ==
    ASSUME NEW P, PoolWell(P), NEW u \in 1 .. PoolSize(P), NEW v \in {0, 1}
    PROVE  /\ PoolWell([P EXCEPT !.flag[u] = v]) /\ PoolSize([P EXCEPT !.flag[u] = v]) = PoolSize(P)
           /\ \A w \in 1 .. PoolSize(P) : [P EXCEPT !.flag[u] = v].flag[w] = IF w = u THEN v ELSE P.flag[w]
           /\ [P EXCEPT !.flag[u] = v].avail = P.avail /\ [P EXCEPT !.flag[u] = v].currQueue = P.currQueue
<1> DEFINE R == [P EXCEPT !.flag[u] = v]
           f == P.flag
           g == [f EXCEPT ![u] = v]
<1>1. P \in [flag : Seq({0, 1}), count : Int, currQueue : Nat, avail : Nat] /\ f \in Seq({0, 1}) /\ u \in 1 .. Len(f)
  BY PoolSizes DEF PoolWell
<1>2. g \in Seq({0, 1}) /\ Len(g) = Len(f) /\ \A w \in 1 .. Len(f) : g[w] = IF w = u THEN v ELSE f[w]
  BY <1>1, ExceptSeq
<1>3. R = [P EXCEPT !.flag = g]
  BY <1>1
<1> HIDE DEF g, R
<1>4. /\ R \in [flag : Seq({0, 1}), count : Int, currQueue : Nat, avail : Nat]
      /\ R.flag = g /\ R.currQueue = P.currQueue /\ R.avail = P.avail
  BY <1>1, <1>2, <1>3
<1>5. PoolSize(R) = PoolSize(P) /\ Queues(R) = Queues(P)
  BY <1>2, <1>4 DEF PoolSize, Queues
<1>6. PoolWell(R)
  BY <1>2, <1>4, <1>5 DEF PoolWell
<1> QED
  BY <1>2, <1>4, <1>5, <1>6 DEF R, PoolSize

LEMMA CountSet ==
    ASSUME NEW P, PoolWell(P), NEW x \in Int
    PROVE  /\ PoolWell([P EXCEPT !.count = x]) /\ PoolSize([P EXCEPT !.count = x]) = PoolSize(P)
           /\ [P EXCEPT !.count = x].flag = P.flag
           /\ [P EXCEPT !.count = x].avail = P.avail /\ [P EXCEPT !.count = x].currQueue = P.currQueue
<1> DEFINE R == [P EXCEPT !.count = x]
<1>1. P \in [flag : Seq({0, 1}), count : Int, currQueue : Nat, avail : Nat]
  BY DEF PoolWell
<1>2. /\ R \in [flag : Seq({0, 1}), count : Int, currQueue : Nat, avail : Nat]
      /\ R.flag = P.flag /\ R.currQueue = P.currQueue /\ R.avail = P.avail
  BY <1>1
<1> HIDE DEF R
<1>3. PoolSize(R) = PoolSize(P) /\ Queues(R) = Queues(P)
  BY <1>2 DEF PoolSize, Queues
<1>4. PoolWell(R)
  BY <1>2, <1>3 DEF PoolWell
<1> QED
  BY <1>2, <1>3, <1>4 DEF R

LEMMA DistIs ==
    ASSUME NEW a \in Positions, NEW b \in Positions
    PROVE  Dist(a, b) \in Positions /\ (Dist(a, b) = 0 <=> a = b)
  BY RcvBufferAssumption DEF Dist, Positions

LEMMA DistNat ==
    ASSUME NEW a \in Positions, NEW b \in Positions
    PROVE  Dist(a, b) \in Nat /\ Dist(a, b) < RcvSlotCount /\ a \in Nat /\ RcvSlotCount \in Nat
  BY RcvBufferAssumption DEF Dist, Positions

LEMMA DistOne ==
    ASSUME NEW a \in Positions, NEW b \in Positions, NEW c \in Positions, Dist(a, b) = Dist(a, c)
    PROVE  b = c
  BY RcvBufferAssumption DEF Dist, Positions

\* A slot that many positions further.
LEMMA DistMoved ==
    ASSUME NEW a \in Positions, NEW b \in Positions, NEW i \in Nat, Dist(a, b) + i < RcvSlotCount
    PROVE  (b + i) % RcvSlotCount \in Positions /\ Dist(a, (b + i) % RcvSlotCount) = Dist(a, b) + i
<1>1. RcvSlotCount \in Nat \ {0} /\ a \in 0 .. RcvSlotCount - 1 /\ b \in 0 .. RcvSlotCount - 1
  BY RcvBufferAssumption DEF Positions
<1>2. Dist(a, b) = IF b >= a THEN b - a ELSE RcvSlotCount + b - a
  BY DEF Dist
<1>3. b + i \in 0 .. 2 * RcvSlotCount - 1
  BY <1>1, <1>2
<1> DEFINE x == b + i
           y == x % RcvSlotCount
<1>4. y = IF x < RcvSlotCount THEN x ELSE x - RcvSlotCount
  BY <1>1, <1>3, ModSmall
<1> HIDE DEF y
<1>5. y \in 0 .. RcvSlotCount - 1
  BY <1>1, <1>3, <1>4
<1>6. Dist(a, y) = IF y >= a THEN y - a ELSE RcvSlotCount + y - a
  BY DEF Dist
<1>7. Dist(a, y) = Dist(a, b) + i
  BY <1>1, <1>2, <1>4, <1>5, <1>6
<1> QED
  BY <1>5, <1>7 DEF y, Positions

LEMMA DistFrom ==
    ASSUME NEW a \in Positions, NEW b \in Positions, NEW c \in Positions, Dist(a, b) <= Dist(a, c)
    PROVE  Dist(b, c) = Dist(a, c) - Dist(a, b)
  BY RcvBufferAssumption DEF Dist, Positions

LEMMA DistBehind ==
    ASSUME NEW a \in Positions, NEW b \in Positions, NEW c \in Positions, Dist(a, c) < Dist(a, b)
    PROVE  Dist(b, c) = RcvSlotCount - Dist(a, b) + Dist(a, c)
  BY RcvBufferAssumption DEF Dist, Positions

LEMMA SizesAre ==
    ASSUME BufTypes
    PROVE  /\ GetRcvDataSize = Acked /\ Acked \in Positions /\ Emptied \in Positions
           /\ GetAvailBufSize = RcvSlotCount - Acked - 1
           /\ positions.start \in Positions /\ positions.lastAck \in Positions
           /\ reader.pc # "idle" => reader.p \in Positions /\ reader.lastAck \in Positions
<1>1. /\ positions.start \in Positions /\ positions.lastAck \in Positions
      /\ reader.pc # "idle" => reader.p \in Positions /\ reader.lastAck \in Positions
  BY DEF BufTypes, Idle
<1>2. 0 \in Positions
  BY RcvBufferAssumption DEF Positions
<1>3. GetRcvDataSize = Acked
  BY DEF GetRcvDataSize, Acked, Dist
<1> QED
  BY <1>1, <1>2, <1>3, DistIs DEF GetAvailBufSize, Acked, Emptied

\* The parts of BufTypes.
LEMMA TypesAre ==
    ASSUME BufTypes
    PROVE  /\ slots \in [Positions -> Nat]
           /\ positions \in [start : Positions, lastAck : Positions, max : Int, notch : 0 .. PacketLen - 1]
           /\ packetIn \in [1 .. PoolSize(pool) -> Int]
           /\ ackedTo \in Nat /\ bytesRead \in Seq(Int \X Int) /\ refusals \in Nat
           /\ Acked \in Nat /\ Acked < RcvSlotCount /\ Emptied \in Nat /\ Emptied < RcvSlotCount
           /\ RcvSlotCount \in Nat
<1>1. Acked \in Positions /\ Emptied \in Positions
  BY SizesAre
<1>2. /\ Acked \in Nat /\ Acked < RcvSlotCount /\ Emptied \in Nat /\ Emptied < RcvSlotCount
      /\ RcvSlotCount \in Nat
  BY <1>1, RcvBufferAssumption DEF Positions
<1> QED
  BY <1>2 DEF BufTypes

LEMMA PlacesMoved ==
    ASSUME NEW P \in [start : Positions, lastAck : Positions, max : Int, notch : 0 .. PacketLen - 1],
           NEW Q, NEW x \in Int, NEW p \in Positions, NEW n \in 0 .. PacketLen - 1
    PROVE  /\ Q = [P EXCEPT !.max = x] =>
                  /\ Q \in [start : Positions, lastAck : Positions, max : Int, notch : 0 .. PacketLen - 1]
                  /\ Q.start = P.start /\ Q.lastAck = P.lastAck /\ Q.notch = P.notch
           /\ Q = [P EXCEPT !.lastAck = p, !.max = x] =>
                  /\ Q \in [start : Positions, lastAck : Positions, max : Int, notch : 0 .. PacketLen - 1]
                  /\ Q.start = P.start /\ Q.lastAck = p /\ Q.notch = P.notch
           /\ Q = [P EXCEPT !.start = p] =>
                  /\ Q \in [start : Positions, lastAck : Positions, max : Int, notch : 0 .. PacketLen - 1]
                  /\ Q.start = p /\ Q.lastAck = P.lastAck /\ Q.notch = P.notch
           /\ Q = [P EXCEPT !.notch = n] =>
                  /\ Q \in [start : Positions, lastAck : Positions, max : Int, notch : 0 .. PacketLen - 1]
                  /\ Q.start = P.start /\ Q.lastAck = P.lastAck /\ Q.notch = n
  OBVIOUS

LEMMA InitRcvBuf == RcvBufInit => RcvBufInv
<1> SUFFICES ASSUME RcvBufInit PROVE RcvBufInv
  OBVIOUS
<1> USE DEF RcvBufInit
<1>1. /\ PoolUnit \in Nat \ {0, 1} /\ PacketLen \in Nat \ {0} /\ RcvSlotCount \in Nat \ {0, 1}
  BY RcvBufferAssumption
<1> DEFINE f == [u \in 1 .. PoolUnit |-> 0]
<1>2. f \in Seq({0, 1}) /\ Len(f) = PoolUnit
  <2>1. f \in Seq({0, 1})
    BY <1>1, IsASeq
  <2>2. DOMAIN f = 1 .. PoolUnit
    OBVIOUS
  <2> HIDE DEF f
  <2> QED  BY <1>1, <2>1, <2>2, LenProperties
<1>3. pool = [flag |-> f, count |-> 0, currQueue |-> 1, avail |-> 1]
  OBVIOUS
<1> HIDE DEF f
<1>4. PoolUnit = 1 * PoolUnit
  BY <1>1
<1>5. PoolSize(pool) = PoolUnit /\ Queues(pool) = 1
  <2>1. PoolSize(pool) = PoolUnit
    BY <1>2, <1>3 DEF PoolSize
  <2>2. (1 * PoolUnit) \div PoolUnit = 1
    BY <1>1, DivExact
  <2> QED  BY <2>1, <2>2, <1>4 DEF Queues
<1>6. FirstUnit(1) = 1
  BY <1>1 DEF FirstUnit
<1>7. PoolWell(pool)
  BY <1>1, <1>2, <1>3, <1>4, <1>5, <1>6 DEF PoolWell
<1>8. 0 \in Positions /\ 0 \in 0 .. PacketLen - 1
  BY <1>1 DEF Positions
<1>9. BufTypes
  BY <1>5, <1>8, EmptySeq DEF BufTypes, Positions
<1>10. Acked = 0 /\ Emptied = 0 /\ ReadTo = 0
  BY <1>9, <1>8, SizesAre, DistIs DEF Acked, Emptied, ReadTo, Idle
<1>11. ReaderPlace
  BY <1>10 DEF ReaderPlace, Idle
<1>12. SlotsHold
  <2>1. \A s \in Positions : slots[s] = 0 /\ Dist(0, s) \in Positions
    BY <1>8, DistIs DEF Positions
  <2>2. \A s \in Positions : ~(Dist(0, s) < 0)
    BY <2>1 DEF Positions
  <2> QED  BY <1>10, <2>1, <2>2 DEF SlotsHold
<1>13. BytesSoFar
  <2>1. Len(bytesRead) = 0 /\ 0 * PacketLen = 0 /\ reader.pc = "idle" /\ positions.notch = 0
    BY <1>1 DEF Idle
  <2>2. BytesInOrder
    BY EmptySeq DEF BytesInOrder
  <2> QED  BY <2>1, <2>2, <1>10 DEF BytesSoFar
<1> QED
  BY <1>7, <1>9, <1>11, <1>12, <1>13 DEF RcvBufInv

LEMMA CountsOnly ==
    ASSUME RcvBufInv, CountUnit \/ UncountUnit
    PROVE  \E x \in Int : pool' = [pool EXCEPT !.count = x]
<1>1. CASE CountUnit
  <2>1. unitWorker.tmp \in Int
    BY <1>1 DEF RcvBufInv, BufTypes, CountUnit, Idle
  <2>2. unitWorker.tmp + 1 \in Int /\ pool' = [pool EXCEPT !.count = unitWorker.tmp + 1]
    BY <1>1, <2>1 DEF CountUnit
  <2> QED  BY <2>2
<1>2. CASE UncountUnit
  <2>1. reader.tmp \in Int
    BY <1>2 DEF RcvBufInv, BufTypes, UncountUnit, Idle
  <2>2. reader.tmp - 1 \in Int /\ pool' = [pool EXCEPT !.count = reader.tmp - 1]
    BY <1>2, <2>1 DEF UncountUnit
  <2> QED  BY <2>2
<1> QED  BY <1>1, <1>2

\* The slots, numbers and the reader's call as they were: only the pool's counts change.
LEMMA CountStep ==
    ASSUME RcvBufInv, CountUnit \/ UncountUnit
    PROVE  RcvBufInv'
<1>1. PICK x \in Int : pool' = [pool EXCEPT !.count = x]
  BY CountsOnly
<1>2. PoolWell(pool)
  BY DEF RcvBufInv
<1>3. PoolWell(pool') /\ PoolSize(pool') = PoolSize(pool) /\ pool'.flag = pool.flag
  BY <1>1, <1>2, CountSet
<1>4. UNCHANGED <<slots, positions, packetIn, ackedTo, bytesRead, refusals>>
  BY DEF CountUnit, UncountUnit
<1>5. /\ unitWorker' = Idle \/ unitWorker' = unitWorker
      /\ \/ reader' = reader
         \/ /\ reader.pc = "uncount" /\ reader' \in [pc : {"copy"}, p : Positions, lastAck : Positions, rs : Nat]
            /\ reader'.p = reader.p /\ reader'.lastAck = reader.lastAck
  BY DEF RcvBufInv, BufTypes, CountUnit, UncountUnit, Idle
<1>6. BufTypes'
  <2>1. packetIn' \in [1 .. PoolSize(pool') -> Int]
    BY <1>3, <1>4 DEF RcvBufInv, BufTypes
  <2> QED  BY <2>1, <1>4, <1>5 DEF RcvBufInv, BufTypes, Idle
<1>7. /\ Acked' = Acked /\ Emptied' = Emptied /\ ReadTo' = ReadTo
      /\ (reader'.pc = "idle" <=> reader.pc = "idle") /\ (reader'.pc = "free" <=> reader.pc = "free")
      /\ reader.pc # "idle" => reader'.lastAck = reader.lastAck /\ reader'.p = reader.p
  BY <1>4, <1>5 DEF Acked, Emptied, ReadTo
<1>8. ReaderPlace'
  BY <1>4, <1>7 DEF RcvBufInv, ReaderPlace
<1>9. \A s \in Positions : PacketOf(s)' = PacketOf(s)
  BY <1>4, <1>7 DEF PacketOf
<1>10. SlotsHold'
  BY <1>3, <1>4, <1>7, <1>9 DEF RcvBufInv, SlotsHold
<1>11. BytesSoFar'
  BY <1>4, <1>7 DEF RcvBufInv, BytesSoFar, BytesInOrder
<1> QED
  BY <1>3, <1>6, <1>8, <1>10, <1>11 DEF RcvBufInv

\* A packet is received into a free unit, and kept only in an empty slot that is not yet
\* acknowledged: its own.
LEMMA ReceiveStep ==
    ASSUME RcvBufInv, NEW n \in Nat, ReceivePacket(n)
    PROVE  RcvBufInv'
<1> DEFINE got == GetNextAvailUnit(pool)
           offset == n - ackedTo
           kept == offset >= 0 /\ offset < GetAvailBufSize /\ slots[SlotOf(offset)] = 0
           k == SlotOf(offset)
<1>1. PoolWell(pool) /\ BufTypes
  BY DEF RcvBufInv
<1>2. /\ PoolWell(got.pool) /\ got.unit \in 0 .. PoolSize(got.pool)
      /\ got.unit # 0 => got.pool.flag[got.unit] = 0
      /\ PoolSize(got.pool) >= PoolSize(pool) /\ PoolSize(pool) \in Nat /\ PoolSize(got.pool) \in Nat
      /\ \A u \in 1 .. PoolSize(pool) : got.pool.flag[u] = pool.flag[u]
  BY <1>1, UnitIsFree, PoolSizes
<1>3. /\ refusals' = (IF got.unit = 0 THEN refusals + 1 ELSE 0)
      /\ packetIn' = [u \in 1 .. PoolSize(got.pool) |->
                         IF u = got.unit THEN IF kept THEN n ELSE -1
                         ELSE IF u \in DOMAIN packetIn THEN packetIn[u] ELSE -1]
      /\ positions' = [positions EXCEPT !.max =
             IF got.unit # 0 /\ offset >= 0 /\ offset < GetAvailBufSize /\ offset > @ THEN offset ELSE @]
      /\ got.unit # 0 /\ kept => /\ slots' = [slots EXCEPT ![k] = got.unit]
                                 /\ pool' = [got.pool EXCEPT !.flag[got.unit] = 1]
                                 /\ unitWorker' = [pc |-> "count", tmp |-> got.pool.count]
      /\ ~(got.unit # 0 /\ kept) => pool' = got.pool /\ UNCHANGED <<slots, unitWorker>>
      /\ UNCHANGED <<reader, ackedTo, bytesRead>>
  BY DEF ReceivePacket
<1>4. kept => k \in Positions /\ PacketOf(k) = n /\ Dist(positions.start, k) >= Acked
  <2> SUFFICES ASSUME kept PROVE k \in Positions /\ PacketOf(k) = n /\ Dist(positions.start, k) >= Acked
    OBVIOUS
  <2>1. /\ positions.start \in Positions /\ positions.lastAck \in Positions /\ Acked \in Positions
        /\ GetAvailBufSize = RcvSlotCount - Acked - 1
    BY <1>1, SizesAre
  <2>2. offset \in Nat /\ Acked + offset < RcvSlotCount /\ ackedTo \in Nat
    <3>1. ackedTo \in Nat /\ Acked \in Nat /\ RcvSlotCount \in Nat
      BY <1>1, TypesAre
    <3>2. offset \in Int /\ offset >= 0 /\ offset < GetAvailBufSize
      BY <3>1
    <3> HIDE DEF offset
    <3> QED  BY <3>1, <3>2, <2>1
  <2>3. k \in Positions /\ Dist(positions.start, k) = Acked + offset
    BY <2>1, <2>2, DistMoved DEF SlotOf, Acked
  <2> HIDE DEF k
  <2> QED  BY <2>1, <2>2, <2>3 DEF PacketOf, Positions
<1>5. packetIn \in [1 .. PoolSize(pool) -> Int] /\ DOMAIN packetIn = 1 .. PoolSize(pool)
  BY <1>1 DEF BufTypes
<1>6. /\ positions' \in [start : Positions, lastAck : Positions, max : Int, notch : 0 .. PacketLen - 1]
      /\ positions'.start = positions.start /\ positions'.lastAck = positions.lastAck
      /\ positions'.notch = positions.notch
  <2> DEFINE x == IF got.unit # 0 /\ offset >= 0 /\ offset < GetAvailBufSize /\ offset > positions.max
                  THEN offset ELSE positions.max
  <2>1. ackedTo \in Nat /\ positions \in [start : Positions, lastAck : Positions, max : Int, notch : 0 .. PacketLen - 1]
    BY <1>1, TypesAre
  <2>2. x \in Int
    BY <2>1
  <2>3. positions' = [positions EXCEPT !.max = x]
    BY <1>3
  <2> HIDE DEF x
  <2> QED  BY <2>1, <2>2, <2>3, PlacesMoved
<1>7. /\ packetIn' \in [1 .. PoolSize(got.pool) -> Int]
      /\ \A u \in 1 .. PoolSize(pool) : u # got.unit => packetIn'[u] = packetIn[u]
      /\ got.unit # 0 /\ kept => packetIn'[got.unit] = n
  BY <1>2, <1>3, <1>5
<1> HIDE DEF got, kept, k, offset
<1>8. PoolWell(pool') /\ PoolSize(pool') = PoolSize(got.pool)
  <2>1. CASE ~(got.unit # 0 /\ kept)
    BY <2>1, <1>2, <1>3
  <2>2. CASE got.unit # 0 /\ kept
    <3>1. got.unit \in 1 .. PoolSize(got.pool)
      BY <2>2, <1>2
    <3>2. pool' = [got.pool EXCEPT !.flag[got.unit] = 1]
      BY <2>2, <1>3
    <3> QED  BY <3>1, <3>2, <1>2, FlagSet
  <2> QED  BY <2>1, <2>2
<1>9. \A u \in 1 .. PoolSize(pool) : pool.flag[u] = 1 => pool'.flag[u] = 1 /\ u # got.unit
  <2> TAKE u \in 1 .. PoolSize(pool)
  <2> HAVE pool.flag[u] = 1
  <2>1. got.pool.flag[u] = 1 /\ u \in 1 .. PoolSize(got.pool) /\ u # got.unit
    BY <1>2
  <2>2. CASE ~(got.unit # 0 /\ kept)
    BY <2>1, <2>2, <1>3
  <2>3. CASE got.unit # 0 /\ kept
    <3>1. got.unit \in 1 .. PoolSize(got.pool)
      BY <2>3, <1>2
    <3>2. pool' = [got.pool EXCEPT !.flag[got.unit] = 1]
      BY <2>3, <1>3
    <3> QED  BY <2>1, <3>1, <3>2, <1>2, FlagSet
  <2> QED  BY <2>2, <2>3
<1>10. got.pool.count \in Int
  BY <1>2 DEF PoolWell
<1>11. BufTypes'
  <2>1. slots' \in [Positions -> Nat]
    <3>1. slots \in [Positions -> Nat] /\ got.unit \in Nat
      BY <1>1, <1>2, TypesAre
    <3> QED  BY <3>1, <1>3
  <2>2. unitWorker' = Idle \/ unitWorker' \in [pc : {"count"}, tmp : Int]
    BY <1>1, <1>3, <1>10 DEF BufTypes
  <2>3. refusals' \in Nat /\ ackedTo' \in Nat /\ bytesRead' \in Seq(Int \X Int)
    BY <1>1, <1>3 DEF BufTypes
  <2> QED  BY <2>1, <2>2, <2>3, <1>1, <1>3, <1>6, <1>7, <1>8 DEF BufTypes
<1>12. Acked' = Acked /\ Emptied' = Emptied /\ ReadTo' = ReadTo /\ \A s \in Positions : PacketOf(s)' = PacketOf(s)
  BY <1>3, <1>6 DEF Acked, Emptied, ReadTo, PacketOf
<1>13. ReaderPlace'
  BY <1>3, <1>6, <1>12 DEF RcvBufInv, ReaderPlace
<1>14. BytesSoFar'
  BY <1>3, <1>6, <1>12 DEF RcvBufInv, BytesSoFar, BytesInOrder
<1>15. /\ \A s \in Positions : slots[s] # 0 =>
              /\ slots[s] \in 1 .. PoolSize(pool) /\ pool.flag[slots[s]] = 1 /\ packetIn[slots[s]] = PacketOf(s)
       /\ \A s, t \in Positions : slots[s] = slots[t] /\ slots[s] # 0 => s = t
       /\ \A s \in Positions : Emptied <= Dist(positions.start, s) /\ Dist(positions.start, s) < Acked => slots[s] # 0
       /\ \A s \in Positions : Dist(positions.start, s) < Emptied => slots[s] = 0
  BY DEF RcvBufInv, SlotsHold
<1>16. Emptied <= Acked /\ Emptied \in Nat /\ Acked \in Nat
  <2>1. Emptied \in Nat /\ Acked \in Nat
    BY <1>1, SizesAre DEF Positions
  <2>2. reader.pc = "idle" => Emptied = 0
    BY DEF Emptied
  <2>3. reader.pc # "idle" => Emptied <= Dist(positions.start, reader.lastAck) /\ Dist(positions.start, reader.lastAck) <= Acked
    BY DEF RcvBufInv, ReaderPlace
  <2>4. reader.pc # "idle" => Dist(positions.start, reader.lastAck) \in Nat
    BY <1>1, SizesAre, DistNat
  <2> QED  BY <2>1, <2>2, <2>3, <2>4
<1>17. \A s \in Positions : slots[s] # 0 =>
           /\ slots[s] \in 1 .. PoolSize(pool') /\ pool'.flag[slots[s]] = 1
           /\ packetIn'[slots[s]] = PacketOf(s) /\ slots[s] # got.unit
  BY <1>2, <1>7, <1>8, <1>9, <1>15
<1>18. SlotsHold'
  <2>1. CASE ~(got.unit # 0 /\ kept)
    <3>1. slots' = slots
      BY <2>1, <1>3
    <3> QED  BY <3>1, <1>6, <1>12, <1>15, <1>17 DEF SlotsHold
  <2>2. CASE got.unit # 0 /\ kept
    <3>1. \A s \in Positions : slots'[s] = IF s = k THEN got.unit ELSE slots[s]
      BY <2>2, <1>1, <1>3 DEF BufTypes
    <3>2. /\ got.unit \in 1 .. PoolSize(pool') /\ pool'.flag[got.unit] = 1
          /\ k \in Positions /\ packetIn'[got.unit] = PacketOf(k) /\ Dist(positions.start, k) >= Acked
      <4>1. got.unit \in 1 .. PoolSize(got.pool)
        BY <2>2, <1>2
      <4>2. pool'.flag[got.unit] = 1
        <5>1. pool' = [got.pool EXCEPT !.flag[got.unit] = 1]
          BY <2>2, <1>3
        <5> QED  BY <4>1, <5>1, <1>2, FlagSet
      <4> QED  BY <2>2, <4>1, <4>2, <1>4, <1>7, <1>8
    <3>3. Dist(positions.start, k) \in Nat
      BY <3>2, <1>1, SizesAre, DistNat
    <3>4. \A s \in Positions : slots'[s] # 0 =>
              /\ slots'[s] \in 1 .. PoolSize(pool') /\ pool'.flag[slots'[s]] = 1
              /\ packetIn'[slots'[s]] = PacketOf(s)
      BY <3>1, <3>2, <1>17
    <3>5. \A s, t \in Positions : slots'[s] = slots'[t] /\ slots'[s] # 0 => s = t
      BY <3>1, <1>15, <1>17
    <3>6. \A s \in Positions : Emptied <= Dist(positions.start, s) /\ Dist(positions.start, s) < Acked => slots'[s] # 0
      BY <3>1, <1>15, <2>2
    <3>7. \A s \in Positions : Dist(positions.start, s) < Emptied => slots'[s] = 0
      BY <3>1, <3>2, <3>3, <1>15, <1>16
    <3> QED  BY <3>4, <3>5, <3>6, <3>7, <1>6, <1>12 DEF SlotsHold
  <2> QED  BY <2>1, <2>2
<1> QED
  BY <1>8, <1>11, <1>13, <1>14, <1>18 DEF RcvBufInv

\* Slots without a gap are acknowledged.
LEMMA AckStep ==
    ASSUME RcvBufInv, NEW n \in 1 .. RcvSlotCount, AckData(n)
    PROVE  RcvBufInv'
<1>1. PoolWell(pool) /\ BufTypes
  BY DEF RcvBufInv
<1>2. /\ positions.start \in Positions /\ positions.lastAck \in Positions /\ Acked \in Positions /\ Emptied \in Positions
      /\ GetAvailBufSize = RcvSlotCount - Acked - 1 /\ RcvSlotCount \in Nat
      /\ reader.pc # "idle" => reader.p \in Positions /\ reader.lastAck \in Positions
  BY <1>1, SizesAre, RcvBufferAssumption
<1>3. /\ \A i \in 0 .. n - 1 : i < GetAvailBufSize /\ slots[SlotOf(i)] # 0
      /\ positions' = [positions EXCEPT !.lastAck = SlotOf(n), !.max = IF @ < n THEN 0 ELSE @ - n]
      /\ ackedTo' = ackedTo + n
      /\ UNCHANGED <<slots, pool, packetIn, unitWorker, reader, bytesRead, refusals>>
  BY DEF AckData
<1>4. Acked + n < RcvSlotCount
  <2>1. n - 1 \in 0 .. n - 1
    OBVIOUS
  <2>2. n - 1 < RcvSlotCount - Acked - 1
    BY <2>1, <1>2, <1>3
  <2> QED  BY <2>2, <1>2 DEF Positions
<1>5. SlotOf(n) \in Positions /\ Dist(positions.start, SlotOf(n)) = Acked + n
  BY <1>2, <1>4, DistMoved DEF SlotOf, Acked
<1>6. /\ positions' \in [start : Positions, lastAck : Positions, max : Int, notch : 0 .. PacketLen - 1]
      /\ positions'.start = positions.start /\ positions'.lastAck = SlotOf(n)
      /\ positions'.notch = positions.notch
  <2> DEFINE x == IF positions.max < n THEN 0 ELSE positions.max - n
  <2>1. positions \in [start : Positions, lastAck : Positions, max : Int, notch : 0 .. PacketLen - 1]
    BY <1>1, TypesAre
  <2>2. x \in Int
    BY <2>1
  <2>3. positions' = [positions EXCEPT !.lastAck = SlotOf(n), !.max = x]
    BY <1>3
  <2> HIDE DEF x
  <2> QED  BY <2>1, <2>2, <2>3, <1>5, PlacesMoved
<1>7. BufTypes'
  <2>1. ackedTo' \in Nat
    BY <1>1, <1>3, TypesAre
  <2> QED  BY <2>1, <1>1, <1>3, <1>6 DEF BufTypes
<1>8. Acked' = Acked + n /\ Emptied' = Emptied
  BY <1>3, <1>5, <1>6 DEF Acked, Emptied
<1>9. ReadTo' = ReadTo /\ \A s \in Positions : PacketOf(s)' = PacketOf(s)
  <2>1. ackedTo \in Nat /\ Acked \in Nat /\ Emptied \in Nat
    BY <1>1, <1>2 DEF BufTypes, Positions
  <2>2. ackedTo' - Acked' = ackedTo - Acked
    BY <2>1, <1>3, <1>8
  <2> QED  BY <2>2, <1>6, <1>8 DEF ReadTo, PacketOf
<1>10. ReaderPlace'
  <2>1. reader.pc # "idle" => Dist(positions.start, reader.lastAck) \in Nat
    BY <1>2, DistNat
  <2>2. Acked \in Nat
    BY <1>2 DEF Positions
  <2> QED  BY <2>1, <2>2, <1>3, <1>6, <1>8, <1>9 DEF RcvBufInv, ReaderPlace
<1>11. BytesSoFar'
  BY <1>3, <1>6, <1>9 DEF RcvBufInv, BytesSoFar, BytesInOrder
<1>12. ASSUME NEW s \in Positions, Emptied <= Dist(positions.start, s), Dist(positions.start, s) < Acked + n
       PROVE  slots[s] # 0
  <2>1. Dist(positions.start, s) \in Nat /\ Acked \in Nat
    BY <1>1, <1>2, DistNat, TypesAre
  <2>2. CASE Dist(positions.start, s) < Acked
    BY <1>12, <2>2 DEF RcvBufInv, SlotsHold
  <2>3. CASE Dist(positions.start, s) >= Acked
    <3> DEFINE i == Dist(positions.start, s) - Acked
    <3>1. i \in 0 .. n - 1 /\ i \in Nat /\ Acked + i < RcvSlotCount /\ Acked + i = Dist(positions.start, s)
      BY <2>1, <2>3, <1>2, <1>4, <1>12
    <3> HIDE DEF i
    <3>2. SlotOf(i) \in Positions /\ Dist(positions.start, SlotOf(i)) = Acked + i
      BY <3>1, <1>2, DistMoved DEF SlotOf, Acked
    <3>3. SlotOf(i) = s
      BY <3>1, <3>2, <1>2, DistOne
    <3> QED  BY <3>1, <3>3, <1>3
  <2> QED  BY <2>1, <2>2, <2>3
<1>13. SlotsHold'
  BY <1>3, <1>6, <1>8, <1>9, <1>12 DEF RcvBufInv, SlotsHold
<1> QED
  BY <1>1, <1>3, <1>7, <1>10, <1>11, <1>13 DEF RcvBufInv

LEMMA StartReadStep ==
    ASSUME RcvBufInv, NEW len \in Nat, StartRead(len)
    PROVE  RcvBufInv'
<1>1. PoolWell(pool) /\ BufTypes
  BY DEF RcvBufInv
<1>2. positions.start \in Positions /\ positions.lastAck \in Positions /\ Acked \in Positions
  BY <1>1, SizesAre
<1>3. /\ reader = Idle
      /\ reader' = [pc |-> "copy", p |-> positions.start, lastAck |-> positions.lastAck, rs |-> len]
      /\ UNCHANGED <<slots, positions, pool, packetIn, unitWorker, ackedTo, bytesRead, refusals>>
  BY DEF StartRead
<1>4. reader.pc = "idle" /\ reader'.pc = "copy" /\ reader'.p = positions.start /\ reader'.lastAck = positions.lastAck
  BY <1>3 DEF Idle
<1>5. BufTypes'
  BY <1>1, <1>2, <1>3 DEF BufTypes
<1>6. Dist(positions.start, positions.start) = 0
  BY <1>2, DistIs
<1>7. Acked' = Acked /\ Emptied' = 0 /\ Emptied = 0
  BY <1>3, <1>4, <1>6 DEF Acked, Emptied
<1>8. ReadTo' = ReadTo /\ \A s \in Positions : PacketOf(s)' = PacketOf(s)
  BY <1>3, <1>7 DEF ReadTo, PacketOf
<1>9. ReaderPlace'
  <2>1. Dist(positions.start, positions.lastAck) = Acked /\ 0 <= Acked /\ Acked <= Acked
    BY <1>2 DEF Acked, Positions
  <2> QED  BY <2>1, <1>3, <1>4, <1>7, <1>8 DEF RcvBufInv, ReaderPlace
<1>10. SlotsHold'
  BY <1>3, <1>7, <1>8 DEF RcvBufInv, SlotsHold
<1>11. BytesSoFar'
  BY <1>3, <1>4, <1>8 DEF RcvBufInv, BytesSoFar, BytesInOrder
<1> QED
  BY <1>1, <1>3, <1>5, <1>9, <1>10, <1>11 DEF RcvBufInv

LEMMA EndReadStep ==
    ASSUME RcvBufInv, EndRead
    PROVE  RcvBufInv'
<1>1. PoolWell(pool) /\ BufTypes
  BY DEF RcvBufInv
<1> DEFINE r == reader.p
           st == positions.start
<1>2. /\ reader.pc = "copy" /\ positions' = [positions EXCEPT !.start = r] /\ reader' = Idle
      /\ UNCHANGED <<slots, pool, packetIn, unitWorker, ackedTo, bytesRead, refusals>>
  BY DEF EndRead
<1>3. /\ st \in Positions /\ positions.lastAck \in Positions /\ Acked \in Positions /\ Emptied \in Positions
      /\ r \in Positions /\ reader.lastAck \in Positions
  BY <1>1, <1>2, SizesAre
<1>4. /\ positions' \in [start : Positions, lastAck : Positions, max : Int, notch : 0 .. PacketLen - 1]
      /\ positions'.start = r /\ positions'.lastAck = positions.lastAck /\ positions'.notch = positions.notch
      /\ reader'.pc = "idle"
  BY <1>1, <1>2, <1>3 DEF BufTypes, Idle
<1>5. BufTypes'
  BY <1>1, <1>2, <1>4 DEF BufTypes
<1>6. Emptied = Dist(st, r) /\ Emptied <= Acked
  <2>1. Emptied <= Dist(st, reader.lastAck) /\ Dist(st, reader.lastAck) <= Acked
    BY <1>2 DEF RcvBufInv, ReaderPlace
  <2>2. Dist(st, reader.lastAck) \in Positions
    BY <1>3, DistIs
  <2> QED  BY <2>1, <2>2, <1>2, <1>3 DEF Emptied, Positions
<1> HIDE DEF r, st
<1>7. Acked' = Acked - Emptied /\ Emptied' = 0
  <2>1. Dist(r, positions.lastAck) = Dist(st, positions.lastAck) - Dist(st, r)
    BY <1>3, <1>6, DistFrom DEF Acked, st
  <2> QED  BY <2>1, <1>4, <1>6 DEF Acked, Emptied, st
<1>8. ackedTo \in Nat /\ Acked \in Nat /\ Emptied \in Nat /\ RcvSlotCount \in Nat
  BY <1>1, <1>3, RcvBufferAssumption DEF BufTypes, Positions
<1>9. ReadTo' = ReadTo
  BY <1>2, <1>7, <1>8 DEF ReadTo
<1>10. ASSUME NEW s \in Positions
       PROVE  \/ /\ Emptied <= Dist(st, s) /\ Dist(r, s) = Dist(st, s) - Emptied
                 /\ PacketOf(s)' = PacketOf(s)
              \/ /\ Dist(st, s) < Emptied /\ Dist(r, s) >= Acked - Emptied /\ Dist(r, s) >= 0
  <2>1. Dist(st, s) \in Nat /\ Dist(r, s) \in Nat
    BY <1>3, DistIs DEF Positions
  <2>2. CASE Emptied <= Dist(st, s)
    <3>1. Dist(r, s) = Dist(st, s) - Emptied
      BY <2>2, <1>3, <1>6, DistFrom
    <3>2. PacketOf(s)' = ackedTo - (Acked - Emptied) + Dist(r, s)
      BY <1>2, <1>4, <1>7 DEF PacketOf
    <3>3. PacketOf(s) = ackedTo - Acked + Dist(st, s)
      BY DEF PacketOf, st
    <3>4. PacketOf(s)' = PacketOf(s)
      BY <3>1, <3>2, <3>3, <2>1, <1>8
    <3> QED  BY <2>2, <3>1, <3>4
  <2>3. CASE Dist(st, s) < Emptied
    <3>1. Dist(r, s) = RcvSlotCount - Emptied + Dist(st, s)
      BY <2>3, <1>3, <1>6, DistBehind
    <3>2. Acked <= RcvSlotCount
      BY <1>3, <1>8 DEF Positions
    <3> QED  BY <2>1, <2>3, <3>1, <3>2, <1>8
  <2> QED  BY <2>1, <2>2, <2>3, <1>8
<1>11. ReaderPlace'
  BY <1>4, <1>9 DEF RcvBufInv, ReaderPlace
<1>12. BytesSoFar'
  BY <1>2, <1>4, <1>9 DEF RcvBufInv, BytesSoFar, BytesInOrder
<1>13. /\ \A s \in Positions : slots[s] # 0 =>
              /\ slots[s] \in 1 .. PoolSize(pool) /\ pool.flag[slots[s]] = 1 /\ packetIn[slots[s]] = PacketOf(s)
       /\ \A s, t \in Positions : slots[s] = slots[t] /\ slots[s] # 0 => s = t
       /\ \A s \in Positions : Emptied <= Dist(st, s) /\ Dist(st, s) < Acked => slots[s] # 0
       /\ \A s \in Positions : Dist(st, s) < Emptied => slots[s] = 0
  BY DEF RcvBufInv, SlotsHold, st
<1>14. \A s \in Positions : Dist(st, s) \in Nat /\ Dist(r, s) \in Nat
  BY <1>3, DistIs DEF Positions
<1>15. \A s \in Positions : 0 <= Dist(r, s) /\ Dist(r, s) < Acked - Emptied => slots[s] # 0
  <2> TAKE s \in Positions
  <2> HAVE 0 <= Dist(r, s) /\ Dist(r, s) < Acked - Emptied
  <2>1. Emptied <= Dist(st, s) /\ Dist(r, s) = Dist(st, s) - Emptied
    BY <1>8, <1>10, <1>14
  <2> QED  BY <2>1, <1>8, <1>13, <1>14
<1>16. \A s \in Positions : slots[s] # 0 => PacketOf(s)' = PacketOf(s)
  BY <1>10, <1>13
<1>17. \A s \in Positions : ~(Dist(r, s) < 0)
  BY <1>14
<1>18. SlotsHold'
  BY <1>2, <1>4, <1>7, <1>13, <1>15, <1>16, <1>17 DEF SlotsHold
<1> QED
  BY <1>1, <1>2, <1>5, <1>11, <1>12, <1>18 DEF RcvBufInv

\* The call keeps the bytes of a packet in order behind those that were read before.
InOrder(b) == \A i \in DOMAIN b : b[i] = <<(i - 1) \div PacketLen, ((i - 1) % PacketLen) + 1>>

LEMMA BytesAdded ==
    ASSUME NEW b \in Seq(Int \X Int), NEW a \in Seq(Int \X Int), NEW q \in Nat, NEW k \in 0 .. PacketLen - 1,
           k + Len(a) <= PacketLen, Len(b) = q * PacketLen + k, InOrder(b),
           \A i \in 1 .. Len(a) : a[i] = <<q, k + i>>
    PROVE  /\ b \o a \in Seq(Int \X Int) /\ Len(b \o a) = q * PacketLen + (k + Len(a))
           /\ InOrder(b \o a)
<1> DEFINE c == b \o a
           m == Len(a)
<1>1. PacketLen \in Nat \ {0} /\ q * PacketLen \in Nat
  BY RcvBufferAssumption
<1>2. a \in Seq(Int \X Int) /\ m = Len(a) /\ m \in Nat /\ \A i \in 1 .. m : a[i] = <<q, k + i>>
  OBVIOUS
<1>10. c = b \o a /\ k + m <= PacketLen
  OBVIOUS
<1> HIDE DEF c, m
<1>3. /\ c \in Seq(Int \X Int) /\ Len(c) = Len(b) + m
      /\ \A i \in 1 .. Len(b) + m : c[i] = IF i <= Len(b) THEN b[i] ELSE a[i - Len(b)]
  <2> DEFINE T == Int \X Int
  <2>1. a \in Seq(T) /\ b \in Seq(T)
    BY <1>2
  <2> HIDE DEF T
  <2>2. /\ b \o a \in Seq(T) /\ Len(b \o a) = Len(b) + Len(a)
        /\ \A i \in 1 .. Len(b) + Len(a) : (b \o a)[i] = IF i <= Len(b) THEN b[i] ELSE a[i - Len(b)]
    BY ONLY <2>1, ConcatProperties
  <2>3. Len(a) = m
    BY <1>2
  <2> QED  BY ONLY <2>2, <2>3, <1>10 DEF T
<1>4. DOMAIN c = 1 .. Len(b) + m /\ DOMAIN b = 1 .. Len(b) /\ Len(b) \in Nat
  BY <1>3, LenProperties
<1>11. \A i \in 1 .. Len(b) : b[i] = <<(i - 1) \div PacketLen, ((i - 1) % PacketLen) + 1>>
  BY <1>4 DEF InOrder
<1>5. ASSUME NEW i \in 1 .. Len(b) + m
      PROVE  c[i] = <<(i - 1) \div PacketLen, ((i - 1) % PacketLen) + 1>>
  <2>1. CASE i <= Len(b)
    <3>1. i \in 1 .. Len(b) /\ c[i] = b[i]
      BY <2>1, <1>3, <1>4
    <3> QED  BY <3>1, <1>11
  <2>2. CASE i > Len(b)
    <3> DEFINE j == i - Len(b)
               r == k + j - 1
    <3>1. j \in 1 .. m /\ c[i] = a[j]
      <4>1. j \in 1 .. m
        <5>1. m \in Nat /\ Len(b) \in Nat /\ i \in Int /\ 1 <= i /\ i <= Len(b) + m
          BY <1>2, <1>4
        <5> QED  BY ONLY <5>1, <2>2
      <4>2. ~(i <= Len(b))
        BY <2>2, <1>4
      <4> QED  BY <4>1, <4>2, <1>3
    <3>2. r \in 0 .. PacketLen - 1 /\ i - 1 = q * PacketLen + r /\ r + 1 = k + j
      BY <3>1, <1>1, <1>2, <1>4, <1>10
    <3> HIDE DEF j, r
    <3>3. (i - 1) \div PacketLen = q /\ (i - 1) % PacketLen = r
      <4>1. (q * PacketLen + r) \div PacketLen = q /\ (q * PacketLen + r) % PacketLen = r
        BY <3>2, <1>1, DivMod
      <4> QED  BY <4>1, <3>2
    <3> QED  BY <3>1, <3>2, <3>3, <1>2
  <2> QED  BY <2>1, <2>2, <1>4
<1>6. Len(c) = q * PacketLen + (k + m)
  BY <1>1, <1>2, <1>3
<1>7. InOrder(c)
  BY <1>4, <1>5 DEF InOrder
<1> QED
  BY <1>2, <1>3, <1>6, <1>7 DEF c

LEMMA CopyStep ==
    ASSUME RcvBufInv, CopyUnit
    PROVE  RcvBufInv'
<1>1. PoolWell(pool) /\ BufTypes
  BY DEF RcvBufInv
<1> DEFINE left == PacketLen - positions.notch
           n == Min({left, reader.rs})
           unit == slots[reader.p]
           k == positions.notch
<1>2. /\ reader.pc = "copy" /\ reader.p # reader.lastAck /\ reader.rs > 0
      /\ bytesRead' = bytesRead \o [i \in 1 .. n |-> <<packetIn[unit], k + i>>]
      /\ reader.rs >= left => /\ reader' = [reader EXCEPT !.pc = "free", !.rs = @ - n]
                              /\ UNCHANGED positions
      /\ ~(reader.rs >= left) => /\ positions' = [positions EXCEPT !.notch = @ + n]
                                 /\ reader' = [reader EXCEPT !.rs = 0]
      /\ UNCHANGED <<slots, pool, packetIn, unitWorker, ackedTo, refusals>>
  BY DEF CopyUnit
<1>3. reader \in [pc : {"copy", "free"}, p : Positions, lastAck : Positions, rs : Nat]
  BY <1>1, <1>2 DEF BufTypes, Idle
<1>4. positions \in [start : Positions, lastAck : Positions, max : Int, notch : 0 .. PacketLen - 1]
  BY <1>1, TypesAre
<1>5. k \in 0 .. PacketLen - 1 /\ reader.rs \in Nat /\ PacketLen \in Nat \ {0} /\ left \in Nat
  BY <1>3, <1>4, RcvBufferAssumption
<1>6. n \in Nat /\ n <= left /\ n <= reader.rs /\ n = IF reader.rs >= left THEN left ELSE reader.rs
  BY <1>5, MinOfTwo
<1> HIDE DEF n
<1>7. /\ positions' \in [start : Positions, lastAck : Positions, max : Int, notch : 0 .. PacketLen - 1]
      /\ positions'.start = positions.start /\ positions'.lastAck = positions.lastAck
      /\ reader' \in [pc : {"copy", "free"}, p : Positions, lastAck : Positions, rs : Nat]
      /\ reader'.p = reader.p /\ reader'.lastAck = reader.lastAck
      /\ k + n = IF reader'.pc = "free" THEN PacketLen ELSE positions'.notch
  <2>1. CASE reader.rs >= left
    <3>1. reader' = [reader EXCEPT !.pc = "free", !.rs = reader.rs - n] /\ reader.rs - n \in Nat
      BY <2>1, <1>2, <1>5, <1>6
    <3>2. /\ reader' \in [pc : {"copy", "free"}, p : Positions, lastAck : Positions, rs : Nat]
          /\ reader'.p = reader.p /\ reader'.lastAck = reader.lastAck /\ reader'.pc = "free"
      BY <3>1, <1>3
    <3>3. k + n = PacketLen
      BY <2>1, <1>5, <1>6
    <3> QED  BY <3>2, <3>3, <2>1, <1>2, <1>4
  <2>2. CASE ~(reader.rs >= left)
    <3>1. k + n \in 0 .. PacketLen - 1
      BY <2>2, <1>5, <1>6
    <3>2. positions' = [positions EXCEPT !.notch = k + n]
      BY <2>2, <1>2
    <3> HIDE DEF k
    <3>3. /\ positions' \in [start : Positions, lastAck : Positions, max : Int, notch : 0 .. PacketLen - 1]
          /\ positions'.start = positions.start /\ positions'.lastAck = positions.lastAck
          /\ positions'.notch = k + n
      BY <3>1, <3>2, <1>4, PlacesMoved
    <3>4. reader' = [reader EXCEPT !.rs = 0]
      BY <2>2, <1>2
    <3>5. /\ reader' \in [pc : {"copy", "free"}, p : Positions, lastAck : Positions, rs : Nat]
          /\ reader'.p = reader.p /\ reader'.lastAck = reader.lastAck /\ reader'.pc = "copy"
      BY <3>4, <1>2, <1>3
    <3> QED  BY <3>3, <3>5
  <2> QED  BY <2>1, <2>2
<1>8. /\ Emptied = Dist(positions.start, reader.p) /\ Emptied <= Dist(positions.start, reader.lastAck)
      /\ Dist(positions.start, reader.lastAck) <= Acked /\ ReadTo \in Nat
      /\ Len(bytesRead) = ReadTo * PacketLen + k /\ BytesInOrder
  BY <1>2 DEF RcvBufInv, ReaderPlace, BytesSoFar, Emptied
<1>9. Acked' = Acked /\ Emptied' = Emptied /\ ReadTo' = ReadTo /\ \A s \in Positions : PacketOf(s)' = PacketOf(s)
  <2>1. Acked' = Acked
    BY <1>7 DEF Acked
  <2>2. Emptied' = Emptied
    BY <1>2, <1>3, <1>7 DEF Emptied
  <2> QED  BY <2>1, <2>2, <1>2, <1>7 DEF ReadTo, PacketOf
<1>10. packetIn[unit] = ReadTo
  <2>1. Dist(positions.start, reader.p) # Dist(positions.start, reader.lastAck)
    BY <1>2, <1>3, <1>4, DistOne
  <2>2. Dist(positions.start, reader.p) \in Nat /\ Dist(positions.start, reader.lastAck) \in Nat /\ Acked \in Nat
    BY <1>1, <1>3, <1>4, DistNat, TypesAre
  <2>3. Emptied <= Dist(positions.start, reader.p) /\ Dist(positions.start, reader.p) < Acked
    BY <2>1, <2>2, <1>8
  <2>4. reader.p \in Positions
    BY <1>3
  <2>5. unit # 0
    BY <2>3, <2>4 DEF RcvBufInv, SlotsHold
  <2>6. packetIn[unit] = PacketOf(reader.p)
    BY <2>4, <2>5 DEF RcvBufInv, SlotsHold
  <2> QED  BY <2>6, <1>8 DEF PacketOf, ReadTo
<1>11. bytesRead' = bytesRead \o [i \in 1 .. n |-> <<ReadTo, k + i>>]
  BY <1>2, <1>10
<1>12. bytesRead \in Seq(Int \X Int) /\ k + n <= PacketLen
  BY <1>1, <1>5, <1>6, TypesAre
<1> HIDE DEF k, left, unit
<1>13. /\ bytesRead' \in Seq(Int \X Int) /\ Len(bytesRead') = ReadTo * PacketLen + (k + n)
       /\ InOrder(bytesRead')
  <2> DEFINE a == [i \in 1 .. n |-> <<ReadTo, k + i>>]
             b == bytesRead
             q == ReadTo
  <2>1. a \in Seq(Int \X Int) /\ Len(a) = n /\ \A i \in 1 .. n : a[i] = <<ReadTo, k + i>>
    <3>1. a \in Seq(Int \X Int)
      <4>1. \A i \in 1 .. n : <<ReadTo, k + i>> \in Int \X Int
        BY <1>5, <1>8
      <4> QED  BY <4>1, <1>6, IsASeq
    <3>2. DOMAIN a = 1 .. n /\ \A i \in 1 .. n : a[i] = <<ReadTo, k + i>>
      OBVIOUS
    <3> HIDE DEF a
    <3> QED  BY <3>1, <3>2, <1>6, LenProperties
  <2>2. bytesRead' = b \o a
    BY <1>11
  <2> HIDE DEF a
  <2>3. /\ b \in Seq(Int \X Int) /\ q \in Nat /\ k \in 0 .. PacketLen - 1
        /\ k + Len(a) <= PacketLen /\ Len(b) = q * PacketLen + k
        /\ InOrder(b) /\ \A i \in 1 .. Len(a) : a[i] = <<q, k + i>>
    BY <2>1, <1>5, <1>6, <1>8, <1>12 DEF BytesInOrder, InOrder
  <2> HIDE DEF b, q
  <2>4. b \o a \in Seq(Int \X Int) /\ Len(b \o a) = q * PacketLen + (k + Len(a)) /\ InOrder(b \o a)
    BY ONLY <2>1, <2>3, BytesAdded
  <2> QED  BY <2>1, <2>2, <2>4 DEF q
<1>14. BufTypes'
  BY <1>1, <1>2, <1>7, <1>13 DEF BufTypes
<1>15. BytesSoFar'
  BY <1>7, <1>9, <1>13 DEF BytesSoFar, BytesInOrder, InOrder
<1>16. ReaderPlace'
  BY <1>2, <1>7, <1>8, <1>9 DEF ReaderPlace
<1>17. SlotsHold'
  BY <1>2, <1>7, <1>9 DEF RcvBufInv, SlotsHold
<1> QED
  BY <1>1, <1>2, <1>14, <1>15, <1>16, <1>17 DEF RcvBufInv

\* The slot of the unit that is being freed has not been emptied before.
LEMMA FreedIsUnit ==
    ASSUME RcvBufInv, FreeUnit
    PROVE  slots[reader.p] \in 1 .. PoolSize(pool)
<1>1. BufTypes /\ reader.pc = "free"
  BY DEF RcvBufInv, FreeUnit
<1>2. reader.p \in Positions /\ reader.lastAck \in Positions /\ positions.start \in Positions
  BY <1>1, SizesAre
<1> DEFINE d == Dist(positions.start, reader.p)
           e == Dist(positions.start, reader.lastAck)
<1>3. d # e
  BY <1>2, <1>1, DistOne DEF RcvBufInv, ReaderPlace
<1>4. d \in Nat /\ e \in Nat /\ Acked \in Nat
  BY <1>1, <1>2, DistNat, TypesAre
<1>5. Emptied = d /\ d <= e /\ e <= Acked
  BY <1>1 DEF RcvBufInv, ReaderPlace, Emptied
<1>6. Emptied <= d /\ d < Acked
  BY <1>3, <1>4, <1>5
<1>7. slots[reader.p] # 0
  BY <1>2, <1>6 DEF RcvBufInv, SlotsHold
<1> QED
  BY <1>2, <1>7 DEF RcvBufInv, SlotsHold

\* The slot that has been read is emptied: the next one is read from its first byte.
LEMMA FreeStep ==
    ASSUME RcvBufInv, FreeUnit
    PROVE  RcvBufInv'
<1> DEFINE unit == slots[reader.p]
           st == positions.start
           nx == (reader.p + 1) % RcvSlotCount
<1>1. PoolWell(pool) /\ BufTypes
  BY DEF RcvBufInv
<1>2. /\ reader.pc = "free" /\ slots' = [slots EXCEPT ![reader.p] = 0]
      /\ pool' = [pool EXCEPT !.flag[unit] = 0]
      /\ reader' = [pc |-> "uncount", p |-> nx, lastAck |-> reader.lastAck, rs |-> reader.rs, tmp |-> pool.count]
      /\ positions' = [positions EXCEPT !.notch = 0]
      /\ packetIn' = [packetIn EXCEPT ![unit] = -1]
      /\ UNCHANGED <<unitWorker, ackedTo, bytesRead, refusals>>
  BY DEF FreeUnit
<1>3. reader \in [pc : {"copy", "free"}, p : Positions, lastAck : Positions, rs : Nat]
  BY <1>1, <1>2 DEF BufTypes, Idle
<1>4. /\ positions \in [start : Positions, lastAck : Positions, max : Int, notch : 0 .. PacketLen - 1]
      /\ slots \in [Positions -> Nat] /\ packetIn \in [1 .. PoolSize(pool) -> Int]
      /\ Acked \in Nat /\ Emptied \in Nat /\ Acked < RcvSlotCount /\ RcvSlotCount \in Nat /\ ackedTo \in Nat
  BY <1>1, TypesAre
<1>5. /\ Emptied = Dist(st, reader.p) /\ Emptied <= Dist(st, reader.lastAck)
      /\ Dist(st, reader.lastAck) <= Acked /\ ReadTo \in Nat /\ reader.p # reader.lastAck
      /\ Len(bytesRead) = ReadTo * PacketLen + PacketLen /\ BytesInOrder
  BY <1>2 DEF RcvBufInv, ReaderPlace, BytesSoFar, Emptied
<1>6. reader.p \in Positions /\ reader.lastAck \in Positions /\ st \in Positions /\ 0 \in 0 .. PacketLen - 1
  BY <1>3, <1>4, RcvBufferAssumption
<1>7. Emptied + 1 <= Dist(st, reader.lastAck) /\ Emptied < Acked /\ Dist(st, reader.lastAck) \in Nat
  <2>1. Dist(st, reader.p) # Dist(st, reader.lastAck)
    BY <1>5, <1>6, DistOne
  <2>2. Dist(st, reader.lastAck) \in Nat
    BY <1>6, DistNat
  <2> QED  BY <2>1, <2>2, <1>4, <1>5
<1>8. nx \in Positions /\ Dist(st, nx) = Emptied + 1
  <2>1. Dist(st, reader.p) + 1 < RcvSlotCount /\ 1 \in Nat
    BY <1>4, <1>5, <1>7
  <2> QED  BY <2>1, <1>5, <1>6, DistMoved
<1>9. unit \in 1 .. PoolSize(pool)
  BY FreedIsUnit
<1> HIDE DEF unit, nx
<1>10. /\ positions' \in [start : Positions, lastAck : Positions, max : Int, notch : 0 .. PacketLen - 1]
       /\ positions'.start = st /\ positions'.lastAck = positions.lastAck /\ positions'.notch = 0
  BY <1>2, <1>4, <1>6, PlacesMoved
<1> HIDE DEF st
<1>11. /\ PoolWell(pool') /\ PoolSize(pool') = PoolSize(pool)
       /\ \A w \in 1 .. PoolSize(pool) : w # unit => pool'.flag[w] = pool.flag[w]
  <2>1. pool' = [pool EXCEPT !.flag[unit] = 0]
    BY <1>2
  <2>2. unit \in 1 .. PoolSize(pool) /\ 0 \in {0, 1} /\ PoolWell(pool)
    BY <1>1, <1>9
  <2>3. PoolWell(pool') /\ PoolSize(pool') = PoolSize(pool)
    BY ONLY <2>1, <2>2, FlagSet
  <2>4. ASSUME NEW w \in 1 .. PoolSize(pool), w # unit PROVE pool'.flag[w] = pool.flag[w]
    BY ONLY <2>1, <2>2, <2>4, FlagSet
  <2> QED  BY <2>3, <2>4
<1>12. /\ reader'.pc = "uncount" /\ reader'.p = nx /\ reader'.lastAck = reader.lastAck
       /\ reader' \in [pc : {"uncount"}, p : Positions, lastAck : Positions, rs : Nat, tmp : Int]
  <2>1. pool.count \in Int
    BY <1>1 DEF PoolWell
  <2> QED  BY <2>1, <1>2, <1>3, <1>8
<1>13. /\ packetIn' \in [1 .. PoolSize(pool) -> Int]
       /\ \A w \in 1 .. PoolSize(pool) : w # unit => packetIn'[w] = packetIn[w]
  <2>1. packetIn' = [packetIn EXCEPT ![unit] = -1]
    BY <1>2
  <2>2. packetIn \in [1 .. PoolSize(pool) -> Int]
    BY <1>4
  <2> HIDE DEF PoolSize
  <2> QED  BY <2>1, <2>2, <1>9
<1>14. /\ slots' \in [Positions -> Nat] /\ slots'[reader.p] = 0
       /\ \A s \in Positions : s # reader.p => slots'[s] = slots[s]
  BY <1>2, <1>4, <1>6
<1>15. BufTypes'
  BY <1>1, <1>2, <1>10, <1>11, <1>12, <1>13, <1>14 DEF BufTypes
<1>16. Acked' = Acked /\ Emptied' = Emptied + 1
  <2>1. Acked' = Acked
    BY <1>10 DEF Acked, st
  <2>2. Emptied' = Dist(positions'.start, reader'.p)
    BY <1>12 DEF Emptied
  <2> QED  BY <2>1, <2>2, <1>8, <1>10, <1>12
<1>17. ReadTo' = ReadTo + 1 /\ \A s \in Positions : PacketOf(s)' = PacketOf(s)
  <2>1. ReadTo' = ReadTo + 1
    BY <1>2, <1>4, <1>16 DEF ReadTo
  <2>2. \A s \in Positions : PacketOf(s)' = PacketOf(s)
    BY <1>2, <1>10, <1>16 DEF PacketOf, st
  <2> QED  BY <2>1, <2>2
<1>18. ReaderPlace'
  <2>1. ReadTo' \in Nat
    BY <1>5, <1>17
  <2>2. Emptied' <= Dist(positions'.start, reader'.lastAck) /\ Dist(positions'.start, reader'.lastAck) <= Acked'
    BY <1>5, <1>7, <1>10, <1>12, <1>16
  <2> QED  BY <2>1, <2>2, <1>12 DEF ReaderPlace
<1>19. BytesSoFar'
  <2>1. PacketLen \in Nat
    BY RcvBufferAssumption
  <2>2. (ReadTo + 1) * PacketLen + 0 = ReadTo * PacketLen + PacketLen
    BY <2>1, <1>5
  <2>3. Len(bytesRead') = ReadTo' * PacketLen + 0
    BY <2>2, <1>2, <1>5, <1>17
  <2>4. BytesInOrder'
    BY <1>2, <1>5 DEF BytesInOrder
  <2> QED  BY <2>3, <2>4, <1>10, <1>12 DEF BytesSoFar
<1>20. /\ \A s \in Positions : slots[s] # 0 =>
              /\ slots[s] \in 1 .. PoolSize(pool) /\ pool.flag[slots[s]] = 1 /\ packetIn[slots[s]] = PacketOf(s)
       /\ \A s, t \in Positions : slots[s] = slots[t] /\ slots[s] # 0 => s = t
       /\ \A s \in Positions : Emptied <= Dist(st, s) /\ Dist(st, s) < Acked => slots[s] # 0
       /\ \A s \in Positions : Dist(st, s) < Emptied => slots[s] = 0
  BY DEF RcvBufInv, SlotsHold, st
<1>21. \A s \in Positions : slots'[s] # 0 =>
           /\ slots'[s] \in 1 .. PoolSize(pool') /\ pool'.flag[slots'[s]] = 1
           /\ packetIn'[slots'[s]] = PacketOf(s)'
  <2> TAKE s \in Positions
  <2> HAVE slots'[s] # 0
  <2>1. s # reader.p /\ slots'[s] = slots[s]
    BY <1>14
  <2>2. slots[s] # unit
    BY <2>1, <1>6, <1>20 DEF unit
  <2> QED  BY <2>1, <2>2, <1>11, <1>13, <1>17, <1>20
<1>22. \A s, t \in Positions : slots'[s] = slots'[t] /\ slots'[s] # 0 => s = t
  BY <1>6, <1>14, <1>20
<1>23. \A s \in Positions : Dist(st, s) \in Nat
  BY <1>6, DistNat
<1>24. \A s \in Positions : Emptied + 1 <= Dist(st, s) /\ Dist(st, s) < Acked => slots'[s] # 0
  <2> TAKE s \in Positions
  <2> HAVE Emptied + 1 <= Dist(st, s) /\ Dist(st, s) < Acked
  <2>1. s # reader.p /\ Emptied <= Dist(st, s)
    BY <1>4, <1>5, <1>23
  <2> QED  BY <2>1, <1>14, <1>20
<1>25. \A s \in Positions : Dist(st, s) < Emptied + 1 => slots'[s] = 0
  <2> TAKE s \in Positions
  <2> HAVE Dist(st, s) < Emptied + 1
  <2>1. CASE s = reader.p
    BY <2>1, <1>14
  <2>2. CASE s # reader.p
    <3>1. Dist(st, s) # Emptied
      BY <2>2, <1>5, <1>6, DistOne
    <3>2. Dist(st, s) < Emptied
      BY <3>1, <1>4, <1>23
    <3> QED  BY <2>2, <3>2, <1>14, <1>20
  <2> QED  BY <2>1, <2>2
<1>26. SlotsHold'
  BY <1>10, <1>16, <1>21, <1>22, <1>24, <1>25 DEF SlotsHold
<1> QED
  BY <1>11, <1>15, <1>18, <1>19, <1>26 DEF RcvBufInv

LEMMA RcvBufStep ==
    ASSUME RcvBufInv, [RcvBufNext]_rcvBufferVars
    PROVE  RcvBufInv'
<1>1. ASSUME NEW n \in 0 .. MaxRcvPackets - 1, ReceivePacket(n) PROVE RcvBufInv'
  <2>1. n \in Nat
    BY RcvBufferAssumption
  <2> QED  BY <1>1, <2>1, ReceiveStep
<1>2. CASE CountUnit \/ UncountUnit
  BY <1>2, CountStep
<1>3. ASSUME NEW n \in 1 .. RcvSlotCount, AckData(n) PROVE RcvBufInv'
  BY <1>3, AckStep
<1>4. ASSUME NEW len \in 1 .. MaxReadLen, StartRead(len) PROVE RcvBufInv'
  <2>1. len \in Nat
    BY RcvBufferAssumption
  <2> QED  BY <1>4, <2>1, StartReadStep
<1>5. CASE CopyUnit
  BY <1>5, CopyStep
<1>6. CASE FreeUnit
  BY <1>6, FreeStep
<1>7. CASE EndRead
  BY <1>7, EndReadStep
<1>8. CASE UNCHANGED rcvBufferVars
  BY <1>8 DEF rcvBufferVars, RcvBufInv, PoolWell, PoolSize, BufTypes, Acked, Emptied, ReadTo, ReaderPlace,
              PacketOf, SlotsHold, BytesSoFar, BytesInOrder
<1> QED
  BY <1>1, <1>2, <1>3, <1>4, <1>5, <1>6, <1>7, <1>8 DEF RcvBufNext

\* The application reads the stream's bytes in order, each once, from a buffer and a pool
\* of any size and whatever the pool's count of busy units has become (BytesInOrder):
\* CRcvBuffer::readBuffer frees a unit and empties its slot only when its bytes have been
\* copied, getNextAvailUnit gives no busy unit, and addData fills no slot that is taken.
THEOREM StreamIsReadInOrder == RcvBufSpec => []BytesInOrder
<1>1. RcvBufInit => RcvBufInv
  BY InitRcvBuf
<1>2. RcvBufInv /\ [RcvBufNext]_rcvBufferVars => RcvBufInv'
  BY RcvBufStep
<1>3. RcvBufInv => BytesInOrder
  BY DEF RcvBufInv, BytesSoFar
<1> QED
  BY <1>1, <1>2, <1>3, PTL DEF RcvBufSpec

-----------------------------------------------------------------------------
(* A refused search                                                        *)

Once == refusals = 0 \/ (refusals = 1 /\ Roomy(pool))

\* What changes no place of the pool keeps it roomy, and so does freeing a unit.
LEMMA StaysRoomy ==
    ASSUME NEW P, PoolWell(P), Roomy(P), NEW Q, Q.avail = P.avail, Q.currQueue = P.currQueue,
           PoolSize(Q) = PoolSize(P), \A u \in 1 .. PoolSize(P) : P.flag[u] = 0 => Q.flag[u] = 0
    PROVE  Roomy(Q)
<1>1. Queues(Q) = Queues(P)
  BY DEF Queues
<1>2. PICK q \in 1 .. Queues(P) : \E v \in Searched(q) : P.flag[v] = 0
  BY DEF Roomy
<1>3. PICK v \in Searched(q) : P.flag[v] = 0
  BY <1>2
<1>4. v \in 1 .. PoolSize(P)
  <2>1. /\ FirstUnit(q) \in 1 .. PoolSize(P) /\ FirstUnit(q) + PoolUnit - 1 \in 1 .. PoolSize(P)
        /\ PoolSize(P) \in Nat /\ PoolUnit \in Nat
    BY QueueInPool, PoolSizes, RcvBufferAssumption
  <2> QED  BY <2>1 DEF Searched
<1>5. Q.flag[v] = 0
  BY <1>3, <1>4
<1> QED
  BY <1>1, <1>5 DEF Roomy

LEMMA OnceStep ==
    ASSUME RcvBufInv, Once, [RcvBufNext]_rcvBufferVars
    PROVE  Once'
<1>1. PoolWell(pool) /\ BufTypes
  BY DEF RcvBufInv
<1>2. ASSUME NEW n \in 0 .. MaxRcvPackets - 1, ReceivePacket(n) PROVE Once'
  <2> DEFINE got == GetNextAvailUnit(pool)
  <2>1. refusals' = (IF got.unit = 0 THEN refusals + 1 ELSE 0) /\ (got.unit = 0 => pool' = got.pool)
    BY <1>2 DEF ReceivePacket
  <2>2. CASE got.unit = 0
    <3>1. ~Roomy(pool)
      BY <2>2, <1>1, RoomyIsNotRefused
    <3>2. Roomy(got.pool)
      BY <2>2, <1>1, RefusedIsRoomy
    <3> HIDE DEF got
    <3> QED  BY <2>1, <2>2, <3>1, <3>2 DEF Once
  <2>3. CASE got.unit # 0
    <3> HIDE DEF got
    <3> QED  BY <2>1, <2>3 DEF Once
  <2> QED  BY <2>2, <2>3
<1>3. CASE CountUnit \/ UncountUnit
  <2>1. PICK x \in Int : pool' = [pool EXCEPT !.count = x]
    BY <1>3, CountsOnly
  <2>2. /\ PoolSize(pool') = PoolSize(pool) /\ pool'.flag = pool.flag
        /\ pool'.avail = pool.avail /\ pool'.currQueue = pool.currQueue
    BY <2>1, <1>1, CountSet
  <2>3. Roomy(pool) => Roomy(pool')
    BY <2>2, <1>1, StaysRoomy
  <2> QED  BY <1>3, <2>3 DEF Once, CountUnit, UncountUnit
<1>4. CASE FreeUnit
  <2> DEFINE unit == slots[reader.p]
  <2>1. pool' = [pool EXCEPT !.flag[unit] = 0] /\ refusals' = refusals
    BY <1>4 DEF FreeUnit
  <2>2. unit \in 1 .. PoolSize(pool)
    BY <1>4, FreedIsUnit
  <2> HIDE DEF unit
  <2>3. /\ PoolSize(pool') = PoolSize(pool)
        /\ pool'.avail = pool.avail /\ pool'.currQueue = pool.currQueue
    BY ONLY <2>1, <2>2, <1>1, FlagSet
  <2>4. \A w \in 1 .. PoolSize(pool) : pool.flag[w] = 0 => pool'.flag[w] = 0
    <3> TAKE w \in 1 .. PoolSize(pool)
    <3>1. [pool EXCEPT !.flag[unit] = 0].flag[w] = IF w = unit THEN 0 ELSE pool.flag[w]
      BY ONLY <2>2, <1>1, FlagSet
    <3> QED  BY <2>1, <3>1
  <2>5. Roomy(pool) => Roomy(pool')
    BY <2>3, <2>4, <1>1, StaysRoomy
  <2> QED  BY <2>1, <2>5 DEF Once
<1>5. CASE UNCHANGED <<pool, refusals>>
  BY <1>5 DEF Once, Roomy, Queues, PoolSize
<1>6. ASSUME NEW n, AckData(n) \/ StartRead(n) PROVE UNCHANGED <<pool, refusals>>
  BY <1>6 DEF AckData, StartRead
<1>7. CASE CopyUnit \/ EndRead \/ UNCHANGED rcvBufferVars
  <2>1. UNCHANGED <<pool, refusals>>
    BY <1>7 DEF CopyUnit, EndRead, rcvBufferVars
  <2> QED  BY <2>1, <1>5
<1> QED
  BY <1>2, <1>3, <1>4, <1>5, <1>6, <1>7 DEF RcvBufNext

\* No two searches of the pool in a row find no unit (RefusedOnce), however the worker's
\* and the application's updates of m_iCount were lost: getNextAvailUnit counts the busy
\* units again before it gives up, and grows the pool unless one is left to find.
THEOREM RefusedAtMostOnce == RcvBufSpec => []RefusedOnce
<1>1. RcvBufInit => RcvBufInv /\ Once
  BY InitRcvBuf DEF RcvBufInit, Once
<1>2. RcvBufInv /\ Once /\ [RcvBufNext]_rcvBufferVars => (RcvBufInv /\ Once)'
  BY RcvBufStep, OnceStep
<1>3. RcvBufInv /\ Once => RefusedOnce
  BY DEF Once, RefusedOnce
<1> QED
  BY <1>1, <1>2, <1>3, PTL DEF RcvBufSpec
=============================================================================
