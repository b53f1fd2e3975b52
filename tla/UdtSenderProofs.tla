-------------------------- MODULE UdtSenderProofs --------------------------
(***************************************************************************)
(* Proofs, for structures of every size and any number of sockets, of what *)
(* the sending worker relies on.  CSndBuffer (UdtSndBuffer): its ring of   *)
(* blocks is the sequence of packets not yet acknowledged, and a sender    *)
(* that waits for room waits for an ACK that can come.  CSndUList and      *)
(* CSndQueue (UdtSndQueue): no signal is lost, no socket with something to *)
(* send is left off the heap, and those on it know their places.           *)
(* The heap is in order of times as long as it holds at most five.         *)
(*                                                                         *)
(* The links of the ring are shown to lead in a circle through all blocks, *)
(* and what the buffer holds to be the circle's first places from the      *)
(* first block on: a unit is spliced in behind them, an ACK turns the      *)
(* circle, and as the count stays below the size no walk comes round.  A   *)
(* loop over the heap is a sequence of exchanges, each of which leaves the *)
(* sockets on the heap as they are and tells both of their new places.     *)
(* In the order of times a sift has one place where the order may fail:    *)
(* above the socket that rises, below the one that sinks.                  *)
(***************************************************************************)
EXTENDS UdtSndBuffer, UdtSndQueue, SequenceTheorems, FiniteSetTheorems,
        WellFoundedInduction, TLAPS

SndBufSpec == SndBufInit /\ [][SndBufNext]_sndBufVars

-----------------------------------------------------------------------------
(* Induction, on a set of numbers.                                         *)

LEMMA AllNumbers ==
    ASSUME NEW S, 0 \in S, \A k \in Nat : k \in S => k + 1 \in S
    PROVE  \A k \in Nat : k \in S
<1> SUFFICES ASSUME Nat \ S # {} PROVE FALSE
  OBVIOUS
<1>1. PICK m \in Nat \ S : \A x \in Nat \ S : ~(<<x, m>> \in OpToRel(<, Nat))
  <2>1. Nat \ S \subseteq Nat
    OBVIOUS
  <2> QED  BY <2>1, NatLessThanWellFounded, WFMin
<1>2. m \in Nat /\ m \notin S
  BY <1>1
<1>3. m # 0
  BY <1>2
<1>4. m - 1 \in Nat /\ (m - 1) + 1 = m /\ m - 1 < m
  BY ONLY <1>2, <1>3
<1>5. <<m - 1, m>> \in OpToRel(<, Nat)
  BY ONLY <1>2, <1>4 DEF OpToRel
<1>6. m - 1 \in S
  BY <1>1, <1>4, <1>5
<1>7. (m - 1) + 1 \in S
  BY <1>4, <1>6
<1> QED
  BY ONLY <1>7, <1>4, <1>2

-----------------------------------------------------------------------------
(* The sender's ring                                                       *)

\* The links lead through all m blocks, which are q from its first place to its last.
Circle(next, m, q) ==
    /\ q \in [0 .. m - 1 -> 1 .. m]
    /\ \A i, j \in 0 .. m - 1 : q[i] = q[j] => i = j
    /\ \A i \in 0 .. m - 1 : i < m - 1 => next[q[i]] = q[i + 1]
    /\ next[q[m - 1]] = q[0]

RingTypes(r) ==
    /\ r = [data |-> r.data, next |-> r.next, first |-> r.first, curr |-> r.curr, last |-> r.last,
            size |-> r.size, count |-> r.count]
    /\ r.size \in Nat \ {0} /\ r.count \in Int
    /\ r.data \in [1 .. r.size -> Nat] /\ r.next \in [1 .. r.size -> 1 .. r.size]
    /\ r.first \in 1 .. r.size /\ r.curr \in 1 .. r.size /\ r.last \in 1 .. r.size

RingOf(r, q) == Circle(r.next, r.size, q)

LEMMA WalkIs ==
    ASSUME NEW r, RingTypes(r), NEW q, RingOf(r, q), NEW k \in Nat, NEW n \in Nat, k + n < r.size
    PROVE  BlockAfter(r, q[k], n) = q[k + n]
<1> DEFINE W(g, i) == IF i = 0 THEN q[k] ELSE r.next[g[i - 1]]
           f == [i \in 0 .. n |-> q[k + i]]
           walk == CHOOSE g : g = [i \in 0 .. n |-> W(g, i)]
<1>1. r.size \in Nat
  BY DEF RingTypes
<1>2. \A i \in 0 .. n : f[i] = W(f, i)
  <2> TAKE i \in 0 .. n
  <2>1. CASE i = 0
    BY <2>1
  <2>2. CASE i # 0
    <3>1. i - 1 \in 0 .. n /\ k + (i - 1) \in 0 .. r.size - 1 /\ k + (i - 1) < r.size - 1 /\ (k + (i - 1)) + 1 = k + i
      BY <2>2, <1>1
    <3>2. r.next[q[k + (i - 1)]] = q[k + i]
      BY <3>1 DEF RingOf, Circle
    <3> QED  BY <2>2, <3>1, <3>2
  <2> QED  BY <2>1, <2>2
<1>3. f = [i \in 0 .. n |-> W(f, i)]
  BY <1>2
<1>4. walk = [i \in 0 .. n |-> W(walk, i)]
  <2> HIDE DEF f
  <2> QED  BY <1>3
<1>5. BlockAfter(r, q[k], n) = walk[n]
  BY DEF BlockAfter
<1> HIDE DEF walk
<1>6. \A i \in 0 .. n : walk[i] = W(walk, i)
  BY <1>4
<1> DEFINE S == {i \in Nat : i <= n => walk[i] = q[k + i]}
<1>7. 0 \in S
  BY <1>6
<1>8. ASSUME NEW i \in Nat, i \in S PROVE i + 1 \in S
  <2> SUFFICES ASSUME i + 1 <= n PROVE walk[i + 1] = q[k + (i + 1)]
    OBVIOUS
  <2>1. i + 1 \in 0 .. n /\ i + 1 # 0 /\ (i + 1) - 1 = i /\ k + i \in 0 .. r.size - 1 /\ k + i < r.size - 1
        /\ (k + i) + 1 = k + (i + 1) /\ i <= n
    BY <1>1
  <2>2. walk[i + 1] = r.next[walk[i]]
    BY <2>1, <1>6
  <2>3. walk[i] = q[k + i]
    BY <1>8, <2>1
  <2>4. r.next[q[k + i]] = q[(k + i) + 1]
    BY <2>1 DEF RingOf, Circle
  <2> QED  BY <2>1, <2>2, <2>3, <2>4
<1>9. \A i \in Nat : i \in S
  <2> HIDE DEF S
  <2>1. \A i \in Nat : i \in S => i + 1 \in S
    BY <1>8
  <2> QED  BY ONLY <1>7, <2>1, AllNumbers
<1>10. walk[n] = q[k + n]
  BY <1>9
<1> QED
  BY <1>5, <1>10

-----------------------------------------------------------------------------
(* Growth                                                                  *)

\* p and nx are the places and links of a circle of m blocks with u new ones spliced in
\* behind place k.
Splices(next, m, q, k, u, nx, p) ==
    /\ m \in Nat \ {0} /\ u \in Nat \ {0} /\ k \in 0 .. m - 1 /\ Circle(next, m, q)
    /\ p \in [0 .. m + u - 1 -> 1 .. m + u]
    /\ \A i \in 0 .. k : p[i] = q[i]
    /\ \A i \in k + 1 .. k + u : p[i] = m + (i - k)
    /\ \A i \in k + u + 1 .. m + u - 1 : p[i] = q[i - u]
    /\ nx[q[k]] = m + 1 /\ nx[m + u] = next[q[k]]
    /\ \A b \in m + 1 .. m + u - 1 : nx[b] = b + 1
    /\ \A b \in 1 .. m : b # q[k] => nx[b] = next[b]

LEMMA SplicedIsCircle ==
    ASSUME NEW m, NEW u, NEW next, NEW q, NEW k, NEW p, NEW nx, Splices(next, m, q, k, u, nx, p)
    PROVE  Circle(nx, m + u, p)
<1> m \in Nat \ {0} /\ u \in Nat \ {0} /\ k \in 0 .. m - 1 /\ p \in [0 .. m + u - 1 -> 1 .. m + u]
  BY DEF Splices
<1> \A i \in 0 .. k : p[i] = q[i]
  BY DEF Splices
<1> \A i \in k + 1 .. k + u : p[i] = m + (i - k)
  BY DEF Splices
<1> \A i \in k + u + 1 .. m + u - 1 : p[i] = q[i - u]
  BY DEF Splices
<1> nx[q[k]] = m + 1 /\ nx[m + u] = next[q[k]]
  BY DEF Splices
<1> \A b \in m + 1 .. m + u - 1 : nx[b] = b + 1
  BY DEF Splices
<1> \A b \in 1 .. m : b # q[k] => nx[b] = next[b]
  BY DEF Splices
<1>1. /\ q \in [0 .. m - 1 -> 1 .. m] /\ \A i, j \in 0 .. m - 1 : q[i] = q[j] => i = j
      /\ \A i \in 0 .. m - 1 : i < m - 1 => next[q[i]] = q[i + 1]
      /\ next[q[m - 1]] = q[0]
  BY DEF Circle, Splices
<1>2. ASSUME NEW i \in 0 .. k PROVE i \in 0 .. m - 1 /\ p[i] = q[i] /\ p[i] \in 1 .. m
  <2>1. i \in 0 .. m - 1
    OBVIOUS
  <2> QED  BY <2>1, <1>1
<1>3. ASSUME NEW i \in k + 1 .. k + u PROVE p[i] = m + (i - k) /\ p[i] \in m + 1 .. m + u
  <2>1. p[i] = m + (i - k)
    OBVIOUS
  <2>2. m + (i - k) \in m + 1 .. m + u
    BY ONLY m \in Nat, u \in Nat, k \in 0 .. m - 1, i \in k + 1 .. k + u
  <2> QED  BY <2>1, <2>2
<1>4. ASSUME NEW i \in k + u + 1 .. m + u - 1
      PROVE  i - u \in 0 .. m - 1 /\ i - u > k /\ p[i] = q[i - u] /\ p[i] \in 1 .. m
  <2>1. i - u \in 0 .. m - 1 /\ i - u > k
    BY ONLY m \in Nat, u \in Nat, k \in 0 .. m - 1, i \in k + u + 1 .. m + u - 1
  <2>2. p[i] = q[i - u]
    OBVIOUS
  <2> QED  BY <2>1, <2>2, <1>1
<1>5. \A i \in 0 .. m + u - 1 : i \in 0 .. k \/ i \in k + 1 .. k + u \/ i \in k + u + 1 .. m + u - 1
  OBVIOUS
<1>6. ASSUME NEW i \in 0 .. m + u - 1, NEW j \in 0 .. m + u - 1, p[i] = p[j], i \in 0 .. k PROVE i = j
  <2>1. CASE j \in 0 .. k
    BY <2>1, <1>1, <1>2, <1>6
  <2>2. CASE j \in k + 1 .. k + u
    BY <2>2, <1>2, <1>3, <1>6
  <2>3. CASE j \in k + u + 1 .. m + u - 1
    <3>1. i = j - u
      BY <2>3, <1>1, <1>2, <1>4, <1>6
    <3> QED  BY <3>1, <2>3, <1>4, <1>6
  <2> QED  BY <2>1, <2>2, <2>3, <1>5
<1>7. ASSUME NEW i \in 0 .. m + u - 1, NEW j \in 0 .. m + u - 1, p[i] = p[j], i \in k + 1 .. k + u, j \notin 0 .. k PROVE i = j
  <2>1. CASE j \in k + 1 .. k + u
    <3>1. m + (i - k) = m + (j - k)
      BY <2>1, <1>3, <1>7
    <3> QED  BY ONLY <3>1, i \in 0 .. m + u - 1, j \in 0 .. m + u - 1, m \in Nat, k \in 0 .. m - 1, u \in Nat
  <2>2. CASE j \in k + u + 1 .. m + u - 1
    BY <2>2, <1>3, <1>4, <1>7
  <2> QED  BY <2>1, <2>2, <1>5, <1>7
<1>8. ASSUME NEW i \in k + u + 1 .. m + u - 1, NEW j \in k + u + 1 .. m + u - 1, p[i] = p[j] PROVE i = j
  <2>1. i - u = j - u
    <3>1. i - u \in 0 .. m - 1 /\ p[i] = q[i - u]
      BY <1>4
    <3>2. j - u \in 0 .. m - 1 /\ p[j] = q[j - u]
      BY <1>4
    <3>3. q[i - u] = q[j - u]
      BY ONLY <3>1, <3>2, <1>8
    <3>4. \A a, b \in 0 .. m - 1 : q[a] = q[b] => a = b
      BY <1>1
    <3> QED  BY ONLY <3>1, <3>2, <3>3, <3>4
  <2> QED  BY ONLY <2>1, i \in k + u + 1 .. m + u - 1, j \in k + u + 1 .. m + u - 1, m \in Nat, k \in 0 .. m - 1, u \in Nat
<1>9. ASSUME NEW i \in 0 .. m + u - 1, NEW j \in 0 .. m + u - 1, p[i] = p[j] PROVE i = j
  BY <1>5, <1>6, <1>7, <1>8, <1>9
<1>10. ASSUME NEW i \in 0 .. m + u - 1, i < m + u - 1 PROVE nx[p[i]] = p[i + 1]
  <2>1. CASE i < k
    <3>1. i \in 0 .. k /\ i + 1 \in 0 .. k /\ i < m - 1 /\ i # k /\ k \in 0 .. m - 1
      BY ONLY <2>1, i \in 0 .. m + u - 1, m \in Nat, k \in 0 .. m - 1
    <3>2. p[i] = q[i] /\ i \in 0 .. m - 1 /\ p[i + 1] = q[i + 1] /\ q[i] \in 1 .. m
      BY <3>1, <1>2
    <3>3. q[i] # q[k]
      BY <3>1, <3>2, <1>1
    <3> QED  BY <3>1, <3>2, <3>3, <1>1
  <2>2. CASE i = k
    <3>1. i \in 0 .. k /\ i + 1 \in k + 1 .. k + u /\ m + ((i + 1) - k) = m + 1
      BY ONLY <2>2, i \in 0 .. m + u - 1, m \in Nat, k \in 0 .. m - 1, u \in Nat \ {0}
    <3> QED  BY <3>1, <2>2, <1>2, <1>3
  <2>3. CASE i > k /\ i < k + u
    <3>1. i \in k + 1 .. k + u /\ i + 1 \in k + 1 .. k + u /\ m + (i - k) \in m + 1 .. m + u - 1
          /\ m + (i - k) + 1 = m + ((i + 1) - k)
      BY ONLY <2>3, i \in 0 .. m + u - 1, m \in Nat, k \in 0 .. m - 1, u \in Nat \ {0}
    <3>2. p[i] = m + (i - k) /\ p[i + 1] = m + ((i + 1) - k)
      BY <3>1, <1>3
    <3> QED  BY <3>1, <3>2
  <2>4. CASE i = k + u
    <3>1. i \in k + 1 .. k + u /\ i + 1 \in k + u + 1 .. m + u - 1 /\ m + (i - k) = m + u /\ (i + 1) - u = k + 1 /\ k < m - 1
      BY ONLY <2>4, i \in 0 .. m + u - 1, i < m + u - 1, m \in Nat, k \in 0 .. m - 1, u \in Nat \ {0}
    <3>2. p[i] = m + (i - k)
      BY <3>1, <1>3
    <3>3. p[i + 1] = q[(i + 1) - u]
      BY <3>1
    <3>4. next[q[k]] = q[k + 1]
      BY <3>1, <1>1
    <3> QED  BY <3>1, <3>2, <3>3, <3>4
  <2>5. CASE i > k + u
    <3>1. i \in k + u + 1 .. m + u - 1 /\ i + 1 \in k + u + 1 .. m + u - 1 /\ (i + 1) - u = (i - u) + 1 /\ i - u < m - 1
      BY ONLY <2>5, i \in 0 .. m + u - 1, i < m + u - 1, m \in Nat, k \in 0 .. m - 1, u \in Nat \ {0}
    <3>2. p[i] = q[i - u] /\ i - u \in 0 .. m - 1 /\ i - u > k
      BY <3>1, <1>4
    <3>3. q[i - u] # q[k] /\ q[i - u] \in 1 .. m
      BY <3>2, <1>1
    <3>5. p[i + 1] = q[(i + 1) - u]
      BY <3>1
    <3>4. next[q[i - u]] = q[(i - u) + 1]
      BY <3>1, <3>2, <1>1
    <3> QED  BY <3>1, <3>2, <3>3, <3>4, <3>5
  <2>6. i < k \/ i = k \/ (i > k /\ i < k + u) \/ i = k + u \/ i > k + u
    BY ONLY i \in 0 .. m + u - 1, m \in Nat, k \in 0 .. m - 1, u \in Nat
  <2> QED  BY <2>1, <2>2, <2>3, <2>4, <2>5, <2>6
<1>11. nx[p[m + u - 1]] = p[0]
  <2>1. p[0] = q[0]
    <3>1. 0 \in 0 .. k
      OBVIOUS
    <3> QED  BY <3>1, <1>2
  <2>2. CASE k = m - 1
    <3>1. m + u - 1 \in k + 1 .. k + u /\ m + ((m + u - 1) - k) = m + u
      BY ONLY <2>2, m \in Nat, k \in 0 .. m - 1, u \in Nat \ {0}
    <3>2. p[m + u - 1] = m + u
      BY <3>1, <1>3
    <3> QED  BY <3>2, <2>1, <2>2, <1>1
  <2>3. CASE k # m - 1
    <3>1. m + u - 1 \in k + u + 1 .. m + u - 1 /\ (m + u - 1) - u = m - 1
      BY ONLY <2>3, m \in Nat, k \in 0 .. m - 1, u \in Nat \ {0}
    <3>2. p[m + u - 1] = q[m - 1] /\ q[m - 1] \in 1 .. m /\ m - 1 \in 0 .. m - 1
      BY <3>1, <1>4
    <3>3. q[m - 1] # q[k]
      BY <3>2, <2>3, <1>1
    <3> QED  BY <3>2, <3>3, <2>1, <1>1
  <2> QED  BY <2>2, <2>3
<1>12. \A i, j \in 0 .. m + u - 1 : p[i] = p[j] => i = j
  BY <1>9
<1>13. \A i \in 0 .. m + u - 1 : i < m + u - 1 => nx[p[i]] = p[i + 1]
  BY <1>10
<1> QED
  BY <1>11, <1>12, <1>13 DEF Circle

\* R is r with more blocks, that the first k places have not to do with.
Extends(R, r, q, k) ==
    /\ RingTypes(R) /\ R.first = r.first /\ R.curr = r.curr /\ R.last = r.last /\ R.count = r.count
    /\ R.size >= r.size
    /\ \A b \in 1 .. r.size : R.data[b] = r.data[b]
    /\ \E p : RingOf(R, p) /\ \A i \in 0 .. k : p[i] = q[i]

LEMMA IncreaseRingIs ==
    ASSUME NEW r, RingTypes(r), NEW q, RingOf(r, q), NEW k \in 0 .. r.size - 1, r.last = q[k]
    PROVE  Extends(IncreaseRing(r), r, q, k) /\ IncreaseRing(r).size = r.size + SndUnit
<1> DEFINE R == IncreaseRing(r)
           m == r.size
           u == SndUnit
           d == [b \in 1 .. m + u |-> IF b \in m + 1 .. m + u THEN 0 ELSE r.data[b]]
           nx == [b \in 1 .. m + u |-> IF b = r.last THEN m + 1
                                      ELSE IF b = m + u THEN r.next[r.last]
                                      ELSE IF b \in m + 1 .. m + u THEN b + 1 ELSE r.next[b]]
           p == [i \in 0 .. m + u - 1 |-> IF i <= k THEN q[i] ELSE IF i <= k + u THEN m + (i - k) ELSE q[i - u]]
<1>1. /\ m \in Nat \ {0} /\ u \in Nat \ {0} /\ k \in 0 .. m - 1 /\ r.last \in 1 .. m /\ r.data \in [1 .. m -> Nat]
      /\ r.next \in [1 .. m -> 1 .. m] /\ r.first \in 1 .. m /\ r.curr \in 1 .. m /\ r.count \in Int
      /\ q \in [0 .. m - 1 -> 1 .. m] /\ Circle(r.next, m, q)
  BY SndBufferAssumption DEF RingTypes, RingOf, Circle
<1>2. R = [data |-> d, next |-> nx, first |-> r.first, curr |-> r.curr, last |-> r.last, size |-> m + u, count |-> r.count]
  <2>1. R = [r EXCEPT !.data = d, !.next = nx, !.size = m + u]
    BY DEF IncreaseRing
  <2>2. r = [data |-> r.data, next |-> r.next, first |-> r.first, curr |-> r.curr, last |-> r.last,
             size |-> r.size, count |-> r.count]
    BY DEF RingTypes
  <2> HIDE DEF R, d, nx, m, u
  <2> QED  BY <2>1, <2>2
<1>3. \A b \in 1 .. m + u : d[b] = IF b \in m + 1 .. m + u THEN 0 ELSE r.data[b]
  OBVIOUS
<1>4. \A b \in 1 .. m + u : nx[b] = IF b = r.last THEN m + 1
                                   ELSE IF b = m + u THEN r.next[r.last]
                                   ELSE IF b \in m + 1 .. m + u THEN b + 1 ELSE r.next[b]
  OBVIOUS
<1>5. \A i \in 0 .. m + u - 1 : p[i] = IF i <= k THEN q[i] ELSE IF i <= k + u THEN m + (i - k) ELSE q[i - u]
  OBVIOUS
<1>6. DOMAIN d = 1 .. m + u /\ DOMAIN nx = 1 .. m + u /\ DOMAIN p = 0 .. m + u - 1
      /\ d = [b \in DOMAIN d |-> d[b]] /\ nx = [b \in DOMAIN nx |-> nx[b]] /\ p = [i \in DOMAIN p |-> p[i]]
  OBVIOUS
<1> HIDE DEF R, d, nx, p, m, u
<1>7. d \in [1 .. m + u -> Nat] /\ \A b \in 1 .. m : d[b] = r.data[b]
  <2>1. ASSUME NEW b \in 1 .. m + u PROVE d[b] \in Nat /\ (b \in 1 .. m => d[b] = r.data[b])
    <3>1. b \in m + 1 .. m + u \/ b \in 1 .. m
      BY <1>1
    <3>2. CASE b \in 1 .. m
      <4>1. b \notin m + 1 .. m + u
        BY <3>2, <1>1
      <4> QED  BY <4>1, <3>2, <1>1, <1>3
    <3>3. CASE b \notin 1 .. m
      BY <3>1, <3>3, <1>3
    <3> QED  BY <3>2, <3>3
  <2>2. \A b \in 1 .. m : b \in 1 .. m + u
    BY <1>1
  <2>3. \A b \in 1 .. m + u : d[b] \in Nat
    BY <2>1
  <2>4. \A b \in 1 .. m : d[b] = r.data[b]
    BY <2>1, <2>2
  <2> QED  BY <2>3, <2>4, <1>6
<1>8. \A b \in m + 1 .. m + u - 1 : nx[b] = b + 1
  <2> TAKE b \in m + 1 .. m + u - 1
  <2>1. m \in Nat /\ u \in Nat /\ r.last \in 1 .. m
    BY <1>1
  <2>2. b \in 1 .. m + u /\ b \in m + 1 .. m + u /\ b # m + u /\ b # r.last
    BY ONLY <2>1, b \in m + 1 .. m + u - 1
  <2> QED  BY <2>2, <1>4
<1>9. nx[m + u] = r.next[r.last]
  <2>1. m + u \in 1 .. m + u /\ m + u # r.last
    BY <1>1
  <2> QED  BY <2>1, <1>4
<1>10. nx[r.last] = m + 1
  <2>1. r.last \in 1 .. m + u
    BY <1>1
  <2> QED  BY <2>1, <1>4
<1>11. \A b \in 1 .. m : b # r.last => nx[b] = r.next[b]
  <2> TAKE b \in 1 .. m
  <2>1. b \in 1 .. m + u /\ b \notin m + 1 .. m + u /\ b # m + u
    BY <1>1
  <2> QED  BY <2>1, <1>4
<1>12. nx \in [1 .. m + u -> 1 .. m + u]
  <2>1. ASSUME NEW b \in 1 .. m + u PROVE nx[b] \in 1 .. m + u
    <3>1. b \in m + 1 .. m + u - 1 \/ b = m + u \/ b = r.last \/ (b \in 1 .. m /\ b # r.last)
      <4>1. m \in Nat /\ u \in Nat
        BY <1>1
      <4>2. b \in m + 1 .. m + u - 1 \/ b = m + u \/ b \in 1 .. m
        BY ONLY <4>1, b \in 1 .. m + u
      <4> QED  BY <4>2
    <3>2. m + 1 \in 1 .. m + u /\ 1 .. m \subseteq 1 .. m + u
      <4>1. m \in Nat \ {0} /\ u \in Nat \ {0}
        BY <1>1
      <4> QED  BY ONLY <4>1
    <3>3. CASE b \in m + 1 .. m + u - 1
      <4>1. b + 1 \in 1 .. m + u
        BY <3>3, <1>1
      <4> QED  BY <4>1, <3>3, <1>8
    <3>4. CASE b = m + u
      BY <3>4, <3>2, <1>1, <1>9
    <3>5. CASE b = r.last
      BY <3>5, <3>2, <1>10
    <3>6. CASE b \in 1 .. m /\ b # r.last
      BY <3>6, <3>2, <1>1, <1>11
    <3> QED  BY <3>1, <3>3, <3>4, <3>5, <3>6
  <2> QED  BY <2>1, <1>6
<1>13. RingTypes(R)
  <2>1. r.first \in 1 .. m + u /\ r.curr \in 1 .. m + u /\ r.last \in 1 .. m + u /\ m + u \in Nat \ {0}
    BY <1>1
  <2> QED  BY <2>1, <1>1, <1>2, <1>7, <1>12 DEF RingTypes
<1>14. \A i \in 0 .. k : p[i] = q[i]
  <2> TAKE i \in 0 .. k
  <2>1. i \in 0 .. m + u - 1 /\ i <= k
    BY <1>1
  <2> QED  BY <2>1, <1>5
<1>15. \A i \in k + 1 .. k + u : p[i] = m + (i - k)
  <2> TAKE i \in k + 1 .. k + u
  <2>1. i \in 0 .. m + u - 1 /\ ~(i <= k) /\ i <= k + u
    BY <1>1
  <2> QED  BY <2>1, <1>5
<1>16. \A i \in k + u + 1 .. m + u - 1 : p[i] = q[i - u]
  <2> TAKE i \in k + u + 1 .. m + u - 1
  <2>1. i \in 0 .. m + u - 1 /\ ~(i <= k) /\ ~(i <= k + u)
    BY <1>1
  <2> QED  BY <2>1, <1>5
<1>17. p \in [0 .. m + u - 1 -> 1 .. m + u]
  <2>1. ASSUME NEW i \in 0 .. m + u - 1 PROVE p[i] \in 1 .. m + u
    <3>1. 1 .. m \subseteq 1 .. m + u
      BY <1>1
    <3>2. CASE i \in 0 .. k
      <4>1. i \in 0 .. m - 1
        BY <3>2, <1>1
      <4> QED  BY <4>1, <3>1, <3>2, <1>1, <1>14
    <3>3. CASE i \in k + 1 .. k + u
      <4>1. m + (i - k) \in 1 .. m + u
        BY <3>3, <1>1
      <4> QED  BY <4>1, <3>3, <1>15
    <3>4. CASE i \in k + u + 1 .. m + u - 1
      <4>1. i - u \in 0 .. m - 1
        BY <3>4, <1>1
      <4> QED  BY <4>1, <3>1, <3>4, <1>1, <1>16
    <3>5. i \in 0 .. k \/ i \in k + 1 .. k + u \/ i \in k + u + 1 .. m + u - 1
      BY <1>1
    <3> QED  BY <3>2, <3>3, <3>4, <3>5
  <2> QED  BY <2>1, <1>6
<1>18. RingOf(R, p)
  <2>1. r.last = q[k]
    BY DEF m
  <2>2. nx[q[k]] = m + 1 /\ nx[m + u] = r.next[q[k]] /\ \A b \in 1 .. m : b # q[k] => nx[b] = r.next[b]
    BY ONLY <1>9, <1>10, <1>11, <2>1
  <2>3. m \in Nat \ {0} /\ u \in Nat \ {0} /\ k \in 0 .. m - 1 /\ Circle(r.next, m, q)
    BY <1>1
  <2>4. Circle(nx, m + u, p)
    <3>1. Splices(r.next, m, q, k, u, nx, p)
      BY ONLY <1>8, <1>14, <1>15, <1>16, <1>17, <2>2, <2>3 DEF Splices
    <3> QED  BY ONLY <3>1, SplicedIsCircle
  <2> QED  BY <2>4, <1>2 DEF RingOf
<1>19. m + u >= m /\ R.size = m + u /\ R.data = d
  BY <1>1, <1>2
<1>20. Extends(R, r, q, k)
  <2>1. R.first = r.first /\ R.curr = r.curr /\ R.last = r.last /\ R.count = r.count
    BY <1>2
  <2> QED  BY <2>1, <1>7, <1>13, <1>14, <1>18, <1>19 DEF Extends, m
<1> QED
  BY <1>19, <1>20 DEF m, u, R

LEMMA WidenedExtends ==
    ASSUME NEW r, NEW q, NEW k \in 0 .. r.size - 1, RingTypes(r), r.last = q[k], NEW n \in Nat,
           NEW R, Extends(R, r, q, k)
    PROVE  /\ Extends(Widened(R, n), r, q, k)
           /\ n + r.count < Widened(R, n).size \/ Widened(R, n).size > R.size
<1>1. /\ RingTypes(R) /\ R.first = r.first /\ R.curr = r.curr /\ R.last = r.last /\ R.count = r.count
      /\ R.size >= r.size /\ \A b \in 1 .. r.size : R.data[b] = r.data[b]
  BY DEF Extends
<1>2. r.size \in Nat \ {0} /\ R.size \in Nat \ {0} /\ r.count \in Int /\ SndUnit \in Nat \ {0}
  BY <1>1, SndBufferAssumption DEF RingTypes
<1>3. CASE ~TooSmall(R, n)
  <2>1. Widened(R, n) = R /\ n + r.count < R.size
    BY <1>1, <1>2, <1>3 DEF Widened, TooSmall
  <2> QED  BY <2>1
<1>4. CASE TooSmall(R, n)
  <2> DEFINE Q == IncreaseRing(R)
  <2>1. Widened(R, n) = Q
    BY <1>4 DEF Widened
  <2>2. PICK p : RingOf(R, p) /\ \A i \in 0 .. k : p[i] = q[i]
    BY DEF Extends
  <2>3. k \in 0 .. R.size - 1 /\ k \in 0 .. k
    BY <1>1, <1>2
  <2>4. R.last = p[k]
    BY <1>1, <2>2, <2>3
  <2>5. Extends(Q, R, p, k) /\ Q.size = R.size + SndUnit
    BY ONLY <1>1, <2>2, <2>3, <2>4, IncreaseRingIs
  <2> HIDE DEF Q
  <2>6. Q.size > R.size /\ Q.size >= r.size /\ 1 .. r.size \subseteq 1 .. R.size
    BY <1>1, <1>2, <2>5
  <2>7. /\ RingTypes(Q) /\ Q.first = R.first /\ Q.curr = R.curr /\ Q.last = R.last /\ Q.count = R.count
        /\ \A b \in 1 .. R.size : Q.data[b] = R.data[b]
    BY <2>5 DEF Extends
  <2>8. PICK s : RingOf(Q, s) /\ \A i \in 0 .. k : s[i] = p[i]
    BY <2>5 DEF Extends
  <2>9. \A i \in 0 .. k : s[i] = q[i]
    BY <2>2, <2>8
  <2>10. \A b \in 1 .. r.size : Q.data[b] = r.data[b]
    BY <1>1, <2>6, <2>7
  <2>11. Q.first = r.first /\ Q.curr = r.curr /\ Q.last = r.last /\ Q.count = r.count
    BY <1>1, <2>7
  <2>12. Extends(Q, r, q, k)
    BY ONLY <2>6, <2>7, <2>8, <2>9, <2>10, <2>11 DEF Extends
  <2> QED  BY <2>1, <2>6, <2>12
<1> QED
  BY <1>3, <1>4

\* The loop ends with a ring that has more places than blocks, and what it held in place.
LEMMA GrownIs ==
    ASSUME NEW r, RingTypes(r), NEW q, RingOf(r, q), NEW k \in 0 .. r.size - 1, r.last = q[k],
           NEW n \in Nat, r.count < r.size
    PROVE  Extends(Grown(r, n), r, q, k) /\ n + r.count < Grown(r, n).size
<1> DEFINE W(g, i) == IF i = 0 THEN r ELSE Widened(g[i - 1], n)
           E == {m \in Nat : \E g : g = [i \in 0 .. m |-> W(g, i)]}
           turn == CHOOSE g : g = [i \in 0 .. n |-> W(g, i)]
<1>1. 0 \in E
  <2> DEFINE g == [i \in 0 .. 0 |-> r]
  <2>1. g = [i \in 0 .. 0 |-> W(g, i)]
    <3>1. \A i \in 0 .. 0 : g[i] = W(g, i)
      OBVIOUS
    <3> QED  BY <3>1
  <2> HIDE DEF g
  <2> QED  BY <2>1
<1>2. ASSUME NEW m \in Nat, m \in E PROVE m + 1 \in E
  <2>1. PICK g : g = [i \in 0 .. m |-> W(g, i)]
    BY <1>2
  <2> DEFINE h == [i \in 0 .. m + 1 |-> IF i = m + 1 THEN Widened(g[m], n) ELSE g[i]]
  <2>2. \A i \in 0 .. m : g[i] = W(g, i)
    BY <2>1
  <2>3. \A i \in 0 .. m : h[i] = g[i]
    OBVIOUS
  <2>4. h[m + 1] = Widened(g[m], n)
    OBVIOUS
  <2>5. h = [i \in DOMAIN h |-> h[i]] /\ DOMAIN h = 0 .. m + 1
    OBVIOUS
  <2> HIDE DEF h
  <2>6. \A i \in 0 .. m + 1 : h[i] = W(h, i)
    <3> TAKE i \in 0 .. m + 1
    <3>1. CASE i = 0
      <4>1. 0 \in 0 .. m
        OBVIOUS
      <4>2. h[0] = g[0] /\ g[0] = r
        BY <4>1, <2>2, <2>3
      <4> QED  BY <3>1, <4>2
    <3>2. CASE i # 0 /\ i # m + 1
      <4>1. i \in 0 .. m /\ i - 1 \in 0 .. m
        BY <3>2
      <4>2. h[i] = g[i] /\ h[i - 1] = g[i - 1]
        BY <4>1, <2>3
      <4> QED  BY <3>2, <4>1, <4>2, <2>2
    <3>3. CASE i = m + 1
      <4>1. i # 0 /\ i - 1 = m /\ m \in 0 .. m
        BY <3>3
      <4> QED  BY <3>3, <4>1, <2>3, <2>4
    <3> QED  BY <3>1, <3>2, <3>3
  <2>7. h = [i \in 0 .. m + 1 |-> W(h, i)]
    BY <2>5, <2>6
  <2> QED  BY <2>7
<1>3. n \in E
  <2> HIDE DEF E
  <2>1. \A m \in Nat : m \in E => m + 1 \in E
    BY <1>2
  <2>2. \A m \in Nat : m \in E
    BY ONLY <1>1, <2>1, AllNumbers
  <2> QED  BY <2>2
<1>4. turn = [i \in 0 .. n |-> W(turn, i)]
  BY <1>3
<1>5. Grown(r, n) = turn[n]
  BY DEF Grown
<1> HIDE DEF turn, E
<1>6. \A i \in 0 .. n : turn[i] = W(turn, i)
  BY <1>4
<1>7. r.size \in Nat \ {0} /\ r.count \in Int
  BY DEF RingTypes
<1> DEFINE Big(R, i) == n + r.count < R.size \/ r.size + i <= R.size
           T == {i \in Nat : i <= n => Extends(turn[i], r, q, k) /\ Big(turn[i], i)}
<1>8. 0 \in T
  <2>1. turn[0] = r
    BY <1>6
  <2>2. Extends(r, r, q, k)
    BY <1>7 DEF Extends
  <2> QED  BY <1>7, <2>1, <2>2
<1>9. ASSUME NEW i \in Nat, i \in T PROVE i + 1 \in T
  <2> SUFFICES ASSUME i + 1 <= n PROVE Extends(turn[i + 1], r, q, k) /\ Big(turn[i + 1], i + 1)
    OBVIOUS
  <2>1. i <= n /\ i + 1 \in 0 .. n /\ i + 1 # 0 /\ (i + 1) - 1 = i
    OBVIOUS
  <2>2. turn[i + 1] = Widened(turn[i], n)
    BY <2>1, <1>6
  <2>3. Extends(turn[i], r, q, k) /\ Big(turn[i], i)
    BY <2>1, <1>9
  <2> HIDE DEF T, W
  <2>4. Extends(Widened(turn[i], n), r, q, k) /\ (n + r.count < Widened(turn[i], n).size \/ Widened(turn[i], n).size > turn[i].size)
    BY ONLY RingTypes(r), k \in 0 .. r.size - 1, r.last = q[k], n \in Nat, <2>3, WidenedExtends
  <2>5. turn[i].size \in Nat /\ Widened(turn[i], n).size \in Nat
    BY <2>3, <2>4 DEF Extends, RingTypes
  <2>6. Big(Widened(turn[i], n), i + 1)
    BY <2>3, <2>4, <2>5, <1>7
  <2> QED  BY <2>2, <2>4, <2>6
<1>10. \A i \in Nat : i \in T
  <2> HIDE DEF T
  <2>1. \A i \in Nat : i \in T => i + 1 \in T
    BY <1>9
  <2> QED  BY ONLY <1>8, <2>1, AllNumbers
<1>11. Extends(turn[n], r, q, k) /\ Big(turn[n], n)
  BY <1>10
<1>12. turn[n].size \in Nat
  BY <1>11 DEF Extends, RingTypes
<1>13. n + r.count < turn[n].size
  BY <1>11, <1>12, <1>7
<1> QED
  BY <1>5, <1>11, <1>13

-----------------------------------------------------------------------------
(* The invariant                                                           *)

\* q names the blocks from the first on: those of the packets in the buffer, in order,
\* then the free ones.
Places(q) ==
    /\ RingOf(ring, q)
    /\ ring.first = q[0] /\ ring.curr = q[sentOnce] /\ ring.last = q[Len(inBuffer)]
    /\ \A i \in 1 .. Len(inBuffer) : ring.data[q[i - 1]] = inBuffer[i]

\* What is counted, or soon will be, is what the buffer holds and what a short read has
\* left out; it never fills the ring.
Counted ==
    /\ sentOnce <= Len(inBuffer) /\ Len(inBuffer) <= ring.count + uncounted
    /\ ring.count + uncounted < ring.size
    /\ ~ShortReads => ring.count + uncounted = Len(inBuffer)

CallRecord == sndCall = [kind |-> sndCall.kind, left |-> sndCall.left]

CallTypes ==
    /\ CallRecord
    /\ sndCall.kind \in {"none", "send", "sendmsg", "sendfile"} /\ sndCall.left \in Nat
    /\ sndCall.kind \in {"send", "sendmsg"} => uncounted = 0

SndBufInv ==
    /\ RingTypes(ring) /\ inBuffer \in Seq(Nat) /\ sentOnce \in Nat /\ uncounted \in Nat /\ written \in Nat
    /\ Counted /\ CallTypes
    /\ \E q : Places(q)

LEMMA SndBufInvInit == SndBufInit => SndBufInv
<1> SUFFICES ASSUME SndBufInit PROVE SndBufInv
  OBVIOUS
<1> DEFINE d == [b \in 1 .. SndUnit |-> 0]
           nx == [b \in 1 .. SndUnit |-> IF b = SndUnit THEN 1 ELSE b + 1]
           q == [i \in 0 .. SndUnit - 1 |-> i + 1]
<1>1. /\ ring = [data |-> d, next |-> nx, first |-> 1, curr |-> 1, last |-> 1, size |-> SndUnit, count |-> 0]
      /\ sndCall = NoCall /\ uncounted = 0 /\ inBuffer = << >> /\ sentOnce = 0 /\ written = 0
      /\ SndUnit \in Nat \ {0}
  BY SndBufferAssumption DEF SndBufInit
<1>2. d \in [1 .. SndUnit -> Nat]
  OBVIOUS
<1>3. nx \in [1 .. SndUnit -> 1 .. SndUnit] /\ \A b \in 1 .. SndUnit : nx[b] = IF b = SndUnit THEN 1 ELSE b + 1
  BY <1>1
<1>4. q \in [0 .. SndUnit - 1 -> 1 .. SndUnit] /\ \A i \in 0 .. SndUnit - 1 : q[i] = i + 1
  BY <1>1
<1> HIDE DEF d, nx, q
<1>5. RingTypes(ring)
  <2>1. 1 \in 1 .. SndUnit
    BY <1>1
  <2>2. nx \in [1 .. SndUnit -> 1 .. SndUnit] /\ SndUnit \in Nat \ {0}
    BY <1>1, <1>3
  <2>3. ring = [data |-> d, next |-> nx, first |-> 1, curr |-> 1, last |-> 1, size |-> SndUnit, count |-> 0]
    BY <1>1
  <2>4. /\ ring.data = d /\ ring.next = nx /\ ring.first = 1 /\ ring.curr = 1 /\ ring.last = 1
        /\ ring.size = SndUnit /\ ring.count = 0
    BY ONLY <2>3
  <2>5. ring = [data |-> ring.data, next |-> ring.next, first |-> ring.first, curr |-> ring.curr, last |-> ring.last,
                size |-> ring.size, count |-> ring.count]
    BY ONLY <2>3, <2>4
  <2>6. ring.data \in [1 .. ring.size -> Nat] /\ ring.next \in [1 .. ring.size -> 1 .. ring.size]
    BY ONLY <1>2, <2>2, <2>4
  <2>7. /\ ring.first \in 1 .. ring.size /\ ring.curr \in 1 .. ring.size /\ ring.last \in 1 .. ring.size
        /\ ring.size \in Nat \ {0} /\ ring.count \in Int
    BY ONLY <2>1, <2>2, <2>4
  <2> QED  BY ONLY <2>5, <2>6, <2>7 DEF RingTypes
<1>6. Circle(nx, SndUnit, q)
  <2>1. \A i, j \in 0 .. SndUnit - 1 : q[i] = q[j] => i = j
    BY <1>1, <1>4
  <2>2. ASSUME NEW i \in 0 .. SndUnit - 1, i < SndUnit - 1 PROVE nx[q[i]] = q[i + 1]
    <3>1. i + 1 \in 1 .. SndUnit /\ i + 1 # SndUnit /\ i + 1 \in 0 .. SndUnit - 1
      BY <1>1, <2>2
    <3>2. q[i] = i + 1 /\ q[i + 1] = (i + 1) + 1
      BY <3>1, <1>4
    <3> QED  BY <3>1, <3>2, <1>3
  <2>3. nx[q[SndUnit - 1]] = q[0]
    <3>1. SndUnit - 1 \in 0 .. SndUnit - 1 /\ 0 \in 0 .. SndUnit - 1 /\ (SndUnit - 1) + 1 = SndUnit /\ SndUnit \in 1 .. SndUnit
      BY <1>1
    <3>2. q[SndUnit - 1] = SndUnit /\ q[0] = 0 + 1
      BY <3>1, <1>4
    <3> QED  BY <3>1, <3>2, <1>3
  <2> QED  BY <1>4, <2>1, <2>2, <2>3 DEF Circle
<1>7. Len(inBuffer) = 0 /\ inBuffer \in Seq(Nat)
  BY <1>1
<1>8. q[0] = 1
  BY <1>1, <1>4
<1>9. Places(q)
  BY <1>1, <1>6, <1>7, <1>8 DEF Places, RingOf
<1>10. Counted
  BY <1>1, <1>7 DEF Counted
<1>11. CallTypes
  BY <1>1 DEF CallTypes, CallRecord, NoCall
<1> QED
  BY <1>1, <1>5, <1>7, <1>9, <1>10, <1>11 DEF SndBufInv

-----------------------------------------------------------------------------
(* Steps                                                                   *)

LEMMA AddBlocksKeeps ==
    ASSUME SndBufInv, uncounted = 0, NEW n \in Nat, NEW got \in 0 .. n, got < n => ShortReads,
           AddBlocks(n, got),
           CallRecord', sndCall'.kind \in {"none", "send", "sendmsg", "sendfile"}, sndCall'.left \in Nat,
           sndCall'.kind \notin {"send", "sendmsg"}
    PROVE  SndBufInv'
<1> DEFINE L == Len(inBuffer)
           r == Grown(ring, n)
           new == {BlockAfter(r, r.last, i) : i \in 0 .. got - 1}
           Nth(b) == CHOOSE i \in 0 .. got - 1 : BlockAfter(r, r.last, i) = b
           d == [b \in DOMAIN r.data |-> IF b \in new THEN written + Nth(b) + 1 ELSE r.data[b]]
<1>1. /\ RingTypes(ring) /\ inBuffer \in Seq(Nat) /\ L \in Nat /\ sentOnce \in Nat /\ written \in Nat
      /\ sentOnce <= L /\ L <= ring.count /\ ring.count < ring.size /\ (~ShortReads => ring.count = L)
      /\ ring.size \in Nat \ {0} /\ ring.count \in Int
  BY DEF SndBufInv, Counted, RingTypes
<1>2. PICK q : Places(q)
  BY DEF SndBufInv
<1>3. L \in 0 .. ring.size - 1
  BY <1>1
<1>4. Extends(r, ring, q, L) /\ n + ring.count < r.size
  <2>1. RingOf(ring, q) /\ ring.last = q[L]
    BY <1>2 DEF Places
  <2> HIDE DEF r, L
  <2>2. Extends(Grown(ring, n), ring, q, L) /\ n + ring.count < Grown(ring, n).size
    BY ONLY <1>1, <1>3, <2>1, n \in Nat, GrownIs
  <2> QED  BY <2>2 DEF r
<1>5. ring' = [r EXCEPT !.data = d, !.last = BlockAfter(r, r.last, got)]
  BY DEF AddBlocks
<1>6. /\ uncounted' = n /\ inBuffer' = inBuffer \o [i \in 1 .. got |-> written + i] /\ written' = written + got
      /\ sentOnce' = sentOnce
  BY DEF AddBlocks
<1> HIDE DEF r
<1>7. /\ RingTypes(r) /\ r.first = ring.first /\ r.curr = ring.curr /\ r.last = ring.last /\ r.count = ring.count
      /\ r.size >= ring.size /\ \A b \in 1 .. ring.size : r.data[b] = ring.data[b]
  BY <1>4 DEF Extends
<1>8. PICK p : RingOf(r, p) /\ \A i \in 0 .. L : p[i] = q[i]
  BY <1>4 DEF Extends
<1>9. /\ r.size \in Nat \ {0} /\ r.data \in [1 .. r.size -> Nat] /\ p \in [0 .. r.size - 1 -> 1 .. r.size]
      /\ \A i, j \in 0 .. r.size - 1 : p[i] = p[j] => i = j
  BY <1>7, <1>8 DEF RingTypes, RingOf, Circle
<1>10. L + got < r.size /\ got \in Nat
  BY <1>1, <1>4, <1>9
<1>11. r.last = p[L]
  <2>1. L \in 0 .. L
    BY <1>1
  <2> QED  BY <2>1, <1>2, <1>7, <1>8 DEF Places
<1>12. ASSUME NEW i \in 0 .. got PROVE BlockAfter(r, r.last, i) = p[L + i] /\ L + i \in 0 .. r.size - 1
  <2>1. L + i < r.size /\ i \in Nat /\ L \in Nat /\ L + i \in 0 .. r.size - 1
    BY <1>1, <1>9, <1>10
  <2> HIDE DEF L
  <2>2. BlockAfter(r, p[L], i) = p[L + i]
    BY ONLY <2>1, <1>7, <1>8, WalkIs
  <2> QED  BY <2>1, <2>2, <1>11
<1> HIDE DEF L
<1>13. ring' = [data |-> d, next |-> r.next, first |-> r.first, curr |-> r.curr, last |-> p[L + got],
                size |-> r.size, count |-> r.count]
  <2>1. got \in 0 .. got
    BY <1>10
  <2>2. BlockAfter(r, r.last, got) = p[L + got]
    BY <2>1, <1>12
  <2>3. r = [data |-> r.data, next |-> r.next, first |-> r.first, curr |-> r.curr, last |-> r.last,
             size |-> r.size, count |-> r.count]
    BY <1>7 DEF RingTypes
  <2> HIDE DEF d
  <2>4. ring' = [r EXCEPT !.data = d, !.last = p[L + got]]
    BY <1>5, <2>2
  <2> QED  BY <2>3, <2>4
<1>14. ASSUME NEW i \in 0 .. got - 1 PROVE p[L + i] \in new /\ Nth(p[L + i]) = i
  <2>1. i \in 0 .. got
    BY <1>10
  <2>2. BlockAfter(r, r.last, i) = p[L + i]
    BY <2>1, <1>12
  <2>3. ASSUME NEW j \in 0 .. got - 1, BlockAfter(r, r.last, j) = p[L + i] PROVE j = i
    <3>1. j \in 0 .. got
      BY <1>10
    <3>2. p[L + j] = p[L + i] /\ L + i \in 0 .. r.size - 1 /\ L + j \in 0 .. r.size - 1
      BY <3>1, <2>1, <2>3, <1>12
    <3>3. L + j = L + i
      BY <3>2, <1>9
    <3> QED  BY <3>3, <1>1
  <2>4. i \in 0 .. got - 1 /\ BlockAfter(r, r.last, i) = p[L + i]
    BY <2>2
  <2>5. Nth(p[L + i]) = i
    BY <2>3, <2>4
  <2> QED  BY <2>4, <2>5
<1>15. ASSUME NEW b \in new PROVE \E i \in 0 .. got - 1 : b = p[L + i]
  <2>1. PICK i \in 0 .. got - 1 : b = BlockAfter(r, r.last, i)
    OBVIOUS
  <2>2. i \in 0 .. got
    BY <1>10
  <2> QED  BY <2>1, <2>2, <1>12
<1>16. /\ DOMAIN d = 1 .. r.size /\ d = [b \in DOMAIN d |-> d[b]]
       /\ \A b \in 1 .. r.size : b \in new => d[b] = written + Nth(b) + 1
       /\ \A b \in 1 .. r.size : b \notin new => d[b] = r.data[b]
  <2>1. DOMAIN r.data = 1 .. r.size
    BY <1>9
  <2> HIDE DEF new, Nth
  <2> QED  BY <2>1
<1> HIDE DEF d, new, Nth
<1>17. ASSUME NEW i \in 0 .. got - 1 PROVE d[p[L + i]] = written + i + 1
  <2>1. i \in 0 .. got
    BY <1>10
  <2>2. L + i \in 0 .. r.size - 1
    BY <2>1, <1>12
  <2>3. p[L + i] \in 1 .. r.size
    BY <2>2, <1>9
  <2> QED  BY <2>3, <1>14, <1>16
<1>18. ASSUME NEW i \in 0 .. r.size - 1, i < L PROVE d[p[i]] = r.data[p[i]]
  <2>1. p[i] \notin new
    <3> SUFFICES ASSUME p[i] \in new PROVE FALSE
      OBVIOUS
    <3>1. PICK j \in 0 .. got - 1 : p[i] = p[L + j]
      BY <1>15
    <3>2. j \in 0 .. got
      BY <1>10
    <3>3. L + j \in 0 .. r.size - 1
      BY <3>2, <1>12
    <3>4. i = L + j
      BY <3>1, <3>3, <1>9
    <3> QED  BY <3>4, <1>1, <1>18
  <2> QED  BY <2>1, <1>9, <1>16
<1>19. d \in [1 .. r.size -> Nat]
  <2>1. ASSUME NEW b \in 1 .. r.size PROVE d[b] \in Nat
    <3>1. CASE b \notin new
      BY <3>1, <1>9, <1>16
    <3>2. CASE b \in new
      <4>1. PICK i \in 0 .. got - 1 : b = p[L + i]
        BY <3>2, <1>15
      <4>2. d[b] = written + i + 1
        BY <4>1, <1>17
      <4>3. i \in Nat /\ written \in Nat
        BY <4>1, <1>1, <1>10
      <4> QED  BY ONLY <4>2, <4>3
    <3> QED  BY <3>1, <3>2
  <2> QED  BY <2>1, <1>16
<1>20. RingTypes(ring')
  <2>1. got \in 0 .. got
    BY <1>10
  <2>2. L + got \in 0 .. r.size - 1
    BY <2>1, <1>12
  <2>3. p[L + got] \in 1 .. r.size
    BY <2>2, <1>9
  <2>4. /\ r.size \in Nat \ {0} /\ r.count \in Int /\ r.next \in [1 .. r.size -> 1 .. r.size]
        /\ r.first \in 1 .. r.size /\ r.curr \in 1 .. r.size
    BY <1>7 DEF RingTypes
  <2> QED  BY <2>3, <2>4, <1>13, <1>19 DEF RingTypes
<1> DEFINE more == [i \in 1 .. got |-> written + i]
<1>21. more \in Seq(Nat) /\ Len(more) = got /\ \A i \in 1 .. got : more[i] = written + i
  <2>1. more \in [1 .. got -> Nat]
    BY <1>1
  <2> QED  BY <2>1, <1>10
<1> HIDE DEF more
<1>22. /\ inBuffer' \in Seq(Nat) /\ Len(inBuffer') = L + got
       /\ \A i \in 1 .. L : inBuffer'[i] = inBuffer[i]
       /\ \A i \in L + 1 .. L + got : inBuffer'[i] = written + (i - L)
  <2>1. inBuffer' = inBuffer \o more
    BY <1>6 DEF more
  <2>2. inBuffer' \in Seq(Nat) /\ Len(inBuffer') = L + got
    <3>1. inBuffer \o more \in Seq(Nat) /\ Len(inBuffer \o more) = Len(inBuffer) + Len(more)
      <4>1. inBuffer \in Seq(Nat) /\ more \in Seq(Nat)
        BY <1>1, <1>21
      <4> QED  BY ONLY <4>1
    <3>2. Len(inBuffer) = L /\ Len(more) = got
      BY <1>21 DEF L
    <3> QED  BY ONLY <2>1, <3>1, <3>2
  <2>3. ASSUME NEW i \in 1 .. L PROVE inBuffer'[i] = inBuffer[i]
    BY <2>1, <1>1, <1>21 DEF L
  <2>4. ASSUME NEW i \in L + 1 .. L + got PROVE inBuffer'[i] = written + (i - L)
    <3>1. i - L \in 1 .. got /\ i \in 1 .. L + got /\ i > L
      BY <1>1, <1>10
    <3>2. inBuffer'[i] = more[i - L]
      BY <2>1, <3>1, <1>1, <1>21 DEF L
    <3> QED  BY <3>1, <3>2, <1>21
  <2> QED  BY <2>2, <2>3, <2>4
<1>23. Places(p)'
  <2>1. RingOf(ring', p)
    BY <1>8, <1>13 DEF RingOf
  <2>2. ring'.first = p[0] /\ ring'.curr = p[sentOnce] /\ ring'.last = p[L + got]
    <3>1. 0 \in 0 .. L /\ sentOnce \in 0 .. L
      BY <1>1
    <3>2. ring.first = q[0] /\ ring.curr = q[sentOnce]
      BY <1>2 DEF Places
    <3> QED  BY <3>1, <3>2, <1>7, <1>8, <1>13
  <2>3. ASSUME NEW i \in 1 .. L + got PROVE ring'.data[p[i - 1]] = inBuffer'[i]
    <3>1. CASE i <= L
      <4>1. i \in 1 .. L /\ i - 1 \in 0 .. L /\ i - 1 \in 0 .. r.size - 1 /\ i - 1 < L /\ i - 1 \in 0 .. ring.size - 1
        BY <3>1, <1>1, <1>3, <1>9, <1>10
      <4>2. d[p[i - 1]] = r.data[q[i - 1]]
        BY <4>1, <1>8, <1>18
      <4>3. ring.data[q[i - 1]] = inBuffer[i]
        BY <4>1, <1>2 DEF Places, L
      <4>4. q[i - 1] \in 1 .. ring.size
        BY <4>1, <1>2 DEF Places, RingOf, Circle
      <4> QED  BY <4>1, <4>2, <4>3, <4>4, <1>7, <1>13, <1>22
    <3>2. CASE i > L
      <4>1. i \in L + 1 .. L + got /\ i - 1 - L \in 0 .. got - 1 /\ L + (i - 1 - L) = i - 1
        BY <3>2, <1>1, <1>10
      <4>2. d[p[i - 1]] = written + (i - 1 - L) + 1
        BY <4>1, <1>17
      <4>3. written + (i - 1 - L) + 1 = written + (i - L)
        BY <1>1, <1>10
      <4> QED  BY <4>1, <4>2, <4>3, <1>13, <1>22
    <3> QED  BY <3>1, <3>2, <1>1, <1>10
  <2> QED  BY <2>1, <2>2, <2>3, <1>6, <1>22 DEF Places
<1>24. Counted'
  <2>1. ring'.count = ring.count /\ ring'.size = r.size
    BY <1>7, <1>13
  <2>2. got <= n /\ (~ShortReads => got = n)
    OBVIOUS
  <2> QED  BY <2>1, <2>2, <1>1, <1>4, <1>6, <1>9, <1>10, <1>22 DEF Counted
<1>25. CallTypes'
  BY DEF CallTypes
<1>26. sentOnce' \in Nat /\ uncounted' \in Nat /\ written' \in Nat
  BY <1>1, <1>6, <1>10
<1> QED
  BY <1>20, <1>22, <1>23, <1>24, <1>25, <1>26 DEF SndBufInv

LEMMA CountBlocksKeeps == SndBufInv /\ CountBlocks => SndBufInv'
<1> SUFFICES ASSUME SndBufInv, CountBlocks PROVE SndBufInv'
  OBVIOUS
<1>1. PICK q : Places(q)
  BY DEF SndBufInv
<1>2. /\ ring' = [ring EXCEPT !.count = ring.count + uncounted] /\ uncounted' = 0
      /\ sndCall' = sndCall /\ inBuffer' = inBuffer /\ sentOnce' = sentOnce /\ written' = written
  BY DEF CountBlocks
<1>3. RingTypes(ring) /\ uncounted \in Nat /\ Len(inBuffer) \in Nat
  BY DEF SndBufInv
<1>4. ring' = [data |-> ring.data, next |-> ring.next, first |-> ring.first, curr |-> ring.curr, last |-> ring.last,
               size |-> ring.size, count |-> ring.count + uncounted]
  <2>1. ring = [data |-> ring.data, next |-> ring.next, first |-> ring.first, curr |-> ring.curr, last |-> ring.last,
                size |-> ring.size, count |-> ring.count]
    BY <1>3 DEF RingTypes
  <2> QED  BY <2>1, <1>2
<1>5. ring.count + uncounted \in Int /\ (ring.count + uncounted) + 0 = ring.count + uncounted
  BY <1>3 DEF RingTypes
<1>6. RingTypes(ring')
  BY <1>3, <1>4, <1>5 DEF RingTypes
<1>7. Places(q)'
  BY <1>1, <1>2, <1>4 DEF Places, RingOf
<1>8. Counted'
  BY <1>2, <1>4, <1>5 DEF Counted, SndBufInv
<1>9. CallTypes'
  BY <1>2 DEF CallTypes, CallRecord, SndBufInv
<1> QED
  BY <1>2, <1>6, <1>7, <1>8, <1>9 DEF SndBufInv

LEMMA ReadNewKeeps == SndBufInv /\ ReadNew => SndBufInv'
<1> SUFFICES ASSUME SndBufInv, ReadNew PROVE SndBufInv'
  OBVIOUS
<1>1. PICK q : Places(q)
  BY DEF SndBufInv
<1>2. /\ ring' = [ring EXCEPT !.curr = ring.next[ring.curr]] /\ sentOnce' = sentOnce + 1
      /\ sndCall' = sndCall /\ inBuffer' = inBuffer /\ uncounted' = uncounted /\ written' = written
      /\ ring.curr # ring.last
  BY DEF ReadNew
<1>3. /\ RingTypes(ring) /\ Len(inBuffer) \in Nat /\ sentOnce \in Nat /\ Counted
      /\ ring.size \in Nat \ {0} /\ ring.count \in Int /\ uncounted \in Nat
  BY DEF SndBufInv, RingTypes
<1>4. sentOnce # Len(inBuffer)
  BY <1>1, <1>2 DEF Places
<1>5. /\ sentOnce + 1 <= Len(inBuffer) /\ sentOnce \in 0 .. ring.size - 1 /\ sentOnce < ring.size - 1
      /\ sentOnce + 1 \in 0 .. ring.size - 1
  BY <1>3, <1>4 DEF Counted
<1>6. ring.next[ring.curr] = q[sentOnce + 1] /\ q[sentOnce + 1] \in 1 .. ring.size
  BY <1>1, <1>5 DEF Places, RingOf, Circle
<1>7. ring' = [data |-> ring.data, next |-> ring.next, first |-> ring.first, curr |-> q[sentOnce + 1], last |-> ring.last,
               size |-> ring.size, count |-> ring.count]
  <2>1. ring = [data |-> ring.data, next |-> ring.next, first |-> ring.first, curr |-> ring.curr, last |-> ring.last,
                size |-> ring.size, count |-> ring.count]
    BY <1>3 DEF RingTypes
  <2> QED  BY <2>1, <1>2, <1>6
<1>8. RingTypes(ring')
  BY <1>3, <1>6, <1>7 DEF RingTypes
<1>9. Places(q)'
  BY <1>1, <1>2, <1>7 DEF Places, RingOf
<1>10. Counted'
  BY <1>2, <1>3, <1>5, <1>7 DEF Counted
<1>11. CallTypes' /\ sentOnce' \in Nat
  BY <1>2, <1>3 DEF CallTypes, CallRecord, SndBufInv
<1> QED
  BY <1>2, <1>8, <1>9, <1>10, <1>11 DEF SndBufInv

\* A circle is one from each of its places.
Turns(next, m, q, n, p) ==
    /\ m \in Nat \ {0} /\ n \in 0 .. m - 1 /\ Circle(next, m, q) /\ p \in [0 .. m - 1 -> 1 .. m]
    /\ \A i \in 0 .. m - 1 : i + n < m => p[i] = q[i + n]
    /\ \A i \in 0 .. m - 1 : i + n >= m => p[i] = q[i + n - m]

LEMMA TurnedIsCircle ==
    ASSUME NEW next, NEW m, NEW q, NEW n, NEW p, Turns(next, m, q, n, p)
    PROVE  Circle(next, m, p)
<1> m \in Nat \ {0} /\ n \in 0 .. m - 1 /\ p \in [0 .. m - 1 -> 1 .. m]
  BY DEF Turns
<1> \A i \in 0 .. m - 1 : i + n < m => p[i] = q[i + n]
  BY DEF Turns
<1> \A i \in 0 .. m - 1 : i + n >= m => p[i] = q[i + n - m]
  BY DEF Turns
<1>1. /\ q \in [0 .. m - 1 -> 1 .. m] /\ \A i, j \in 0 .. m - 1 : q[i] = q[j] => i = j
      /\ \A i \in 0 .. m - 1 : i < m - 1 => next[q[i]] = q[i + 1]
      /\ next[q[m - 1]] = q[0]
  BY DEF Circle, Turns
<1>2. ASSUME NEW i \in 0 .. m - 1
      PROVE  \E k \in 0 .. m - 1 : p[i] = q[k] /\ (k = i + n \/ k = i + n - m)
  <2>1. CASE i + n < m
    <3>1. i + n \in 0 .. m - 1
      BY <2>1
    <3> QED  BY <2>1, <3>1
  <2>2. CASE i + n >= m
    <3>1. i + n - m \in 0 .. m - 1
      BY <2>2
    <3> QED  BY <2>2, <3>1
  <2> QED  BY <2>1, <2>2
<1>3. ASSUME NEW i \in 0 .. m - 1, NEW j \in 0 .. m - 1, p[i] = p[j] PROVE i = j
  <2>1. PICK k \in 0 .. m - 1 : p[i] = q[k] /\ (k = i + n \/ k = i + n - m)
    BY <1>2
  <2>2. PICK l \in 0 .. m - 1 : p[j] = q[l] /\ (l = j + n \/ l = j + n - m)
    BY <1>2
  <2>3. k = l
    BY <2>1, <2>2, <1>1, <1>3
  <2> QED  BY ONLY <2>1, <2>2, <2>3, i \in 0 .. m - 1, j \in 0 .. m - 1, n \in 0 .. m - 1, m \in Nat
<1>4. ASSUME NEW i \in 0 .. m - 1, i < m - 1 PROVE next[p[i]] = p[i + 1]
  <2>1. i + 1 \in 0 .. m - 1
    BY <1>4
  <2>2. CASE i + n < m - 1
    <3>1. i + n \in 0 .. m - 1 /\ i + n < m /\ (i + 1) + n < m /\ (i + 1) + n = (i + n) + 1
      BY <2>2
    <3>2. p[i] = q[i + n] /\ p[i + 1] = q[(i + n) + 1]
      BY <2>1, <3>1
    <3> QED  BY <2>2, <3>1, <3>2, <1>1
  <2>3. CASE i + n = m - 1
    <3>1. i + n < m /\ (i + 1) + n >= m /\ (i + 1) + n - m = 0
      BY <2>3
    <3>2. p[i] = q[m - 1] /\ p[i + 1] = q[0]
      BY <2>1, <2>3, <3>1
    <3> QED  BY <3>2, <1>1
  <2>4. CASE i + n >= m
    <3>1. i + n - m \in 0 .. m - 1 /\ i + n - m < m - 1 /\ (i + 1) + n >= m /\ (i + 1) + n - m = (i + n - m) + 1
      BY <2>4, <1>4
    <3>2. p[i] = q[i + n - m] /\ p[i + 1] = q[(i + n - m) + 1]
      BY <2>1, <2>4, <3>1
    <3> QED  BY <3>1, <3>2, <1>1
  <2> QED  BY <2>2, <2>3, <2>4
<1>5. next[p[m - 1]] = p[0]
  <2>1. m - 1 \in 0 .. m - 1 /\ 0 \in 0 .. m - 1
    OBVIOUS
  <2>2. CASE n = 0
    <3>1. p[m - 1] = q[m - 1] /\ p[0] = q[0]
      BY <2>1, <2>2
    <3> QED  BY <3>1, <1>1
  <2>3. CASE n # 0
    <3>1. (m - 1) + n >= m /\ (m - 1) + n - m = n - 1 /\ n - 1 \in 0 .. m - 1 /\ n - 1 < m - 1 /\ 0 + n < m /\ 0 + n = n
          /\ (n - 1) + 1 = n
      BY <2>3
    <3>2. p[m - 1] = q[n - 1]
      BY <2>1, <3>1
    <3>3. p[0] = q[n]
      BY <2>1, <3>1
    <3>4. next[q[n - 1]] = q[(n - 1) + 1]
      BY <3>1, <1>1
    <3> QED  BY <3>1, <3>2, <3>3, <3>4
  <2> QED  BY <2>2, <2>3
<1>6. \A i, j \in 0 .. m - 1 : p[i] = p[j] => i = j
  BY <1>3
<1>7. \A i \in 0 .. m - 1 : i < m - 1 => next[p[i]] = p[i + 1]
  BY <1>4
<1> QED
  BY <1>5, <1>6, <1>7 DEF Circle

LEMMA AckSentKeeps == ASSUME SndBufInv, NEW n \in Nat, AckSent(n) PROVE SndBufInv'
<1> DEFINE m == ring.size
           L == Len(inBuffer)
<1>1. PICK q : Places(q)
  BY DEF SndBufInv
<1>2. /\ ring' = [ring EXCEPT !.first = BlockAfter(ring, ring.first, n), !.count = ring.count - n]
      /\ inBuffer' = SubSeq(inBuffer, n + 1, L) /\ sentOnce' = sentOnce - n /\ n <= sentOnce
      /\ sndCall' = sndCall /\ uncounted' = uncounted /\ written' = written
  BY DEF AckSent
<1>3. /\ RingTypes(ring) /\ inBuffer \in Seq(Nat) /\ L \in Nat /\ sentOnce \in Nat /\ uncounted \in Nat /\ written \in Nat
      /\ sentOnce <= L /\ L <= ring.count + uncounted /\ ring.count + uncounted < m
      /\ (~ShortReads => ring.count + uncounted = L)
      /\ m \in Nat \ {0} /\ ring.count \in Int /\ CallTypes
  BY DEF SndBufInv, RingTypes, Counted
<1>4. /\ RingOf(ring, q) /\ Circle(ring.next, m, q) /\ q \in [0 .. m - 1 -> 1 .. m]
      /\ ring.first = q[0] /\ ring.curr = q[sentOnce] /\ ring.last = q[L]
      /\ \A i \in 1 .. L : ring.data[q[i - 1]] = inBuffer[i]
  BY <1>1 DEF Places, RingOf, Circle
<1>5. n \in 0 .. m - 1 /\ n <= L /\ 0 + n < m /\ 0 + n = n /\ L < m
  <2> DEFINE c == ring.count + uncounted
  <2>1. /\ n <= sentOnce /\ sentOnce <= L /\ L <= c /\ c < m
        /\ sentOnce \in Nat /\ L \in Nat /\ c \in Int /\ m \in Nat
    BY <1>2, <1>3
  <2> HIDE DEF c, m, L
  <2> QED  BY ONLY <2>1, n \in Nat
<1>6. BlockAfter(ring, ring.first, n) = q[n] /\ q[n] \in 1 .. m
  <2>1. BlockAfter(ring, q[0], n) = q[0 + n]
    <3>1. RingTypes(ring) /\ RingOf(ring, q) /\ 0 + n < ring.size
      BY <1>3, <1>4, <1>5
    <3>2. 0 \in Nat
      OBVIOUS
    <3> QED  BY ONLY <3>1, <3>2, n \in Nat, WalkIs
  <2> QED  BY <2>1, <1>4, <1>5
<1>7. ring' = [data |-> ring.data, next |-> ring.next, first |-> q[n], curr |-> ring.curr, last |-> ring.last,
               size |-> ring.size, count |-> ring.count - n]
  <2>1. ring = [data |-> ring.data, next |-> ring.next, first |-> ring.first, curr |-> ring.curr, last |-> ring.last,
                size |-> ring.size, count |-> ring.count]
    BY <1>3 DEF RingTypes
  <2>2. ring' = [ring EXCEPT !.first = q[n], !.count = ring.count - n]
    BY <1>2, <1>6
  <2> QED  BY <2>1, <2>2
<1>8. RingTypes(ring')
  <2>1. /\ ring.data \in [1 .. ring.size -> Nat] /\ ring.next \in [1 .. ring.size -> 1 .. ring.size]
        /\ ring.curr \in 1 .. ring.size /\ ring.last \in 1 .. ring.size /\ ring.size \in Nat \ {0}
    BY <1>3 DEF RingTypes
  <2>2. ring.count - n \in Int
    BY <1>3
  <2>3. q[n] \in 1 .. ring.size
    BY <1>6
  <2> QED  BY <2>1, <2>2, <2>3, <1>7 DEF RingTypes
<1> PICK p : p = [i \in 0 .. m - 1 |-> IF i + n < m THEN q[i + n] ELSE q[i + n - m]]
  OBVIOUS
<1>9. /\ DOMAIN p = 0 .. m - 1 /\ p = [i \in DOMAIN p |-> p[i]]
      /\ \A i \in 0 .. m - 1 : i + n < m => p[i] = q[i + n]
      /\ \A i \in 0 .. m - 1 : i + n >= m => p[i] = q[i + n - m]
  <2> HIDE DEF m
  <2> QED  BY <1>3, <1>5
<1> HIDE DEF m, L
<1>10. p \in [0 .. m - 1 -> 1 .. m]
  <2>1. ASSUME NEW i \in 0 .. m - 1 PROVE p[i] \in 1 .. m
    <3>1. CASE i + n < m
      <4>1. i + n \in 0 .. m - 1
        BY <3>1, <1>3, <1>5
      <4> QED  BY <4>1, <3>1, <1>4, <1>9
    <3>2. CASE i + n >= m
      <4>1. i + n - m \in 0 .. m - 1
        BY <3>2, <1>3, <1>5
      <4> QED  BY <4>1, <3>2, <1>4, <1>9
    <3> QED  BY <3>1, <3>2, <1>3, <1>5
  <2> QED  BY <2>1, <1>9
<1>11. Circle(ring.next, m, p)
  <2>1. Turns(ring.next, m, q, n, p)
    BY <1>3, <1>4, <1>5, <1>9, <1>10 DEF Turns
  <2> QED  BY ONLY <2>1, TurnedIsCircle
<1>12. ASSUME NEW i \in n .. L PROVE i - n \in 0 .. m - 1 /\ p[i - n] = q[i]
  <2>1. i - n \in 0 .. m - 1 /\ (i - n) + n = i /\ i < m
    BY <1>3, <1>5
  <2> QED  BY <2>1, <1>9
<1>13. inBuffer' \in Seq(Nat) /\ Len(inBuffer') = L - n /\ \A i \in 1 .. L - n : inBuffer'[i] = inBuffer[i + n]
  <2>1. inBuffer' = SubSeq(inBuffer, n + 1, L) /\ inBuffer \in Seq(Nat) /\ L = Len(inBuffer) /\ n <= L /\ L \in Nat
    BY <1>2, <1>3, <1>5 DEF L
  <2>2. SubSeq(inBuffer, n + 1, L) \in Seq(Nat)
    BY ONLY <2>1, n \in Nat
  <2>3. Len(SubSeq(inBuffer, n + 1, L)) = L - n
    BY ONLY <2>1, n \in Nat
  <2>4. ASSUME NEW i \in 1 .. L - n PROVE SubSeq(inBuffer, n + 1, L)[i] = inBuffer[i + n]
    BY ONLY <2>1, n \in Nat, i \in 1 .. L - n
  <2> QED  BY <2>1, <2>2, <2>3, <2>4
<1>14. Places(p)'
  <2>1. RingOf(ring', p)
    BY <1>7, <1>11 DEF RingOf, m
  <2>2. ring'.first = p[0]
    <3>1. 0 \in 0 .. m - 1
      BY <1>3
    <3> QED  BY <3>1, <1>5, <1>7, <1>9
  <2>3. ring'.curr = p[sentOnce - n] /\ ring'.last = p[L - n]
    <3>1. sentOnce \in n .. L /\ L \in n .. L
      BY <1>2, <1>3, <1>5
    <3> QED  BY <3>1, <1>4, <1>7, <1>12
  <2>4. ASSUME NEW i \in 1 .. L - n PROVE ring'.data[p[i - 1]] = inBuffer'[i]
    <3>1. i + n \in 1 .. L /\ i + n - 1 \in n .. L /\ (i + n - 1) - n = i - 1
      BY <1>3, <1>5
    <3>2. p[i - 1] = q[i + n - 1]
      BY <3>1, <1>12
    <3>3. ring.data[q[i + n - 1]] = inBuffer[i + n]
      BY <3>1, <1>4
    <3>4. inBuffer'[i] = inBuffer[i + n] /\ ring'.data = ring.data
      BY <1>7, <1>13
    <3> QED  BY ONLY <3>2, <3>3, <3>4
  <2>5. sentOnce' = sentOnce - n /\ Len(inBuffer') = L - n
    BY <1>2, <1>13
  <2>6. \A i \in 1 .. L - n : ring'.data[p[i - 1]] = inBuffer'[i]
    BY <2>4
  <2> QED  BY ONLY <2>1, <2>2, <2>3, <2>5, <2>6 DEF Places
<1>15. Counted'
  <2>1. ring'.count = ring.count - n /\ ring'.size = m
    BY <1>7 DEF m
  <2>2. /\ sentOnce' = sentOnce - n /\ uncounted' = uncounted /\ Len(inBuffer') = L - n
        /\ n <= sentOnce /\ sentOnce <= L /\ L <= ring.count + uncounted /\ ring.count + uncounted < m
        /\ (~ShortReads => ring.count + uncounted = L)
        /\ ring.count \in Int /\ uncounted \in Nat /\ L \in Nat /\ sentOnce \in Nat /\ m \in Nat
    BY <1>2, <1>3, <1>13
  <2> QED  BY ONLY <2>1, <2>2, n \in Nat DEF Counted
<1>16. CallTypes' /\ sentOnce' \in Nat
  BY <1>2, <1>3 DEF CallTypes, CallRecord
<1> QED
  BY <1>2, <1>3, <1>8, <1>13, <1>14, <1>15, <1>16 DEF SndBufInv

LEMMA SndBufInvNext == SndBufInv /\ [SndBufNext]_sndBufVars => SndBufInv'
<1> SUFFICES ASSUME SndBufInv, [SndBufNext]_sndBufVars PROVE SndBufInv'
  OBVIOUS
<1>1. /\ RingTypes(ring) /\ Counted /\ CallTypes /\ uncounted \in Nat /\ ring.count \in Int /\ Len(inBuffer) \in Nat
  BY DEF SndBufInv, RingTypes
<1>2. SndBufLimit \in Nat \ {0} /\ FileBlock \in Nat \ {0} /\ MaxCallSize \in Nat
  BY SndBufferAssumption
<1>3. ASSUME NEW kind \in {"send", "sendmsg", "sendfile"}, NEW n \in 1 .. MaxCallSize, CallSend(kind, n) PROVE SndBufInv'
  <2>1. /\ sndCall' = [kind |-> kind, left |-> n] /\ uncounted = 0
        /\ ring' = ring /\ uncounted' = uncounted /\ inBuffer' = inBuffer /\ sentOnce' = sentOnce /\ written' = written
    BY <1>3 DEF CallSend
  <2>2. CallTypes'
    BY <2>1, <1>2 DEF CallTypes, CallRecord
  <2>3. Counted' /\ RingTypes(ring')
    BY <2>1, <1>1 DEF Counted
  <2>4. (\E q : Places(q))'
    BY <2>1 DEF SndBufInv, Places
  <2> QED  BY <2>1, <2>2, <2>3, <2>4 DEF SndBufInv
<1>4. CASE WriteCall
  <2> DEFINE room == SndBufLimit - ring.count
             n == Smaller(sndCall.left, room)
  <2>1. /\ (sndCall.kind = "send" /\ room > 0) \/ (sndCall.kind = "sendmsg" /\ room >= sndCall.left)
        /\ AddBlocks(n, n) /\ sndCall' = NoCall
    BY <1>4 DEF WriteCall
  <2>2. sndCall.left \in Nat /\ room \in Int /\ room >= 0 /\ uncounted = 0
    BY <2>1, <1>1, <1>2 DEF CallTypes
  <2> HIDE DEF room
  <2>3. n \in Nat /\ n \in 0 .. n
    BY <2>2 DEF Smaller
  <2>4. sndCall'.kind = "none" /\ sndCall'.left = 0 /\ CallRecord'
    BY <2>1 DEF NoCall, CallRecord
  <2> HIDE DEF n
  <2> QED  BY <2>1, <2>2, <2>3, <2>4, AddBlocksKeeps
<1>5. CASE SendFileBlock
  <2> DEFINE n == Smaller(sndCall.left, FileBlock)
  <2>1. PICK got \in 0 .. n :
            /\ got < n => ShortReads
            /\ AddBlocks(n, got)
            /\ sndCall' = IF got < n \/ n = sndCall.left THEN NoCall ELSE [sndCall EXCEPT !.left = @ - n]
    BY <1>5 DEF SendFileBlock
  <2>2. sndCall.kind = "sendfile" /\ uncounted = 0 /\ sndCall.left \in Nat
    BY <1>1, <1>5 DEF SendFileBlock, CallTypes
  <2>3. n \in Nat /\ n <= sndCall.left
    BY <2>2, <1>2 DEF Smaller
  <2> HIDE DEF n
  <2>4. /\ sndCall'.kind \in {"none", "send", "sendmsg", "sendfile"} /\ sndCall'.left \in Nat
        /\ sndCall'.kind \notin {"send", "sendmsg"} /\ CallRecord'
    <3>1. CASE got < n \/ n = sndCall.left
      BY <3>1, <2>1 DEF NoCall, CallRecord
    <3>2. CASE ~(got < n \/ n = sndCall.left)
      <4>1. sndCall' = [sndCall EXCEPT !.left = sndCall.left - n]
        BY <3>2, <2>1
      <4>2. CallRecord
        BY DEF SndBufInv, CallTypes
      <4>3. sndCall' = [kind |-> sndCall.kind, left |-> sndCall.left - n]
        BY <4>1, <4>2 DEF CallRecord
      <4> QED  BY <4>3, <2>2, <2>3 DEF CallRecord
    <3> QED  BY <3>1, <3>2
  <2> QED  BY <2>1, <2>2, <2>3, <2>4, AddBlocksKeeps
<1>6. CASE CountBlocks
  BY <1>6, CountBlocksKeeps
<1>7. CASE ReadNew
  BY <1>7, ReadNewKeeps
<1>8. ASSUME NEW n \in 1 .. MaxSndPackets, AckSent(n) PROVE SndBufInv'
  BY <1>8, SndBufferAssumption, AckSentKeeps
<1>9. CASE UNCHANGED sndBufVars
  <2>1. /\ sndCall' = sndCall
        /\ ring' = ring /\ uncounted' = uncounted /\ inBuffer' = inBuffer /\ sentOnce' = sentOnce /\ written' = written
    BY <1>9 DEF sndBufVars
  <2>2. CallTypes' /\ Counted' /\ RingTypes(ring')
    BY <2>1, <1>1 DEF Counted, CallTypes, CallRecord
  <2>3. (\E q : Places(q))'
    BY <2>1 DEF SndBufInv, Places
  <2> QED  BY <2>1, <2>2, <2>3 DEF SndBufInv
<1> QED
  BY <1>3, <1>4, <1>5, <1>6, <1>7, <1>8, <1>9 DEF SndBufNext

-----------------------------------------------------------------------------
(* The theorems                                                            *)

LEMMA SndBufInvHolds == SndBufSpec => []SndBufInv
  BY SndBufInvInit, SndBufInvNext, PTL DEF SndBufSpec

\* For rings and units of every size, and however often the ring has grown, wrapped or been
\* freed by ACKs: its blocks are the packets not yet acknowledged, in order (RingIsSequence),
\* so that CSndBuffer may be read as the sequence UdtTransfer takes it for.
THEOREM RingIsSequenceHolds == SndBufSpec => []RingIsSequence
<1>1. SndBufInv => RingIsSequence
  <2> SUFFICES ASSUME SndBufInv PROVE RingIsSequence
    OBVIOUS
  <2> DEFINE L == Len(inBuffer)
  <2>1. PICK q : Places(q)
    BY DEF SndBufInv
  <2>2. /\ RingTypes(ring) /\ inBuffer \in Seq(Nat) /\ L \in Nat /\ sentOnce \in Nat
        /\ sentOnce <= L /\ L <= ring.count + uncounted /\ ring.count + uncounted < ring.size
        /\ ring.size \in Nat \ {0} /\ ring.count + uncounted \in Int
    BY DEF SndBufInv, RingTypes, Counted
  <2>3. /\ RingOf(ring, q) /\ \A i, j \in 0 .. ring.size - 1 : q[i] = q[j] => i = j
        /\ ring.first = q[0] /\ ring.curr = q[sentOnce] /\ ring.last = q[L]
        /\ \A i \in 1 .. L : ring.data[q[i - 1]] = inBuffer[i]
    BY <2>1 DEF Places, RingOf, Circle
  <2>4. L < ring.size /\ L \in 0 .. ring.size - 1 /\ 0 \in 0 .. ring.size - 1
    BY <2>2
  <2>5. ASSUME NEW n \in 0 .. L PROVE BlockAfter(ring, ring.first, n) = q[n]
    <3>1. 0 \in Nat /\ n \in Nat /\ 0 + n < ring.size /\ 0 + n = n
      BY <2>2, <2>4
    <3> HIDE DEF L
    <3>2. BlockAfter(ring, q[0], n) = q[0 + n]
      BY ONLY <3>1, <2>2, <2>3, WalkIs
    <3> QED  BY <3>1, <3>2, <2>3
  <2>6. ASSUME NEW i \in 1 .. L PROVE ReadAgain(i - 1) = inBuffer[i]
    <3>1. i - 1 \in 0 .. L
      BY <2>2
    <3> QED  BY <3>1, <2>3, <2>5 DEF ReadAgain
  <2>7. ring.curr = BlockAfter(ring, ring.first, sentOnce) /\ ring.last = BlockAfter(ring, ring.first, L)
    <3>1. sentOnce \in 0 .. L /\ L \in 0 .. L
      BY <2>2
    <3> QED  BY <3>1, <2>3, <2>5
  <2>8. ring.first = ring.last => inBuffer = << >>
    <3>1. ring.first = ring.last => L = 0
      <4>1. \A i, j \in 0 .. ring.size - 1 : q[i] = q[j] => i = j
        BY <2>3
      <4>2. ring.first = ring.last => q[0] = q[L]
        BY <2>3
      <4> HIDE DEF L
      <4> QED  BY ONLY <4>1, <4>2, <2>4
    <3> QED  BY <3>1, <2>2
  <2> QED  BY <2>6, <2>7, <2>8 DEF RingIsSequence
<1> QED
  BY <1>1, SndBufInvHolds, PTL

\* While no file ends before the size sendfile was asked for, a call waits for room in the
\* buffer only while the peer has something to acknowledge, so some ACK will wake it.
THEOREM WaitsForSomeAckHolds == ASSUME ~ShortReads PROVE SndBufSpec => []WaitsForSomeAck
<1>1. SndBufInv => WaitsForSomeAck
  <2> SUFFICES ASSUME SndBufInv, uncounted = 0, ring.count >= SndBufLimit PROVE inBuffer # << >>
    BY DEF WaitsForSomeAck
  <2>1. ring.count + uncounted = Len(inBuffer) /\ ring.count \in Int
    BY DEF SndBufInv, Counted, RingTypes
  <2>2. Len(inBuffer) # 0
    BY <2>1, SndBufferAssumption
  <2> QED  BY <2>2
<1> QED
  BY <1>1, SndBufInvHolds, PTL

-----------------------------------------------------------------------------
(* The sending heap                                                        *)

SndQueueSpec == SndQueueInit /\ [][SndQueueNext]_sndQueueVars

\* g is n turns of a loop, as a function of the turns done.
Loops(g, S, step, s, n) == g \in [0 .. n -> S] /\ g[0] = s /\ \A k \in 1 .. n : g[k] = step[g[k - 1]]

LEMMA LoopExists ==
    ASSUME NEW S, NEW step \in [S -> S], NEW s \in S, NEW n \in Nat
    PROVE  \E g : Loops(g, S, step, s, n)
<1> DEFINE E == {m \in Nat : \E g : Loops(g, S, step, s, m)}
<1>1. 0 \in E
  <2> DEFINE g == [i \in 0 .. 0 |-> s]
  <2>1. Loops(g, S, step, s, 0)
    BY DEF Loops
  <2> QED  BY <2>1
<1>2. ASSUME NEW m \in Nat, m \in E PROVE m + 1 \in E
  <2>1. PICK g : Loops(g, S, step, s, m)
    BY <1>2
  <2> DEFINE h == [i \in 0 .. m + 1 |-> IF i = m + 1 THEN step[g[m]] ELSE g[i]]
  <2>2. g \in [0 .. m -> S] /\ g[0] = s /\ \A k \in 1 .. m : g[k] = step[g[k - 1]]
    BY <2>1 DEF Loops
  <2>3. /\ \A i \in 0 .. m : h[i] = g[i]
        /\ h[m + 1] = step[g[m]]
        /\ h = [i \in DOMAIN h |-> h[i]] /\ DOMAIN h = 0 .. m + 1
    OBVIOUS
  <2> HIDE DEF h
  <2>4. m \in 0 .. m /\ 0 \in 0 .. m
    OBVIOUS
  <2>5. ASSUME NEW i \in 0 .. m + 1 PROVE h[i] \in S
    <3>1. CASE i = m + 1
      BY <3>1, <2>2, <2>3, <2>4
    <3>2. CASE i # m + 1
      <4>1. i \in 0 .. m
        BY <3>2
      <4> QED  BY <4>1, <2>2, <2>3
    <3> QED  BY <3>1, <3>2
  <2>6. ASSUME NEW k \in 1 .. m + 1 PROVE h[k] = step[h[k - 1]]
    <3>1. k - 1 \in 0 .. m
      OBVIOUS
    <3>2. CASE k = m + 1
      <4>1. k - 1 = m
        BY <3>2
      <4> QED  BY <4>1, <3>1, <3>2, <2>3
    <3>3. CASE k # m + 1
      <4>1. k \in 1 .. m /\ k \in 0 .. m
        BY <3>3
      <4> QED  BY <4>1, <3>1, <2>2, <2>3
    <3> QED  BY <3>2, <3>3
  <2>7. h \in [0 .. m + 1 -> S]
    BY <2>3, <2>5
  <2>8. Loops(h, S, step, s, m + 1)
    BY <2>2, <2>3, <2>4, <2>6, <2>7 DEF Loops
  <2> QED  BY <2>8
<1>3. n \in E
  <2> HIDE DEF E
  <2>1. \A m \in Nat : m \in E => m + 1 \in E
    BY <1>2
  <2>2. \A m \in Nat : m \in E
    BY ONLY <1>1, <2>1, AllNumbers
  <2> QED  BY <2>2
<1> QED
  BY <1>3

\* The sockets of U on the heap know their places there, and nobody else is on it.
Placed(hp, nd, U) ==
    /\ hp \in Seq(U) /\ nd \in [Senders -> [ts : Nat, loc : Nat]]
    /\ \A i \in 1 .. Len(hp) : nd[hp[i]].loc = i
    /\ \A u \in U : nd[u].loc > 0 => nd[u].loc <= Len(hp) /\ hp[nd[u].loc] = u

OnHeap(nd) == {u \in Senders : nd[u].loc > 0}

LEMMA NodeChanged ==
    ASSUME NEW nd \in [Senders -> [ts : Nat, loc : Nat]], NEW u \in Senders, NEW k \in Nat
    PROVE  LET nx == [nd EXCEPT ![u].loc = k]
           IN  /\ nx \in [Senders -> [ts : Nat, loc : Nat]]
               /\ nx[u].loc = k /\ \A v \in Senders : v # u => nx[v].loc = nd[v].loc
<1> DEFINE nx == [nd EXCEPT ![u].loc = k]
<1>1. nd[u] \in [ts : Nat, loc : Nat]
  OBVIOUS
<1>2. [nd[u] EXCEPT !.loc = k] \in [ts : Nat, loc : Nat] /\ [nd[u] EXCEPT !.loc = k].loc = k
  BY <1>1
<1>3. nx = [nd EXCEPT ![u] = [nd[u] EXCEPT !.loc = k]]
  OBVIOUS
<1> QED
  BY <1>2, <1>3

LEMMA SwapPlaced ==
    ASSUME NEW S, NEW U \in SUBSET Senders, Placed(S.heap, S.node, U),
           NEW i \in 1 .. Len(S.heap), NEW j \in 1 .. Len(S.heap), i # j
    PROVE  LET T == Swap(S, i, j)
           IN  /\ T = [heap |-> T.heap, node |-> T.node, at |-> j]
               /\ Placed(T.heap, T.node, U) /\ Len(T.heap) = Len(S.heap) /\ OnHeap(T.node) = OnHeap(S.node)
<1> DEFINE hp == S.heap
           nd == S.node
           a == hp[i]
           b == hp[j]
           h == [hp EXCEPT ![i] = b, ![j] = a]
           n1 == [nd EXCEPT ![a].loc = j]
           n2 == [n1 EXCEPT ![b].loc = i]
<1>1. Swap(S, i, j) = [heap |-> h, node |-> n2, at |-> j]
  BY DEF Swap
<1>2. /\ hp \in Seq(U) /\ nd \in [Senders -> [ts : Nat, loc : Nat]]
      /\ \A k \in 1 .. Len(hp) : nd[hp[k]].loc = k
      /\ \A u \in U : nd[u].loc > 0 => nd[u].loc <= Len(hp) /\ hp[nd[u].loc] = u
      /\ Len(hp) \in Nat /\ DOMAIN hp = 1 .. Len(hp) /\ \A k \in 1 .. Len(hp) : hp[k] \in U
  <2>1. Placed(hp, nd, U)
    OBVIOUS
  <2> HIDE DEF hp, nd
  <2>2. hp \in Seq(U) /\ nd \in [Senders -> [ts : Nat, loc : Nat]]
    BY <2>1 DEF Placed
  <2>3. \A k \in 1 .. Len(hp) : nd[hp[k]].loc = k
    BY <2>1 DEF Placed
  <2>4. \A u \in U : nd[u].loc > 0 => nd[u].loc <= Len(hp) /\ hp[nd[u].loc] = u
    BY <2>1 DEF Placed
  <2>5. Len(hp) \in Nat /\ DOMAIN hp = 1 .. Len(hp) /\ \A k \in 1 .. Len(hp) : hp[k] \in U
    BY <2>2
  <2> QED  BY <2>2, <2>3, <2>4, <2>5
<1>3. a \in U /\ b \in U /\ a \in Senders /\ b \in Senders /\ nd[a].loc = i /\ nd[b].loc = j /\ a # b
  BY <1>2
<1> HIDE DEF hp, nd
<1>4. /\ h \in Seq(U) /\ Len(h) = Len(hp) /\ h[i] = b /\ h[j] = a
      /\ \A k \in 1 .. Len(hp) : k # i /\ k # j => h[k] = hp[k]
  <2>1. /\ DOMAIN h = 1 .. Len(hp) /\ h[i] = b /\ h[j] = a
        /\ \A k \in 1 .. Len(hp) : k # i /\ k # j => h[k] = hp[k]
    <3>1. DOMAIN hp = 1 .. Len(hp) /\ i \in DOMAIN hp /\ j \in DOMAIN hp
      BY <1>2 DEF hp
    <3> HIDE DEF a, b
    <3> QED  BY <3>1
  <2> HIDE DEF h, a, b
  <2>2. h \in [1 .. Len(hp) -> U]
    <3>1. \A k \in 1 .. Len(hp) : h[k] \in U
      BY <2>1, <1>2, <1>3
    <3>2. h = [k \in DOMAIN h |-> h[k]]
      BY DEF h
    <3> QED  BY <2>1, <3>1, <3>2
  <2>3. h \in Seq(U) /\ Len(h) = Len(hp)
    <3>1. Len(hp) \in Nat
      BY <1>2
    <3> QED  BY ONLY <2>2, <3>1
  <2> QED  BY <2>1, <2>3
<1>5. /\ n1 \in [Senders -> [ts : Nat, loc : Nat]] /\ n1[a].loc = j
      /\ \A v \in Senders : v # a => n1[v].loc = nd[v].loc
  <2>1. j \in Nat
    BY <1>2
  <2>2. nd \in [Senders -> [ts : Nat, loc : Nat]] /\ a \in Senders
    BY <1>2, <1>3
  <2> HIDE DEF a
  <2> QED  BY ONLY <2>1, <2>2, NodeChanged DEF n1
<1>6. /\ n2 \in [Senders -> [ts : Nat, loc : Nat]] /\ n2[b].loc = i
      /\ \A v \in Senders : v # b => n2[v].loc = n1[v].loc
  <2>1. i \in Nat
    BY <1>2
  <2> HIDE DEF a, b, n1
  <2> QED  BY ONLY <1>3, <1>5, <2>1, NodeChanged DEF n2
<1> HIDE DEF h, n1, n2, a, b
<1>7. n2[a].loc = j /\ n2[b].loc = i /\ \A v \in Senders : v # a /\ v # b => n2[v].loc = nd[v].loc
  BY <1>3, <1>5, <1>6
<1>8. ASSUME NEW k \in 1 .. Len(h) PROVE n2[h[k]].loc = k
  <2>1. CASE k = i \/ k = j
    BY <2>1, <1>4, <1>7
  <2>2. CASE k # i /\ k # j
    <3>1. k \in 1 .. Len(hp) /\ h[k] = hp[k] /\ hp[k] \in Senders /\ nd[hp[k]].loc = k
      BY <2>2, <1>2, <1>4
    <3>2. hp[k] # a /\ hp[k] # b
      BY <2>2, <3>1, <1>3
    <3> QED  BY <3>1, <3>2, <1>7
  <2> QED  BY <2>1, <2>2
<1>9. ASSUME NEW u \in U, n2[u].loc > 0 PROVE n2[u].loc <= Len(h) /\ h[n2[u].loc] = u
  <2>1. CASE u = a
    <3>1. j <= Len(hp)
      BY <1>2 DEF hp
    <3> QED  BY <2>1, <3>1, <1>4, <1>7
  <2>2. CASE u = b
    <3>1. i <= Len(hp)
      BY <1>2 DEF hp
    <3> QED  BY <2>2, <3>1, <1>4, <1>7
  <2>3. CASE u # a /\ u # b
    <3>1. n2[u].loc = nd[u].loc
      BY <2>3, <1>7
    <3>2. nd[u].loc \in Nat
      BY <1>2
    <3>3. nd[u].loc <= Len(hp) /\ hp[nd[u].loc] = u /\ nd[u].loc \in 1 .. Len(hp)
      BY <3>1, <3>2, <1>2, <1>9
    <3>4. nd[u].loc # i /\ nd[u].loc # j
      BY <2>3, <3>3, <1>3 DEF a, b
    <3> QED  BY <3>1, <3>3, <3>4, <1>4
  <2> QED  BY <2>1, <2>2, <2>3
<1>10. Placed(h, n2, U)
  BY <1>4, <1>6, <1>8, <1>9 DEF Placed
<1>11. ASSUME NEW u \in Senders PROVE (n2[u].loc > 0) <=> (nd[u].loc > 0)
  <2>1. i > 0 /\ j > 0
    BY <1>2
  <2> QED  BY <2>1, <1>3, <1>7
<1>12. OnHeap(n2) = OnHeap(nd)
  BY <1>11 DEF OnHeap
<1> QED
  BY <1>1, <1>4, <1>10, <1>12 DEF hp, nd

\* What a loop makes of the heap it starts from: the same sockets, each at a place it knows.
Sifts(H, U) ==
    {S \in [heap : Seq(U), node : [Senders -> [ts : Nat, loc : Nat]], at : Nat] :
        /\ Placed(S.heap, S.node, U) /\ Len(S.heap) = Len(H.heap) /\ OnHeap(S.node) = OnHeap(H.node)
        /\ S.at \in 1 .. Len(S.heap)}

LEMMA SwapSifts ==
    ASSUME NEW H, NEW U \in SUBSET Senders, NEW S \in Sifts(H, U), NEW j \in 1 .. Len(S.heap), j # S.at
    PROVE  Swap(S, S.at, j) \in Sifts(H, U)
<1> DEFINE T == Swap(S, S.at, j)
<1>1. S.at \in 1 .. Len(S.heap) /\ Placed(S.heap, S.node, U) /\ Len(S.heap) = Len(H.heap) /\ OnHeap(S.node) = OnHeap(H.node)
  BY DEF Sifts
<1>2. /\ T = [heap |-> T.heap, node |-> T.node, at |-> j]
      /\ Placed(T.heap, T.node, U) /\ Len(T.heap) = Len(S.heap) /\ OnHeap(T.node) = OnHeap(S.node)
  BY ONLY <1>1, U \in SUBSET Senders, j \in 1 .. Len(S.heap), j # S.at, SwapPlaced
<1>3. j \in Nat
  <2>1. Len(S.heap) \in Nat
    BY <1>1 DEF Placed
  <2> QED  BY <2>1
<1> HIDE DEF T
<1>4. T \in [heap : Seq(U), node : [Senders -> [ts : Nat, loc : Nat]], at : Nat] /\ T.at = j
  BY <1>2, <1>3 DEF Placed
<1>5. T \in Sifts(H, U)
  BY <1>1, <1>2, <1>4 DEF Sifts
<1> QED
  BY <1>5 DEF T

LEMMA RiseSifts ==
    ASSUME NEW H, NEW U \in SUBSET Senders, NEW S \in Sifts(H, U)
    PROVE  Rise(S) \in Sifts(H, U)
<1>1. S.at \in 1 .. Len(S.heap) /\ Len(S.heap) \in Nat
  BY DEF Sifts, Placed
<1>2. CASE S.at > 1 /\ Stamp(S, S.at \div 2) > Stamp(S, S.at)
  <2>1. S.at \div 2 \in 1 .. Len(S.heap) /\ S.at \div 2 # S.at
    BY <1>1, <1>2
  <2>2. Swap(S, S.at, S.at \div 2) \in Sifts(H, U)
    BY <2>1, SwapSifts
  <2> QED  BY <1>2, <2>2 DEF Rise
<1>3. CASE ~(S.at > 1 /\ Stamp(S, S.at \div 2) > Stamp(S, S.at))
  BY <1>3 DEF Rise
<1> QED
  BY <1>2, <1>3

LEMMA SinkSifts ==
    ASSUME NEW H, NEW U \in SUBSET Senders, NEW S \in Sifts(H, U)
    PROVE  Sink(S) \in Sifts(H, U)
<1> DEFINE left == 2 * S.at
           p == IF left + 1 <= Len(S.heap) /\ Stamp(S, left) > Stamp(S, left + 1) THEN left + 1 ELSE left
<1>1. S.at \in 1 .. Len(S.heap) /\ Len(S.heap) \in Nat
  BY DEF Sifts, Placed
<1>2. CASE left <= Len(S.heap) /\ Stamp(S, S.at) > Stamp(S, p)
  <2>1. p \in 1 .. Len(S.heap) /\ p # S.at
    BY <1>1, <1>2
  <2>2. Swap(S, S.at, p) \in Sifts(H, U)
    <3> HIDE DEF p
    <3> QED  BY <2>1, SwapSifts
  <2>3. Sink(S) = Swap(S, S.at, p)
    BY <1>2 DEF Sink
  <2> QED  BY <2>2, <2>3
<1>3. CASE ~(left <= Len(S.heap) /\ Stamp(S, S.at) > Stamp(S, p))
  <2>1. Sink(S) = S
    BY <1>3 DEF Sink
  <2> QED  BY <2>1
<1> QED
  BY <1>2, <1>3

\* A heap as it was, but for the order.
Reordered(R, H, U) ==
    /\ R = [heap |-> R.heap, node |-> R.node]
    /\ Placed(R.heap, R.node, U) /\ Len(R.heap) = Len(H.heap) /\ OnHeap(R.node) = OnHeap(H.node)

\* The turns of insert_'s loop.
LEMMA SiftUpTurns ==
    ASSUME NEW H, NEW U \in SUBSET Senders, Placed(H.heap, H.node, U), NEW q \in 1 .. Len(H.heap)
    PROVE  \E g : /\ \A k \in 0 .. Len(H.heap) : g[k] \in Sifts(H, U)
                  /\ g[0] = [heap |-> H.heap, node |-> H.node, at |-> q]
                  /\ \A k \in 1 .. Len(H.heap) : g[k] = Rise(g[k - 1])
                  /\ SiftUp(H, q) = [heap |-> g[Len(H.heap)].heap, node |-> g[Len(H.heap)].node]
<1> DEFINE n == Len(H.heap)
           s == [heap |-> H.heap, node |-> H.node, at |-> q]
           W(g, k) == IF k = 0 THEN s ELSE Rise(g[k - 1])
           turn == CHOOSE g : g = [k \in 0 .. n |-> W(g, k)]
           step == [S \in Sifts(H, U) |-> Rise(S)]
<1>1. n \in Nat /\ q \in Nat
  <2>1. n \in Nat
    BY DEF Placed
  <2> QED  BY <2>1
<1>2. s \in Sifts(H, U)
  <2>1. s.heap = H.heap /\ s.node = H.node /\ s.at = q /\ s \in [heap : Seq(U), node : [Senders -> [ts : Nat, loc : Nat]], at : Nat]
    BY <1>1 DEF Placed
  <2> HIDE DEF s
  <2> QED  BY <2>1 DEF Sifts
<1>3. step \in [Sifts(H, U) -> Sifts(H, U)] /\ \A S \in Sifts(H, U) : step[S] = Rise(S)
  BY RiseSifts
<1>4. SiftUp(H, q) = [heap |-> turn[n].heap, node |-> turn[n].node]
  BY DEF SiftUp
<1> HIDE DEF n, s, step
<1>5. PICK f \in [0 .. n -> Sifts(H, U)] : f[0] = s /\ \A k \in 1 .. n : f[k] = step[f[k - 1]]
  <2>1. n \in Nat /\ step \in [Sifts(H, U) -> Sifts(H, U)]
    BY <1>1, <1>3
  <2>2. \E g : Loops(g, Sifts(H, U), step, s, n)
    BY ONLY <2>1, <1>2, LoopExists
  <2> QED  BY ONLY <2>2 DEF Loops
<1>6. f = [k \in 0 .. n |-> W(f, k)]
  <2>1. ASSUME NEW k \in 0 .. n PROVE f[k] = W(f, k)
    <3>1. CASE k = 0
      BY <3>1, <1>5
    <3>2. CASE k # 0
      <4>1. k \in 1 .. n /\ k - 1 \in 0 .. n
        BY <3>2, <1>1
      <4>2. f[k] = step[f[k - 1]] /\ f[k - 1] \in Sifts(H, U)
        BY <4>1, <1>5
      <4> QED  BY <3>2, <4>2, <1>3
    <3> QED  BY <3>1, <3>2
  <2> HIDE DEF W
  <2>2. f = [k \in 0 .. n |-> f[k]]
    BY <1>5
  <2> QED  BY <2>1, <2>2
<1>7. turn = [k \in 0 .. n |-> W(turn, k)]
  BY <1>6
<1> HIDE DEF turn
<1>8. \A k \in 0 .. n : turn[k] = W(turn, k)
  BY <1>7
<1> DEFINE T == {k \in Nat : k <= n => turn[k] \in Sifts(H, U)}
<1>9. 0 \in T
  BY <1>1, <1>2, <1>8
<1>10. ASSUME NEW k \in Nat, k \in T PROVE k + 1 \in T
  <2> SUFFICES ASSUME k + 1 <= n PROVE turn[k + 1] \in Sifts(H, U)
    OBVIOUS
  <2>1. k <= n /\ k + 1 \in 0 .. n /\ k + 1 # 0 /\ (k + 1) - 1 = k
    BY <1>1
  <2>2. turn[k + 1] = Rise(turn[k])
    BY <2>1, <1>8
  <2>3. turn[k] \in Sifts(H, U)
    BY <2>1, <1>10
  <2> QED  BY <2>2, <2>3, RiseSifts
<1>11. \A k \in Nat : k \in T
  <2> HIDE DEF T
  <2>1. \A k \in Nat : k \in T => k + 1 \in T
    BY <1>10
  <2> QED  BY ONLY <1>9, <2>1, AllNumbers
<1>12. \A k \in 0 .. n : turn[k] \in Sifts(H, U)
  BY <1>1, <1>11
<1>13. turn[0] = s
  BY <1>1, <1>8
<1>14. ASSUME NEW k \in 1 .. n PROVE turn[k] = Rise(turn[k - 1])
  <2>1. k \in 0 .. n /\ k # 0
    BY <1>1
  <2> QED  BY <2>1, <1>8
<1> QED
  BY <1>4, <1>12, <1>13, <1>14 DEF n, s

LEMMA SiftUpReorders ==
    ASSUME NEW H, NEW U \in SUBSET Senders, Placed(H.heap, H.node, U), NEW q \in 1 .. Len(H.heap)
    PROVE  Reordered(SiftUp(H, q), H, U)
<1>1. PICK g : /\ \A k \in 0 .. Len(H.heap) : g[k] \in Sifts(H, U)
               /\ g[0] = [heap |-> H.heap, node |-> H.node, at |-> q]
               /\ \A k \in 1 .. Len(H.heap) : g[k] = Rise(g[k - 1])
               /\ SiftUp(H, q) = [heap |-> g[Len(H.heap)].heap, node |-> g[Len(H.heap)].node]
  BY ONLY Placed(H.heap, H.node, U), U \in SUBSET Senders, q \in 1 .. Len(H.heap), SiftUpTurns
<1>2. Len(H.heap) \in 0 .. Len(H.heap)
  <2>1. Len(H.heap) \in Nat
    BY DEF Placed
  <2> QED  BY <2>1
<1>3. PICK S \in Sifts(H, U) : S = g[Len(H.heap)]
  BY <1>1, <1>2
<1>4. PICK R : R = SiftUp(H, q)
  OBVIOUS
<1>5. R = [heap |-> S.heap, node |-> S.node]
  BY <1>1, <1>3, <1>4
<1>6. R.heap = S.heap /\ R.node = S.node
  BY <1>5
<1>7. Placed(S.heap, S.node, U) /\ Len(S.heap) = Len(H.heap) /\ OnHeap(S.node) = OnHeap(H.node)
  BY DEF Sifts
<1> QED
  BY <1>4, <1>5, <1>6, <1>7 DEF Reordered

\* The turns of remove_'s loop.
LEMMA SiftDownTurns ==
    ASSUME NEW H, NEW U \in SUBSET Senders, Placed(H.heap, H.node, U), NEW q \in 1 .. Len(H.heap)
    PROVE  \E g : /\ \A k \in 0 .. Len(H.heap) : g[k] \in Sifts(H, U)
                  /\ g[0] = [heap |-> H.heap, node |-> H.node, at |-> q]
                  /\ \A k \in 1 .. Len(H.heap) : g[k] = Sink(g[k - 1])
                  /\ SiftDown(H, q) = [heap |-> g[Len(H.heap)].heap, node |-> g[Len(H.heap)].node]
<1> DEFINE n == Len(H.heap)
           s == [heap |-> H.heap, node |-> H.node, at |-> q]
           W(g, k) == IF k = 0 THEN s ELSE Sink(g[k - 1])
           turn == CHOOSE g : g = [k \in 0 .. n |-> W(g, k)]
           step == [S \in Sifts(H, U) |-> Sink(S)]
<1>1. n \in Nat /\ q \in Nat
  <2>1. n \in Nat
    BY DEF Placed
  <2> QED  BY <2>1
<1>2. s \in Sifts(H, U)
  <2>1. s.heap = H.heap /\ s.node = H.node /\ s.at = q /\ s \in [heap : Seq(U), node : [Senders -> [ts : Nat, loc : Nat]], at : Nat]
    BY <1>1 DEF Placed
  <2> HIDE DEF s
  <2> QED  BY <2>1 DEF Sifts
<1>3. step \in [Sifts(H, U) -> Sifts(H, U)] /\ \A S \in Sifts(H, U) : step[S] = Sink(S)
  BY SinkSifts
<1>4. SiftDown(H, q) = [heap |-> turn[n].heap, node |-> turn[n].node]
  BY DEF SiftDown
<1> HIDE DEF n, s, step
<1>5. PICK f \in [0 .. n -> Sifts(H, U)] : f[0] = s /\ \A k \in 1 .. n : f[k] = step[f[k - 1]]
  <2>1. n \in Nat /\ step \in [Sifts(H, U) -> Sifts(H, U)]
    BY <1>1, <1>3
  <2>2. \E g : Loops(g, Sifts(H, U), step, s, n)
    BY ONLY <2>1, <1>2, LoopExists
  <2> QED  BY ONLY <2>2 DEF Loops
<1>6. f = [k \in 0 .. n |-> W(f, k)]
  <2>1. ASSUME NEW k \in 0 .. n PROVE f[k] = W(f, k)
    <3>1. CASE k = 0
      BY <3>1, <1>5
    <3>2. CASE k # 0
      <4>1. k \in 1 .. n /\ k - 1 \in 0 .. n
        BY <3>2, <1>1
      <4>2. f[k] = step[f[k - 1]] /\ f[k - 1] \in Sifts(H, U)
        BY <4>1, <1>5
      <4> QED  BY <3>2, <4>2, <1>3
    <3> QED  BY <3>1, <3>2
  <2> HIDE DEF W
  <2>2. f = [k \in 0 .. n |-> f[k]]
    BY <1>5
  <2> QED  BY <2>1, <2>2
<1>7. turn = [k \in 0 .. n |-> W(turn, k)]
  BY <1>6
<1> HIDE DEF turn
<1>8. \A k \in 0 .. n : turn[k] = W(turn, k)
  BY <1>7
<1> DEFINE T == {k \in Nat : k <= n => turn[k] \in Sifts(H, U)}
<1>9. 0 \in T
  BY <1>1, <1>2, <1>8
<1>10. ASSUME NEW k \in Nat, k \in T PROVE k + 1 \in T
  <2> SUFFICES ASSUME k + 1 <= n PROVE turn[k + 1] \in Sifts(H, U)
    OBVIOUS
  <2>1. k <= n /\ k + 1 \in 0 .. n /\ k + 1 # 0 /\ (k + 1) - 1 = k
    BY <1>1
  <2>2. turn[k + 1] = Sink(turn[k])
    BY <2>1, <1>8
  <2>3. turn[k] \in Sifts(H, U)
    BY <2>1, <1>10
  <2> QED  BY <2>2, <2>3, SinkSifts
<1>11. \A k \in Nat : k \in T
  <2> HIDE DEF T
  <2>1. \A k \in Nat : k \in T => k + 1 \in T
    BY <1>10
  <2> QED  BY ONLY <1>9, <2>1, AllNumbers
<1>12. \A k \in 0 .. n : turn[k] \in Sifts(H, U)
  BY <1>1, <1>11
<1>13. turn[0] = s
  BY <1>1, <1>8
<1>14. ASSUME NEW k \in 1 .. n PROVE turn[k] = Sink(turn[k - 1])
  <2>1. k \in 0 .. n /\ k # 0
    BY <1>1
  <2> QED  BY <2>1, <1>8
<1> QED
  BY <1>4, <1>12, <1>13, <1>14 DEF n, s

LEMMA SiftDownReorders ==
    ASSUME NEW H, NEW U \in SUBSET Senders, Placed(H.heap, H.node, U), NEW q \in 1 .. Len(H.heap)
    PROVE  Reordered(SiftDown(H, q), H, U)
<1>1. PICK g : /\ \A k \in 0 .. Len(H.heap) : g[k] \in Sifts(H, U)
               /\ g[0] = [heap |-> H.heap, node |-> H.node, at |-> q]
               /\ \A k \in 1 .. Len(H.heap) : g[k] = Sink(g[k - 1])
               /\ SiftDown(H, q) = [heap |-> g[Len(H.heap)].heap, node |-> g[Len(H.heap)].node]
  BY ONLY Placed(H.heap, H.node, U), U \in SUBSET Senders, q \in 1 .. Len(H.heap), SiftDownTurns
<1>2. Len(H.heap) \in 0 .. Len(H.heap)
  <2>1. Len(H.heap) \in Nat
    BY DEF Placed
  <2> QED  BY <2>1
<1>3. PICK S \in Sifts(H, U) : S = g[Len(H.heap)]
  BY <1>1, <1>2
<1>4. PICK R : R = SiftDown(H, q)
  OBVIOUS
<1>5. R = [heap |-> S.heap, node |-> S.node]
  BY <1>1, <1>3, <1>4
<1>6. R.heap = S.heap /\ R.node = S.node
  BY <1>5
<1>7. Placed(S.heap, S.node, U) /\ Len(S.heap) = Len(H.heap) /\ OnHeap(S.node) = OnHeap(H.node)
  BY DEF Sifts
<1> QED
  BY <1>4, <1>5, <1>6, <1>7 DEF Reordered

-----------------------------------------------------------------------------
(* The order of the heap.  Under(i, j): j is one of the two places under i.  *)

Under(i, j) == j = 2 * i \/ j = 2 * i + 1

\* The times of the entries of a heap.
Times(S) == [i \in 1 .. Len(S.heap) |-> Stamp(S, i)]

IsTimes(t, n) == t \in [1 .. n -> Nat \ {0}]

\* No entry is later than one under it.
InOrder(t, n) == IsTimes(t, n) /\ \A i, j \in 1 .. n : Under(i, j) => t[i] <= t[j]

\* All is in order but what is above a, or but what is under it: whoever is moved from a is passed
\* by what is in order with the others around it.
InOrderBut(t, n, a) == \A i, j \in 1 .. n : Under(i, a) /\ Under(a, j) => t[i] <= t[j]

Rising(t, n, a) ==
    IsTimes(t, n) /\ InOrderBut(t, n, a) /\ \A i, j \in 1 .. n : Under(i, j) /\ j # a => t[i] <= t[j]

Sinking(t, n, a) ==
    IsTimes(t, n) /\ InOrderBut(t, n, a) /\ \A i, j \in 1 .. n : Under(i, j) /\ i # a => t[i] <= t[j]

\* t1 is t with the entries at i and j exchanged.
Exchanged(t1, t, n, i, j) ==
    /\ t1 \in [1 .. n -> Nat \ {0}]
    /\ t1[i] = t[j] /\ t1[j] = t[i]
    /\ \A k \in 1 .. n : k # i /\ k # j => t1[k] = t[k]

LEMMA OneAbove ==
    ASSUME NEW i \in Nat, NEW j \in Nat, NEW a \in Nat, Under(i, a), Under(j, a)
    PROVE  i = j
  BY DEF Under

LEMMA RisingStep ==
    ASSUME NEW n \in Nat, NEW t, NEW t1, NEW a \in 1 .. n, NEW p \in 1 .. n, Under(p, a), Rising(t, n, a),
           t[p] > t[a], Exchanged(t1, t, n, a, p)
    PROVE  Rising(t1, n, p)
<1>1. /\ \A i \in 1 .. n : t[i] \in Nat \ {0} /\ t1[i] \in Nat \ {0}
      /\ t1[a] = t[p] /\ t1[p] = t[a] /\ \A k \in 1 .. n : k # a /\ k # p => t1[k] = t[k]
  BY DEF Exchanged, Rising, IsTimes
<1>2. \A i, j \in 1 .. n : Under(i, j) /\ j # a => t[i] <= t[j]
  BY DEF Rising
<1>3. \A j \in 1 .. n : Under(a, j) => t[p] <= t[j]
  BY DEF Rising, InOrderBut
<1>4. \A i, j \in 1 .. n : Under(i, j) => i # j /\ i < j
  BY DEF Under
<1>5. \A i \in 1 .. n : Under(i, a) => i = p
  BY OneAbove
<1>6. ASSUME NEW i \in 1 .. n, NEW j \in 1 .. n, Under(i, j), j # p PROVE t1[i] <= t1[j]
  <2>1. CASE j = a
    <3>1. i = p
      BY <2>1, <1>5, <1>6
    <3> QED  BY <3>1, <2>1, <1>1
  <2>2. CASE j # a /\ i = a
    BY <2>2, <1>1, <1>3, <1>6
  <2>3. CASE j # a /\ i = p
    <3>1. t[p] <= t[j] /\ t1[j] = t[j] /\ t1[i] = t[a]
      BY <2>3, <1>1, <1>2, <1>6
    <3>2. t[p] \in Nat /\ t[a] \in Nat /\ t[j] \in Nat
      BY <1>1
    <3> QED  BY <3>1, <3>2
  <2>4. CASE j # a /\ i # a /\ i # p
    BY <2>4, <1>1, <1>2, <1>6
  <2> QED  BY <2>1, <2>2, <2>3, <2>4
<1>7. ASSUME NEW i \in 1 .. n, NEW j \in 1 .. n, Under(i, p), Under(p, j) PROVE t1[i] <= t1[j]
  <2>1. i # a /\ i # p /\ p # a /\ j # p
    BY <1>4, <1>7
  <2>2. t1[i] = t[i] /\ t[i] <= t[p]
    BY <2>1, <1>1, <1>2, <1>7
  <2>3. CASE j = a
    BY <2>2, <2>3, <1>1
  <2>4. CASE j # a
    <3>1. t[p] <= t[j] /\ t1[j] = t[j]
      BY <2>1, <2>4, <1>1, <1>2, <1>7
    <3>2. t[p] \in Nat /\ t[i] \in Nat /\ t[j] \in Nat
      BY <1>1
    <3> QED  BY <3>1, <3>2, <2>2
  <2> QED  BY <2>3, <2>4
<1>8. IsTimes(t1, n)
  BY DEF Exchanged, IsTimes
<1> QED
  BY <1>6, <1>7, <1>8 DEF Rising, InOrderBut

LEMMA RisenIsInOrder ==
    ASSUME NEW n \in Nat, NEW t, NEW a \in 1 .. n, Rising(t, n, a),
           a = 1 \/ \E p \in 1 .. n : Under(p, a) /\ ~(t[p] > t[a])
    PROVE  InOrder(t, n)
<1>1. \A i \in 1 .. n : t[i] \in Nat
  BY DEF Rising, IsTimes
<1>2. ASSUME NEW i \in 1 .. n, Under(i, a) PROVE t[i] <= t[a]
  <2>1. a # 1
    BY <1>2 DEF Under
  <2>2. PICK p \in 1 .. n : Under(p, a) /\ ~(t[p] > t[a])
    BY <2>1
  <2>3. p = i
    BY <2>2, <1>2, OneAbove
  <2> QED  BY <2>2, <2>3, <1>1
<1> QED
  BY <1>2 DEF InOrder, Rising

LEMMA SinkingStep ==
    ASSUME NEW n \in Nat, NEW t, NEW t1, NEW a \in 1 .. n, NEW p \in 1 .. n, Under(a, p), Sinking(t, n, a),
           t[a] > t[p], \A j \in 1 .. n : Under(a, j) => t[p] <= t[j], Exchanged(t1, t, n, a, p)
    PROVE  Sinking(t1, n, p)
<1>1. /\ \A i \in 1 .. n : t[i] \in Nat \ {0} /\ t1[i] \in Nat \ {0}
      /\ t1[a] = t[p] /\ t1[p] = t[a] /\ \A k \in 1 .. n : k # a /\ k # p => t1[k] = t[k]
  BY DEF Exchanged, Sinking, IsTimes
<1>2. \A i, j \in 1 .. n : Under(i, j) /\ i # a => t[i] <= t[j]
  BY DEF Sinking
<1>3. \A i \in 1 .. n : Under(i, a) => t[i] <= t[p]
  BY DEF Sinking, InOrderBut
<1>4. \A i, j \in 1 .. n : Under(i, j) => i # j /\ i < j
  BY DEF Under
<1>5. \A i \in 1 .. n : Under(i, p) => i = a
  BY OneAbove
<1>6. ASSUME NEW i \in 1 .. n, NEW j \in 1 .. n, Under(i, j), i # p PROVE t1[i] <= t1[j]
  <2>1. CASE i = a /\ j = p
    BY <2>1, <1>1
  <2>2. CASE i = a /\ j # p
    <3>1. t[p] <= t[j] /\ j # a
      BY <2>2, <1>4, <1>6
    <3> QED  BY <3>1, <2>2, <1>1
  <2>3. CASE i # a /\ j = a
    BY <2>3, <1>1, <1>3, <1>6
  <2>4. CASE i # a /\ j # a
    <3>1. j # p
      BY <2>4, <1>5, <1>6
    <3> QED  BY <3>1, <2>4, <1>1, <1>2, <1>6
  <2> QED  BY <2>1, <2>2, <2>3, <2>4
<1>7. ASSUME NEW i \in 1 .. n, NEW j \in 1 .. n, Under(i, p), Under(p, j) PROVE t1[i] <= t1[j]
  <2>1. i = a /\ j # a /\ j # p /\ p # a
    BY <1>4, <1>5, <1>7
  <2> QED  BY <2>1, <1>1, <1>2, <1>7
<1>8. IsTimes(t1, n)
  BY DEF Exchanged, IsTimes
<1> QED
  BY <1>6, <1>7, <1>8 DEF Sinking, InOrderBut

LEMMA SunkIsInOrder ==
    ASSUME NEW n \in Nat, NEW t, NEW a \in 1 .. n, Sinking(t, n, a), \A j \in 1 .. n : Under(a, j) => t[a] <= t[j]
    PROVE  InOrder(t, n)
  BY DEF Sinking, InOrder

LEMMA InOrderIsBoth ==
    ASSUME NEW n \in Nat, NEW t, InOrder(t, n), NEW a \in 1 .. n
    PROVE  Rising(t, n, a) /\ Sinking(t, n, a)
<1>1. \A i \in 1 .. n : t[i] \in Nat
  BY DEF InOrder, IsTimes
<1>2. ASSUME NEW i \in 1 .. n, NEW j \in 1 .. n, Under(i, a), Under(a, j) PROVE t[i] <= t[j]
  <2>1. t[i] <= t[a] /\ t[a] <= t[j]
    BY <1>2 DEF InOrder
  <2> QED  BY <2>1, <1>1
<1> QED
  BY <1>2 DEF InOrder, Rising, Sinking, InOrderBut

\* Nothing is earlier than the first entry.
LEMMA FirstIsLeast ==
    ASSUME NEW n \in Nat, NEW t, InOrder(t, n), NEW k \in 1 .. n
    PROVE  t[1] <= t[k]
<1>1. \A i \in 1 .. n : t[i] \in Nat
  BY DEF InOrder, IsTimes
<1> DEFINE T == {m \in Nat : \A i \in 1 .. n : i <= m => t[1] <= t[i]}
<1>2. 0 \in T
  OBVIOUS
<1>3. ASSUME NEW m \in Nat, m \in T PROVE m + 1 \in T
  <2> SUFFICES ASSUME m + 1 \in 1 .. n PROVE t[1] <= t[m + 1]
    BY <1>3
  <2>1. CASE m = 0
    BY <2>1, <1>1
  <2>2. CASE m # 0
    <3>1. PICK p \in 1 .. n : Under(p, m + 1) /\ p <= m
      <4> DEFINE p == (m + 1) \div 2
      <4>1. p \in Nat /\ p >= 1 /\ p <= m /\ (m + 1 = 2 * p \/ m + 1 = 2 * p + 1)
        BY <2>2
      <4> QED  BY <4>1 DEF Under
    <3>2. t[1] <= t[p] /\ t[p] <= t[m + 1]
      BY <3>1, <1>3 DEF InOrder
    <3> QED  BY <3>2, <3>1, <1>1
  <2> QED  BY <2>1, <2>2
<1>4. \A m \in Nat : m \in T
  <2> HIDE DEF T
  <2>1. \A m \in Nat : m \in T => m + 1 \in T
    BY <1>3
  <2> QED  BY ONLY <1>2, <2>1, AllNumbers
<1>5. n \in T
  BY <1>4
<1> QED
  BY <1>5

LEMMA SwapTimes ==
    ASSUME NEW H, NEW U \in SUBSET Senders, NEW S \in Sifts(H, U), NEW j \in 1 .. Len(S.heap), j # S.at,
           IsTimes(Times(S), Len(S.heap))
    PROVE  LET T == Swap(S, S.at, j)
           IN  Len(T.heap) = Len(S.heap) /\ Exchanged(Times(T), Times(S), Len(S.heap), S.at, j)
<1>1. PICK T : T = Swap(S, S.at, j)
  OBVIOUS
<1>2. PICK i, n, hp, nd : i = S.at /\ n = Len(S.heap) /\ hp = S.heap /\ nd = S.node
  OBVIOUS
<1>3. /\ hp \in Seq(U) /\ nd \in [Senders -> [ts : Nat, loc : Nat]] /\ i \in 1 .. n
      /\ n \in Nat /\ DOMAIN hp = 1 .. n /\ \A k \in 1 .. n : hp[k] \in Senders
  <2>1. hp \in Seq(U) /\ nd \in [Senders -> [ts : Nat, loc : Nat]] /\ i \in 1 .. n
    BY <1>2 DEF Sifts
  <2>2. n \in Nat /\ DOMAIN hp = 1 .. n
    BY <2>1, <1>2
  <2> QED  BY <2>1, <2>2, <1>2
<1>4. T.heap = [hp EXCEPT ![i] = hp[j], ![j] = hp[i]]
  BY <1>1, <1>2 DEF Swap
<1>5. T.node = [nd EXCEPT ![hp[i]].loc = j, ![hp[j]].loc = i]
  BY <1>1, <1>2 DEF Swap
<1>6. j \in 1 .. n /\ j # i
  BY <1>2
<1>7. /\ DOMAIN T.heap = 1 .. n /\ T.heap[i] = hp[j] /\ T.heap[j] = hp[i]
      /\ \A k \in 1 .. n : k # i /\ k # j => T.heap[k] = hp[k]
  BY <1>3, <1>4, <1>6
<1>8. Len(T.heap) = n
  <2>1. T \in Sifts(H, U)
    BY <1>1, SwapSifts
  <2>2. T.heap \in Seq(U)
    BY <2>1 DEF Sifts
  <2>3. Len(T.heap) \in Nat /\ DOMAIN T.heap = 1 .. Len(T.heap)
    BY <2>2
  <2>4. 1 .. Len(T.heap) = 1 .. n
    BY <2>3, <1>7
  <2> QED  BY ONLY <2>3, <2>4, <1>3
<1>9. \A u \in Senders : T.node[u].ts = nd[u].ts
  <2>1. PICK a, b \in Senders : a = hp[i] /\ b = hp[j]
    BY <1>3, <1>6
  <2>2. T.node = [[nd EXCEPT ![a].loc = j] EXCEPT ![b].loc = i]
    BY <2>1, <1>5
  <2>3. PICK n1 : n1 = [nd EXCEPT ![a].loc = j]
    OBVIOUS
  <2>4. n1 \in [Senders -> [ts : Nat, loc : Nat]] /\ \A u \in Senders : n1[u].ts = nd[u].ts
    <3>1. nd[a] \in [ts : Nat, loc : Nat] /\ j \in Nat
      BY <1>3, <1>6
    <3>2. [nd[a] EXCEPT !.loc = j] \in [ts : Nat, loc : Nat] /\ [nd[a] EXCEPT !.loc = j].ts = nd[a].ts
      BY <3>1
    <3> QED  BY <3>2, <2>3, <1>3
  <2>5. \A u \in Senders : T.node[u].ts = n1[u].ts
    <3>1. n1[b] \in [ts : Nat, loc : Nat]
      BY <2>4
    <3>2. [n1[b] EXCEPT !.loc = i].ts = n1[b].ts
      BY <3>1
    <3>3. T.node = [n1 EXCEPT ![b] = [n1[b] EXCEPT !.loc = i]]
      BY <2>2, <2>3
    <3> QED  BY <3>2, <3>3, <2>4
  <2> QED  BY <2>4, <2>5
<1>10. \A k \in 1 .. n : Times(S)[k] = nd[hp[k]].ts
  BY <1>2 DEF Times, Stamp
<1>11. \A k \in 1 .. n : Times(T)[k] = nd[T.heap[k]].ts
  <2>1. \A k \in 1 .. n : T.heap[k] \in Senders
    BY <1>3, <1>6, <1>7
  <2> QED  BY <2>1, <1>8, <1>9 DEF Times, Stamp
<1>12. \A k \in 1 .. n : Times(S)[k] \in Nat \ {0}
  BY <1>2 DEF IsTimes
<1>13. /\ Times(T)[i] = Times(S)[j] /\ Times(T)[j] = Times(S)[i]
       /\ \A k \in 1 .. n : k # i /\ k # j => Times(T)[k] = Times(S)[k]
  BY <1>3, <1>6, <1>7, <1>10, <1>11
<1>14. \A k \in 1 .. n : Times(T)[k] \in Nat \ {0}
  BY <1>3, <1>6, <1>12, <1>13
<1>15. Times(T) \in [1 .. n -> Nat \ {0}]
  <2>1. Times(T) = [k \in 1 .. n |-> Times(T)[k]]
    BY <1>8 DEF Times
  <2> QED  BY <2>1, <1>14
<1> QED
  BY <1>1, <1>2, <1>8, <1>13, <1>15 DEF Exchanged

LEMMA RiseTimes ==
    ASSUME NEW H, NEW U \in SUBSET Senders, NEW S \in Sifts(H, U), NEW n, n = Len(H.heap), Rising(Times(S), n, S.at)
    PROVE  \/ InOrder(Times(S), n) /\ Rise(S) = S
           \/ Rising(Times(Rise(S)), n, Rise(S).at) /\ Rise(S).at < S.at
<1>1. S.at \in 1 .. n /\ n \in Nat /\ Len(S.heap) = n
  BY DEF Sifts, Placed
<1>2. PICK t : t = Times(S)
  OBVIOUS
<1>3. PICK a : a = S.at
  OBVIOUS
<1>4. \A k \in 1 .. n : Stamp(S, k) = t[k]
  BY <1>1, <1>2 DEF Times
<1>5. a \in 1 .. n /\ Rising(t, n, a) /\ IsTimes(t, n)
  BY <1>1, <1>2, <1>3 DEF Rising
<1>6. CASE a = 1
  <2>1. InOrder(t, n)
    BY <1>1, <1>5, <1>6, RisenIsInOrder
  <2>2. Rise(S) = S
    BY <1>3, <1>6 DEF Rise
  <2> QED  BY <2>1, <2>2, <1>2
<1>7. CASE a # 1
  <2>1. PICK p \in 1 .. n : p = a \div 2 /\ Under(p, a) /\ p < a
    <3> DEFINE p == a \div 2
    <3>1. p \in Nat /\ p >= 1 /\ p < a /\ (a = 2 * p \/ a = 2 * p + 1)
      BY <1>5, <1>7
    <3>2. p \in 1 .. n
      BY <3>1, <1>1, <1>5
    <3> QED  BY <3>1, <3>2 DEF Under
  <2>2. a > 1
    BY <1>5, <1>7
  <2>3. CASE t[p] > t[a]
    <3>1. Rise(S) = Swap(S, a, p)
      BY <1>3, <1>4, <1>5, <2>1, <2>2, <2>3 DEF Rise
    <3>2. Len(Rise(S).heap) = n /\ Exchanged(Times(Rise(S)), t, n, a, p)
      BY <1>1, <1>2, <1>3, <1>5, <2>1, <3>1, SwapTimes
    <3>3. Rise(S).at = p
      BY <3>1 DEF Swap
    <3>4. PICK t1 : t1 = Times(Rise(S))
      OBVIOUS
    <3>5. Exchanged(t1, t, n, a, p)
      BY <3>2, <3>4
    <3>6. Rising(t1, n, p)
      BY ONLY <3>5, <1>1, <1>5, <2>1, <2>3, RisingStep
    <3> QED  BY <3>3, <3>4, <3>6, <2>1, <1>3
  <2>4. CASE ~(t[p] > t[a])
    <3>1. Rise(S) = S
      BY <1>3, <1>4, <1>5, <2>1, <2>4 DEF Rise
    <3>2. InOrder(t, n)
      BY <1>1, <1>5, <2>1, <2>4, RisenIsInOrder
    <3> QED  BY <3>1, <3>2, <1>2
  <2> QED  BY <2>3, <2>4
<1> QED
  BY <1>6, <1>7

LEMMA SinkTimes ==
    ASSUME NEW H, NEW U \in SUBSET Senders, NEW S \in Sifts(H, U), NEW n, n = Len(H.heap), Sinking(Times(S), n, S.at)
    PROVE  \/ InOrder(Times(S), n) /\ Sink(S) = S
           \/ Sinking(Times(Sink(S)), n, Sink(S).at) /\ Sink(S).at > S.at
<1>1. S.at \in 1 .. n /\ n \in Nat /\ Len(S.heap) = n
  BY DEF Sifts, Placed
<1>2. PICK t : t = Times(S)
  OBVIOUS
<1>3. PICK a : a = S.at
  OBVIOUS
<1>4. \A k \in 1 .. n : Stamp(S, k) = t[k]
  BY <1>1, <1>2 DEF Times
<1>5. a \in 1 .. n /\ Sinking(t, n, a) /\ IsTimes(t, n) /\ \A k \in 1 .. n : t[k] \in Nat
  BY <1>1, <1>2, <1>3 DEF Sinking, IsTimes
<1>6. PICK left : left = 2 * a
  OBVIOUS
<1>7. left \in Nat /\ left > a /\ left >= 1
  BY <1>5, <1>6
<1>8. PICK p : p = IF left + 1 <= Len(S.heap) /\ Stamp(S, left) > Stamp(S, left + 1) THEN left + 1 ELSE left
  OBVIOUS
<1>9. Sink(S) = IF left <= n /\ Stamp(S, a) > Stamp(S, p) THEN Swap(S, a, p) ELSE S
  BY <1>1, <1>3, <1>6, <1>8 DEF Sink
<1>10. CASE ~(left <= n)
  <2>1. Sink(S) = S
    BY <1>9, <1>10
  <2>2. \A j \in 1 .. n : ~Under(a, j)
    BY <1>1, <1>5, <1>6, <1>7, <1>10 DEF Under
  <2>3. InOrder(t, n)
    BY <1>1, <1>5, <2>2, SunkIsInOrder
  <2> QED  BY <2>1, <2>3, <1>2
<1>11. CASE left <= n
  <2>1. left \in 1 .. n
    BY <1>1, <1>7, <1>11
  <2>2. p \in 1 .. n /\ Under(a, p) /\ p > a /\ \A j \in 1 .. n : Under(a, j) => t[p] <= t[j]
    <3>1. CASE left + 1 <= n
      <4>1. left + 1 \in 1 .. n
        BY <3>1, <1>1, <1>7
      <4>2. p = IF t[left] > t[left + 1] THEN left + 1 ELSE left
        BY <3>1, <4>1, <2>1, <1>1, <1>4, <1>8
      <4>3. \A j \in 1 .. n : Under(a, j) => j = left \/ j = left + 1
        BY <1>6 DEF Under
      <4>4. t[left] \in Nat /\ t[left + 1] \in Nat
        BY <4>1, <2>1, <1>5
      <4>5. t[p] <= t[left] /\ t[p] <= t[left + 1]
        BY <4>2, <4>4
      <4>6. p = left \/ p = left + 1
        BY <4>2
      <4>7. p \in 1 .. n /\ Under(a, p) /\ p > a
        BY <4>1, <4>6, <2>1, <1>5, <1>6, <1>7 DEF Under
      <4>8. ASSUME NEW j \in 1 .. n, Under(a, j) PROVE t[p] <= t[j]
        BY <4>3, <4>5, <4>8
      <4> QED  BY <4>7, <4>8
    <3>2. CASE ~(left + 1 <= n)
      <4>1. p = left
        BY <3>2, <1>1, <1>8
      <4>2. \A j \in 1 .. n : Under(a, j) => j = left
        BY <3>2, <1>1, <1>6, <1>7 DEF Under
      <4>3. t[left] \in Nat
        BY <2>1, <1>5
      <4> QED  BY <4>1, <4>2, <4>3, <2>1, <1>6, <1>7 DEF Under
    <3> QED  BY <3>1, <3>2
  <2>3. Sink(S) = IF t[a] > t[p] THEN Swap(S, a, p) ELSE S
    BY <2>2, <1>4, <1>5, <1>9, <1>11
  <2>4. CASE t[a] > t[p]
    <3>1. Sink(S) = Swap(S, a, p) /\ p # a
      BY <2>2, <2>3, <2>4, <1>5
    <3>2. Len(Sink(S).heap) = n /\ Exchanged(Times(Sink(S)), t, n, a, p)
      BY <1>1, <1>2, <1>3, <1>5, <2>2, <3>1, SwapTimes
    <3>3. Sink(S).at = p
      BY <3>1 DEF Swap
    <3>4. PICK t1 : t1 = Times(Sink(S))
      OBVIOUS
    <3>5. Exchanged(t1, t, n, a, p)
      BY <3>2, <3>4
    <3>6. Sinking(t1, n, p)
      BY ONLY <3>5, <1>1, <1>5, <2>2, <2>4, SinkingStep
    <3> QED  BY <3>3, <3>4, <3>6, <2>2, <1>3
  <2>5. CASE ~(t[a] > t[p])
    <3>1. Sink(S) = S
      BY <2>3, <2>5
    <3>2. ASSUME NEW j \in 1 .. n, Under(a, j) PROVE t[a] <= t[j]
      <4>1. t[a] \in Nat /\ t[p] \in Nat /\ t[j] \in Nat /\ t[p] <= t[j]
        BY <2>2, <1>5, <3>2
      <4> QED  BY <4>1, <2>5
    <3>3. InOrder(t, n)
      BY <1>1, <1>5, <3>2, SunkIsInOrder
    <3> QED  BY <3>1, <3>3, <1>2
  <2> QED  BY <2>4, <2>5
<1> QED
  BY <1>10, <1>11

\* After insert_'s loop the heap is in order again.
LEMMA SiftUpOrders ==
    ASSUME NEW H, NEW U \in SUBSET Senders, Placed(H.heap, H.node, U), NEW q \in 1 .. Len(H.heap),
           Rising(Times(H), Len(H.heap), q)
    PROVE  InOrder(Times(SiftUp(H, q)), Len(H.heap))
<1>1. PICK n : n = Len(H.heap)
  OBVIOUS
<1>2. n \in Nat /\ q \in Nat /\ q >= 1 /\ q <= n
  <2>1. n \in Nat
    BY <1>1 DEF Placed
  <2> QED  BY <2>1, <1>1
<1>0. PICK g : /\ \A k \in 0 .. Len(H.heap) : g[k] \in Sifts(H, U)
               /\ g[0] = [heap |-> H.heap, node |-> H.node, at |-> q]
               /\ \A k \in 1 .. Len(H.heap) : g[k] = Rise(g[k - 1])
               /\ SiftUp(H, q) = [heap |-> g[Len(H.heap)].heap, node |-> g[Len(H.heap)].node]
  BY ONLY Placed(H.heap, H.node, U), U \in SUBSET Senders, q \in 1 .. Len(H.heap), SiftUpTurns
<1>3. /\ \A k \in 0 .. n : g[k] \in Sifts(H, U)
      /\ g[0] = [heap |-> H.heap, node |-> H.node, at |-> q]
      /\ \A k \in 1 .. n : g[k] = Rise(g[k - 1])
      /\ SiftUp(H, q) = [heap |-> g[n].heap, node |-> g[n].node]
  BY <1>0, <1>1
<1> DEFINE Q(k) == InOrder(Times(g[k]), n) \/ (Rising(Times(g[k]), n, g[k].at) /\ g[k].at <= q - k)
           T == {k \in Nat : k <= n => Q(k)}
<1>4. 0 \in T
  <2>1. PICK S : S = g[0]
    OBVIOUS
  <2>2. S.heap = H.heap /\ S.node = H.node /\ S.at = q
    BY <2>1, <1>3
  <2>3. Times(S) = Times(H)
    BY <2>2 DEF Times, Stamp
  <2>4. Rising(Times(S), n, S.at) /\ S.at <= q - 0
    BY <2>2, <2>3, <1>1, <1>2
  <2> QED  BY <2>1, <2>4
<1>5. ASSUME NEW k \in Nat, k \in T PROVE k + 1 \in T
  <2> SUFFICES ASSUME k + 1 <= n
               PROVE  Q(k + 1)
    <3> HIDE DEF Q
    <3> QED  OBVIOUS
  <2>1. k <= n /\ k + 1 \in 1 .. n /\ k \in 0 .. n /\ k + 1 \in 0 .. n /\ (k + 1) - 1 = k
    BY <1>2
  <2>2. PICK S \in Sifts(H, U) : S = g[k]
    BY <2>1, <1>3
  <2>3. g[k + 1] = Rise(S)
    BY <2>1, <2>2, <1>3
  <2>11. Q(k)
    <3> HIDE DEF Q
    <3> QED  BY <2>1, <1>5
  <2>4. InOrder(Times(S), n) \/ (Rising(Times(S), n, S.at) /\ S.at <= q - k)
    <3>1. S = g[k]
      BY <2>2
    <3> HIDE DEF T
    <3> QED  BY ONLY <3>1, <2>11
  <2>5. S.at \in 1 .. n
    BY <1>1 DEF Sifts
  <2>6. Rising(Times(S), n, S.at)
    BY <2>4, <2>5, <1>2, InOrderIsBoth
  <2>7. \/ InOrder(Times(S), n) /\ Rise(S) = S
        \/ Rising(Times(Rise(S)), n, Rise(S).at) /\ Rise(S).at < S.at
    BY <2>6, <1>1, RiseTimes
  <2>8. CASE InOrder(Times(S), n) /\ Rise(S) = S
    BY <2>3, <2>8
  <2>9. CASE ~InOrder(Times(S), n)
    <3>1. Rising(Times(Rise(S)), n, Rise(S).at) /\ Rise(S).at < S.at /\ S.at <= q - k
      BY <2>4, <2>7, <2>9
    <3>2. Rise(S).at \in Nat /\ S.at \in Nat
      <4>1. Rise(S) \in Sifts(H, U)
        BY RiseSifts
      <4> QED  BY <4>1, <2>5 DEF Sifts
    <3>3. Rise(S).at <= q - (k + 1)
      BY <3>1, <3>2, <1>2
    <3> QED  BY <3>1, <3>3, <2>3
  <2>10. CASE InOrder(Times(S), n) /\ Rise(S) # S
    <3>1. FALSE
      <4>1. \A x : InOrder(Times(S), n) => \A i, j \in 1 .. n : Under(i, j) => Times(S)[i] <= Times(S)[j]
        BY DEF InOrder
      <4>2. \A i \in 1 .. n : Times(S)[i] = Stamp(S, i) /\ Times(S)[i] \in Nat
        BY <2>10, <1>1 DEF InOrder, IsTimes, Times, Sifts
      <4>3. S.at > 1 /\ Stamp(S, S.at \div 2) > Stamp(S, S.at)
        BY <2>10 DEF Rise
      <4>4. PICK p \in 1 .. n : p = S.at \div 2 /\ Under(p, S.at)
        <5>1. PICK a : a = S.at
          OBVIOUS
        <5> DEFINE p == a \div 2
        <5>2. p \in Nat /\ p >= 1 /\ p < a /\ (a = 2 * p \/ a = 2 * p + 1)
          BY <5>1, <4>3, <2>5
        <5>3. p \in 1 .. n
          BY <5>1, <5>2, <2>5, <1>2
        <5> QED  BY <5>1, <5>2, <5>3 DEF Under
      <4> QED  BY <4>2, <4>3, <4>4, <2>5, <2>10 DEF InOrder
    <3> QED  BY <3>1
  <2> QED  BY <2>8, <2>9, <2>10
<1>6. n \in T
  <2> HIDE DEF T
  <2>1. \A k \in Nat : k \in T => k + 1 \in T
    BY <1>5
  <2>2. \A k \in Nat : k \in T
    BY ONLY <1>4, <2>1, AllNumbers
  <2> QED  BY <2>2, <1>2
<1>7. PICK S \in Sifts(H, U) : S = g[n]
  BY <1>2, <1>3
<1>8. InOrder(Times(S), n)
  <2>1. S.at \in 1 .. n
    BY <1>1 DEF Sifts
  <2>2. ~(S.at <= q - n)
    BY <2>1, <1>2
  <2> QED  BY <2>2, <1>2, <1>6, <1>7
<1>9. PICK R : R = SiftUp(H, q)
  OBVIOUS
<1>10. R.heap = S.heap /\ R.node = S.node
  BY <1>3, <1>7, <1>9
<1>11. Times(R) = Times(S)
  BY <1>10 DEF Times, Stamp
<1> QED
  BY <1>1, <1>8, <1>9, <1>11

\* After remove_'s loop the heap is in order again.
LEMMA SiftDownOrders ==
    ASSUME NEW H, NEW U \in SUBSET Senders, Placed(H.heap, H.node, U), NEW q \in 1 .. Len(H.heap),
           Sinking(Times(H), Len(H.heap), q)
    PROVE  InOrder(Times(SiftDown(H, q)), Len(H.heap))
<1>1. PICK n : n = Len(H.heap)
  OBVIOUS
<1>2. n \in Nat /\ q \in Nat /\ q >= 1 /\ q <= n
  <2>1. n \in Nat
    BY <1>1 DEF Placed
  <2> QED  BY <2>1, <1>1
<1>0. PICK g : /\ \A k \in 0 .. Len(H.heap) : g[k] \in Sifts(H, U)
               /\ g[0] = [heap |-> H.heap, node |-> H.node, at |-> q]
               /\ \A k \in 1 .. Len(H.heap) : g[k] = Sink(g[k - 1])
               /\ SiftDown(H, q) = [heap |-> g[Len(H.heap)].heap, node |-> g[Len(H.heap)].node]
  BY ONLY Placed(H.heap, H.node, U), U \in SUBSET Senders, q \in 1 .. Len(H.heap), SiftDownTurns
<1>3. /\ \A k \in 0 .. n : g[k] \in Sifts(H, U)
      /\ g[0] = [heap |-> H.heap, node |-> H.node, at |-> q]
      /\ \A k \in 1 .. n : g[k] = Sink(g[k - 1])
      /\ SiftDown(H, q) = [heap |-> g[n].heap, node |-> g[n].node]
  BY <1>0, <1>1
<1> DEFINE Q(k) == InOrder(Times(g[k]), n) \/ (Sinking(Times(g[k]), n, g[k].at) /\ g[k].at >= q + k)
           T == {k \in Nat : k <= n => Q(k)}
<1>4. 0 \in T
  <2>1. PICK S : S = g[0]
    OBVIOUS
  <2>2. S.heap = H.heap /\ S.node = H.node /\ S.at = q
    BY <2>1, <1>3
  <2>3. Times(S) = Times(H)
    BY <2>2 DEF Times, Stamp
  <2>4. Sinking(Times(S), n, S.at) /\ S.at >= q + 0
    BY <2>2, <2>3, <1>1, <1>2
  <2> QED  BY <2>1, <2>4
<1>5. ASSUME NEW k \in Nat, k \in T PROVE k + 1 \in T
  <2> SUFFICES ASSUME k + 1 <= n
               PROVE  Q(k + 1)
    <3> HIDE DEF Q
    <3> QED  OBVIOUS
  <2>1. k <= n /\ k + 1 \in 1 .. n /\ k \in 0 .. n /\ k + 1 \in 0 .. n /\ (k + 1) - 1 = k
    BY <1>2
  <2>2. PICK S \in Sifts(H, U) : S = g[k]
    BY <2>1, <1>3
  <2>3. g[k + 1] = Sink(S)
    BY <2>1, <2>2, <1>3
  <2>11. Q(k)
    <3> HIDE DEF Q
    <3> QED  BY <2>1, <1>5
  <2>4. InOrder(Times(S), n) \/ (Sinking(Times(S), n, S.at) /\ S.at >= q + k)
    <3>1. S = g[k]
      BY <2>2
    <3> HIDE DEF T
    <3> QED  BY ONLY <3>1, <2>11
  <2>5. S.at \in 1 .. n
    BY <1>1 DEF Sifts
  <2>6. Sinking(Times(S), n, S.at)
    BY <2>4, <2>5, <1>2, InOrderIsBoth
  <2>7. \/ InOrder(Times(S), n) /\ Sink(S) = S
        \/ Sinking(Times(Sink(S)), n, Sink(S).at) /\ Sink(S).at > S.at
    BY <2>6, <1>1, SinkTimes
  <2>8. CASE InOrder(Times(S), n) /\ Sink(S) = S
    BY <2>3, <2>8
  <2>9. CASE ~InOrder(Times(S), n)
    <3>1. Sinking(Times(Sink(S)), n, Sink(S).at) /\ Sink(S).at > S.at /\ S.at >= q + k
      BY <2>4, <2>7, <2>9
    <3>2. Sink(S).at \in Nat /\ S.at \in Nat
      <4>1. Sink(S) \in Sifts(H, U)
        BY SinkSifts
      <4> QED  BY <4>1, <2>5 DEF Sifts
    <3>3. Sink(S).at >= q + (k + 1)
      BY <3>1, <3>2, <1>2
    <3> QED  BY <3>1, <3>3, <2>3
  <2>10. CASE InOrder(Times(S), n) /\ Sink(S) # S
    <3>1. FALSE
      <4>1. \A x : InOrder(Times(S), n) => \A i, j \in 1 .. n : Under(i, j) => Times(S)[i] <= Times(S)[j]
        BY DEF InOrder
      <4>2. \A i \in 1 .. n : Times(S)[i] = Stamp(S, i) /\ Times(S)[i] \in Nat
        BY <2>10, <1>1 DEF InOrder, IsTimes, Times, Sifts
      <4>3. PICK a, left : a = S.at /\ left = 2 * a
        OBVIOUS
      <4>4. PICK p : p = IF left + 1 <= Len(S.heap) /\ Stamp(S, left) > Stamp(S, left + 1) THEN left + 1 ELSE left
        OBVIOUS
      <4>5. left <= Len(S.heap) /\ Stamp(S, a) > Stamp(S, p)
        BY <4>3, <4>4, <2>10 DEF Sink
      <4>6. Len(S.heap) = n /\ left \in Nat
        BY <4>3, <2>5, <1>1 DEF Sifts
      <4>7. p \in 1 .. n /\ Under(a, p)
        BY <4>3, <4>4, <4>5, <4>6, <2>5, <1>2 DEF Under
      <4>8. Times(S)[a] <= Times(S)[p]
        BY <4>3, <4>7, <2>5, <2>10 DEF InOrder
      <4> QED  BY <4>2, <4>3, <4>5, <4>7, <4>8, <2>5
    <3> QED  BY <3>1
  <2> QED  BY <2>8, <2>9, <2>10
<1>6. n \in T
  <2> HIDE DEF T
  <2>1. \A k \in Nat : k \in T => k + 1 \in T
    BY <1>5
  <2>2. \A k \in Nat : k \in T
    BY ONLY <1>4, <2>1, AllNumbers
  <2> QED  BY <2>2, <1>2
<1>7. PICK S \in Sifts(H, U) : S = g[n]
  BY <1>2, <1>3
<1>8. InOrder(Times(S), n)
  <2>1. S.at \in 1 .. n
    BY <1>1 DEF Sifts
  <2>2. ~(S.at >= q + n)
    BY <2>1, <1>2
  <2> QED  BY <2>2, <1>2, <1>6, <1>7
<1>9. PICK R : R = SiftDown(H, q)
  OBVIOUS
<1>10. R.heap = S.heap /\ R.node = S.node
  BY <1>3, <1>7, <1>9
<1>11. Times(R) = Times(S)
  BY <1>10 DEF Times, Stamp
<1> QED
  BY <1>1, <1>8, <1>9, <1>11

-----------------------------------------------------------------------------
(* insert_ and remove_                                                     *)

LEMMA InsertedIs ==
    ASSUME NEW H, H = [heap |-> H.heap, node |-> H.node], Placed(H.heap, H.node, Senders),
           NEW u \in Senders, NEW ts \in Nat
    PROVE  LET R == Inserted(H, u, ts)
           IN  /\ R = [heap |-> R.heap, node |-> R.node] /\ Placed(R.heap, R.node, Senders)
               /\ OnHeap(R.node) = OnHeap(H.node) \cup {u}
               /\ H.node[u].loc = 0 => Len(R.heap) = Len(H.heap) + 1
               /\ ts # 0 /\ InOrder(Times(H), Len(H.heap)) => InOrder(Times(R), Len(R.heap))
<1>1. /\ H.heap \in Seq(Senders) /\ H.node \in [Senders -> [ts : Nat, loc : Nat]] /\ Len(H.heap) \in Nat
      /\ \A i \in 1 .. Len(H.heap) : H.node[H.heap[i]].loc = i
      /\ \A v \in Senders : H.node[v].loc > 0 => H.node[v].loc <= Len(H.heap) /\ H.heap[H.node[v].loc] = v
      /\ \A i \in 1 .. Len(H.heap) : H.heap[i] \in Senders
      /\ \A v \in Senders : H.node[v].loc \in Nat
  BY DEF Placed
<1>2. CASE H.node[u].loc > 0
  <2>1. Inserted(H, u, ts) = H
    BY <1>2 DEF Inserted
  <2> QED  BY <1>2, <2>1 DEF OnHeap
<1>3. CASE ~(H.node[u].loc > 0)
  <2> DEFINE n == Len(H.heap)
             h == Append(H.heap, u)
             nd == [H.node EXCEPT ![u] = [ts |-> ts, loc |-> n + 1]]
             M == [heap |-> h, node |-> nd]
  <2>1. Inserted(H, u, ts) = SiftUp(M, n + 1)
    BY <1>3 DEF Inserted
  <2>2. h \in Seq(Senders) /\ Len(h) = n + 1 /\ h[n + 1] = u /\ \A i \in 1 .. n : h[i] = H.heap[i]
    BY <1>1
  <2>3. nd \in [Senders -> [ts : Nat, loc : Nat]] /\ nd[u].loc = n + 1 /\ \A v \in Senders : v # u => nd[v] = H.node[v]
    BY <1>1
  <2> HIDE DEF h, nd
  <2>4. ASSUME NEW i \in 1 .. n + 1 PROVE nd[h[i]].loc = i
    <3>1. CASE i = n + 1
      BY <3>1, <2>2, <2>3
    <3>2. CASE i # n + 1
      <4>1. i \in 1 .. n
        BY <3>2, <1>1
      <4>2. H.heap[i] \in Senders /\ H.node[H.heap[i]].loc = i /\ i > 0
        BY <4>1, <1>1
      <4>3. H.heap[i] # u
        BY <4>2, <1>3
      <4> QED  BY <4>1, <4>2, <4>3, <2>2, <2>3
    <3> QED  BY <3>1, <3>2
  <2>5. ASSUME NEW v \in Senders, nd[v].loc > 0 PROVE nd[v].loc <= n + 1 /\ h[nd[v].loc] = v
    <3>1. CASE v = u
      BY <3>1, <1>1, <2>2, <2>3
    <3>2. CASE v # u
      <4>1. nd[v].loc = H.node[v].loc
        BY <3>2, <2>3
      <4>2. H.node[v].loc <= n /\ H.heap[H.node[v].loc] = v /\ H.node[v].loc \in Nat
        BY <4>1, <1>1, <2>5
      <4>3. H.node[v].loc \in 1 .. n /\ H.node[v].loc <= n + 1
        BY <4>1, <4>2, <1>1, <2>5
      <4> QED  BY <4>1, <4>2, <4>3, <2>2
    <3> QED  BY <3>1, <3>2
  <2>6. Placed(h, nd, Senders)
    BY <2>2, <2>3, <2>4, <2>5 DEF Placed
  <2>7. M.heap = h /\ M.node = nd /\ n + 1 \in 1 .. Len(M.heap)
    BY <1>1, <2>2
  <2> HIDE DEF M
  <2>8. Reordered(SiftUp(M, n + 1), M, Senders)
    <3>1. Placed(M.heap, M.node, Senders)
      BY <2>6, <2>7
    <3> QED  BY <2>7, <3>1, SiftUpReorders
  <2>9. OnHeap(nd) = OnHeap(H.node) \cup {u}
    <3>1. ASSUME NEW v \in Senders PROVE (nd[v].loc > 0) <=> (v = u \/ H.node[v].loc > 0)
      BY <1>1, <2>3
    <3> QED  BY <3>1 DEF OnHeap
  <2>10. ASSUME ts # 0, InOrder(Times(H), n) PROVE InOrder(Times(SiftUp(M, n + 1)), n + 1)
    <3>1. PICK t, t1 : t = Times(H) /\ t1 = Times(M)
      OBVIOUS
    <3>2. \A i \in 1 .. n : t[i] = H.node[H.heap[i]].ts /\ t[i] \in Nat \ {0}
      BY <2>10, <3>1 DEF Times, Stamp, InOrder, IsTimes
    <3>3. \A i \in 1 .. n + 1 : t1[i] = nd[h[i]].ts
      BY <2>2, <2>7, <3>1 DEF Times, Stamp
    <3>4. \A i \in 1 .. n : t1[i] = t[i]
      <4> TAKE i \in 1 .. n
      <4>1. i \in 1 .. n + 1 /\ h[i] = H.heap[i] /\ H.heap[i] \in Senders /\ i > 0 /\ H.node[H.heap[i]].loc = i
        BY <1>1, <2>2
      <4>2. H.heap[i] # u
        BY <4>1, <1>3
      <4> QED  BY <4>1, <4>2, <3>2, <3>3, <2>3
    <3>5. t1[n + 1] = ts
      <4>1. n + 1 \in 1 .. n + 1
        BY <1>1
      <4>2. nd[u].ts = ts
        BY <1>1 DEF nd
      <4> QED  BY <4>1, <4>2, <3>3, <2>2
    <3>6. n \in Nat /\ \A i \in 1 .. n + 1 : i = n + 1 \/ i \in 1 .. n
      BY <1>1
    <3>7. IsTimes(t1, n + 1)
      <4>1. \A i \in 1 .. n + 1 : t1[i] \in Nat \ {0}
        BY <2>10, <3>2, <3>4, <3>5, <3>6
      <4>2. t1 = [i \in 1 .. n + 1 |-> t1[i]]
        BY <2>2, <2>7, <3>1 DEF Times
      <4> QED  BY <4>1, <4>2 DEF IsTimes
    <3>8. \A i, j \in 1 .. n + 1 : Under(i, j) => i < j
      BY <3>6 DEF Under
    <3>9. \A i, j \in 1 .. n : Under(i, j) => t[i] <= t[j]
      BY <2>10, <3>1 DEF InOrder
    <3>10. ASSUME NEW i \in 1 .. n + 1, NEW j \in 1 .. n + 1, Under(i, j), j # n + 1 PROVE t1[i] <= t1[j]
      <4>1. i \in 1 .. n /\ j \in 1 .. n
        BY <3>6, <3>8, <3>10
      <4> QED  BY <4>1, <3>4, <3>9, <3>10
    <3>11. \A j \in 1 .. n + 1 : ~Under(n + 1, j)
      BY <3>6 DEF Under
    <3>12. Rising(t1, n + 1, n + 1)
      BY <3>7, <3>10, <3>11 DEF Rising, InOrderBut
    <3>13. Placed(M.heap, M.node, Senders) /\ Len(M.heap) = n + 1 /\ Senders \in SUBSET Senders
      BY <2>2, <2>6, <2>7
    <3>14. n + 1 \in 1 .. Len(M.heap) /\ Rising(Times(M), Len(M.heap), n + 1)
      BY <2>7, <3>1, <3>12, <3>13
    <3>15. InOrder(Times(SiftUp(M, n + 1)), Len(M.heap))
      BY ONLY <3>13, <3>14, SiftUpOrders
    <3> QED  BY <3>13, <3>15
  <2> QED  BY <2>1, <2>2, <2>7, <2>8, <2>9, <2>10 DEF Reordered
<1> QED
  BY <1>2, <1>3

LEMMA RemovedIs ==
    ASSUME NEW H, H = [heap |-> H.heap, node |-> H.node], Placed(H.heap, H.node, Senders), NEW u \in Senders
    PROVE  LET R == Removed(H, u)
           IN  /\ R = [heap |-> R.heap, node |-> R.node] /\ Placed(R.heap, R.node, Senders)
               /\ OnHeap(R.node) = OnHeap(H.node) \ {u} /\ R.node[u].loc = 0
               /\ H.node[u].loc = 0 => R = H
               /\ H.node[u].loc > 0 => Len(R.heap) = Len(H.heap) - 1
               /\ InOrder(Times(H), Len(H.heap)) /\ (H.node[u].loc = 1 \/ Len(H.heap) <= 5) =>
                      InOrder(Times(R), Len(R.heap))
<1>1. /\ H.heap \in Seq(Senders) /\ H.node \in [Senders -> [ts : Nat, loc : Nat]] /\ Len(H.heap) \in Nat
      /\ \A i \in 1 .. Len(H.heap) : H.node[H.heap[i]].loc = i
      /\ \A v \in Senders : H.node[v].loc > 0 => H.node[v].loc <= Len(H.heap) /\ H.heap[H.node[v].loc] = v
      /\ \A i \in 1 .. Len(H.heap) : H.heap[i] \in Senders
      /\ \A v \in Senders : H.node[v].loc \in Nat
  BY DEF Placed
<1>2. CASE H.node[u].loc = 0
  <2>1. Removed(H, u) = H
    BY <1>2 DEF Removed
  <2>2. u \notin OnHeap(H.node)
    BY <1>2 DEF OnHeap
  <2> QED  BY <1>2, <2>1, <2>2
<1>3. CASE H.node[u].loc # 0
  <2> DEFINE loc == H.node[u].loc
             n == Len(H.heap)
             last == H.heap[n]
             U == Senders \ {u}
             h == SubSeq([H.heap EXCEPT ![loc] = last], 1, n - 1)
             nd == [H.node EXCEPT ![last].loc = loc]
             M == [heap |-> h, node |-> nd]
             X == IF loc < n THEN SiftDown(M, loc) ELSE M
  <2>1. loc \in 1 .. n /\ H.heap[loc] = u /\ n \in Nat /\ n \in 1 .. n /\ last \in Senders /\ H.node[last].loc = n
    BY <1>1, <1>3
  <2>2. Removed(H, u) = [X EXCEPT !.node[u].loc = 0]
    BY <1>3 DEF Removed, Sifted, PlaceTold
  <2>3. /\ nd \in [Senders -> [ts : Nat, loc : Nat]] /\ nd[last].loc = loc
        /\ \A v \in Senders : v # last => nd[v].loc = H.node[v].loc
    <3>1. loc \in Nat /\ last \in Senders /\ H.node \in [Senders -> [ts : Nat, loc : Nat]]
      BY <1>1, <2>1
    <3> HIDE DEF loc, last
    <3> QED  BY ONLY <3>1, NodeChanged DEF nd
  <2>4. /\ h \in Seq(Senders) /\ Len(h) = n - 1
        /\ loc < n => h[loc] = last
        /\ \A i \in 1 .. n - 1 : i # loc => h[i] = H.heap[i]
    <3> DEFINE g == [H.heap EXCEPT ![loc] = last]
    <3>1. DOMAIN H.heap = 1 .. n
      BY <1>1
    <3> HIDE DEF loc, last
    <3>2. /\ DOMAIN g = 1 .. n /\ g[loc] = last /\ \A i \in 1 .. n : i # loc => g[i] = H.heap[i]
          /\ g = [i \in DOMAIN g |-> g[i]]
      BY <2>1, <3>1
    <3>3. h = SubSeq(g, 1, n - 1)
      BY DEF h
    <3> HIDE DEF g, n
    <3>4. g \in Seq(Senders) /\ Len(g) = n
      <4>1. \A i \in 1 .. n : g[i] \in Senders
        BY <1>1, <2>1, <3>2 DEF n
      <4>2. g \in [1 .. n -> Senders] /\ n \in Nat
        BY <4>1, <3>2, <2>1
      <4> QED  BY ONLY <4>2
    <3>5. SubSeq(g, 1, n - 1) \in Seq(Senders) /\ Len(SubSeq(g, 1, n - 1)) = n - 1
      BY ONLY <3>4, <2>1
    <3>6. ASSUME NEW i \in 1 .. n - 1 PROVE SubSeq(g, 1, n - 1)[i] = g[i] /\ i \in 1 .. n
      BY ONLY <3>4, <2>1, i \in 1 .. n - 1
    <3>7. loc < n => h[loc] = last
      BY <2>1, <3>2, <3>3, <3>6
    <3>8. \A i \in 1 .. n - 1 : i # loc => h[i] = H.heap[i]
      BY <3>2, <3>3, <3>6
    <3> QED  BY <3>3, <3>5, <3>7, <3>8
  <2> HIDE DEF h, nd, loc, n, last
  <2>5. ASSUME NEW i \in 1 .. n - 1 PROVE h[i] # u /\ nd[h[i]].loc = i
    <3>1. i \in 1 .. n /\ i # n /\ i < n
      BY <2>1
    <3>2. CASE i = loc
      <4>1. h[i] = last
        BY <3>1, <3>2, <2>4
      <4>2. last # u
        BY <3>1, <3>2, <2>1 DEF loc
      <4> QED  BY <4>1, <4>2, <3>2, <2>3
    <3>3. CASE i # loc
      <4>1. h[i] = H.heap[i] /\ H.node[H.heap[i]].loc = i /\ H.heap[i] \in Senders
        BY <3>1, <3>3, <1>1, <2>4 DEF n
      <4>2. H.heap[i] # last /\ H.heap[i] # u
        BY <4>1, <3>1, <3>3, <2>1 DEF loc
      <4> QED  BY <4>1, <4>2, <2>3
    <3> QED  BY <3>2, <3>3
  <2>6. ASSUME NEW v \in U, nd[v].loc > 0 PROVE nd[v].loc <= n - 1 /\ h[nd[v].loc] = v
    <3>1. CASE v = last
      <4>1. loc # n
        BY <3>1, <2>1 DEF last
      <4>2. loc < n
        BY <4>1, <2>1
      <4>3. loc <= n - 1
        BY <4>2, <2>1
      <4> QED  BY <3>1, <4>2, <4>3, <2>3, <2>4
    <3>2. CASE v # last
      <4>1. nd[v].loc = H.node[v].loc
        BY <3>2, <2>3
      <4>2. H.node[v].loc <= n /\ H.heap[H.node[v].loc] = v /\ H.node[v].loc \in Nat
        BY <4>1, <1>1, <2>6 DEF n
      <4>3. H.node[v].loc # n
        BY <4>2, <3>2 DEF last
      <4>4. H.node[v].loc # loc
        BY <4>2, <2>1
      <4>5. H.node[v].loc \in 1 .. n - 1
        BY <4>1, <4>2, <4>3, <2>1, <2>6
      <4>6. H.node[v].loc <= n - 1
        BY <4>5
      <4> QED  BY <4>1, <4>2, <4>4, <4>5, <4>6, <2>4
    <3> QED  BY <3>1, <3>2
  <2>7. Placed(h, nd, U)
    <3>1. h \in Seq(U)
      <4>1. \A i \in 1 .. Len(h) : h[i] \in U
        BY <2>4, <2>5
      <4> QED  BY <4>1, <2>4
    <3> QED  BY <3>1, <2>3, <2>4, <2>5, <2>6 DEF Placed
  <2>8. Reordered(X, M, U)
    <3>1. M.heap = h /\ M.node = nd /\ M = [heap |-> M.heap, node |-> M.node]
      OBVIOUS
    <3> HIDE DEF M
    <3>2. CASE loc < n
      <4>1. loc \in 1 .. Len(M.heap) /\ Placed(M.heap, M.node, U) /\ U \in SUBSET Senders
        BY <2>1, <2>4, <2>7, <3>1, <3>2
      <4> HIDE DEF U
      <4>2. Reordered(SiftDown(M, loc), M, U)
        BY ONLY <4>1, SiftDownReorders
      <4> QED  BY <3>2, <4>2
    <3>3. CASE ~(loc < n)
      BY <2>7, <3>1, <3>3 DEF Reordered
    <3> QED  BY <3>2, <3>3
  <2>9. M.heap = h /\ M.node = nd
    OBVIOUS
  <2>15. ASSUME InOrder(Times(H), n), loc = 1 \/ n <= 5 PROVE InOrder(Times(X), n - 1)
    <3>1. PICK t, t1 : t = Times(H) /\ t1 = Times(M)
      OBVIOUS
    <3>2. \A i \in 1 .. n : t[i] = H.node[H.heap[i]].ts /\ t[i] \in Nat \ {0}
      BY <2>15, <3>1 DEF Times, Stamp, InOrder, IsTimes, n
    <3>3. \A v \in Senders : nd[v].ts = H.node[v].ts
      <4>1. H.node[last] \in [ts : Nat, loc : Nat] /\ loc \in Nat
        BY <2>1, <1>1
      <4>2. [H.node[last] EXCEPT !.loc = loc].ts = H.node[last].ts
        BY <4>1
      <4>3. nd = [H.node EXCEPT ![last] = [H.node[last] EXCEPT !.loc = loc]]
        BY DEF nd
      <4> QED  BY <4>2, <4>3, <1>1
    <3>4. \A i \in 1 .. n - 1 : t1[i] = H.node[h[i]].ts
      <4>1. \A i \in 1 .. n - 1 : h[i] \in Senders
        BY <2>4
      <4>2. \A i \in 1 .. n - 1 : t1[i] = nd[h[i]].ts
        BY <2>4, <2>9, <3>1 DEF Times, Stamp
      <4> QED  BY <4>1, <4>2, <3>3
    <3>5. \A i \in 1 .. n - 1 : i \in 1 .. n
      BY <2>1
    <3>6. \A i \in 1 .. n - 1 : i # loc => t1[i] = t[i]
      BY <2>4, <3>2, <3>4, <3>5
    <3>7. loc < n => t1[loc] = t[n] /\ loc \in 1 .. n - 1
      <4> SUFFICES ASSUME loc < n PROVE t1[loc] = t[n] /\ loc \in 1 .. n - 1
        OBVIOUS
      <4>1. loc \in 1 .. n - 1
        BY <2>1
      <4> QED  BY <4>1, <2>1, <2>4, <3>2, <3>4 DEF last
    <3>8. IsTimes(t1, n - 1)
      <4>1. \A i \in 1 .. n - 1 : t1[i] \in Nat \ {0}
        BY <2>1, <3>2, <3>5, <3>6, <3>7
      <4>2. t1 = [i \in 1 .. n - 1 |-> t1[i]]
        BY <2>4, <2>9, <3>1 DEF Times
      <4> QED  BY <4>1, <4>2 DEF IsTimes
    <3>9. \A i, j \in 1 .. n : Under(i, j) => t[i] <= t[j]
      BY <2>15, <3>1 DEF InOrder
    <3>10. \A i, j \in 1 .. n : Under(i, j) => i < j
      BY DEF Under
    <3>11. CASE ~(loc < n)
      <4>1. X = M /\ loc = n
        BY <3>11, <2>1
      <4>2. \A i \in 1 .. n - 1 : t1[i] = t[i]
        BY <4>1, <2>1, <3>6
      <4>3. InOrder(t1, n - 1)
        BY <4>2, <3>5, <3>8, <3>9 DEF InOrder
      <4> QED  BY <4>1, <4>3, <3>1
    <3>12. CASE loc < n
      <4>1. loc \in 1 .. n - 1 /\ loc \in 1 .. n /\ t1[loc] = t[n]
        BY <3>5, <3>7, <3>12
      <4>2. ASSUME NEW i \in 1 .. n - 1, NEW j \in 1 .. n - 1, Under(i, j), i # loc, j # loc PROVE t1[i] <= t1[j]
        BY <4>2, <3>5, <3>6, <3>9
      <4>3. ASSUME NEW i \in 1 .. n - 1, Under(i, loc) PROVE t[i] <= t[n] /\ i # loc
        <5>1. i \in 1 .. n /\ i < loc
          BY <4>1, <4>3, <3>5, <3>10
        <5>2. n <= 5
          BY <5>1, <2>1, <2>15
        <5>3. CASE i = 1
          <6>1. t[1] <= t[n]
            BY <2>1, <2>15, <3>1, FirstIsLeast
          <6> QED  BY <6>1, <5>1, <5>3, <2>1
        <5>4. CASE i # 1
          <6>1. i = 2 /\ loc = 4 /\ n = 5
            BY <5>1, <5>2, <5>4, <4>3, <3>12, <2>1 DEF Under
          <6>2. Under(2, 5)
            BY DEF Under
          <6> QED  BY <6>1, <6>2, <3>9, <5>1, <2>1
        <5> QED  BY <5>3, <5>4
      <4>4. ASSUME NEW i \in 1 .. n - 1, Under(i, loc) PROVE t1[i] <= t1[loc]
        BY <4>1, <4>3, <4>4, <3>6
      <4>5. ASSUME NEW i \in 1 .. n - 1, NEW j \in 1 .. n - 1, Under(i, loc), Under(loc, j) PROVE t1[i] <= t1[j]
        <5>1. i \in 1 .. n /\ j \in 1 .. n /\ i # loc /\ j # loc
          BY <4>1, <4>5, <3>5, <3>10
        <5>2. t[i] <= t[loc] /\ t[loc] <= t[j]
          BY <5>1, <4>1, <4>5, <3>9
        <5>3. t[i] \in Nat /\ t[loc] \in Nat /\ t[j] \in Nat
          BY <5>1, <4>1, <3>2
        <5> QED  BY <5>1, <5>2, <5>3, <3>6
      <4>6. Sinking(t1, n - 1, loc)
        BY <3>8, <4>2, <4>4, <4>5 DEF Sinking, InOrderBut
      <4>7. U \in SUBSET Senders /\ Placed(M.heap, M.node, U) /\ Len(M.heap) = n - 1
        BY <2>4, <2>7, <2>9
      <4>8. loc \in 1 .. Len(M.heap) /\ Sinking(Times(M), Len(M.heap), loc)
        BY <4>1, <4>6, <4>7, <3>1
      <4> HIDE DEF M, U
      <4>9. InOrder(Times(SiftDown(M, loc)), Len(M.heap))
        BY ONLY <4>7, <4>8, SiftDownOrders
      <4> QED  BY <4>7, <4>9, <3>12
    <3> QED  BY <3>11, <3>12
  <2> HIDE DEF M, X
  <2> DEFINE nx == [X.node EXCEPT ![u].loc = 0]
  <2>10. /\ X = [heap |-> X.heap, node |-> X.node] /\ Placed(X.heap, X.node, U)
         /\ Len(X.heap) = n - 1 /\ OnHeap(X.node) = OnHeap(nd)
    BY <2>4, <2>8, <2>9 DEF Reordered
  <2>11. Removed(H, u) = [heap |-> X.heap, node |-> nx]
    BY <2>2, <2>10
  <2>12. /\ nx \in [Senders -> [ts : Nat, loc : Nat]] /\ nx[u].loc = 0
         /\ \A v \in Senders : v # u => nx[v].loc = X.node[v].loc
    <3>1. X.node \in [Senders -> [ts : Nat, loc : Nat]]
      BY <2>10 DEF Placed
    <3> QED  BY ONLY <3>1, u \in Senders, NodeChanged
  <2> HIDE DEF nx
  <2>13. Placed(X.heap, nx, Senders)
    <3>1. /\ X.heap \in Seq(U) /\ \A i \in 1 .. Len(X.heap) : X.node[X.heap[i]].loc = i
          /\ \A v \in U : X.node[v].loc > 0 => X.node[v].loc <= Len(X.heap) /\ X.heap[X.node[v].loc] = v
      BY <2>10 DEF Placed
    <3>2. \A i \in 1 .. Len(X.heap) : X.heap[i] \in U
      BY <3>1
    <3>3. X.heap \in Seq(Senders)
      BY <3>1, <3>2
    <3>4. \A i \in 1 .. Len(X.heap) : nx[X.heap[i]].loc = i
      BY <3>1, <3>2, <2>12
    <3>5. ASSUME NEW v \in Senders, nx[v].loc > 0 PROVE nx[v].loc <= Len(X.heap) /\ X.heap[nx[v].loc] = v
      <4>1. v # u
        BY <3>5, <2>12
      <4> QED  BY <4>1, <3>1, <3>5, <2>12
    <3> QED  BY <3>3, <3>4, <3>5, <2>12 DEF Placed
  <2>14. OnHeap(nx) = OnHeap(H.node) \ {u}
    <3>1. ASSUME NEW v \in Senders, v # u PROVE (nx[v].loc > 0) <=> (H.node[v].loc > 0)
      <4>1. (nx[v].loc > 0) <=> (nd[v].loc > 0)
        BY <3>1, <2>10, <2>12 DEF OnHeap
      <4>2. (nd[v].loc > 0) <=> (H.node[v].loc > 0)
        BY <2>1, <2>3
      <4> QED  BY <4>1, <4>2
    <3>2. ~(nx[u].loc > 0)
      BY <2>12
    <3> QED  BY <3>1, <3>2 DEF OnHeap
  <2>16. Times(Removed(H, u)) = Times(X)
    <3>1. PICK Y : Y = Removed(H, u)
      OBVIOUS
    <3>2. Y.heap = X.heap /\ Y.node = nx
      BY <3>1, <2>11
    <3>3. \A v \in U : nx[v].ts = X.node[v].ts
      <4>1. X.node \in [Senders -> [ts : Nat, loc : Nat]]
        BY <2>10 DEF Placed
      <4>2. X.node[u] \in [ts : Nat, loc : Nat]
        BY <4>1
      <4>3. nx = [X.node EXCEPT ![u] = [X.node[u] EXCEPT !.loc = 0]]
        BY DEF nx
      <4> QED  BY <4>1, <4>2, <4>3
    <3>4. \A i \in 1 .. Len(X.heap) : X.heap[i] \in U
      BY <2>10 DEF Placed
    <3> QED  BY <3>1, <3>2, <3>3, <3>4 DEF Times, Stamp
  <2>17. InOrder(Times(H), n) /\ (loc = 1 \/ n <= 5) => InOrder(Times(Removed(H, u)), n - 1)
    BY <2>15, <2>16
  <2> QED  BY <1>3, <2>10, <2>11, <2>12, <2>13, <2>14, <2>17 DEF n, loc
<1> QED
  BY <1>2, <1>3

-----------------------------------------------------------------------------
(* The send queue                                                          *)

SndQueueTypes ==
    /\ toSend \in [Senders -> Nat] /\ telling \subseteq [u : Senders, reschedule : BOOLEAN] /\ clock \in Nat
    /\ signaller \in {"list", Nobody} /\ queueEnd \in {"open", "closing", "signalled"}
    /\ sndWorker \in [pc : {"top", "asleep", "empty", "waiting", "due", "gone"}, until : Nat]

SndQueueInv ==
    /\ SndQueueTypes /\ Placed(heap, node, Senders)
    /\ WorkIsScheduled /\ NoLostSignal

\* What the list becomes when u has been put on it, taken off it, or both.
Lists(H, onIt) ==
    /\ H = [heap |-> H.heap, node |-> H.node] /\ Placed(H.heap, H.node, Senders)
    /\ OnHeap(H.node) = onIt

\* A list that has its first entry has its signaller.
LEMMA ListBecomesKeeps ==
    ASSUME SndQueueInv, signaller = Nobody, NEW H, NEW onIt, Lists(H, onIt), NEW inserted \in BOOLEAN,
           ListBecomes(H, inserted),
           sndWorker.pc = "waiting" => H.heap = << >> \/ (inserted /\ Len(H.heap) = 1)
    PROVE  /\ Placed(heap, node, Senders)' /\ signaller' \in {"list", Nobody}
           /\ \A u \in Senders : node'[u].loc > 0 <=> u \in onIt
           /\ sndWorker.pc = "waiting" => heap' = << >> \/ signaller' = "list"
<1>1. heap' = H.heap /\ node' = H.node /\ signaller' = IF inserted /\ Len(H.heap) = 1 THEN "list" ELSE Nobody
  BY DEF ListBecomes
<1>2. Placed(H.heap, H.node, Senders) /\ OnHeap(H.node) = onIt
  BY DEF Lists
<1>3. Placed(heap, node, Senders)'
  BY <1>1, <1>2 DEF Placed
<1>4. \A u \in Senders : node'[u].loc > 0 <=> u \in onIt
  BY <1>1, <1>2 DEF OnHeap
<1> QED
  BY <1>1, <1>3, <1>4

LEMMA OffIsEmpty ==
    ASSUME Placed(heap, node, Senders)
    PROVE  /\ heap = << >> => \A u \in Senders : node[u].loc = 0
           /\ heap # << >> => heap[1] \in Senders /\ node[heap[1]].loc = 1
           /\ \A u \in Senders : node[u].loc \in Nat
           /\ Lists(TheHeap, OnHeap(node)) /\ TheHeap.heap = heap /\ TheHeap.node = node
<1>1. /\ heap \in Seq(Senders) /\ node \in [Senders -> [ts : Nat, loc : Nat]] /\ Len(heap) \in Nat
      /\ \A i \in 1 .. Len(heap) : node[heap[i]].loc = i
      /\ \A u \in Senders : node[u].loc > 0 => node[u].loc <= Len(heap) /\ heap[node[u].loc] = u
  BY DEF Placed
<1>2. \A u \in Senders : node[u].loc \in Nat
  BY <1>1
<1>3. ASSUME heap = << >>, NEW u \in Senders PROVE node[u].loc = 0
  <2>1. Len(heap) = 0
    BY <1>3
  <2> QED  BY <2>1, <1>1, <1>2
<1>4. ASSUME heap # << >> PROVE heap[1] \in Senders /\ node[heap[1]].loc = 1
  <2>1. 1 \in 1 .. Len(heap)
    BY <1>1, <1>4
  <2> QED  BY <2>1, <1>1
<1> QED
  BY <1>2, <1>3, <1>4 DEF Lists, TheHeap

LEMMA SndQueueInvInit == SndQueueInit => SndQueueInv
<1> SUFFICES ASSUME SndQueueInit PROVE SndQueueInv
  OBVIOUS
<1>1. heap = << >> /\ node = [u \in Senders |-> [ts |-> 0, loc |-> 0]] /\ toSend = [u \in Senders |-> 0]
      /\ telling = {} /\ signaller = Nobody /\ sndWorker = [pc |-> "top", until |-> 0] /\ queueEnd = "open" /\ clock = 1
  BY DEF SndQueueInit
<1>2. Placed(heap, node, Senders)
  <2>1. heap \in Seq(Senders) /\ Len(heap) = 0
    BY <1>1
  <2>2. node \in [Senders -> [ts : Nat, loc : Nat]] /\ \A u \in Senders : node[u].loc = 0
    BY <1>1
  <2> QED  BY <2>1, <2>2 DEF Placed
<1>3. SndQueueTypes
  BY <1>1 DEF SndQueueTypes
<1>4. WorkIsScheduled /\ NoLostSignal
  BY <1>1 DEF WorkIsScheduled, NoLostSignal
<1> QED
  BY <1>2, <1>3, <1>4 DEF SndQueueInv

LEMMA UpdateKeeps == ASSUME SndQueueInv, NEW t \in telling, Update(t) PROVE SndQueueInv'
<1>1. /\ signaller = Nobody /\ telling' = telling \ {t} /\ toSend' = toSend /\ queueEnd' = queueEnd /\ clock' = clock
  BY DEF Update
<1>2. /\ SndQueueTypes /\ Placed(heap, node, Senders) /\ WorkIsScheduled /\ NoLostSignal
      /\ t.u \in Senders /\ t.reschedule \in BOOLEAN
  BY DEF SndQueueInv, SndQueueTypes
<1>3. sndWorker.pc = "waiting" => heap = << >> /\ queueEnd # "signalled"
  BY <1>1, <1>2 DEF NoLostSignal, Nobody
<1>4. ASSUME Placed(heap, node, Senders)', signaller' \in {"list", Nobody},
             sndWorker' \in [pc : {"top", "asleep", "empty", "waiting", "due", "gone"}, until : Nat],
             sndWorker'.pc = sndWorker.pc,
             sndWorker.pc = "waiting" => heap' = << >> \/ signaller' = "list",
             \A u \in Senders : node[u].loc > 0 \/ u = t.u => node'[u].loc > 0
      PROVE  SndQueueInv'
  <2>1. SndQueueTypes'
    BY <1>1, <1>2, <1>4 DEF SndQueueTypes
  <2>2. WorkIsScheduled'
    BY <1>1, <1>2, <1>4 DEF WorkIsScheduled
  <2>3. NoLostSignal'
    BY <1>1, <1>3, <1>4 DEF NoLostSignal
  <2> QED  BY <2>1, <2>2, <2>3, <1>4 DEF SndQueueInv
<1>5. CASE node[t.u].loc > 0 /\ ~t.reschedule
  <2>1. heap' = heap /\ node' = node /\ signaller' = signaller /\ sndWorker' = sndWorker
    BY <1>5 DEF Update
  <2>2. Placed(heap, node, Senders)'
    BY <2>1, <1>2 DEF Placed
  <2>3. SndQueueTypes
    BY <1>2
  <2> QED  BY <2>1, <2>2, <2>3, <1>3, <1>4, <1>5 DEF SndQueueTypes
<1>6. CASE ~(node[t.u].loc > 0 /\ ~t.reschedule) /\ node[t.u].loc = 1
  <2>1. /\ node' = [node EXCEPT ![t.u].ts = 1] /\ heap' = heap /\ signaller' = signaller
        /\ sndWorker' = IF sndWorker.pc = "asleep" THEN [sndWorker EXCEPT !.until = clock] ELSE sndWorker
    BY <1>6 DEF Update
  <2>2. /\ node' \in [Senders -> [ts : Nat, loc : Nat]] /\ \A u \in Senders : node'[u].loc = node[u].loc
    <3>1. node \in [Senders -> [ts : Nat, loc : Nat]]
      BY <1>2 DEF Placed
    <3>2. node[t.u] \in [ts : Nat, loc : Nat]
      BY <1>2, <3>1
    <3>3. [node[t.u] EXCEPT !.ts = 1] \in [ts : Nat, loc : Nat] /\ [node[t.u] EXCEPT !.ts = 1].loc = node[t.u].loc
      BY <3>2
    <3>4. node' = [node EXCEPT ![t.u] = [node[t.u] EXCEPT !.ts = 1]]
      BY <2>1
    <3> QED  BY <3>1, <3>3, <3>4, <1>2
  <2>3. Placed(heap, node, Senders)'
    <3>1. heap \in Seq(Senders) /\ \A i \in 1 .. Len(heap) : heap[i] \in Senders /\ node[heap[i]].loc = i
      BY <1>2 DEF Placed
    <3>2. \A u \in Senders : node[u].loc > 0 => node[u].loc <= Len(heap) /\ heap[node[u].loc] = u
      BY <1>2 DEF Placed
    <3> QED  BY <3>1, <3>2, <2>1, <2>2 DEF Placed
  <2>4. /\ sndWorker' \in [pc : {"top", "asleep", "empty", "waiting", "due", "gone"}, until : Nat]
        /\ sndWorker'.pc = sndWorker.pc
    BY <2>1, <1>2 DEF SndQueueTypes
  <2> QED  BY <2>1, <2>2, <2>3, <2>4, <1>1, <1>3, <1>4, <1>6
<1>7. CASE ~(node[t.u].loc > 0 /\ ~t.reschedule) /\ node[t.u].loc # 1
  <2> DEFINE R == Removed(TheHeap, t.u)
             I == Inserted(R, t.u, 1)
  <2>1. ListBecomes(I, TRUE) /\ sndWorker' = sndWorker
    BY <1>7 DEF Update
  <2>2. /\ Lists(TheHeap, OnHeap(node)) /\ TheHeap.heap = heap /\ TheHeap.node = node
        /\ (heap = << >> => \A u \in Senders : node[u].loc = 0)
    BY <1>2, OffIsEmpty
  <2>3. /\ Lists(R, OnHeap(node) \ {t.u}) /\ R.node[t.u].loc = 0
        /\ (node[t.u].loc = 0 => R = TheHeap)
    <3>1. TheHeap = [heap |-> TheHeap.heap, node |-> TheHeap.node] /\ Placed(TheHeap.heap, TheHeap.node, Senders)
      BY <2>2 DEF Lists
    <3> QED  BY <3>1, <2>2, <1>2, RemovedIs DEF Lists
  <2> HIDE DEF R
  <2>4. Lists(I, (OnHeap(node) \ {t.u}) \cup {t.u}) /\ Len(I.heap) = Len(R.heap) + 1
    <3>1. R = [heap |-> R.heap, node |-> R.node] /\ Placed(R.heap, R.node, Senders) /\ OnHeap(R.node) = OnHeap(node) \ {t.u}
      BY <2>3 DEF Lists
    <3>2. t.u \in Senders /\ 1 \in Nat /\ R.node[t.u].loc = 0
      BY <2>3, <1>2
    <3>3. /\ I = [heap |-> I.heap, node |-> I.node] /\ Placed(I.heap, I.node, Senders)
          /\ OnHeap(I.node) = OnHeap(R.node) \cup {t.u} /\ Len(I.heap) = Len(R.heap) + 1
      BY ONLY <3>1, <3>2, InsertedIs
    <3> HIDE DEF I
    <3> QED  BY <3>1, <3>3 DEF Lists
  <2> HIDE DEF I
  <2>5. sndWorker.pc = "waiting" => Len(I.heap) = 1
    <3> SUFFICES ASSUME sndWorker.pc = "waiting" PROVE Len(I.heap) = 1
      OBVIOUS
    <3>1. heap = << >> /\ R.heap = heap
      BY <1>2, <1>3, <2>2, <2>3
    <3> QED  BY <3>1, <2>4
  <2>6. /\ Placed(heap, node, Senders)' /\ signaller' \in {"list", Nobody}
        /\ \A u \in Senders : node'[u].loc > 0 <=> u \in (OnHeap(node) \ {t.u}) \cup {t.u}
        /\ sndWorker.pc = "waiting" => heap' = << >> \/ signaller' = "list"
    BY <1>1, <2>1, <2>4, <2>5, ListBecomesKeeps
  <2>7. \A u \in Senders : node[u].loc > 0 \/ u = t.u => node'[u].loc > 0
    BY <2>6 DEF OnHeap
  <2>8. SndQueueTypes
    BY <1>2
  <2> QED  BY <2>1, <2>6, <2>7, <2>8, <1>4 DEF SndQueueTypes
<1> QED
  BY <1>5, <1>6, <1>7

LEMMA RemoveSocketKeeps == ASSUME SndQueueInv, NEW u \in Senders, RemoveSocket(u) PROVE SndQueueInv'
<1> DEFINE R == Removed(TheHeap, u)
<1>1. /\ signaller = Nobody /\ node[u].loc > 0 /\ ListBecomes(R, FALSE) /\ toSend' = [toSend EXCEPT ![u] = 0]
      /\ telling' = {t \in telling : t.u # u} /\ sndWorker' = sndWorker /\ queueEnd' = queueEnd /\ clock' = clock
  BY DEF RemoveSocket
<1>2. /\ SndQueueTypes /\ Placed(heap, node, Senders) /\ WorkIsScheduled /\ NoLostSignal
  BY DEF SndQueueInv
<1>3. /\ Lists(TheHeap, OnHeap(node)) /\ TheHeap.heap = heap /\ TheHeap.node = node
      /\ (heap = << >> => \A v \in Senders : node[v].loc = 0)
  BY <1>2, OffIsEmpty
<1>4. sndWorker.pc # "waiting"
  BY <1>1, <1>2, <1>3 DEF NoLostSignal, Nobody
<1>5. Lists(R, OnHeap(node) \ {u})
  <2>1. TheHeap = [heap |-> TheHeap.heap, node |-> TheHeap.node] /\ Placed(TheHeap.heap, TheHeap.node, Senders)
    BY <1>3 DEF Lists
  <2> QED  BY <2>1, <1>3, RemovedIs DEF Lists
<1> HIDE DEF R
<1>6. /\ Placed(heap, node, Senders)' /\ signaller' \in {"list", Nobody}
      /\ \A v \in Senders : node'[v].loc > 0 <=> v \in OnHeap(node) \ {u}
  BY <1>1, <1>4, <1>5, ListBecomesKeeps
<1>7. SndQueueTypes'
  BY <1>1, <1>2, <1>6 DEF SndQueueTypes
<1>8. WorkIsScheduled'
  <2>1. \A v \in Senders : v # u => toSend'[v] = toSend[v]
    BY <1>1, <1>2 DEF SndQueueTypes
  <2>2. toSend'[u] = 0
    BY <1>1, <1>2 DEF SndQueueTypes
  <2>3. ASSUME NEW v \in Senders, toSend'[v] > 0 PROVE node'[v].loc > 0 \/ \E t \in telling' : t.u = v
    <3>1. v # u /\ toSend[v] > 0
      BY <2>1, <2>2, <2>3
    <3>2. node[v].loc > 0 \/ \E t \in telling : t.u = v
      BY <3>1, <1>2 DEF WorkIsScheduled
    <3> QED  BY <3>1, <3>2, <1>1, <1>6 DEF OnHeap
  <2> QED  BY <2>3 DEF WorkIsScheduled
<1>9. NoLostSignal'
  BY <1>1, <1>4 DEF NoLostSignal
<1> QED
  BY <1>6, <1>7, <1>8, <1>9 DEF SndQueueInv

LEMMA PopKeeps == ASSUME SndQueueInv, Pop PROVE SndQueueInv'
<1> DEFINE u == heap[1]
           R == Removed(TheHeap, u)
           I == Again(R, u)
<1>1. /\ sndWorker.pc = "due" /\ signaller = Nobody /\ sndWorker' = [sndWorker EXCEPT !.pc = "top"]
      /\ telling' = telling /\ queueEnd' = queueEnd /\ clock' = clock
  BY DEF Pop
<1>2. /\ SndQueueTypes /\ Placed(heap, node, Senders) /\ WorkIsScheduled /\ NoLostSignal
  BY DEF SndQueueInv
<1>3. sndWorker' \in [pc : {"top", "asleep", "empty", "waiting", "due", "gone"}, until : Nat] /\ sndWorker'.pc = "top"
  BY <1>1, <1>2 DEF SndQueueTypes
<1>4. ASSUME Placed(heap, node, Senders)', signaller' \in {"list", Nobody}, toSend' \in [Senders -> Nat],
             \A v \in Senders : toSend'[v] > 0 => toSend[v] > 0 /\ (node[v].loc > 0 => node'[v].loc > 0)
      PROVE  SndQueueInv'
  <2>1. SndQueueTypes'
    BY <1>1, <1>2, <1>3, <1>4 DEF SndQueueTypes
  <2>2. WorkIsScheduled'
    BY <1>1, <1>2, <1>4 DEF WorkIsScheduled
  <2>3. NoLostSignal'
    BY <1>3 DEF NoLostSignal
  <2> QED  BY <2>1, <2>2, <2>3, <1>4 DEF SndQueueInv
<1>5. CASE heap = << >>
  <2>1. heap' = heap /\ node' = node /\ toSend' = toSend /\ signaller' = signaller
    BY <1>5 DEF Pop
  <2>2. Placed(heap, node, Senders)'
    BY <2>1, <1>2 DEF Placed
  <2>3. SndQueueTypes
    BY <1>2
  <2> QED  BY <2>1, <2>2, <2>3, <1>4 DEF SndQueueTypes
<1>6. CASE heap # << >>
  <2>1. /\ Lists(TheHeap, OnHeap(node)) /\ TheHeap.heap = heap /\ TheHeap.node = node
        /\ u \in Senders
    BY <1>2, <1>6, OffIsEmpty
  <2>2. Lists(R, OnHeap(node) \ {u})
    <3>1. TheHeap = [heap |-> TheHeap.heap, node |-> TheHeap.node] /\ Placed(TheHeap.heap, TheHeap.node, Senders)
      BY <2>1 DEF Lists
    <3> HIDE DEF u
    <3> QED  BY <3>1, <2>1, RemovedIs DEF Lists
  <2>3. CASE toSend[u] = 0
    <3>1. ListBecomes(R, FALSE) /\ toSend' = toSend
      BY <1>6, <2>3 DEF Pop
    <3> HIDE DEF R, u
    <3>2. /\ Placed(heap, node, Senders)' /\ signaller' \in {"list", Nobody}
          /\ \A v \in Senders : node'[v].loc > 0 <=> v \in OnHeap(node) \ {u}
      BY <1>1, <2>2, <3>1, ListBecomesKeeps
    <3>3. toSend' \in [Senders -> Nat]
      BY <3>1, <1>2 DEF SndQueueTypes
    <3>4. ASSUME NEW v \in Senders, toSend'[v] > 0 PROVE toSend[v] > 0 /\ (node[v].loc > 0 => node'[v].loc > 0)
      BY <2>3, <3>1, <3>2, <3>4 DEF OnHeap
    <3> QED  BY <1>4, <3>2, <3>3, <3>4
  <2>4. CASE toSend[u] # 0
    <3>1. ListBecomes(I, TRUE) /\ toSend' = [toSend EXCEPT ![u] = @ - 1]
      BY <1>6, <2>4 DEF Pop
    <3> HIDE DEF R
    <3>2. Lists(I, (OnHeap(node) \ {u}) \cup {u})
      <4>1. R = [heap |-> R.heap, node |-> R.node] /\ Placed(R.heap, R.node, Senders) /\ OnHeap(R.node) = OnHeap(node) \ {u}
        BY <2>2 DEF Lists
      <4>2. clock + 1 \in Nat
        BY <1>2 DEF SndQueueTypes
      <4> HIDE DEF u
      <4> QED  BY <4>1, <4>2, <2>1, InsertedIs DEF Lists, Again
    <3> HIDE DEF I, u
    <3>3. /\ Placed(heap, node, Senders)' /\ signaller' \in {"list", Nobody}
          /\ \A v \in Senders : node'[v].loc > 0 <=> v \in (OnHeap(node) \ {u}) \cup {u}
      BY <1>1, <3>1, <3>2, ListBecomesKeeps
    <3>4. /\ toSend' \in [Senders -> Nat] /\ \A v \in Senders : toSend'[v] > 0 => toSend[v] > 0
      BY <1>2, <2>1, <2>4, <3>1 DEF SndQueueTypes
    <3>5. \A v \in Senders : node[v].loc > 0 => node'[v].loc > 0
      BY <3>3 DEF OnHeap
    <3> QED  BY <1>4, <3>3, <3>4, <3>5
  <2> QED  BY <2>3, <2>4
<1> QED
  BY <1>5, <1>6

LEMMA SndQueueInvNext == SndQueueInv /\ [SndQueueNext]_sndQueueVars => SndQueueInv'
<1> SUFFICES ASSUME SndQueueInv, [SndQueueNext]_sndQueueVars PROVE SndQueueInv'
  OBVIOUS
<1>1. SndQueueTypes /\ Placed(heap, node, Senders) /\ WorkIsScheduled /\ NoLostSignal
  BY DEF SndQueueInv
<1>2. ASSUME NEW u \in Senders, NEW why \in {"data", "loss"}, GiveData(u, why) PROVE SndQueueInv'
  <2>1. /\ toSend' = [toSend EXCEPT ![u] = @ + 1] /\ telling' = telling \cup {[u |-> u, reschedule |-> why = "loss"]}
        /\ heap' = heap /\ node' = node /\ signaller' = signaller /\ sndWorker' = sndWorker /\ queueEnd' = queueEnd /\ clock' = clock
    BY <1>2 DEF GiveData
  <2>2. [u |-> u, reschedule |-> why = "loss"] \in [u : Senders, reschedule : BOOLEAN]
    OBVIOUS
  <2>3. toSend' \in [Senders -> Nat] /\ \A v \in Senders : v # u => toSend'[v] = toSend[v]
    BY <1>1, <2>1 DEF SndQueueTypes
  <2>4. SndQueueTypes'
    BY <1>1, <2>1, <2>2, <2>3 DEF SndQueueTypes
  <2>5. WorkIsScheduled'
    <3>1. \E t \in telling' : t.u = u
      <4> DEFINE new == [u |-> u, reschedule |-> why = "loss"]
      <4>1. new.u = u /\ new \in telling'
        BY <2>1
      <4> QED  BY <4>1
    <3>2. \A v \in Senders : v # u /\ toSend'[v] > 0 => node[v].loc > 0 \/ \E t \in telling : t.u = v
      BY <1>1, <2>3 DEF WorkIsScheduled
    <3> QED  BY <3>1, <3>2, <2>1 DEF WorkIsScheduled
  <2>6. NoLostSignal' /\ Placed(heap, node, Senders)'
    BY <1>1, <2>1 DEF NoLostSignal, Placed
  <2> QED  BY <2>4, <2>5, <2>6 DEF SndQueueInv
<1>3. ASSUME NEW u \in Senders, RemoveSocket(u) PROVE SndQueueInv'
  BY <1>3, RemoveSocketKeeps
<1>4. ASSUME NEW t \in telling, Update(t) PROVE SndQueueInv'
  BY <1>4, UpdateKeeps
<1>5. CASE Pop
  BY <1>5, PopKeeps
<1>6. ASSUME heap' = heap, node' = node, toSend' = toSend, telling' = telling, NoLostSignal', SndQueueTypes' PROVE SndQueueInv'
  BY <1>1, <1>6 DEF SndQueueInv, WorkIsScheduled, Placed
<1>7. Woken \in [pc : {"top", "asleep", "empty", "waiting", "due", "gone"}, until : Nat] /\ Woken.pc # "waiting"
  BY <1>1 DEF Woken, SndQueueTypes
<1>8. CASE Signal
  BY <1>1, <1>6, <1>7, <1>8 DEF Signal, SndQueueTypes, NoLostSignal
<1>9. CASE ReadNextTime
  <2>1. sndWorker' \in [pc : {"top", "asleep", "empty", "waiting", "due", "gone"}, until : Nat] /\ sndWorker'.pc # "waiting"
    <3>1. heap # << >> => node[heap[1]].ts \in Nat
      <4>1. heap # << >> => heap[1] \in Senders
        BY <1>1, OffIsEmpty
      <4> QED  BY <4>1, <1>1 DEF Placed
    <3>2. sndWorker \in [pc : {"top", "asleep", "empty", "waiting", "due", "gone"}, until : Nat]
      BY <1>1 DEF SndQueueTypes
    <3> QED  BY <3>1, <3>2, <1>9 DEF ReadNextTime
  <2> QED  BY <1>1, <1>6, <1>9, <2>1 DEF ReadNextTime, SndQueueTypes, NoLostSignal
<1>10. CASE WaitForSocket
  <2>1. sndWorker' \in [pc : {"top", "asleep", "empty", "waiting", "due", "gone"}, until : Nat]
        /\ (sndWorker'.pc = "waiting" => StillEmpty)
    BY <1>1, <1>10 DEF WaitForSocket, SndQueueTypes
  <2> QED  BY <1>1, <1>6, <1>10, <2>1 DEF WaitForSocket, SndQueueTypes, NoLostSignal, StillEmpty
<1>11. CASE WakeUp
  <2>1. sndWorker' \in [pc : {"top", "asleep", "empty", "waiting", "due", "gone"}, until : Nat] /\ sndWorker'.pc = "due"
    BY <1>1, <1>11 DEF WakeUp, SndQueueTypes
  <2> QED  BY <1>1, <1>6, <1>11, <2>1 DEF WakeUp, SndQueueTypes, NoLostSignal
<1>12. CASE EndQueue
  <2>1. CASE queueEnd = "open" /\ queueEnd' = "closing" /\ sndWorker' = sndWorker
    BY <1>1, <1>6, <1>12, <2>1 DEF EndQueue, SndQueueTypes, NoLostSignal
  <2>2. CASE queueEnd = "closing" /\ queueEnd' = "signalled" /\ sndWorker' = Woken
    BY <1>1, <1>6, <1>7, <1>12, <2>2 DEF EndQueue, SndQueueTypes, NoLostSignal
  <2> QED  BY <2>1, <2>2, <1>12 DEF EndQueue
<1>13. CASE Tick
  BY <1>1, <1>6, <1>13 DEF Tick, SndQueueTypes, NoLostSignal
<1>14. CASE UNCHANGED sndQueueVars
  BY <1>1, <1>6, <1>14 DEF sndQueueVars, SndQueueTypes, NoLostSignal
<1> QED
  BY <1>2, <1>3, <1>4, <1>5, <1>8, <1>9, <1>10, <1>11, <1>12, <1>13, <1>14 DEF SndQueueNext

-----------------------------------------------------------------------------
(* The theorems about the send queue                                       *)

LEMMA SndQueueInvHolds == SndQueueSpec => []SndQueueInv
  BY SndQueueInvInit, SndQueueInvNext, PTL DEF SndQueueSpec

\* For any number of sockets: however insertions, removals and sends follow each other,
\* every socket on the heap knows its place there, and is there once (m_iHeapLoc).
THEOREM PlacesStayRight == SndQueueSpec => []PlacesRight
<1>1. SndQueueInv => PlacesRight
  <2> SUFFICES ASSUME SndQueueInv PROVE PlacesRight
    OBVIOUS
  <2>1. Placed(heap, node, Senders) /\ heap \in Seq(Senders) /\ DOMAIN heap = 1 .. Len(heap)
    BY DEF SndQueueInv, Placed
  <2> QED  BY <2>1 DEF Placed, PlacesRight
<1> QED
  BY <1>1, SndQueueInvHolds, PTL

\* The worker does not wait on m_pWindowCond while a socket is on the heap or the queue is
\* being closed, unless whoever changed that is about to signal it.
THEOREM NoSignalIsLost == SndQueueSpec => []NoLostSignal
<1>1. SndQueueInv => NoLostSignal
  BY DEF SndQueueInv
<1> QED
  BY <1>1, SndQueueInvHolds, PTL

\* A socket that has something to send is on the heap, or somebody is about to put it
\* there: no order of update, pop and remove leaves it off.
THEOREM WorkStaysScheduled == SndQueueSpec => []WorkIsScheduled
<1>1. SndQueueInv => WorkIsScheduled
  BY DEF SndQueueInv
<1> QED
  BY <1>1, SndQueueInvHolds, PTL
-----------------------------------------------------------------------------
(* The heap stays in order.                                                *)

\* With six sockets the entry that fills a place in the middle may be earlier than the one
\* above it, and remove_ only sifts down.
AtMostFive == IsFiniteSet(Senders) /\ Cardinality(Senders) <= 5

HeapSorted == InOrder(Times(TheHeap), Len(heap))

LEMMA HeapIsShort ==
    ASSUME AtMostFive, Placed(heap, node, Senders)
    PROVE  Len(heap) <= 5
<1>1. /\ heap \in Seq(Senders) /\ Len(heap) \in Nat /\ DOMAIN heap = 1 .. Len(heap)
      /\ \A i \in 1 .. Len(heap) : node[heap[i]].loc = i
  BY DEF Placed
<1>2. heap \in [1 .. Len(heap) -> Senders]
  BY <1>1
<1>3. heap \in Injection(1 .. Len(heap), Senders)
  <2>1. \A i, j \in 1 .. Len(heap) : heap[i] = heap[j] => i = j
    BY <1>1
  <2> QED  BY <2>1, <1>1, <1>2 DEF Injection, IsInjective
<1>4. Cardinality(1 .. Len(heap)) <= Cardinality(Senders)
  <2>1. IsFiniteSet(Senders)
    BY DEF AtMostFive
  <2> QED  BY ONLY <1>3, <2>1, FS_Injection
<1>5. Cardinality(1 .. Len(heap)) = Len(heap)
  <2>1. 1 \in Int /\ Len(heap) \in Int
    BY <1>1
  <2>2. Cardinality(1 .. Len(heap)) = IF 1 > Len(heap) THEN 0 ELSE Len(heap) - 1 + 1
    BY ONLY <2>1, FS_Interval
  <2> QED  BY <2>2, <1>1
<1>6. Cardinality(Senders) \in Nat
  BY FS_CardinalityType DEF AtMostFive
<1> QED
  BY <1>1, <1>4, <1>5, <1>6 DEF AtMostFive

LEMMA ListStaysSorted ==
    ASSUME NEW H, NEW inserted, ListBecomes(H, inserted), InOrder(Times(H), Len(H.heap))
    PROVE  HeapSorted'
<1>1. heap' = H.heap /\ node' = H.node
  BY DEF ListBecomes
<1>2. PICK G : G = [heap |-> H.heap, node |-> H.node]
  OBVIOUS
<1>3. TheHeap' = G
  BY <1>1, <1>2 DEF TheHeap
<1>4. Times(G) = Times(H)
  BY <1>2 DEF Times, Stamp
<1> QED
  BY <1>1, <1>3, <1>4 DEF HeapSorted

LEMMA RemovedStaysSorted ==
    ASSUME AtMostFive, SndQueueInv, HeapSorted, NEW u \in Senders
    PROVE  LET R == Removed(TheHeap, u)
           IN  /\ R = [heap |-> R.heap, node |-> R.node] /\ Placed(R.heap, R.node, Senders)
               /\ InOrder(Times(R), Len(R.heap))
<1>1. Placed(heap, node, Senders) /\ TheHeap.heap = heap /\ TheHeap.node = node
  BY DEF SndQueueInv, TheHeap
<1>2. PICK H : H = TheHeap
  OBVIOUS
<1>3. H = [heap |-> H.heap, node |-> H.node] /\ Placed(H.heap, H.node, Senders)
  BY <1>1, <1>2 DEF TheHeap
<1>4. InOrder(Times(H), Len(H.heap)) /\ Len(H.heap) <= 5
  BY <1>1, <1>2, HeapIsShort DEF HeapSorted
<1>5. /\ Removed(H, u) = [heap |-> Removed(H, u).heap, node |-> Removed(H, u).node]
      /\ Placed(Removed(H, u).heap, Removed(H, u).node, Senders)
      /\ InOrder(Times(Removed(H, u)), Len(Removed(H, u).heap))
  BY ONLY <1>3, <1>4, u \in Senders, RemovedIs
<1> QED
  BY <1>2, <1>5

LEMMA InsertedStaysSorted ==
    ASSUME NEW H, H = [heap |-> H.heap, node |-> H.node], Placed(H.heap, H.node, Senders),
           InOrder(Times(H), Len(H.heap)), NEW u \in Senders, NEW ts \in Nat \ {0}
    PROVE  InOrder(Times(Inserted(H, u, ts)), Len(Inserted(H, u, ts).heap))
<1>1. ts \in Nat /\ ts # 0
  OBVIOUS
<1> QED
  BY <1>1, InsertedIs

LEMMA UpdateSorted ==
    ASSUME AtMostFive, SndQueueInv, HeapSorted, NEW t \in telling, Update(t)
    PROVE  HeapSorted'
<1>1. Placed(heap, node, Senders) /\ t.u \in Senders
  BY DEF SndQueueInv, SndQueueTypes
<1>2. CASE heap' = heap /\ node' = node
  BY <1>2 DEF HeapSorted, Times, Stamp, TheHeap
<1>3. CASE node[t.u].loc = 1 /\ heap' = heap /\ node' = [node EXCEPT ![t.u].ts = 1]
  <2>1. PICK v, n : v = t.u /\ n = Len(heap)
    OBVIOUS
  <2>2. /\ heap \in Seq(Senders) /\ node \in [Senders -> [ts : Nat, loc : Nat]] /\ n \in Nat
        /\ \A i \in 1 .. n : node[heap[i]].loc = i /\ heap[i] \in Senders
        /\ v \in Senders /\ 1 \in 1 .. n /\ heap[1] = v
    <3>1. heap \in Seq(Senders) /\ node \in [Senders -> [ts : Nat, loc : Nat]] /\ n \in Nat
      BY <1>1, <2>1 DEF Placed
    <3>2. \A i \in 1 .. n : node[heap[i]].loc = i /\ heap[i] \in Senders
      BY <1>1, <2>1 DEF Placed
    <3>3. v \in Senders /\ 1 <= n /\ heap[1] = v
      BY <1>1, <1>3, <2>1 DEF Placed
    <3> QED  BY <3>1, <3>2, <3>3
  <2>3. node'[v].ts = 1 /\ \A w \in Senders : w # v => node'[w] = node[w]
    <3>1. node[v] \in [ts : Nat, loc : Nat]
      BY <2>2
    <3>2. [node[v] EXCEPT !.ts = 1].ts = 1
      BY <3>1
    <3>3. node' = [node EXCEPT ![v] = [node[v] EXCEPT !.ts = 1]]
      BY <1>3, <2>1
    <3> QED  BY <3>2, <3>3, <2>2
  <2>4. PICK t0, t1 : t0 = Times(TheHeap) /\ t1 = Times(TheHeap')
    OBVIOUS
  <2>5. /\ t0 = [i \in 1 .. n |-> node[heap[i]].ts] /\ t1 = [i \in 1 .. n |-> node'[heap[i]].ts]
    BY <1>3, <2>1, <2>4 DEF Times, Stamp, TheHeap
  <2>6. InOrder(t0, n) /\ \A i \in 1 .. n : t0[i] \in Nat \ {0}
    BY <2>1, <2>4 DEF HeapSorted, InOrder, IsTimes
  <2>7. t1[1] = 1 /\ \A i \in 1 .. n : i # 1 => t1[i] = t0[i]
    <3>1. \A i \in 1 .. n : i # 1 => heap[i] # v
      BY <2>2
    <3> QED  BY <3>1, <2>2, <2>3, <2>5
  <2>8. IsTimes(t1, n)
    <3>1. \A i \in 1 .. n : t1[i] \in Nat \ {0}
      BY <2>6, <2>7
    <3>2. t1 = [i \in 1 .. n |-> t1[i]]
      BY <2>5
    <3> QED  BY <3>1, <3>2 DEF IsTimes
  <2>9. ASSUME NEW i \in 1 .. n, NEW j \in 1 .. n, Under(i, j) PROVE t1[i] <= t1[j]
    <3>1. j # 1 /\ t0[i] <= t0[j]
      BY <2>6, <2>9 DEF Under, InOrder
    <3>2. CASE i = 1
      BY <3>1, <3>2, <2>6, <2>7
    <3>3. CASE i # 1
      BY <3>1, <3>3, <2>7
    <3> QED  BY <3>2, <3>3
  <2>10. InOrder(t1, n)
    BY <2>8, <2>9 DEF InOrder
  <2>11. Times(TheHeap)' = t1 /\ Len(heap') = n
    BY <1>3, <2>1, <2>4 DEF Times, Stamp
  <2> QED  BY <2>10, <2>11 DEF HeapSorted
<1>4. CASE ListBecomes(Inserted(Removed(TheHeap, t.u), t.u, 1), TRUE)
  <2>1. PICK R : R = Removed(TheHeap, t.u)
    OBVIOUS
  <2>2. R = [heap |-> R.heap, node |-> R.node] /\ Placed(R.heap, R.node, Senders) /\ InOrder(Times(R), Len(R.heap))
    BY <1>1, <2>1, RemovedStaysSorted
  <2>3. 1 \in Nat \ {0}
    OBVIOUS
  <2>4. InOrder(Times(Inserted(R, t.u, 1)), Len(Inserted(R, t.u, 1).heap))
    BY ONLY <1>1, <2>2, <2>3, InsertedStaysSorted
  <2> QED  BY <1>4, <2>1, <2>4, ListStaysSorted
<1> QED
  BY <1>2, <1>3, <1>4 DEF Update

LEMMA PopSorted ==
    ASSUME AtMostFive, SndQueueInv, HeapSorted, Pop
    PROVE  HeapSorted'
<1>1. Placed(heap, node, Senders) /\ clock \in Nat
  BY DEF SndQueueInv, SndQueueTypes
<1>2. CASE heap' = heap /\ node' = node
  BY <1>2 DEF HeapSorted, Times, Stamp, TheHeap
<1>3. CASE heap # << >>
  <2>1. PICK u \in Senders : u = heap[1]
    BY <1>1, <1>3, OffIsEmpty
  <2>2. PICK R : R = Removed(TheHeap, u)
    OBVIOUS
  <2>3. R = [heap |-> R.heap, node |-> R.node] /\ Placed(R.heap, R.node, Senders) /\ InOrder(Times(R), Len(R.heap))
    BY <2>2, RemovedStaysSorted
  <2>4. clock + 1 \in Nat \ {0}
    BY <1>1
  <2>5. InOrder(Times(Inserted(R, u, clock + 1)), Len(Inserted(R, u, clock + 1).heap))
    BY ONLY u \in Senders, <2>3, <2>4, InsertedStaysSorted
  <2>6. ListBecomes(R, FALSE) \/ ListBecomes(Inserted(R, u, clock + 1), TRUE)
    BY <1>3, <2>1, <2>2 DEF Pop, Again
  <2> QED  BY <2>3, <2>5, <2>6, ListStaysSorted
<1> QED
  BY <1>2, <1>3 DEF Pop

LEMMA HeapSortedNext ==
    ASSUME AtMostFive, SndQueueInv, HeapSorted, [SndQueueNext]_sndQueueVars
    PROVE  HeapSorted'
<1>1. ASSUME NEW u \in Senders, RemoveSocket(u) PROVE HeapSorted'
  <2>1. InOrder(Times(Removed(TheHeap, u)), Len(Removed(TheHeap, u).heap))
    BY RemovedStaysSorted
  <2>2. ListBecomes(Removed(TheHeap, u), FALSE)
    BY <1>1 DEF RemoveSocket
  <2> QED  BY <2>1, <2>2, ListStaysSorted
<1>2. ASSUME NEW t \in telling, Update(t) PROVE HeapSorted'
  BY <1>2, UpdateSorted
<1>3. CASE Pop
  BY <1>3, PopSorted
<1>4. CASE heap' = heap /\ node' = node
  BY <1>4 DEF HeapSorted, Times, Stamp, TheHeap
<1> QED
  BY <1>1, <1>2, <1>3, <1>4 DEF SndQueueNext, GiveData, Signal, ReadNextTime, WaitForSocket, WakeUp, EndQueue, Tick, sndQueueVars

\* The worker sleeps for the earliest socket: for up to five sockets, whatever the order of
\* insertions, removals and times, no socket on the heap comes before its first one, and
\* those on it know their places.
THEOREM HeapInOrderHolds == ASSUME AtMostFive PROVE SndQueueSpec => []HeapInOrder
<1>1. SndQueueInit => HeapSorted
  <2> SUFFICES ASSUME SndQueueInit PROVE HeapSorted
    OBVIOUS
  <2>1. heap = << >> /\ Len(heap) = 0 /\ TheHeap.heap = << >>
    BY DEF SndQueueInit, TheHeap
  <2>2. Times(TheHeap) \in [1 .. 0 -> Nat \ {0}]
    BY <2>1 DEF Times
  <2> QED  BY <2>1, <2>2 DEF HeapSorted, InOrder, IsTimes
<1>2. SndQueueInv /\ HeapSorted /\ [SndQueueNext]_sndQueueVars => HeapSorted'
  BY HeapSortedNext
<1>3. SndQueueInv /\ HeapSorted => FirstIsEarliest
  <2> SUFFICES ASSUME SndQueueInv, HeapSorted, NEW i \in DOMAIN heap PROVE node[heap[1]].ts <= node[heap[i]].ts
    BY DEF FirstIsEarliest
  <2>1. Placed(heap, node, Senders)
    BY DEF SndQueueInv
  <2>2. Len(heap) \in Nat /\ i \in 1 .. Len(heap) /\ 1 \in 1 .. Len(heap)
    BY <2>1 DEF Placed
  <2>3. Times(TheHeap)[1] <= Times(TheHeap)[i]
    BY <2>2, FirstIsLeast DEF HeapSorted
  <2> QED  BY <2>2, <2>3 DEF Times, Stamp, TheHeap
<1>4. SndQueueInit => SndQueueInv
  BY SndQueueInvInit
<1>5. SndQueueInv /\ [SndQueueNext]_sndQueueVars => SndQueueInv'
  BY SndQueueInvNext
<1>6. SndQueueInv /\ HeapSorted => HeapInOrder
  <2>1. SndQueueInv => PlacesRight
    <3> SUFFICES ASSUME SndQueueInv PROVE PlacesRight
      OBVIOUS
    <3>1. Placed(heap, node, Senders) /\ heap \in Seq(Senders) /\ DOMAIN heap = 1 .. Len(heap)
      BY DEF SndQueueInv, Placed
    <3> QED  BY <3>1 DEF Placed, PlacesRight
  <2> QED  BY <2>1, <1>3 DEF HeapInOrder
<1> QED
  BY <1>1, <1>2, <1>4, <1>5, <1>6, PTL DEF SndQueueSpec
=============================================================================
