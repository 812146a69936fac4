------------------------------ MODULE LinkProofs ------------------------------
(***************************************************************************)
(* The properties of one queue and of a point-to-point link.               *)
(*                                                                         *)
(* The queue: its stored length and size are those of its list, its limit  *)
(* is respected and its statistics balance, after any sequence of          *)
(* operations.                                                             *)
(*                                                                         *)
(* The link: for any packet sizes, rates, gaps and delays and any limit of *)
(* the queues, in packets or in bytes, that keeps their counters from      *)
(* wrapping.  LinkInv is inductive.  Both ways to start a transmission (a  *)
(* Send that finds the transmitter READY, a completion that finds a queued *)
(* packet) go through TransmitStartInv.                                    *)
(***************************************************************************)
EXTENDS PointToPointLink, DropTailQueue, TLAPS, SequenceTheorems, WellFoundedInduction

(* What the queue operations do to the packet list, its stored length and  *)
(* its stored size.                                                        *)

(* uint32_t arithmetic stays in range. *)
LEMMA WrapType == \A n \in Int : Wrap(n) \in Uint32
  BY UINT32Assumption DEF Wrap, Uint32

(* Values in range are left alone. *)
LEMMA WrapId == \A n \in Uint32 : Wrap(n) = n
  BY UINT32Assumption DEF Wrap, Uint32

(* A counter pair stays a counter pair. *)
LEMMA CountedType ==
  ASSUME NEW c \in Count, NEW item, item.size \in Nat
  PROVE  Counted(c, item) \in Count
  <1>1. Wrap(c.packets + 1) \in Uint32 /\ Wrap(c.bytes + item.size) \in Uint32
    BY WrapType DEF Count, Uint32
  <1> QED
    BY <1>1 DEF Counted, Count

(* A queue with its list and lengths, or its statistics, replaced. *)
WithList(q, s, b, n) ==
  [q EXCEPT !.m_packets = s, !.m_nBytes = b, !.m_nPackets = n]
WithStats(q, t) == [q EXCEPT !.m_nTotal = t]

(* Replacing members of a queue by members of the same types. *)
LEMMA WithListType ==
  ASSUME NEW P, NEW q \in QueueOf(P), NEW s \in Seq(P), NEW b \in Uint32,
         NEW n \in Uint32
  PROVE  WithList(q, s, b, n) \in QueueOf(P)
  <1> DEFINE A == Seq(P)
             U == Uint32
             M == [unit : Units, value : Uint32]
             T == Stats
  <1>1. QueueOf(P) = [m_packets : A, m_nBytes : U, m_nPackets : U,
                      m_maxSize : M, m_nTotal : T]
    BY DEF QueueOf
  <1>2. /\ q \in [m_packets : A, m_nBytes : U, m_nPackets : U,
                  m_maxSize : M, m_nTotal : T]
        /\ s \in A /\ b \in U /\ n \in U
    BY <1>1
  <1> HIDE DEF A, U, M, T
  <1> QED
    BY <1>1, <1>2 DEF WithList

(* The same for the statistics. *)
LEMMA WithStatsType ==
  ASSUME NEW P, NEW q \in QueueOf(P), NEW t \in Stats
  PROVE  WithStats(q, t) \in QueueOf(P)
  <1> DEFINE A == Seq(P)
             U == Uint32
             M == [unit : Units, value : Uint32]
             T == Stats
  <1>1. QueueOf(P) = [m_packets : A, m_nBytes : U, m_nPackets : U,
                      m_maxSize : M, m_nTotal : T]
    BY DEF QueueOf
  <1>2. t \in T
    OBVIOUS
  <1> HIDE DEF A, U, M, T
  <1> QED
    BY <1>1, <1>2 DEF WithStats

-----------------------------------------------------------------------------
(* Induction on the naturals, for a set in place of a predicate: the least *)
(* number outside S would have a predecessor in S.                         *)
LEMMA SetInduction ==
  ASSUME NEW S, 0 \in S, \A n \in Nat : n \in S => n + 1 \in S
  PROVE  Nat \subseteq S
  <1> DEFINE T == Nat \ S
             R == {ss \in Nat \X Nat : ss[1] < ss[2]}
  <1>1. R = OpToRel(<, Nat)
    BY DEF OpToRel
  <1>2. IsWellFoundedOn(R, Nat)
    BY <1>1, NatLessThanWellFounded
  <1>3. ASSUME T # {} PROVE FALSE
    <2>1. PICK x \in T : \A y \in T : <<y, x>> \notin R
      <3> HIDE DEF R
      <3> QED BY <1>2, <1>3, WFMin
    <2>2. x # 0 /\ x - 1 \in Nat
      BY <2>1
    <2>3. x - 1 \notin T
      <3>1. x \in Nat /\ x - 1 < x
        BY <2>1, <2>2
      <3> DEFINE y == x - 1
      <3>2. y \in Nat /\ y < x
        BY <2>2, <3>1
      <3> HIDE DEF y
      <3>3. <<y, x>> \in R
        BY <3>1, <3>2
      <3> QED
        BY <2>1, <3>3 DEF y
    <2> QED
      BY <2>1, <2>2, <2>3
  <1> QED
    BY <1>3

(* f[i] is the sum of the sizes of the first i items of s. *)
Sums(f, s) ==
  /\ f \in [0 .. Len(s) -> Nat] /\ f[0] = 0
  /\ \A i \in 1 .. Len(s) : f[i] = f[i - 1] + s[i].size

Sized(s) == Len(s) \in Nat /\ \A i \in 1 .. Len(s) : s[i].size \in Nat

(* Every list has its sums. *)
LEMMA SumExists ==
  ASSUME NEW s, Sized(s)
  PROVE  \E f : Sums(f, s)
  <1> DEFINE n == Len(s)
             Part(f, k) == /\ f \in [0 .. k -> Nat] /\ f[0] = 0
                           /\ \A i \in 1 .. k : f[i] = f[i - 1] + s[i].size
             S == {k \in Nat : k <= n => \E f : Part(f, k)}
  <1>0. n \in Nat /\ \A i \in 1 .. n : s[i].size \in Nat
    BY DEF Sized
  <1>1. 0 \in S
    <2>1. Part([i \in 0 .. 0 |-> 0], 0)
      OBVIOUS
    <2> QED
      BY <2>1
  <1>2. ASSUME NEW k \in Nat, k \in S
        PROVE  k + 1 \in S
    <2>0. k + 1 \in Nat
      OBVIOUS
    <2> SUFFICES ASSUME k + 1 <= n PROVE \E f : Part(f, k + 1)
      <3> HIDE DEF Part
      <3> QED
        BY <2>0
    <2>1. PICK f : Part(f, k)
      BY <1>0, <1>2
    <2> DEFINE v == f[k] + s[k + 1].size
               g == [i \in 0 .. k + 1 |-> IF i = k + 1 THEN v ELSE f[i]]
    <2>2. v \in Nat
      BY <1>0, <2>1
    <2>3. \A i \in 0 .. k : f[i] \in Nat /\ g[i] = f[i]
      <3>1. f \in [0 .. k -> Nat]
        BY <2>1
      <3>2. \A i \in 0 .. k : i \in 0 .. k + 1 /\ i # k + 1
        OBVIOUS
      <3> HIDE DEF v
      <3> QED
        BY <3>1, <3>2
    <2>4. g[k + 1] = v
      OBVIOUS
    <2>5. g \in [0 .. k + 1 -> Nat]
      <3>1. \A i \in 0 .. k + 1 : i = k + 1 \/ i \in 0 .. k
        OBVIOUS
      <3>2. \A i \in 0 .. k + 1 : (IF i = k + 1 THEN v ELSE f[i]) \in Nat
        BY <2>2, <2>3, <3>1
      <3> HIDE DEF v
      <3> QED
        BY <3>2
    <2>6. ASSUME NEW i \in 1 .. k + 1
          PROVE  g[i] = g[i - 1] + s[i].size
      <3>1. CASE i = k + 1
        BY <2>3, <2>4, <3>1
      <3>2. CASE i \in 1 .. k
        <4>1. i \in 0 .. k /\ i - 1 \in 0 .. k
          BY <3>2
        <4> QED
          BY <2>1, <2>3, <3>2, <4>1
      <3> QED
        BY <3>1, <3>2
    <2>7. g[0] = 0
      BY <2>1, <2>3
    <2> HIDE DEF g, v
    <2> QED
      BY <2>5, <2>6, <2>7
  <1> HIDE DEF S
  <1>3. \A k \in Nat : k \in S
    BY <1>1, <1>2, SetInduction
  <1>4. n \in S
    BY <1>0, <1>3
  <1> QED
    BY <1>0, <1>4 DEF S, Sums

(* Bytes is the last of the sums. *)
LEMMA BytesSum ==
  ASSUME NEW s, Sized(s), NEW f, Sums(f, s)
  PROVE  Bytes(s) = f[Len(s)]
  <1> DEFINE n == Len(s)
             E(g) == [i \in 0 .. Len(s) |-> IF i = 0 THEN 0 ELSE g[i - 1] + s[i].size]
             sum == CHOOSE g : g = E(g)
             S == {k \in Nat : k <= n => sum[k] = f[k]}
  <1>0. n \in Nat
    BY DEF Sized
  <1>1. Bytes(s) = sum[n]
    BY DEF Bytes
  <1>2. f = E(f)
    BY <1>0 DEF Sums
  <1>3. sum = E(sum)
    <2> HIDE DEF E
    <2> QED
      BY <1>2
  <1> HIDE DEF sum
  <1>4. \A i \in 0 .. n : sum[i] = IF i = 0 THEN 0 ELSE sum[i - 1] + s[i].size
    BY <1>3
  <1>5. 0 \in S
    BY <1>0, <1>4 DEF Sums
  <1>6. ASSUME NEW k \in Nat, k \in S
        PROVE  k + 1 \in S
    <2> SUFFICES ASSUME k + 1 <= n PROVE sum[k + 1] = f[k + 1]
      OBVIOUS
    <2>1. sum[k] = f[k] /\ k + 1 \in 0 .. n /\ k + 1 \in 1 .. n /\ (k + 1) - 1 = k
      BY <1>0, <1>6
    <2>2. sum[k + 1] = sum[k] + s[k + 1].size
      BY <1>4, <2>1
    <2>3. f[k + 1] = f[k] + s[k + 1].size
      BY <2>1 DEF Sums
    <2> QED
      BY <2>1, <2>2, <2>3
  <1> HIDE DEF S
  <1>7. \A k \in Nat : k \in S
    BY <1>5, <1>6, SetInduction
  <1>8. n \in S
    BY <1>0, <1>7
  <1> QED
    BY <1>0, <1>1, <1>8 DEF S

(* The sums are of naturals. *)
LEMMA BytesNat ==
  ASSUME NEW s, Sized(s)
  PROVE  Bytes(s) \in Nat /\ \E f : Sums(f, s) /\ Bytes(s) = f[Len(s)]
  <1>1. PICK f : Sums(f, s)
    BY SumExists
  <1>2. Bytes(s) = f[Len(s)]
    BY <1>1, BytesSum
  <1>3. f[Len(s)] \in Nat
    BY <1>1 DEF Sums, Sized
  <1> QED
    BY <1>1, <1>2, <1>3

(* Nothing has no bytes. *)
LEMMA BytesEmpty == Bytes(<< >>) = 0
  <1>1. Sized(<< >>)
    BY DEF Sized
  <1>2. PICK f : Sums(f, << >>) /\ Bytes(<< >>) = f[Len(<< >>)]
    BY <1>1, BytesNat
  <1> QED
    BY <1>2 DEF Sums

(* An item at the end adds its size. *)
LEMMA BytesAppend ==
  ASSUME NEW s, Sized(s), NEW t, Sized(t), Len(t) = Len(s) + 1,
         \A i \in 1 .. Len(s) : t[i] = s[i]
  PROVE  Bytes(t) = Bytes(s) + t[Len(t)].size
  <1> DEFINE n == Len(s)
             v == t[n + 1].size
  <1>0. n \in Nat /\ Len(t) = n + 1 /\ v \in Nat /\ n + 1 \in 1 .. n + 1
    BY DEF Sized
  <1>1. PICK f : Sums(f, s) /\ Bytes(s) = f[n]
    BY BytesNat
  <1>2. /\ f[0] = 0 /\ \A i \in 0 .. n : f[i] \in Nat
        /\ \A i \in 1 .. n : f[i] = f[i - 1] + t[i].size
    BY <1>1 DEF Sums
  <1> DEFINE w == f[n] + v
             g == [i \in 0 .. n + 1 |-> IF i = n + 1 THEN w ELSE f[i]]
  <1>3. w \in Nat /\ \A i \in 0 .. n + 1 : i = n + 1 \/ i \in 0 .. n
    BY <1>0, <1>2
  <1> HIDE DEF n
  <1>4. \A i \in 0 .. n : g[i] = f[i]
    BY <1>0
  <1>5. g[n + 1] = w
    BY <1>0
  <1>6. g \in [0 .. n + 1 -> Nat]
    <2> HIDE DEF w
    <2>1. \A i \in 0 .. n + 1 : (IF i = n + 1 THEN w ELSE f[i]) \in Nat
      BY <1>2, <1>3
    <2> QED
      BY <2>1
  <1> HIDE DEF g
  <1>7. ASSUME NEW i \in 1 .. n + 1
        PROVE  g[i] = g[i - 1] + t[i].size
    <2>1. CASE i = n + 1
      <3>1. i - 1 = n /\ n \in 0 .. n
        BY <1>0, <2>1
      <3> QED
        BY <1>4, <1>5, <2>1, <3>1
    <2>2. CASE i \in 1 .. n
      <3>1. i \in 0 .. n /\ i - 1 \in 0 .. n
        BY <1>0, <2>2
      <3> QED
        BY <1>2, <1>4, <2>2, <3>1
    <2> QED
      BY <1>0, <2>1, <2>2
  <1>8. g[0] = 0
    BY <1>0, <1>2, <1>4
  <1>9. Sums(g, t)
    BY <1>0, <1>6, <1>7, <1>8 DEF Sums
  <1>10. Bytes(t) = g[n + 1]
    BY <1>0, <1>9, BytesSum
  <1> QED
    BY <1>0, <1>1, <1>5, <1>10 DEF n

(* An item taken off the front takes its size with it. *)
LEMMA BytesTail ==
  ASSUME NEW s, Sized(s), NEW t, Sized(t), Len(s) = Len(t) + 1,
         \A i \in 1 .. Len(t) : t[i] = s[i + 1]
  PROVE  Bytes(s) = s[1].size + Bytes(t)
  <1> DEFINE n == Len(t)
             v == s[1].size
  <1>0. n \in Nat /\ Len(s) = n + 1 /\ v \in Nat
    BY DEF Sized
  <1>1. PICK f : Sums(f, t) /\ Bytes(t) = f[n]
    BY BytesNat
  <1>2. /\ f[0] = 0 /\ \A i \in 0 .. n : f[i] \in Nat
        /\ \A i \in 1 .. n : f[i] = f[i - 1] + s[i + 1].size
    BY <1>1 DEF Sums
  <1> DEFINE g == [i \in 0 .. n + 1 |-> IF i = 0 THEN 0 ELSE v + f[i - 1]]
  <1> HIDE DEF n, v
  <1>3. \A i \in 1 .. n + 1 : i # 0 /\ i \in 0 .. n + 1 /\ i - 1 \in 0 .. n
    BY <1>0
  <1>4. g[0] = 0 /\ \A i \in 1 .. n + 1 : g[i] = v + f[i - 1]
    BY <1>0, <1>3
  <1>5. g \in [0 .. n + 1 -> Nat]
    <2>1. \A i \in 1 .. n + 1 : v + f[i - 1] \in Nat
      BY <1>0, <1>2, <1>3
    <2>2. \A i \in 0 .. n + 1 : i = 0 \/ i \in 1 .. n + 1
      BY <1>0
    <2>3. \A i \in 0 .. n + 1 : (IF i = 0 THEN 0 ELSE v + f[i - 1]) \in Nat
      BY <2>1, <2>2
    <2> QED
      BY <2>3
  <1> HIDE DEF g
  <1>6. ASSUME NEW i \in 1 .. n + 1
        PROVE  g[i] = g[i - 1] + s[i].size
    <2>1. CASE i = 1
      BY <1>0, <1>2, <1>4, <2>1 DEF v
    <2>2. CASE i # 1
      <3> DEFINE j == i - 1
      <3>1. j \in 1 .. n /\ j \in 1 .. n + 1 /\ j - 1 \in 0 .. n /\ j \in 0 .. n /\ i = j + 1
        BY <1>0, <2>2
      <3> HIDE DEF j
      <3>2. f[j] = f[j - 1] + s[j + 1].size /\ f[j] \in Nat /\ f[j - 1] \in Nat
        BY <1>2, <3>1
      <3>3. g[i] = v + f[j] /\ g[j] = v + f[j - 1]
        BY <1>4, <3>1 DEF j
      <3>4. s[i].size \in Nat /\ s[i] = s[j + 1]
        BY <1>0, <3>1 DEF Sized
      <3>5. g[i] = g[j] + s[i].size
        BY <1>0, <3>2, <3>3, <3>4
      <3> QED
        BY <3>5 DEF j
    <2> QED
      BY <2>1, <2>2
  <1>7. Sums(g, s)
    BY <1>0, <1>4, <1>5, <1>6 DEF Sums
  <1>8. Bytes(s) = g[n + 1]
    BY <1>0, <1>7, BytesSum
  <1>9. n + 1 \in 1 .. n + 1 /\ (n + 1) - 1 = n
    BY <1>0
  <1> QED
    BY <1>1, <1>4, <1>8, <1>9 DEF v

(* A list of k items of at least one and at most m bytes. *)
LEMMA BytesBounds ==
  ASSUME NEW s, Sized(s), NEW m \in Nat,
         \A i \in 1 .. Len(s) : s[i].size \in 1 .. m
  PROVE  Len(s) <= Bytes(s) /\ Bytes(s) <= m * Len(s)
  <1> DEFINE n == Len(s)
  <1>0. n \in Nat
    BY DEF Sized
  <1>1. PICK f : Sums(f, s) /\ Bytes(s) = f[n]
    BY BytesNat
  <1> DEFINE S == {k \in Nat : k <= n => k <= f[k] /\ f[k] <= m * k}
  <1>2. 0 \in S
    BY <1>1 DEF Sums
  <1>3. ASSUME NEW k \in Nat, k \in S
        PROVE  k + 1 \in S
    <2> SUFFICES ASSUME k + 1 <= n
                 PROVE  k + 1 <= f[k + 1] /\ f[k + 1] <= m * (k + 1)
      OBVIOUS
    <2>1. k <= f[k] /\ f[k] <= m * k /\ k + 1 \in 1 .. n /\ k \in 0 .. n /\ (k + 1) - 1 = k
      BY <1>0, <1>3
    <2>2. f[k + 1] = f[k] + s[k + 1].size /\ s[k + 1].size \in 1 .. m /\ f[k] \in Nat
      BY <1>1, <2>1 DEF Sums
    <2> DEFINE a == f[k]
               b == s[k + 1].size
    <2>3. m * (k + 1) = m * k + m /\ m * k \in Nat
      OBVIOUS
    <2> HIDE DEF a, b
    <2>4. f[k + 1] = a + b /\ b \in 1 .. m /\ a \in Nat /\ k <= a /\ a <= m * k
      BY <2>1, <2>2 DEF a, b
    <2> DEFINE c == m * k
               e == m * (k + 1)
    <2>5. c \in Nat /\ e = c + m /\ a <= c
      BY <2>3, <2>4
    <2> HIDE DEF c, e
    <2>6. k + 1 <= a + b /\ a + b <= e
      BY <2>4, <2>5
    <2> QED
      BY <2>4, <2>6 DEF e
  <1> HIDE DEF S
  <1>4. \A k \in Nat : k \in S
    BY <1>2, <1>3, SetInduction
  <1>5. n \in S
    BY <1>0, <1>4
  <1> QED
    BY <1>0, <1>1, <1>5 DEF S

(* A product grows with its second factor. *)
LEMMA ProductMonotone ==
  ASSUME NEW m \in Nat, NEW a \in Nat, NEW b \in Nat, a <= b
  PROVE  m * a <= m * b
  <1> DEFINE d == b - a
  <1>1. d \in Nat /\ b = a + d
    OBVIOUS
  <1> HIDE DEF d
  <1>2. m * d \in Nat /\ m * a \in Nat
    BY <1>1
  <1>3. m * b = m * a + m * d
    BY <1>1
  <1> QED
    BY <1>2, <1>3

(* The items of a queue have sizes. *)
LEMMA ListSized ==
  ASSUME NEW P, \A x \in P : x.size \in Nat, NEW s \in Seq(P)
  PROVE  Sized(s)
  <1>1. Len(s) \in Nat /\ \A i \in 1 .. Len(s) : s[i] \in P
    OBVIOUS
  <1> QED
    BY <1>1 DEF Sized

(* The stored length and size are the list's. *)
CountsRight(q) == q.m_nPackets = Len(q.m_packets) /\ q.m_nBytes = Bytes(q.m_packets)

(* Enqueue keeps the counts right as long as they do not wrap. *)
LEMMA EnqueueCounts ==
  ASSUME NEW P, \A x \in P : x.size \in Nat, NEW q \in QueueOf(P), CountsRight(q), NEW item \in P,
         Len(q.m_packets) + 1 < UINT32, Bytes(q.m_packets) + item.size < UINT32
  PROVE  /\ Enqueue(q, item) \in QueueOf(P) /\ CountsRight(Enqueue(q, item))
         /\ Enqueue(q, item).m_maxSize = q.m_maxSize
         /\ Accepts(q, item) <=>
              IF q.m_maxSize.unit = "PACKETS"
              THEN Len(q.m_packets) + 1 <= q.m_maxSize.value
              ELSE Bytes(q.m_packets) + item.size <= q.m_maxSize.value
         /\ Accepts(q, item) =>
              /\ Enqueue(q, item).m_packets = Append(q.m_packets, item)
              /\ Len(Enqueue(q, item).m_packets) = Len(q.m_packets) + 1
              /\ Bytes(Enqueue(q, item).m_packets) = Bytes(q.m_packets) + item.size
         /\ ~ Accepts(q, item) => Enqueue(q, item).m_packets = q.m_packets
  <1> DEFINE s == q.m_packets
             t == Append(s, item)
             n == q.m_nPackets + 1
             b == q.m_nBytes + item.size
  <1>1. /\ s \in Seq(P) /\ item.size \in Nat /\ q.m_nPackets = Len(s) /\ q.m_nBytes = Bytes(s)
        /\ q.m_maxSize \in [unit : Units, value : Uint32] /\ q.m_nTotal \in Stats
    BY DEF QueueOf, CountsRight
  <1>2. Sized(s)
    BY <1>1, ListSized
  <1>3. Bytes(s) \in Nat /\ Len(s) \in Nat
    BY <1>1, <1>2, BytesNat
  <1>4. t \in Seq(P) /\ Len(t) = Len(s) + 1 /\ t[Len(t)] = item /\ \A i \in 1 .. Len(s) : t[i] = s[i]
    BY <1>1
  <1>5. Sized(t)
    BY <1>4, ListSized
  <1>6. Bytes(t) = Bytes(s) + item.size
    BY <1>2, <1>4, <1>5, BytesAppend
  <1>7. n \in Uint32 /\ b \in Uint32
    BY <1>1, <1>3, UINT32Assumption DEF Uint32
  <1>8. Wrap(n) = n /\ Wrap(b) = b
    BY <1>7, WrapId
  <1>9. Accepts(q, item) <=>
          IF q.m_maxSize.unit = "PACKETS" THEN n <= q.m_maxSize.value ELSE b <= q.m_maxSize.value
    <2> DEFINE v == q.m_maxSize.value
               u == q.m_maxSize.unit
    <2>1. v \in Nat /\ n \in Nat /\ b \in Nat
      BY <1>1, <1>7 DEF Uint32
    <2>2. Accepts(q, item) <=> ~ ((IF u = "PACKETS" THEN n ELSE b) > v)
      BY <1>8 DEF Accepts, SizeWith
    <2> HIDE DEF n, b, v, u
    <2>3. (IF u = "PACKETS" THEN n ELSE b) > v <=> ~ (IF u = "PACKETS" THEN n <= v ELSE b <= v)
      BY <2>1
    <2> QED
      BY <2>2, <2>3 DEF u, v
  <1>10. /\ Counted(q.m_nTotal.received, item) \in Count
         /\ Counted(q.m_nTotal.dropped, item) \in Count
         /\ Counted(q.m_nTotal.before, item) \in Count
    BY <1>1, CountedType DEF Stats
  <1>11. CASE Accepts(q, item)
    <2> DEFINE T == [q.m_nTotal EXCEPT !.received = Counted(@, item)]
    <2>1. T \in Stats
      BY <1>1, <1>10 DEF Stats
    <2>2. Enqueue(q, item) = WithStats(WithList(q, t, b, n), T)
      BY <1>8, <1>11 DEF Enqueue, WithStats, WithList, QueueOf
    <2> HIDE DEF T, t, b, n
    <2>3. Enqueue(q, item) \in QueueOf(P)
      BY <1>4, <1>7, <2>1, <2>2, WithListType, WithStatsType
    <2>4. /\ Enqueue(q, item).m_packets = t /\ Enqueue(q, item).m_nBytes = b
          /\ Enqueue(q, item).m_nPackets = n /\ Enqueue(q, item).m_maxSize = q.m_maxSize
      BY <2>2 DEF WithStats, WithList, QueueOf
    <2>5. n = Len(t) /\ b = Bytes(t)
      BY <1>1, <1>4, <1>6 DEF n, b
    <2> QED
      BY <1>1, <1>4, <1>6, <1>9, <1>11, <2>3, <2>4, <2>5 DEF CountsRight, t, n, b
  <1>12. CASE ~ Accepts(q, item)
    <2> DEFINE T == [q.m_nTotal EXCEPT !.dropped = Counted(@, item), !.before = Counted(@, item)]
    <2>1. T \in Stats
      BY <1>1, <1>10 DEF Stats
    <2>2. Enqueue(q, item) = WithStats(q, T)
      BY <1>12 DEF Enqueue, DropBeforeEnqueue, WithStats, QueueOf, Stats
    <2> HIDE DEF T
    <2>3. Enqueue(q, item) \in QueueOf(P)
      BY <2>1, <2>2, WithStatsType
    <2>4. /\ Enqueue(q, item).m_packets = s /\ Enqueue(q, item).m_nBytes = q.m_nBytes
          /\ Enqueue(q, item).m_nPackets = q.m_nPackets
          /\ Enqueue(q, item).m_maxSize = q.m_maxSize
      BY <2>2 DEF WithStats, QueueOf
    <2> QED
      BY <1>1, <1>9, <1>12, <2>3, <2>4 DEF CountsRight
  <1> QED
    BY <1>11, <1>12

(* Dequeue keeps the counts right, and its assertions hold. *)
LEMMA DequeueCounts ==
  ASSUME NEW P, \A x \in P : x.size \in Nat, NEW q \in QueueOf(P), CountsRight(q)
  PROVE  /\ DequeueAsserts(q)
         /\ Dequeue(q) \in QueueOf(P) /\ CountsRight(Dequeue(q))
         /\ Dequeue(q).m_maxSize = q.m_maxSize /\ Dequeue(q).m_nTotal = q.m_nTotal
         /\ IsEmpty(q) <=> q.m_packets = << >>
         /\ ~ IsEmpty(q) =>
              /\ FrontItem(q) \in P
              /\ Len(Dequeue(q).m_packets) = Len(q.m_packets) - 1
              /\ Bytes(Dequeue(q).m_packets) <= Bytes(q.m_packets)
              /\ Dequeue(q).m_nPackets = q.m_nPackets - 1
  <1> DEFINE s == q.m_packets
             t == Tail(s)
  <1>1. /\ s \in Seq(P) /\ q.m_nPackets = Len(s) /\ q.m_nBytes = Bytes(s)
        /\ q.m_nPackets \in Uint32 /\ q.m_nBytes \in Uint32
    BY DEF QueueOf, CountsRight
  <1>2. IsEmpty(q) <=> s = << >>
    BY <1>1, EmptySeq DEF IsEmpty
  <1>3. CASE IsEmpty(q)
    <2>1. Dequeue(q) = q
      BY <1>3 DEF Dequeue
    <2>2. DequeueAsserts(q)
      BY <1>3 DEF DequeueAsserts
    <2> QED
      BY <1>2, <1>3, <2>1, <2>2
  <1>4. CASE ~ IsEmpty(q)
    <2>1. /\ Head(s) \in P /\ t \in Seq(P) /\ Len(s) = Len(t) + 1 /\ Len(t) \in Nat
          /\ s[1] = Head(s) /\ \A i \in 1 .. Len(t) : t[i] = s[i + 1]
      BY <1>1, <1>2, <1>4, HeadTailProperties
    <2>2. Sized(s) /\ Sized(t)
      BY <1>1, <2>1, ListSized
    <2> DEFINE h == Head(s).size
    <2>3. h \in Nat /\ Bytes(s) = h + Bytes(t) /\ Bytes(t) \in Nat
      BY <2>1, <2>2, BytesTail, BytesNat
    <2> DEFINE n == q.m_nPackets - 1
               b == q.m_nBytes - h
    <2>4. n \in Uint32 /\ b \in Uint32 /\ n = Len(t) /\ b = Bytes(t)
      <3> DEFINE lt == Len(t)
                 bt == Bytes(t)
      <3>1. /\ q.m_nPackets = lt + 1 /\ lt \in Nat /\ q.m_nBytes = h + bt /\ bt \in Nat /\ h \in Nat
            /\ q.m_nPackets \in 0 .. UINT32 - 1 /\ q.m_nBytes \in 0 .. UINT32 - 1
        BY <1>1, <2>1, <2>3 DEF Uint32
      <3> HIDE DEF lt, bt, h, t, s
      <3>2. n = lt /\ b = bt /\ n \in 0 .. UINT32 - 1 /\ b \in 0 .. UINT32 - 1
        BY <3>1, UINT32Assumption
      <3> QED
        BY <3>2 DEF lt, bt, Uint32
    <2>5. Wrap(n) = n /\ Wrap(b) = b
      BY <2>4, WrapId
    <2>6. Dequeue(q) = WithList(q, t, b, n) /\ FrontItem(q) = Head(s)
      BY <1>4, <2>5 DEF Dequeue, WithList, FrontItem
    <2>7. DequeueAsserts(q)
      BY <1>1, <2>1, <2>3, <2>6 DEF DequeueAsserts
    <2> HIDE DEF h, n, b, t
    <2>8. Dequeue(q) \in QueueOf(P)
      BY <2>1, <2>4, <2>6, WithListType
    <2>9. /\ Dequeue(q).m_packets = t /\ Dequeue(q).m_nBytes = b /\ Dequeue(q).m_nPackets = n
          /\ Dequeue(q).m_maxSize = q.m_maxSize /\ Dequeue(q).m_nTotal = q.m_nTotal
      BY <2>6 DEF WithList, QueueOf
    <2>10. CountsRight(Dequeue(q)) /\ Len(t) = Len(s) - 1 /\ Bytes(t) <= Bytes(s)
      BY <2>1, <2>3, <2>4, <2>9 DEF CountsRight
    <2> QED
      BY <1>2, <1>4, <2>1, <2>6, <2>7, <2>8, <2>9, <2>10 DEF n
  <1> QED
    BY <1>3, <1>4

-----------------------------------------------------------------------------
(* Equal up to the wraps of a uint32_t. *)
Same(a, b) == \E k \in Int : a = b + k * UINT32

(* Wrapping changes a value by multiples of the modulus only. *)
LEMMA WrapSame == \A a \in Int : Same(Wrap(a), a) /\ Same(a, Wrap(a))
  <1> TAKE a \in Int
  <1> DEFINE q == a \div UINT32
  <1>1. q \in Int /\ Wrap(a) \in Int /\ a = UINT32 * q + Wrap(a)
    BY UINT32Assumption DEF Wrap
  <1> HIDE DEF q
  <1> DEFINE r == Wrap(a)
  <1> HIDE DEF r
  <1>2. r \in Int /\ a = UINT32 * q + r
    BY <1>1 DEF r
  <1>3. r = a + (-q) * UINT32 /\ a = r + q * UINT32 /\ -q \in Int
    BY <1>1, <1>2, UINT32Assumption
  <1> QED
    BY <1>1, <1>3 DEF Same, r

(* Sums respect the relation. *)
LEMMA SameSum ==
  ASSUME NEW a \in Int, NEW b \in Int, NEW c \in Int, NEW d \in Int, Same(a, b), Same(c, d)
  PROVE  Same(a + c, b + d)
  <1>1. PICK k \in Int : a = b + k * UINT32
    BY DEF Same
  <1>2. PICK j \in Int : c = d + j * UINT32
    BY DEF Same
  <1>3. (k + j) * UINT32 = k * UINT32 + j * UINT32 /\ k + j \in Int
    BY UINT32Assumption
  <1>4. k * UINT32 \in Int /\ j * UINT32 \in Int
    BY UINT32Assumption
  <1>5. a + c = (b + d) + (k + j) * UINT32
    BY <1>1, <1>2, <1>3, <1>4
  <1> QED
    BY <1>3, <1>5 DEF Same

(* It is transitive, *)
LEMMA SameChain ==
  ASSUME NEW a \in Int, NEW b \in Int, NEW c \in Int, Same(a, b), Same(b, c)
  PROVE  Same(a, c)
  <1>1. PICK k \in Int : a = b + k * UINT32
    BY DEF Same
  <1>2. PICK j \in Int : b = c + j * UINT32
    BY DEF Same
  <1>3. (k + j) * UINT32 = k * UINT32 + j * UINT32 /\ k + j \in Int
    BY UINT32Assumption
  <1>4. k * UINT32 \in Int /\ j * UINT32 \in Int
    BY UINT32Assumption
  <1>5. a = c + (k + j) * UINT32
    BY <1>1, <1>2, <1>3, <1>4
  <1> QED
    BY <1>3, <1>5 DEF Same

(* symmetric *)
LEMMA SameBack ==
  ASSUME NEW a \in Int, NEW b \in Int, Same(a, b)
  PROVE  Same(b, a)
  <1>1. PICK k \in Int : a = b + k * UINT32
    BY DEF Same
  <1>2. (-k) * UINT32 = -(k * UINT32) /\ -k \in Int /\ k * UINT32 \in Int
    BY UINT32Assumption
  <1>3. b = a + (-k) * UINT32
    BY <1>1, <1>2
  <1> QED
    BY <1>2, <1>3 DEF Same

(* and reflexive. *)
LEMMA SameSelf == \A a \in Int : Same(a, a)
  <1>1. 0 * UINT32 = 0
    BY UINT32Assumption
  <1>2. \A a \in Int : a = a + 0 * UINT32
    BY <1>1
  <1> QED
    BY <1>2 DEF Same

(* Two uint32_t values that are the same up to wraps are equal. *)
LEMMA SameEqual ==
  ASSUME NEW a \in Uint32, NEW b \in Uint32, Same(a, b)
  PROVE  a = b
  <1>1. PICK k \in Int : a = b + k * UINT32
    BY DEF Same
  <1>2. a \in Nat /\ b \in Nat /\ a < UINT32 /\ b < UINT32 /\ UINT32 \in Nat
    BY UINT32Assumption DEF Uint32
  <1>3. k >= 1 => k * UINT32 >= UINT32
    BY <1>2
  <1>4. k <= -1 => k * UINT32 <= -UINT32
    BY <1>2
  <1>5. k = 0 => k * UINT32 = 0
    BY <1>2
  <1>6. k * UINT32 \in Int
    BY <1>2
  <1> QED
    BY <1>1, <1>2, <1>3, <1>4, <1>5, <1>6

(* Wraps are equal exactly when the values are the same up to wraps. *)
LEMMA WrapEqual == \A a, b \in Int : Wrap(a) = Wrap(b) <=> Same(a, b)
  <1> TAKE a, b \in Int
  <1>1. Wrap(a) \in Uint32 /\ Wrap(b) \in Uint32 /\ Wrap(a) \in Int /\ Wrap(b) \in Int
    BY WrapType, UINT32Assumption DEF Uint32
  <1>2. Same(a, Wrap(a)) /\ Same(Wrap(b), b) /\ Same(Wrap(a), a) /\ Same(b, Wrap(b))
    BY WrapSame
  <1>3. Wrap(a) = Wrap(b) => Same(a, b)
    BY <1>1, <1>2, SameChain
  <1>4. ASSUME Same(a, b) PROVE Wrap(a) = Wrap(b)
    <2>1. Same(Wrap(a), b)
      BY <1>1, <1>2, <1>4, SameChain
    <2>2. Same(Wrap(a), Wrap(b))
      BY <1>1, <1>2, <2>1, SameChain
    <2> QED
      BY <1>1, <2>2, SameEqual
  <1> QED
    BY <1>3, <1>4

(* A wrap inside a sum does not matter. *)
LEMMA WrapInside == \A a, b \in Int : Wrap(Wrap(a) + b) = Wrap(a + b)
  <1> TAKE a, b \in Int
  <1>1. Wrap(a) \in Int /\ Wrap(a) + b \in Int /\ a + b \in Int
    BY WrapType, UINT32Assumption DEF Uint32
  <1>2. Same(Wrap(a) + b, a + b)
    BY <1>1, WrapSame, SameSelf, SameSum
  <1> QED
    BY <1>1, <1>2, WrapEqual

(* The same amount on both sides keeps two wrapped sums equal. *)
LEMMA WrapBoth ==
  ASSUME NEW a \in Int, NEW b \in Int, NEW c \in Int, Wrap(a) = Wrap(b)
  PROVE  Wrap(a + c) = Wrap(b + c)
  <1>1. Same(a, b) /\ Same(c, c)
    BY WrapEqual, SameSelf
  <1>2. Same(a + c, b + c) /\ a + c \in Int /\ b + c \in Int
    BY <1>1, SameSum
  <1> QED
    BY <1>2, WrapEqual

-----------------------------------------------------------------------------
(* The members of a queue, of which only the packet counters are known to  *)
(* be in range: also of a queue whose stored length has wrapped.           *)
Shape(q) ==
  LET n == q.m_nTotal IN
  /\ DOMAIN q = {"m_packets", "m_nBytes", "m_nPackets", "m_maxSize", "m_nTotal"}
  /\ DOMAIN n = {"received", "dropped", "before", "after"}
  /\ DOMAIN n.before = {"packets", "bytes"}
  /\ q = [x \in DOMAIN q |-> q[x]] /\ n = [x \in DOMAIN n |-> n[x]]
  /\ n.before = [x \in DOMAIN n.before |-> n.before[x]]
  /\ q.m_nPackets \in Uint32
  /\ n.received.packets \in Uint32 /\ n.dropped.packets \in Uint32
  /\ n.before.packets \in Uint32 /\ n.after.packets \in Uint32

(* PacketsBalance of queue q after x packets served and y carried. *)
Kept(q, x, y) ==
  LET n == q.m_nTotal IN
  /\ Wrap(n.received.packets + y) = Wrap(x + n.after.packets + q.m_nPackets)
  /\ n.dropped.packets = Wrap(n.before.packets + n.after.packets)

(* What an operation makes of the packet counters. *)
Counters(q) ==
  LET n == q.m_nTotal IN
  <<n.received.packets, n.dropped.packets, n.before.packets, n.after.packets, q.m_nPackets>>

(* Enqueue counts a packet as received or as dropped before enqueue. *)
LEMMA EnqueueCounters ==
  ASSUME NEW q, Shape(q), NEW item
  PROVE  LET n == q.m_nTotal IN
         /\ Shape(Enqueue(q, item))
         /\ \/ Counters(Enqueue(q, item)) =
                  <<Wrap(n.received.packets + 1), n.dropped.packets, n.before.packets,
                    n.after.packets, Wrap(q.m_nPackets + 1)>>
            \/ Counters(Enqueue(q, item)) =
                  <<n.received.packets, Wrap(n.dropped.packets + 1),
                    Wrap(n.before.packets + 1), n.after.packets, q.m_nPackets>>
  <1> DEFINE n == q.m_nTotal
             r == Enqueue(q, item)
  <1>1. /\ Wrap(n.received.packets + 1) \in Uint32 /\ Wrap(n.dropped.packets + 1) \in Uint32
        /\ Wrap(n.before.packets + 1) \in Uint32 /\ Wrap(q.m_nPackets + 1) \in Uint32
    BY WrapType DEF Shape, Uint32
  <1>2. \A c : /\ Counted(c, item).packets = Wrap(c.packets + 1)
               /\ DOMAIN Counted(c, item) = {"packets", "bytes"}
               /\ Counted(c, item) = [x \in DOMAIN Counted(c, item) |-> Counted(c, item)[x]]
    BY DEF Counted
  <1>3. CASE Accepts(q, item)
    <2> DEFINE p == Append(q.m_packets, item)
               b == Wrap(q.m_nBytes + item.size)
               k == Wrap(q.m_nPackets + 1)
               c == Counted(n.received, item)
    <2>1. r = [q EXCEPT !.m_packets = p, !.m_nBytes = b, !.m_nPackets = k,
                        !.m_nTotal = [n EXCEPT !.received = c]]
      BY <1>3 DEF Enqueue, Shape
    <2>2. k \in Uint32 /\ c.packets \in Uint32 /\ c.packets = Wrap(n.received.packets + 1)
      BY <1>1, <1>2
    <2> HIDE DEF p, b, k, c, r
    <2>3. /\ r.m_nTotal = [n EXCEPT !.received = c] /\ r.m_nPackets = k
          /\ DOMAIN r = DOMAIN q /\ r = [x \in DOMAIN r |-> r[x]]
      BY <2>1 DEF Shape
    <2> DEFINE m == [n EXCEPT !.received = c]
    <2>4. /\ m.received = c /\ m.dropped = n.dropped /\ m.before = n.before /\ m.after = n.after
          /\ DOMAIN m = DOMAIN n /\ m = [x \in DOMAIN m |-> m[x]]
      BY DEF Shape
    <2> HIDE DEF m
    <2>5. r.m_nTotal = m
      BY <2>3 DEF m
    <2> QED
      BY <2>2, <2>3, <2>4, <2>5 DEF Shape, Counters, k, r
  <1>4. CASE ~ Accepts(q, item)
    <2> DEFINE c == Counted(n.dropped, item)
               b == Counted(n.before, item)
               m == [n EXCEPT !.dropped = c, !.before = b]
    <2>1. r = [q EXCEPT !.m_nTotal = m]
      BY <1>4 DEF Enqueue, DropBeforeEnqueue, Shape
    <2>2. /\ c.packets = Wrap(n.dropped.packets + 1) /\ b.packets = Wrap(n.before.packets + 1)
          /\ DOMAIN b = {"packets", "bytes"} /\ b = [x \in DOMAIN b |-> b[x]]
      BY <1>2
    <2> HIDE DEF c, b, r
    <2>4. /\ m.received = n.received /\ m.dropped = c /\ m.before = b /\ m.after = n.after
          /\ DOMAIN m = DOMAIN n /\ m = [x \in DOMAIN m |-> m[x]]
      BY DEF Shape
    <2> HIDE DEF m
    <2>3. /\ r.m_nTotal = m /\ r.m_nPackets = q.m_nPackets
          /\ DOMAIN r = DOMAIN q /\ r = [x \in DOMAIN r |-> r[x]]
      BY <2>1 DEF Shape
    <2> QED
      BY <1>1, <2>2, <2>3, <2>4 DEF Shape, Counters, r
  <1> QED
    BY <1>3, <1>4

(* Dequeue takes one from the stored length. *)
LEMMA DequeueCounters ==
  ASSUME NEW q, Shape(q), ~ IsEmpty(q)
  PROVE  /\ Shape(Dequeue(q)) /\ Dequeue(q).m_nTotal = q.m_nTotal
         /\ Dequeue(q).m_nPackets = Wrap(q.m_nPackets - 1)
  <1> DEFINE p == Tail(q.m_packets)
             b == Wrap(q.m_nBytes - FrontItem(q).size)
             k == Wrap(q.m_nPackets - 1)
             r == Dequeue(q)
  <1>1. r = [q EXCEPT !.m_packets = p, !.m_nBytes = b, !.m_nPackets = k]
    BY DEF Dequeue, Shape
  <1>2. k \in Uint32
    BY WrapType DEF Shape, Uint32
  <1> HIDE DEF p, b, k, r
  <1>3. /\ r.m_nTotal = q.m_nTotal /\ r.m_nPackets = k
        /\ DOMAIN r = DOMAIN q /\ r = [x \in DOMAIN r |-> r[x]]
    BY <1>1 DEF Shape
  <1> QED
    BY <1>2, <1>3 DEF Shape, k, r

(* Remove also counts the packet as dropped after dequeue. *)
LEMMA RemoveCounters ==
  ASSUME NEW q, Shape(q), ~ IsEmpty(q)
  PROVE  LET n == q.m_nTotal IN
         /\ Shape(Remove(q))
         /\ Counters(Remove(q)) =
              <<n.received.packets, Wrap(n.dropped.packets + 1), n.before.packets,
                Wrap(n.after.packets + 1), Wrap(q.m_nPackets - 1)>>
  <1> DEFINE d == Dequeue(q)
             n == q.m_nTotal
             item == FrontItem(q)
             r == Remove(q)
             c == Counted(n.dropped, item)
             a == Counted(n.after, item)
             m == [n EXCEPT !.dropped = c, !.after = a]
  <1>1. Shape(d) /\ d.m_nTotal = n /\ d.m_nPackets = Wrap(q.m_nPackets - 1)
    BY DequeueCounters
  <1>2. c.packets = Wrap(n.dropped.packets + 1) /\ a.packets = Wrap(n.after.packets + 1)
    BY DEF Counted
  <1>3. c.packets \in Uint32 /\ a.packets \in Uint32
    BY <1>2, WrapType DEF Shape, Uint32
  <1>4. r = [d EXCEPT !.m_nTotal.dropped = Counted(@, item), !.m_nTotal.after = Counted(@, item)]
    BY DEF Remove, DropAfterDequeue
  <1> HIDE DEF d, item
  <1>5. r = [d EXCEPT !.m_nTotal = m]
    BY <1>1, <1>4 DEF Shape
  <1> HIDE DEF c, a, r
  <1>6. /\ m.received = n.received /\ m.dropped = c /\ m.before = n.before /\ m.after = a
        /\ DOMAIN m = DOMAIN n /\ m = [x \in DOMAIN m |-> m[x]]
    BY DEF Shape
  <1> HIDE DEF m
  <1>7. /\ r.m_nTotal = m /\ r.m_nPackets = d.m_nPackets
        /\ DOMAIN r = DOMAIN d /\ r = [x \in DOMAIN r |-> r[x]]
    BY <1>1, <1>5 DEF Shape
  <1>8. Shape(r)
    BY <1>1, <1>3, <1>6, <1>7 DEF Shape
  <1>9. Counters(r) = <<n.received.packets, c.packets, n.before.packets, a.packets, d.m_nPackets>>
    BY <1>6, <1>7 DEF Counters
  <1> QED
    BY <1>1, <1>2, <1>8, <1>9 DEF r

(* The balance is a matter of the counters. *)
LEMMA KeptCounters ==
  ASSUME NEW q, NEW x, NEW y, NEW R, NEW D, NEW B, NEW A, NEW N,
         Counters(q) = <<R, D, B, A, N>>
  PROVE  Kept(q, x, y) <=> Wrap(R + y) = Wrap(x + A + N) /\ D = Wrap(B + A)
  BY DEF Kept, Counters

(* Enqueue keeps the balance. *)
LEMMA EnqueueKept ==
  ASSUME NEW q, Shape(q), NEW item, NEW x \in Nat, NEW y \in Nat, Kept(q, x, y)
  PROVE  Kept(Enqueue(q, item), x, y)
  <1> DEFINE n == q.m_nTotal
             R == n.received.packets
             D == n.dropped.packets
             B == n.before.packets
             A == n.after.packets
             N == q.m_nPackets
             r == Enqueue(q, item)
  <1>1. R \in Int /\ D \in Int /\ B \in Int /\ A \in Int /\ N \in Int
    BY DEF Shape, Uint32
  <1>2. Wrap(R + y) = Wrap(x + A + N) /\ D = Wrap(B + A)
    BY DEF Kept
  <1>3. \/ Counters(r) = <<Wrap(R + 1), D, B, A, Wrap(N + 1)>>
        \/ Counters(r) = <<R, Wrap(D + 1), Wrap(B + 1), A, N>>
    BY EnqueueCounters
  <1> HIDE DEF R, D, B, A, N, r
  <1>4. Wrap(Wrap(R + 1) + y) = Wrap(x + A + Wrap(N + 1))
    <2>1. Wrap(Wrap(R + 1) + y) = Wrap((R + 1) + y)
      BY <1>1, WrapInside
    <2>2. Wrap(Wrap(N + 1) + (x + A)) = Wrap((N + 1) + (x + A))
      BY <1>1, WrapInside
    <2>3. Wrap((R + y) + 1) = Wrap((x + A + N) + 1)
      <3>1. R + y \in Int /\ x + A + N \in Int /\ 1 \in Int
        BY <1>1
      <3> QED
        BY <1>2, <3>1, WrapBoth
    <2>4. /\ (R + 1) + y = (R + y) + 1
          /\ (N + 1) + (x + A) = (x + A + N) + 1
      BY <1>1
    <2>5. Wrap(N + 1) \in Int
      BY <1>1, WrapType DEF Uint32
    <2>6. Wrap(N + 1) + (x + A) = x + A + Wrap(N + 1)
      BY <1>1, <2>5
    <2> QED
      BY <2>1, <2>2, <2>3, <2>4, <2>6
  <1>5. Wrap(D + 1) = Wrap(Wrap(B + 1) + A)
    <2>1. Wrap(Wrap(B + A) + 1) = Wrap((B + A) + 1)
      BY <1>1, WrapInside
    <2>2. Wrap(Wrap(B + 1) + A) = Wrap((B + 1) + A)
      BY <1>1, WrapInside
    <2>3. (B + A) + 1 = (B + 1) + A
      BY <1>1
    <2> QED
      BY <1>2, <2>1, <2>2, <2>3
  <1>6. CASE Counters(r) = <<Wrap(R + 1), D, B, A, Wrap(N + 1)>>
    BY <1>2, <1>4, <1>6, KeptCounters DEF r
  <1>7. CASE Counters(r) = <<R, Wrap(D + 1), Wrap(B + 1), A, N>>
    BY <1>2, <1>5, <1>7, KeptCounters DEF r
  <1> QED
    BY <1>3, <1>6, <1>7

(* Dequeue serves the packet that it takes from the stored length. *)
LEMMA DequeueKept ==
  ASSUME NEW q, Shape(q), NEW x \in Nat, NEW y \in Nat, Kept(q, x, y)
  PROVE  Shape(Dequeue(q)) /\ Kept(Dequeue(q), IF IsEmpty(q) THEN x ELSE x + 1, y)
  <1> DEFINE n == q.m_nTotal
             R == n.received.packets
             D == n.dropped.packets
             B == n.before.packets
             A == n.after.packets
             N == q.m_nPackets
             r == Dequeue(q)
  <1>1. R \in Int /\ D \in Int /\ B \in Int /\ A \in Int /\ N \in Int
    BY DEF Shape, Uint32
  <1>2. Wrap(R + y) = Wrap(x + A + N) /\ D = Wrap(B + A)
    BY DEF Kept
  <1>3. CASE IsEmpty(q)
    BY <1>3 DEF Dequeue
  <1>4. CASE ~ IsEmpty(q)
    <2>1. Shape(r) /\ r.m_nTotal = n /\ r.m_nPackets = Wrap(N - 1)
      BY <1>4, DequeueCounters
    <2>2. Wrap(Wrap(N - 1) + (x + 1 + A)) = Wrap((N - 1) + (x + 1 + A))
      <3> HIDE DEF R, D, B, A, N, r, n
      <3>1. N - 1 \in Int /\ x + 1 + A \in Int
        BY <1>1
      <3> QED
        BY <3>1, WrapInside
    <2>3. (N - 1) + (x + 1 + A) = x + A + N
      BY <1>1
    <2>4. Wrap(N - 1) \in Int
      BY <1>1, WrapType DEF Uint32
    <2>5. Wrap(N - 1) + (x + 1 + A) = (x + 1) + A + Wrap(N - 1)
      BY <1>1, <2>4
    <2>6. Wrap(R + y) = Wrap((x + 1) + A + Wrap(N - 1))
      BY <1>2, <2>2, <2>3, <2>5
    <2> QED
      BY <1>2, <1>4, <2>1, <2>6 DEF Kept
  <1> QED
    BY <1>3, <1>4

(* Remove keeps the balance. *)
LEMMA RemoveKept ==
  ASSUME NEW q, Shape(q), NEW x \in Nat, NEW y \in Nat, Kept(q, x, y)
  PROVE  Shape(Remove(q)) /\ Kept(Remove(q), x, y)
  <1> DEFINE n == q.m_nTotal
             R == n.received.packets
             D == n.dropped.packets
             B == n.before.packets
             A == n.after.packets
             N == q.m_nPackets
             r == Remove(q)
  <1>1. R \in Int /\ D \in Int /\ B \in Int /\ A \in Int /\ N \in Int
    BY DEF Shape, Uint32
  <1>2. Wrap(R + y) = Wrap(x + A + N) /\ D = Wrap(B + A)
    BY DEF Kept
  <1>3. CASE IsEmpty(q)
    BY <1>3 DEF Remove
  <1>4. CASE ~ IsEmpty(q)
    <2>1. Shape(r) /\ Counters(r) = <<R, Wrap(D + 1), B, Wrap(A + 1), Wrap(N - 1)>>
      BY <1>4, RemoveCounters
    <2> DEFINE a == Wrap(A + 1)
               k == Wrap(N - 1)
    <2> HIDE DEF R, D, B, A, N, r, n
    <2>2. a \in Int /\ k \in Int
      BY <1>1, WrapType DEF Uint32
    <2>3. Wrap(a + (x + k)) = Wrap((A + 1) + (x + k))
      BY <1>1, <2>2, WrapInside
    <2>4. Wrap(k + (x + A + 1)) = Wrap((N - 1) + (x + A + 1))
      <3>1. N - 1 \in Int /\ x + A + 1 \in Int
        BY <1>1
      <3> QED
        BY <3>1, WrapInside
    <2>5. Wrap(a + B) = Wrap((A + 1) + B)
      BY <1>1, WrapInside
    <2>6. Wrap(Wrap(B + A) + 1) = Wrap((B + A) + 1)
      BY <1>1, WrapInside
    <2> HIDE DEF a, k
    <2>7. /\ a + (x + k) = x + a + k /\ (A + 1) + (x + k) = k + (x + A + 1)
          /\ (N - 1) + (x + A + 1) = x + A + N
          /\ a + B = B + a /\ (A + 1) + B = (B + A) + 1
      BY <1>1, <2>2
    <2>8. Wrap(R + y) = Wrap(x + a + k) /\ Wrap(D + 1) = Wrap(B + a)
      BY <1>2, <2>3, <2>4, <2>5, <2>6, <2>7
    <2> QED
      BY <2>1, <2>8, KeptCounters DEF a, k, r
  <1> QED
    BY <1>3, <1>4

-----------------------------------------------------------------------------
(* f is what k Removes, for k up to n, make of queue q. *)
Removals(f, q, n) ==
  /\ f = [k \in 0 .. n |-> f[k]] /\ f[0] = q
  /\ \A k \in 1 .. n : f[k] = Remove(f[k - 1])

(* The loop of Flush has a result after every number of rounds. *)
LEMMA RemovalsExist == \A q : \A n \in Nat : \E f : Removals(f, q, n)
  <1> TAKE q
  <1> DEFINE S == {n \in Nat : \E f : Removals(f, q, n)}
  <1>1. 0 \in S
    <2> DEFINE f == [k \in 0 .. 0 |-> q]
    <2>1. f = [k \in 0 .. 0 |-> f[k]] /\ f[0] = q /\ \A k \in 1 .. 0 : FALSE
      OBVIOUS
    <2> HIDE DEF f
    <2>2. Removals(f, q, 0)
      BY <2>1 DEF Removals
    <2> QED
      BY <2>2
  <1>2. ASSUME NEW n \in Nat, n \in S
        PROVE  n + 1 \in S
    <2>1. PICK f : Removals(f, q, n)
      BY <1>2
    <2> DEFINE v == Remove(f[n])
               g == [k \in 0 .. n + 1 |-> IF k = n + 1 THEN v ELSE f[k]]
    <2>2. /\ \A k \in 0 .. n : g[k] = f[k]
          /\ g[n + 1] = v /\ g = [k \in 0 .. n + 1 |-> g[k]]
      OBVIOUS
    <2> HIDE DEF g
    <2>3. g[0] = q
      BY <2>1, <2>2 DEF Removals
    <2>4. ASSUME NEW k \in 1 .. n + 1
          PROVE  g[k] = Remove(g[k - 1])
      <3>1. CASE k = n + 1
        <4>1. k - 1 = n /\ n \in 0 .. n
          BY <3>1
        <4> QED
          BY <2>2, <3>1, <4>1 DEF v
      <3>2. CASE k # n + 1
        <4>1. k \in 1 .. n /\ k \in 0 .. n /\ k - 1 \in 0 .. n
          BY <3>2
        <4> QED
          BY <2>1, <2>2, <4>1 DEF Removals
      <3> QED
        BY <3>1, <3>2
    <2>5. Removals(g, q, n + 1)
      BY <2>2, <2>3, <2>4 DEF Removals
    <2> QED
      BY <2>5
  <1> HIDE DEF S
  <1>3. \A n \in Nat : n \in S
    BY <1>1, <1>2, SetInduction
  <1> QED
    BY <1>3 DEF S

(* Flush leaves what as many Removes as the stored length make of the      *)
(* queue.                                                                  *)
LEMMA FlushRemoves ==
  ASSUME Flush, queue.m_nPackets \in Nat
  PROVE  \E f : Removals(f, queue, queue.m_nPackets) /\ queue' = f[queue.m_nPackets]
  <1> DEFINE n == queue.m_nPackets
             Def(f) == f = [k \in 0 .. n |-> IF k = 0 THEN queue ELSE Remove(f[k - 1])]
             removed == CHOOSE f : Def(f)
  <1>1. queue' = removed[n]
    BY DEF Flush
  <1>2. PICK g : Removals(g, queue, n)
    BY RemovalsExist
  <1>3. Def(g)
    <2>1. \A k \in 0 .. n : g[k] = IF k = 0 THEN queue ELSE Remove(g[k - 1])
      <3> TAKE k \in 0 .. n
      <3>1. k = 0 \/ k \in 1 .. n
        OBVIOUS
      <3> QED
        BY <1>2, <3>1 DEF Removals
    <2> QED
      BY <1>2, <2>1 DEF Removals
  <1>4. Def(removed)
    <2> HIDE DEF Def
    <2> QED
      BY <1>3
  <1> HIDE DEF removed
  <1>5. /\ removed = [k \in 0 .. n |-> removed[k]]
        /\ \A k \in 0 .. n : removed[k] = IF k = 0 THEN queue ELSE Remove(removed[k - 1])
    BY <1>4
  <1>6. removed[0] = queue /\ \A k \in 1 .. n : removed[k] = Remove(removed[k - 1])
    <2>1. 0 \in 0 .. n /\ \A k \in 1 .. n : k \in 0 .. n /\ k # 0
      OBVIOUS
    <2> QED
      BY <1>5, <2>1
  <1>7. Removals(removed, queue, n)
    BY <1>5, <1>6 DEF Removals
  <1> QED
    BY <1>1, <1>7

(* The members whose balance is proved. *)
BalanceInv ==
  Shape(queue) /\ served \in Nat /\ carried \in Nat /\ Kept(queue, served, carried)

(* The statistics start balanced. *)
LEMMA InitBalance == QueueInit => BalanceInv
  <1> SUFFICES ASSUME QueueInit PROVE BalanceInv
    OBVIOUS
  <1>1. 0 \in Uint32 /\ Wrap(0) = 0
    BY UINT32Assumption, WrapId DEF Uint32
  <1>2. queue = NewQueue(InitialMax) /\ served = 0 /\ carried = 0
    BY DEF QueueInit
  <1>3. Shape(NewQueue(InitialMax))
    BY <1>1 DEF Shape, NewQueue, ZeroStats
  <1>4. Counters(NewQueue(InitialMax)) = <<0, 0, 0, 0, 0>>
    BY DEF Counters, NewQueue, ZeroStats
  <1>5. Kept(NewQueue(InitialMax), 0, 0)
    BY <1>1, <1>4, KeptCounters
  <1> QED
    BY <1>2, <1>3, <1>5 DEF BalanceInv

(* Every operation keeps the balance; Flush by every Remove of its loop. *)
LEMMA NextBalance == BalanceInv /\ [QueueNext]_queueVars => BalanceInv'
  <1> SUFFICES ASSUME BalanceInv, [QueueNext]_queueVars
               PROVE  BalanceInv'
    OBVIOUS
  <1>0. Shape(queue) /\ served \in Nat /\ carried \in Nat /\ Kept(queue, served, carried)
    BY DEF BalanceInv
  <1>a. queue.m_nPackets \in Nat /\ queue.m_nPackets \in Uint32
    BY <1>0 DEF Shape, Uint32
  <1>1. ASSUME NEW p \in Item, DoEnqueue(p)
        PROVE  BalanceInv'
    <2>1. queue' = Enqueue(queue, p) /\ served' = served /\ carried' = carried
      BY <1>1 DEF DoEnqueue
    <2>2. Shape(Enqueue(queue, p)) /\ Kept(Enqueue(queue, p), served, carried)
      BY <1>0, EnqueueCounters, EnqueueKept
    <2> QED
      BY <1>0, <2>1, <2>2 DEF BalanceInv
  <1>2. CASE DoDequeue
    <2>1. /\ queue' = Dequeue(queue) /\ carried' = carried
          /\ served' = IF IsEmpty(queue) THEN served ELSE served + 1
      BY <1>2 DEF DoDequeue
    <2>2. Shape(queue') /\ Kept(queue', served', carried) /\ served' \in Nat
      BY <1>0, <2>1, DequeueKept
    <2> QED
      BY <1>0, <2>1, <2>2 DEF BalanceInv
  <1>3. CASE DoRemove
    <2>1. queue' = Remove(queue) /\ carried' = carried /\ served' = served
      BY <1>3 DEF DoRemove
    <2> QED
      BY <1>0, <2>1, RemoveKept DEF BalanceInv
  <1>4. CASE Flush
    <2> DEFINE n == queue.m_nPackets
    <2>1. PICK f : Removals(f, queue, n) /\ queue' = f[n]
      BY <1>4, <1>a, FlushRemoves
    <2> DEFINE S == {k \in Nat : k <= n => Shape(f[k]) /\ Kept(f[k], served, carried)}
    <2>2. 0 \in S
      BY <1>0, <2>1 DEF Removals
    <2>3. ASSUME NEW k \in Nat, k \in S
          PROVE  k + 1 \in S
      <3> SUFFICES ASSUME k + 1 <= n
                   PROVE  Shape(f[k + 1]) /\ Kept(f[k + 1], served, carried)
        OBVIOUS
      <3>1. k + 1 \in 1 .. n /\ (k + 1) - 1 = k /\ k <= n
        BY <1>a
      <3>2. f[k + 1] = Remove(f[k]) /\ Shape(f[k]) /\ Kept(f[k], served, carried)
        BY <2>1, <2>3, <3>1 DEF Removals
      <3> QED
        BY <1>0, <3>2, RemoveKept
    <2> HIDE DEF S
    <2>4. \A k \in Nat : k \in S
      BY <2>2, <2>3, SetInduction
    <2>5. n \in S
      BY <1>a, <2>4
    <2>6. Shape(f[n]) /\ Kept(f[n], served, carried)
      BY <1>a, <2>5 DEF S
    <2>7. served' = served /\ carried' = carried
      BY <1>4 DEF Flush
    <2> QED
      BY <1>0, <2>1, <2>6, <2>7 DEF BalanceInv
  <1>5. CASE DoResetStatistics
    <2> DEFINE k == queue.m_nPackets
    <2>1. /\ queue' = [queue EXCEPT !.m_nTotal = ZeroStats] /\ served' = 0 /\ carried' = k
      BY <1>5 DEF DoResetStatistics, ResetStatistics
    <2>2. /\ queue'.m_nTotal = ZeroStats /\ queue'.m_nPackets = k
          /\ DOMAIN queue' = DOMAIN queue /\ queue' = [x \in DOMAIN queue' |-> queue'[x]]
      BY <1>0, <2>1 DEF Shape
    <2>3. 0 \in Uint32 /\ Wrap(0) = 0
      BY UINT32Assumption, WrapId DEF Uint32
    <2>4. Shape(queue')
      BY <1>0, <2>2, <2>3 DEF Shape, ZeroStats
    <2>5. Counters(queue') = <<0, 0, 0, 0, k>>
      BY <2>2 DEF Counters, ZeroStats
    <2>6. 0 + k = 0 + 0 + k /\ 0 + 0 = 0
      BY <1>a
    <2>7. Kept(queue', 0, k)
      BY <2>3, <2>5, <2>6, KeptCounters
    <2> QED
      BY <1>a, <2>1, <2>4, <2>7 DEF BalanceInv
  <1>6. CASE DoResetStats
    <2> DEFINE n == queue.m_nTotal
               b == [n.before EXCEPT !.bytes = 0]
               m == [n EXCEPT !.before = b]
    <2>1. queue' = [queue EXCEPT !.m_nTotal = m] /\ served' = served /\ carried' = carried
      BY <1>0, <1>6 DEF DoResetStats, ResetStats, Shape
    <2>2. /\ b.packets = n.before.packets /\ DOMAIN b = {"packets", "bytes"}
          /\ b = [x \in DOMAIN b |-> b[x]]
      BY <1>0 DEF Shape
    <2> HIDE DEF b
    <2>3. /\ m.received = n.received /\ m.dropped = n.dropped /\ m.before = b /\ m.after = n.after
          /\ DOMAIN m = DOMAIN n /\ m = [x \in DOMAIN m |-> m[x]]
      BY <1>0 DEF Shape
    <2> HIDE DEF m
    <2>4. /\ queue'.m_nTotal = m /\ queue'.m_nPackets = queue.m_nPackets
          /\ DOMAIN queue' = DOMAIN queue /\ queue' = [x \in DOMAIN queue' |-> queue'[x]]
      BY <1>0, <2>1 DEF Shape
    <2>5. Shape(queue')
      BY <1>0, <2>2, <2>3, <2>4 DEF Shape
    <2>6. Kept(queue', served, carried)
      BY <1>0, <2>2, <2>3, <2>4 DEF Kept
    <2> QED
      BY <1>0, <2>1, <2>5, <2>6 DEF BalanceInv
  <1>7. ASSUME NEW max \in MaxSizes, DoSetMaxSize(max)
        PROVE  BalanceInv'
    <2>1. queue' = SetMaxSize(queue, max) /\ served' = served /\ carried' = carried
      BY <1>7 DEF DoSetMaxSize
    <2>2. /\ queue'.m_nTotal = queue.m_nTotal /\ queue'.m_nPackets = queue.m_nPackets
          /\ DOMAIN queue' = DOMAIN queue /\ queue' = [x \in DOMAIN queue' |-> queue'[x]]
      BY <1>0, <2>1 DEF Shape, SetMaxSize
    <2>3. Shape(queue') /\ Kept(queue', served, carried)
      BY <1>0, <2>2 DEF Shape, Kept
    <2> QED
      BY <1>0, <2>1, <2>3 DEF BalanceInv
  <1>8. CASE UNCHANGED queueVars
    <2>1. queue' = queue /\ served' = served /\ carried' = carried
      BY <1>8 DEF queueVars
    <2> QED
      BY <1>0, <2>1 DEF BalanceInv
  <1> QED
    BY <1>1, <1>2, <1>3, <1>4, <1>5, <1>6, <1>7, <1>8 DEF QueueNext

(* The statistics of the queue balance in every state of the model, also   *)
(* when a counter has wrapped, and even if the stored length did.          *)
THEOREM StatisticsBalance == QueueSpec => []PacketsBalance
  <1>1. BalanceInv => PacketsBalance
    BY DEF BalanceInv, Kept, PacketsBalance
  <1> QED
    BY <1>1, InitBalance, NextBalance, PTL DEF QueueSpec

-----------------------------------------------------------------------------
(* Items of at most m bytes, and limits that keep the stored length and    *)
(* size of a queue below 2^32, also of one that is about to be refused an  *)
(* item.                                                                   *)
NoWrap ==
  \E m \in Nat :
    /\ ItemSizes \subseteq 1 .. m
    /\ \A max \in MaxSizes \cup {InitialMax} :
         /\ max.unit = "PACKETS" => m * (max.value + 1) < UINT32
         /\ max.unit = "BYTES" => max.value + m < UINT32

(* The limit in force was set, and is respected until the program aborts. *)
ContentsInv ==
  /\ QueueTypeOK /\ CountsRight(queue)
  /\ queue.m_maxSize \in MaxSizes \cup {InitialMax}
  /\ ~ aborted => GetCurrentSize(queue) <= queue.m_maxSize.value

(* Packets have sizes. *)
LEMMA ItemHasSize == \A x \in Item : x.size \in Nat
  BY QueueAssumption DEF Item

(* Remove is Dequeue, apart from the statistics. *)
LEMMA RemoveCounts ==
  ASSUME NEW P, \A x \in P : x.size \in Nat, NEW q \in QueueOf(P), CountsRight(q)
  PROVE  /\ Remove(q) \in QueueOf(P) /\ CountsRight(Remove(q))
         /\ Remove(q).m_maxSize = q.m_maxSize /\ Remove(q).m_packets = Dequeue(q).m_packets
         /\ Remove(q).m_nPackets = Dequeue(q).m_nPackets
         /\ Remove(q).m_nBytes = Dequeue(q).m_nBytes
  <1> DEFINE d == Dequeue(q)
             x == FrontItem(q)
  <1>1. d \in QueueOf(P) /\ CountsRight(d) /\ d.m_maxSize = q.m_maxSize
    BY DequeueCounts
  <1>2. CASE IsEmpty(q)
    BY <1>1, <1>2 DEF Remove, Dequeue
  <1>3. CASE ~ IsEmpty(q)
    <2>1. x \in P /\ x.size \in Nat
      BY <1>3, DequeueCounts
    <2> HIDE DEF x, d
    <2>2. Remove(q) = DropAfterDequeue(d, x)
      BY <1>3 DEF Remove, d, x
    <2> DEFINE T == [d.m_nTotal EXCEPT !.dropped = Counted(@, x), !.after = Counted(@, x)]
    <2>3. d.m_nTotal \in Stats
      BY <1>1 DEF QueueOf
    <2>4. Counted(d.m_nTotal.dropped, x) \in Count /\ Counted(d.m_nTotal.after, x) \in Count
      BY <2>1, <2>3, CountedType DEF Stats
    <2>5. T \in Stats
      BY <2>3, <2>4 DEF Stats
    <2>6. Remove(q) = WithStats(d, T)
      BY <1>1, <2>2, <2>3 DEF DropAfterDequeue, WithStats, QueueOf, Stats
    <2> HIDE DEF T
    <2>7. Remove(q) \in QueueOf(P)
      BY <1>1, <2>5, <2>6, WithStatsType
    <2>8. /\ Remove(q).m_packets = d.m_packets /\ Remove(q).m_nBytes = d.m_nBytes
          /\ Remove(q).m_nPackets = d.m_nPackets /\ Remove(q).m_maxSize = d.m_maxSize
      BY <1>1, <2>6 DEF WithStats, QueueOf
    <2> QED
      BY <1>1, <2>7, <2>8 DEF CountsRight, d
  <1> QED
    BY <1>2, <1>3

(* What the queue may hold is below the wrap, with one more packet too. *)
LEMMA RoomForOne ==
  ASSUME NoWrap, ContentsInv, ~ aborted, NEW p \in Item
  PROVE  /\ Len(queue.m_packets) + 1 < UINT32
         /\ Bytes(queue.m_packets) + p.size < UINT32
  <1> DEFINE s == queue.m_packets
             v == queue.m_maxSize.value
             l == Len(s)
             b == Bytes(s)
  <1>1. PICK m \in Nat : /\ ItemSizes \subseteq 1 .. m
                         /\ queue.m_maxSize.unit = "PACKETS" => m * (v + 1) < UINT32
                         /\ queue.m_maxSize.unit = "BYTES" => v + m < UINT32
    BY DEF NoWrap, ContentsInv
  <1>2. /\ s \in Seq(Item) /\ v \in Nat /\ queue.m_maxSize.unit \in {"PACKETS", "BYTES"}
        /\ queue.m_nPackets = l /\ queue.m_nBytes = b
    BY DEF ContentsInv, QueueTypeOK, QueueOf, CountsRight, Units, Uint32
  <1>3. p.size \in 1 .. m /\ \A i \in 1 .. l : s[i].size \in 1 .. m
    <2>1. \A x \in Item : x.size \in 1 .. m
      BY <1>1 DEF Item
    <2>2. \A i \in 1 .. l : s[i] \in Item
      BY <1>2
    <2> QED
      BY <2>1, <2>2
  <1>4. Sized(s) /\ l \in Nat
    BY <1>2, ListSized, ItemHasSize
  <1>5. l <= b /\ b <= m * l /\ b \in Nat
    BY <1>3, <1>4, BytesBounds, BytesNat
  <1>6. queue.m_maxSize.unit = "PACKETS" => l <= v
    BY <1>2 DEF ContentsInv, GetCurrentSize
  <1>7. queue.m_maxSize.unit = "BYTES" => b <= v
    BY <1>2 DEF ContentsInv, GetCurrentSize
  <1> DEFINE z == p.size
  <1> HIDE DEF l, b, v, s, z
  <1>8. z \in Nat /\ z >= 1 /\ z <= m /\ UINT32 \in Nat
    BY <1>3, UINT32Assumption DEF z
  <1>9. CASE queue.m_maxSize.unit = "BYTES"
    <2>1. b <= v /\ v + m < UINT32
      BY <1>1, <1>7, <1>9
    <2>2. l + 1 < UINT32 /\ b + z < UINT32
      BY <1>2, <1>4, <1>5, <1>8, <2>1
    <2> QED
      BY <2>2 DEF l, b, s, z
  <1>10. CASE queue.m_maxSize.unit = "PACKETS"
    <2>1. l <= v /\ m * (v + 1) < UINT32
      BY <1>1, <1>6, <1>10
    <2>2. m * (l + 1) <= m * (v + 1)
      BY <1>2, <1>4, <2>1, ProductMonotone
    <2>3. m * (l + 1) = m * l + m /\ m * l \in Nat /\ m * (v + 1) \in Nat
      BY <1>2, <1>4
    <2> DEFINE c == m * l
               e == m * (v + 1)
    <2>4. c \in Nat /\ e \in Nat /\ c + m <= e /\ e < UINT32 /\ b <= c
      BY <1>5, <2>1, <2>2, <2>3
    <2> HIDE DEF c, e
    <2>5. b + z < UINT32 /\ l + 1 < UINT32
      BY <1>4, <1>5, <1>8, <2>4
    <2> QED
      BY <2>5 DEF l, b, s, z
  <1> QED
    BY <1>2, <1>9, <1>10

(* The queue starts empty. *)
LEMMA InitContents == QueueInit => ContentsInv
  <1> SUFFICES ASSUME QueueInit PROVE ContentsInv
    OBVIOUS
  <1> DEFINE q == NewQueue(InitialMax)
  <1>1. queue = q /\ aborted = FALSE /\ served = 0 /\ carried = 0 /\ ops = 0
    BY DEF QueueInit
  <1>2. InitialMax \in [unit : Units, value : Uint32] /\ MaxOps \in Nat
    BY QueueAssumption
  <1>3. 0 \in Uint32 /\ ZeroStats \in Stats
    BY UINT32Assumption DEF Uint32, ZeroStats, Stats, Count
  <1>4. q \in QueueOf(Item)
    BY <1>2, <1>3 DEF NewQueue, QueueOf
  <1>5. CountsRight(q)
    BY BytesEmpty DEF CountsRight, NewQueue
  <1>6. GetCurrentSize(q) = 0 /\ q.m_maxSize = InitialMax
    BY DEF GetCurrentSize, NewQueue
  <1>7. 0 <= InitialMax.value
    BY <1>2 DEF Uint32
  <1>8. QueueTypeOK
    <2>1. ops \in 0 .. MaxOps /\ served \in Nat /\ carried \in Nat
      BY <1>1, <1>2
    <2>2. aborted \in BOOLEAN
      BY <1>1
    <2> QED
      BY <1>1, <1>4, <2>1, <2>2 DEF QueueTypeOK
  <1> QED
    BY <1>1, <1>5, <1>6, <1>7, <1>8 DEF ContentsInv

(* Every operation keeps the counts right and, unless it aborts the        *)
(* program, the limit respected.                                           *)
LEMMA NextContents ==
  ASSUME NoWrap, ContentsInv, BalanceInv', [QueueNext]_queueVars
  PROVE  ContentsInv'
  <1>0. /\ queue \in QueueOf(Item) /\ CountsRight(queue) /\ aborted \in BOOLEAN
        /\ ops \in 0 .. MaxOps
        /\ queue.m_maxSize \in MaxSizes \cup {InitialMax}
        /\ ~ aborted => GetCurrentSize(queue) <= queue.m_maxSize.value
    BY DEF ContentsInv, QueueTypeOK
  <1>a. served' \in Nat /\ carried' \in Nat
    BY DEF BalanceInv
  <1>b. ASSUME Step PROVE ops' \in 0 .. MaxOps /\ ~ aborted
    BY <1>0, <1>b, QueueAssumption DEF Step
  <1>c. /\ queue.m_packets \in Seq(Item) /\ queue.m_maxSize.value \in Nat
        /\ queue.m_nPackets \in Nat /\ queue.m_nBytes \in Nat
        /\ queue.m_maxSize \in [unit : Units, value : Uint32] /\ queue.m_nTotal \in Stats
        /\ queue.m_nPackets = Len(queue.m_packets) /\ queue.m_nBytes = Bytes(queue.m_packets)
    BY <1>0 DEF QueueOf, CountsRight, Uint32
  <1>d. ASSUME Step, queue' \in QueueOf(Item), CountsRight(queue'), aborted' \in BOOLEAN,
               queue'.m_maxSize \in MaxSizes \cup {InitialMax},
               ~ aborted' => GetCurrentSize(queue') <= queue'.m_maxSize.value
        PROVE  ContentsInv'
    BY <1>a, <1>b, <1>d DEF ContentsInv, QueueTypeOK
  <1>1. ASSUME NEW p \in Item, DoEnqueue(p)
        PROVE  ContentsInv'
    <2> DEFINE r == Enqueue(queue, p)
               u == queue.m_maxSize.unit
               v == queue.m_maxSize.value
    <2>1. Step /\ queue' = r /\ aborted' = aborted
      BY <1>1 DEF DoEnqueue
    <2>2. Len(queue.m_packets) + 1 < UINT32 /\ Bytes(queue.m_packets) + p.size < UINT32
      BY <1>b, <2>1, RoomForOne
    <2>3. /\ r \in QueueOf(Item) /\ CountsRight(r) /\ r.m_maxSize = queue.m_maxSize
          /\ Accepts(queue, p) <=>
               IF u = "PACKETS"
               THEN Len(queue.m_packets) + 1 <= v ELSE Bytes(queue.m_packets) + p.size <= v
          /\ Accepts(queue, p) =>
               /\ Len(r.m_packets) = Len(queue.m_packets) + 1
               /\ Bytes(r.m_packets) = Bytes(queue.m_packets) + p.size
          /\ ~ Accepts(queue, p) => r.m_packets = queue.m_packets
      BY <1>0, <2>2, ItemHasSize, EnqueueCounts
    <2>4. GetCurrentSize(r) = IF u = "PACKETS" THEN Len(r.m_packets) ELSE Bytes(r.m_packets)
      BY <2>3 DEF GetCurrentSize, CountsRight
    <2>5. GetCurrentSize(queue) =
            IF u = "PACKETS" THEN Len(queue.m_packets) ELSE Bytes(queue.m_packets)
      BY <1>0 DEF GetCurrentSize, CountsRight
    <2>6. GetCurrentSize(queue) <= v
      BY <1>0, <1>b, <2>1
    <2>7. GetCurrentSize(r) <= v
      <3>1. CASE Accepts(queue, p)
        BY <2>3, <2>4, <3>1
      <3>2. CASE ~ Accepts(queue, p)
        BY <2>3, <2>4, <2>5, <2>6, <3>2
      <3> QED
        BY <3>1, <3>2
    <2> QED
      BY <1>0, <1>d, <2>1, <2>3, <2>7
  <1>e. /\ DequeueAsserts(queue)
        /\ Dequeue(queue) \in QueueOf(Item) /\ CountsRight(Dequeue(queue))
        /\ Dequeue(queue).m_maxSize = queue.m_maxSize
        /\ ~ aborted => GetCurrentSize(Dequeue(queue)) <= queue.m_maxSize.value
    <2> DEFINE r == Dequeue(queue)
    <2>1. /\ DequeueAsserts(queue) /\ r \in QueueOf(Item) /\ CountsRight(r)
          /\ r.m_maxSize = queue.m_maxSize
          /\ ~ IsEmpty(queue) => /\ Len(r.m_packets) = Len(queue.m_packets) - 1
                                 /\ Bytes(r.m_packets) <= Bytes(queue.m_packets)
      BY <1>0, ItemHasSize, DequeueCounts
    <2>2. IsEmpty(queue) => r = queue
      BY DEF Dequeue
    <2>3. r.m_nPackets = Len(r.m_packets) /\ r.m_nBytes = Bytes(r.m_packets)
          /\ r.m_nPackets \in Nat /\ r.m_nBytes \in Nat
      BY <2>1 DEF CountsRight, QueueOf, Uint32
    <2>4. r.m_nPackets <= queue.m_nPackets /\ r.m_nBytes <= queue.m_nBytes
      BY <1>c, <2>1, <2>2, <2>3
    <2>5. GetCurrentSize(r) = IF queue.m_maxSize.unit = "PACKETS" THEN r.m_nPackets ELSE r.m_nBytes
      BY <2>1 DEF GetCurrentSize
    <2>6. ~ aborted => GetCurrentSize(r) <= queue.m_maxSize.value
      <3> SUFFICES ASSUME ~ aborted PROVE GetCurrentSize(r) <= queue.m_maxSize.value
        OBVIOUS
      <3>1. (IF queue.m_maxSize.unit = "PACKETS" THEN queue.m_nPackets ELSE queue.m_nBytes)
               <= queue.m_maxSize.value
        BY <1>0 DEF GetCurrentSize
      <3> HIDE DEF r
      <3> QED
        BY <1>c, <2>3, <2>4, <2>5, <3>1
    <2> QED
      BY <2>1, <2>6
  <1>2. CASE DoDequeue
    <2>1. Step /\ queue' = Dequeue(queue) /\ aborted' = ~ DequeueAsserts(queue)
      BY <1>2 DEF DoDequeue
    <2>2. aborted' \in BOOLEAN
      BY <2>1, <1>e
    <2>3. queue'.m_maxSize = queue.m_maxSize /\ GetCurrentSize(queue') <= queue.m_maxSize.value
      BY <1>b, <1>e, <2>1
    <2> QED
      BY <1>0, <1>d, <1>e, <2>1, <2>2, <2>3
  <1>f. ASSUME NEW q \in QueueOf(Item), CountsRight(q)
        PROVE  /\ Remove(q) \in QueueOf(Item) /\ CountsRight(Remove(q))
               /\ Remove(q).m_maxSize = q.m_maxSize
               /\ Remove(q).m_nPackets = Dequeue(q).m_nPackets
               /\ Remove(q).m_nBytes = Dequeue(q).m_nBytes
    BY <1>f, ItemHasSize, RemoveCounts
  <1>3. CASE DoRemove
    <2>1. Step /\ queue' = Remove(queue) /\ aborted' = ~ DequeueAsserts(queue)
      BY <1>3 DEF DoRemove
    <2>2. aborted' \in BOOLEAN
      BY <2>1, <1>e
    <2>3. /\ queue' \in QueueOf(Item) /\ CountsRight(queue')
          /\ queue'.m_maxSize = queue.m_maxSize
          /\ GetCurrentSize(queue') = GetCurrentSize(Dequeue(queue))
      BY <1>0, <1>e, <1>f, <2>1 DEF GetCurrentSize
    <2>4. GetCurrentSize(queue') <= queue.m_maxSize.value
      BY <1>b, <1>e, <2>1, <2>3
    <2> QED
      BY <1>0, <1>d, <2>1, <2>2, <2>3, <2>4
  <1>4. CASE Flush
    <2> DEFINE n == queue.m_nPackets
    <2>1. PICK f : Removals(f, queue, n) /\ queue' = f[n]
      BY <1>4, <1>c, FlushRemoves
    <2> DEFINE S == {k \in Nat : k <= n => /\ f[k] \in QueueOf(Item) /\ CountsRight(f[k])
                                          /\ f[k].m_maxSize = queue.m_maxSize
                                          /\ f[k].m_nPackets = n - k}
    <2>2. 0 \in S
      BY <1>0, <1>c, <2>1 DEF Removals
    <2>3. ASSUME NEW k \in Nat, k \in S
          PROVE  k + 1 \in S
      <3> DEFINE q == f[k]
      <3> SUFFICES ASSUME k + 1 <= n
                   PROVE  /\ f[k + 1] \in QueueOf(Item) /\ CountsRight(f[k + 1])
                          /\ f[k + 1].m_maxSize = queue.m_maxSize
                          /\ f[k + 1].m_nPackets = n - (k + 1)
        OBVIOUS
      <3>1. k + 1 \in 1 .. n /\ (k + 1) - 1 = k /\ k <= n
        BY <1>c
      <3>2. /\ f[k + 1] = Remove(q) /\ q \in QueueOf(Item) /\ CountsRight(q)
            /\ q.m_maxSize = queue.m_maxSize /\ q.m_nPackets = n - k
        BY <2>1, <2>3, <3>1 DEF Removals
      <3>3. ~ IsEmpty(q)
        BY <1>c, <3>1, <3>2 DEF IsEmpty
      <3> HIDE DEF q
      <3>4. Dequeue(q).m_nPackets = q.m_nPackets - 1
        BY <3>2, <3>3, ItemHasSize, DequeueCounts
      <3>5. (n - k) - 1 = n - (k + 1)
        BY <1>c
      <3> QED
        BY <1>f, <3>2, <3>4, <3>5
    <2> HIDE DEF S
    <2>4. \A k \in Nat : k \in S
      BY <2>2, <2>3, SetInduction
    <2>5. n \in S
      BY <1>c, <2>4
    <2>6. /\ queue' \in QueueOf(Item) /\ CountsRight(queue')
          /\ queue'.m_maxSize = queue.m_maxSize /\ queue'.m_nPackets = 0
      BY <1>c, <2>1, <2>5 DEF S
    <2>7. queue'.m_nBytes = 0
      <3>1. queue'.m_packets \in Seq(Item) /\ Len(queue'.m_packets) = 0
        BY <2>6 DEF QueueOf, CountsRight
      <3>2. queue'.m_packets = << >>
        BY <3>1, EmptySeq
      <3> QED
        BY <2>6, <3>2, BytesEmpty DEF CountsRight
    <2>8. GetCurrentSize(queue') = 0
      BY <2>6, <2>7 DEF GetCurrentSize
    <2>9. Step /\ aborted' \in BOOLEAN
      BY <1>4 DEF Flush
    <2> QED
      BY <1>0, <1>c, <1>d, <2>6, <2>8, <2>9
  <1>g. ASSUME NEW T \in Stats, queue' = WithStats(queue, T), Step, aborted' = aborted
        PROVE  ContentsInv'
    <2>1. queue' \in QueueOf(Item)
      BY <1>0, <1>g, WithStatsType
    <2>2. /\ queue'.m_packets = queue.m_packets /\ queue'.m_nBytes = queue.m_nBytes
          /\ queue'.m_nPackets = queue.m_nPackets /\ queue'.m_maxSize = queue.m_maxSize
      BY <1>0, <1>g DEF WithStats, QueueOf
    <2>3. CountsRight(queue') /\ GetCurrentSize(queue') = GetCurrentSize(queue)
      BY <1>0, <2>2 DEF CountsRight, GetCurrentSize
    <2> QED
      BY <1>0, <1>d, <1>g, <2>1, <2>2, <2>3
  <1>h. 0 \in Uint32
    BY UINT32Assumption DEF Uint32
  <1>5. CASE DoResetStatistics
    <2>1. ZeroStats \in Stats
      BY <1>h DEF ZeroStats, Stats, Count
    <2>2. queue' = WithStats(queue, ZeroStats) /\ Step /\ aborted' = aborted
      BY <1>5 DEF DoResetStatistics, ResetStatistics, WithStats
    <2> QED
      BY <1>g, <2>1, <2>2
  <1>6. CASE DoResetStats
    <2> DEFINE n == queue.m_nTotal
               T == [n EXCEPT !.before.bytes = 0]
    <2>1. T \in Stats
      BY <1>c, <1>h DEF Stats, Count
    <2>2. queue' = WithStats(queue, T) /\ Step /\ aborted' = aborted
      BY <1>0, <1>6 DEF DoResetStats, ResetStats, WithStats, QueueOf
    <2> HIDE DEF T
    <2> QED
      BY <1>g, <2>1, <2>2
  <1>7. ASSUME NEW max \in MaxSizes, DoSetMaxSize(max)
        PROVE  ContentsInv'
    <2>1. Step /\ queue' = SetMaxSize(queue, max) /\ aborted' = SetMaxSizeAborts(queue, max)
      BY <1>7 DEF DoSetMaxSize
    <2>2. aborted' \in BOOLEAN
      BY <2>1 DEF SetMaxSizeAborts
    <2>3. max \in [unit : Units, value : Uint32] /\ max.value \in Nat
      BY QueueAssumption DEF Uint32
    <2>4. CASE max.value = 0
      <3>1. queue' = queue
        BY <2>1, <2>4 DEF SetMaxSize
      <3> QED
        BY <1>0, <1>b, <1>d, <2>1, <2>2, <3>1
    <2>5. CASE max.value # 0
      <3>1. queue' = [queue EXCEPT !.m_maxSize = max]
        BY <2>1, <2>5 DEF SetMaxSize
      <3>2. /\ queue'.m_packets = queue.m_packets /\ queue'.m_nBytes = queue.m_nBytes
            /\ queue'.m_nPackets = queue.m_nPackets /\ queue'.m_maxSize = max
        BY <1>0, <3>1 DEF QueueOf
      <3>3. queue' \in QueueOf(Item)
        BY <1>0, <2>3, <3>1 DEF QueueOf
      <3>4. CountsRight(queue')
        BY <1>0, <3>2 DEF CountsRight
      <3>5. GetCurrentSize(queue') \in Nat
        BY <1>c, <3>2 DEF GetCurrentSize
      <3>6. ~ aborted' => ~ (max.value < GetCurrentSize(queue'))
        BY <2>1, <2>5 DEF SetMaxSizeAborts
      <3>7. ~ aborted' => GetCurrentSize(queue') <= max.value
        BY <2>3, <3>5, <3>6
      <3> QED
        BY <1>d, <2>1, <2>2, <3>2, <3>3, <3>4, <3>7
    <2> QED
      BY <2>4, <2>5
  <1>8. CASE UNCHANGED queueVars
    BY <1>8 DEF queueVars, ContentsInv, QueueTypeOK
  <1> QED
    BY <1>1, <1>2, <1>3, <1>4, <1>5, <1>6, <1>7, <1>8 DEF QueueNext

(* The stored length and size agree with the list, and the limit in force  *)
(* is respected, after any sequence of operations, for any packet sizes    *)
(* and limits under which the stored values do not wrap.                   *)
THEOREM ContentsAreCounted ==
  ASSUME NoWrap
  PROVE  QueueSpec => []ContentsCounted
  <1>1. ContentsInv => ContentsCounted
    BY DEF ContentsInv, CountsRight, ContentsCounted
  <1>2. ContentsInv /\ BalanceInv /\ [QueueNext]_queueVars => ContentsInv' /\ BalanceInv'
    BY NextBalance, NextContents
  <1>3. QueueInit => ContentsInv /\ BalanceInv
    BY InitContents, InitBalance
  <1> QED
    BY <1>1, <1>2, <1>3, PTL DEF QueueSpec

(* The assertions in DoDequeue and DoRemove never fail: only SetMaxSize    *)
(* can stop the program.                                                   *)
THEOREM DequeueNeverAsserts ==
  ASSUME NoWrap
  PROVE  QueueSpec => []DequeueAsserts(queue)
  <1>1. ContentsInv => DequeueAsserts(queue)
    BY ItemHasSize, DequeueCounts DEF ContentsInv, QueueTypeOK
  <1>2. ContentsInv /\ BalanceInv /\ [QueueNext]_queueVars => ContentsInv' /\ BalanceInv'
    BY NextBalance, NextContents
  <1>3. QueueInit => ContentsInv /\ BalanceInv
    BY InitContents, InitBalance
  <1> QED
    BY <1>1, <1>2, <1>3, PTL DEF QueueSpec

-----------------------------------------------------------------------------
(* A limit in bytes that leaves the counters room for one packet more.     *)
Roomy(max, P) ==
  max.unit # "PACKETS" => \A x \in P : x.size >= 1 /\ max.value + x.size < UINT32

(* A new queue is sound. *)
LEMMA NewQueueSound ==
  ASSUME NEW P, NEW max \in [unit : Units, value : Uint32],
         max.unit = "PACKETS" => max.value < UINT32 - 1
  PROVE  SoundQueue(NewQueue(max), P) /\ NewQueue(max).m_packets = << >>
  <1>1. 0 \in Uint32
    BY UINT32Assumption DEF Uint32
  <1>2. ZeroStats \in Stats
    BY <1>1 DEF ZeroStats, Stats, Count
  <1>3. max.value >= 0
    BY DEF Uint32
  <1> QED
    BY <1>1, <1>2, <1>3, BytesEmpty DEF SoundQueue, NewQueue, QueueOf, Uint32

(* The counts of a sound queue limited in bytes are right, and may grow.   *)
LEMMA BytesRoom ==
  ASSUME NEW P, \A x \in P : x.size \in Nat, NEW q, SoundQueue(q, P),
         q.m_maxSize.unit # "PACKETS", Roomy(q.m_maxSize, P), NEW item \in P
  PROVE  /\ q \in QueueOf(P) /\ CountsRight(q)
         /\ Len(q.m_packets) + 1 < UINT32 /\ Bytes(q.m_packets) + item.size < UINT32
  <1> DEFINE s == q.m_packets
             v == q.m_maxSize.value
             b == Bytes(s)
  <1>1. /\ q \in QueueOf(P) /\ CountsRight(q) /\ b <= v
    BY DEF SoundQueue, CountsRight
  <1>2. s \in Seq(P) /\ v \in Nat
    BY <1>1 DEF QueueOf, Uint32
  <1>3. \A x \in P : x.size \in Nat /\ x.size >= 1 /\ v + x.size < UINT32
    BY DEF Roomy
  <1>4. Sized(s) /\ Len(s) \in Nat /\ \A i \in 1 .. Len(s) : s[i] \in P
    BY <1>2, ListSized
  <1>5. \A i \in 1 .. Len(s) : s[i].size \in 1 .. UINT32
    <2>1. \A x \in P : x.size \in 1 .. UINT32
      BY <1>2, <1>3, UINT32Assumption
    <2> QED
      BY <1>4, <2>1
  <1>6. Len(s) <= b /\ b \in Nat
    BY <1>4, <1>5, BytesBounds, BytesNat, UINT32Assumption
  <1>7. item.size \in Nat /\ item.size >= 1 /\ v + item.size < UINT32
    BY <1>3
  <1> HIDE DEF s, v, b
  <1>8. Len(s) + 1 < UINT32 /\ b + item.size < UINT32
    BY <1>1, <1>2, <1>4, <1>6, <1>7, UINT32Assumption
  <1> QED
    BY <1>1, <1>8 DEF s, b

(* A queue limited in packets: Enqueue appends the item exactly when it    *)
(* accepts it, which it does exactly when the list is below the limit.     *)
LEMMA EnqueueByPackets ==
  ASSUME NEW P, \A x \in P : x.size \in Nat,
         NEW q, SoundQueue(q, P), NEW item \in P, q.m_maxSize.unit = "PACKETS"
  PROVE  /\ SoundQueue(Enqueue(q, item), P)
         /\ Accepts(q, item) <=> Len(q.m_packets) < q.m_maxSize.value
         /\ Enqueue(q, item).m_packets =
              IF Accepts(q, item) THEN Append(q.m_packets, item) ELSE q.m_packets
         /\ Enqueue(q, item).m_maxSize = q.m_maxSize
  <1>1. /\ q \in QueueOf(P)
        /\ q.m_packets \in Seq(P)
        /\ q.m_nPackets = Len(q.m_packets)
        /\ q.m_maxSize.value \in Nat
        /\ q.m_maxSize.value < UINT32 - 1
        /\ Len(q.m_packets) \in Nat
        /\ Len(q.m_packets) <= q.m_maxSize.value
        /\ item.size \in Nat
        /\ q.m_nBytes \in Int
    BY DEF SoundQueue, QueueOf, Uint32
  <1>2. Wrap(q.m_nPackets + 1) = Len(q.m_packets) + 1
    <2>1. q.m_nPackets + 1 \in Uint32
      BY <1>1, UINT32Assumption DEF Uint32
    <2> QED BY <2>1, <1>1, WrapId
  <1>3. Accepts(q, item) <=> Len(q.m_packets) < q.m_maxSize.value
    BY <1>1, <1>2 DEF Accepts, SizeWith, SoundQueue
  <1>4. Wrap(q.m_nBytes + item.size) \in Uint32
    BY <1>1, WrapType
  <1>5. /\ Counted(q.m_nTotal.received, item) \in Count
        /\ Counted(q.m_nTotal.dropped, item) \in Count
        /\ Counted(q.m_nTotal.before, item) \in Count
    BY <1>1, CountedType DEF QueueOf, Stats
  <1>6. CASE Accepts(q, item)
    <2>1. Enqueue(q, item) =
            [q EXCEPT !.m_packets = Append(q.m_packets, item),
                      !.m_nBytes = Wrap(q.m_nBytes + item.size),
                      !.m_nPackets = Wrap(q.m_nPackets + 1),
                      !.m_nTotal = [q.m_nTotal EXCEPT
                                      !.received = Counted(@, item)]]
      BY <1>6, <1>1 DEF Enqueue, QueueOf, Stats
    <2>2. Append(q.m_packets, item) \in Seq(P) /\
          Len(Append(q.m_packets, item)) = Len(q.m_packets) + 1
      BY <1>1
    <2>3. Enqueue(q, item) \in QueueOf(P)
      <3>1. [q.m_nTotal EXCEPT !.received = Counted(@, item)] \in Stats
        BY <1>1, <1>5 DEF QueueOf, Stats
      <3>2. Wrap(q.m_nPackets + 1) \in Uint32
        BY <1>1, WrapType
      <3> DEFINE s == Append(q.m_packets, item)
                 b == Wrap(q.m_nBytes + item.size)
                 n == Wrap(q.m_nPackets + 1)
                 t == [q.m_nTotal EXCEPT !.received = Counted(@, item)]
      <3>3. s \in Seq(P) /\ b \in Uint32 /\ n \in Uint32 /\ t \in Stats
        BY <2>2, <3>1, <3>2, <1>4
      <3>4. Enqueue(q, item) = WithStats(WithList(q, s, b, n), t)
        BY <2>1, <1>1 DEF WithList, WithStats, QueueOf
      <3> HIDE DEF s, b, n, t
      <3> QED
        BY <3>3, <3>4, <1>1, WithListType, WithStatsType
    <2>4. /\ Enqueue(q, item).m_packets = Append(q.m_packets, item)
          /\ Enqueue(q, item).m_nPackets = Len(q.m_packets) + 1
          /\ Enqueue(q, item).m_maxSize = q.m_maxSize
      BY <2>1, <1>1, <1>2 DEF QueueOf
    <2> QED
      BY <1>3, <1>6, <1>1, <2>2, <2>3, <2>4 DEF SoundQueue
  <1>7. CASE ~ Accepts(q, item)
    <2>1. Enqueue(q, item) =
            [q EXCEPT !.m_nTotal = [q.m_nTotal EXCEPT
                                      !.dropped = Counted(@, item),
                                      !.before = Counted(@, item)]]
      BY <1>7, <1>1 DEF Enqueue, DropBeforeEnqueue, QueueOf, Stats
    <2>2. Enqueue(q, item) \in QueueOf(P)
      <3>1. [q.m_nTotal EXCEPT !.dropped = Counted(@, item),
                               !.before = Counted(@, item)] \in Stats
        BY <1>1, <1>5 DEF QueueOf, Stats
      <3> DEFINE t == [q.m_nTotal EXCEPT !.dropped = Counted(@, item),
                                         !.before = Counted(@, item)]
      <3>2. t \in Stats /\ Enqueue(q, item) = WithStats(q, t)
        BY <2>1, <3>1 DEF WithStats
      <3> HIDE DEF t
      <3> QED
        BY <3>2, <1>1, WithStatsType
    <2>3. /\ Enqueue(q, item).m_packets = q.m_packets
          /\ Enqueue(q, item).m_nPackets = q.m_nPackets
          /\ Enqueue(q, item).m_maxSize = q.m_maxSize
      BY <2>1, <1>1 DEF QueueOf
    <2> QED
      BY <1>3, <1>7, <1>1, <2>2, <2>3 DEF SoundQueue
  <1> QED
    BY <1>6, <1>7

(* Enqueue appends the item when it accepts it; otherwise the list stays.  *)
LEMMA EnqueueEffect ==
  ASSUME NEW P, \A x \in P : x.size \in Nat,
         NEW q, SoundQueue(q, P), Roomy(q.m_maxSize, P), NEW item \in P
  PROVE  /\ SoundQueue(Enqueue(q, item), P)
         /\ Enqueue(q, item).m_packets =
              IF Accepts(q, item) THEN Append(q.m_packets, item) ELSE q.m_packets
         /\ Enqueue(q, item).m_maxSize = q.m_maxSize
  <1>1. CASE q.m_maxSize.unit = "PACKETS"
    BY <1>1, EnqueueByPackets
  <1>2. CASE q.m_maxSize.unit # "PACKETS"
    <2> DEFINE r == Enqueue(q, item)
    <2>1. /\ q \in QueueOf(P) /\ CountsRight(q)
          /\ Len(q.m_packets) + 1 < UINT32 /\ Bytes(q.m_packets) + item.size < UINT32
      BY <1>2, BytesRoom
    <2>2. /\ r \in QueueOf(P) /\ CountsRight(r) /\ r.m_maxSize = q.m_maxSize
          /\ Accepts(q, item) <=> Bytes(q.m_packets) + item.size <= q.m_maxSize.value
          /\ Accepts(q, item) => /\ r.m_packets = Append(q.m_packets, item)
                                 /\ Bytes(r.m_packets) = Bytes(q.m_packets) + item.size
          /\ ~ Accepts(q, item) => r.m_packets = q.m_packets
      BY <1>2, <2>1, EnqueueCounts
    <2> HIDE DEF r
    <2>3. Bytes(q.m_packets) <= q.m_maxSize.value
      BY <1>2 DEF SoundQueue
    <2>4. Bytes(r.m_packets) <= q.m_maxSize.value
      BY <2>2, <2>3
    <2>5. SoundQueue(r, P)
      BY <1>2, <2>2, <2>4 DEF SoundQueue, CountsRight
    <2> QED
      BY <2>2, <2>5 DEF r
  <1> QED
    BY <1>1, <1>2

(* Dequeue takes the head of a list that is not empty; IsEmpty, which reads *)
(* the stored length, tells the truth about the list.                       *)
LEMMA DequeueEffect ==
  ASSUME NEW P, \A x \in P : x.size \in Nat, NEW q, SoundQueue(q, P)
  PROVE  /\ IsEmpty(q) <=> q.m_packets = << >>
         /\ ~ IsEmpty(q) =>
              /\ SoundQueue(Dequeue(q), P)
              /\ Dequeue(q).m_packets = Tail(q.m_packets)
              /\ Dequeue(q).m_maxSize = q.m_maxSize
              /\ FrontItem(q) = Head(q.m_packets)
              /\ FrontItem(q) \in P
  <1>1. /\ q \in QueueOf(P)
        /\ q.m_packets \in Seq(P)
        /\ q.m_nPackets = Len(q.m_packets)
        /\ Len(q.m_packets) \in Nat
        /\ q.m_nPackets \in Uint32
        /\ q.m_nBytes \in Int
    BY DEF SoundQueue, QueueOf, Uint32
  <1>2. IsEmpty(q) <=> q.m_packets = << >>
    BY <1>1, EmptySeq DEF IsEmpty
  <1>3. ASSUME ~ IsEmpty(q)
        PROVE  /\ SoundQueue(Dequeue(q), P)
               /\ Dequeue(q).m_packets = Tail(q.m_packets)
               /\ Dequeue(q).m_maxSize = q.m_maxSize
               /\ FrontItem(q) = Head(q.m_packets)
               /\ FrontItem(q) \in P
    <2>1. /\ Head(q.m_packets) \in P
          /\ Tail(q.m_packets) \in Seq(P)
          /\ Len(Tail(q.m_packets)) = Len(q.m_packets) - 1
          /\ Len(q.m_packets) >= 1
      BY <1>1, <1>2, <1>3, HeadTailProperties
    <2>2. FrontItem(q) = Head(q.m_packets) /\ FrontItem(q) \in P
      BY <2>1 DEF FrontItem
    <2>3. Wrap(q.m_nPackets - 1) = Len(q.m_packets) - 1
      <3>1. q.m_nPackets - 1 \in Uint32
        BY <1>1, <2>1, UINT32Assumption DEF Uint32
      <3> QED BY <3>1, <1>1, WrapId
    <2>4. Wrap(q.m_nBytes - FrontItem(q).size) \in Uint32
      BY <1>1, <2>2, WrapType
    <2>5. Dequeue(q) = [q EXCEPT !.m_packets = Tail(q.m_packets),
                                 !.m_nBytes = Wrap(q.m_nBytes - FrontItem(q).size),
                                 !.m_nPackets = Wrap(q.m_nPackets - 1)]
      BY <1>3, <1>1 DEF Dequeue, QueueOf
    <2>6. Dequeue(q) \in QueueOf(P)
      <3>1. Wrap(q.m_nPackets - 1) \in Uint32
        BY <1>1, WrapType
      <3> DEFINE s == Tail(q.m_packets)
                 b == Wrap(q.m_nBytes - FrontItem(q).size)
                 n == Wrap(q.m_nPackets - 1)
      <3>2. s \in Seq(P) /\ b \in Uint32 /\ n \in Uint32
        BY <2>1, <2>4, <3>1
      <3>3. Dequeue(q) = WithList(q, s, b, n)
        BY <2>5 DEF WithList
      <3> HIDE DEF s, b, n
      <3> QED
        BY <3>2, <3>3, <1>1, WithListType
    <2>7. /\ Dequeue(q).m_packets = Tail(q.m_packets)
          /\ Dequeue(q).m_nPackets = Len(q.m_packets) - 1
          /\ Dequeue(q).m_maxSize = q.m_maxSize
      BY <2>5, <2>3, <1>1 DEF QueueOf
    <2>8. SoundQueue(Dequeue(q), P)
      <3>1. CASE q.m_maxSize.unit = "PACKETS"
        <4>1. q.m_maxSize.value < UINT32 - 1 /\ Len(q.m_packets) <= q.m_maxSize.value
          BY <3>1 DEF SoundQueue
        <4>2. q.m_maxSize.value \in Nat
          BY <1>1 DEF QueueOf, Uint32
        <4> QED
          BY <1>1, <2>1, <2>6, <2>7, <3>1, <4>1, <4>2 DEF SoundQueue
      <3>2. CASE q.m_maxSize.unit # "PACKETS"
        <4>1. CountsRight(q) /\ Bytes(q.m_packets) <= q.m_maxSize.value
          BY <3>2 DEF SoundQueue, CountsRight
        <4>2. CountsRight(Dequeue(q)) /\ Bytes(Dequeue(q).m_packets) <= Bytes(q.m_packets)
          BY <1>1, <1>3, <4>1, DequeueCounts
        <4>3. /\ Bytes(q.m_packets) \in Nat /\ Bytes(Dequeue(q).m_packets) \in Nat
              /\ q.m_maxSize.value \in Nat
          <5>1. Bytes(q.m_packets) = q.m_nBytes /\ Bytes(Dequeue(q).m_packets) = Dequeue(q).m_nBytes
            BY <4>1, <4>2 DEF CountsRight
          <5> QED
            BY <1>1, <2>6, <5>1 DEF QueueOf, Uint32
        <4>4. Bytes(Dequeue(q).m_packets) <= q.m_maxSize.value
          BY <4>1, <4>2, <4>3
        <4> QED
          BY <2>6, <2>7, <3>2, <4>2, <4>4 DEF SoundQueue, CountsRight
      <3> QED
        BY <3>1, <3>2
    <2> QED
      BY <2>2, <2>7, <2>8
  <1> QED
    BY <1>2, <1>3

-----------------------------------------------------------------------------
(* The sizes of packets are naturals, the transmission times positive.     *)
LEMMA PacketSizes ==
  \A p \in Packet : /\ p.size \in Nat /\ p.size \in Sizes
                    /\ p.uid \in Nat /\ p.src \in Dev
                    /\ TxTime[p.size] \in Nat /\ TxTime[p.size] > 0
  <1> SUFFICES ASSUME NEW p \in Packet
               PROVE  /\ p.size \in Nat /\ p.size \in Sizes
                      /\ p.uid \in Nat /\ p.src \in Dev
                      /\ TxTime[p.size] \in Nat /\ TxTime[p.size] > 0
    OBVIOUS
  <1>1. p.size \in Sizes /\ p.uid \in Nat /\ p.src \in Dev
    BY DEF Packet
  <1>2. Sizes \subseteq Nat \ {0} /\ TxTime \in [Sizes -> Nat \ {0}]
    BY LinkAssumption
  <1>3. p.size \in Nat
    BY <1>1, <1>2
  <1>4. TxTime[p.size] \in Nat \ {0}
    BY <1>1, <1>2
  <1>5. TxTime[p.size] \in Nat /\ TxTime[p.size] > 0
    BY <1>4
  <1> QED
    BY <1>1, <1>3, <1>5

(* The counters of a queue with a limit in bytes have room for a packet.   *)
LEMMA LimitRoomy == LimitFits => Roomy(MaxSize, Packet)
  <1>1. \A p \in Packet : p.size \in Sizes /\ p.size >= 1
    <2>0. Sizes \subseteq Nat \ {0}
      BY LinkAssumption
    <2>1. \A x \in Sizes : x >= 1
      BY <2>0
    <2> QED
      BY <2>1, PacketSizes
  <1> QED
    BY <1>1 DEF LimitFits, Roomy

(* The peer of a device is a device. *)
LEMMA PeerType == \A d \in Dev : Peer(d) \in Dev
  BY LinkAssumption DEF Peer

(* What arrived or is in flight are packets. *)
LEMMA PacketsOnly == TypeOK => Arrived \cup InFlight \subseteq Packet
  <1> SUFFICES ASSUME TypeOK PROVE Arrived \cup InFlight \subseteq Packet
    OBVIOUS
  <1>1. \A m \in wire : m.pkt \in Packet
    BY DEF TypeOK, Flight
  <1>2. InFlight \subseteq Packet
    BY <1>1 DEF InFlight
  <1>3. fate.delivered \subseteq Packet /\ fate.corrupted \subseteq Packet
    BY DEF TypeOK
  <1>4. Arrived \subseteq Packet
    BY <1>3 DEF Arrived
  <1> QED
    BY <1>2, <1>4

(* The queues hold sequences of packets. *)
LEMMA QueuesHoldPackets ==
  LinkInv => \A e \in Dev : /\ m_queue[e].m_packets \in Seq(Packet)
                            /\ Len(m_queue[e].m_packets) \in Nat
  <1> SUFFICES ASSUME LinkInv, NEW e \in Dev
               PROVE  /\ m_queue[e].m_packets \in Seq(Packet)
                      /\ Len(m_queue[e].m_packets) \in Nat
    OBVIOUS
  <1>1. m_queue[e] \in QueueOf(Packet)
    BY DEF LinkInv, TypeOK
  <1>2. m_queue[e].m_packets \in Seq(Packet)
    BY <1>1 DEF QueueOf
  <1> QED
    BY <1>2

(* The initial state satisfies the invariant. *)
LEMMA InitInv == LimitFits /\ Init => LinkInv
  <1> SUFFICES ASSUME LimitFits, Init PROVE LinkInv
    OBVIOUS
  <1>1. \A d \in Dev : SoundQueue(m_queue[d], Packet)
                       /\ m_queue[d].m_packets = << >>
                       /\ m_queue[d].m_maxSize = MaxSize
    <2>1. MaxSize \in [unit : Units, value : Uint32]
      BY LinkAssumption
    <2>2. SoundQueue(NewQueue(MaxSize), Packet)
          /\ NewQueue(MaxSize).m_packets = << >>
      BY <2>1, NewQueueSound DEF LimitFits
    <2>3. NewQueue(MaxSize).m_maxSize = MaxSize
      BY DEF NewQueue
    <2> QED
      BY <2>2, <2>3 DEF Init
  <1>2. m_queue \in [Dev -> QueueOf(Packet)]
    BY <1>1 DEF Init, SoundQueue
  <1>3. Arrived = {} /\ InFlight = {}
    BY DEF Init, Arrived, InFlight
  <1>4. TypeOK
    BY <1>2 DEF TypeOK, Init
  <1>5. QueueSound
    BY <1>1 DEF QueueSound
  <1>6. TransmitterConsistent /\ NothingStranded
    BY <1>1 DEF TransmitterConsistent, NothingStranded, Init
  <1>7. UsageAccurate /\ SlotsStarted
    BY DEF UsageAccurate, SlotsStarted, Init
  <1>8. Numbered /\ NoOvertaking
    BY <1>1, <1>3 DEF Numbered, NoOvertaking
  <1>9. Spaced /\ DeviceAsserts
    BY DEF Spaced, DeviceAsserts, Init
  <1> QED
    BY <1>4, <1>5, <1>6, <1>7, <1>8, <1>9 DEF LinkInv

(* Starting a transmission of p keeps the invariant, when p is the next    *)
(* packet of its device in the order of Send and no completion event is    *)
(* left beside the new one.                                                *)
LEMMA TransmitStartInv ==
  ASSUME LinkInv, halted = "no",
         NEW d \in Dev, NEW p \in Packet, p.src = d,
         NEW q, SoundQueue(q, Packet), q.m_maxSize = MaxSize,
         sent' \in Nat, sent <= sent', p.uid < sent',
         \A i \in 1 .. Len(q.m_packets) :
           /\ q.m_packets[i].src = d
           /\ q.m_packets[i].uid < sent'
           /\ p.uid < q.m_packets[i].uid
           /\ \A j \in 1 .. Len(q.m_packets) :
                i < j => q.m_packets[i].uid < q.m_packets[j].uid,
         \A r \in Arrived \cup InFlight : r.src = d => r.uid < p.uid,
         \A m \in wire : m.pkt.src = d => m.at <= now + Delay,
         TransmitStart(d, p, q, {}),
         UNCHANGED <<now, m_link, m_linkUp, fate, busy, readAt, reading>>
  PROVE  LinkInv'
  <1> DEFINE tx == TxTime[p.size]
             f == [pkt |-> p, dst |-> Peer(d), at |-> now + tx + Delay]
  <1>0. /\ tx \in Nat /\ tx > 0 /\ Gap \in Nat /\ Delay \in Nat /\ now \in Nat
        /\ p.uid \in Nat
    BY PacketSizes, LinkAssumption DEF LinkInv, TypeOK
  <1>1. /\ m_queue' = [m_queue EXCEPT ![d] = q]
        /\ m_txMachineState' = [m_txMachineState EXCEPT ![d] = "BUSY"]
        /\ m_currentPkt' = [m_currentPkt EXCEPT ![d] = p]
        /\ completions' = [completions EXCEPT ![d] = {now + tx + Gap}]
    BY DEF TransmitStart, CompleteAt
  <1>2. \/ /\ Attached
           /\ wire' = wire \cup {f}
           /\ m_history' = [m_history EXCEPT ![d] = StartTx(m_history[d])]
           /\ halted' = "no"
        \/ /\ ~ Attached
           /\ halted' = "channel" /\ wire' = wire /\ m_history' = m_history
    BY DEF TransmitStart, ArriveAt, LinkInv, TypeOK
  <1>3. f \in Flight
    BY <1>0, PeerType DEF Flight
  <1> HIDE DEF tx
  <1>4. /\ StartTx(m_history[d]) \in [up_duration : Nat, start_tx : Nat,
                                      was_down : BOOLEAN]
        /\ ~ StartTx(m_history[d]).was_down
        /\ StartTx(m_history[d]).up_duration = m_history[d].up_duration
        /\ StartTx(m_history[d]).start_tx =
             IF m_history[d].was_down THEN now ELSE m_history[d].start_tx
    <2>1. m_history[d] \in [up_duration : Nat, start_tx : Nat, was_down : BOOLEAN]
      BY DEF LinkInv, TypeOK
    <2> QED
      BY <2>1, <1>0 DEF StartTx
  <1>5. TypeOK'
    <2>1. q \in QueueOf(Packet)
      BY DEF SoundQueue
    <2>2. now + tx + Gap \in Nat
      BY <1>0
    <2>3. wire' \subseteq Flight
      BY <1>2, <1>3 DEF LinkInv, TypeOK
    <2>4. m_history' \in [Dev -> [up_duration : Nat, start_tx : Nat, was_down : BOOLEAN]]
      BY <1>2, <1>4 DEF LinkInv, TypeOK
    <2>5. completions' \in [Dev -> SUBSET Nat]
      BY <1>1, <2>2 DEF LinkInv, TypeOK
    <2>6. m_queue' \in [Dev -> QueueOf(Packet)]
      BY <1>1, <2>1 DEF LinkInv, TypeOK
    <2>7. /\ m_txMachineState' \in [Dev -> {"READY", "BUSY"}]
          /\ m_currentPkt' \in [Dev -> Packet \cup {NoPkt}]
      BY <1>1 DEF LinkInv, TypeOK
    <2>8. halted' \in {"no", "channel", "device", "queue", "remote"}
      BY <1>2
    <2> QED
      BY <2>3, <2>4, <2>5, <2>6, <2>7, <2>8 DEF LinkInv, TypeOK
  <1>6. QueueSound'
    BY <1>1 DEF LinkInv, TypeOK, QueueSound
  <1>7. TransmitterConsistent' /\ NothingStranded'
    <2> SUFFICES ASSUME halted' = "no"
                 PROVE  TransmitterConsistent' /\ NothingStranded'
      BY DEF TransmitterConsistent, NothingStranded
    <2>1. m_history' = [m_history EXCEPT ![d] = StartTx(m_history[d])]
      BY <1>2
    <2>2. p # NoPkt
      BY NoPktAssumption
    <2>3. now' = now
      OBVIOUS
    <2>4. ASSUME NEW e \in Dev, e # d
          PROVE  /\ m_txMachineState'[e] = m_txMachineState[e]
                 /\ m_currentPkt'[e] = m_currentPkt[e]
                 /\ m_history'[e] = m_history[e]
                 /\ completions'[e] = completions[e]
                 /\ m_queue'[e] = m_queue[e]
      BY <1>1, <2>1, <2>4 DEF LinkInv, TypeOK
    <2>5. /\ m_txMachineState'[d] = "BUSY"
          /\ m_currentPkt'[d] = p
          /\ m_history'[d] = StartTx(m_history[d])
          /\ completions'[d] = {now + tx + Gap}
      BY <1>1, <2>1 DEF LinkInv, TypeOK
    <2>6. now + tx + Gap >= now
      BY <1>0
    <2>7. TransmitterConsistent'
      BY <2>2, <2>3, <2>4, <2>5, <2>6, <1>4 DEF LinkInv, TransmitterConsistent
    <2>8. NothingStranded'
      BY <2>4, <2>5 DEF LinkInv, NothingStranded
    <2> QED
      BY <2>7, <2>8
  <1>8. UsageAccurate' /\ SlotsStarted'
    <2>1. SlotsStarted'
      <3>1. \A e \in Dev : m_history[e].start_tx \in Nat /\ m_history[e].start_tx <= now
        BY DEF LinkInv, TypeOK, SlotsStarted
      <3>2. \A e \in Dev : m_history'[e] = m_history[e] \/
                           (e = d /\ m_history'[e] = StartTx(m_history[d]))
        BY <1>2 DEF LinkInv, TypeOK
      <3>3. StartTx(m_history[d]).start_tx <= now
        BY <1>0, <1>4, <3>1
      <3> QED
        BY <3>1, <3>2, <3>3 DEF SlotsStarted
    <2>2. ASSUME halted' = "no", NEW e \in Dev
          PROVE  /\ m_history'[e].up_duration +
                      (IF m_history'[e].was_down THEN 0
                       ELSE now - m_history'[e].start_tx) = busy[e]
                 /\ busy[e] <= now - readAt[e]
      <3>1. /\ m_history[e].up_duration \in Nat /\ m_history[e].start_tx \in Nat
            /\ m_history[e].was_down \in BOOLEAN
        BY DEF LinkInv, TypeOK
      <3>2. /\ m_history[e].up_duration +
                 (IF m_history[e].was_down THEN 0
                  ELSE now - m_history[e].start_tx) = busy[e]
            /\ busy[e] <= now - readAt[e]
        BY DEF LinkInv, UsageAccurate
      <3>3. CASE e = d
        <4>1. m_history'[e] = StartTx(m_history[d])
          BY <3>3, <1>2, <2>2 DEF LinkInv, TypeOK
        <4> QED
          BY <4>1, <3>1, <3>2, <3>3, <1>4, <1>0
      <3>4. CASE e # d
        <4>1. m_history'[e] = m_history[e]
          BY <3>4, <1>2, <2>2 DEF LinkInv, TypeOK
        <4> QED
          BY <4>1, <3>2
      <3> QED
        BY <3>3, <3>4
    <2>3. UsageAccurate'
      BY <2>2 DEF UsageAccurate
    <2> QED
      BY <2>1, <2>3
  <1>9. Arrived' = Arrived /\ InFlight' \subseteq InFlight \cup {p}
    BY <1>2 DEF Arrived, InFlight
  <1>10. Numbered'
    <2>1. \A r \in Arrived' \cup InFlight' : r.uid < sent'
      <3>1. \A r \in Arrived \cup InFlight : r.uid \in Nat
        BY PacketsOnly, PacketSizes DEF LinkInv
      <3>2. \A r \in Arrived \cup InFlight : r.uid < sent
        BY DEF LinkInv, Numbered
      <3>3. sent \in Nat
        BY DEF LinkInv, TypeOK
      <3> QED
        BY <3>1, <3>2, <3>3, <1>9
    <2>2. \A e \in Dev : \A i \in 1 .. Len(m_queue'[e].m_packets) :
            /\ m_queue'[e].m_packets[i].src = e
            /\ m_queue'[e].m_packets[i].uid < sent'
            /\ \A j \in 1 .. Len(m_queue'[e].m_packets) :
                 i < j => m_queue'[e].m_packets[i].uid < m_queue'[e].m_packets[j].uid
      <3> SUFFICES ASSUME NEW e \in Dev, NEW i \in 1 .. Len(m_queue'[e].m_packets)
                   PROVE  /\ m_queue'[e].m_packets[i].src = e
                          /\ m_queue'[e].m_packets[i].uid < sent'
                          /\ \A j \in 1 .. Len(m_queue'[e].m_packets) :
                               i < j => m_queue'[e].m_packets[i].uid
                                          < m_queue'[e].m_packets[j].uid
        OBVIOUS
      <3>1. CASE e = d
        BY <3>1, <1>1 DEF LinkInv, TypeOK
      <3>2. CASE e # d
        <4>1. m_queue'[e] = m_queue[e]
          BY <3>2, <1>1 DEF LinkInv, TypeOK
        <4>2. m_queue[e].m_packets[i] \in Packet
          BY <4>1, QueuesHoldPackets
        <4>3. m_queue[e].m_packets[i].uid \in Nat /\ sent \in Nat
          BY <4>2, PacketSizes DEF LinkInv, TypeOK
        <4> QED
          BY <4>1, <4>3 DEF LinkInv, Numbered
      <3> QED
        BY <3>1, <3>2
    <2> QED
      BY <2>1, <2>2 DEF Numbered
  <1>11. NoOvertaking'
    <2>1. \A r \in Arrived', g \in InFlight' : r.src = g.src => r.uid < g.uid
      BY <1>9 DEF LinkInv, NoOvertaking
    <2>2. ASSUME NEW r \in Arrived' \cup InFlight',
                 NEW i \in 1 .. Len(m_queue'[r.src].m_packets)
          PROVE  r.uid < m_queue'[r.src].m_packets[i].uid
      <3>1. r \in Packet /\ r.src \in Dev /\ r.uid \in Nat
        BY <1>9, PacketSizes, PacketsOnly DEF LinkInv
      <3>2. CASE r.src = d
        <4>1. m_queue'[r.src] = q
          BY <3>2, <1>1 DEF LinkInv, TypeOK
        <4>2. r.uid <= p.uid
          BY <3>1, <3>2, <1>9, <1>0
        <4>3. q.m_packets[i] \in Packet
          BY <4>1 DEF SoundQueue, QueueOf
        <4>4. q.m_packets[i].uid \in Nat
          BY <4>3, PacketSizes
        <4> QED
          BY <4>1, <4>2, <4>4, <3>1, <1>0
      <3>3. CASE r.src # d
        <4>1. m_queue'[r.src] = m_queue[r.src]
          BY <3>1, <3>3, <1>1 DEF LinkInv, TypeOK
        <4>2. r \in Arrived \cup InFlight
          BY <3>3, <1>9
        <4> QED
          BY <4>1, <4>2 DEF LinkInv, NoOvertaking
      <3> QED
        BY <3>2, <3>3
    <2> QED
      BY <2>1, <2>2 DEF NoOvertaking
  <1>12. Spaced'
    <2> SUFFICES ASSUME halted' = "no" PROVE Spaced'
      BY DEF Spaced
    <2>1. wire' = wire \cup {f} /\ now' = now
      BY <1>2
    <2>2. /\ f.pkt = p /\ f.at = now + tx + Delay
      OBVIOUS
    <2>3. \A m \in wire : /\ m.at \in Nat /\ m.pkt \in Packet /\ m.pkt.src \in Dev
                          /\ m.pkt.uid \in Nat /\ m.pkt \in InFlight
      BY PacketSizes DEF LinkInv, TypeOK, Flight, InFlight
    <2>4. \A m \in wire : m.pkt.src = d => m.pkt.uid < p.uid /\ m.at < f.at
      BY <2>2, <2>3, <1>0
    <2> HIDE DEF f
    <2>5. ASSUME NEW m \in wire'
          PROVE  /\ m.at >= now
                 /\ m_txMachineState'[m.pkt.src] = "READY" => m.at <= now + Delay
                 /\ \A t \in completions'[m.pkt.src] : m.at <= t + Delay
      <3>1. CASE m.pkt.src = d
        <4>1. m.at <= now + tx + Delay /\ m.at >= now /\ m.at \in Nat
          BY <2>1, <2>2, <2>3, <3>1, <1>0 DEF LinkInv, Spaced
        <4>2. /\ m_txMachineState'[m.pkt.src] = "BUSY"
              /\ completions'[m.pkt.src] = {now + tx + Gap}
          BY <3>1, <1>1 DEF LinkInv, TypeOK
        <4> QED
          BY <4>1, <4>2, <1>0
      <3>2. CASE m.pkt.src # d
        <4>1. m \in wire
          BY <3>2, <2>1, <2>2
        <4>2. /\ m_txMachineState'[m.pkt.src] = m_txMachineState[m.pkt.src]
              /\ completions'[m.pkt.src] = completions[m.pkt.src]
          BY <3>2, <4>1, <2>3, <1>1 DEF LinkInv, TypeOK
        <4> QED
          BY <4>1, <4>2 DEF LinkInv, Spaced
      <3> QED
        BY <3>1, <3>2
    <2>6. ASSUME NEW m \in wire', NEW n \in wire', m.pkt.src = n.pkt.src
          PROVE  /\ m.pkt.uid < n.pkt.uid => m.at < n.at
                 /\ m.pkt.uid = n.pkt.uid => m = n
      <3>1. CASE m \in wire /\ n \in wire
        BY <3>1, <2>6 DEF LinkInv, Spaced
      <3>2. CASE m \in wire /\ n = f
        BY <3>2, <2>2, <2>3, <2>4, <2>6, <1>0
      <3>3. CASE m = f /\ n \in wire
        BY <3>3, <2>2, <2>3, <2>4, <2>6, <1>0
      <3>4. CASE m = f /\ n = f
        BY <3>4, <2>2, <1>0
      <3> QED
        BY <3>1, <3>2, <3>3, <3>4, <2>1
    <2> QED
      BY <2>5, <2>6, <2>1 DEF Spaced
  <1>13. DeviceAsserts'
    BY <1>2 DEF LinkInv, DeviceAsserts, Attached
  <1> QED
    BY <1>5, <1>6, <1>7, <1>8, <1>10, <1>11, <1>12, <1>13 DEF LinkInv

(* A failed assertion of the queue leaves the invariant, whose parts speak *)
(* of a program that runs.                                                 *)
LEMMA HaltInv ==
  ASSUME LinkInv, Halt("queue"), sent' \in Nat, sent <= sent',
         UNCHANGED <<now, m_link, m_linkUp, fate, busy, readAt, reading>>
  PROVE  LinkInv'
  <1>1. /\ halted' = "queue"
        /\ UNCHANGED <<m_txMachineState, m_currentPkt, m_queue, m_history,
                       completions, wire>>
    BY DEF Halt, devVars
  <1>2. TypeOK'
    BY <1>1 DEF LinkInv, TypeOK
  <1>3. QueueSound'
    BY <1>1 DEF LinkInv, QueueSound
  <1>4. TransmitterConsistent' /\ NothingStranded' /\ UsageAccurate' /\ Spaced'
    BY <1>1 DEF TransmitterConsistent, NothingStranded, UsageAccurate, Spaced
  <1>5. SlotsStarted'
    BY <1>1 DEF LinkInv, SlotsStarted
  <1>6. Arrived' = Arrived /\ InFlight' = InFlight
    BY <1>1 DEF Arrived, InFlight
  <1>7. NoOvertaking'
    BY <1>1, <1>6 DEF LinkInv, NoOvertaking
  <1>8. Numbered'
    <2>1. \A r \in Arrived \cup InFlight : r.uid \in Nat /\ r.uid < sent
      BY PacketsOnly, PacketSizes DEF LinkInv, Numbered
    <2>2. \A e \in Dev : \A i \in 1 .. Len(m_queue[e].m_packets) :
            m_queue[e].m_packets[i].uid \in Nat
      <3>1. \A e \in Dev : m_queue[e].m_packets \in Seq(Packet)
        BY QueuesHoldPackets
      <3> QED
        BY <3>1, PacketSizes
    <2>3. sent \in Nat
      BY DEF LinkInv, TypeOK
    <2> QED
      BY <1>1, <1>6, <2>1, <2>2, <2>3 DEF LinkInv, Numbered
  <1>9. DeviceAsserts'
    BY <1>1 DEF LinkInv, DeviceAsserts, Attached
  <1> QED
    BY <1>2, <1>3, <1>4, <1>5, <1>7, <1>8, <1>9 DEF LinkInv

(* Offering a packet to the queue of a device that does not transmit it    *)
(* now keeps the invariant.                                                *)
LEMMA OfferInv ==
  ASSUME LinkInv, NEW d \in Dev, NEW s \in Sizes, NEW p \in Packet,
         p = [uid |-> sent, src |-> d, size |-> s],
         NEW q, SoundQueue(q, Packet), q.m_maxSize = MaxSize,
         \/ q.m_packets = m_queue[d].m_packets
         \/ /\ q.m_packets = Append(m_queue[d].m_packets, p)
            /\ completions[d] # {},
         m_queue' = [m_queue EXCEPT ![d] = q],
         sent' = sent + 1,
         fate' \in {fate, [fate EXCEPT !.dropped = @ \cup {p}]},
         UNCHANGED <<now, m_link, m_linkUp, m_txMachineState, m_currentPkt,
                     m_history, completions, wire, halted, busy, readAt, reading>>
  PROVE  LinkInv'
  <1>0. sent \in Nat /\ p.uid = sent /\ p.src = d
    BY DEF LinkInv, TypeOK
  <1>1. \A e \in Dev : m_queue'[e] = IF e = d THEN q ELSE m_queue[e]
    BY DEF LinkInv, TypeOK
  <1>2. TypeOK'
    <2>1. q \in QueueOf(Packet)
      BY DEF SoundQueue
    <2>2. m_queue' \in [Dev -> QueueOf(Packet)]
      BY <2>1 DEF LinkInv, TypeOK
    <2>3. fate' \in [dropped : SUBSET Packet, delivered : SUBSET Packet,
                     corrupted : SUBSET Packet]
      <3>1. fate \in [dropped : SUBSET Packet, delivered : SUBSET Packet,
                      corrupted : SUBSET Packet]
        BY DEF LinkInv, TypeOK
      <3>2. fate.dropped \cup {p} \in SUBSET Packet
        BY <3>1
      <3> QED
        BY <3>1, <3>2
    <2>4. sent' \in Nat
      BY <1>0
    <2> QED
      BY <2>2, <2>3, <2>4 DEF LinkInv, TypeOK
  <1>3. QueueSound'
    BY <1>1 DEF LinkInv, QueueSound
  <1>4. TransmitterConsistent'
    BY DEF LinkInv, TransmitterConsistent
  <1>5. NothingStranded'
    BY <1>1 DEF LinkInv, NothingStranded
  <1>6. UsageAccurate' /\ SlotsStarted' /\ Spaced' /\ DeviceAsserts'
    BY DEF LinkInv, UsageAccurate, SlotsStarted, Spaced, DeviceAsserts, Attached
  <1>7. Arrived' = Arrived /\ InFlight' = InFlight
    BY DEF LinkInv, TypeOK, Arrived, InFlight
  <1>8. \A r \in Arrived \cup InFlight :
          r \in Packet /\ r.uid \in Nat /\ r.src \in Dev /\ r.uid < sent
    BY PacketsOnly, PacketSizes DEF LinkInv, Numbered
  <1>9. ASSUME NEW e \in Dev, NEW i \in 1 .. Len(m_queue'[e].m_packets)
        PROVE  \/ /\ i \in 1 .. Len(m_queue[e].m_packets)
                  /\ m_queue'[e].m_packets[i] = m_queue[e].m_packets[i]
                  /\ m_queue[e].m_packets[i].uid \in Nat
                  /\ m_queue[e].m_packets[i].uid < sent
               \/ /\ e = d /\ i = Len(m_queue[e].m_packets) + 1
                  /\ m_queue'[e].m_packets[i] = p
    <2>1. m_queue[e].m_packets \in Seq(Packet)
      BY QueuesHoldPackets
    <2>2. \/ m_queue'[e].m_packets = m_queue[e].m_packets
          \/ e = d /\ m_queue'[e].m_packets = Append(m_queue[e].m_packets, p)
      BY <1>1
    <2>3. \A k \in 1 .. Len(m_queue[e].m_packets) :
            /\ m_queue[e].m_packets[k].uid \in Nat
            /\ m_queue[e].m_packets[k].uid < sent
      BY <2>1, PacketSizes DEF LinkInv, Numbered
    <2> QED
      BY <2>1, <2>2, <2>3
  <1>10. Numbered'
    <2>1. \A r \in Arrived' \cup InFlight' : r.uid < sent'
      BY <1>0, <1>7, <1>8
    <2>2. ASSUME NEW e \in Dev, NEW i \in 1 .. Len(m_queue'[e].m_packets)
          PROVE  /\ m_queue'[e].m_packets[i].src = e
                 /\ m_queue'[e].m_packets[i].uid < sent'
      <3>1. \A k \in 1 .. Len(m_queue[e].m_packets) : m_queue[e].m_packets[k].src = e
        BY DEF LinkInv, Numbered
      <3>2. CASE /\ i \in 1 .. Len(m_queue[e].m_packets)
                 /\ m_queue'[e].m_packets[i] = m_queue[e].m_packets[i]
                 /\ m_queue[e].m_packets[i].uid \in Nat
                 /\ m_queue[e].m_packets[i].uid < sent
        BY <1>0, <3>1, <3>2
      <3>3. CASE e = d /\ m_queue'[e].m_packets[i] = p
        BY <1>0, <3>3
      <3> QED
        BY <1>9, <3>2, <3>3
    <2>3. ASSUME NEW e \in Dev, NEW i \in 1 .. Len(m_queue'[e].m_packets),
                 NEW j \in 1 .. Len(m_queue'[e].m_packets), i < j
          PROVE  m_queue'[e].m_packets[i].uid < m_queue'[e].m_packets[j].uid
      <3>1. Len(m_queue[e].m_packets) \in Nat
        BY QueuesHoldPackets
      <3>2. \A k, l \in 1 .. Len(m_queue[e].m_packets) :
              k < l => m_queue[e].m_packets[k].uid < m_queue[e].m_packets[l].uid
        BY DEF LinkInv, Numbered
      <3>3. i \in Nat /\ j \in Nat
        OBVIOUS
      <3>4. CASE j \in 1 .. Len(m_queue[e].m_packets)
        BY <1>9, <2>3, <3>1, <3>2, <3>3, <3>4
      <3>5. CASE j \notin 1 .. Len(m_queue[e].m_packets)
        <4>1. e = d /\ j = Len(m_queue[e].m_packets) + 1 /\ m_queue'[e].m_packets[j] = p
          BY <1>9, <3>5
        <4>2. i \in 1 .. Len(m_queue[e].m_packets)
          BY <4>1, <2>3, <3>1, <3>3
        <4>3. i # Len(m_queue[e].m_packets) + 1
          BY <4>2, <3>1
        <4>4. /\ m_queue'[e].m_packets[i] = m_queue[e].m_packets[i]
              /\ m_queue[e].m_packets[i].uid < sent
          BY <1>9, <4>3
        <4>5. m_queue'[e].m_packets[j].uid = sent
          BY <4>1, <1>0
        <4> QED
          BY <4>4, <4>5
      <3> QED
        BY <3>4, <3>5
    <2> QED
      BY <2>1, <2>2, <2>3 DEF Numbered
  <1>11. NoOvertaking'
    <2>1. \A r \in Arrived', g \in InFlight' : r.src = g.src => r.uid < g.uid
      BY <1>7 DEF LinkInv, NoOvertaking
    <2>2. ASSUME NEW r \in Arrived' \cup InFlight',
                 NEW i \in 1 .. Len(m_queue'[r.src].m_packets)
          PROVE  r.uid < m_queue'[r.src].m_packets[i].uid
      <3>1. r \in Arrived \cup InFlight /\ r.src \in Dev /\ r.uid < sent
        BY <1>7, <1>8
      <3>2. \A k \in 1 .. Len(m_queue[r.src].m_packets) :
              r.uid < m_queue[r.src].m_packets[k].uid
        BY <3>1 DEF LinkInv, NoOvertaking
      <3>3. CASE /\ i \in 1 .. Len(m_queue[r.src].m_packets)
                 /\ m_queue'[r.src].m_packets[i] = m_queue[r.src].m_packets[i]
        BY <3>2, <3>3
      <3>4. CASE m_queue'[r.src].m_packets[i] = p
        BY <1>0, <3>1, <3>4
      <3> QED
        BY <1>9, <3>1, <3>3, <3>4
    <2> QED
      BY <2>1, <2>2 DEF NoOvertaking
  <1> QED
    BY <1>2, <1>3, <1>4, <1>5, <1>6, <1>10, <1>11 DEF LinkInv

(* Send keeps the invariant. *)
LEMMA SendInv ==
  ASSUME LinkInv, NEW d \in Dev, NEW s \in Sizes, Send(d, s)
  PROVE  LinkInv'
  <1> DEFINE p == [uid |-> sent, src |-> d, size |-> s]
             q == Enqueue(m_queue[d], p)
             old == m_queue[d]
  <1>1. /\ sent \in Nat /\ p \in Packet /\ p.src = d /\ p.uid = sent
        /\ SoundQueue(old, Packet) /\ old.m_maxSize = MaxSize /\ LimitFits
        /\ old.m_packets \in Seq(Packet)
    BY DEF LinkInv, TypeOK, Packet, QueueSound, QueueOf
  <1>2. /\ SoundQueue(q, Packet) /\ q.m_maxSize = MaxSize
        /\ q.m_packets = IF Accepts(old, p) THEN Append(old.m_packets, p)
                                            ELSE old.m_packets
    BY <1>1, PacketSizes, LimitRoomy, EnqueueEffect
  <1>3. /\ halted = "no" /\ sent' = sent + 1
        /\ UNCHANGED <<now, m_link, m_linkUp, busy, readAt, reading>>
    BY DEF Send
  <1>4. \/ /\ Lose(p)
           /\ UNCHANGED <<devVars, wire, halted>>
        \/ /\ ~ Accepts(old, p)
           /\ m_queue' = [m_queue EXCEPT ![d] = q]
           /\ Lose(p)
           /\ UNCHANGED <<m_txMachineState, m_currentPkt, m_history,
                          completions, wire, halted>>
        \/ /\ Accepts(old, p)
           /\ m_txMachineState[d] = "READY"
           /\ \/ TransmitStart(d, FrontItem(q), Dequeue(q), completions[d])
              \/ Halt("queue")
           /\ UNCHANGED fate
        \/ /\ Accepts(old, p)
           /\ m_txMachineState[d] # "READY"
           /\ m_queue' = [m_queue EXCEPT ![d] = q]
           /\ UNCHANGED <<m_txMachineState, m_currentPkt, m_history,
                          completions, wire, halted, fate>>
    BY DEF Send
  <1> HIDE DEF p, q
  <1>5. CASE Lose(p) /\ UNCHANGED <<devVars, wire, halted>>
    <2>1. m_queue' = [m_queue EXCEPT ![d] = old]
      BY <1>5 DEF devVars, LinkInv, TypeOK
    <2> QED
      BY <1>1, <1>3, <1>5, <2>1, OfferInv DEF Lose, devVars, p
  <1>6. CASE /\ ~ Accepts(old, p)
             /\ m_queue' = [m_queue EXCEPT ![d] = q]
             /\ Lose(p)
             /\ UNCHANGED <<m_txMachineState, m_currentPkt, m_history,
                            completions, wire, halted>>
    BY <1>1, <1>2, <1>3, <1>6, OfferInv DEF Lose, p
  <1>7. CASE /\ Accepts(old, p)
             /\ m_txMachineState[d] # "READY"
             /\ m_queue' = [m_queue EXCEPT ![d] = q]
             /\ UNCHANGED <<m_txMachineState, m_currentPkt, m_history,
                            completions, wire, halted, fate>>
    <2>1. completions[d] # {}
      BY <1>3, <1>7 DEF LinkInv, TypeOK, TransmitterConsistent
    <2> QED
      BY <1>1, <1>2, <1>3, <1>7, <2>1, OfferInv DEF p
  <1>8. CASE /\ Accepts(old, p)
             /\ m_txMachineState[d] = "READY"
             /\ \/ TransmitStart(d, FrontItem(q), Dequeue(q), completions[d])
                \/ Halt("queue")
             /\ UNCHANGED fate
    <2>1. completions[d] = {} /\ old.m_packets = << >>
      BY <1>3, <1>8 DEF LinkInv, TransmitterConsistent, NothingStranded
    <2>2. q.m_packets = <<p>>
      BY <1>2, <1>8, <2>1
    <2>3. /\ FrontItem(q) = p
          /\ SoundQueue(Dequeue(q), Packet)
          /\ Dequeue(q).m_maxSize = MaxSize
          /\ Dequeue(q).m_packets = << >>
      <3>0. q.m_packets # << >>
        BY <2>2
      <3>1. ~ IsEmpty(q)
        BY <1>2, <3>0, PacketSizes, DequeueEffect
      <3>2. /\ FrontItem(q) = Head(q.m_packets)
            /\ SoundQueue(Dequeue(q), Packet)
            /\ Dequeue(q).m_maxSize = q.m_maxSize
            /\ Dequeue(q).m_packets = Tail(q.m_packets)
        BY <1>2, <3>1, PacketSizes, DequeueEffect
      <3>3. Head(<<p>>) = p /\ Tail(<<p>>) = << >>
        OBVIOUS
      <3> QED
        BY <1>2, <2>2, <3>2, <3>3
    <2>4. CASE TransmitStart(d, FrontItem(q), Dequeue(q), completions[d])
      <3> DEFINE r == Dequeue(q)
      <3>1. TransmitStart(d, p, r, {})
        BY <2>1, <2>3, <2>4
      <3>2. \A i \in 1 .. Len(r.m_packets) : FALSE
        BY <2>3
      <3>3. \A x \in Arrived \cup InFlight : x.uid < p.uid
        BY <1>1 DEF LinkInv, Numbered
      <3>4. \A m \in wire : m.pkt.src = d => m.at <= now + Delay
        BY <1>3, <1>8 DEF LinkInv, Spaced
      <3>5. sent' \in Nat /\ sent <= sent' /\ p.uid < sent'
        BY <1>1, <1>3
      <3>6. SoundQueue(r, Packet) /\ r.m_maxSize = MaxSize
        BY <2>3
      <3>7. UNCHANGED <<now, m_link, m_linkUp, fate, busy, readAt, reading>>
        BY <1>3, <1>8
      <3> HIDE DEF r
      <3> QED
        BY <1>1, <1>3, <3>1, <3>2, <3>3, <3>4, <3>5, <3>6, <3>7, TransmitStartInv
    <2>5. CASE Halt("queue")
      BY <1>1, <1>3, <1>8, <2>5, HaltInv
    <2> QED
      BY <1>8, <2>4, <2>5
  <1> QED
    BY <1>4, <1>5, <1>6, <1>7, <1>8

(* TransmitComplete keeps the invariant. *)
LEMMA CompleteInv ==
  ASSUME LinkInv, NEW d \in Dev, TransmitComplete(d)
  PROVE  LinkInv'
  <1> DEFINE old == m_queue[d]
  <1>1. /\ halted = "no" /\ now \in completions[d]
        /\ UNCHANGED <<now, m_link, m_linkUp, sent, fate, busy, readAt, reading>>
    BY DEF TransmitComplete
  <1>2. /\ m_txMachineState[d] = "BUSY" /\ m_currentPkt[d] # NoPkt
        /\ completions[d] = {now} /\ ~ m_history[d].was_down
    BY <1>1 DEF LinkInv, TypeOK, TransmitterConsistent
  <1>3. completions[d] \ {now} = {}
    BY <1>2
  <1>4. /\ SoundQueue(old, Packet) /\ old.m_maxSize = MaxSize
        /\ old.m_packets \in Seq(Packet)
        /\ sent \in Nat /\ now \in Nat /\ Delay \in Nat
    BY LinkAssumption DEF LinkInv, TypeOK, QueueSound, QueueOf
  <1>5. \A m \in wire : m.pkt.src = d => m.at <= now + Delay
    BY <1>1, <1>2 DEF LinkInv, Spaced
  <1>6. \/ /\ IsEmpty(old)
           /\ completions' = [completions EXCEPT ![d] = {}]
           /\ m_txMachineState' = [m_txMachineState EXCEPT ![d] = "READY"]
           /\ m_currentPkt' = [m_currentPkt EXCEPT ![d] = NoPkt]
           /\ m_history' = [m_history EXCEPT ![d] = StoppedTx(m_history[d])]
           /\ UNCHANGED <<m_queue, wire, halted>>
        \/ /\ ~ IsEmpty(old)
           /\ \/ TransmitStart(d, FrontItem(old), Dequeue(old), {})
              \/ Halt("queue")
    BY <1>2, <1>3 DEF TransmitComplete
  <1>7. CASE /\ ~ IsEmpty(old)
             /\ \/ TransmitStart(d, FrontItem(old), Dequeue(old), {})
                \/ Halt("queue")
    <2> DEFINE p == FrontItem(old)
               r == Dequeue(old)
    <2>1. /\ p \in Packet /\ p = Head(old.m_packets)
          /\ SoundQueue(r, Packet) /\ r.m_maxSize = MaxSize
          /\ r.m_packets = Tail(old.m_packets)
          /\ old.m_packets # << >>
      BY <1>4, <1>7, PacketSizes, DequeueEffect
    <2> HIDE DEF p, r
    <2>2. /\ 1 \in 1 .. Len(old.m_packets)
          /\ p = old.m_packets[1]
          /\ \A i \in 1 .. Len(r.m_packets) :
               /\ i + 1 \in 1 .. Len(old.m_packets)
               /\ r.m_packets[i] = old.m_packets[i + 1]
          /\ Len(r.m_packets) \in Nat
      BY <2>1, <1>4, HeadTailProperties
    <2>3. p.src = d /\ p.uid < sent
      BY <2>2 DEF LinkInv, Numbered
    <2>4. \A i \in 1 .. Len(r.m_packets) :
            /\ r.m_packets[i].src = d
            /\ r.m_packets[i].uid < sent
            /\ p.uid < r.m_packets[i].uid
            /\ \A j \in 1 .. Len(r.m_packets) :
                 i < j => r.m_packets[i].uid < r.m_packets[j].uid
      <3> DEFINE o == old.m_packets
      <3>1. \A i \in 1 .. Len(o) :
              /\ o[i].src = d /\ o[i].uid < sent
              /\ \A j \in 1 .. Len(o) : i < j => o[i].uid < o[j].uid
        BY DEF LinkInv, Numbered
      <3> HIDE DEF o
      <3>2. \A i \in 1 .. Len(r.m_packets) :
              1 < i + 1 /\ \A j \in 1 .. Len(r.m_packets) : i < j => i + 1 < j + 1
        BY <2>2
      <3>3. p = o[1] /\ 1 \in 1 .. Len(o)
        BY <2>2 DEF o
      <3>4. \A i \in 1 .. Len(r.m_packets) :
              i + 1 \in 1 .. Len(o) /\ r.m_packets[i] = o[i + 1]
        BY <2>2 DEF o
      <3> QED
        BY <3>1, <3>2, <3>3, <3>4
    <2>5. \A x \in Arrived \cup InFlight : x.src = d => x.uid < p.uid
      BY <2>2 DEF LinkInv, NoOvertaking
    <2>6. CASE TransmitStart(d, p, r, {})
      <3>1. sent' = sent /\ sent' \in Nat /\ sent <= sent' /\ p.uid < sent'
        BY <1>1, <1>4, <2>3
      <3>2. UNCHANGED <<now, m_link, m_linkUp, fate, busy, readAt, reading>>
        BY <1>1
      <3>3. \A i \in 1 .. Len(r.m_packets) :
              /\ r.m_packets[i].src = d
              /\ r.m_packets[i].uid < sent'
              /\ p.uid < r.m_packets[i].uid
              /\ \A j \in 1 .. Len(r.m_packets) :
                   i < j => r.m_packets[i].uid < r.m_packets[j].uid
        BY <2>4, <3>1
      <3> QED
        BY <1>1, <1>5, <2>1, <2>3, <2>5, <2>6, <3>1, <3>2, <3>3, TransmitStartInv
    <2>7. CASE Halt("queue")
      BY <1>1, <1>4, <2>7, HaltInv
    <2> QED
      BY <1>7, <2>6, <2>7 DEF p, r
  <1>8. CASE /\ IsEmpty(old)
             /\ completions' = [completions EXCEPT ![d] = {}]
             /\ m_txMachineState' = [m_txMachineState EXCEPT ![d] = "READY"]
             /\ m_currentPkt' = [m_currentPkt EXCEPT ![d] = NoPkt]
             /\ m_history' = [m_history EXCEPT ![d] = StoppedTx(m_history[d])]
             /\ UNCHANGED <<m_queue, wire, halted>>
    <2>1. old.m_packets = << >>
      BY <1>4, <1>8, PacketSizes, DequeueEffect
    <2>2. m_history[d] \in [up_duration : Nat, start_tx : Nat, was_down : BOOLEAN]
      BY DEF LinkInv, TypeOK
    <2>3. m_history[d].start_tx <= now
      BY DEF LinkInv, SlotsStarted
    <2>4. /\ StoppedTx(m_history[d]) \in [up_duration : Nat, start_tx : Nat,
                                          was_down : BOOLEAN]
          /\ StoppedTx(m_history[d]).was_down
          /\ StoppedTx(m_history[d]).start_tx = m_history[d].start_tx
          /\ StoppedTx(m_history[d]).up_duration =
               m_history[d].up_duration + (now - m_history[d].start_tx)
      <3>1. now - m_history[d].start_tx \in Nat
        BY <2>2, <2>3, <1>4
      <3>2. m_history[d].up_duration + (now - m_history[d].start_tx) \in Nat
        BY <2>2, <3>1
      <3> QED
        BY <2>2, <3>2 DEF StoppedTx
    <2>5. TypeOK'
      BY <1>1, <1>8, <2>4 DEF LinkInv, TypeOK
    <2>6. QueueSound' /\ DeviceAsserts' /\ Numbered' /\ NoOvertaking'
      BY <1>1, <1>8 DEF LinkInv, QueueSound, DeviceAsserts, Attached, Numbered,
                        NoOvertaking, Arrived, InFlight
    <2>7. \A e \in Dev :
            IF e = d
            THEN /\ completions'[e] = {} /\ m_txMachineState'[e] = "READY"
                 /\ m_currentPkt'[e] = NoPkt /\ m_history'[e] = StoppedTx(m_history[d])
            ELSE /\ completions'[e] = completions[e]
                 /\ m_txMachineState'[e] = m_txMachineState[e]
                 /\ m_currentPkt'[e] = m_currentPkt[e]
                 /\ m_history'[e] = m_history[e]
      BY <1>8 DEF LinkInv, TypeOK
    <2>8. TransmitterConsistent'
      BY <1>1, <2>4, <2>7 DEF LinkInv, TransmitterConsistent
    <2>9. NothingStranded'
      BY <1>1, <1>8, <2>1, <2>7 DEF LinkInv, NothingStranded
    <2>10. SlotsStarted'
      BY <1>1, <2>3, <2>4, <2>7 DEF LinkInv, SlotsStarted
    <2>11. UsageAccurate'
      <3>1. /\ m_history[d].up_duration + (now - m_history[d].start_tx) = busy[d]
        BY <1>1, <1>2 DEF LinkInv, UsageAccurate
      <3>2. StoppedTx(m_history[d]).up_duration + 0 = busy[d]
        BY <3>1, <2>2, <2>4, <1>4
      <3> QED
        BY <1>1, <3>2, <2>4, <2>7 DEF LinkInv, UsageAccurate
    <2>12. Spaced'
      <3>1. \A m \in wire : m.pkt.src \in Dev
        BY PacketSizes DEF LinkInv, TypeOK, Flight
      <3> QED
        BY <1>1, <1>5, <1>8, <2>7, <3>1 DEF LinkInv, Spaced
    <2> QED
      BY <2>5, <2>6, <2>8, <2>9, <2>10, <2>11, <2>12 DEF LinkInv
  <1> QED
    BY <1>6, <1>7, <1>8

(* Receive keeps the invariant: the packet that arrives is the oldest in   *)
(* flight from its device.                                                 *)
LEMMA ReceiveInv ==
  ASSUME LinkInv, NEW m \in wire, Receive(m)
  PROVE  LinkInv'
  <1>1. /\ halted = "no" /\ m.at = now /\ wire' = wire \ {m}
        /\ UNCHANGED <<now, m_link, m_linkUp, m_txMachineState, m_currentPkt,
                       m_queue, m_history, completions, sent, busy, readAt, reading>>
    BY DEF Receive, devVars
  <1>2. Attached
    BY DEF LinkInv, DeviceAsserts
  <1>3. /\ halted' = "no"
        /\ \/ fate' = [fate EXCEPT !.corrupted = @ \cup {m.pkt}]
           \/ fate' = [fate EXCEPT !.delivered = @ \cup {m.pkt}]
    BY <1>1, <1>2 DEF Receive
  <1>4. \A n \in wire : /\ n.pkt \in Packet /\ n.at \in Nat /\ n.pkt.src \in Dev
                        /\ n.pkt.uid \in Nat /\ n.pkt \in InFlight
    BY PacketSizes DEF LinkInv, TypeOK, Flight, InFlight
  <1>5. fate \in [dropped : SUBSET Packet, delivered : SUBSET Packet,
                  corrupted : SUBSET Packet]
    BY DEF LinkInv, TypeOK
  <1>6. TypeOK'
    <2>1. fate' \in [dropped : SUBSET Packet, delivered : SUBSET Packet,
                     corrupted : SUBSET Packet]
      <3>1. /\ fate.corrupted \cup {m.pkt} \in SUBSET Packet
            /\ fate.delivered \cup {m.pkt} \in SUBSET Packet
        BY <1>4, <1>5
      <3> QED
        BY <1>3, <1>5, <3>1
    <2> QED
      BY <1>1, <1>3, <2>1 DEF LinkInv, TypeOK
  <1>7. /\ QueueSound' /\ TransmitterConsistent' /\ NothingStranded'
        /\ UsageAccurate' /\ SlotsStarted'
    BY <1>1, <1>3 DEF LinkInv, QueueSound, TransmitterConsistent, NothingStranded,
                      UsageAccurate, SlotsStarted
  <1>8. DeviceAsserts'
    BY <1>1, <1>2, <1>3 DEF LinkInv, DeviceAsserts, Attached
  <1>9. Spaced'
    BY <1>1, <1>3 DEF LinkInv, Spaced
  <1>10. Arrived' = Arrived \cup {m.pkt} /\ InFlight' \subseteq InFlight
    <2>1. InFlight' \subseteq InFlight
      BY <1>1 DEF InFlight
    <2>2. Arrived' = Arrived \cup {m.pkt}
      BY <1>3, <1>5 DEF Arrived
    <2> QED
      BY <2>1, <2>2
  <1>11. Numbered'
    BY <1>1, <1>4, <1>10 DEF LinkInv, Numbered
  <1>12. \A n \in wire' : n.pkt.src = m.pkt.src => m.pkt.uid < n.pkt.uid
    <2> SUFFICES ASSUME NEW n \in wire', n.pkt.src = m.pkt.src
                 PROVE  m.pkt.uid < n.pkt.uid
      OBVIOUS
    <2>1. n \in wire /\ n # m
      BY <1>1
    <2>2. n.at >= m.at /\ n.at \in Nat /\ m.at \in Nat
      BY <1>1, <1>4, <2>1 DEF LinkInv, Spaced
    <2>3. /\ n.pkt.uid < m.pkt.uid => n.at < m.at
          /\ n.pkt.uid = m.pkt.uid => n = m
      BY <1>1, <2>1 DEF LinkInv, Spaced
    <2> QED
      BY <2>1, <2>2, <2>3, <1>4
  <1>13. NoOvertaking'
    <2>1. \A r \in Arrived', g \in InFlight' : r.src = g.src => r.uid < g.uid
      <3>1. \A g \in InFlight' : \E n \in wire' : g = n.pkt
        BY DEF InFlight
      <3> QED
        BY <1>10, <1>12, <3>1 DEF LinkInv, NoOvertaking
    <2>2. \A r \in Arrived' \cup InFlight' :
            \A i \in 1 .. Len(m_queue[r.src].m_packets) :
              r.uid < m_queue[r.src].m_packets[i].uid
      BY <1>4, <1>10 DEF LinkInv, NoOvertaking
    <2> QED
      BY <1>1, <2>1, <2>2 DEF NoOvertaking
  <1> QED
    BY <1>6, <1>7, <1>8, <1>9, <1>11, <1>13 DEF LinkInv

(* Attach keeps the invariant. *)
LEMMA AttachInv ==
  ASSUME LinkInv, NEW d \in Dev, Attach(d)
  PROVE  LinkInv'
  <1>1. /\ halted = "no" /\ m_link' = Append(m_link, d)
        /\ m_linkUp' = [m_linkUp EXCEPT ![d] = TRUE]
        /\ UNCHANGED <<now, m_txMachineState, m_currentPkt, m_queue, m_history,
                       completions, wire, halted, sent, fate, busy, readAt, reading>>
    BY DEF Attach, devVars
  <1>2. TypeOK'
    <2>1. m_link' \in Seq(Dev)
      BY <1>1 DEF LinkInv, TypeOK
    <2>2. m_linkUp' \in [Dev -> BOOLEAN]
      BY <1>1 DEF LinkInv, TypeOK
    <2> QED
      BY <1>1, <2>1, <2>2 DEF LinkInv, TypeOK
  <1>3. /\ QueueSound' /\ TransmitterConsistent' /\ NothingStranded'
        /\ UsageAccurate' /\ SlotsStarted' /\ Spaced'
    BY <1>1 DEF LinkInv, QueueSound, TransmitterConsistent, NothingStranded,
                UsageAccurate, SlotsStarted, Spaced
  <1>4. Numbered' /\ NoOvertaking'
    BY <1>1 DEF LinkInv, Numbered, NoOvertaking, Arrived, InFlight
  <1>5. DeviceAsserts'
    <2>1. /\ m_link \in Seq(Dev)
          /\ \A i \in 1 .. Len(m_link) : m_link[i] # d
          /\ \A i, j \in 1 .. Len(m_link) : i # j => m_link[i] # m_link[j]
      BY DEF Attach, LinkInv, TypeOK, DeviceAsserts
    <2>2. \A i, j \in 1 .. Len(m_link') : i # j => m_link'[i] # m_link'[j]
      BY <1>1, <2>1
    <2>3. wire = {}
      <3> SUFFICES ASSUME wire # {} PROVE FALSE
        OBVIOUS
      <3>1. Len(m_link) = 2
        BY DEF LinkInv, DeviceAsserts, Attached
      <3>2. m_link[1] \in Dev /\ m_link[2] \in Dev /\ m_link[1] # m_link[2]
            /\ m_link[1] # d /\ m_link[2] # d
        <4>1. 1 \in 1 .. Len(m_link) /\ 2 \in 1 .. Len(m_link) /\ 1 # 2
          BY <3>1
        <4> QED
          BY <4>1, <2>1
      <3>3. PICK x, y \in Dev : x # y /\ Dev = {x, y}
        BY LinkAssumption
      <3> QED
        BY <3>2, <3>3
    <2> QED
      BY <1>1, <2>2, <2>3 DEF DeviceAsserts
  <1> QED
    BY <1>2, <1>3, <1>4, <1>5 DEF LinkInv

(* A reading keeps the invariant and returns the busy time of its slot. *)
LEMMA TimeSlotInv ==
  ASSUME LinkInv, NEW d \in Dev, TimeSlot(d)
  PROVE  LinkInv' /\ reading'[d] = busy[d]
  <1> DEFINE h == m_history[d]
             g == [ReadSlot(h) EXCEPT !.up_duration = 0]
  <1>1. /\ halted = "no"
        /\ reading' = [reading EXCEPT ![d] = ReadSlot(h).up_duration]
        /\ m_history' = [m_history EXCEPT ![d] = g]
        /\ busy' = [busy EXCEPT ![d] = 0]
        /\ readAt' = [readAt EXCEPT ![d] = now]
        /\ UNCHANGED <<now, m_link, m_linkUp, m_txMachineState, m_currentPkt,
                       m_queue, completions, wire, halted, sent, fate>>
    BY DEF TimeSlot
  <1>2. /\ h \in [up_duration : Nat, start_tx : Nat, was_down : BOOLEAN]
        /\ now \in Nat /\ h.start_tx <= now
        /\ h.up_duration + (IF h.was_down THEN 0 ELSE now - h.start_tx) = busy[d]
    BY <1>1 DEF LinkInv, TypeOK, SlotsStarted, UsageAccurate
  <1>3. busy[d] \in Nat /\ busy \in [Dev -> Nat] /\ reading \in [Dev -> Nat]
        /\ readAt \in [Dev -> Nat]
        /\ m_history \in [Dev -> [up_duration : Nat, start_tx : Nat, was_down : BOOLEAN]]
    BY DEF LinkInv, TypeOK
  <1> HIDE DEF h
  <1>4. /\ ReadSlot(h).up_duration = busy[d]
        /\ g.up_duration = 0 /\ g.was_down = h.was_down
        /\ g.start_tx = IF h.was_down THEN h.start_tx ELSE now
        /\ g \in [up_duration : Nat, start_tx : Nat, was_down : BOOLEAN]
    <2>1. CASE h.was_down
      <3>1. ReadSlot(h) = h
        BY <2>1 DEF ReadSlot
      <3>2. h.up_duration = busy[d]
        BY <1>2, <2>1
      <3> QED
        BY <1>2, <2>1, <3>1, <3>2
    <2>2. CASE ~ h.was_down
      <3>1. ReadSlot(h) = [h EXCEPT !.up_duration = h.up_duration + (now - h.start_tx),
                                    !.start_tx = now]
        BY <1>2, <2>2 DEF ReadSlot
      <3>2. h.up_duration + (now - h.start_tx) = busy[d]
        BY <1>2, <2>2
      <3> QED
        BY <1>2, <2>2, <3>1, <3>2
    <2> QED
      BY <2>1, <2>2
  <1> HIDE DEF g
  <1>5. reading'[d] = busy[d]
    BY <1>1, <1>3, <1>4
  <1>6. TypeOK'
    <2>1. /\ reading' \in [Dev -> Nat] /\ busy' \in [Dev -> Nat]
          /\ readAt' \in [Dev -> Nat]
          /\ m_history' \in [Dev -> [up_duration : Nat, start_tx : Nat,
                                     was_down : BOOLEAN]]
      BY <1>1, <1>2, <1>3, <1>4
    <2> QED
      BY <1>1, <2>1 DEF LinkInv, TypeOK
  <1>7. \A e \in Dev :
          IF e = d THEN m_history'[e] = g /\ busy'[e] = 0 /\ readAt'[e] = now
          ELSE /\ m_history'[e] = m_history[e] /\ busy'[e] = busy[e]
               /\ readAt'[e] = readAt[e]
    BY <1>1, <1>3
  <1>8. QueueSound' /\ NothingStranded' /\ Spaced' /\ DeviceAsserts'
    BY <1>1 DEF LinkInv, QueueSound, NothingStranded, Spaced, DeviceAsserts, Attached
  <1>9. Numbered' /\ NoOvertaking'
    BY <1>1 DEF LinkInv, Numbered, NoOvertaking, Arrived, InFlight
  <1>10. TransmitterConsistent'
    BY <1>1, <1>4, <1>7 DEF LinkInv, TransmitterConsistent, h
  <1>11. SlotsStarted'
    <2>1. g.start_tx <= now
      BY <1>2, <1>4
    <2> QED
      BY <1>1, <1>7, <2>1 DEF LinkInv, SlotsStarted
  <1>12. UsageAccurate'
    <2>1. g.up_duration + (IF g.was_down THEN 0 ELSE now - g.start_tx) = 0
          /\ 0 <= now - now
      BY <1>2, <1>4
    <2> QED
      BY <1>1, <1>7, <2>1 DEF LinkInv, UsageAccurate
  <1> QED
    BY <1>5, <1>6, <1>8, <1>9, <1>10, <1>11, <1>12 DEF LinkInv

(* The passing of time keeps the invariant. *)
LEMMA TickInv ==
  ASSUME LinkInv, Tick
  PROVE  LinkInv'
  <1>1. /\ halted = "no" /\ ~ Due(now) /\ now' = now + 1
        /\ busy' = [e \in Dev |->
                     IF m_txMachineState[e] = "BUSY" THEN busy[e] + 1 ELSE busy[e]]
        /\ UNCHANGED <<m_link, m_linkUp, m_txMachineState, m_currentPkt, m_queue,
                       m_history, completions, wire, halted, sent, fate, readAt,
                       reading>>
    BY DEF Tick, devVars
  <1>2. /\ now \in Nat /\ busy \in [Dev -> Nat] /\ readAt \in [Dev -> Nat]
        /\ completions \in [Dev -> SUBSET Nat] /\ Delay \in Nat
        /\ m_history \in [Dev -> [up_duration : Nat, start_tx : Nat, was_down : BOOLEAN]]
        /\ m_txMachineState \in [Dev -> {"READY", "BUSY"}]
    BY LinkAssumption DEF LinkInv, TypeOK
  <1>3. TypeOK'
    <2>1. now' \in Nat /\ busy' \in [Dev -> Nat]
      BY <1>1, <1>2
    <2> QED
      BY <1>1, <2>1 DEF LinkInv, TypeOK
  <1>4. QueueSound' /\ NothingStranded' /\ DeviceAsserts'
    BY <1>1 DEF LinkInv, QueueSound, NothingStranded, DeviceAsserts, Attached
  <1>5. Numbered' /\ NoOvertaking'
    BY <1>1 DEF LinkInv, Numbered, NoOvertaking, Arrived, InFlight
  <1>6. TransmitterConsistent'
    <2>1. ASSUME NEW e \in Dev, NEW t \in completions[e], t >= now
          PROVE  t >= now + 1
      BY <1>1, <1>2, <2>1 DEF Due
    <2> QED
      BY <1>1, <2>1 DEF LinkInv, TransmitterConsistent
  <1>7. SlotsStarted'
    BY <1>1, <1>2 DEF LinkInv, SlotsStarted
  <1>8. UsageAccurate'
    <2> SUFFICES ASSUME NEW e \in Dev
                 PROVE  /\ m_history'[e].up_duration +
                             (IF m_history'[e].was_down THEN 0
                              ELSE now' - m_history'[e].start_tx) = busy'[e]
                        /\ busy'[e] <= now' - readAt'[e]
      BY DEF UsageAccurate
    <2>1. /\ m_history[e].up_duration \in Nat /\ m_history[e].start_tx \in Nat
          /\ m_history[e].was_down \in BOOLEAN
          /\ busy[e] \in Nat /\ readAt[e] \in Nat
      BY <1>2
    <2>2. /\ m_history[e].up_duration +
               (IF m_history[e].was_down THEN 0 ELSE now - m_history[e].start_tx)
                 = busy[e]
          /\ busy[e] <= now - readAt[e]
      BY <1>1 DEF LinkInv, UsageAccurate
    <2>3. m_txMachineState[e] = "BUSY" <=> ~ m_history[e].was_down
      BY <1>1 DEF LinkInv, TransmitterConsistent
    <2>4. busy'[e] = IF m_history[e].was_down THEN busy[e] ELSE busy[e] + 1
      BY <1>1, <2>3
    <2>5. /\ m_history[e].up_duration +
               (IF m_history[e].was_down THEN 0 ELSE now + 1 - m_history[e].start_tx)
                 = busy'[e]
          /\ busy'[e] <= now + 1 - readAt[e]
      BY <2>1, <2>2, <2>4, <1>2
    <2>6. m_history' = m_history /\ now' = now + 1 /\ readAt' = readAt
      BY <1>1
    <2> QED
      BY <2>1, <2>5, <2>6, <1>2
  <1>9. Spaced'
    <2>1. \A m \in wire : /\ m.at \in Nat /\ m.at >= now /\ m.at # now
                          /\ m_txMachineState[m.pkt.src] = "READY" => m.at <= now + Delay
                          /\ \A t \in completions[m.pkt.src] : m.at <= t + Delay
      BY <1>1 DEF LinkInv, TypeOK, Flight, Spaced, Due
    <2>2. \A m \in wire : /\ m.at >= now + 1
                          /\ m_txMachineState[m.pkt.src] = "READY" =>
                               m.at <= now + 1 + Delay
      <3>1. \A a \in Nat : /\ a >= now /\ a # now => a >= now + 1
                           /\ a <= now + Delay => a <= now + 1 + Delay
        BY <1>2
      <3> QED
        BY <2>1, <3>1
    <2> QED
      BY <1>1, <2>1, <2>2 DEF LinkInv, Spaced
  <1> QED
    BY <1>3, <1>4, <1>5, <1>6, <1>7, <1>8, <1>9 DEF LinkInv

(* Every step keeps the invariant. *)
LEMMA NextInv == LinkInv /\ [Next]_vars => LinkInv'
  <1> SUFFICES ASSUME LinkInv, [Next]_vars PROVE LinkInv'
    OBVIOUS
  <1>1. ASSUME NEW d \in Dev, Attach(d) PROVE LinkInv'
    BY <1>1, AttachInv
  <1>2. ASSUME NEW d \in Dev, NEW s \in Sizes, Send(d, s) PROVE LinkInv'
    BY <1>2, SendInv
  <1>3. ASSUME NEW d \in Dev, TransmitComplete(d) PROVE LinkInv'
    BY <1>3, CompleteInv
  <1>4. ASSUME NEW m \in wire, Receive(m) PROVE LinkInv'
    BY <1>4, ReceiveInv
  <1>5. ASSUME NEW d \in Dev, TimeSlot(d) PROVE LinkInv'
    BY <1>5, TimeSlotInv
  <1>6. CASE Tick
    BY <1>6, TickInv
  <1>7. CASE UNCHANGED vars
    BY <1>7 DEF vars, devVars, LinkInv, TypeOK, QueueSound, TransmitterConsistent,
                NothingStranded, UsageAccurate, SlotsStarted, Numbered, Spaced,
                NoOvertaking, DeviceAsserts, Attached, Arrived, InFlight
  <1> QED
    BY <1>1, <1>2, <1>3, <1>4, <1>5, <1>6, <1>7 DEF Next

(* LinkInv is an invariant of every link whose queue limits fit. *)
THEOREM LinkInvariant == LimitFits => (Spec => []LinkInv)
  <1>1. LimitFits /\ Init => LinkInv
    BY InitInv
  <1>2. LinkInv /\ [Next]_vars => LinkInv'
    BY NextInv
  <1> QED
    BY <1>1, <1>2, PTL DEF Spec

(* No value leaves the range of its C++ type (TypeOK). *)
THEOREM TypeCorrect == LimitFits => (Spec => []TypeOK)
  <1>1. LinkInv => TypeOK
    BY DEF LinkInv
  <1> QED
    BY <1>1, LinkInvariant, PTL

(* BUSY, the packet held, the completion event and the open slot of the    *)
(* usage history agree (TransmitterConsistent).                            *)
THEOREM TransmitterCorrect == LimitFits => (Spec => []TransmitterConsistent)
  <1>1. LinkInv => TransmitterConsistent
    BY DEF LinkInv
  <1> QED
    BY <1>1, LinkInvariant, PTL

(* No packet waits in the queue of an idle device (NothingStranded). *)
THEOREM QueueDrains == LimitFits => (Spec => []NothingStranded)
  <1>1. LinkInv => NothingStranded
    BY DEF LinkInv
  <1> QED
    BY <1>1, LinkInvariant, PTL

(* The usage history is exact and never above the elapsed time             *)
(* (UsageAccurate).                                                        *)
THEOREM UsageCorrect == LimitFits => (Spec => []UsageAccurate)
  <1>1. LinkInv => UsageAccurate
    BY DEF LinkInv
  <1> QED
    BY <1>1, LinkInvariant, PTL

(* Each direction of the link is first in, first out (NoOvertaking). *)
THEOREM LinkFifo == LimitFits => (Spec => []NoOvertaking)
  <1>1. LinkInv => NoOvertaking
    BY DEF LinkInv
  <1> QED
    BY <1>1, LinkInvariant, PTL

(* Every reading of time_slot returns the busy time of its slot            *)
(* (ReadingExact).                                                         *)
THEOREM ReadingCorrect == LimitFits => (Spec => ReadingExact)
  <1>1. ASSUME LinkInv, [Next]_vars
        PROVE  [\A d \in Dev : TimeSlot(d) => reading'[d] = busy[d]]_vars
    BY <1>1, TimeSlotInv
  <1> QED
    BY <1>1, LinkInvariant, PTL DEF Spec, ReadingExact

-----------------------------------------------------------------------------

(* The packets that wait, and all the places a packet can be in. *)
Waiting == UNION {Queued(d) : d \in Dev}

Places == [i \in 1 .. 5 |-> CASE i = 1 -> fate.dropped
                              [] i = 2 -> fate.delivered
                              [] i = 3 -> fate.corrupted
                              [] i = 4 -> InFlight
                              [] OTHER -> Waiting]

(* n packets, numbered from 0, each in one place. *)
Partition(P, n) ==
  /\ P \in [1 .. 5 -> SUBSET Packet]
  /\ \A i, j \in 1 .. 5 : \A p \in P[i], r \in P[j] : p.uid = r.uid => i = j /\ p = r
  /\ \A i \in 1 .. 5 : \A p \in P[i] : p.uid < n
  /\ \A u \in 0 .. n - 1 : \E i \in 1 .. 5 : \E p \in P[i] : p.uid = u

FateInv == halted = "no" => Partition(Places, sent)

(* The next packet goes to some place. *)
LEMMA PacketAdded ==
  ASSUME NEW P, NEW n \in Nat, Partition(P, n), NEW p \in Packet, p.uid = n, NEW k \in 1 .. 5,
         NEW R, R = [P EXCEPT ![k] = @ \cup {p}]
  PROVE  Partition(R, n + 1)
  <1>1. P \in [1 .. 5 -> SUBSET Packet] /\ \A i \in 1 .. 5 : \A x \in P[i] : x \in Packet /\ x.uid < n
    BY DEF Partition
  <1>2. \A x \in Packet : x.uid \in Nat
    BY DEF Packet
  <1>3. \A i \in 1 .. 5 : R[i] = IF i = k THEN P[k] \cup {p} ELSE P[i]
    BY <1>1
  <1>4. R \in [1 .. 5 -> SUBSET Packet]
    BY <1>1
  <1>5. \A i \in 1 .. 5 : \A x \in R[i] : x \in P[i] \/ (i = k /\ x = p)
    BY <1>3
  <1>6. \A i, j \in 1 .. 5 : \A x \in R[i], y \in R[j] : x.uid = y.uid => i = j /\ x = y
    BY <1>1, <1>2, <1>5 DEF Partition
  <1>7. \A i \in 1 .. 5 : \A x \in R[i] : x.uid < n + 1
    BY <1>1, <1>2, <1>5
  <1>8. ASSUME NEW u \in 0 .. (n + 1) - 1
        PROVE  \E i \in 1 .. 5 : \E x \in R[i] : x.uid = u
    <2>1. u = n \/ u \in 0 .. n - 1
      OBVIOUS
    <2> QED
      BY <1>3, <2>1 DEF Partition
  <1> QED
    BY <1>4, <1>6, <1>7, <1>8 DEF Partition

(* A packet changes its place. *)
LEMMA PacketMoved ==
  ASSUME NEW P, NEW n \in Nat, Partition(P, n),
         NEW k \in 1 .. 5, NEW l \in 1 .. 5, k # l, NEW p \in P[k],
         NEW R, R = [P EXCEPT ![k] = @ \ {p}, ![l] = @ \cup {p}]
  PROVE  Partition(R, n)
  <1>1. P \in [1 .. 5 -> SUBSET Packet] /\ p \in Packet
    BY DEF Partition
  <1>2. \A i \in 1 .. 5 : R[i] = IF i = k THEN P[k] \ {p} ELSE IF i = l THEN P[l] \cup {p} ELSE P[i]
    BY <1>1
  <1>3. R \in [1 .. 5 -> SUBSET Packet]
    BY <1>1
  <1>4. \A i \in 1 .. 5 : \A x \in R[i] : (x \in P[i] /\ ~(i = k /\ x = p)) \/ (i = l /\ x = p)
    BY <1>2
  <1>5. \A i, j \in 1 .. 5 : \A x \in R[i], y \in R[j] : x.uid = y.uid => i = j /\ x = y
    BY <1>4 DEF Partition
  <1>6. \A i \in 1 .. 5 : \A x \in R[i] : x.uid < n
    BY <1>4 DEF Partition
  <1>7. \A i \in 1 .. 5 : \A x \in P[i] : \E j \in 1 .. 5 : x \in R[j]
    BY <1>2
  <1>8. \A u \in 0 .. n - 1 : \E i \in 1 .. 5 : \E x \in R[i] : x.uid = u
    BY <1>7 DEF Partition
  <1> QED
    BY <1>3, <1>5, <1>6, <1>8 DEF Partition

(* A packet that joins a queue, and one that leaves it. *)
LEMMA WaitingMore ==
  ASSUME NEW d \in Dev, NEW q, NEW p, LinkInv, m_queue' = [m_queue EXCEPT ![d] = q],
         q.m_packets = Append(m_queue[d].m_packets, p)
  PROVE  Waiting' = Waiting \cup {p}
  <1> DEFINE s(e) == m_queue[e].m_packets
             t(e) == m_queue'[e].m_packets
  <1>1. \A e \in Dev : s(e) \in Seq(Packet) /\ Len(s(e)) \in Nat
    BY QueuesHoldPackets
  <1>2. \A e \in Dev : t(e) = IF e = d THEN Append(s(d), p) ELSE s(e)
    BY DEF LinkInv, TypeOK
  <1>3. Waiting = UNION {{s(e)[i] : i \in 1 .. Len(s(e))} : e \in Dev}
    BY DEF Waiting, Queued
  <1>4. Waiting' = UNION {{t(e)[i] : i \in 1 .. Len(t(e))} : e \in Dev}
    BY DEF Waiting, Queued
  <1>5. {t(d)[i] : i \in 1 .. Len(t(d))} = {s(d)[i] : i \in 1 .. Len(s(d))} \cup {p}
    <2> DEFINE a == s(d)
    <2>1. a \in Seq(Packet) /\ Len(a) \in Nat /\ t(d) = Append(a, p)
      BY <1>1, <1>2
    <2> HIDE DEF a
    <2>2. /\ Len(Append(a, p)) = Len(a) + 1 /\ Append(a, p)[Len(a) + 1] = p
          /\ \A i \in 1 .. Len(a) : Append(a, p)[i] = a[i]
      BY <2>1
    <2>3. \A i \in 1 .. Len(a) + 1 : i = Len(a) + 1 \/ i \in 1 .. Len(a)
      BY <2>1
    <2>4. Len(a) + 1 \in 1 .. Len(a) + 1 /\ \A i \in 1 .. Len(a) : i \in 1 .. Len(a) + 1
      BY <2>1
    <2>5. {Append(a, p)[i] : i \in 1 .. Len(a) + 1} = {a[i] : i \in 1 .. Len(a)} \cup {p}
      BY <2>2, <2>3, <2>4
    <2> QED
      BY <2>1, <2>2, <2>5 DEF a
  <1> HIDE DEF s, t
  <1>6. \A e \in Dev : e # d => {t(e)[i] : i \in 1 .. Len(t(e))} = {s(e)[i] : i \in 1 .. Len(s(e))}
    BY <1>2
  <1> DEFINE S(e) == {s(e)[i] : i \in 1 .. Len(s(e))}
             T(e) == {t(e)[i] : i \in 1 .. Len(t(e))}
  <1>7. /\ Waiting = UNION {S(e) : e \in Dev} /\ Waiting' = UNION {T(e) : e \in Dev}
        /\ T(d) = S(d) \cup {p} /\ \A e \in Dev : e # d => T(e) = S(e)
    BY <1>3, <1>4, <1>5, <1>6
  <1> HIDE DEF S, T
  <1> QED
    BY <1>7

(* Taking a packet from a queue leaves the other waiting packets. *)
LEMMA WaitingLess ==
  ASSUME NEW d \in Dev, NEW q, LinkInv, m_queue' = [m_queue EXCEPT ![d] = q],
         m_queue[d].m_packets # << >>, q.m_packets = Tail(m_queue[d].m_packets)
  PROVE  LET p == Head(m_queue[d].m_packets)
         IN  p \in Waiting /\ Waiting' = Waiting \ {p}
  <1> DEFINE s(e) == m_queue[e].m_packets
             t(e) == m_queue'[e].m_packets
             p == Head(s(d))
  <1>1. \A e \in Dev : s(e) \in Seq(Packet) /\ Len(s(e)) \in Nat
    BY QueuesHoldPackets
  <1>2. \A e \in Dev : t(e) = IF e = d THEN Tail(s(d)) ELSE s(e)
    BY DEF LinkInv, TypeOK
  <1>3. Waiting = UNION {{s(e)[i] : i \in 1 .. Len(s(e))} : e \in Dev}
    BY DEF Waiting, Queued
  <1>4. Waiting' = UNION {{t(e)[i] : i \in 1 .. Len(t(e))} : e \in Dev}
    BY DEF Waiting, Queued
  <1>5. \A e \in Dev : \A i \in 1 .. Len(s(e)) :
          /\ s(e)[i].src = e
          /\ \A j \in 1 .. Len(s(e)) : i < j => s(e)[i].uid < s(e)[j].uid
    BY DEF LinkInv, Numbered
  <1> DEFINE S(e) == {s(e)[i] : i \in 1 .. Len(s(e))}
             T(e) == {t(e)[i] : i \in 1 .. Len(t(e))}
  <1>6. T(d) = S(d) \ {p} /\ p \in S(d)
    <2> DEFINE a == s(d)
               b == Tail(a)
    <2>1. a \in Seq(Packet) /\ Len(a) \in Nat /\ a # << >>
      BY <1>1
    <2>2. \A i \in 1 .. Len(a) : \A j \in 1 .. Len(a) : i < j => a[i].uid < a[j].uid
      BY <1>5
    <2>3. \A i \in 1 .. Len(a) : a[i].uid \in Nat
      <3>1. \A i \in 1 .. Len(a) : a[i] \in Packet
        BY <2>1
      <3> QED
        BY <3>1, PacketSizes
    <2> HIDE DEF a
    <2>4. /\ Len(b) \in Nat /\ Len(a) = Len(b) + 1 /\ p = a[1]
          /\ \A i \in 1 .. Len(b) : b[i] = a[i + 1]
      BY <2>1, HeadTailProperties DEF a
    <2> DEFINE n == Len(b)
    <2>5. n \in Nat /\ Len(a) = n + 1 /\ \A i \in 1 .. n : b[i] = a[i + 1]
      BY <2>4
    <2> HIDE DEF b, n
    <2>6. \A i \in 1 .. n : i + 1 \in 1 .. n + 1 /\ 1 \in 1 .. n + 1 /\ 1 < i + 1
      BY <2>5
    <2>7. ASSUME NEW i \in 1 .. n
          PROVE  a[i + 1] # p
      <3>1. 1 \in 1 .. Len(a) /\ i + 1 \in 1 .. Len(a) /\ 1 < i + 1
        BY <2>5, <2>6
      <3>2. a[1].uid < a[i + 1].uid /\ a[1].uid \in Nat
        BY <2>2, <2>3, <3>1
      <3> QED
        BY <2>4, <3>2
    <2>8. \A j \in 1 .. n + 1 : j = 1 \/ \E i \in 1 .. n : j = i + 1
      <3>1. ASSUME NEW j \in 1 .. n + 1, j # 1
            PROVE  j - 1 \in 1 .. n /\ j = (j - 1) + 1
        BY <2>5, <3>1
      <3> QED
        BY <3>1
    <2>9. 1 \in 1 .. n + 1
      BY <2>5
    <2>10. {b[i] : i \in 1 .. n} = {a[j] : j \in 1 .. n + 1} \ {p} /\ p \in {a[j] : j \in 1 .. n + 1}
      <3> DEFINE A == {a[j] : j \in 1 .. n + 1}
                 B == {b[i] : i \in 1 .. n}
      <3>1. p \in A
        BY <2>4, <2>9
      <3>2. ASSUME NEW x \in B
            PROVE  x \in A \ {p}
        <4>1. PICK i \in 1 .. n : x = a[i + 1]
          BY <2>5
        <4> QED
          BY <2>6, <2>7, <4>1
      <3>3. ASSUME NEW x \in A, x # p
            PROVE  x \in B
        <4>1. PICK j \in 1 .. n + 1 : x = a[j]
          OBVIOUS
        <4>2. PICK i \in 1 .. n : j = i + 1
          BY <2>4, <2>8, <3>3, <4>1
        <4> QED
          BY <2>5, <4>1, <4>2
      <3> HIDE DEF A, B
      <3>4. B = A \ {p} /\ p \in A
        BY <3>1, <3>2, <3>3
      <3> QED
        BY <3>4 DEF A, B
    <2>11. t(d) = b /\ Len(t(d)) = n /\ Len(s(d)) = n + 1
      BY <1>2, <2>5 DEF a, b, n
    <2>12. T(d) = {b[i] : i \in 1 .. n} /\ S(d) = {a[j] : j \in 1 .. n + 1}
      BY <2>11 DEF a
    <2> QED
      BY <2>10, <2>12
  <1>7. \A e \in Dev : e # d => T(e) = S(e) /\ p \notin S(e)
    <2>1. p.src = d
      BY <1>5, <1>6
    <2> QED
      BY <1>2, <1>5, <2>1
  <1>8. Waiting = UNION {S(e) : e \in Dev} /\ Waiting' = UNION {T(e) : e \in Dev}
    BY <1>3, <1>4
  <1> HIDE DEF S, T, p
  <1>9. p \in Waiting /\ Waiting' = Waiting \ {p}
    BY <1>6, <1>7, <1>8
  <1> QED
    BY <1>9 DEF p

(* The five places, before and after a step. *)
LEMMA PlacesFields ==
  /\ Places = [i \in 1 .. 5 |-> Places[i]]
  /\ Places[1] = fate.dropped /\ Places[2] = fate.delivered /\ Places[3] = fate.corrupted
  /\ Places[4] = InFlight /\ Places[5] = Waiting
  /\ Places' = [i \in 1 .. 5 |-> Places'[i]]
  /\ Places'[1] = fate'.dropped /\ Places'[2] = fate'.delivered /\ Places'[3] = fate'.corrupted
  /\ Places'[4] = InFlight' /\ Places'[5] = Waiting'
  BY DEF Places

(* A packet offered: lost, queued or on the wire. *)
LEMMA FateAdded ==
  ASSUME sent \in Nat, Partition(Places, sent), NEW p \in Packet, p.uid = sent, sent' = sent + 1,
         fate \in [dropped : SUBSET Packet, delivered : SUBSET Packet, corrupted : SUBSET Packet],
         \/ /\ fate' = [fate EXCEPT !.dropped = @ \cup {p}]
            /\ InFlight' = InFlight /\ Waiting' = Waiting
         \/ fate' = fate /\ InFlight' = InFlight \cup {p} /\ Waiting' = Waiting
         \/ fate' = fate /\ InFlight' = InFlight /\ Waiting' = Waiting \cup {p}
  PROVE  Partition(Places', sent')
  <1> DEFINE R(k) == [Places EXCEPT ![k] = @ \cup {p}]
  <1>1. \A k \in 1 .. 5 : Partition(R(k), sent')
    BY PacketAdded
  <1>2. CASE /\ fate' = [fate EXCEPT !.dropped = @ \cup {p}]
             /\ InFlight' = InFlight /\ Waiting' = Waiting
    <2>1. Places' = R(1)
      BY <1>2, PlacesFields
    <2> QED
      BY <1>1, <2>1
  <1>3. CASE fate' = fate /\ InFlight' = InFlight \cup {p} /\ Waiting' = Waiting
    <2>1. Places' = R(4)
      BY <1>3, PlacesFields
    <2> QED
      BY <1>1, <2>1
  <1>4. CASE fate' = fate /\ InFlight' = InFlight /\ Waiting' = Waiting \cup {p}
    <2>1. Places' = R(5)
      BY <1>4, PlacesFields
    <2> QED
      BY <1>1, <2>1
  <1> QED
    BY <1>2, <1>3, <1>4

(* A packet leaves the queue for the wire, or the wire for the other end. *)
LEMMA FateMoved ==
  ASSUME sent \in Nat, Partition(Places, sent), sent' = sent, NEW p,
         fate \in [dropped : SUBSET Packet, delivered : SUBSET Packet, corrupted : SUBSET Packet],
         \/ /\ fate' = fate /\ p \in Waiting
            /\ InFlight' = InFlight \cup {p} /\ Waiting' = Waiting \ {p}
         \/ /\ fate' = [fate EXCEPT !.delivered = @ \cup {p}] /\ p \in InFlight
            /\ InFlight' = InFlight \ {p} /\ Waiting' = Waiting
         \/ /\ fate' = [fate EXCEPT !.corrupted = @ \cup {p}] /\ p \in InFlight
            /\ InFlight' = InFlight \ {p} /\ Waiting' = Waiting
  PROVE  Partition(Places', sent')
  <1> DEFINE R(k, l) == [Places EXCEPT ![k] = @ \ {p}, ![l] = @ \cup {p}]
  <1>1. \A k, l \in 1 .. 5 : k # l /\ p \in Places[k] => Partition(R(k, l), sent')
    BY PacketMoved
  <1>2. CASE /\ fate' = fate /\ p \in Waiting
             /\ InFlight' = InFlight \cup {p} /\ Waiting' = Waiting \ {p}
    <2>1. Places' = R(5, 4) /\ p \in Places[5]
      BY <1>2, PlacesFields
    <2> QED
      BY <1>1, <2>1
  <1>3. CASE /\ fate' = [fate EXCEPT !.delivered = @ \cup {p}] /\ p \in InFlight
             /\ InFlight' = InFlight \ {p} /\ Waiting' = Waiting
    <2>1. Places' = R(4, 2) /\ p \in Places[4]
      BY <1>3, PlacesFields
    <2> QED
      BY <1>1, <2>1
  <1>4. CASE /\ fate' = [fate EXCEPT !.corrupted = @ \cup {p}] /\ p \in InFlight
             /\ InFlight' = InFlight \ {p} /\ Waiting' = Waiting
    <2>1. Places' = R(4, 3) /\ p \in Places[4]
      BY <1>4, PlacesFields
    <2> QED
      BY <1>1, <2>1
  <1> QED
    BY <1>2, <1>3, <1>4

(* A packet that goes on the wire. *)
LEMMA FlightMore ==
  ASSUME NEW p, NEW d, NEW t, wire' = wire \cup {[pkt |-> p, dst |-> d, at |-> t]}
  PROVE  InFlight' = InFlight \cup {p}
  <1> DEFINE x == [pkt |-> p, dst |-> d, at |-> t]
  <1>1. x.pkt = p /\ wire' = wire \cup {x}
    OBVIOUS
  <1> HIDE DEF x
  <1> QED
    BY <1>1 DEF InFlight

(* A Send keeps the fates apart. *)
LEMMA SendFate ==
  ASSUME LinkInv, FateInv, NEW d \in Dev, NEW s \in Sizes, Send(d, s)
  PROVE  FateInv'
  <1> SUFFICES ASSUME halted' = "no" PROVE Partition(Places', sent')
    BY DEF FateInv
  <1> DEFINE p == [uid |-> sent, src |-> d, size |-> s]
             old == m_queue[d]
             q == Enqueue(old, p)
  <1>1. /\ sent \in Nat /\ p \in Packet /\ p.uid = sent
        /\ SoundQueue(old, Packet) /\ old.m_packets \in Seq(Packet)
        /\ old.m_maxSize = MaxSize /\ LimitFits
        /\ fate \in [dropped : SUBSET Packet, delivered : SUBSET Packet,
                     corrupted : SUBSET Packet]
    BY DEF LinkInv, TypeOK, Packet, QueueSound, QueueOf
  <1>2. /\ SoundQueue(q, Packet)
        /\ q.m_packets = IF Accepts(old, p) THEN Append(old.m_packets, p) ELSE old.m_packets
    BY <1>1, PacketSizes, LimitRoomy, EnqueueEffect
  <1>3. halted = "no" /\ sent' = sent + 1
    BY DEF Send
  <1>4. Partition(Places, sent)
    BY <1>3 DEF FateInv
  <1>5. \/ Lose(p) /\ UNCHANGED <<m_queue, wire>>
        \/ /\ ~ Accepts(old, p)
           /\ m_queue' = [m_queue EXCEPT ![d] = q] /\ Lose(p) /\ UNCHANGED wire
        \/ /\ Accepts(old, p) /\ m_txMachineState[d] = "READY"
           /\ TransmitStart(d, FrontItem(q), Dequeue(q), completions[d])
           /\ UNCHANGED fate
        \/ /\ Accepts(old, p)
           /\ m_queue' = [m_queue EXCEPT ![d] = q] /\ UNCHANGED <<wire, fate>>
    BY DEF Send, devVars, Halt
  <1> HIDE DEF p, q
  <1>6. CASE Lose(p) /\ UNCHANGED <<m_queue, wire>>
    <2>1. InFlight' = InFlight /\ Waiting' = Waiting
      BY <1>6 DEF InFlight, Waiting, Queued
    <2> QED
      BY <1>1, <1>3, <1>4, <1>6, <2>1, FateAdded DEF Lose
  <1>7. CASE /\ ~ Accepts(old, p)
             /\ m_queue' = [m_queue EXCEPT ![d] = q] /\ Lose(p) /\ UNCHANGED wire
    <2>1. \A e \in Dev : m_queue'[e].m_packets = m_queue[e].m_packets
      BY <1>2, <1>7 DEF LinkInv, TypeOK
    <2>2. InFlight' = InFlight /\ Waiting' = Waiting
      BY <1>7, <2>1 DEF InFlight, Waiting, Queued
    <2> QED
      BY <1>1, <1>3, <1>4, <1>7, <2>2, FateAdded DEF Lose
  <1>8. CASE /\ Accepts(old, p) /\ m_txMachineState[d] = "READY"
             /\ TransmitStart(d, FrontItem(q), Dequeue(q), completions[d])
             /\ UNCHANGED fate
    <2>1. old.m_packets = << >>
      BY <1>3, <1>8 DEF LinkInv, TransmitterConsistent, NothingStranded
    <2>2. q.m_packets = <<p>> /\ q.m_packets # << >>
      BY <1>2, <1>8, <2>1
    <2>3. ~ IsEmpty(q)
      BY <1>2, <2>2, PacketSizes, DequeueEffect
    <2>4. FrontItem(q) = Head(q.m_packets) /\ Dequeue(q).m_packets = Tail(q.m_packets)
      BY <1>2, <2>3, PacketSizes, DequeueEffect
    <2>5. Head(<<p>>) = p /\ Tail(<<p>>) = << >>
      OBVIOUS
    <2>6. FrontItem(q) = p /\ Dequeue(q).m_packets = << >>
      BY <2>2, <2>4, <2>5
    <2>7. /\ m_queue' = [m_queue EXCEPT ![d] = Dequeue(q)]
          /\ wire' = wire \cup {[pkt |-> p, dst |-> Peer(d), at |-> ArriveAt(p)]}
      BY <1>8, <2>6 DEF TransmitStart
    <2>8. \A e \in Dev : m_queue'[e].m_packets = m_queue[e].m_packets
      BY <2>1, <2>6, <2>7 DEF LinkInv, TypeOK
    <2>9. Waiting' = Waiting
      BY <2>8 DEF Waiting, Queued
    <2>10. InFlight' = InFlight \cup {p}
      BY <2>7, FlightMore
    <2> QED
      BY <1>1, <1>3, <1>4, <1>8, <2>9, <2>10, FateAdded
  <1>9. CASE /\ Accepts(old, p)
             /\ m_queue' = [m_queue EXCEPT ![d] = q] /\ UNCHANGED <<wire, fate>>
    <2>1. q.m_packets = Append(m_queue[d].m_packets, p)
      BY <1>2, <1>9
    <2>2. Waiting' = Waiting \cup {p}
      BY <1>9, <2>1, WaitingMore
    <2>3. InFlight' = InFlight
      BY <1>9 DEF InFlight
    <2> QED
      BY <1>1, <1>3, <1>4, <1>9, <2>2, <2>3, FateAdded
  <1> QED
    BY <1>5, <1>6, <1>7, <1>8, <1>9

(* A completion sends the next packet of the queue on its way, if any. *)
LEMMA CompleteFate ==
  ASSUME LinkInv, FateInv, NEW d \in Dev, TransmitComplete(d)
  PROVE  FateInv'
  <1> SUFFICES ASSUME halted' = "no" PROVE Partition(Places', sent')
    BY DEF FateInv
  <1> DEFINE old == m_queue[d]
             p == FrontItem(old)
             r == Dequeue(old)
  <1>1. /\ halted = "no" /\ sent' = sent /\ fate' = fate /\ sent \in Nat
        /\ SoundQueue(old, Packet)
        /\ fate \in [dropped : SUBSET Packet, delivered : SUBSET Packet,
                     corrupted : SUBSET Packet]
    BY DEF TransmitComplete, LinkInv, TypeOK, QueueSound
  <1>2. Partition(Places, sent)
    BY <1>1 DEF FateInv
  <1>3. \/ UNCHANGED <<m_queue, wire>>
        \/ ~ IsEmpty(old) /\ TransmitStart(d, p, r, completions[d] \ {now})
    BY DEF TransmitComplete, Halt, devVars
  <1>4. CASE UNCHANGED <<m_queue, wire>>
    <2>1. Places' = Places
      BY <1>1, <1>4 DEF Places, InFlight, Waiting, Queued
    <2> QED
      BY <1>1, <1>2, <2>1
  <1>5. CASE ~ IsEmpty(old) /\ TransmitStart(d, p, r, completions[d] \ {now})
    <2>1. p = Head(old.m_packets) /\ r.m_packets = Tail(old.m_packets) /\ old.m_packets # << >>
      BY <1>1, <1>5, PacketSizes, DequeueEffect
    <2> HIDE DEF p, r
    <2>2. /\ m_queue' = [m_queue EXCEPT ![d] = r]
          /\ wire' = wire \cup {[pkt |-> p, dst |-> Peer(d), at |-> ArriveAt(p)]}
      BY <1>5 DEF TransmitStart
    <2>3. p \in Waiting /\ Waiting' = Waiting \ {p}
      BY <2>1, <2>2, WaitingLess
    <2>4. InFlight' = InFlight \cup {p}
      BY <2>2, FlightMore
    <2> QED
      BY <1>1, <1>2, <2>3, <2>4, FateMoved
  <1> QED
    BY <1>3, <1>4, <1>5

(* An arrival takes its packet off the wire: no other flight carries it. *)
LEMMA ReceiveFate ==
  ASSUME LinkInv, FateInv, NEW m \in wire, Receive(m)
  PROVE  FateInv'
  <1> SUFFICES ASSUME halted' = "no" PROVE Partition(Places', sent')
    BY DEF FateInv
  <1>1. /\ halted = "no" /\ sent' = sent /\ sent \in Nat /\ wire' = wire \ {m}
        /\ m_queue' = m_queue
        /\ fate \in [dropped : SUBSET Packet, delivered : SUBSET Packet,
                     corrupted : SUBSET Packet]
    BY DEF Receive, devVars, LinkInv, TypeOK
  <1>2. Partition(Places, sent)
    BY <1>1 DEF FateInv
  <1>3. \/ fate' = [fate EXCEPT !.corrupted = @ \cup {m.pkt}]
        \/ fate' = [fate EXCEPT !.delivered = @ \cup {m.pkt}]
    BY DEF Receive
  <1>4. \A n \in wire : n.pkt = m.pkt => n = m
    BY <1>1 DEF LinkInv, Spaced
  <1>5. InFlight' = InFlight \ {m.pkt} /\ m.pkt \in InFlight
    BY <1>1, <1>4 DEF InFlight
  <1>6. Waiting' = Waiting
    BY <1>1 DEF Waiting, Queued
  <1> QED
    BY <1>1, <1>2, <1>3, <1>5, <1>6, FateMoved

(* Every step keeps the fates apart. *)
LEMMA NextFate == LinkInv /\ FateInv /\ [Next]_vars => FateInv'
  <1> SUFFICES ASSUME LinkInv, FateInv, [Next]_vars PROVE FateInv'
    OBVIOUS
  <1>1. ASSUME NEW d \in Dev, NEW s \in Sizes, Send(d, s) PROVE FateInv'
    BY <1>1, SendFate
  <1>2. ASSUME NEW d \in Dev, TransmitComplete(d) PROVE FateInv'
    BY <1>2, CompleteFate
  <1>3. ASSUME NEW m \in wire, Receive(m) PROVE FateInv'
    BY <1>3, ReceiveFate
  <1>4. CASE UNCHANGED <<m_queue, wire, halted, sent, fate>>
    <2>1. Places' = Places
      BY <1>4 DEF Places, InFlight, Waiting, Queued
    <2> QED
      BY <1>4, <2>1 DEF FateInv
  <1>5. ASSUME NEW d \in Dev, Attach(d) \/ TimeSlot(d)
        PROVE  UNCHANGED <<m_queue, wire, halted, sent, fate>>
    BY <1>5 DEF Attach, TimeSlot, devVars
  <1>6. Tick \/ UNCHANGED vars => UNCHANGED <<m_queue, wire, halted, sent, fate>>
    BY DEF Tick, vars, devVars
  <1> QED
    BY <1>1, <1>2, <1>3, <1>4, <1>5, <1>6 DEF Next

(* Every packet offered has one fate (Conservation). *)
THEOREM EveryPacketAccounted == LimitFits => (Spec => []Conservation)
  <1>1. Init => FateInv
    <2> SUFFICES ASSUME Init PROVE Partition(Places, sent)
      BY DEF FateInv
    <2>1. \A d \in Dev : Queued(d) = {}
      BY DEF Init, Queued, NewQueue
    <2>2. Waiting = {} /\ InFlight = {} /\ sent = 0
      BY <2>1 DEF Init, Waiting, InFlight
    <2>3. \A i \in 1 .. 5 : Places[i] = {}
      BY <2>2 DEF Init, Places
    <2> QED
      BY <2>2, <2>3, PlacesFields DEF Partition
  <1>2. LinkInv /\ FateInv /\ [Next]_vars => FateInv'
    BY NextFate
  <1>3. LinkInv /\ FateInv => Conservation
    <2> SUFFICES ASSUME LinkInv, Partition(Places, sent) PROVE Conservation
      BY DEF FateInv, Conservation
    <2> DEFINE places == <<fate.dropped, fate.delivered, fate.corrupted, InFlight>>
                         \o <<UNION {Queued(d) : d \in Dev}>>
               Uids(S) == {x.uid : x \in S}
    <2>1. \A i \in 1 .. 5 : places[i] = Places[i]
      <3> DEFINE a == <<fate.dropped, fate.delivered, fate.corrupted, InFlight>>
                 b == <<UNION {Queued(d) : d \in Dev}>>
      <3>1. Len(a) = 4 /\ Len(b) = 1 /\ DOMAIN a = 1 .. 4 /\ DOMAIN b = 1 .. 1
        OBVIOUS
      <3>2. places = [i \in 1 .. 5 |-> IF i <= 4 THEN a[i] ELSE b[i - 4]]
        BY <3>1
      <3>3. /\ a[1] = fate.dropped /\ a[2] = fate.delivered /\ a[3] = fate.corrupted
            /\ a[4] = InFlight /\ b[1] = Waiting
        BY DEF Waiting
      <3> HIDE DEF a, b, places
      <3>4. /\ places[1] = a[1] /\ places[2] = a[2] /\ places[3] = a[3] /\ places[4] = a[4]
            /\ places[5] = b[1]
        BY <3>2
      <3> QED
        BY <3>3, <3>4, PlacesFields
    <2> HIDE DEF places
    <2>2. \A i \in 1 .. 5 : \A x \in Places[i] : x.uid \in Nat /\ x.uid < sent
      BY PacketSizes DEF Partition
    <2>3. UNION {Uids(places[i]) : i \in 1 .. 5} = 0 .. sent - 1
      <3>1. \A u : u \in UNION {Uids(places[i]) : i \in 1 .. 5}
                     <=> \E i \in 1 .. 5 : \E x \in Places[i] : x.uid = u
        BY <2>1
      <3>2. \A u \in 0 .. sent - 1 : \E i \in 1 .. 5 : \E x \in Places[i] : x.uid = u
        BY DEF Partition
      <3>3. \A i \in 1 .. 5 : \A x \in Places[i] : x.uid \in 0 .. sent - 1
        BY <2>2 DEF LinkInv, TypeOK
      <3> DEFINE U == UNION {Uids(places[i]) : i \in 1 .. 5}
      <3>4. \A u : u \in U <=> u \in 0 .. sent - 1
        <4> HIDE DEF U
        <4>1. \A u \in U : u \in 0 .. sent - 1
          BY <3>1, <3>3 DEF U
        <4>2. \A u \in 0 .. sent - 1 : u \in U
          BY <3>1, <3>2 DEF U
        <4> QED
          BY <4>1, <4>2
      <3> HIDE DEF U
      <3>5. U = 0 .. sent - 1
        BY <3>4
      <3> QED
        BY <3>5 DEF U
    <2>4. \A i, j \in 1 .. 5 : i # j => Uids(places[i]) \cap Uids(places[j]) = {}
      BY <2>1 DEF Partition
    <2> QED
      BY <2>3, <2>4 DEF Conservation, places
  <1> QED
    BY <1>1, <1>2, <1>3, LinkInvariant, PTL DEF Spec

-----------------------------------------------------------------------------
(* A full queue of the largest packets, and one more, counts its bytes in  *)
(* a uint32_t; a limit in bytes sees to that by itself.                    *)
BytesFit ==
  MaxSize.unit = "PACKETS" =>
    \E m \in Nat : Sizes \subseteq 1 .. m /\ m * (MaxSize.value + 1) < UINT32

(* The stored sizes of the queues are right, so no Dequeue has failed. *)
LinkBytes ==
  /\ \A d \in Dev : m_queue[d].m_nBytes = Bytes(m_queue[d].m_packets)
  /\ halted # "queue"

(* The queue of a device counts right, and has room for one more count:    *)
(* for a limit in packets.                                                 *)
LEMMA PacketQueueBytes ==
  ASSUME BytesFit, LinkInv, LinkBytes, NEW d \in Dev, NEW p \in Packet,
         MaxSize.unit = "PACKETS"
  PROVE  LET q == m_queue[d]
         IN  /\ q \in QueueOf(Packet) /\ CountsRight(q)
             /\ Len(q.m_packets) + 1 < UINT32 /\ Bytes(q.m_packets) + p.size < UINT32
  <1> DEFINE q == m_queue[d]
             s == q.m_packets
  <1>1. PICK m \in Nat : Sizes \subseteq 1 .. m /\ m * (MaxSize.value + 1) < UINT32
    BY DEF BytesFit
  <1>2. /\ q \in QueueOf(Packet) /\ q.m_nPackets = Len(s) /\ s \in Seq(Packet)
        /\ Len(s) <= MaxSize.value /\ MaxSize.value < UINT32 - 1 /\ Len(s) \in Nat
        /\ q.m_nBytes = Bytes(s)
    BY DEF LinkInv, QueueSound, SoundQueue, LinkBytes, QueueOf
  <1>3. MaxSize.value \in Nat /\ UINT32 \in Nat
    BY LinkAssumption, UINT32Assumption DEF Uint32
  <1>4. \A i \in 1 .. Len(s) : s[i] \in Packet
    BY <1>2
  <1>5. \A x \in Packet : x.size \in 1 .. m /\ x.size \in Nat
    BY <1>1, PacketSizes
  <1>6. Sized(s)
    BY <1>2, <1>5, ListSized
  <1>7. Bytes(s) <= m * Len(s) /\ Bytes(s) \in Nat
    BY <1>4, <1>5, <1>6, BytesBounds, BytesNat
  <1>8. m * Len(s) <= m * MaxSize.value
    BY <1>2, <1>3, ProductMonotone
  <1> DEFINE v == MaxSize.value
             a == m * Len(s)
             b == m * v
             c == m * (v + 1)
             e == Bytes(s)
             z == p.size
  <1>9. a \in Nat /\ b \in Nat /\ c = b + m
    BY <1>2, <1>3
  <1>10. e <= a /\ a <= b /\ c < UINT32 /\ z \in 1 .. m /\ e \in Nat
    BY <1>1, <1>5, <1>7, <1>8
  <1> HIDE DEF a, b, c, e, z, v
  <1>11. e + z < UINT32
    BY <1>3, <1>9, <1>10
  <1> QED
    BY <1>2, <1>3, <1>11 DEF CountsRight, e, z

(* For any limit. *)
LEMMA QueueBytes ==
  ASSUME BytesFit, LinkInv, LinkBytes, NEW d \in Dev, NEW p \in Packet
  PROVE  LET q == m_queue[d]
         IN  /\ q \in QueueOf(Packet) /\ CountsRight(q)
             /\ Len(q.m_packets) + 1 < UINT32 /\ Bytes(q.m_packets) + p.size < UINT32
  <1>1. CASE MaxSize.unit = "PACKETS"
    BY <1>1, PacketQueueBytes
  <1>2. CASE MaxSize.unit # "PACKETS"
    <2>1. SoundQueue(m_queue[d], Packet) /\ m_queue[d].m_maxSize = MaxSize /\ LimitFits
      BY DEF LinkInv, QueueSound
    <2> QED
      BY <1>2, <2>1, PacketSizes, LimitRoomy, BytesRoom
  <1> QED
    BY <1>1, <1>2

(* What a device does to its queue keeps the count, and passes the         *)
(* assertions of the queue.                                                *)
LEMMA DeviceBytes ==
  ASSUME BytesFit, LinkInv, LinkBytes, NEW d \in Dev, NEW p \in Packet
  PROVE  LET q == Enqueue(m_queue[d], p)
         IN  /\ DequeueAsserts(m_queue[d]) /\ DequeueAsserts(q)
             /\ q.m_nBytes = Bytes(q.m_packets)
             /\ Dequeue(q).m_nBytes = Bytes(Dequeue(q).m_packets)
             /\ Dequeue(m_queue[d]).m_nBytes = Bytes(Dequeue(m_queue[d]).m_packets)
  <1> DEFINE old == m_queue[d]
             q == Enqueue(old, p)
  <1>1. /\ old \in QueueOf(Packet) /\ CountsRight(old)
        /\ Len(old.m_packets) + 1 < UINT32 /\ Bytes(old.m_packets) + p.size < UINT32
    BY QueueBytes
  <1>2. \A x \in Packet : x.size \in Nat
    BY PacketSizes
  <1>3. q \in QueueOf(Packet) /\ CountsRight(q)
    BY <1>1, <1>2, EnqueueCounts
  <1>4. DequeueAsserts(q) /\ CountsRight(Dequeue(q))
    BY <1>2, <1>3, DequeueCounts
  <1>5. DequeueAsserts(old) /\ CountsRight(Dequeue(old))
    BY <1>1, <1>2, DequeueCounts
  <1> QED
    BY <1>3, <1>4, <1>5 DEF CountsRight

(* Every step keeps the stored sizes right. *)
LEMMA NextBytes ==
  ASSUME BytesFit, LinkInv, LinkBytes, [Next]_vars
  PROVE  LinkBytes'
  <1>1. ASSUME NEW d \in Dev, NEW q, m_queue' = [m_queue EXCEPT ![d] = q],
               q.m_nBytes = Bytes(q.m_packets), halted' \in {halted, "channel"}
        PROVE  LinkBytes'
    BY <1>1 DEF LinkBytes, LinkInv, TypeOK
  <1>2. ASSUME UNCHANGED m_queue, halted' # "queue"
        PROVE  LinkBytes'
    BY <1>2 DEF LinkBytes
  <1>3. ASSUME NEW d, NEW p, NEW q, NEW others, TransmitStart(d, p, q, others)
        PROVE  m_queue' = [m_queue EXCEPT ![d] = q] /\ halted' \in {halted, "channel"}
    BY <1>3 DEF TransmitStart
  <1>4. ASSUME NEW d \in Dev, NEW s \in Sizes, Send(d, s)
        PROVE  LinkBytes'
    <2> DEFINE p == [uid |-> sent, src |-> d, size |-> s]
               q == Enqueue(m_queue[d], p)
    <2>1. p \in Packet
      BY DEF LinkInv, TypeOK, Packet
    <2>2. /\ DequeueAsserts(q) /\ q.m_nBytes = Bytes(q.m_packets)
          /\ Dequeue(q).m_nBytes = Bytes(Dequeue(q).m_packets)
      BY <2>1, DeviceBytes
    <2>3. \/ UNCHANGED <<m_queue, halted>>
          \/ m_queue' = [m_queue EXCEPT ![d] = q] /\ UNCHANGED halted
          \/ TransmitStart(d, FrontItem(q), Dequeue(q), completions[d])
      BY <1>4, <2>2 DEF Send, devVars
    <2> HIDE DEF p, q
    <2>4. CASE UNCHANGED <<m_queue, halted>>
      BY <1>2, <2>4 DEF LinkBytes
    <2>5. CASE m_queue' = [m_queue EXCEPT ![d] = q] /\ UNCHANGED halted
      BY <1>1, <2>2, <2>5
    <2>6. CASE TransmitStart(d, FrontItem(q), Dequeue(q), completions[d])
      BY <1>1, <1>3, <2>2, <2>6
    <2> QED
      BY <2>3, <2>4, <2>5, <2>6
  <1>5. ASSUME NEW d \in Dev, TransmitComplete(d)
        PROVE  LinkBytes'
    <2> DEFINE old == m_queue[d]
    <2>0. /\ m_txMachineState[d] = "BUSY" /\ m_currentPkt[d] # NoPkt
      BY <1>5 DEF TransmitComplete, LinkInv, TypeOK, TransmitterConsistent
    <2>1. CASE Sizes = {}
      <3>1. m_currentPkt[d] \in Packet
        BY <2>0 DEF LinkInv, TypeOK
      <3> QED
        BY <2>1, <3>1 DEF Packet
    <2>2. CASE Sizes # {}
      <3>1. PICK s \in Sizes : TRUE
        BY <2>2
      <3>2. [uid |-> 0, src |-> d, size |-> s] \in Packet
        BY DEF Packet
      <3>3. DequeueAsserts(old) /\ Dequeue(old).m_nBytes = Bytes(Dequeue(old).m_packets)
        BY <3>2, DeviceBytes
      <3>4. \/ UNCHANGED <<m_queue, halted>>
            \/ TransmitStart(d, FrontItem(old), Dequeue(old), completions[d] \ {now})
        BY <1>5, <2>0, <3>3 DEF TransmitComplete
      <3>5. CASE UNCHANGED <<m_queue, halted>>
        BY <1>2, <3>5 DEF LinkBytes
      <3>6. CASE TransmitStart(d, FrontItem(old), Dequeue(old), completions[d] \ {now})
        BY <1>1, <1>3, <3>3, <3>6
      <3> QED
        BY <3>4, <3>5, <3>6
    <2> QED
      BY <2>1, <2>2
  <1>6. ASSUME NEW m \in wire, Receive(m)
        PROVE  UNCHANGED m_queue /\ halted' # "queue"
    BY <1>6 DEF Receive, devVars, LinkBytes
  <1>7. ASSUME NEW d \in Dev, Attach(d) \/ TimeSlot(d)
        PROVE  UNCHANGED m_queue /\ halted' # "queue"
    BY <1>7 DEF Attach, TimeSlot, devVars, LinkBytes
  <1>8. Tick \/ UNCHANGED vars => UNCHANGED m_queue /\ halted' # "queue"
    BY DEF Tick, vars, devVars, LinkBytes
  <1> QED
    BY <1>2, <1>4, <1>5, <1>6, <1>7, <1>8 DEF Next

(* No assertion of the device, of the receiver or of the queue fails, and  *)
(* the channel's own only while one of its ends is missing, whatever the   *)
(* interleaving of sends, completions, arrivals and readings               *)
(* (NoAssertionFails).                                                     *)
THEOREM AssertionsHold ==
  ASSUME LimitFits, BytesFit
  PROVE  Spec => []NoAssertionFails
  <1>1. Init => LinkBytes
    <2> SUFFICES ASSUME Init PROVE LinkBytes
      OBVIOUS
    <2>1. \A d \in Dev : m_queue[d].m_nBytes = 0 /\ m_queue[d].m_packets = << >>
      BY DEF Init, NewQueue
    <2> QED
      BY <2>1, BytesEmpty DEF LinkBytes, Init
  <1>2. LinkInv /\ LinkBytes /\ [Next]_vars => LinkBytes'
    BY NextBytes
  <1>3. LinkInv /\ LinkBytes => NoAssertionFails
    BY DEF LinkInv, LinkBytes, TypeOK, DeviceAsserts, NoAssertionFails
  <1>4. Spec => []LinkInv
    BY LinkInvariant
  <1> QED
    BY <1>1, <1>2, <1>3, <1>4, PTL DEF Spec
=============================================================================
