----------------------------- MODULE FlowProofs ------------------------------
(***************************************************************************)
(* The counters of the flow monitor balance, its delays are end to end and *)
(* it forgets no packet, for any flows, paths, bounds on delay and check   *)
(* intervals, and whatever becomes of the copies of a packet.              *)
(***************************************************************************)
EXTENDS FlowMonitor, TLAPS, FiniteSetTheorems

TrackedPacket == [firstSeen : Nat, lastSeen : Nat, forwarded : Nat]

KeysOf(tracked, f) == {k \in DOMAIN tracked : k[1] = f}

(* The packets that are tracked. *)
TrackedOK(t) ==
  /\ IsFiniteSet(DOMAIN t) /\ DOMAIN t \subseteq Flow \X Nat
  /\ t \in [DOMAIN t -> TrackedPacket]
  /\ \A k \in DOMAIN t : t[k].firstSeen <= t[k].lastSeen /\ t[k].lastSeen <= now

(* What a flow's counters say of its n tracked packets and y strays. *)
Balanced(s, y, n) ==
  /\ s.tx + y = s.rx + s.lost + n
  /\ s.rx + n <= s.tx
  /\ s.dropped <= s.lost

(* The delays of a flow. *)
Timely(s) ==
  /\ s.firstTx <= s.lastTx /\ s.firstRx <= s.lastRx /\ s.lastTx <= now /\ s.lastRx <= now
  /\ s.rx = 0 => s.delaySum = 0 /\ s.jitterSum = 0 /\ s.lastDelay = 0
  /\ s.rx > 0 => /\ s.firstTx <= s.firstRx
                 /\ s.delaySum <= s.rx * (s.lastRx - s.firstTx)
  /\ s.rx = 1 => s.delaySum >= s.firstRx - s.lastTx
  /\ s.jitterSum + s.lastDelay <= 2 * s.delaySum /\ s.lastDelay <= s.delaySum

FlowOK(t, s, y, f) ==
  /\ Balanced(s, y, Cardinality(KeysOf(t, f)))
  /\ Timely(s)
  /\ \A k \in KeysOf(t, f) : s.firstTx <= t[k].firstSeen /\ t[k].firstSeen <= s.lastTx

(* The invariant of the monitor: of its state between two reports.         *)
MonitorOK(m) ==
  /\ m = [tracked |-> m.tracked, stats |-> m.stats, strays |-> m.strays]
  /\ TrackedOK(m.tracked)
  /\ m.stats \in [Flow -> FlowStats] /\ m.strays \in [Flow -> Nat]
  /\ \A f \in Flow : FlowOK(m.tracked, m.stats[f], m.strays[f], f)

(* A report of r after m: packets that stay tracked were seen when they    *)
(* were, or now.                                                           *)
Recent(m, r) ==
  \A k \in DOMAIN r.tracked :
    \/ r.tracked[k].lastSeen = now
    \/ k \in DOMAIN m.tracked /\ r.tracked[k].lastSeen = m.tracked[k].lastSeen

-----------------------------------------------------------------------------
(* A copy carries its packet's flow and id. *)
LEMMA KeyFacts ==
  ASSUME NEW c \in Copy
  PROVE  /\ c.flow \in Flow /\ c.id \in Nat /\ Key(c) \in Flow \X Nat
         /\ Key(c)[1] = c.flow /\ Key(c)[2] = c.id
  BY DEF Copy, Key

(* The packets of a flow are finitely many, and other flows have others.   *)
LEMMA KeysFinite ==
  ASSUME NEW t, IsFiniteSet(DOMAIN t), NEW f
  PROVE  IsFiniteSet(KeysOf(t, f)) /\ Cardinality(KeysOf(t, f)) \in Nat
  <1>1. KeysOf(t, f) \subseteq DOMAIN t
    BY DEF KeysOf
  <1>2. IsFiniteSet(KeysOf(t, f))
    BY <1>1, FS_Subset
  <1> QED
    BY <1>2, FS_CardinalityType

(* Erasing a packet. *)
LEMMA EraseEffect ==
  ASSUME NEW t, TrackedOK(t), NEW k \in Flow \X Nat
  PROVE  /\ TrackedOK(Erase(t, k))
         /\ DOMAIN Erase(t, k) = DOMAIN t \ {k}
         /\ \A j \in DOMAIN t \ {k} : Erase(t, k)[j] = t[j]
         /\ \A f : f # k[1] => KeysOf(Erase(t, k), f) = KeysOf(t, f)
         /\ KeysOf(Erase(t, k), k[1]) = KeysOf(t, k[1]) \ {k}
         /\ Cardinality(KeysOf(Erase(t, k), k[1]))
              = Cardinality(KeysOf(t, k[1])) - IF k \in DOMAIN t THEN 1 ELSE 0
         /\ k \in DOMAIN t => Cardinality(KeysOf(t, k[1])) > 0
  <1> DEFINE e == Erase(t, k)
             K == KeysOf(t, k[1])
  <1>1. e = [x \in DOMAIN t \ {k} |-> t[x]]
    BY DEF Erase, Restrict
  <1>2. DOMAIN e = DOMAIN t \ {k} /\ \A j \in DOMAIN t \ {k} : e[j] = t[j]
    BY <1>1
  <1> HIDE DEF e
  <1>3. IsFiniteSet(DOMAIN e)
    BY <1>2, FS_Subset DEF TrackedOK
  <1>4. e \in [DOMAIN e -> TrackedPacket]
    BY <1>1, <1>2 DEF TrackedOK
  <1>5. TrackedOK(e)
    BY <1>2, <1>3, <1>4 DEF TrackedOK
  <1>6. /\ \A f : f # k[1] => KeysOf(e, f) = KeysOf(t, f)
        /\ KeysOf(e, k[1]) = K \ {k}
    BY <1>2 DEF KeysOf
  <1>7. IsFiniteSet(K) /\ Cardinality(K) \in Nat
    BY KeysFinite DEF TrackedOK
  <1>8. k \in DOMAIN t <=> k \in K
    BY DEF KeysOf
  <1>9. /\ Cardinality(K \ {k}) = Cardinality(K) - IF k \in DOMAIN t THEN 1 ELSE 0
        /\ k \in DOMAIN t => Cardinality(K) > 0
    <2> HIDE DEF K
    <2>1. CASE k \in DOMAIN t
      <3>1. Cardinality(K \ {k}) = Cardinality(K) - 1 /\ IsFiniteSet(K \ {k})
        BY <1>7, <1>8, <2>1, FS_RemoveElement
      <3>2. Cardinality(K \ {k}) \in Nat
        BY <3>1, FS_CardinalityType
      <3> QED
        BY <1>7, <2>1, <3>1, <3>2
    <2>2. CASE k \notin DOMAIN t
      <3>1. K \ {k} = K
        BY <1>8, <2>2
      <3> QED
        BY <1>7, <2>2, <3>1
    <2> QED
      BY <2>1, <2>2
  <1> QED
    BY <1>2, <1>5, <1>6, <1>9 DEF e

(* Tracking a packet that was not tracked. *)
LEMMA TrackEffect ==
  ASSUME NEW t, TrackedOK(t), NEW k \in Flow \X Nat, k \notin DOMAIN t,
         NEW r \in TrackedPacket, r.firstSeen <= r.lastSeen, r.lastSeen <= now
  PROVE  /\ TrackedOK(Track(t, k, r))
         /\ DOMAIN Track(t, k, r) = DOMAIN t \cup {k}
         /\ Track(t, k, r)[k] = r
         /\ \A j \in DOMAIN t : Track(t, k, r)[j] = t[j]
         /\ \A f : f # k[1] => KeysOf(Track(t, k, r), f) = KeysOf(t, f)
         /\ KeysOf(Track(t, k, r), k[1]) = KeysOf(t, k[1]) \cup {k}
         /\ Cardinality(KeysOf(Track(t, k, r), k[1])) = Cardinality(KeysOf(t, k[1])) + 1
  <1> DEFINE e == Track(t, k, r)
             K == KeysOf(t, k[1])
  <1>1. e = [x \in DOMAIN t \cup {k} |-> IF x = k THEN r ELSE t[x]]
    BY DEF Track
  <1>2. DOMAIN e = DOMAIN t \cup {k} /\ e[k] = r /\ \A j \in DOMAIN t : e[j] = t[j]
    BY <1>1
  <1> HIDE DEF e
  <1>3. IsFiniteSet(DOMAIN e)
    BY <1>2, FS_AddElement DEF TrackedOK
  <1>4. e \in [DOMAIN e -> TrackedPacket]
    BY <1>1, <1>2 DEF TrackedOK
  <1>5. TrackedOK(e)
    BY <1>2, <1>3, <1>4 DEF TrackedOK
  <1>6. /\ \A f : f # k[1] => KeysOf(e, f) = KeysOf(t, f)
        /\ KeysOf(e, k[1]) = K \cup {k}
    BY <1>2 DEF KeysOf
  <1>7. IsFiniteSet(K) /\ k \notin K
    BY KeysFinite DEF TrackedOK, KeysOf
  <1>8. Cardinality(K \cup {k}) = Cardinality(K) + 1
    <2> HIDE DEF K
    <2> QED
      BY <1>7, FS_AddElement
  <1> QED
    BY <1>2, <1>5, <1>6, <1>8 DEF e

(* A flow of which nothing changed. *)
LEMMA OtherFlow ==
  ASSUME NEW t, NEW e, NEW f, NEW s, NEW y, FlowOK(t, s, y, f),
         KeysOf(e, f) = KeysOf(t, f), \A k \in KeysOf(t, f) : e[k] = t[k]
  PROVE  FlowOK(e, s, y, f)
  BY DEF FlowOK

(* The monitor is all right again when one flow is. *)
LEMMA OneFlow ==
  ASSUME NEW m, MonitorOK(m), NEW f \in Flow, NEW e, TrackedOK(e),
         NEW s \in FlowStats, NEW y \in Nat, FlowOK(e, s, y, f),
         \A g \in Flow : g # f => /\ KeysOf(e, g) = KeysOf(m.tracked, g)
                                  /\ \A k \in KeysOf(m.tracked, g) : e[k] = m.tracked[k]
  PROVE  MonitorOK([tracked |-> e, stats |-> [m.stats EXCEPT ![f] = s],
                    strays |-> [m.strays EXCEPT ![f] = y]])
  <1> DEFINE r == [tracked |-> e, stats |-> [m.stats EXCEPT ![f] = s],
                   strays |-> [m.strays EXCEPT ![f] = y]]
  <1>1. m.stats \in [Flow -> FlowStats] /\ m.strays \in [Flow -> Nat]
    BY DEF MonitorOK
  <1>2. r.stats \in [Flow -> FlowStats] /\ r.strays \in [Flow -> Nat]
    BY <1>1
  <1>3. ASSUME NEW g \in Flow
        PROVE  FlowOK(r.tracked, r.stats[g], r.strays[g], g)
    <2>1. CASE g = f
      BY <1>1, <2>1
    <2>2. CASE g # f
      <3>1. FlowOK(m.tracked, m.stats[g], m.strays[g], g)
        BY DEF MonitorOK
      <3>2. FlowOK(e, m.stats[g], m.strays[g], g)
        BY <2>2, <3>1, OtherFlow
      <3> QED
        BY <1>1, <2>2, <3>2
    <2> QED
      BY <2>1, <2>2
  <1> QED
    BY <1>2, <1>3 DEF MonitorOK

-----------------------------------------------------------------------------
(* The reports.  Each is what it says, and keeps the monitor's invariant.  *)

(* Counting one more packet as sent. *)
LEMMA TxCounted ==
  ASSUME NEW s \in FlowStats, NEW q \in FlowStats, NEW y \in Nat, NEW n \in Nat, now \in Nat,
         Balanced(s, y, n), Timely(s),
         q.tx = s.tx + 1, q.firstTx = IF s.tx = 0 THEN now ELSE s.firstTx, q.lastTx = now,
         q.rx = s.rx, q.lost = s.lost, q.dropped = s.dropped, q.firstRx = s.firstRx,
         q.lastRx = s.lastRx, q.delaySum = s.delaySum, q.jitterSum = s.jitterSum,
         q.lastDelay = s.lastDelay
  PROVE  Balanced(q, y, n + 1) /\ Timely(q) /\ (s.tx = 0 => n = 0)
  <1> USE DEF FlowStats
  <1>1. Balanced(q, y, n + 1) /\ (s.tx = 0 => n = 0 /\ s.rx = 0)
    BY DEF Balanced
  <1>2. Timely(q)
    <2>1. CASE s.tx = 0
      BY <1>1, <2>1 DEF Timely
    <2>2. CASE s.tx # 0
      <3>1. q.firstTx = s.firstTx
        BY <2>2
      <3>2. /\ q.firstTx <= q.lastTx /\ q.firstRx <= q.lastRx /\ q.lastTx <= now /\ q.lastRx <= now
            /\ q.rx = 0 => q.delaySum = 0 /\ q.jitterSum = 0 /\ q.lastDelay = 0
            /\ q.jitterSum + q.lastDelay <= 2 * q.delaySum /\ q.lastDelay <= q.delaySum
            /\ q.rx = 1 => q.delaySum >= q.firstRx - q.lastTx
        BY <3>1 DEF Timely
      <3>3. q.rx > 0 => q.firstTx <= q.firstRx /\ q.delaySum <= q.rx * (q.lastRx - q.firstTx)
        BY <3>1 DEF Timely
      <3> QED
        BY <3>2, <3>3 DEF Timely
    <2> QED
      BY <2>1, <2>2
  <1> QED
    BY <1>1, <1>2

(* A packet is tracked from its first transmission, and counted once.      *)
LEMMA ReportFirstTxOK ==
  ASSUME NEW m, MonitorOK(m), NEW c \in Copy, Key(c) \notin DOMAIN m.tracked, now \in Nat,
         m_enabled
  PROVE  LET r == ReportFirstTx(m, c)
         IN  /\ MonitorOK(r)
             /\ DOMAIN r.tracked = DOMAIN m.tracked \cup {Key(c)}
             /\ Recent(m, r)
  <1> DEFINE s == m.stats[c.flow]
             f == c.flow
             t == m.tracked
             p == [firstSeen |-> now, lastSeen |-> now, forwarded |-> 0]
             e == Track(t, Key(c), p)
             x == IF s.tx = 0 THEN now ELSE s.firstTx
             a == s.tx + 1
             q == [s EXCEPT !.tx = a, !.firstTx = x, !.lastTx = now]
             r == [tracked |-> e, stats |-> [m.stats EXCEPT ![f] = q], strays |-> m.strays]
  <1>1. /\ f \in Flow /\ Key(c) \in Flow \X Nat /\ Key(c)[1] = f
        /\ m = [tracked |-> t, stats |-> m.stats, strays |-> m.strays]
        /\ TrackedOK(t) /\ m.stats \in [Flow -> FlowStats] /\ m.strays \in [Flow -> Nat]
        /\ FlowOK(t, s, m.strays[f], f)
    BY KeyFacts DEF MonitorOK
  <1>2. ReportFirstTx(m, c) = r
    BY <1>1 DEF ReportFirstTx
  <1>3. p \in TrackedPacket /\ p.firstSeen = now /\ p.lastSeen = now
    BY DEF TrackedPacket
  <1>4. s \in FlowStats /\ s.tx \in Nat /\ s.firstTx \in Nat /\ m.strays[f] \in Nat
    BY <1>1 DEF FlowStats
  <1> HIDE DEF p
  <1>5. /\ TrackedOK(e) /\ DOMAIN e = DOMAIN t \cup {Key(c)} /\ e[Key(c)] = p
        /\ \A j \in DOMAIN t : e[j] = t[j]
        /\ \A g : g # f => KeysOf(e, g) = KeysOf(t, g)
        /\ KeysOf(e, f) = KeysOf(t, f) \cup {Key(c)}
        /\ Cardinality(KeysOf(e, f)) = Cardinality(KeysOf(t, f)) + 1
    <2>1. p.firstSeen <= p.lastSeen /\ p.lastSeen <= now
      BY <1>3
    <2>2. Key(c) \notin DOMAIN t /\ TrackedOK(t)
      BY <1>1
    <2> HIDE DEF t
    <2> QED
      BY <1>1, <1>3, <2>1, <2>2, TrackEffect
  <1> HIDE DEF e
  <1>x. x \in Nat /\ a \in Nat
    BY <1>4
  <1> HIDE DEF x, a
  <1>6. q \in FlowStats
    BY <1>4, <1>x DEF FlowStats
  <1>7. /\ q.tx = a /\ q.firstTx = x /\ q.lastTx = now
        /\ q.rx = s.rx /\ q.lost = s.lost /\ q.dropped = s.dropped /\ q.firstRx = s.firstRx
        /\ q.lastRx = s.lastRx /\ q.delaySum = s.delaySum /\ q.jitterSum = s.jitterSum
        /\ q.lastDelay = s.lastDelay
    BY <1>4 DEF FlowStats
  <1> HIDE DEF q
  <1>8. FlowOK(e, q, m.strays[f], f)
    <2> DEFINE n == Cardinality(KeysOf(t, f))
    <2>1. n \in Nat /\ IsFiniteSet(KeysOf(t, f))
      BY <1>1, KeysFinite DEF TrackedOK
    <2>2. Balanced(s, m.strays[f], n) /\ Timely(s)
      BY <1>1 DEF FlowOK
    <2>3. Balanced(q, m.strays[f], n + 1) /\ Timely(q) /\ (s.tx = 0 => n = 0)
      <3> HIDE DEF n
      <3> QED
        BY <1>4, <1>6, <1>7, <2>1, <2>2, TxCounted DEF x, a
    <2>4. ASSUME NEW k \in KeysOf(t, f)
          PROVE  q.firstTx <= e[k].firstSeen /\ e[k].firstSeen <= q.lastTx
      <3>1. s.tx # 0
        BY <2>1, <2>3, FS_EmptySet
      <3>2. /\ s.firstTx <= t[k].firstSeen /\ t[k].firstSeen <= s.lastTx
            /\ k \in DOMAIN t /\ e[k] = t[k] /\ t[k].firstSeen \in Nat
        BY <1>1, <1>5 DEF FlowOK, KeysOf, TrackedOK, TrackedPacket
      <3>3. s.lastTx <= now /\ s.lastTx \in Nat
        BY <1>4, <2>2 DEF Timely, FlowStats
      <3> QED
        BY <1>4, <1>7, <3>1, <3>2, <3>3 DEF x
    <2>5. q.firstTx <= p.firstSeen /\ p.firstSeen <= q.lastTx
      BY <1>3, <1>4, <1>6, <1>7, <2>3 DEF Timely
    <2>6. \A k \in KeysOf(e, f) : q.firstTx <= e[k].firstSeen /\ e[k].firstSeen <= q.lastTx
      BY <1>5, <2>4, <2>5
    <2> QED
      BY <1>5, <2>3, <2>6 DEF FlowOK
  <1>9. MonitorOK(r)
    <2>1. \A g \in Flow : g # f => \A k \in KeysOf(t, g) : e[k] = t[k]
      BY <1>5 DEF KeysOf
    <2>2. m.strays = [m.strays EXCEPT ![f] = m.strays[f]]
      BY <1>1
    <2> QED
      BY <1>1, <1>4, <1>5, <1>6, <1>8, <2>1, <2>2, OneFlow
  <1>10. Recent(m, r)
    BY <1>3, <1>5 DEF Recent
  <1> QED
    BY <1>2, <1>5, <1>9, <1>10

(* A tracked packet is seen again. *)
LEMMA ReportForwardingOK ==
  ASSUME NEW m, MonitorOK(m), NEW c \in Copy, now \in Nat
  PROVE  LET r == ReportForwarding(m, c)
         IN  /\ MonitorOK(r)
             /\ DOMAIN r.tracked = DOMAIN m.tracked
             /\ Recent(m, r)
  <1> DEFINE k == Key(c)
             t == m.tracked
             a == t[k].forwarded + 1
             p == [t[k] EXCEPT !.forwarded = a, !.lastSeen = now]
             e == [t EXCEPT ![k] = p]
             r == [tracked |-> e, stats |-> m.stats, strays |-> m.strays]
  <1>1. /\ m = [tracked |-> t, stats |-> m.stats, strays |-> m.strays]
        /\ TrackedOK(t) /\ m.stats \in [Flow -> FlowStats] /\ m.strays \in [Flow -> Nat]
        /\ \A f \in Flow : FlowOK(t, m.stats[f], m.strays[f], f)
    BY DEF MonitorOK
  <1>2. CASE ~m_enabled \/ Key(c) \notin DOMAIN m.tracked
    BY <1>2 DEF ReportForwarding, Recent
  <1>3. CASE m_enabled /\ Key(c) \in DOMAIN m.tracked
    <2>1. ReportForwarding(m, c) = r
      BY <1>1, <1>3 DEF ReportForwarding
    <2>2. t[k] \in TrackedPacket /\ t \in [DOMAIN t -> TrackedPacket]
      BY <1>1, <1>3 DEF TrackedOK
    <2>3. /\ p \in TrackedPacket /\ p.firstSeen = t[k].firstSeen /\ p.lastSeen = now
          /\ p.firstSeen \in Nat /\ p.firstSeen <= now
      <3>1. t[k].firstSeen <= t[k].lastSeen /\ t[k].lastSeen <= now /\ a \in Nat
        BY <1>1, <1>3, <2>2 DEF TrackedOK, TrackedPacket
      <3>2. t[k].firstSeen \in Nat /\ t[k].lastSeen \in Nat
        BY <2>2 DEF TrackedPacket
      <3>3. t[k].firstSeen <= now
        BY <3>1, <3>2
      <3> HIDE DEF a, t, k
      <3>4. p \in TrackedPacket /\ p.firstSeen = t[k].firstSeen /\ p.lastSeen = now
        BY <2>2, <3>1 DEF TrackedPacket
      <3> QED
        BY <3>2, <3>3, <3>4
    <2> HIDE DEF p
    <2>4. /\ DOMAIN e = DOMAIN t /\ e[k] = p /\ e \in [DOMAIN t -> TrackedPacket]
          /\ \A j \in DOMAIN t : j # k => e[j] = t[j]
      BY <1>3, <2>2, <2>3
    <2> HIDE DEF e
    <2>5. TrackedOK(e)
      BY <1>1, <2>3, <2>4 DEF TrackedOK
    <2>6. \A j \in DOMAIN t : e[j].firstSeen = t[j].firstSeen
      BY <2>3, <2>4
    <2>7. \A f \in Flow : KeysOf(e, f) = KeysOf(t, f)
      BY <2>4 DEF KeysOf
    <2>8. ASSUME NEW f \in Flow
          PROVE  FlowOK(e, m.stats[f], m.strays[f], f)
      <3>1. \A j \in KeysOf(t, f) : j \in DOMAIN t
        BY DEF KeysOf
      <3> QED
        BY <1>1, <2>6, <2>7, <3>1 DEF FlowOK
    <2>9. MonitorOK(r)
      BY <1>1, <2>5, <2>8 DEF MonitorOK
    <2>10. Recent(m, r)
      BY <2>3, <2>4 DEF Recent
    <2> QED
      BY <2>1, <2>4, <2>9, <2>10
  <1> QED
    BY <1>2, <1>3

(* A drop: one packet fewer is tracked, or one stray more was dropped.     *)
LEMMA ReportDropOK ==
  ASSUME NEW m, MonitorOK(m), NEW c \in Copy, now \in Nat
  PROVE  LET r == ReportDrop(m, c)
         IN  /\ MonitorOK(r)
             /\ DOMAIN r.tracked \subseteq DOMAIN m.tracked
             /\ Recent(m, r)
  <1> DEFINE k == Key(c)
             f == c.flow
             t == m.tracked
             s == m.stats[f]
             e == Erase(t, k)
             a == s.lost + 1
             b == s.dropped + 1
             q == [s EXCEPT !.lost = a, !.dropped = b]
             y == IF k \in DOMAIN t THEN m.strays[f] ELSE m.strays[f] + 1
             r == [tracked |-> e, stats |-> [m.stats EXCEPT ![f] = q],
                   strays |-> [m.strays EXCEPT ![f] = y]]
  <1>1. /\ f \in Flow /\ k \in Flow \X Nat /\ k[1] = f
        /\ m = [tracked |-> t, stats |-> m.stats, strays |-> m.strays]
        /\ TrackedOK(t) /\ m.stats \in [Flow -> FlowStats] /\ m.strays \in [Flow -> Nat]
        /\ FlowOK(t, s, m.strays[f], f)
    BY KeyFacts DEF MonitorOK
  <1>2. CASE ~m_enabled
    BY <1>2 DEF ReportDrop, Recent
  <1>3. CASE m_enabled
    <2>1. ReportDrop(m, c) = r
      BY <1>1, <1>3 DEF ReportDrop
    <2>2. /\ TrackedOK(e) /\ DOMAIN e = DOMAIN t \ {k}
          /\ \A j \in DOMAIN t \ {k} : e[j] = t[j]
          /\ \A g : g # f => KeysOf(e, g) = KeysOf(t, g)
          /\ KeysOf(e, f) = KeysOf(t, f) \ {k}
          /\ Cardinality(KeysOf(e, f))
               = Cardinality(KeysOf(t, f)) - IF k \in DOMAIN t THEN 1 ELSE 0
          /\ k \in DOMAIN t => Cardinality(KeysOf(t, f)) > 0
      <3> HIDE DEF t, k
      <3>1. /\ TrackedOK(e) /\ DOMAIN e = DOMAIN t \ {k}
            /\ \A j \in DOMAIN t \ {k} : e[j] = t[j]
            /\ \A g : g # k[1] => KeysOf(e, g) = KeysOf(t, g)
            /\ KeysOf(e, k[1]) = KeysOf(t, k[1]) \ {k}
            /\ Cardinality(KeysOf(e, k[1]))
                 = Cardinality(KeysOf(t, k[1])) - IF k \in DOMAIN t THEN 1 ELSE 0
            /\ k \in DOMAIN t => Cardinality(KeysOf(t, k[1])) > 0
        BY <1>1, EraseEffect, Zenon
      <3> QED
        BY <1>1, <3>1
    <2> HIDE DEF e
    <2>3. s \in FlowStats /\ m.strays[f] \in Nat /\ y \in Nat /\ a \in Nat /\ b \in Nat
      BY <1>1 DEF FlowStats
    <2> HIDE DEF a, b
    <2>4. /\ q \in FlowStats
          /\ q.lost = a /\ q.dropped = b /\ q.tx = s.tx /\ q.rx = s.rx
          /\ q.firstTx = s.firstTx /\ q.lastTx = s.lastTx /\ q.firstRx = s.firstRx
          /\ q.lastRx = s.lastRx /\ q.delaySum = s.delaySum /\ q.jitterSum = s.jitterSum
          /\ q.lastDelay = s.lastDelay
      BY <2>3 DEF FlowStats
    <2> HIDE DEF q
    <2>5. FlowOK(e, q, y, f)
      <3> DEFINE n == Cardinality(KeysOf(t, f))
                 d == IF k \in DOMAIN t THEN 1 ELSE 0
      <3>1. n \in Nat
        BY <1>1, KeysFinite DEF TrackedOK
      <3>2. Balanced(s, m.strays[f], n) /\ Timely(s)
        BY <1>1 DEF FlowOK
      <3>3. Balanced(q, y, n - d)
        <4> HIDE DEF n, t, k
        <4>1. CASE k \in DOMAIN t
          BY <2>3, <2>4, <3>1, <3>2, <4>1 DEF Balanced, FlowStats, a, b
        <4>2. CASE k \notin DOMAIN t
          BY <2>3, <2>4, <3>1, <3>2, <4>2 DEF Balanced, FlowStats, a, b
        <4> QED
          BY <4>1, <4>2
      <3>4. Timely(q)
        BY <2>4, <3>2 DEF Timely
      <3>5. \A j \in KeysOf(e, f) : q.firstTx <= e[j].firstSeen /\ e[j].firstSeen <= q.lastTx
        <4>1. \A j \in KeysOf(e, f) : j \in KeysOf(t, f) /\ e[j] = t[j]
          BY <2>2 DEF KeysOf
        <4> QED
          BY <1>1, <2>4, <4>1 DEF FlowOK
      <3> QED
        BY <2>2, <3>3, <3>4, <3>5 DEF FlowOK
    <2>6. MonitorOK(r)
      <3>1. \A g \in Flow : g # f => \A j \in KeysOf(t, g) : e[j] = t[j]
        BY <1>1, <2>2 DEF KeysOf
      <3> HIDE DEF y
      <3> QED
        BY <1>1, <2>2, <2>3, <2>4, <2>5, <3>1, OneFlow
    <2>7. Recent(m, r)
      BY <2>2 DEF Recent
    <2> QED
      BY <2>1, <2>2, <2>6, <2>7
  <1> QED
    BY <1>2, <1>3

(* The sum of the delays stays within the flow's life. *)
LEMMA DelayAdds ==
  ASSUME NEW sum \in Nat, NEW n \in Nat, NEW first \in Nat, NEW last \in Nat,
         NEW d \in Nat, NEW t \in Nat,
         n = 0 => sum = 0, n > 0 => sum <= n * (last - first) /\ first <= last, last <= t,
         first + d <= t
  PROVE  sum + d <= (n + 1) * (t - first)
  <1>1. CASE n = 0
    BY <1>1
  <1>2. CASE n > 0
    <2> DEFINE u == last - first
               v == t - first
    <2>1. u \in Nat /\ v \in Nat /\ u <= v /\ d <= v
      BY <1>2
    <2>2. sum <= n * u
      BY <1>2
    <2> HIDE DEF u, v
    <2>3. n * u <= n * v
      BY <2>1
    <2>4. n * u \in Nat /\ n * v \in Nat
      BY <2>1
    <2>5. (n + 1) * v = n * v + v
      BY <2>1
    <2>6. sum + d <= n * v + v
      BY <2>1, <2>2, <2>3, <2>4
    <2> QED
      BY <2>5, <2>6 DEF v
  <1> QED
    BY <1>1, <1>2

(* Counting one more packet as received, with its delay d. *)
LEMMA RxCounted ==
  ASSUME NEW s \in FlowStats, NEW q \in FlowStats, NEW y \in Nat, NEW n \in Nat, n > 0,
         now \in Nat, NEW d \in Nat, NEW w \in Nat,
         Balanced(s, y, n), Timely(s),
         s.firstTx <= w, w <= s.lastTx, d = now - w,
         q.tx = s.tx, q.firstTx = s.firstTx, q.lastTx = s.lastTx,
         q.rx = s.rx + 1, q.lost = s.lost, q.dropped = s.dropped,
         q.firstRx = IF s.rx = 0 THEN now ELSE s.firstRx, q.lastRx = now,
         q.delaySum = s.delaySum + d,
         q.jitterSum = IF s.rx > 0 THEN s.jitterSum + Abs(s.lastDelay - d) ELSE s.jitterSum,
         q.lastDelay = d
  PROVE  Balanced(q, y, n - 1) /\ Timely(q)
  <1> USE DEF FlowStats
  <1>1. Balanced(q, y, n - 1)
    BY DEF Balanced
  <1>2. /\ q.firstTx <= q.lastTx /\ q.firstRx <= q.lastRx /\ q.lastTx <= now /\ q.lastRx <= now
        /\ q.rx > 0 /\ q.firstTx <= q.firstRx
    BY DEF Timely
  <1>3. q.delaySum <= q.rx * (q.lastRx - q.firstTx)
    <2>1. /\ s.rx = 0 => s.delaySum = 0
          /\ s.rx > 0 => s.delaySum <= s.rx * (s.lastRx - s.firstTx) /\ s.firstTx <= s.lastRx
          /\ s.lastRx <= now /\ s.firstTx + d <= now
      BY DEF Timely
    <2>2. s.delaySum + d <= (s.rx + 1) * (now - s.firstTx)
      BY <2>1, DelayAdds
    <2> QED
      BY <2>2
  <1>4. q.rx = 1 => q.delaySum >= q.firstRx - q.lastTx
    BY DEF Timely
  <1>5. q.jitterSum + q.lastDelay <= 2 * q.delaySum /\ q.lastDelay <= q.delaySum
    <2>1. CASE s.rx = 0
      BY <2>1 DEF Timely
    <2>2. CASE s.rx > 0
      <3>1. Abs(s.lastDelay - d) <= s.lastDelay + d - d \/ Abs(s.lastDelay - d) <= d
        BY DEF Abs
      <3>2. Abs(s.lastDelay - d) \in Nat
        BY DEF Abs
      <3>3. Abs(s.lastDelay - d) + d <= s.lastDelay + 2 * d
        BY DEF Abs
      <3> QED
        BY <2>2, <3>2, <3>3 DEF Timely
    <2> QED
      BY <2>1, <2>2
  <1> QED
    BY <1>1, <1>2, <1>3, <1>4, <1>5 DEF Timely

(* A reception: one packet fewer is tracked, one more received. *)
LEMMA ReportLastRxOK ==
  ASSUME NEW m, MonitorOK(m), NEW c \in Copy, now \in Nat
  PROVE  LET r == ReportLastRx(m, c)
         IN  /\ MonitorOK(r)
             /\ DOMAIN r.tracked \subseteq DOMAIN m.tracked
             /\ Recent(m, r)
  <1> DEFINE k == Key(c)
             f == c.flow
             t == m.tracked
             s == m.stats[f]
             e == Erase(t, k)
             d == Delay(t[k])
             j == IF s.rx > 0 THEN s.jitterSum + Abs(s.lastDelay - d) ELSE s.jitterSum
             x == IF s.rx = 0 THEN now ELSE s.firstRx
             D == s.delaySum + d
             a == s.rx + 1
             g == s.timesForwarded + t[k].forwarded
             q == [s EXCEPT !.delaySum = D, !.jitterSum = j, !.lastDelay = d, !.rx = a,
                            !.firstRx = x, !.lastRx = now, !.timesForwarded = g]
             r == [tracked |-> e, stats |-> [m.stats EXCEPT ![f] = q], strays |-> m.strays]
  <1>1. /\ f \in Flow /\ k \in Flow \X Nat /\ k[1] = f
        /\ m = [tracked |-> t, stats |-> m.stats, strays |-> m.strays]
        /\ TrackedOK(t) /\ m.stats \in [Flow -> FlowStats] /\ m.strays \in [Flow -> Nat]
        /\ FlowOK(t, s, m.strays[f], f)
    BY KeyFacts DEF MonitorOK
  <1>2. CASE ~m_enabled \/ Key(c) \notin DOMAIN m.tracked
    BY <1>2 DEF ReportLastRx, Recent
  <1>3. CASE m_enabled /\ Key(c) \in DOMAIN m.tracked
    <2>1. ReportLastRx(m, c) = r
      BY <1>1, <1>3 DEF ReportLastRx
    <2>2. /\ TrackedOK(e) /\ DOMAIN e = DOMAIN t \ {k}
          /\ \A i \in DOMAIN t \ {k} : e[i] = t[i]
          /\ \A h : h # f => KeysOf(e, h) = KeysOf(t, h)
          /\ KeysOf(e, f) = KeysOf(t, f) \ {k}
          /\ Cardinality(KeysOf(e, f)) = Cardinality(KeysOf(t, f)) - 1
          /\ Cardinality(KeysOf(t, f)) > 0
      <3>0. k \in DOMAIN t
        BY <1>3
      <3> HIDE DEF t, k
      <3>1. /\ TrackedOK(e) /\ DOMAIN e = DOMAIN t \ {k}
            /\ \A i \in DOMAIN t \ {k} : e[i] = t[i]
            /\ \A h : h # k[1] => KeysOf(e, h) = KeysOf(t, h)
            /\ KeysOf(e, k[1]) = KeysOf(t, k[1]) \ {k}
            /\ Cardinality(KeysOf(e, k[1]))
                 = Cardinality(KeysOf(t, k[1])) - IF k \in DOMAIN t THEN 1 ELSE 0
            /\ k \in DOMAIN t => Cardinality(KeysOf(t, k[1])) > 0
        BY <1>1, EraseEffect, Zenon
      <3> QED
        BY <1>1, <3>0, <3>1
    <2> HIDE DEF e
    <2>3. s \in FlowStats /\ m.strays[f] \in Nat
      BY <1>1
    <2>4. /\ t[k].firstSeen \in Nat /\ t[k].forwarded \in Nat
          /\ s.firstTx <= t[k].firstSeen /\ t[k].firstSeen <= s.lastTx
      <3>1. t[k] \in TrackedPacket /\ k \in KeysOf(t, f)
        BY <1>1, <1>3 DEF TrackedOK, KeysOf
      <3> QED
        BY <1>1, <3>1 DEF FlowOK, TrackedPacket
    <2>5. Timely(s)
      BY <1>1 DEF FlowOK
    <2>6. d \in Nat /\ d = now - t[k].firstSeen
      <3>1. s.lastTx \in Nat /\ s.lastTx <= now
        BY <2>3, <2>5 DEF Timely, FlowStats
      <3>2. d = now - t[k].firstSeen
        BY DEF Delay
      <3> QED
        BY <2>4, <3>1, <3>2
    <2> HIDE DEF d
    <2>7. j \in Nat /\ x \in Nat /\ D \in Nat /\ a \in Nat /\ g \in Nat
      BY <2>3, <2>4, <2>6 DEF FlowStats, Abs
    <2> HIDE DEF j, x, D, a, g
    <2>8. /\ q \in FlowStats
          /\ q.tx = s.tx /\ q.firstTx = s.firstTx /\ q.lastTx = s.lastTx
          /\ q.rx = a /\ q.lost = s.lost /\ q.dropped = s.dropped
          /\ q.firstRx = x /\ q.lastRx = now
          /\ q.delaySum = D /\ q.jitterSum = j /\ q.lastDelay = d
      BY <2>3, <2>6, <2>7 DEF FlowStats
    <2> HIDE DEF q
    <2>9. FlowOK(e, q, m.strays[f], f)
      <3> DEFINE n == Cardinality(KeysOf(t, f))
      <3>1. n \in Nat
        BY <1>1, KeysFinite DEF TrackedOK
      <3>2. Balanced(s, m.strays[f], n)
        BY <1>1 DEF FlowOK
      <3>3. Balanced(q, m.strays[f], n - 1) /\ Timely(q)
        <4>1. n > 0
          BY <2>2
        <4> HIDE DEF n
        <4>2. /\ q.rx = s.rx + 1 /\ q.firstRx = IF s.rx = 0 THEN now ELSE s.firstRx
              /\ q.delaySum = s.delaySum + d
              /\ q.jitterSum = IF s.rx > 0 THEN s.jitterSum + Abs(s.lastDelay - d) ELSE s.jitterSum
          BY <2>8 DEF j, x, D, a
        <4> QED
          BY <2>3, <2>4, <2>5, <2>6, <2>8, <3>1, <3>2, <4>1, <4>2, RxCounted
      <3>4. \A i \in KeysOf(e, f) : q.firstTx <= e[i].firstSeen /\ e[i].firstSeen <= q.lastTx
        <4>1. \A i \in KeysOf(e, f) : i \in KeysOf(t, f) /\ e[i] = t[i]
          BY <2>2 DEF KeysOf
        <4> QED
          BY <1>1, <2>8, <4>1 DEF FlowOK
      <3> QED
        BY <2>2, <3>3, <3>4 DEF FlowOK
    <2>10. MonitorOK(r)
      <3>1. \A h \in Flow : h # f => \A i \in KeysOf(t, h) : e[i] = t[i]
        BY <1>1, <2>2 DEF KeysOf
      <3>2. m.strays = [m.strays EXCEPT ![f] = m.strays[f]]
        BY <1>1
      <3> QED
        BY <1>1, <2>2, <2>3, <2>8, <2>9, <3>1, <3>2, OneFlow
    <2>11. Recent(m, r)
      BY <2>2 DEF Recent
    <2> QED
      BY <2>1, <2>2, <2>10, <2>11
  <1> QED
    BY <1>2, <1>3

(* The check counts every packet it gives up as lost, and those it leaves  *)
(* were seen within MaxPerHopDelay.                                        *)
LEMMA CheckForLostPacketsOK ==
  ASSUME NEW m, MonitorOK(m), now \in Nat
  PROVE  LET r == CheckForLostPackets(m)
         IN  /\ MonitorOK(r)
             /\ DOMAIN r.tracked \subseteq DOMAIN m.tracked
             /\ Recent(m, r)
             /\ \A k \in DOMAIN r.tracked : ~(now - r.tracked[k].lastSeen >= MaxPerHopDelay)
  <1> DEFINE t == m.tracked
             e == Restrict(t, DOMAIN t \ Old(m))
             G(f) == {k \in Old(m) : k[1] = f}
             L(f) == m.stats[f].lost + Cardinality(G(f))
             Q(f) == [m.stats[f] EXCEPT !.lost = L(f)]
             r == [tracked |-> e, stats |-> [f \in Flow |-> Q(f)], strays |-> m.strays]
  <1>1. /\ m = [tracked |-> t, stats |-> m.stats, strays |-> m.strays]
        /\ TrackedOK(t) /\ m.stats \in [Flow -> FlowStats] /\ m.strays \in [Flow -> Nat]
        /\ \A f \in Flow : FlowOK(t, m.stats[f], m.strays[f], f)
    BY DEF MonitorOK
  <1>2. CheckForLostPackets(m) = r
    BY Zenon DEF CheckForLostPackets
  <1>3. e = [x \in DOMAIN t \ Old(m) |-> t[x]]
    BY DEF Restrict
  <1>4. DOMAIN e = DOMAIN t \ Old(m) /\ \A k \in DOMAIN e : e[k] = t[k]
    BY <1>3
  <1>5. e \in [DOMAIN e -> TrackedPacket]
    BY <1>1, <1>3, <1>4 DEF TrackedOK
  <1> HIDE DEF e
  <1>6. TrackedOK(e)
    <2>1. IsFiniteSet(DOMAIN e)
      BY <1>1, <1>4, FS_Subset DEF TrackedOK
    <2> QED
      BY <1>1, <1>4, <1>5, <2>1 DEF TrackedOK
  <1>7. ASSUME NEW f \in Flow
        PROVE  Q(f) \in FlowStats /\ FlowOK(e, Q(f), m.strays[f], f)
    <2> DEFINE K == KeysOf(t, f)
               n == Cardinality(K)
               g == Cardinality(G(f))
               s == m.stats[f]
               y == m.strays[f]
    <2>1. IsFiniteSet(K) /\ n \in Nat
      BY <1>1, KeysFinite DEF TrackedOK
    <2>2. G(f) \subseteq K /\ KeysOf(e, f) = K \ G(f) /\ K \cap G(f) = G(f)
      BY <1>4 DEF KeysOf, Old
    <2>3. g \in Nat /\ Cardinality(K \ G(f)) = n - g /\ g <= n
      <3> HIDE DEF K, G
      <3>1. IsFiniteSet(G(f)) /\ Cardinality(G(f)) <= Cardinality(K)
        BY <2>1, <2>2, FS_Subset
      <3>2. Cardinality(G(f)) \in Nat
        BY <3>1, FS_CardinalityType
      <3>3. Cardinality(K \ G(f)) = Cardinality(K) - Cardinality(K \cap G(f))
        BY <2>1, FS_Difference
      <3> QED
        BY <2>2, <3>1, <3>2, <3>3
    <2>4. s \in FlowStats /\ y \in Nat /\ FlowOK(t, s, y, f)
      BY <1>1
    <2>5. L(f) \in Nat /\ L(f) = s.lost + g
      BY <2>3, <2>4 DEF FlowStats
    <2> HIDE DEF L
    <2>6. /\ Q(f) \in FlowStats
          /\ Q(f).lost = L(f) /\ Q(f).dropped = s.dropped /\ Q(f).tx = s.tx /\ Q(f).rx = s.rx
          /\ Q(f).firstTx = s.firstTx /\ Q(f).lastTx = s.lastTx /\ Q(f).firstRx = s.firstRx
          /\ Q(f).lastRx = s.lastRx /\ Q(f).delaySum = s.delaySum
          /\ Q(f).jitterSum = s.jitterSum /\ Q(f).lastDelay = s.lastDelay
      BY <2>4, <2>5 DEF FlowStats
    <2> HIDE DEF Q
    <2>7. Balanced(s, y, n) /\ Timely(s)
      BY <2>4 DEF FlowOK
    <2>8. Balanced(Q(f), y, n - g)
      <3> HIDE DEF n, g
      <3> QED
        BY <2>1, <2>3, <2>4, <2>5, <2>6, <2>7 DEF Balanced, FlowStats
    <2>9. Timely(Q(f))
      BY <2>6, <2>7 DEF Timely
    <2>10. \A k \in KeysOf(e, f) :
             Q(f).firstTx <= e[k].firstSeen /\ e[k].firstSeen <= Q(f).lastTx
      <3>1. \A k \in KeysOf(e, f) : k \in KeysOf(t, f) /\ e[k] = t[k]
        BY <1>4 DEF KeysOf
      <3> QED
        BY <2>4, <2>6, <3>1 DEF FlowOK
    <2> QED
      BY <2>2, <2>3, <2>6, <2>8, <2>9, <2>10 DEF FlowOK
  <1> HIDE DEF Q
  <1>8. MonitorOK(r)
    BY <1>1, <1>6, <1>7 DEF MonitorOK
  <1>9. Recent(m, r)
    BY <1>4 DEF Recent
  <1>10. \A k \in DOMAIN e : ~(now - e[k].lastSeen >= MaxPerHopDelay)
    BY <1>4 DEF Old
  <1> QED
    BY <1>2, <1>4, <1>8, <1>9, <1>10

(* A copy given to a device. *)
LEMMA EnqueuedOK ==
  ASSUME NEW m, MonitorOK(m), NEW c \in Copy, NEW lost, now \in Nat
  PROVE  LET r == Enqueued(m, c, lost)
         IN  MonitorOK(r) /\ DOMAIN r.tracked \subseteq DOMAIN m.tracked /\ Recent(m, r)
  <1>1. Recent(m, m)
    BY DEF Recent
  <1> QED
    BY <1>1, ReportDropOK DEF Enqueued

(* Two reports in a row. *)
LEMMA RecentTwice ==
  ASSUME NEW m, NEW r, NEW w, Recent(m, r), Recent(r, w)
  PROVE  Recent(m, w)
  BY DEF Recent

(* A copy is taken off the wire. *)
LEMMA BagMinus ==
  ASSUME NEW b, IsABag(b), NEW c
  PROVE  LET r == b (-) SetToBag({c})
         IN  /\ IsABag(r)
             /\ DOMAIN r \subseteq DOMAIN b
             /\ \A x \in DOMAIN b : x # c => x \in DOMAIN r /\ r[x] = b[x]
             /\ c \in DOMAIN r => r[c] = b[c] - 1
             /\ c \in DOMAIN r <=> c \in DOMAIN b /\ b[c] > 1
  <1> DEFINE d == [x \in DOMAIN b |-> IF x = c THEN b[x] - 1 ELSE b[x]]
             r == [x \in {y \in DOMAIN d : d[y] > 0} |-> d[x]]
  <1>1. b (-) SetToBag({c}) = r
    BY DEF (-), SetToBag
  <1>2. \A x \in DOMAIN b : b[x] \in Nat /\ b[x] > 0
    BY DEF IsABag
  <1>3. DOMAIN d = DOMAIN b /\ \A x \in DOMAIN b : d[x] = IF x = c THEN b[x] - 1 ELSE b[x]
    OBVIOUS
  <1> HIDE DEF d
  <1>4. DOMAIN r = {y \in DOMAIN d : d[y] > 0} /\ \A x \in DOMAIN r : r[x] = d[x]
    OBVIOUS
  <1>5. r \in [DOMAIN r -> {n \in Nat : n > 0}]
    <2>1. \A x \in DOMAIN r : d[x] \in {n \in Nat : n > 0}
      BY <1>2, <1>3, <1>4
    <2> QED
      BY <1>4, <2>1
  <1> HIDE DEF r
  <1>6. \A x \in DOMAIN b : x # c => x \in DOMAIN r /\ r[x] = b[x]
    BY <1>2, <1>3, <1>4
  <1>7. /\ c \in DOMAIN r => r[c] = b[c] - 1
        /\ c \in DOMAIN r <=> c \in DOMAIN b /\ b[c] > 1
    BY <1>2, <1>3, <1>4
  <1> QED
    BY <1>1, <1>3, <1>4, <1>5, <1>6, <1>7 DEF IsABag

(* What two bags hold together. *)
LEMMA BagPlus ==
  ASSUME NEW b, IsABag(b), NEW d, IsABag(d)
  PROVE  LET r == b (+) d
         IN  /\ IsABag(r)
             /\ DOMAIN r = DOMAIN b \cup DOMAIN d
             /\ \A x \in DOMAIN b : x \notin DOMAIN d => r[x] = b[x]
             /\ \A x \in DOMAIN d : x \notin DOMAIN b => r[x] = d[x]
             /\ \A x \in DOMAIN d \cap DOMAIN b : r[x] = b[x] + d[x]
  <1> DEFINE r == b (+) d
  <1>1. r = [x \in (DOMAIN b) \cup (DOMAIN d) |->
               (IF x \in DOMAIN b THEN b[x] ELSE 0) + (IF x \in DOMAIN d THEN d[x] ELSE 0)]
    BY DEF (+)
  <1>2. /\ \A x \in DOMAIN b : b[x] \in Nat /\ b[x] > 0
        /\ \A x \in DOMAIN d : d[x] \in Nat /\ d[x] > 0
    BY DEF IsABag
  <1>3. DOMAIN r = DOMAIN b \cup DOMAIN d
    BY <1>1
  <1>4. \A x \in DOMAIN r :
          r[x] = (IF x \in DOMAIN b THEN b[x] ELSE 0) + (IF x \in DOMAIN d THEN d[x] ELSE 0)
    BY <1>1
  <1>5. r = [x \in DOMAIN r |-> r[x]]
    BY <1>1
  <1> HIDE DEF r
  <1>6. /\ \A x \in DOMAIN b : x \notin DOMAIN d => r[x] = b[x]
        /\ \A x \in DOMAIN d : x \notin DOMAIN b => r[x] = d[x]
        /\ \A x \in DOMAIN d \cap DOMAIN b : r[x] = b[x] + d[x]
    BY <1>2, <1>3, <1>4
  <1>7. \A x \in DOMAIN r : r[x] \in {n \in Nat : n > 0}
    BY <1>2, <1>3, <1>4
  <1>8. IsABag(r)
    BY <1>5, <1>7 DEF IsABag
  <1> QED
    BY <1>3, <1>6, <1>8 DEF r

(* No copies. *)
LEMMA BagOfNone == IsABag(EmptyBag) /\ DOMAIN EmptyBag = {}
  BY DEF EmptyBag, IsABag, SetToBag

-----------------------------------------------------------------------------
(* The invariant. *)

ClockOK ==
  /\ now \in 0 .. MaxTime /\ m_enabled \in BOOLEAN
  /\ startAt \in Nat \cup {Never} /\ stopAt \in Nat \cup {Never}
  /\ checkAt \in now .. now + CheckInterval

WireOK ==
  /\ m_flowPktIdMap \in [Flow -> Nat \cup {-1}]
  /\ IsABag(wire) /\ BagToSet(wire) \subseteq Copy
  /\ arrived \subseteq Flow \X Nat /\ disturbed \in BOOLEAN

(* A packet that is tracked has been numbered. *)
Numbered == \A k \in DOMAIN m_tracked : k[2] <= m_flowPktIdMap[k[1]]

(* The next check is due before the packet's time is over by an interval.  *)
CheckDue ==
  MaxPerHopDelay > 0 =>
    \A k \in DOMAIN m_tracked :
      checkAt - m_tracked[k].lastSeen < MaxPerHopDelay + CheckInterval

FlowInv == ClockOK /\ WireOK /\ MonitorOK(Monitor) /\ Numbered /\ CheckDue

(* What the invariant says to the reader of a run. *)
LEMMA InvImplies ==
  ASSUME FlowInv
  PROVE  FlowBalance /\ DelaysWithin /\ (MaxPerHopDelay > 0 => NotForgotten)
  <1> USE FlowMonitorAssumption
  <1>1. /\ TrackedOK(m_tracked) /\ m_stats \in [Flow -> FlowStats] /\ strays \in [Flow -> Nat]
        /\ \A f \in Flow : FlowOK(m_tracked, m_stats[f], strays[f], f)
    BY DEF FlowInv, MonitorOK, Monitor
  <1>2. TypeOK
    BY <1>1 DEF FlowInv, ClockOK, WireOK, Numbered, TypeOK, TrackedOK, TrackedPacket
  <1>3. \A f \in Flow : TrackedOf(f) = KeysOf(m_tracked, f)
    BY DEF TrackedOf, KeysOf
  <1>4. FlowBalance
    BY <1>1, <1>2, <1>3 DEF FlowBalance, FlowOK, Balanced
  <1>5. DelaysWithin
    <2>1. ASSUME NEW f \in Flow
          PROVE  m_stats[f] \in FlowStats /\ Timely(m_stats[f])
      BY <1>1 DEF FlowOK
    <2>2. ASSUME NEW s \in FlowStats, Timely(s)
          PROVE  /\ s.firstTx <= s.lastTx /\ s.firstRx <= s.lastRx
                 /\ s.rx > 0 => /\ s.firstTx <= s.firstRx
                                /\ s.delaySum <= s.rx * (s.lastRx - s.firstTx)
                 /\ s.rx = 1 => s.delaySum >= s.firstRx - s.lastTx
                 /\ s.jitterSum <= 2 * s.delaySum /\ s.lastDelay <= s.delaySum
      BY <2>2 DEF Timely, FlowStats
    <2> QED
      BY <2>1, <2>2 DEF DelaysWithin
  <1>6. ASSUME MaxPerHopDelay > 0
        PROVE  NotForgotten
    <2>1. now \in Nat /\ checkAt \in Nat /\ now <= checkAt
      BY DEF FlowInv, ClockOK
    <2>2. \A k \in DOMAIN m_tracked : m_tracked[k].lastSeen \in Nat
      BY <1>1 DEF TrackedOK, TrackedPacket
    <2> QED
      BY <1>6, <2>1, <2>2 DEF FlowInv, CheckDue, NotForgotten
  <1> QED
    BY <1>4, <1>5, <1>6

(* The monitor after a report at the same instant. *)
LEMMA MonitorKept ==
  ASSUME NEW m, MonitorOK(m), Becomes(m), now' = now
  PROVE  MonitorOK(Monitor)'
  <1>1. m = [tracked |-> m_tracked', stats |-> m_stats', strays |-> strays']
    BY DEF MonitorOK, Becomes
  <1>2. Monitor' = m
    BY <1>1 DEF Monitor
  <1>3. /\ m.tracked = m_tracked' /\ m.stats = m_stats' /\ m.strays = strays'
        /\ Monitor'.tracked = m_tracked' /\ Monitor'.stats = m_stats' /\ Monitor'.strays = strays'
    BY <1>1, <1>2
  <1>4. TrackedOK(m_tracked)'
    BY <1>3 DEF MonitorOK, TrackedOK, TrackedPacket
  <1>5. m_stats' \in [Flow -> FlowStats] /\ strays' \in [Flow -> Nat]
    BY <1>3 DEF MonitorOK
  <1>6. \A f \in Flow : FlowOK(m_tracked, m_stats[f], strays[f], f)'
    BY <1>3 DEF MonitorOK, FlowOK, Balanced, Timely, KeysOf
  <1> QED
    BY <1>3, <1>4, <1>5, <1>6 DEF MonitorOK, Monitor

(* The monitor when only time passes. *)
LEMMA MonitorWaits ==
  ASSUME MonitorOK(Monitor), UNCHANGED monitor, now \in Nat, now' \in Nat, now <= now'
  PROVE  MonitorOK(Monitor)'
  <1>1. /\ Monitor.tracked = m_tracked /\ Monitor.stats = m_stats /\ Monitor.strays = strays
        /\ m_tracked' = m_tracked /\ m_stats' = m_stats /\ strays' = strays
        /\ Monitor' = [tracked |-> m_tracked', stats |-> m_stats', strays |-> strays']
    BY DEF Monitor, monitor
  <1>2. TrackedOK(m_tracked) /\ m_stats \in [Flow -> FlowStats] /\ strays \in [Flow -> Nat]
    BY <1>1 DEF MonitorOK
  <1>3. TrackedOK(m_tracked)'
    <2>1. \A k \in DOMAIN m_tracked :
            /\ m_tracked[k].lastSeen \in Nat
            /\ m_tracked[k].firstSeen <= m_tracked[k].lastSeen /\ m_tracked[k].lastSeen <= now
      BY <1>2 DEF TrackedOK, TrackedPacket
    <2>2. \A k \in DOMAIN m_tracked :
            m_tracked[k].firstSeen <= m_tracked[k].lastSeen /\ m_tracked[k].lastSeen <= now'
      BY <2>1
    <2> QED
      BY <1>1, <1>2, <2>2 DEF TrackedOK, TrackedPacket
  <1>4. ASSUME NEW f \in Flow
        PROVE  FlowOK(m_tracked, m_stats[f], strays[f], f)'
    <2>1. FlowOK(m_tracked, m_stats[f], strays[f], f) /\ m_stats[f] \in FlowStats
      BY <1>1, <1>2 DEF MonitorOK
    <2>2. Timely(m_stats[f])'
      <3>1. m_stats[f].lastTx \in Nat /\ m_stats[f].lastRx \in Nat /\ Timely(m_stats[f])
        BY <2>1 DEF FlowOK, FlowStats
      <3>2. m_stats[f].lastTx <= now /\ m_stats[f].lastRx <= now
        BY <3>1 DEF Timely
      <3>3. m_stats[f].lastTx <= now' /\ m_stats[f].lastRx <= now'
        BY <3>1, <3>2
      <3> QED
        BY <1>1, <3>1, <3>3, Zenon DEF Timely
    <2> QED
      BY <1>1, <2>1, <2>2 DEF FlowOK, KeysOf, Balanced
  <1> QED
    BY <1>1, <1>2, <1>3, <1>4 DEF MonitorOK

(* The next check stays due in time after a report. *)
LEMMA DueKept ==
  ASSUME FlowInv, NEW m, MonitorOK(m), Recent(Monitor, m), Becomes(m), checkAt' = checkAt
  PROVE  CheckDue'
  <1> USE FlowMonitorAssumption
  <1>1. /\ Monitor.tracked = m_tracked /\ m_tracked' = m.tracked
        /\ now \in Nat /\ checkAt \in Nat /\ checkAt <= now + CheckInterval
    BY DEF Monitor, Becomes, FlowInv, ClockOK
  <1> SUFFICES ASSUME MaxPerHopDelay > 0, NEW k \in DOMAIN m.tracked
               PROVE  checkAt - m.tracked[k].lastSeen < MaxPerHopDelay + CheckInterval
    BY <1>1 DEF CheckDue
  <1>2. CASE m.tracked[k].lastSeen = now
    BY <1>1, <1>2
  <1>3. CASE k \in DOMAIN m_tracked /\ m.tracked[k].lastSeen = m_tracked[k].lastSeen
    BY <1>3 DEF FlowInv, CheckDue
  <1> QED
    BY <1>1, <1>2, <1>3 DEF Recent

(* A packet numbered before stays numbered. *)
LEMMA NumberedKept ==
  ASSUME FlowInv, NEW m, Becomes(m), DOMAIN m.tracked \subseteq DOMAIN m_tracked,
         m_flowPktIdMap' = m_flowPktIdMap
  PROVE  Numbered'
  BY DEF FlowInv, Numbered, Becomes

(* The facts about the state that the proofs of the actions use. *)
LEMMA InvFacts ==
  ASSUME FlowInv
  PROVE  /\ now \in Nat /\ IsABag(wire) /\ DOMAIN wire \subseteq Copy
         /\ MonitorOK(Monitor) /\ Monitor.tracked = m_tracked
         /\ m_flowPktIdMap \in [Flow -> Nat \cup {-1}]
  BY FlowMonitorAssumption DEF FlowInv, ClockOK, WireOK, BagToSet, Monitor

-----------------------------------------------------------------------------
(* One lemma per action. *)

(* The monitor starts with nothing tracked. *)
LEMMA InitInv == Init => FlowInv
  <1> SUFFICES ASSUME Init PROVE FlowInv
    OBVIOUS
  <1> USE FlowMonitorAssumption DEF Init
  <1>1. ClockOK
    <2>1. now \in 0 .. MaxTime /\ checkAt \in now .. now + CheckInterval
      OBVIOUS
    <2>2. startAt \in Nat /\ stopAt = Never
      OBVIOUS
    <2>3. m_enabled \in BOOLEAN
      BY Zenon
    <2> QED
      BY <2>1, <2>2, <2>3, Zenon DEF ClockOK
  <1>2. WireOK
    BY BagOfNone DEF WireOK, BagToSet
  <1>3. DOMAIN m_tracked = {}
    OBVIOUS
  <1>4. Numbered /\ CheckDue
    BY <1>3 DEF Numbered, CheckDue
  <1>5. TrackedOK(m_tracked)
    <2>1. m_tracked \in [DOMAIN m_tracked -> TrackedPacket]
      BY <1>3
    <2> QED
      BY <1>3, <2>1, FS_EmptySet DEF TrackedOK
  <1>6. NewStats \in FlowStats
    BY DEF NewStats, FlowStats
  <1>7. ASSUME NEW f \in Flow
        PROVE  FlowOK(m_tracked, m_stats[f], strays[f], f)
    <2>1. KeysOf(m_tracked, f) = {} /\ Cardinality(KeysOf(m_tracked, f)) = 0
      BY <1>3, FS_EmptySet DEF KeysOf
    <2>2. Balanced(NewStats, 0, 0) /\ Timely(NewStats)
      BY DEF Balanced, Timely, NewStats
    <2>3. m_stats[f] = NewStats /\ strays[f] = 0
      OBVIOUS
    <2> QED
      BY <2>1, <2>2, <2>3 DEF FlowOK
  <1>8. MonitorOK(Monitor)
    <2>1. Monitor.tracked = m_tracked /\ Monitor.stats = m_stats /\ Monitor.strays = strays
      BY DEF Monitor
    <2> QED
      BY <1>5, <1>6, <1>7, <2>1 DEF MonitorOK, Monitor
  <1> QED
    BY <1>1, <1>2, <1>4, <1>8 DEF FlowInv

(* The wire after a copy left it and n copies of another were added. *)
LEMMA WireKept ==
  ASSUME FlowInv, NEW c \in Copy, NEW d, IsABag(d), DOMAIN d \subseteq Copy
  PROVE  LET b == wire (-) SetToBag({c})
         IN  /\ IsABag(b) /\ DOMAIN b \subseteq Copy
             /\ IsABag(b (+) d) /\ DOMAIN (b (+) d) \subseteq Copy
             /\ IsABag(wire (+) d) /\ DOMAIN (wire (+) d) \subseteq Copy
  <1> DEFINE b == wire (-) SetToBag({c})
  <1>1. IsABag(wire) /\ DOMAIN wire \subseteq Copy
    BY InvFacts
  <1>2. IsABag(b) /\ DOMAIN b \subseteq DOMAIN wire
    BY <1>1, BagMinus
  <1> HIDE DEF b
  <1>3. IsABag(b (+) d) /\ DOMAIN (b (+) d) = DOMAIN b \cup DOMAIN d
    BY <1>2, BagPlus
  <1>4. IsABag(wire (+) d) /\ DOMAIN (wire (+) d) = DOMAIN wire \cup DOMAIN d
    BY <1>1, BagPlus
  <1> QED
    BY <1>1, <1>2, <1>3, <1>4 DEF b

(* SendOutgoing at the source, with the queue of the first device. *)
LEMMA SendInv ==
  ASSUME FlowInv, NEW f \in Flow, Send(f)
  PROVE  FlowInv'
  <1> USE FlowMonitorAssumption
  <1> DEFINE id == m_flowPktIdMap[f] + 1
             c  == [flow |-> f, id |-> id, hop |-> 0]
  <1>1. PICK lost \in BOOLEAN :
          /\ Becomes(Enqueued(ReportFirstTx(Monitor, c), c, lost))
          /\ wire' = IF lost THEN wire ELSE wire (+) SetToBag({c})
    BY Zenon DEF Send
  <1>2. /\ m_flowPktIdMap' = [m_flowPktIdMap EXCEPT ![f] = id]
        /\ UNCHANGED <<clock, arrived>> /\ disturbed' = (disturbed \/ ~m_enabled)
    BY Zenon DEF Send
  <1>3. id \in Nat /\ id = m_flowPktIdMap[f] + 1 /\ m_flowPktIdMap[f] \in Nat \cup {-1}
    BY InvFacts
  <1> HIDE DEF id
  <1>4. c \in Copy /\ Key(c) = <<f, id>>
    BY <1>3 DEF Copy, Key
  <1> HIDE DEF c
  <1>5. Key(c) \notin DOMAIN m_tracked
    <2>1. \A k \in DOMAIN m_tracked : k[2] <= m_flowPktIdMap[k[1]]
      BY DEF FlowInv, Numbered
    <2> QED
      BY <1>3, <1>4, <2>1
  <1>6. LET r == ReportFirstTx(Monitor, c)
        IN  /\ MonitorOK(r) /\ Recent(Monitor, r)
            /\ DOMAIN r.tracked \subseteq DOMAIN m_tracked \cup {Key(c)}
    <2>1. CASE m_enabled
      BY <1>4, <1>5, <2>1, InvFacts, ReportFirstTxOK
    <2>2. CASE ~m_enabled
      <3>1. ReportFirstTx(Monitor, c) = Monitor
        BY <2>2 DEF ReportFirstTx
      <3> QED
        BY <3>1, InvFacts DEF Recent
    <2> QED
      BY <2>1, <2>2
  <1> DEFINE r == ReportFirstTx(Monitor, c)
             w == Enqueued(r, c, lost)
  <1>7. MonitorOK(r) /\ Recent(Monitor, r) /\ DOMAIN r.tracked \subseteq DOMAIN m_tracked \cup {Key(c)}
    BY <1>6
  <1> HIDE DEF r
  <1>8. MonitorOK(w) /\ DOMAIN w.tracked \subseteq DOMAIN r.tracked /\ Recent(r, w)
    BY <1>4, <1>7, InvFacts, EnqueuedOK
  <1>9. Becomes(w)
    BY <1>1 DEF r
  <1> HIDE DEF w
  <1>10. Recent(Monitor, w)
    BY <1>7, <1>8, RecentTwice
  <1>11. now' = now /\ checkAt' = checkAt
    BY <1>2 DEF clock
  <1>12. MonitorOK(Monitor)' /\ CheckDue'
    BY <1>8, <1>9, <1>10, <1>11, MonitorKept, DueKept
  <1>13. Numbered'
    <2>1. \A k \in DOMAIN m_tracked' : k \in DOMAIN m_tracked \/ k = <<f, id>>
      BY <1>4, <1>7, <1>8, <1>9 DEF Becomes
    <2>2. \A k \in DOMAIN m_tracked : k \in Flow \X Nat /\ k[2] <= m_flowPktIdMap[k[1]]
      BY InvFacts DEF FlowInv, Numbered, MonitorOK, TrackedOK
    <2>3. \A g \in Flow : /\ m_flowPktIdMap'[g] = IF g = f THEN id ELSE m_flowPktIdMap[g]
                          /\ m_flowPktIdMap[g] \in Nat \cup {-1}
      BY <1>2, InvFacts
    <2>4. ASSUME NEW k \in DOMAIN m_tracked'
          PROVE  k[2] <= m_flowPktIdMap'[k[1]]
      <3>1. CASE k = <<f, id>>
        BY <1>3, <2>3, <3>1
      <3>2. CASE k \in DOMAIN m_tracked
        BY <1>3, <2>2, <2>3, <3>2
      <3> QED
        BY <2>1, <3>1, <3>2
    <2> QED
      BY <2>4 DEF Numbered
  <1>14. ClockOK'
    BY <1>2, Zenon DEF FlowInv, ClockOK, clock
  <1>15. WireOK'
    <2>1. m_flowPktIdMap' \in [Flow -> Nat \cup {-1}]
      BY <1>2, <1>3, InvFacts
    <2>2. IsABag(SetToBag({c})) /\ DOMAIN SetToBag({c}) = {c}
      BY DEF IsABag, SetToBag
    <2>3. IsABag(wire') /\ DOMAIN wire' \subseteq Copy
      BY <1>1, <1>4, <2>2, WireKept, InvFacts
    <2>4. disturbed' \in BOOLEAN
      BY <1>2, Zenon DEF FlowInv, WireOK
    <2> QED
      BY <1>2, <2>1, <2>3, <2>4 DEF FlowInv, WireOK, BagToSet
  <1> QED
    BY <1>12, <1>13, <1>14, <1>15 DEF FlowInv

(* Forwarding and enqueueing one copy. *)
LEMMA ForwardOnce ==
  ASSUME NEW m, MonitorOK(m), NEW c \in Copy, NEW out \in Copy, NEW lost, now \in Nat
  PROVE  LET r == Enqueued(ReportForwarding(m, c), out, lost)
         IN  MonitorOK(r) /\ DOMAIN r.tracked \subseteq DOMAIN m.tracked /\ Recent(m, r)
  <1> DEFINE u == ReportForwarding(m, c)
             r == Enqueued(u, out, lost)
  <1>1. MonitorOK(u) /\ DOMAIN u.tracked = DOMAIN m.tracked /\ Recent(m, u)
    BY ReportForwardingOK
  <1> HIDE DEF u
  <1>2. MonitorOK(r) /\ DOMAIN r.tracked \subseteq DOMAIN u.tracked /\ Recent(u, r)
    BY <1>1, EnqueuedOK
  <1> HIDE DEF r
  <1>3. Recent(m, r)
    BY <1>1, <1>2, RecentTwice
  <1> QED
    BY <1>1, <1>2, <1>3 DEF r, u

(* UnicastForward, with one copy or two. *)
LEMMA ForwardInv ==
  ASSUME FlowInv, NEW c \in BagToSet(wire), Forward(c)
  PROVE  FlowInv'
  <1> USE FlowMonitorAssumption
  <1> DEFINE copies == IF c.hop = 0 /\ c.flow \in Doubled THEN 1 .. 2 ELSE {1}
             out    == [c EXCEPT !.hop = @ + 1]
  <1>1. PICK lost \in SUBSET copies :
          LET Step(m, k) == Enqueued(ReportForwarding(m, c), out, k \in lost)
              m1   == Step(Monitor, 1)
              left == Cardinality(copies \ lost)
          IN  /\ Becomes(IF 2 \in copies THEN Step(m1, 2) ELSE m1)
              /\ wire' = (wire (-) SetToBag({c})) (+) (IF left = 0 THEN EmptyBag ELSE [x \in {out} |-> left])
    BY Zenon DEF Forward
  <1>2. UNCHANGED <<clock, m_flowPktIdMap, arrived, disturbed>>
    BY Zenon DEF Forward
  <1>3. c \in Copy /\ out \in Copy
    BY InvFacts DEF BagToSet, Copy
  <1>4. IsFiniteSet(copies \ lost) /\ Cardinality(copies \ lost) \in Nat
    <2>1. IsFiniteSet({1, 2})
      <3>1. IsFiniteSet({1}) /\ {1, 2} = {1} \cup {2}
        BY FS_Singleton
      <3> QED
        BY <3>1, FS_AddElement
    <2>2. copies \ lost \subseteq {1, 2}
      OBVIOUS
    <2> HIDE DEF copies
    <2> QED
      BY <2>1, <2>2, FS_Subset, FS_CardinalityType
  <1> DEFINE left == Cardinality(copies \ lost)
             bag == IF left = 0 THEN EmptyBag ELSE [x \in {out} |-> left]
             Step(m, k) == Enqueued(ReportForwarding(m, c), out, k \in lost)
             m1 == Step(Monitor, 1)
             m2 == Step(m1, 2)
             w == IF 2 \in copies THEN m2 ELSE m1
  <1>5. wire' = (wire (-) SetToBag({c})) (+) bag /\ Becomes(w)
    BY <1>1
  <1> HIDE DEF out
  <1>6. MonitorOK(m1) /\ DOMAIN m1.tracked \subseteq DOMAIN m_tracked /\ Recent(Monitor, m1)
    BY <1>3, InvFacts, ForwardOnce
  <1> HIDE DEF m1
  <1>7. MonitorOK(m2) /\ DOMAIN m2.tracked \subseteq DOMAIN m1.tracked /\ Recent(m1, m2)
    BY <1>3, <1>6, InvFacts, ForwardOnce
  <1> HIDE DEF m2
  <1>8. Recent(Monitor, m2)
    BY <1>6, <1>7, RecentTwice
  <1>9. MonitorOK(w) /\ DOMAIN w.tracked \subseteq DOMAIN m_tracked /\ Recent(Monitor, w)
    BY <1>6, <1>7, <1>8
  <1> HIDE DEF w
  <1>10. now' = now /\ checkAt' = checkAt /\ m_flowPktIdMap' = m_flowPktIdMap
    BY <1>2 DEF clock
  <1>11. MonitorOK(Monitor)' /\ CheckDue' /\ Numbered'
    BY <1>5, <1>9, <1>10, MonitorKept, DueKept, NumberedKept
  <1>12. ClockOK'
    BY <1>2, Zenon DEF FlowInv, ClockOK, clock
  <1>13. WireOK'
    <2>1. IsABag(bag) /\ DOMAIN bag \subseteq Copy
      <3> HIDE DEF left
      <3>1. CASE left = 0
        BY <3>1, BagOfNone
      <3>2. CASE left # 0
        <4>1. left \in Nat /\ left > 0
          BY <1>4, <3>2 DEF left
        <4>2. bag = [x \in {out} |-> left]
          BY <3>2
        <4> HIDE DEF bag
        <4>3. IsABag(bag) /\ DOMAIN bag = {out}
          BY <4>1, <4>2 DEF IsABag
        <4> QED
          BY <1>3, <4>3
      <3> QED
        BY <3>1, <3>2
    <2> HIDE DEF bag
    <2>2. IsABag(wire') /\ DOMAIN wire' \subseteq Copy
      BY <1>3, <1>5, <2>1, WireKept
    <2> QED
      BY <1>2, <2>2, Zenon DEF FlowInv, WireOK, BagToSet
  <1> QED
    BY <1>11, <1>12, <1>13 DEF FlowInv

(* LocalDeliver at the destination. *)
LEMMA DeliverInv ==
  ASSUME FlowInv, NEW c \in BagToSet(wire), Deliver(c)
  PROVE  FlowInv'
  <1> USE FlowMonitorAssumption
  <1> DEFINE w == ReportLastRx(Monitor, c)
  <1>1. /\ Becomes(w) /\ wire' = wire (-) SetToBag({c}) /\ arrived' = arrived \cup {Key(c)}
        /\ UNCHANGED <<clock, m_flowPktIdMap, disturbed>>
    BY DEF Deliver
  <1>2. c \in Copy
    BY InvFacts DEF BagToSet
  <1>3. MonitorOK(w) /\ DOMAIN w.tracked \subseteq DOMAIN m_tracked /\ Recent(Monitor, w)
    BY <1>2, InvFacts, ReportLastRxOK
  <1> HIDE DEF w
  <1>4. now' = now /\ checkAt' = checkAt /\ m_flowPktIdMap' = m_flowPktIdMap
    BY <1>1 DEF clock
  <1>5. MonitorOK(Monitor)' /\ CheckDue' /\ Numbered'
    BY <1>1, <1>3, <1>4, MonitorKept, DueKept, NumberedKept
  <1>6. ClockOK'
    BY <1>1, Zenon DEF FlowInv, ClockOK, clock
  <1>7. WireOK'
    <2>1. IsABag(wire') /\ DOMAIN wire' \subseteq Copy
      BY <1>1, <1>2, BagOfNone, WireKept
    <2>2. arrived' \subseteq Flow \X Nat
      BY <1>1, <1>2, KeyFacts DEF FlowInv, WireOK
    <2> QED
      BY <1>1, <2>1, <2>2, Zenon DEF FlowInv, WireOK, BagToSet
  <1> QED
    BY <1>5, <1>6, <1>7 DEF FlowInv

(* A copy is lost on the wire: the monitor hears nothing of it. *)
LEMMA CorruptInv ==
  ASSUME FlowInv, NEW c \in BagToSet(wire), Corrupt(c)
  PROVE  FlowInv'
  <1>1. /\ wire' = wire (-) SetToBag({c})
        /\ UNCHANGED <<clock, m_flowPktIdMap, monitor, arrived, disturbed>>
    BY DEF Corrupt
  <1>2. c \in Copy
    BY InvFacts DEF BagToSet
  <1>3. MonitorOK(Monitor)'
    BY <1>1, InvFacts, MonitorWaits DEF clock
  <1>4. ClockOK' /\ Numbered' /\ CheckDue'
    BY <1>1, Zenon DEF FlowInv, ClockOK, Numbered, CheckDue, clock, monitor
  <1>5. IsABag(wire') /\ DOMAIN wire' \subseteq Copy
    BY <1>1, <1>2, BagOfNone, WireKept
  <1>6. WireOK'
    BY <1>1, <1>5, Zenon DEF FlowInv, WireOK, BagToSet
  <1> QED
    BY <1>3, <1>4, <1>6 DEF FlowInv

(* The periodic check gives up the old packets and schedules the next one. *)
LEMMA PeriodicCheckInv ==
  ASSUME FlowInv, PeriodicCheckForLostPackets
  PROVE  FlowInv'
  <1> USE FlowMonitorAssumption
  <1> DEFINE w == CheckForLostPackets(Monitor)
  <1>1. /\ Becomes(w) /\ checkAt' = now + CheckInterval
        /\ disturbed' = (disturbed \/ GivesUp)
        /\ UNCHANGED <<now, startAt, stopAt, calls, m_enabled, m_flowPktIdMap, wire, arrived>>
    BY DEF PeriodicCheckForLostPackets
  <1>2. /\ MonitorOK(w) /\ DOMAIN w.tracked \subseteq DOMAIN m_tracked
        /\ \A k \in DOMAIN w.tracked : ~(now - w.tracked[k].lastSeen >= MaxPerHopDelay)
    BY InvFacts, CheckForLostPacketsOK
  <1> HIDE DEF w
  <1>3. MonitorOK(Monitor)' /\ Numbered'
    BY <1>1, <1>2, MonitorKept, NumberedKept
  <1>4. CheckDue'
    <2>1. \A k \in DOMAIN w.tracked : w.tracked[k].lastSeen \in Nat
      BY <1>2 DEF MonitorOK, TrackedOK, TrackedPacket
    <2> QED
      BY <1>1, <1>2, <2>1, InvFacts DEF CheckDue, Becomes
  <1>5. ClockOK'
    <2>1. checkAt' \in now' .. now' + CheckInterval
      BY <1>1, InvFacts
    <2> QED
      BY <1>1, <2>1, Zenon DEF FlowInv, ClockOK
  <1>6. WireOK'
    <2>1. GivesUp \in BOOLEAN
      BY DEF GivesUp
    <2>2. disturbed' \in BOOLEAN
      BY <1>1, <2>1, Zenon DEF FlowInv, WireOK
    <2> QED
      BY <1>1, <2>2, Zenon DEF FlowInv, WireOK
  <1> QED
    BY <1>3, <1>4, <1>5, <1>6 DEF FlowInv

(* The monitor is turned off, with a last check. *)
LEMMA StopRightNowInv ==
  ASSUME FlowInv, StopRightNow
  PROVE  FlowInv'
  <1> USE FlowMonitorAssumption
  <1> DEFINE w == IF m_enabled THEN CheckForLostPackets(Monitor) ELSE Monitor
  <1>1. /\ Becomes(w) /\ stopAt' = Never /\ m_enabled' = FALSE
        /\ disturbed' = (disturbed \/ m_enabled)
        /\ UNCHANGED <<now, startAt, checkAt, calls, m_flowPktIdMap, wire, arrived>>
    BY DEF StopRightNow
  <1>2. MonitorOK(w) /\ DOMAIN w.tracked \subseteq DOMAIN m_tracked /\ Recent(Monitor, w)
    <2>1. CASE m_enabled
      BY <2>1, InvFacts, CheckForLostPacketsOK
    <2>2. CASE ~m_enabled
      BY <2>2, InvFacts DEF Recent
    <2> QED
      BY <2>1, <2>2
  <1> HIDE DEF w
  <1>3. MonitorOK(Monitor)' /\ Numbered' /\ CheckDue'
    BY <1>1, <1>2, MonitorKept, NumberedKept, DueKept
  <1>4. ClockOK'
    BY <1>1, Zenon DEF FlowInv, ClockOK
  <1>5. WireOK'
    BY <1>1, Zenon DEF FlowInv, WireOK
  <1> QED
    BY <1>3, <1>4, <1>5 DEF FlowInv

(* Start, Stop, the start event and the clock leave the monitor alone.     *)
LEMMA ClockStepsInv ==
  ASSUME FlowInv, \/ \E d \in CallDelays : Start(d) \/ Stop(d)
                  \/ StartRightNow
                  \/ Tick
  PROVE  FlowInv'
  <1> USE FlowMonitorAssumption
  <1>1. UNCHANGED <<checkAt, m_flowPktIdMap, monitor, wire, arrived, disturbed>>
    BY Zenon DEF Start, Stop, StartRightNow, Tick
  <1>2. now' \in Nat /\ now <= now' /\ ClockOK'
    <2>1. ASSUME NEW d \in CallDelays, Start(d)
          PROVE  now' \in Nat /\ now <= now' /\ ClockOK'
      <3>1. startAt' \in Nat \cup {Never}
        BY <2>1 DEF Start, FlowInv, ClockOK
      <3>2. now' \in Nat /\ now <= now' /\ UNCHANGED <<now, stopAt, checkAt, m_enabled>>
        BY <2>1, InvFacts DEF Start
      <3> QED
        BY <3>1, <3>2, Zenon DEF FlowInv, ClockOK
    <2>2. ASSUME NEW d \in CallDelays, Stop(d)
          PROVE  now' \in Nat /\ now <= now' /\ ClockOK'
      <3>1. stopAt' \in Nat \cup {Never}
        BY <2>2 DEF Stop, FlowInv, ClockOK
      <3>2. now' \in Nat /\ now <= now' /\ UNCHANGED <<now, startAt, checkAt, m_enabled>>
        BY <2>2, InvFacts DEF Stop
      <3> QED
        BY <3>1, <3>2, Zenon DEF FlowInv, ClockOK
    <2>3. ASSUME StartRightNow
          PROVE  now' \in Nat /\ now <= now' /\ ClockOK'
      <3>1. now' \in Nat /\ now <= now'
        BY <2>3, InvFacts DEF StartRightNow
      <3>2. ClockOK'
        BY <2>3, Zenon DEF FlowInv, ClockOK, StartRightNow
      <3> QED
        BY <3>1, <3>2
    <2>4. ASSUME Tick
          PROVE  now' \in Nat /\ now <= now' /\ ClockOK'
      <3>1. now' \in Nat /\ now <= now' /\ now' \in 0 .. MaxTime
            /\ checkAt' \in now' .. now' + CheckInterval
        BY <2>4 DEF Tick, FlowInv, ClockOK
      <3> QED
        BY <2>4, <3>1, Zenon DEF FlowInv, ClockOK, Tick
    <2> QED
      BY <2>1, <2>2, <2>3, <2>4
  <1>3. MonitorOK(Monitor)'
    BY <1>1, <1>2, InvFacts, MonitorWaits
  <1>4. Numbered' /\ CheckDue' /\ WireOK'
    BY <1>1, Zenon DEF FlowInv, WireOK, Numbered, CheckDue, monitor
  <1> QED
    BY <1>2, <1>3, <1>4 DEF FlowInv

(* Every step keeps the invariant. *)
LEMMA NextInv ==
  ASSUME FlowInv, [Next]_vars
  PROVE  FlowInv'
  <1>1. CASE UNCHANGED vars
    <2>1. MonitorOK(Monitor)'
      BY <1>1, InvFacts, MonitorWaits DEF vars, clock
    <2> QED
      BY <1>1, <2>1, Zenon DEF FlowInv, ClockOK, WireOK, Numbered, CheckDue, vars, clock, monitor
  <1> QED
    BY <1>1, SendInv, ForwardInv, DeliverInv, CorruptInv, PeriodicCheckInv, StopRightNowInv,
       ClockStepsInv DEF Next

(* The invariant of the monitor holds for all flows, paths, copies of      *)
(* packets, times at which it is turned off and on, and intervals between  *)
(* checks.                                                                 *)
THEOREM FlowInvariant == Spec => []FlowInv
  <1>1. FlowInv /\ [Next]_vars => FlowInv'
    BY NextInv
  <1> QED
    BY InitInv, <1>1, PTL DEF Spec

(* Whatever becomes of its copies, a packet counted as sent is received,   *)
(* lost or still tracked, and only once.                                   *)
THEOREM CountersBalance == Spec => []FlowBalance
  <1>1. FlowInv => FlowBalance
    BY InvImplies
  <1> QED
    BY <1>1, FlowInvariant, PTL

(* Delays and jitter stay end to end while the monitor is turned off and   *)
(* on and the second copies of a packet come late.                         *)
THEOREM DelaysEndToEnd == Spec => []DelaysWithin
  <1>1. FlowInv => DelaysWithin
    BY InvImplies
  <1> QED
    BY <1>1, FlowInvariant, PTL

(* A packet that is not seen again is given up in time, if a bound on the  *)
(* delay is set at all: with MaxPerHopDelay = 0 a packet seen at the       *)
(* instant of a check, but after it, waits for a whole interval.           *)
THEOREM PacketsGivenUp ==
  ASSUME MaxPerHopDelay > 0
  PROVE  Spec => []NotForgotten
  <1>1. FlowInv => NotForgotten
    BY InvImplies
  <1> QED
    BY <1>1, FlowInvariant, PTL

-----------------------------------------------------------------------------
(***************************************************************************)
(* What the counters of an undisturbed monitor say of the packets          *)
(* themselves: exact for the flows within a leaf, and within the stated    *)
(* bounds for those between leaves, of whose packets two copies travel.    *)
(***************************************************************************)

(* Packets of the flow that were numbered, and those that arrived. *)
KeysUpTo(f) == {f} \X (0 .. m_flowPktIdMap[f])

ArrivedOf(f) == {k \in arrived : k[1] = f}

(* The only copy of its packet. *)
Single(c) ==
  wire[c] = 1 /\ \A d \in DOMAIN wire : Key(d) = Key(c) => d = c

(* One of two copies that were forwarded n times between them; the other   *)
(* may have been corrupted on its way.                                     *)
Paired(c, n) ==
  /\ c.hop < n /\ n <= c.hop + Hops[c.flow]
  /\ wire[c] = 1 \/ (wire[c] = 2 /\ n = 2 * c.hop)
  /\ \A d \in DOMAIN wire :
       Key(d) = Key(c) /\ d # c => n = c.hop + d.hop /\ wire[c] = 1

(* A copy under way, and the record of its packet: it is the only one and  *)
(* tracked, or the other of its pair was dropped or received, or both are  *)
(* still accounted for.                                                    *)
CopyOK(c) ==
  /\ c.hop <= Hops[c.flow] /\ c.id <= m_flowPktIdMap[c.flow]
  /\ \/ /\ c.hop = 0 \/ c.flow \notin Doubled
        /\ Key(c) \in DOMAIN m_tracked /\ Single(c)
        /\ m_tracked[Key(c)].forwarded = c.hop
     \/ /\ c.hop > 0 /\ c.flow \in Doubled
        /\ Key(c) \notin DOMAIN m_tracked /\ Single(c)
     \/ /\ c.hop > 0 /\ c.flow \in Doubled
        /\ Key(c) \in DOMAIN m_tracked /\ Paired(c, m_tracked[Key(c)].forwarded)

CountsOK(f) ==
  LET s == m_stats[f]
      n == Cardinality(ArrivedOf(f))
  IN  /\ s.tx = m_flowPktIdMap[f] + 1
      /\ ArrivedOf(f) \subseteq KeysUpTo(f)
      /\ s.rx <= n
      /\ f \notin Doubled => s.rx = n /\ s.timesForwarded = Hops[f] * s.rx
      /\ f \in Doubled => /\ (Hops[f] + 1) * s.rx <= s.timesForwarded
                          /\ s.timesForwarded <= 2 * Hops[f] * s.rx

(* S are the packets of which a second copy was dropped. *)
StraysOK(f, S) ==
  /\ Cardinality(S) = strays[f]
  /\ S \cap DOMAIN m_tracked = {}
  /\ \A c \in DOMAIN wire : Key(c) \notin S
  /\ f \notin Doubled => S = {}

PathOK ==
  /\ DOMAIN wire # {} => m_enabled
  /\ \A c \in DOMAIN wire : CopyOK(c)
  /\ DOMAIN m_tracked \cap arrived = {}
  /\ \A f \in Flow : CountsOK(f)
  /\ \A f \in Flow : \E S \in SUBSET KeysUpTo(f) : StraysOK(f, S)

PathInv == ~disturbed => PathOK

-----------------------------------------------------------------------------
(* The packets of a flow are as many as were numbered. *)
LEMMA KeysUpToCount ==
  ASSUME NEW f, m_flowPktIdMap[f] \in Nat \cup {-1}
  PROVE  IsFiniteSet(KeysUpTo(f)) /\ Cardinality(KeysUpTo(f)) = m_flowPktIdMap[f] + 1
  <1> DEFINE n == m_flowPktIdMap[f]
  <1>1. n \in Int /\ 0 \in Int
    OBVIOUS
  <1> HIDE DEF n
  <1>2. IsFiniteSet(0 .. n) /\ Cardinality(0 .. n) = IF 0 > n THEN 0 ELSE n - 0 + 1
    BY <1>1, FS_Interval
  <1>3. IsFiniteSet({f}) /\ Cardinality({f}) = 1
    BY FS_Singleton
  <1>4. IsFiniteSet({f} \X (0 .. n)) /\ Cardinality({f} \X (0 .. n)) = Cardinality({f}) * Cardinality(0 .. n)
    BY <1>2, <1>3, FS_Product
  <1>5. Cardinality(0 .. n) = n + 1
    BY <1>2 DEF n
  <1> QED
    BY <1>1, <1>3, <1>4, <1>5 DEF KeysUpTo, n

(* The invariant says what the counters are worth. *)
LEMMA PathImplies ==
  ASSUME FlowInv, PathInv
  PROVE  SinglePathExact /\ DoubledBounds
  <1> USE FlowMonitorAssumption
  <1> SUFFICES ASSUME ~disturbed, PathOK
               PROVE  SinglePathExact /\ DoubledBounds
    BY DEF PathInv, SinglePathExact, DoubledBounds
  <1>1. ASSUME NEW f \in Flow
        PROVE  LET s == m_stats[f]
                   n == Cardinality({k \in arrived : k[1] = f})
               IN  /\ f \notin Doubled =>
                        /\ s.rx = n /\ strays[f] = 0
                        /\ s.lost = s.tx - n - Cardinality(TrackedOf(f))
                        /\ s.timesForwarded = Hops[f] * s.rx
                   /\ f \in Doubled =>
                        /\ s.rx <= n /\ n <= s.rx + s.lost /\ strays[f] <= s.tx
                        /\ (Hops[f] + 1) * s.rx <= s.timesForwarded
                        /\ s.timesForwarded <= 2 * Hops[f] * s.rx
    <2> DEFINE s == m_stats[f]
               A == ArrivedOf(f)
               T == TrackedOf(f)
               U == KeysUpTo(f)
    <2>1. PICK S \in SUBSET KeysUpTo(f) : StraysOK(f, S)
      BY DEF PathOK
    <2>2. m_flowPktIdMap[f] \in Nat \cup {-1} /\ s \in FlowStats /\ strays[f] \in Nat
      BY InvFacts DEF FlowInv, MonitorOK, Monitor
    <2>3. IsFiniteSet(U) /\ Cardinality(U) = m_flowPktIdMap[f] + 1
      BY <2>2, KeysUpToCount
    <2>4. /\ s.tx = m_flowPktIdMap[f] + 1 /\ A \subseteq U /\ s.rx <= Cardinality(A)
          /\ f \notin Doubled => s.rx = Cardinality(A) /\ s.timesForwarded = Hops[f] * s.rx
          /\ f \in Doubled => /\ (Hops[f] + 1) * s.rx <= s.timesForwarded
                              /\ s.timesForwarded <= 2 * Hops[f] * s.rx
      BY DEF PathOK, CountsOK
    <2>5. A = {k \in arrived : k[1] = f} /\ A \cap T = {}
      BY DEF ArrivedOf, PathOK, TrackedOf
    <2>6. FlowBalance /\ TypeOK
      BY InvImplies DEF FlowBalance
    <2>7. T \subseteq U
      <3>1. \A k \in T : k \in Flow \X Nat /\ k[1] = f /\ k[2] <= m_flowPktIdMap[f]
        BY <2>6 DEF TypeOK, TrackedOf
      <3> QED
        BY <2>2, <3>1 DEF KeysUpTo
    <2> HIDE DEF A, T, U
    <2>8. /\ IsFiniteSet(A) /\ IsFiniteSet(T) /\ Cardinality(A) \in Nat /\ Cardinality(T) \in Nat
          /\ Cardinality(A \cup T) = Cardinality(A) + Cardinality(T)
          /\ Cardinality(A \cup T) <= Cardinality(U)
      <3>1. IsFiniteSet(A) /\ IsFiniteSet(T)
        BY <2>3, <2>4, <2>7, FS_Subset
      <3>2. Cardinality(A) \in Nat /\ Cardinality(T) \in Nat
        BY <3>1, FS_CardinalityType
      <3>3. Cardinality(A \cup T) = Cardinality(A) + Cardinality(T) - Cardinality(A \cap T)
        BY <3>1, FS_Union
      <3>4. Cardinality(A \cap T) = 0
        BY <2>5, FS_EmptySet
      <3>5. A \cup T \in SUBSET U
        BY <2>4, <2>7
      <3>6. Cardinality(A \cup T) <= Cardinality(U)
        BY <2>3, <3>5, FS_Subset
      <3> QED
        BY <3>1, <3>2, <3>3, <3>4, <3>6
    <2>9. s.tx + strays[f] = s.rx + s.lost + Cardinality(T)
      BY <2>6 DEF FlowBalance, T
    <2>10. Cardinality(S) = strays[f] /\ Cardinality(S) <= Cardinality(U)
      BY <2>1, <2>3, FS_Subset DEF StraysOK, U
    <2>11. f \notin Doubled => strays[f] = 0
      BY <2>1, <2>10, FS_EmptySet DEF StraysOK
    <2>12. s.tx \in Nat /\ s.rx \in Nat /\ s.lost \in Nat
      BY <2>2 DEF FlowStats
    <2>13. /\ strays[f] <= s.tx /\ Cardinality(A) <= s.rx + s.lost
           /\ f \notin Doubled => s.lost = s.tx - Cardinality(A) - Cardinality(T)
      <3> HIDE DEF s
      <3> QED
        BY <2>2, <2>3, <2>4, <2>8, <2>9, <2>10, <2>11, <2>12
    <2> QED
      BY <2>4, <2>5, <2>11, <2>13 DEF T
  <1> QED
    BY <1>1 DEF SinglePathExact, DoubledBounds

-----------------------------------------------------------------------------
(* What the reports do to a packet's record and to the counters of flows.  *)

(* The counters of receptions stay. *)
SameCounts(m, r) ==
  \A f \in Flow : /\ r.stats[f].tx = m.stats[f].tx
                  /\ r.stats[f].rx = m.stats[f].rx
                  /\ r.stats[f].timesForwarded = m.stats[f].timesForwarded

(* The records of the packets other than k stay. *)
SameOthers(t, e, k) ==
  \A j : j # k =>
    /\ j \in DOMAIN e <=> j \in DOMAIN t
    /\ j \in DOMAIN t => e[j].forwarded = t[j].forwarded

(* The record of k is that of n forwardings more. *)
Forwarded(t, e, k, n) ==
  /\ k \in DOMAIN e <=> k \in DOMAIN t
  /\ k \in DOMAIN t => e[k].forwarded = t[k].forwarded + n

(* Strays are counted, n more of flow f. *)
Strayed(m, r, f, n) ==
  \A g \in Flow : r.strays[g] = m.strays[g] + (IF g = f THEN n ELSE 0)

(* A forwarding is counted on the packet's record only. *)
LEMMA ReportForwardingEffect ==
  ASSUME NEW m, MonitorOK(m), NEW c \in Copy, m_enabled
  PROVE  LET r == ReportForwarding(m, c)
         IN  /\ r.stats = m.stats /\ r.strays = m.strays
             /\ SameOthers(m.tracked, r.tracked, Key(c))
             /\ Forwarded(m.tracked, r.tracked, Key(c), 1)
  <1> DEFINE k == Key(c)
             t == m.tracked
             a == t[k].forwarded + 1
             p == [t[k] EXCEPT !.forwarded = a, !.lastSeen = now]
             e == [t EXCEPT ![k] = p]
             r == [tracked |-> e, stats |-> m.stats, strays |-> m.strays]
  <1>1. m = [tracked |-> t, stats |-> m.stats, strays |-> m.strays] /\ TrackedOK(t)
    BY DEF MonitorOK
  <1>2. CASE k \notin DOMAIN t
    BY <1>2 DEF ReportForwarding, SameOthers, Forwarded
  <1>3. CASE k \in DOMAIN t
    <2>1. ReportForwarding(m, c) = r
      BY <1>1, <1>3 DEF ReportForwarding
    <2>2. t[k] \in TrackedPacket /\ t \in [DOMAIN t -> TrackedPacket]
      BY <1>1, <1>3 DEF TrackedOK
    <2>3. p.forwarded = a
      BY <2>2 DEF TrackedPacket
    <2> HIDE DEF p
    <2>4. /\ DOMAIN e = DOMAIN t /\ e[k] = p
          /\ \A j \in DOMAIN t : j # k => e[j] = t[j]
      BY <1>3, <2>2
    <2> HIDE DEF e
    <2>5. SameOthers(t, e, k) /\ Forwarded(t, e, k, 1)
      BY <1>3, <2>3, <2>4 DEF SameOthers, Forwarded
    <2> QED
      BY <2>1, <2>5
  <1> QED
    BY <1>2, <1>3

(* A drop ends the tracking of a packet; of one not tracked it is a stray. *)
LEMMA ReportDropEffect ==
  ASSUME NEW m, MonitorOK(m), NEW c \in Copy, m_enabled
  PROVE  LET r == ReportDrop(m, c)
         IN  /\ SameCounts(m, r)
             /\ Strayed(m, r, c.flow, IF Key(c) \in DOMAIN m.tracked THEN 0 ELSE 1)
             /\ SameOthers(m.tracked, r.tracked, Key(c))
             /\ Key(c) \notin DOMAIN r.tracked
  <1> DEFINE k == Key(c)
             f == c.flow
             t == m.tracked
             s == m.stats[f]
             e == Erase(t, k)
             q == [s EXCEPT !.lost = @ + 1, !.dropped = @ + 1]
             y == IF k \in DOMAIN t THEN m.strays[f] ELSE m.strays[f] + 1
             r == [tracked |-> e, stats |-> [m.stats EXCEPT ![f] = q],
                   strays |-> [m.strays EXCEPT ![f] = y]]
  <1>1. /\ f \in Flow /\ k \in Flow \X Nat
        /\ m = [tracked |-> t, stats |-> m.stats, strays |-> m.strays]
        /\ TrackedOK(t) /\ m.stats \in [Flow -> FlowStats] /\ m.strays \in [Flow -> Nat]
    BY KeyFacts DEF MonitorOK
  <1>2. ReportDrop(m, c) = r
    BY <1>1 DEF ReportDrop
  <1>3. DOMAIN e = DOMAIN t \ {k} /\ \A j \in DOMAIN t \ {k} : e[j] = t[j]
    <2> HIDE DEF t, k
    <2> QED
      BY <1>1, EraseEffect, Zenon
  <1> HIDE DEF e
  <1>4. q.tx = s.tx /\ q.rx = s.rx /\ q.timesForwarded = s.timesForwarded
    BY <1>1 DEF FlowStats
  <1> HIDE DEF q
  <1>5. SameCounts(m, r)
    BY <1>1, <1>4 DEF SameCounts
  <1>6. Strayed(m, r, f, IF k \in DOMAIN t THEN 0 ELSE 1)
    <2>1. ASSUME NEW g \in Flow
          PROVE  r.strays[g] = m.strays[g] + (IF g = f THEN IF k \in DOMAIN t THEN 0 ELSE 1 ELSE 0)
      BY <1>1
    <2> QED
      BY <2>1 DEF Strayed
  <1>7. SameOthers(t, e, k) /\ k \notin DOMAIN e
    BY <1>3 DEF SameOthers
  <1> QED
    BY <1>2, <1>5, <1>6, <1>7

(* A reception of a tracked packet. *)
LEMMA ReportLastRxEffect ==
  ASSUME NEW m, MonitorOK(m), NEW c \in Copy, m_enabled, Key(c) \in DOMAIN m.tracked
  PROVE  LET r == ReportLastRx(m, c)
         IN  /\ r.strays = m.strays
             /\ \A g \in Flow : g # c.flow => r.stats[g] = m.stats[g]
             /\ r.stats[c.flow].tx = m.stats[c.flow].tx
             /\ r.stats[c.flow].rx = m.stats[c.flow].rx + 1
             /\ r.stats[c.flow].timesForwarded
                  = m.stats[c.flow].timesForwarded + m.tracked[Key(c)].forwarded
             /\ SameOthers(m.tracked, r.tracked, Key(c))
             /\ Key(c) \notin DOMAIN r.tracked
  <1> DEFINE k == Key(c)
             f == c.flow
             t == m.tracked
             s == m.stats[f]
             e == Erase(t, k)
             d == Delay(t[k])
             j == IF s.rx > 0 THEN s.jitterSum + Abs(s.lastDelay - d) ELSE s.jitterSum
             x == IF s.rx = 0 THEN now ELSE s.firstRx
             D == s.delaySum + d
             a == s.rx + 1
             g == s.timesForwarded + t[k].forwarded
             q == [s EXCEPT !.delaySum = D, !.jitterSum = j, !.lastDelay = d, !.rx = a,
                            !.firstRx = x, !.lastRx = now, !.timesForwarded = g]
             r == [tracked |-> e, stats |-> [m.stats EXCEPT ![f] = q], strays |-> m.strays]
  <1>1. /\ f \in Flow /\ k \in Flow \X Nat
        /\ m = [tracked |-> t, stats |-> m.stats, strays |-> m.strays]
        /\ TrackedOK(t) /\ m.stats \in [Flow -> FlowStats] /\ m.strays \in [Flow -> Nat]
    BY KeyFacts DEF MonitorOK
  <1>2. ReportLastRx(m, c) = r
    BY <1>1 DEF ReportLastRx
  <1>3. DOMAIN e = DOMAIN t \ {k} /\ \A i \in DOMAIN t \ {k} : e[i] = t[i]
    <2> HIDE DEF t, k
    <2> QED
      BY <1>1, EraseEffect, Zenon
  <1> HIDE DEF e, d, j, x, D, a, g
  <1>4. q.tx = s.tx /\ q.rx = a /\ q.timesForwarded = g
    BY <1>1 DEF FlowStats
  <1> HIDE DEF q
  <1>5. /\ \A h \in Flow : h # f => r.stats[h] = m.stats[h]
        /\ r.stats[f] = q
    BY <1>1
  <1>6. SameOthers(t, e, k) /\ k \notin DOMAIN e
    BY <1>3 DEF SameOthers
  <1> QED
    BY <1>2, <1>4, <1>5, <1>6 DEF a, g

(* A first transmission of a packet that is not tracked. *)
LEMMA ReportFirstTxEffect ==
  ASSUME NEW m, MonitorOK(m), NEW c \in Copy, m_enabled
  PROVE  LET r == ReportFirstTx(m, c)
         IN  /\ r.strays = m.strays
             /\ \A g \in Flow : g # c.flow => r.stats[g] = m.stats[g]
             /\ r.stats[c.flow].tx = m.stats[c.flow].tx + 1
             /\ r.stats[c.flow].rx = m.stats[c.flow].rx
             /\ r.stats[c.flow].timesForwarded = m.stats[c.flow].timesForwarded
             /\ SameOthers(m.tracked, r.tracked, Key(c))
             /\ Key(c) \in DOMAIN r.tracked /\ r.tracked[Key(c)].forwarded = 0
  <1> DEFINE s == m.stats[c.flow]
             f == c.flow
             t == m.tracked
             p == [firstSeen |-> now, lastSeen |-> now, forwarded |-> 0]
             e == Track(t, Key(c), p)
             x == IF s.tx = 0 THEN now ELSE s.firstTx
             a == s.tx + 1
             q == [s EXCEPT !.tx = a, !.firstTx = x, !.lastTx = now]
             r == [tracked |-> e, stats |-> [m.stats EXCEPT ![f] = q], strays |-> m.strays]
  <1>1. /\ f \in Flow
        /\ m = [tracked |-> t, stats |-> m.stats, strays |-> m.strays]
        /\ m.stats \in [Flow -> FlowStats] /\ m.strays \in [Flow -> Nat]
    BY KeyFacts DEF MonitorOK
  <1>2. ReportFirstTx(m, c) = r
    BY <1>1 DEF ReportFirstTx
  <1>3. p.forwarded = 0
    OBVIOUS
  <1> HIDE DEF p
  <1>4. /\ DOMAIN e = DOMAIN t \cup {Key(c)} /\ e[Key(c)] = p
        /\ \A j \in DOMAIN t : j # Key(c) => e[j] = t[j]
    BY DEF Track
  <1> HIDE DEF e, x, a
  <1>5. q.tx = a /\ q.rx = s.rx /\ q.timesForwarded = s.timesForwarded
    BY <1>1 DEF FlowStats
  <1> HIDE DEF q
  <1>6. /\ \A h \in Flow : h # f => r.stats[h] = m.stats[h]
        /\ r.stats[f] = q
    BY <1>1
  <1>7. SameOthers(t, e, Key(c))
    BY <1>4 DEF SameOthers
  <1> QED
    BY <1>2, <1>3, <1>4, <1>5, <1>6, <1>7 DEF a

(* The check forgets old packets only. *)
LEMMA CheckEffect ==
  ASSUME NEW m, MonitorOK(m)
  PROVE  LET r == CheckForLostPackets(m)
         IN  /\ SameCounts(m, r) /\ r.strays = m.strays
             /\ DOMAIN r.tracked = DOMAIN m.tracked \ Old(m)
             /\ \A j \in DOMAIN r.tracked : r.tracked[j] = m.tracked[j]
  <1> DEFINE t == m.tracked
             e == Restrict(t, DOMAIN t \ Old(m))
             G(f) == {k \in Old(m) : k[1] = f}
             L(f) == m.stats[f].lost + Cardinality(G(f))
             Q(f) == [m.stats[f] EXCEPT !.lost = L(f)]
             r == [tracked |-> e, stats |-> [f \in Flow |-> Q(f)], strays |-> m.strays]
  <1>1. m.stats \in [Flow -> FlowStats]
    BY DEF MonitorOK
  <1>2. CheckForLostPackets(m) = r
    BY Zenon DEF CheckForLostPackets
  <1>3. e = [x \in DOMAIN t \ Old(m) |-> t[x]]
    BY DEF Restrict
  <1>4. DOMAIN e = DOMAIN t \ Old(m) /\ \A j \in DOMAIN e : e[j] = t[j]
    BY <1>3
  <1> HIDE DEF e, L
  <1>5. ASSUME NEW f \in Flow
        PROVE  /\ Q(f).tx = m.stats[f].tx /\ Q(f).rx = m.stats[f].rx
               /\ Q(f).timesForwarded = m.stats[f].timesForwarded
    BY <1>1 DEF FlowStats
  <1> HIDE DEF Q
  <1>6. SameCounts(m, r)
    BY <1>5 DEF SameCounts
  <1> QED
    BY <1>2, <1>4, <1>6

-----------------------------------------------------------------------------
(* What the steps do to the wire. *)

(* A copy c leaves the wire, n copies of another take its place. *)
Replaced(b, c, out, n) ==
  (b (-) SetToBag({c})) (+) (IF n = 0 THEN EmptyBag ELSE [x \in {out} |-> n])

(* The copies on the wire, and how many there are, after the step. *)
LEMMA WireAfter ==
  ASSUME NEW b, IsABag(b), NEW c \in DOMAIN b, NEW out, out # c, NEW n \in Nat,
         NEW r, r = Replaced(b, c, out, n)
  PROVE  /\ \A d : d # c /\ d # out => /\ d \in DOMAIN r <=> d \in DOMAIN b
                                       /\ d \in DOMAIN b => r[d] = b[d]
         /\ c \in DOMAIN r <=> b[c] > 1
         /\ c \in DOMAIN r => r[c] = b[c] - 1
         /\ out \in DOMAIN r <=> n > 0 \/ out \in DOMAIN b
         /\ out \in DOMAIN b => r[out] = b[out] + n
         /\ out \notin DOMAIN b /\ n > 0 => r[out] = n
  <1> DEFINE a == b (-) SetToBag({c})
             w == IF n = 0 THEN EmptyBag ELSE [x \in {out} |-> n]
             z == a (+) w
  <1>0. r = z
    BY DEF Replaced
  <1>1. /\ IsABag(a) /\ DOMAIN a \subseteq DOMAIN b
        /\ \A x \in DOMAIN b : x # c => x \in DOMAIN a /\ a[x] = b[x]
        /\ c \in DOMAIN a => a[c] = b[c] - 1
        /\ c \in DOMAIN a <=> b[c] > 1
    BY BagMinus
  <1>2. \A x \in DOMAIN b : b[x] \in Nat /\ b[x] > 0
    BY DEF IsABag
  <1> HIDE DEF a
  <1>3. CASE n = 0
    <2>1. IsABag(w) /\ DOMAIN w = {}
      BY <1>3, BagOfNone
    <2> HIDE DEF w
    <2>2. /\ DOMAIN r = DOMAIN a
          /\ \A x \in DOMAIN a : r[x] = a[x]
      <3>1. /\ DOMAIN z = DOMAIN a \cup DOMAIN w
            /\ \A x \in DOMAIN a : x \notin DOMAIN w => z[x] = a[x]
        BY <1>1, <2>1, BagPlus, Zenon
      <3> HIDE DEF z
      <3> QED
        BY <1>0, <2>1, <3>1
    <2>3. out \in DOMAIN b => r[out] = b[out] + n
      BY <1>1, <1>2, <1>3, <2>2
    <2> QED
      BY <1>1, <1>3, <2>2, <2>3
  <1>4. CASE n # 0
    <2>1. w = [x \in {out} |-> n] /\ n > 0
      BY <1>4
    <2> HIDE DEF w
    <2>2. IsABag(w) /\ DOMAIN w = {out} /\ w[out] = n
      BY <2>1 DEF IsABag
    <2>3. /\ DOMAIN r = DOMAIN a \cup {out}
          /\ \A x \in DOMAIN a : x # out => r[x] = a[x]
          /\ out \notin DOMAIN a => r[out] = n
          /\ out \in DOMAIN a => r[out] = a[out] + n
      <3>1. /\ DOMAIN z = DOMAIN a \cup DOMAIN w
            /\ \A x \in DOMAIN a : x \notin DOMAIN w => z[x] = a[x]
            /\ \A x \in DOMAIN w : x \notin DOMAIN a => z[x] = w[x]
            /\ \A x \in DOMAIN w \cap DOMAIN a : z[x] = a[x] + w[x]
        BY <1>1, <2>2, BagPlus, Zenon
      <3> HIDE DEF z
      <3> QED
        BY <1>0, <2>2, <3>1
    <2>4. /\ \A d : d # c /\ d # out => /\ d \in DOMAIN r <=> d \in DOMAIN b
                                        /\ d \in DOMAIN b => r[d] = b[d]
          /\ c \in DOMAIN r <=> b[c] > 1
          /\ c \in DOMAIN r => r[c] = b[c] - 1
      BY <1>1, <2>3
    <2>5. /\ out \in DOMAIN r
          /\ out \in DOMAIN b => r[out] = b[out] + n
          /\ out \notin DOMAIN b => r[out] = n
      BY <1>1, <2>3
    <2> QED
      BY <2>1, <2>4, <2>5
  <1> QED
    BY <1>3, <1>4

(* The copies of packets other than k stay. *)
WireKeeps(k) ==
  \A d \in Copy : Key(d) # k =>
    /\ d \in DOMAIN wire' <=> d \in DOMAIN wire
    /\ d \in DOMAIN wire => wire'[d] = wire[d]

(* Copies of one packet differ in how far they came. *)
LEMMA SameKey ==
  ASSUME NEW c \in Copy, NEW d \in Copy, Key(c) = Key(d), c.hop = d.hop
  PROVE  c = d
  BY DEF Copy, Key

(* The only copy of a packet, of one that the step leaves alone. *)
LEMMA SingleElsewhere ==
  ASSUME NEW k, WireKeeps(k), DOMAIN wire \subseteq Copy, DOMAIN wire' \subseteq Copy,
         NEW d \in DOMAIN wire', Key(d) # k, Single(d)
  PROVE  Single(d)'
  <1>1. d \in DOMAIN wire /\ wire'[d] = wire[d]
    BY DEF WireKeeps
  <1>2. \A x \in DOMAIN wire' : Key(x) = Key(d) => x \in DOMAIN wire
    BY DEF WireKeeps
  <1> QED
    BY <1>1, <1>2 DEF Single, Key

(* A copy of a packet that the step leaves alone. *)
LEMMA CopyElsewhere ==
  ASSUME NEW k, WireKeeps(k), DOMAIN wire \subseteq Copy, DOMAIN wire' \subseteq Copy,
         SameOthers(m_tracked, m_tracked', k),
         \A f \in Flow : /\ m_flowPktIdMap[f] \in Int /\ m_flowPktIdMap'[f] \in Int
                         /\ m_flowPktIdMap[f] <= m_flowPktIdMap'[f],
         \A c \in DOMAIN wire : CopyOK(c),
         NEW d \in DOMAIN wire', Key(d) # k
  PROVE  CopyOK(d)'
  <1>1. d \in DOMAIN wire /\ wire'[d] = wire[d] /\ d \in Copy /\ CopyOK(d)
    BY DEF WireKeeps
  <1>2. /\ Key(d) \in DOMAIN m_tracked' <=> Key(d) \in DOMAIN m_tracked
        /\ Key(d) \in DOMAIN m_tracked =>
             m_tracked'[Key(d)].forwarded = m_tracked[Key(d)].forwarded
    BY DEF SameOthers
  <1>3. d.flow \in Flow /\ d.id \in Nat /\ d.hop \in Nat
    BY <1>1 DEF Copy
  <1>4. d.hop <= Hops[d.flow] /\ d.id <= m_flowPktIdMap'[d.flow]
    BY <1>1, <1>3 DEF CopyOK
  <1>5. CASE /\ d.hop = 0 \/ d.flow \notin Doubled
             /\ Key(d) \in DOMAIN m_tracked /\ Single(d)
             /\ m_tracked[Key(d)].forwarded = d.hop
    <2>1. Single(d)'
      BY <1>5, SingleElsewhere
    <2> QED
      BY <1>2, <1>4, <1>5, <2>1 DEF CopyOK, Key
  <1>7. CASE /\ d.hop > 0 /\ d.flow \in Doubled
             /\ Key(d) \notin DOMAIN m_tracked /\ Single(d)
    <2>1. Single(d)'
      BY <1>7, SingleElsewhere
    <2> QED
      BY <1>2, <1>4, <1>7, <2>1 DEF CopyOK, Key
  <1>6. CASE /\ d.hop > 0 /\ d.flow \in Doubled
             /\ Key(d) \in DOMAIN m_tracked /\ Paired(d, m_tracked[Key(d)].forwarded)
    <2>1. \A x \in DOMAIN wire' : Key(x) = Key(d) => x \in DOMAIN wire /\ wire'[x] = wire[x]
      BY DEF WireKeeps
    <2>2. Paired(d, m_tracked[Key(d)].forwarded)'
      BY <1>1, <1>2, <1>6, <2>1 DEF Paired, Key
    <2> QED
      BY <1>2, <1>4, <1>6, <2>2 DEF CopyOK, Key
  <1> QED
    BY <1>1, <1>5, <1>6, <1>7 DEF CopyOK

(* The counters of a flow of which no packet was sent or received. *)
LEMMA CountsKept ==
  ASSUME NEW f, CountsOK(f), m_stats'[f].tx = m_stats[f].tx, m_stats'[f].rx = m_stats[f].rx,
         m_stats'[f].timesForwarded = m_stats[f].timesForwarded,
         m_flowPktIdMap'[f] = m_flowPktIdMap[f], ArrivedOf(f)' = ArrivedOf(f)
  PROVE  CountsOK(f)'
  BY Zenon DEF CountsOK, KeysUpTo

(* The strays of a flow of which no stray was dropped; N are packets that  *)
(* were not numbered before.                                               *)
LEMMA StraysKept ==
  ASSUME NEW f, \E S \in SUBSET KeysUpTo(f) : StraysOK(f, S), strays'[f] = strays[f],
         KeysUpTo(f) \subseteq KeysUpTo(f)', NEW N, N \cap KeysUpTo(f) = {},
         DOMAIN m_tracked' \subseteq DOMAIN m_tracked \cup N,
         \A c \in DOMAIN wire' : Key(c) \in N \/ \E d \in DOMAIN wire : Key(d) = Key(c)
  PROVE  \E S \in SUBSET KeysUpTo(f)' : StraysOK(f, S)'
  <1>1. PICK S \in SUBSET KeysUpTo(f) : StraysOK(f, S)
    OBVIOUS
  <1>2. S \in SUBSET KeysUpTo(f)'
    OBVIOUS
  <1>3. StraysOK(f, S)'
    BY <1>1 DEF StraysOK, Key
  <1> QED
    BY <1>2, <1>3

(* A stray was dropped, the last copy of k. *)
LEMMA StraysMore ==
  ASSUME NEW f, f \in Doubled, \E S \in SUBSET KeysUpTo(f) : StraysOK(f, S),
         IsFiniteSet(KeysUpTo(f)), KeysUpTo(f)' = KeysUpTo(f), NEW k \in KeysUpTo(f),
         k \in DOMAIN m_tracked \/ \E d \in DOMAIN wire : Key(d) = k,
         strays'[f] = strays[f] + 1,
         DOMAIN m_tracked' \subseteq DOMAIN m_tracked \ {k},
         \A c \in DOMAIN wire' : Key(c) # k /\ \E d \in DOMAIN wire : Key(d) = Key(c)
  PROVE  \E S \in SUBSET KeysUpTo(f)' : StraysOK(f, S)'
  <1>1. PICK S \in SUBSET KeysUpTo(f) : StraysOK(f, S)
    OBVIOUS
  <1>2. S \cup {k} \in SUBSET KeysUpTo(f)'
    OBVIOUS
  <1>3. k \notin S
    BY <1>1 DEF StraysOK
  <1>4. Cardinality(S \cup {k}) = Cardinality(S) + 1
    <2>1. IsFiniteSet(S)
      BY FS_Subset
    <2> QED
      BY <1>3, <2>1, FS_AddElement
  <1>5. StraysOK(f, S \cup {k})'
    <2>1. Cardinality(S \cup {k}) = strays'[f]
      BY <1>1, <1>4 DEF StraysOK
    <2>2. (S \cup {k}) \cap DOMAIN m_tracked' = {}
      BY <1>1 DEF StraysOK
    <2>3. \A c \in DOMAIN wire' : Key(c) \notin S \cup {k}
      BY <1>1 DEF StraysOK
    <2> QED
      BY <2>1, <2>2, <2>3 DEF StraysOK, Key
  <1> QED
    BY <1>2, <1>5

-----------------------------------------------------------------------------
(* One lemma per action. *)

(* Nothing is under way, nothing was counted. *)
LEMMA PathInit == Init => PathInv
  <1> SUFFICES ASSUME Init PROVE PathOK
    BY DEF PathInv
  <1> USE FlowMonitorAssumption DEF Init
  <1>1. DOMAIN wire = {} /\ DOMAIN m_tracked = {}
    BY BagOfNone
  <1>2. ASSUME NEW f \in Flow
        PROVE  CountsOK(f) /\ StraysOK(f, {})
    <2>1. ArrivedOf(f) = {} /\ Cardinality(ArrivedOf(f)) = 0 /\ Cardinality({}) = 0
      BY FS_EmptySet DEF ArrivedOf
    <2>2. m_stats[f].tx = 0 /\ m_stats[f].rx = 0 /\ m_stats[f].timesForwarded = 0
      BY DEF NewStats
    <2>3. Hops[f] \in Nat
      OBVIOUS
    <2>4. CountsOK(f)
      BY <2>1, <2>2, <2>3 DEF CountsOK
    <2>5. StraysOK(f, {})
      BY <1>1, <2>1 DEF StraysOK
    <2> QED
      BY <2>4, <2>5
  <1> QED
    BY <1>1, <1>2 DEF PathOK

(* Calls and the clock. *)
LEMMA PathStill ==
  ASSUME PathOK, UNCHANGED <<m_flowPktIdMap, monitor, wire, arrived>>,
         DOMAIN wire # {} /\ m_enabled => m_enabled'
  PROVE  PathOK'
  <1>1. /\ m_flowPktIdMap' = m_flowPktIdMap /\ wire' = wire /\ arrived' = arrived
        /\ m_tracked' = m_tracked /\ m_stats' = m_stats /\ strays' = strays
    BY DEF monitor
  <1>2. ASSUME NEW c \in DOMAIN wire
        PROVE  CopyOK(c)'
    BY <1>1, Zenon DEF PathOK, CopyOK, Single, Paired, Key
  <1>3. (\A f \in Flow : CountsOK(f))'
    BY <1>1, Zenon DEF PathOK, CountsOK, ArrivedOf, KeysUpTo
  <1>4. (\A f \in Flow : \E S \in SUBSET KeysUpTo(f) : StraysOK(f, S))'
    BY <1>1, Zenon DEF PathOK, StraysOK, KeysUpTo, Key
  <1> QED
    BY <1>1, <1>2, <1>3, <1>4, Zenon DEF PathOK

(* The check, when it gives up no packet under way. *)
LEMMA PathCheck ==
  ASSUME FlowInv, PathOK, PeriodicCheckForLostPackets, ~disturbed'
  PROVE  PathOK'
  <1> DEFINE w == CheckForLostPackets(Monitor)
  <1>1. /\ Becomes(w) /\ disturbed' = (disturbed \/ GivesUp)
        /\ UNCHANGED <<m_enabled, m_flowPktIdMap, wire, arrived>>
    BY DEF PeriodicCheckForLostPackets
  <1>2. \A c \in DOMAIN wire : Key(c) \notin Old(Monitor)
    BY <1>1 DEF GivesUp, BagToSet
  <1>3. /\ SameCounts(Monitor, w) /\ w.strays = strays
        /\ DOMAIN w.tracked = DOMAIN m_tracked \ Old(Monitor)
        /\ \A j \in DOMAIN w.tracked : w.tracked[j] = m_tracked[j]
    BY InvFacts, CheckEffect DEF Monitor
  <1> HIDE DEF w
  <1>4. /\ strays' = strays /\ DOMAIN m_tracked' \subseteq DOMAIN m_tracked
        /\ \A c \in DOMAIN wire :
             /\ Key(c) \in DOMAIN m_tracked' <=> Key(c) \in DOMAIN m_tracked
             /\ Key(c) \in DOMAIN m_tracked => m_tracked'[Key(c)] = m_tracked[Key(c)]
        /\ \A f \in Flow : /\ m_stats'[f].tx = m_stats[f].tx /\ m_stats'[f].rx = m_stats[f].rx
                           /\ m_stats'[f].timesForwarded = m_stats[f].timesForwarded
    BY <1>1, <1>2, <1>3 DEF Becomes, SameCounts, Monitor
  <1>5. ASSUME NEW c \in DOMAIN wire
        PROVE  CopyOK(c)'
    BY <1>1, <1>4, Zenon DEF PathOK, CopyOK, Single, Paired, Key
  <1>6. ASSUME NEW f \in Flow
        PROVE  CountsOK(f)' /\ \E S \in SUBSET KeysUpTo(f)' : StraysOK(f, S)'
    <2>1. ArrivedOf(f)' = ArrivedOf(f) /\ KeysUpTo(f)' = KeysUpTo(f)
      BY <1>1 DEF ArrivedOf, KeysUpTo
    <2>2. CountsOK(f)'
      BY <1>1, <1>4, <2>1, CountsKept DEF PathOK
    <2>3. DOMAIN m_tracked' \subseteq DOMAIN m_tracked \cup {} /\ {} \cap KeysUpTo(f) = {}
      BY <1>4
    <2>4. \A c \in DOMAIN wire' : \E d \in DOMAIN wire : Key(d) = Key(c)
      BY <1>1
    <2>5. \E S \in SUBSET KeysUpTo(f) : StraysOK(f, S)
      BY DEF PathOK
    <2>6. \E S \in SUBSET KeysUpTo(f)' : StraysOK(f, S)'
      BY <1>4, <2>1, <2>3, <2>4, <2>5, StraysKept
    <2> QED
      BY <2>2, <2>6
  <1> QED
    BY <1>1, <1>4, <1>5, <1>6 DEF PathOK

(* One copy of c leaves the wire. *)
WireLoses(c) ==
  /\ \A d \in Copy : d # c => /\ d \in DOMAIN wire' <=> d \in DOMAIN wire
                              /\ d \in DOMAIN wire => wire'[d] = wire[d]
  /\ c \in DOMAIN wire' <=> wire[c] > 1
  /\ c \in DOMAIN wire' => wire'[c] = wire[c] - 1

(* A copy leaves the wire. *)
LEMMA WireMinus ==
  ASSUME IsABag(wire), NEW c \in DOMAIN wire, wire' = wire (-) SetToBag({c})
  PROVE  WireLoses(c)
  BY BagMinus DEF WireLoses

(* The copies of other packets stay. *)
LEMMA LosesKeeps ==
  ASSUME NEW c, WireLoses(c)
  PROVE  WireKeeps(Key(c))
  BY Zenon DEF WireLoses, WireKeeps

(* What is left when a copy leaves the wire: of a pair, one copy. *)
LEMMA Leftover ==
  ASSUME DOMAIN wire \subseteq Copy, DOMAIN wire' \subseteq Copy, NEW c \in DOMAIN wire,
         \A d \in DOMAIN wire : CopyOK(d), WireLoses(c), m_tracked[Key(c)].forwarded \in Nat,
         NEW d \in DOMAIN wire', Key(d) = Key(c)
  PROVE  /\ Single(d)' /\ d.hop > 0 /\ d.flow \in Doubled
         /\ Key(c) \in DOMAIN m_tracked
         /\ d \in DOMAIN wire
  <1> DEFINE F == m_tracked[Key(c)].forwarded
  <1>1. c \in Copy /\ d \in Copy /\ c.hop \in Nat /\ d.hop \in Nat
    BY DEF Copy
  <1>2. d \in DOMAIN wire
    BY <1>1, Zenon DEF WireLoses
  <1>3. ~Single(c) /\ ~Single(d)
    BY <1>1, <1>2 DEF Single, WireLoses
  <1>4. /\ d.hop > 0 /\ d.flow \in Doubled
        /\ Key(c) \in DOMAIN m_tracked /\ Paired(c, F) /\ Paired(d, F)
    BY <1>2, <1>3 DEF CopyOK
  <1>5. wire'[d] = 1
    <2>1. CASE d = c
      BY <2>1, <1>4 DEF Paired, WireLoses
    <2>2. CASE d # c
      BY <1>1, <1>2, <1>4, <2>2 DEF Paired, WireLoses
    <2> QED
      BY <2>1, <2>2
  <1>6. ASSUME NEW x \in DOMAIN wire', Key(x) = Key(d)
        PROVE  x = d
    <2>1. x \in Copy /\ x.hop \in Nat
      BY DEF Copy
    <2>5. x \in DOMAIN wire
      BY <2>1, Zenon DEF WireLoses
    <2>2. CASE x # c /\ d # c
      <3>1. F = c.hop + d.hop /\ F = c.hop + x.hop
        BY <1>2, <1>4, <1>6, <2>1, <2>2, <2>5 DEF Paired
      <3>2. x.hop = d.hop
        BY <1>1, <2>1, <3>1
      <3> QED
        BY <1>1, <1>6, <2>1, <3>2, SameKey
    <2>3. CASE x # c /\ d = c
      BY <1>4, <1>6, <2>1, <2>3, <2>5 DEF Paired, WireLoses
    <2>4. CASE x = c /\ d # c
      BY <1>2, <1>4, <1>6, <2>4 DEF Paired, WireLoses
    <2> QED
      BY <2>2, <2>3, <2>4
  <1>7. Single(d)'
    BY <1>5, <1>6 DEF Single, Key
  <1> QED
    BY <1>2, <1>4, <1>7

(* The facts about the state that these proofs use. *)
LEMMA PathFacts ==
  ASSUME FlowInv
  PROVE  /\ now \in Nat /\ IsABag(wire) /\ DOMAIN wire \subseteq Copy
         /\ MonitorOK(Monitor)
         /\ Monitor.tracked = m_tracked /\ Monitor.stats = m_stats /\ Monitor.strays = strays
         /\ m_flowPktIdMap \in [Flow -> Nat \cup {-1}]
         /\ m_stats \in [Flow -> FlowStats] /\ strays \in [Flow -> Nat]
         /\ \A f \in Flow : /\ m_flowPktIdMap[f] \in Int
                            /\ IsFiniteSet(KeysUpTo(f)) /\ (PathOK => IsFiniteSet(ArrivedOf(f)))
         /\ \A k \in DOMAIN m_tracked : m_tracked[k].forwarded \in Nat
  <1>1. /\ now \in Nat /\ IsABag(wire) /\ DOMAIN wire \subseteq Copy
        /\ MonitorOK(Monitor)
        /\ Monitor.tracked = m_tracked /\ Monitor.stats = m_stats /\ Monitor.strays = strays
        /\ m_flowPktIdMap \in [Flow -> Nat \cup {-1}]
    BY InvFacts DEF Monitor
  <1>2. m_stats \in [Flow -> FlowStats] /\ strays \in [Flow -> Nat] /\ TrackedOK(m_tracked)
    BY <1>1 DEF MonitorOK
  <1>3. \A k \in DOMAIN m_tracked : m_tracked[k].forwarded \in Nat
    BY <1>2 DEF TrackedOK, TrackedPacket
  <1>4. ASSUME NEW f \in Flow
        PROVE  /\ m_flowPktIdMap[f] \in Int
               /\ IsFiniteSet(KeysUpTo(f)) /\ (PathOK => IsFiniteSet(ArrivedOf(f)))
    <2>1. m_flowPktIdMap[f] \in Nat \cup {-1}
      BY <1>1
    <2>2. IsFiniteSet(KeysUpTo(f))
      BY <2>1, KeysUpToCount
    <2>3. PathOK => ArrivedOf(f) \subseteq KeysUpTo(f)
      BY DEF PathOK, CountsOK
    <2>4. PathOK => IsFiniteSet(ArrivedOf(f))
      BY <2>2, <2>3, FS_Subset
    <2> QED
      BY <2>1, <2>2, <2>4
  <1> QED
    BY <1>1, <1>2, <1>3, <1>4

(* A copy has been numbered. *)
LEMMA CopyNumbered ==
  ASSUME FlowInv, PathOK, NEW c \in DOMAIN wire
  PROVE  /\ c \in Copy /\ c.flow \in Flow /\ Key(c) \in KeysUpTo(c.flow) /\ Key(c)[1] = c.flow
         /\ CopyOK(c) /\ m_enabled /\ wire[c] \in Nat /\ c.hop \in Nat
  <1>1. c \in Copy /\ CopyOK(c) /\ m_enabled /\ c.hop \in Nat /\ wire[c] \in Nat
    BY PathFacts DEF PathOK, IsABag, Copy
  <1>2. c.id <= m_flowPktIdMap[c.flow] /\ c.flow \in Flow /\ c.id \in Nat /\ Key(c) = <<c.flow, c.id>>
    BY <1>1, KeyFacts DEF CopyOK, Key
  <1>3. m_flowPktIdMap[c.flow] \in Int
    BY <1>2, PathFacts
  <1>4. Key(c) \in KeysUpTo(c.flow)
    BY <1>2, <1>3 DEF KeysUpTo
  <1> QED
    BY <1>1, <1>2, <1>4

(* The flows of which no packet is at stake. *)
LEMMA FlowKept ==
  ASSUME PathOK, NEW f \in Flow, m_stats'[f].tx = m_stats[f].tx, m_stats'[f].rx = m_stats[f].rx,
         m_stats'[f].timesForwarded = m_stats[f].timesForwarded, strays'[f] = strays[f],
         m_flowPktIdMap'[f] = m_flowPktIdMap[f], ArrivedOf(f)' = ArrivedOf(f),
         NEW N, N \cap KeysUpTo(f) = {},
         DOMAIN m_tracked' \subseteq DOMAIN m_tracked \cup N,
         \A c \in DOMAIN wire' : Key(c) \in N \/ \E d \in DOMAIN wire : Key(d) = Key(c)
  PROVE  CountsOK(f)' /\ \E S \in SUBSET KeysUpTo(f)' : StraysOK(f, S)'
  <1>1. CountsOK(f) /\ \E S \in SUBSET KeysUpTo(f) : StraysOK(f, S)
    BY DEF PathOK
  <1>2. KeysUpTo(f)' = KeysUpTo(f)
    BY DEF KeysUpTo
  <1>3. CountsOK(f)'
    BY <1>1, CountsKept
  <1>4. \E S \in SUBSET KeysUpTo(f)' : StraysOK(f, S)'
    BY <1>1, <1>2, StraysKept
  <1> QED
    BY <1>3, <1>4

(* A copy disappears unreported: of a pair the other one stays tracked. *)
LEMMA PathCorrupt ==
  ASSUME FlowInv, PathOK, NEW c \in BagToSet(wire), Corrupt(c)
  PROVE  PathOK'
  <1>1. /\ c \in DOMAIN wire /\ wire' = wire (-) SetToBag({c})
        /\ m_enabled' = m_enabled /\ m_flowPktIdMap' = m_flowPktIdMap /\ m_tracked' = m_tracked
        /\ m_stats' = m_stats /\ strays' = strays /\ arrived' = arrived
    BY DEF Corrupt, BagToSet, clock, monitor
  <1>2. WireLoses(c) /\ DOMAIN wire' \subseteq DOMAIN wire
    BY <1>1, PathFacts, WireMinus, BagMinus
  <1>3. CopyOK(c) /\ c \in Copy /\ wire[c] \in Nat /\ m_enabled
    BY <1>1, CopyNumbered
  <1>4. ASSUME NEW d \in DOMAIN wire'
        PROVE  CopyOK(d)'
    <2>1. d \in DOMAIN wire /\ d \in Copy /\ CopyOK(d) /\ wire'[d] \in {wire[d], 1}
      <3>1. d \in DOMAIN wire /\ d \in Copy /\ CopyOK(d)
        BY <1>2, PathFacts DEF PathOK
      <3>2. CASE d = c
        <4>1. wire[c] = 1 \/ wire[c] = 2
          BY <1>3 DEF CopyOK, Single, Paired
        <4> QED
          BY <1>2, <3>1, <3>2, <4>1 DEF WireLoses
      <3>3. CASE d # c
        BY <1>2, <3>1, <3>3 DEF WireLoses
      <3> QED
        BY <3>2, <3>3
    <2>2. Single(d) => Single(d)'
      BY <1>2, <2>1 DEF Single, Key
    <2>3. ASSUME NEW n, Paired(d, n)
          PROVE  Paired(d, n)'
      BY <1>2, <2>1, <2>3 DEF Paired, Key
    <2> QED
      BY <1>1, <2>1, <2>2, <2>3 DEF CopyOK, Key
  <1>5. ASSUME NEW f \in Flow
        PROVE  CountsOK(f)' /\ \E S \in SUBSET KeysUpTo(f)' : StraysOK(f, S)'
    <2>1. ArrivedOf(f)' = ArrivedOf(f)
      BY <1>1 DEF ArrivedOf
    <2>2. \A d \in DOMAIN wire' : \E x \in DOMAIN wire : Key(x) = Key(d)
      BY <1>2
    <2>3. {} \cap KeysUpTo(f) = {} /\ DOMAIN m_tracked' \subseteq DOMAIN m_tracked \cup {}
      BY <1>1
    <2> QED
      BY <1>1, <2>1, <2>2, <2>3, FlowKept
  <1> QED
    BY <1>1, <1>3, <1>4, <1>5 DEF PathOK

(* The record of a copy's packet is gone, and so is the copy: what is left *)
(* of its pair is untracked, and other packets are as they were.           *)
LEMMA CopiesAfterErase ==
  ASSUME FlowInv, PathOK, FlowInv', NEW c \in DOMAIN wire, WireLoses(c),
         m_flowPktIdMap' = m_flowPktIdMap,
         SameOthers(m_tracked, m_tracked', Key(c)), Key(c) \notin DOMAIN m_tracked',
         NEW d \in DOMAIN wire'
  PROVE  CopyOK(d)' /\ \E x \in DOMAIN wire : Key(x) = Key(d)
  <1>1. /\ DOMAIN wire \subseteq Copy /\ DOMAIN wire' \subseteq Copy
        /\ \A f \in Flow : /\ m_flowPktIdMap[f] \in Int /\ m_flowPktIdMap'[f] \in Int
                           /\ m_flowPktIdMap[f] <= m_flowPktIdMap'[f]
        /\ \A x \in DOMAIN wire : CopyOK(x)
    BY PathFacts DEF PathOK, FlowInv, WireOK, BagToSet
  <1>2. CASE Key(d) # Key(c)
    <2>1. WireKeeps(Key(c))
      BY LosesKeeps
    <2>2. CopyOK(d)'
      BY <1>1, <1>2, <2>1, CopyElsewhere
    <2>3. d \in DOMAIN wire
      BY <1>1, <1>2, <2>1 DEF WireKeeps
    <2> QED
      BY <2>2, <2>3
  <1>3. CASE Key(d) = Key(c)
    <2>1. Key(c) \in DOMAIN m_tracked => m_tracked[Key(c)].forwarded \in Nat
      BY PathFacts
    <2>2. CASE Key(c) \in DOMAIN m_tracked
      <3>1. Single(d)' /\ d.hop > 0 /\ d.flow \in Doubled /\ d \in DOMAIN wire
        BY <1>1, <1>3, <2>1, <2>2, Leftover
      <3>2. CopyOK(d)
        BY <1>1, <3>1
      <3>3. d.hop <= Hops[d.flow] /\ d.id <= m_flowPktIdMap[d.flow]
        BY <3>2 DEF CopyOK
      <3>4. CopyOK(d)'
        BY <1>3, <3>1, <3>3 DEF CopyOK, Key
      <3> QED
        BY <3>1, <3>4
    <2>3. CASE Key(c) \notin DOMAIN m_tracked
      <3>1. Single(c) /\ wire[c] = 1
        BY <1>1, <2>3 DEF CopyOK, Single
      <3>2. c \notin DOMAIN wire'
        BY <3>1 DEF WireLoses
      <3>3. d \in DOMAIN wire
        BY <1>1, <3>2 DEF WireLoses
      <3> QED
        BY <1>3, <3>1, <3>2, <3>3 DEF Single
    <2> QED
      BY <2>2, <2>3
  <1> QED
    BY <1>2, <1>3

(* One more packet received, which was forwarded n times. *)
LEMMA ForwardedSum ==
  ASSUME NEW h \in Nat, NEW r \in Nat, NEW t \in Nat, NEW n \in Nat
  PROVE  /\ t = h * r /\ n = h => t + n = h * (r + 1)
         /\ (h + 1) * r <= t /\ h + 1 <= n => (h + 1) * (r + 1) <= t + n
         /\ t <= 2 * h * r /\ n <= 2 * h => t + n <= 2 * h * (r + 1)
  <1>1. h * (r + 1) = h * r + h
    OBVIOUS
  <1>2. ASSUME NEW a \in Nat
        PROVE  a * (r + 1) = a * r + a /\ a * r \in Nat
    OBVIOUS
  <1> DEFINE a == h + 1
             b == 2 * h
  <1>3. a \in Nat /\ b \in Nat
    OBVIOUS
  <1>4. a * (r + 1) = a * r + a /\ a * r \in Nat /\ b * (r + 1) = b * r + b /\ b * r \in Nat
    BY <1>2, <1>3
  <1> HIDE DEF a, b
  <1>5. /\ a * r <= t /\ a <= n => a * (r + 1) <= t + n
        /\ t <= b * r /\ n <= b => t + n <= b * (r + 1)
    BY <1>3, <1>4
  <1> QED
    BY <1>1, <1>5 DEF a, b

(* The first copy of a packet to arrive is counted, a second is not. *)
LEMMA PathDeliver ==
  ASSUME FlowInv, PathOK, FlowInv', NEW c \in BagToSet(wire), Deliver(c)
  PROVE  PathOK'
  <1> USE FlowMonitorAssumption
  <1> DEFINE k == Key(c)
             f == c.flow
             w == ReportLastRx(Monitor, c)
  <1>1. /\ c \in DOMAIN wire /\ c.hop = Hops[c.flow] /\ Becomes(w)
        /\ wire' = wire (-) SetToBag({c}) /\ arrived' = arrived \cup {k}
        /\ m_enabled' = m_enabled /\ m_flowPktIdMap' = m_flowPktIdMap
    BY DEF Deliver, BagToSet, clock
  <1>2. WireLoses(c) /\ DOMAIN wire' \subseteq DOMAIN wire
    BY <1>1, PathFacts, WireMinus, BagMinus
  <1>3. /\ c \in Copy /\ f \in Flow /\ k \in KeysUpTo(f) /\ k[1] = f /\ CopyOK(c) /\ m_enabled
        /\ c.hop \in Nat /\ Hops[f] \in Nat /\ Hops[f] > 0
    BY <1>1, CopyNumbered
  <1>4. /\ SameOthers(m_tracked, m_tracked', k) /\ k \notin DOMAIN m_tracked'
        /\ strays' = strays
        /\ \A g \in Flow : g # f => m_stats'[g] = m_stats[g]
        /\ m_stats'[f].tx = m_stats[f].tx
        /\ IF k \in DOMAIN m_tracked
             THEN /\ m_stats'[f].rx = m_stats[f].rx + 1
                  /\ m_stats'[f].timesForwarded
                       = m_stats[f].timesForwarded + m_tracked[k].forwarded
             ELSE m_stats' = m_stats
    <2>1. CASE k \in DOMAIN m_tracked
      <3>1. /\ w.strays = Monitor.strays
            /\ \A g \in Flow : g # f => w.stats[g] = Monitor.stats[g]
            /\ w.stats[f].tx = Monitor.stats[f].tx
            /\ w.stats[f].rx = Monitor.stats[f].rx + 1
            /\ w.stats[f].timesForwarded
                 = Monitor.stats[f].timesForwarded + Monitor.tracked[k].forwarded
            /\ SameOthers(Monitor.tracked, w.tracked, k)
            /\ k \notin DOMAIN w.tracked
        BY <1>3, <2>1, PathFacts, ReportLastRxEffect
      <3> HIDE DEF w, k, f
      <3> QED
        BY <1>1, <2>1, <3>1, PathFacts DEF Becomes
    <2>2. CASE k \notin DOMAIN m_tracked
      <3>1. w = Monitor
        BY <2>2, PathFacts DEF ReportLastRx
      <3>2. m_tracked' = m_tracked /\ m_stats' = m_stats /\ strays' = strays
        BY <1>1, <3>1, PathFacts DEF Becomes
      <3> QED
        BY <2>2, <3>2 DEF SameOthers
    <2> QED
      BY <2>1, <2>2
  <1> HIDE DEF w
  <1>5. ASSUME NEW d \in DOMAIN wire'
        PROVE  CopyOK(d)' /\ \E x \in DOMAIN wire : Key(x) = Key(d)
    BY <1>1, <1>2, <1>4, CopiesAfterErase
  <1>6. DOMAIN m_tracked' \subseteq DOMAIN m_tracked
    BY <1>4 DEF SameOthers
  <1>7. DOMAIN m_tracked' \cap arrived' = {}
    BY <1>1, <1>4, <1>6 DEF PathOK
  <1>8. ASSUME NEW g \in Flow, g # f
        PROVE  CountsOK(g)'
    <2>1. ArrivedOf(g)' = ArrivedOf(g)
      BY <1>1, <1>3, <1>8 DEF ArrivedOf
    <2>2. CountsOK(g)
      BY DEF PathOK
    <2> QED
      BY <1>1, <1>4, <1>8, <2>1, <2>2, CountsKept
  <1>9. CountsOK(f)'
    <2> DEFINE s == m_stats[f]
               q == m_stats'[f]
               A == ArrivedOf(f)
               B == ArrivedOf(f)'
    <2>1. /\ s.tx = m_flowPktIdMap[f] + 1 /\ A \subseteq KeysUpTo(f) /\ s.rx <= Cardinality(A)
          /\ f \notin Doubled => s.rx = Cardinality(A) /\ s.timesForwarded = Hops[f] * s.rx
          /\ f \in Doubled => /\ (Hops[f] + 1) * s.rx <= s.timesForwarded
                              /\ s.timesForwarded <= 2 * Hops[f] * s.rx
      BY <1>3 DEF PathOK, CountsOK
    <2>2. B = A \cup {k} /\ (k \in DOMAIN m_tracked => k \notin A)
      BY <1>1, <1>3 DEF ArrivedOf, PathOK
    <2>3. IsFiniteSet(A)
      BY <1>3, PathFacts
    <2>4. s.rx \in Nat /\ s.timesForwarded \in Nat
      BY <1>3, PathFacts DEF FlowStats
    <2>5. B \subseteq KeysUpTo(f)'
      BY <1>1, <1>3, <2>1, <2>2 DEF KeysUpTo
    <2>6. q.tx = m_flowPktIdMap'[f] + 1
      BY <1>1, <1>4, <2>1
    <2> HIDE DEF A, B, s, q, k, f
    <2>7. Cardinality(A) \in Nat
      BY <2>3, FS_CardinalityType
    <2>8. CASE k \in DOMAIN m_tracked
      <3> DEFINE F == m_tracked[k].forwarded
      <3>1. Cardinality(B) = Cardinality(A) + 1
        BY <2>2, <2>3, <2>8, FS_AddElement
      <3>2. F \in Nat
        BY <2>8, PathFacts
      <3>3. q.rx = s.rx + 1 /\ q.timesForwarded = s.timesForwarded + F
        BY <1>4, <2>8 DEF s, q
      <3>4. /\ f \notin Doubled => F = Hops[f]
            /\ f \in Doubled => Hops[f] < F /\ F <= Hops[f] + Hops[f]
        BY <1>1, <1>3, <2>8 DEF CopyOK, Paired, k, f
      <3> HIDE DEF F
      <3>5. /\ f \notin Doubled => q.timesForwarded = Hops[f] * (s.rx + 1)
            /\ f \in Doubled => /\ (Hops[f] + 1) * (s.rx + 1) <= q.timesForwarded
                                /\ q.timesForwarded <= 2 * Hops[f] * (s.rx + 1)
        <4>1. f \in Doubled => Hops[f] + 1 <= F /\ F <= 2 * Hops[f]
          BY <1>3, <3>2, <3>4
        <4> QED
          BY <1>3, <2>1, <2>4, <3>2, <3>3, <3>4, <4>1, ForwardedSum
      <3>6. q.rx <= Cardinality(B) /\ (f \notin Doubled => q.rx = Cardinality(B))
        BY <2>1, <2>4, <2>7, <3>1, <3>3
      <3> QED
        BY <2>5, <2>6, <3>3, <3>5, <3>6 DEF CountsOK, B, q
    <2>9. CASE k \notin DOMAIN m_tracked
      <3>1. q = s /\ f \in Doubled
        BY <1>3, <1>4, <2>9 DEF CopyOK, q, s, k, f
      <3>2. Cardinality(A) <= Cardinality(B)
        <4>1. IsFiniteSet(B) /\ A \in SUBSET B
          BY <2>2, <2>3, FS_AddElement
        <4> QED
          BY <4>1, FS_Subset
      <3>3. Cardinality(B) \in Nat
        BY <2>2, <2>3, FS_AddElement, FS_CardinalityType
      <3>4. q.rx <= Cardinality(B)
        BY <2>1, <2>4, <2>7, <3>1, <3>2, <3>3
      <3> QED
        BY <2>1, <2>5, <2>6, <3>1, <3>4 DEF CountsOK, B, q
    <2> QED
      BY <2>8, <2>9
  <1>10. ASSUME NEW g \in Flow
         PROVE  \E S \in SUBSET KeysUpTo(g)' : StraysOK(g, S)'
    <2>1. KeysUpTo(g)' = KeysUpTo(g)
      BY <1>1 DEF KeysUpTo
    <2>2. {} \cap KeysUpTo(g) = {} /\ DOMAIN m_tracked' \subseteq DOMAIN m_tracked \cup {}
      BY <1>6
    <2>3. \E S \in SUBSET KeysUpTo(g) : StraysOK(g, S)
      BY DEF PathOK
    <2> QED
      BY <1>4, <1>5, <2>1, <2>2, <2>3, StraysKept
  <1> QED
    BY <1>1, <1>3, <1>5, <1>7, <1>8, <1>9, <1>10 DEF PathOK

(* A drop after other reports. *)
LEMMA DropAfter ==
  ASSUME NEW m, MonitorOK(m), NEW r, MonitorOK(r), NEW c \in Copy, m_enabled,
         SameOthers(m.tracked, r.tracked, Key(c))
  PROVE  LET w == ReportDrop(r, c)
         IN  SameOthers(m.tracked, w.tracked, Key(c)) /\ Key(c) \notin DOMAIN w.tracked
  <1> DEFINE w == ReportDrop(r, c)
  <1>1. SameOthers(r.tracked, w.tracked, Key(c)) /\ Key(c) \notin DOMAIN w.tracked
    BY ReportDropEffect
  <1> HIDE DEF w
  <1> QED
    BY <1>1 DEF SameOthers, w

(* A packet with a new number. *)
LEMMA PathSend ==
  ASSUME FlowInv, PathOK, FlowInv', NEW f \in Flow, Send(f), ~disturbed'
  PROVE  PathOK'
  <1> USE FlowMonitorAssumption
  <1> DEFINE id == m_flowPktIdMap[f] + 1
             c  == [flow |-> f, id |-> id, hop |-> 0]
             k  == Key(c)
  <1>1. PICK lost \in BOOLEAN :
          /\ Becomes(Enqueued(ReportFirstTx(Monitor, c), c, lost))
          /\ wire' = IF lost THEN wire ELSE wire (+) SetToBag({c})
    BY Zenon DEF Send
  <1>2. /\ m_flowPktIdMap' = [m_flowPktIdMap EXCEPT ![f] = id]
        /\ m_enabled /\ m_enabled' = m_enabled /\ arrived' = arrived
    BY Zenon DEF Send, clock
  <1>3. /\ id \in Nat /\ id = m_flowPktIdMap[f] + 1 /\ m_flowPktIdMap[f] \in Int
        /\ m_flowPktIdMap'[f] = id
        /\ \A g \in Flow : g # f => m_flowPktIdMap'[g] = m_flowPktIdMap[g]
    BY <1>2, PathFacts
  <1> HIDE DEF id
  <1>4. c \in Copy /\ k = <<f, id>> /\ c.flow = f /\ c.hop = 0 /\ c.id = id
    BY <1>3 DEF Copy, Key
  <1> HIDE DEF c
  <1>5. \A g \in Flow : k \notin KeysUpTo(g)
    BY <1>3, <1>4 DEF KeysUpTo
  <1>6. k \notin arrived /\ \A d \in DOMAIN wire : Key(d) # k
    <2>1. ArrivedOf(f) \subseteq KeysUpTo(f)
      BY DEF PathOK, CountsOK
    <2>2. k \notin arrived
      BY <1>4, <1>5, <2>1 DEF ArrivedOf
    <2>3. \A d \in DOMAIN wire : d.flow \in Flow /\ Key(d) \in KeysUpTo(d.flow)
      BY CopyNumbered
    <2> QED
      BY <1>5, <2>2, <2>3
  <1> DEFINE r == ReportFirstTx(Monitor, c)
             w == Enqueued(r, c, lost)
  <1>7. /\ r.strays = strays
        /\ \A g \in Flow : g # f => r.stats[g] = m_stats[g]
        /\ r.stats[f].tx = m_stats[f].tx + 1
        /\ r.stats[f].rx = m_stats[f].rx
        /\ r.stats[f].timesForwarded = m_stats[f].timesForwarded
        /\ SameOthers(m_tracked, r.tracked, k)
        /\ k \in DOMAIN r.tracked /\ r.tracked[k].forwarded = 0
    BY <1>2, <1>4, PathFacts, ReportFirstTxEffect
  <1>8. MonitorOK(r)
    <2>1. k \notin DOMAIN m_tracked
      <3>1. \A j \in DOMAIN m_tracked : j[2] <= m_flowPktIdMap[j[1]]
        BY DEF FlowInv, Numbered
      <3> QED
        BY <1>3, <1>4, <3>1
    <2> QED
      BY <1>2, <1>4, <2>1, PathFacts, ReportFirstTxOK
  <1> HIDE DEF r
  <1>9. /\ \A g \in Flow : /\ g # f => w.stats[g].tx = m_stats[g].tx
                           /\ w.stats[g].rx = m_stats[g].rx
                           /\ w.stats[g].timesForwarded = m_stats[g].timesForwarded
                           /\ w.strays[g] = strays[g]
        /\ w.stats[f].tx = m_stats[f].tx + 1
        /\ SameOthers(m_tracked, w.tracked, k)
        /\ k \in DOMAIN w.tracked <=> ~lost
        /\ ~lost => w.tracked[k].forwarded = 0
    <2>1. CASE ~lost
      BY <1>7, <2>1 DEF Enqueued
    <2>2. CASE lost
      <3>1. w = ReportDrop(r, c)
        BY <2>2 DEF Enqueued
      <3> HIDE DEF w
      <3>2. /\ SameCounts(r, w)
            /\ Strayed(r, w, f, IF k \in DOMAIN r.tracked THEN 0 ELSE 1)
        BY <1>2, <1>4, <1>8, <3>1, ReportDropEffect
      <3>3. SameOthers(m_tracked, w.tracked, k) /\ k \notin DOMAIN w.tracked
        BY <1>2, <1>4, <1>7, <1>8, <3>1, PathFacts, DropAfter
      <3>4. \A g \in Flow : w.strays[g] = strays[g]
        <4>1. \A g \in Flow : w.strays[g] = r.strays[g] + 0
          BY <1>7, <3>2 DEF Strayed
        <4> QED
          BY <1>7, <4>1, PathFacts
      <3>5. \A g \in Flow : /\ w.stats[g].tx = r.stats[g].tx
                            /\ w.stats[g].rx = r.stats[g].rx
                            /\ w.stats[g].timesForwarded = r.stats[g].timesForwarded
        BY <3>2 DEF SameCounts
      <3> QED
        BY <1>7, <2>2, <3>3, <3>4, <3>5
    <2> QED
      BY <2>1, <2>2
  <1>10. m_tracked' = w.tracked /\ m_stats' = w.stats /\ strays' = w.strays
    BY <1>1 DEF Becomes, r
  <1> HIDE DEF w
  <1>11. /\ DOMAIN wire' = IF lost THEN DOMAIN wire ELSE DOMAIN wire \cup {c}
         /\ ~lost => wire'[c] = 1
         /\ \A d \in DOMAIN wire : wire'[d] = wire[d]
    <2>1. CASE lost
      BY <1>1, <2>1
    <2>2. CASE ~lost
      <3> DEFINE b == SetToBag({c})
      <3>1. IsABag(b) /\ DOMAIN b = {c} /\ b[c] = 1
        BY DEF IsABag, SetToBag
      <3>2. c \notin DOMAIN wire /\ IsABag(wire)
        BY <1>6, PathFacts
      <3>3. wire' = wire (+) b
        BY <1>1, <2>2
      <3> HIDE DEF b
      <3>4. /\ DOMAIN wire' = DOMAIN wire \cup DOMAIN b
            /\ \A x \in DOMAIN wire : x \notin DOMAIN b => wire'[x] = wire[x]
            /\ \A x \in DOMAIN b : x \notin DOMAIN wire => wire'[x] = b[x]
        <4> DEFINE z == wire (+) b
        <4>1. /\ DOMAIN z = DOMAIN wire \cup DOMAIN b
              /\ \A x \in DOMAIN wire : x \notin DOMAIN b => z[x] = wire[x]
              /\ \A x \in DOMAIN b : x \notin DOMAIN wire => z[x] = b[x]
          BY <3>1, <3>2, BagPlus, Zenon
        <4>2. wire' = z
          BY <3>3
        <4> HIDE DEF z
        <4> QED
          BY <4>1, <4>2
      <3> QED
        BY <2>2, <3>1, <3>2, <3>4
    <2> QED
      BY <2>1, <2>2
  <1>12. WireKeeps(k)
    BY <1>6, <1>11 DEF WireKeeps
  <1>13. ASSUME NEW d \in DOMAIN wire'
         PROVE  CopyOK(d)'
    <2>1. CASE Key(d) # k
      <3>1. \A g \in Flow : /\ m_flowPktIdMap[g] \in Int /\ m_flowPktIdMap'[g] \in Int
                            /\ m_flowPktIdMap[g] <= m_flowPktIdMap'[g]
        BY <1>3, PathFacts
      <3>2. DOMAIN wire \subseteq Copy /\ DOMAIN wire' \subseteq Copy
        BY PathFacts DEF FlowInv, WireOK, BagToSet
      <3>3. SameOthers(m_tracked, m_tracked', k)
        BY <1>9, <1>10
      <3> QED
        BY <1>12, <2>1, <3>1, <3>2, <3>3, CopyElsewhere DEF PathOK
    <2>2. CASE Key(d) = k
      <3>1. d = c /\ ~lost
        BY <1>6, <1>11, <2>2
      <3>2. Single(d)'
        BY <1>6, <1>11, <2>2, <3>1 DEF Single, Key
      <3>3. k \in DOMAIN m_tracked' /\ m_tracked'[k].forwarded = 0
        BY <1>9, <1>10, <3>1
      <3>4. d.hop = 0 /\ d.hop <= Hops[d.flow] /\ d.id <= m_flowPktIdMap'[d.flow]
        BY <1>3, <1>4, <3>1
      <3> HIDE DEF k
      <3> QED
        BY <2>2, <3>2, <3>3, <3>4 DEF CopyOK, Key
    <2> QED
      BY <2>1, <2>2
  <1>14. DOMAIN m_tracked' \subseteq DOMAIN m_tracked \cup {k}
    BY <1>9, <1>10 DEF SameOthers
  <1>15. DOMAIN m_tracked' \cap arrived' = {}
    BY <1>2, <1>6, <1>14 DEF PathOK
  <1>16. ASSUME NEW g \in Flow
         PROVE  CountsOK(g)' /\ \E S \in SUBSET KeysUpTo(g)' : StraysOK(g, S)'
    <2>1. ArrivedOf(g)' = ArrivedOf(g) /\ KeysUpTo(g) \subseteq KeysUpTo(g)'
      BY <1>2, <1>3 DEF ArrivedOf, KeysUpTo
    <2>2. CountsOK(g) /\ \E S \in SUBSET KeysUpTo(g) : StraysOK(g, S)
      BY DEF PathOK
    <2>3. CountsOK(g)'
      <3>1. CASE g = f
        <4>1. m_stats'[f].tx = m_flowPktIdMap'[f] + 1
          BY <1>3, <1>9, <1>10, <2>2, <3>1 DEF CountsOK
        <4> QED
          BY <1>9, <1>10, <2>1, <2>2, <3>1, <4>1 DEF CountsOK
      <3>2. CASE g # f
        BY <1>3, <1>9, <1>10, <2>1, <2>2, <3>2, CountsKept
      <3> QED
        BY <3>1, <3>2
    <2>4. \A d \in DOMAIN wire' : Key(d) \in {k} \/ \E x \in DOMAIN wire : Key(x) = Key(d)
      BY <1>11
    <2>5. {k} \cap KeysUpTo(g) = {}
      BY <1>5
    <2>6. strays'[g] = strays[g]
      BY <1>9, <1>10
    <2>7. \E S \in SUBSET KeysUpTo(g)' : StraysOK(g, S)'
      BY <1>14, <2>1, <2>2, <2>4, <2>5, <2>6, StraysKept
    <2> QED
      BY <2>3, <2>7
  <1> QED
    BY <1>2, <1>13, <1>15, <1>16 DEF PathOK

(* One copy is forwarded and enqueued. *)
LEMMA StepEffect ==
  ASSUME NEW m, MonitorOK(m), NEW c \in Copy, NEW out \in Copy, Key(out) = Key(c),
         out.flow = c.flow, m_enabled, now \in Nat, NEW l \in BOOLEAN
  PROVE  LET r == Enqueued(ReportForwarding(m, c), out, l)
         IN  /\ SameCounts(m, r) /\ SameOthers(m.tracked, r.tracked, Key(c))
             /\ ~l => Forwarded(m.tracked, r.tracked, Key(c), 1) /\ r.strays = m.strays
             /\ l => /\ Key(c) \notin DOMAIN r.tracked
                     /\ Strayed(m, r, c.flow, IF Key(c) \in DOMAIN m.tracked THEN 0 ELSE 1)
  <1> DEFINE u == ReportForwarding(m, c)
             r == Enqueued(u, out, l)
             k == Key(c)
  <1>1. /\ u.stats = m.stats /\ u.strays = m.strays
        /\ SameOthers(m.tracked, u.tracked, k) /\ Forwarded(m.tracked, u.tracked, k, 1)
    BY ReportForwardingEffect
  <1>2. MonitorOK(u)
    BY ReportForwardingOK
  <1> HIDE DEF u, k
  <1>3. CASE ~l
    <2>1. r = u
      BY <1>3 DEF Enqueued
    <2> QED
      BY <1>1, <1>3, <2>1 DEF SameCounts, u, k
  <1>4. CASE l
    <2>1. r = ReportDrop(u, out)
      BY <1>4 DEF Enqueued
    <2> HIDE DEF r
    <2>2. /\ SameCounts(u, r)
          /\ Strayed(u, r, c.flow, IF k \in DOMAIN u.tracked THEN 0 ELSE 1)
      BY <1>2, <2>1, ReportDropEffect DEF k
    <2>3. SameOthers(m.tracked, r.tracked, k) /\ k \notin DOMAIN r.tracked
      BY <1>1, <1>2, <2>1, DropAfter DEF k
    <2>4. SameCounts(m, r)
      BY <1>1, <2>2 DEF SameCounts
    <2>5. Strayed(m, r, c.flow, IF k \in DOMAIN m.tracked THEN 0 ELSE 1)
      BY <1>1, <2>2 DEF Strayed, Forwarded
    <2> QED
      BY <1>4, <2>3, <2>4, <2>5 DEF r, u, k
  <1> QED
    BY <1>3, <1>4

(* A step about one packet keeps what the invariant says of the others.    *)
LEMMA OnePacket ==
  ASSUME FlowInv, PathOK, FlowInv', NEW c \in DOMAIN wire, WireKeeps(Key(c)),
         SameOthers(m_tracked, m_tracked', Key(c)),
         Key(c) \in DOMAIN m_tracked' => Key(c) \in DOMAIN m_tracked,
         \A f \in Flow : /\ m_stats'[f].tx = m_stats[f].tx
                         /\ m_stats'[f].rx = m_stats[f].rx
                         /\ m_stats'[f].timesForwarded = m_stats[f].timesForwarded,
         m_flowPktIdMap' = m_flowPktIdMap, arrived' = arrived, m_enabled' = m_enabled,
         \A d \in DOMAIN wire' : Key(d) = Key(c) => CopyOK(d)',
         \A f \in Flow : f # c.flow => strays'[f] = strays[f],
         \/ strays'[c.flow] = strays[c.flow]
         \/ /\ strays'[c.flow] = strays[c.flow] + 1 /\ c.flow \in Doubled
            /\ Key(c) \notin DOMAIN m_tracked'
            /\ \A d \in DOMAIN wire' : Key(d) # Key(c)
  PROVE  PathOK'
  <1> DEFINE k == Key(c)
  <1>1. /\ DOMAIN wire \subseteq Copy /\ DOMAIN wire' \subseteq Copy
        /\ \A f \in Flow : /\ m_flowPktIdMap[f] \in Int /\ m_flowPktIdMap'[f] \in Int
                           /\ m_flowPktIdMap[f] <= m_flowPktIdMap'[f]
        /\ \A x \in DOMAIN wire : CopyOK(x)
    BY PathFacts DEF PathOK, FlowInv, WireOK, BagToSet
  <1>2. /\ c.flow \in Flow /\ k \in KeysUpTo(c.flow) /\ m_enabled
    BY CopyNumbered
  <1>3. ASSUME NEW d \in DOMAIN wire'
        PROVE  CopyOK(d)' /\ \E x \in DOMAIN wire : Key(x) = Key(d)
    <2>1. CASE Key(d) = k
      BY <2>1
    <2>2. CASE Key(d) # k
      <3>1. d \in DOMAIN wire
        BY <1>1, <2>2 DEF WireKeeps
      <3>2. CopyOK(d)'
        BY <1>1, <2>2, CopyElsewhere
      <3> QED
        BY <3>1, <3>2
    <2> QED
      BY <2>1, <2>2
  <1>4. DOMAIN m_tracked' \subseteq DOMAIN m_tracked
    BY DEF SameOthers
  <1>5. ASSUME NEW f \in Flow
        PROVE  CountsOK(f)' /\ \E S \in SUBSET KeysUpTo(f)' : StraysOK(f, S)'
    <2>1. ArrivedOf(f)' = ArrivedOf(f) /\ KeysUpTo(f)' = KeysUpTo(f) /\ IsFiniteSet(KeysUpTo(f))
      BY PathFacts DEF ArrivedOf, KeysUpTo
    <2>2. CountsOK(f) /\ \E S \in SUBSET KeysUpTo(f) : StraysOK(f, S)
      BY DEF PathOK
    <2>3. CountsOK(f)'
      BY <2>1, <2>2, CountsKept
    <2>4. CASE strays'[f] = strays[f]
      <3>1. {} \cap KeysUpTo(f) = {} /\ DOMAIN m_tracked' \subseteq DOMAIN m_tracked \cup {}
        BY <1>4
      <3>2. \E S \in SUBSET KeysUpTo(f)' : StraysOK(f, S)'
        BY <1>3, <2>1, <2>2, <2>4, <3>1, StraysKept
      <3> QED
        BY <2>3, <3>2
    <2>5. CASE strays'[f] # strays[f]
      <3>1. f = c.flow
        BY <2>5
      <3>2. /\ strays'[f] = strays[f] + 1 /\ f \in Doubled
            /\ k \notin DOMAIN m_tracked' /\ \A d \in DOMAIN wire' : Key(d) # k
        BY <2>5, <3>1
      <3>3. DOMAIN m_tracked' \subseteq DOMAIN m_tracked \ {k}
        BY <1>4, <3>2
      <3>4. \A d \in DOMAIN wire' : Key(d) # k /\ \E x \in DOMAIN wire : Key(x) = Key(d)
        BY <1>3, <3>2
      <3>5. k \in KeysUpTo(f) /\ \E d \in DOMAIN wire : Key(d) = k
        BY <1>2, <3>1
      <3> HIDE DEF k
      <3>6. \E S \in SUBSET KeysUpTo(f)' : StraysOK(f, S)'
        BY <2>1, <2>2, <3>2, <3>3, <3>4, <3>5, StraysMore
      <3> QED
        BY <2>3, <3>6
    <2> QED
      BY <2>4, <2>5
  <1> QED
    BY <1>2, <1>3, <1>4, <1>5 DEF PathOK

(* The wire after a copy c was replaced by n copies out. *)
WireMoves(c, out, n) ==
  /\ \A d : d # c /\ d # out => /\ d \in DOMAIN wire' <=> d \in DOMAIN wire
                                /\ d \in DOMAIN wire => wire'[d] = wire[d]
  /\ c \in DOMAIN wire' <=> wire[c] > 1
  /\ c \in DOMAIN wire' => wire'[c] = wire[c] - 1
  /\ out \in DOMAIN wire' <=> n > 0 \/ out \in DOMAIN wire
  /\ out \in DOMAIN wire => wire'[out] = wire[out] + n
  /\ out \notin DOMAIN wire /\ n > 0 => wire'[out] = n

(* One of a pair of copies moves on. *)
LEMMA PairMoves ==
  ASSUME FlowInv, PathOK, FlowInv', NEW c \in DOMAIN wire, NEW out \in Copy, Key(out) = Key(c),
         out.flow = c.flow, out.id = c.id, out.hop = c.hop + 1, WireMoves(c, out, 1),
         c.hop > 0, c.hop < Hops[c.flow], c.flow \in Doubled,
         Key(c) \in DOMAIN m_tracked, Paired(c, m_tracked[Key(c)].forwarded),
         Key(c) \in DOMAIN m_tracked',
         m_tracked'[Key(c)].forwarded = m_tracked[Key(c)].forwarded + 1,
         m_flowPktIdMap' = m_flowPktIdMap,
         NEW d \in DOMAIN wire', Key(d) = Key(c)
  PROVE  CopyOK(d)'
  <1> USE FlowMonitorAssumption
  <1> DEFINE k == Key(c)
             F == m_tracked[k].forwarded
             G == m_tracked'[k].forwarded
             h == c.hop
             H == Hops[c.flow]
             Other(x) == x \in DOMAIN wire /\ Key(x) = k /\ x # c
  <1>1. /\ DOMAIN wire \subseteq Copy /\ DOMAIN wire' \subseteq Copy
        /\ \A x \in DOMAIN wire : CopyOK(x) /\ wire[x] \in Nat
    BY PathFacts DEF PathOK, FlowInv, WireOK, BagToSet, IsABag
  <1>2. /\ c \in Copy /\ d \in Copy /\ h \in Nat /\ d.hop \in Nat /\ H \in Nat /\ F \in Nat
        /\ G = F + 1 /\ c.flow \in Flow /\ d.flow = c.flow /\ d.id = c.id
    BY <1>1, PathFacts DEF Copy, Key
  <1>3. /\ h < F /\ F <= h + H /\ (wire[c] = 1 \/ (wire[c] = 2 /\ F = 2 * h))
    BY DEF Paired
  <1>4. ASSUME NEW x, Other(x)
        PROVE  /\ F = h + x.hop /\ wire[c] = 1 /\ wire[x] = 1
               /\ x \in Copy /\ x.hop \in Nat /\ x.hop <= H /\ x.hop > 0
    <2>1. x \in Copy /\ x.hop \in Nat /\ CopyOK(x) /\ x.flow = c.flow
      BY <1>1, <1>2, <1>4 DEF Copy, Key
    <2>2. ~Single(x)
      BY <1>4 DEF Single
    <2>3. Paired(x, F) /\ x.hop > 0 /\ x.hop <= H
      BY <1>4, <2>1, <2>2 DEF CopyOK
    <2> QED
      BY <1>4, <2>1, <2>3 DEF Paired
  <1>5. \A x, y : Other(x) /\ Other(y) => x = y
    <2> SUFFICES ASSUME NEW x, NEW y, Other(x), Other(y) PROVE x = y
      OBVIOUS
    <2>1. x.hop = y.hop /\ x \in Copy /\ y \in Copy
      BY <1>2, <1>4
    <2> QED
      BY <2>1, SameKey
  <1>6. Other(out) <=> out \in DOMAIN wire
    BY <1>2
  <1>7. \A x \in DOMAIN wire' : Key(x) = k => x = c \/ x = out \/ Other(x)
    BY <1>1 DEF WireMoves
  <1> HIDE DEF F, G, h, H, k, Other
  <1>8. /\ d.hop > 0 /\ d.hop <= H /\ d.hop < G /\ G <= d.hop + H
        /\ wire'[d] = 1 \/ (wire'[d] = 2 /\ G = 2 * d.hop)
    <2>1. CASE d = c
      <3>1. wire[c] = 2 /\ wire'[c] = 1 /\ F = 2 * h
        BY <1>3, <2>1 DEF WireMoves
      <3> QED
        BY <1>2, <1>3, <2>1, <3>1 DEF h, H
    <2>2. CASE d = out
      <3>0. d.hop = h + 1 /\ h < H
        BY <2>2 DEF h, H
      <3>1. CASE out \in DOMAIN wire
        <4>1. Other(out)
          BY <1>6, <3>1
        <4>2. F = h + (h + 1) /\ wire[out] = 1
          BY <1>4, <2>2, <3>0, <4>1
        <4>3. wire'[out] = 2
          BY <3>1, <4>2 DEF WireMoves
        <4> QED
          BY <1>2, <2>2, <3>0, <4>2, <4>3
      <3>2. CASE out \notin DOMAIN wire
        <4>1. wire'[out] = 1
          BY <3>2 DEF WireMoves
        <4> QED
          BY <1>2, <1>3, <2>2, <3>0, <4>1
      <3> QED
        BY <3>1, <3>2
    <2>3. CASE Other(d) /\ d # out
      <3>1. F = h + d.hop /\ wire[d] = 1 /\ d.hop <= H /\ d.hop > 0
        BY <1>4, <2>3
      <3>2. wire'[d] = 1
        BY <2>3, <3>1 DEF WireMoves, Other
      <3>3. h < H /\ h > 0
        BY DEF h, H
      <3> QED
        BY <1>2, <3>1, <3>2, <3>3
    <2> QED
      BY <1>7, <2>1, <2>2, <2>3 DEF k
  <1>9. ASSUME NEW x \in DOMAIN wire', Key(x) = k, x # d
        PROVE  G = d.hop + x.hop /\ wire'[d] = 1
    <2>0. out.hop = h + 1 /\ c.hop = h /\ x.hop \in Nat
      BY <1>1 DEF h, Copy
    <2>1. CASE c \in DOMAIN wire'
      <3>1. wire[c] = 2 /\ wire'[c] = 1 /\ F = 2 * h
        BY <1>3, <2>1 DEF WireMoves
      <3>2. ~\E y : Other(y)
        BY <1>4, <3>1
      <3>3. wire'[out] = 1
        BY <1>6, <3>2 DEF WireMoves
      <3>4. (d = c /\ x = out) \/ (d = out /\ x = c)
        BY <1>7, <1>9, <3>2 DEF k
      <3> QED
        BY <1>2, <2>0, <3>1, <3>3, <3>4
    <2>2. CASE c \notin DOMAIN wire'
      <3>1. PICK y : Other(y) /\ ((d = out /\ x = y) \/ (d = y /\ x = out))
        BY <1>5, <1>7, <1>9, <2>2 DEF k
      <3>2. y # out
        BY <1>9, <3>1
      <3>3. F = h + y.hop /\ wire[y] = 1 /\ y.hop \in Nat
        BY <1>4, <3>1
      <3>4. wire'[y] = 1
        BY <3>1, <3>2, <3>3 DEF WireMoves, Other
      <3>5. out \notin DOMAIN wire
        BY <1>5, <1>6, <3>1, <3>2
      <3>6. wire'[out] = 1
        BY <3>5 DEF WireMoves
      <3> QED
        BY <1>2, <2>0, <3>1, <3>3, <3>4, <3>6
    <2> QED
      BY <2>1, <2>2
  <1>10. Paired(d, m_tracked[Key(d)].forwarded)'
    <2>1. m_tracked'[Key(d)].forwarded = G /\ Hops[d.flow] = H
      BY <1>2 DEF G, H, k
    <2> QED
      BY <1>8, <1>9, <2>1 DEF Paired, Key, k
  <1>11. d.id <= m_flowPktIdMap'[d.flow] /\ d.hop <= Hops[d.flow] /\ d.flow \in Doubled
    <2>1. c.id <= m_flowPktIdMap[c.flow]
      BY <1>1 DEF CopyOK
    <2> QED
      BY <1>2, <1>8, <2>1 DEF H
  <1> QED
    BY <1>8, <1>10, <1>11 DEF CopyOK, Key, k

(* How many copies are left. *)
LEMMA CopiesLeft ==
  ASSUME NEW lost
  PROVE  /\ Cardinality({1} \ lost) = IF 1 \in lost THEN 0 ELSE 1
         /\ Cardinality((1 .. 2) \ lost)
              = (IF 1 \in lost THEN 0 ELSE 1) + (IF 2 \in lost THEN 0 ELSE 1)
  <1>1. Cardinality({}) = 0 /\ Cardinality({1}) = 1 /\ Cardinality({2}) = 1
    BY FS_EmptySet, FS_Singleton
  <1>2. Cardinality({1, 2}) = 2
    <2>1. IsFiniteSet({1})
      BY FS_Singleton
    <2>2. {1, 2} = {1} \cup {2} /\ 2 \notin {1}
      OBVIOUS
    <2>3. Cardinality({1} \cup {2}) = Cardinality({1}) + 1
      BY <2>1, <2>2, FS_AddElement
    <2> QED
      BY <1>1, <2>2, <2>3
  <1>3. {1} \ lost = IF 1 \in lost THEN {} ELSE {1}
    OBVIOUS
  <1>4. 1 .. 2 = {1, 2}
    OBVIOUS
  <1>5. {1, 2} \ lost = IF 1 \in lost THEN IF 2 \in lost THEN {} ELSE {2}
                       ELSE IF 2 \in lost THEN {1} ELSE {1, 2}
    OBVIOUS
  <1>6. Cardinality({1} \ lost) = IF 1 \in lost THEN 0 ELSE 1
    BY <1>1, <1>3
  <1>7. Cardinality({1, 2} \ lost)
          = (IF 1 \in lost THEN 0 ELSE 1) + (IF 2 \in lost THEN 0 ELSE 1)
    BY <1>1, <1>2, <1>5
  <1> QED
    BY <1>4, <1>6, <1>7

(* Where the only copy of a packet went. *)
LEMMA SingleMoves ==
  ASSUME DOMAIN wire' \subseteq Copy, NEW c \in DOMAIN wire, NEW out, out # c,
         Key(out) = Key(c), Single(c), NEW n \in Nat, WireMoves(c, out, n),
         NEW d \in DOMAIN wire', Key(d) = Key(c)
  PROVE  d = out /\ n > 0 /\ wire'[out] = n /\ (n = 1 => Single(out)')
  <1>1. wire[c] = 1 /\ \A x \in DOMAIN wire : Key(x) = Key(c) => x = c
    BY DEF Single
  <1>2. out \notin DOMAIN wire /\ c \notin DOMAIN wire'
    BY <1>1 DEF WireMoves
  <1>3. \A x \in DOMAIN wire' : Key(x) = Key(c) => x = out
    BY <1>1, <1>2 DEF WireMoves
  <1>4. n > 0 /\ wire'[out] = n
    BY <1>2, <1>3 DEF WireMoves
  <1>5. n = 1 => Single(out)'
    BY <1>3, <1>4 DEF Single, Key
  <1> QED
    BY <1>3, <1>4, <1>5

(* No copy takes the place of c. *)
LEMMA MovesLoses ==
  ASSUME IsABag(wire), NEW c \in DOMAIN wire, NEW out, out # c, WireMoves(c, out, 0)
  PROVE  WireLoses(c)
  <1>1. out \in DOMAIN wire => wire[out] \in Nat
    BY DEF IsABag
  <1>2. out \in DOMAIN wire' <=> out \in DOMAIN wire
    BY DEF WireMoves
  <1>3. out \in DOMAIN wire => wire'[out] = wire[out]
    BY <1>1 DEF WireMoves
  <1> QED
    BY <1>2, <1>3 DEF WireMoves, WireLoses

(* The facts about a step of Forward(c) that moves n copies on. *)
Moving(c, out, n) ==
  /\ out \in Copy /\ Key(out) = Key(c) /\ out.flow = c.flow /\ out.id = c.id
  /\ out.hop = c.hop + 1 /\ c.hop < Hops[c.flow]
  /\ n \in Nat /\ WireMoves(c, out, n)
  /\ m_flowPktIdMap' = m_flowPktIdMap /\ arrived' = arrived /\ m_enabled' = m_enabled
  /\ SameCounts(Monitor, Monitor') /\ SameOthers(m_tracked, m_tracked', Key(c))

(* It leaves other packets alone. *)
LEMMA MovingKeeps ==
  ASSUME FlowInv, PathOK, FlowInv', NEW c \in DOMAIN wire, NEW out, NEW n, Moving(c, out, n),
         Key(c) \in DOMAIN m_tracked' => Key(c) \in DOMAIN m_tracked,
         \A d \in DOMAIN wire' : Key(d) = Key(c) => CopyOK(d)',
         NEW y \in {0, 1},
         \A f \in Flow : strays'[f] = strays[f] + (IF f = c.flow THEN y ELSE 0),
         y = 1 => /\ c.flow \in Doubled /\ Key(c) \notin DOMAIN m_tracked'
                  /\ \A d \in DOMAIN wire' : Key(d) # Key(c)
  PROVE  PathOK'
  <1>1. WireKeeps(Key(c))
    BY DEF Moving, WireMoves, WireKeeps
  <1>2. \A f \in Flow : /\ m_stats'[f].tx = m_stats[f].tx
                        /\ m_stats'[f].rx = m_stats[f].rx
                        /\ m_stats'[f].timesForwarded = m_stats[f].timesForwarded
    BY DEF Moving, SameCounts, Monitor
  <1>3. c.flow \in Flow /\ strays \in [Flow -> Nat]
    BY CopyNumbered, PathFacts
  <1>4. /\ \A f \in Flow : f # c.flow => strays'[f] = strays[f]
        /\ y = 0 => strays'[c.flow] = strays[c.flow]
        /\ y = 1 => strays'[c.flow] = strays[c.flow] + 1
    BY <1>3
  <1>5. m_flowPktIdMap' = m_flowPktIdMap /\ arrived' = arrived /\ m_enabled' = m_enabled
        /\ SameOthers(m_tracked, m_tracked', Key(c))
    BY DEF Moving
  <1>6. CASE y = 0
    BY <1>1, <1>2, <1>4, <1>5, <1>6, OnePacket
  <1>7. CASE y = 1
    BY <1>1, <1>2, <1>4, <1>5, <1>7, OnePacket
  <1> QED
    BY <1>6, <1>7

(* A router that forwards a copy once. *)
LEMMA PathForwardOnce ==
  ASSUME FlowInv, PathOK, FlowInv', NEW c \in DOMAIN wire, NEW out, NEW l \in BOOLEAN,
         Moving(c, out, IF l THEN 0 ELSE 1), ~(c.hop = 0 /\ c.flow \in Doubled),
         ~l => Forwarded(m_tracked, m_tracked', Key(c), 1) /\ strays' = strays,
         l => /\ Key(c) \notin DOMAIN m_tracked'
              /\ Strayed(Monitor, Monitor', c.flow, IF Key(c) \in DOMAIN m_tracked THEN 0 ELSE 1)
  PROVE  PathOK'
  <1> USE FlowMonitorAssumption
  <1> DEFINE k == Key(c)
             n == IF l THEN 0 ELSE 1
  <1>1. /\ DOMAIN wire \subseteq Copy /\ DOMAIN wire' \subseteq Copy /\ IsABag(wire)
        /\ strays \in [Flow -> Nat] /\ Monitor.strays = strays /\ Monitor'.strays = strays'
    BY PathFacts DEF FlowInv, WireOK, BagToSet, Monitor
  <1>2. /\ c \in Copy /\ c.flow \in Flow /\ CopyOK(c) /\ c.hop \in Nat /\ c.id <= m_flowPktIdMap[c.flow]
    BY CopyNumbered DEF CopyOK
  <1>3. /\ out # c /\ Key(out) = k /\ n \in Nat /\ WireMoves(c, out, n)
        /\ out.flow = c.flow /\ out.id = c.id /\ out.hop = c.hop + 1 /\ out \in Copy
        /\ c.hop < Hops[c.flow] /\ m_flowPktIdMap' = m_flowPktIdMap
        /\ SameOthers(m_tracked, m_tracked', k)
    BY <1>2 DEF Moving
  <1>4. Single(c) => \A d \in DOMAIN wire' : Key(d) = k => d = out /\ n = 1 /\ Single(out)'
    BY <1>1, <1>3, SingleMoves
  <1>5. CASE l
    <2>1. n = 0 /\ WireLoses(c)
      BY <1>1, <1>3, <1>5, MovesLoses
    <2>2. \A d \in DOMAIN wire' : Key(d) = k => CopyOK(d)'
      BY <1>3, <1>5, <2>1, CopiesAfterErase
    <2> DEFINE y == IF k \in DOMAIN m_tracked THEN 0 ELSE 1
    <2>3. \A f \in Flow : strays'[f] = strays[f] + (IF f = c.flow THEN y ELSE 0)
      BY <1>1, <1>5 DEF Strayed
    <2>4. y = 1 => /\ c.flow \in Doubled /\ k \notin DOMAIN m_tracked'
                   /\ \A d \in DOMAIN wire' : Key(d) # k
      <3>1. y = 1 => k \notin DOMAIN m_tracked
        OBVIOUS
      <3>2. y = 1 => Single(c) /\ c.flow \in Doubled
        BY <1>2, <3>1 DEF CopyOK
      <3> QED
        BY <1>4, <1>5, <2>1, <3>2
    <2>5. y \in {0, 1} /\ k \notin DOMAIN m_tracked'
      BY <1>5
    <2> HIDE DEF y
    <2> QED
      BY <2>2, <2>3, <2>4, <2>5, MovingKeeps
  <1>6. CASE ~l
    <2>1. n = 1 /\ Forwarded(m_tracked, m_tracked', k, 1) /\ strays' = strays
      BY <1>6
    <2>2. out.hop > 0 /\ out.hop <= Hops[out.flow] /\ out.id <= m_flowPktIdMap'[out.flow]
      BY <1>2, <1>3
    <2>3. ASSUME NEW d \in DOMAIN wire', Key(d) = k
          PROVE  CopyOK(d)'
      <3>1. CASE /\ c.hop = 0 \/ c.flow \notin Doubled
                 /\ k \in DOMAIN m_tracked /\ Single(c) /\ m_tracked[k].forwarded = c.hop
        <4>1. d = out /\ Single(d)' /\ c.flow \notin Doubled
          BY <1>4, <2>3, <3>1
        <4>2. k \in DOMAIN m_tracked' /\ m_tracked'[k].forwarded = d.hop
          BY <1>3, <2>1, <3>1, <4>1 DEF Forwarded
        <4> QED
          BY <1>3, <2>2, <2>3, <4>1, <4>2 DEF CopyOK, Key
      <3>2. CASE /\ c.hop > 0 /\ c.flow \in Doubled
                 /\ k \notin DOMAIN m_tracked /\ Single(c)
        <4>1. d = out /\ Single(d)'
          BY <1>4, <2>3, <3>2
        <4>2. k \notin DOMAIN m_tracked'
          BY <2>1, <3>2 DEF Forwarded
        <4> QED
          BY <1>3, <2>2, <2>3, <3>2, <4>1, <4>2 DEF CopyOK, Key
      <3>3. CASE /\ c.hop > 0 /\ c.flow \in Doubled
                 /\ k \in DOMAIN m_tracked /\ Paired(c, m_tracked[k].forwarded)
        <4>1. k \in DOMAIN m_tracked' /\ m_tracked'[k].forwarded = m_tracked[k].forwarded + 1
          BY <2>1, <3>3 DEF Forwarded
        <4>2. WireMoves(c, out, 1)
          BY <1>3, <2>1
        <4> QED
          BY <1>3, <2>3, <3>3, <4>1, <4>2, PairMoves
      <3> QED
        BY <1>2, <3>1, <3>2, <3>3 DEF CopyOK
    <2>4. \A f \in Flow : strays'[f] = strays[f] + (IF f = c.flow THEN 0 ELSE 0)
      BY <1>1, <2>1
    <2>5. k \in DOMAIN m_tracked' => k \in DOMAIN m_tracked
      BY <2>1 DEF Forwarded
    <2> QED
      BY <2>3, <2>4, <2>5, MovingKeeps
  <1> QED
    BY <1>5, <1>6

(* The first router of a flow between leaves makes two copies: m is the    *)
(* monitor after the first of them.                                        *)
LEMMA PathForwardTwice ==
  ASSUME FlowInv, PathOK, FlowInv', NEW c \in DOMAIN wire, NEW out,
         NEW l1 \in BOOLEAN, NEW l2 \in BOOLEAN,
         Moving(c, out, (IF l1 THEN 0 ELSE 1) + (IF l2 THEN 0 ELSE 1)),
         c.hop = 0, c.flow \in Doubled, NEW m,
         ~l1 => Forwarded(m_tracked, m.tracked, Key(c), 1) /\ m.strays = strays,
         l1 => /\ Key(c) \notin DOMAIN m.tracked
               /\ Strayed(Monitor, m, c.flow, IF Key(c) \in DOMAIN m_tracked THEN 0 ELSE 1),
         ~l2 => Forwarded(m.tracked, m_tracked', Key(c), 1) /\ strays' = m.strays,
         l2 => /\ Key(c) \notin DOMAIN m_tracked'
               /\ Strayed(m, Monitor', c.flow, IF Key(c) \in DOMAIN m.tracked THEN 0 ELSE 1)
  PROVE  PathOK'
  <1> USE FlowMonitorAssumption
  <1> DEFINE k == Key(c)
             n == (IF l1 THEN 0 ELSE 1) + (IF l2 THEN 0 ELSE 1)
             y == IF l1 /\ l2 THEN 1 ELSE 0
  <1>1. /\ DOMAIN wire \subseteq Copy /\ DOMAIN wire' \subseteq Copy /\ IsABag(wire)
        /\ strays \in [Flow -> Nat] /\ Monitor.strays = strays /\ Monitor'.strays = strays'
    BY PathFacts DEF FlowInv, WireOK, BagToSet, Monitor
  <1>2. /\ c \in Copy /\ c.flow \in Flow /\ c.id <= m_flowPktIdMap[c.flow]
        /\ k \in DOMAIN m_tracked /\ Single(c) /\ m_tracked[k].forwarded = 0
    BY CopyNumbered DEF CopyOK
  <1>3. /\ out # c /\ Key(out) = k /\ n \in Nat /\ WireMoves(c, out, n)
        /\ out.flow = c.flow /\ out.id = c.id /\ out.hop = 1 /\ out \in Copy
        /\ c.hop < Hops[c.flow] /\ m_flowPktIdMap' = m_flowPktIdMap
    BY <1>2 DEF Moving
  <1>4. Hops[c.flow] \in Nat /\ Hops[c.flow] > 0
    BY <1>2
  <1>5. \A d \in DOMAIN wire' :
          Key(d) = k => d = out /\ n > 0 /\ wire'[out] = n /\ (n = 1 => Single(out)')
    BY <1>1, <1>2, <1>3, SingleMoves
  <1>6. \A f \in Flow : strays'[f] = strays[f] + (IF f = c.flow THEN y ELSE 0)
    <2>1. \A f \in Flow : m.strays[f] = strays[f]
      BY <1>1, <1>2 DEF Strayed
    <2>2. k \in DOMAIN m.tracked <=> ~l1
      BY <1>2 DEF Forwarded
    <2>3. CASE ~l2
      BY <1>1, <2>1, <2>3
    <2>4. CASE l2
      <3>1. \A f \in Flow : strays'[f] = m.strays[f] + (IF f = c.flow THEN IF l1 THEN 1 ELSE 0 ELSE 0)
        BY <1>1, <2>2, <2>4 DEF Strayed
      <3> QED
        BY <1>1, <2>1, <2>4, <3>1
    <2> QED
      BY <2>3, <2>4
  <1>7. k \notin DOMAIN m_tracked' \/ (~l1 /\ ~l2)
    BY DEF Forwarded
  <1>8. ~l1 /\ ~l2 => k \in DOMAIN m_tracked' /\ m_tracked'[k].forwarded = 2
    BY <1>2 DEF Forwarded
  <1>9. ASSUME NEW d \in DOMAIN wire', Key(d) = k
        PROVE  CopyOK(d)'
    <2>1. /\ d = out /\ n > 0 /\ wire'[d] = n /\ (n = 1 => Single(d)')
          /\ \A x \in DOMAIN wire' : Key(x) = Key(d) => x = d
      BY <1>5, <1>9
    <2>2. /\ d.hop = 1 /\ d.flow \in Doubled /\ d.hop <= Hops[d.flow]
          /\ d.id <= m_flowPktIdMap'[d.flow] /\ Hops[d.flow] \in Nat /\ Hops[d.flow] > 0
      BY <1>2, <1>3, <1>4, <2>1
    <2>3. CASE l1 \/ l2
      <3>1. n = 1 /\ Key(d) \notin DOMAIN m_tracked'
        BY <1>7, <1>9, <2>1, <2>3
      <3> QED
        BY <2>1, <2>2, <3>1 DEF CopyOK, Key
    <2>4. CASE ~l1 /\ ~l2
      <3>1. n = 2 /\ Key(d) \in DOMAIN m_tracked' /\ m_tracked'[Key(d)].forwarded = 2
        BY <1>8, <1>9, <2>4
      <3>2. Paired(d, m_tracked[Key(d)].forwarded)'
        BY <2>1, <2>2, <3>1 DEF Paired, Key
      <3> QED
        BY <2>2, <3>1, <3>2 DEF CopyOK, Key
    <2> QED
      BY <2>3, <2>4
  <1>10. y = 1 => /\ c.flow \in Doubled /\ k \notin DOMAIN m_tracked'
                  /\ \A d \in DOMAIN wire' : Key(d) # k
    BY <1>5, <1>7
  <1>11. y \in {0, 1}
    OBVIOUS
  <1> HIDE DEF y
  <1> QED
    BY <1>2, <1>6, <1>9, <1>10, <1>11, MovingKeeps

(* UnicastForward at a router, with one copy or two. *)
LEMMA PathForward ==
  ASSUME FlowInv, PathOK, FlowInv', NEW c \in BagToSet(wire), Forward(c)
  PROVE  PathOK'
  <1> USE FlowMonitorAssumption
  <1> DEFINE twice  == c.hop = 0 /\ c.flow \in Doubled
             copies == IF twice THEN 1 .. 2 ELSE {1}
             out    == [c EXCEPT !.hop = @ + 1]
  <1>1. PICK lost \in SUBSET copies :
          LET Step(m, k) == Enqueued(ReportForwarding(m, c), out, k \in lost)
              m1   == Step(Monitor, 1)
              left == Cardinality(copies \ lost)
          IN  /\ Becomes(IF 2 \in copies THEN Step(m1, 2) ELSE m1)
              /\ wire' = (wire (-) SetToBag({c})) (+) (IF left = 0 THEN EmptyBag ELSE [x \in {out} |-> left])
    BY Zenon DEF Forward
  <1>2. /\ c.hop < Hops[c.flow] /\ m_enabled' = m_enabled /\ m_flowPktIdMap' = m_flowPktIdMap
        /\ arrived' = arrived
    BY Zenon DEF Forward, clock
  <1>3. c \in DOMAIN wire /\ c \in Copy /\ m_enabled /\ now \in Nat /\ IsABag(wire)
    BY CopyNumbered, PathFacts DEF BagToSet
  <1>4. /\ out \in Copy /\ out # c /\ out.flow = c.flow /\ out.id = c.id
        /\ out.hop = c.hop + 1 /\ Key(out) = Key(c)
    BY <1>3 DEF Copy, Key
  <1> DEFINE k    == Key(c)
             l1   == 1 \in lost
             l2   == 2 \in lost
             left == Cardinality(copies \ lost)
             n    == IF twice THEN (IF l1 THEN 0 ELSE 1) + (IF l2 THEN 0 ELSE 1) ELSE IF l1 THEN 0 ELSE 1
             m1   == Enqueued(ReportForwarding(Monitor, c), out, l1)
             m2   == Enqueued(ReportForwarding(m1, c), out, l2)
             w    == IF twice THEN m2 ELSE m1
  <1>5. 2 \in copies <=> twice
    OBVIOUS
  <1>6. left = n /\ n \in Nat
    <2>1. CASE twice
      <3>1. copies = 1 .. 2
        BY <2>1
      <3>2. Cardinality((1 .. 2) \ lost)
              = (IF 1 \in lost THEN 0 ELSE 1) + (IF 2 \in lost THEN 0 ELSE 1)
        BY CopiesLeft
      <3> HIDE DEF copies
      <3> QED
        BY <2>1, <3>1, <3>2
    <2>2. CASE ~twice
      BY <2>2, CopiesLeft
    <2> QED
      BY <2>1, <2>2
  <1>7. /\ wire' = (wire (-) SetToBag({c})) (+) (IF left = 0 THEN EmptyBag ELSE [x \in {out} |-> left])
        /\ Becomes(w)
    BY <1>1, <1>5
  <1> HIDE DEF out, copies, left
  <1>8. WireMoves(c, out, n)
    <2>1. n \in Nat /\ IsABag(wire) /\ c \in DOMAIN wire /\ out # c
      BY <1>3, <1>4, <1>6
    <2>2. wire' = Replaced(wire, c, out, left)
      BY <1>7 DEF Replaced
    <2>3. wire' = Replaced(wire, c, out, n)
      BY <1>6, <2>2
    <2> HIDE DEF n
    <2> QED
      BY <2>1, <2>3, WireAfter DEF WireMoves
  <1>9. l1 \in BOOLEAN /\ l2 \in BOOLEAN
    OBVIOUS
  <1>10. MonitorOK(Monitor) /\ Monitor.tracked = m_tracked /\ Monitor.strays = strays
    BY PathFacts
  <1> HIDE DEF l1, l2
  <1>11. /\ SameCounts(Monitor, m1) /\ SameOthers(m_tracked, m1.tracked, k)
         /\ ~l1 => Forwarded(m_tracked, m1.tracked, k, 1) /\ m1.strays = strays
         /\ l1 => /\ k \notin DOMAIN m1.tracked
                  /\ Strayed(Monitor, m1, c.flow, IF k \in DOMAIN m_tracked THEN 0 ELSE 1)
    BY <1>3, <1>4, <1>9, <1>10, StepEffect
  <1>12. MonitorOK(m1)
    BY <1>3, <1>4, <1>9, <1>10, InvFacts, ForwardOnce
  <1> HIDE DEF m1
  <1>13. /\ SameCounts(m1, m2) /\ SameOthers(m1.tracked, m2.tracked, k)
         /\ ~l2 => Forwarded(m1.tracked, m2.tracked, k, 1) /\ m2.strays = m1.strays
         /\ l2 => /\ k \notin DOMAIN m2.tracked
                  /\ Strayed(m1, m2, c.flow, IF k \in DOMAIN m1.tracked THEN 0 ELSE 1)
    BY <1>3, <1>4, <1>9, <1>12, StepEffect
  <1> HIDE DEF m2
  <1>14. SameCounts(Monitor, m2) /\ SameOthers(m_tracked, m2.tracked, k)
    BY <1>11, <1>13 DEF SameCounts, SameOthers
  <1>15. SameCounts(Monitor, w) /\ SameOthers(m_tracked, w.tracked, k)
    BY <1>11, <1>14
  <1>16. m_tracked' = w.tracked /\ m_stats' = w.stats /\ strays' = w.strays
    BY <1>7 DEF Becomes
  <1>17. SameCounts(Monitor, Monitor') /\ SameOthers(m_tracked, m_tracked', k)
    BY <1>15, <1>16 DEF SameCounts, Monitor
  <1>18. Moving(c, out, n)
    BY <1>2, <1>4, <1>6, <1>8, <1>17 DEF Moving
  <1>19. Monitor'.strays = strays'
    BY DEF Monitor
  <1>20. CASE twice
    <2>1. n = (IF l1 THEN 0 ELSE 1) + (IF l2 THEN 0 ELSE 1) /\ w = m2
      BY <1>20
    <2>2. Moving(c, out, (IF l1 THEN 0 ELSE 1) + (IF l2 THEN 0 ELSE 1))
      BY <1>18, <2>1
    <2>3. /\ ~l2 => Forwarded(m1.tracked, m_tracked', k, 1) /\ strays' = m1.strays
          /\ l2 => /\ k \notin DOMAIN m_tracked'
                   /\ Strayed(m1, Monitor', c.flow, IF k \in DOMAIN m1.tracked THEN 0 ELSE 1)
      BY <1>13, <1>16, <1>19, <2>1 DEF Strayed
    <2> QED
      BY <1>3, <1>9, <1>11, <1>20, <2>2, <2>3, PathForwardTwice
  <1>21. CASE ~twice
    <2>1. n = (IF l1 THEN 0 ELSE 1) /\ w = m1
      BY <1>21
    <2>2. Moving(c, out, IF l1 THEN 0 ELSE 1)
      BY <1>18, <2>1
    <2>3. /\ ~l1 => Forwarded(m_tracked, m_tracked', k, 1) /\ strays' = strays
          /\ l1 => /\ k \notin DOMAIN m_tracked'
                   /\ Strayed(Monitor, Monitor', c.flow, IF k \in DOMAIN m_tracked THEN 0 ELSE 1)
      BY <1>11, <1>16, <1>19, <2>1 DEF Strayed
    <2> QED
      BY <1>3, <1>9, <1>21, <2>2, <2>3, PathForwardOnce
  <1> QED
    BY <1>20, <1>21

(* The monitor is turned off: while it was on, this disturbs it; otherwise *)
(* nothing is under way of an undisturbed one.                             *)
LEMMA PathStop ==
  ASSUME PathOK, StopRightNow, ~disturbed'
  PROVE  PathOK'
  <1>1. ~m_enabled /\ Becomes(Monitor) /\ UNCHANGED <<m_flowPktIdMap, wire, arrived>>
    <2>1. ~m_enabled
      BY DEF StopRightNow
    <2> QED
      BY <2>1 DEF StopRightNow
  <1>2. UNCHANGED monitor
    BY <1>1 DEF Becomes, Monitor, monitor
  <1> QED
    BY <1>1, <1>2, PathStill

(* Every step keeps the invariant, as long as it disturbs nothing. *)
LEMMA PathNext ==
  ASSUME FlowInv, FlowInv', PathInv, [Next]_vars
  PROVE  PathInv'
  <1>1. disturbed => disturbed'
    <2>1. ASSUME NEW f \in Flow, Send(f) PROVE disturbed => disturbed'
      BY <2>1 DEF Send
    <2>2. ASSUME NEW c \in BagToSet(wire), Forward(c) PROVE disturbed => disturbed'
      BY <2>2, Zenon DEF Forward
    <2> QED
      BY <2>1, <2>2 DEF Next, vars, Deliver, Corrupt, PeriodicCheckForLostPackets, Start, Stop,
         StartRightNow, StopRightNow, Tick
  <1> SUFFICES ASSUME ~disturbed', PathOK
               PROVE  PathOK'
    BY <1>1 DEF PathInv
  <1>2. ASSUME NEW d \in CallDelays, Start(d) \/ Stop(d)
        PROVE  PathOK'
    BY <1>2, PathStill DEF Start, Stop
  <1>3. CASE StartRightNow
    BY <1>3, PathStill DEF StartRightNow
  <1>4. CASE Tick
    BY <1>4, PathStill DEF Tick
  <1>5. CASE UNCHANGED vars
    BY <1>5, PathStill DEF vars, clock
  <1> QED
    BY <1>2, <1>3, <1>4, <1>5, PathSend, PathForward, PathDeliver, PathCorrupt, PathCheck, PathStop
       DEF Next

-----------------------------------------------------------------------------
(* As long as the monitor was on and gave up no packet under way, each     *)
(* copy agrees with the record of its packet, for all flows and paths.     *)
THEOREM PathInvariant == Spec => []PathInv
  <1>1. FlowInv /\ FlowInv' /\ PathInv /\ [Next]_vars => PathInv'
    BY PathNext
  <1> QED
    BY PathInit, <1>1, FlowInvariant, PTL DEF Spec

(* What the comments of flow-monitor.h say of the counters is exact for    *)
(* the flows whose packets are not doubled.                                *)
THEOREM SinglePathCorrect == Spec => []SinglePathExact
  <1>1. FlowInv /\ PathInv => SinglePathExact
    BY PathImplies
  <1> QED
    BY <1>1, FlowInvariant, PathInvariant, PTL

(* The counters of the flows between leaves stay within the bounds that    *)
(* two copies of a packet allow.                                           *)
THEOREM DoubledCorrect == Spec => []DoubledBounds
  <1>1. FlowInv /\ PathInv => DoubledBounds
    BY PathImplies
  <1> QED
    BY <1>1, FlowInvariant, PathInvariant, PTL
=============================================================================
