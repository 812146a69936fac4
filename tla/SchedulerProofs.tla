--------------------------- MODULE SchedulerProofs ---------------------------
(***************************************************************************)
(* Every scheduler is the sorted set of events that DefaultSimulatorImpl   *)
(* is built on, for any delays, any number of events and any changes from  *)
(* one scheduler to another, as long as Remove is not called on a heap.    *)
(*                                                                         *)
(* Row, HeapOf and CalendarOf say how a list, a heap and a calendar hold a *)
(* set of events.  The operations keep them: the loops of BottomUp,        *)
(* TopDown, NextBucket, DoResize, Resize and SetScheduler are followed     *)
(* round by round.  SchedulerInv, which is inductive, says so of the       *)
(* scheduler in use.                                                       *)
(***************************************************************************)
EXTENDS Schedulers, FiniteSetTheorems, WellFoundedInduction, TLAPS

-----------------------------------------------------------------------------
(* Naturals. *)

(* Every nonempty set of naturals has a least element. *)
LEMMA LeastElement ==
  ASSUME NEW T, T \subseteq Nat, T # {}
  PROVE  \E x \in T : \A y \in T : x <= y
  <1> DEFINE R == {ss \in Nat \X Nat : ss[1] < ss[2]}
  <1>1. R = OpToRel(<, Nat)
    BY DEF OpToRel
  <1>2. IsWellFoundedOn(R, Nat)
    BY <1>1, NatLessThanWellFounded
  <1>3. PICK x \in T : \A y \in T : <<y, x>> \notin R
    <2> HIDE DEF R
    <2> QED
      BY <1>2, WFMin
  <1>4. ASSUME NEW y \in T PROVE x <= y
    <2>1. x \in Nat /\ y \in Nat
      OBVIOUS
    <2>2. ~(y < x)
      BY <1>3, <2>1
    <2> QED
      BY <2>1, <2>2
  <1> QED
    BY <1>4

(* Induction, for a set in place of a predicate. *)
LEMMA SetInduction ==
  ASSUME NEW S, 0 \in S, \A n \in Nat : n \in S => n + 1 \in S
  PROVE  Nat \subseteq S
  <1> SUFFICES ASSUME Nat \ S # {} PROVE FALSE
    OBVIOUS
  <1>1. PICK x \in Nat \ S : \A y \in Nat \ S : x <= y
    BY LeastElement
  <1>2. x # 0 /\ x - 1 \in Nat
    BY <1>1
  <1>3. x - 1 \in S
    BY <1>1, <1>2
  <1>4. (x - 1) + 1 = x
    BY <1>1
  <1> QED
    BY <1>1, <1>2, <1>3, <1>4

(* Min of FiniteSetsExt. *)
LEMMA MinIsLeast ==
  ASSUME NEW T, T \subseteq Nat, T # {}
  PROVE  Min(T) \in T /\ Min(T) \in Nat /\ \A y \in T : Min(T) <= y
  <1>1. \E x \in T : \A y \in T : x <= y
    BY LeastElement
  <1> QED
    BY <1>1 DEF Min


-----------------------------------------------------------------------------
(* The order of events. *)

(* operator < of EventKey is a strict total order. *)
LEMMA BeforeOrder ==
  ASSUME NEW e \in Event, NEW f \in Event
  PROVE  /\ ~Before(e, e)
         /\ ~(Before(e, f) /\ Before(f, e))
         /\ e # f => Before(e, f) \/ Before(f, e)
         /\ Before(e, f) => e.ts <= f.ts /\ e # f
  <1>1. e.ts \in Nat /\ e.uid \in Nat /\ f.ts \in Nat /\ f.uid \in Nat
    BY SchedulersAssumption DEF Event
  <1>2. e.ts = f.ts /\ e.uid = f.uid => e = f
    BY DEF Event
  <1> QED
    BY <1>1, <1>2 DEF Before

(* And transitive. *)
LEMMA BeforeTransitive ==
  ASSUME NEW e \in Event, NEW f \in Event, NEW g \in Event
  PROVE  Before(e, f) /\ Before(f, g) => Before(e, g)
  <1>1. /\ e.ts \in Nat /\ e.uid \in Nat /\ f.ts \in Nat /\ f.uid \in Nat
        /\ g.ts \in Nat /\ g.uid \in Nat
    BY SchedulersAssumption DEF Event
  <1> QED
    BY <1>1 DEF Before

(* e is the earliest event of E. *)
EarliestOf(e, E) == e \in E /\ \A f \in E \ {e} : Before(e, f)

(* Every nonempty set of events has an earliest one: the least uid of the  *)
(* least time.                                                             *)
LEMMA EarliestExists ==
  ASSUME NEW E, E \subseteq Event, E # {}
  PROVE  \E e \in E : EarliestOf(e, E)
  <1> DEFINE Ts == {e.ts : e \in E}
  <1>0. \A e \in E : e.ts \in Nat /\ e.uid \in Nat
    BY SchedulersAssumption DEF Event
  <1>1. PICK t \in Ts : \A y \in Ts : t <= y
    BY <1>0, LeastElement
  <1> DEFINE T == {e \in E : e.ts = t}
             Us == {e.uid : e \in T}
  <1>2. PICK u \in Us : \A y \in Us : u <= y
    BY <1>0, <1>1, LeastElement
  <1>3. PICK e \in T : e.uid = u
    BY <1>2
  <1>4. ASSUME NEW f \in E \ {e}
        PROVE  Before(e, f)
    <2>1. e \in E /\ e.ts = t /\ e.ts <= f.ts
      BY <1>1, <1>3
    <2>2. f.ts = t => u <= f.uid
      BY <1>2
    <2>3. e \in Event /\ f \in Event
      BY <2>1
    <2>4. Before(e, f) \/ Before(f, e)
      BY <2>3, BeforeOrder
    <2> QED
      BY <1>0, <1>3, <2>1, <2>2, <2>4 DEF Before
  <1> QED
    BY <1>4 DEF EarliestOf

(* There is only one. *)
LEMMA EarliestUnique ==
  ASSUME NEW E, E \subseteq Event, NEW e, NEW f, EarliestOf(e, E), EarliestOf(f, E)
  PROVE  e = f
  <1>1. e \in Event /\ f \in Event
    BY DEF EarliestOf
  <1> QED
    BY <1>1, BeforeOrder DEF EarliestOf

(* FirstOf finds it. *)
LEMMA FirstOfIsEarliest ==
  ASSUME NEW E, E \subseteq Event, E # {}
  PROVE  EarliestOf(FirstOf(E), E)
  <1>1. \E e \in E : \A f \in E \ {e} : Before(e, f)
    BY EarliestExists DEF EarliestOf
  <1> QED
    BY <1>1 DEF FirstOf, EarliestOf

-----------------------------------------------------------------------------
(* Lists. *)

(* InsertAt of SequencesExt, member by member.                             *)
LEMMA InsertAtEffect ==
  ASSUME NEW T, NEW q \in Seq(T), NEW p \in 1 .. Len(q) + 1, NEW v \in T
  PROVE  /\ InsertAt(q, p, v) \in Seq(T)
         /\ Len(InsertAt(q, p, v)) = Len(q) + 1
         /\ InsertAt(q, p, v)[p] = v
         /\ \A i \in 1 .. p - 1 : InsertAt(q, p, v)[i] = q[i]
         /\ \A i \in p + 1 .. Len(q) + 1 : InsertAt(q, p, v)[i] = q[i - 1]
  <1> DEFINE a == SubSeq(q, 1, p - 1)
             b == SubSeq(q, p, Len(q))
             c == a \o <<v>>
             n == Len(q)
  <1>0. n \in Nat /\ p \in 1 .. n + 1 /\ \A i \in 1 .. n : q[i] \in T
    OBVIOUS
  <1>1. a \in Seq(T) /\ Len(a) = p - 1 /\ \A i \in 1 .. p - 1 : a[i] = q[i]
    OBVIOUS
  <1>2. b \in Seq(T) /\ Len(b) = n - p + 1 /\ \A i \in 1 .. n - p + 1 : b[i] = q[i + p - 1]
    OBVIOUS
  <1>3. InsertAt(q, p, v) = c \o b
    BY DEF InsertAt
  <1> HIDE DEF a, b
  <1>4. /\ c \in Seq(T) /\ Len(c) = p /\ c[p] = v /\ \A i \in 1 .. p - 1 : c[i] = q[i]
    BY <1>0, <1>1
  <1> HIDE DEF c
  <1>5. c \o b \in Seq(T) /\ Len(c \o b) = n + 1
    BY <1>0, <1>2, <1>4
  <1>6. ASSUME NEW i \in 1 .. n + 1
        PROVE  (c \o b)[i] = IF i < p THEN q[i] ELSE IF i = p THEN v ELSE q[i - 1]
    <2>1. CASE i <= p
      <3>1. (c \o b)[i] = c[i]
        BY <1>2, <1>4, <2>1
      <3> QED
        BY <1>0, <1>4, <2>1, <3>1
    <2>2. CASE i > p
      <3>1. (c \o b)[i] = b[i - p]
        BY <1>0, <1>2, <1>4, <1>5, <2>2
      <3>2. i - p \in 1 .. n - p + 1 /\ (i - p) + p - 1 = i - 1
        BY <1>0, <2>2
      <3>3. b[i - p] = q[i - 1]
        BY <1>2, <3>2
      <3> QED
        BY <1>0, <2>2, <3>1, <3>3
    <2>3. i <= p \/ i > p
      BY <1>0
    <2> QED
      BY <2>1, <2>2, <2>3
  <1> QED
    BY <1>0, <1>3, <1>5, <1>6

(* RemoveAt of SequencesExt, member by member.                             *)
LEMMA RemoveAtEffect ==
  ASSUME NEW T, NEW q \in Seq(T), NEW p \in 1 .. Len(q)
  PROVE  /\ RemoveAt(q, p) \in Seq(T)
         /\ Len(RemoveAt(q, p)) = Len(q) - 1
         /\ \A i \in 1 .. Len(q) - 1 : RemoveAt(q, p)[i] = IF i < p THEN q[i] ELSE q[i + 1]
  <1> DEFINE a == SubSeq(q, 1, p - 1)
             b == SubSeq(q, p + 1, Len(q))
             n == Len(q)
  <1>0. n \in Nat /\ p \in 1 .. n /\ \A i \in 1 .. n : q[i] \in T
    OBVIOUS
  <1>1. a \in Seq(T) /\ Len(a) = p - 1 /\ \A i \in 1 .. p - 1 : a[i] = q[i]
    OBVIOUS
  <1>2. b \in Seq(T) /\ Len(b) = n - p /\ \A i \in 1 .. n - p : b[i] = q[i + p]
    OBVIOUS
  <1>3. RemoveAt(q, p) = a \o b
    BY DEF RemoveAt
  <1> HIDE DEF a, b
  <1>4. a \o b \in Seq(T) /\ Len(a \o b) = n - 1
    <2>1. a \o b \in Seq(T) /\ Len(a \o b) = Len(a) + Len(b)
      <3>1. a \in Seq(T) /\ b \in Seq(T)
        BY <1>1, <1>2
      <3> QED
        BY <3>1
    <2> QED
      BY <1>0, <1>1, <1>2, <2>1
  <1>5. ASSUME NEW i \in 1 .. n - 1
        PROVE  (a \o b)[i] = IF i < p THEN q[i] ELSE q[i + 1]
    <2>1. CASE i < p
      BY <1>0, <1>1, <1>2, <2>1
    <2>2. CASE i >= p
      <3>1. (a \o b)[i] = b[i - (p - 1)]
        BY <1>0, <1>1, <1>2, <1>4, <2>2
      <3>2. i - (p - 1) \in 1 .. n - p /\ (i - (p - 1)) + p = i + 1
        BY <1>0, <2>2
      <3> QED
        BY <1>0, <1>2, <2>2, <3>1, <3>2
    <2>3. i < p \/ i >= p
      BY <1>0
    <2> QED
      BY <2>1, <2>2, <2>3
  <1> QED
    BY <1>3, <1>4, <1>5

(* The list s is that of the events E, in order. *)
Row(s, E, reverse) == s \in Seq(Event) /\ Ordered(s, reverse) /\ ToSet(s) = E

(* What Row says, place by place. *)
LEMMA RowPlaces ==
  ASSUME NEW s, NEW E, NEW reverse, Row(s, E, reverse)
  PROVE  /\ Len(s) \in Nat /\ DOMAIN s = 1 .. Len(s) /\ E \subseteq Event
         /\ \A i \in 1 .. Len(s) : s[i] \in Event /\ s[i] \in E
         /\ \A e \in E : \E i \in 1 .. Len(s) : s[i] = e
         /\ \A i, j \in 1 .. Len(s) : i < j => Precedes(reverse, s[i], s[j])
  <1>1. s \in Seq(Event) /\ E = {s[i] : i \in DOMAIN s}
    BY DEF Row, ToSet
  <1>2. Len(s) \in Nat /\ DOMAIN s = 1 .. Len(s) /\ \A i \in 1 .. Len(s) : s[i] \in Event
    BY <1>1
  <1>3. \A i, j \in 1 .. Len(s) : i < j => Precedes(reverse, s[i], s[j])
    BY DEF Row, Ordered
  <1> QED
    BY <1>1, <1>2, <1>3

(* And back. *)
LEMMA PlacesRow ==
  ASSUME NEW s \in Seq(Event), NEW E, NEW reverse,
         \A i \in 1 .. Len(s) : s[i] \in E,
         \A e \in E : \E i \in 1 .. Len(s) : s[i] = e,
         \A i, j \in 1 .. Len(s) : i < j => Precedes(reverse, s[i], s[j])
  PROVE  Row(s, E, reverse)
  <1>1. DOMAIN s = 1 .. Len(s)
    OBVIOUS
  <1>2. {s[i] : i \in 1 .. Len(s)} = E
    OBVIOUS
  <1> QED
    BY <1>1, <1>2 DEF Row, ToSet, Ordered

(* The empty list. *)
LEMMA RowEmpty ==
  /\ \A reverse : Row(<< >>, {}, reverse)
  /\ \A s, E, reverse : Row(s, E, reverse) => (s = << >> <=> E = {})
  <1>1. ASSUME NEW reverse PROVE Row(<< >>, {}, reverse)
    <2> DEFINE s == << >>
    <2>1. s \in Seq(Event) /\ Len(s) = 0 /\ 1 .. 0 = {}
      OBVIOUS
    <2> HIDE DEF s
    <2>2. \A i, j \in 1 .. Len(s) : FALSE
      BY <2>1
    <2>3. Row(s, {}, reverse)
      BY <2>1, <2>2, PlacesRow
    <2> QED
      BY <2>3 DEF s
  <1>2. ASSUME NEW s, NEW E, NEW reverse, Row(s, E, reverse)
        PROVE  s = << >> <=> E = {}
    <2>1. s \in Seq(Event)
      BY <1>2 DEF Row
    <2>2. s = << >> <=> Len(s) = 0
      BY <2>1
    <2> QED
      BY <1>2, <2>1, <2>2, RowPlaces
  <1> QED
    BY <1>1, <1>2

(* The order of the list, turned round or not, is one too. *)
LEMMA PrecedesOrder ==
  ASSUME NEW e \in Event, NEW f \in Event, NEW reverse \in BOOLEAN
  PROVE  /\ ~Precedes(reverse, e, e)
         /\ ~(Precedes(reverse, e, f) /\ Precedes(reverse, f, e))
         /\ e # f => Precedes(reverse, e, f) \/ Precedes(reverse, f, e)
         /\ \A g \in Event : Precedes(reverse, e, f) /\ Precedes(reverse, f, g)
                               => Precedes(reverse, e, g)
  BY BeforeOrder, BeforeTransitive DEF Precedes

(* Insert puts a new event in its place. *)
LEMMA InsertRow ==
  ASSUME NEW s, NEW E, NEW reverse \in BOOLEAN, Row(s, E, reverse),
         NEW ev \in Event, ev \notin E
  PROVE  Row(InsertInOrder(s, ev, reverse), E \cup {ev}, reverse)
  <1> DEFINE n == Len(s)
             later == {i \in 1 .. n : Precedes(reverse, ev, s[i])}
             p == IF later = {} THEN n + 1 ELSE Min(later)
             t == InsertAt(s, p, ev)
             Lt(a, b) == Precedes(reverse, a, b)
  <1>0. /\ s \in Seq(Event) /\ n \in Nat
        /\ \A i \in 1 .. n : s[i] \in Event /\ s[i] \in E
        /\ \A e \in E : \E i \in 1 .. n : s[i] = e
        /\ \A i, j \in 1 .. n : i < j => Lt(s[i], s[j])
    BY RowPlaces DEF Row
  <1>1. InsertInOrder(s, ev, reverse) = t
    BY DEF InsertInOrder
  <1>2. /\ p \in 1 .. n + 1
        /\ \A i \in 1 .. n : i < p => ~Lt(ev, s[i])
        /\ p <= n => Lt(ev, s[p])
    <2>1. CASE later = {}
      BY <1>0, <2>1
    <2>2. CASE later # {}
      <3>1. later \subseteq Nat
        OBVIOUS
      <3>2. p \in later /\ \A y \in later : p <= y
        BY <2>2, <3>1, MinIsLeast
      <3> HIDE DEF p
      <3>3. p \in 1 .. n /\ Lt(ev, s[p])
        BY <3>2
      <3>4. ASSUME NEW i \in 1 .. n, i < p PROVE ~Lt(ev, s[i])
        <4>1. i \notin later
          BY <3>2, <3>3, <3>4
        <4> QED
          BY <4>1
      <3> QED
        BY <1>0, <3>3, <3>4
    <2> QED
      BY <2>1, <2>2
  <1> HIDE DEF p, later
  <1>3. /\ t \in Seq(Event) /\ Len(t) = n + 1 /\ t[p] = ev
        /\ \A i \in 1 .. p - 1 : t[i] = s[i]
        /\ \A i \in p + 1 .. n + 1 : t[i] = s[i - 1]
    BY <1>0, <1>2, InsertAtEffect
  <1> HIDE DEF t
  <1>4. \A i \in 1 .. n : i < p => Lt(s[i], ev)
    <2> TAKE i \in 1 .. n
    <2>1. s[i] \in Event /\ s[i] # ev
      BY <1>0
    <2> QED
      BY <1>2, <2>1, PrecedesOrder
  <1>5. \A i \in 1 .. n : i >= p => Lt(ev, s[i])
    <2> SUFFICES ASSUME NEW i \in 1 .. n, i >= p PROVE Lt(ev, s[i])
      OBVIOUS
    <2>1. p \in 1 .. n /\ Lt(ev, s[p])
      BY <1>0, <1>2
    <2>2. CASE i = p
      BY <2>1, <2>2
    <2>3. CASE i > p
      <3>1. Lt(s[p], s[i]) /\ s[p] \in Event /\ s[i] \in Event
        BY <1>0, <2>1, <2>3
      <3> QED
        BY <2>1, <3>1, PrecedesOrder
    <2> QED
      BY <1>0, <2>1, <2>2, <2>3
  <1> HIDE DEF Lt
  <1>6. ASSUME NEW i \in 1 .. Len(t)
        PROVE  t[i] \in E \cup {ev}
    <2>1. i \in 1 .. p - 1 \/ i = p \/ i \in p + 1 .. n + 1
      BY <1>0, <1>2, <1>3
    <2>2. CASE i \in 1 .. p - 1
      BY <1>0, <1>2, <1>3, <2>2
    <2>3. CASE i \in p + 1 .. n + 1
      <3>1. i - 1 \in 1 .. n
        BY <1>0, <1>2, <2>3
      <3> QED
        BY <1>0, <1>3, <2>3, <3>1
    <2> QED
      BY <1>3, <2>1, <2>2, <2>3
  <1>7. ASSUME NEW e \in E \cup {ev}
        PROVE  \E i \in 1 .. Len(t) : t[i] = e
    <2>1. CASE e = ev
      BY <1>0, <1>2, <1>3, <2>1
    <2>2. CASE e # ev
      <3>1. PICK i \in 1 .. n : s[i] = e
        BY <1>0, <2>2
      <3>2. CASE i < p
        <4>1. i \in 1 .. p - 1 /\ i \in 1 .. Len(t)
          BY <1>0, <1>2, <1>3, <3>2
        <4> QED
          BY <1>3, <3>1, <4>1
      <3>3. CASE i >= p
        <4>1. i + 1 \in p + 1 .. n + 1 /\ i + 1 \in 1 .. Len(t) /\ (i + 1) - 1 = i
          BY <1>0, <1>2, <1>3, <3>3
        <4> QED
          BY <1>3, <3>1, <4>1
      <3> QED
        BY <1>0, <1>2, <3>2, <3>3
    <2> QED
      BY <2>1, <2>2
  <1>8. ASSUME NEW i \in 1 .. Len(t), NEW j \in 1 .. Len(t), i < j
        PROVE  Lt(t[i], t[j])
    <2>0. i \in Nat /\ j \in Nat /\ p \in Nat
      BY <1>0, <1>2, <1>3
    <2>1. CASE j < p
      <3>1. i \in 1 .. p - 1 /\ j \in 1 .. p - 1 /\ i \in 1 .. n /\ j \in 1 .. n
        BY <1>0, <1>2, <1>8, <2>0, <2>1
      <3> QED
        BY <1>0, <1>3, <1>8, <3>1
    <2>2. CASE j = p
      <3>1. i \in 1 .. p - 1 /\ i \in 1 .. n /\ i < p
        BY <1>0, <1>2, <1>8, <2>0, <2>2
      <3> QED
        BY <1>3, <1>4, <2>2, <3>1
    <2>3. CASE j > p
      <3>1. j \in p + 1 .. n + 1 /\ j - 1 \in 1 .. n /\ j - 1 >= p
        BY <1>0, <1>2, <1>3, <2>0, <2>3
      <3>2. CASE i < p
        <4>1. i \in 1 .. p - 1 /\ i \in 1 .. n /\ i < j - 1
          BY <1>0, <1>2, <2>0, <3>1, <3>2
        <4> QED
          BY <1>0, <1>3, <3>1, <4>1
      <3>3. CASE i = p
        BY <1>3, <1>5, <3>1, <3>3
      <3>4. CASE i > p
        <4>1. i \in p + 1 .. n + 1 /\ i - 1 \in 1 .. n /\ i - 1 < j - 1
          BY <1>0, <1>2, <1>3, <1>8, <2>0, <3>1, <3>4
        <4> QED
          BY <1>0, <1>3, <3>1, <4>1
      <3> QED
        BY <2>0, <3>2, <3>3, <3>4
    <2> QED
      BY <2>0, <2>1, <2>2, <2>3
  <1> QED
    BY <1>1, <1>3, <1>6, <1>7, <1>8, PlacesRow DEF Lt

(* A list without one of its places. *)
LEMMA RemoveAtRow ==
  ASSUME NEW s, NEW E, NEW reverse \in BOOLEAN, Row(s, E, reverse), NEW p \in 1 .. Len(s)
  PROVE  Row(RemoveAt(s, p), E \ {s[p]}, reverse)
  <1> DEFINE n == Len(s)
             t == RemoveAt(s, p)
             Lt(a, b) == Precedes(reverse, a, b)
  <1>0. /\ s \in Seq(Event) /\ n \in Nat
        /\ \A i \in 1 .. n : s[i] \in Event /\ s[i] \in E
        /\ \A e \in E : \E i \in 1 .. n : s[i] = e
        /\ \A i, j \in 1 .. n : i < j => Lt(s[i], s[j])
    BY RowPlaces DEF Row
  <1>1. /\ t \in Seq(Event) /\ Len(t) = n - 1
        /\ \A i \in 1 .. n - 1 : t[i] = IF i < p THEN s[i] ELSE s[i + 1]
    BY <1>0, RemoveAtEffect
  <1> HIDE DEF t
  <1>2. \A i \in 1 .. n : i # p => s[i] # s[p]
    <2> SUFFICES ASSUME NEW i \in 1 .. n, i # p PROVE s[i] # s[p]
      OBVIOUS
    <2>1. Lt(s[i], s[p]) \/ Lt(s[p], s[i])
      BY <1>0
    <2> QED
      BY <1>0, <2>1, PrecedesOrder
  <1> HIDE DEF Lt
  <1>3. ASSUME NEW i \in 1 .. Len(t)
        PROVE  t[i] \in E \ {s[p]}
    <2> DEFINE a == IF i < p THEN i ELSE i + 1
    <2>1. a \in 1 .. n /\ a # p /\ t[i] = s[a]
      BY <1>0, <1>1
    <2> HIDE DEF a
    <2> QED
      BY <1>0, <1>2, <2>1
  <1>4. ASSUME NEW e \in E \ {s[p]}
        PROVE  \E i \in 1 .. Len(t) : t[i] = e
    <2>1. PICK i \in 1 .. n : s[i] = e /\ i # p
      BY <1>0
    <2>2. CASE i < p
      <3>1. i \in 1 .. n - 1
        BY <1>0, <2>2
      <3> QED
        BY <1>1, <2>1, <2>2, <3>1
    <2>3. CASE i > p
      <3>1. i - 1 \in 1 .. n - 1 /\ (i - 1) + 1 = i /\ ~(i - 1 < p)
        BY <1>0, <2>3
      <3> QED
        BY <1>1, <2>1, <3>1
    <2> QED
      BY <1>0, <2>1, <2>2, <2>3
  <1>5. ASSUME NEW i \in 1 .. Len(t), NEW j \in 1 .. Len(t), i < j
        PROVE  Lt(t[i], t[j])
    <2> DEFINE a == IF i < p THEN i ELSE i + 1
               b == IF j < p THEN j ELSE j + 1
    <2>1. a \in 1 .. n /\ b \in 1 .. n /\ a < b
      BY <1>0, <1>1, <1>5
    <2>2. t[i] = s[a] /\ t[j] = s[b]
      BY <1>1
    <2> QED
      BY <1>0, <2>1, <2>2
  <1> QED
    BY <1>1, <1>3, <1>4, <1>5, PlacesRow DEF Lt, t

(* Uids tell events apart. *)
UidsDistinct(E) == \A e, f \in E : e.uid = f.uid => e = f

(* Erase takes out the event of the uid. *)
LEMMA EraseRow ==
  ASSUME NEW s, NEW E, NEW reverse \in BOOLEAN, Row(s, E, reverse),
         NEW ev \in E, UidsDistinct(E)
  PROVE  Row(Erase(s, ev), E \ {ev}, reverse)
  <1> DEFINE T == {i \in 1 .. Len(s) : s[i].uid = ev.uid}
  <1>1. PICK i \in 1 .. Len(s) : s[i] = ev
    BY RowPlaces
  <1>2. T # {} /\ T \subseteq Nat
    BY <1>1
  <1>3. Min(T) \in T
    BY <1>2, MinIsLeast
  <1>4. Min(T) \in 1 .. Len(s) /\ s[Min(T)] = ev
    <2>1. s[Min(T)] \in E
      BY <1>3, RowPlaces
    <2> QED
      BY <1>3, <2>1 DEF UidsDistinct
  <1>5. Erase(s, ev) = RemoveAt(s, Min(T))
    BY DEF Erase
  <1> HIDE DEF T
  <1> QED
    BY <1>4, <1>5, RemoveAtRow

(* The first of a list is the earliest, and Tail takes it out. *)
LEMMA HeadRow ==
  ASSUME NEW s, NEW E, Row(s, E, FALSE), E # {}
  PROVE  EarliestOf(Head(s), E) /\ Row(Tail(s), E \ {Head(s)}, FALSE)
  <1> DEFINE n == Len(s)
  <1>0. /\ s \in Seq(Event) /\ n \in Nat
        /\ \A i \in 1 .. n : s[i] \in Event /\ s[i] \in E
        /\ \A e \in E : \E i \in 1 .. n : s[i] = e
        /\ \A i, j \in 1 .. n : i < j => Before(s[i], s[j])
    BY RowPlaces DEF Row, Precedes
  <1>1. 1 \in 1 .. n /\ Head(s) = s[1]
    BY <1>0
  <1>2. EarliestOf(s[1], E)
    BY <1>0, <1>1 DEF EarliestOf
  <1>3. Tail(s) = RemoveAt(s, 1)
    <2>1. RemoveAt(s, 1) \in Seq(Event) /\ Len(RemoveAt(s, 1)) = n - 1
          /\ \A i \in 1 .. n - 1 : RemoveAt(s, 1)[i] = s[i + 1]
      BY <1>0, <1>1, RemoveAtEffect
    <2>2. Tail(s) \in Seq(Event) /\ Len(Tail(s)) = n - 1
          /\ \A i \in 1 .. n - 1 : Tail(s)[i] = s[i + 1]
      BY <1>0, <1>1
    <2> DEFINE a == RemoveAt(s, 1)
               b == Tail(s)
    <2>3. a \in Seq(Event) /\ b \in Seq(Event) /\ Len(a) = Len(b)
          /\ \A i \in 1 .. Len(a) : a[i] = b[i]
      BY <2>1, <2>2
    <2> HIDE DEF a, b
    <2>4. a = b
      BY <2>3
    <2> QED
      BY <2>4 DEF a, b
  <1> QED
    BY <1>1, <1>2, <1>3, RemoveAtRow

(* The last of a reversed list is the earliest, and Front takes it out. *)
LEMMA LastRow ==
  ASSUME NEW s, NEW E, Row(s, E, TRUE), E # {}
  PROVE  EarliestOf(Last(s), E) /\ Row(Front(s), E \ {Last(s)}, TRUE)
  <1> DEFINE n == Len(s)
  <1>0. /\ s \in Seq(Event) /\ n \in Nat
        /\ \A i \in 1 .. n : s[i] \in Event /\ s[i] \in E
        /\ \A e \in E : \E i \in 1 .. n : s[i] = e
        /\ \A i, j \in 1 .. n : i < j => Before(s[j], s[i])
    BY RowPlaces DEF Row, Precedes
  <1>1. n \in 1 .. n /\ Last(s) = s[n]
    BY <1>0 DEF Last
  <1>2. EarliestOf(s[n], E)
    BY <1>0, <1>1 DEF EarliestOf
  <1>3. Front(s) = RemoveAt(s, n)
    <2> DEFINE a == RemoveAt(s, n)
               b == SubSeq(s, 1, n - 1)
    <2>1. a \in Seq(Event) /\ Len(a) = n - 1
          /\ \A i \in 1 .. n - 1 : a[i] = s[i]
      <3> HIDE DEF n
      <3>1. /\ a \in Seq(Event) /\ Len(a) = Len(s) - 1
            /\ \A i \in 1 .. Len(s) - 1 : a[i] = IF i < n THEN s[i] ELSE s[i + 1]
        BY <1>0, <1>1, RemoveAtEffect DEF n
      <3> QED
        BY <1>0, <1>1, <3>1 DEF n
    <2>2. b \in Seq(Event) /\ Len(b) = n - 1 /\ \A i \in 1 .. n - 1 : b[i] = s[i]
      <3>1. s \in Seq(Event) /\ n = Len(s) /\ n \in Nat /\ n >= 1
        BY <1>0, <1>1
      <3> HIDE DEF n
      <3>2. \A i \in 1 .. n - 1 : s[i] \in Event
        BY <3>1
      <3> QED
        BY <3>1, <3>2
    <2>3. a \in Seq(Event) /\ b \in Seq(Event) /\ Len(a) = Len(b)
          /\ \A i \in 1 .. Len(a) : a[i] = b[i]
      BY <2>1, <2>2
    <2> HIDE DEF a, b
    <2>4. a = b
      BY <2>3
    <2> QED
      BY <2>4 DEF a, b, Front
  <1>4. Row(RemoveAt(s, n), E \ {s[n]}, TRUE)
    BY <1>1, RemoveAtRow
  <1> QED
    BY <1>1, <1>2, <1>3, <1>4

-----------------------------------------------------------------------------
(* The loops of the code are functions of the number of rounds.  A round   *)
(* of each of them, in one definition, so that one induction shows that    *)
(* all of them have their results.                                         *)
Round(p, y, k) ==
  CASE p.loop = "insert" -> DoInsert(y, p.list[k])
    [] p.loop = "resize" -> InsertList(y, p.list[k - 1])
    [] p.loop = "sample" -> [cal |-> DoRemoveNext(y.cal).cal,
                             evs |-> Append(y.evs, DoRemoveNext(y.cal).ev)]
    [] p.loop = "width"  ->
         y + (IF p.list[k + 1].ts - p.list[k].ts <= p.most
              THEN p.list[k + 1].ts - p.list[k].ts ELSE 0)
    [] p.loop = "up"     -> IF Rises(y.heap, y.index)
                            THEN [heap  |-> Exch(y.heap, y.index, Parent(y.index)),
                                  index |-> Parent(y.index)]
                            ELSE y
    [] p.loop = "down"   -> IF Sinks(y.heap, y.index)
                            THEN [heap  |-> Exch(y.heap, y.index, Child(y.heap, y.index)),
                                  index |-> Child(y.heap, y.index)]
                            ELSE y
    [] p.loop = "all"    -> IF IsEmpty(y.from) THEN y
                            ELSE [from |-> RemoveNext(y.from).sched,
                                  to   |-> Insert(y.to, RemoveNext(y.from).ev)]

(* f is what the rounds of loop p, up to n, make of x. *)
Rounds(f, p, x, n) ==
  /\ f = [k \in 0 .. n |-> f[k]] /\ f[0] = x
  /\ \A k \in 1 .. n : f[k] = Round(p, f[k - 1], k)

(* Every loop has a result after every number of rounds. *)
LEMMA RoundsExist == \A p, x : \A n \in Nat : \E f : Rounds(f, p, x, n)
  <1> TAKE p, x
  <1> DEFINE S == {n \in Nat : \E f : Rounds(f, p, x, n)}
  <1>1. 0 \in S
    <2> DEFINE f == [k \in 0 .. 0 |-> x]
    <2>1. f = [k \in 0 .. 0 |-> f[k]] /\ f[0] = x /\ \A k \in 1 .. 0 : FALSE
      OBVIOUS
    <2> HIDE DEF f
    <2>2. Rounds(f, p, x, 0)
      BY <2>1 DEF Rounds
    <2> QED
      BY <2>2
  <1>2. ASSUME NEW n \in Nat, n \in S
        PROVE  n + 1 \in S
    <2>1. PICK f : Rounds(f, p, x, n)
      BY <1>2
    <2> DEFINE v == Round(p, f[n], n + 1)
               g == [k \in 0 .. n + 1 |-> IF k = n + 1 THEN v ELSE f[k]]
    <2>2. /\ \A k \in 0 .. n : g[k] = f[k]
          /\ g[n + 1] = v /\ g = [k \in 0 .. n + 1 |-> g[k]]
      OBVIOUS
    <2> HIDE DEF g
    <2>3. g[0] = x
      BY <2>1, <2>2 DEF Rounds
    <2>4. ASSUME NEW k \in 1 .. n + 1
          PROVE  g[k] = Round(p, g[k - 1], k)
      <3>1. CASE k = n + 1
        <4>1. k - 1 = n /\ n \in 0 .. n
          BY <3>1
        <4> QED
          BY <2>2, <3>1, <4>1 DEF v
      <3>2. CASE k # n + 1
        <4>1. k \in 1 .. n /\ k \in 0 .. n /\ k - 1 \in 0 .. n
          BY <3>2
        <4> QED
          BY <2>1, <2>2, <4>1 DEF Rounds
      <3> QED
        BY <3>1, <3>2
    <2>5. Rounds(g, p, x, n + 1)
      BY <2>2, <2>3, <2>4 DEF Rounds
    <2> QED
      BY <2>5
  <1> HIDE DEF S
  <1>3. \A n \in Nat : n \in S
    BY <1>1, <1>2, SetInduction
  <1> QED
    BY <1>3 DEF S

(* The loop of DoInserts. *)
LEMMA InsertListLoop ==
  ASSUME NEW c, NEW list, Len(list) \in Nat
  PROVE  \E f : /\ f[0] = c
                /\ \A k \in 1 .. Len(list) : f[k] = DoInsert(f[k - 1], list[k])
                /\ InsertList(c, list) = f[Len(list)]
  <1> DEFINE p == [loop |-> "insert", list |-> list]
             n == Len(list)
             Turn(y, k) == DoInsert(y, list[k])
             Def(f) == f = [k \in 0 .. n |-> IF k = 0 THEN c ELSE Turn(f[k - 1], k)]
             after == CHOOSE f : Def(f)
  <1>1. InsertList(c, list) = after[n]
    BY DEF InsertList
  <1>2. \A y, k : Round(p, y, k) = Turn(y, k)
    BY DEF Round
  <1> HIDE DEF Turn
  <1>3. PICK g : Rounds(g, p, c, n)
    BY RoundsExist
  <1> HIDE DEF p
  <1>4. Def(g)
    <2>1. \A k \in 0 .. n : g[k] = IF k = 0 THEN c ELSE Turn(g[k - 1], k)
      <3> TAKE k \in 0 .. n
      <3>1. k = 0 \/ k \in 1 .. n
        OBVIOUS
      <3> QED
        BY <1>2, <1>3, <3>1 DEF Rounds
    <2>2. g = [k \in 0 .. n |-> g[k]]
      BY <1>3 DEF Rounds
    <2> QED
      BY <2>1, <2>2
  <1>5. Def(after)
    <2> HIDE DEF Def
    <2> QED
      BY <1>4
  <1> HIDE DEF after
  <1>6. after[0] = c /\ \A k \in 1 .. n : after[k] = Turn(after[k - 1], k)
    <2>1. 0 \in 0 .. n /\ \A k \in 1 .. n : k \in 0 .. n /\ k # 0
      OBVIOUS
    <2> QED
      BY <1>5, <2>1
  <1> QED
    BY <1>1, <1>6 DEF Turn

(* The loop of DoResize. *)
LEMMA ResizeLoop ==
  ASSUME NEW c, NEW newSize, NEW newWidth, nBuckets(c) \in Nat
  PROVE  \E f : /\ f[0] = InitCalendar(c, newSize, newWidth, c.lastPrio)
                /\ \A k \in 1 .. nBuckets(c) : f[k] = InsertList(f[k - 1], c.buckets[k - 1])
                /\ DoResize(c, newSize, newWidth) = f[nBuckets(c)]
  <1> DEFINE p == [loop |-> "resize", list |-> c.buckets]
             n == nBuckets(c)
             Turn(y, k) == InsertList(y, c.buckets[k - 1])
             Def(f) == f = [k \in 0 .. n |-> IF k = 0 THEN InitCalendar(c, newSize, newWidth, c.lastPrio) ELSE Turn(f[k - 1], k)]
             after == CHOOSE f : Def(f)
  <1>1. DoResize(c, newSize, newWidth) = after[n]
    BY DEF DoResize
  <1>2. \A y, k : Round(p, y, k) = Turn(y, k)
    BY DEF Round
  <1> HIDE DEF Turn
  <1>3. PICK g : Rounds(g, p, InitCalendar(c, newSize, newWidth, c.lastPrio), n)
    BY RoundsExist
  <1> HIDE DEF p
  <1>4. Def(g)
    <2>1. \A k \in 0 .. n : g[k] = IF k = 0 THEN InitCalendar(c, newSize, newWidth, c.lastPrio) ELSE Turn(g[k - 1], k)
      <3> TAKE k \in 0 .. n
      <3>1. k = 0 \/ k \in 1 .. n
        OBVIOUS
      <3> QED
        BY <1>2, <1>3, <3>1 DEF Rounds
    <2>2. g = [k \in 0 .. n |-> g[k]]
      BY <1>3 DEF Rounds
    <2> QED
      BY <2>1, <2>2
  <1>5. Def(after)
    <2> HIDE DEF Def
    <2> QED
      BY <1>4
  <1> HIDE DEF after
  <1>6. after[0] = InitCalendar(c, newSize, newWidth, c.lastPrio) /\ \A k \in 1 .. n : after[k] = Turn(after[k - 1], k)
    <2>1. 0 \in 0 .. n /\ \A k \in 1 .. n : k \in 0 .. n /\ k # 0
      OBVIOUS
    <2> QED
      BY <1>5, <2>1
  <1> QED
    BY <1>1, <1>6 DEF Turn

(* The sampling of CalculateNewWidth. *)
LEMMA SampleLoop ==
  ASSUME NEW c, nSamples(c) \in Nat
  PROVE  \E f : /\ f[0] = [cal |-> c, evs |-> << >>]
                /\ \A k \in 1 .. nSamples(c) : f[k] = [cal |-> DoRemoveNext(f[k - 1].cal).cal,
                            evs |-> Append(f[k - 1].evs, DoRemoveNext(f[k - 1].cal).ev)]
                /\ Sample(c) = f[nSamples(c)]
  <1> DEFINE p == [loop |-> "sample"]
             n == nSamples(c)
             Turn(y, k) == [cal |-> DoRemoveNext(y.cal).cal,
                            evs |-> Append(y.evs, DoRemoveNext(y.cal).ev)]
             Def(f) == f = [k \in 0 .. n |-> IF k = 0 THEN [cal |-> c, evs |-> << >>] ELSE Turn(f[k - 1], k)]
             after == CHOOSE f : Def(f)
  <1>1. Sample(c) = after[n]
    BY DEF Sample
  <1>2. \A y, k : Round(p, y, k) = Turn(y, k)
    BY DEF Round
  <1> HIDE DEF Turn
  <1>3. PICK g : Rounds(g, p, [cal |-> c, evs |-> << >>], n)
    BY RoundsExist
  <1> HIDE DEF p
  <1>4. Def(g)
    <2>1. \A k \in 0 .. n : g[k] = IF k = 0 THEN [cal |-> c, evs |-> << >>] ELSE Turn(g[k - 1], k)
      <3> TAKE k \in 0 .. n
      <3>1. k = 0 \/ k \in 1 .. n
        OBVIOUS
      <3> QED
        BY <1>2, <1>3, <3>1 DEF Rounds
    <2>2. g = [k \in 0 .. n |-> g[k]]
      BY <1>3 DEF Rounds
    <2> QED
      BY <2>1, <2>2
  <1>5. Def(after)
    <2> HIDE DEF Def
    <2> QED
      BY <1>4
  <1> HIDE DEF after
  <1>6. after[0] = [cal |-> c, evs |-> << >>] /\ \A k \in 1 .. n : after[k] = Turn(after[k - 1], k)
    <2>1. 0 \in 0 .. n /\ \A k \in 1 .. n : k \in 0 .. n /\ k # 0
      OBVIOUS
    <2> QED
      BY <1>5, <2>1
  <1> QED
    BY <1>1, <1>6 DEF Turn

(* The loop of BottomUp. *)
LEMMA BottomUpLoop ==
  ASSUME NEW heap, Len(heap) \in Nat
  PROVE  \E f : /\ f[0] = [heap |-> heap, index |-> Len(heap)]
                /\ \A k \in 1 .. Len(heap) : f[k] = IF Rises(f[k - 1].heap, f[k - 1].index)
                           THEN [heap  |-> Exch(f[k - 1].heap, f[k - 1].index, Parent(f[k - 1].index)),
                                 index |-> Parent(f[k - 1].index)]
                           ELSE f[k - 1]
                /\ BottomUp(heap) = f[Len(heap)].heap
  <1> DEFINE p == [loop |-> "up"]
             n == Len(heap)
             Turn(y, k) == IF Rises(y.heap, y.index)
                           THEN [heap  |-> Exch(y.heap, y.index, Parent(y.index)),
                                 index |-> Parent(y.index)]
                           ELSE y
             Def(f) == f = [k \in 0 .. n |-> IF k = 0 THEN [heap |-> heap, index |-> Len(heap)] ELSE Turn(f[k - 1], k)]
             after == CHOOSE f : Def(f)
  <1>1. BottomUp(heap) = after[n].heap
    BY DEF BottomUp
  <1>2. \A y, k : Round(p, y, k) = Turn(y, k)
    BY DEF Round
  <1> HIDE DEF Turn
  <1>3. PICK g : Rounds(g, p, [heap |-> heap, index |-> Len(heap)], n)
    BY RoundsExist
  <1> HIDE DEF p
  <1>4. Def(g)
    <2>1. \A k \in 0 .. n : g[k] = IF k = 0 THEN [heap |-> heap, index |-> Len(heap)] ELSE Turn(g[k - 1], k)
      <3> TAKE k \in 0 .. n
      <3>1. k = 0 \/ k \in 1 .. n
        OBVIOUS
      <3> QED
        BY <1>2, <1>3, <3>1 DEF Rounds
    <2>2. g = [k \in 0 .. n |-> g[k]]
      BY <1>3 DEF Rounds
    <2> QED
      BY <2>1, <2>2
  <1>5. Def(after)
    <2> HIDE DEF Def
    <2> QED
      BY <1>4
  <1> HIDE DEF after
  <1>6. after[0] = [heap |-> heap, index |-> Len(heap)] /\ \A k \in 1 .. n : after[k] = Turn(after[k - 1], k)
    <2>1. 0 \in 0 .. n /\ \A k \in 1 .. n : k \in 0 .. n /\ k # 0
      OBVIOUS
    <2> QED
      BY <1>5, <2>1
  <1> QED
    BY <1>1, <1>6 DEF Turn

(* The loop of TopDown. *)
LEMMA TopDownLoop ==
  ASSUME NEW heap, NEW start, Len(heap) \in Nat
  PROVE  \E f : /\ f[0] = [heap |-> heap, index |-> start]
                /\ \A k \in 1 .. Len(heap) : f[k] = IF Sinks(f[k - 1].heap, f[k - 1].index)
                           THEN [heap  |-> Exch(f[k - 1].heap, f[k - 1].index, Child(f[k - 1].heap, f[k - 1].index)),
                                 index |-> Child(f[k - 1].heap, f[k - 1].index)]
                           ELSE f[k - 1]
                /\ TopDown(heap, start) = f[Len(heap)].heap
  <1> DEFINE p == [loop |-> "down"]
             n == Len(heap)
             Turn(y, k) == IF Sinks(y.heap, y.index)
                           THEN [heap  |-> Exch(y.heap, y.index, Child(y.heap, y.index)),
                                 index |-> Child(y.heap, y.index)]
                           ELSE y
             Def(f) == f = [k \in 0 .. n |-> IF k = 0 THEN [heap |-> heap, index |-> start] ELSE Turn(f[k - 1], k)]
             after == CHOOSE f : Def(f)
  <1>1. TopDown(heap, start) = after[n].heap
    BY DEF TopDown
  <1>2. \A y, k : Round(p, y, k) = Turn(y, k)
    BY DEF Round
  <1> HIDE DEF Turn
  <1>3. PICK g : Rounds(g, p, [heap |-> heap, index |-> start], n)
    BY RoundsExist
  <1> HIDE DEF p
  <1>4. Def(g)
    <2>1. \A k \in 0 .. n : g[k] = IF k = 0 THEN [heap |-> heap, index |-> start] ELSE Turn(g[k - 1], k)
      <3> TAKE k \in 0 .. n
      <3>1. k = 0 \/ k \in 1 .. n
        OBVIOUS
      <3> QED
        BY <1>2, <1>3, <3>1 DEF Rounds
    <2>2. g = [k \in 0 .. n |-> g[k]]
      BY <1>3 DEF Rounds
    <2> QED
      BY <2>1, <2>2
  <1>5. Def(after)
    <2> HIDE DEF Def
    <2> QED
      BY <1>4
  <1> HIDE DEF after
  <1>6. after[0] = [heap |-> heap, index |-> start] /\ \A k \in 1 .. n : after[k] = Turn(after[k - 1], k)
    <2>1. 0 \in 0 .. n /\ \A k \in 1 .. n : k \in 0 .. n /\ k # 0
      OBVIOUS
    <2> QED
      BY <1>5, <2>1
  <1> QED
    BY <1>1, <1>6 DEF Turn

(* The loop of SetScheduler. *)
LEMMA MoveAllLoop ==
  ASSUME NEW from, NEW to, Cardinality(Content(from)) \in Nat
  PROVE  \E f : /\ f[0] = [from |-> from, to |-> to]
                /\ \A k \in 1 .. Cardinality(Content(from)) : f[k] = IF IsEmpty(f[k - 1].from) THEN f[k - 1]
                           ELSE [from |-> RemoveNext(f[k - 1].from).sched,
                                 to   |-> Insert(f[k - 1].to, RemoveNext(f[k - 1].from).ev)]
                /\ MoveAll(from, to) = f[Cardinality(Content(from))].to
  <1> DEFINE p == [loop |-> "all"]
             n == Cardinality(Content(from))
             Turn(y, k) == IF IsEmpty(y.from) THEN y
                           ELSE [from |-> RemoveNext(y.from).sched,
                                 to   |-> Insert(y.to, RemoveNext(y.from).ev)]
             Def(f) == f = [k \in 0 .. n |-> IF k = 0 THEN [from |-> from, to |-> to] ELSE Turn(f[k - 1], k)]
             after == CHOOSE f : Def(f)
  <1>1. MoveAll(from, to) = after[n].to
    BY DEF MoveAll
  <1>2. \A y, k : Round(p, y, k) = Turn(y, k)
    BY DEF Round
  <1> HIDE DEF Turn
  <1>3. PICK g : Rounds(g, p, [from |-> from, to |-> to], n)
    BY RoundsExist
  <1> HIDE DEF p
  <1>4. Def(g)
    <2>1. \A k \in 0 .. n : g[k] = IF k = 0 THEN [from |-> from, to |-> to] ELSE Turn(g[k - 1], k)
      <3> TAKE k \in 0 .. n
      <3>1. k = 0 \/ k \in 1 .. n
        OBVIOUS
      <3> QED
        BY <1>2, <1>3, <3>1 DEF Rounds
    <2>2. g = [k \in 0 .. n |-> g[k]]
      BY <1>3 DEF Rounds
    <2> QED
      BY <2>1, <2>2
  <1>5. Def(after)
    <2> HIDE DEF Def
    <2> QED
      BY <1>4
  <1> HIDE DEF after
  <1>6. after[0] = [from |-> from, to |-> to] /\ \A k \in 1 .. n : after[k] = Turn(after[k - 1], k)
    <2>1. 0 \in 0 .. n /\ \A k \in 1 .. n : k \in 0 .. n /\ k # 0
      OBVIOUS
    <2> QED
      BY <1>5, <2>1
  <1> QED
    BY <1>1, <1>6 DEF Turn

(* The width of a resized calendar is at least one. *)
LEMMA NewWidthPositive ==
  ASSUME NEW evs \in Seq(Event), Len(evs) >= 2
  PROVE  NewWidth(evs) \in Nat \ {0}
  <1> DEFINE n == Len(evs) - 1
             diff(i) == evs[i + 1].ts - evs[i].ts
             Total(f) == f = [i \in 0 .. n |-> IF i = 0 THEN 0 ELSE f[i - 1] + diff(i)]
             total == CHOOSE f : Total(f)
             most == (total[n] \div n) * 2
             p == [loop |-> "width", list |-> evs, most |-> most]
             Turn(y, i) == y + (IF diff(i) <= most THEN diff(i) ELSE 0)
             Def(f) == f = [i \in 0 .. n |-> IF i = 0 THEN 0 ELSE Turn(f[i - 1], i)]
             near == CHOOSE f : Def(f)
  <1>0. n \in Nat /\ n \in 0 .. n /\ \A i \in 1 .. n : diff(i) \in Int
    <2>1. \A i \in 1 .. Len(evs) : evs[i].ts \in Nat
      <3>1. \A i \in 1 .. Len(evs) : evs[i] \in Event
        OBVIOUS
      <3>2. \A e \in Event : e.ts \in Nat
        BY DEF Event
      <3> QED
        BY <3>1, <3>2
    <2>2. Len(evs) \in Nat
      OBVIOUS
    <2> QED
      BY <2>1, <2>2
  <1>1. NewWidth(evs) = IF 3 * near[n] > 1 THEN 3 * near[n] ELSE 1
    BY DEF NewWidth
  <1> HIDE DEF most
  <1>2. \A y, k : Round(p, y, k) = Turn(y, k)
    BY DEF Round
  <1>3. \A y \in Int : \A k \in 1 .. n : Turn(y, k) \in Int
    BY <1>0
  <1> HIDE DEF Turn, n
  <1>4. PICK g : Rounds(g, p, 0, n)
    BY <1>0, RoundsExist
  <1> HIDE DEF p
  <1>5. Def(g)
    <2>1. \A k \in 0 .. n : g[k] = IF k = 0 THEN 0 ELSE Turn(g[k - 1], k)
      <3> TAKE k \in 0 .. n
      <3>1. k = 0 \/ k \in 1 .. n
        OBVIOUS
      <3> QED
        BY <1>2, <1>4, <3>1 DEF Rounds
    <2>2. g = [k \in 0 .. n |-> g[k]]
      BY <1>4 DEF Rounds
    <2> QED
      BY <2>1, <2>2
  <1>6. Def(near)
    <2> HIDE DEF Def
    <2> QED
      BY <1>5
  <1> HIDE DEF near
  <1>7. \A k \in 0 .. n : near[k] \in Int
    <2> DEFINE S == {k \in Nat : k <= n => near[k] \in Int}
    <2>1. 0 \in S
      BY <1>0, <1>6
    <2>2. ASSUME NEW k \in Nat, k \in S PROVE k + 1 \in S
      <3> SUFFICES ASSUME k + 1 <= n PROVE near[k + 1] \in Int
        OBVIOUS
      <3>1. k <= n /\ k + 1 \in 0 .. n /\ k + 1 # 0 /\ (k + 1) - 1 = k /\ k + 1 \in 1 .. n
        BY <1>0
      <3>2. near[k] \in Int
        BY <2>2, <3>1
      <3>3. near[k + 1] = Turn(near[k], k + 1)
        BY <1>6, <3>1
      <3> QED
        BY <1>3, <3>1, <3>2, <3>3
    <2> HIDE DEF S
    <2>3. Nat \subseteq S
      BY <2>1, <2>2, SetInduction
    <2> QED
      BY <1>0, <2>3 DEF S
  <1>8. near[n] \in Int
    BY <1>0, <1>7
  <1> QED
    BY <1>1, <1>8

-----------------------------------------------------------------------------
(* Division. *)

(* Products grow. *)
LEMMA ProductMonotone ==
  ASSUME NEW a \in Int, NEW b \in Int, a <= b, NEW c \in Nat
  PROVE  a * c <= b * c /\ a * c \in Int /\ b * c \in Int
  <1>1. (b - a) \in Nat /\ (b - a) * c \in Nat
    OBVIOUS
  <1>2. (b - a) * c = b * c - a * c /\ b * c \in Int /\ a * c \in Int
    OBVIOUS
  <1> QED
    BY <1>1, <1>2

(* The quotient and the remainder. *)
LEMMA DivMod ==
  ASSUME NEW a \in Nat, NEW w \in Nat \ {0}
  PROVE  /\ a \div w \in Nat /\ a % w \in 0 .. w - 1
         /\ a = (a \div w) * w + (a % w)
         /\ (a \div w) * w \in Nat
  <1>1. a \div w \in Int /\ a % w \in 0 .. w - 1 /\ a = w * (a \div w) + (a % w)
    <2>1. a \div w \in Int
      OBVIOUS
    <2>2. a % w \in 0 .. w - 1
      OBVIOUS
    <2>3. a = w * (a \div w) + (a % w)
      OBVIOUS
    <2> QED
      BY <2>1, <2>2, <2>3
  <1> DEFINE q == a \div w
             r == a % w
  <1>2. q \in Int /\ r \in 0 .. w - 1 /\ a = w * q + r
    BY <1>1
  <1> HIDE DEF q, r
  <1>3. w * q = q * w /\ q * w \in Int
    BY <1>2
  <1>4. q >= 0
    <2> SUFFICES ASSUME q <= -1 PROVE FALSE
      BY <1>2
    <2>1. q * w <= (-1) * w
      BY <1>2, ProductMonotone
    <2> QED
      BY <1>2, <1>3, <2>1
  <1>5. q * w >= 0
    <2>1. 0 * w <= q * w
      BY <1>2, <1>4, ProductMonotone
    <2> QED
      BY <2>1
  <1>6. q \in Nat /\ a = q * w + r /\ q * w \in Nat
    BY <1>2, <1>3, <1>4, <1>5
  <1> QED
    BY <1>2, <1>6 DEF q, r

(* A time is before the m-th multiple of w when its quotient is less. *)
LEMMA DivBelow ==
  ASSUME NEW a \in Nat, NEW w \in Nat \ {0}, NEW m \in Nat
  PROVE  a < m * w <=> a \div w < m
  <1> DEFINE q == a \div w
             r == a % w
  <1>1. q \in Nat /\ r \in 0 .. w - 1 /\ a = q * w + r /\ q * w \in Nat
    BY DivMod
  <1> HIDE DEF q, r
  <1>2. CASE q < m
    <2>1. (q + 1) * w <= m * w /\ m * w \in Int
      BY <1>1, <1>2, ProductMonotone
    <2>2. (q + 1) * w = q * w + w
      BY <1>1
    <2> QED
      BY <1>1, <1>2, <2>1, <2>2 DEF q
  <1>3. CASE q >= m
    <2>1. m * w <= q * w /\ m * w \in Int
      BY <1>1, <1>3, ProductMonotone
    <2> QED
      BY <1>1, <1>3, <2>1 DEF q
  <1> QED
    BY <1>1, <1>2, <1>3

(* Quotients are ordered like times. *)
LEMMA DivMonotone ==
  ASSUME NEW a \in Nat, NEW b \in Nat, NEW w \in Nat \ {0}, a <= b
  PROVE  a \div w <= b \div w
  <1> DEFINE q == b \div w
  <1>1. q \in Nat /\ a \div w \in Nat
    BY DivMod
  <1>2. b < (q + 1) * w
    BY <1>1, DivBelow
  <1>3. (q + 1) * w \in Int
    BY <1>1
  <1>4. a < (q + 1) * w
    BY <1>2, <1>3
  <1>5. a \div w < q + 1
    BY <1>1, <1>4, DivBelow
  <1> QED
    BY <1>1, <1>5

(* The remainder is the only one. *)
LEMMA ModUnique ==
  ASSUME NEW n \in Nat \ {0}, NEW d \in Int, NEW r \in 0 .. n - 1, NEW a \in Nat,
         a = d * n + r
  PROVE  a % n = r
  <1> DEFINE q == a \div n
             s == a % n
  <1>1. q \in Nat /\ s \in 0 .. n - 1 /\ a = q * n + s /\ q * n \in Nat
    BY DivMod
  <1> HIDE DEF q, s
  <1>2. d * n \in Int
    OBVIOUS
  <1>3. CASE q >= d + 1
    <2>1. (d + 1) * n <= q * n
      BY <1>1, <1>3, ProductMonotone
    <2>2. (d + 1) * n = d * n + n
      OBVIOUS
    <2> QED
      BY <1>1, <1>2, <2>1, <2>2
  <1>4. CASE d >= q + 1
    <2>1. (q + 1) * n <= d * n
      BY <1>1, <1>4, ProductMonotone
    <2>2. (q + 1) * n = q * n + n
      BY <1>1
    <2> QED
      BY <1>1, <1>2, <2>1, <2>2
  <1>5. CASE q = d
    BY <1>1, <1>2, <1>5 DEF s
  <1> QED
    BY <1>1, <1>3, <1>4, <1>5

(* A remainder can be taken before an addition. *)
LEMMA ModShift ==
  ASSUME NEW n \in Nat \ {0}, NEW a \in Nat, NEW k \in Nat
  PROVE  ((a % n) + k) % n = (a + k) % n
  <1> DEFINE q == a \div n
             s == a % n
             d == (s + k) \div n
             r == (s + k) % n
  <1>1. q \in Nat /\ s \in 0 .. n - 1 /\ a = q * n + s /\ q * n \in Nat
    BY DivMod
  <1> HIDE DEF q, s
  <1>2. d \in Nat /\ r \in 0 .. n - 1 /\ s + k = d * n + r /\ d * n \in Nat
    <2>1. s + k \in Nat
      BY <1>1
    <2> QED
      BY <2>1, DivMod
  <1> HIDE DEF d, r
  <1>3. (q + d) * n = q * n + d * n
    BY <1>1, <1>2
  <1>4. a + k = (q + d) * n + r /\ a + k \in Nat /\ q + d \in Int
    BY <1>1, <1>2, <1>3
  <1>5. (a + k) % n = r
    BY <1>2, <1>4, ModUnique
  <1> QED
    BY <1>5 DEF r, s

(* Two numbers less than n apart have different remainders. *)
LEMMA ModApart ==
  ASSUME NEW n \in Nat \ {0}, NEW a \in Nat, NEW b \in Nat, a <= b, b < a + n,
         a % n = b % n
  PROVE  a = b
  <1> DEFINE q == a \div n
             s == a % n
             d == b \div n
  <1>1. q \in Nat /\ s \in 0 .. n - 1 /\ a = q * n + s /\ q * n \in Nat
    BY DivMod
  <1>2. d \in Nat /\ b = d * n + s /\ d * n \in Nat
    BY DivMod
  <1> HIDE DEF q, s, d
  <1>3. CASE d >= q + 1
    <2>1. (q + 1) * n <= d * n
      BY <1>1, <1>2, <1>3, ProductMonotone
    <2>2. (q + 1) * n = q * n + n
      BY <1>1
    <2> QED
      BY <1>1, <1>2, <2>1, <2>2
  <1>4. CASE q >= d + 1
    <2>1. (d + 1) * n <= q * n
      BY <1>1, <1>2, <1>4, ProductMonotone
    <2>2. (d + 1) * n = d * n + n
      BY <1>2
    <2> QED
      BY <1>1, <1>2, <2>1, <2>2
  <1>5. CASE q = d
    BY <1>1, <1>2, <1>5
  <1> QED
    BY <1>1, <1>2, <1>3, <1>4, <1>5

-----------------------------------------------------------------------------
(* The buckets of a calendar. *)

(* The members that do not depend on the events. *)
Frame(c) ==
  /\ DOMAIN c = {"reverse", "buckets", "width", "lastBucket", "lastPrio", "bucketTop", "qSize"}
  /\ c.reverse \in BOOLEAN /\ c.width \in Nat \ {0}
  /\ nBuckets(c) \in BucketCounts /\ DOMAIN c.buckets = 0 .. nBuckets(c) - 1

(* The events of E whose bucket is i. *)
Share(c, E, i) == {e \in E : Hash(c, e.ts) = i}

(* The buckets hold the events E, each in its own and in order. *)
Racks(c, E) ==
  /\ Frame(c) /\ E \subseteq Event
  /\ \A i \in 0 .. nBuckets(c) - 1 : Row(c.buckets[i], Share(c, E, i), c.reverse)

(* c and d differ in nothing but their events. *)
Alike(c, d) ==
  /\ Frame(d) /\ nBuckets(d) = nBuckets(c)
  /\ d.reverse = c.reverse /\ d.width = c.width /\ d.lastBucket = c.lastBucket
  /\ d.lastPrio = c.lastPrio /\ d.bucketTop = c.bucketTop /\ d.qSize = c.qSize

(* There is always a bucket. *)
LEMMA CountsPositive == BucketCounts \subseteq Nat \ {0}
  BY DEF BucketCounts

(* The number of buckets is the length of the array. *)
LEMMA BucketsCounted ==
  ASSUME NEW c, NEW n \in Nat, DOMAIN c.buckets = 0 .. n - 1
  PROVE  nBuckets(c) = n
  <1>1. Cardinality(0 .. n - 1) = n
    <2>1. 0 \in Int /\ n - 1 \in Int
      OBVIOUS
    <2>2. Cardinality(0 .. n - 1) = IF 0 > n - 1 THEN 0 ELSE (n - 1) - 0 + 1
      BY <2>1, FS_Interval
    <2> QED
      BY <2>2
  <1> QED
    BY <1>1 DEF nBuckets

(* Hash is a bucket. *)
LEMMA HashRange ==
  ASSUME NEW c, Frame(c), NEW t \in Nat
  PROVE  Hash(c, t) \in 0 .. nBuckets(c) - 1
  <1>1. nBuckets(c) \in Nat \ {0} /\ c.width \in Nat \ {0}
    BY CountsPositive DEF Frame
  <1>2. t \div c.width \in Nat
    BY <1>1, DivMod
  <1> QED
    BY <1>1, <1>2, DivMod DEF Hash

(* It depends on the number and the width of the buckets. *)
LEMMA HashAlike ==
  ASSUME NEW c, NEW d, nBuckets(d) = nBuckets(c), d.width = c.width
  PROVE  (\A t : Hash(d, t) = Hash(c, t)) /\ \A E, i : Share(d, E, i) = Share(c, E, i)
  BY DEF Hash, Share

(* A bucket is replaced. *)
LEMMA BucketReplaced ==
  ASSUME NEW c, NEW E, Racks(c, E), NEW h \in 0 .. nBuckets(c) - 1, NEW F, F \subseteq Event,
         \A i \in 0 .. nBuckets(c) - 1 : i # h => Share(c, F, i) = Share(c, E, i),
         NEW row, Row(row, Share(c, F, h), c.reverse),
         NEW d, d = [c EXCEPT !.buckets[h] = row]
  PROVE  Racks(d, F) /\ Alike(c, d)
  <1> DEFINE n == nBuckets(c)
  <1>1. Frame(c) /\ n \in Nat
    BY CountsPositive DEF Racks, Frame
  <1>2. /\ DOMAIN d = DOMAIN c /\ d.buckets = [c.buckets EXCEPT ![h] = row]
        /\ d.reverse = c.reverse /\ d.width = c.width /\ d.lastBucket = c.lastBucket
        /\ d.lastPrio = c.lastPrio /\ d.bucketTop = c.bucketTop /\ d.qSize = c.qSize
    BY <1>1 DEF Frame
  <1>3. DOMAIN d.buckets = 0 .. n - 1
    BY <1>1, <1>2 DEF Frame
  <1>4. nBuckets(d) = n
    BY <1>1, <1>3, BucketsCounted
  <1>5. Frame(d)
    BY <1>1, <1>2, <1>3, <1>4 DEF Frame
  <1>6. \A i : Share(d, F, i) = Share(c, F, i)
    BY <1>2, <1>4 DEF Hash, Share
  <1>7. ASSUME NEW i \in 0 .. n - 1
        PROVE  Row(d.buckets[i], Share(d, F, i), d.reverse)
    <2>1. CASE i = h
      <3>1. d.buckets[i] = row
        BY <1>1, <1>2, <2>1 DEF Frame
      <3> QED
        BY <1>2, <1>6, <2>1, <3>1
    <2>2. CASE i # h
      <3>1. d.buckets[i] = c.buckets[i]
        BY <1>1, <1>2, <2>2 DEF Frame
      <3>2. Row(c.buckets[i], Share(c, E, i), c.reverse)
        BY DEF Racks
      <3>3. Share(c, F, i) = Share(c, E, i)
        BY <2>2
      <3> QED
        BY <1>2, <1>6, <3>1, <3>2, <3>3
    <2> QED
      BY <2>1, <2>2
  <1> QED
    BY <1>2, <1>4, <1>5, <1>7 DEF Racks, Alike

(* DoInsert. *)
LEMMA DoInsertRacks ==
  ASSUME NEW c, NEW E, Racks(c, E), NEW ev \in Event, ev \notin E
  PROVE  Racks(DoInsert(c, ev), E \cup {ev}) /\ Alike(c, DoInsert(c, ev))
  <1> DEFINE h == Hash(c, ev.ts)
             F == E \cup {ev}
             row == InsertInOrder(c.buckets[h], ev, c.reverse)
  <1>1. Frame(c) /\ c.reverse \in BOOLEAN /\ F \subseteq Event /\ ev.ts \in Nat
    BY DEF Racks, Frame, Event
  <1>2. h \in 0 .. nBuckets(c) - 1
    BY <1>1, HashRange
  <1>3. Row(c.buckets[h], Share(c, E, h), c.reverse)
    BY <1>2 DEF Racks
  <1>4. Share(c, F, h) = Share(c, E, h) \cup {ev} /\ ev \notin Share(c, E, h)
    BY DEF Share
  <1>5. \A i : i # h => Share(c, F, i) = Share(c, E, i)
    BY DEF Share
  <1>6. DoInsert(c, ev) = [c EXCEPT !.buckets[h] = row]
    BY <1>1 DEF DoInsert, Frame
  <1> HIDE DEF h, F
  <1>7. Row(row, Share(c, F, h), c.reverse)
    BY <1>1, <1>3, <1>4, InsertRow
  <1> HIDE DEF row
  <1>8. Racks(DoInsert(c, ev), F) /\ Alike(c, DoInsert(c, ev))
    BY <1>1, <1>2, <1>5, <1>6, <1>7, BucketReplaced
  <1> QED
    BY <1>8 DEF F

(* The next event of a bucket, and Pop. *)
LEMMA NextOfBucket ==
  ASSUME NEW c, NEW E, Racks(c, E), NEW h \in 0 .. nBuckets(c) - 1, Share(c, E, h) # {}
  PROVE  /\ EarliestOf(NextEvent(c, h), Share(c, E, h))
         /\ Racks(Pop(c, h), E \ {NextEvent(c, h)}) /\ Alike(c, Pop(c, h))
  <1> DEFINE s == c.buckets[h]
             S == Share(c, E, h)
             next == NextEvent(c, h)
             row == IF c.reverse THEN Front(s) ELSE Tail(s)
             F == E \ {next}
  <1>1. Frame(c) /\ c.reverse \in BOOLEAN /\ Row(s, S, c.reverse) /\ E \subseteq Event
    BY DEF Racks, Frame
  <1>2. EarliestOf(next, S) /\ Row(row, S \ {next}, c.reverse)
    <2>1. CASE c.reverse = TRUE
      BY <1>1, <2>1, LastRow DEF NextEvent
    <2>2. CASE c.reverse = FALSE
      BY <1>1, <2>2, HeadRow DEF NextEvent
    <2> QED
      BY <1>1, <2>1, <2>2
  <1>3. next \in E /\ Hash(c, next.ts) = h
    BY <1>2 DEF EarliestOf, Share
  <1>4. Share(c, F, h) = S \ {next} /\ F \subseteq Event
    BY <1>1 DEF Share
  <1>5. \A i : i # h => Share(c, F, i) = Share(c, E, i)
    BY <1>3 DEF Share
  <1>6. Pop(c, h) = [c EXCEPT !.buckets[h] = row]
    BY <1>1 DEF Pop, Frame
  <1> HIDE DEF F, row, next, S
  <1>7. Row(row, Share(c, F, h), c.reverse)
    BY <1>2, <1>4
  <1> DEFINE d == Pop(c, h)
  <1>8. d = [c EXCEPT !.buckets[h] = row]
    BY <1>6
  <1> HIDE DEF d
  <1>9. Racks(d, F) /\ Alike(c, d)
    BY <1>4, <1>5, <1>7, <1>8, BucketReplaced
  <1> QED
    BY <1>2, <1>9 DEF F, next, S, d

(* The buckets and the set of their events. *)
LEMMA RacksEvents ==
  ASSUME NEW c, NEW E, Racks(c, E)
  PROVE  Events(c) = E
  <1>1. Frame(c) /\ E \subseteq Event /\ \A e \in E : e.ts \in Nat
    BY DEF Racks, Event
  <1>2. DOMAIN c.buckets = 0 .. nBuckets(c) - 1
    BY <1>1 DEF Frame
  <1>3. \A i \in 0 .. nBuckets(c) - 1 : ToSet(c.buckets[i]) = Share(c, E, i)
    BY DEF Racks, Row
  <1>4. \A e \in E : e \in Share(c, E, Hash(c, e.ts)) /\ Hash(c, e.ts) \in 0 .. nBuckets(c) - 1
    BY <1>1, HashRange DEF Share
  <1>5. \A i : Share(c, E, i) \subseteq E
    BY DEF Share
  <1> QED
    BY <1>2, <1>3, <1>4, <1>5 DEF Events

-----------------------------------------------------------------------------
(* The search. *)

(* The search begins in the bucket and the year of the last event. *)
Start(c) ==
  /\ c.lastPrio \in Nat
  /\ c.lastBucket = Hash(c, c.lastPrio)
  /\ c.bucketTop = (c.lastPrio \div c.width + 1) * c.width

(* And no event is earlier. *)
Shelf(c, E) == Racks(c, E) /\ Start(c) /\ \A e \in E : c.lastPrio <= e.ts

(* The turns of the search go through all buckets. *)
LEMMA TurnBuckets ==
  ASSUME NEW c, Frame(c), Start(c)
  PROVE  /\ \A k \in 0 .. nBuckets(c) - 1 :
              /\ BucketOf(c, k) \in 0 .. nBuckets(c) - 1
              /\ BucketOf(c, k) = (c.lastPrio \div c.width + k) % nBuckets(c)
         /\ \A i \in 0 .. nBuckets(c) - 1 :
              \E k \in 0 .. nBuckets(c) - 1 : BucketOf(c, k) = i
  <1> DEFINE n == nBuckets(c)
             q == c.lastPrio \div c.width
             lb == c.lastBucket
  <1>1. n \in Nat \ {0} /\ c.width \in Nat \ {0} /\ c.lastPrio \in Nat
    BY CountsPositive DEF Frame, Start
  <1>2. q \in Nat
    BY <1>1, DivMod
  <1>3. lb = q % n /\ lb \in 0 .. n - 1
    BY <1>1, HashRange DEF Start, Hash
  <1> HIDE DEF q, n
  <1>4. ASSUME NEW k \in 0 .. n - 1
        PROVE  BucketOf(c, k) \in 0 .. n - 1 /\ BucketOf(c, k) = (q + k) % n
    <2>1. BucketOf(c, k) = ((q % n) + k) % n
      BY <1>3 DEF BucketOf, n
    <2>2. k \in Nat /\ q + k \in Nat
      BY <1>1, <1>2
    <2>3. BucketOf(c, k) = (q + k) % n
      BY <1>1, <1>2, <2>1, <2>2, ModShift
    <2> QED
      BY <1>1, <2>2, <2>3, DivMod
  <1>5. ASSUME NEW i \in 0 .. n - 1
        PROVE  \E k \in 0 .. n - 1 : BucketOf(c, k) = i
    <2> HIDE DEF lb
    <2>1. CASE i >= lb
      <3>1. i - lb \in 0 .. n - 1 /\ lb + (i - lb) = i /\ i = 0 * n + i /\ i \in Nat
        BY <1>1, <1>3, <2>1
      <3>2. i % n = i
        BY <1>1, <3>1, ModUnique
      <3>3. BucketOf(c, i - lb) = i
        BY <3>1, <3>2 DEF BucketOf, n, lb
      <3> QED
        BY <3>1, <3>3
    <2>2. CASE i < lb
      <3> DEFINE k == (i - lb) + n
      <3>1. k \in 0 .. n - 1 /\ lb + k = i + n /\ i + n = 1 * n + i /\ i + n \in Nat
        BY <1>1, <1>3, <2>2
      <3>2. (i + n) % n = i
        BY <1>1, <3>1, ModUnique
      <3> HIDE DEF k
      <3>3. BucketOf(c, k) = i
        BY <3>1, <3>2 DEF BucketOf, n, lb
      <3> QED
        BY <3>1, <3>3
    <2> QED
      BY <1>3, <2>1, <2>2
  <1> QED
    BY <1>4, <1>5 DEF n, q

(* What the search of PeekNext and DoRemoveNext finds is the earliest      *)
(* event: the first turn with an event of its own year is that of the      *)
(* earliest year, and without such a turn all first events are compared.   *)
LEMMA SearchFinds ==
  ASSUME NEW c, NEW E, Shelf(c, E), E # {}
  PROVE  /\ NextBucket(c) \in 0 .. nBuckets(c) - 1
         /\ Share(c, E, NextBucket(c)) # {}
         /\ EarliestOf(NextEvent(c, NextBucket(c)), E)
         /\ Hits(c) # {} =>
              c.bucketTop + Min(Hits(c)) * c.width =
                (NextEvent(c, NextBucket(c)).ts \div c.width + 1) * c.width
  <1> DEFINE n == nBuckets(c)
             w == c.width
             q == c.lastPrio \div w
             B == 0 .. n - 1
             slot(e) == e.ts \div w
             first(k) == NextEvent(c, BucketOf(c, k))
             share(k) == Share(c, E, BucketOf(c, k))
  <1>1. /\ Frame(c) /\ Start(c) /\ Racks(c, E) /\ E \subseteq Event
        /\ n \in Nat \ {0} /\ w \in Nat \ {0} /\ c.lastPrio \in Nat
        /\ \A e \in E : c.lastPrio <= e.ts /\ e.ts \in Nat
    BY CountsPositive DEF Shelf, Racks, Frame, Start, Event
  <1>2. q \in Nat /\ \A e \in E : slot(e) \in Nat /\ q <= slot(e)
    BY <1>1, DivMod, DivMonotone
  <1>3. \A k \in B : BucketOf(c, k) \in B /\ BucketOf(c, k) = (q + k) % n
    BY <1>1, TurnBuckets
  <1>4. \A i \in B : \E k \in B : BucketOf(c, k) = i
    BY <1>1, TurnBuckets
  <1>5. \A e \in E : Hash(c, e.ts) = slot(e) % n /\ Hash(c, e.ts) \in B
    BY <1>1, HashRange DEF Hash
  <1>6. \A k \in B : k \in Turns(c) <=> share(k) # {}
    <2> TAKE k \in B
    <2>1. Row(c.buckets[BucketOf(c, k)], share(k), c.reverse)
      BY <1>1, <1>3 DEF Racks
    <2>2. c.buckets[BucketOf(c, k)] = << >> <=> share(k) = {}
      BY <2>1, RowEmpty
    <2> QED
      BY <2>2 DEF Turns
  <1>7. Turns(c) \subseteq B
    BY DEF Turns
  <1>8. ASSUME NEW k \in Turns(c)
        PROVE  /\ EarliestOf(first(k), share(k)) /\ first(k) \in E
               /\ slot(first(k)) % n = (q + k) % n /\ Hash(c, first(k).ts) = BucketOf(c, k)
    <2>1. k \in B /\ share(k) # {} /\ BucketOf(c, k) \in B
      BY <1>3, <1>6, <1>7
    <2>2. EarliestOf(first(k), share(k))
      BY <1>1, <2>1, NextOfBucket
    <2>3. first(k) \in E /\ Hash(c, first(k).ts) = BucketOf(c, k)
      BY <2>2 DEF EarliestOf, Share
    <2> QED
      BY <1>3, <1>5, <2>1, <2>2, <2>3
  <1>9. ASSUME NEW k \in Turns(c)
        PROVE  k \in Hits(c) <=> slot(first(k)) < q + 1 + k
    <2>1. c.bucketTop = (q + 1) * w
      BY <1>1 DEF Start
    <2>2. k \in Nat /\ first(k).ts \in Nat /\ q + 1 + k \in Nat
      BY <1>1, <1>2, <1>7, <1>8
    <2>3. (q + 1) * w + k * w = (q + 1 + k) * w
      <3> HIDE DEF q, w
      <3> QED
        BY <1>1, <1>2, <2>2
    <2>4. first(k).ts < (q + 1 + k) * w <=> slot(first(k)) < q + 1 + k
      <3> DEFINE a == first(k).ts
                 m == q + 1 + k
      <3>1. a \in Nat /\ m \in Nat
        BY <2>2
      <3> HIDE DEF a, m
      <3>2. a < m * w <=> a \div w < m
        BY <1>1, <3>1, DivBelow
      <3> QED
        BY <3>2 DEF a, m
    <2>5. k \in Hits(c) <=> first(k).ts < c.bucketTop + k * w
      BY DEF Hits
    <2> QED
      BY <2>1, <2>3, <2>4, <2>5
  <1> HIDE DEF slot, first, share, q, w, n
  (* A hit is for an event of the year the turn is in. *)
  <1>10. ASSUME NEW k \in Hits(c)
         PROVE  k \in Turns(c) /\ k \in B /\ k \in Nat /\ slot(first(k)) = q + k
    <2>1. k \in Turns(c)
      BY DEF Hits
    <2>2. k \in B /\ k \in Nat /\ k < n
      BY <1>1, <1>7, <2>1
    <2>3. slot(first(k)) \in Nat /\ q <= slot(first(k)) /\ slot(first(k)) < q + 1 + k
      BY <1>2, <1>8, <1>9, <2>1
    <2>4. slot(first(k)) % n = (q + k) % n
      BY <1>8, <2>1
    <2> DEFINE a == slot(first(k))
               b == q + k
    <2>5. a \in Nat /\ b \in Nat /\ a <= b /\ b < a + n
      BY <1>1, <1>2, <2>2, <2>3
    <2>6. a % n = b % n
      BY <2>4
    <2> HIDE DEF a, b
    <2>7. a = b
      BY <1>1, <2>5, <2>6, ModApart
    <2> QED
      BY <2>1, <2>2, <2>7 DEF a, b
  (* An event of the year has its turn, and that turn is a hit. *)
  <1>11. ASSUME NEW e \in E, slot(e) < q + n
         PROVE  slot(e) - q \in Hits(c) /\ BucketOf(c, slot(e) - q) = Hash(c, e.ts)
    <2> DEFINE k == slot(e) - q
    <2>1. k \in B /\ q + k = slot(e)
      BY <1>1, <1>2, <1>11
    <2> HIDE DEF k
    <2>2. BucketOf(c, k) = Hash(c, e.ts)
      BY <1>3, <1>5, <2>1
    <2>3. e \in share(k)
      BY <2>2 DEF share, Share
    <2>4. k \in Turns(c)
      BY <1>6, <2>1, <2>3
    <2>5. first(k) \in E /\ (first(k) = e \/ Before(first(k), e))
      BY <1>8, <2>3, <2>4 DEF EarliestOf
    <2>6. first(k).ts <= e.ts
      <3>1. first(k) \in Event /\ e \in Event
        BY <1>1, <2>5
      <3> QED
        BY <1>1, <2>5, <3>1, BeforeOrder
    <2>7. slot(first(k)) <= slot(e)
      <3>1. first(k).ts \in Nat /\ e.ts \in Nat
        BY <1>1, <2>5
      <3> QED
        BY <1>1, <2>6, <3>1, DivMonotone DEF slot
    <2>8. slot(first(k)) < q + 1 + k
      BY <1>2, <2>1, <2>5, <2>7
    <2>9. k \in Hits(c)
      BY <1>9, <2>4, <2>8
    <2> QED
      BY <2>2, <2>9 DEF k
  <1>12. CASE Hits(c) # {}
    <2> DEFINE k == Min(Hits(c))
    <2>1. Hits(c) \subseteq Nat
      BY <1>10
    <2>2. k \in Hits(c) /\ \A j \in Hits(c) : k <= j
      BY <1>12, <2>1, MinIsLeast
    <2>3. NextBucket(c) = BucketOf(c, k)
      BY <1>12 DEF NextBucket
    <2> HIDE DEF k
    <2>4. /\ k \in Turns(c) /\ k \in B /\ k \in Nat /\ slot(first(k)) = q + k
          /\ EarliestOf(first(k), share(k)) /\ first(k) \in E
          /\ Hash(c, first(k).ts) = BucketOf(c, k) /\ BucketOf(c, k) \in B
      BY <1>3, <1>8, <1>10, <2>2
    <2>5. ASSUME NEW e \in E \ {first(k)}
          PROVE  Before(first(k), e)
      <3>0. e \in E /\ slot(e) \in Nat /\ q <= slot(e) /\ e.ts \in Nat /\ first(k).ts \in Nat
        BY <1>1, <1>2, <2>4
      <3>1. CASE slot(e) < q + k
        <4>1. slot(e) < q + n /\ slot(e) - q < k
          BY <1>1, <1>2, <2>4, <3>0, <3>1
        <4>2. slot(e) - q \in Hits(c)
          BY <1>11, <3>0, <4>1
        <4>3. k <= slot(e) - q
          BY <2>2, <4>2
        <4> QED
          BY <1>2, <2>4, <3>0, <4>1, <4>3
      <3>2. CASE slot(e) = q + k
        <4>1. slot(e) < q + n /\ slot(e) - q = k
          BY <1>1, <1>2, <2>4, <3>0, <3>2
        <4>2. BucketOf(c, k) = Hash(c, e.ts)
          BY <1>11, <3>0, <4>1
        <4>3. e \in share(k)
          BY <3>0, <4>2 DEF share, Share
        <4> QED
          BY <2>4, <4>3 DEF EarliestOf
      <3>3. CASE slot(e) > q + k
        <4>1. ~(e.ts <= first(k).ts)
          <5> SUFFICES ASSUME e.ts <= first(k).ts PROVE FALSE
            OBVIOUS
          <5>1. slot(e) <= slot(first(k))
            BY <1>1, <3>0, DivMonotone DEF slot
          <5> QED
            BY <1>2, <2>4, <3>0, <3>3, <5>1
        <4> QED
          BY <3>0, <4>1 DEF Before
      <3> QED
        BY <1>2, <2>4, <3>0, <3>1, <3>2, <3>3
    <2>6. EarliestOf(first(k), E)
      BY <2>4, <2>5 DEF EarliestOf
    <2>7. Share(c, E, BucketOf(c, k)) # {}
      BY <2>4 DEF EarliestOf, share
    <2>8. c.bucketTop + k * w = (first(k).ts \div w + 1) * w
      <3>1. c.bucketTop = (q + 1) * w
        BY <1>1 DEF Start, q, w
      <3>2. (q + 1) * w + k * w = ((q + k) + 1) * w
        BY <1>1, <1>2, <2>4
      <3>3. first(k).ts \div w = q + k
        BY <2>4 DEF slot
      <3> QED
        BY <3>1, <3>2, <3>3
    <2> QED
      BY <2>3, <2>4, <2>6, <2>7, <2>8 DEF first, n, w, k
  <1>13. CASE Hits(c) = {}
    <2>2. ASSUME NEW e \in E
          PROVE  \E k \in Turns(c) : e \in share(k)
      <3>1. PICK k \in B : BucketOf(c, k) = Hash(c, e.ts)
        BY <1>4, <1>5
      <3>2. e \in share(k)
        BY <3>1 DEF share, Share
      <3> QED
        BY <1>6, <3>1, <3>2
    <2> DEFINE Firsts == {first(k) : k \in Turns(c)}
    <2>3. Firsts \subseteq Event /\ Firsts # {}
      BY <1>1, <1>8, <2>2
    <2>4. PICK f \in Firsts : EarliestOf(f, Firsts)
      BY <2>3, EarliestExists
    <2>5. PICK m \in Turns(c) : f = first(m)
      BY <2>4
    <2>6. \A j \in Turns(c) \ {m} : Before(first(m), first(j))
      <3> TAKE j \in Turns(c) \ {m}
      <3>1. first(j) # first(m)
        <4>1. j \in B /\ m \in B /\ j # m
          BY <1>7
        <4>2. (q + j) % n # (q + m) % n
          <5> SUFFICES ASSUME (q + j) % n = (q + m) % n PROVE FALSE
            OBVIOUS
          <5> DEFINE a == q + j
                     b == q + m
          <5>1. a \in Nat /\ b \in Nat /\ a # b /\ a < b + n /\ b < a + n /\ a % n = b % n
            BY <1>1, <1>2, <4>1
          <5> HIDE DEF a, b
          <5>2. a <= b => a = b
            BY <1>1, <5>1, ModApart
          <5>3. b <= a => b = a
            BY <1>1, <5>1, ModApart
          <5> QED
            BY <5>1, <5>2, <5>3
        <4> QED
          BY <1>8, <4>2
      <3> QED
        BY <2>4, <2>5, <3>1 DEF EarliestOf
    <2> DEFINE P(k) == \A j \in Turns(c) \ {k} : Before(first(k), first(j))
               b == CHOOSE k \in Turns(c) : P(k)
    <2>7. b \in Turns(c) /\ P(b)
      <3>1. P(m)
        BY <2>6
      <3> HIDE DEF P
      <3> QED
        BY <3>1
    <2>8. NextBucket(c) = BucketOf(c, b)
      BY <1>13 DEF NextBucket, MinBucket, first
    <2> HIDE DEF b
    <2>9. first(b) \in E /\ BucketOf(c, b) \in B /\ EarliestOf(first(b), share(b))
      BY <1>3, <1>7, <1>8, <2>7
    <2>10. ASSUME NEW e \in E \ {first(b)}
           PROVE  Before(first(b), e)
      <3>1. PICK k \in Turns(c) : e \in share(k)
        BY <2>2
      <3>2. CASE k = b
        BY <2>9, <3>1, <3>2 DEF EarliestOf
      <3>3. CASE k # b
        <4>1. Before(first(b), first(k))
          BY <2>7, <3>3
        <4>2. e = first(k) \/ Before(first(k), e)
          BY <1>8, <3>1 DEF EarliestOf
        <4>3. first(b) \in Event /\ first(k) \in Event /\ e \in Event
          BY <1>1, <1>8, <2>9
        <4> QED
          BY <4>1, <4>2, <4>3, BeforeTransitive
      <3> QED
        BY <3>2, <3>3
    <2>11. EarliestOf(first(b), E)
      BY <2>9, <2>10 DEF EarliestOf
    <2>12. Share(c, E, BucketOf(c, b)) # {}
      BY <2>9 DEF EarliestOf, share
    <2> QED
      BY <1>13, <2>8, <2>9, <2>11, <2>12 DEF first, n
  <1> QED
    BY <1>12, <1>13

(* c and d differ in their events and in where the search begins. *)
Kin(c, d) ==
  /\ Frame(d) /\ nBuckets(d) = nBuckets(c)
  /\ d.reverse = c.reverse /\ d.width = c.width /\ d.qSize = c.qSize

(* The buckets are the same when the members they depend on are. *)
LEMMA RacksKept ==
  ASSUME NEW c, NEW E, Racks(c, E), NEW d, DOMAIN d = DOMAIN c,
         d.buckets = c.buckets, d.reverse = c.reverse, d.width = c.width
  PROVE  Racks(d, E) /\ nBuckets(d) = nBuckets(c)
  <1>1. nBuckets(d) = nBuckets(c)
    BY DEF nBuckets
  <1>2. Frame(d)
    BY <1>1 DEF Racks, Frame
  <1>3. \A i : Share(d, E, i) = Share(c, E, i)
    BY <1>1 DEF Hash, Share
  <1> QED
    BY <1>1, <1>2, <1>3 DEF Racks

(* StartAt changes where the search begins. *)
LEMMA StartAtEffect ==
  ASSUME NEW c, NEW E, Racks(c, E), NEW t \in Nat
  PROVE  /\ Racks(StartAt(c, t), E) /\ Start(StartAt(c, t)) /\ Kin(c, StartAt(c, t))
         /\ StartAt(c, t).lastPrio = t
  <1> DEFINE d == StartAt(c, t)
  <1>1. Frame(c)
    BY DEF Racks
  <1>2. /\ DOMAIN d = DOMAIN c /\ d.buckets = c.buckets /\ d.reverse = c.reverse
        /\ d.width = c.width /\ d.qSize = c.qSize /\ d.lastPrio = t
        /\ d.lastBucket = Hash(c, t) /\ d.bucketTop = (t \div c.width + 1) * c.width
    BY <1>1 DEF StartAt, Frame
  <1> HIDE DEF d
  <1>3. Racks(d, E) /\ nBuckets(d) = nBuckets(c)
    BY <1>2, RacksKept
  <1>4. Hash(d, t) = Hash(c, t)
    BY <1>2, <1>3 DEF Hash
  <1> QED
    BY <1>2, <1>3, <1>4 DEF Start, Kin, Racks, d

(* DoRemoveNext takes out the earliest event, and the search goes on from  *)
(* there.                                                                  *)
LEMMA DoRemoveNextShelf ==
  ASSUME NEW c, NEW E, Shelf(c, E), E # {}
  PROVE  /\ DoRemoveNext(c).ev = CalendarPeekNext(c)
         /\ EarliestOf(DoRemoveNext(c).ev, E)
         /\ Shelf(DoRemoveNext(c).cal, E \ {DoRemoveNext(c).ev})
         /\ DoRemoveNext(c).cal.lastPrio = DoRemoveNext(c).ev.ts
         /\ Kin(c, DoRemoveNext(c).cal)
  <1> DEFINE b == NextBucket(c)
             next == NextEvent(c, b)
             p == Pop(c, b)
             F == E \ {next}
             k == Min(Hits(c))
             r == DoRemoveNext(c)
             d == r.cal
  <1>1. /\ b \in 0 .. nBuckets(c) - 1 /\ Share(c, E, b) # {} /\ EarliestOf(next, E)
        /\ Hits(c) # {} => c.bucketTop + k * c.width = (next.ts \div c.width + 1) * c.width
    BY SearchFinds
  <1>2. Racks(c, E) /\ E \subseteq Event
    BY DEF Shelf, Racks
  <1>3. EarliestOf(next, Share(c, E, b)) /\ Racks(p, F) /\ Alike(c, p)
    BY <1>1, <1>2, NextOfBucket
  <1>4. next \in E /\ next \in Event /\ next.ts \in Nat /\ Hash(c, next.ts) = b
    BY <1>2, <1>3 DEF EarliestOf, Share, Event
  <1>5. \A e \in F : next.ts <= e.ts
    <2> TAKE e \in F
    <2>1. Before(next, e) /\ e \in Event
      BY <1>1, <1>2 DEF EarliestOf
    <2> QED
      BY <1>4, <2>1, BeforeOrder
  <1>6. CalendarPeekNext(c) = next
    BY DEF CalendarPeekNext
  <1>7. CASE Hits(c) # {}
    <2>1. b = BucketOf(c, k)
      BY <1>7 DEF NextBucket
    <2>2. r = [ev  |-> next,
               cal |-> [p EXCEPT !.lastBucket = b, !.lastPrio = next.ts,
                                 !.bucketTop = c.bucketTop + k * c.width]]
      BY <1>7, <2>1 DEF DoRemoveNext
    <2> HIDE DEF p, next, b, F, k
    <2>3. r.ev = next /\ d = [p EXCEPT !.lastBucket = b, !.lastPrio = next.ts,
                                       !.bucketTop = c.bucketTop + k * c.width]
      BY <2>2
    <2> HIDE DEF r, d
    <2>4. /\ DOMAIN d = DOMAIN p /\ d.buckets = p.buckets /\ d.reverse = p.reverse
          /\ d.width = p.width /\ d.qSize = p.qSize /\ d.lastPrio = next.ts
          /\ d.lastBucket = b /\ d.bucketTop = c.bucketTop + k * c.width
      BY <1>3, <2>3 DEF Racks, Frame
    <2>5. Racks(d, F) /\ nBuckets(d) = nBuckets(p)
      BY <1>3, <2>4, RacksKept
    <2>6. d.width = c.width /\ nBuckets(d) = nBuckets(c) /\ Kin(c, d)
      BY <1>3, <2>4, <2>5 DEF Alike, Kin, Racks
    <2>7. Start(d)
      BY <1>1, <1>4, <1>7, <2>4, <2>6 DEF Start, Hash
    <2>8. Shelf(d, F)
      BY <1>5, <2>4, <2>5, <2>7 DEF Shelf
    <2> QED
      BY <1>1, <1>6, <2>3, <2>4, <2>6, <2>8 DEF r, d, F
  <1>8. CASE Hits(c) = {}
    <2>1. b = MinBucket(c)
      BY <1>8 DEF NextBucket
    <2>2. r = [ev |-> next, cal |-> StartAt(p, next.ts)]
      BY <1>8, <2>1 DEF DoRemoveNext
    <2> HIDE DEF p, next, b, F
    <2>3. r.ev = next /\ d = StartAt(p, next.ts)
      BY <2>2
    <2> HIDE DEF r, d
    <2>4. Racks(d, F) /\ Start(d) /\ Kin(p, d) /\ d.lastPrio = next.ts
      BY <1>3, <1>4, <2>3, StartAtEffect
    <2>5. Shelf(d, F)
      BY <1>5, <2>4 DEF Shelf
    <2>6. Kin(c, d)
      BY <1>3, <2>4 DEF Alike, Kin
    <2> QED
      BY <1>1, <1>6, <2>3, <2>4, <2>5, <2>6 DEF r, d, F
  <1> QED
    BY <1>7, <1>8

-----------------------------------------------------------------------------
(* Resizing. *)

(* InsertList puts in the events of a list. *)
LEMMA InsertListRacks ==
  ASSUME NEW c, NEW E, Racks(c, E), NEW list, NEW S, NEW reverse \in BOOLEAN,
         Row(list, S, reverse), S \cap E = {}
  PROVE  Racks(InsertList(c, list), E \cup S) /\ Alike(c, InsertList(c, list))
  <1> DEFINE n == Len(list)
             Part(k) == {list[i] : i \in 1 .. k}
  <1>1. /\ n \in Nat /\ \A i \in 1 .. n : list[i] \in Event /\ list[i] \in S
        /\ \A e \in S : \E i \in 1 .. n : list[i] = e
        /\ \A i, j \in 1 .. n : i < j => Precedes(reverse, list[i], list[j])
    BY RowPlaces
  <1>2. PICK f : /\ f[0] = c
                 /\ \A k \in 1 .. n : f[k] = DoInsert(f[k - 1], list[k])
                 /\ InsertList(c, list) = f[n]
    BY <1>1, InsertListLoop
  <1> DEFINE T == {k \in Nat : k <= n => Racks(f[k], E \cup Part(k)) /\ Alike(c, f[k])}
  <1>3. 0 \in T
    <2>1. Part(0) = {}
      OBVIOUS
    <2>2. Alike(c, c)
      BY DEF Racks, Alike
    <2> HIDE DEF Part
    <2>3. E \cup Part(0) = E
      BY <2>1
    <2> QED
      BY <1>2, <2>2, <2>3
  <1>4. ASSUME NEW k \in Nat, k \in T PROVE k + 1 \in T
    <2> SUFFICES ASSUME k + 1 <= n
                 PROVE  Racks(f[k + 1], E \cup Part(k + 1)) /\ Alike(c, f[k + 1])
      OBVIOUS
    <2> DEFINE ev == list[k + 1]
    <2>1. k <= n /\ k + 1 \in 1 .. n /\ (k + 1) - 1 = k
      BY <1>1
    <2>2. Racks(f[k], E \cup Part(k)) /\ Alike(c, f[k])
      BY <1>4, <2>1
    <2>3. Part(k + 1) = Part(k) \cup {ev}
      <3>1. \A i \in 1 .. k + 1 : i = k + 1 \/ i \in 1 .. k
        OBVIOUS
      <3>2. \A i \in 1 .. k : i \in 1 .. k + 1
        OBVIOUS
      <3>3. k + 1 \in 1 .. k + 1
        OBVIOUS
      <3> QED
        BY <3>1, <3>2, <3>3
    <2>4. ev \in Event /\ ev \in S /\ ev \notin E
      BY <1>1, <2>1
    <2>5. ev \notin Part(k)
      <3> SUFFICES ASSUME NEW i \in 1 .. k, list[i] = ev PROVE FALSE
        OBVIOUS
      <3>1. i \in 1 .. n /\ i < k + 1
        BY <1>1, <2>1
      <3>2. Precedes(reverse, list[i], ev)
        BY <1>1, <2>1, <3>1
      <3> QED
        BY <2>4, <3>2, PrecedesOrder
    <2>6. f[k + 1] = DoInsert(f[k], ev)
      BY <1>2, <2>1
    <2> HIDE DEF Part, ev
    <2>7. /\ Racks(DoInsert(f[k], ev), (E \cup Part(k)) \cup {ev})
          /\ Alike(f[k], DoInsert(f[k], ev))
      BY <2>2, <2>4, <2>5, DoInsertRacks
    <2>8. (E \cup Part(k)) \cup {ev} = E \cup Part(k + 1)
      BY <2>3
    <2>9. Alike(c, f[k + 1])
      BY <2>2, <2>6, <2>7 DEF Alike
    <2> QED
      BY <2>6, <2>7, <2>8, <2>9
  <1> HIDE DEF T
  <1>5. Nat \subseteq T
    BY <1>3, <1>4, SetInduction
  <1>6. n \in T
    BY <1>1, <1>5
  <1>7. Part(n) = S
    BY <1>1
  <1>8. n <= n
    BY <1>1
  <1> HIDE DEF Part, n
  <1>9. Racks(f[n], E \cup Part(n)) /\ Alike(c, f[n])
    BY <1>6, <1>8 DEF T
  <1> QED
    BY <1>2, <1>7, <1>9

(* A calendar fresh from Init. *)
LEMMA InitCalendarRacks ==
  ASSUME NEW c, NEW n \in BucketCounts, NEW w \in Nat \ {0}, NEW t \in Nat,
         DOMAIN c = {"reverse", "buckets", "width", "lastBucket", "lastPrio", "bucketTop",
                     "qSize"},
         c.reverse \in BOOLEAN
  PROVE  LET d == InitCalendar(c, n, w, t)
         IN  /\ Racks(d, {}) /\ Start(d) /\ nBuckets(d) = n /\ d.width = w
             /\ d.lastPrio = t /\ d.reverse = c.reverse /\ d.qSize = c.qSize
  <1> DEFINE a == [c EXCEPT !.buckets = [i \in 0 .. n - 1 |-> << >>], !.width = w]
             d == InitCalendar(c, n, w, t)
  <1>1. /\ DOMAIN a = DOMAIN c /\ a.buckets = [i \in 0 .. n - 1 |-> << >>]
        /\ a.width = w /\ a.reverse = c.reverse /\ a.qSize = c.qSize
    OBVIOUS
  <1>2. d = StartAt(a, t)
    BY DEF InitCalendar
  <1> HIDE DEF a, d
  <1>3. n \in Nat /\ DOMAIN a.buckets = 0 .. n - 1
    BY <1>1, CountsPositive
  <1>4. nBuckets(a) = n
    BY <1>3, BucketsCounted
  <1>5. Frame(a)
    BY <1>1, <1>3, <1>4 DEF Frame
  <1>6. \A i \in 0 .. n - 1 : a.buckets[i] = << >> /\ Share(a, {}, i) = {}
    BY <1>1 DEF Share
  <1>7. Racks(a, {})
    BY <1>4, <1>5, <1>6, RowEmpty DEF Racks
  <1>8. Racks(d, {}) /\ Start(d) /\ Kin(a, d) /\ d.lastPrio = t
    BY <1>2, <1>7, StartAtEffect
  <1> QED
    BY <1>1, <1>4, <1>8 DEF Kin, d

(* DoResize: the same events in other buckets. *)
LEMMA DoResizeShelf ==
  ASSUME NEW c, NEW E, Shelf(c, E), NEW n \in BucketCounts, NEW w \in Nat \ {0}
  PROVE  LET d == DoResize(c, n, w)
         IN  Shelf(d, E) /\ d.lastPrio = c.lastPrio /\ d.reverse = c.reverse /\ d.qSize = c.qSize
  <1> DEFINE N == nBuckets(c)
             a == InitCalendar(c, n, w, c.lastPrio)
             Part(k) == {e \in E : Hash(c, e.ts) < k}
  <1>1. /\ Racks(c, E) /\ Frame(c) /\ E \subseteq Event /\ c.lastPrio \in Nat /\ N \in Nat
        /\ \A e \in E : c.lastPrio <= e.ts /\ e.ts \in Nat
        /\ c.reverse \in BOOLEAN
        /\ DOMAIN c = {"reverse", "buckets", "width", "lastBucket", "lastPrio", "bucketTop",
                       "qSize"}
    BY CountsPositive DEF Shelf, Racks, Start, Frame, Event
  <1>2. /\ Racks(a, {}) /\ Start(a) /\ a.lastPrio = c.lastPrio
        /\ a.reverse = c.reverse /\ a.qSize = c.qSize
    BY <1>1, InitCalendarRacks
  <1>3. PICK f : /\ f[0] = a
                 /\ \A k \in 1 .. N : f[k] = InsertList(f[k - 1], c.buckets[k - 1])
                 /\ DoResize(c, n, w) = f[N]
    BY <1>1, ResizeLoop
  <1> HIDE DEF a, N
  <1>4. \A e \in E : Hash(c, e.ts) \in 0 .. N - 1
    BY <1>1, HashRange DEF N
  <1> DEFINE T == {k \in Nat : k <= N => Racks(f[k], Part(k)) /\ Alike(a, f[k])}
  <1>5. 0 \in T
    <2>1. Part(0) = {}
      BY <1>1, <1>4
    <2>2. Alike(a, a)
      BY <1>2 DEF Racks, Alike
    <2> QED
      BY <1>2, <1>3, <2>1, <2>2
  <1>6. ASSUME NEW k \in Nat, k \in T PROVE k + 1 \in T
    <2> SUFFICES ASSUME k + 1 <= N
                 PROVE  Racks(f[k + 1], Part(k + 1)) /\ Alike(a, f[k + 1])
      OBVIOUS
    <2> DEFINE list == c.buckets[k]
               S == Share(c, E, k)
    <2>1. k <= N /\ k + 1 \in 1 .. N /\ (k + 1) - 1 = k /\ k \in 0 .. N - 1
      BY <1>1
    <2>2. Racks(f[k], Part(k)) /\ Alike(a, f[k])
      BY <1>6, <2>1
    <2>3. Row(list, S, c.reverse)
      BY <1>1, <2>1 DEF Racks, N
    <2>4. S \cap Part(k) = {} /\ Part(k) \cup S = Part(k + 1)
      <3>1. \A e \in E : Hash(c, e.ts) < k + 1 <=> Hash(c, e.ts) < k \/ Hash(c, e.ts) = k
        BY <1>1, <1>4
      <3>2. ~(k < k)
        OBVIOUS
      <3> QED
        BY <3>1, <3>2 DEF Share
    <2>5. f[k + 1] = InsertList(f[k], list)
      BY <1>3, <2>1
    <2> HIDE DEF Part, S, list
    <2>6. /\ Racks(InsertList(f[k], list), Part(k) \cup S)
          /\ Alike(f[k], InsertList(f[k], list))
      BY <1>1, <2>2, <2>3, <2>4, InsertListRacks
    <2>7. Alike(a, f[k + 1])
      BY <2>2, <2>5, <2>6 DEF Alike
    <2> QED
      BY <2>4, <2>5, <2>6, <2>7
  <1> HIDE DEF T
  <1>7. Nat \subseteq T
    BY <1>5, <1>6, SetInduction
  <1>8. Part(N) = E
    BY <1>1, <1>4
  <1> HIDE DEF Part
  <1>9. Racks(f[N], E) /\ Alike(a, f[N])
    BY <1>1, <1>7, <1>8 DEF T
  <1>10. Start(f[N])
    BY <1>2, <1>9 DEF Start, Alike, Hash
  <1> QED
    BY <1>1, <1>2, <1>3, <1>9, <1>10 DEF Shelf, Alike

(* A list of events goes on with a later one. *)
LEMMA AppendRow ==
  ASSUME NEW s, NEW S, Row(s, S, FALSE), NEW ev \in Event, \A e \in S : Before(e, ev)
  PROVE  Row(Append(s, ev), S \cup {ev}, FALSE) /\ Len(Append(s, ev)) = Len(s) + 1
  <1> DEFINE n == Len(s)
             t == Append(s, ev)
  <1>0. /\ s \in Seq(Event) /\ n \in Nat
        /\ \A i \in 1 .. n : s[i] \in Event /\ s[i] \in S
        /\ \A e \in S : \E i \in 1 .. n : s[i] = e
        /\ \A i, j \in 1 .. n : i < j => Before(s[i], s[j])
    BY RowPlaces DEF Row, Precedes
  <1>1. /\ t \in Seq(Event) /\ Len(t) = n + 1 /\ t[n + 1] = ev
        /\ \A i \in 1 .. n : t[i] = s[i]
    BY <1>0
  <1> HIDE DEF t
  <1>2. \A i \in 1 .. Len(t) : i = n + 1 \/ i \in 1 .. n
    BY <1>0, <1>1
  <1>3. \A i \in 1 .. n : i \in 1 .. Len(t) /\ n + 1 \in 1 .. Len(t)
    BY <1>0, <1>1
  <1>4. \A i \in 1 .. Len(t) : t[i] \in S \cup {ev}
    BY <1>0, <1>1, <1>2
  <1>5. \A e \in S \cup {ev} : \E i \in 1 .. Len(t) : t[i] = e
    <2> TAKE e \in S \cup {ev}
    <2>1. CASE e = ev
      BY <1>0, <1>1, <2>1
    <2>2. CASE e \in S
      BY <1>0, <1>1, <1>3, <2>2
    <2> QED
      BY <2>1, <2>2
  <1>6. ASSUME NEW i \in 1 .. Len(t), NEW j \in 1 .. Len(t), i < j
        PROVE  Precedes(FALSE, t[i], t[j])
    <2>1. i \in 1 .. n
      BY <1>0, <1>1, <1>6
    <2>2. CASE j = n + 1
      BY <1>0, <1>1, <2>1, <2>2 DEF Precedes
    <2>3. CASE j \in 1 .. n
      BY <1>0, <1>1, <1>6, <2>1, <2>3 DEF Precedes
    <2> QED
      BY <1>2, <2>2, <2>3
  <1>7. Row(t, S \cup {ev}, FALSE)
    BY <1>1, <1>4, <1>5, <1>6, PlacesRow
  <1> QED
    BY <1>1, <1>7 DEF t

(* A calendar of the events E, m_qSize included. *)
CalendarOf(c, E) == Shelf(c, E) /\ IsFiniteSet(E) /\ c.qSize = Cardinality(E)

(* There are as many samples as events, or fewer. *)
LEMMA SampleCount ==
  ASSUME NEW c, c.qSize \in Nat
  PROVE  /\ nSamples(c) \in Nat /\ nSamples(c) <= c.qSize
         /\ c.qSize >= 2 => nSamples(c) >= 2
  <1> DEFINE q == c.qSize
             t == q \div 10
  <1>1. q \in Nat /\ t \in Nat /\ 10 * t <= q
    OBVIOUS
  <1>2. nSamples(c) = IF q <= 5 THEN q ELSE IF 5 + t > 25 THEN 25 ELSE 5 + t
    BY DEF nSamples
  <1> HIDE DEF q, t
  <1>3. q > 5 => 5 + t <= q /\ (5 + t > 25 => 25 <= q)
    BY <1>1
  <1> QED
    BY <1>1, <1>2, <1>3 DEF q

(* The samples are the first events of the calendar, in order. *)
LEMMA SampleTakes ==
  ASSUME NEW c, NEW E, CalendarOf(c, E)
  PROVE  LET s == Sample(c)
         IN  /\ Row(s.evs, ToSet(s.evs), FALSE) /\ Len(s.evs) = nSamples(c)
             /\ ToSet(s.evs) \subseteq E
             /\ Racks(s.cal, E \ ToSet(s.evs)) /\ Kin(c, s.cal)
  <1> DEFINE n == nSamples(c)
  <1>0. /\ IsFiniteSet(E) /\ c.qSize = Cardinality(E) /\ Cardinality(E) \in Nat
        /\ E \subseteq Event /\ Shelf(c, E) /\ Frame(c)
    BY FS_CardinalityType DEF CalendarOf, Shelf, Racks
  <1>1. n \in Nat /\ n <= Cardinality(E)
    BY <1>0, SampleCount
  <1>2. PICK f : /\ f[0] = [cal |-> c, evs |-> << >>]
                 /\ \A k \in 1 .. n :
                      f[k] = [cal |-> DoRemoveNext(f[k - 1].cal).cal,
                              evs |-> Append(f[k - 1].evs, DoRemoveNext(f[k - 1].cal).ev)]
                 /\ Sample(c) = f[n]
    BY <1>1, SampleLoop
  <1> HIDE DEF n
  <1> DEFINE Taken(y, k, S) ==
               /\ Row(y.evs, S, FALSE) /\ Len(y.evs) = k /\ S \subseteq E
               /\ Cardinality(S) = k /\ Shelf(y.cal, E \ S) /\ Kin(c, y.cal)
               /\ \A e \in S : \A g \in E \ S : Before(e, g)
             T == {k \in Nat : k <= n => \E S : Taken(f[k], k, S)}
  <1>3. 0 \in T
    <2>1. f[0].cal = c /\ f[0].evs = << >>
      BY <1>2
    <2>2. Row(<< >>, {}, FALSE) /\ Len(<< >>) = 0
      BY RowEmpty
    <2>3. Cardinality({}) = 0 /\ E \ {} = E
      BY FS_EmptySet
    <2>4. Kin(c, c)
      BY <1>0 DEF Kin
    <2>5. Taken(f[0], 0, {})
      BY <1>0, <2>1, <2>2, <2>3, <2>4
    <2> HIDE DEF Taken
    <2> QED
      BY <2>5
  <1>4. ASSUME NEW k \in Nat, k \in T PROVE k + 1 \in T
    <2> SUFFICES ASSUME k + 1 <= n PROVE \E S : Taken(f[k + 1], k + 1, S)
      <3> HIDE DEF Taken
      <3> QED
        OBVIOUS
    <2>1. k <= n /\ k < Cardinality(E) /\ k + 1 \in 1 .. n /\ (k + 1) - 1 = k
      BY <1>0, <1>1
    <2>2. PICK S : Taken(f[k], k, S)
      <3> HIDE DEF Taken
      <3> QED
        BY <1>4, <2>1
    <2> DEFINE y == f[k]
               F == E \ S
               r == DoRemoveNext(y.cal)
               ev == r.ev
    <2>3. /\ Row(y.evs, S, FALSE) /\ Len(y.evs) = k /\ S \subseteq E
          /\ Cardinality(S) = k /\ Shelf(y.cal, F) /\ Kin(c, y.cal)
          /\ \A e \in S : \A g \in F : Before(e, g)
      BY <2>2
    <2>4. F # {}
      <3> SUFFICES ASSUME F = {} PROVE FALSE
        OBVIOUS
      <3>1. S = E
        BY <2>3
      <3> QED
        BY <1>0, <2>1, <2>3, <3>1
    <2>5. f[k + 1] = [cal |-> r.cal, evs |-> Append(y.evs, ev)]
      BY <1>2, <2>1
    <2> HIDE DEF y
    <2>6. EarliestOf(ev, F) /\ Shelf(r.cal, F \ {ev}) /\ Kin(y.cal, r.cal)
      BY <2>3, <2>4, DoRemoveNextShelf
    <2> HIDE DEF r, ev, Taken
    <2>7. ev \in E /\ ev \in Event /\ ev \notin S /\ ev \in F
      BY <1>0, <2>6 DEF EarliestOf
    <2>8. Row(Append(y.evs, ev), S \cup {ev}, FALSE) /\ Len(Append(y.evs, ev)) = k + 1
      BY <2>3, <2>7, AppendRow
    <2>9. Cardinality(S \cup {ev}) = k + 1
      <3>1. IsFiniteSet(S)
        BY <1>0, <2>3, FS_Subset
      <3> QED
        BY <2>3, <2>7, <3>1, FS_AddElement
    <2>10. F \ {ev} = E \ (S \cup {ev})
      OBVIOUS
    <2>11. Kin(c, r.cal)
      BY <2>3, <2>6 DEF Kin
    <2>12. \A e \in S \cup {ev} : \A g \in E \ (S \cup {ev}) : Before(e, g)
      BY <2>3, <2>6 DEF EarliestOf
    <2>13. f[k + 1].cal = r.cal /\ f[k + 1].evs = Append(y.evs, ev)
      BY <2>5
    <2>14. Shelf(r.cal, E \ (S \cup {ev}))
      BY <2>6, <2>10
    <2> HIDE DEF F
    <2>15. Taken(f[k + 1], k + 1, S \cup {ev})
      BY <2>3, <2>7, <2>8, <2>9, <2>11, <2>12, <2>13, <2>14 DEF Taken
    <2> QED
      BY <2>15
  <1> HIDE DEF T
  <1>5. Nat \subseteq T
    BY <1>3, <1>4, SetInduction
  <1>6. PICK S : Taken(f[n], n, S)
    <2> HIDE DEF Taken
    <2> QED
      BY <1>1, <1>5 DEF T
  <1>7. ToSet(f[n].evs) = S
    BY <1>6 DEF Row
  <1> QED
    BY <1>2, <1>6, <1>7 DEF Shelf, n

(* CalculateNewWidth leaves the calendar as it was. *)
LEMMA PutBackShelf ==
  ASSUME NEW c, NEW E, CalendarOf(c, E)
  PROVE  LET d == PutBack(c, Sample(c))
         IN  /\ Shelf(d, E) /\ d.lastPrio = c.lastPrio /\ d.qSize = c.qSize
             /\ d.reverse = c.reverse
  <1> DEFINE s == Sample(c)
             S == ToSet(s.evs)
             a == InsertList(s.cal, s.evs)
             d == PutBack(c, s)
  <1>1. Row(s.evs, S, FALSE) /\ S \subseteq E /\ Racks(s.cal, E \ S) /\ Kin(c, s.cal)
    BY SampleTakes
  <1>2. d = [a EXCEPT !.lastBucket = c.lastBucket, !.bucketTop = c.bucketTop,
                      !.lastPrio = c.lastPrio]
    BY DEF PutBack
  <1> HIDE DEF d, S, s
  <1>3. Racks(a, (E \ S) \cup S) /\ Alike(s.cal, a)
    <2>1. S \cap (E \ S) = {} /\ FALSE \in BOOLEAN
      OBVIOUS
    <2> QED
      BY <1>1, <2>1, InsertListRacks
  <1>4. (E \ S) \cup S = E
    BY <1>1
  <1> HIDE DEF a
  <1>5. Racks(a, E)
    BY <1>3, <1>4
  <1>6. /\ DOMAIN d = DOMAIN a /\ d.buckets = a.buckets /\ d.reverse = a.reverse
        /\ d.width = a.width /\ d.qSize = a.qSize /\ d.lastPrio = c.lastPrio
        /\ d.lastBucket = c.lastBucket /\ d.bucketTop = c.bucketTop
    BY <1>2, <1>5 DEF Racks, Frame
  <1>7. Racks(d, E) /\ nBuckets(d) = nBuckets(a)
    BY <1>5, <1>6, RacksKept
  <1>8. nBuckets(d) = nBuckets(c) /\ d.width = c.width /\ d.qSize = c.qSize
        /\ d.reverse = c.reverse
    BY <1>1, <1>3, <1>6, <1>7 DEF Kin, Alike
  <1>9. Start(d)
    BY <1>6, <1>8 DEF CalendarOf, Shelf, Start, Hash
  <1> QED
    BY <1>6, <1>7, <1>8, <1>9 DEF CalendarOf, Shelf, d, s

(* Resize. *)
LEMMA ResizeCalendar ==
  ASSUME NEW c, NEW E, CalendarOf(c, E), NEW n \in BucketCounts
  PROVE  CalendarOf(Resize(c, n), E) /\ Resize(c, n).lastPrio = c.lastPrio
         /\ Resize(c, n).reverse = c.reverse
  <1>0. Shelf(c, E) /\ IsFiniteSet(E) /\ c.qSize = Cardinality(E) /\ c.qSize \in Nat
    BY FS_CardinalityType DEF CalendarOf
  <1>1. CASE c.qSize < 2
    <2>1. Resize(c, n) = DoResize(c, n, 1)
      BY <1>1 DEF Resize
    <2>2. 1 \in Nat \ {0}
      OBVIOUS
    <2> QED
      BY <1>0, <2>1, <2>2, DoResizeShelf DEF CalendarOf
  <1>2. CASE ~(c.qSize < 2)
    <2> DEFINE s == Sample(c)
               d == PutBack(c, s)
               w == NewWidth(s.evs)
    <2>1. Resize(c, n) = DoResize(d, n, w)
      BY <1>2 DEF Resize
    <2>2. /\ Shelf(d, E) /\ d.lastPrio = c.lastPrio /\ d.qSize = c.qSize
          /\ d.reverse = c.reverse
      BY PutBackShelf
    <2>3. s.evs \in Seq(Event) /\ Len(s.evs) = nSamples(c)
      BY SampleTakes DEF Row
    <2>4. nSamples(c) >= 2
      BY <1>0, <1>2, SampleCount
    <2>5. w \in Nat \ {0}
      BY <2>3, <2>4, NewWidthPositive
    <2> HIDE DEF d, w
    <2>6. /\ Shelf(DoResize(d, n, w), E) /\ DoResize(d, n, w).lastPrio = d.lastPrio
          /\ DoResize(d, n, w).reverse = d.reverse /\ DoResize(d, n, w).qSize = d.qSize
      BY <2>2, <2>5, DoResizeShelf
    <2> QED
      BY <1>0, <2>1, <2>2, <2>6 DEF CalendarOf
  <1> QED
    BY <1>1, <1>2

(* ResizeUp and ResizeDown. *)
LEMMA ResizesCalendar ==
  ASSUME NEW c, NEW E, CalendarOf(c, E)
  PROVE  /\ CalendarOf(ResizeUp(c), E) /\ ResizeUp(c).lastPrio = c.lastPrio
         /\ ResizeUp(c).reverse = c.reverse
         /\ CalendarOf(ResizeDown(c), E) /\ ResizeDown(c).lastPrio = c.lastPrio
         /\ ResizeDown(c).reverse = c.reverse
  <1> DEFINE n == nBuckets(c)
  <1>1. n \in BucketCounts /\ n \in Nat
    BY CountsPositive DEF CalendarOf, Shelf, Racks, Frame
  <1>2. c.qSize \in Nat
    BY FS_CardinalityType DEF CalendarOf
  <1> HIDE DEF n
  <1>3. n < 32768 => 2 * n \in BucketCounts
    BY <1>1 DEF BucketCounts
  <1>4. c.qSize < n \div 2 => n \div 2 \in BucketCounts
    <2>1. n = 1 => n \div 2 = 0
      OBVIOUS
    <2>2. n # 1 => n \div 2 \in BucketCounts
      BY <1>1 DEF BucketCounts
    <2> QED
      BY <1>2, <2>1, <2>2
  <1>5. /\ CalendarOf(ResizeUp(c), E) /\ ResizeUp(c).lastPrio = c.lastPrio
        /\ ResizeUp(c).reverse = c.reverse
    <2>1. CASE c.qSize > 2 * n /\ n < 32768
      <3>1. 2 * n \in BucketCounts /\ ResizeUp(c) = Resize(c, 2 * n)
        BY <1>3, <2>1 DEF ResizeUp, n
      <3> QED
        BY <3>1, ResizeCalendar
    <2>2. CASE ~(c.qSize > 2 * n /\ n < 32768)
      <3>1. ResizeUp(c) = c
        BY <2>2 DEF ResizeUp, n
      <3> QED
        BY <3>1
    <2> QED
      BY <2>1, <2>2
  <1>6. /\ CalendarOf(ResizeDown(c), E) /\ ResizeDown(c).lastPrio = c.lastPrio
        /\ ResizeDown(c).reverse = c.reverse
    <2>1. CASE c.qSize < n \div 2
      <3>1. n \div 2 \in BucketCounts /\ ResizeDown(c) = Resize(c, n \div 2)
        BY <1>4, <2>1 DEF ResizeDown, n
      <3> QED
        BY <3>1, ResizeCalendar
    <2>2. CASE ~(c.qSize < n \div 2)
      <3>1. ResizeDown(c) = c
        BY <2>2 DEF ResizeDown, n
      <3> QED
        BY <3>1
    <2> QED
      BY <2>1, <2>2
  <1> QED
    BY <1>5, <1>6

-----------------------------------------------------------------------------
(* The operations of CalendarScheduler. *)

(* A new calendar is empty. *)
LEMMA NewCalendarOf ==
  ASSUME NEW reverse \in BOOLEAN
  PROVE  /\ CalendarOf(NewCalendar(reverse), {}) /\ NewCalendar(reverse).lastPrio = 0
         /\ NewCalendar(reverse).reverse = reverse
  <1> DEFINE a == [reverse |-> reverse, buckets |-> << >>, width |-> 1, lastBucket |-> 0,
                   lastPrio |-> 0, bucketTop |-> 1, qSize |-> 0]
             d == NewCalendar(reverse)
  <1>1. /\ DOMAIN a = {"reverse", "buckets", "width", "lastBucket", "lastPrio", "bucketTop",
                       "qSize"}
        /\ a.reverse = reverse /\ a.qSize = 0
    OBVIOUS
  <1>2. d = InitCalendar(a, 2, 1, 0)
    BY DEF NewCalendar
  <1> HIDE DEF a, d
  <1>3. 2 \in BucketCounts /\ 1 \in Nat \ {0} /\ 0 \in Nat
    BY DEF BucketCounts
  <1>4. /\ Racks(d, {}) /\ Start(d) /\ d.lastPrio = 0 /\ d.reverse = reverse /\ d.qSize = 0
    BY <1>1, <1>2, <1>3, InitCalendarRacks
  <1>5. IsFiniteSet({}) /\ Cardinality({}) = 0
    BY FS_EmptySet
  <1> QED
    BY <1>4, <1>5 DEF CalendarOf, Shelf, d

(* m_qSize changes beside the events. *)
LEMMA SizeChanged ==
  ASSUME NEW c, NEW E, Shelf(c, E), NEW m, NEW d, d = [c EXCEPT !.qSize = m]
  PROVE  Shelf(d, E) /\ d.qSize = m /\ d.lastPrio = c.lastPrio /\ d.reverse = c.reverse
  <1>1. Racks(c, E) /\ Frame(c)
    BY DEF Shelf, Racks
  <1>2. /\ DOMAIN d = DOMAIN c /\ d.buckets = c.buckets /\ d.reverse = c.reverse
        /\ d.width = c.width /\ d.qSize = m /\ d.lastPrio = c.lastPrio
        /\ d.lastBucket = c.lastBucket /\ d.bucketTop = c.bucketTop
    BY <1>1 DEF Frame
  <1>3. Racks(d, E) /\ nBuckets(d) = nBuckets(c)
    BY <1>1, <1>2, RacksKept
  <1>4. Start(d)
    BY <1>2, <1>3 DEF Shelf, Start, Hash
  <1> QED
    BY <1>2, <1>3, <1>4 DEF Shelf

(* Insert, of an event that is not before the search. *)
LEMMA CalendarInsertOf ==
  ASSUME NEW c, NEW E, CalendarOf(c, E), NEW ev \in Event, ev \notin E, c.lastPrio <= ev.ts
  PROVE  /\ CalendarOf(CalendarInsert(c, ev), E \cup {ev})
         /\ CalendarInsert(c, ev).lastPrio = c.lastPrio
         /\ CalendarInsert(c, ev).reverse = c.reverse
  <1> DEFINE a == DoInsert(c, ev)
             F == E \cup {ev}
             d == [a EXCEPT !.qSize = a.qSize + 1]
  <1>0. Shelf(c, E) /\ Racks(c, E) /\ IsFiniteSet(E) /\ c.qSize = Cardinality(E)
    BY DEF CalendarOf, Shelf
  <1>1. Racks(a, F) /\ Alike(c, a)
    BY <1>0, DoInsertRacks
  <1>2. Start(a)
    BY <1>0, <1>1 DEF Shelf, Start, Alike, Hash
  <1>3. Shelf(a, F)
    BY <1>0, <1>1, <1>2 DEF Shelf, Alike
  <1>4. IsFiniteSet(F) /\ Cardinality(F) = Cardinality(E) + 1
    BY <1>0, FS_AddElement
  <1>5. CalendarInsert(c, ev) = ResizeUp(d)
    BY DEF CalendarInsert
  <1> HIDE DEF F, a
  <1>6. Shelf(d, F) /\ d.qSize = a.qSize + 1 /\ d.lastPrio = a.lastPrio
        /\ d.reverse = a.reverse
    BY <1>3, SizeChanged
  <1> HIDE DEF d
  <1>7. CalendarOf(d, F) /\ d.lastPrio = c.lastPrio /\ d.reverse = c.reverse
    BY <1>0, <1>1, <1>4, <1>6 DEF CalendarOf, Alike
  <1> QED
    BY <1>5, <1>7, ResizesCalendar DEF F

(* RemoveNext. *)
LEMMA CalendarRemoveNextOf ==
  ASSUME NEW c, NEW E, CalendarOf(c, E), E # {}
  PROVE  LET r == CalendarRemoveNext(c)
         IN  /\ EarliestOf(r.ev, E) /\ r.ev = CalendarPeekNext(c)
             /\ CalendarOf(r.cal, E \ {r.ev})
             /\ r.cal.lastPrio = r.ev.ts /\ r.cal.reverse = c.reverse
  <1> DEFINE s == DoRemoveNext(c)
             a == s.cal
             F == E \ {s.ev}
             d == [a EXCEPT !.qSize = a.qSize - 1]
             r == CalendarRemoveNext(c)
  <1>0. Shelf(c, E) /\ IsFiniteSet(E) /\ c.qSize = Cardinality(E)
    BY DEF CalendarOf
  <1>1. /\ s.ev = CalendarPeekNext(c) /\ EarliestOf(s.ev, E) /\ Shelf(a, F)
        /\ a.lastPrio = s.ev.ts /\ Kin(c, a)
    BY <1>0, DoRemoveNextShelf
  <1>2. r = [ev |-> s.ev, cal |-> ResizeDown(d)]
    BY DEF CalendarRemoveNext
  <1> HIDE DEF s, a, F
  <1>3. IsFiniteSet(F) /\ Cardinality(F) = Cardinality(E) - 1
    BY <1>0, <1>1, FS_RemoveElement DEF EarliestOf, F
  <1>4. Shelf(d, F) /\ d.qSize = a.qSize - 1 /\ d.lastPrio = a.lastPrio
        /\ d.reverse = a.reverse
    BY <1>1, SizeChanged
  <1> HIDE DEF d
  <1>5. CalendarOf(d, F) /\ d.lastPrio = s.ev.ts /\ d.reverse = c.reverse
    BY <1>0, <1>1, <1>3, <1>4 DEF CalendarOf, Kin
  <1>6. CalendarOf(ResizeDown(d), F) /\ ResizeDown(d).lastPrio = s.ev.ts
        /\ ResizeDown(d).reverse = c.reverse
    BY <1>5, ResizesCalendar
  <1>7. r.ev = s.ev /\ r.cal = ResizeDown(d)
    BY <1>2
  <1> HIDE DEF r
  <1> QED
    BY <1>1, <1>6, <1>7 DEF r, F

(* Remove. *)
LEMMA CalendarRemoveOf ==
  ASSUME NEW c, NEW E, CalendarOf(c, E), NEW ev \in E, UidsDistinct(E)
  PROVE  /\ CalendarOf(CalendarRemove(c, ev), E \ {ev})
         /\ CalendarRemove(c, ev).lastPrio = c.lastPrio
         /\ CalendarRemove(c, ev).reverse = c.reverse
  <1> DEFINE h == Hash(c, ev.ts)
             F == E \ {ev}
             row == Erase(c.buckets[h], ev)
             a == [c EXCEPT !.buckets[h] = row]
             d == [a EXCEPT !.qSize = a.qSize - 1]
  <1>0. /\ Shelf(c, E) /\ Racks(c, E) /\ Frame(c) /\ IsFiniteSet(E) /\ c.qSize = Cardinality(E)
        /\ E \subseteq Event /\ F \subseteq Event /\ ev.ts \in Nat /\ c.reverse \in BOOLEAN
    BY DEF CalendarOf, Shelf, Racks, Frame, Event
  <1>1. h \in 0 .. nBuckets(c) - 1
    BY <1>0, HashRange
  <1>2. Row(c.buckets[h], Share(c, E, h), c.reverse)
    BY <1>0, <1>1 DEF Racks
  <1>3. Share(c, F, h) = Share(c, E, h) \ {ev} /\ ev \in Share(c, E, h)
        /\ UidsDistinct(Share(c, E, h))
    BY DEF Share, UidsDistinct
  <1>4. \A i : i # h => Share(c, F, i) = Share(c, E, i)
    BY DEF Share
  <1>5. CalendarRemove(c, ev) = ResizeDown(d)
    <2>1. d = [c EXCEPT !.buckets[h] = Erase(@, ev), !.qSize = @ - 1]
      BY <1>0, <1>1 DEF Frame
    <2> QED
      BY <2>1 DEF CalendarRemove
  <1> HIDE DEF h
  <1>6. Row(row, Share(c, F, h), c.reverse)
    BY <1>0, <1>2, <1>3, EraseRow
  <1>7. IsFiniteSet(F) /\ Cardinality(F) = Cardinality(E) - 1
    BY <1>0, FS_RemoveElement
  <1> HIDE DEF row, F
  <1>8. Racks(a, F) /\ Alike(c, a)
    BY <1>0, <1>1, <1>4, <1>6, BucketReplaced
  <1> HIDE DEF a
  <1>9. Start(a)
    BY <1>0, <1>8 DEF Shelf, Start, Alike, Hash
  <1>10. Shelf(a, F)
    BY <1>0, <1>8, <1>9 DEF Shelf, Alike, F
  <1>11. Shelf(d, F) /\ d.qSize = a.qSize - 1 /\ d.lastPrio = a.lastPrio
         /\ d.reverse = a.reverse
    BY <1>10, SizeChanged
  <1> HIDE DEF d
  <1>12. CalendarOf(d, F) /\ d.lastPrio = c.lastPrio /\ d.reverse = c.reverse
    BY <1>0, <1>7, <1>8, <1>11 DEF CalendarOf, Alike
  <1> QED
    BY <1>5, <1>12, ResizesCalendar DEF F

-----------------------------------------------------------------------------
(* The heap. *)

(* The nodes of a heap are the events E, once each. *)
Nodes(h, E) ==
  /\ h \in Seq(Event) /\ ToSet(h) = E
  /\ \A i, j \in 1 .. Len(h) : i # j => h[i] # h[j]

(* And every node is earlier than its children. *)
HeapOf(h, E) == Nodes(h, E) /\ \A i \in 2 .. Len(h) : Before(h[Parent(i)], h[i])

(* Place by place. *)
LEMMA NodesPlaces ==
  ASSUME NEW h, NEW E, Nodes(h, E)
  PROVE  /\ h \in Seq(Event) /\ Len(h) \in Nat /\ E \subseteq Event
         /\ \A i \in 1 .. Len(h) : h[i] \in Event /\ h[i] \in E
         /\ \A e \in E : \E i \in 1 .. Len(h) : h[i] = e
         /\ \A i, j \in 1 .. Len(h) : i # j => h[i] # h[j]
  <1>1. h \in Seq(Event) /\ E = {h[i] : i \in DOMAIN h}
    BY DEF Nodes, ToSet
  <1>2. Len(h) \in Nat /\ DOMAIN h = 1 .. Len(h) /\ \A i \in 1 .. Len(h) : h[i] \in Event
    BY <1>1
  <1>3. \A i, j \in 1 .. Len(h) : i # j => h[i] # h[j]
    BY DEF Nodes
  <1> QED
    BY <1>1, <1>2, <1>3

(* And back. *)
LEMMA PlacesNodes ==
  ASSUME NEW h \in Seq(Event), NEW E,
         \A i \in 1 .. Len(h) : h[i] \in E,
         \A e \in E : \E i \in 1 .. Len(h) : h[i] = e,
         \A i, j \in 1 .. Len(h) : i # j => h[i] # h[j]
  PROVE  Nodes(h, E)
  <1>1. DOMAIN h = 1 .. Len(h)
    OBVIOUS
  <1>2. {h[i] : i \in 1 .. Len(h)} = E
    OBVIOUS
  <1> QED
    BY <1>1, <1>2 DEF Nodes, ToSet

(* Parents and children. *)
LEMMA Parents ==
  /\ \A i \in Nat : i >= 2 => /\ Parent(i) \in Nat /\ Parent(i) >= 1 /\ Parent(i) < i
                              /\ (i = 2 * Parent(i) \/ i = 2 * Parent(i) + 1)
  /\ \A i \in Nat : Parent(LeftChild(i)) = i /\ Parent(RightChild(i)) = i
  BY DEF Parent, LeftChild, RightChild

(* Exch. *)
LEMMA ExchNodes ==
  ASSUME NEW h, NEW E, Nodes(h, E), NEW a \in 1 .. Len(h), NEW b \in 1 .. Len(h)
  PROVE  LET g == Exch(h, a, b)
         IN  /\ Nodes(g, E) /\ Len(g) = Len(h) /\ g[a] = h[b] /\ g[b] = h[a]
             /\ \A i \in 1 .. Len(h) : i # a /\ i # b => g[i] = h[i]
  <1> DEFINE g == Exch(h, a, b)
             n == Len(h)
             v(i) == IF i = a THEN b ELSE IF i = b THEN a ELSE i
  <1>0. /\ h \in Seq(Event) /\ n \in Nat
        /\ \A i \in 1 .. n : h[i] \in Event /\ h[i] \in E
        /\ \A e \in E : \E i \in 1 .. n : h[i] = e
        /\ \A i, j \in 1 .. n : i # j => h[i] # h[j]
    BY NodesPlaces
  <1>1. g \in Seq(Event) /\ Len(g) = n
    BY <1>0 DEF Exch
  <1>2. \A i \in 1 .. n : g[i] = h[v(i)]
    BY <1>0 DEF Exch
  <1> HIDE DEF g
  <1>3. \A i \in 1 .. n : v(i) \in 1 .. n /\ v(v(i)) = i
    OBVIOUS
  <1>4. \A i \in 1 .. Len(g) : g[i] \in E
    BY <1>0, <1>1, <1>2, <1>3
  <1>5. \A e \in E : \E i \in 1 .. Len(g) : g[i] = e
    <2> TAKE e \in E
    <2>1. PICK i \in 1 .. n : h[i] = e
      BY <1>0
    <2>2. v(i) \in 1 .. n /\ v(v(i)) = i
      BY <1>3
    <2>3. g[v(i)] = h[v(v(i))]
      <3> HIDE DEF v
      <3> QED
        BY <1>2, <2>2
    <2> QED
      BY <1>1, <2>1, <2>2, <2>3
  <1>6. \A i, j \in 1 .. Len(g) : i # j => g[i] # g[j]
    <2> TAKE i, j \in 1 .. Len(g)
    <2>1. i \in 1 .. n /\ j \in 1 .. n /\ v(i) \in 1 .. n /\ v(j) \in 1 .. n
      BY <1>1, <1>3
    <2>2. i # j => v(i) # v(j)
      BY <2>1
    <2>3. g[i] = h[v(i)] /\ g[j] = h[v(j)]
      BY <1>2, <2>1
    <2> HIDE DEF v
    <2> QED
      BY <1>0, <2>1, <2>2, <2>3
  <1>7. Nodes(g, E)
    BY <1>1, <1>4, <1>5, <1>6, PlacesNodes
  <1>8. g[a] = h[b] /\ g[b] = h[a] /\ \A i \in 1 .. n : i # a /\ i # b => g[i] = h[i]
    BY <1>2
  <1> QED
    BY <1>1, <1>7, <1>8 DEF g

(* The root of a heap is the earliest event: the least place of an event   *)
(* that is not later would have a parent that is not either.               *)
LEMMA RootEarliest ==
  ASSUME NEW h, NEW E, HeapOf(h, E), E # {}
  PROVE  Len(h) >= 1 /\ Head(h) = h[1] /\ EarliestOf(h[1], E)
  <1> DEFINE n == Len(h)
             Bad == {i \in 2 .. n : ~Before(h[1], h[i])}
  <1>0. /\ h \in Seq(Event) /\ n \in Nat
        /\ \A i \in 1 .. n : h[i] \in Event /\ h[i] \in E
        /\ \A e \in E : \E i \in 1 .. n : h[i] = e
        /\ \A i \in 2 .. n : Before(h[Parent(i)], h[i])
    BY NodesPlaces DEF HeapOf
  <1>1. n >= 1 /\ 1 \in 1 .. n /\ Head(h) = h[1]
    BY <1>0
  <1>2. Bad = {}
    <2> SUFFICES ASSUME Bad # {} PROVE FALSE
      OBVIOUS
    <2>1. Bad \subseteq Nat
      OBVIOUS
    <2>2. PICK i \in Bad : \A j \in Bad : i <= j
      BY <2>1, LeastElement
    <2>3. i \in 2 .. n /\ i \in Nat /\ i >= 2 /\ ~Before(h[1], h[i])
      BY <2>2
    <2> DEFINE p == Parent(i)
    <2>4. p \in Nat /\ p >= 1 /\ p < i
      BY <2>3, Parents
    <2>5. Before(h[p], h[i])
      BY <1>0, <2>3
    <2> HIDE DEF p
    <2>6. p \in 1 .. n /\ i \in 1 .. n
      BY <1>0, <2>3, <2>4
    <2>7. CASE p = 1
      BY <2>3, <2>5, <2>7
    <2>8. CASE p # 1
      <3>1. p \in 2 .. n /\ p \notin Bad
        BY <1>0, <2>2, <2>3, <2>4, <2>6, <2>8
      <3>2. Before(h[1], h[p])
        BY <3>1
      <3> QED
        BY <1>0, <1>1, <2>3, <2>5, <2>6, <3>2, BeforeTransitive
    <2> QED
      BY <2>7, <2>8
  <1>3. ASSUME NEW e \in E \ {h[1]} PROVE Before(h[1], e)
    <2>1. PICK i \in 1 .. n : h[i] = e
      BY <1>0
    <2>2. i \in 2 .. n
      BY <1>0, <2>1
    <2> QED
      BY <1>2, <2>1, <2>2
  <1> QED
    BY <1>0, <1>1, <1>3 DEF EarliestOf

-----------------------------------------------------------------------------
(* BottomUp. *)

(* All is in order but node i may be earlier than its parent. *)
UpInv(h, i) ==
  /\ i \in 1 .. Len(h)
  /\ \A j \in 2 .. Len(h) : j # i => Before(h[Parent(j)], h[j])
  /\ i # 1 => \A j \in 2 .. Len(h) : Parent(j) = i => Before(h[Parent(i)], h[j])

(* A round of BottomUp. *)
LEMMA UpStep ==
  ASSUME NEW h, NEW E, Nodes(h, E), NEW i, UpInv(h, i), Rises(h, i)
  PROVE  LET g == Exch(h, i, Parent(i))
         IN  Nodes(g, E) /\ Len(g) = Len(h) /\ UpInv(g, Parent(i)) /\ Parent(i) < i
  <1> DEFINE n == Len(h)
             p == Parent(i)
             g == Exch(h, i, p)
  <1>0. n \in Nat /\ \A j \in 1 .. n : h[j] \in Event
    BY NodesPlaces
  <1>1. i \in 1 .. n /\ i \in Nat /\ i >= 2 /\ i \in 2 .. n /\ Before(h[i], h[p])
    BY <1>0 DEF UpInv, Rises
  <1>2. p \in Nat /\ p >= 1 /\ p < i /\ p \in 1 .. n
    BY <1>0, <1>1, Parents
  <1>3. /\ \A j \in 2 .. n : j # i => Before(h[Parent(j)], h[j])
        /\ \A j \in 2 .. n : Parent(j) = i => Before(h[p], h[j])
    BY <1>1 DEF UpInv
  <1> HIDE DEF p
  <1>4. /\ Nodes(g, E) /\ Len(g) = n /\ g[i] = h[p] /\ g[p] = h[i]
        /\ \A j \in 1 .. n : j # i /\ j # p => g[j] = h[j]
    BY <1>1, <1>2, ExchNodes
  <1> HIDE DEF g
  <1>5. \A j \in 2 .. n : Parent(j) \in 1 .. n /\ Parent(j) < j /\ j \in 1 .. n
    BY <1>0, Parents
  <1>6. ASSUME NEW j \in 2 .. n, j # p PROVE Before(g[Parent(j)], g[j])
    <2>1. CASE j = i
      BY <1>1, <1>4, <2>1 DEF p
    <2>2. CASE j # i
      <3>1. g[j] = h[j] /\ Before(h[Parent(j)], h[j])
        BY <1>3, <1>4, <1>5, <1>6, <2>2
      <3>2. CASE Parent(j) = i
        BY <1>3, <1>4, <3>1, <3>2
      <3>3. CASE Parent(j) = p
        <4>1. Before(h[i], h[p]) /\ Before(h[p], h[j])
          BY <1>1, <3>1, <3>3
        <4>2. Before(h[i], h[j])
          BY <1>0, <1>1, <1>2, <1>5, <4>1, BeforeTransitive
        <4> QED
          BY <1>4, <3>1, <3>3, <4>2
      <3>4. CASE Parent(j) # i /\ Parent(j) # p
        BY <1>4, <1>5, <3>1, <3>4
      <3> QED
        BY <3>2, <3>3, <3>4
    <2> QED
      BY <2>1, <2>2
  <1>7. ASSUME p # 1, NEW j \in 2 .. n, Parent(j) = p
        PROVE  Before(g[Parent(p)], g[j])
    <2> DEFINE q == Parent(p)
    <2>1. p \in 2 .. n /\ p # i
      BY <1>0, <1>2, <1>7
    <2>2. q \in 1 .. n /\ q < p /\ Before(h[q], h[p])
      BY <1>3, <1>5, <2>1
    <2> HIDE DEF q
    <2>3. g[q] = h[q]
      BY <1>0, <1>2, <1>4, <2>2
    <2>4. CASE j = i
      BY <1>4, <2>2, <2>3, <2>4 DEF q
    <2>5. CASE j # i
      <3>1. j # p /\ j \in 1 .. n
        BY <1>5, <1>7
      <3>2. g[j] = h[j] /\ Before(h[p], h[j])
        BY <1>3, <1>4, <1>7, <2>5, <3>1
      <3>3. Before(h[q], h[j])
        BY <1>0, <1>2, <2>2, <3>1, <3>2, BeforeTransitive
      <3> QED
        BY <2>3, <3>2, <3>3 DEF q
    <2> QED
      BY <2>4, <2>5
  <1>8. UpInv(g, p)
    BY <1>2, <1>4, <1>6, <1>7 DEF UpInv
  <1> QED
    BY <1>2, <1>4, <1>8 DEF g, p

(* When the node no longer rises, all is in order. *)
LEMMA UpEnd ==
  ASSUME NEW h, NEW E, Nodes(h, E), NEW i, UpInv(h, i), ~Rises(h, i)
  PROVE  HeapOf(h, E)
  <1> DEFINE n == Len(h)
  <1>0. /\ n \in Nat /\ \A j \in 1 .. n : h[j] \in Event
        /\ \A j, k \in 1 .. n : j # k => h[j] # h[k]
    BY NodesPlaces
  <1>1. ASSUME NEW j \in 2 .. n PROVE Before(h[Parent(j)], h[j])
    <2>1. CASE j # i
      BY <2>1 DEF UpInv
    <2>2. CASE j = i
      <3>1. j # 1 /\ ~Before(h[i], h[Parent(i)])
        BY <1>0, <2>2 DEF Rises
      <3>2. Parent(j) \in 1 .. n /\ j \in 1 .. n /\ Parent(j) # j
        BY <1>0, Parents
      <3>3. h[Parent(j)] # h[j]
        BY <1>0, <3>2
      <3> QED
        BY <1>0, <2>2, <3>1, <3>2, <3>3, BeforeOrder
    <2> QED
      BY <2>1, <2>2
  <1> QED
    BY <1>1 DEF HeapOf

(* Insert: the new event rises to its place. *)
LEMMA BottomUpHeap ==
  ASSUME NEW h, NEW E, HeapOf(h, E), NEW ev \in Event, ev \notin E
  PROVE  HeapOf(BottomUp(Append(h, ev)), E \cup {ev})
  <1> DEFINE t == Append(h, ev)
             n == Len(t)
             F == E \cup {ev}
  <1>0. /\ h \in Seq(Event) /\ Len(h) \in Nat
        /\ \A i \in 1 .. Len(h) : h[i] \in Event /\ h[i] \in E
        /\ \A e \in E : \E i \in 1 .. Len(h) : h[i] = e
        /\ \A i, j \in 1 .. Len(h) : i # j => h[i] # h[j]
        /\ \A i \in 2 .. Len(h) : Before(h[Parent(i)], h[i])
    BY NodesPlaces DEF HeapOf
  <1>1. /\ t \in Seq(Event) /\ n = Len(h) + 1 /\ t[n] = ev
        /\ \A i \in 1 .. n - 1 : t[i] = h[i]
    BY <1>0
  <1> HIDE DEF t, n
  <1>2. \A i \in 1 .. n : i = n \/ (i \in 1 .. n - 1 /\ i \in 1 .. Len(h))
    BY <1>0, <1>1
  <1>3. Nodes(t, F)
    <2>0. Len(t) = n
      BY DEF n
    <2>1. \A i \in 1 .. n : t[i] \in F
      BY <1>0, <1>1, <1>2
    <2>2. \A e \in F : \E i \in 1 .. n : t[i] = e
      <3> TAKE e \in F
      <3>1. CASE e = ev
        BY <1>0, <1>1, <3>1
      <3>2. CASE e # ev
        <4>1. PICK i \in 1 .. Len(h) : h[i] = e
          BY <1>0, <3>2
        <4>2. i \in 1 .. n - 1 /\ i \in 1 .. n
          BY <1>0, <1>1
        <4> QED
          BY <1>1, <4>1, <4>2
      <3> QED
        BY <3>1, <3>2
    <2>3. \A i, j \in 1 .. n : i # j => t[i] # t[j]
      <3> TAKE i, j \in 1 .. n
      <3>1. CASE i \in 1 .. n - 1 /\ j \in 1 .. n - 1
        BY <1>0, <1>1, <3>1
      <3>2. CASE i = n /\ j \in 1 .. n - 1
        BY <1>0, <1>1, <3>2
      <3>3. CASE j = n /\ i \in 1 .. n - 1
        BY <1>0, <1>1, <3>3
      <3> QED
        BY <1>2, <3>1, <3>2, <3>3
    <2> HIDE DEF F
    <2> QED
      BY <1>1, <2>0, <2>1, <2>2, <2>3, PlacesNodes
  <1>4. UpInv(t, n)
    <2>0. Len(t) = n /\ n \in Nat /\ n >= 1
      BY <1>0, <1>1 DEF n
    <2>1. ASSUME NEW j \in 2 .. n, j # n PROVE Before(t[Parent(j)], t[j])
      <3>1. j \in 2 .. Len(h) /\ j \in 1 .. n - 1 /\ Parent(j) \in 1 .. n - 1
        BY <1>0, <1>1, <2>0, <2>1, Parents
      <3> QED
        BY <1>0, <1>1, <3>1
    <2>2. \A j \in 2 .. n : Parent(j) # n
      BY <2>0, Parents
    <2> QED
      BY <2>0, <2>1, <2>2 DEF UpInv
  <1> HIDE DEF F
  <1>5. n \in Nat /\ n >= 1 /\ Len(t) = n
    BY <1>0, <1>1 DEF n
  <1>6. PICK f : /\ f[0] = [heap |-> t, index |-> n]
                 /\ \A k \in 1 .. n :
                      f[k] = IF Rises(f[k - 1].heap, f[k - 1].index)
                             THEN [heap  |-> Exch(f[k - 1].heap, f[k - 1].index,
                                                  Parent(f[k - 1].index)),
                                   index |-> Parent(f[k - 1].index)]
                             ELSE f[k - 1]
                 /\ BottomUp(t) = f[n].heap
    BY <1>5, BottomUpLoop
  <1> DEFINE Up(k) == /\ Nodes(f[k].heap, F) /\ Len(f[k].heap) = n
                      /\ UpInv(f[k].heap, f[k].index)
                      /\ ~Rises(f[k].heap, f[k].index) \/ f[k].index <= n - k
             T == {k \in Nat : k <= n => Up(k)}
  <1>7. 0 \in T
    <2>1. f[0].heap = t /\ f[0].index = n
      BY <1>6
    <2>2. Up(0)
      BY <1>3, <1>4, <1>5, <2>1
    <2> HIDE DEF Up
    <2> QED
      BY <2>2
  <1>8. ASSUME NEW k \in Nat, k \in T PROVE k + 1 \in T
    <2> SUFFICES ASSUME k + 1 <= n PROVE Up(k + 1)
      <3> HIDE DEF Up
      <3> QED
        OBVIOUS
    <2> DEFINE g == f[k].heap
               i == f[k].index
    <2>1. k <= n /\ k + 1 \in 1 .. n /\ (k + 1) - 1 = k
      BY <1>5
    <2>2. Up(k)
      <3> HIDE DEF Up
      <3> QED
        BY <1>8, <2>1
    <2>3. f[k + 1] = IF Rises(g, i) THEN [heap |-> Exch(g, i, Parent(i)), index |-> Parent(i)]
                     ELSE f[k]
      BY <1>6, <2>1
    <2>4. CASE Rises(g, i)
      <3>1. f[k + 1].heap = Exch(g, i, Parent(i)) /\ f[k + 1].index = Parent(i)
        BY <2>3, <2>4
      <3>2. Nodes(g, F) /\ Len(g) = n /\ UpInv(g, i) /\ i <= n - k
        BY <2>2, <2>4
      <3> HIDE DEF g, i
      <3>3. /\ Nodes(Exch(g, i, Parent(i)), F) /\ Len(Exch(g, i, Parent(i))) = Len(g)
            /\ UpInv(Exch(g, i, Parent(i)), Parent(i)) /\ Parent(i) < i
        BY <2>4, <3>2, UpStep
      <3>4. i \in Nat /\ Parent(i) \in Nat
        BY <1>5, <3>2, <3>3, Parents DEF UpInv, Rises, Parent
      <3>5. Parent(i) <= n - (k + 1)
        BY <1>5, <3>2, <3>3, <3>4
      <3> QED
        BY <3>1, <3>2, <3>3, <3>5
    <2>5. CASE ~Rises(g, i)
      <3>1. f[k + 1] = f[k]
        BY <2>3, <2>5
      <3> QED
        BY <2>2, <2>5, <3>1
    <2> QED
      BY <2>4, <2>5
  <1> HIDE DEF T
  <1>9. Nat \subseteq T
    BY <1>7, <1>8, SetInduction
  <1>10. Up(n)
    <2> HIDE DEF Up
    <2> QED
      BY <1>5, <1>9 DEF T
  <1>11. ~Rises(f[n].heap, f[n].index)
    <2>1. f[n].index \in 1 .. n
      BY <1>10 DEF UpInv
    <2> QED
      BY <1>5, <1>10, <2>1
  <1>12. HeapOf(f[n].heap, F)
    BY <1>10, <1>11, UpEnd
  <1> QED
    BY <1>6, <1>12 DEF t, F

-----------------------------------------------------------------------------
(* TopDown. *)

(* All is in order but node i may be later than its children. *)
DownInv(h, i) ==
  /\ i \in 1 .. Len(h)
  /\ \A j \in 2 .. Len(h) : Parent(j) # i => Before(h[Parent(j)], h[j])
  /\ i # 1 => \A j \in 2 .. Len(h) : Parent(j) = i => Before(h[Parent(i)], h[j])

(* The child TopDown looks at is the earlier one. *)
LEMMA EarlierChild ==
  ASSUME NEW h, NEW E, Nodes(h, E), NEW i \in 1 .. Len(h)
  PROVE  LET c == Child(h, i)
         IN  /\ c \in Nat /\ c > i /\ Parent(c) = i
             /\ c > Len(h) => \A j \in 2 .. Len(h) : Parent(j) # i
             /\ c <= Len(h) => \A j \in 2 .. Len(h) : Parent(j) = i => j = c \/ Before(h[c], h[j])
  <1> DEFINE n == Len(h)
             c == Child(h, i)
             l == LeftChild(i)
             r == RightChild(i)
  <1>0. /\ n \in Nat /\ \A j \in 1 .. n : h[j] \in Event
        /\ \A j, k \in 1 .. n : j # k => h[j] # h[k]
    BY NodesPlaces
  <1>1. i \in Nat /\ i >= 1
    BY <1>0
  <1>2. l = 2 * i /\ r = 2 * i + 1 /\ Parent(l) = i /\ Parent(r) = i
    BY <1>1, Parents DEF LeftChild, RightChild
  <1>3. \A j \in 2 .. n : Parent(j) = i => j = l \/ j = r
    <2> HIDE DEF l, r, n
    <2> TAKE j \in 2 .. n
    <2> HAVE Parent(j) = i
    <2>1. j \in Nat /\ j >= 2
      BY <1>0
    <2>2. j = 2 * Parent(j) \/ j = 2 * Parent(j) + 1
      BY <2>1, Parents
    <2> QED
      BY <1>2, <2>2
  <1>4. CASE r > n
    <2>1. c = l
      BY <1>4 DEF Child, IsBottom
    <2>2. \A j \in 2 .. n : Parent(j) = i => j = l
      BY <1>0, <1>1, <1>2, <1>3, <1>4
    <2>3. l > n => \A j \in 2 .. n : Parent(j) # i
      BY <1>0, <1>1, <1>2, <2>2
    <2> HIDE DEF c
    <2> QED
      BY <1>1, <1>2, <2>1, <2>2, <2>3 DEF c
  <1>5. CASE ~(r > n)
    <2>1. c = IF Before(h[l], h[r]) THEN l ELSE r
      BY <1>5 DEF Child, IsBottom, Smallest
    <2>2. l \in 1 .. n /\ r \in 1 .. n /\ l # r
      BY <1>0, <1>1, <1>2, <1>5
    <2>3. h[l] \in Event /\ h[r] \in Event /\ h[l] # h[r]
      BY <1>0, <2>2
    <2>4. Before(h[l], h[r]) \/ Before(h[r], h[l])
      BY <2>3, BeforeOrder
    <2> HIDE DEF c, l, r
    <2>5. c = l \/ c = r
      BY <2>1
    <2>6. c \in Nat /\ c > i /\ Parent(c) = i /\ c <= n
      BY <1>0, <1>1, <1>2, <2>2, <2>5
    <2>7. \A j \in 2 .. n : Parent(j) = i => j = c \/ Before(h[c], h[j])
      BY <1>3, <2>1, <2>4
    <2>8. ~(c > n)
      BY <1>0, <2>6
    <2> QED
      BY <2>6, <2>7, <2>8 DEF c
  <1> QED
    BY <1>4, <1>5

(* A round of TopDown. *)
LEMMA DownStep ==
  ASSUME NEW h, NEW E, Nodes(h, E), NEW i, DownInv(h, i), Sinks(h, i)
  PROVE  LET c == Child(h, i)
             g == Exch(h, i, c)
         IN  Nodes(g, E) /\ Len(g) = Len(h) /\ DownInv(g, c) /\ c > i /\ c \in Nat
  <1> DEFINE n == Len(h)
             c == Child(h, i)
             g == Exch(h, i, c)
  <1>0. /\ n \in Nat /\ \A j \in 1 .. n : h[j] \in Event
        /\ \A j, k \in 1 .. n : j # k => h[j] # h[k]
    BY NodesPlaces
  <1>1. i \in 1 .. n /\ i \in Nat /\ i >= 1
    BY <1>0 DEF DownInv
  <1>2. /\ c \in Nat /\ c > i /\ Parent(c) = i
        /\ c <= n => \A j \in 2 .. n : Parent(j) = i => j = c \/ Before(h[c], h[j])
    BY <1>1, EarlierChild
  <1>3. ~(c > n) /\ ~Before(h[i], h[c])
    BY DEF Sinks, IsBottom
  <1> HIDE DEF c
  <1>4. c \in 1 .. n /\ c \in 2 .. n /\ c # i /\ c <= n
    BY <1>0, <1>1, <1>2, <1>3
  <1>5. Before(h[c], h[i])
    <2>1. h[c] \in Event /\ h[i] \in Event /\ h[c] # h[i]
      BY <1>0, <1>1, <1>4
    <2> QED
      BY <1>3, <2>1, BeforeOrder
  <1>6. /\ Nodes(g, E) /\ Len(g) = n /\ g[i] = h[c] /\ g[c] = h[i]
        /\ \A j \in 1 .. n : j # i /\ j # c => g[j] = h[j]
    BY <1>1, <1>4, ExchNodes
  <1> HIDE DEF g
  <1>7. \A j \in 2 .. n : Parent(j) \in 1 .. n /\ Parent(j) < j /\ j \in 1 .. n
    BY <1>0, Parents
  <1>8. /\ \A j \in 2 .. n : Parent(j) # i => Before(h[Parent(j)], h[j])
        /\ i # 1 => \A j \in 2 .. n : Parent(j) = i => Before(h[Parent(i)], h[j])
    BY DEF DownInv
  <1>9. ASSUME NEW j \in 2 .. n, Parent(j) # c PROVE Before(g[Parent(j)], g[j])
    <2>1. CASE j = c
      BY <1>2, <1>5, <1>6, <2>1
    <2>2. CASE j # c /\ Parent(j) = i
      <3>1. j # i /\ j \in 1 .. n
        BY <1>7, <2>2
      <3>2. g[j] = h[j] /\ Before(h[c], h[j])
        BY <1>2, <1>4, <1>6, <2>2, <3>1
      <3> QED
        BY <1>6, <2>2, <3>2
    <2>3. CASE j = i
      <3>1. i # 1 /\ Parent(i) \in 1 .. n /\ Parent(i) # i /\ Parent(i) # c
        BY <1>0, <1>1, <1>7, <1>9, <2>3
      <3>2. Before(h[Parent(i)], h[c])
        BY <1>2, <1>4, <1>8, <3>1
      <3> QED
        BY <1>6, <2>3, <3>1, <3>2
    <2>4. CASE j # c /\ j # i /\ Parent(j) # i
      <3>1. Parent(j) \in 1 .. n /\ j \in 1 .. n
        BY <1>7
      <3>2. g[j] = h[j] /\ g[Parent(j)] = h[Parent(j)]
        BY <1>6, <1>9, <2>4, <3>1
      <3> QED
        BY <1>8, <2>4, <3>2
    <2> QED
      BY <2>1, <2>2, <2>3, <2>4
  <1>10. ASSUME NEW j \in 2 .. n, Parent(j) = c PROVE Before(g[Parent(c)], g[j])
    <2>1. j \in 1 .. n /\ c < j
      BY <1>7, <1>10
    <2>2. j # c /\ j # i /\ c # i
      BY <1>0, <1>1, <1>2, <2>1
    <2>3. g[j] = h[j] /\ Before(h[c], h[j])
      BY <1>6, <1>8, <1>10, <2>1, <2>2
    <2> QED
      BY <1>2, <1>6, <2>3
  <1>11. DownInv(g, c)
    BY <1>4, <1>6, <1>9, <1>10 DEF DownInv
  <1> QED
    BY <1>2, <1>6, <1>11 DEF g, c

(* When the node no longer sinks, all is in order. *)
LEMMA DownEnd ==
  ASSUME NEW h, NEW E, Nodes(h, E), NEW i, DownInv(h, i), ~Sinks(h, i)
  PROVE  HeapOf(h, E)
  <1> DEFINE n == Len(h)
             c == Child(h, i)
  <1>0. n \in Nat /\ \A j \in 1 .. n : h[j] \in Event
    BY NodesPlaces
  <1>1. i \in 1 .. n
    BY DEF DownInv
  <1>2. /\ c \in Nat /\ c > i /\ Parent(c) = i
        /\ c > n => \A j \in 2 .. n : Parent(j) # i
        /\ c <= n => \A j \in 2 .. n : Parent(j) = i => j = c \/ Before(h[c], h[j])
    BY <1>1, EarlierChild
  <1>3. c > n \/ Before(h[i], h[c])
    BY DEF Sinks, IsBottom
  <1> HIDE DEF c
  <1>4. ASSUME NEW j \in 2 .. n PROVE Before(h[Parent(j)], h[j])
    <2>1. CASE Parent(j) # i
      BY <2>1 DEF DownInv
    <2>2. CASE Parent(j) = i
      <3>1. c <= n /\ Before(h[i], h[c])
        BY <1>0, <1>2, <1>3, <2>2
      <3>2. j = c \/ Before(h[c], h[j])
        BY <1>2, <2>2, <3>1
      <3>3. c \in 1 .. n /\ j \in 1 .. n
        BY <1>0, <1>1, <1>2, <3>1
      <3>4. h[i] \in Event /\ h[c] \in Event /\ h[j] \in Event
        BY <1>0, <1>1, <3>3
      <3> QED
        BY <2>2, <3>1, <3>2, <3>4, BeforeTransitive
    <2> QED
      BY <2>1, <2>2
  <1> QED
    BY <1>4 DEF HeapOf

(* The node at the root sinks to its place. *)
LEMMA TopDownHeap ==
  ASSUME NEW t, NEW F, Nodes(t, F), DownInv(t, 1)
  PROVE  HeapOf(TopDown(t, 1), F)
  <1> DEFINE n == Len(t)
  <1>1. n \in Nat /\ n >= 1
    <2>1. n \in Nat
      BY NodesPlaces
    <2> QED
      BY <2>1 DEF DownInv
  <1>2. PICK f : /\ f[0] = [heap |-> t, index |-> 1]
                 /\ \A k \in 1 .. n :
                      f[k] = IF Sinks(f[k - 1].heap, f[k - 1].index)
                             THEN [heap  |-> Exch(f[k - 1].heap, f[k - 1].index,
                                                  Child(f[k - 1].heap, f[k - 1].index)),
                                   index |-> Child(f[k - 1].heap, f[k - 1].index)]
                             ELSE f[k - 1]
                 /\ TopDown(t, 1) = f[n].heap
    BY <1>1, TopDownLoop
  <1> DEFINE Down(k) == /\ Nodes(f[k].heap, F) /\ Len(f[k].heap) = n
                        /\ DownInv(f[k].heap, f[k].index)
                        /\ ~Sinks(f[k].heap, f[k].index) \/ f[k].index >= k + 1
             T == {k \in Nat : k <= n => Down(k)}
  <1>3. 0 \in T
    <2>1. f[0].heap = t /\ f[0].index = 1
      BY <1>2
    <2>2. Down(0)
      BY <1>1, <2>1
    <2> HIDE DEF Down
    <2> QED
      BY <2>2
  <1> HIDE DEF n
  <1>4. ASSUME NEW k \in Nat, k \in T PROVE k + 1 \in T
    <2> SUFFICES ASSUME k + 1 <= n PROVE Down(k + 1)
      <3> HIDE DEF Down
      <3> QED
        OBVIOUS
    <2> DEFINE g == f[k].heap
               i == f[k].index
               c == Child(g, i)
    <2>1. k <= n /\ k + 1 \in 1 .. n /\ (k + 1) - 1 = k
      BY <1>1
    <2>2. Down(k)
      <3> HIDE DEF Down
      <3> QED
        BY <1>4, <2>1
    <2>3. f[k + 1] = IF Sinks(g, i) THEN [heap |-> Exch(g, i, c), index |-> c] ELSE f[k]
      BY <1>2, <2>1
    <2>4. CASE Sinks(g, i)
      <3>1. f[k + 1].heap = Exch(g, i, c) /\ f[k + 1].index = c
        <4> HIDE DEF c
        <4> QED
          BY <2>3, <2>4
      <3>2. Nodes(g, F) /\ Len(g) = n /\ DownInv(g, i) /\ i >= k + 1
        BY <2>2, <2>4
      <3> HIDE DEF g, i
      <3>3. /\ Nodes(Exch(g, i, c), F) /\ Len(Exch(g, i, c)) = Len(g)
            /\ DownInv(Exch(g, i, c), c) /\ c > i /\ c \in Nat
        BY <2>4, <3>2, DownStep
      <3>4. i \in Nat
        BY <1>1, <3>2 DEF DownInv
      <3> HIDE DEF c
      <3>5. c >= (k + 1) + 1
        BY <3>2, <3>3, <3>4
      <3> QED
        BY <3>1, <3>2, <3>3, <3>5
    <2>5. CASE ~Sinks(g, i)
      <3>1. f[k + 1] = f[k]
        BY <2>3, <2>5
      <3> QED
        BY <2>2, <2>5, <3>1
    <2> QED
      BY <2>4, <2>5
  <1> HIDE DEF T
  <1>5. Nat \subseteq T
    BY <1>3, <1>4, SetInduction
  <1>6. Down(n)
    <2> HIDE DEF Down
    <2> QED
      BY <1>1, <1>5 DEF T
  <1>7. ~Sinks(f[n].heap, f[n].index)
    <2>1. f[n].index \in 1 .. n
      BY <1>6 DEF DownInv
    <2> QED
      BY <1>1, <1>6, <2>1
  <1>8. HeapOf(f[n].heap, F)
    BY <1>6, <1>7, DownEnd
  <1> QED
    BY <1>2, <1>8

(* RemoveNext takes out the root. *)
LEMMA TakeOutHeap ==
  ASSUME NEW h, NEW E, HeapOf(h, E), E # {}
  PROVE  HeapOf(TakeOut(h, 1), E \ {h[1]})
  <1> DEFINE N == Len(h)
             g == Exch(h, 1, N)
             t == Front(g)
             n == N - 1
             F == E \ {h[1]}
  <1>0. /\ h \in Seq(Event) /\ N \in Nat /\ N >= 1
        /\ \A i \in 1 .. N : h[i] \in Event /\ h[i] \in E
        /\ \A e \in E : \E i \in 1 .. N : h[i] = e
        /\ \A i, j \in 1 .. N : i # j => h[i] # h[j]
        /\ \A i \in 2 .. N : Before(h[Parent(i)], h[i])
    BY NodesPlaces, RootEarliest DEF HeapOf
  <1>1. TakeOut(h, 1) = TopDown(t, 1)
    BY DEF TakeOut
  <1>2. 1 \in 1 .. N /\ N \in 1 .. N
    BY <1>0
  <1>3. /\ Nodes(g, E) /\ Len(g) = N /\ g[1] = h[N] /\ g[N] = h[1]
        /\ \A i \in 1 .. N : i # 1 /\ i # N => g[i] = h[i]
    BY <1>2, ExchNodes DEF HeapOf
  <1> HIDE DEF g
  <1>4. g \in Seq(Event) /\ \A i, j \in 1 .. N : i # j => g[i] # g[j]
    BY <1>3, NodesPlaces
  <1>5. /\ t \in Seq(Event) /\ Len(t) = n /\ n \in Nat
        /\ \A i \in 1 .. n : t[i] = g[i]
    <2>1. N = Len(g) /\ g \in Seq(Event) /\ N \in Nat /\ N >= 1
      BY <1>0, <1>3, <1>4
    <2>2. t = SubSeq(g, 1, N - 1)
      BY <2>1 DEF Front
    <2> HIDE DEF N
    <2>3. \A i \in 1 .. N - 1 : g[i] \in Event
      BY <2>1
    <2> QED
      BY <2>1, <2>2, <2>3
  <1> HIDE DEF t
  <1>6. \A i \in 1 .. n : i \in 1 .. N /\ i # N
    BY <1>0
  <1>7. Nodes(t, F)
    <2>1. \A i \in 1 .. n : t[i] \in F
      <3> TAKE i \in 1 .. n
      <3>1. g[i] \in E /\ g[i] # g[N]
        BY <1>2, <1>3, <1>4, <1>6, NodesPlaces
      <3> QED
        BY <1>3, <1>5, <3>1
    <2>2. \A e \in F : \E i \in 1 .. n : t[i] = e
      <3> TAKE e \in F
      <3>1. PICK i \in 1 .. N : g[i] = e
        BY <1>3, NodesPlaces
      <3>2. i # N
        BY <1>3, <3>1
      <3>3. i \in 1 .. n
        BY <1>0, <3>2
      <3> QED
        BY <1>5, <3>1, <3>3
    <2>3. \A i, j \in 1 .. n : i # j => t[i] # t[j]
      BY <1>4, <1>5, <1>6
    <2> HIDE DEF F, n
    <2> QED
      BY <1>5, <2>1, <2>2, <2>3, PlacesNodes
  <1>8. CASE n = 0
    <2>0. Len(t) = 0 /\ t \in Seq(Event)
      BY <1>5, <1>8
    <2> HIDE DEF t
    <2>1. t = << >> /\ Len(t) = 0
      BY <2>0
    <2>2. PICK f : f[0] = [heap |-> t, index |-> 1] /\ TopDown(t, 1) = f[Len(t)].heap
      BY <1>5, TopDownLoop
    <2>3. TopDown(t, 1) = t
      BY <2>1, <2>2
    <2> QED
      BY <1>1, <1>7, <2>1, <2>3 DEF HeapOf
  <1>9. CASE n # 0
    <2>1. DownInv(t, 1)
      <3>1. ASSUME NEW j \in 2 .. n, Parent(j) # 1 PROVE Before(t[Parent(j)], t[j])
        <4>1. j \in 2 .. N /\ j \in 1 .. n /\ Parent(j) \in 1 .. n /\ j # 1
          BY <1>0, Parents
        <4>2. t[j] = h[j] /\ t[Parent(j)] = h[Parent(j)]
          BY <1>3, <1>5, <1>6, <3>1, <4>1
        <4> QED
          BY <1>0, <4>1, <4>2
      <3>2. 1 \in 1 .. n
        BY <1>5, <1>9
      <3> QED
        BY <1>5, <3>1, <3>2 DEF DownInv
    <2> QED
      BY <1>1, <1>7, <2>1, TopDownHeap
  <1> QED
    BY <1>8, <1>9

-----------------------------------------------------------------------------
(* The interface of Scheduler. *)

AllKinds == {"map", "list", "heap", "calendar", "reverse"}

(* The data d hold the events E, in the form the kind asks for. *)
Fits(kind, d, E) ==
  /\ E \subseteq Event /\ IsFiniteSet(E)
  /\ kind = "map" => d = E
  /\ kind = "list" => Row(d, E, FALSE)
  /\ kind = "heap" => HeapOf(d, E)
  /\ kind \in {"calendar", "reverse"} => CalendarOf(d, E)

(* The scheduler s holds the events E. *)
Good(s, E) ==
  /\ s = [kind |-> s.kind, data |-> s.data] /\ s.kind \in AllKinds
  /\ Fits(s.kind, s.data, E)

(* No event may be scheduled before this time. *)
Floor(s) == IF IsCalendar(s) THEN s.data.lastPrio ELSE 0

(* The scheduler s with other data. *)
LEMMA NewData ==
  ASSUME NEW s, NEW E, Good(s, E), NEW d, NEW F, Fits(s.kind, d, F)
  PROVE  /\ Good([s EXCEPT !.data = d], F)
         /\ [s EXCEPT !.data = d].kind = s.kind
         /\ Floor([s EXCEPT !.data = d]) = IF IsCalendar(s) THEN d.lastPrio ELSE 0
  <1> DEFINE k == s.kind
             t == [s EXCEPT !.data = d]
  <1>1. s = [kind |-> k, data |-> s.data] /\ k \in AllKinds
    BY DEF Good
  <1>2. t = [kind |-> k, data |-> d]
    BY <1>1
  <1>3. t.kind = k /\ t.data = d
    BY <1>2
  <1>4. IsCalendar(t) <=> IsCalendar(s)
    BY <1>3 DEF IsCalendar
  <1>5. t = [kind |-> t.kind, data |-> t.data]
    BY <1>2, <1>3
  <1> HIDE DEF t
  <1>6. Good(t, F)
    BY <1>1, <1>3, <1>5 DEF Good
  <1> QED
    BY <1>3, <1>4, <1>6 DEF Floor, t

(* A new scheduler is empty. *)
LEMMA GoodCreate ==
  ASSUME NEW kind \in AllKinds
  PROVE  Good(Create(kind), {}) /\ Floor(Create(kind)) = 0 /\ Create(kind).kind = kind
  <1> DEFINE s == Create(kind)
             d == s.data
  <1>1. s.kind = kind /\ s = [kind |-> s.kind, data |-> s.data]
    <2> DEFINE x == CASE kind = "map" -> {}
                      [] kind \in {"list", "heap"} -> << >>
                      [] kind = "calendar" -> NewCalendar(FALSE)
                      [] kind = "reverse" -> NewCalendar(TRUE)
    <2>1. s = [kind |-> kind, data |-> x]
      BY DEF Create
    <2> HIDE DEF x, s
    <2> QED
      BY <2>1
  <1>2. /\ kind = "map" => d = {}
        /\ kind \in {"list", "heap"} => d = << >>
        /\ kind = "calendar" => d = NewCalendar(FALSE)
        /\ kind = "reverse" => d = NewCalendar(TRUE)
    BY DEF Create
  <1>3. IsCalendar(s) <=> kind \in {"calendar", "reverse"}
    BY <1>1 DEF IsCalendar
  <1> HIDE DEF s
  <1>4. IsCalendar(s) => CalendarOf(d, {}) /\ d.lastPrio = 0
    BY <1>2, <1>3, NewCalendarOf
  <1>5. kind = "list" => Row(d, {}, FALSE)
    BY <1>2, RowEmpty
  <1>6. kind = "heap" => HeapOf(d, {})
    <2> HAVE kind = "heap"
    <2>1. d = << >>
      BY <1>2
    <2> DEFINE h == << >>
    <2>2. h \in Seq(Event) /\ Len(h) = 0
      OBVIOUS
    <2> HIDE DEF h
    <2>3. \A i \in 1 .. Len(h) : FALSE
      BY <2>2
    <2>4. \A i \in 2 .. Len(h) : FALSE
      BY <2>2
    <2>5. Nodes(h, {})
      BY <2>2, <2>3, PlacesNodes
    <2>6. HeapOf(h, {})
      BY <2>4, <2>5 DEF HeapOf
    <2> QED
      BY <2>1, <2>6 DEF h
  <1>7. IsFiniteSet({}) /\ {} \subseteq Event
    BY FS_EmptySet
  <1>8. Good(s, {})
    BY <1>1, <1>2, <1>3, <1>4, <1>5, <1>6, <1>7 DEF Good, Fits
  <1> QED
    BY <1>1, <1>4, <1>8 DEF s, Floor

(* Its events are those of E, and it is empty when E is. *)
LEMMA GoodContent ==
  ASSUME NEW s, NEW E, Good(s, E)
  PROVE  /\ Content(s) = E /\ (IsEmpty(s) <=> E = {})
         /\ Cardinality(E) \in Nat /\ Floor(s) \in Nat /\ \A e \in E : Floor(s) <= e.ts
  <1>0. s.kind \in AllKinds /\ E \subseteq Event /\ IsFiniteSet(E)
    BY DEF Good, Fits
  <1>1. Cardinality(E) \in Nat /\ (Cardinality(E) = 0 <=> E = {})
    BY <1>0, FS_CardinalityType, FS_EmptySet
  <1>2. \A e \in E : e.ts \in Nat
    BY <1>0 DEF Event
  <1>3. CASE s.kind = "map"
    <2>1. s.data = E /\ ~IsCalendar(s)
      BY <1>3 DEF Good, Fits, IsCalendar
    <2> QED
      BY <1>1, <1>2, <1>3, <2>1 DEF Content, IsEmpty, Floor
  <1>4. CASE s.kind = "list"
    <2>1. Row(s.data, E, FALSE) /\ ~IsCalendar(s)
      BY <1>4 DEF Good, Fits, IsCalendar
    <2>2. ToSet(s.data) = E /\ (s.data = << >> <=> E = {})
      BY <2>1, RowEmpty DEF Row
    <2> QED
      BY <1>1, <1>2, <1>4, <2>1, <2>2 DEF Content, IsEmpty, Floor
  <1>5. CASE s.kind = "heap"
    <2>1. HeapOf(s.data, E) /\ ~IsCalendar(s)
      BY <1>5 DEF Good, Fits, IsCalendar
    <2> DEFINE h == s.data
    <2>2. h \in Seq(Event) /\ ToSet(h) = E /\ Nodes(h, E)
      BY <2>1 DEF HeapOf, Nodes
    <2> HIDE DEF h
    <2>3. h = << >> => E = {}
      <3>1. ToSet(<< >>) = {}
        BY DEF ToSet
      <3> QED
        BY <2>2, <3>1
    <2>4. E = {} => h = << >>
      <3> HAVE E = {}
      <3>1. \A i \in 1 .. Len(h) : FALSE
        BY <2>2, NodesPlaces
      <3>2. Len(h) \in Nat
        BY <2>2
      <3>3. Len(h) = 0
        BY <3>1, <3>2
      <3> QED
        BY <2>2, <3>3
    <2> QED
      BY <1>1, <1>2, <1>5, <2>1, <2>2, <2>3, <2>4 DEF Content, IsEmpty, Floor, h
  <1>6. CASE IsCalendar(s)
    <2>1. CalendarOf(s.data, E) /\ s.kind \in {"calendar", "reverse"}
      BY <1>6 DEF Good, Fits, IsCalendar
    <2> DEFINE c == s.data
    <2>2. Racks(c, E) /\ Start(c) /\ (\A e \in E : c.lastPrio <= e.ts) /\ c.qSize = Cardinality(E)
      BY <2>1 DEF CalendarOf, Shelf
    <2>3. Events(c) = E /\ c.lastPrio \in Nat
      BY <2>2, RacksEvents DEF Start
    <2> HIDE DEF c
    <2>4. Content(s) = Events(c) /\ (IsEmpty(s) <=> c.qSize = 0) /\ Floor(s) = c.lastPrio
      BY <1>6, <2>1 DEF Content, IsEmpty, Floor, c
    <2> QED
      BY <1>1, <2>2, <2>3, <2>4
  <1> QED
    BY <1>0, <1>3, <1>4, <1>5, <1>6 DEF AllKinds, IsCalendar

(* Insert adds the event, if it is not earlier than the calendar's last. *)
LEMMA GoodInsert ==
  ASSUME NEW s, NEW E, Good(s, E), NEW ev \in Event, ev \notin E, Floor(s) <= ev.ts
  PROVE  /\ Good(Insert(s, ev), E \cup {ev}) /\ Floor(Insert(s, ev)) = Floor(s)
         /\ Insert(s, ev).kind = s.kind
  <1> DEFINE F == E \cup {ev}
             d == CASE s.kind = "map" -> s.data \cup {ev}
                    [] s.kind = "list" -> InsertInOrder(s.data, ev, FALSE)
                    [] s.kind = "heap" -> BottomUp(Append(s.data, ev))
                    [] IsCalendar(s) -> CalendarInsert(s.data, ev)
  <1>1. Insert(s, ev) = [s EXCEPT !.data = d]
    BY DEF Insert
  <1>2. F \subseteq Event /\ IsFiniteSet(F)
    BY FS_AddElement DEF Good, Fits
  <1>3. s.kind = "map" => d = F
    BY DEF Good, Fits, IsCalendar
  <1>4. s.kind = "list" => Row(d, F, FALSE)
    <2> HAVE s.kind = "list"
    <2>1. d = InsertInOrder(s.data, ev, FALSE) /\ Row(s.data, E, FALSE)
      BY DEF Good, Fits, IsCalendar
    <2> QED
      BY <2>1, InsertRow
  <1>5. s.kind = "heap" => HeapOf(d, F)
    <2> HAVE s.kind = "heap"
    <2>1. d = BottomUp(Append(s.data, ev)) /\ HeapOf(s.data, E)
      BY DEF Good, Fits, IsCalendar
    <2> QED
      BY <2>1, BottomUpHeap
  <1>6. IsCalendar(s) => CalendarOf(d, F) /\ d.lastPrio = s.data.lastPrio
    <2> HAVE IsCalendar(s)
    <2>1. d = CalendarInsert(s.data, ev) /\ CalendarOf(s.data, E) /\ s.data.lastPrio <= ev.ts
      BY DEF Good, Fits, IsCalendar, Floor
    <2> QED
      BY <2>1, CalendarInsertOf
  <1>7. Fits(s.kind, d, F)
    BY <1>2, <1>3, <1>4, <1>5, <1>6 DEF Fits, IsCalendar
  <1> HIDE DEF d, F
  <1>8. /\ Good(Insert(s, ev), F) /\ Insert(s, ev).kind = s.kind
        /\ Floor(Insert(s, ev)) = IF IsCalendar(s) THEN d.lastPrio ELSE 0
    BY <1>1, <1>7, NewData
  <1> QED
    BY <1>6, <1>8 DEF Floor, F

(* RemoveNext takes the earliest event, the one PeekNext sees. *)
LEMMA GoodNext ==
  ASSUME NEW s, NEW E, Good(s, E), E # {}
  PROVE  LET r == RemoveNext(s)
         IN  /\ EarliestOf(r.ev, E) /\ PeekNext(s) = r.ev
             /\ Good(r.sched, E \ {r.ev}) /\ r.sched.kind = s.kind
             /\ Floor(r.sched) <= r.ev.ts
  <1> DEFINE r == RemoveNext(s)
  <1>0. s.kind \in AllKinds /\ E \subseteq Event /\ IsFiniteSet(E)
    BY DEF Good, Fits
  <1>1. \A e : E \ {e} \subseteq Event /\ IsFiniteSet(E \ {e})
    BY <1>0, FS_RemoveElement
  <1>2. \A e : EarliestOf(e, E) => e.ts \in Nat
    BY <1>0 DEF EarliestOf, Event
  <1>3. CASE s.kind = "map"
    <2> DEFINE e == FirstOf(E)
               d == E \ {e}
    <2>1. s.data = E /\ ~IsCalendar(s)
      BY <1>3 DEF Good, Fits, IsCalendar
    <2>2. EarliestOf(e, E)
      BY <1>0, FirstOfIsEarliest
    <2>3. r = [ev |-> e, sched |-> [s EXCEPT !.data = d]] /\ PeekNext(s) = e
      BY <1>3, <2>1 DEF RemoveNext, PeekNext
    <2> HIDE DEF e, d, r
    <2>4. r.ev = e /\ r.sched = [s EXCEPT !.data = d]
      BY <2>3
    <2>5. d \subseteq Event /\ IsFiniteSet(d)
      BY <1>1 DEF d
    <2>8. Fits(s.kind, d, d)
      BY <1>3, <2>5 DEF Fits
    <2>6. Good(r.sched, d) /\ r.sched.kind = s.kind /\ Floor(r.sched) = 0
      BY <1>3, <2>1, <2>4, <2>8, NewData
    <2> QED
      BY <1>2, <2>2, <2>3, <2>4, <2>6 DEF r, d
  <1>4. CASE s.kind = "list"
    <2> DEFINE e == Head(s.data)
               d == Tail(s.data)
               F == E \ {e}
    <2>1. Row(s.data, E, FALSE) /\ ~IsCalendar(s)
      BY <1>4 DEF Good, Fits, IsCalendar
    <2>2. EarliestOf(e, E) /\ Row(d, F, FALSE)
      BY <2>1, HeadRow
    <2>3. r = [ev |-> e, sched |-> [s EXCEPT !.data = d]] /\ PeekNext(s) = e
      BY <1>4 DEF RemoveNext, PeekNext, IsCalendar
    <2> HIDE DEF e, d, r, F
    <2>4. r.ev = e /\ r.sched = [s EXCEPT !.data = d]
      BY <2>3
    <2>5. F \subseteq Event /\ IsFiniteSet(F)
      BY <1>1 DEF F
    <2>8. Fits(s.kind, d, F)
      BY <1>4, <2>1, <2>2, <2>5 DEF Fits
    <2>6. Good(r.sched, F) /\ r.sched.kind = s.kind /\ Floor(r.sched) = 0
      BY <1>4, <2>1, <2>4, <2>8, NewData
    <2> QED
      BY <1>2, <2>2, <2>3, <2>4, <2>6 DEF r, F
  <1>5. CASE s.kind = "heap"
    <2> DEFINE e == Head(s.data)
               d == TakeOut(s.data, 1)
               F == E \ {e}
    <2>1. HeapOf(s.data, E) /\ ~IsCalendar(s)
      BY <1>5 DEF Good, Fits, IsCalendar
    <2>2. EarliestOf(e, E) /\ HeapOf(d, F)
      BY <2>1, RootEarliest, TakeOutHeap
    <2>3. r = [ev |-> e, sched |-> [s EXCEPT !.data = d]] /\ PeekNext(s) = e
      BY <1>5 DEF RemoveNext, PeekNext, IsCalendar
    <2> HIDE DEF e, d, r, F
    <2>4. r.ev = e /\ r.sched = [s EXCEPT !.data = d]
      BY <2>3
    <2>5. F \subseteq Event /\ IsFiniteSet(F)
      BY <1>1 DEF F
    <2>8. Fits(s.kind, d, F)
      BY <1>5, <2>1, <2>2, <2>5 DEF Fits
    <2>6. Good(r.sched, F) /\ r.sched.kind = s.kind /\ Floor(r.sched) = 0
      BY <1>5, <2>1, <2>4, <2>8, NewData
    <2> QED
      BY <1>2, <2>2, <2>3, <2>4, <2>6 DEF r, F
  <1>6. CASE IsCalendar(s)
    <2> DEFINE q == CalendarRemoveNext(s.data)
               e == q.ev
               d == q.cal
               F == E \ {e}
    <2>1. CalendarOf(s.data, E) /\ s.kind \in {"calendar", "reverse"}
      BY <1>6 DEF Good, Fits, IsCalendar
    <2>2. /\ EarliestOf(e, E) /\ e = CalendarPeekNext(s.data)
          /\ CalendarOf(d, F) /\ d.lastPrio = e.ts
      BY <2>1, CalendarRemoveNextOf
    <2> HIDE DEF q
    <2>3. r = [ev |-> e, sched |-> [s EXCEPT !.data = d]] /\ PeekNext(s) = e
      BY <1>6, <2>1, <2>2 DEF RemoveNext, PeekNext, q
    <2> HIDE DEF e, d, r, F
    <2>4. r.ev = e /\ r.sched = [s EXCEPT !.data = d]
      BY <2>3
    <2>5. F \subseteq Event /\ IsFiniteSet(F)
      BY <1>1 DEF F
    <2>8. Fits(s.kind, d, F)
      BY <1>6, <2>1, <2>2, <2>5 DEF Fits
    <2>6. Good(r.sched, F) /\ r.sched.kind = s.kind /\ Floor(r.sched) = d.lastPrio
      BY <1>6, <2>1, <2>4, <2>8, NewData
    <2>7. e.ts <= e.ts
      BY <1>2, <2>2
    <2> QED
      BY <2>2, <2>3, <2>4, <2>6, <2>7 DEF r, F
  <1> QED
    BY <1>0, <1>3, <1>4, <1>5, <1>6 DEF AllKinds, IsCalendar

(* Remove takes out the given event, unless the scheduler is a heap. *)
LEMMA GoodRemove ==
  ASSUME NEW s, NEW E, Good(s, E), NEW ev \in E, UidsDistinct(E), s.kind # "heap"
  PROVE  /\ Good(RemoveOne(s, ev), E \ {ev}) /\ Floor(RemoveOne(s, ev)) = Floor(s)
         /\ RemoveOne(s, ev).kind = s.kind
  <1> DEFINE F == E \ {ev}
             d == CASE s.kind = "map" -> s.data \ {ev}
                    [] s.kind = "list" -> Erase(s.data, ev)
                    [] s.kind = "heap" ->
                         TakeOut(s.data, CHOOSE i \in 1 .. Len(s.data) : s.data[i].uid = ev.uid)
                    [] IsCalendar(s) -> CalendarRemove(s.data, ev)
  <1>1. RemoveOne(s, ev) = [s EXCEPT !.data = d]
    BY DEF RemoveOne
  <1>2. F \subseteq Event /\ IsFiniteSet(F)
    BY FS_RemoveElement DEF Good, Fits
  <1>3. s.kind = "map" => d = F
    BY DEF Good, Fits, IsCalendar
  <1>4. s.kind = "list" => Row(d, F, FALSE)
    <2> HAVE s.kind = "list"
    <2>1. d = Erase(s.data, ev) /\ Row(s.data, E, FALSE)
      BY DEF Good, Fits, IsCalendar
    <2> QED
      BY <2>1, EraseRow
  <1>6. IsCalendar(s) => CalendarOf(d, F) /\ d.lastPrio = s.data.lastPrio
    <2> HAVE IsCalendar(s)
    <2>1. d = CalendarRemove(s.data, ev) /\ CalendarOf(s.data, E)
      BY DEF Good, Fits, IsCalendar
    <2> QED
      BY <2>1, CalendarRemoveOf
  <1>7. Fits(s.kind, d, F)
    BY <1>2, <1>3, <1>4, <1>6 DEF Fits, IsCalendar
  <1> HIDE DEF d, F
  <1>8. /\ Good(RemoveOne(s, ev), F) /\ RemoveOne(s, ev).kind = s.kind
        /\ Floor(RemoveOne(s, ev)) = IF IsCalendar(s) THEN d.lastPrio ELSE 0
    BY <1>1, <1>7, NewData
  <1> QED
    BY <1>6, <1>8 DEF Floor, F

-----------------------------------------------------------------------------
(* SetScheduler. *)

(* All the events arrive in the new scheduler: after k rounds a set S of k *)
(* of them is there, and the others are where they were.                   *)
LEMMA MoveAllGood ==
  ASSUME NEW s, NEW E, Good(s, E), NEW t, Good(t, {}), Floor(t) = 0
  PROVE  Good(MoveAll(s, t), E) /\ Floor(MoveAll(s, t)) = 0 /\ MoveAll(s, t).kind = t.kind
  <1> DEFINE N == Cardinality(E)
  <1>1. Content(s) = E /\ N \in Nat /\ IsFiniteSet(E) /\ E \subseteq Event
    BY GoodContent DEF Good, Fits
  <1>2. PICK f : /\ f[0] = [from |-> s, to |-> t]
                 /\ \A k \in 1 .. N :
                      f[k] = IF IsEmpty(f[k - 1].from) THEN f[k - 1]
                             ELSE [from |-> RemoveNext(f[k - 1].from).sched,
                                   to   |-> Insert(f[k - 1].to, RemoveNext(f[k - 1].from).ev)]
                 /\ MoveAll(s, t) = f[N].to
    BY <1>1, MoveAllLoop
  <1> DEFINE Moved(k, S) == /\ S \subseteq E /\ Cardinality(S) = k
                            /\ Good(f[k].from, E \ S) /\ Good(f[k].to, S)
                            /\ Floor(f[k].to) = 0 /\ f[k].to.kind = t.kind
             K == {k \in Nat : k <= N => \E S : Moved(k, S)}
  <1> HIDE DEF N
  <1>3. 0 \in K
    <2>1. f[0].from = s /\ f[0].to = t /\ E \ {} = E /\ Cardinality({}) = 0 /\ {} \subseteq E
      BY <1>2, FS_EmptySet
    <2>2. Moved(0, {})
      BY <2>1
    <2> HIDE DEF Moved
    <2> QED
      BY <2>2
  <1>4. ASSUME NEW k \in Nat, k \in K PROVE k + 1 \in K
    <2> SUFFICES ASSUME k + 1 <= N PROVE \E S : Moved(k + 1, S)
      OBVIOUS
    <2>1. PICK S : Moved(k, S)
      BY <1>1, <1>4
    <2> DEFINE from == f[k].from
               to   == f[k].to
               R    == E \ S
               ev   == RemoveNext(from).ev
               next == RemoveNext(from).sched
               T    == S \cup {ev}
    <2>2. IsFiniteSet(S) /\ (Cardinality(E) = Cardinality(S) => E = S)
      BY <1>1, <2>1, FS_Subset
    <2>3. R # {}
      BY <1>1, <2>1, <2>2 DEF N
    <2>4. Good(from, R) /\ Good(to, S) /\ Floor(to) = 0 /\ to.kind = t.kind /\ S \subseteq E
      BY <2>1
    <2> HIDE DEF Moved, R, from, to
    <2>5. EarliestOf(ev, R) /\ Good(next, R \ {ev}) /\ ~IsEmpty(from)
      BY <2>3, <2>4, GoodNext, GoodContent
    <2> HIDE DEF ev, next
    <2>6. ev \in R
      BY <2>5 DEF EarliestOf
    <2>7. ev \in E /\ ev \notin S /\ ev \in Event /\ R \ {ev} = E \ T
      BY <1>1, <2>6 DEF R
    <2>8. 0 <= ev.ts
      BY <2>7 DEF Event
    <2>9. Good(Insert(to, ev), T) /\ Floor(Insert(to, ev)) = 0 /\ Insert(to, ev).kind = t.kind
      BY <2>4, <2>7, <2>8, GoodInsert
    <2>10. k + 1 \in 1 .. N /\ (k + 1) - 1 = k
      BY <1>1
    <2>11. f[k + 1] = [from |-> next, to |-> Insert(to, ev)]
      BY <1>2, <2>5, <2>10 DEF from, to, ev, next
    <2>12. f[k + 1].from = next /\ f[k + 1].to = Insert(to, ev)
      BY <2>11
    <2>13. Cardinality(T) = k + 1 /\ T \subseteq E
      BY <2>1, <2>2, <2>4, <2>7, FS_AddElement DEF Moved
    <2>14. Moved(k + 1, T)
      BY <2>5, <2>7, <2>9, <2>12, <2>13 DEF Moved
    <2> QED
      BY <2>14
  <1>5. N \in K
    <2> HIDE DEF K
    <2>1. Nat \subseteq K
      BY <1>3, <1>4, SetInduction
    <2> QED
      BY <1>1, <2>1
  <1>6. PICK S : Moved(N, S)
    BY <1>1, <1>5
  <1>7. S = E
    BY <1>1, <1>6, FS_Subset DEF N
  <1> QED
    BY <1>2, <1>6, <1>7

-----------------------------------------------------------------------------
(* The inductive invariant. *)

(* Remove is not called while the events are in a heap: either the program *)
(* never does, or it never has a HeapScheduler.                            *)
SafeRemove == HeapRemove => "heap" \notin Kinds

(* The scheduler holds its events in the form its kind asks for, their     *)
(* uids were given out and are distinct, and a calendar's last priority is *)
(* not later than the event under way, so that what is scheduled next is   *)
(* not earlier than it.                                                    *)
SchedulerInv ==
  /\ m_events.kind \in Kinds
  /\ Good(m_events, Content(m_events))
  /\ UidsDistinct(Content(m_events))
  /\ \A e \in Content(m_events) : e.uid <= m_uid
  /\ Floor(m_events) <= last.ts
  /\ m_uid \in 0 .. MaxUid
  /\ last \in Event \cup {[ts |-> 0, uid |-> 0]} /\ removed \in Nat

(* The event under way has a time. *)
LEMMA LastTime ==
  ASSUME last \in Event \cup {[ts |-> 0, uid |-> 0]}
  PROVE  last.ts \in Nat
  <1>1. CASE last \in Event
    BY <1>1 DEF Event
  <1>2. CASE last = [ts |-> 0, uid |-> 0]
    BY <1>2
  <1> QED
    BY <1>1, <1>2

(* A new event is not in the list, and its uid is that of no other. *)
LEMMA SchedulePreserves ==
  ASSUME SchedulerInv, NEW d \in Delays, Schedule(d)
  PROVE  /\ SchedulerInv'
         /\ \E e \in Event : /\ e \notin Content(m_events) /\ last.ts <= e.ts
                             /\ Content(m_events') = Content(m_events) \cup {e}
  <1> DEFINE E == Content(m_events)
             u == m_uid + 1
             t == last.ts + d
             e == [ts |-> t, uid |-> u]
             F == E \cup {e}
             s == Insert(m_events, e)
  <1>1. last.ts \in Nat /\ d \in Nat /\ m_uid \in Nat /\ MaxUid \in Nat /\ m_uid < MaxUid
    BY LastTime, SchedulersAssumption DEF SchedulerInv, Schedule
  <1>2. t \in Nat /\ last.ts <= t /\ u \in 1 .. MaxUid
    BY <1>1
  <1>3. m_events' = s /\ m_uid' = u /\ last' = last /\ removed' = removed
    BY DEF Schedule
  <1> HIDE DEF u, t
  <1>4. e \in Event /\ e.ts = t /\ e.uid = u
    BY <1>2 DEF Event
  <1> HIDE DEF e, s
  <1>5. \A f \in E : f.uid \in Nat /\ f.uid <= m_uid /\ f.uid # u
    <2> TAKE f \in E
    <2>1. f \in Event /\ f.uid <= m_uid
      BY DEF SchedulerInv, Good, Fits
    <2>2. f.uid \in Nat
      BY <1>1, <2>1 DEF Event
    <2> QED
      BY <1>1, <2>1, <2>2 DEF u
  <1>6. e \notin E
    BY <1>4, <1>5
  <1>7. Floor(m_events) <= t
    <2>1. Floor(m_events) \in Nat
      BY GoodContent DEF SchedulerInv
    <2>2. Floor(m_events) <= last.ts
      BY DEF SchedulerInv
    <2> QED
      BY <1>1, <1>2, <2>1, <2>2
  <1>8. Good(s, F) /\ Floor(s) = Floor(m_events) /\ s.kind = m_events.kind
    BY <1>4, <1>6, <1>7, GoodInsert DEF SchedulerInv, s
  <1>9. Content(s) = F
    BY <1>8, GoodContent
  <1>10. UidsDistinct(F)
    BY <1>4, <1>5 DEF UidsDistinct, SchedulerInv
  <1>11. \A f \in F : f.uid <= u
    BY <1>1, <1>4, <1>5 DEF u
  <1>12. SchedulerInv'
    <2>1. u \in 0 .. MaxUid
      BY <1>2
    <2> QED
      BY <1>3, <1>8, <1>9, <1>10, <1>11, <2>1 DEF SchedulerInv
  <1> QED
    BY <1>2, <1>3, <1>4, <1>6, <1>9, <1>12

(* The next event is the earliest. *)
LEMMA ProcessPreserves ==
  ASSUME SchedulerInv, ProcessOneEvent
  PROVE  /\ SchedulerInv'
         /\ EarliestOf(last', Content(m_events))
         /\ Content(m_events') = Content(m_events) \ {last'}
  <1> DEFINE E == Content(m_events)
             r == RemoveNext(m_events)
             e == r.ev
             s == r.sched
             F == E \ {e}
  <1>1. m_events' = s /\ last' = e /\ m_uid' = m_uid /\ removed' = removed /\ ~IsEmpty(m_events)
    BY DEF ProcessOneEvent
  <1>2. E # {} /\ Good(m_events, E)
    BY <1>1, GoodContent DEF SchedulerInv
  <1>3. EarliestOf(e, E) /\ Good(s, F) /\ s.kind = m_events.kind /\ Floor(s) <= e.ts
    BY <1>2, GoodNext
  <1> HIDE DEF r
  <1>4. Content(s) = F
    BY <1>3, GoodContent
  <1>5. e \in Event
    BY <1>2, <1>3 DEF EarliestOf, Good, Fits
  <1>6. UidsDistinct(F) /\ \A f \in F : f.uid <= m_uid
    BY DEF SchedulerInv, UidsDistinct
  <1>7. SchedulerInv'
    BY <1>1, <1>3, <1>4, <1>5, <1>6 DEF SchedulerInv
  <1> QED
    BY <1>1, <1>3, <1>4, <1>7

(* Remove takes out its event. *)
LEMMA RemovePreserves ==
  ASSUME SchedulerInv, SafeRemove, NEW ev \in Content(m_events), RemoveEvent(ev)
  PROVE  SchedulerInv' /\ Content(m_events') = Content(m_events) \ {ev}
  <1> DEFINE E == Content(m_events)
             s == RemoveOne(m_events, ev)
             F == E \ {ev}
  <1>1. m_events' = s /\ last' = last /\ m_uid' = m_uid /\ removed' = removed + 1
    BY DEF RemoveEvent
  <1>2. m_events.kind # "heap"
    BY DEF RemoveEvent, SafeRemove, SchedulerInv
  <1>3. Good(s, F) /\ s.kind = m_events.kind /\ Floor(s) = Floor(m_events)
    BY <1>2, GoodRemove DEF SchedulerInv
  <1>4. Content(s) = F
    BY <1>3, GoodContent
  <1>5. UidsDistinct(F) /\ \A f \in F : f.uid <= m_uid
    BY DEF SchedulerInv, UidsDistinct
  <1>6. removed + 1 \in Nat
    BY DEF SchedulerInv
  <1> HIDE DEF s
  <1>7. SchedulerInv'
    BY <1>1, <1>3, <1>4, <1>5, <1>6 DEF SchedulerInv
  <1> QED
    BY <1>1, <1>4, <1>7

(* SetScheduler keeps the events. *)
LEMMA SetSchedulerPreserves ==
  ASSUME SchedulerInv, NEW kind \in Kinds, SetScheduler(kind)
  PROVE  SchedulerInv' /\ Content(m_events') = Content(m_events)
  <1> DEFINE E == Content(m_events)
             t == Create(kind)
             s == MoveAll(m_events, t)
  <1>1. m_events' = s /\ last' = last /\ m_uid' = m_uid /\ removed' = removed
    BY DEF SetScheduler
  <1>2. kind \in AllKinds
    BY SchedulersAssumption DEF AllKinds
  <1>3. Good(t, {}) /\ Floor(t) = 0 /\ t.kind = kind
    BY <1>2, GoodCreate
  <1> HIDE DEF t
  <1>8. Good(m_events, E)
    BY DEF SchedulerInv
  <1> HIDE DEF E
  <1>9. Good(s, E) /\ Floor(s) = 0 /\ s.kind = t.kind
    BY <1>3, <1>8, MoveAllGood, Zenon
  <1>4. Good(s, E) /\ Floor(s) = 0 /\ s.kind = kind
    BY <1>3, <1>9
  <1>5. Content(s) = Content(m_events)
    BY <1>4, GoodContent DEF E
  <1>6. 0 <= last.ts
    BY LastTime DEF SchedulerInv
  <1> HIDE DEF s
  <1>7. SchedulerInv'
    BY <1>1, <1>4, <1>5, <1>6 DEF SchedulerInv, E
  <1> QED
    BY <1>1, <1>5, <1>7

(* At the start there are no events. *)
LEMMA SchedulerInit == Init => SchedulerInv /\ Content(m_events) = {}
  <1> SUFFICES ASSUME Init PROVE SchedulerInv /\ Content(m_events) = {}
    OBVIOUS
  <1> DEFINE z == [ts |-> 0, uid |-> 0]
  <1>1. PICK kind \in Kinds : m_events = Create(kind)
    BY DEF Init
  <1>2. kind \in AllKinds
    BY SchedulersAssumption DEF AllKinds
  <1>3. Good(m_events, {}) /\ Floor(m_events) = 0 /\ m_events.kind = kind
    BY <1>1, <1>2, GoodCreate
  <1>4. Content(m_events) = {}
    BY <1>3, GoodContent
  <1>5. m_uid = 0 /\ last = z /\ z.ts = 0 /\ removed = 0
    BY DEF Init
  <1> HIDE DEF z
  <1>6. m_uid \in 0 .. MaxUid /\ 0 <= last.ts /\ removed \in Nat
    BY <1>5, SchedulersAssumption
  <1>7. last \in Event \cup {[ts |-> 0, uid |-> 0]}
    BY <1>5 DEF z
  <1>8. UidsDistinct({})
    BY DEF UidsDistinct
  <1> QED
    BY <1>3, <1>4, <1>6, <1>7, <1>8 DEF SchedulerInv

(* No call breaks the invariant. *)
LEMMA SchedulerStep == SafeRemove /\ SchedulerInv /\ [Next]_vars => SchedulerInv'
  <1> SUFFICES ASSUME SafeRemove, SchedulerInv, [Next]_vars PROVE SchedulerInv'
    OBVIOUS
  <1>1. CASE \E d \in Delays : Schedule(d)
    BY <1>1, SchedulePreserves
  <1>2. CASE ProcessOneEvent
    BY <1>2, ProcessPreserves
  <1>3. CASE \E ev \in Content(m_events) : RemoveEvent(ev)
    BY <1>3, RemovePreserves
  <1>4. CASE \E kind \in Kinds : SetScheduler(kind)
    BY <1>4, SetSchedulerPreserves
  <1>5. CASE UNCHANGED vars
    BY <1>5 DEF vars, SchedulerInv
  <1> QED
    BY <1>1, <1>2, <1>3, <1>4, <1>5 DEF Next

(* The invariant holds of every program that does not remove events from a *)
(* heap: whatever the delays, the number of events and the schedulers it   *)
(* changes between.                                                        *)
THEOREM SchedulerInvariant == SafeRemove => (Spec => []SchedulerInv)
  <1> SUFFICES ASSUME SafeRemove PROVE Spec => []SchedulerInv
    OBVIOUS
  <1>1. Init => SchedulerInv
    BY SchedulerInit
  <1>2. SchedulerInv /\ [Next]_vars => SchedulerInv'
    BY SchedulerStep
  <1> QED
    BY <1>1, <1>2, PTL DEF Spec

-----------------------------------------------------------------------------
(* What follows from it. *)

(* The members of a calendar. *)
LEMMA CalendarFacts ==
  ASSUME NEW c, NEW E, CalendarOf(c, E)
  PROVE  CalendarType(c) /\ CalendarSound(c)
  <1> DEFINE n == nBuckets(c)
  <1>1. /\ Frame(c) /\ Start(c) /\ Racks(c, E) /\ E \subseteq Event
        /\ \A e \in E : c.lastPrio <= e.ts
        /\ IsFiniteSet(E) /\ c.qSize = Cardinality(E)
        /\ \A i \in 0 .. n - 1 : Row(c.buckets[i], Share(c, E, i), c.reverse)
    BY DEF CalendarOf, Shelf, Racks
  <1>2. /\ n \in BucketCounts /\ DOMAIN c.buckets = 0 .. n - 1
        /\ c.reverse \in BOOLEAN /\ c.width \in Nat \ {0}
        /\ DOMAIN c = {"reverse", "buckets", "width", "lastBucket", "lastPrio", "bucketTop", "qSize"}
    BY <1>1 DEF Frame
  <1>3. /\ c.lastPrio \in Nat /\ c.lastBucket = Hash(c, c.lastPrio)
        /\ c.bucketTop = (c.lastPrio \div c.width + 1) * c.width
    BY <1>1 DEF Start
  <1> HIDE DEF n
  <1>4. c.lastBucket \in 0 .. n - 1
    BY <1>1, <1>3, HashRange DEF n
  <1>5. c.bucketTop \in Nat
    <2> DEFINE q == c.lastPrio \div c.width
    <2>1. q \in Nat
      BY <1>2, <1>3, DivMod
    <2> HIDE DEF q
    <2>2. c.bucketTop = (q + 1) * c.width
      BY <1>3 DEF q
    <2> QED
      BY <1>2, <2>1, <2>2
  <1>6. c.qSize \in Nat /\ Events(c) = E
    BY <1>1, FS_CardinalityType, RacksEvents
  <1>7. \A i \in 0 .. n - 1 : IsSeqOf(c.buckets[i], Event) /\ Ordered(c.buckets[i], c.reverse)
    BY <1>1 DEF Row, IsSeqOf
  <1>8. ASSUME NEW i \in 0 .. n - 1, NEW k \in 1 .. Len(c.buckets[i])
        PROVE  Hash(c, c.buckets[i][k].ts) = i
    <2>1. c.buckets[i][k] \in Share(c, E, i)
      BY <1>1, RowPlaces
    <2> QED
      BY <2>1 DEF Share
  <1>9. CalendarType(c)
    BY <1>2, <1>3, <1>4, <1>5, <1>6, <1>7 DEF CalendarType
  <1>10. CalendarSound(c)
    BY <1>1, <1>2, <1>3, <1>6, <1>7, <1>8 DEF CalendarSound
  <1> QED
    BY <1>9, <1>10

(* Types, sorted lists, heap order, sound calendars. *)
LEMMA InvWellFormed == SchedulerInv => WellFormed
  <1> SUFFICES ASSUME SchedulerInv PROVE WellFormed
    OBVIOUS
  <1> DEFINE E == Content(m_events)
             d == m_events.data
             k == m_events.kind
  <1>1. Fits(k, d, E)
    BY DEF SchedulerInv, Good
  <1>2. k = "map" => d \subseteq Event
    BY <1>1 DEF Fits
  <1>3. k = "list" => IsSeqOf(d, Event) /\ Ordered(d, FALSE)
    BY <1>1 DEF Fits, Row, IsSeqOf
  <1>4. k = "heap" => IsSeqOf(d, Event) /\ \A i \in 2 .. Len(d) : Before(d[Parent(i)], d[i])
    BY <1>1 DEF Fits, HeapOf, Nodes, IsSeqOf
  <1>5. IsCalendar(m_events) => CalendarType(d) /\ CalendarSound(d) /\ d.lastPrio <= last.ts
    <2> HAVE IsCalendar(m_events)
    <2>1. CalendarOf(d, E)
      BY <1>1 DEF Fits, IsCalendar
    <2>2. d.lastPrio <= last.ts
      BY DEF SchedulerInv, Floor
    <2> QED
      BY <2>1, <2>2, CalendarFacts
  <1>6. TypeOK
    BY <1>2, <1>3, <1>4, <1>5 DEF TypeOK, SchedulerInv
  <1> QED
    BY <1>3, <1>4, <1>5, <1>6 DEF WellFormed

(* The structures stay what the searches in them rely on. *)
THEOREM SchedulerWellFormed == SafeRemove => (Spec => []WellFormed)
  BY SchedulerInvariant, InvWellFormed, PTL

(* PeekNext returns the earliest event. *)
THEOREM SchedulerPeek == SafeRemove => (Spec => []PeekIsEarliest)
  <1>1. SchedulerInv => PeekIsEarliest
    <2> SUFFICES ASSUME SchedulerInv, ~IsEmpty(m_events)
                 PROVE  EarliestOf(PeekNext(m_events), Content(m_events))
      BY DEF PeekIsEarliest, EarliestOf
    <2>1. Good(m_events, Content(m_events)) /\ Content(m_events) # {}
      BY GoodContent DEF SchedulerInv
    <2> QED
      BY <2>1, GoodNext
  <1> QED
    BY <1>1, SchedulerInvariant, PTL

(* Every scheduler implements the event list. *)
THEOREM SchedulerImplements == SafeRemove => (Spec => Implements)
  <1> SUFFICES ASSUME SafeRemove PROVE Spec => Implements
    OBVIOUS
  <1>1. Init => List!Init
    BY SchedulerInit DEF Init, List!Init
  <1>2. SchedulerInv /\ [Next]_vars => [List!Next]_(List!vars)
    <2> SUFFICES ASSUME SchedulerInv, [Next]_vars PROVE [List!Next]_(List!vars)
      OBVIOUS
    <2>1. CASE \E d \in Delays : Schedule(d)
      <3>1. PICK d \in Delays : Schedule(d)
        BY <2>1
      <3>2. PICK e \in Event : /\ e \notin Content(m_events) /\ last.ts <= e.ts
                               /\ Content(m_events') = Content(m_events) \cup {e}
        BY <3>1, SchedulePreserves
      <3>3. last' = last /\ removed' = removed
        BY <3>1 DEF Schedule
      <3>4. List!Insert
        BY <3>2, <3>3 DEF List!Insert
      <3> QED
        BY <3>4 DEF List!Next
    <2>2. CASE ProcessOneEvent
      <3>1. EarliestOf(last', Content(m_events)) /\ Content(m_events') = Content(m_events) \ {last'}
        BY <2>2, ProcessPreserves
      <3>2. removed' = removed
        BY <2>2 DEF ProcessOneEvent
      <3>3. List!Earliest(last')
        BY <3>1 DEF List!Earliest, List!Before, EarliestOf, Before
      <3>4. List!RemoveNext(last') /\ last' \in Content(m_events)
        BY <3>1, <3>2, <3>3 DEF List!RemoveNext, EarliestOf
      <3> QED
        BY <3>4 DEF List!Next
    <2>3. CASE \E ev \in Content(m_events) : RemoveEvent(ev)
      <3>1. PICK ev \in Content(m_events) : RemoveEvent(ev)
        BY <2>3
      <3>2. Content(m_events') = Content(m_events) \ {ev}
        BY <3>1, RemovePreserves
      <3>3. List!Remove(ev)
        BY <3>1, <3>2 DEF RemoveEvent, List!Remove
      <3> QED
        BY <3>3 DEF List!Next
    <2>4. CASE \E kind \in Kinds : SetScheduler(kind)
      <3>1. PICK kind \in Kinds : SetScheduler(kind)
        BY <2>4
      <3>2. Content(m_events') = Content(m_events)
        BY <3>1, SetSchedulerPreserves
      <3> QED
        BY <3>1, <3>2 DEF SetScheduler, List!vars
    <2>5. CASE UNCHANGED vars
      BY <2>5 DEF vars, List!vars
    <2> QED
      BY <2>1, <2>2, <2>3, <2>4, <2>5 DEF Next
  <1>3. Spec => []SchedulerInv
    BY SchedulerInvariant
  <1> QED
    BY <1>1, <1>2, <1>3, PTL DEF Spec, Implements, List!Spec
=============================================================================
