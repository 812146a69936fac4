----------------------------- MODULE RouteProofs -----------------------------
(***************************************************************************)
(* The properties of the route calculation, for any number of routers and  *)
(* networks, any links between them and any metrics.                       *)
(*                                                                         *)
(* The module goes from the reference to the code.  Distances, a fixed     *)
(* number of rounds of relaxation, are the greatest function that no edge  *)
(* raises by more than its cost (DistanceFacts, DistanceGreatest), and     *)
(* attained over a first and over a last edge.  Push, Reorder and Pop keep *)
(* the candidate queue ordered.  LoopInv is the invariant of the loop of   *)
(* SPFNext, record by record; RouteInv adds the tables of all routers, and *)
(* is inductive.                                                           *)
(***************************************************************************)
EXTENDS GlobalRouteManager, FiniteSetTheorems, WellFoundedInduction, TLAPS

-----------------------------------------------------------------------------
(* Naturals. *)

(* Every nonempty set of naturals has a least element. *)
LEMMA LeastElement ==
  ASSUME NEW T, T \subseteq Nat, T # {}
  PROVE  \E x \in T : \A y \in T : x <= y
  <1> DEFINE R == {ss \in Nat \X Nat : ss[1] < ss[2]}
  <1>1. R = OpToRel(<, Nat)
    BY DEF OpToRel
  <1>2. IsWellFoundedOn(R, Nat)
    BY <1>1, NatLessThanWellFounded
  <1>3. PICK x \in T : \A y \in T : <<y, x>> \notin R
    <2> HIDE DEF R
    <2> QED
      BY <1>2, WFMin
  <1>4. ASSUME NEW y \in T PROVE x <= y
    <2>1. x \in Nat /\ y \in Nat
      OBVIOUS
    <2>2. ~(y < x)
      BY <1>3, <2>1
    <2> QED
      BY <2>1, <2>2
  <1> QED
    BY <1>4

(* Induction, for a set in place of a predicate. *)
LEMMA SetInduction ==
  ASSUME NEW S, 0 \in S, \A n \in Nat : n \in S => n + 1 \in S
  PROVE  Nat \subseteq S
  <1> SUFFICES ASSUME Nat \ S # {} PROVE FALSE
    OBVIOUS
  <1>1. PICK x \in Nat \ S : \A y \in Nat \ S : x <= y
    BY LeastElement
  <1>2. x # 0 /\ x - 1 \in Nat
    BY <1>1
  <1>3. x - 1 \in S
    BY <1>1, <1>2
  <1>4. (x - 1) + 1 = x
    BY <1>1
  <1> QED
    BY <1>1, <1>2, <1>3, <1>4

(* Min of FiniteSetsExt. *)
LEMMA MinIsLeast ==
  ASSUME NEW T, T \subseteq Nat, T # {}
  PROVE  Min(T) \in T /\ Min(T) \in Nat /\ \A y \in T : Min(T) <= y
  <1>1. \E x \in T : \A y \in T : x <= y
    BY LeastElement
  <1> QED
    BY <1>1 DEF Min

(* Max of FiniteSetsExt. *)
LEMMA MaxIsGreatest ==
  ASSUME NEW T, T \subseteq Nat, T # {}, IsFiniteSet(T)
  PROVE  Max(T) \in T /\ Max(T) \in Nat /\ \A y \in T : y <= Max(T)
  <1> DEFINE S == {n \in Nat : \A U \in SUBSET T : Cardinality(U) = n /\ U # {} =>
                                  \E x \in U : \A y \in U : x >= y}
  <1>0. \A U \in SUBSET T : IsFiniteSet(U) /\ Cardinality(U) \in Nat /\ U \subseteq Nat
    BY FS_Subset, FS_CardinalityType
  <1>1. 0 \in S
    <2>1. \A U \in SUBSET T : Cardinality(U) = 0 => U = {}
      BY <1>0, FS_EmptySet
    <2> QED
      BY <2>1
  <1>2. ASSUME NEW n \in Nat, n \in S PROVE n + 1 \in S
    <2> SUFFICES ASSUME NEW U \in SUBSET T, Cardinality(U) = n + 1
                 PROVE  \E x \in U : \A y \in U : x >= y
      OBVIOUS
    <2>1. PICK a \in U : TRUE
      <3>1. Cardinality({}) = 0 /\ n + 1 # 0
        BY FS_EmptySet
      <3> QED
        BY <3>1
    <2>2. Cardinality(U \ {a}) = n
      BY <1>0, FS_RemoveElement, SMT
    <2>3. U \ {a} \in SUBSET T
      OBVIOUS
    <2>4. CASE U \ {a} = {}
      <3>1. \A y \in U : y = a
        BY <2>4
      <3>2. a >= a
        BY <1>0
      <3> QED
        BY <2>1, <3>1, <3>2
    <2>5. CASE U \ {a} # {}
      <3>1. PICK x \in U \ {a} : \A y \in U \ {a} : x >= y
        BY <1>2, <2>2, <2>3, <2>5
      <3>2. x \in Nat /\ a \in Nat
        BY <1>0, <2>1, <3>1
      <3>3. CASE x >= a
        BY <3>1, <3>3
      <3>4. CASE a > x
        <4>1. \A y \in U \ {a} : a >= y
          BY <1>0, <3>1, <3>2, <3>4
        <4>2. a >= a
          BY <3>2
        <4> QED
          BY <2>1, <4>1, <4>2
      <3> QED
        BY <3>2, <3>3, <3>4
    <2> QED
      BY <2>4, <2>5
  <1> HIDE DEF S
  <1>3. Nat \subseteq S
    BY <1>1, <1>2, SetInduction
  <1>4. Cardinality(T) \in S
    BY <1>0, <1>3
  <1>5. \E x \in T : \A y \in T : x >= y
    BY <1>0, <1>4 DEF S
  <1>6. Max(T) \in T /\ \A y \in T : Max(T) >= y
    BY <1>5 DEF Max
  <1> QED
    BY <1>6

-----------------------------------------------------------------------------
(* The graph. *)

NV == NRouters + NNetworks

(* The vertices are numbered from 1; each is a router or a network.        *)
LEMMA VertexNumbers ==
  /\ NV \in Nat /\ NV >= 1
  /\ Vertices = 1 .. NV
  /\ Routers \subseteq Vertices /\ Networks \subseteq Vertices
  /\ \A v \in Vertices : v \in Routers <=> v \notin Networks
  /\ IsFiniteSet(Vertices) /\ Cardinality(Vertices) = NV
  <1>1. NV \in Nat /\ NV >= 1 /\ Vertices = 1 .. NV
    BY RoutesAssumption DEF NV, Vertices, Routers, Networks
  <1>2. IsFiniteSet(1 .. NV) /\ Cardinality(1 .. NV) = IF 1 > NV THEN 0 ELSE NV - 1 + 1
    BY <1>1, FS_Interval
  <1>3. Routers \subseteq Vertices /\ Networks \subseteq Vertices
    BY DEF Vertices
  <1>4. \A v \in Vertices : v \in Routers <=> v \notin Networks
    BY RoutesAssumption DEF Vertices, Routers, Networks
  <1> QED
    BY <1>1, <1>2, <1>3, <1>4

(* A weighted graph: g[u][w] is the cost of the edge from u to w. *)
IsGraph(g) ==
  \A u \in Vertices : DOMAIN g[u] \subseteq Vertices /\ \A w \in DOMAIN g[u] : g[u][w] \in Nat

Into(g, w) == {x \in Vertices : w \in DOMAIN g[x]}

(* One round of relaxation. *)
Relax(g, d) == [w \in Vertices |-> Min({d[w]} \cup {d[u] + g[u][w] : u \in Into(g, w)})]

Rounds(f, g, v) ==
  /\ f \in [0 .. NV -> [Vertices -> Nat]]
  /\ f[0] = [w \in Vertices |-> IF w = v THEN 0 ELSE Infinity]
  /\ \A k \in 1 .. NV : f[k] = Relax(g, f[k - 1])

(* Evaluated is the identity.                                              *)
LEMMA EvaluatedIsIt == \A f : Evaluated(f) = f
  BY DEF Evaluated

(* A round of relaxation lowers no distance below one over a last edge,    *)
(* and takes the least of them.                                            *)
LEMMA RelaxEffect ==
  ASSUME NEW g, IsGraph(g), NEW d \in [Vertices -> Nat]
  PROVE  /\ Relax(g, d) \in [Vertices -> Nat]
         /\ \A w \in Vertices : Relax(g, d)[w] <= d[w]
         /\ \A u \in Vertices : \A w \in DOMAIN g[u] : Relax(g, d)[w] <= d[u] + g[u][w]
         /\ \A w \in Vertices : \/ Relax(g, d)[w] = d[w]
                                \/ \E u \in Vertices : w \in DOMAIN g[u] /\ Relax(g, d)[w] = d[u] + g[u][w]
  <1> DEFINE A(w) == {d[w]} \cup {d[u] + g[u][w] : u \in Into(g, w)}
  <1>1. ASSUME NEW w \in Vertices
        PROVE  A(w) \subseteq Nat /\ A(w) # {}
    BY DEF IsGraph, Into
  <1>2. ASSUME NEW w \in Vertices
        PROVE  Min(A(w)) \in A(w) /\ Min(A(w)) \in Nat /\ \A y \in A(w) : Min(A(w)) <= y
    <2> HIDE DEF A
    <2> QED
      BY <1>1, MinIsLeast
  <1>3. \A w \in Vertices : Relax(g, d)[w] = Min(A(w))
    BY DEF Relax
  <1>4. Relax(g, d) \in [Vertices -> Nat]
    <2>1. Relax(g, d) = [w \in Vertices |-> Min(A(w))]
      BY DEF Relax
    <2> HIDE DEF A
    <2> QED
      BY <1>2, <2>1
  <1>5. \A w \in Vertices : d[w] \in A(w)
    OBVIOUS
  <1>6. \A u \in Vertices : \A w \in DOMAIN g[u] : w \in Vertices /\ d[u] + g[u][w] \in A(w)
    BY DEF IsGraph, Into
  <1>7. \A w \in Vertices : \A y \in A(w) :
            y = d[w] \/ \E u \in Vertices : w \in DOMAIN g[u] /\ y = d[u] + g[u][w]
    BY DEF Into
  <1> HIDE DEF A
  <1> QED
    BY <1>2, <1>3, <1>4, <1>5, <1>6, <1>7

(* What the largest metric is, and that nothing is as far as Infinity. *)
MaxMetric == Max(Range(NetMetric)) + Max(Metrics \cup {0})

(* No metric exceeds MaxMetric, and Infinity exceeds one metric per        *)
(* router.                                                                 *)
LEMMA MetricBounds ==
  /\ MaxMetric \in Nat /\ Infinity = 1 + NRouters * MaxMetric /\ Infinity \in Nat /\ Infinity >= 1
  /\ \A m \in Metrics \cup {0} : m \in Nat /\ m <= MaxMetric
  /\ \A a \in Routers : NetMetric[a] \in Nat /\ NetMetric[a] > 0 /\ NetMetric[a] <= MaxMetric
  <1> DEFINE A == Range(NetMetric)
             B == Metrics \cup {0}
  <1>1. /\ A = {NetMetric[a] : a \in 1 .. NRouters}
        /\ A \subseteq Nat \ {0} /\ A # {} /\ \A a \in Routers : NetMetric[a] \in A
    BY RoutesAssumption DEF Range, Routers
  <1>2. IsFiniteSet(A)
    <2>1. IsFiniteSet(1 .. NRouters)
      BY RoutesAssumption, FS_Interval
    <2>2. NetMetric \in Surjection(1 .. NRouters, A)
      BY <1>1, RoutesAssumption DEF Surjection
    <2> QED
      BY <2>1, <2>2, FS_Surjection
  <1>3. B \subseteq Nat /\ B # {} /\ IsFiniteSet(B)
    BY RoutesAssumption, FS_AddElement
  <1>4. Max(A) \in Nat /\ \A y \in A : y <= Max(A)
    <2> HIDE DEF A
    <2>1. A \subseteq Nat
      BY <1>1
    <2> QED
      BY <1>1, <1>2, <2>1, MaxIsGreatest
  <1>5. Max(B) \in Nat /\ \A y \in B : y <= Max(B)
    <2> HIDE DEF B
    <2> QED
      BY <1>3, MaxIsGreatest
  <1>6. MaxMetric = Max(A) + Max(B)
    BY DEF MaxMetric
  <1>7. Infinity = 1 + NRouters * MaxMetric
    BY DEF Infinity, MaxMetric
  <1> HIDE DEF A, B
  <1>8. MaxMetric \in Nat
    BY <1>4, <1>5, <1>6
  <1>9. NRouters * MaxMetric \in Nat
    BY <1>8, RoutesAssumption
  <1>10. \A m \in B : m \in Nat /\ m <= MaxMetric
    BY <1>3, <1>4, <1>5, <1>6
  <1>11. \A a \in Routers : NetMetric[a] \in Nat /\ NetMetric[a] > 0 /\ NetMetric[a] <= MaxMetric
    BY <1>1, <1>4, <1>5, <1>6
  <1> QED
    BY <1>7, <1>8, <1>9, <1>10, <1>11 DEF B

(* The rounds exist, and Distances is the last one. *)
LEMMA RoundsExist ==
  ASSUME NEW g, IsGraph(g), NEW v \in Vertices
  PROVE  \E f : Rounds(f, g, v)
  <1> DEFINE Start == [w \in Vertices |-> IF w = v THEN 0 ELSE Infinity]
             Part(f, n) == /\ f \in [0 .. n -> [Vertices -> Nat]] /\ f[0] = Start
                           /\ \A k \in 1 .. n : f[k] = Relax(g, f[k - 1])
             S == {n \in Nat : \E f : Part(f, n)}
  <1>0. Start \in [Vertices -> Nat]
    BY MetricBounds
  <1> HIDE DEF Start
  <1>1. 0 \in S
    <2>1. Part([i \in 0 .. 0 |-> Start], 0)
      BY <1>0
    <2> QED
      BY <2>1
  <1>2. ASSUME NEW n \in Nat, n \in S
        PROVE  n + 1 \in S
    <2>1. PICK f : Part(f, n)
      BY <1>2
    <2> DEFINE x == Relax(g, f[n])
               h == [i \in 0 .. n + 1 |-> IF i = n + 1 THEN x ELSE f[i]]
    <2>2. x \in [Vertices -> Nat]
      <3>1. f[n] \in [Vertices -> Nat]
        BY <2>1
      <3> QED
        BY <3>1, RelaxEffect
    <2>3. \A i \in 0 .. n : f[i] \in [Vertices -> Nat] /\ h[i] = f[i]
      BY <2>1
    <2>4. h[n + 1] = x
      OBVIOUS
    <2>5. h \in [0 .. n + 1 -> [Vertices -> Nat]]
      <3>1. \A i \in 0 .. n + 1 : i = n + 1 \/ i \in 0 .. n
        OBVIOUS
      <3>2. \A i \in 0 .. n + 1 : (IF i = n + 1 THEN x ELSE f[i]) \in [Vertices -> Nat]
        BY <2>2, <2>3, <3>1
      <3> HIDE DEF x
      <3> QED
        BY <3>2
    <2>6. ASSUME NEW k \in 1 .. n + 1
          PROVE  h[k] = Relax(g, h[k - 1])
      <3>1. CASE k = n + 1
        BY <2>3, <2>4, <3>1
      <3>2. CASE k \in 1 .. n
        <4>1. k \in 0 .. n /\ k - 1 \in 0 .. n
          BY <3>2
        <4> QED
          BY <2>1, <2>3, <3>2, <4>1
      <3> QED
        BY <3>1, <3>2
    <2>7. h[0] = Start
      BY <2>1, <2>3
    <2>8. Part(h, n + 1)
      <3> HIDE DEF h, x
      <3> QED
        BY <2>5, <2>6, <2>7
    <2>9. n + 1 \in Nat
      OBVIOUS
    <2> HIDE DEF h, x, Part
    <2> QED
      BY <2>8, <2>9
  <1> HIDE DEF S
  <1>3. Nat \subseteq S
    BY <1>1, <1>2, SetInduction
  <1>4. NV \in S
    BY <1>3, VertexNumbers
  <1> QED
    BY <1>4 DEF S, Rounds, Start

(* Distances is the last of its rounds.                                    *)
LEMMA DistancesRounds ==
  ASSUME NEW g, IsGraph(g), NEW v \in Vertices
  PROVE  \E f : Rounds(f, g, v) /\ Distances(g, v) = f[NV]
  <1> DEFINE Start == [w \in Vertices |-> IF w = v THEN 0 ELSE Infinity]
             E(f) == [k \in 0 .. NV |->
                        IF k = 0 THEN Start ELSE Relax(g, f[k - 1])]
             h == CHOOSE f : f = E(f)
  <1>1. Distances(g, v) = h[NV]
    BY EvaluatedIsIt DEF Distances, Relax, Into, NV
  <1>2. PICK e : Rounds(e, g, v)
    BY RoundsExist
  <1>3. e = E(e)
    <2>1. \A k \in 0 .. NV : e[k] = IF k = 0 THEN Start ELSE Relax(g, e[k - 1])
      <3>1. \A k \in 0 .. NV : k # 0 => k \in 1 .. NV
        BY VertexNumbers
      <3> QED
        BY <1>2, <3>1 DEF Rounds
    <2>2. e = [k \in 0 .. NV |-> e[k]]
      BY <1>2 DEF Rounds
    <2> HIDE DEF Start
    <2> QED
      BY <2>1, <2>2
  <1>4. h = E(h)
    BY <1>3
  <1> HIDE DEF h, Start
  <1>5. /\ h[0] = Start
        /\ \A k \in 1 .. NV : h[k] = Relax(g, h[k - 1])
    <2>1. 0 \in 0 .. NV /\ \A k \in 1 .. NV : k \in 0 .. NV /\ k # 0
      BY VertexNumbers
    <2>2. \A k \in 0 .. NV : h[k] = IF k = 0 THEN Start ELSE Relax(g, h[k - 1])
      BY <1>4
    <2> QED
      BY <2>1, <2>2
  <1> DEFINE S == {k \in Nat : k <= NV => h[k] \in [Vertices -> Nat]}
  <1>6. 0 \in S
    BY <1>5, MetricBounds DEF Start
  <1>7. ASSUME NEW k \in Nat, k \in S
        PROVE  k + 1 \in S
    <2>1. SUFFICES ASSUME k + 1 <= NV PROVE h[k + 1] \in [Vertices -> Nat]
      OBVIOUS
    <2>2. h[k] \in [Vertices -> Nat] /\ k + 1 \in 1 .. NV /\ (k + 1) - 1 = k
      BY <1>7, <2>1, VertexNumbers
    <2>3. h[k + 1] = Relax(g, h[k])
      BY <1>5, <2>2
    <2> QED
      BY <2>2, <2>3, RelaxEffect
  <1>8. \A k \in 0 .. NV : h[k] \in [Vertices -> Nat]
    <2> HIDE DEF S
    <2>1. Nat \subseteq S
      BY <1>6, <1>7, SetInduction
    <2>2. \A k \in 0 .. NV : k \in Nat /\ k <= NV
      BY VertexNumbers
    <2> QED
      BY <2>1, <2>2 DEF S
  <1>9. h \in [0 .. NV -> [Vertices -> Nat]]
    <2>1. h = [k \in 0 .. NV |-> h[k]]
      BY <1>4
    <2> QED
      BY <1>8, <2>1
  <1>10. Rounds(h, g, v)
    BY <1>5, <1>9 DEF Rounds, Start
  <1> QED
    BY <1>1, <1>10

(* A function that no edge raises by more than its cost is below every    *)
(* round.                                                                  *)
LEMMA PotentialBelow ==
  ASSUME NEW g, IsGraph(g), NEW v \in Vertices, NEW f, Rounds(f, g, v),
         NEW p \in [Vertices -> Int], p[v] <= 0, \A w \in Vertices : p[w] <= Infinity,
         \A u \in Vertices : \A w \in DOMAIN g[u] : p[w] <= p[u] + g[u][w]
  PROVE  \A k \in 0 .. NV : \A w \in Vertices : p[w] <= f[k][w]
  <1> DEFINE S == {k \in Nat : k <= NV => \A w \in Vertices : p[w] <= f[k][w]}
  <1>1. 0 \in S
    BY DEF Rounds
  <1>2. ASSUME NEW k \in Nat, k \in S
        PROVE  k + 1 \in S
    <2> SUFFICES ASSUME k + 1 <= NV, NEW w \in Vertices PROVE p[w] <= f[k + 1][w]
      OBVIOUS
    <2>1. k + 1 \in 1 .. NV /\ k \in 0 .. NV /\ (k + 1) - 1 = k
      BY VertexNumbers
    <2>2. f[k + 1] = Relax(g, f[k]) /\ f[k] \in [Vertices -> Nat]
      BY <2>1 DEF Rounds
    <2> DEFINE d == f[k]
    <2>3. \A x \in Vertices : p[x] <= d[x] /\ d[x] \in Nat /\ p[x] \in Int
      BY <1>2, <2>1, <2>2
    <2>4. \A u \in Vertices : \A x \in DOMAIN g[u] : x \in Vertices /\ g[u][x] \in Nat
      BY DEF IsGraph
    <2>5. \/ f[k + 1][w] = d[w]
          \/ \E u \in Vertices : w \in DOMAIN g[u] /\ f[k + 1][w] = d[u] + g[u][w]
      BY <2>2, RelaxEffect
    <2> HIDE DEF d
    <2> QED
      BY <2>3, <2>4, <2>5
  <1> HIDE DEF S
  <1>3. Nat \subseteq S
    BY <1>1, <1>2, SetInduction
  <1>4. \A k \in 0 .. NV : k \in Nat /\ k <= NV
    BY VertexNumbers
  <1> QED
    BY <1>3, <1>4 DEF S

(* Later rounds are not above earlier ones. *)
LEMMA RoundsFall ==
  ASSUME NEW g, IsGraph(g), NEW v \in Vertices, NEW f, Rounds(f, g, v),
         NEW i \in 0 .. NV, NEW j \in i .. NV
  PROVE  \A w \in Vertices : f[j][w] <= f[i][w]
  <1> DEFINE S == {n \in Nat : i + n <= NV => \A w \in Vertices : f[i + n][w] <= f[i][w]}
  <1>0. NV \in Nat /\ \A k \in 0 .. NV : f[k] \in [Vertices -> Nat]
    BY VertexNumbers DEF Rounds
  <1>1. 0 \in S
    <2>1. i + 0 = i /\ f[i] \in [Vertices -> Nat]
      BY <1>0
    <2> QED
      BY <2>1
  <1>2. ASSUME NEW n \in Nat, n \in S
        PROVE  n + 1 \in S
    <2> SUFFICES ASSUME i + (n + 1) <= NV, NEW w \in Vertices
                 PROVE  f[i + (n + 1)][w] <= f[i][w]
      OBVIOUS
    <2>1. i + (n + 1) \in 1 .. NV /\ i + n \in 0 .. NV /\ (i + (n + 1)) - 1 = i + n
      BY <1>0
    <2>2. f[i + (n + 1)] = Relax(g, f[i + n])
      BY <2>1 DEF Rounds
    <2>3. f[i + n] \in [Vertices -> Nat] /\ f[i + (n + 1)] \in [Vertices -> Nat] /\ f[i] \in [Vertices -> Nat]
      BY <1>0, <2>1
    <2>4. f[i + (n + 1)][w] <= f[i + n][w]
      BY <2>2, <2>3, RelaxEffect
    <2>5. f[i + n][w] <= f[i][w]
      BY <1>2, <2>1
    <2> QED
      BY <2>3, <2>4, <2>5
  <1> HIDE DEF S
  <1>3. Nat \subseteq S
    BY <1>1, <1>2, SetInduction
  <1>4. j - i \in Nat /\ i + (j - i) = j /\ j <= NV
    BY <1>0
  <1>5. j - i \in S
    BY <1>3, <1>4
  <1> QED
    BY <1>4, <1>5 DEF S

(* The members of S have their final value after k rounds, and everything *)
(* outside of S stays at least as far as the members of S are.             *)
Settled(f, k, S, m) ==
  /\ m \in Nat
  /\ \A x \in S : f[k][x] <= m /\ \A j \in k .. NV : f[j][x] = f[k][x]
  /\ \A y \in Vertices \ S : \A j \in 0 .. NV : f[j][y] >= m

(* Each round settles one vertex more. *)
LEMMA SettleOne ==
  ASSUME NEW g, IsGraph(g), NEW v \in Vertices, NEW f, Rounds(f, g, v),
         NEW k \in Nat, k + 1 <= NV, NEW S \in SUBSET Vertices, S # Vertices,
         NEW m, Settled(f, k, S, m)
  PROVE  \E y \in Vertices \ S, n \in Nat : Settled(f, k + 1, S \cup {y}, n)
  <1>0. NV \in Nat /\ k \in 0 .. NV /\ k + 1 \in 1 .. NV /\ k + 1 \in 0 .. NV /\ (k + 1) - 1 = k
    BY VertexNumbers
  <1>1. \A j \in 0 .. NV : f[j] \in [Vertices -> Nat]
    BY DEF Rounds
  <1> DEFINE d == f[k + 1]
             V == {d[y] : y \in Vertices \ S}
  <1>2. d \in [Vertices -> Nat] /\ f[k] \in [Vertices -> Nat] /\ d = Relax(g, f[k])
    BY <1>0, <1>1 DEF Rounds
  <1>3. V \subseteq Nat /\ V # {}
    BY <1>2
  <1>4. PICK n \in V : \A z \in V : n <= z
    <2> HIDE DEF V
    <2> QED
      BY <1>3, LeastElement
  <1>5. PICK y \in Vertices \ S : n = d[y]
    BY <1>4
  <1>6. n \in Nat /\ \A z \in Vertices \ S : n <= d[z]
    BY <1>3, <1>4
  <1> HIDE DEF V
  <1>7. m <= n
    BY <1>0, <1>5 DEF Settled
  <1> DEFINE T == {i \in Nat : (k + 1) + i <= NV => \A z \in Vertices \ S : n <= f[(k + 1) + i][z]}
  <1>8. 0 \in T
    <2>1. (k + 1) + 0 = k + 1
      OBVIOUS
    <2> QED
      BY <1>6, <2>1
  <1>9. ASSUME NEW i \in Nat, i \in T
        PROVE  i + 1 \in T
    <2> SUFFICES ASSUME (k + 1) + (i + 1) <= NV, NEW z \in Vertices \ S
                 PROVE  n <= f[(k + 1) + (i + 1)][z]
      OBVIOUS
    <2> DEFINE j == (k + 1) + i
    <2>1. /\ j \in 0 .. NV /\ j + 1 \in 1 .. NV /\ (j + 1) - 1 = j
          /\ (k + 1) + (i + 1) = j + 1 /\ j \in k .. NV
      BY <1>0
    <2>2. \A x \in Vertices \ S : n <= f[j][x]
      BY <1>9, <2>1
    <2> HIDE DEF j
    <2>3. f[j + 1] = Relax(g, f[j]) /\ f[j] \in [Vertices -> Nat]
      BY <1>1, <2>1 DEF Rounds
    <2>4. \/ f[j + 1][z] = f[j][z]
          \/ \E u \in Vertices : z \in DOMAIN g[u] /\ f[j + 1][z] = f[j][u] + g[u][z]
      BY <2>3, RelaxEffect
    <2>5. CASE f[j + 1][z] = f[j][z]
      BY <2>1, <2>2, <2>5
    <2>6. ASSUME NEW u \in Vertices, z \in DOMAIN g[u], f[j + 1][z] = f[j][u] + g[u][z]
          PROVE  n <= f[j + 1][z]
      <3>1. g[u][z] \in Nat
        BY <2>6 DEF IsGraph
      <3>2. f[j][u] \in Nat /\ f[k][u] \in Nat /\ d[z] \in Nat
        BY <1>2, <2>3
      <3>3. CASE u \in S
        <4>1. f[j][u] = f[k][u]
          BY <2>1, <3>3 DEF Settled
        <4>2. d[z] <= f[k][u] + g[u][z]
          BY <1>2, <2>6, RelaxEffect
        <4>3. n <= d[z]
          BY <1>6
        <4> HIDE DEF d
        <4> QED
          BY <1>6, <2>6, <3>1, <3>2, <4>1, <4>2, <4>3
      <3>4. CASE u \notin S
        <4>1. n <= f[j][u]
          BY <2>2, <3>4
        <4> QED
          BY <1>6, <2>6, <3>1, <3>2, <4>1
      <3> QED
        BY <3>3, <3>4
    <2> QED
      BY <2>1, <2>4, <2>5, <2>6
  <1>10. Nat \subseteq T
    <2> HIDE DEF T
    <2> QED
      BY <1>8, <1>9, SetInduction
  <1>11. ASSUME NEW z \in Vertices \ S, NEW j \in 0 .. NV
         PROVE  n <= f[j][z]
    <2>1. CASE j <= k + 1
      <3>1. k + 1 \in j .. NV
        BY <1>0, <2>1
      <3>2. d[z] <= f[j][z]
        BY <3>1, RoundsFall
      <3>3. n <= d[z] /\ d[z] \in Nat /\ f[j][z] \in Nat
        BY <1>1, <1>2, <1>6
      <3> HIDE DEF d
      <3> QED
        BY <1>6, <3>2, <3>3
    <2>2. CASE j > k + 1
      <3>1. j - (k + 1) \in Nat /\ (k + 1) + (j - (k + 1)) = j /\ j <= NV
        BY <1>0, <2>2
      <3>2. j - (k + 1) \in T
        BY <1>10, <3>1
      <3> QED
        BY <3>1, <3>2
    <2> QED
      BY <2>1, <2>2, <1>0
  <1>12. ASSUME NEW j \in (k + 1) .. NV
         PROVE  f[j][y] = n
    <2>1. j \in 0 .. NV
      BY <1>0
    <2>2. f[j][y] <= d[y]
      BY <1>0, RoundsFall
    <2>3. n <= f[j][y] /\ f[j][y] \in Nat
      BY <1>1, <1>11, <2>1
    <2> QED
      BY <1>5, <1>6, <2>2, <2>3
  <1>13. ASSUME NEW x \in S
         PROVE  d[x] <= n /\ \A j \in (k + 1) .. NV : f[j][x] = d[x]
    <2>1. \A j \in (k + 1) .. NV : j \in k .. NV
      BY <1>0
    <2>2. k + 1 \in k .. NV
      BY <1>0
    <2>3. d[x] = f[k][x] /\ f[k][x] <= m /\ \A j \in (k + 1) .. NV : f[j][x] = f[k][x]
      BY <2>1, <2>2 DEF Settled
    <2>4. f[k][x] \in Nat /\ m \in Nat
      BY <1>2 DEF Settled
    <2> QED
      BY <1>6, <1>7, <2>3, <2>4
  <1>14. d[y] <= n
    BY <1>5, <1>6
  <1>15. Settled(f, k + 1, S \cup {y}, n)
    <2>1. ASSUME NEW x \in S \cup {y}
          PROVE  f[k + 1][x] <= n /\ \A j \in (k + 1) .. NV : f[j][x] = f[k + 1][x]
      <3>1. CASE x \in S
        BY <1>13, <3>1
      <3>2. CASE x = y
        BY <1>5, <1>12, <1>14, <3>2
      <3> QED
        BY <3>1, <3>2
    <2>2. \A z \in Vertices \ (S \cup {y}) : \A j \in 0 .. NV : f[j][z] >= n
      BY <1>1, <1>6, <1>11
    <2> QED
      BY <1>6, <2>1, <2>2 DEF Settled
  <1> QED
    BY <1>5, <1>6, <1>15

(* After as many rounds as there are vertices another one changes nothing. *)
LEMMA RoundsConverge ==
  ASSUME NEW g, IsGraph(g), NEW v \in Vertices, NEW f, Rounds(f, g, v)
  PROVE  \A u \in Vertices : \A w \in DOMAIN g[u] : f[NV][w] <= f[NV][u] + g[u][w]
  <1> DEFINE T == {k \in Nat : k + 1 <= NV =>
                     \E S \in SUBSET Vertices, m \in Nat : Cardinality(S) = k + 1 /\ Settled(f, k, S, m)}
  <1>0. /\ NV \in Nat /\ NV >= 1
        /\ \A j \in 0 .. NV : f[j] \in [Vertices -> Nat]
    BY VertexNumbers DEF Rounds
  <1>1. 0 \in T
    <2>1. \A j \in 0 .. NV : f[j][v] = 0
      <3>1. f[0][v] = 0 /\ 0 \in 0 .. NV
        BY <1>0 DEF Rounds
      <3>2. ASSUME NEW j \in 0 .. NV PROVE f[j][v] = 0
        <4>1. f[j][v] <= f[0][v]
          BY <3>1, RoundsFall
        <4> QED
          BY <1>0, <3>1, <4>1
      <3> QED
        BY <3>2
    <2>2. Settled(f, 0, {v}, 0)
      BY <1>0, <2>1 DEF Settled
    <2>3. Cardinality({v}) = 1
      BY FS_Singleton
    <2> QED
      BY <2>2, <2>3
  <1>2. ASSUME NEW k \in Nat, k \in T
        PROVE  k + 1 \in T
    <2> SUFFICES ASSUME (k + 1) + 1 <= NV
                 PROVE  \E S \in SUBSET Vertices, m \in Nat :
                           Cardinality(S) = (k + 1) + 1 /\ Settled(f, k + 1, S, m)
      OBVIOUS
    <2>1. PICK S \in SUBSET Vertices, m \in Nat : Cardinality(S) = k + 1 /\ Settled(f, k, S, m)
      BY <1>0, <1>2
    <2>2. S # Vertices /\ IsFiniteSet(S)
      <3>1. k + 1 # NV
        BY <1>0
      <3> QED
        BY <2>1, <3>1, VertexNumbers, FS_Subset
    <2>3. k + 1 <= NV
      BY <1>0
    <2>4. PICK y \in Vertices \ S, n \in Nat : Settled(f, k + 1, S \cup {y}, n)
      BY <2>1, <2>2, <2>3, SettleOne
    <2>5. Cardinality(S \cup {y}) = (k + 1) + 1
      BY <2>1, <2>2, <2>4, FS_AddElement
    <2>6. S \cup {y} \in SUBSET Vertices
      BY <2>4
    <2> QED
      BY <2>4, <2>5, <2>6
  <1>3. NV - 1 \in T
    <2> HIDE DEF T
    <2>1. Nat \subseteq T
      BY <1>1, <1>2, SetInduction
    <2> QED
      BY <1>0, <2>1
  <1>4. NV - 1 \in Nat /\ (NV - 1) + 1 = NV
    BY <1>0
  <1>5. PICK S \in SUBSET Vertices, m \in Nat : Cardinality(S) = NV /\ Settled(f, NV - 1, S, m)
    BY <1>3, <1>4
  <1>6. S = Vertices
    BY <1>5, VertexNumbers, FS_Subset
  <1>7. \A x \in Vertices : f[NV][x] = f[NV - 1][x]
    BY <1>0, <1>5, <1>6 DEF Settled
  <1>8. f[NV] = Relax(g, f[NV - 1]) /\ f[NV - 1] \in [Vertices -> Nat]
    BY <1>0 DEF Rounds
  <1> QED
    BY <1>7, <1>8, RelaxEffect

-----------------------------------------------------------------------------
(* What the distances of a graph are, whatever computes them. *)

(* The distance of the source is 0, and none is longer than one over any  *)
(* last edge.                                                              *)
LEMMA DistanceFacts ==
  ASSUME NEW g, IsGraph(g), NEW v \in Vertices
  PROVE  /\ Distances(g, v) \in [Vertices -> Nat]
         /\ Distances(g, v)[v] = 0
         /\ \A w \in Vertices : Distances(g, v)[w] <= Infinity
         /\ \A u \in Vertices : \A w \in DOMAIN g[u] :
               Distances(g, v)[w] <= Distances(g, v)[u] + g[u][w]
  <1>1. PICK f : Rounds(f, g, v) /\ Distances(g, v) = f[NV]
    BY DistancesRounds
  <1>2. NV \in 0 .. NV /\ 0 \in 0 .. NV
    BY VertexNumbers
  <1>3. f[NV] \in [Vertices -> Nat] /\ f[0] = [w \in Vertices |-> IF w = v THEN 0 ELSE Infinity]
    BY <1>1, <1>2 DEF Rounds
  <1>4. \A w \in Vertices : f[NV][w] <= f[0][w]
    BY <1>1, <1>2, RoundsFall
  <1>5. \A w \in Vertices : f[0][w] \in Nat /\ f[0][w] <= Infinity
    BY <1>3, MetricBounds
  <1>6. \A w \in Vertices : f[NV][w] \in Nat /\ f[NV][w] <= Infinity
    BY <1>3, <1>4, <1>5, MetricBounds
  <1>7. f[NV][v] = 0
    BY <1>3, <1>4
  <1>8. \A u \in Vertices : \A w \in DOMAIN g[u] : f[NV][w] <= f[NV][u] + g[u][w]
    BY <1>1, RoundsConverge
  <1> QED
    BY <1>1, <1>3, <1>6, <1>7, <1>8

(* They are the greatest such function. *)
LEMMA DistanceGreatest ==
  ASSUME NEW g, IsGraph(g), NEW v \in Vertices,
         NEW p \in [Vertices -> Int], p[v] <= 0, \A w \in Vertices : p[w] <= Infinity,
         \A u \in Vertices : \A w \in DOMAIN g[u] : p[w] <= p[u] + g[u][w]
  PROVE  \A w \in Vertices : p[w] <= Distances(g, v)[w]
  <1>1. PICK f : Rounds(f, g, v) /\ Distances(g, v) = f[NV]
    BY DistancesRounds
  <1>2. NV \in 0 .. NV
    BY VertexNumbers
  <1>3. \A k \in 0 .. NV : \A w \in Vertices : p[w] <= f[k][w]
    BY <1>1, PotentialBelow
  <1> QED
    BY <1>1, <1>2, <1>3

(* A distance comes over a last edge. *)
LEMMA DistanceAttained ==
  ASSUME NEW g, IsGraph(g), NEW v \in Vertices, NEW w \in Vertices,
         w # v, Distances(g, v)[w] < Infinity
  PROVE  \E u \in Vertices : /\ u # w /\ w \in DOMAIN g[u]
                             /\ Distances(g, v)[w] = Distances(g, v)[u] + g[u][w]
  <1> DEFINE d == Distances(g, v)
             p == [d EXCEPT ![w] = @ + 1]
  <1>1. /\ d \in [Vertices -> Nat] /\ d[v] = 0 /\ \A x \in Vertices : d[x] <= Infinity
        /\ \A u \in Vertices : \A x \in DOMAIN g[u] : d[x] <= d[u] + g[u][x]
    BY DistanceFacts
  <1>2. d[w] < Infinity
    OBVIOUS
  <1> HIDE DEF d
  <1>3. \A u \in Vertices : \A x \in DOMAIN g[u] : x \in Vertices /\ g[u][x] \in Nat
    BY DEF IsGraph
  <1>4. Infinity \in Nat
    BY MetricBounds
  <1>5. p \in [Vertices -> Int] /\ p[w] = d[w] + 1 /\ \A x \in Vertices \ {w} : p[x] = d[x]
    BY <1>1
  <1>6. p[v] <= 0
    BY <1>1, <1>5
  <1>7. \A x \in Vertices : p[x] <= Infinity
    BY <1>1, <1>2, <1>4, <1>5
  <1> HIDE DEF p
  <1> SUFFICES ASSUME \A u \in Vertices : u # w /\ w \in DOMAIN g[u] => d[w] # d[u] + g[u][w]
               PROVE  FALSE
    BY DEF d
  <1>8. ASSUME NEW u \in Vertices, NEW x \in DOMAIN g[u]
        PROVE  p[x] <= p[u] + g[u][x]
    <2>1. x \in Vertices /\ g[u][x] \in Nat /\ d[x] \in Nat /\ d[u] \in Nat
      BY <1>1, <1>3
    <2>2. d[x] <= d[u] + g[u][x]
      BY <1>1
    <2>3. CASE x = w /\ u # w
      BY <1>5, <2>1, <2>2, <2>3
    <2>4. CASE x = w /\ u = w
      BY <1>5, <2>1, <2>4
    <2>5. CASE x # w
      BY <1>5, <2>1, <2>2, <2>5
    <2> QED
      BY <2>3, <2>4, <2>5
  <1>9. p[w] <= d[w]
    BY <1>5, <1>6, <1>7, <1>8, DistanceGreatest DEF d
  <1> QED
    BY <1>1, <1>5, <1>9

(* The triangle inequality. *)
LEMMA DistanceTriangle ==
  ASSUME NEW g, IsGraph(g), NEW v \in Vertices, NEW u \in Vertices, NEW w \in Vertices
  PROVE  Distances(g, v)[w] <= Distances(g, v)[u] + Distances(g, u)[w]
  <1> DEFINE d == Distances(g, v)
             e == Distances(g, u)
             p == [x \in Vertices |-> d[x] - d[u]]
  <1>1. /\ d \in [Vertices -> Nat] /\ d[v] = 0 /\ \A x \in Vertices : d[x] <= Infinity
        /\ \A y \in Vertices : \A x \in DOMAIN g[y] : d[x] <= d[y] + g[y][x]
    BY DistanceFacts
  <1>2. e \in [Vertices -> Nat]
    BY DistanceFacts
  <1> HIDE DEF d
  <1>3. \A y \in Vertices : \A x \in DOMAIN g[y] : x \in Vertices /\ g[y][x] \in Nat
    BY DEF IsGraph
  <1>4. Infinity \in Nat
    BY MetricBounds
  <1>5. p \in [Vertices -> Int] /\ \A x \in Vertices : p[x] = d[x] - d[u]
    BY <1>1
  <1> HIDE DEF p
  <1>6. p[u] <= 0
    BY <1>1, <1>5
  <1>7. \A x \in Vertices : p[x] <= Infinity
    BY <1>1, <1>4, <1>5
  <1>8. \A y \in Vertices : \A x \in DOMAIN g[y] : p[x] <= p[y] + g[y][x]
    BY <1>1, <1>3, <1>5
  <1>9. p[w] <= e[w]
    BY <1>5, <1>6, <1>7, <1>8, DistanceGreatest
  <1> HIDE DEF e
  <1>10. d[w] <= d[u] + e[w]
    BY <1>1, <1>2, <1>5, <1>9
  <1> QED
    BY <1>10 DEF d, e

(* A distance goes over a first edge. *)
LEMMA DistanceFirst ==
  ASSUME NEW g, IsGraph(g), NEW v \in Vertices, NEW w \in Vertices,
         w # v, Distances(g, v)[w] < Infinity
  PROVE  \E x \in DOMAIN g[v] : Distances(g, v)[w] = g[v][x] + Distances(g, x)[w]
  <1> DEFINE D(x) == Distances(g, x)
             A(y) == {Infinity} \cup {g[v][x] + D(x)[y] : x \in DOMAIN g[v]}
             p == [y \in Vertices |-> IF y = v THEN 0 ELSE Min(A(y))]
  <1>1. \A y \in Vertices :
           /\ D(y) \in [Vertices -> Nat] /\ D(y)[y] = 0 /\ \A x \in Vertices : D(y)[x] <= Infinity
           /\ \A u \in Vertices : \A x \in DOMAIN g[u] : D(y)[x] <= D(y)[u] + g[u][x]
    BY DistanceFacts
  <1>2. D(v)[w] < Infinity
    OBVIOUS
  <1> HIDE DEF D
  <1>3. \A y \in Vertices : \A x \in DOMAIN g[y] : x \in Vertices /\ g[y][x] \in Nat
    BY DEF IsGraph
  <1>4. Infinity \in Nat
    BY MetricBounds
  <1>5. ASSUME NEW y \in Vertices
        PROVE  Min(A(y)) \in A(y) /\ Min(A(y)) \in Nat /\ \A z \in A(y) : Min(A(y)) <= z
    <2>1. A(y) \subseteq Nat /\ A(y) # {}
      BY <1>1, <1>3, <1>4
    <2> HIDE DEF A
    <2> QED
      BY <2>1, MinIsLeast
  <1>6. \A y \in Vertices : Infinity \in A(y) /\ \A x \in DOMAIN g[v] : g[v][x] + D(x)[y] \in A(y)
    OBVIOUS
  <1>7. \A y \in Vertices : \A z \in A(y) : z = Infinity \/ \E x \in DOMAIN g[v] : z = g[v][x] + D(x)[y]
    OBVIOUS
  <1> HIDE DEF A
  <1>8. p \in [Vertices -> Int] /\ p[v] = 0 /\ \A y \in Vertices \ {v} : p[y] = Min(A(y))
    BY <1>5
  <1> HIDE DEF p
  <1>9. \A y \in Vertices : p[y] <= Infinity /\ p[y] \in Nat
    BY <1>4, <1>5, <1>6, <1>8
  <1>10. ASSUME NEW u \in Vertices, NEW y \in DOMAIN g[u]
         PROVE  p[y] <= p[u] + g[u][y]
    <2>1. y \in Vertices /\ g[u][y] \in Nat
      BY <1>3
    <2>2. CASE y = v
      BY <1>8, <1>9, <2>1, <2>2
    <2>3. CASE y # v /\ u = v
      <3>1. g[v][y] + D(y)[y] \in A(y)
        BY <1>6, <2>1, <2>3
      <3>2. D(y)[y] = 0
        BY <1>1, <2>1
      <3>3. p[y] <= g[v][y] + 0
        BY <1>5, <1>8, <2>1, <2>3, <3>1, <3>2
      <3> QED
        BY <1>8, <2>1, <2>3, <3>3
    <2>4. CASE y # v /\ u # v
      <3>1. p[u] \in A(u) /\ p[u] \in Nat
        BY <1>5, <1>8, <2>4
      <3>2. CASE p[u] = Infinity
        BY <1>4, <1>9, <2>1, <3>2
      <3>3. ASSUME NEW x \in DOMAIN g[v], p[u] = g[v][x] + D(x)[u]
            PROVE  p[y] <= p[u] + g[u][y]
        <4>1. x \in Vertices /\ g[v][x] \in Nat
          BY <1>3
        <4>2. D(x)[u] \in Nat /\ D(x)[y] \in Nat /\ D(x)[y] <= D(x)[u] + g[u][y]
          BY <1>1, <2>1, <4>1
        <4>3. p[y] <= g[v][x] + D(x)[y]
          BY <1>5, <1>6, <1>8, <2>1, <2>4
        <4> QED
          BY <1>9, <2>1, <3>3, <4>1, <4>2, <4>3
      <3> QED
        BY <1>7, <3>1, <3>2, <3>3
    <2> QED
      BY <2>2, <2>3, <2>4
  <1>11. p[w] <= D(v)[w]
    BY <1>8, <1>9, <1>10, DistanceGreatest DEF D
  <1>12. D(v)[w] \in Nat
    BY <1>1
  <1>13. p[w] \in A(w) /\ p[w] # Infinity
    BY <1>2, <1>4, <1>5, <1>8, <1>9, <1>11, <1>12
  <1>14. PICK x \in DOMAIN g[v] : p[w] = g[v][x] + D(x)[w]
    BY <1>7, <1>13
  <1>15. x \in Vertices /\ g[v][x] \in Nat /\ D(x)[w] \in Nat /\ D(v)[x] \in Nat
    BY <1>1, <1>3
  <1>16. D(v)[w] <= D(v)[x] + D(x)[w]
    BY <1>15, DistanceTriangle DEF D
  <1>17. D(v)[x] <= 0 + g[v][x]
    BY <1>1
  <1>18. D(v)[w] = g[v][x] + D(x)[w]
    BY <1>11, <1>12, <1>14, <1>15, <1>16, <1>17
  <1> QED
    BY <1>18 DEF D

-----------------------------------------------------------------------------
(* CandidateQueue. *)

(* InsertAt of SequencesExt, member by member.                             *)
LEMMA InsertAtEffect ==
  ASSUME NEW T, NEW q \in Seq(T), NEW p \in 1 .. Len(q) + 1, NEW v \in T
  PROVE  /\ InsertAt(q, p, v) \in Seq(T)
         /\ Len(InsertAt(q, p, v)) = Len(q) + 1
         /\ InsertAt(q, p, v)[p] = v
         /\ \A i \in 1 .. p - 1 : InsertAt(q, p, v)[i] = q[i]
         /\ \A i \in p + 1 .. Len(q) + 1 : InsertAt(q, p, v)[i] = q[i - 1]
  <1> DEFINE a == SubSeq(q, 1, p - 1)
             b == SubSeq(q, p, Len(q))
             c == a \o <<v>>
             n == Len(q)
  <1>0. n \in Nat /\ p \in 1 .. n + 1 /\ \A i \in 1 .. n : q[i] \in T
    OBVIOUS
  <1>1. a \in Seq(T) /\ Len(a) = p - 1 /\ \A i \in 1 .. p - 1 : a[i] = q[i]
    OBVIOUS
  <1>2. b \in Seq(T) /\ Len(b) = n - p + 1 /\ \A i \in 1 .. n - p + 1 : b[i] = q[i + p - 1]
    OBVIOUS
  <1>3. InsertAt(q, p, v) = c \o b
    BY DEF InsertAt
  <1> HIDE DEF a, b
  <1>4. /\ c \in Seq(T) /\ Len(c) = p /\ c[p] = v /\ \A i \in 1 .. p - 1 : c[i] = q[i]
    BY <1>0, <1>1
  <1> HIDE DEF c
  <1>5. c \o b \in Seq(T) /\ Len(c \o b) = n + 1
    BY <1>0, <1>2, <1>4
  <1>6. ASSUME NEW i \in 1 .. n + 1
        PROVE  (c \o b)[i] = IF i < p THEN q[i] ELSE IF i = p THEN v ELSE q[i - 1]
    <2>1. CASE i <= p
      <3>1. (c \o b)[i] = c[i]
        BY <1>2, <1>4, <2>1
      <3> QED
        BY <1>0, <1>4, <2>1, <3>1
    <2>2. CASE i > p
      <3>1. (c \o b)[i] = b[i - p]
        BY <1>0, <1>2, <1>4, <1>5, <2>2
      <3>2. i - p \in 1 .. n - p + 1 /\ (i - p) + p - 1 = i - 1
        BY <1>0, <2>2
      <3>3. b[i - p] = q[i - 1]
        BY <1>2, <3>2
      <3> QED
        BY <1>0, <2>2, <3>1, <3>3
    <2>3. i <= p \/ i > p
      BY <1>0
    <2> QED
      BY <2>1, <2>2, <2>3
  <1> QED
    BY <1>0, <1>3, <1>5, <1>6

(* RemoveAt of SequencesExt, member by member.                             *)
LEMMA RemoveAtEffect ==
  ASSUME NEW T, NEW q \in Seq(T), NEW p \in 1 .. Len(q)
  PROVE  /\ RemoveAt(q, p) \in Seq(T)
         /\ Len(RemoveAt(q, p)) = Len(q) - 1
         /\ \A i \in 1 .. Len(q) - 1 : RemoveAt(q, p)[i] = IF i < p THEN q[i] ELSE q[i + 1]
  <1> DEFINE a == SubSeq(q, 1, p - 1)
             b == SubSeq(q, p + 1, Len(q))
             n == Len(q)
  <1>0. n \in Nat /\ p \in 1 .. n /\ \A i \in 1 .. n : q[i] \in T
    OBVIOUS
  <1>1. a \in Seq(T) /\ Len(a) = p - 1 /\ \A i \in 1 .. p - 1 : a[i] = q[i]
    OBVIOUS
  <1>2. b \in Seq(T) /\ Len(b) = n - p /\ \A i \in 1 .. n - p : b[i] = q[i + p]
    OBVIOUS
  <1>3. RemoveAt(q, p) = a \o b
    BY DEF RemoveAt
  <1> HIDE DEF a, b
  <1>4. a \o b \in Seq(T) /\ Len(a \o b) = n - 1
    <2>1. a \o b \in Seq(T) /\ Len(a \o b) = Len(a) + Len(b)
      <3>1. a \in Seq(T) /\ b \in Seq(T)
        BY <1>1, <1>2
      <3> QED
        BY <3>1
    <2> QED
      BY <1>0, <1>1, <1>2, <2>1
  <1>5. ASSUME NEW i \in 1 .. n - 1
        PROVE  (a \o b)[i] = IF i < p THEN q[i] ELSE q[i + 1]
    <2>1. CASE i < p
      BY <1>0, <1>1, <1>2, <2>1
    <2>2. CASE i >= p
      <3>1. (a \o b)[i] = b[i - (p - 1)]
        BY <1>0, <1>1, <1>2, <1>4, <2>2
      <3>2. i - (p - 1) \in 1 .. n - p /\ (i - (p - 1)) + p = i + 1
        BY <1>0, <2>2
      <3> QED
        BY <1>0, <1>2, <2>2, <3>1, <3>2
    <2>3. i < p \/ i >= p
      BY <1>0
    <2> QED
      BY <2>1, <2>2, <2>3
  <1> QED
    BY <1>3, <1>4, <1>5

(* The queue holds the vertices of C once each, the nearest first. *)
QueueOK(q, dist, C) ==
  /\ q \in Seq(Vertices)
  /\ \A i \in 1 .. Len(q) : q[i] \in C
  /\ \A c \in C : \E i \in 1 .. Len(q) : q[i] = c
  /\ \A i, j \in 1 .. Len(q) : i < j => q[i] # q[j] /\ ~ CompareSPFVertex(dist, q[j], q[i])

(* The order of the queue is a weak order. *)
LEMMA CompareOrder ==
  ASSUME NEW dist \in [Vertices -> Nat], NEW u \in Vertices, NEW v \in Vertices, NEW w \in Vertices
  PROVE  /\ CompareSPFVertex(dist, u, v) => ~ CompareSPFVertex(dist, v, u)
         /\ CompareSPFVertex(dist, u, v) /\ ~ CompareSPFVertex(dist, w, v) => CompareSPFVertex(dist, u, w)
         /\ ~ CompareSPFVertex(dist, u, u)
  <1>1. \A x \in Vertices : dist[x] \in Nat
    OBVIOUS
  <1>2. \A x \in Vertices : x \in Routers <=> x \notin Networks
    BY VertexNumbers
  <1> QED
    BY <1>1, <1>2 DEF CompareSPFVertex

(* CandidateQueue::Push keeps the order.                                   *)
LEMMA PushEffect ==
  ASSUME NEW dist \in [Vertices -> Nat], NEW C \in SUBSET Vertices, NEW q, QueueOK(q, dist, C),
         NEW v \in Vertices \ C
  PROVE  QueueOK(Push(q, dist, v), dist, C \cup {v})
  <1> DEFINE behind == {i \in DOMAIN q : CompareSPFVertex(dist, v, q[i])}
             B == behind \cup {Len(q) + 1}
             n == Len(q)
             p == Min(B)
             r == Push(q, dist, v)
  <1>1. /\ q \in Seq(Vertices) /\ n \in Nat /\ DOMAIN q = 1 .. n
        /\ \A i \in 1 .. n : q[i] \in C /\ q[i] \in Vertices
        /\ \A c \in C : \E i \in 1 .. n : q[i] = c
        /\ \A i, j \in 1 .. n : i < j => q[i] # q[j] /\ ~ CompareSPFVertex(dist, q[j], q[i])
    BY DEF QueueOK
  <1>2. B \subseteq Nat /\ B # {} /\ \A i \in B : i \in 1 .. n + 1
    BY <1>1
  <1>3. p \in B /\ p \in Nat /\ \A i \in B : p <= i
    <2> HIDE DEF B
    <2> QED
      BY <1>2, MinIsLeast
  <1>4. p \in 1 .. n + 1
    BY <1>2, <1>3
  <1>5. r = InsertAt(q, p, v)
    BY DEF Push
  <1>6. ASSUME NEW i \in 1 .. n, i < p PROVE ~ CompareSPFVertex(dist, v, q[i])
    <2>1. i \notin B
      <3> HIDE DEF B, p
      <3>1. i \in Nat
        BY <1>1
      <3> QED
        BY <1>3, <1>6, <3>1
    <2> QED
      BY <1>1, <2>1
  <1>7. p <= n => CompareSPFVertex(dist, v, q[p])
    BY <1>1, <1>3
  <1> HIDE DEF p, B, behind
  <1>8. ASSUME NEW i \in 1 .. n, i >= p PROVE CompareSPFVertex(dist, v, q[i])
    <2>1. p \in 1 .. n
      BY <1>1, <1>4, <1>8
    <2>2. CASE i = p
      BY <1>7, <2>1, <2>2
    <2>3. CASE i # p
      <3>1. ~ CompareSPFVertex(dist, q[i], q[p]) /\ CompareSPFVertex(dist, v, q[p])
        BY <1>1, <1>7, <1>8, <2>1, <2>3
      <3> QED
        BY <1>1, <2>1, <3>1, CompareOrder
    <2> QED
      BY <2>2, <2>3
  <1>9. /\ r \in Seq(Vertices) /\ Len(r) = n + 1
        /\ \A i \in 1 .. n + 1 : r[i] = IF i < p THEN q[i] ELSE IF i = p THEN v ELSE q[i - 1]
    <2>1. v \in Vertices /\ q \in Seq(Vertices) /\ p \in 1 .. Len(q) + 1
      BY <1>1, <1>4
    <2>2. /\ InsertAt(q, p, v) \in Seq(Vertices) /\ Len(InsertAt(q, p, v)) = Len(q) + 1
          /\ InsertAt(q, p, v)[p] = v
          /\ \A i \in 1 .. p - 1 : InsertAt(q, p, v)[i] = q[i]
          /\ \A i \in p + 1 .. Len(q) + 1 : InsertAt(q, p, v)[i] = q[i - 1]
      <3> HIDE DEF n, r
      <3> QED
        BY <2>1, InsertAtEffect
    <2> HIDE DEF r
    <2> QED
      BY <1>1, <1>4, <1>5, <2>2
  <1> HIDE DEF r
  <1>10. ASSUME NEW i \in 1 .. n + 1 PROVE r[i] \in C \cup {v}
    <2>1. i < p \/ i = p \/ i > p
      BY <1>4
    <2>2. i < p => i \in 1 .. n
      BY <1>1, <1>4
    <2>3. i > p => i - 1 \in 1 .. n
      BY <1>1, <1>4
    <2> QED
      BY <1>1, <1>4, <1>9, <2>1, <2>2, <2>3
  <1>11. ASSUME NEW c \in C \cup {v} PROVE \E i \in 1 .. n + 1 : r[i] = c
    <2>1. CASE c = v
      BY <1>4, <1>9, <2>1
    <2>2. CASE c \in C
      <3>1. PICK i \in 1 .. n : q[i] = c
        BY <1>1, <2>2
      <3>2. CASE i < p
        <4>1. i \in 1 .. n + 1 /\ r[i] = q[i]
          BY <1>1, <1>9, <3>1, <3>2
        <4> QED
          BY <3>1, <4>1
      <3>3. CASE i >= p
        <4>1. i + 1 \in 1 .. n + 1 /\ ~(i + 1 < p) /\ i + 1 # p /\ (i + 1) - 1 = i
          BY <1>1, <1>4, <3>1, <3>3
        <4>2. r[i + 1] = q[i]
          BY <1>9, <4>1
        <4> QED
          BY <3>1, <4>1, <4>2
      <3> QED
        BY <1>1, <1>4, <3>1, <3>2, <3>3
    <2> QED
      BY <2>1, <2>2
  <1>12. ASSUME NEW i \in 1 .. n + 1, NEW j \in 1 .. n + 1, i < j
         PROVE  r[i] # r[j] /\ ~ CompareSPFVertex(dist, r[j], r[i])
    <2>1. CASE j < p
      <3>1. i \in 1 .. n /\ j \in 1 .. n /\ i < p
        BY <1>1, <1>4, <1>12, <2>1
      <3> QED
        BY <1>1, <1>9, <1>12, <2>1, <3>1
    <2>2. CASE j = p
      <3>1. i \in 1 .. n /\ i < p /\ r[i] = q[i] /\ r[j] = v
        BY <1>1, <1>4, <1>9, <1>12, <2>2
      <3> QED
        BY <1>1, <1>6, <3>1
    <2>3. CASE j > p /\ i = p
      <3>1. j - 1 \in 1 .. n /\ j - 1 >= p /\ r[i] = v /\ r[j] = q[j - 1]
        BY <1>1, <1>4, <1>9, <1>12, <2>3
      <3>2. CompareSPFVertex(dist, v, q[j - 1])
        BY <1>8, <3>1
      <3> QED
        BY <1>1, <3>1, <3>2, CompareOrder
    <2>4. CASE j > p /\ i > p
      <3>1. i - 1 \in 1 .. n /\ j - 1 \in 1 .. n /\ i - 1 < j - 1 /\ r[i] = q[i - 1] /\ r[j] = q[j - 1]
        BY <1>1, <1>4, <1>9, <1>12, <2>4
      <3> QED
        BY <1>1, <3>1
    <2>5. CASE j > p /\ i < p
      <3>1. i \in 1 .. n /\ j - 1 \in 1 .. n /\ i < j - 1 /\ r[i] = q[i] /\ r[j] = q[j - 1]
        BY <1>1, <1>4, <1>9, <1>12, <2>5
      <3> QED
        BY <1>1, <3>1
    <2> QED
      BY <1>4, <2>1, <2>2, <2>3, <2>4, <2>5
  <1> QED
    BY <1>9, <1>10, <1>11, <1>12 DEF QueueOK, r

(* A queue is one for any distances that are the same for its members. *)
LEMMA QueueKept ==
  ASSUME NEW dist, NEW other, NEW C, NEW q, QueueOK(q, dist, C), \A c \in C : other[c] = dist[c]
  PROVE  QueueOK(q, other, C)
  BY DEF QueueOK, CompareSPFVertex

(* CandidateQueue::Reorder restores the order after the distance of one    *)
(* member was changed.                                                     *)
LEMMA ReorderEffect ==
  ASSUME NEW dist \in [Vertices -> Nat], NEW other \in [Vertices -> Nat],
         NEW C \in SUBSET Vertices, NEW q, QueueOK(q, dist, C),
         NEW v \in C, \A c \in C \ {v} : other[c] = dist[c]
  PROVE  QueueOK(Reorder(q, other, v), other, C)
  <1> DEFINE n == Len(q)
             p == CHOOSE i \in DOMAIN q : q[i] = v
             r == RemoveAt(q, p)
  <1>1. /\ q \in Seq(Vertices) /\ n \in Nat /\ DOMAIN q = 1 .. n
        /\ \A i \in 1 .. n : q[i] \in C /\ q[i] \in Vertices
        /\ \A c \in C : \E i \in 1 .. n : q[i] = c
        /\ \A i, j \in 1 .. n : i < j => q[i] # q[j] /\ ~ CompareSPFVertex(dist, q[j], q[i])
    BY DEF QueueOK
  <1>2. p \in 1 .. n /\ q[p] = v
    BY <1>1
  <1> HIDE DEF p
  <1>3. /\ r \in Seq(Vertices) /\ Len(r) = n - 1
        /\ \A i \in 1 .. n - 1 : r[i] = IF i < p THEN q[i] ELSE q[i + 1]
    <2>1. q \in Seq(Vertices) /\ p \in 1 .. Len(q)
      BY <1>1, <1>2
    <2> QED
      BY <2>1, RemoveAtEffect
  <1>4. Reorder(q, other, v) = Push(r, other, v)
    BY DEF Reorder, p
  <1> HIDE DEF r
  <1>5. ASSUME NEW i \in 1 .. n - 1 PROVE r[i] \in C \ {v}
    <2>1. i < p \/ i >= p
      BY <1>2
    <2>2. i \in 1 .. n /\ i + 1 \in 1 .. n
      BY <1>1
    <2>3. \A j \in 1 .. n : j # p => q[j] # v
      BY <1>1, <1>2
    <2>4. r[i] = IF i < p THEN q[i] ELSE q[i + 1]
      BY <1>3
    <2>5. (i < p => i # p) /\ (i >= p => i + 1 # p /\ ~(i < p))
      BY <1>2
    <2> QED
      BY <1>1, <2>1, <2>2, <2>3, <2>4, <2>5
  <1>6. ASSUME NEW c \in C \ {v} PROVE \E i \in 1 .. n - 1 : r[i] = c
    <2>1. PICK i \in 1 .. n : q[i] = c
      BY <1>1
    <2>2. i # p
      BY <1>2, <2>1
    <2>3. CASE i < p
      <3>0. i \in 1 .. n - 1
        BY <1>1, <1>2, <2>3
      <3>1. i \in 1 .. n - 1 /\ r[i] = q[i]
        BY <1>3, <2>3, <3>0
      <3> QED
        BY <2>1, <3>1
    <2>4. CASE i > p
      <3>1. i - 1 \in 1 .. n - 1 /\ ~(i - 1 < p) /\ (i - 1) + 1 = i
        BY <1>1, <1>2, <2>1, <2>4
      <3>2. r[i - 1] = q[i]
        BY <1>3, <3>1
      <3> QED
        BY <2>1, <3>1, <3>2
    <2> QED
      BY <1>1, <1>2, <2>1, <2>2, <2>3, <2>4
  <1>7. ASSUME NEW i \in 1 .. n - 1, NEW j \in 1 .. n - 1, i < j
        PROVE  r[i] # r[j] /\ ~ CompareSPFVertex(dist, r[j], r[i])
    <2> DEFINE a == IF i < p THEN i ELSE i + 1
               b == IF j < p THEN j ELSE j + 1
    <2>0. n \in Nat /\ p \in 1 .. n
      BY <1>1, <1>2
    <2>1. a \in 1 .. n /\ b \in 1 .. n /\ a < b
      BY <1>7, <2>0
    <2>2. r[i] = q[a] /\ r[j] = q[b]
      BY <1>3
    <2> HIDE DEF a, b
    <2> QED
      BY <1>1, <2>1, <2>2
  <1>8. QueueOK(r, dist, C \ {v})
    BY <1>3, <1>5, <1>6, <1>7 DEF QueueOK
  <1>9. QueueOK(r, other, C \ {v})
    BY <1>8, QueueKept
  <1>10. QueueOK(Push(r, other, v), other, (C \ {v}) \cup {v})
    BY <1>9, PushEffect
  <1>11. (C \ {v}) \cup {v} = C
    OBVIOUS
  <1> QED
    BY <1>4, <1>10, <1>11

(* CandidateQueue::Pop returns a member that no other precedes.            *)
LEMMA PopEffect ==
  ASSUME NEW dist, NEW C \in SUBSET Vertices, NEW q, QueueOK(q, dist, C), q # << >>,
         dist \in [Vertices -> Nat]
  PROVE  /\ Head(q) \in C /\ QueueOK(Tail(q), dist, C \ {Head(q)})
         /\ \A c \in C : ~ CompareSPFVertex(dist, c, Head(q))
  <1> DEFINE n == Len(q)
             r == Tail(q)
  <1>1. /\ q \in Seq(Vertices) /\ n \in Nat /\ n >= 1 /\ Head(q) = q[1]
        /\ \A i \in 1 .. n : q[i] \in C /\ q[i] \in Vertices
        /\ \A c \in C : \E i \in 1 .. n : q[i] = c
        /\ \A i, j \in 1 .. n : i < j => q[i] # q[j] /\ ~ CompareSPFVertex(dist, q[j], q[i])
    BY DEF QueueOK
  <1>2. r \in Seq(Vertices) /\ Len(r) = n - 1 /\ \A i \in 1 .. n - 1 : r[i] = q[i + 1]
    BY <1>1
  <1> HIDE DEF r
  <1>3. ASSUME NEW c \in C PROVE ~ CompareSPFVertex(dist, c, q[1])
    <2>1. PICK i \in 1 .. n : q[i] = c
      BY <1>1
    <2>2. CASE i = 1
      BY <1>1, <2>1, <2>2, CompareOrder
    <2>3. CASE i # 1
      BY <1>1, <2>1, <2>3
    <2> QED
      BY <2>2, <2>3
  <1>4. ASSUME NEW i \in 1 .. n - 1 PROVE r[i] \in C \ {q[1]}
    <2>0. n \in Nat
      BY <1>1
    <2>1. 1 \in 1 .. n /\ i + 1 \in 1 .. n /\ 1 < i + 1
      BY <2>0
    <2>2. r[i] = q[i + 1]
      BY <1>2
    <2> QED
      BY <1>1, <2>1, <2>2
  <1>5. ASSUME NEW c \in C \ {q[1]} PROVE \E i \in 1 .. n - 1 : r[i] = c
    <2>1. PICK i \in 1 .. n : q[i] = c
      BY <1>1
    <2>2. i - 1 \in 1 .. n - 1 /\ (i - 1) + 1 = i
      BY <1>1, <2>1
    <2> QED
      BY <1>2, <2>1, <2>2
  <1>6. \A i, j \in 1 .. n - 1 : i < j => r[i] # r[j] /\ ~ CompareSPFVertex(dist, r[j], r[i])
    <2> SUFFICES ASSUME NEW i \in 1 .. n - 1, NEW j \in 1 .. n - 1, i < j
                 PROVE  r[i] # r[j] /\ ~ CompareSPFVertex(dist, r[j], r[i])
      OBVIOUS
    <2>0. n \in Nat
      BY <1>1
    <2>1. i + 1 \in 1 .. n /\ j + 1 \in 1 .. n /\ i + 1 < j + 1
      BY <2>0
    <2>2. r[i] = q[i + 1] /\ r[j] = q[j + 1]
      BY <1>2
    <2> QED
      BY <1>1, <2>1, <2>2
  <1>7. QueueOK(r, dist, C \ {q[1]})
    BY <1>2, <1>4, <1>5, <1>6 DEF QueueOK
  <1> QED
    BY <1>1, <1>3, <1>7 DEF r

-----------------------------------------------------------------------------
(* Distances and first hops in the present topology. *)

Dist(u, w) == Distances(Topology, u)[w]

FH(r, w) == FirstHops(r, w, AllDistances)

(* The vertices a shortest path from r can come to w from. *)
Tight(r, w) == {u \in Vertices : w \in Neighbours(u) /\ Dist(r, u) + Cost(u, w) = Dist(r, w)}

(* What SPFNexthopCalculation returns once u is in the tree. *)
NextHops(r, u, w) ==
  CASE u = r /\ w \in Routers             -> {<<w, w>>}
    [] u = r /\ w \in Networks            -> {<<NoHop, w>>}
    [] u \in Networks /\ Tight(r, u) = {r} -> {<<w, e[2]>> : e \in FH(r, u)}
    [] OTHER                              -> FH(r, u)

(* The metrics are metrics. *)
Measured ==
  /\ link \in [Routers -> [Routers -> Metrics \cup {0}]]
  /\ \A n \in Networks, a \in Routers : att[n][a] \in {0, NetMetric[a]}

(* The records of a router cost its metrics, which are positive; those of  *)
(* a network cost nothing and lead to routers.                             *)
LEMMA Edges ==
  ASSUME Measured
  PROVE  /\ \A a \in Routers, b \in Routers : link[a][b] \in Nat /\ link[a][b] <= MaxMetric
         /\ \A n \in Networks, a \in Routers : att[n][a] \in Nat /\ att[n][a] <= MaxMetric
         /\ \A v \in Vertices : Neighbours(v) \subseteq Vertices
         /\ \A v \in Routers : \A w \in Neighbours(v) :
               /\ Cost(v, w) \in Nat /\ Cost(v, w) > 0 /\ Cost(v, w) <= MaxMetric
               /\ w \in Routers => w \in PointToPoints(v) /\ Cost(v, w) = link[v][w]
               /\ w \in Networks => w \in Transits(v) /\ Cost(v, w) = att[w][v]
         /\ \A v \in Networks : \A w \in Neighbours(v) :
               w \in Routers /\ Cost(v, w) = 0 /\ att[v][w] > 0
  <1>1. ASSUME NEW a \in Routers, NEW b \in Routers PROVE link[a][b] \in Nat /\ link[a][b] <= MaxMetric
    <2>1. link[a][b] \in Metrics \cup {0}
      BY DEF Measured
    <2> QED
      BY <2>1, MetricBounds
  <1>2. ASSUME NEW n \in Networks, NEW a \in Routers PROVE att[n][a] \in Nat /\ att[n][a] <= MaxMetric
    <2>1. att[n][a] \in {0, NetMetric[a]}
      BY DEF Measured
    <2> QED
      BY <2>1, MetricBounds
  <1>3. \A v \in Vertices : Neighbours(v) \subseteq Vertices
    BY DEF Neighbours, PointToPoints, Transits, Attached, Vertices
  <1>4. \A v \in Vertices : v \in Routers <=> v \notin Networks
    BY VertexNumbers
  <1>5. Routers \subseteq Vertices /\ Networks \subseteq Vertices
    BY DEF Vertices
  <1>6. ASSUME NEW v \in Routers, NEW w \in Neighbours(v)
        PROVE  /\ Cost(v, w) \in Nat /\ Cost(v, w) > 0 /\ Cost(v, w) <= MaxMetric
               /\ w \in Routers => w \in PointToPoints(v) /\ Cost(v, w) = link[v][w]
               /\ w \in Networks => w \in Transits(v) /\ Cost(v, w) = att[w][v]
    <2>1. v \in Vertices /\ v \notin Networks /\ w \in PointToPoints(v) \cup Transits(v)
      BY <1>4, <1>5 DEF Neighbours
    <2>2. CASE w \in PointToPoints(v)
      <3>1. w \in Routers /\ w \notin Networks /\ link[v][w] > 0
        BY <1>4, <1>5, <2>2 DEF PointToPoints
      <3>2. Cost(v, w) = link[v][w]
        BY <2>1, <3>1 DEF Cost
      <3> QED
        BY <1>1, <2>2, <3>1, <3>2
    <2>3. CASE w \in Transits(v)
      <3>1. w \in Networks /\ w \notin Routers /\ att[w][v] > 0
        BY <1>4, <1>5, <2>3 DEF Transits
      <3>2. Cost(v, w) = att[w][v]
        BY <2>1, <3>1 DEF Cost
      <3> QED
        BY <1>2, <2>3, <3>1, <3>2
    <2> QED
      BY <2>1, <2>2, <2>3
  <1>7. ASSUME NEW v \in Networks, NEW w \in Neighbours(v)
        PROVE  w \in Routers /\ Cost(v, w) = 0 /\ att[v][w] > 0
    BY <1>4, <1>5 DEF Neighbours, Attached, Cost
  <1> QED
    BY <1>1, <1>2, <1>3, <1>6, <1>7

(* Topology is a weighted graph, with the records as its edges.            *)
LEMMA TopologyIsGraph ==
  ASSUME Measured
  PROVE  /\ IsGraph(Topology)
         /\ \A u \in Vertices : /\ DOMAIN Topology[u] = Neighbours(u)
                                /\ \A w \in Neighbours(u) : Topology[u][w] = Cost(u, w)
  <1>1. \A u \in Vertices : /\ DOMAIN Topology[u] = Neighbours(u)
                            /\ \A w \in Neighbours(u) : Topology[u][w] = Cost(u, w)
    BY DEF Topology
  <1>2. \A u \in Vertices : Neighbours(u) \subseteq Vertices /\ \A w \in Neighbours(u) : Cost(u, w) \in Nat
    BY Edges, VertexNumbers
  <1> QED
    BY <1>1, <1>2 DEF IsGraph

(* The facts about distances, in the words of this module. *)
LEMMA DistIs ==
  ASSUME Measured, NEW r \in Vertices
  PROVE  /\ \A w \in Vertices : Dist(r, w) \in Nat /\ Dist(r, w) <= Infinity
         /\ Dist(r, r) = 0
         /\ \A u \in Vertices : \A w \in Neighbours(u) : Dist(r, w) <= Dist(r, u) + Cost(u, w)
         /\ \A u \in Vertices, w \in Vertices : Dist(r, w) <= Dist(r, u) + Dist(u, w)
         /\ \A w \in Vertices : AllDistances[r][w] = Dist(r, w)
  <1>1. /\ IsGraph(Topology)
        /\ \A u \in Vertices : /\ DOMAIN Topology[u] = Neighbours(u)
                                /\ \A w \in Neighbours(u) : Topology[u][w] = Cost(u, w)
    BY TopologyIsGraph
  <1>2. /\ Distances(Topology, r) \in [Vertices -> Nat]
        /\ Distances(Topology, r)[r] = 0
        /\ \A w \in Vertices : Distances(Topology, r)[w] <= Infinity
        /\ \A u \in Vertices : \A w \in DOMAIN Topology[u] :
               Distances(Topology, r)[w] <= Distances(Topology, r)[u] + Topology[u][w]
    BY <1>1, DistanceFacts
  <1>3. \A u \in Vertices, w \in Vertices : Dist(r, w) <= Dist(r, u) + Dist(u, w)
    BY <1>1, DistanceTriangle DEF Dist
  <1>4. \A w \in Vertices : AllDistances[r][w] = Dist(r, w)
    BY EvaluatedIsIt DEF AllDistances, Dist
  <1> QED
    BY <1>1, <1>2, <1>3, <1>4 DEF Dist

(* A shortest path has a last edge.                                        *)
LEMMA LastEdge ==
  ASSUME Measured, NEW r \in Vertices, NEW w \in Vertices, w # r, Dist(r, w) < Infinity
  PROVE  \E u \in Vertices : u # w /\ w \in Neighbours(u) /\ Dist(r, w) = Dist(r, u) + Cost(u, w)
  BY TopologyIsGraph, DistanceAttained DEF Dist

(* A shortest path has a first edge.                                       *)
LEMMA FirstEdge ==
  ASSUME Measured, NEW r \in Vertices, NEW w \in Vertices, w # r, Dist(r, w) < Infinity
  PROVE  \E x \in Neighbours(r) : Dist(r, w) = Cost(r, x) + Dist(x, w)
  BY TopologyIsGraph, DistanceFirst DEF Dist

(* The distances are the greatest function that no edge raises by more     *)
(* than its cost.                                                          *)
LEMMA DistIsGreatest ==
  ASSUME Measured, NEW r \in Vertices,
         NEW p \in [Vertices -> Int], p[r] <= 0, \A w \in Vertices : p[w] <= Infinity,
         \A u \in Vertices : \A w \in Neighbours(u) : p[w] <= p[u] + Cost(u, w)
  PROVE  \A w \in Vertices : p[w] <= Dist(r, w)
  <1>1. \A u \in Vertices : \A w \in DOMAIN Topology[u] : p[w] <= p[u] + Topology[u][w]
    BY TopologyIsGraph
  <1> QED
    BY <1>1, TopologyIsGraph, DistanceGreatest DEF Dist

(* The members of the set of first hops. *)
LEMMA FirstHopsAre ==
  ASSUME Measured, NEW r \in Routers, NEW w \in Vertices
  PROVE  /\ \A h \in PointToPoints(r) : link[r][h] + Dist(h, w) = Dist(r, w) => <<h, h>> \in FH(r, w)
         /\ \A x \in Routers, n \in Transits(r) :
               x # r /\ att[n][x] > 0 /\ att[n][r] + Dist(x, w) = Dist(r, w) => <<x, n>> \in FH(r, w)
         /\ w \in Transits(r) /\ att[w][r] = Dist(r, w) => <<NoHop, w>> \in FH(r, w)
         /\ \A e \in FH(r, w) :
               \/ \E h \in PointToPoints(r) : e = <<h, h>> /\ link[r][h] + Dist(h, w) = Dist(r, w)
               \/ \E x \in Routers, n \in Transits(r) :
                     e = <<x, n>> /\ x # r /\ att[n][x] > 0 /\ att[n][r] + Dist(x, w) = Dist(r, w)
               \/ e = <<NoHop, w>> /\ w \in Transits(r) /\ att[w][r] = Dist(r, w)
  <1>1. \A u \in Vertices, x \in Vertices : AllDistances[u][x] = Dist(u, x)
    BY DistIs
  <1>2. r \in Vertices /\ Routers \subseteq Vertices /\ PointToPoints(r) \subseteq Vertices
    BY DEF Vertices, PointToPoints
  <1> DEFINE d == AllDistances
             A == {<<h, h>> : h \in {x \in PointToPoints(r) : link[r][x] + d[x][w] = d[r][w]}}
             B == {e \in Routers \X Transits(r) :
                     /\ e[1] # r /\ att[e[2]][e[1]] > 0
                     /\ att[e[2]][r] + d[e[1]][w] = d[r][w]}
             C == {<<NoHop, n>> : n \in {w} \cap {x \in Transits(r) : att[x][r] = d[r][w]}}
  <1>3. FH(r, w) = A \cup B \cup C
    BY DEF FH, FirstHops
  <1> HIDE DEF d
  <1>4. /\ \A h \in PointToPoints(r) : link[r][h] + Dist(h, w) = Dist(r, w) => <<h, h>> \in A
        /\ \A e \in A : \E h \in PointToPoints(r) : e = <<h, h>> /\ link[r][h] + Dist(h, w) = Dist(r, w)
    BY <1>1, <1>2 DEF d
  <1>5. /\ \A x \in Routers, n \in Transits(r) :
              x # r /\ att[n][x] > 0 /\ att[n][r] + Dist(x, w) = Dist(r, w) => <<x, n>> \in B
        /\ \A e \in B : \E x \in Routers, n \in Transits(r) :
              e = <<x, n>> /\ x # r /\ att[n][x] > 0 /\ att[n][r] + Dist(x, w) = Dist(r, w)
    BY <1>1, <1>2 DEF d
  <1>6. /\ w \in Transits(r) /\ att[w][r] = Dist(r, w) => <<NoHop, w>> \in C
        /\ \A e \in C : e = <<NoHop, w>> /\ w \in Transits(r) /\ att[w][r] = Dist(r, w)
    BY <1>1, <1>2 DEF d
  <1> HIDE DEF A, B, C
  <1> QED
    BY <1>3, <1>4, <1>5, <1>6

(* A shortest path from r to w over the hop h, which costs c, comes to w  *)
(* from a vertex that it reaches over the same hop.                        *)
LEMMA LastEdgeVia ==
  ASSUME Measured, NEW r \in Vertices, NEW w \in Vertices, NEW h \in Vertices, h # w,
         NEW c \in Nat, c > 0, Dist(r, h) <= c, c + Dist(h, w) = Dist(r, w), Dist(r, w) < Infinity
  PROVE  \E u \in Tight(r, w) : u # r /\ u # w /\ c + Dist(h, u) = Dist(r, u) /\ Dist(r, u) < Infinity
  <1>1. /\ Dist(h, w) \in Nat /\ Dist(r, w) \in Nat /\ Infinity \in Nat /\ Dist(r, h) \in Nat /\ Dist(r, r) = 0
        /\ Dist(h, w) < Infinity
    BY DistIs, MetricBounds
  <1>2. PICK u \in Vertices : u # w /\ w \in Neighbours(u) /\ Dist(h, w) = Dist(h, u) + Cost(u, w)
    BY <1>1, LastEdge
  <1>3. /\ Dist(h, u) \in Nat /\ Dist(r, u) \in Nat /\ Dist(r, u) <= Dist(r, h) + Dist(h, u)
        /\ Dist(r, w) <= Dist(r, u) + Cost(u, w)
    BY <1>2, DistIs
  <1>4. Cost(u, w) \in Nat
    BY <1>2, TopologyIsGraph DEF IsGraph
  <1>5. /\ c + Dist(h, u) = Dist(r, u) /\ Dist(r, u) + Cost(u, w) = Dist(r, w)
        /\ Dist(r, u) < Infinity /\ Dist(r, u) > 0
    BY <1>1, <1>2, <1>3, <1>4
  <1> QED
    BY <1>1, <1>2, <1>5 DEF Tight

(* The exit e of r, on a shortest path to w, is the hop h, which costs c. *)
HopTo(r, w, e, h, c) ==
  /\ c > 0 /\ h # r /\ e[1] = h /\ Dist(r, h) <= c /\ c + Dist(h, w) = Dist(r, w)
  /\ \A x \in Vertices : c + Dist(h, x) = Dist(r, x) => e \in FH(r, x)
  /\ h = w => \/ r \in Tight(r, w) /\ e = <<w, w>>
              \/ \E n \in Transits(r) : /\ n \in Tight(r, w) /\ r \in Tight(r, n) /\ e = <<w, n>>
                                        /\ <<NoHop, n>> \in FH(r, n)

(* Every exit is such a hop, or the network itself. *)
LEMMA HopOf ==
  ASSUME Measured, NEW r \in Routers, NEW w \in Vertices, NEW e \in FH(r, w)
  PROVE  \/ e = <<NoHop, w>> /\ w \in Transits(r) /\ r \in Tight(r, w) /\ w \in Networks
         \/ \E h \in Routers, c \in Nat : HopTo(r, w, e, h, c)
  <1>1. /\ r \in Vertices /\ Routers \subseteq Vertices /\ r \notin Networks
        /\ PointToPoints(r) \subseteq Routers /\ Transits(r) \subseteq Networks /\ Networks \subseteq Vertices
        /\ \A v \in Vertices : v \in Routers <=> v \notin Networks
    BY VertexNumbers DEF PointToPoints, Transits
  <1>2. Neighbours(r) = PointToPoints(r) \cup Transits(r)
    BY DEF Neighbours
  <1>3. /\ \A x \in Vertices : Dist(r, x) \in Nat /\ Dist(x, x) = 0
        /\ Dist(r, r) = 0
    BY <1>1, DistIs
  <1>4. CASE e = <<NoHop, w>> /\ w \in Transits(r) /\ att[w][r] = Dist(r, w)
    <2>1. w \in Neighbours(r) /\ w \in Networks /\ Cost(r, w) = att[w][r]
      BY <1>1, <1>2, <1>4, Edges
    <2>2. Dist(r, r) + Cost(r, w) = Dist(r, w)
      BY <1>3, <1>4, <2>1
    <2> QED
      BY <1>1, <1>4, <2>1, <2>2 DEF Tight
  <1>5. ASSUME NEW h \in PointToPoints(r), e = <<h, h>>, link[r][h] + Dist(h, w) = Dist(r, w)
        PROVE  \E g \in Routers, c \in Nat : HopTo(r, w, e, g, c)
    <2>1. h \in Routers /\ h \in Vertices /\ h \in Neighbours(r)
      BY <1>1, <1>2
    <2>2. Cost(r, h) = link[r][h] /\ link[r][h] \in Nat /\ link[r][h] > 0
      BY <2>1, Edges
    <2>3. Dist(r, h) <= link[r][h]
      <3>1. Dist(r, h) <= Dist(r, r) + Cost(r, h)
        BY <1>1, <2>1, DistIs
      <3> QED
        BY <1>3, <2>2, <3>1, <2>1
    <2>4. h # r
      <3>1. Dist(h, w) \in Nat
        BY <2>1, DistIs
      <3> QED
        BY <1>5, <2>2, <3>1
    <2>5. \A x \in Vertices : link[r][h] + Dist(h, x) = Dist(r, x) => e \in FH(r, x)
      BY <1>5, FirstHopsAre
    <2>6. ASSUME h = w PROVE r \in Tight(r, w)
      <3>1. Dist(r, r) + Cost(r, w) = Dist(r, w)
        BY <1>3, <1>5, <2>1, <2>2, <2>6
      <3> QED
        BY <1>1, <2>1, <2>6, <3>1 DEF Tight
    <2>7. e[1] = h
      BY <1>5
    <2> QED
      BY <1>5, <2>1, <2>2, <2>3, <2>4, <2>5, <2>6, <2>7 DEF HopTo
  <1>6. ASSUME NEW x \in Routers, NEW n \in Transits(r), e = <<x, n>>, x # r, att[n][x] > 0,
               att[n][r] + Dist(x, w) = Dist(r, w)
        PROVE  \E g \in Routers, c \in Nat : HopTo(r, w, e, g, c)
    <2>1. /\ n \in Networks /\ n \in Vertices /\ n \in Neighbours(r) /\ x \in Neighbours(n) /\ x \in Vertices
          /\ n \notin Routers
      BY <1>1, <1>2, <1>6 DEF Neighbours, Attached
    <2>2. /\ Cost(r, n) = att[n][r] /\ att[n][r] \in Nat /\ Cost(n, x) = 0
      BY <2>1, Edges
    <2>21. att[n][r] > 0
      BY DEF Transits
    <2>3. Dist(r, n) <= Dist(r, r) + Cost(r, n) /\ Dist(r, x) <= Dist(r, n) + Cost(n, x)
      BY <1>1, <2>1, DistIs
    <2>4. Dist(r, x) <= att[n][r]
      BY <1>3, <2>1, <2>2, <2>3
    <2>5. \A y \in Vertices : att[n][r] + Dist(x, y) = Dist(r, y) => e \in FH(r, y)
      BY <1>6, FirstHopsAre
    <2>6. ASSUME x = w
          PROVE  n \in Tight(r, w) /\ r \in Tight(r, n) /\ <<NoHop, n>> \in FH(r, n)
      <3>1. Dist(r, w) = att[n][r] /\ Dist(r, n) = att[n][r]
        BY <1>3, <1>6, <2>1, <2>2, <2>3, <2>6
      <3>2. Dist(r, n) + Cost(n, w) = Dist(r, w) /\ Dist(r, r) + Cost(r, n) = Dist(r, n)
        BY <1>3, <2>2, <2>6, <3>1
      <3>3. <<NoHop, n>> \in FH(r, n)
        BY <2>1, <3>1, FirstHopsAre
      <3> QED
        BY <1>1, <2>1, <2>6, <3>2, <3>3 DEF Tight
    <2>7. e[1] = x
      BY <1>6
    <2> QED
      BY <1>6, <2>1, <2>2, <2>21, <2>4, <2>5, <2>6, <2>7 DEF HopTo
  <1>7. \/ \E h \in PointToPoints(r) : e = <<h, h>> /\ link[r][h] + Dist(h, w) = Dist(r, w)
        \/ \E x \in Routers, n \in Transits(r) :
              e = <<x, n>> /\ x # r /\ att[n][x] > 0 /\ att[n][r] + Dist(x, w) = Dist(r, w)
        \/ e = <<NoHop, w>> /\ w \in Transits(r) /\ att[w][r] = Dist(r, w)
    BY FirstHopsAre
  <1>8. CASE \E h \in PointToPoints(r) : e = <<h, h>> /\ link[r][h] + Dist(h, w) = Dist(r, w)
    <2>1. PICK h \in PointToPoints(r) : e = <<h, h>> /\ link[r][h] + Dist(h, w) = Dist(r, w)
      BY <1>8
    <2> QED
      BY <1>5, <2>1, Zenon
  <1>9. CASE \E x \in Routers, n \in Transits(r) :
              e = <<x, n>> /\ x # r /\ att[n][x] > 0 /\ att[n][r] + Dist(x, w) = Dist(r, w)
    <2>1. PICK x \in Routers, n \in Transits(r) :
              e = <<x, n>> /\ x # r /\ att[n][x] > 0 /\ att[n][r] + Dist(x, w) = Dist(r, w)
      BY <1>9
    <2> QED
      BY <1>6, <2>1, Zenon
  <1> QED
    BY <1>4, <1>7, <1>8, <1>9, Zenon

(* An exit over a router stays one along a last edge. *)
LEMMA HopsPass ==
  ASSUME Measured, NEW r \in Routers, NEW w \in Vertices, NEW u \in Tight(r, w), NEW e \in FH(r, u),
         e[1] # NoHop
  PROVE  e \in FH(r, w)
  <1>1. r \in Vertices /\ Routers \subseteq Vertices
    BY VertexNumbers
  <1>2. u \in Vertices /\ w \in Neighbours(u) /\ Dist(r, u) + Cost(u, w) = Dist(r, w)
    BY DEF Tight
  <1>3. e # <<NoHop, u>>
    OBVIOUS
  <1>4. PICK h \in Routers, c \in Nat :
               /\ Dist(r, h) <= c /\ c + Dist(h, u) = Dist(r, u)
               /\ \A x \in Vertices : c + Dist(h, x) = Dist(r, x) => e \in FH(r, x)
    BY <1>2, <1>3, HopOf DEF HopTo
  <1>5. /\ Dist(h, u) \in Nat /\ Dist(h, w) \in Nat /\ Dist(r, w) \in Nat /\ Dist(r, h) \in Nat /\ Dist(r, u) \in Nat
        /\ Dist(h, w) <= Dist(h, u) + Cost(u, w) /\ Dist(r, w) <= Dist(r, h) + Dist(h, w)
    BY <1>1, <1>2, DistIs
  <1>6. Cost(u, w) \in Nat
    BY <1>2, TopologyIsGraph DEF IsGraph
  <1>7. c + Dist(h, w) = Dist(r, w)
    BY <1>2, <1>4, <1>5, <1>6
  <1> QED
    BY <1>4, <1>7

(* A vertex that can be reached has a first hop; a router one over a router. *)
LEMMA SomeHop ==
  ASSUME Measured, NEW r \in Routers, NEW w \in Vertices, w # r, Dist(r, w) < Infinity
  PROVE  FH(r, w) # {} /\ (w \in Routers => \E e \in FH(r, w) : e[1] # NoHop)
  <1>1. /\ r \in Vertices /\ Routers \subseteq Vertices /\ Networks \subseteq Vertices
        /\ PointToPoints(r) \subseteq Routers /\ Transits(r) \subseteq Networks
        /\ \A v \in Vertices : v \in Routers <=> v \notin Networks
    BY VertexNumbers DEF PointToPoints, Transits
  <1>2. PICK x \in Neighbours(r) : Dist(r, w) = Cost(r, x) + Dist(x, w)
    BY <1>1, FirstEdge
  <1>3. Neighbours(r) = PointToPoints(r) \cup Transits(r)
    BY DEF Neighbours
  <1>4. x \in Vertices
    BY <1>1, <1>3
  <1>5. CASE x \in PointToPoints(r)
    <2>1. x \in Routers /\ Cost(r, x) = link[r][x] /\ x # NoHop
      BY <1>1, <1>5, Edges DEF Routers, NoHop
    <2>2. <<x, x>> \in FH(r, w)
      BY <1>2, <1>5, <2>1, FirstHopsAre
    <2> QED
      BY <2>1, <2>2
  <1>6. CASE x \in Transits(r)
    <2>1. x \in Networks /\ Cost(r, x) = att[x][r] /\ att[x][r] \in Nat /\ att[x][r] > 0
      BY <1>1, <1>6, Edges DEF Transits
    <2>2. CASE x = w
      <3>1. att[w][r] = Dist(r, w)
        <4>1. Dist(x, w) = 0 /\ Dist(r, w) \in Nat
          BY <1>1, <2>2, DistIs
        <4> QED
          BY <1>2, <2>1, <2>2, <4>1
      <3>2. <<NoHop, w>> \in FH(r, w)
        BY <1>6, <2>2, <3>1, FirstHopsAre
      <3>3. w \notin Routers
        BY <1>1, <2>1, <2>2
      <3> QED
        BY <3>2, <3>3
    <2>3. CASE x # w
      <3>1. Dist(x, w) \in Nat /\ Dist(x, w) < Infinity /\ Dist(r, w) \in Nat /\ Infinity \in Nat
        BY <1>1, <1>2, <1>4, <2>1, DistIs, MetricBounds
      <3>2. PICK y \in Neighbours(x) : Dist(x, w) = Cost(x, y) + Dist(y, w)
        BY <1>4, <2>3, <3>1, FirstEdge
      <3>3. y \in Routers /\ Cost(x, y) = 0 /\ att[x][y] > 0
        BY <2>1, <3>2, Edges
      <3>4. Dist(y, w) \in Nat
        BY <1>1, <3>3, DistIs
      <3>5. y # r /\ att[x][r] + Dist(y, w) = Dist(r, w)
        BY <1>2, <2>1, <3>1, <3>2, <3>3, <3>4
      <3>6. <<y, x>> \in FH(r, w)
        BY <1>6, <3>3, <3>5, FirstHopsAre
      <3>7. y # NoHop
        BY <3>3 DEF Routers, NoHop
      <3> QED
        BY <3>6, <3>7
    <2> QED
      BY <2>2, <2>3
  <1> QED
    BY <1>3, <1>5, <1>6

(* More than one exit: two different ones. *)
LEMMA TwoMembers ==
  ASSUME NEW S, IsFiniteSet(S)
  PROVE  (Cardinality(S) > 1) <=> (\E x, y \in S : x # y)
  <1>1. Cardinality(S) \in Nat
    BY FS_CardinalityType
  <1>2. CASE S = {}
    <2>1. Cardinality(S) = 0
      BY <1>2, FS_EmptySet
    <2> QED
      BY <1>2, <2>1
  <1>3. CASE S # {}
    <2>1. PICK x \in S : TRUE
      BY <1>3
    <2>2. IsFiniteSet(S \ {x}) /\ Cardinality(S \ {x}) = Cardinality(S) - 1
      BY <2>1, FS_RemoveElement
    <2>3. Cardinality(S \ {x}) = 0 <=> S \ {x} = {}
      BY <2>2, FS_EmptySet
    <2>4. Cardinality(S \ {x}) \in Nat
      BY <2>2, FS_CardinalityType
    <2>5. Cardinality(S) > 1 <=> S \ {x} # {}
      BY <1>1, <2>2, <2>3, <2>4
    <2>6. S \ {x} # {} <=> \E y, z \in S : y # z
      BY <2>1
    <2> QED
      BY <2>5, <2>6
  <1> QED
    BY <1>2, <1>3

(* First hops are exits, finitely many.                                    *)
LEMMA HopsAreExits ==
  ASSUME NEW r \in Routers, NEW w
  PROVE  FH(r, w) \subseteq Exits /\ IsFiniteSet(FH(r, w))
  <1>1. /\ PointToPoints(r) \subseteq Routers /\ Transits(r) \subseteq Networks
        /\ Routers \subseteq Vertices /\ Networks \subseteq Vertices
    BY VertexNumbers DEF PointToPoints, Transits
  <1>2. FH(r, w) \subseteq Exits
    BY <1>1 DEF FH, FirstHops, Exits
  <1>3. IsFiniteSet(Exits)
    <2>1. IsFiniteSet(Routers)
      BY VertexNumbers, FS_Subset
    <2>2. IsFiniteSet(Routers \cup {NoHop})
      BY <2>1, FS_AddElement
    <2> QED
      BY <2>2, VertexNumbers, FS_Product DEF Exits
  <1> QED
    BY <1>2, <1>3, FS_Subset

(* The shortest paths to a network that the root is attached to, and others *)
(* besides: then it has several first hops.                                 *)
LEMMA SecondHop ==
  ASSUME Measured, NEW r \in Routers, NEW n \in Networks, Dist(r, n) < Infinity,
         <<NoHop, n>> \in FH(r, n), NEW p \in Tight(r, n), p # r
  PROVE  Cardinality(FH(r, n)) > 1
  <1>1. /\ r \in Vertices /\ n \in Vertices /\ n \notin Routers
        /\ \A v \in Vertices : v \in Routers <=> v \notin Networks
    BY VertexNumbers
  <1>2. p \in Vertices /\ n \in Neighbours(p) /\ Dist(r, p) + Cost(p, n) = Dist(r, n)
    BY DEF Tight
  <1>3. p \in Routers
    BY <1>1, <1>2, Edges
  <1>4. Cost(p, n) \in Nat
    BY <1>2, <1>3, Edges
  <1>5. Dist(r, p) \in Nat /\ Dist(r, n) \in Nat /\ Infinity \in Nat
    BY <1>1, <1>2, DistIs, MetricBounds
  <1>6. Dist(r, p) < Infinity
    BY <1>2, <1>4, <1>5
  <1>7. PICK e \in FH(r, p) : e[1] # NoHop
    BY <1>2, <1>3, <1>6, SomeHop
  <1>8. e \in FH(r, n)
    BY <1>1, <1>7, HopsPass
  <1>9. e # <<NoHop, n>>
    BY <1>7
  <1> QED
    BY <1>8, <1>9, HopsAreExits, TwoMembers

(* The root exits that SPFNext collects for w are its first hops, when no  *)
(* network on the way has several.                                         *)
LEMMA HopsDecompose ==
  ASSUME Measured, NEW r \in Routers, NEW w \in Vertices, w # r, Dist(r, w) < Infinity,
         \A u \in Tight(r, w) \cap Networks : ~ (Cardinality(FH(r, u)) > 1)
  PROVE  FH(r, w) = UNION {NextHops(r, u, w) : u \in Tight(r, w)}
  <1>1. /\ r \in Vertices /\ Routers \subseteq Vertices /\ Networks \subseteq Vertices
        /\ r \notin Networks /\ Transits(r) \subseteq Networks
        /\ \A v \in Vertices : v \in Routers <=> v \notin Networks
    BY VertexNumbers DEF Transits
  <1>2. ASSUME NEW u \in Tight(r, w)
        PROVE  /\ u \in Vertices /\ w \in Neighbours(u) /\ Dist(r, u) + Cost(u, w) = Dist(r, w)
               /\ Dist(r, u) < Infinity /\ Dist(r, u) \in Nat /\ Cost(u, w) \in Nat
    <2>1. u \in Vertices /\ w \in Neighbours(u) /\ Dist(r, u) + Cost(u, w) = Dist(r, w)
      BY DEF Tight
    <2>2. Cost(u, w) \in Nat
      BY <2>1, TopologyIsGraph DEF IsGraph
    <2>3. Dist(r, u) \in Nat /\ Dist(r, w) \in Nat /\ Infinity \in Nat
      BY <1>1, <2>1, DistIs, MetricBounds
    <2> QED
      BY <2>1, <2>2, <2>3
  <1>3. ASSUME NEW u \in Tight(r, w), NEW e \in NextHops(r, u, w)
        PROVE  e \in FH(r, w)
    <2>1. CASE u = r
      <3>0. Dist(r, r) = 0 /\ Dist(w, w) = 0 /\ Dist(r, w) \in Nat
        BY <1>1, DistIs
      <3>1. w \in Neighbours(r) /\ Cost(r, w) = Dist(r, w)
        BY <1>2, <2>1, <3>0
      <3>2. CASE w \in Routers
        <4>1. e = <<w, w>>
          BY <1>1, <2>1, <3>2 DEF NextHops
        <4>2. w \in PointToPoints(r) /\ Cost(r, w) = link[r][w]
          BY <3>1, <3>2, Edges
        <4>3. link[r][w] + Dist(w, w) = Dist(r, w)
          BY <3>0, <3>1, <4>2
        <4> QED
          BY <4>1, <4>2, <4>3, FirstHopsAre
      <3>3. CASE w \in Networks
        <4>1. e = <<NoHop, w>>
          BY <1>1, <2>1, <3>3 DEF NextHops
        <4>2. w \in Transits(r) /\ Cost(r, w) = att[w][r]
          BY <3>1, <3>3, Edges
        <4> QED
          BY <3>1, <4>1, <4>2, FirstHopsAre
      <3> QED
        BY <1>1, <3>2, <3>3
    <2>2. CASE u # r /\ u \in Networks /\ Tight(r, u) = {r}
      <3>1. PICK f \in FH(r, u) : e = <<w, f[2]>>
        BY <2>2 DEF NextHops
      <3>2. f = <<NoHop, u>> /\ u \in Transits(r) /\ r \in Tight(r, u)
        <4>1. SUFFICES ASSUME NEW h \in Routers, NEW c \in Nat, c > 0, Dist(r, h) <= c,
                              c + Dist(h, u) = Dist(r, u)
                       PROVE  FALSE
          BY <1>2, HopOf DEF HopTo
        <4>2. h # u /\ h \in Vertices
          BY <1>1, <2>2
        <4>3. \E x \in Tight(r, u) : x # r
          BY <1>1, <1>2, <4>1, <4>2, LastEdgeVia
        <4> QED
          BY <2>2, <4>3
      <3>3. w \in Routers /\ att[u][w] > 0 /\ Cost(u, w) = 0
        BY <1>2, <2>2, Edges
      <3>4. Cost(r, u) = att[u][r] /\ Dist(r, r) + Cost(r, u) = Dist(r, u)
        <4>1. u \in Neighbours(r) /\ Dist(r, r) + Cost(r, u) = Dist(r, u)
          BY <3>2 DEF Tight
        <4> QED
          BY <2>2, <4>1, Edges
      <3>5. Dist(r, r) = 0 /\ Dist(w, w) = 0 /\ att[u][r] \in Nat
        BY <1>1, <2>2, Edges, DistIs
      <3>6. att[u][r] + Dist(w, w) = Dist(r, w)
        BY <1>2, <3>3, <3>4, <3>5
      <3>7. e = <<w, u>>
        BY <3>1, <3>2
      <3> QED
        BY <3>2, <3>3, <3>6, <3>7, FirstHopsAre
    <2>3. CASE u # r /\ ~ (u \in Networks /\ Tight(r, u) = {r})
      <3>1. e \in FH(r, u)
        BY <2>3 DEF NextHops
      <3>2. CASE e[1] # NoHop
        BY <3>1, <3>2, HopsPass
      <3>3. CASE e[1] = NoHop
        <4>1. e = <<NoHop, u>> /\ u \in Networks /\ r \in Tight(r, u)
          <5>1. NoHop \notin Routers
            BY DEF Routers, NoHop
          <5> QED
            BY <1>2, <3>1, <3>3, <5>1, HopOf DEF HopTo
        <4>2. PICK p \in Tight(r, u) : p # r
          BY <2>3, <4>1
        <4>3. Cardinality(FH(r, u)) > 1
          BY <1>2, <3>1, <4>1, <4>2, SecondHop
        <4> QED
          BY <4>1, <4>3
      <3> QED
        BY <3>2, <3>3
    <2> QED
      BY <2>1, <2>2, <2>3
  <1>4. ASSUME NEW e \in FH(r, w)
        PROVE  \E u \in Tight(r, w) : e \in NextHops(r, u, w)
    <2>1. CASE e = <<NoHop, w>> /\ w \in Transits(r) /\ r \in Tight(r, w) /\ w \in Networks
      <3>1. e \in NextHops(r, r, w)
        BY <1>1, <2>1 DEF NextHops
      <3> QED
        BY <2>1, <3>1
    <2>2. ASSUME NEW h \in Routers, NEW c \in Nat, HopTo(r, w, e, h, c)
          PROVE \E u \in Tight(r, w) : e \in NextHops(r, u, w)
      <3>1. CASE h = w /\ r \in Tight(r, w) /\ e = <<w, w>>
        <4>1. e \in NextHops(r, r, w)
          BY <1>1, <2>2, <3>1 DEF NextHops
        <4> QED
          BY <3>1, <4>1
      <3>2. CASE h = w /\ \E n \in Transits(r) : /\ n \in Tight(r, w) /\ r \in Tight(r, n) /\ e = <<w, n>>
                                                  /\ <<NoHop, n>> \in FH(r, n)
        <4>1. PICK n \in Transits(r) : /\ n \in Tight(r, w) /\ r \in Tight(r, n) /\ e = <<w, n>>
                                       /\ <<NoHop, n>> \in FH(r, n)
          BY <3>2
        <4>2. n \in Networks /\ n # r
          BY <1>1, <4>1
        <4>3. Tight(r, n) = {r}
          <5>1. SUFFICES ASSUME NEW p \in Tight(r, n), p # r PROVE FALSE
            BY <4>1
          <5>2. Cardinality(FH(r, n)) > 1
            BY <1>2, <4>1, <4>2, <5>1, SecondHop
          <5> QED
            BY <4>1, <4>2, <5>2
        <4>4. NextHops(r, n, w) = {<<w, f[2]>> : f \in FH(r, n)}
          BY <4>2, <4>3 DEF NextHops
        <4>5. <<w, n>> \in NextHops(r, n, w)
          BY <4>1, <4>4
        <4> QED
          BY <4>1, <4>5
      <3>3. CASE h # w
        <4>1. PICK u \in Tight(r, w) : u # r /\ u # w /\ c + Dist(h, u) = Dist(r, u) /\ Dist(r, u) < Infinity
          BY <1>1, <2>2, <3>3, LastEdgeVia DEF HopTo
        <4>2. e \in FH(r, u)
          BY <1>2, <2>2, <4>1 DEF HopTo
        <4>3. ~ (u \in Networks /\ Tight(r, u) = {r})
          <5>1. SUFFICES ASSUME u \in Networks PROVE \E x \in Tight(r, u) : x # r
            OBVIOUS
          <5>2. h # u /\ h \in Vertices
            BY <1>1, <5>1
          <5> QED
            BY <1>1, <1>2, <2>2, <4>1, <5>2, LastEdgeVia DEF HopTo
        <4>4. NextHops(r, u, w) = FH(r, u)
          BY <4>1, <4>3 DEF NextHops
        <4> QED
          BY <4>2, <4>4
      <3> QED
        BY <2>2, <3>1, <3>2, <3>3 DEF HopTo
    <2> QED
      BY <2>1, <2>2, HopOf
  <1> QED
    BY <1>3, <1>4

-----------------------------------------------------------------------------
(* The invariant of the calculation. *)

SpfStates ==
  [status : [Vertices -> {"unexplored", "candidate", "tree"}], dist : [Vertices -> Nat],
   parents : [Vertices -> SUBSET Vertices], exits : [Vertices -> SUBSET Exits],
   candidate : Seq(Vertices), current : Vertices, failed : BOOLEAN]

Tree(s) == {v \in Vertices : s.status[v] = "tree"}

Waiting(s) == {v \in Vertices : s.status[v] = "candidate"}

(* The record of u for w has been considered, when the loop of SPFNext has *)
(* come to the record for i of the current vertex.                         *)
Done(s, i, u, w) == u # s.current \/ w <= i

(* The vertices of the tree that offer w its distance. *)
Offers(s, i, w) ==
  {u \in Tree(s) : w \in Neighbours(u) /\ Done(s, i, u, w) /\ s.dist[u] + Cost(u, w) = s.dist[w]}

(* A vertex next to the tree was found, and is not farther than over it. *)
Explored(s, i) ==
  \A u \in Tree(s) : \A w \in Neighbours(u) :
    Done(s, i, u, w) => s.status[w] # "unexplored" /\ s.dist[w] <= s.dist[u] + Cost(u, w)

(* The tree grows by distance; the current vertex is its farthest, and the *)
(* nearest of all others.                                                  *)
Ordered(s) ==
  /\ \A t \in Tree(s) : s.dist[t] <= s.dist[s.current]
  /\ \A c \in Waiting(s) : s.dist[s.current] <= s.dist[c]
  /\ \A y \in Vertices \ Tree(s) : s.dist[s.current] <= Dist(root, y)

(* A candidate has as parents those that offer it its distance, and their  *)
(* exits.                                                                  *)
Offered(s, i) ==
  \A w \in Waiting(s) :
    /\ s.parents[w] = Offers(s, i, w) /\ s.parents[w] # {}
    /\ s.exits[w] = UNION {SPFNexthopCalculation(s, u, w) : u \in s.parents[w]}

(* The tree is exact: distances, parents and exits. *)
Exact(s) ==
  \A t \in Tree(s) :
    /\ s.dist[t] = Dist(root, t)
    /\ t # root => s.parents[t] = Tight(root, t) /\ s.exits[t] = FH(root, t)

(* No router was reached over a network of several exits. *)
Unambiguous(s, i) ==
  \A n \in Tree(s) \cap Networks : \A w \in Neighbours(n) :
    Done(s, i, n, w) /\ Cardinality(s.exits[n]) > 1 => w = root \/ Dist(root, w) < Dist(root, n)

(* The order of the queue among equals: a router is not added before a     *)
(* network that is as near.                                                *)
NetworksFirst(s) ==
  /\ \A t \in Tree(s) \cap Routers : \A c \in Networks \ Tree(s) : Dist(root, t) < Dist(root, c)
  /\ s.current \in Networks => \A t \in Tree(s) \cap Routers : s.dist[t] < s.dist[s.current]

(* A distance is a sum of metrics of different routers. *)
Reach(s) == MaxMetric * Cardinality(Tree(s) \cap Routers)

Bounded(s) ==
  /\ \A w \in Vertices : s.dist[w] <= Reach(s)
  /\ s.current \in Routers => s.dist[s.current] + MaxMetric <= Reach(s)

LoopInv(s, i) ==
  /\ s \in SpfStates
  /\ root \in Tree(s) /\ s.dist[root] = 0 /\ s.current \in Tree(s)
  /\ QueueOK(s.candidate, s.dist, Waiting(s))
  /\ Explored(s, i)
  /\ Ordered(s)
  /\ Offered(s, i)
  /\ Exact(s)
  /\ Unambiguous(s, i)
  /\ NetworksFirst(s)
  /\ Bounded(s)

(* The state of the loop after the record for i, unless an assertion failed. *)
LoopState(s, i) ==
  IF s.failed
  THEN EqualCostNetwork(root, AllDistances) /\ \E j \in 0 .. NV : LoopInv(s, j)
  ELSE LoopInv(s, i)

-----------------------------------------------------------------------------
(* The invariant of the specification. *)

DestOf(v) == IF v \in Networks THEN Net(v) ELSE Host(v)

Found(r, t) == {e[2] : e \in {x \in routes[r] : x[1] = t}}

IsStub(r) == Transits(r) = {} /\ Cardinality(PointToPoints(r)) <= 1

(* The finished table of r. *)
TableOK(r) ==
  IF IsStub(r) THEN routes[r] = {Default} \X {<<h, h>> : h \in PointToPoints(r)}
  ELSE /\ Found(r, Default) = {}
       /\ \A v \in Vertices \ {r} :
             Found(r, DestOf(v)) = IF Dist(r, v) < Infinity /\ IntraDestinations(v) # {}
                                   THEN FH(r, v) ELSE {}

(* The table of the root while its tree grows. *)
TableGrows ==
  /\ ~ IsStub(root) /\ Found(root, Default) = {}
  /\ \A v \in Vertices \ {root} :
        Found(root, DestOf(v)) = IF v \in Tree(spf) /\ IntraDestinations(v) # {}
                                 THEN FH(root, v) ELSE {}

Tables ==
  /\ routes \in [Routers -> SUBSET (Destinations \X Exits)]
  /\ \A r \in Routers :
        /\ pc = "done" \/ r < root => TableOK(r)
        /\ pc # "done" /\ r > root => routes[r] = {}
  /\ pc = "start" => routes[root] = {}
  /\ pc \in {"next", "pop", "stubs"} => TableGrows
  /\ pc = "done" => root = 1

Trees ==
  /\ spf \in SpfStates /\ QueueOK(spf.candidate, spf.dist, Waiting(spf))
  /\ \A v \in Vertices : spf.dist[v] <= Infinity
  /\ spf.failed = (pc = "failed")
  /\ pc = "next" => LoopInv(spf, 0)
  /\ pc \in {"pop", "stubs"} => LoopInv(spf, NV) /\ (pc = "stubs" <=> spf.candidate = << >>)
  /\ pc = "failed" => EqualCostNetwork(root, AllDistances)

RouteInv ==
  /\ Measured /\ root \in Routers
  /\ pc \in {"start", "next", "pop", "stubs", "done", "failed"}
  /\ Trees /\ Tables

(* From s to t only the vertex w and the queue change. *)
Becomes(s, t, w, x, dist, P, X, q) ==
  /\ t \in SpfStates /\ t.current = s.current /\ t.failed = s.failed /\ t.candidate = q /\ t.dist = dist
  /\ t.status = [s.status EXCEPT ![w] = x]
  /\ t.parents = [s.parents EXCEPT ![w] = P]
  /\ t.exits = [s.exits EXCEPT ![w] = X]

(* The updates of SPFNext are of this kind. *)
LEMMA FoundBecomes ==
  ASSUME NEW s \in SpfStates, NEW w \in Vertices,
         NEW dist \in [Vertices -> Nat], NEW P \in SUBSET Vertices, NEW X \in SUBSET Exits,
         NEW q \in Seq(Vertices), NEW t,
         t = [s EXCEPT !.status[w] = "candidate", !.dist = dist, !.parents[w] = P, !.exits[w] = X, !.candidate = q]
  PROVE  Becomes(s, t, w, "candidate", dist, P, X, q)
  BY DEF SpfStates, Becomes

(* MergeRootExitDirections and MergeParent keep the distance and the       *)
(* queue.                                                                  *)
LEMMA MergedBecomes ==
  ASSUME NEW s \in SpfStates, NEW w \in Vertices,
         NEW dist \in [Vertices -> Nat], NEW P \in SUBSET Vertices, NEW X \in SUBSET Exits,
         NEW q \in Seq(Vertices), NEW t,
         s.status[w] = "candidate",
         t = [s EXCEPT !.parents[w] = P, !.exits[w] = X]
  PROVE  Becomes(s, t, w, "candidate", s.dist, P, X, s.candidate)
  <1>1. s.status = [s.status EXCEPT ![w] = "candidate"]
    BY DEF SpfStates
  <1>2. /\ t \in SpfStates /\ t.current = s.current /\ t.failed = s.failed /\ t.candidate = s.candidate /\ t.dist = s.dist
        /\ t.status = s.status
        /\ t.parents = [s.parents EXCEPT ![w] = P]
        /\ t.exits = [s.exits EXCEPT ![w] = X]
    BY DEF SpfStates
  <1> QED
    BY <1>1, <1>2 DEF Becomes

(* A lower distance replaces parents and exits and reorders the queue.     *)
LEMMA LoweredBecomes ==
  ASSUME NEW s \in SpfStates, NEW w \in Vertices,
         NEW dist \in [Vertices -> Nat], NEW P \in SUBSET Vertices, NEW X \in SUBSET Exits,
         NEW q \in Seq(Vertices), NEW t,
         s.status[w] = "candidate",
         t = [s EXCEPT !.dist = dist, !.parents[w] = P, !.exits[w] = X, !.candidate = q]
  PROVE  Becomes(s, t, w, "candidate", dist, P, X, q)
  <1>1. s.status = [s.status EXCEPT ![w] = "candidate"]
    BY DEF SpfStates
  <1>2. /\ t \in SpfStates /\ t.current = s.current /\ t.failed = s.failed /\ t.candidate = q /\ t.dist = dist
        /\ t.status = s.status
        /\ t.parents = [s.parents EXCEPT ![w] = P]
        /\ t.exits = [s.exits EXCEPT ![w] = X]
    BY DEF SpfStates
  <1> QED
    BY <1>1, <1>2 DEF Becomes

(* The outcomes of the record of v for w: nothing, the failed assertion, a *)
(* vertex found, another path of the same cost, a better one.              *)
Outcome(s, t, v, w, d, dist, e, C) ==
  \/ t = s /\ (s.status[w] = "tree" \/ (s.status[w] = "candidate" /\ s.dist[w] < d))
  \/ /\ s.status[w] # "tree" /\ ExitIsAmbiguous(s, v) /\ t = [s EXCEPT !.failed = TRUE]
  \/ /\ s.status[w] = "unexplored" /\ ~ ExitIsAmbiguous(s, v)
     /\ \E q : Becomes(s, t, w, "candidate", dist, {v}, e, q) /\ QueueOK(q, dist, C \cup {w})
  \/ /\ s.status[w] = "candidate" /\ ~ ExitIsAmbiguous(s, v) /\ s.dist[w] = d
     /\ Becomes(s, t, w, "candidate", s.dist, s.parents[w] \cup {v}, s.exits[w] \cup e, s.candidate)
  \/ /\ s.status[w] = "candidate" /\ ~ ExitIsAmbiguous(s, v) /\ d < s.dist[w]
     /\ \E q : Becomes(s, t, w, "candidate", dist, {v}, e, q) /\ QueueOK(q, dist, C)

(* What one round of the loop does to the vertices. *)
LEMMA ConsiderEffect ==
  ASSUME NEW s \in SpfStates, NEW v \in Vertices, NEW w \in Vertices, Cost(v, w) \in Nat,
         NEW e \in SUBSET Exits, e = SPFNexthopCalculation(s, v, w),
         NEW t, t = Consider(s, v, w), NEW d, d = s.dist[v] + Cost(v, w),
         NEW dist, dist = [s.dist EXCEPT ![w] = d],
         NEW C, QueueOK(s.candidate, s.dist, C), C = Waiting(s),
         ~ s.failed
  PROVE  Outcome(s, t, v, w, d, dist, e, C)
  <1> USE DEF Outcome
  <1>1. /\ s.dist[v] \in Nat /\ s.dist[w] \in Nat /\ d \in Nat /\ dist \in [Vertices -> Nat]
        /\ s.status[w] \in {"unexplored", "candidate", "tree"} /\ s.dist \in [Vertices -> Nat]
        /\ C \in SUBSET Vertices
    BY DEF SpfStates, Waiting
  <1>0. \A x \in Vertices \ {w} : dist[x] = s.dist[x]
    BY DEF SpfStates
  <1> DEFINE old == s.status[w] = "tree" \/ (s.status[w] = "candidate" /\ s.dist[w] < d)
  <1>2. CASE old
    BY <1>2 DEF Consider
  <1>3. CASE ~ old /\ ExitIsAmbiguous(s, v)
    BY <1>3 DEF Consider
  <1>4. CASE ~ old /\ ~ ExitIsAmbiguous(s, v) /\ s.status[w] = "unexplored"
    <2> DEFINE q == Push(s.candidate, dist, w)
    <2>1. w \notin C
      BY <1>4 DEF Waiting
    <2>2. QueueOK(q, dist, C \cup {w})
      <3>1. QueueOK(s.candidate, dist, C)
        BY <1>0, <1>1, <2>1, QueueKept
      <3> QED
        BY <1>1, <2>1, <3>1, PushEffect
    <2>3. q \in Seq(Vertices)
      BY <2>2 DEF QueueOK
    <2> HIDE DEF q
    <2>4. t = [s EXCEPT !.status[w] = "candidate", !.dist = dist, !.parents[w] = {v}, !.exits[w] = e, !.candidate = q]
      BY <1>4 DEF Consider, q
    <2>5. Becomes(s, t, w, "candidate", dist, {v}, e, q)
      BY <1>1, <2>3, <2>4, FoundBecomes
    <2> QED
      BY <1>4, <2>2, <2>5
  <1>5. CASE ~ old /\ ~ ExitIsAmbiguous(s, v) /\ s.status[w] = "candidate" /\ s.dist[w] = d
    <2>4. t = [s EXCEPT !.parents[w] = s.parents[w] \cup {v}, !.exits[w] = s.exits[w] \cup e]
      BY <1>5 DEF Consider
    <2>5. Becomes(s, t, w, "candidate", s.dist, s.parents[w] \cup {v}, s.exits[w] \cup e, s.candidate)
      <3>1. s.parents[w] \cup {v} \in SUBSET Vertices /\ s.exits[w] \cup e \in SUBSET Exits
        BY DEF SpfStates
      <3>2. s.candidate \in Seq(Vertices)
        BY DEF SpfStates
      <3> QED
        BY <1>1, <1>5, <2>4, <3>1, <3>2, MergedBecomes
    <2> QED
      BY <1>5, <2>5
  <1>6. CASE ~ old /\ ~ ExitIsAmbiguous(s, v) /\ s.status[w] = "candidate" /\ s.dist[w] # d
    <2> DEFINE q == Reorder(s.candidate, dist, w)
    <2>1. w \in C
      BY <1>6 DEF Waiting
    <2>2. QueueOK(q, dist, C)
      BY <1>0, <1>1, <2>1, ReorderEffect
    <2>3. q \in Seq(Vertices)
      BY <2>2 DEF QueueOK
    <2> HIDE DEF q
    <2>4. t = [s EXCEPT !.dist = dist, !.parents[w] = {v}, !.exits[w] = e, !.candidate = q]
      BY <1>6 DEF Consider, q
    <2>5. Becomes(s, t, w, "candidate", dist, {v}, e, q)
      BY <1>1, <1>6, <2>3, <2>4, LoweredBecomes
    <2>6. d < s.dist[w]
      BY <1>1, <1>6
    <2> QED
      BY <1>6, <2>2, <2>5, <2>6
  <1> QED
    BY <1>1, <1>2, <1>3, <1>4, <1>5, <1>6

(* A state of the calculation, field by field. *)
LEMMA SpfFields ==
  ASSUME NEW s \in SpfStates
  PROVE  /\ \A v \in Vertices : /\ s.status[v] \in {"unexplored", "candidate", "tree"} /\ s.dist[v] \in Nat
                                /\ s.parents[v] \in SUBSET Vertices /\ s.exits[v] \in SUBSET Exits
         /\ s.current \in Vertices /\ s.failed \in BOOLEAN
         /\ Tree(s) \subseteq Vertices /\ Waiting(s) \subseteq Vertices
         /\ \A v \in Vertices : /\ v \in Tree(s) <=> s.status[v] = "tree"
                                /\ v \in Waiting(s) <=> s.status[v] = "candidate"
  BY DEF SpfStates, Tree, Waiting

(* The cost of a record. *)
LEMMA RecordCost ==
  ASSUME Measured, NEW u \in Vertices, NEW w \in Neighbours(u)
  PROVE  /\ w \in Vertices /\ Cost(u, w) \in Nat /\ Cost(u, w) <= MaxMetric
         /\ u \in Routers => Cost(u, w) > 0
         /\ u \in Networks => Cost(u, w) = 0 /\ w \in Routers
  BY Edges, MetricBounds, VertexNumbers

(* SPFNexthopCalculation returns exits.                                    *)
LEMMA NexthopType ==
  ASSUME Measured, root \in Routers, NEW s \in SpfStates, NEW u \in Vertices, NEW w \in Neighbours(u)
  PROVE  SPFNexthopCalculation(s, u, w) \in SUBSET Exits
  <1>1. /\ w \in Vertices
        /\ root \notin Networks /\ (w \in Routers <=> w \notin Networks) /\ s.exits[u] \in SUBSET Exits
    BY RecordCost, SpfFields, VertexNumbers
  <1>2. CASE u = root
    <2>1. CASE w \in Routers
      BY <1>1, <1>2, <2>1 DEF SPFNexthopCalculation, Exits
    <2>2. CASE w \in Networks
      BY <1>1, <1>2, <2>2 DEF SPFNexthopCalculation, Exits
    <2> QED
      BY <1>1, <2>1, <2>2
  <1>3. CASE u # root /\ u \in Networks /\ s.parents[u] = {root}
    <2>1. SPFNexthopCalculation(s, u, w) = {<<w, e[2]>> : e \in s.exits[u]}
      BY <1>3 DEF SPFNexthopCalculation
    <2>2. w \in Routers
      BY <1>3, RecordCost
    <2>3. \A e \in s.exits[u] : e[2] \in Vertices
      BY <1>1 DEF Exits
    <2> QED
      BY <2>1, <2>2, <2>3 DEF Exits
  <1>4. CASE u # root /\ ~ (u \in Networks /\ s.parents[u] = {root})
    BY <1>1, <1>4 DEF SPFNexthopCalculation
  <1> QED
    BY <1>2, <1>3, <1>4

(* What v offers does not change while v does not. *)
LEMMA NexthopSame ==
  ASSUME NEW s, NEW t, NEW u, NEW w, t.parents[u] = s.parents[u], t.exits[u] = s.exits[u]
  PROVE  SPFNexthopCalculation(t, u, w) = SPFNexthopCalculation(s, u, w)
  BY DEF SPFNexthopCalculation

(* One more record is done. *)
LEMMA DoneNext ==
  ASSUME NEW s, NEW i \in 1 .. NV, NEW u \in Vertices, NEW w \in Vertices
  PROVE  Done(s, i, u, w) <=> Done(s, i - 1, u, w) \/ (u = s.current /\ w = i)
  <1>1. w \in 1 .. NV
    BY VertexNumbers
  <1> QED
    BY <1>1, VertexNumbers DEF Done

(* A record that is not there is done. *)
LEMMA SkipKeeps ==
  ASSUME Measured, root \in Routers, NEW s, NEW i \in 1 .. NV, LoopInv(s, i - 1), i \notin Neighbours(s.current)
  PROVE  LoopInv(s, i)
  <1>1. s \in SpfStates
    BY DEF LoopInv
  <1>2. ASSUME NEW u \in Tree(s), NEW w \in Neighbours(u)
        PROVE  Done(s, i, u, w) <=> Done(s, i - 1, u, w)
    BY <1>1, DoneNext, RecordCost, SpfFields
  <1>3. Explored(s, i)
    BY <1>2 DEF LoopInv, Explored
  <1>4. Unambiguous(s, i)
    BY <1>2 DEF LoopInv, Unambiguous
  <1>5. \A w \in Waiting(s) : Offers(s, i, w) = Offers(s, i - 1, w)
    BY <1>2 DEF Offers
  <1>6. Offered(s, i)
    BY <1>5 DEF LoopInv, Offered
  <1> QED
    BY <1>3, <1>4, <1>6 DEF LoopInv

(* The record of the current vertex for i gives i another distance, other  *)
(* parents and exits.                                                      *)
LEMMA UpdateKeeps ==
  ASSUME Measured, root \in Routers, NEW s, NEW i \in 1 .. NV, LoopInv(s, i - 1),
         NEW v, v = s.current, i \in Neighbours(v), s.status[i] # "tree", ~ ExitIsAmbiguous(s, v),
         NEW d, d = s.dist[v] + Cost(v, i), s.status[i] = "candidate" => d <= s.dist[i],
         NEW t, NEW P, NEW X, NEW q, NEW dist, dist = [s.dist EXCEPT ![i] = d],
         Becomes(s, t, i, "candidate", dist, P, X, q), QueueOK(q, dist, Waiting(s) \cup {i}),
         P = Offers(t, i, i), P # {}, X = UNION {SPFNexthopCalculation(s, u, i) : u \in P}
  PROVE  LoopInv(t, i)
  <1>0. /\ s \in SpfStates /\ t \in SpfStates /\ t.current = v /\ t.candidate = q /\ t.dist = dist
    BY DEF LoopInv, Becomes
  <1>1. v \in Vertices /\ i \in Vertices /\ Cost(v, i) \in Nat /\ s.dist[v] \in Nat /\ d \in Nat /\ Cost(v, i) <= MaxMetric
    BY <1>0, SpfFields, RecordCost
  <1>2. /\ \A x \in Vertices \ {i} : /\ t.status[x] = s.status[x] /\ t.dist[x] = s.dist[x]
                                     /\ t.parents[x] = s.parents[x] /\ t.exits[x] = s.exits[x]
        /\ t.status[i] = "candidate" /\ t.dist[i] = d /\ t.parents[i] = P /\ t.exits[i] = X
    BY <1>0, <1>1 DEF Becomes, SpfStates
  <1>3. Tree(t) = Tree(s) /\ Waiting(t) = Waiting(s) \cup {i} /\ i \notin Tree(s)
    BY <1>1, <1>2 DEF Tree, Waiting
  <1>4. \A u \in Tree(s) : /\ u \in Vertices \ {i} /\ t.dist[u] = s.dist[u] /\ t.exits[u] = s.exits[u]
                           /\ t.parents[u] = s.parents[u] /\ s.dist[u] \in Nat
    BY <1>0, <1>2, <1>3, SpfFields
  <1>5. /\ root \in Tree(s) /\ s.dist[root] = 0 /\ v \in Tree(s)
        /\ t.dist[v] = s.dist[v]
    BY <1>4 DEF LoopInv
  <1>6. ASSUME NEW u \in Tree(s), NEW w \in Neighbours(u)
        PROVE  /\ w \in Vertices /\ Cost(u, w) \in Nat
               /\ Done(t, i, u, w) <=> Done(s, i - 1, u, w) \/ (u = v /\ w = i)
    <2>1. w \in Vertices /\ Cost(u, w) \in Nat
      BY <1>4, RecordCost
    <2>2. Done(t, i, u, w) <=> Done(s, i, u, w)
      BY <1>0 DEF Done
    <2> QED
      BY <1>4, <2>1, <2>2, DoneNext
  <1>7. QueueOK(t.candidate, t.dist, Waiting(t))
    BY <1>0, <1>3
  <1>8. Explored(t, i)
    <2> SUFFICES ASSUME NEW u \in Tree(s), NEW w \in Neighbours(u), Done(t, i, u, w)
                 PROVE  t.status[w] # "unexplored" /\ t.dist[w] <= t.dist[u] + Cost(u, w)
      BY <1>3 DEF Explored
    <2>1. CASE u = v /\ w = i
      BY <1>1, <1>2, <1>5, <2>1
    <2>2. CASE Done(s, i - 1, u, w)
      <3>1. s.status[w] # "unexplored" /\ s.dist[w] <= s.dist[u] + Cost(u, w)
        BY <2>2 DEF LoopInv, Explored
      <3>2. CASE w # i
        BY <1>2, <1>4, <1>6, <3>1, <3>2
      <3>3. CASE w = i
        <4>1. s.status[i] = "candidate"
          BY <1>0, <1>1, <3>1, <3>3, SpfFields
        <4>2. s.dist[i] \in Nat
          BY <1>0, <1>1, SpfFields
        <4> QED
          BY <1>1, <1>2, <1>4, <1>6, <3>1, <3>3, <4>1, <4>2
      <3> QED
        BY <3>2, <3>3
    <2> QED
      BY <1>6, <2>1, <2>2
  <1>9. Ordered(t)
    <2>1. \A x \in Tree(t) : t.dist[x] <= t.dist[t.current]
      BY <1>0, <1>3, <1>4, <1>5 DEF LoopInv, Ordered
    <2>2. ASSUME NEW c \in Waiting(t) PROVE t.dist[t.current] <= t.dist[c]
      <3>1. CASE c = i
        BY <1>0, <1>1, <1>2, <1>5, <3>1
      <3>2. CASE c # i
        <4>1. c \in Waiting(s) /\ c \in Vertices \ {i}
          BY <1>0, <1>3, <3>2, SpfFields
        <4>2. s.dist[v] <= s.dist[c]
          BY <4>1 DEF LoopInv, Ordered
        <4> QED
          BY <1>0, <1>2, <1>5, <4>1, <4>2
      <3> QED
        BY <3>1, <3>2
    <2>3. \A y \in Vertices \ Tree(t) : t.dist[t.current] <= Dist(root, y)
      BY <1>0, <1>3, <1>5 DEF LoopInv, Ordered
    <2> QED
      BY <2>1, <2>2, <2>3 DEF Ordered
  <1>10. Offered(t, i)
    <2> SUFFICES ASSUME NEW w \in Waiting(t)
                 PROVE  /\ t.parents[w] = Offers(t, i, w) /\ t.parents[w] # {}
                        /\ t.exits[w] = UNION {SPFNexthopCalculation(t, u, w) : u \in t.parents[w]}
      BY DEF Offered
    <2>0. ASSUME NEW x, Offers(t, i, x) = t.parents[x]
          PROVE  UNION {SPFNexthopCalculation(t, u, x) : u \in t.parents[x]}
                   = UNION {SPFNexthopCalculation(s, u, x) : u \in t.parents[x]}
      <3>1. t.parents[x] \subseteq Tree(s)
        BY <1>3, <2>0 DEF Offers
      <3>2. \A u \in t.parents[x] : SPFNexthopCalculation(t, u, x) = SPFNexthopCalculation(s, u, x)
        BY <1>4, <3>1, NexthopSame
      <3> QED
        BY <3>2
    <2>1. CASE w = i
      BY <1>2, <2>0, <2>1
    <2>2. CASE w # i
      <3>1. w \in Waiting(s) /\ w \in Vertices \ {i}
        BY <1>0, <1>3, <2>2, SpfFields
      <3>2. Offers(t, i, w) = Offers(s, i - 1, w)
        <4>1. \A u \in Tree(s) : w \in Neighbours(u) => (Done(t, i, u, w) <=> Done(s, i - 1, u, w))
          BY <1>6, <2>2
        <4> QED
          BY <1>2, <1>3, <1>4, <3>1, <4>1 DEF Offers
      <3>3. /\ s.parents[w] = Offers(s, i - 1, w) /\ s.parents[w] # {}
            /\ s.exits[w] = UNION {SPFNexthopCalculation(s, u, w) : u \in s.parents[w]}
        BY <3>1 DEF LoopInv, Offered
      <3>4. t.parents[w] = s.parents[w] /\ t.exits[w] = s.exits[w]
        BY <1>2, <3>1
      <3> QED
        BY <2>0, <3>2, <3>3, <3>4
    <2> QED
      BY <2>1, <2>2
  <1>11. Exact(t)
    BY <1>3, <1>4 DEF LoopInv, Exact
  <1>12. Unambiguous(t, i)
    <2> SUFFICES ASSUME NEW n \in Tree(s) \cap Networks, NEW w \in Neighbours(n),
                        Done(t, i, n, w), Cardinality(t.exits[n]) > 1
                 PROVE  w = root \/ Dist(root, w) < Dist(root, n)
      BY <1>3 DEF Unambiguous
    <2>1. Cardinality(s.exits[n]) > 1
      BY <1>4
    <2>2. n # v
      BY <2>1 DEF ExitIsAmbiguous
    <2>3. Done(s, i - 1, n, w)
      BY <1>6, <2>2
    <2> QED
      BY <2>1, <2>3 DEF LoopInv, Unambiguous
  <1>13. NetworksFirst(t)
    BY <1>0, <1>3, <1>4, <1>5 DEF LoopInv, NetworksFirst
  <1>14. Bounded(t)
    <2>1. Reach(t) = Reach(s)
      BY <1>3 DEF Reach
    <2>2. Reach(s) \in Nat
      <3>1. IsFiniteSet(Tree(s) \cap Routers)
        BY <1>0, SpfFields, VertexNumbers, FS_Subset
      <3>2. Cardinality(Tree(s) \cap Routers) \in Nat
        BY <3>1, FS_CardinalityType
      <3> QED
        BY <3>2, MetricBounds DEF Reach
    <2>3. d <= Reach(s)
      <3>1. CASE v \in Routers
        <4>1. s.dist[v] + MaxMetric <= Reach(s)
          BY <3>1 DEF LoopInv, Bounded
        <4> QED
          BY <1>1, <2>2, <4>1, MetricBounds
      <3>2. CASE v \in Networks
        <4>1. Cost(v, i) = 0
          BY <1>1, <3>2, RecordCost
        <4>2. s.dist[v] <= Reach(s)
          BY <1>1 DEF LoopInv, Bounded
        <4> QED
          BY <1>1, <2>2, <4>1, <4>2
      <3> QED
        BY <1>1, <3>1, <3>2, VertexNumbers
    <2>4. \A w \in Vertices : t.dist[w] <= Reach(t)
      BY <1>2, <2>1, <2>3 DEF LoopInv, Bounded
    <2>5. t.current \in Routers => t.dist[t.current] + MaxMetric <= Reach(t)
      BY <1>0, <1>5, <2>1 DEF LoopInv, Bounded
    <2> QED
      BY <2>4, <2>5 DEF Bounded
  <1> QED
    BY <1>0, <1>3, <1>4, <1>5, <1>7, <1>8, <1>9, <1>10, <1>11, <1>12, <1>13, <1>14 DEF LoopInv

(* A record for a vertex that the loop leaves as it is. *)
LEMMA LeaveKeeps ==
  ASSUME Measured, root \in Routers, NEW s, NEW i \in 1 .. NV, LoopInv(s, i - 1),
         NEW v, v = s.current, i \in Neighbours(v),
         NEW d, d = s.dist[v] + Cost(v, i),
         s.status[i] = "tree" \/ (s.status[i] = "candidate" /\ s.dist[i] < d)
  PROVE  LoopInv(s, i)
  <1>0. s \in SpfStates /\ v \in Tree(s)
    BY DEF LoopInv
  <1>1. /\ v \in Vertices /\ i \in Vertices /\ Cost(v, i) \in Nat /\ s.dist[v] \in Nat /\ d \in Nat
        /\ s.dist[i] \in Nat
    BY <1>0, SpfFields, RecordCost
  <1>2. s.dist[v] = Dist(root, v)
    BY <1>0 DEF LoopInv, Exact
  <1>3. ASSUME NEW u \in Tree(s), NEW w \in Neighbours(u)
        PROVE  /\ w \in Vertices
               /\ Done(s, i, u, w) <=> Done(s, i - 1, u, w) \/ (u = v /\ w = i)
    BY <1>0, SpfFields, RecordCost, DoneNext
  <1>4. s.dist[i] <= d
    <2>1. CASE s.status[i] = "tree"
      <3>1. s.dist[i] = Dist(root, i)
        BY <1>0, <1>1, <2>1, SpfFields DEF LoopInv, Exact
      <3>2. root \in Vertices
        BY VertexNumbers
      <3>3. Dist(root, i) <= Dist(root, v) + Cost(v, i)
        BY <1>1, <3>2, DistIs
      <3> QED
        BY <1>2, <3>1, <3>3
    <2>2. CASE s.status[i] = "candidate" /\ s.dist[i] < d
      BY <1>1, <2>2
    <2> QED
      BY <2>1, <2>2
  <1>5. Explored(s, i)
    <2> SUFFICES ASSUME NEW u \in Tree(s), NEW w \in Neighbours(u), Done(s, i, u, w)
                 PROVE  s.status[w] # "unexplored" /\ s.dist[w] <= s.dist[u] + Cost(u, w)
      BY DEF Explored
    <2>1. CASE u = v /\ w = i
      BY <1>4, <2>1
    <2>2. CASE Done(s, i - 1, u, w)
      BY <2>2 DEF LoopInv, Explored
    <2> QED
      BY <1>3, <2>1, <2>2
  <1>6. Offered(s, i)
    <2>1. ASSUME NEW w \in Waiting(s) PROVE Offers(s, i, w) = Offers(s, i - 1, w)
      <3>1. CASE w # i
        BY <1>3, <3>1 DEF Offers
      <3>2. CASE w = i
        <4>1. s.dist[i] # d
          BY <1>0, <1>1, <3>2, SpfFields
        <4> QED
          BY <1>3, <3>2, <4>1 DEF Offers
      <3> QED
        BY <3>1, <3>2
    <2> QED
      BY <2>1 DEF LoopInv, Offered
  <1>7. Unambiguous(s, i)
    <2> SUFFICES ASSUME NEW n \in Tree(s) \cap Networks, NEW w \in Neighbours(n),
                        Done(s, i, n, w), Cardinality(s.exits[n]) > 1
                 PROVE  w = root \/ Dist(root, w) < Dist(root, n)
      BY DEF Unambiguous
    <2>1. CASE n = v /\ w = i
      <3>1. v \in Networks /\ i \in Routers /\ Cost(v, i) = 0
        BY <1>1, <2>1, RecordCost
      <3>2. CASE s.status[i] = "tree"
        <4>1. i \in Tree(s)
          BY <1>0, <1>1, <3>2, SpfFields
        <4>2. s.dist[i] < s.dist[v]
          BY <3>1, <4>1 DEF LoopInv, NetworksFirst
        <4>3. s.dist[i] = Dist(root, i)
          BY <4>1 DEF LoopInv, Exact
        <4> QED
          BY <1>2, <2>1, <4>2, <4>3
      <3>3. CASE s.status[i] = "candidate" /\ s.dist[i] < d
        <4>1. s.dist[v] <= s.dist[i]
          BY <1>0, <1>1, <3>3, SpfFields DEF LoopInv, Ordered
        <4> QED
          BY <1>1, <3>1, <3>3, <4>1
      <3> QED
        BY <3>2, <3>3
    <2>2. CASE Done(s, i - 1, n, w)
      BY <2>2 DEF LoopInv, Unambiguous
    <2> QED
      BY <1>3, <2>1, <2>2
  <1> QED
    BY <1>5, <1>6, <1>7 DEF LoopInv

(* No path is as long as Infinity. *)
LEMMA ReachBound ==
  ASSUME NEW s
  PROVE  Reach(s) \in Nat /\ Reach(s) < Infinity
  <1>1. IsFiniteSet(Routers) /\ Cardinality(Routers) = NRouters
    <2>1. NRouters \in Nat /\ NRouters >= 1
      BY RoutesAssumption
    <2>2. IsFiniteSet(1 .. NRouters) /\ Cardinality(1 .. NRouters) = IF 1 > NRouters THEN 0 ELSE NRouters - 1 + 1
      BY <2>1, FS_Interval
    <2> QED
      BY <2>1, <2>2 DEF Routers
  <1>2. IsFiniteSet(Tree(s) \cap Routers) /\ Cardinality(Tree(s) \cap Routers) <= NRouters
    BY <1>1, FS_Subset
  <1>3. Cardinality(Tree(s) \cap Routers) \in Nat
    BY <1>2, FS_CardinalityType
  <1> DEFINE n == Cardinality(Tree(s) \cap Routers)
  <1>4. n \in Nat /\ n <= NRouters /\ NRouters \in Nat /\ Reach(s) = MaxMetric * n
    BY <1>2, <1>3, RoutesAssumption DEF Reach
  <1> HIDE DEF n
  <1>5. MaxMetric \in Nat /\ Infinity = 1 + NRouters * MaxMetric
    BY MetricBounds
  <1>6. MaxMetric * n \in Nat /\ MaxMetric * n <= NRouters * MaxMetric /\ NRouters * MaxMetric \in Nat
    BY <1>4, <1>5
  <1> QED
    BY <1>4, <1>5, <1>6

(* The assertion of GetRootExitDirection fails. *)
LEMMA FailKeeps ==
  ASSUME Measured, root \in Routers, NEW s, NEW i \in 1 .. NV, LoopInv(s, i - 1),
         NEW v, v = s.current, i \in Neighbours(v), s.status[i] # "tree", ExitIsAmbiguous(s, v),
         NEW t, t = [s EXCEPT !.failed = TRUE]
  PROVE  t.current = s.current /\ Tree(t) = Tree(s) /\ LoopState(t, i)
  <1>0. s \in SpfStates /\ v \in Tree(s) /\ root \in Tree(s)
    BY DEF LoopInv
  <1>1. v \in Networks /\ Cardinality(s.exits[v]) > 1
    BY DEF ExitIsAmbiguous
  <1>2. v \in Vertices /\ i \in Vertices /\ i \notin Tree(s) /\ root \in Vertices /\ v # root
    BY <1>0, <1>1, SpfFields, RecordCost, VertexNumbers
  <1>3. s.dist[v] = Dist(root, v) /\ s.exits[v] = FH(root, v)
    BY <1>0, <1>2 DEF LoopInv, Exact
  <1>4. i \in Attached(v) \ {root}
    <2>1. v \notin Routers
      BY <1>1, <1>2, VertexNumbers
    <2> QED
      BY <1>0, <1>2, <2>1 DEF Neighbours
  <1>5. Dist(root, v) <= Dist(root, i)
    BY <1>2, <1>3 DEF LoopInv, Ordered
  <1>6. Dist(root, v) < Infinity
    <2>1. s.dist[v] <= Reach(s)
      BY <1>2 DEF LoopInv, Bounded
    <2>2. Reach(s) < Infinity /\ Reach(s) \in Nat
      BY ReachBound
    <2>3. s.dist[v] \in Nat
      BY <1>0, <1>2, SpfFields
    <2> QED
      BY <1>3, <2>1, <2>2, <2>3, MetricBounds
  <1>7. EqualCostNetwork(root, AllDistances)
    <2>1. AllDistances[root][v] = Dist(root, v) /\ AllDistances[root][i] = Dist(root, i)
      BY <1>2, DistIs
    <2> QED
      BY <1>1, <1>3, <1>4, <1>5, <1>6, <2>1 DEF EqualCostNetwork, FH
  <1>8. /\ t \in SpfStates /\ t.failed /\ t.status = s.status /\ t.dist = s.dist /\ t.parents = s.parents
        /\ t.exits = s.exits /\ t.candidate = s.candidate /\ t.current = s.current
    BY <1>0 DEF SpfStates
  <1>9. Tree(t) = Tree(s) /\ Waiting(t) = Waiting(s)
    BY <1>8 DEF Tree, Waiting
  <1>10. LoopInv(t, i - 1)
    <2>1. \A u, w : Done(t, i - 1, u, w) <=> Done(s, i - 1, u, w)
      BY <1>8 DEF Done
    <2>2. \A w : Offers(t, i - 1, w) = Offers(s, i - 1, w)
      BY <1>8, <1>9, <2>1 DEF Offers
    <2>3. \A u, w : SPFNexthopCalculation(t, u, w) = SPFNexthopCalculation(s, u, w)
      BY <1>8 DEF SPFNexthopCalculation
    <2>4. Explored(t, i - 1) /\ Unambiguous(t, i - 1)
      BY <1>8, <1>9, <2>1 DEF LoopInv, Explored, Unambiguous
    <2>5. Offered(t, i - 1)
      <3>1. SUFFICES ASSUME NEW w \in Waiting(s)
                     PROVE  /\ s.parents[w] = Offers(t, i - 1, w) /\ s.parents[w] # {}
                            /\ s.exits[w] = UNION {SPFNexthopCalculation(t, u, w) : u \in s.parents[w]}
        BY <1>8, <1>9, ZenonT(60) DEF Offered
      <3>2. /\ s.parents[w] = Offers(s, i - 1, w) /\ s.parents[w] # {}
            /\ s.exits[w] = UNION {SPFNexthopCalculation(s, u, w) : u \in s.parents[w]}
        BY DEF LoopInv, Offered
      <3>3. \A u : SPFNexthopCalculation(t, u, w) = SPFNexthopCalculation(s, u, w)
        BY <2>3
      <3> QED
        BY <2>2, <3>2, <3>3
    <2>6. Ordered(t)
      BY <1>8, <1>9 DEF LoopInv, Ordered
    <2>7. Exact(t)
      BY <1>8, <1>9 DEF LoopInv, Exact
    <2>8. NetworksFirst(t)
      BY <1>8, <1>9 DEF LoopInv, NetworksFirst
    <2>9. Bounded(t)
      BY <1>8, <1>9 DEF LoopInv, Bounded, Reach
    <2> QED
      BY <1>8, <1>9, <2>4, <2>5, <2>6, <2>7, <2>8, <2>9 DEF LoopInv
  <1>11. i - 1 \in 0 .. NV
    BY VertexNumbers
  <1> QED
    BY <1>7, <1>8, <1>9, <1>10, <1>11 DEF LoopState

(* A round of the loop. *)
LEMMA ConsiderKeeps ==
  ASSUME Measured, root \in Routers, NEW s, NEW i \in 1 .. NV, LoopInv(s, i - 1), ~ s.failed,
         i \in Neighbours(s.current), NEW t, t = Consider(s, s.current, i)
  PROVE  t.current = s.current /\ Tree(t) = Tree(s) /\ LoopState(t, i)
  <1> DEFINE v == s.current
             d == s.dist[v] + Cost(v, i)
             dist == [s.dist EXCEPT ![i] = d]
             e == SPFNexthopCalculation(s, v, i)
             C == Waiting(s)
  <1>0. s \in SpfStates /\ v \in Tree(s) /\ QueueOK(s.candidate, s.dist, C)
    BY DEF LoopInv
  <1>1. /\ v \in Vertices /\ i \in Vertices /\ Cost(v, i) \in Nat /\ e \in SUBSET Exits
        /\ s.dist[v] \in Nat /\ s.dist[i] \in Nat /\ d \in Nat
    BY <1>0, SpfFields, RecordCost, NexthopType
  <1>12. v = s.current /\ d = s.dist[v] + Cost(v, i) /\ dist = [s.dist EXCEPT ![i] = d] /\ C = Waiting(s)
    OBVIOUS
  <1>13. e = SPFNexthopCalculation(s, v, i) /\ t = Consider(s, v, i)
    OBVIOUS
  <1> HIDE DEF v, d, dist, e, C
  <1>2. Outcome(s, t, v, i, d, dist, e, C)
    BY <1>0, <1>1, <1>12, <1>13, ConsiderEffect
  <1>3. CASE t = s /\ (s.status[i] = "tree" \/ (s.status[i] = "candidate" /\ s.dist[i] < d))
    BY <1>3, LeaveKeeps DEF LoopState, v, d
  <1>4. CASE s.status[i] # "tree" /\ ExitIsAmbiguous(s, v) /\ t = [s EXCEPT !.failed = TRUE]
    BY <1>4, FailKeeps DEF v
  <1>5. ASSUME NEW x, NEW f, NEW P, NEW X, NEW q, Becomes(s, t, i, x, f, P, X, q), x = "candidate"
        PROVE  /\ t \in SpfStates /\ t.current = s.current /\ ~ t.failed /\ t.dist = f
               /\ Tree(t) = Tree(s) \ {i} /\ (LoopInv(t, i) => LoopState(t, i))
               /\ \A u \in Vertices \ {i} : t.parents[u] = s.parents[u] /\ t.exits[u] = s.exits[u]
    <2>1. /\ t \in SpfStates /\ t.current = s.current /\ ~ t.failed /\ t.dist = f
          /\ t.status = [s.status EXCEPT ![i] = x]
          /\ t.parents = [s.parents EXCEPT ![i] = P]
          /\ t.exits = [s.exits EXCEPT ![i] = X]
      BY <1>5 DEF Becomes
    <2>2. \A u \in Vertices \ {i} : t.parents[u] = s.parents[u] /\ t.exits[u] = s.exits[u]
      BY <1>0, <2>1 DEF SpfStates
    <2>3. Tree(t) = Tree(s) \ {i}
      BY <1>0, <1>5, <2>1 DEF SpfStates, Tree
    <2> QED
      BY <2>1, <2>2, <2>3 DEF LoopState
  <1>6. /\ \A u \in Tree(s) : u \in Vertices /\ s.dist[u] \in Nat
        /\ \A u \in Tree(s) : i \in Neighbours(u) => Cost(u, i) \in Nat
        /\ \A u \in Tree(s) : i \in Neighbours(u) => (Done(t, i, u, i) <=> Done(t, i - 1, u, i) \/ (u = t.current /\ i = i))
    BY <1>0, SpfFields, RecordCost, DoneNext
  <1>7. ASSUME NEW u \in Tree(s), u # v
        PROVE Done(s, i - 1, u, i)
    BY <1>7 DEF Done, v
  <1>8. CASE /\ s.status[i] # "tree" /\ ~ ExitIsAmbiguous(s, v)
             /\ s.status[i] = "unexplored" \/ (s.status[i] = "candidate" /\ d < s.dist[i])
             /\ \E q : Becomes(s, t, i, "candidate", dist, {v}, e, q) /\ QueueOK(q, dist, C \cup {i})
    <2>1. PICK q : Becomes(s, t, i, "candidate", dist, {v}, e, q) /\ QueueOK(q, dist, C \cup {i})
      BY <1>8
    <2>2. i \notin Tree(s)
      BY <1>0, <1>1, <1>8, SpfFields
    <2>3. t.current = v /\ t.dist = dist /\ Tree(t) = Tree(s)
      BY <1>5, <2>1, <2>2 DEF v
    <2>4. dist[i] = d /\ \A u \in Tree(s) : dist[u] = s.dist[u]
      BY <1>0, <1>1, <1>6, <2>2 DEF dist, SpfStates
    <2>5. Done(t, i, v, i)
      BY DEF Done
    <2>6. v \in Offers(t, i, i)
      BY <1>0, <1>1, <2>3, <2>4, <2>5 DEF Offers, d, v
    <2>7. ASSUME NEW u \in Offers(t, i, i), u # v PROVE FALSE
      <3>1. u \in Tree(s) /\ i \in Neighbours(u) /\ s.dist[u] + Cost(u, i) = d
        BY <2>3, <2>4 DEF Offers
      <3>2. s.status[i] # "unexplored" /\ s.dist[i] <= s.dist[u] + Cost(u, i)
        BY <1>7, <2>7, <3>1 DEF LoopInv, Explored
      <3> QED
        BY <1>1, <1>8, <3>1, <3>2
    <2>8. Offers(t, i, i) = {v}
      BY <2>6, <2>7
    <2>9. e = UNION {SPFNexthopCalculation(s, u, i) : u \in {v}}
      BY DEF e
    <2>10. s.status[i] = "candidate" => d <= s.dist[i]
      BY <1>1, <1>8
    <2>11. LoopInv(t, i)
      BY <1>8, <2>1, <2>8, <2>9, <2>10, UpdateKeeps DEF v, d, dist, C
    <2> QED
      BY <1>5, <2>1, <2>3, <2>11 DEF v
  <1>9. CASE /\ s.status[i] = "candidate" /\ ~ ExitIsAmbiguous(s, v) /\ s.dist[i] = d
             /\ Becomes(s, t, i, "candidate", s.dist, s.parents[i] \cup {v}, s.exits[i] \cup e, s.candidate)
    <2>1. s.dist = dist
      BY <1>0, <1>9 DEF dist, SpfStates
    <2>2. i \in Waiting(s) /\ i \notin Tree(s)
      BY <1>0, <1>1, <1>9, SpfFields
    <2>3. QueueOK(s.candidate, dist, C \cup {i})
      <3>1. C \cup {i} = C
        BY <2>2 DEF C
      <3> QED
        BY <1>0, <2>1, <3>1
    <2>4. t.current = v /\ t.dist = s.dist /\ Tree(t) = Tree(s)
      BY <1>5, <1>9, <2>2 DEF v
    <2>5. /\ s.parents[i] = Offers(s, i - 1, i)
          /\ s.exits[i] = UNION {SPFNexthopCalculation(s, u, i) : u \in s.parents[i]}
      BY <2>2 DEF LoopInv, Offered
    <2>6. \A u \in Tree(s) : i \in Neighbours(u) => (Done(t, i, u, i) <=> Done(s, i - 1, u, i) \/ u = v)
      BY <2>4 DEF Done, v
    <2>7. Offers(t, i, i) = s.parents[i] \cup {v}
      <3>1. v \in Offers(t, i, i)
        BY <1>0, <1>9, <2>4, <2>6 DEF Offers, d, v
      <3>2. Offers(t, i, i) \ {v} = Offers(s, i - 1, i) \ {v}
        BY <2>4, <2>6 DEF Offers
      <3> QED
        BY <2>5, <3>1, <3>2
    <2>8. s.exits[i] \cup e = UNION {SPFNexthopCalculation(s, u, i) : u \in s.parents[i] \cup {v}}
      BY <2>5 DEF e
    <2>9. d <= s.dist[i]
      BY <1>1, <1>9
    <2>10. LoopInv(t, i)
      <3>1. Becomes(s, t, i, "candidate", dist, s.parents[i] \cup {v}, s.exits[i] \cup e, s.candidate)
        BY <1>9, <2>1
      <3>2. s.parents[i] \cup {v} # {}
        OBVIOUS
      <3> QED
        BY <1>9, <1>12, <2>3, <2>7, <2>8, <2>9, <3>1, <3>2, UpdateKeeps
    <2> QED
      BY <1>5, <1>9, <2>4, <2>10 DEF v
  <1>10. i \in Waiting(s) => C \cup {i} = C
    BY DEF C
  <1>11. s.status[i] = "candidate" => i \in Waiting(s)
    BY <1>0, <1>1, SpfFields
  <1> QED
    BY <1>2, <1>3, <1>4, <1>8, <1>9, <1>10, <1>11 DEF Outcome

(* The loop of SPFNext over the records of the current vertex. *)
LEMMA LoopKeeps ==
  ASSUME Measured, root \in Routers, NEW s, LoopInv(s, 0), ~ s.failed,
         NEW z \in ConsiderAll(s, s.current)
  PROVE  LoopState(z, NV) /\ Tree(z) = Tree(s)
  <1> DEFINE v == s.current
             G(i, X) == IF i \in Neighbours(v) THEN {Consider(t, v, i) : t \in X} ELSE X
             Part(f, n) == f = [i \in 0 .. n |-> IF i = 0 THEN {s} ELSE G(i, f[i - 1])]
             S == {n \in Nat : \E f : Part(f, n)}
             h == CHOOSE f : Part(f, NV)
  <1>0. NV \in Nat
    BY VertexNumbers
  <1>1. ConsiderAll(s, v) = h[NV]
    BY DEF ConsiderAll, NV
  <1> HIDE DEF G, v
  <1>2. 0 \in S
    <2>1. Part([i \in 0 .. 0 |-> {s}], 0)
      OBVIOUS
    <2> QED
      BY <2>1
  <1>3. ASSUME NEW n \in Nat, n \in S
        PROVE  n + 1 \in S
    <2>1. PICK f : Part(f, n)
      BY <1>3
    <2> DEFINE x == G(n + 1, f[n])
               g == [i \in 0 .. n + 1 |-> IF i = n + 1 THEN x ELSE f[i]]
    <2>7. \A i \in 0 .. n : f[i] = (IF i = 0 THEN {s} ELSE G(i, f[i - 1]))
      BY <2>1
    <2>8. \A i \in 0 .. n : g[i] = f[i]
      <3>1. \A i \in 0 .. n : i \in 0 .. n + 1 /\ i # n + 1
        OBVIOUS
      <3> HIDE DEF x
      <3> QED
        BY <3>1
    <2>2. \A i \in 0 .. n : f[i] = (IF i = 0 THEN {s} ELSE G(i, f[i - 1])) /\ g[i] = f[i]
      BY <2>7, <2>8
    <2>3. g[n + 1] = x
      OBVIOUS
    <2>4. ASSUME NEW i \in 0 .. n + 1
          PROVE  g[i] = IF i = 0 THEN {s} ELSE G(i, g[i - 1])
      <3>1. CASE i = n + 1
        <4>1. i # 0 /\ i - 1 = n /\ n \in 0 .. n
          BY <3>1
        <4>2. g[n] = f[n]
          BY <2>2, <4>1
        <4> HIDE DEF g
        <4> QED
          BY <2>3, <3>1, <4>1, <4>2
      <3>2. CASE i \in 0 .. n
        <4>1. i = 0 \/ i - 1 \in 0 .. n
          BY <3>2
        <4> HIDE DEF g
        <4> QED
          BY <2>2, <3>2, <4>1
      <3> QED
        BY <3>1, <3>2
    <2>5. Part(g, n + 1)
      <3>1. g = [i \in 0 .. n + 1 |-> g[i]]
        OBVIOUS
      <3> HIDE DEF g
      <3> QED
        BY <2>4, <3>1
    <2>6. n + 1 \in Nat
      OBVIOUS
    <2> HIDE DEF g, Part
    <2> QED
      BY <2>5, <2>6
  <1>4. Part(h, NV)
    <2> HIDE DEF S
    <2>1. Nat \subseteq S
      BY <1>2, <1>3, SetInduction
    <2>2. NV \in S
      BY <1>0, <2>1
    <2> HIDE DEF Part
    <2> QED
      BY <2>2 DEF S
  <1> HIDE DEF h
  <1>5. h[0] = {s} /\ \A i \in 1 .. NV : h[i] = G(i, h[i - 1])
    <2>1. \A i \in 0 .. NV : h[i] = IF i = 0 THEN {s} ELSE G(i, h[i - 1])
      BY <1>4
    <2>2. 0 \in 0 .. NV /\ \A i \in 1 .. NV : i \in 0 .. NV /\ i # 0
      BY <1>0
    <2> QED
      BY <2>1, <2>2
  <1> HIDE DEF Part
  <1> DEFINE T == {n \in Nat : n <= NV => \A t \in h[n] : t.current = v /\ Tree(t) = Tree(s) /\ LoopState(t, n)}
  <1>6. 0 \in T
    BY <1>5 DEF LoopState, v
  <1>7. ASSUME NEW n \in Nat, n \in T
        PROVE  n + 1 \in T
    <2>1. SUFFICES ASSUME n + 1 <= NV, NEW t \in h[n + 1] PROVE t.current = v /\ Tree(t) = Tree(s) /\ LoopState(t, n + 1)
      OBVIOUS
    <2>2. n + 1 \in 1 .. NV /\ (n + 1) - 1 = n /\ n <= NV
      BY <1>0, <2>1
    <2>3. t \in G(n + 1, h[n])
      BY <1>5, <2>1, <2>2
    <2>4. ASSUME NEW u \in h[n]
          PROVE  u.current = v /\ Tree(u) = Tree(s) /\ LoopState(u, n)
      BY <1>7, <2>2
    <2>5. CASE n + 1 \in Neighbours(v)
      <3>1. PICK u \in h[n] : t = Consider(u, v, n + 1)
        BY <2>3, <2>5 DEF G
      <3>2. CASE u.failed
        <4>1. t = u
          BY <3>1, <3>2 DEF Consider
        <4> QED
          BY <2>4, <3>2, <4>1 DEF LoopState
      <3>3. CASE ~ u.failed
        <4>1. LoopInv(u, (n + 1) - 1)
          BY <2>2, <2>4, <3>3 DEF LoopState
        <4> QED
          BY <2>2, <2>4, <2>5, <3>1, <3>3, <4>1, ConsiderKeeps
      <3> QED
        BY <3>2, <3>3
    <2>6. CASE n + 1 \notin Neighbours(v)
      <3>1. t \in h[n]
        BY <2>3, <2>6 DEF G
      <3>2. CASE t.failed
        BY <2>4, <3>1, <3>2 DEF LoopState
      <3>3. CASE ~ t.failed
        <4>1. LoopInv(t, (n + 1) - 1)
          BY <2>2, <2>4, <3>1, <3>3 DEF LoopState
        <4>2. LoopInv(t, n + 1)
          BY <2>2, <2>4, <2>6, <3>1, <4>1, SkipKeeps
        <4> QED
          BY <2>4, <3>1, <3>3, <4>2 DEF LoopState
      <3> QED
        BY <3>2, <3>3
    <2> QED
      BY <2>5, <2>6
  <1> HIDE DEF T
  <1>8. NV \in T
    BY <1>0, <1>6, <1>7, SetInduction
  <1>9. z \in h[NV]
    BY <1>1 DEF v
  <1> QED
    BY <1>0, <1>8, <1>9 DEF T

(* The calculation starts. *)
LEMMA StartKeeps ==
  ASSUME Measured, root \in Routers
  PROVE  LoopInv(Initialize(root), 0) /\ ~ Initialize(root).failed /\ Tree(Initialize(root)) = {root}
  <1> DEFINE s == Initialize(root)
  <1>0. root \in Vertices /\ root \notin Networks
    BY VertexNumbers
  <1>1. /\ s.status = [v \in Vertices |-> IF v = root THEN "tree" ELSE "unexplored"]
        /\ s.dist = [v \in Vertices |-> 0] /\ s.candidate = << >> /\ s.current = root /\ ~ s.failed
        /\ s \in SpfStates
    BY <1>0 DEF Initialize, SpfStates
  <1> HIDE DEF s
  <1>2. Tree(s) = {root} /\ Waiting(s) = {} /\ \A v \in Vertices : s.dist[v] = 0
    BY <1>0, <1>1 DEF Tree, Waiting
  <1>3. \A y \in Vertices : Dist(root, y) \in Nat /\ Dist(root, root) = 0
    BY <1>0, DistIs
  <1>4. ASSUME NEW w \in Neighbours(root) PROVE ~ Done(s, 0, root, w)
    <2>1. w \in 1 .. NV
      BY <1>0, RecordCost, VertexNumbers
    <2> QED
      BY <1>1, <2>1, VertexNumbers DEF Done
  <1>5. QueueOK(s.candidate, s.dist, Waiting(s))
    BY <1>1, <1>2 DEF QueueOK
  <1>6. Explored(s, 0)
    BY <1>2, <1>4 DEF Explored
  <1>7. Ordered(s)
    BY <1>0, <1>1, <1>2, <1>3 DEF Ordered
  <1>8. Offered(s, 0)
    BY <1>2 DEF Offered
  <1>9. Exact(s)
    BY <1>0, <1>2, <1>3 DEF Exact
  <1>10. Unambiguous(s, 0)
    BY <1>0, <1>2 DEF Unambiguous
  <1>11. NetworksFirst(s)
    <2>1. ASSUME NEW c \in Networks PROVE 0 < Dist(root, c)
      <3>1. c \in Vertices /\ c # root /\ c \notin Routers
        BY <1>0, VertexNumbers
      <3>2. CASE Dist(root, c) < Infinity
        <4>1. PICK u \in Vertices : c \in Neighbours(u) /\ Dist(root, c) = Dist(root, u) + Cost(u, c)
          BY <1>0, <3>1, <3>2, LastEdge
        <4>2. Cost(u, c) > 0 /\ Cost(u, c) \in Nat
          BY <3>1, <4>1, RecordCost, VertexNumbers
        <4> QED
          BY <1>3, <3>1, <4>1, <4>2
      <3>3. CASE ~ (Dist(root, c) < Infinity)
        BY <1>3, <3>1, <3>3, MetricBounds
      <3> QED
        BY <3>2, <3>3
    <2> QED
      BY <1>0, <1>1, <1>2, <1>3, <2>1 DEF NetworksFirst
  <1>12. Bounded(s)
    <2>1. Tree(s) \cap Routers = {root}
      BY <1>2
    <2>2. Cardinality({root}) = 1
      BY FS_Singleton
    <2>3. Reach(s) = MaxMetric /\ MaxMetric \in Nat
      <3>1. MaxMetric \in Nat
        BY MetricBounds
      <3>2. MaxMetric * 1 = MaxMetric
        BY <3>1
      <3> QED
        BY <2>1, <2>2, <3>1, <3>2 DEF Reach
    <2> QED
      BY <1>0, <1>1, <1>2, <2>3 DEF Bounded
  <1>13. LoopInv(s, 0)
    BY <1>0, <1>1, <1>2, <1>5, <1>6, <1>7, <1>8, <1>9, <1>10, <1>11, <1>12 DEF LoopInv
  <1> QED
    BY <1>1, <1>2, <1>13 DEF s

(* All records of the tree are done. *)
LEMMA AllDone ==
  ASSUME Measured, NEW s, LoopInv(s, NV), NEW u \in Tree(s), NEW w \in Neighbours(u)
  PROVE  /\ u \in Vertices /\ w \in Vertices /\ Cost(u, w) \in Nat /\ Done(s, NV, u, w)
         /\ s.status[w] # "unexplored" /\ s.dist[w] <= s.dist[u] + Cost(u, w)
         /\ s.dist[u] \in Nat /\ s.dist[w] \in Nat
         /\ w \in Tree(s) \/ w \in Waiting(s)
  <1>1. s \in SpfStates
    BY DEF LoopInv
  <1>2. u \in Vertices /\ w \in Vertices /\ Cost(u, w) \in Nat /\ s.dist[u] \in Nat /\ s.dist[w] \in Nat
    BY <1>1, SpfFields, RecordCost
  <1>3. Done(s, NV, u, w)
    <2>1. w \in 1 .. NV
      BY <1>2, VertexNumbers
    <2> QED
      BY <2>1, VertexNumbers DEF Done
  <1>4. s.status[w] # "unexplored" /\ s.dist[w] <= s.dist[u] + Cost(u, w)
    BY <1>3 DEF LoopInv, Explored
  <1> QED
    BY <1>1, <1>2, <1>3, <1>4, SpfFields

(* What is outside of the tree is not nearer than the nearest candidate. *)
LEMMA NearestOutside ==
  ASSUME Measured, root \in Routers, NEW s, LoopInv(s, NV), NEW m \in Nat, m <= Infinity,
         s.dist[s.current] <= m, \A c \in Waiting(s) : m <= s.dist[c]
  PROVE  \A y \in Vertices \ Tree(s) : m <= Dist(root, y)
  <1>0. s \in SpfStates /\ root \in Tree(s) /\ s.dist[root] = 0 /\ root \in Vertices
    BY VertexNumbers DEF LoopInv
  <1> DEFINE p == [y \in Vertices |-> IF y \in Tree(s) THEN s.dist[y] ELSE m]
  <1>1. \A y \in Vertices : s.dist[y] \in Nat /\ s.dist[y] <= Infinity
    <2>1. \A y \in Vertices : s.dist[y] \in Nat /\ s.dist[y] <= Reach(s)
      BY <1>0, SpfFields DEF LoopInv, Bounded
    <2> QED
      BY <2>1, ReachBound, MetricBounds
  <1>2. p \in [Vertices -> Int] /\ p[root] <= 0 /\ \A y \in Vertices : p[y] <= Infinity
    BY <1>0, <1>1
  <1>3. ASSUME NEW u \in Vertices, NEW w \in Neighbours(u)
        PROVE  p[w] <= p[u] + Cost(u, w)
    <2>1. w \in Vertices /\ Cost(u, w) \in Nat
      BY RecordCost
    <2>2. CASE u \in Tree(s)
      <3>1. s.dist[w] <= s.dist[u] + Cost(u, w) /\ (w \in Tree(s) \/ w \in Waiting(s))
        BY <2>2, AllDone
      <3>2. CASE w \in Tree(s)
        BY <2>1, <2>2, <3>1, <3>2
      <3>3. CASE w \notin Tree(s)
        <4>1. m <= s.dist[w]
          BY <3>1, <3>3
        <4> QED
          BY <1>1, <2>1, <2>2, <3>1, <3>3, <4>1
      <3> QED
        BY <3>2, <3>3
    <2>3. CASE u \notin Tree(s)
      <3>1. CASE w \in Tree(s)
        <4>1. s.dist[w] <= s.dist[s.current] /\ s.current \in Vertices
          BY <1>0, <3>1, SpfFields DEF LoopInv, Ordered
        <4> QED
          BY <1>1, <2>1, <2>3, <3>1, <4>1
      <3>2. CASE w \notin Tree(s)
        BY <2>1, <2>3, <3>2
      <3> QED
        BY <3>1, <3>2
    <2> QED
      BY <2>2, <2>3
  <1> HIDE DEF p
  <1>4. \A y \in Vertices : p[y] <= Dist(root, y)
    BY <1>0, <1>2, <1>3, DistIsGreatest
  <1> QED
    BY <1>4 DEF p

(* The state after Pop: the nearest candidate is in the tree. *)
Popped(s, h) == [s EXCEPT !.candidate = Tail(@), !.status[h] = "tree", !.current = h]

(* It keeps the invariant of the loop. *)
LEMMA PopKeeps ==
  ASSUME Measured, root \in Routers, NEW s, LoopInv(s, NV), s.candidate # << >>,
         NEW h, h = Head(s.candidate),
         NEW t, t = Popped(s, h)
  PROVE  /\ LoopInv(t, 0) /\ t.failed = s.failed /\ t.exits = s.exits /\ t.dist = s.dist
         /\ Tree(t) = Tree(s) \cup {h} /\ h \in Vertices \ Tree(s) /\ h # root
  <1>0. /\ s \in SpfStates /\ root \in Tree(s) /\ s.dist[root] = 0 /\ root \in Vertices /\ s.current \in Tree(s)
        /\ s.dist \in [Vertices -> Nat] /\ Waiting(s) \in SUBSET Vertices /\ Tree(s) \subseteq Vertices
        /\ QueueOK(s.candidate, s.dist, Waiting(s))
    <2>1. s \in SpfStates
      BY DEF LoopInv
    <2> QED
      BY <2>1, VertexNumbers DEF LoopInv, Tree, Waiting, SpfStates
  <1>1. /\ h \in Waiting(s) /\ QueueOK(Tail(s.candidate), s.dist, Waiting(s) \ {h})
        /\ \A c \in Waiting(s) : ~ CompareSPFVertex(s.dist, c, h)
    BY <1>0, PopEffect
  <1>2. h \in Vertices /\ h \notin Tree(s) /\ h # root
    BY <1>0, <1>1, SpfFields
  <1>3. /\ t \in SpfStates /\ t.dist = s.dist /\ t.parents = s.parents /\ t.exits = s.exits /\ t.failed = s.failed
        /\ t.candidate = Tail(s.candidate) /\ t.current = h /\ t.status = [s.status EXCEPT ![h] = "tree"]
    <2>1. Tail(s.candidate) \in Seq(Vertices)
      BY <1>1 DEF QueueOK
    <2> QED
      BY <1>0, <1>2, <2>1, ZenonT(60) DEF SpfStates, Popped
  <1>4. Tree(t) = Tree(s) \cup {h} /\ Waiting(t) = Waiting(s) \ {h}
    BY <1>0, <1>2, <1>3 DEF Tree, Waiting, SpfStates
  <1>5. \A x \in Vertices : s.dist[x] \in Nat /\ Dist(root, x) \in Nat
    BY <1>0, DistIs
  <1>6. /\ \A c \in Waiting(s) : s.dist[h] <= s.dist[c]
        /\ \A c \in Waiting(s) : h \in Routers /\ c \in Networks => s.dist[h] < s.dist[c]
    BY <1>0, <1>1, <1>2, <1>5 DEF CompareSPFVertex
  <1>7. s.dist[h] <= Infinity
    <2>1. s.dist[h] <= Reach(s)
      BY <1>2 DEF LoopInv, Bounded
    <2> QED
      BY <1>2, <1>5, <2>1, ReachBound, MetricBounds
  <1>8. s.dist[s.current] <= s.dist[h]
    BY <1>1 DEF LoopInv, Ordered
  <1>9. \A y \in Vertices \ Tree(s) : s.dist[h] <= Dist(root, y)
    BY <1>2, <1>5, <1>6, <1>7, <1>8, NearestOutside
  <1>10. /\ s.parents[h] = Offers(s, NV, h) /\ s.parents[h] # {}
         /\ s.exits[h] = UNION {SPFNexthopCalculation(s, u, h) : u \in s.parents[h]}
    BY <1>1 DEF LoopInv, Offered
  <1>11. \A x \in Tree(s) : s.dist[x] = Dist(root, x)
    BY DEF LoopInv, Exact
  <1>12. s.dist[h] = Dist(root, h)
    <2>1. PICK u \in Tree(s) : h \in Neighbours(u) /\ s.dist[u] + Cost(u, h) = s.dist[h]
      BY <1>10 DEF Offers
    <2>2. Dist(root, h) <= Dist(root, u) + Cost(u, h)
      BY <1>0, <2>1, DistIs
    <2>3. Dist(root, h) <= s.dist[h]
      BY <1>11, <2>1, <2>2
    <2>4. s.dist[h] <= Dist(root, h)
      BY <1>2, <1>9
    <2> QED
      BY <1>2, <1>5, <2>3, <2>4
  <1>13. Dist(root, h) < Infinity
    <2>1. s.dist[h] <= Reach(s)
      BY <1>2 DEF LoopInv, Bounded
    <2> QED
      BY <1>2, <1>5, <1>12, <2>1, ReachBound, MetricBounds
  <1>14. ASSUME h \in Routers, NEW c \in Networks \ Tree(s)
         PROVE  Dist(root, h) < Dist(root, c)
    <2>1. c \in Vertices /\ c \notin Routers /\ c # root
      BY <1>0, VertexNumbers
    <2>2. CASE Dist(root, c) < Infinity
      <3>1. PICK u \in Vertices : c \in Neighbours(u) /\ Dist(root, c) = Dist(root, u) + Cost(u, c)
        BY <1>0, <2>1, <2>2, LastEdge
      <3>2. Cost(u, c) \in Nat /\ Cost(u, c) > 0
        BY <2>1, <3>1, RecordCost, VertexNumbers
      <3>3. CASE u \in Tree(s)
        <4>1. s.dist[c] <= s.dist[u] + Cost(u, c) /\ c \in Waiting(s)
          BY <3>1, <3>3, AllDone
        <4>2. s.dist[h] < s.dist[c]
          BY <1>6, <1>14, <4>1
        <4> QED
          BY <1>2, <1>5, <1>11, <1>12, <2>1, <3>1, <3>2, <3>3, <4>1, <4>2
      <3>4. CASE u \notin Tree(s)
        <4>1. s.dist[h] <= Dist(root, u)
          BY <1>9, <3>1, <3>4
        <4> QED
          BY <1>2, <1>5, <1>12, <2>1, <3>1, <3>2, <4>1
      <3> QED
        BY <3>3, <3>4
    <2>3. CASE ~ (Dist(root, c) < Infinity)
      BY <1>2, <1>5, <1>13, <2>1, <2>3, MetricBounds
    <2> QED
      BY <2>2, <2>3
  <1>15. \A u \in Tight(root, h) : u \in Tree(s)
    <2> SUFFICES ASSUME NEW u \in Tight(root, h), u \notin Tree(s) PROVE FALSE
      OBVIOUS
    <2>1. u \in Vertices /\ h \in Neighbours(u) /\ Dist(root, u) + Cost(u, h) = Dist(root, h)
      BY DEF Tight
    <2>2. Cost(u, h) \in Nat /\ (u \in Routers => Cost(u, h) > 0) /\ (u \in Networks => h \in Routers)
      BY <2>1, RecordCost
    <2>3. Dist(root, h) <= Dist(root, u)
      BY <1>9, <1>12, <2>1
    <2>4. u \notin Routers
      BY <1>2, <1>5, <2>1, <2>2, <2>3
    <2>5. u \in Networks /\ h \in Routers
      BY <2>1, <2>2, <2>4, VertexNumbers
    <2>6. Dist(root, h) < Dist(root, u)
      BY <1>14, <2>5
    <2> QED
      BY <1>2, <1>5, <2>1, <2>2, <2>6
  <1>16. s.parents[h] = Tight(root, h)
    <2>1. \A u \in Tree(s) : h \in Neighbours(u) => Done(s, NV, u, h)
      BY AllDone
    <2> QED
      BY <1>0, <1>10, <1>11, <1>12, <1>15, <2>1 DEF Offers, Tight
  <1>17. ASSUME NEW u \in Tight(root, h)
         PROVE  SPFNexthopCalculation(s, u, h) = NextHops(root, u, h)
    <2>1. u \in Tree(s)
      BY <1>15
    <2>2. u # root => s.parents[u] = Tight(root, u) /\ s.exits[u] = FH(root, u)
      BY <2>1 DEF LoopInv, Exact
    <2>3. root \notin Networks /\ (h \in Routers <=> h \notin Networks)
      BY <1>0, <1>2, VertexNumbers
    <2>4. CASE u = root
      <3>1. CASE h \in Routers
        BY <2>3, <2>4, <3>1 DEF SPFNexthopCalculation, NextHops
      <3>2. CASE h \in Networks
        BY <2>3, <2>4, <3>2 DEF SPFNexthopCalculation, NextHops
      <3> QED
        BY <2>3, <3>1, <3>2
    <2>5. CASE u # root /\ u \in Networks /\ Tight(root, u) = {root}
      <3>1. SPFNexthopCalculation(s, u, h) = {<<h, e[2]>> : e \in FH(root, u)}
        BY <2>2, <2>5 DEF SPFNexthopCalculation
      <3>2. NextHops(root, u, h) = {<<h, e[2]>> : e \in FH(root, u)}
        BY <2>5 DEF NextHops
      <3> QED
        BY <3>1, <3>2
    <2>6. CASE u # root /\ ~ (u \in Networks /\ Tight(root, u) = {root})
      <3>1. SPFNexthopCalculation(s, u, h) = FH(root, u)
        BY <2>2, <2>6 DEF SPFNexthopCalculation
      <3>2. NextHops(root, u, h) = FH(root, u)
        BY <2>6 DEF NextHops
      <3> QED
        BY <3>1, <3>2
    <2> QED
      BY <2>4, <2>5, <2>6
  <1>18. s.exits[h] = FH(root, h)
    <2>1. ASSUME NEW u \in Tight(root, h) \cap Networks, Cardinality(FH(root, u)) > 1
          PROVE  FALSE
      <3>1. u \in Tree(s) /\ u # root
        BY <1>15, VertexNumbers
      <3>2. u \in Vertices /\ h \in Neighbours(u) /\ Dist(root, u) + Cost(u, h) = Dist(root, h)
        BY DEF Tight
      <3>3. s.exits[u] = FH(root, u)
        BY <3>1 DEF LoopInv, Exact
      <3>4. h = root \/ Dist(root, h) < Dist(root, u)
        BY <2>1, <3>1, <3>2, <3>3, AllDone DEF LoopInv, Unambiguous
      <3>5. Cost(u, h) \in Nat
        BY <3>2, RecordCost
      <3> QED
        BY <1>2, <1>5, <3>2, <3>4, <3>5
    <2>2. FH(root, h) = UNION {NextHops(root, u, h) : u \in Tight(root, h)}
      BY <1>2, <1>13, <2>1, HopsDecompose
    <2> QED
      BY <1>10, <1>16, <1>17, <2>2
  <1>19. \A u, w : w \in Neighbours(u) /\ u \in Tree(t) => (Done(t, 0, u, w) <=> u # h)
    <2> SUFFICES ASSUME NEW u \in Tree(t), NEW w \in Neighbours(u)
                 PROVE  Done(t, 0, u, w) <=> u # h
      OBVIOUS
    <2>1. u \in Vertices
      BY <1>0, <1>2, <1>4
    <2>2. w \in 1 .. NV
      BY <2>1, RecordCost, VertexNumbers
    <2> QED
      BY <1>3, <2>2, VertexNumbers DEF Done
  <1>20. QueueOK(t.candidate, t.dist, Waiting(t))
    BY <1>1, <1>3, <1>4
  <1>21. Explored(t, 0)
    <2> SUFFICES ASSUME NEW u \in Tree(t), NEW w \in Neighbours(u), Done(t, 0, u, w)
                 PROVE  t.status[w] # "unexplored" /\ t.dist[w] <= t.dist[u] + Cost(u, w)
      BY DEF Explored
    <2>1. u \in Tree(s)
      BY <1>4, <1>19
    <2>2. w \in Vertices /\ s.status[w] # "unexplored" /\ s.dist[w] <= s.dist[u] + Cost(u, w)
      BY <2>1, AllDone
    <2> QED
      BY <1>0, <1>3, <2>2 DEF SpfStates
  <1>22. Ordered(t)
    <2>1. ASSUME NEW x \in Tree(t) PROVE t.dist[x] <= t.dist[t.current]
      <3>1. CASE x = h
        BY <1>2, <1>3, <1>5, <3>1
      <3>2. CASE x \in Tree(s)
        <4>1. s.dist[x] <= s.dist[s.current]
          BY <3>2 DEF LoopInv, Ordered
        <4>2. s.dist[x] \in Nat /\ s.dist[s.current] \in Nat /\ s.dist[h] \in Nat
          BY <1>0, <1>2, <1>5, <3>2
        <4>3. s.dist[x] <= s.dist[h]
          BY <1>8, <4>1, <4>2
        <4> QED
          BY <1>3, <4>3
      <3> QED
        BY <1>4, <3>1, <3>2
    <2>2. \A c \in Waiting(t) : t.dist[t.current] <= t.dist[c]
      BY <1>3, <1>4, <1>6
    <2>3. \A y \in Vertices \ Tree(t) : t.dist[t.current] <= Dist(root, y)
      BY <1>3, <1>4, <1>9
    <2> QED
      BY <2>1, <2>2, <2>3 DEF Ordered
  <1>23. Offered(t, 0)
    <2> SUFFICES ASSUME NEW w \in Waiting(t)
                 PROVE  /\ t.parents[w] = Offers(t, 0, w) /\ t.parents[w] # {}
                        /\ t.exits[w] = UNION {SPFNexthopCalculation(t, u, w) : u \in t.parents[w]}
      BY DEF Offered
    <2>1. w \in Waiting(s) /\ w # h
      BY <1>4
    <2>2. /\ s.parents[w] = Offers(s, NV, w) /\ s.parents[w] # {}
          /\ s.exits[w] = UNION {SPFNexthopCalculation(s, u, w) : u \in s.parents[w]}
      BY <2>1 DEF LoopInv, Offered
    <2>3. Offers(t, 0, w) = Offers(s, NV, w)
      <3>1. \A u \in Tree(s) : w \in Neighbours(u) => Done(s, NV, u, w) /\ u # h
        BY <1>2, AllDone
      <3> QED
        BY <1>3, <1>4, <1>19, <3>1 DEF Offers
    <2>4. \A u : SPFNexthopCalculation(t, u, w) = SPFNexthopCalculation(s, u, w)
      BY <1>3 DEF SPFNexthopCalculation
    <2> QED
      BY <1>3, <2>2, <2>3, <2>4
  <1>24. Exact(t)
    <2> SUFFICES ASSUME NEW x \in Tree(t)
                 PROVE  /\ t.dist[x] = Dist(root, x)
                        /\ x # root => t.parents[x] = Tight(root, x) /\ t.exits[x] = FH(root, x)
      BY DEF Exact
    <2>1. CASE x = h
      BY <1>3, <1>12, <1>16, <1>18, <2>1
    <2>2. CASE x \in Tree(s)
      BY <1>3, <2>2 DEF LoopInv, Exact
    <2> QED
      BY <1>4, <2>1, <2>2
  <1>25. Unambiguous(t, 0)
    <2> SUFFICES ASSUME NEW n \in Tree(t) \cap Networks, NEW w \in Neighbours(n), Done(t, 0, n, w),
                        Cardinality(t.exits[n]) > 1
                 PROVE  w = root \/ Dist(root, w) < Dist(root, n)
      BY DEF Unambiguous
    <2>1. n \in Tree(s)
      BY <1>4, <1>19
    <2>2. Done(s, NV, n, w)
      BY <2>1, AllDone
    <2> QED
      BY <1>3, <2>1, <2>2 DEF LoopInv, Unambiguous
  <1>26. NetworksFirst(t)
    <2>1. ASSUME NEW x \in Tree(t) \cap Routers, NEW c \in Networks \ Tree(t)
          PROVE  Dist(root, x) < Dist(root, c)
      <3>1. CASE x = h
        BY <1>4, <1>14, <3>1
      <3>2. CASE x \in Tree(s)
        BY <1>4, <3>2 DEF LoopInv, NetworksFirst
      <3> QED
        BY <1>4, <3>1, <3>2
    <2>2. ASSUME h \in Networks, NEW x \in Tree(t) \cap Routers
          PROVE  s.dist[x] < s.dist[h]
      <3>1. x \in Tree(s)
        BY <1>2, <1>4, <2>2, VertexNumbers
      <3>2. Dist(root, x) < Dist(root, h)
        BY <1>2, <2>2, <3>1 DEF LoopInv, NetworksFirst
      <3> QED
        BY <1>11, <1>12, <3>1, <3>2
    <2> QED
      BY <1>3, <2>1, <2>2 DEF NetworksFirst
  <1>27. Bounded(t)
    <2>0. IsFiniteSet(Tree(s) \cap Routers) /\ MaxMetric \in Nat
      BY <1>0, VertexNumbers, FS_Subset, MetricBounds
    <2>1. CASE h \in Routers
      <3>1. Tree(t) \cap Routers = (Tree(s) \cap Routers) \cup {h} /\ h \notin Tree(s) \cap Routers
        BY <1>2, <1>4, <2>1
      <3>2. /\ Cardinality(Tree(t) \cap Routers) = Cardinality(Tree(s) \cap Routers) + 1
            /\ Cardinality(Tree(s) \cap Routers) \in Nat
        <4>1. Cardinality(Tree(s) \cap Routers) \in Nat
          BY <2>0, FS_CardinalityType
        <4>2. Cardinality((Tree(s) \cap Routers) \cup {h}) = Cardinality(Tree(s) \cap Routers) + 1
          BY <2>0, <3>1, FS_AddElement
        <4> QED
          BY <3>1, <4>1, <4>2
      <3> DEFINE k == Cardinality(Tree(s) \cap Routers)
      <3>3. Reach(s) = MaxMetric * k /\ Reach(t) = MaxMetric * (k + 1) /\ k \in Nat
        BY <3>2 DEF Reach
      <3> HIDE DEF k
      <3>4. Reach(t) = Reach(s) + MaxMetric /\ Reach(s) \in Nat
        BY <2>0, <3>3
      <3>5. \A x \in Vertices : s.dist[x] <= Reach(s)
        BY DEF LoopInv, Bounded
      <3> QED
        BY <1>2, <1>3, <1>5, <2>0, <3>4, <3>5 DEF Bounded
    <2>2. CASE h \in Networks
      <3>1. Tree(t) \cap Routers = Tree(s) \cap Routers /\ h \notin Routers
        BY <1>2, <1>4, <2>2, VertexNumbers
      <3> QED
        BY <1>3, <3>1 DEF LoopInv, Bounded, Reach
    <2> QED
      BY <1>2, <2>1, <2>2, VertexNumbers
  <1>28. LoopInv(t, 0)
    BY <1>0, <1>3, <1>4, <1>20, <1>21, <1>22, <1>23, <1>24, <1>25, <1>26, <1>27 DEF LoopInv
  <1> QED
    BY <1>2, <1>3, <1>4, <1>28

(* The tree is complete when the queue is empty, and no network was        *)
(* ambiguous.                                                              *)
LEMMA TreeComplete ==
  ASSUME Measured, root \in Routers, NEW s, LoopInv(s, NV), s.candidate = << >>
  PROVE  /\ \A v \in Vertices : v \in Tree(s) <=> Dist(root, v) < Infinity
         /\ ~ EqualCostNetwork(root, AllDistances)
  <1>0. /\ s \in SpfStates /\ root \in Vertices /\ QueueOK(s.candidate, s.dist, Waiting(s))
        /\ \A v \in Tree(s) : s.dist[v] = Dist(root, v)
    BY VertexNumbers DEF LoopInv, Exact
  <1>1. Waiting(s) = {}
    <2>1. \A c \in Waiting(s) : \E i \in 1 .. Len(s.candidate) : s.candidate[i] = c
      BY <1>0 DEF QueueOK
    <2> QED
      BY <2>1
  <1>2. \A v \in Vertices : s.dist[v] \in Nat /\ s.dist[v] < Infinity
    <2>1. \A v \in Vertices : s.dist[v] \in Nat /\ s.dist[v] <= Reach(s)
      BY <1>0, SpfFields DEF LoopInv, Bounded
    <2> QED
      BY <2>1, ReachBound, MetricBounds
  <1>3. s.dist[s.current] <= Infinity /\ Infinity \in Nat /\ Infinity <= Infinity
    BY <1>0, <1>2, SpfFields, MetricBounds
  <1>4. \A y \in Vertices \ Tree(s) : Infinity <= Dist(root, y)
    BY <1>1, <1>3, NearestOutside
  <1>5. \A v \in Vertices : Dist(root, v) \in Nat /\ AllDistances[root][v] = Dist(root, v)
    BY <1>0, DistIs
  <1>6. \A v \in Vertices : v \in Tree(s) <=> Dist(root, v) < Infinity
    BY <1>0, <1>2, <1>3, <1>4, <1>5
  <1>7. ASSUME NEW n \in Networks, NEW w \in Attached(n) \ {root},
               AllDistances[root][n] < Infinity, AllDistances[root][n] <= AllDistances[root][w],
               Cardinality(FirstHops(root, n, AllDistances)) > 1
        PROVE  FALSE
    <2>1. n \in Vertices /\ n \notin Routers /\ n # root /\ w \in Vertices /\ w \in Neighbours(n)
      BY VertexNumbers DEF Attached, Neighbours
    <2>2. n \in Tree(s)
      BY <1>5, <1>6, <1>7, <2>1
    <2>3. s.exits[n] = FH(root, n)
      BY <2>1, <2>2 DEF LoopInv, Exact
    <2>4. Cardinality(s.exits[n]) > 1
      BY <1>7, <2>3 DEF FH
    <2>5. Dist(root, w) < Dist(root, n)
      BY <2>1, <2>2, <2>4, AllDone DEF LoopInv, Unambiguous
    <2> QED
      BY <1>5, <1>7, <2>1, <2>5
  <1>8. ~ EqualCostNetwork(root, AllDistances)
    BY <1>7 DEF EqualCostNetwork
  <1> QED
    BY <1>6, <1>8

(* While the topology is the same, so is all that is said about it. *)
LEMMA SameTopology ==
  ASSUME UNCHANGED <<link, att>>
  PROVE  /\ \A u, w : Neighbours(u)' = Neighbours(u) /\ Cost(u, w)' = Cost(u, w) /\ Dist(u, w)' = Dist(u, w)
         /\ \A u : PointToPoints(u)' = PointToPoints(u) /\ Transits(u)' = Transits(u) /\ Attached(u)' = Attached(u)
         /\ AllDistances' = AllDistances
         /\ \A r, w : FH(r, w)' = FH(r, w) /\ Tight(r, w)' = Tight(r, w)
         /\ \A r : EqualCostNetwork(r, AllDistances)' <=> EqualCostNetwork(r, AllDistances)
         /\ \A r : IsStub(r)' <=> IsStub(r)
         /\ \A v : IntraDestinations(v)' = IntraDestinations(v)
         /\ Measured' <=> Measured
  <1>1. \A u, w : Neighbours(u)' = Neighbours(u) /\ Cost(u, w)' = Cost(u, w)
    BY DEF Neighbours, Cost, PointToPoints, Transits, Attached
  <1>2. \A u : PointToPoints(u)' = PointToPoints(u) /\ Transits(u)' = Transits(u) /\ Attached(u)' = Attached(u)
    BY DEF PointToPoints, Transits, Attached
  <1>3. Topology' = Topology
    BY <1>1 DEF Topology
  <1>4. AllDistances' = AllDistances
    BY <1>3 DEF AllDistances
  <1>5. \A u, w : Dist(u, w)' = Dist(u, w)
    BY <1>3 DEF Dist
  <1>6. \A r, w, d : FirstHops(r, w, d)' = FirstHops(r, w, d)
    BY DEF FirstHops, PointToPoints, Transits
  <1>7. \A r, w : FH(r, w)' = FH(r, w)
    BY <1>4, <1>6 DEF FH
  <1>8. \A r, w : Tight(r, w)' = Tight(r, w)
    BY <1>1, <1>5 DEF Tight
  <1>9. \A r : EqualCostNetwork(r, AllDistances)' <=> EqualCostNetwork(r, AllDistances)
    BY <1>2, <1>4, <1>6 DEF EqualCostNetwork
  <1>10. \A r : IsStub(r)' <=> IsStub(r)
    BY <1>2 DEF IsStub
  <1>11. \A v : IntraDestinations(v)' = IntraDestinations(v)
    BY <1>2 DEF IntraDestinations
  <1>12. Measured' <=> Measured
    BY DEF Measured
  <1> QED
    BY <1>1, <1>2, <1>4, <1>5, <1>7, <1>8, <1>9, <1>10, <1>11, <1>12

(* The invariant of the loop is about the topology and the root only.      *)
LEMMA SameLoop ==
  ASSUME UNCHANGED <<link, att, root>>
  PROVE  \A s, i : LoopInv(s, i)' <=> LoopInv(s, i)
  <1>0. /\ \A u, w : Neighbours(u)' = Neighbours(u) /\ Cost(u, w)' = Cost(u, w) /\ Dist(u, w)' = Dist(u, w)
        /\ \A r, w : FH(r, w)' = FH(r, w) /\ Tight(r, w)' = Tight(r, w)
    BY SameTopology
  <1> SUFFICES ASSUME NEW s, NEW i PROVE LoopInv(s, i)' <=> LoopInv(s, i)
    OBVIOUS
  <1>1. Explored(s, i)' <=> Explored(s, i)
    BY <1>0 DEF Explored, Done, Tree
  <1>2. Ordered(s)' <=> Ordered(s)
    BY <1>0 DEF Ordered, Tree, Waiting
  <1>3. \A u, w : SPFNexthopCalculation(s, u, w)' = SPFNexthopCalculation(s, u, w)
    BY DEF SPFNexthopCalculation
  <1>4. \A w : Offers(s, i, w)' = Offers(s, i, w)
    BY <1>0 DEF Offers, Tree, Done
  <1>5. Offered(s, i)' <=> Offered(s, i)
    BY <1>3, <1>4 DEF Offered, Waiting
  <1>6. Exact(s)' <=> Exact(s)
    BY <1>0 DEF Exact, Tree
  <1>7. Unambiguous(s, i)' <=> Unambiguous(s, i)
    BY <1>0 DEF Unambiguous, Tree, Done
  <1>8. NetworksFirst(s)' <=> NetworksFirst(s)
    BY <1>0 DEF NetworksFirst, Tree
  <1>9. Bounded(s)' <=> Bounded(s)
    BY DEF Bounded, Reach, Tree
  <1> QED
    BY <1>1, <1>2, <1>5, <1>6, <1>7, <1>8, <1>9 DEF LoopInv, Tree, Waiting, QueueOK, CompareSPFVertex, SpfStates

(* Whether a table is right depends on the table and the topology only.    *)
LEMMA SameTable ==
  ASSUME UNCHANGED <<link, att>>, NEW r, routes'[r] = routes[r]
  PROVE  TableOK(r)' <=> TableOK(r)
  <1>1. \A t : Found(r, t)' = Found(r, t)
    BY DEF Found
  <1>2. /\ \A u, w : Dist(u, w)' = Dist(u, w)
        /\ \A u : PointToPoints(u)' = PointToPoints(u)
        /\ \A w : FH(r, w)' = FH(r, w)
        /\ IsStub(r)' <=> IsStub(r)
        /\ \A v : IntraDestinations(v)' = IntraDestinations(v)
    BY SameTopology
  <1> QED
    BY <1>1, <1>2 DEF TableOK, DestOf

(* The destinations of the routes are different ones. *)
LEMMA DestinationsDiffer ==
  /\ \A u \in Vertices, v \in Vertices : DestOf(u) = DestOf(v) => u = v
  /\ \A v \in Vertices : DestOf(v) # Default /\ \A a, b : Subnet(a, b) # DestOf(v) /\ Subnet(a, b) # Default
  /\ \A v \in Vertices : IntraDestinations(v) = {} \/ IntraDestinations(v) = {DestOf(v)}
  /\ \A v \in Vertices : DestOf(v) \in Destinations
  /\ Default \in Destinations
  /\ \A a \in Routers, b \in Routers : Subnet(a, b) \in Destinations
  <1>1. \A u, v : Host(u) # Net(v) /\ (Host(u) = Host(v) => u = v) /\ (Net(u) = Net(v) => u = v)
    BY DEF Host, Net
  <1>2. \A u : Host(u)[1] = "host" /\ Net(u)[1] = "net" /\ Default[1] = "default"
    BY DEF Host, Net, Default
  <1>3. \A a, b : Subnet(a, b)[1] = "stub"
    BY DEF Subnet
  <1>4. \A v \in Vertices : v \in Routers <=> v \notin Networks
    BY VertexNumbers
  <1>5. \A u \in Vertices, v \in Vertices : DestOf(u) = DestOf(v) => u = v
    BY <1>1 DEF DestOf
  <1>6. \A v \in Vertices : DestOf(v) # Default /\ \A a, b : Subnet(a, b) # DestOf(v) /\ Subnet(a, b) # Default
    BY <1>2, <1>3 DEF DestOf
  <1>7. \A v \in Vertices : IntraDestinations(v) = {} \/ IntraDestinations(v) = {DestOf(v)}
    BY DEF IntraDestinations, DestOf
  <1>8. \A v \in Vertices : DestOf(v) \in Destinations
    BY <1>4 DEF DestOf, Destinations
  <1>9. \A a \in Routers, b \in Routers : Subnet(a, b) \in Destinations
    <2> SUFFICES ASSUME NEW a \in Routers, NEW b \in Routers PROVE Subnet(a, b) \in Destinations
      OBVIOUS
    <2>1. <<a, b>> \in Routers \X Routers /\ <<a, b>>[1] = a /\ <<a, b>>[2] = b
      OBVIOUS
    <2> QED
      BY <2>1, Zenon DEF Destinations
  <1> QED
    BY <1>5, <1>6, <1>7, <1>8, <1>9 DEF Destinations

(* The first state of a calculation, for any root. *)
LEMMA InitializeSound ==
  ASSUME NEW r \in Routers
  PROVE  /\ Initialize(r) \in SpfStates /\ QueueOK(Initialize(r).candidate, Initialize(r).dist, Waiting(Initialize(r)))
         /\ \A v \in Vertices : Initialize(r).dist[v] <= Infinity
         /\ Initialize(r).failed = FALSE
  <1> DEFINE s == Initialize(r)
  <1>0. /\ s.status = [v \in Vertices |-> IF v = r THEN "tree" ELSE "unexplored"]
        /\ s.dist = [v \in Vertices |-> 0] /\ s.candidate = << >> /\ ~ s.failed
        /\ s \in SpfStates
    BY VertexNumbers DEF Initialize, SpfStates
  <1>1. /\ s.status = [v \in Vertices |-> IF v = r THEN "tree" ELSE "unexplored"]
        /\ s.dist = [v \in Vertices |-> 0] /\ s.candidate = << >> /\ s.failed = FALSE
        /\ s \in SpfStates
    <2>1. s.failed \in BOOLEAN
      BY <1>0, SpfFields
    <2> HIDE DEF s
    <2> QED
      BY <1>0, <2>1
  <1> HIDE DEF s
  <1>2. Waiting(s) = {}
    BY <1>1 DEF Waiting
  <1>3. QueueOK(s.candidate, s.dist, Waiting(s))
    BY <1>1, <1>2 DEF QueueOK
  <1>4. \A v \in Vertices : s.dist[v] <= Infinity
    BY <1>1, MetricBounds
  <1> QED
    BY <1>1, <1>3, <1>4 DEF s

(* An invariant of the loop bounds the distances. *)
LEMMA LoopSound ==
  ASSUME NEW s, NEW i, LoopInv(s, i)
  PROVE  /\ s \in SpfStates /\ QueueOK(s.candidate, s.dist, Waiting(s))
         /\ \A v \in Vertices : s.dist[v] <= Infinity
  <1>1. s \in SpfStates /\ QueueOK(s.candidate, s.dist, Waiting(s))
    BY DEF LoopInv
  <1>2. \A v \in Vertices : s.dist[v] \in Nat /\ s.dist[v] <= Reach(s)
    BY <1>1, SpfFields DEF LoopInv, Bounded
  <1>3. \A v \in Vertices : s.dist[v] <= Infinity
    BY <1>2, ReachBound, MetricBounds
  <1> QED
    BY <1>1, <1>3

(* Two routers have a pair. *)
LEMMA PairCardinality ==
  ASSUME NEW a, NEW b, a # b PROVE Cardinality({a, b}) = 2
  <1>1. IsFiniteSet({a}) /\ Cardinality({a}) = 1
    BY FS_Singleton
  <1>2. Cardinality({a} \cup {b}) = Cardinality({a}) + 1
    BY <1>1, FS_AddElement
  <1>3. {a} \cup {b} = {a, b}
    OBVIOUS
  <1> QED
    BY <1>1, <1>2, <1>3

(* The state in which the first calculation starts.                        *)
LEMMA RouteInit == Init => RouteInv
  <1> SUFFICES ASSUME Init PROVE RouteInv
    OBVIOUS
  <1>1. Measured
    <2>1. PICK m \in [{p \in SUBSET Routers : Cardinality(p) = 2} -> Metrics \cup {0}] :
             link = [a \in Routers |-> [b \in Routers |-> IF a = b THEN 0 ELSE m[{a, b}]]]
      BY DEF Init
    <2>2. ASSUME NEW a \in Routers, NEW b \in Routers, a # b
          PROVE  m[{a, b}] \in Metrics \cup {0}
      <3>1. {a, b} \in {p \in SUBSET Routers : Cardinality(p) = 2}
        BY <2>2, PairCardinality
      <3> QED
        BY <2>1, <3>1
    <2>3. link \in [Routers -> [Routers -> Metrics \cup {0}]]
      BY <2>1, <2>2
    <2>4. \A n \in Networks, a \in Routers : att[n][a] \in {0, NetMetric[a]}
      BY DEF Init
    <2> QED
      BY <2>3, <2>4 DEF Measured
  <1>2. 1 \in Routers /\ root = 1 /\ pc = "start" /\ spf = Initialize(1) /\ routes = [r \in Routers |-> {}]
    BY RoutesAssumption DEF Init, Routers
  <1>3. Trees
    BY <1>2, InitializeSound DEF Trees
  <1>4. Tables
    BY <1>2 DEF Tables, Routers
  <1> QED
    BY <1>1, <1>2, <1>3, <1>4 DEF RouteInv

(* A stuttering step keeps the invariant.                                  *)
LEMMA RouteStutter == RouteInv /\ UNCHANGED vars => RouteInv'
  <1> SUFFICES ASSUME RouteInv, UNCHANGED vars PROVE RouteInv'
    OBVIOUS
  <1>0. /\ UNCHANGED <<link, att, root>> /\ UNCHANGED <<link, att>> /\ spf' = spf /\ pc' = pc /\ routes' = routes /\ root' = root
    BY DEF vars
  <1>1. Measured' /\ root' \in Routers /\ pc' \in {"start", "next", "pop", "stubs", "done", "failed"}
    BY <1>0, SameTopology DEF RouteInv
  <1>2. LoopInv(spf, 0)' <=> LoopInv(spf, 0)
    BY <1>0, SameLoop
  <1>3. LoopInv(spf, NV)' <=> LoopInv(spf, NV)
    BY <1>0, SameLoop DEF NV
  <1>4. Trees'
    BY <1>0, <1>2, <1>3, SameTopology DEF RouteInv, Trees, QueueOK, CompareSPFVertex, Waiting
  <1>5. \A r \in Routers : TableOK(r)' <=> TableOK(r)
    BY <1>0, SameTable
  <1>6. TableGrows' <=> TableGrows
    BY <1>0, SameTopology DEF TableGrows, Found, DestOf, Tree
  <1>7. Tables'
    BY <1>0, <1>5, <1>6 DEF RouteInv, Tables
  <1> QED
    BY <1>1, <1>4, <1>7 DEF RouteInv

(* The calculation of a root starts with an empty table. *)
LEMMA RouteCalculate == RouteInv /\ SPFCalculate => RouteInv'
  <1> SUFFICES ASSUME RouteInv, SPFCalculate PROVE RouteInv'
    OBVIOUS
  <1>0. /\ UNCHANGED <<link, att, root>> /\ UNCHANGED <<link, att>> /\ routes' = routes /\ root' = root
        /\ pc = "start" /\ pc' = "next" /\ spf' = Initialize(root) /\ root \in Routers /\ Measured
        /\ (Transits(root) # {} \/ Cardinality(PointToPoints(root)) > 1) /\ routes[root] = {}
    BY DEF SPFCalculate, RouteInv, Tables
  <1>1. Measured' /\ root' \in Routers
    BY <1>0, SameTopology
  <1>2. LoopInv(Initialize(root), 0) /\ Tree(Initialize(root)) = {root}
    BY <1>0, StartKeeps
  <1>3. LoopInv(spf, 0)'
    BY <1>0, <1>2, SameLoop
  <1>4. Trees'
    BY <1>0, <1>3, InitializeSound DEF Trees
  <1>5. \A r \in Routers : TableOK(r)' <=> TableOK(r)
    BY <1>0, SameTable
  <1>6. TableGrows'
    <2>1. ~ IsStub(root)
      <3>1. IsFiniteSet(PointToPoints(root))
        BY VertexNumbers, FS_Subset DEF PointToPoints
      <3>2. Cardinality(PointToPoints(root)) \in Nat
        BY <3>1, FS_CardinalityType
      <3> QED
        BY <1>0, <3>2 DEF IsStub
    <2>2. ~ IsStub(root)'
      BY <1>0, <2>1, SameTopology
    <2>3. \A t : Found(root, t)' = {}
      BY <1>0 DEF Found
    <2>4. Tree(spf)' = {root}
      BY <1>0, <1>2 DEF Tree
    <2> QED
      BY <1>0, <2>2, <2>3, <2>4 DEF TableGrows
  <1>7. Tables'
    BY <1>0, <1>5, <1>6 DEF RouteInv, Tables
  <1> QED
    BY <1>0, <1>1, <1>4, <1>7 DEF RouteInv

(* SPFNext leaves the tree and the tables. *)
LEMMA RouteSPFNext == RouteInv /\ SPFNext => RouteInv'
  <1> SUFFICES ASSUME RouteInv, SPFNext PROVE RouteInv'
    OBVIOUS
  <1>0. /\ UNCHANGED <<link, att, root>> /\ UNCHANGED <<link, att>> /\ routes' = routes /\ root' = root
        /\ pc = "next" /\ root \in Routers /\ Measured /\ spf' \in ConsiderAll(spf, spf.current)
        /\ pc' = IF spf'.failed THEN "failed" ELSE IF spf'.candidate = << >> THEN "stubs" ELSE "pop"
        /\ LoopInv(spf, 0) /\ spf.failed = (pc = "failed") /\ TableGrows
    BY DEF SPFNext, RouteInv, Tables, Trees
  <1>1. Measured' /\ root' \in Routers
    BY <1>0, SameTopology
  <1>2. LoopState(spf', NV) /\ Tree(spf') = Tree(spf)
    BY <1>0, LoopKeeps
  <1>3. \E j : LoopInv(spf', j)
    BY <1>2 DEF LoopState
  <1>4. /\ spf' \in SpfStates /\ QueueOK(spf'.candidate, spf'.dist, Waiting(spf'))
        /\ \A v \in Vertices : spf'.dist[v] <= Infinity
    BY <1>3, LoopSound
  <1>5. spf'.failed \in BOOLEAN
    BY <1>4, SpfFields
  <1>6. ~ spf'.failed => LoopInv(spf, NV)'
    BY <1>0, <1>2, SameLoop DEF LoopState, NV
  <1>7. spf'.failed => EqualCostNetwork(root, AllDistances)'
    BY <1>0, <1>2, SameTopology DEF LoopState
  <1>8. Trees'
    BY <1>0, <1>4, <1>5, <1>6, <1>7 DEF Trees, Waiting, QueueOK, CompareSPFVertex
  <1>9. \A r \in Routers : TableOK(r)' <=> TableOK(r)
    BY <1>0, SameTable
  <1>10. TableGrows'
    <2>1. \A t : Found(root, t)' = Found(root, t)
      BY <1>0 DEF Found
    <2>2. Tree(spf)' = Tree(spf)
      BY <1>2 DEF Tree
    <2> QED
      BY <1>0, <2>1, <2>2, SameTopology DEF TableGrows, DestOf
  <1>11. Tables'
    BY <1>0, <1>9, <1>10 DEF RouteInv, Tables
  <1> QED
    BY <1>0, <1>1, <1>8, <1>11 DEF RouteInv

(* What a table answers after routes were added to it. *)
LEMMA FoundAfter ==
  ASSUME NEW r, NEW D, NEW X, routes'[r] = routes[r] \cup (D \X X), NEW t
  PROVE  Found(r, t)' = IF t \in D THEN Found(r, t) \cup X ELSE Found(r, t)
  <1>1. \A x \in D \X X : x[1] \in D /\ x[2] \in X
    OBVIOUS
  <1>2. \A a \in D, b \in X : <<a, b>> \in D \X X /\ <<a, b>>[1] = a /\ <<a, b>>[2] = b
    OBVIOUS
  <1>3. CASE t \in D
    <2>1. Found(r, t)' = Found(r, t) \cup {e[2] : e \in {x \in D \X X : x[1] = t}}
      BY DEF Found
    <2>2. {e[2] : e \in {x \in D \X X : x[1] = t}} = X
      <3>1. \A b \in X : <<t, b>> \in {x \in D \X X : x[1] = t} /\ <<t, b>>[2] = b
        BY <1>2, <1>3
      <3>2. \A b \in X : b \in {e[2] : e \in {x \in D \X X : x[1] = t}}
        BY <3>1
      <3> QED
        BY <1>1, <3>2
    <2> QED
      BY <1>3, <2>1, <2>2
  <1>4. CASE t \notin D
    <2>1. {x \in routes'[r] : x[1] = t} = {x \in routes[r] : x[1] = t}
      BY <1>1, <1>4
    <2> QED
      BY <1>4, <2>1 DEF Found
  <1> QED
    BY <1>3, <1>4

(* Pop adds the nearest candidate to the tree and its routes to the table. *)
LEMMA RoutePop == RouteInv /\ Pop => RouteInv'
  <1> SUFFICES ASSUME RouteInv, Pop PROVE RouteInv'
    OBVIOUS
  <1> DEFINE h == Head(spf.candidate)
  <1>0. /\ UNCHANGED <<link, att, root>> /\ UNCHANGED <<link, att>> /\ root' = root
        /\ pc = "pop" /\ pc' = "next" /\ root \in Routers /\ Measured
        /\ LoopInv(spf, NV) /\ spf.failed = (pc = "failed") /\ TableGrows /\ spf.candidate # << >>
        /\ spf' = [spf EXCEPT !.candidate = Tail(@), !.status[h] = "tree", !.current = h]
        /\ routes' = [routes EXCEPT ![root] = @ \cup (IntraDestinations(h) \X spf.exits[h])]
        /\ routes \in [Routers -> SUBSET (Destinations \X Exits)]
    BY DEF Pop, RouteInv, Tables, Trees, AddRoutes
  <1>h. h = Head(spf.candidate)
    OBVIOUS
  <1> HIDE DEF h
  <1>R. PICK R : R = root
    OBVIOUS
  <1>1. Measured' /\ root' \in Routers
    BY <1>0, SameTopology
  <1>2. /\ LoopInv(spf', 0) /\ spf'.failed = spf.failed /\ spf'.exits = spf.exits
        /\ Tree(spf') = Tree(spf) \cup {h} /\ h \in Vertices \ Tree(spf) /\ h # root
    <2>1. spf' = Popped(spf, h)
      BY <1>0 DEF Popped
    <2> QED
      BY <1>0, <1>h, <2>1, PopKeeps
  <1>3. LoopInv(spf, 0)'
    BY <1>0, <1>2, SameLoop
  <1>4. /\ spf' \in SpfStates /\ QueueOK(spf'.candidate, spf'.dist, Waiting(spf'))
        /\ \A v \in Vertices : spf'.dist[v] <= Infinity
    BY <1>2, LoopSound
  <1>5. Trees'
    BY <1>0, <1>2, <1>3, <1>4 DEF Trees, Waiting, QueueOK, CompareSPFVertex
  <1>6. spf.exits[h] = FH(root, h)
    <2>1. h \in Tree(spf')
      BY <1>2
    <2> QED
      BY <1>2, <2>1 DEF LoopInv, Exact
  <1>7. /\ routes'[R] = routes[R] \cup (IntraDestinations(h) \X spf.exits[h])
        /\ \A r \in Routers \ {root} : routes'[r] = routes[r]
    BY <1>0, <1>R
  <1>8. routes' \in [Routers -> SUBSET (Destinations \X Exits)]
    <2>1. IntraDestinations(h) \subseteq Destinations
      BY <1>2, DestinationsDiffer
    <2>2. spf.exits[h] \subseteq Exits
      BY <1>6, <1>0, HopsAreExits
    <2> QED
      BY <1>0, <2>1, <2>2
  <1>9. \A r \in Routers \ {root} : TableOK(r)' <=> TableOK(r)
    BY <1>0, <1>7, SameTable
  <1>10. TableGrows'
    <2>1. \A t : Found(R, t)' = IF t \in IntraDestinations(h) THEN Found(R, t) \cup spf.exits[h] ELSE Found(R, t)
      BY <1>7, FoundAfter
    <2>2. Tree(spf)' = Tree(spf) \cup {h}
      BY <1>2 DEF Tree
    <2>3. Found(R, Default)' = {}
      BY <1>0, <1>R, <1>2, <2>1, DestinationsDiffer DEF TableGrows
    <2>4. ASSUME NEW v \in Vertices \ {R}
          PROVE  Found(R, DestOf(v))' = IF v \in Tree(spf)' /\ IntraDestinations(v)' # {}
                                           THEN FH(R, v)' ELSE {}
      <3>0. IntraDestinations(v)' = IntraDestinations(v) /\ FH(R, v)' = FH(R, v)
        BY <1>0, SameTopology
      <3>1. Found(R, DestOf(v)) = IF v \in Tree(spf) /\ IntraDestinations(v) # {}
                                     THEN FH(R, v) ELSE {}
        BY <1>0, <1>R DEF TableGrows
      <3>2. Found(R, DestOf(v))' = IF DestOf(v) \in IntraDestinations(h)
                                      THEN Found(R, DestOf(v)) \cup spf.exits[h] ELSE Found(R, DestOf(v))
        <4>1. DestOf(v)' = DestOf(v)
          BY DEF DestOf, Networks, Net, Host
        <4> QED
          BY <2>1, <4>1
      <3>3. CASE v = h
        BY <1>R, <1>2, <1>6, <2>2, <3>0, <3>1, <3>2, <3>3, DestinationsDiffer
      <3>4. CASE v # h
        <4>1. DestOf(v) \notin IntraDestinations(h)
          BY <1>2, <3>4, DestinationsDiffer
        <4> QED
          BY <2>2, <3>0, <3>1, <3>2, <3>4, <4>1
      <3> QED
        BY <3>3, <3>4
    <2>5. ~ IsStub(R)'
      BY <1>0, <1>R, SameTopology DEF TableGrows
    <2> QED
      BY <1>0, <1>R, <2>3, <2>4, <2>5 DEF TableGrows
  <1>11. Tables'
    <2>1. \A r \in Routers : r < root => r \in Routers \ {root}
      BY <1>0 DEF Routers
    <2>2. \A r \in Routers : r > root => r \in Routers \ {root}
      BY <1>0 DEF Routers
    <2> QED
      BY <1>0, <1>7, <1>8, <1>9, <1>10, <2>1, <2>2 DEF RouteInv, Tables
  <1> QED
    BY <1>0, <1>1, <1>5, <1>11 DEF RouteInv

(* A finished table, and on to the next router. *)
LEMMA NextRouterTables ==
  ASSUME RouteInv, pc # "done", NextRouter, UNCHANGED <<link, att>>,
         routes' \in [Routers -> SUBSET (Destinations \X Exits)],
         \A r \in Routers \ {root} : routes'[r] = routes[r],
         NEW R, R = root, TableOK(R)'
  PROVE  Tables' /\ root' \in Routers /\ pc' \in {"start", "done"}
  <1>0. root \in Routers /\ Routers = 1 .. NRouters /\ NRouters \in Nat /\ NRouters >= 1
    BY RoutesAssumption DEF RouteInv, Routers
  <1>1. \A r \in Routers : r < R => TableOK(r)'
    <2> SUFFICES ASSUME NEW r \in Routers, r < R PROVE TableOK(r)'
      OBVIOUS
    <2>1. r # root /\ TableOK(r)
      BY <1>0 DEF RouteInv, Tables
    <2> QED
      BY <2>1, SameTable
  <1>2. \A r \in Routers : r > root => routes'[r] = {}
    BY <1>0 DEF RouteInv, Tables
  <1>3. CASE root < NRouters
    <2>1. root' = root + 1 /\ pc' = "start" /\ root + 1 \in Routers
      BY <1>0, <1>3 DEF NextRouter
    <2>2. \A r \in Routers : r < root + 1 => r < R \/ r = R
      BY <1>0
    <2>3. \A r \in Routers : r < root' => TableOK(r)'
      BY <1>1, <2>1, <2>2
    <2>4. \A r \in Routers : r > root' => routes'[r] = {}
      BY <1>0, <1>2, <2>1
    <2>5. routes'[root'] = {}
      BY <1>0, <1>2, <2>1
    <2> QED
      BY <2>1, <2>3, <2>4, <2>5 DEF Tables
  <1>4. CASE ~ (root < NRouters)
    <2>1. root' = 1 /\ pc' = "done" /\ 1 \in Routers
      BY <1>0, <1>4 DEF NextRouter
    <2>2. \A r \in Routers : r < R \/ r = R
      BY <1>0, <1>4
    <2>3. \A r \in Routers : TableOK(r)'
      BY <1>1, <2>2
    <2> QED
      BY <2>1, <2>3 DEF Tables
  <1> QED
    BY <1>3, <1>4

(* The default route of a stub node is its whole table.                    *)
LEMMA RouteStubNode == RouteInv /\ CheckForStubNode => RouteInv'
  <1> SUFFICES ASSUME RouteInv, CheckForStubNode PROVE RouteInv'
    OBVIOUS
  <1>R. PICK R : R = root
    OBVIOUS
  <1> DEFINE X == {<<h, h>> : h \in PointToPoints(R)}
  <1>0. /\ UNCHANGED <<link, att>> /\ pc = "start" /\ Measured /\ NextRouter /\ IsStub(R)
        /\ spf' = Initialize(R) /\ R \in Routers /\ routes[R] = {}
        /\ routes' = [routes EXCEPT ![R] = @ \cup ({Default} \X X)]
        /\ routes \in [Routers -> SUBSET (Destinations \X Exits)]
    BY <1>R DEF CheckForStubNode, RouteInv, Tables, AddRoutes, IsStub
  <1>1. Measured'
    BY <1>0, SameTopology
  <1>2. X \subseteq Exits
    <2>1. \A h \in PointToPoints(R) : h \in Routers /\ h \in Vertices
      BY VertexNumbers DEF PointToPoints
    <2> QED
      BY <2>1 DEF Exits
  <1>3. /\ routes' \in [Routers -> SUBSET (Destinations \X Exits)]
        /\ routes'[R] = {Default} \X X
        /\ \A r \in Routers \ {root} : routes'[r] = routes[r]
    <2> HIDE DEF X
    <2>1. Default \in Destinations
      BY DestinationsDiffer
    <2> QED
      BY <1>0, <1>R, <1>2, <2>1
  <1>4. TableOK(R)'
    BY <1>0, <1>3, SameTopology DEF TableOK
  <1>5. Tables' /\ root' \in Routers /\ pc' \in {"start", "done"}
    BY <1>0, <1>R, <1>3, <1>4, NextRouterTables
  <1>6. Trees'
    BY <1>0, <1>5, InitializeSound DEF Trees
  <1> QED
    BY <1>1, <1>5, <1>6 DEF RouteInv

(* SPFProcessStubs adds routes to subnets of links only, and ends the      *)
(* table of the root.                                                      *)
LEMMA RouteStubs == RouteInv /\ SPFProcessStubs => RouteInv'
  <1> SUFFICES ASSUME RouteInv, SPFProcessStubs PROVE RouteInv'
    OBVIOUS
  <1>R. PICK R : R = root
    OBVIOUS
  <1> DEFINE W == (Descendants \cap Routers) \ {root}
             X == UNION {{Subnet(v, u) : u \in PointToPoints(v)} \X spf.exits[v] : v \in W}
  <1>0. /\ UNCHANGED <<link, att>> /\ pc = "stubs" /\ Measured /\ NextRouter /\ spf' = spf
        /\ R \in Routers /\ TableGrows /\ LoopInv(spf, NV) /\ spf.candidate = << >>
        /\ routes' = [routes EXCEPT ![root] = @ \cup X]
        /\ routes \in [Routers -> SUBSET (Destinations \X Exits)]
        /\ Trees
    BY <1>R DEF SPFProcessStubs, RouteInv, Tables, Trees
  <1>1. Measured'
    BY <1>0, SameTopology
  <1>2. X \subseteq Destinations \X Exits /\ \A x \in X : \E a, b : x[1] = Subnet(a, b)
    <2>1. \A v \in W : v \in Routers /\ v \in Vertices /\ PointToPoints(v) \subseteq Routers
      BY VertexNumbers DEF PointToPoints
    <2>2. \A v \in W : spf.exits[v] \subseteq Exits
      BY <1>0, <2>1, SpfFields DEF Trees
    <2> HIDE DEF W
    <2>3. \A v \in W : \A u \in PointToPoints(v) : Subnet(v, u) \in Destinations
      BY <2>1, DestinationsDiffer
    <2> QED
      BY <2>2, <2>3
  <1> HIDE DEF X
  <1>3. /\ routes' \in [Routers -> SUBSET (Destinations \X Exits)]
        /\ routes'[R] = routes[R] \cup X
        /\ \A r \in Routers \ {root} : routes'[r] = routes[r]
    BY <1>0, <1>R, <1>2
  <1>4. \A v \in Vertices : Found(R, DestOf(v))' = Found(R, DestOf(v))
    <2> SUFFICES ASSUME NEW v \in Vertices PROVE Found(R, DestOf(v))' = Found(R, DestOf(v))
      OBVIOUS
    <2>1. DestOf(v)' = DestOf(v)
      BY DEF DestOf, Networks, Net, Host
    <2>2. {x \in routes'[R] : x[1] = DestOf(v)} = {x \in routes[R] : x[1] = DestOf(v)}
      BY <1>2, <1>3, DestinationsDiffer
    <2> QED
      BY <2>1, <2>2 DEF Found
  <1>5. Found(R, Default)' = Found(R, Default)
    <2>1. 1 \in Vertices
      BY VertexNumbers
    <2>2. {x \in routes'[R] : x[1] = Default} = {x \in routes[R] : x[1] = Default}
      BY <1>2, <1>3, <2>1, DestinationsDiffer
    <2> QED
      BY <2>2 DEF Found
  <1>6. \A v \in Vertices : v \in Tree(spf) <=> Dist(R, v) < Infinity
    BY <1>0, <1>R, TreeComplete
  <1>7. TableOK(R)'
    <2>1. ~ IsStub(R) /\ Found(R, Default) = {}
      BY <1>0, <1>R DEF TableGrows
    <2>2. \A v \in Vertices \ {R} : Found(R, DestOf(v)) = IF Dist(R, v) < Infinity /\ IntraDestinations(v) # {}
                                                          THEN FH(R, v) ELSE {}
      BY <1>0, <1>R, <1>6 DEF TableGrows
    <2>3. /\ \A w : Dist(R, w)' = Dist(R, w) /\ FH(R, w)' = FH(R, w)
          /\ IsStub(R)' <=> IsStub(R)
          /\ \A v : IntraDestinations(v)' = IntraDestinations(v)
      BY <1>0, SameTopology
    <2> QED
      BY <1>4, <1>5, <2>1, <2>2, <2>3 DEF TableOK
  <1>8. Tables' /\ root' \in Routers /\ pc' \in {"start", "done"}
    BY <1>0, <1>R, <1>3, <1>7, NextRouterTables
  <1>9. Trees'
    BY <1>0, <1>8 DEF Trees, Waiting, QueueOK, CompareSPFVertex
  <1> QED
    BY <1>1, <1>8, <1>9 DEF RouteInv

(* RecomputeRoutingTables deletes all routes before it starts again.       *)
LEMMA RouteRecompute == RouteInv /\ RecomputeRoutingTables => RouteInv'
  <1> SUFFICES ASSUME RouteInv, RecomputeRoutingTables PROVE RouteInv'
    OBVIOUS
  <1>0. /\ att' = att /\ root' = root /\ pc = "done" /\ pc' = "start" /\ spf' = Initialize(1)
        /\ routes' = [r \in Routers |-> {}] /\ root = 1 /\ Measured /\ root \in Routers
    BY DEF RecomputeRoutingTables, RouteInv, Tables, NoRoutes
  <1>1. Measured'
    <2>1. PICK a \in Routers, b \in Routers, m \in Metrics :
             link' = [link EXCEPT ![a][b] = m, ![b][a] = m]
      BY DEF RecomputeRoutingTables, PointToPoints
    <2>3. link' \in [Routers -> [Routers -> Metrics \cup {0}]]
      BY <1>0, <2>1 DEF Measured
    <2> QED
      BY <1>0, <2>3 DEF Measured
  <1>2. Trees'
    BY <1>0, InitializeSound DEF Trees
  <1>3. Tables'
    <2>1. \A r \in Routers : ~ (r < 1)
      BY DEF Routers
    <2> QED
      BY <1>0, <2>1 DEF Tables
  <1> QED
    BY <1>0, <1>1, <1>2, <1>3 DEF RouteInv

(* The invariant of the specification: a tree that grows is exact at every *)
(* step of SPFCalculate, and a finished table holds the first hops of the  *)
(* shortest paths and nothing else.                                        *)
THEOREM RouteInvariant == Spec => []RouteInv
  <1>1. RouteInv /\ [Next]_vars => RouteInv'
    BY RouteStutter, RouteCalculate, RouteSPFNext, RoutePop, RouteStubs, RouteStubNode, RouteRecompute
       DEF Next, Calculation
  <1> QED
    BY <1>1, RouteInit, PTL DEF Spec

(* A function into the indices counts once. *)
LEMMA QueueCounts ==
  ASSUME NEW q, NEW dist, NEW C \in SUBSET Vertices, QueueOK(q, dist, C), NEW v \in Vertices
  PROVE  Cardinality({i \in DOMAIN q : q[i] = v}) = IF v \in C THEN 1 ELSE 0
  <1>1. /\ Len(q) \in Nat /\ DOMAIN q = 1 .. Len(q) /\ \A i \in 1 .. Len(q) : q[i] \in C
        /\ \A c \in C : \E i \in 1 .. Len(q) : q[i] = c
        /\ \A i, j \in 1 .. Len(q) : i < j => q[i] # q[j]
    BY DEF QueueOK
  <1>2. CASE v \in C
    <2>1. PICK k \in 1 .. Len(q) : q[k] = v
      BY <1>1, <1>2
    <2>2. {i \in DOMAIN q : q[i] = v} = {k}
      BY <1>1, <2>1
    <2> QED
      BY <1>2, <2>2, FS_Singleton
  <1>3. CASE v \notin C
    <2>1. {i \in DOMAIN q : q[i] = v} = {}
      BY <1>1, <1>3
    <2> QED
      BY <1>3, <2>1, FS_EmptySet
  <1> QED
    BY <1>2, <1>3

(* At every step of SPFCalculate the candidate queue holds each vertex     *)
(* whose LSA is LSA_SPF_CANDIDATE once, and no other, so that the Find of  *)
(* SPFNext never returns null; and it stays in the order that Pop relies   *)
(* on, also when SPFNext lowers the distance of a vertex in the middle and *)
(* reorders.                                                               *)
THEOREM QueueAgreesHolds == Spec => []QueueAgrees
  <1>1. RouteInv => QueueAgrees
    <2> SUFFICES ASSUME RouteInv PROVE QueueAgrees
      OBVIOUS
    <2>0. /\ spf \in SpfStates /\ QueueOK(spf.candidate, spf.dist, Waiting(spf))
          /\ \A v \in Vertices : spf.dist[v] <= Infinity
      BY DEF RouteInv, Trees
    <2>1. TypeOK
      <3>1. spf.dist \in [Vertices -> 0 .. Infinity]
        <4>1. spf.dist \in [Vertices -> Nat] /\ Infinity \in Nat
          BY <2>0, MetricBounds DEF SpfStates
        <4> QED
          BY <2>0, <4>1
      <3>2. /\ \A v \in Vertices : spf.parents[v] \subseteq Vertices /\ spf.exits[v] \subseteq Exits
            /\ spf.current \in Vertices
        BY <2>0, SpfFields
      <3>3. spf.status \in [Vertices -> {"unexplored", "candidate", "tree"}]
        BY <2>0 DEF SpfStates
      <3>4. \A r \in Routers : routes[r] \subseteq Destinations \X Exits
        BY DEF RouteInv, Tables
      <3>5. spf.failed = (pc = "failed")
        BY DEF RouteInv, Trees
      <3> QED
        BY <3>1, <3>2, <3>3, <3>4, <3>5 DEF TypeOK, RouteInv, Measured
    <2>2. \A v \in Vertices : Cardinality({i \in DOMAIN spf.candidate : spf.candidate[i] = v})
                                = IF spf.status[v] = "candidate" THEN 1 ELSE 0
      <3>1. Waiting(spf) \in SUBSET Vertices /\ \A v \in Vertices : v \in Waiting(spf) <=> spf.status[v] = "candidate"
        BY DEF Waiting
      <3> QED
        BY <2>0, <3>1, QueueCounts
    <2>3. \A i \in 1 .. (Len(spf.candidate) - 1) :
             ~ CompareSPFVertex(spf.dist, spf.candidate[i + 1], spf.candidate[i])
      <3>1. Len(spf.candidate) \in Nat
        BY <2>0 DEF QueueOK
      <3>2. \A i \in 1 .. (Len(spf.candidate) - 1) :
               i \in 1 .. Len(spf.candidate) /\ i + 1 \in 1 .. Len(spf.candidate) /\ i < i + 1
        BY <3>1
      <3> QED
        BY <2>0, <3>2 DEF QueueOK
    <2> QED
      BY <2>1, <2>2, <2>3 DEF QueueAgrees
  <1> QED
    BY <1>1, RouteInvariant, PTL

(* SPFCalculate is right: each vertex is put in the tree at its shortest   *)
(* distance, although networks cost nothing to leave; the tree of a        *)
(* finished calculation holds what can be reached, and the root exits that *)
(* SPFNexthopCalculation and MergeRootExitDirections collected are exactly *)
(* the first hops of the shortest paths.                                   *)
THEOREM TreeExactHolds == Spec => []TreeExact
  <1>1. RouteInv => TreeExact
    <2> SUFFICES ASSUME RouteInv PROVE TreeExact
      OBVIOUS
    <2>0. Measured /\ root \in Routers /\ root \in Vertices
      BY VertexNumbers DEF RouteInv
    <2>1. pc \in {"next", "pop", "stubs"} =>
             \A v \in Vertices : spf.status[v] = "tree" => spf.dist[v] = Distances(Topology, root)[v]
      BY DEF RouteInv, Trees, LoopInv, Exact, Tree, Dist
    <2>2. ASSUME pc = "stubs"
          PROVE  /\ \A v \in Vertices : spf.status[v] = "tree" <=> Distances(Topology, root)[v] < Infinity
                 /\ \A v \in Vertices \ {root} : AllDistances[root][v] < Infinity =>
                       spf.exits[v] = FirstHops(root, v, AllDistances)
      <3>0. LoopInv(spf, NV) /\ spf.candidate = << >>
        BY <2>2 DEF RouteInv, Trees
      <3>1. \A v \in Vertices : v \in Tree(spf) <=> Dist(root, v) < Infinity
        BY <2>0, <3>0, TreeComplete
      <3>2. \A v \in Vertices : AllDistances[root][v] = Dist(root, v)
        BY <2>0, DistIs
      <3>3. \A v \in Tree(spf) : v # root => spf.exits[v] = FH(root, v)
        BY <3>0 DEF LoopInv, Exact
      <3> QED
        BY <3>1, <3>2, <3>3 DEF Tree, Dist, FH
    <2>3. \A v \in Vertices : (spf.status[v] = "tree") \in BOOLEAN /\ (Distances(Topology, root)[v] < Infinity) \in BOOLEAN
      <3>1. \A v \in Vertices : Dist(root, v) \in Nat
        BY <2>0, DistIs
      <3> QED
        BY <3>1, MetricBounds DEF Dist
    <2> QED
      BY <2>1, <2>2, <2>3 DEF TreeExact
  <1> QED
    BY <1>1, RouteInvariant, PTL

(* The assertion of GetRootExitDirection, that a network has one exit when *)
(* a router is found behind it, fails if and only if the shortest paths to *)
(* such a network have several first hops.                                 *)
THEOREM AssertionExplainedHolds == Spec => []AssertionExplained
  <1>1. RouteInv => AssertionExplained
    <2> SUFFICES ASSUME RouteInv PROVE AssertionExplained
      OBVIOUS
    <2>1. CASE pc = "failed"
      BY <2>1 DEF RouteInv, Trees, AssertionExplained
    <2>2. CASE pc = "stubs"
      <3>1. ~ EqualCostNetwork(root, AllDistances)
        BY <2>2, TreeComplete DEF RouteInv, Trees
      <3> QED
        BY <2>2, <3>1 DEF AssertionExplained, EqualCostNetwork
    <2> QED
      BY <2>1, <2>2 DEF AssertionExplained
  <1> QED
    BY <1>1, RouteInvariant, PTL

(* The table of a stub node answers with its one neighbour. *)
LEMMA StubFound ==
  ASSUME NEW r \in Routers, TableOK(r), IsStub(r)
  PROVE  /\ \A v \in Vertices : Found(r, DestOf(v)) = {}
         /\ Found(r, Default) = {<<h, h>> : h \in PointToPoints(r)}
         /\ \A h, k \in PointToPoints(r) : h = k
         /\ Neighbours(r) = PointToPoints(r)
  <1> DEFINE X == {<<h, h>> : h \in PointToPoints(r)}
  <1>1. routes[r] = {Default} \X X
    BY DEF TableOK
  <1> HIDE DEF X
  <1>2. \A x \in {Default} \X X : x[1] = Default /\ x[2] \in X
    OBVIOUS
  <1>3. \A v \in Vertices : Found(r, DestOf(v)) = {}
    BY <1>1, <1>2, DestinationsDiffer DEF Found
  <1>4. \A e \in X : <<Default, e>> \in {x \in routes[r] : x[1] = Default} /\ <<Default, e>>[2] = e
    BY <1>1
  <1>5. \A e \in X : e \in Found(r, Default)
    BY <1>4 DEF Found
  <1>6. Found(r, Default) = X
    BY <1>1, <1>2, <1>5 DEF Found
  <1>7. \A h, k \in PointToPoints(r) : h = k
    <2>1. IsFiniteSet(PointToPoints(r))
      BY VertexNumbers, FS_Subset DEF PointToPoints
    <2>2. Cardinality(PointToPoints(r)) \in Nat
      BY <2>1, FS_CardinalityType
    <2>3. ~ (Cardinality(PointToPoints(r)) > 1)
      BY <2>2 DEF IsStub
    <2> QED
      BY <2>1, <2>3, TwoMembers
  <1>8. Neighbours(r) = PointToPoints(r)
    BY DEF Neighbours, IsStub
  <1> QED
    BY <1>3, <1>6, <1>7, <1>8 DEF X

(* The next hop of a shortest path is nearer to its end. *)
LEMMA HopIsNearer ==
  ASSUME Measured, NEW r \in Routers, NEW v \in Vertices, NEW e \in FH(r, v)
  PROVE  (e[1] = NoHop /\ e[2] = v) \/ (e[1] # NoHop /\ e[1] \in Routers /\ Dist(e[1], v) < Dist(r, v))
  <1>1. CASE e = <<NoHop, v>>
    BY <1>1
  <1>2. ASSUME NEW h \in Routers, NEW c \in Nat, HopTo(r, v, e, h, c)
        PROVE  e[1] # NoHop /\ e[1] \in Routers /\ Dist(e[1], v) < Dist(r, v)
    <2>1. c > 0 /\ e[1] = h /\ c + Dist(h, v) = Dist(r, v)
      BY <1>2 DEF HopTo
    <2>2. Dist(h, v) \in Nat /\ Dist(r, v) \in Nat
      BY DistIs, VertexNumbers
    <2>3. h # NoHop
      BY DEF Routers, NoHop
    <2> QED
      BY <2>1, <2>2, <2>3
  <1> QED
    BY <1>1, <1>2, HopOf

(* When InitializeRoutes has written all tables, for the first time or     *)
(* after RecomputeRoutingTables, every router has a route to each router   *)
(* and network it can reach, and every next hop of such a route is nearer  *)
(* to the destination: forwarding ends there, without a loop.              *)
THEOREM HopByHopHolds == Spec => []HopByHop
  <1>1. RouteInv => HopByHop
    <2> SUFFICES ASSUME RouteInv, pc = "done", NEW r \in Routers, NEW v \in Vertices \ {r},
                        AllDistances[r][v] < Infinity, IntraDestinations(v) # {}
                 PROVE  /\ Lookup(r, DestOf(v)) # {}
                        /\ \A e \in Lookup(r, DestOf(v)) :
                              \/ e[1] = NoHop /\ e[2] = v
                              \/ e[1] # NoHop /\ AllDistances[e[1]][v] < AllDistances[r][v]
      BY DEF HopByHop, DestOf
    <2>0. Measured /\ TableOK(r) /\ r \in Vertices /\ Routers \subseteq Vertices
      BY VertexNumbers DEF RouteInv, Tables
    <2>1. \A u \in Vertices : AllDistances[u][v] = Dist(u, v) /\ Dist(u, v) \in Nat
      BY <2>0, DistIs
    <2>2. Dist(r, v) < Infinity
      BY <2>0, <2>1
    <2>3. Lookup(r, DestOf(v)) = IF Found(r, DestOf(v)) # {} THEN Found(r, DestOf(v)) ELSE Found(r, Default)
      BY DEF Lookup, Found
    <2>4. CASE IsStub(r)
      <3>1. /\ Found(r, DestOf(v)) = {} /\ Found(r, Default) = {<<h, h>> : h \in PointToPoints(r)}
            /\ \A h, k \in PointToPoints(r) : h = k
            /\ Neighbours(r) = PointToPoints(r)
        BY <2>0, <2>4, StubFound
      <3>2. PICK x \in PointToPoints(r) : Dist(r, v) = Cost(r, x) + Dist(x, v)
        BY <2>0, <2>2, <3>1, FirstEdge
      <3>3. x \in Routers /\ x \in Vertices /\ Cost(r, x) \in Nat /\ Cost(r, x) > 0 /\ x # NoHop
        <4>1. x \in Routers /\ x # NoHop
          BY DEF PointToPoints, NoHop, Routers
        <4> QED
          BY <2>0, <3>1, <4>1, RecordCost
      <3>4. Dist(x, v) < Dist(r, v)
        BY <2>0, <2>1, <3>2, <3>3
      <3>5. Lookup(r, DestOf(v)) = {<<x, x>>}
        BY <2>3, <3>1
      <3>6. AllDistances[x][v] < AllDistances[r][v]
        BY <2>0, <2>1, <3>3, <3>4
      <3> QED
        BY <3>3, <3>5, <3>6
    <2>5. CASE ~ IsStub(r)
      <3>1. Found(r, DestOf(v)) = FH(r, v)
        BY <2>0, <2>2, <2>5 DEF TableOK
      <3>2. FH(r, v) # {}
        BY <2>0, <2>2, SomeHop
      <3>3. Lookup(r, DestOf(v)) = FH(r, v)
        BY <2>3, <3>1, <3>2
      <3>4. ASSUME NEW e \in FH(r, v)
            PROVE  \/ e[1] = NoHop /\ e[2] = v
                   \/ e[1] # NoHop /\ AllDistances[e[1]][v] < AllDistances[r][v]
        BY <2>0, <2>1, HopIsNearer
      <3> QED
        BY <3>2, <3>3, <3>4
    <2> QED
      BY <2>4, <2>5
  <1> QED
    BY <1>1, RouteInvariant, PTL

(* DeleteGlobalRoutes leaves no route behind: a finished table has routes  *)
(* only to what is reachable in the present topology, and they are the     *)
(* first hops of its shortest paths.                                       *)
THEOREM NothingStaleHolds == Spec => []NothingStale
  <1>1. RouteInv => NothingStale
    <2> SUFFICES ASSUME RouteInv, pc = "done", NEW r \in Routers, NEW v \in Vertices \ {r},
                        Found(r, DestOf(v)) # {}
                 PROVE  AllDistances[r][v] < Infinity /\ Found(r, DestOf(v)) = FirstHops(r, v, AllDistances)
      BY DEF NothingStale, Found, DestOf
    <2>0. Measured /\ TableOK(r) /\ r \in Vertices
      BY VertexNumbers DEF RouteInv, Tables
    <2>1. AllDistances[r][v] = Dist(r, v)
      BY <2>0, DistIs
    <2>2. ~ IsStub(r)
      BY <2>0, StubFound
    <2>3. Dist(r, v) < Infinity /\ Found(r, DestOf(v)) = FH(r, v)
      BY <2>0, <2>2 DEF TableOK
    <2> QED
      BY <2>1, <2>3 DEF FH
  <1> QED
    BY <1>1, RouteInvariant, PTL
=============================================================================
