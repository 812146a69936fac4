---------------------------- MODULE FabricProofs -----------------------------
(***************************************************************************)
(* Forwarding in a spine-leaf fabric of any size: no packet runs in a      *)
(* circle or is swallowed although two protocols may forward it, and in a  *)
(* fabric of the size the static tables have no assertion fails.           *)
(***************************************************************************)
EXTENDS SpineLeafRouting, FiniteSetTheorems, TLAPS

(* A packet as IpForward leaves it: its time to live may be spent. *)
Frame == [uid : 1 .. MaxPackets, src : Server, dst : Server, to : Node,
          ttl : 0 .. DefaultTtl, tag : Tag, via : Spine \cup {NoSpine}]

(* How far a packet has come: to the first leaf, to a spine, to the last   *)
(* leaf, to its destination.  Only the first leaf finds it untagged for    *)
(* certain.                                                                *)
OnPath(p) ==
  \/ p.to = LeafOf(p.src) /\ p.ttl = DefaultTtl /\ p.tag = Untagged
  \/ p.to \in Spine /\ p.ttl = DefaultTtl - 1
  \/ p.to = LeafOf(p.dst) /\ p.ttl = DefaultTtl - 2
  \/ p.to = p.dst /\ p.ttl >= DefaultTtl - 3

(* The tag is the first leaf's. *)
TagOK(p) == p.tag = Untagged \/ p.tag = TagOf(LeafOf(p.src), <<"spine", 0>>)

Good(p) == p \in Frame /\ OnPath(p) /\ TagOK(p)

Everywhere == DOMAIN wire \cup DOMAIN delivered \cup DOMAIN dropped

FabricInv ==
  /\ m_randomEcmpRouting \in BOOLEAN /\ sent \in 0 .. MaxPackets
  /\ m_distribution \in [Leaf -> {<<1, 1>>, <<1, 0>>}]
  /\ stats \in [Leaf -> Nat \X Nat]
  /\ m_path_drops \in [0 .. DefaultSpines - 1 -> [0 .. DefaultLeaves - 1 -> Nat]]
  /\ IsABag(wire) /\ IsABag(delivered) /\ IsABag(dropped)
  /\ \A p \in Everywhere : Good(p)
  /\ \A p \in DOMAIN wire \cup DOMAIN delivered : p.ttl > 0
  /\ \A u \in 1 .. sent : \E p \in Everywhere : p.uid = u

-----------------------------------------------------------------------------
(* Bags and what is in them. *)

(* A packet leaves the wire. *)
LEMMA WireWithout ==
  ASSUME NEW b, IsABag(b), NEW c
  PROVE  LET r == b (-) SetToBag({c})
         IN  IsABag(r) /\ DOMAIN r \subseteq DOMAIN b /\ DOMAIN b \subseteq DOMAIN r \cup {c}
  <1> DEFINE d == [x \in DOMAIN b |-> IF x = c THEN b[x] - 1 ELSE b[x]]
             r == [x \in {y \in DOMAIN d : d[y] > 0} |-> d[x]]
  <1>1. b (-) SetToBag({c}) = r
    BY DEF (-), SetToBag
  <1>2. \A x \in DOMAIN b : b[x] \in Nat /\ b[x] > 0
    BY DEF IsABag
  <1>3. DOMAIN d = DOMAIN b /\ \A x \in DOMAIN b : d[x] = IF x = c THEN b[x] - 1 ELSE b[x]
    OBVIOUS
  <1> HIDE DEF d
  <1>4. DOMAIN r = {y \in DOMAIN d : d[y] > 0}
    OBVIOUS
  <1>5. \A x \in DOMAIN r : d[x] \in {n \in Nat : n > 0}
    BY <1>2, <1>3, <1>4
  <1>6. r \in [DOMAIN r -> {n \in Nat : n > 0}]
    BY <1>4, <1>5
  <1> HIDE DEF r
  <1>7. DOMAIN r \subseteq DOMAIN b /\ DOMAIN b \subseteq DOMAIN r \cup {c}
    BY <1>2, <1>3, <1>4
  <1> QED
    BY <1>1, <1>6, <1>7 DEF IsABag

(* Packets are put into a bag. *)
LEMMA BagSum ==
  ASSUME NEW b, IsABag(b), NEW d, IsABag(d)
  PROVE  IsABag(b (+) d) /\ DOMAIN (b (+) d) = DOMAIN b \cup DOMAIN d
  <1> DEFINE r == b (+) d
  <1>1. r = [x \in (DOMAIN b) \cup (DOMAIN d) |->
               (IF x \in DOMAIN b THEN b[x] ELSE 0) + (IF x \in DOMAIN d THEN d[x] ELSE 0)]
    BY DEF (+)
  <1>2. /\ \A x \in DOMAIN b : b[x] \in Nat /\ b[x] > 0
        /\ \A x \in DOMAIN d : d[x] \in Nat /\ d[x] > 0
    BY DEF IsABag
  <1>3. /\ DOMAIN r = DOMAIN b \cup DOMAIN d
        /\ r = [x \in DOMAIN r |-> r[x]]
        /\ \A x \in DOMAIN r :
             r[x] = (IF x \in DOMAIN b THEN b[x] ELSE 0) + (IF x \in DOMAIN d THEN d[x] ELSE 0)
    BY <1>1
  <1> HIDE DEF r
  <1>4. \A x \in DOMAIN r : r[x] \in {n \in Nat : n > 0}
    BY <1>2, <1>3
  <1>5. IsABag(r)
    BY <1>3, <1>4 DEF IsABag
  <1> QED
    BY <1>3, <1>5 DEF r

(* No packet, and one. *)
LEMMA SmallBags ==
  /\ IsABag(EmptyBag) /\ DOMAIN EmptyBag = {}
  /\ \A p : IsABag(SetToBag({p})) /\ DOMAIN SetToBag({p}) = {p}
  BY DEF EmptyBag, IsABag, SetToBag

(* The packets at some positions of a sequence. *)
LEMMA BagAt ==
  ASSUME NEW s, NEW I, IsFiniteSet(I)
  PROVE  IsABag(At(s, I)) /\ DOMAIN At(s, I) = {s[i] : i \in I}
  <1> DEFINE D == {s[i] : i \in I}
             N(x) == Cardinality({i \in I : s[i] = x})
  <1>1. At(s, I) = [x \in D |-> N(x)]
    BY DEF At
  <1>2. ASSUME NEW x \in D
        PROVE  N(x) \in {n \in Nat : n > 0}
    <2> DEFINE J == {i \in I : s[i] = x}
    <2>1. PICK i \in I : s[i] = x
      OBVIOUS
    <2>2. IsFiniteSet(J) /\ i \in J
      BY <2>1, FS_Subset
    <2> HIDE DEF J
    <2>3. Cardinality(J) \in Nat /\ Cardinality(J) # 0
      BY <2>2, FS_CardinalityType, FS_EmptySet
    <2> QED
      BY <2>3 DEF J
  <1> HIDE DEF D, N
  <1>3. IsABag([x \in D |-> N(x)]) /\ DOMAIN [x \in D |-> N(x)] = D
    BY <1>2 DEF IsABag
  <1> QED
    BY <1>1, <1>3 DEF D

-----------------------------------------------------------------------------
(* Nodes and their routes. *)

(* A share of the servers. *)
LEMMA Quotient ==
  ASSUME NEW a \in Nat \ {0}, NEW b \in Nat \ {0}, NEW x \in 0 .. a * b - 1
  PROVE  x \div b \in 0 .. a - 1
  <1> DEFINE q == x \div b
  <1>0. a * b \in Int /\ x \in Nat /\ x < a * b
    OBVIOUS
  <1>1. q \in Int /\ q >= 0 /\ b * q <= x
    BY <1>0
  <1> HIDE DEF q
  <1>2. q >= a => b * q >= b * a
    BY <1>1
  <1>3. b * a = a * b
    OBVIOUS
  <1>4. b * q \in Int
    BY <1>1
  <1>5. q < a
    BY <1>0, <1>1, <1>2, <1>3, <1>4
  <1> QED
    BY <1>1, <1>5 DEF q

(* A server's leaf exists. *)
LEMMA LeafOfType == \A s \in Server : LeafOf(s) \in Leaf
  <1> TAKE s \in Server
  <1>1. s[2] \in 0 .. LeafCount * ServerCount - 1
    BY DEF Server
  <1>2. LeafCount \in Nat \ {0} /\ ServerCount \in Nat \ {0}
    BY FabricAssumption
  <1>3. s[2] \div ServerCount \in 0 .. LeafCount - 1
    BY <1>1, <1>2, Quotient
  <1> QED
    BY <1>3 DEF LeafOf, Leaf

(* A node is of one kind. *)
LEMMA Kinds ==
  /\ Spine \cap Leaf = {} /\ Spine \cap Server = {} /\ Leaf \cap Server = {}
  /\ NoSpine \notin Spine
  BY DEF Spine, Leaf, Server, NoSpine

(* The state of a call of RouteInput, and what becomes of it. *)
CallFields == {"pkt", "hops", "claimed", "failed"}

(* The chain starts with the packet as it came, and nothing done. *)
LEMMA CallEffect ==
  ASSUME NEW p
  PROVE  LET q == Call(p)
         IN  /\ DOMAIN q = CallFields /\ q.pkt = p /\ q.hops = << >>
             /\ ~q.claimed /\ q.failed = "no"
  BY DEF Call, CallFields

(* Claiming a packet changes nothing else of the call. *)
LEMMA ClaimEffect ==
  ASSUME NEW r, DOMAIN r = CallFields
  PROVE  LET q == Claim(r)
         IN  q.claimed /\ q.pkt = r.pkt /\ q.hops = r.hops /\ q.failed = r.failed
  BY DEF Claim, CallFields

(* The unicast callback adds one hop, with the tag the packet has then. *)
LEMMA ForwardEffect ==
  ASSUME NEW r, NEW x, DOMAIN r = CallFields
  PROVE  LET q == Forward(r, x)
         IN  /\ DOMAIN q = CallFields /\ (q.claimed <=> r.claimed) /\ q.pkt = r.pkt
             /\ q.hops = Append(r.hops, [hop |-> x, tag |-> r.pkt.tag]) /\ q.failed = r.failed
  BY DEF Forward, CallFields

(* AddPacketTag changes the packet's tag and nothing else. *)
LEMMA TagEffect ==
  ASSUME NEW r, NEW t, DOMAIN r = CallFields
  PROVE  LET q == [r EXCEPT !.pkt.tag = t]
         IN  /\ DOMAIN q = CallFields /\ (q.claimed <=> r.claimed)
             /\ q.pkt = [r.pkt EXCEPT !.tag = t] /\ q.hops = r.hops /\ q.failed = r.failed
  BY DEF CallFields

(* A packet that is claimed, or that failed an assertion, is left alone.   *)
LEMMA Settled ==
  ASSUME NEW n, NEW r, NEW k, r.claimed \/ r.failed # "no"
  PROVE  StaticRouteInput(n, r) = r /\ GlobalRouteInput(n, r, k) = r
  BY DEF StaticRouteInput, GlobalRouteInput

(* Ipv4RlRouting with one candidate, and with as many as it has weights.   *)
LEMMA RlSingle ==
  ASSUME NEW n, NEW r, NEW G, GlobalRoutes(n, r.pkt.dst) = G, Len(G) = 1
  PROVE  RlRouteInput(n, r) = Claim(Forward(r, G[1]))
  BY DEF RlRouteInput

(* Several candidates: forwarded to the first, tagged, and not claimed. *)
LEMMA RlSeveral ==
  ASSUME NEW n, NEW r, NEW G, GlobalRoutes(n, r.pkt.dst) = G, Len(G) = 2,
         Len(m_distribution[n]) = 2, r.pkt.tag = Untagged
  PROVE  RlRouteInput(n, r) = Forward([r EXCEPT !.pkt.tag = TagOf(n, G[1])], G[1])
  BY DEF RlRouteInput

(* The last leaf hands the packet to the server: Ipv4RlRouting claims it.  *)
LEMMA RouteDown ==
  ASSUME NEW n \in Leaf, NEW p, LeafOf(p.dst) = n, NEW k
  PROVE  LET r == RouteInput(n, p, k)
         IN  r.failed = "no" /\ r.hops = <<[hop |-> p.dst, tag |-> p.tag]>>
  <1> DEFINE h == [hop |-> p.dst, tag |-> p.tag]
             c == Call(p)
             g == Forward(c, p.dst)
             r == Claim(g)
  <1>1. GlobalRoutes(n, p.dst) = <<p.dst>>
    BY Kinds DEF GlobalRoutes
  <1>2. DOMAIN c = CallFields /\ c.pkt = p /\ c.hops = << >> /\ c.failed = "no"
    BY CallEffect
  <1> HIDE DEF c
  <1>3. DOMAIN g = CallFields /\ g.hops = Append(<< >>, h) /\ g.failed = "no"
    BY <1>2, ForwardEffect
  <1>4. RlRouteInput(n, c) = r
    <2>1. Len(<<p.dst>>) = 1 /\ <<p.dst>>[1] = p.dst
      OBVIOUS
    <2> DEFINE G == <<p.dst>>
    <2>2. GlobalRoutes(n, c.pkt.dst) = G
      BY <1>1, <1>2
    <2> HIDE DEF G, g, r
    <2> QED
      BY <2>1, <2>2 DEF RlRouteInput, G, g, r
  <1> HIDE DEF g, h
  <1>5. r.claimed /\ r.hops = Append(<< >>, h) /\ r.failed = "no"
    BY <1>3, ClaimEffect
  <1>6. Append(<< >>, h) = <<h>>
    OBVIOUS
  <1> HIDE DEF r
  <1>7. RouteInput(n, p, k) = r
    BY <1>4, <1>5, Settled DEF RouteInput, c
  <1> QED
    BY <1>5, <1>6, <1>7 DEF h

(* A spine knows one way to every leaf. *)
LEMMA RouteAcross ==
  ASSUME NEW n \in Spine, NEW p
  PROVE  LET r == RouteInput(n, p, 1)
         IN  /\ Len(GlobalRoutes(n, p.dst)) = 1
             /\ r.failed = "no" /\ r.hops = <<[hop |-> LeafOf(p.dst), tag |-> p.tag]>>
  <1> DEFINE h == [hop |-> LeafOf(p.dst), tag |-> p.tag]
             c == Call(p)
             g == Forward(c, LeafOf(p.dst))
             r == Claim(g)
  <1>0. n \notin Leaf /\ n \notin Server
    BY Kinds
  <1>1. GlobalRoutes(n, p.dst) = <<LeafOf(p.dst)>>
    BY <1>0 DEF GlobalRoutes
  <1>2. DOMAIN c = CallFields /\ c.pkt = p /\ c.hops = << >> /\ c.failed = "no" /\ ~c.claimed
    BY CallEffect
  <1> HIDE DEF c
  <1>3. DOMAIN g = CallFields /\ g.hops = Append(<< >>, h) /\ g.failed = "no"
    BY <1>2, ForwardEffect
  <1>4. StaticRouteInput(n, c) = c
    BY <1>0 DEF StaticRouteInput, StaticRoutes
  <1>5. GlobalRouteInput(n, c, 1) = r
    BY <1>1, <1>2 DEF GlobalRouteInput
  <1> HIDE DEF g, h
  <1>6. r.hops = Append(<< >>, h) /\ r.failed = "no"
    BY <1>3, ClaimEffect
  <1>7. Append(<< >>, h) = <<h>>
    OBVIOUS
  <1> HIDE DEF r
  <1>8. RouteInput(n, p, 1) = r
    BY <1>0, <1>4, <1>5 DEF RouteInput, c
  <1> QED
    BY <1>1, <1>6, <1>7, <1>8 DEF h

(* The first leaf has as many ways up as there are spines.  With one, it   *)
(* is claimed; with two, Ipv4RlRouting tags the packet and forwards it,    *)
(* and Ipv4GlobalRouting forwards it again, with the same tag; with more,  *)
(* the distribution has too few weights.                                   *)
LEMMA RouteUp ==
  ASSUME NEW n \in Leaf, NEW p \in Frame, LeafOf(p.dst) # n, p.tag = Untagged,
         Len(m_distribution[n]) = 2, NEW k \in 1 .. SpineCount
  PROVE  LET r == RouteInput(n, p, k)
         IN  \/ SpineCount > 2 /\ r.failed = "probabilities"
             \/ /\ SpineCount <= 2 /\ r.failed = "no" /\ Len(r.hops) \in {1, 2}
                /\ r.hops \in Seq([hop : Spine, tag : {Untagged, TagOf(n, <<"spine", 0>>)}])
                /\ SpineCount = 2 =>
                     r.hops \in Seq([hop : {<<"spine", 0>>, <<"spine", k - 1>>},
                                     tag : {TagOf(n, <<"spine", 0>>)}])
  <1> USE FabricAssumption
  <1> DEFINE G == GlobalRoutes(n, p.dst)
             t == TagOf(n, <<"spine", 0>>)
             S == <<"spine", 0>>
             T == <<"spine", k - 1>>
             X == [hop : Spine, tag : {Untagged, t}]
             Y == [hop : {S, T}, tag : {t}]
             x == [hop |-> S, tag |-> Untagged]
             y == [hop |-> S, tag |-> t]
             z == [hop |-> T, tag |-> t]
             c == Call(p)
             d == [c EXCEPT !.pkt.tag = t]
             R == RouteInput(n, p, k)
  <1> HIDE DEF R
  <1> SUFFICES \/ SpineCount > 2 /\ R.failed = "probabilities"
               \/ /\ SpineCount <= 2 /\ R.failed = "no" /\ Len(R.hops) \in {1, 2}
                  /\ R.hops \in Seq(X)
                  /\ SpineCount = 2 => R.hops \in Seq(Y)
    BY Zenon DEF R
  <1>0. n \notin Spine /\ n \notin Server
    BY Kinds
  <1>1. G = [i \in 1 .. SpineCount |-> <<"spine", i - 1>>]
    BY <1>0 DEF GlobalRoutes
  <1>2. /\ Len(G) = SpineCount /\ G[1] = S /\ G[k] = T /\ SpineCount \in Nat /\ SpineCount > 0
        /\ S \in Spine /\ T \in Spine
    BY <1>1 DEF Spine
  <1>3. x \in X /\ y \in X /\ z \in X /\ y \in Y /\ z \in Y
    BY <1>2
  <1>4. DOMAIN c = CallFields /\ c.pkt = p /\ c.hops = << >> /\ c.failed = "no" /\ ~c.claimed
    BY CallEffect
  <1> HIDE DEF c
  <1>5. /\ DOMAIN d = CallFields /\ d.pkt = [p EXCEPT !.tag = t] /\ d.hops = << >>
        /\ d.failed = "no" /\ ~d.claimed
    BY <1>4, TagEffect
  <1>6. d.pkt.tag = t /\ d.pkt.dst = p.dst
    BY <1>5 DEF Frame
  <1>7. GlobalRoutes(n, c.pkt.dst) = G /\ c.pkt.tag = Untagged
    BY <1>4
  <1>8. StaticRoutes(n, p.dst) = << >>
    BY DEF StaticRoutes
  <1> HIDE DEF G, S, T, X, Y
  <1>9. CASE SpineCount = 1
    <2> DEFINE g == Forward(c, S)
               r == Claim(g)
    <2>1. RlRouteInput(n, c) = r
      <3>1. Len(G) = 1 /\ GlobalRoutes(n, c.pkt.dst) = G /\ G[1] = S
        BY <1>2, <1>7, <1>9
      <3> HIDE DEF g, r
      <3> QED
        BY <3>1, RlSingle DEF g, r
    <2>2. DOMAIN g = CallFields /\ g.hops = Append(<< >>, x) /\ g.failed = "no"
      BY <1>4, ForwardEffect
    <2> HIDE DEF g
    <2>3. r.claimed /\ r.hops = Append(<< >>, x) /\ r.failed = "no"
      BY <2>2, ClaimEffect
    <2> HIDE DEF r, x
    <2>4. RouteInput(n, p, k) = r
      BY <2>1, <2>3, Settled DEF RouteInput, c
    <2>5. Len(Append(<< >>, x)) = 1 /\ Append(<< >>, x) \in Seq(X)
      BY <1>3
    <2>6. r.hops \in Seq(X) /\ Len(r.hops) = 1
      BY <2>3, <2>5
    <2>7. R = r /\ r.failed = "no"
      BY <2>3, <2>4 DEF R
    <2> QED
      BY <1>9, <2>6, <2>7
  <1>10. CASE SpineCount > 2
    <2> DEFINE f == [c EXCEPT !.failed = "probabilities"]
    <2>1. RlRouteInput(n, c) = f
      <3> HIDE DEF f
      <3> QED
        BY <1>2, <1>7, <1>10 DEF RlRouteInput, f
    <2>2. f.failed = "probabilities"
      BY <1>4 DEF CallFields
    <2> HIDE DEF f
    <2>3. RouteInput(n, p, k) = f
      BY <2>1, <2>2, Settled DEF RouteInput, c
    <2> QED
      BY <1>10, <2>2, <2>3 DEF R
  <1>11. CASE SpineCount = 2
    <2> DEFINE g == Forward(d, S)
               j == Forward(g, T)
               r == Claim(j)
    <2>1. RlRouteInput(n, c) = g
      <3>1. /\ Len(G) = 2 /\ GlobalRoutes(n, c.pkt.dst) = G /\ G[1] = S /\ c.pkt.tag = Untagged
            /\ t = TagOf(n, S)
        BY <1>2, <1>7, <1>11 DEF S
      <3> HIDE DEF g, t
      <3> QED
        BY <3>1, RlSeveral DEF g
    <2> HIDE DEF d, t
    <2>2. /\ DOMAIN g = CallFields /\ g.failed = "no" /\ ~g.claimed
          /\ g.pkt = d.pkt /\ g.hops = Append(<< >>, [hop |-> S, tag |-> d.pkt.tag])
      <3>1. DOMAIN d = CallFields /\ d.hops = << >> /\ d.failed = "no" /\ ~d.claimed
        BY <1>5
      <3> QED
        BY <3>1, ForwardEffect
    <2> HIDE DEF g
    <2>3. /\ DOMAIN j = CallFields /\ j.failed = "no"
          /\ j.hops = Append(g.hops, [hop |-> T, tag |-> g.pkt.tag])
      BY <2>2, ForwardEffect
    <2>31. g.hops = Append(<< >>, y) /\ j.hops = Append(Append(<< >>, y), z)
      BY <1>6, <2>2, <2>3
    <2>4. StaticRouteInput(n, g) = g
      BY <1>6, <1>8, <2>2 DEF StaticRouteInput
    <2>5. GlobalRouteInput(n, g, k) = r
      BY <1>2, <1>6, <2>2 DEF GlobalRouteInput, G
    <2> HIDE DEF j, y, z
    <2>6. r.hops = Append(Append(<< >>, y), z) /\ r.failed = "no"
      BY <2>3, <2>31, ClaimEffect
    <2> HIDE DEF r
    <2>7. RouteInput(n, p, k) = r
      BY <2>1, <2>4, <2>5 DEF RouteInput, c
    <2>8. Append(<< >>, y) \in Seq(X) /\ Len(Append(<< >>, y)) = 1
      BY <1>3
    <2>9. Append(Append(<< >>, y), z) \in Seq(X) /\ Len(Append(Append(<< >>, y), z)) = 2
      BY <1>3, <2>8
    <2>12. Append(Append(<< >>, y), z) \in Seq(Y)
      BY <1>3
    <2>10. r.hops \in Seq(X) /\ Len(r.hops) = 2 /\ r.hops \in Seq(Y)
      BY <2>6, <2>9, <2>12
    <2>11. R = r /\ r.failed = "no"
      BY <2>6, <2>7 DEF R
    <2> QED
      BY <1>11, <2>10, <2>11
  <1> QED
    BY <1>2, <1>9, <1>10, <1>11

-----------------------------------------------------------------------------
(* The packet that IpForward sends to hop h. *)
Out(p, h) ==
  [p EXCEPT !.to = h.hop, !.ttl = @ - 1, !.tag = h.tag,
            !.via = IF h.hop \in Spine THEN h.hop ELSE @]

(* What IpForward changes of a packet. *)
LEMMA OutFields ==
  ASSUME NEW p \in Frame, p.ttl > 0, NEW h, h.hop \in Node, h.tag \in Tag
  PROVE  LET q == Out(p, h)
         IN  /\ q \in Frame /\ q.to = h.hop /\ q.ttl = p.ttl - 1 /\ q.tag = h.tag
             /\ q.src = p.src /\ q.dst = p.dst /\ q.uid = p.uid
  <1> DEFINE t == p.ttl - 1
             v == IF h.hop \in Spine THEN h.hop ELSE p.via
             q == [p EXCEPT !.to = h.hop, !.ttl = t, !.tag = h.tag, !.via = v]
  <1>1. t \in 0 .. DefaultTtl /\ v \in Spine \cup {NoSpine}
    BY FabricAssumption DEF Frame
  <1>2. Out(p, h) = q
    BY DEF Out, Frame
  <1> HIDE DEF t, v
  <1>3. /\ q \in Frame /\ q.to = h.hop /\ q.ttl = t /\ q.tag = h.tag
        /\ q.src = p.src /\ q.dst = p.dst /\ q.uid = p.uid
    BY <1>1 DEF Frame
  <1> QED
    BY <1>2, <1>3 DEF t

(* Tags are node and interface numbers. *)
LEMMA TagTypes == Untagged \in Tag /\ \A l \in Leaf : TagOf(l, <<"spine", 0>>) \in Tag
  BY FabricAssumption DEF Untagged, Tag, TagOf, Leaf

(* Wherever a packet is, it is sent at least once, and a step further on   *)
(* its path; with at most two spines no assertion of the routers fails.    *)
LEMMA NextHops ==
  ASSUME FabricInv, NEW p \in DOMAIN wire, p.to # p.dst, NEW k \in SelectIndex(p.to, p.dst)
  PROVE  LET r == RouteInput(p.to, p, k)
         IN  /\ SpineCount <= 2 => r.failed = "no"
             /\ r.failed = "no" =>
                  /\ Len(r.hops) \in {1, 2}
                  /\ \A i \in 1 .. Len(r.hops) :
                       Good(Out(p, r.hops[i])) /\ Out(p, r.hops[i]).uid = p.uid
  <1> USE FabricAssumption
  <1> DEFINE n == p.to
             r == RouteInput(n, p, k)
  <1>1. /\ p \in Frame /\ OnPath(p) /\ TagOK(p) /\ p.ttl > 0 /\ p.ttl \in Nat
        /\ p.src \in Server /\ p.dst \in Server /\ DefaultTtl \in Nat
    BY DEF FabricInv, Everywhere, Good, Frame
  <1>2. LeafOf(p.src) \in Leaf /\ LeafOf(p.dst) \in Leaf
    BY <1>1, LeafOfType
  <1>3. p.tag \in Tag /\ Leaf \cup Spine \cup Server \subseteq Node
    BY <1>1 DEF Frame, Node
  <1>4. CASE n \in Leaf /\ LeafOf(p.dst) = n
    <2> DEFINE h == [hop |-> p.dst, tag |-> p.tag]
               q == Out(p, h)
    <2>1. r.failed = "no" /\ r.hops = <<h>>
      BY <1>4, RouteDown
    <2>2. h.hop = p.dst /\ h.tag = p.tag
      OBVIOUS
    <2> HIDE DEF h
    <2>3. /\ q \in Frame /\ q.to = p.dst /\ q.ttl = p.ttl - 1 /\ q.tag = p.tag
          /\ q.src = p.src /\ q.dst = p.dst /\ q.uid = p.uid
      BY <1>1, <1>3, <2>2, OutFields
    <2>4. p.ttl >= DefaultTtl - 2
      BY <1>1, <1>4, Kinds DEF OnPath
    <2> HIDE DEF q
    <2>5. Good(q)
      BY <1>1, <2>3, <2>4 DEF Good, OnPath, TagOK
    <2> HIDE DEF r
    <2>6. Len(r.hops) = 1 /\ r.hops[1] = h
      BY <2>1
    <2> QED
      BY <2>1, <2>3, <2>5, <2>6 DEF r, q
  <1>5. CASE n \in Spine
    <2> DEFINE h == [hop |-> LeafOf(p.dst), tag |-> p.tag]
               q == Out(p, h)
    <2>1. k = 1
      <3>1. Len(GlobalRoutes(n, p.dst)) = 1
        BY <1>5, RouteAcross
      <3> QED
        BY <3>1 DEF SelectIndex
    <2>2. r.failed = "no" /\ r.hops = <<h>>
      BY <1>5, <2>1, RouteAcross
    <2>3. h.hop = LeafOf(p.dst) /\ h.tag = p.tag
      OBVIOUS
    <2> HIDE DEF h
    <2>4. /\ q \in Frame /\ q.to = LeafOf(p.dst) /\ q.ttl = p.ttl - 1 /\ q.tag = p.tag
          /\ q.src = p.src /\ q.dst = p.dst /\ q.uid = p.uid
      BY <1>1, <1>2, <1>3, <2>3, OutFields
    <2>5. p.ttl = DefaultTtl - 1
      BY <1>1, <1>2, <1>5, Kinds DEF OnPath
    <2> HIDE DEF q
    <2>6. Good(q)
      BY <1>1, <2>4, <2>5 DEF Good, OnPath, TagOK
    <2> HIDE DEF r
    <2>7. Len(r.hops) = 1 /\ r.hops[1] = h
      BY <2>2
    <2> QED
      BY <2>2, <2>4, <2>6, <2>7 DEF r, q
  <1>6. CASE n \in Leaf /\ LeafOf(p.dst) # n
    <2> DEFINE t == TagOf(n, <<"spine", 0>>)
               X == [hop : Spine, tag : {Untagged, t}]
    <2>1. n = LeafOf(p.src) /\ p.ttl = DefaultTtl /\ p.tag = Untagged
      BY <1>1, <1>6, Kinds DEF OnPath
    <2>2. k \in 1 .. SpineCount
      <3>1. GlobalRoutes(n, p.dst) = [i \in 1 .. SpineCount |-> <<"spine", i - 1>>]
        BY <1>6, Kinds DEF GlobalRoutes
      <3>2. Len(GlobalRoutes(n, p.dst)) = SpineCount
        BY <3>1
      <3> QED
        BY <3>2 DEF SelectIndex
    <2>3. Len(m_distribution[n]) = 2
      BY <1>6 DEF FabricInv
    <2>4. \/ SpineCount > 2 /\ r.failed = "probabilities"
          \/ /\ SpineCount <= 2 /\ r.failed = "no" /\ Len(r.hops) \in {1, 2}
             /\ r.hops \in Seq(X)
      BY <1>1, <1>6, <2>1, <2>2, <2>3, RouteUp
    <2> HIDE DEF r
    <2>5. ASSUME r.failed = "no", NEW i \in 1 .. Len(r.hops)
          PROVE  Good(Out(p, r.hops[i])) /\ Out(p, r.hops[i]).uid = p.uid
      <3> DEFINE h == r.hops[i]
                 q == Out(p, h)
      <3>1. h \in X
        <4> HIDE DEF X
        <4>1. r.hops \in Seq(X) /\ i \in 1 .. Len(r.hops)
          BY <2>4, <2>5
        <4> QED
          BY <4>1
      <3>2. h.hop \in Spine /\ h.tag \in {Untagged, t}
        BY <3>1
      <3> HIDE DEF h
      <3>3. h.hop \in Node /\ h.tag \in Tag
        BY <1>3, <1>6, <3>2, TagTypes
      <3>4. /\ q \in Frame /\ q.to \in Spine /\ q.ttl = DefaultTtl - 1
            /\ q.tag \in {Untagged, t} /\ q.src = p.src /\ q.uid = p.uid
        BY <1>1, <2>1, <3>2, <3>3, OutFields
      <3> HIDE DEF q
      <3>5. Good(q)
        BY <2>1, <3>4 DEF Good, OnPath, TagOK
      <3> QED
        BY <3>4, <3>5 DEF q, h
    <2>6. Len(r.hops) \in {1, 2} \/ r.failed # "no"
      BY <2>4
    <2> QED
      BY <2>4, <2>5, <2>6 DEF r
  <1>7. n \in Leaf \cup Spine
    BY <1>1, <1>2 DEF OnPath
  <1> QED
    BY <1>4, <1>5, <1>6, <1>7

(* A copy of the packet u survives on the wire, or is known to be dropped; *)
(* the index of a traced drop is in its table.                             *)
LEMMA TransmitKeeps ==
  ASSUME FabricInv, NEW out, Len(out) \in Nat \ {0}, NEW u,
         \A i \in 1 .. Len(out) : Good(out[i]) /\ out[i].uid = u,
         NEW rest, IsABag(rest), DOMAIN rest \subseteq DOMAIN wire,
         \A x \in DOMAIN wire : x \in DOMAIN rest \/ x.uid = u,
         Transmit(out, rest)
  PROVE  /\ IsABag(wire') /\ IsABag(dropped')
         /\ \A x \in DOMAIN wire' : Good(x) /\ x.ttl > 0
         /\ \A x \in DOMAIN dropped' : Good(x)
         /\ \A x \in DOMAIN wire \cup DOMAIN dropped :
              \E y \in DOMAIN wire' \cup DOMAIN dropped' : y.uid = x.uid
         /\ \E y \in DOMAIN wire' \cup DOMAIN dropped' : y.uid = u
         /\ m_path_drops' \in [0 .. DefaultSpines - 1 -> [0 .. DefaultLeaves - 1 -> Nat]]
         /\ LeafCount <= DefaultLeaves => halted' = halted
  <1> USE FabricAssumption
  <1> DEFINE all == 1 .. Len(out)
             expired == {i \in all : out[i].ttl = 0}
             alive == all \ expired
  <1>1. PICK lost \in SUBSET alive :
          /\ wire' = rest (+) At(out, alive \ lost)
          /\ dropped' = dropped (+) At(out, lost \cup expired)
          /\ IF \A i \in lost : Traced(out[i]) => InRange(out[i])
             THEN m_path_drops' = TraceDrops(out, lost) /\ UNCHANGED halted
             ELSE halted' = "m_path_drops" /\ UNCHANGED m_path_drops
    BY Zenon DEF Transmit
  <1> DEFINE a == At(out, alive \ lost)
             b == At(out, lost \cup expired)
  <1>2. IsFiniteSet(all) /\ 1 \in all
    BY FS_Interval
  <1>3. alive \ lost \subseteq all /\ lost \cup expired \subseteq all /\ lost \subseteq all
        /\ (alive \ lost) \cup (lost \cup expired) = all
    OBVIOUS
  <1>4. IsFiniteSet(alive \ lost) /\ IsFiniteSet(lost \cup expired) /\ IsFiniteSet(lost)
    <2> HIDE DEF all, expired, alive
    <2> QED
      BY <1>2, <1>3, FS_Subset
  <1>5. /\ IsABag(a) /\ DOMAIN a = {out[i] : i \in alive \ lost}
        /\ IsABag(b) /\ DOMAIN b = {out[i] : i \in lost \cup expired}
    <2> HIDE DEF all, expired, alive
    <2> QED
      BY <1>4, BagAt
  <1>6. \A i \in alive : Good(out[i]) /\ out[i].ttl > 0
    BY DEF Good, Frame
  <1>7. \A i \in all : Good(out[i]) /\ out[i].uid = u
    OBVIOUS
  <1>8. \E y \in DOMAIN a \cup DOMAIN b : y.uid = u
    <2>1. out[1] \in DOMAIN a \cup DOMAIN b
      BY <1>2, <1>3, <1>5
    <2> QED
      BY <1>2, <1>7, <2>1
  <1> HIDE DEF all, expired, alive
  <1>9. /\ \A x \in DOMAIN a : Good(x) /\ x.ttl > 0
        /\ \A x \in DOMAIN b : Good(x)
    BY <1>3, <1>5, <1>6, <1>7
  <1> HIDE DEF a, b
  <1>10. wire' = rest (+) a /\ dropped' = dropped (+) b
    BY <1>1 DEF a, b
  <1>11. IsABag(dropped) /\ \A x \in Everywhere : Good(x)
    BY DEF FabricInv
  <1>12. /\ IsABag(wire') /\ DOMAIN wire' = DOMAIN rest \cup DOMAIN a
         /\ IsABag(dropped') /\ DOMAIN dropped' = DOMAIN dropped \cup DOMAIN b
    BY <1>5, <1>10, <1>11, BagSum
  <1>13. \A x \in DOMAIN wire' : Good(x) /\ x.ttl > 0
    BY <1>9, <1>12 DEF FabricInv, Everywhere
  <1>14. \A x \in DOMAIN dropped' : Good(x)
    BY <1>9, <1>11, <1>12 DEF Everywhere
  <1>15. \E y \in DOMAIN wire' \cup DOMAIN dropped' : y.uid = u
    BY <1>8, <1>12
  <1>16. \A x \in DOMAIN wire \cup DOMAIN dropped :
           \E y \in DOMAIN wire' \cup DOMAIN dropped' : y.uid = x.uid
    BY <1>12, <1>15
  <1>17. m_path_drops' \in [0 .. DefaultSpines - 1 -> [0 .. DefaultLeaves - 1 -> Nat]]
    <2>0. m_path_drops \in [0 .. DefaultSpines - 1 -> [0 .. DefaultLeaves - 1 -> Nat]]
      BY DEF FabricInv
    <2> DEFINE C(i, j) == Cardinality({k \in lost : Traced(out[k]) /\ Row(out[k]) = i /\ Column(out[k]) = j})
    <2>1. \A i, j : C(i, j) \in Nat
      BY <1>4, FS_Subset, FS_CardinalityType
    <2>2. TraceDrops(out, lost) = [i \in 0 .. DefaultSpines - 1 |-> [j \in 0 .. DefaultLeaves - 1 |->
                                     m_path_drops[i][j] + C(i, j)]]
      BY DEF TraceDrops
    <2> HIDE DEF C
    <2>3. TraceDrops(out, lost) \in [0 .. DefaultSpines - 1 -> [0 .. DefaultLeaves - 1 -> Nat]]
      <3> DEFINE I == 0 .. DefaultSpines - 1
                 J == 0 .. DefaultLeaves - 1
      <3>0. /\ m_path_drops \in [I -> [J -> Nat]]
            /\ TraceDrops(out, lost) = [i \in I |-> [j \in J |-> m_path_drops[i][j] + C(i, j)]]
        BY <2>0, <2>2
      <3> HIDE DEF I, J
      <3>1. ASSUME NEW i \in I, NEW j \in J
            PROVE  m_path_drops[i][j] + C(i, j) \in Nat
        <4>1. m_path_drops[i] \in [J -> Nat]
          BY <3>0
        <4>2. m_path_drops[i][j] \in Nat /\ C(i, j) \in Nat
          BY <2>1, <4>1
        <4> QED
          BY <4>2
      <3>2. \A i \in I : [j \in J |-> m_path_drops[i][j] + C(i, j)] \in [J -> Nat]
        BY <3>1
      <3>3. TraceDrops(out, lost) \in [I -> [J -> Nat]]
        BY <3>0, <3>2
      <3> QED
        BY <3>3 DEF I, J
    <2> QED
      BY <1>1, <2>0, <2>3
  <1>18. ASSUME LeafCount <= DefaultLeaves
         PROVE  halted' = halted
    <2>1. ASSUME NEW i \in lost, Traced(out[i])
          PROVE  InRange(out[i])
      <3> DEFINE q == out[i]
      <3>1. Good(q) /\ Traced(q)
        BY <1>3, <1>7, <2>1
      <3> HIDE DEF q
      <3>2. q.tag = TagOf(LeafOf(q.src), <<"spine", 0>>) /\ q.src \in Server
        BY <3>1 DEF Good, TagOK, Traced, Untagged, Frame
      <3>3. LeafOf(q.src) \in Leaf
        BY <3>2, LeafOfType
      <3> DEFINE j == LeafOf(q.src)[2]
      <3>4. j \in 0 .. LeafCount - 1
        BY <3>3 DEF Leaf
      <3>5. q.tag.leaf_id = SpineCount + j /\ q.tag.interface = 1
        BY <3>2 DEF TagOf
      <3> HIDE DEF j
      <3>6. InRange(q)
        BY <1>18, <3>4, <3>5 DEF InRange, Row, Column, DefaultSpines, DefaultLeaves
      <3> QED
        BY <3>6 DEF q
    <2> QED
      BY <1>1, <2>1
  <1> QED
    BY <1>12, <1>13, <1>14, <1>15, <1>16, <1>17, <1>18

-----------------------------------------------------------------------------
(* One lemma per action. *)

(* Nothing has been sent. *)
LEMMA InitInv == Init => FabricInv
  <1> SUFFICES ASSUME Init PROVE FabricInv
    OBVIOUS
  <1> USE FabricAssumption DEF Init
  <1>1. DOMAIN wire = {} /\ DOMAIN delivered = {} /\ DOMAIN dropped = {}
        /\ IsABag(wire) /\ IsABag(delivered) /\ IsABag(dropped)
    BY SmallBags
  <1>2. m_distribution \in [Leaf -> {<<1, 1>>, <<1, 0>>}] /\ stats \in [Leaf -> Nat \X Nat]
    BY DEF InitialProbs
  <1>3. m_path_drops \in [0 .. DefaultSpines - 1 -> [0 .. DefaultLeaves - 1 -> Nat]]
    OBVIOUS
  <1>4. m_randomEcmpRouting \in BOOLEAN /\ sent \in 0 .. MaxPackets /\ 1 .. sent = {}
    OBVIOUS
  <1> QED
    BY <1>1, <1>2, <1>3, <1>4 DEF FabricInv, Everywhere

(* A server sends a packet to its leaf. *)
LEMMA SendInv ==
  ASSUME FabricInv, NEW s \in Server, NEW d \in Server, Send(s, d)
  PROVE  FabricInv' /\ (LeafCount <= DefaultLeaves => halted' = halted)
  <1> USE FabricAssumption
  <1> DEFINE q == [uid |-> sent + 1, src |-> s, dst |-> d, to |-> GlobalRoutes(s, d)[1],
                   ttl |-> DefaultTtl, tag |-> Untagged, via |-> NoSpine]
             out == <<q>>
  <1>1. /\ sent < MaxPackets /\ sent' = sent + 1 /\ Transmit(out, wire)
        /\ UNCHANGED <<m_randomEcmpRouting, m_distribution, stats, delivered, forwarded>>
    BY DEF Send
  <1>2. GlobalRoutes(s, d)[1] = LeafOf(s) /\ LeafOf(s) \in Leaf
    BY Kinds, LeafOfType DEF GlobalRoutes
  <1>3. sent + 1 \in 1 .. MaxPackets
    BY <1>1 DEF FabricInv
  <1>4. LeafOf(s) \in Node /\ DefaultTtl \in 0 .. DefaultTtl
    BY <1>2 DEF Node
  <1>5. q \in Frame
    BY <1>2, <1>3, <1>4, TagTypes DEF Frame
  <1>6. /\ q.to = LeafOf(q.src) /\ q.ttl = DefaultTtl /\ q.tag = Untagged /\ q.uid = sent + 1
    BY <1>2
  <1> HIDE DEF q
  <1>7. Good(q)
    BY <1>5, <1>6 DEF Good, OnPath, TagOK
  <1>8. /\ Len(out) \in Nat \ {0}
        /\ \A i \in 1 .. Len(out) : Good(out[i]) /\ out[i].uid = sent + 1
    BY <1>6, <1>7
  <1> HIDE DEF out
  <1>9. IsABag(wire)
    BY DEF FabricInv
  <1>10. /\ IsABag(wire') /\ IsABag(dropped')
         /\ \A x \in DOMAIN wire' : Good(x) /\ x.ttl > 0
         /\ \A x \in DOMAIN dropped' : Good(x)
         /\ \A x \in DOMAIN wire \cup DOMAIN dropped :
              \E y \in DOMAIN wire' \cup DOMAIN dropped' : y.uid = x.uid
         /\ \E y \in DOMAIN wire' \cup DOMAIN dropped' : y.uid = sent + 1
         /\ m_path_drops' \in [0 .. DefaultSpines - 1 -> [0 .. DefaultLeaves - 1 -> Nat]]
         /\ LeafCount <= DefaultLeaves => halted' = halted
    BY <1>1, <1>8, <1>9, TransmitKeeps
  <1>11. ASSUME NEW u \in 1 .. sent'
         PROVE  \E x \in Everywhere' : x.uid = u
    <2>1. u \in 1 .. sent \/ u = sent + 1
      BY <1>1 DEF FabricInv
    <2> QED
      BY <1>1, <1>10, <2>1 DEF FabricInv, Everywhere
  <1>12. \A x \in Everywhere' : Good(x)
    BY <1>1, <1>10 DEF FabricInv, Everywhere
  <1>13. sent' \in 0 .. MaxPackets
    BY <1>1, <1>3
  <1> QED
    BY <1>1, <1>10, <1>11, <1>12, <1>13 DEF FabricInv

(* A server receives a packet. *)
LEMMA DeliverInv ==
  ASSUME FabricInv, NEW p \in BagToSet(wire), Deliver(p)
  PROVE  FabricInv' /\ halted' = halted
  <1>1. /\ wire' = wire (-) SetToBag({p}) /\ delivered' = delivered (+) SetToBag({p})
        /\ UNCHANGED <<m_randomEcmpRouting, m_distribution, stats, m_path_drops, halted, sent,
                       dropped, forwarded>>
    BY DEF Deliver
  <1>2. p \in DOMAIN wire /\ IsABag(wire) /\ IsABag(delivered)
    BY DEF BagToSet, FabricInv
  <1>3. IsABag(wire') /\ DOMAIN wire' \subseteq DOMAIN wire /\ DOMAIN wire \subseteq DOMAIN wire' \cup {p}
    BY <1>1, <1>2, WireWithout
  <1>4. IsABag(SetToBag({p})) /\ DOMAIN SetToBag({p}) = {p}
    BY SmallBags
  <1>5. IsABag(delivered') /\ DOMAIN delivered' = DOMAIN delivered \cup {p}
    BY <1>1, <1>2, <1>4, BagSum
  <1>6. Everywhere' = Everywhere
    BY <1>1, <1>2, <1>3, <1>5 DEF Everywhere
  <1>7. DOMAIN wire' \cup DOMAIN delivered' \subseteq DOMAIN wire \cup DOMAIN delivered
    BY <1>2, <1>3, <1>5
  <1> QED
    BY <1>1, <1>3, <1>5, <1>6, <1>7 DEF FabricInv

(* A router receives a packet, and the chain of its protocols runs. *)
LEMMA ReceiveInv ==
  ASSUME FabricInv, NEW p \in BagToSet(wire), Receive(p)
  PROVE  FabricInv' /\ (LeafCount <= DefaultLeaves /\ SpineCount <= 2 => halted' = halted)
  <1> USE FabricAssumption
  <1>1. PICK k \in SelectIndex(p.to, p.dst) :
          LET n == p.to
              r == RouteInput(n, p, k)
              out == Outgoing(p, r)
          IN  IF r.failed # "no"
              THEN /\ halted' = r.failed
                   /\ UNCHANGED <<wire, stats, m_path_drops, dropped, forwarded>>
              ELSE /\ Transmit(out, wire (-) SetToBag({p}))
                   /\ stats' = IF Counted(n, r) THEN [stats EXCEPT ![n][1] = @ + 1] ELSE stats
                   /\ forwarded' = [forwarded EXCEPT ![p.uid][n] = @ + Len(out)]
    BY Zenon DEF Receive
  <1>2. p.to # p.dst /\ UNCHANGED <<m_randomEcmpRouting, m_distribution, sent, delivered>>
    BY Zenon DEF Receive
  <1>3. p \in DOMAIN wire /\ IsABag(wire)
    BY DEF BagToSet, FabricInv
  <1> DEFINE r == RouteInput(p.to, p, k)
             out == Outgoing(p, r)
             rest == wire (-) SetToBag({p})
  <1>4. /\ SpineCount <= 2 => r.failed = "no"
        /\ r.failed = "no" =>
             /\ Len(r.hops) \in {1, 2}
             /\ \A i \in 1 .. Len(r.hops) :
                  Good(Out(p, r.hops[i])) /\ Out(p, r.hops[i]).uid = p.uid
    BY <1>2, <1>3, NextHops
  <1>5. out = [i \in 1 .. Len(r.hops) |-> Out(p, r.hops[i])]
    BY Zenon DEF Outgoing, Out
  <1>6. CASE r.failed # "no"
    <2>1. UNCHANGED <<wire, stats, m_path_drops, dropped>>
      BY <1>1, <1>6
    <2>2. SpineCount > 2
      BY <1>4, <1>6
    <2>3. Everywhere' = Everywhere
      BY <1>2, <2>1 DEF Everywhere
    <2>4. FabricInv'
      <3> HIDE DEF r, out, rest
      <3> QED
        BY <1>2, <2>1, <2>3, Zenon DEF FabricInv
    <2> QED
      BY <2>2, <2>4
  <1>7. CASE r.failed = "no"
    <2>1. /\ Transmit(out, rest)
          /\ stats' = IF Counted(p.to, r) THEN [stats EXCEPT ![p.to][1] = @ + 1] ELSE stats
      BY <1>1, <1>7
    <2> HIDE DEF r
    <2>2. /\ Len(out) \in Nat \ {0}
          /\ \A i \in 1 .. Len(out) : Good(out[i]) /\ out[i].uid = p.uid
      <3> DEFINE m == Len(r.hops)
      <3>1. m \in {1, 2} /\ \A i \in 1 .. m : Good(Out(p, r.hops[i])) /\ Out(p, r.hops[i]).uid = p.uid
        BY <1>4, <1>7
      <3>2. out = [i \in 1 .. m |-> Out(p, r.hops[i])]
        BY <1>5
      <3> HIDE DEF m, out
      <3>3. DOMAIN out = 1 .. m /\ \A i \in 1 .. m : out[i] = Out(p, r.hops[i])
        BY <3>2
      <3>4. Len(out) = m
        BY <3>1, <3>2
      <3> QED
        BY <3>1, <3>3, <3>4
    <2> HIDE DEF out
    <2>3. IsABag(rest) /\ DOMAIN rest \subseteq DOMAIN wire /\ DOMAIN wire \subseteq DOMAIN rest \cup {p}
      BY <1>3, WireWithout
    <2> HIDE DEF rest
    <2>4. /\ IsABag(wire') /\ IsABag(dropped')
          /\ \A x \in DOMAIN wire' : Good(x) /\ x.ttl > 0
          /\ \A x \in DOMAIN dropped' : Good(x)
          /\ \A x \in DOMAIN wire \cup DOMAIN dropped :
               \E y \in DOMAIN wire' \cup DOMAIN dropped' : y.uid = x.uid
          /\ m_path_drops' \in [0 .. DefaultSpines - 1 -> [0 .. DefaultLeaves - 1 -> Nat]]
          /\ LeafCount <= DefaultLeaves => halted' = halted
      BY <2>1, <2>2, <2>3, TransmitKeeps
    <2>5. stats' \in [Leaf -> Nat \X Nat]
      <3>1. stats \in [Leaf -> Nat \X Nat]
        BY DEF FabricInv
      <3>2. CASE p.to \in Leaf
        BY <2>1, <3>1, <3>2
      <3>3. CASE p.to \notin Leaf
        BY <2>1, <3>1, <3>3 DEF Counted
      <3> QED
        BY <3>2, <3>3
    <2>6. \A x \in Everywhere' : Good(x)
      BY <1>2, <2>4 DEF FabricInv, Everywhere
    <2>7. ASSUME NEW u \in 1 .. sent'
          PROVE  \E x \in Everywhere' : x.uid = u
      BY <1>2, <2>4 DEF FabricInv, Everywhere
    <2> QED
      BY <1>2, <2>4, <2>5, <2>6, <2>7 DEF FabricInv
  <1> QED
    BY <1>6, <1>7

(* The agent's weights reach the first leaf's router. *)
LEMMA ApplyNewActionInv ==
  ASSUME FabricInv, NEW w \in {<<1, 1>>, <<1, 0>>}, ApplyNewAction(w)
  PROVE  FabricInv' /\ (SpineCount <= 2 /\ ActionSpace = SpineCount => halted' = halted)
  <1> USE FabricAssumption
  <1> DEFINE size == SpineCount * LeafCount
             first == <<"leaf", 0>>
  <1>1. UNCHANGED <<m_randomEcmpRouting, wire, m_path_drops, sent, dropped, delivered>>
    BY DEF ApplyNewAction
  <1>2. first \in Leaf
    BY DEF Leaf
  <1>3. /\ stats' \in [Leaf -> Nat \X Nat]
        /\ m_distribution' \in [Leaf -> {<<1, 1>>, <<1, 0>>}]
    <2>1. stats \in [Leaf -> Nat \X Nat] /\ m_distribution \in [Leaf -> {<<1, 1>>, <<1, 0>>}]
      BY DEF FabricInv
    <2>2. \/ UNCHANGED <<m_distribution, stats>>
          \/ /\ stats' = [stats EXCEPT ![first] = <<0, 0>>]
             /\ m_distribution' = [m_distribution EXCEPT ![first] = w]
      BY DEF ApplyNewAction
    <2>3. <<0, 0>> \in Nat \X Nat
      OBVIOUS
    <2> HIDE DEF first
    <2>4. CASE UNCHANGED <<m_distribution, stats>>
      BY <2>1, <2>4
    <2>5. CASE /\ stats' = [stats EXCEPT ![first] = <<0, 0>>]
               /\ m_distribution' = [m_distribution EXCEPT ![first] = w]
      <3>1. stats' \in [Leaf -> Nat \X Nat]
        BY <1>2, <2>1, <2>3, <2>5
      <3>2. m_distribution' \in [Leaf -> {<<1, 1>>, <<1, 0>>}]
        BY <1>2, <2>1, <2>5
      <3> QED
        BY <3>1, <3>2
    <2> QED
      BY <2>2, <2>4, <2>5
  <1>4. ASSUME SpineCount <= 2, ActionSpace = SpineCount
        PROVE  halted' = halted
    <2>1. SpineCount \in {1, 2} /\ LeafCount \in Nat
      BY <1>4
    <2>2. size % ActionSpace = 0 /\ size \div ActionSpace = LeafCount
      BY <1>4, <2>1
    <2> QED
      BY <2>2 DEF ApplyNewAction
  <1> QED
    BY <1>1, <1>3, <1>4 DEF FabricInv, Everywhere

(* Every step keeps the invariant, and in a fabric of the size of the      *)
(* tables none stops the simulation.                                       *)
LEMMA NextInv ==
  ASSUME FabricInv, [Next]_vars
  PROVE  /\ FabricInv'
         /\ LeafCount <= DefaultLeaves /\ SpineCount <= 2 /\ ActionSpace = SpineCount
            => halted' = halted
  <1>1. CASE Next
    <2>1. CASE \E s, d \in Server : Send(s, d)
      BY <2>1, SendInv
    <2>2. CASE \E p \in BagToSet(wire) : Deliver(p)
      BY <2>2, DeliverInv
    <2>3. CASE \E p \in BagToSet(wire) : Receive(p)
      BY <2>3, ReceiveInv
    <2>4. CASE \E w \in {<<1, 1>>, <<1, 0>>} : ApplyNewAction(w)
      BY <2>4, ApplyNewActionInv
    <2> QED
      BY <1>1, <2>1, <2>2, <2>3, <2>4 DEF Next
  <1>2. CASE UNCHANGED vars
    <2>1. /\ UNCHANGED <<m_randomEcmpRouting, wire, m_distribution, stats, m_path_drops, sent>>
          /\ UNCHANGED <<dropped, delivered, halted>>
      BY <1>2 DEF vars
    <2>2. Everywhere' = Everywhere
      BY <2>1 DEF Everywhere
    <2> QED
      BY <2>1, <2>2, Zenon DEF FabricInv
  <1> QED
    BY <1>1, <1>2

(* The invariant puts every packet and every counter in its type. *)
LEMMA FabricTypes == FabricInv => TypeOK
  <1> SUFFICES ASSUME FabricInv PROVE TypeOK
    OBVIOUS
  <1>1. ASSUME NEW p \in DOMAIN wire \cup DOMAIN delivered
        PROVE  p \in Packet
    <2>1. p \in Frame /\ p.ttl > 0
      BY DEF FabricInv, Everywhere, Good
    <2>2. p.ttl \in 1 .. DefaultTtl
      BY <2>1, FabricAssumption DEF Frame
    <2> QED
      BY <2>1, <2>2 DEF Frame, Packet
  <1>2. BagToSet(wire) \subseteq Packet /\ BagToSet(delivered) \subseteq Packet
    BY <1>1 DEF BagToSet
  <1> QED
    BY <1>2, Zenon DEF FabricInv, TypeOK

(* Ipv4ListRouting's chain of protocols keeps every packet on the way from *)
(* its first leaf over a spine to its last leaf, tagged by the first leaf  *)
(* or not at all, in a fabric of any size, with or without random routes.  *)
THEOREM FabricInvariant == Spec => []FabricInv
  <1>1. Init => FabricInv
    BY InitInv
  <1>2. FabricInv /\ [Next]_vars => FabricInv'
    BY NextInv
  <1> QED
    BY <1>1, <1>2, PTL DEF Spec

(* No copy of a packet is forwarded more than three times, although both   *)
(* Ipv4RlRouting and Ipv4GlobalRouting forward it: a property of the       *)
(* tables and of the chain for every number of spines, leaves and servers. *)
THEOREM ForwardingLoopFree == Spec => []HopsBounded
  <1>1. FabricInv => HopsBounded
    <2> SUFFICES ASSUME FabricInv, NEW p \in Everywhere
                 PROVE  DefaultTtl - p.ttl <= 3
      BY DEF HopsBounded, Everywhere, BagToSet
    <2>1. p.ttl \in 0 .. DefaultTtl /\ OnPath(p)
      BY DEF FabricInv, Good, Frame
    <2> QED
      BY <2>1, FabricAssumption DEF OnPath
  <1> QED
    BY <1>1, FabricInvariant, PTL

(* A packet that was sent is on a wire, received or dropped by a queue:    *)
(* whatever the protocols of the chain answer, RouteInput swallows none.   *)
THEOREM NoPacketSwallowed == Spec => []NothingVanishes
  <1>1. FabricInv => NothingVanishes
    BY DEF FabricInv, NothingVanishes, Everywhere, BagToSet
  <1> QED
    BY <1>1, FabricInvariant, PTL

(* In a fabric no larger than the static tables of globals.h (two spines,  *)
(* four leaves) whose action space is its number of spines, no assertion   *)
(* of the forwarding path fails, no packet is tagged twice and no drop     *)
(* counter is indexed out of range, with any number of servers.            *)
THEOREM FabricAssertionsHold ==
  ASSUME SpineCount <= 2, LeafCount <= DefaultLeaves, ActionSpace = SpineCount
  PROVE  Spec => []NoAssertionFails
  <1> DEFINE Inv == FabricInv /\ halted = "no"
  <1>1. Init => Inv
    BY InitInv DEF Init
  <1>2. Inv /\ [Next]_vars => Inv'
    BY NextInv
  <1>3. Inv => NoAssertionFails
    BY FabricTypes DEF NoAssertionFails
  <1> QED
    BY <1>1, <1>2, <1>3, PTL DEF Spec

-----------------------------------------------------------------------------
(* The copies of the packets of T that are in bag B. *)
CopiesOf(B, T) == UNION {{x} \X (1 .. B[x]) : x \in DOMAIN B \cap T}

(* A packet put into a bag is one more copy of it. *)
LEMMA OneCopyMore ==
  ASSUME NEW B, IsABag(B), NEW T, NEW x, IsFiniteSet(CopiesOf(B, T))
  PROVE  LET R == B (+) SetToBag({x})
         IN  /\ IsABag(R) /\ IsFiniteSet(CopiesOf(R, T))
             /\ Cardinality(CopiesOf(R, T)) =
                  Cardinality(CopiesOf(B, T)) + IF x \in T THEN 1 ELSE 0
  <1> DEFINE R == B (+) SetToBag({x})
             n == IF x \in DOMAIN B THEN B[x] ELSE 0
             new == <<x, n + 1>>
  <1>1. /\ DOMAIN R = DOMAIN B \cup {x}
        /\ \A y \in DOMAIN R : R[y] = (IF y \in DOMAIN B THEN B[y] ELSE 0) + (IF y = x THEN 1 ELSE 0)
    BY DEF (+), SetToBag
  <1>2. IsABag(R)
    BY SmallBags, BagSum
  <1>3. \A y \in DOMAIN B : B[y] \in Nat /\ B[y] > 0
    BY DEF IsABag
  <1> HIDE DEF R
  <1>4. R[x] = n + 1 /\ n \in Nat /\ \A y \in DOMAIN B : y # x => R[y] = B[y]
    BY <1>1, <1>3
  <1>5. \A e : e \in CopiesOf(B, T) <=> \E y \in DOMAIN B \cap T : \E c \in 1 .. B[y] : e = <<y, c>>
    BY DEF CopiesOf
  <1>6. \A e : e \in CopiesOf(R, T) <=> \E y \in DOMAIN R \cap T : \E c \in 1 .. R[y] : e = <<y, c>>
    BY DEF CopiesOf
  <1>7. 1 .. n + 1 = (1 .. n) \cup {n + 1} /\ n + 1 \notin 1 .. n
    BY <1>4
  <1> DEFINE a == n + 1
  <1>8. x \in DOMAIN B => B[x] = n
    OBVIOUS
  <1>81. x \notin DOMAIN B => 1 .. n = {}
    BY <1>4
  <1> HIDE DEF n, a
  <1>9. CASE x \in T
    <2>1. CopiesOf(R, T) \subseteq CopiesOf(B, T) \cup {<<x, a>>}
      <3> SUFFICES ASSUME NEW y \in DOMAIN R \cap T, NEW c \in 1 .. R[y]
                   PROVE  <<y, c>> \in CopiesOf(B, T) \cup {<<x, a>>}
        BY <1>6
      <3>1. CASE y # x
        BY <1>1, <1>4, <1>5, <3>1
      <3>2. CASE y = x
        <4>1. c \in 1 .. n \/ c = a
          BY <1>4, <1>7, <3>2 DEF a
        <4> QED
          BY <1>5, <1>8, <1>81, <3>2, <4>1
      <3> QED
        BY <3>1, <3>2
    <2>2. CopiesOf(B, T) \subseteq CopiesOf(R, T)
      <3> SUFFICES ASSUME NEW y \in DOMAIN B \cap T, NEW c \in 1 .. B[y]
                   PROVE  <<y, c>> \in CopiesOf(R, T)
        BY <1>5
      <3>1. c \in 1 .. R[y]
        <4>1. CASE y = x
          BY <1>4, <1>7, <1>8, <4>1
        <4>2. CASE y # x
          BY <1>4, <4>2
        <4> QED
          BY <4>1, <4>2
      <3> QED
        BY <1>1, <1>6, <3>1
    <2>3. <<x, a>> \in CopiesOf(R, T)
      BY <1>1, <1>4, <1>6, <1>7, <1>9 DEF a
    <2>4. <<x, a>> \notin CopiesOf(B, T)
      BY <1>5, <1>7, <1>8 DEF a
    <2>5. CopiesOf(R, T) = CopiesOf(B, T) \cup {<<x, a>>}
      BY <2>1, <2>2, <2>3
    <2>6. /\ IsFiniteSet(CopiesOf(R, T))
          /\ Cardinality(CopiesOf(R, T)) = Cardinality(CopiesOf(B, T)) + 1
      BY <2>4, <2>5, FS_AddElement
    <2> QED
      BY <1>2, <1>9, <2>6 DEF R
  <1>10. CASE x \notin T
    <2>1. CopiesOf(R, T) = CopiesOf(B, T)
      <3>1. DOMAIN R \cap T = DOMAIN B \cap T
        BY <1>1, <1>10
      <3>2. \A y \in DOMAIN B \cap T : R[y] = B[y]
        BY <1>4, <1>10
      <3>3. \A e : e \in CopiesOf(R, T) <=> e \in CopiesOf(B, T)
        BY <1>5, <1>6, <3>1, <3>2
      <3> QED
        BY <3>3
    <2>2. Cardinality(CopiesOf(B, T)) \in Nat
      BY FS_CardinalityType
    <2> QED
      BY <1>2, <1>10, <2>1, <2>2 DEF R
  <1> QED
    BY <1>9, <1>10

(* The sets of at most two positions. *)
LEMMA FewPositions ==
  /\ Cardinality({1} \cup {2}) = 2 /\ Cardinality({1}) = 1 /\ Cardinality({2}) = 1
  /\ Cardinality({}) = 0
  <1>1. IsFiniteSet({1}) /\ Cardinality({1}) = 1 /\ Cardinality({2}) = 1
    BY FS_Singleton
  <1>2. Cardinality({}) = 0
    BY FS_EmptySet
  <1>3. 2 \notin {1}
    OBVIOUS
  <1>4. Cardinality({1} \cup {2}) = Cardinality({1}) + 1
    BY <1>1, <1>3, FS_AddElement
  <1> QED
    BY <1>1, <1>2, <1>4

(* The bag of one position. *)
LEMMA AtOne ==
  ASSUME NEW s, NEW k
  PROVE  At(s, {k}) = SetToBag({s[k]})
  <1>1. {s[i] : i \in {k}} = {s[k]} /\ {i \in {k} : s[i] = s[k]} = {k}
    OBVIOUS
  <1>2. Cardinality({k}) = 1
    BY FS_Singleton
  <1>3. At(s, {k}) = [x \in {s[k]} |-> Cardinality({i \in {k} : s[i] = x})]
    BY <1>1 DEF At
  <1>4. \A x \in {s[k]} : Cardinality({i \in {k} : s[i] = x}) = 1
    BY <1>1, <1>2
  <1> QED
    BY <1>3, <1>4 DEF SetToBag

(* The bag of nothing, and of two positions. *)
LEMMA AtFew ==
  ASSUME NEW B, IsABag(B), NEW s
  PROVE  /\ B (+) At(s, {}) = B
         /\ B (+) At(s, {1, 2}) = (B (+) SetToBag({s[1]})) (+) SetToBag({s[2]})
  <1>0. \A y \in DOMAIN B : B[y] \in Nat
    BY DEF IsABag
  <1>a. B = [y \in DOMAIN B |-> B[y]]
    BY DEF IsABag
  <1>1. B (+) At(s, {}) = B
    <2> DEFINE A == At(s, {})
               D == DOMAIN A
    <2>1. D = {}
      BY DEF At
    <2> HIDE DEF A
    <2>3. B (+) A = [y \in DOMAIN B \cup D |-> (IF y \in DOMAIN B THEN B[y] ELSE 0)
                                             + (IF y \in D THEN A[y] ELSE 0)]
      BY DEF (+)
    <2> HIDE DEF D
    <2>4. /\ DOMAIN B \cup D = DOMAIN B
          /\ \A y \in DOMAIN B : (IF y \in DOMAIN B THEN B[y] ELSE 0)
                                 + (IF y \in D THEN A[y] ELSE 0) = B[y]
      BY <1>0, <2>1
    <2>2. B (+) A = [y \in DOMAIN B |-> B[y]]
      BY <2>3, <2>4
    <2> QED
      BY <1>a, <2>2 DEF A
  <1>3. B (+) At(s, {1, 2}) = (B (+) SetToBag({s[1]})) (+) SetToBag({s[2]})
    <2> DEFINE x == s[1]
               z == s[2]
               A == At(s, {1, 2})
               C == B (+) SetToBag({x})
               V(y) == IF y \in DOMAIN B THEN B[y] ELSE 0
               N(y) == (IF y = x THEN 1 ELSE 0) + (IF y = z THEN 1 ELSE 0)
    <2>1. DOMAIN A = {x, z} /\ \A y \in {x, z} : A[y] = Cardinality({i \in {1, 2} : s[i] = y})
      BY DEF At
    <2>2. ASSUME NEW y \in {x, z}
          PROVE  A[y] = N(y)
      <3> DEFINE J == {i \in {1, 2} : s[i] = y}
      <3>1. CASE x = z
        <4>1. J = {1} \cup {2}
          BY <3>1
        <4>2. Cardinality({1} \cup {2}) = 2
          BY FewPositions
        <4> QED
          BY <2>1, <3>1, <4>1, <4>2
      <3>2. CASE x # z
        <4>1. J = {1} \/ J = {2}
          BY <3>2
        <4>2. Cardinality(J) = 1
          BY <4>1, FS_Singleton
        <4> QED
          BY <2>1, <3>2, <4>2
      <3> QED
        BY <3>1, <3>2
    <2>3. DOMAIN C = DOMAIN B \cup {x} /\ \A y \in DOMAIN C : C[y] = V(y) + (IF y = x THEN 1 ELSE 0)
      BY DEF (+), SetToBag
    <2> HIDE DEF A, C
    <2>4. B (+) A = [y \in DOMAIN B \cup {x, z} |-> V(y) + (IF y \in {x, z} THEN A[y] ELSE 0)]
      BY <2>1 DEF (+)
    <2>5. C (+) SetToBag({z}) =
            [y \in DOMAIN C \cup {z} |->
               (IF y \in DOMAIN C THEN C[y] ELSE 0) + (IF y = z THEN 1 ELSE 0)]
      BY DEF (+), SetToBag
    <2>6. DOMAIN C \cup {z} = DOMAIN B \cup {x, z}
      BY <2>3
    <2>7. ASSUME NEW y \in DOMAIN B \cup {x, z}
          PROVE  V(y) + (IF y \in {x, z} THEN A[y] ELSE 0) =
                 (IF y \in DOMAIN C THEN C[y] ELSE 0) + (IF y = z THEN 1 ELSE 0)
      <3>1. V(y) \in Nat
        BY <1>0
      <3>2. y \in DOMAIN C => C[y] = V(y) + (IF y = x THEN 1 ELSE 0)
        BY <2>3
      <3>3. y \notin DOMAIN C => V(y) = 0 /\ y # x
        BY <2>3
      <3>4. y \in {x, z} => A[y] = N(y)
        BY <2>2
      <3> HIDE DEF V, x, z
      <3> QED
        BY <3>1, <3>2, <3>3, <3>4
    <2>8. B (+) A = C (+) SetToBag({z})
      BY <2>4, <2>5, <2>6, <2>7
    <2> QED
      BY <2>8 DEF A, C
  <1> QED
    BY <1>1, <1>3

(* What is put into a bag, of a few packets at the positions I, are that   *)
(* many copies more.                                                       *)
LEMMA CopiesMore ==
  ASSUME NEW B, IsABag(B), NEW T, IsFiniteSet(CopiesOf(B, T)),
         NEW s, Len(s) \in {1, 2}, NEW I \in SUBSET (1 .. Len(s))
  PROVE  LET R == B (+) At(s, I)
         IN  /\ IsFiniteSet(CopiesOf(R, T))
             /\ Cardinality(CopiesOf(R, T)) =
                  Cardinality(CopiesOf(B, T)) + Cardinality({k \in I : s[k] \in T})
  <1> DEFINE c == Cardinality(CopiesOf(B, T))
             J == {k \in I : s[k] \in T}
             R == B (+) At(s, I)
  <1>0. c \in Nat
    BY FS_CardinalityType
  <1>a. 1 .. Len(s) \subseteq {1, 2}
    <2>1. \A n \in {1, 2} : 1 .. n \subseteq {1, 2}
      OBVIOUS
    <2> QED
      BY <2>1
  <1>1. I = {} \/ I = {1} \/ I = {2} \/ I = {1, 2}
    <2>1. I \subseteq {1, 2}
      BY <1>a
    <2> HIDE DEF J, R, c
    <2> QED
      BY <2>1
  <1>2. CASE I = {}
    <2>1. R = B /\ J = {} /\ Cardinality({}) = 0
      BY <1>2, AtFew, FS_EmptySet
    <2> HIDE DEF R, J, c
    <2>2. c + 0 = c
      BY <1>0
    <2> QED
      BY <2>1, <2>2 DEF R, J, c
  <1>3. ASSUME NEW k, I = {k}
        PROVE  /\ IsFiniteSet(CopiesOf(R, T))
               /\ Cardinality(CopiesOf(R, T)) = c + Cardinality(J)
    <2>1. R = B (+) SetToBag({s[k]})
      <3>1. B (+) At(s, {k}) = B (+) SetToBag({s[k]})
        BY AtOne
      <3> QED
        BY <1>3, <3>1
    <2>2. Cardinality(J) = IF s[k] \in T THEN 1 ELSE 0
      <3>1. J = IF s[k] \in T THEN {k} ELSE {}
        BY <1>3
      <3> HIDE DEF J
      <3> QED
        BY <3>1, FS_Singleton, FS_EmptySet
    <2> HIDE DEF R, J
    <2> QED
      BY <2>1, <2>2, OneCopyMore
  <1>4. CASE I = {1, 2}
    <2> DEFINE A == B (+) SetToBag({s[1]})
               a == IF s[1] \in T THEN 1 ELSE 0
               b == IF s[2] \in T THEN 1 ELSE 0
    <2>1. R = A (+) SetToBag({s[2]})
      BY <1>4, AtFew
    <2>2. /\ IsABag(A) /\ IsFiniteSet(CopiesOf(A, T))
          /\ Cardinality(CopiesOf(A, T)) = c + a
      BY OneCopyMore
    <2> HIDE DEF A
    <2>3. IsFiniteSet(CopiesOf(R, T)) /\ Cardinality(CopiesOf(R, T)) = (c + a) + b
      <3> HIDE DEF R, c, a
      <3> QED
        BY <2>1, <2>2, OneCopyMore
    <2>4. Cardinality(J) = a + b
      <3>0. /\ Cardinality({1} \cup {2}) = 2 /\ Cardinality({1}) = 1 /\ Cardinality({2}) = 1
            /\ Cardinality({}) = 0
        BY FewPositions
      <3>1. J = (IF s[1] \in T THEN {1} ELSE {}) \cup (IF s[2] \in T THEN {2} ELSE {})
        BY <1>4
      <3> HIDE DEF J
      <3>2. CASE s[1] \in T /\ s[2] \in T
        BY <3>0, <3>1, <3>2
      <3>3. CASE s[1] \in T /\ s[2] \notin T
        <4>1. J = {1}
          BY <3>1, <3>3
        <4> QED
          BY <3>0, <3>3, <4>1
      <3>4. CASE s[1] \notin T /\ s[2] \in T
        <4>1. J = {2}
          BY <3>1, <3>4
        <4> QED
          BY <3>0, <3>4, <4>1
      <3>5. CASE s[1] \notin T /\ s[2] \notin T
        <4>1. J = {}
          BY <3>1, <3>5
        <4> QED
          BY <3>0, <3>5, <4>1
      <3> QED
        BY <3>2, <3>3, <3>4, <3>5
    <2>5. (c + a) + b = c + (a + b)
      BY <1>0
    <2> HIDE DEF R, J, a, b, c
    <2> QED
      BY <2>3, <2>4, <2>5 DEF R, J, c
  <1> HIDE DEF R, J, c
  <1>5. /\ IsFiniteSet(CopiesOf(R, T))
        /\ Cardinality(CopiesOf(R, T)) = c + Cardinality(J)
    BY <1>1, <1>2, <1>3, <1>4 DEF R, J, c
  <1> QED
    BY <1>5 DEF R, J, c

(* While Ipv4GlobalRouting does not draw, a packet goes over the first     *)
(* spine, and the tag says so.                                             *)
ViaOK(p) ==
  \/ p.via = NoSpine /\ p.tag = Untagged
  \/ p.via = <<"spine", 0>> /\ p.tag = TagOf(LeafOf(p.src), <<"spine", 0>>)

(* The packets of a path. *)
Path(i, j) == {q \in Frame : q.via = <<"spine", i>> /\ LeafOf(q.src) = <<"leaf", j>>}

DropsInv ==
  ~ m_randomEcmpRouting =>
    /\ \A p \in Everywhere : ViaOK(p)
    /\ \A i \in 0 .. SpineCount - 1, j \in 0 .. LeafCount - 1 :
         /\ IsFiniteSet(CopiesOf(dropped, Path(i, j)))
         /\ m_path_drops[i][j] = Cardinality(CopiesOf(dropped, Path(i, j)))

(* Two spines and no more leaves than the table has columns, and a time to *)
(* live that the longest path does not use up.                             *)
TableFits == SpineCount = 2 /\ LeafCount <= DefaultLeaves /\ DefaultTtl > 3

(* The spine that IpForward sends to. *)
LEMMA OutVia ==
  ASSUME NEW p \in Frame, NEW h
  PROVE  /\ Out(p, h).via = IF h.hop \in Spine THEN h.hop ELSE p.via
         /\ Out(p, h).tag = h.tag /\ Out(p, h).src = p.src
  BY DEF Out, Frame

(* The cell of the table that the tag selects is the path's. *)
LEMMA CellIsPath ==
  ASSUME TableFits, NEW q \in Frame, ViaOK(q),
         NEW i \in 0 .. SpineCount - 1, NEW j \in 0 .. LeafCount - 1
  PROVE  Traced(q) /\ Row(q) = i /\ Column(q) = j <=> q \in Path(i, j)
  <1> USE FabricAssumption
  <1>1. LeafOf(q.src) \in Leaf
    BY LeafOfType DEF Frame
  <1>2. PICK l \in 0 .. LeafCount - 1 : LeafOf(q.src) = <<"leaf", l>>
    BY <1>1 DEF Leaf
  <1>3. q \in Path(i, j) <=> q.via = <<"spine", i>> /\ l = j
    BY <1>2 DEF Path
  <1>4. CASE q.via = NoSpine /\ q.tag = Untagged
    <2>1. ~ Traced(q)
      BY <1>4 DEF Traced, Untagged
    <2>2. q.via # <<"spine", i>>
      BY <1>4 DEF NoSpine
    <2> QED
      BY <1>3, <2>1, <2>2
  <1>5. CASE q.via = <<"spine", 0>> /\ q.tag = TagOf(LeafOf(q.src), <<"spine", 0>>)
    <2>1. q.tag.leaf_id = SpineCount + l /\ q.tag.interface = 1
      BY <1>2, <1>5 DEF TagOf
    <2>2. Traced(q) /\ Row(q) = 0 /\ Column(q) = l
      BY <2>1 DEF Traced, Row, Column, TableFits, DefaultLeaves
    <2>3. q.via = <<"spine", i>> <=> i = 0
      BY <1>5
    <2> QED
      BY <1>3, <2>2, <2>3
  <1> QED
    BY <1>4, <1>5 DEF ViaOK

(* Transmit counts every traced drop in the cell of its path. *)
LEMMA TransmitCounts ==
  ASSUME FabricInv, DropsInv, TableFits, ~ m_randomEcmpRouting,
         NEW out, Len(out) \in {1, 2},
         \A i \in 1 .. Len(out) : Good(out[i]) /\ ViaOK(out[i]),
         NEW rest, IsABag(rest), DOMAIN rest \subseteq DOMAIN wire, Transmit(out, rest)
  PROVE  /\ \A x \in DOMAIN wire' \cup DOMAIN dropped' : ViaOK(x)
         /\ \A i \in 0 .. SpineCount - 1, j \in 0 .. LeafCount - 1 :
              /\ IsFiniteSet(CopiesOf(dropped', Path(i, j)))
              /\ m_path_drops'[i][j] = Cardinality(CopiesOf(dropped', Path(i, j)))
  <1> USE FabricAssumption
  <1> DEFINE all == 1 .. Len(out)
             expired == {i \in all : out[i].ttl = 0}
             alive == all \ expired
  <1>1. PICK lost \in SUBSET alive :
          /\ wire' = rest (+) At(out, alive \ lost)
          /\ dropped' = dropped (+) At(out, lost \cup expired)
          /\ IF \A i \in lost : Traced(out[i]) => InRange(out[i])
             THEN m_path_drops' = TraceDrops(out, lost) /\ UNCHANGED halted
             ELSE halted' = "m_path_drops" /\ UNCHANGED m_path_drops
    BY Zenon DEF Transmit
  <1>2. \A i \in all : Good(out[i]) /\ ViaOK(out[i]) /\ out[i] \in Frame
    BY DEF Good
  <1>3. expired = {}
    <2>1. \A q : Good(q) => q.ttl > 0
      <3> SUFFICES ASSUME NEW q, Good(q) PROVE q.ttl > 0
        OBVIOUS
      <3>1. q.ttl \in 0 .. DefaultTtl /\ OnPath(q)
        BY DEF Good, Frame
      <3> QED
        BY <3>1 DEF OnPath, TableFits
    <2>2. \A i \in all : out[i].ttl > 0
      BY <1>2, <2>1
    <2> QED
      BY <2>2
  <1>4. IsFiniteSet(all)
    BY FS_Interval
  <1> HIDE DEF all, expired
  <1>5. lost \in SUBSET all /\ lost \cup expired = lost /\ alive \ lost \subseteq all
    BY <1>3
  <1>6. IsFiniteSet(lost) /\ IsFiniteSet(alive \ lost)
    BY <1>4, <1>5, FS_Subset
  <1> HIDE DEF alive
  <1> DEFINE a == At(out, alive \ lost)
             b == At(out, lost)
  <1>7. /\ IsABag(a) /\ DOMAIN a = {out[i] : i \in alive \ lost}
        /\ IsABag(b) /\ DOMAIN b = {out[i] : i \in lost}
    BY <1>6, BagAt
  <1>8. wire' = rest (+) a /\ dropped' = dropped (+) b
    BY <1>1, <1>5
  <1>9. IsABag(dropped)
    BY DEF FabricInv
  <1>10. \A x \in DOMAIN a \cup DOMAIN b : ViaOK(x)
    BY <1>2, <1>5, <1>7
  <1> HIDE DEF a, b
  <1>11. DOMAIN wire' = DOMAIN rest \cup DOMAIN a /\ DOMAIN dropped' = DOMAIN dropped \cup DOMAIN b
    BY <1>7, <1>8, <1>9, BagSum
  <1>12. \A x \in DOMAIN wire \cup DOMAIN dropped : ViaOK(x)
    BY DEF DropsInv, Everywhere
  <1>13. \A x \in DOMAIN wire' \cup DOMAIN dropped' : ViaOK(x)
    BY <1>10, <1>11, <1>12
  <1>14. m_path_drops' = TraceDrops(out, lost)
    <2>1. ASSUME NEW k \in lost, Traced(out[k])
          PROVE  InRange(out[k])
      <3> DEFINE q == out[k]
      <3>1. q \in Frame /\ TagOK(q) /\ Traced(q)
        BY <1>2, <1>5, <2>1 DEF Good
      <3> HIDE DEF q
      <3>2. q.tag = TagOf(LeafOf(q.src), <<"spine", 0>>) /\ q.src \in Server
        BY <3>1 DEF TagOK, Traced, Untagged, Frame
      <3>3. LeafOf(q.src) \in Leaf
        BY <3>2, LeafOfType
      <3> DEFINE j == LeafOf(q.src)[2]
      <3>4. j \in 0 .. LeafCount - 1
        BY <3>3 DEF Leaf
      <3>5. q.tag.leaf_id = SpineCount + j /\ q.tag.interface = 1
        BY <3>2 DEF TagOf
      <3> HIDE DEF j
      <3>6. InRange(q)
        BY <3>4, <3>5 DEF InRange, Row, Column, DefaultSpines, DefaultLeaves, TableFits
      <3> QED
        BY <3>6 DEF q
    <2> QED
      BY <1>1, <2>1
  <1>15. ASSUME NEW i \in 0 .. SpineCount - 1, NEW j \in 0 .. LeafCount - 1
         PROVE  /\ IsFiniteSet(CopiesOf(dropped', Path(i, j)))
                /\ m_path_drops'[i][j] = Cardinality(CopiesOf(dropped', Path(i, j)))
    <2> DEFINE T == Path(i, j)
    <2>1. IsFiniteSet(CopiesOf(dropped, T)) /\ m_path_drops[i][j] = Cardinality(CopiesOf(dropped, T))
      BY DEF DropsInv
    <2>2. \A k \in lost : Traced(out[k]) /\ Row(out[k]) = i /\ Column(out[k]) = j <=> out[k] \in T
      BY <1>2, <1>5, CellIsPath
    <2>3. {k \in lost : Traced(out[k]) /\ Row(out[k]) = i /\ Column(out[k]) = j}
            = {k \in lost : out[k] \in T}
      BY <2>2
    <2>4. i \in 0 .. DefaultSpines - 1 /\ j \in 0 .. DefaultLeaves - 1
      BY DEF TableFits, DefaultSpines, DefaultLeaves
    <2>5. m_path_drops'[i][j] = m_path_drops[i][j] + Cardinality({k \in lost : out[k] \in T})
      BY <1>14, <2>3, <2>4 DEF TraceDrops
    <2> HIDE DEF T
    <2>6. /\ IsFiniteSet(CopiesOf(dropped (+) At(out, lost), T))
          /\ Cardinality(CopiesOf(dropped (+) At(out, lost), T)) =
               Cardinality(CopiesOf(dropped, T)) + Cardinality({k \in lost : out[k] \in T})
      <3>1. lost \in SUBSET (1 .. Len(out)) /\ Len(out) \in {1, 2}
        BY <1>5 DEF all
      <3> QED
        BY <1>9, <2>1, <3>1, CopiesMore
    <2> QED
      BY <1>8, <2>1, <2>5, <2>6 DEF b, T
  <1> QED
    BY <1>13, <1>15

(* A router that does not draw sends a packet on its path. *)
LEMMA NextVia ==
  ASSUME FabricInv, SpineCount = 2, ~ m_randomEcmpRouting, NEW p \in DOMAIN wire, ViaOK(p),
         p.to # p.dst, NEW k \in SelectIndex(p.to, p.dst)
  PROVE  LET r == RouteInput(p.to, p, k)
         IN  \A i \in 1 .. Len(r.hops) : ViaOK(Out(p, r.hops[i]))
  <1> USE FabricAssumption
  <1> DEFINE n == p.to
             r == RouteInput(n, p, k)
  <1>0. k = 1
    BY DEF SelectIndex
  <1>1. /\ p \in Frame /\ OnPath(p) /\ p.ttl \in Nat /\ p.ttl > 0
        /\ p.src \in Server /\ p.dst \in Server /\ DefaultTtl \in Nat
    BY DEF FabricInv, Everywhere, Good, Frame
  <1>2. LeafOf(p.src) \in Leaf /\ LeafOf(p.dst) \in Leaf
    BY <1>1, LeafOfType
  <1>3. ASSUME NEW h, h.hop \notin Spine, h.tag = p.tag
        PROVE  ViaOK(Out(p, h))
    BY <1>1, <1>3, OutVia DEF ViaOK
  <1>4. CASE n \in Leaf /\ LeafOf(p.dst) = n
    <2> DEFINE h == [hop |-> p.dst, tag |-> p.tag]
    <2>1. r.hops = <<h>>
      BY <1>1, <1>4, RouteDown
    <2>2. h.hop \notin Spine /\ h.tag = p.tag
      BY <1>1, Kinds
    <2> HIDE DEF h, r
    <2>3. \A i \in 1 .. Len(r.hops) : r.hops[i] = h
      BY <2>1
    <2> QED
      BY <1>3, <2>2, <2>3 DEF r
  <1>5. CASE n \in Spine
    <2> DEFINE h == [hop |-> LeafOf(p.dst), tag |-> p.tag]
    <2>1. r.hops = <<h>>
      BY <1>0, <1>1, <1>5, RouteAcross
    <2>2. h.hop \notin Spine /\ h.tag = p.tag
      BY <1>2, Kinds
    <2> HIDE DEF h, r
    <2>3. \A i \in 1 .. Len(r.hops) : r.hops[i] = h
      BY <2>1
    <2> QED
      BY <1>3, <2>2, <2>3 DEF r
  <1>6. CASE n \in Leaf /\ LeafOf(p.dst) # n
    <2> DEFINE S == <<"spine", 0>>
               t == TagOf(n, S)
               Y == [hop : {S, <<"spine", k - 1>>}, tag : {t}]
    <2>1. n = LeafOf(p.src) /\ p.ttl = DefaultTtl /\ p.tag = Untagged
      BY <1>1, <1>6, Kinds DEF OnPath
    <2>2. k \in 1 .. SpineCount
      BY <1>0
    <2>3. Len(m_distribution[n]) = 2
      BY <1>6 DEF FabricInv
    <2>4. r.hops \in Seq(Y)
      <3>1. LET R == RouteInput(n, p, k)
            IN  \/ SpineCount > 2 /\ R.failed = "probabilities"
                \/ SpineCount = 2 => R.hops \in Seq(Y)
        BY <1>1, <1>6, <2>1, <2>2, <2>3, RouteUp
      <3> HIDE DEF Y
      <3> QED
        BY <3>1
    <2>5. ASSUME NEW h \in Y
          PROVE  ViaOK(Out(p, h))
      <3>1. h.hop = S /\ h.tag = t /\ S \in Spine
        BY <1>0 DEF Spine
      <3> HIDE DEF Y
      <3> QED
        BY <1>1, <2>1, <3>1, OutVia DEF ViaOK
    <2> HIDE DEF r, Y
    <2>6. \A i \in 1 .. Len(r.hops) : r.hops[i] \in Y
      BY <2>4
    <2> QED
      BY <2>5, <2>6 DEF r
  <1>7. n \in Leaf \cup Spine
    BY <1>1, <1>2 DEF OnPath
  <1> QED
    BY <1>4, <1>5, <1>6, <1>7

(* Every step keeps the drops attributed. *)
LEMMA NextDrops ==
  ASSUME FabricInv, DropsInv, TableFits, [Next]_vars
  PROVE  DropsInv'
  <1> USE FabricAssumption
  <1>0. m_randomEcmpRouting' = m_randomEcmpRouting
    BY DEF Next, vars, Send, Deliver, Receive, ApplyNewAction
  <1> SUFFICES ASSUME ~ m_randomEcmpRouting
               PROVE  /\ \A p \in Everywhere' : ViaOK(p)
                      /\ \A i \in 0 .. SpineCount - 1, j \in 0 .. LeafCount - 1 :
                           /\ IsFiniteSet(CopiesOf(dropped', Path(i, j)))
                           /\ m_path_drops'[i][j] = Cardinality(CopiesOf(dropped', Path(i, j)))
    BY <1>0 DEF DropsInv
  <1>a. /\ \A p \in Everywhere : ViaOK(p)
        /\ \A i \in 0 .. SpineCount - 1, j \in 0 .. LeafCount - 1 :
             /\ IsFiniteSet(CopiesOf(dropped, Path(i, j)))
             /\ m_path_drops[i][j] = Cardinality(CopiesOf(dropped, Path(i, j)))
    BY DEF DropsInv
  <1>b. ASSUME dropped' = dropped, m_path_drops' = m_path_drops, Everywhere' \subseteq Everywhere
        PROVE  /\ \A p \in Everywhere' : ViaOK(p)
               /\ \A i \in 0 .. SpineCount - 1, j \in 0 .. LeafCount - 1 :
                    /\ IsFiniteSet(CopiesOf(dropped', Path(i, j)))
                    /\ m_path_drops'[i][j] = Cardinality(CopiesOf(dropped', Path(i, j)))
    BY <1>a, <1>b
  <1>c. ASSUME NEW out, Len(out) \in {1, 2},
               \A i \in 1 .. Len(out) : Good(out[i]) /\ ViaOK(out[i]),
               NEW rest, IsABag(rest), DOMAIN rest \subseteq DOMAIN wire, Transmit(out, rest),
               delivered' = delivered
        PROVE  /\ \A p \in Everywhere' : ViaOK(p)
               /\ \A i \in 0 .. SpineCount - 1, j \in 0 .. LeafCount - 1 :
                    /\ IsFiniteSet(CopiesOf(dropped', Path(i, j)))
                    /\ m_path_drops'[i][j] = Cardinality(CopiesOf(dropped', Path(i, j)))
    <2>1. /\ \A x \in DOMAIN wire' \cup DOMAIN dropped' : ViaOK(x)
          /\ \A i \in 0 .. SpineCount - 1, j \in 0 .. LeafCount - 1 :
               /\ IsFiniteSet(CopiesOf(dropped', Path(i, j)))
               /\ m_path_drops'[i][j] = Cardinality(CopiesOf(dropped', Path(i, j)))
      BY <1>c, TransmitCounts
    <2> QED
      BY <1>a, <1>c, <2>1 DEF Everywhere
  <1>1. ASSUME NEW s \in Server, NEW d \in Server, Send(s, d)
        PROVE  /\ \A p \in Everywhere' : ViaOK(p)
               /\ \A i \in 0 .. SpineCount - 1, j \in 0 .. LeafCount - 1 :
                    /\ IsFiniteSet(CopiesOf(dropped', Path(i, j)))
                    /\ m_path_drops'[i][j] = Cardinality(CopiesOf(dropped', Path(i, j)))
    <2> DEFINE q == [uid |-> sent + 1, src |-> s, dst |-> d, to |-> GlobalRoutes(s, d)[1],
                     ttl |-> DefaultTtl, tag |-> Untagged, via |-> NoSpine]
               out == <<q>>
    <2>1. sent < MaxPackets /\ Transmit(out, wire) /\ delivered' = delivered
      BY <1>1 DEF Send
    <2>2. GlobalRoutes(s, d)[1] = LeafOf(s) /\ LeafOf(s) \in Leaf
      BY Kinds, LeafOfType DEF GlobalRoutes
    <2>3. sent + 1 \in 1 .. MaxPackets
      BY <2>1 DEF FabricInv
    <2>4. LeafOf(s) \in Node /\ DefaultTtl \in 0 .. DefaultTtl
      BY <2>2 DEF Node
    <2>5. q \in Frame
      BY <2>2, <2>3, <2>4, TagTypes DEF Frame
    <2>6. q.to = LeafOf(q.src) /\ q.ttl = DefaultTtl /\ q.tag = Untagged /\ q.via = NoSpine
      BY <2>2
    <2> HIDE DEF q
    <2>7. Good(q) /\ ViaOK(q)
      BY <2>5, <2>6 DEF Good, OnPath, TagOK, ViaOK
    <2>8. Len(out) \in {1, 2} /\ \A i \in 1 .. Len(out) : Good(out[i]) /\ ViaOK(out[i])
      BY <2>7
    <2>9. IsABag(wire)
      BY DEF FabricInv
    <2> HIDE DEF out
    <2> QED
      BY <1>c, <2>1, <2>8, <2>9
  <1>2. ASSUME NEW p \in BagToSet(wire), Deliver(p)
        PROVE  /\ dropped' = dropped /\ m_path_drops' = m_path_drops
               /\ Everywhere' \subseteq Everywhere
    <2>1. /\ wire' = wire (-) SetToBag({p}) /\ delivered' = delivered (+) SetToBag({p})
          /\ dropped' = dropped /\ m_path_drops' = m_path_drops
      BY <1>2 DEF Deliver
    <2>2. p \in DOMAIN wire /\ IsABag(wire) /\ IsABag(delivered)
      BY DEF BagToSet, FabricInv
    <2>3. DOMAIN wire' \subseteq DOMAIN wire
      BY <2>1, <2>2, WireWithout
    <2>4. IsABag(SetToBag({p})) /\ DOMAIN SetToBag({p}) = {p}
      BY SmallBags
    <2>5. DOMAIN delivered' = DOMAIN delivered \cup {p}
      BY <2>1, <2>2, <2>4, BagSum
    <2> QED
      BY <2>1, <2>2, <2>3, <2>5 DEF Everywhere
  <1>3. ASSUME NEW p \in BagToSet(wire), Receive(p)
        PROVE  /\ \A x \in Everywhere' : ViaOK(x)
               /\ \A i \in 0 .. SpineCount - 1, j \in 0 .. LeafCount - 1 :
                    /\ IsFiniteSet(CopiesOf(dropped', Path(i, j)))
                    /\ m_path_drops'[i][j] = Cardinality(CopiesOf(dropped', Path(i, j)))
    <2>1. PICK k \in SelectIndex(p.to, p.dst) :
            LET r == RouteInput(p.to, p, k)
            IN  IF r.failed # "no"
                THEN UNCHANGED <<wire, m_path_drops, dropped>>
                ELSE Transmit(Outgoing(p, r), wire (-) SetToBag({p}))
      BY <1>3, Zenon DEF Receive
    <2>2. p.to # p.dst /\ delivered' = delivered
      BY <1>3, Zenon DEF Receive
    <2>3. p \in DOMAIN wire /\ IsABag(wire) /\ ViaOK(p)
      BY <1>a DEF BagToSet, FabricInv, Everywhere
    <2> DEFINE r == RouteInput(p.to, p, k)
               out == Outgoing(p, r)
               rest == wire (-) SetToBag({p})
    <2>4. /\ r.failed = "no" =>
               /\ Len(r.hops) \in {1, 2}
               /\ \A i \in 1 .. Len(r.hops) : Good(Out(p, r.hops[i]))
      BY <2>2, <2>3, NextHops
    <2>5. \A i \in 1 .. Len(r.hops) : ViaOK(Out(p, r.hops[i]))
      <3>1. SpineCount = 2
        BY DEF TableFits
      <3> QED
        BY <2>2, <2>3, <3>1, NextVia
    <2>6. out = [i \in 1 .. Len(r.hops) |-> Out(p, r.hops[i])]
      BY Zenon DEF Outgoing, Out
    <2>7. CASE r.failed # "no"
      <3>1. UNCHANGED <<wire, m_path_drops, dropped>>
        BY <2>1, <2>7
      <3> HIDE DEF r, out, rest
      <3>2. Everywhere' = Everywhere
        BY <2>2, <3>1 DEF Everywhere
      <3> QED
        BY <1>b, <3>1, <3>2
    <2>8. CASE r.failed = "no"
      <3>1. Transmit(out, rest)
        BY <2>1, <2>8
      <3> DEFINE m == Len(r.hops)
      <3> HIDE DEF r
      <3>2. m \in {1, 2} /\ \A i \in 1 .. m : Good(Out(p, r.hops[i])) /\ ViaOK(Out(p, r.hops[i]))
        BY <2>4, <2>5, <2>8
      <3>3. out = [i \in 1 .. m |-> Out(p, r.hops[i])]
        BY <2>6
      <3> HIDE DEF m, out
      <3>4. DOMAIN out = 1 .. m /\ \A i \in 1 .. m : out[i] = Out(p, r.hops[i])
        BY <3>3
      <3>5. Len(out) = m
        BY <3>2, <3>3
      <3>6. Len(out) \in {1, 2} /\ \A i \in 1 .. Len(out) : Good(out[i]) /\ ViaOK(out[i])
        BY <3>2, <3>4, <3>5
      <3>7. IsABag(rest) /\ DOMAIN rest \subseteq DOMAIN wire
        BY <2>3, WireWithout
      <3> HIDE DEF rest
      <3>8. delivered' = delivered
        BY <2>2
      <3>9. /\ \A x \in DOMAIN wire' \cup DOMAIN dropped' : ViaOK(x)
            /\ \A i \in 0 .. SpineCount - 1, j \in 0 .. LeafCount - 1 :
                 /\ IsFiniteSet(CopiesOf(dropped', Path(i, j)))
                 /\ m_path_drops'[i][j] = Cardinality(CopiesOf(dropped', Path(i, j)))
        BY <3>1, <3>6, <3>7, TransmitCounts
      <3> QED
        BY <1>a, <3>8, <3>9 DEF Everywhere
    <2> QED
      BY <2>7, <2>8
  <1>4. ASSUME NEW w, ApplyNewAction(w)
        PROVE  /\ dropped' = dropped /\ m_path_drops' = m_path_drops
               /\ Everywhere' \subseteq Everywhere
    BY <1>4 DEF ApplyNewAction, Everywhere
  <1>5. CASE UNCHANGED vars
    <2>1. /\ dropped' = dropped /\ m_path_drops' = m_path_drops
          /\ Everywhere' \subseteq Everywhere
      BY <1>5 DEF vars, Everywhere
    <2> QED
      BY <1>b, <2>1
  <1>6. CASE \E p \in BagToSet(wire) : Deliver(p)
    BY <1>2, <1>6, <1>b
  <1>7. CASE \E w \in {<<1, 1>>, <<1, 0>>} : ApplyNewAction(w)
    BY <1>4, <1>7, <1>b
  <1>8. CASE \E s, d \in Server : Send(s, d)
    BY <1>1, <1>8
  <1>9. CASE \E p \in BagToSet(wire) : Receive(p)
    BY <1>3, <1>9
  <1> QED
    BY <1>5, <1>6, <1>7, <1>8, <1>9 DEF Next

(* The drops that TraceP2PDevQueueDrop counts for the agent are those of   *)
(* the path that the copies really took, in a fabric of two spines that    *)
(* fits the table, for any number of servers and packets, as long as       *)
(* Ipv4GlobalRouting does not draw its routes.                             *)
THEOREM DropsAttributed ==
  ASSUME TableFits
  PROVE  Spec => []PathDropsAttributed
  <1> USE FabricAssumption
  <1>1. Init => DropsInv
    <2> SUFFICES ASSUME Init PROVE DropsInv
      OBVIOUS
    <2>1. Everywhere = {} /\ DOMAIN dropped = {}
      BY SmallBags DEF Init, Everywhere
    <2>2. \A T : CopiesOf(dropped, T) = {}
      BY <2>1 DEF CopiesOf
    <2>3. ASSUME NEW i \in 0 .. SpineCount - 1, NEW j \in 0 .. LeafCount - 1
          PROVE  m_path_drops[i][j] = 0
      <3>1. i \in 0 .. DefaultSpines - 1 /\ j \in 0 .. DefaultLeaves - 1
        BY DEF TableFits, DefaultSpines, DefaultLeaves
      <3> QED
        BY <3>1 DEF Init
    <2>4. IsFiniteSet({}) /\ Cardinality({}) = 0
      BY FS_EmptySet
    <2>5. \A T : IsFiniteSet(CopiesOf(dropped, T)) /\ Cardinality(CopiesOf(dropped, T)) = 0
      BY <2>2, <2>4
    <2>6. \A p \in Everywhere : ViaOK(p)
      BY <2>1
    <2> QED
      BY <2>3, <2>5, <2>6, Zenon DEF DropsInv
  <1>2. FabricInv /\ DropsInv /\ [Next]_vars => FabricInv' /\ DropsInv'
    BY NextInv, NextDrops
  <1>3. FabricInv /\ DropsInv => PathDropsAttributed
    <2> SUFFICES ASSUME FabricInv, DropsInv, ~ m_randomEcmpRouting,
                        NEW i \in 0 .. SpineCount - 1, NEW j \in 0 .. LeafCount - 1
                 PROVE  m_path_drops[i][j] = Cardinality(DroppedOn(i, j))
      BY DEF PathDropsAttributed
    <2>1. DOMAIN dropped \subseteq Frame
      BY DEF FabricInv, Everywhere, Good
    <2>2. DOMAIN dropped \cap Path(i, j) =
            {q \in BagToSet(dropped) : q.via = <<"spine", i>> /\ LeafOf(q.src) = <<"leaf", j>>}
      BY <2>1 DEF Path, BagToSet
    <2>3. DroppedOn(i, j) = CopiesOf(dropped, Path(i, j))
      BY <2>2, Zenon DEF DroppedOn, CopiesOf
    <2> QED
      BY <2>3 DEF DropsInv
  <1>4. Init => FabricInv
    BY InitInv
  <1> QED
    BY <1>1, <1>2, <1>3, <1>4, PTL DEF Spec
=============================================================================
