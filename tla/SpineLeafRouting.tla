-------------------------- MODULE SpineLeafRouting --------------------------
(***************************************************************************)
(* Forwarding in the spine-leaf fabric that scratch/loadbalancer builds:   *)
(* Ipv4L3Protocol::Receive hands a packet to the node's Ipv4ListRouting,   *)
(* which tries its protocols in order of priority until one claims the     *)
(* packet.  A leaf tries Ipv4RlRouting (10), Ipv4StaticRouting (0) and     *)
(* Ipv4GlobalRouting (-10); a spine or a server the last two only.         *)
(*                                                                         *)
(* A device is reduced to what routing sees of it: it passes a packet on   *)
(* or its queue drops it, which fires the trace sink                       *)
(* StateActionManager::TraceP2PDevQueueDrop (PointToPointLink models the   *)
(* device itself).  All traffic is unicast between servers, and every      *)
(* interface is up and forwards, as main-loadbalancer.cc leaves them.      *)
(***************************************************************************)
EXTENDS Integers, Sequences, FiniteSets, Bags

CONSTANTS SpineCount, LeafCount,  \* Globals::spineCount, leafCount
          ServerCount,            \* Globals::serverCount: servers of a leaf
          ActionSpace,            \* Globals::action_space
          DefaultTtl,             \* Ipv4L3Protocol's DefaultTtl
          MaxPackets              \* bound: packets the servers send

ASSUME FabricAssumption ==
  /\ {SpineCount, LeafCount, ServerCount, ActionSpace} \subseteq Nat \ {0}
  /\ DefaultTtl \in 1 .. 255 /\ MaxPackets \in Nat

(* Static tables have the size of the initial values in globals.h, not of  *)
(* the options main parses.                                                *)
DefaultSpines == 2
DefaultLeaves == 4

Spine == {"spine"} \X (0 .. SpineCount - 1)
Leaf == {"leaf"} \X (0 .. LeafCount - 1)
Server == {"server"} \X (0 .. LeafCount * ServerCount - 1)
Node == Spine \cup Leaf \cup Server

LeafOf(s) == <<"leaf", s[2] \div ServerCount>>

(* MyTag: the first leaf's node id (spines are created first) and the      *)
(* ifIndex of the device it sent on (0 is the loopback device).  Untagged  *)
(* is what PeekPacketTag leaves in a MyTag when the packet carries none.   *)
Tag == [leaf_id : Nat, interface : Nat]
Untagged == [leaf_id |-> 99999, interface |-> 99999]

TagOf(l, spine) ==
  [leaf_id |-> SpineCount + l[2], interface |-> spine[2] + 1]

(* A packet on its way to node "to"; src and via are history: the server   *)
(* that sent it and the spine it was really sent to.                       *)
NoSpine == <<"spine", -1>>
Packet == [uid : 1 .. MaxPackets, src : Server, dst : Server, to : Node,
           ttl : 1 .. DefaultTtl, tag : Tag, via : Spine \cup {NoSpine}]

VARIABLES
  m_randomEcmpRouting,  \* Ipv4GlobalRouting's attribute, set before the run
  wire,             \* bag of the packets in flight
  m_distribution,   \* per leaf: the weights of the discrete distribution
  stats,            \* per leaf: packets sent to each of its first two routes
  m_path_drops,     \* StateActionManager::m_path_drops[spine][leaf]
  halted,           \* "no", or what failed: an NS_ASSERT or an index
  sent,             \* packets sent so far
  dropped,          \* history: bag of the packets the queues dropped
  delivered,        \* history: bag of the packets the servers received
  forwarded         \* history: how often a node forwarded packet uid

vars == <<m_randomEcmpRouting, wire, m_distribution, stats, m_path_drops, halted,
          sent, dropped, delivered, forwarded>>

-----------------------------------------------------------------------------
(* The tables GlobalRouteManager computes: next hops on the shortest paths *)
(* from n to server d, in the order of the interfaces.                     *)
GlobalRoutes(n, d) ==
  CASE n \in Leaf /\ LeafOf(d) = n -> <<d>>
    [] n \in Leaf /\ LeafOf(d) # n ->
         [i \in 1 .. SpineCount |-> <<"spine", i - 1>>]
    [] n \in Spine -> <<LeafOf(d)>>
    [] n \in Server -> <<LeafOf(n)>>

(* Ipv4StaticRouting knows the networks of the node's own interfaces. *)
StaticRoutes(n, d) == IF n \in Leaf /\ LeafOf(d) = n THEN <<d>> ELSE << >>

(* InitRLRouting: every leaf copies the global routes and starts with two  *)
(* equal weights, whatever the number of spines.                           *)
InitialProbs == <<1, 1>>

Init ==
  /\ m_randomEcmpRouting \in BOOLEAN
  /\ wire = EmptyBag
  /\ m_distribution = [l \in Leaf |-> InitialProbs]
  /\ stats = [l \in Leaf |-> <<0, 0>>]
  /\ m_path_drops = [i \in 0 .. DefaultSpines - 1 |-> [j \in 0 .. DefaultLeaves - 1 |-> 0]]
  /\ halted = "no"
  /\ sent = 0
  /\ dropped = EmptyBag
  /\ delivered = EmptyBag
  /\ forwarded = [u \in 1 .. MaxPackets |-> [n \in Node |-> 0]]

-----------------------------------------------------------------------------
(* A protocol's RouteInput maps the state r of the call to its result: the *)
(* packet (which it may tag), the hops it called the unicast callback      *)
(* with, whether some protocol has claimed the packet, and the assertion   *)
(* that failed, if any.  A claimed packet is not offered to the others.    *)
Call(p) == [pkt |-> p, hops |-> << >>, claimed |-> FALSE, failed |-> "no"]

Forward(r, hop) ==
  [r EXCEPT !.hops = Append(@, [hop |-> hop, tag |-> r.pkt.tag])]

Claim(r) == [r EXCEPT !.claimed = TRUE]

(* Mutant: a single route is claimed and never used. *)
RlRouteInputNoCallback(l, r) ==
  IF Len(GlobalRoutes(l, r.pkt.dst)) = 1 THEN Claim(r) ELSE r

(* Mutant: every packet is tagged, also on its way down. *)
RlRouteInputTagsAll(l, r) ==
  LET candidates == GlobalRoutes(l, r.pkt.dst)
  IN  IF r.pkt.tag # Untagged
      THEN [r EXCEPT !.failed = "AddPacketTag"]
      ELSE Forward([r EXCEPT !.pkt.tag = TagOf(l, candidates[1])], candidates[1])

(* Ipv4RlRouting.  With several candidates it takes the first, tags the    *)
(* packet, forwards it and reports it as not handled.                      *)
RlRouteInput(l, r) ==
  LET candidates == GlobalRoutes(l, r.pkt.dst)
      tagged == [r EXCEPT !.pkt.tag = TagOf(l, candidates[1])]
  IN  CASE Len(candidates) = 0 -> r
        [] Len(candidates) = 1 -> Claim(Forward(r, candidates[1]))
        [] Len(candidates) > 1 /\ Len(candidates) # Len(m_distribution[l]) ->
             [r EXCEPT !.failed = "probabilities"]
        [] Len(candidates) > 1 /\ Len(candidates) = Len(m_distribution[l])
             /\ r.pkt.tag # Untagged -> [r EXCEPT !.failed = "AddPacketTag"]
        [] OTHER -> Forward(tagged, candidates[1])

StaticRouteInput(n, r) ==
  LET routes == StaticRoutes(n, r.pkt.dst)
  IN  IF r.claimed \/ r.failed # "no" \/ routes = << >>
      THEN r
      ELSE Claim(Forward(r, routes[1]))

(* k is the route LookupGlobal selects. *)
GlobalRouteInput(n, r, k) ==
  IF r.claimed \/ r.failed # "no"
  THEN r
  ELSE Claim(Forward(r, GlobalRoutes(n, r.pkt.dst)[k]))

(* Mutant: the route is drawn at random although m_randomEcmpRouting is off. *)
SelectAnyIndex(n, d) == 1 .. Len(GlobalRoutes(n, d))

SelectIndex(n, d) == IF m_randomEcmpRouting THEN 1 .. Len(GlobalRoutes(n, d)) ELSE {1}

(* Ipv4ListRouting::RouteInput, for a packet that is not for this node. *)
RouteInput(n, p, k) ==
  LET first == IF n \in Leaf THEN RlRouteInput(n, Call(p)) ELSE Call(p)
  IN  GlobalRouteInput(n, StaticRouteInput(n, first), k)

(* The RL router's counter: the multi-path branch was taken. *)
Counted(n, r) == n \in Leaf /\ Len(GlobalRoutes(n, r.pkt.dst)) > 1 /\ r.failed = "no"

-----------------------------------------------------------------------------
(* Mutant: the header is not copied, so the second call finds it decremented. *)
OutgoingSharedHeader(p, r) ==
  [i \in 1 .. Len(r.hops) |->
     [p EXCEPT !.to = r.hops[i].hop, !.ttl = @ - i, !.tag = r.hops[i].tag,
               !.via = IF r.hops[i].hop \in Spine THEN r.hops[i].hop ELSE @]]

(* The packets IpForward sends for the hops of r: one less hop to live.    *)
Outgoing(p, r) ==
  [i \in 1 .. Len(r.hops) |->
     [p EXCEPT !.to = r.hops[i].hop, !.ttl = @ - 1, !.tag = r.hops[i].tag,
               !.via = IF r.hops[i].hop \in Spine THEN r.hops[i].hop ELSE @]]

(* The sub-bag of the sequence s at the positions I. *)
At(s, I) ==
  [x \in {s[i] : i \in I} |-> Cardinality({i \in I : s[i] = x})]

(* TraceP2PDevQueueDrop: the cell of m_path_drops the tag selects. *)
Traced(p) == p.tag.leaf_id # 99999
Row(p) == p.tag.interface - 1
Column(p) == p.tag.leaf_id - SpineCount
InRange(p) == Row(p) \in 0 .. DefaultSpines - 1 /\ Column(p) \in 0 .. DefaultLeaves - 1

TraceDrops(out, lost) ==
  [i \in 0 .. DefaultSpines - 1 |-> [j \in 0 .. DefaultLeaves - 1 |->
     m_path_drops[i][j] + Cardinality({k \in lost :
       Traced(out[k]) /\ Row(out[k]) = i /\ Column(out[k]) = j})]]

(* The packets "out" go to their devices, except those whose ttl is spent; *)
(* the devices' queues drop some of them.  "rest" is the wire without the  *)
(* packet being handled.                                                   *)
Transmit(out, rest) ==
  LET expired == {i \in 1 .. Len(out) : out[i].ttl = 0}
      alive == (1 .. Len(out)) \ expired
  IN  \E lost \in SUBSET alive :
        /\ wire' = rest (+) At(out, alive \ lost)
        /\ dropped' = dropped (+) At(out, lost \cup expired)
        /\ IF \A i \in lost : Traced(out[i]) => InRange(out[i])
           THEN m_path_drops' = TraceDrops(out, lost) /\ UNCHANGED halted
           ELSE halted' = "m_path_drops" /\ UNCHANGED m_path_drops

Running == halted = "no"

-----------------------------------------------------------------------------
(* A server sends a packet: Ipv4ListRouting::RouteOutput finds its global  *)
(* route, the one to its leaf.                                             *)
Send(s, d) ==
  /\ Running /\ s # d /\ sent < MaxPackets
  /\ sent' = sent + 1
  /\ Transmit(<<[uid |-> sent + 1, src |-> s, dst |-> d,
                 to |-> GlobalRoutes(s, d)[1], ttl |-> DefaultTtl,
                 tag |-> Untagged, via |-> NoSpine]>>, wire)
  /\ UNCHANGED <<m_randomEcmpRouting, m_distribution, stats, delivered, forwarded>>

(* Ipv4L3Protocol::Receive of a packet for this node: LocalDeliver. *)
Deliver(p) ==
  /\ Running /\ p.to = p.dst
  /\ wire' = wire (-) SetToBag({p})
  /\ delivered' = delivered (+) SetToBag({p})
  /\ UNCHANGED <<m_randomEcmpRouting, m_distribution, stats, m_path_drops, halted, sent,
                 dropped, forwarded>>

(* Ipv4L3Protocol::Receive of a packet for another node. *)
Receive(p) ==
  /\ Running /\ p.to # p.dst
  /\ \E k \in SelectIndex(p.to, p.dst) :
       LET n == p.to
           r == RouteInput(n, p, k)
           out == Outgoing(p, r)
       IN  IF r.failed # "no"
           THEN /\ halted' = r.failed
                /\ UNCHANGED <<wire, stats, m_path_drops, dropped, forwarded>>
           ELSE /\ Transmit(out, wire (-) SetToBag({p}))
                /\ stats' = IF Counted(n, r) THEN [stats EXCEPT ![n][1] = @ + 1] ELSE stats
                /\ forwarded' = [forwarded EXCEPT ![p.uid][n] = @ + Len(out)]
  /\ UNCHANGED <<m_randomEcmpRouting, m_distribution, sent, delivered>>

(* StateActionManager::ApplyNewAction with the vector the action space of  *)
(* DataCenterEnv prescribes: only the first leaf's router is changed.      *)
ApplyNewAction(weights) ==
  LET size == SpineCount * LeafCount
      first == <<"leaf", 0>>
  IN  /\ Running
      /\ IF size % ActionSpace # 0 \/ size \div ActionSpace # LeafCount
         THEN halted' = "actions" /\ UNCHANGED <<m_distribution, stats>>
         ELSE /\ stats' = [stats EXCEPT ![first] = <<0, 0>>]
              /\ m_distribution' = [m_distribution EXCEPT ![first] = weights]
              /\ UNCHANGED halted
      /\ UNCHANGED <<m_randomEcmpRouting, wire, m_path_drops, sent, dropped, delivered,
                     forwarded>>

Next ==
  \/ \E s, d \in Server : Send(s, d)
  \/ \E p \in BagToSet(wire) : Deliver(p)
  \/ \E p \in BagToSet(wire) : Receive(p)
  \/ \E w \in {<<1, 1>>, <<1, 0>>} : ApplyNewAction(w)

Spec == Init /\ [][Next]_vars

-----------------------------------------------------------------------------
(* Every packet, in particular its tag and its time to live, every counter *)
(* and every distribution is in the range of its C++ type.                 *)
TypeOK ==
  /\ m_randomEcmpRouting \in BOOLEAN
  /\ BagToSet(wire) \subseteq Packet /\ BagToSet(delivered) \subseteq Packet
  /\ m_distribution \in [Leaf -> {<<1, 1>>, <<1, 0>>}]
  /\ stats \in [Leaf -> Nat \X Nat]
  /\ m_path_drops \in [0 .. DefaultSpines - 1 -> [0 .. DefaultLeaves - 1 -> Nat]]
  /\ sent \in 0 .. MaxPackets

(* No assertion of the forwarding path fails and no counter is indexed out *)
(* of its bounds: the router's distribution has one weight per candidate   *)
(* (aarl-ipv4-routing.cpp:126), no packet is tagged twice                  *)
(* (packet-tag-list.cc:267), the agent's vector has the expected size; and *)
(* index arithmetic leaves every value in its type.                        *)
NoAssertionFails == halted = "no" /\ TypeOK

(* Forwarding is loop-free although several protocols may forward the same *)
(* packet: no copy is forwarded by more than a leaf, a spine and a leaf.   *)
HopsBounded ==
  \A p \in BagToSet(wire) \cup BagToSet(delivered) \cup BagToSet(dropped) :
    DefaultTtl - p.ttl <= 3

(* The copies that came from a server of leaf j, were really sent to spine *)
(* i, and were dropped by a queue anywhere from that leaf on; the copies   *)
(* of one packet in one place are told apart by a number.                  *)
DroppedOn(i, j) ==
  UNION {{p} \X (1 .. dropped[p]) :
           p \in {q \in BagToSet(dropped) :
                    q.via = <<"spine", i>> /\ LeafOf(q.src) = <<"leaf", j>>}}

(* The drops the agent reads are those of the path: cell [i][j] counts the *)
(* copies dropped on their way from leaf j over spine i.  Only while       *)
(* Ipv4GlobalRouting does not draw its routes: its copy carries the tag of *)
(* the first route whatever it draws.                                      *)
PathDropsAttributed ==
  ~m_randomEcmpRouting =>
  \A i \in 0 .. SpineCount - 1, j \in 0 .. LeafCount - 1 :
    m_path_drops[i][j] = Cardinality(DroppedOn(i, j))

(* RouteInput never swallows a packet: one that was sent is on a wire, was *)
(* received, or was dropped by a queue, whatever the protocols answered.   *)
NothingVanishes ==
  halted = "no" =>
    \A u \in 1 .. sent :
      \E p \in BagToSet(wire) \cup BagToSet(delivered) \cup BagToSet(dropped) :
        p.uid = u

(* A protocol whose callback has forwarded a packet takes responsibility   *)
(* for it, so no node forwards a packet twice (ipv4-routing-protocol.h:117).*)
ForwardedOnce == \A u \in 1 .. MaxPackets, n \in Node : forwarded[u][n] <= 1
=============================================================================
