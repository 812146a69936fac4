-------------------------- MODULE GlobalRouteManager --------------------------
(***************************************************************************)
(* The global route manager (global-route-manager-impl.cc): for each       *)
(* router of the link state database it grows a shortest path tree from    *)
(* that router, with a candidate queue (candidate-queue.cc), and writes    *)
(* the routes of the tree into the router's table.  The load balancer      *)
(* fills its tables this way (topology-builder.h:178) before Ipv4RlRouting *)
(* copies them.                                                            *)
(*                                                                         *)
(* A vertex is a router or a transit network.  The link state database is  *)
(* the pair link, att: the metric of each point-to-point record and of     *)
(* each router's record for a network it is attached to, 0 where there is  *)
(* no record.  An interface of the root is named by the vertex it leads    *)
(* to, the address of a next hop by the router that has it.  Two routers   *)
(* share at most one point-to-point link.  The calculation is one call; it *)
(* is cut into the steps of its loop so that the invariants see the tree   *)
(* while it grows.                                                         *)
(***************************************************************************)
EXTENDS Integers, Sequences, FiniteSets, FiniteSetsExt, SequencesExt

CONSTANTS
    NRouters,    \* routers are 1 .. NRouters, in the order of the NodeList
    NNetworks,   \* transit networks come after them
    Metrics,     \* what Ipv4Interface::SetMetric is called with
    NetMetric,   \* the metric of each router's interfaces on transit networks
    Stations     \* the sets of routers a network may connect: none of them for a
                 \* network that is not there, never a single one (a stub)

ASSUME RoutesAssumption ==
    /\ NRouters \in Nat \ {0} /\ NNetworks \in Nat
    /\ Metrics \subseteq Nat \ {0} /\ IsFiniteSet(Metrics)
    /\ NetMetric \in [1..NRouters -> Nat \ {0}]
    /\ \A S \in Stations : S \subseteq 1..NRouters /\ Cardinality(S) # 1

Routers == 1..NRouters
Networks == (NRouters + 1)..(NRouters + NNetworks)
Vertices == Routers \cup Networks

VARIABLES
    link,     \* link[a][b]: metric of a's point-to-point record for b
    att,      \* att[n][a]: metric of a's record for the network n
    routes,   \* the Ipv4GlobalRouting table of each router
    root,     \* the router SPFCalculate runs for
    spf,      \* status of the LSAs, the SPFVertex objects, the candidates
    pc        \* the next step of the calculation

vars == <<link, att, routes, root, spf, pc>>

-----------------------------------------------------------------------------
(* The link state database. *)

\* Ipv4Address::GetZero, the next hop of a directly connected network.
NoHop == 0

PointToPoints(a) == {b \in Routers : link[a][b] > 0}
Transits(a) == {n \in Networks : att[n][a] > 0}
Attached(n) == {a \in Routers : att[n][a] > 0}

\* The vertices the LSA of v has a record for.
Neighbours(v) == IF v \in Routers THEN PointToPoints(v) \cup Transits(v) ELSE Attached(v)

\* The cost of going from v to w, which v's LSA has a record for: leaving a
\* network is free.
Cost(v, w) ==
    CASE v \in Networks -> 0
      [] w \in Networks -> att[w][v]
      [] OTHER          -> link[v][w]

\* GlobalRouteManagerLSDB::Initialize, and no SPFVertex but the root's.
Initialize(r) ==
    [status    |-> [v \in Vertices |-> IF v = r THEN "tree" ELSE "unexplored"],
     dist      |-> [v \in Vertices |-> 0],
     parents   |-> [v \in Vertices |-> {}],
     exits     |-> [v \in Vertices |-> {}],
     candidate |-> << >>,
     current   |-> r,
     failed    |-> FALSE]

-----------------------------------------------------------------------------
(* CandidateQueue. *)

\* Mutant: the tie is not broken.
CompareByDistance(dist, v, w) == dist[v] < dist[w]

\* CompareSPFVertex: nearer first, and a network before a router.
CompareSPFVertex(dist, v, w) ==
    \/ dist[v] < dist[w]
    \/ dist[v] = dist[w] /\ v \in Networks /\ w \in Routers

\* Push: before the first vertex that v compares less than (std::upper_bound).
Push(q, dist, v) ==
    LET behind == {i \in DOMAIN q : CompareSPFVertex(dist, v, q[i])}
    IN  InsertAt(q, Min(behind \cup {Len(q) + 1}), v)

\* Mutant: the queue keeps the order of the old distances.
ReorderForgotten(q, dist, v) == q

\* Reorder after the distance of v was lowered: a stable sort, in which only
\* v moves, to behind those it now equals.
Reorder(q, dist, v) == Push(RemoveAt(q, CHOOSE i \in DOMAIN q : q[i] = v), dist, v)

-----------------------------------------------------------------------------
(* SPFNext and SPFNexthopCalculation. *)

\* The root exits <<next hop, interface>> that w gets through v.
SPFNexthopCalculation(s, v, w) ==
    CASE v = root /\ w \in Routers                    -> {<<w, w>>}
      [] v = root /\ w \in Networks                   -> {<<NoHop, w>>}
      [] v \in Networks /\ s.parents[v] = {root}      -> {<<w, e[2]>> : e \in s.exits[v]}
      [] OTHER                                        -> s.exits[v]

\* SPFVertex::GetRootExitDirection () asserts that there is one exit; it is
\* what SPFNexthopCalculation reads when it comes from a network.
ExitIsAmbiguous(s, v) == v \in Networks /\ Cardinality(s.exits[v]) > 1

\* Mutant: the first path found is kept among those of equal cost.
ConsiderFirstPath(s, v, w) ==
    IF ~ s.failed /\ s.status[w] = "candidate" /\ s.dist[w] = s.dist[v] + Cost(v, w)
    THEN s
    ELSE LET d    == s.dist[v] + Cost(v, w)
             dist == [s.dist EXCEPT ![w] = d]
             e    == SPFNexthopCalculation(s, v, w)
         IN  IF s.failed \/ s.status[w] = "tree" \/ (s.status[w] = "candidate" /\ s.dist[w] < d)
             THEN s
             ELSE IF ExitIsAmbiguous(s, v)
             THEN [s EXCEPT !.failed = TRUE]
             ELSE IF s.status[w] = "unexplored"
             THEN [s EXCEPT !.status[w] = "candidate", !.dist = dist,
                            !.parents[w] = {v}, !.exits[w] = e,
                            !.candidate = Push(@, dist, w)]
             ELSE [s EXCEPT !.dist = dist, !.parents[w] = {v}, !.exits[w] = e,
                            !.candidate = Reorder(@, dist, w)]

\* One round of the loop of SPFNext: the record of v for w.
Consider(s, v, w) ==
    LET d    == s.dist[v] + Cost(v, w)
        e    == SPFNexthopCalculation(s, v, w)
        dist == [s.dist EXCEPT ![w] = d]
    IN  IF s.failed \/ s.status[w] = "tree" \/ (s.status[w] = "candidate" /\ s.dist[w] < d)
        THEN s
        ELSE IF ExitIsAmbiguous(s, v)
        THEN [s EXCEPT !.failed = TRUE]
        ELSE IF s.status[w] = "unexplored"
        THEN [s EXCEPT !.status[w] = "candidate", !.dist = dist,
                       !.parents[w] = {v}, !.exits[w] = e,
                       !.candidate = Push(@, dist, w)]
        ELSE IF s.dist[w] = d
        THEN [s EXCEPT !.parents[w] = @ \cup {v}, !.exits[w] = @ \cup e]
        ELSE [s EXCEPT !.dist = dist, !.parents[w] = {v}, !.exits[w] = e,
                       !.candidate = Reorder(@, dist, w)]

\* The loop over the records of the LSA of v, in their order, on the set that
\* holds the one state it is in.
ConsiderAll(s, v) ==
    LET loop[i \in 0..(NRouters + NNetworks)] ==
            IF i = 0 THEN {s}
            ELSE IF i \in Neighbours(v) THEN {Consider(t, v, i) : t \in loop[i - 1]}
            ELSE loop[i - 1]
    IN  loop[NRouters + NNetworks]

SPFNext ==
    /\ pc = "next"
    /\ spf' \in ConsiderAll(spf, spf.current)
    /\ pc' = IF spf'.failed THEN "failed" ELSE IF spf'.candidate = << >> THEN "stubs" ELSE "pop"
    /\ UNCHANGED <<link, att, routes, root>>

-----------------------------------------------------------------------------
(* The routes. *)

\* The destinations: the addresses of a router's point-to-point interfaces
\* (host routes), a transit network, the subnet of a point-to-point link
\* (each end advertises it as a stub) and everything else.
Host(v) == <<"host", v>>
Net(n) == <<"net", n>>
Subnet(a, b) == <<"stub", Min({a, b}), Max({a, b})>>
Default == <<"default">>

AddRoutes(dests, exits) == routes' = [routes EXCEPT ![root] = @ \cup (dests \X exits)]

\* SPFIntraAddRouter, SPFIntraAddTransit: what v adds once it is in the tree.
IntraDestinations(v) ==
    IF v \in Networks THEN {Net(v)} ELSE IF PointToPoints(v) # {} THEN {Host(v)} ELSE {}

\* Mutant: the nearest candidate is taken and left in the queue.
PopKeepsVertex ==
    /\ pc = "pop"
    /\ LET v == Head(spf.candidate)
       IN  /\ spf' = [spf EXCEPT !.status[v] = "tree", !.current = v]
           /\ AddRoutes(IntraDestinations(v), spf.exits[v])
    /\ pc' = "next"
    /\ UNCHANGED <<link, att, root>>

\* The body of the loop of SPFCalculate after the test for an empty queue.
Pop ==
    /\ pc = "pop"
    /\ LET v == Head(spf.candidate)
       IN  /\ spf' = [spf EXCEPT !.candidate = Tail(@), !.status[v] = "tree", !.current = v]
           /\ AddRoutes(IntraDestinations(v), spf.exits[v])
    /\ pc' = "next"
    /\ UNCHANGED <<link, att, root>>

\* The vertices SPFProcessStubs comes to from the root: SPFVertexAddParent
\* made every vertex of the tree a child of each of its parents.
Descendants ==
    LET walk[k \in 0..Cardinality(Vertices)] ==
            IF k = 0 THEN {root}
            ELSE LET above == walk[k - 1]
                 IN  above \cup {v \in Vertices : spf.parents[v] \cap above # {}}
    IN  walk[Cardinality(Vertices)]

\* The next router of InitializeRoutes.
NextRouter ==
    /\ root' = IF root < NRouters THEN root + 1 ELSE 1
    /\ pc' = IF root < NRouters THEN "start" ELSE "done"

\* SPFProcessStubs and the end of SPFCalculate.  SPFIntraAddStub does nothing
\* for the root's own stubs.  The statuses of the LSAs stay as they are until
\* the next Initialize.
SPFProcessStubs ==
    /\ pc = "stubs"
    /\ routes' = [routes EXCEPT ![root] = @ \cup
          UNION {{Subnet(v, u) : u \in PointToPoints(v)} \X spf.exits[v] :
                    v \in (Descendants \cap Routers) \ {root}}]
    /\ NextRouter
    /\ UNCHANGED <<link, att, spf>>

\* Mutant: the stub test counts the point-to-point links only.
CheckForStubNodeLinks ==
    /\ pc = "start"
    /\ Cardinality(PointToPoints(root)) <= 1
    /\ AddRoutes({Default}, {<<h, h>> : h \in PointToPoints(root)})
    /\ spf' = Initialize(root)
    /\ NextRouter
    /\ UNCHANGED <<link, att>>

\* SPFCalculate when CheckForStubNode returns true: there is nothing to
\* reach, or one point-to-point link, which gets a default route.
CheckForStubNode ==
    /\ pc = "start"
    /\ Transits(root) = {} /\ Cardinality(PointToPoints(root)) <= 1
    /\ AddRoutes({Default}, {<<h, h>> : h \in PointToPoints(root)})
    /\ spf' = Initialize(root)
    /\ NextRouter
    /\ UNCHANGED <<link, att>>

\* SPFCalculate up to its loop, for any other router.
SPFCalculate ==
    /\ pc = "start"
    /\ Transits(root) # {} \/ Cardinality(PointToPoints(root)) > 1
    /\ spf' = Initialize(root)
    /\ pc' = "next"
    /\ UNCHANGED <<link, att, routes, root>>

\* Mutant: the last router of the list keeps its routes.
NoRoutesButLast == [r \in Routers |-> IF r = NRouters THEN routes[r] ELSE {}]

\* DeleteGlobalRoutes: route 0 of each router is removed as often as it has
\* routes.
NoRoutes == [r \in Routers |-> {}]

\* A metric is changed at both ends of a link and the tables are computed
\* again (Ipv4GlobalRoutingHelper::RecomputeRoutingTables), from a new link
\* state database.
RecomputeRoutingTables ==
    /\ pc = "done"
    /\ \E a \in Routers : \E b \in PointToPoints(a) : \E m \in Metrics \ {link[a][b]} :
          link' = [link EXCEPT ![a][b] = m, ![b][a] = m]
    /\ routes' = NoRoutes
    /\ spf' = Initialize(1)
    /\ pc' = "start"
    /\ UNCHANGED <<att, root>>

Init ==
    /\ \E m \in [{p \in SUBSET Routers : Cardinality(p) = 2} -> Metrics \cup {0}] :
          link = [a \in Routers |-> [b \in Routers |-> IF a = b THEN 0 ELSE m[{a, b}]]]
    /\ \E on \in [Networks -> Stations] :
          att = [n \in Networks |-> [a \in Routers |-> IF a \in on[n] THEN NetMetric[a] ELSE 0]]
    /\ routes = [r \in Routers |-> {}]
    /\ root = 1
    /\ spf = Initialize(1)
    /\ pc = "start"

Calculation == SPFCalculate \/ CheckForStubNode \/ SPFNext \/ Pop \/ SPFProcessStubs

Next == Calculation \/ RecomputeRoutingTables

\* The calculation is a function that runs to its end.
Spec == Init /\ [][Next]_vars /\ WF_vars(Calculation)

-----------------------------------------------------------------------------
(* The reference: distances over the whole topology. *)

Infinity == 1 + NRouters * (Max(Range(NetMetric)) + Max(Metrics \cup {0}))

\* The function f itself; TLC evaluates it here and not at each application.
Evaluated(f) == CHOOSE g \in {f} : g = f

\* The topology as one value: the cost of every edge.
Topology == [u \in Vertices |-> [w \in Neighbours(u) |-> Cost(u, w)]]

\* The distance of every vertex from v in the graph g, by as many rounds of
\* relaxation as there are vertices.
Distances(g, v) ==
    LET after[k \in 0..(NRouters + NNetworks)] ==
            IF k = 0 THEN [w \in Vertices |-> IF w = v THEN 0 ELSE Infinity]
            ELSE LET d == after[k - 1]
                 IN  Evaluated([w \in Vertices |->
                        Min({d[w]} \cup {d[u] + g[u][w] :
                                u \in {x \in Vertices : w \in DOMAIN g[x]}})])
    IN  after[NRouters + NNetworks]

\* The first hops of the shortest paths from the router r: to a neighbour,
\* over a network, or onto the network that is the destination.
FirstHops(r, w, dist) ==
    {<<h, h>> : h \in {x \in PointToPoints(r) : link[r][x] + dist[x][w] = dist[r][w]}}
    \cup {e \in Routers \X Transits(r) :
             /\ e[1] # r /\ att[e[2]][e[1]] > 0
             /\ att[e[2]][r] + dist[e[1]][w] = dist[r][w]}
    \cup {<<NoHop, n>> : n \in {w} \cap {x \in Transits(r) : att[x][r] = dist[r][w]}}

AllDistances ==
    LET g == Evaluated(Topology) IN Evaluated([v \in Vertices |-> Distances(g, v)])

-----------------------------------------------------------------------------
(* Properties. *)

Destinations == {Host(v) : v \in Routers} \cup {Net(n) : n \in Networks}
                  \cup {Subnet(e[1], e[2]) : e \in Routers \X Routers} \cup {Default}

Exits == (Routers \cup {NoHop}) \X Vertices

\* Every variable has its type.
TypeOK ==
    /\ link \in [Routers -> [Routers -> Metrics \cup {0}]]
    /\ \A n \in Networks, a \in Routers : att[n][a] \in {0, NetMetric[a]}
    /\ \A r \in Routers : routes[r] \subseteq Destinations \X Exits
    /\ root \in Routers
    /\ spf.status \in [Vertices -> {"unexplored", "candidate", "tree"}]
    /\ spf.dist \in [Vertices -> 0..Infinity]
    /\ \A v \in Vertices : spf.parents[v] \subseteq Vertices /\ spf.exits[v] \subseteq Exits
    /\ spf.current \in Vertices
    /\ spf.failed = (pc = "failed")
    /\ pc \in {"start", "next", "pop", "stubs", "done", "failed"}

\* Besides its types: the vertices in the candidate queue are the ones whose LSA has the status
\* LSA_SPF_CANDIDATE, so that the Find of SPFNext never returns null, and they
\* are in the order Pop relies on, whatever distances were lowered.
QueueAgrees ==
    /\ TypeOK
    /\ \A v \in Vertices :
          Cardinality({i \in DOMAIN spf.candidate : spf.candidate[i] = v})
            = IF spf.status[v] = "candidate" THEN 1 ELSE 0
    /\ \A i \in 1..(Len(spf.candidate) - 1) :
          ~ CompareSPFVertex(spf.dist, spf.candidate[i + 1], spf.candidate[i])

\* A vertex that is in the tree is at its shortest distance from the root, and
\* the tree is complete when the candidate queue is empty: the greedy choice
\* of SPFCalculate is right although networks cost nothing to leave.  The root
\* exits of the finished tree are exactly the first hops of the shortest paths:
\* no equal-cost path is lost and none is invented, over networks too
\* (SPFNexthopCalculation, MergeRootExitDirections).
TreeExact ==
    /\ pc \in {"next", "pop", "stubs"} =>
         LET d == Distances(Topology, root)
         IN  /\ \A v \in Vertices : spf.status[v] = "tree" => spf.dist[v] = d[v]
             /\ pc = "stubs" =>
                  \A v \in Vertices : (spf.status[v] = "tree") = (d[v] < Infinity)
    /\ pc = "stubs" =>
         LET d == AllDistances
         IN  \A v \in Vertices \ {root} :
                d[root][v] < Infinity => spf.exits[v] = FirstHops(root, v, d)

\* A network that several first hops lead to at the same cost, with a router
\* behind it: what the calculation cannot be asked for.
EqualCostNetwork(r, d) ==
    \E n \in Networks : \E w \in Attached(n) \ {r} :
       /\ d[r][n] < Infinity /\ d[r][n] <= d[r][w]
       /\ Cardinality(FirstHops(r, n, d)) > 1

\* The assertion of GetRootExitDirection fails for exactly the topologies in
\* which a network with a router behind it is reached in several ways of the
\* same cost, and for no other.
AssertionExplained ==
    pc \in {"failed", "stubs"} =>
      LET d == AllDistances
      IN  (pc = "failed") = EqualCostNetwork(root, d)

\* What the table of r answers for a destination: Ipv4GlobalRouting looks for
\* host routes, then for network routes, of which the default is the last.
Lookup(r, dest) ==
    LET found(t) == {e[2] : e \in {x \in routes[r] : x[1] = t}}
    IN  IF found(dest) # {} THEN found(dest) ELSE found(Default)

\* Once all tables are written, also after a change of metrics, a packet that
\* follows any of the routes of each router it comes to reaches the router or
\* network it is for, without a loop: every next hop is nearer to it.  It is
\* about the tables of all routers together, default routes included.
HopByHop ==
    pc = "done" =>
      LET d == AllDistances
      IN  \A r \in Routers : \A v \in Vertices \ {r} :
             d[r][v] < Infinity /\ IntraDestinations(v) # {} =>
               LET dest == IF v \in Networks THEN Net(v) ELSE Host(v)
               IN  /\ Lookup(r, dest) # {}
                   /\ \A e \in Lookup(r, dest) :
                         \/ e[1] = NoHop /\ e[2] = v
                         \/ e[1] # NoHop /\ d[e[1]][v] < d[r][v]

\* A router never has a route to what it cannot reach, and the routes a router
\* that ran the calculation has are all those of minimal cost under the
\* present metrics: nothing is left over from an earlier calculation.
NothingStale ==
    pc = "done" =>
      LET d == AllDistances
      IN  \A r \in Routers : \A v \in Vertices \ {r} :
             LET dest  == IF v \in Networks THEN Net(v) ELSE Host(v)
                 found == {e[2] : e \in {x \in routes[r] : x[1] = dest}}
             IN  found # {} => d[r][v] < Infinity /\ found = FirstHops(r, v, d)

\* Every calculation ends: with all tables written, or at the assertion.
Terminates == (pc = "start") ~> (pc \in {"done", "failed"})

=============================================================================
