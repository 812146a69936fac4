----------------------------- MODULE FlowMonitor -----------------------------
(***************************************************************************)
(* The flow statistics the program writes at its end                       *)
(* (src/src/flow-monitor): Ipv4FlowClassifier numbers the packets of a     *)
(* flow, the Ipv4FlowProbe of every node reports what its IP layer and its *)
(* device queues do to them, and FlowMonitor tracks each packet from its   *)
(* first transmission to its reception, its drop, or its being given up.   *)
(*                                                                         *)
(* A flow crosses Hops[f] routers.  The packets of the flows in Doubled    *)
(* (between leaves) are forwarded twice by the first of them, as           *)
(* SpineLeafRouting shows, so that two copies carry one tag.  Packet       *)
(* sizes, histograms and the probes' own counters are left out.            *)
(***************************************************************************)
EXTENDS Integers, Sequences, FiniteSets, Bags

LOCAL INSTANCE Functions

CONSTANTS Flow,          \* five-tuples of unicast UDP or TCP flows
          Hops,          \* routers that a flow crosses
          Doubled,       \* flows whose packets are forwarded twice
          MaxPerHopDelay, CheckInterval,    \* m_maxPerHopDelay, PERIODIC_CHECK_INTERVAL
          CallDelays,    \* delays Start and Stop are called with
          MaxPackets, MaxCalls, MaxTime     \* bounds: packets of a flow, calls, clock

ASSUME FlowMonitorAssumption ==
  /\ Hops \in [Flow -> Nat \ {0}] /\ Doubled \subseteq Flow
  /\ MaxPerHopDelay \in Nat /\ CheckInterval \in Nat \ {0} /\ CallDelays \subseteq Nat
  /\ MaxPackets \in [Flow -> Nat] /\ {MaxCalls, MaxTime} \subseteq Nat

VARIABLES
  now,
  m_enabled,
  startAt, stopAt,      \* m_startEvent and m_stopEvent: when due, or Never
  checkAt,              \* when the periodic check is due
  m_flowPktIdMap,       \* the classifier's last packet id, -1 for a new flow
  m_tracked,            \* m_trackedPackets: <<flow, id>> to its record
  m_stats,              \* m_flowStats
  wire,                 \* bag of the copies of packets under way
  calls,                \* calls of Start and Stop so far
  strays,               \* history: drops reported of packets not tracked
  arrived,              \* history: packets of which a copy arrived
  disturbed             \* history: the monitor was off, or gave up a packet under way

clock == <<now, startAt, stopAt, checkAt, calls, m_enabled>>
monitor == <<m_tracked, m_stats, strays>>
vars == <<clock, m_flowPktIdMap, monitor, wire, arrived, disturbed>>

Never == -1

Copy == [flow : Flow, id : Nat, hop : Nat]
Key(c) == <<c.flow, c.id>>

FlowStats == [tx : Nat, rx : Nat, lost : Nat, dropped : Nat, timesForwarded : Nat,
              firstTx : Nat, lastTx : Nat, firstRx : Nat, lastRx : Nat,
              delaySum : Nat, jitterSum : Nat, lastDelay : Nat]

NewStats == [tx |-> 0, rx |-> 0, lost |-> 0, dropped |-> 0, timesForwarded |-> 0,
             firstTx |-> 0, lastTx |-> 0, firstRx |-> 0, lastRx |-> 0,
             delaySum |-> 0, jitterSum |-> 0, lastDelay |-> 0]

Init ==
  /\ now = 0 /\ m_enabled = FALSE
  /\ startAt = 0 /\ stopAt = Never /\ checkAt = CheckInterval
  /\ m_flowPktIdMap = [f \in Flow |-> -1]
  /\ m_tracked = << >>
  /\ m_stats = [f \in Flow |-> NewStats]
  /\ wire = EmptyBag /\ calls = 0
  /\ strays = [f \in Flow |-> 0] /\ arrived = {} /\ disturbed = FALSE

-----------------------------------------------------------------------------
(* The reports, on the state m = [tracked, stats, strays] of the monitor:  *)
(* an event of the simulation makes several of them.                       *)

Erase(tracked, k) == Restrict(tracked, DOMAIN tracked \ {k})

Track(tracked, k, r) ==
  [x \in DOMAIN tracked \cup {k} |-> IF x = k THEN r ELSE tracked[x]]

ReportFirstTx(m, c) ==
  IF ~m_enabled THEN m
  ELSE [m EXCEPT
          !.tracked = Track(@, Key(c), [firstSeen |-> now, lastSeen |-> now, forwarded |-> 0]),
          !.stats[c.flow].tx = @ + 1,
          !.stats[c.flow].firstTx = IF m.stats[c.flow].tx = 0 THEN now ELSE @,
          !.stats[c.flow].lastTx = now]

(* Mutant: the packet is only marked as seen. *)
ReportForwardingUncounted(m, c) ==
  IF ~m_enabled \/ Key(c) \notin DOMAIN m.tracked THEN m
  ELSE [m EXCEPT !.tracked[Key(c)].lastSeen = now]

ReportForwarding(m, c) ==
  IF ~m_enabled \/ Key(c) \notin DOMAIN m.tracked THEN m
  ELSE [m EXCEPT !.tracked[Key(c)].forwarded = @ + 1, !.tracked[Key(c)].lastSeen = now]

Abs(n) == IF n < 0 THEN -n ELSE n

(* Mutant: the delay of the last hop. *)
DelayOfHop(t) == now - t.lastSeen

Delay(t) == now - t.firstSeen

(* Mutant: the packet stays tracked, and its second copy is received too. *)
ReportLastRxKeeps(m, c) ==
  IF ~m_enabled \/ Key(c) \notin DOMAIN m.tracked THEN m
  ELSE [m EXCEPT !.stats[c.flow].rx = @ + 1,
                 !.stats[c.flow].firstRx = IF m.stats[c.flow].rx = 0 THEN now ELSE @,
                 !.stats[c.flow].lastRx = now]

ReportLastRx(m, c) ==
  IF ~m_enabled \/ Key(c) \notin DOMAIN m.tracked THEN m
  ELSE LET t == m.tracked[Key(c)]
           s == m.stats[c.flow]
       IN  [m EXCEPT
              !.tracked = Erase(@, Key(c)),
              !.stats[c.flow] =
                [s EXCEPT !.delaySum = @ + Delay(t),
                          !.jitterSum = IF s.rx > 0 THEN @ + Abs(s.lastDelay - Delay(t)) ELSE @,
                          !.lastDelay = Delay(t),
                          !.rx = @ + 1,
                          !.firstRx = IF s.rx = 0 THEN now ELSE @,
                          !.lastRx = now,
                          !.timesForwarded = @ + t.forwarded]]

(* A drop is counted whether or not the packet is tracked. *)
ReportDrop(m, c) ==
  IF ~m_enabled THEN m
  ELSE [m EXCEPT !.stats[c.flow].lost = @ + 1,
                 !.stats[c.flow].dropped = @ + 1,
                 !.strays[c.flow] = IF Key(c) \in DOMAIN m.tracked THEN @ ELSE @ + 1,
                 !.tracked = Erase(@, Key(c))]

Old(m) == {k \in DOMAIN m.tracked : now - m.tracked[k].lastSeen >= MaxPerHopDelay}

CheckForLostPackets(m) ==
  [tracked |-> Restrict(m.tracked, DOMAIN m.tracked \ Old(m)),
   stats   |-> [f \in Flow |->
                 [m.stats[f] EXCEPT !.lost = @ + Cardinality({k \in Old(m) : k[1] = f})]],
   strays  |-> m.strays]

Monitor == [tracked |-> m_tracked, stats |-> m_stats, strays |-> strays]

Becomes(m) == m_tracked' = m.tracked /\ m_stats' = m.stats /\ strays' = m.strays

(* A copy given to a device, whose queue may drop it. *)
Enqueued(m, c, lost) == IF lost THEN ReportDrop(m, c) ELSE m

-----------------------------------------------------------------------------
(* Events of the simulation. *)

(* SendOutgoing at the source: the packet is classified and tagged even    *)
(* while the monitor is disabled.                                          *)
Send(f) ==
  LET id == m_flowPktIdMap[f] + 1
      c  == [flow |-> f, id |-> id, hop |-> 0]
  IN  /\ now < MaxTime /\ id < MaxPackets[f]
      /\ m_flowPktIdMap' = [m_flowPktIdMap EXCEPT ![f] = id]
      /\ \E lost \in BOOLEAN :
           /\ Becomes(Enqueued(ReportFirstTx(Monitor, c), c, lost))
           /\ wire' = IF lost THEN wire ELSE wire (+) SetToBag({c})
      /\ disturbed' = (disturbed \/ ~m_enabled)
      /\ UNCHANGED <<clock, arrived>>

(* UnicastForward at the next router, once for every copy that it makes:   *)
(* each is reported and enqueued before the next is made.                  *)
Forward(c) ==
  LET copies == IF c.hop = 0 /\ c.flow \in Doubled THEN 1 .. 2 ELSE {1}
      out    == [c EXCEPT !.hop = @ + 1]
  IN  /\ c.hop < Hops[c.flow] /\ now < MaxTime
      /\ \E lost \in SUBSET copies :
           LET Step(m, k) == Enqueued(ReportForwarding(m, c), out, k \in lost)
               m1   == Step(Monitor, 1)
               left == Cardinality(copies \ lost)
           IN  /\ Becomes(IF 2 \in copies THEN Step(m1, 2) ELSE m1)
               /\ wire' = (wire (-) SetToBag({c})) (+) (IF left = 0 THEN EmptyBag ELSE [x \in {out} |-> left])
      /\ UNCHANGED <<clock, m_flowPktIdMap, arrived, disturbed>>

(* LocalDeliver at the destination. *)
Deliver(c) ==
  /\ c.hop = Hops[c.flow] /\ now < MaxTime
  /\ Becomes(ReportLastRx(Monitor, c))
  /\ wire' = wire (-) SetToBag({c})
  /\ arrived' = arrived \cup {Key(c)}
  /\ UNCHANGED <<clock, m_flowPktIdMap, disturbed>>

(* A receiver's error model discards a copy; no probe hears of it. *)
Corrupt(c) ==
  /\ now < MaxTime
  /\ wire' = wire (-) SetToBag({c})
  /\ UNCHANGED <<clock, m_flowPktIdMap, monitor, arrived, disturbed>>

(* A packet of which a copy is under way is given up. *)
GivesUp == \E c \in BagToSet(wire) : Key(c) \in Old(Monitor)

(* Mutant: no check while the monitor is disabled. *)
PeriodicCheckWhileEnabled ==
  /\ now = checkAt
  /\ Becomes(IF m_enabled THEN CheckForLostPackets(Monitor) ELSE Monitor)
  /\ checkAt' = now + CheckInterval
  /\ disturbed' = (disturbed \/ GivesUp)
  /\ UNCHANGED <<now, startAt, stopAt, calls, m_enabled, m_flowPktIdMap, wire, arrived>>

PeriodicCheckForLostPackets ==
  /\ now = checkAt
  /\ Becomes(CheckForLostPackets(Monitor))
  /\ checkAt' = now + CheckInterval
  /\ disturbed' = (disturbed \/ GivesUp)
  /\ UNCHANGED <<now, startAt, stopAt, calls, m_enabled, m_flowPktIdMap, wire, arrived>>

Start(delay) ==
  /\ calls < MaxCalls /\ now < MaxTime
  /\ calls' = calls + 1
  /\ startAt' = IF m_enabled THEN startAt ELSE now + delay
  /\ UNCHANGED <<now, stopAt, checkAt, m_enabled, m_flowPktIdMap, monitor, wire, arrived,
                 disturbed>>

Stop(delay) ==
  /\ calls < MaxCalls /\ now < MaxTime
  /\ calls' = calls + 1
  /\ stopAt' = now + delay
  /\ UNCHANGED <<now, startAt, checkAt, m_enabled, m_flowPktIdMap, monitor, wire, arrived,
                 disturbed>>

StartRightNow ==
  /\ now = startAt
  /\ startAt' = Never
  /\ m_enabled' = TRUE
  /\ UNCHANGED <<now, stopAt, checkAt, calls, m_flowPktIdMap, monitor, wire, arrived,
                 disturbed>>

(* Mutant: the packets seen so far are forgotten, and not counted as lost. *)
StopRightNowForgets ==
  /\ now = stopAt
  /\ stopAt' = Never
  /\ m_enabled' = FALSE
  /\ m_tracked' = << >> /\ UNCHANGED <<m_stats, strays>>
  /\ disturbed' = TRUE
  /\ UNCHANGED <<now, startAt, checkAt, calls, m_flowPktIdMap, wire, arrived>>

StopRightNow ==
  /\ now = stopAt
  /\ stopAt' = Never
  /\ m_enabled' = FALSE
  /\ Becomes(IF m_enabled THEN CheckForLostPackets(Monitor) ELSE Monitor)
  /\ disturbed' = (disturbed \/ m_enabled)
  /\ UNCHANGED <<now, startAt, checkAt, calls, m_flowPktIdMap, wire, arrived>>

Tick ==
  /\ now < MaxTime /\ now \notin {startAt, stopAt, checkAt}
  /\ now' = now + 1
  /\ UNCHANGED <<startAt, stopAt, checkAt, calls, m_enabled, m_flowPktIdMap, monitor, wire,
                 arrived, disturbed>>

Next ==
  \/ \E f \in Flow : Send(f)
  \/ \E c \in BagToSet(wire) : Forward(c)
  \/ \E c \in BagToSet(wire) : Deliver(c)
  \/ \E c \in BagToSet(wire) : Corrupt(c)
  \/ PeriodicCheckForLostPackets
  \/ \E d \in CallDelays : Start(d) \/ Stop(d)
  \/ StartRightNow
  \/ StopRightNow
  \/ Tick

Spec == Init /\ [][Next]_vars

-----------------------------------------------------------------------------
TrackedOf(f) == {k \in DOMAIN m_tracked : k[1] = f}

(* Values are in their types; a tracked packet was classified, and was     *)
(* last seen no earlier than first.                                        *)
TypeOK ==
  /\ now \in 0 .. MaxTime /\ m_enabled \in BOOLEAN
  /\ startAt \in Nat \cup {Never} /\ stopAt \in Nat \cup {Never}
  /\ checkAt \in now .. now + CheckInterval
  /\ m_flowPktIdMap \in [Flow -> Nat \cup {-1}]
  /\ m_stats \in [Flow -> FlowStats] /\ strays \in [Flow -> Nat]
  /\ IsABag(wire) /\ BagToSet(wire) \subseteq Copy
  /\ arrived \subseteq Flow \X Nat /\ disturbed \in BOOLEAN
  /\ IsFiniteSet(DOMAIN m_tracked) /\ DOMAIN m_tracked \subseteq Flow \X Nat
  /\ m_tracked \in [DOMAIN m_tracked -> [firstSeen : Nat, lastSeen : Nat, forwarded : Nat]]
  /\ \A k \in DOMAIN m_tracked :
       /\ k[2] <= m_flowPktIdMap[k[1]]
       /\ m_tracked[k].firstSeen <= m_tracked[k].lastSeen /\ m_tracked[k].lastSeen <= now

(* Every packet counted as sent is received, lost or tracked, and only     *)
(* once, whatever the copies of it do; the losses exceed the packets       *)
(* missing by exactly the drops of packets no longer tracked.  A tracked   *)
(* packet was classified, and every value is in its type.                  *)
FlowBalance ==
  TypeOK /\ \A f \in Flow :
    LET s == m_stats[f] IN
    /\ s.tx + strays[f] = s.rx + s.lost + Cardinality(TrackedOf(f))
    /\ s.rx + Cardinality(TrackedOf(f)) <= s.tx
    /\ s.dropped <= s.lost

(* What flow-monitor.h:97-111 says of the counters holds for a flow whose  *)
(* packets are not doubled, as long as the monitor was on and gave up no   *)
(* packet under way: rxPackets are the packets that arrived, lostPackets   *)
(* never exceed those that did not, timesForwarded is the length of the    *)
(* path for each.                                                          *)
SinglePathExact ==
  ~disturbed => \A f \in Flow \ Doubled :
    LET s == m_stats[f]
        n == Cardinality({k \in arrived : k[1] = f})
    IN  /\ s.rx = n
        /\ strays[f] = 0
        /\ s.lost = s.tx - n - Cardinality(TrackedOf(f))
        /\ s.timesForwarded = Hops[f] * s.rx

(* What the same counters are worth for the flows between leaves: a packet *)
(* of which one copy is dropped counts as lost although the other arrives, *)
(* and is lost a second time when that is dropped too; between one more    *)
(* and twice the path's length is added to timesForwarded.                 *)
DoubledBounds ==
  ~disturbed => \A f \in Doubled :
    LET s == m_stats[f]
        n == Cardinality({k \in arrived : k[1] = f})
    IN  /\ s.rx <= n /\ n <= s.rx + s.lost
        /\ strays[f] <= s.tx
        /\ (Hops[f] + 1) * s.rx <= s.timesForwarded /\ s.timesForwarded <= 2 * Hops[f] * s.rx

(* Delays are end to end, also across copies and a monitor that is turned  *)
(* off and on: each received packet was sent after the flow's first and    *)
(* received before its last; jitter is a variation of those delays.        *)
DelaysWithin ==
  \A f \in Flow :
    LET s == m_stats[f] IN
    /\ s.firstTx <= s.lastTx /\ s.firstRx <= s.lastRx
    /\ s.rx > 0 => /\ s.firstTx <= s.firstRx
                   /\ s.delaySum <= s.rx * (s.lastRx - s.firstTx)
                   /\ (~disturbed /\ s.rx = 1) => s.delaySum >= s.firstRx - s.lastTx
    /\ s.jitterSum <= 2 * s.delaySum /\ s.lastDelay <= s.delaySum

(* No packet is tracked for ever: one that is not seen again is given up   *)
(* by the first check after MaxPerHopDelay, also while the monitor is off. *)
NotForgotten ==
  \A k \in DOMAIN m_tracked :
    now - m_tracked[k].lastSeen < MaxPerHopDelay + CheckInterval
=============================================================================
