# A verification project for the spine-leaf load balancer

The repository is a fork of ns-3 that simulates a spine-leaf data centre whose
leaf switches spread traffic over the spines by weights a reinforcement
learning agent sets.  This directory holds TLA+ models of its parts, TLC
configurations that check them on small instances, and theorems that TLAPS
proves for every value of the constants.

To check something: `tlc -config MCLink.cfg MCPointToPointLink` (a run;
`PROJECT.json` lists module, configuration and expected verdict of each), or
`tlapm LinkProofs.tla` (the proofs of a module).

## 1. Inventory

Paths below are relative to the repository; `src/src/...` is the simulator,
`src/scratch/loadbalancer` the program.

| component | state | operations | talks to |
|---|---|---|---|
| **DropTailQueue** (`network/utils/queue.{h,cc}`, `drop-tail-queue.cc`) | list of packets, `m_nPackets`, `m_nBytes`, limit, eight `uint32_t` statistics | Enqueue, Dequeue, Remove, Flush, ResetStatistics, the fork's `resetStats`, SetMaxSize | called by the device; fires the drop trace |
| **PointToPointNetDevice, PointToPointChannel** (`point-to-point/model`) | transmitter READY/BUSY, current packet, link flag, the fork's usage history `hist_t` | Attach, Send, TransmitStart, TransmitComplete, Receive, `start_tx`, `stopped_tx`, `time_slot` | events of the simulator; queue; the telemetry calls `time_slot` |
| **Ipv4RlRouting** (`internet/model/aarl-ipv4-routing.cpp`), Ipv4ListRouting, Ipv4GlobalRouting, Ipv4StaticRouting, Ipv4L3Protocol | routing tables, distribution and counters of a leaf, tag of a packet | RouteInput, RouteOutput, SetDistribution, IpForward, LocalDeliver | each other through callbacks; devices |
| **StateActionManager, TopologyBuilder** (`scratch/loadbalancer`) | path drops, queue drops, sizes and bandwidths | TraceP2PDevQueueDrop, ApplyNewAction, GetData, topology set-up | drop trace, devices, routers, DataCenterEnv |
| **DefaultSimulatorImpl** (`core/model/default-simulator-impl.cc`) | event list, hand-over list and its flag, clock, uids, count, destroy events | Schedule*, ScheduleWithContext, Cancel, Remove, IsExpired, Stop, Run, Destroy | every component; other threads |
| **Schedulers** (`core/model/*-scheduler.cc`) | heap, map, list, or a calendar of buckets with width, year and last priority | Insert, PeekNext, RemoveNext, Remove, the calendar's resize; SetScheduler moves the events to another one | DefaultSimulatorImpl |
| **OpenGym bridge** (`opengym/model/opengym_interface.cc`, `ns3gym/ns3env.py`) | flags at both ends of a ZeroMQ request/reply pair | Init, NotifyCurrentState, NotifySimulationEnd; step, reset, close | simulation process and agent process |
| **DataCenterEnv** (`scratch/loadbalancer/mygym.cc`) | none of its own | GetObservation, ExecuteActions, ScheduleNextStateRead | StateActionManager, bridge |
| **FlowMonitor** (`flow-monitor/model`: monitor, IPv4 probe, classifier) | tracked packets, statistics by flow, packet ids, start and stop events | Start, Stop, the four reports, CheckForLostPackets | the IP layer and the queues, through traces |
| **GlobalRouteManager** (`internet/model/global-route-manager-impl.cc`, `candidate-queue.cc`) | link state database, tree under construction, candidate queue | SPFCalculate and what it calls, InitializeRoutes, RecomputeRoutingTables | writes the Ipv4GlobalRouting tables that Ipv4RlRouting copies |
| RL agents, rest of ns-3 | | | see section 8 |

What is hard here: the order of events at the same instant, and of a
transmission's start, completion, arrival and the readings of its usage in
between; hand-overs from other threads to the event loop, whose emptiness flag
is read without the mutex; a chain of routing protocols in which more than one
may forward a packet; two processes that block on each other, either of which
may stop first; event lists that reorganise themselves while they are in use;
a shortest path calculation whose tables must agree between routers; statistics
that assume one packet where the fabric makes two; two periodic readers of one
usage history; and a good deal of index arithmetic on node and interface
numbers.  `PROJECT.json` lists each hazard with its line and the properties
that watch it.

What makes each part correct:

* queue: the stored counters agree with the list, and the statistics balance;
* link: the transmitter's state, its completion event and the usage history
  agree, nothing is stranded in the queue, each direction is first in, first
  out, every packet has exactly one fate, a reading is exact;
* routing: no loop, no packet swallowed, drops blamed on the path really taken,
  no assertion fails; one forwarding per node (which does not hold);
* event loop: events run in order, an `EventId` is expired exactly when its
  event will not run, the count is exact, nothing overtakes an event but what is
  scheduled for an earlier time, and an event that is no longer overtaken runs;
* schedulers: whichever is chosen, exchanged or resized, it behaves as one sorted
  set;
* telemetry: readings stay inside their tables, a cell shows its own device, no
  busy time is lost or reported twice, every drop of a tagged packet is blamed on
  one path, wherever it happens;
* flow statistics: sent packets are received, lost or tracked, and never twice;
* shortest paths: the tree is one, equal-cost exits are all kept, the tables of
  all routers together are free of loops and nothing old survives a
  recomputation;
* bridge: the two processes take turns, an action is applied to the state it was
  chosen for, calls return, a closed environment leaves no simulation behind.

## 2. Modules

| module | models | role |
|---|---|---|
| `QueueOps` | Queue, DropTailQueue as functions on a record | used by the next two |
| `DropTailQueue`, `MCDropTailQueue` | one queue under any sequence of calls | checked and proved about |
| `PointToPointLink`, `MCPointToPointLink` | two devices, their queues, one channel | checked and proved about; composes `QueueOps` |
| `SpineLeafRouting` | forwarding through the whole fabric, drop trace, agent's actions | checked and proved about |
| `DefaultSimulatorImpl` | event loop and other threads | checked and proved about |
| `EventList` | what a Scheduler promises the event loop | abstract specification |
| `CalendarQueue` | the data structure of CalendarScheduler, as functions on a record | used by the next |
| `Schedulers` | all event lists behind one interface, and SetScheduler | checked and proved about; implements `EventList` (proved) |
| `Telemetry`, `MCTelemetry` | GetData, GetStats, DataCenterEnv over the devices of a whole fabric | checked and proved about |
| `FlowMonitor`, `MCFlowMonitor` | classifier, probes and monitor along the path of a flow | checked and proved about |
| `GlobalRouteManager`, `MCGlobalRouteManager` | the shortest path calculation for every router, and its repetition | checked and proved about |
| `LockStep` | what the bridge promises an agent | abstract specification |
| `GymBridge` | both ends of the bridge | checked and proved about; implements `LockStep` (proved) |
| `LinkProofs`, `SimulatorProofs`, `SchedulerProofs`, `FabricProofs`, `RouteProofs`, `TelemetryProofs`, `FlowProofs`, `GymProofs` | | theorems on the component of that name; `LinkProofs` treats `QueueOps`, `DropTailQueue` and `PointToPointLink` |

Definitions keep the names of the code; `PROJECT.json` maps each to its lines.
A definition whose comment starts with "Mutant:" is a plausible mistake in the
one that follows it; replacing the one by the other must break the property
`PROJECT.json` names, which shows that the property depends on that code.

### QueueOps, DropTailQueue

A queue is a record with the data members of `QueueBase`; an operation is a
function of the record, assertions are predicates (`DequeueAsserts`,
`SetMaxSizeAborts`).  The width of the counters is the constant `UINT32`: 16 in
the checks, so that they wrap within a few operations.  A packet is a record
with a size (`Item`).  Flush, a loop until the stored length is zero, is as many
Removes as that length says.  `served` and `carried` are history.

### PointToPointLink

One variable per data member, indexed by device.  The two events the device and
channel schedule (`TransmitComplete` and `Receive`) are sets of due times;
`Tick` advances the clock and never passes a due event, and events due at the
same instant run in any order, which covers the order the event list would
choose.  `Send` is the whole method: refusal on a link that is down, the queue,
and, when READY, the dequeue, `TransmitStart`, the channel and `start_tx`.
`TransmitComplete` includes the start of the next packet.  A failing assertion
sets `halted` to the part whose assertion it is.  Packets are numbered in order
of Send.  The PPP header (added and removed in the same pair of methods) is part
of the size.

### SpineLeafRouting

The topology is the one of `BuildTopology`; next hops are the shortest paths
that GlobalRouteManager computes (taken as given here; the module of that name
checks the calculation on its own).  A protocol's `RouteInput` is
a function from the state of the call to its result: the hops it called the
unicast callback with, whether it claimed the packet, and which assertion
failed.  `Receive` runs the whole chain of the node and then forwards every hop.
A device is reduced to "passes the packet on, or its queue drops it and fires
the trace".  `m_path_drops` has the size the defaults of `globals.h` give it, since it is a
static object.  The candidate that Ipv4RlRouting uses is always the first one
(`aarl-ipv4-routing.cpp:128` sets the index to 0 and does not use the draw).
`m_randomEcmpRouting` is chosen in the initial state and never changes.

### DefaultSimulatorImpl

`m_events` is a set ordered by time, then uid: what every scheduler promises.
The main thread's position is `pc`; the code of an event is any sequence of
calls, one action each.  ScheduleWithContext of another thread is one action
(the mutex).  ProcessEventsWithContext may find the flag still TRUE although
another thread has lowered it, since it reads it without the mutex: both
outcomes are allowed.

### EventList, CalendarQueue, Schedulers

A scheduler is a record of its kind and its data: a set for the ordered
containers of the standard library (`map`, also priority queue), a sequence for
the list and the heap, a record for the calendar.  `Insert`, `PeekNext`,
`RemoveNext` and `Remove` dispatch on the kind, as the virtual methods do; the
actions are the event loop's calls.  The heap uses the code's indices
(`m_heap[0]` is a dummy).  The calendar includes `ResizeUp`, `ResizeDown`, and
`NewWidth` with the events it takes out, averages and puts back; its widths are
integers as in the code.  An event not earlier than the running one is all the
loop ever inserts, and so does the model.  The refinement mapping to `EventList`
is the set of events; SetScheduler is a stuttering step.  A loop of the code is
a function of the number of rounds, with at least as many rounds as it can need;
a round after the loop's end changes nothing.  Times are natural numbers: the
wrap of `uint64_t` nanoseconds after 584 years is not modelled.

### Telemetry

One record per device of the fabric: queue length, drop counter, remaining
transmission time and busy time since the last reading.  The busy time replaces
the usage history; that `time_slot` returns it is theorem `ReadingCorrect`.  The
devices of the leaves towards their servers are among them: GetData does not read
them, but the drop trace is connected to every device.  (The servers' own devices
are left out: what they drop is not tagged yet.)  A packet is the leaf of its
sender.  `Carries` says which packets a device can meet and `Traced` which of
them are tagged: those that go over a spine, unless there is only one, when the
RL router finds a single route and tags nothing.  `lastHop` is history: the drops
towards servers, by the leaf of the sender.
`GetStats` and `ScheduleNextStateRead` are events due at fixed times, and events
due at the same instant run in any order.  The tables are functions whose domain
is what the static vectors were sized to, before the command line is parsed; an
access outside sets `undefined` and ends the behaviour.  `DataCenterEnv` is
commented out in `main-loadbalancer.cc`, so `env` says whether it is there.

### FlowMonitor

The reports are functions on the monitor's state, since one event of the
simulation may make several: a router that forwards a packet twice reports the
first copy, enqueues it (which may report a drop), and only then reports the
second.  Copies of one packet carry one tag, as the probe's tag is copied with
the packet; `wire` is a bag, since copies at the same place are interchangeable.
A copy corrupted on the wire is reported by nobody.  `strays`, `arrived` and
`disturbed` are history.

### GlobalRouteManager

The link state database is two matrices of metrics.  `spf` is the calculation's
local state: status of every LSA, distance, parents and root exits of every
vertex, and the candidate queue as the sequence it is, with the comparison that
puts networks before routers at equal distance.  The call is cut at its loop
(`SPFNext` examines all records of the vertex added last, `ConsiderAll`, in the order
of the records; `Pop` takes the next
candidate and adds its routes), so that invariants see the growing tree.
`CheckForStubNode` is the early exit for a router with a single link.
`RecomputeRoutingTables` changes the metric of any one link and runs everything
again, any number of times.  A
failing assertion sets `failed`.  The reference is Bellman-Ford on the whole
topology, in the same module but sharing nothing with the calculation except the
cost of an edge.

### GymBridge and LockStep

Every episode has its own simulation process, sockets and bridge.  A receive
blocks until there is a message; a send in the wrong order for a REP socket
raises, and `close` swallows what it raises.  A state is its serial number, an
action the number of the state it answers.  Three facts of the code shape the
model: a `SimInitMsg` parsed as an `EnvStateMsg` has none of its fields; a close
command parsed as a `SimInitAck` still carries the stop request, since both have
it in field 2; and `ns3env.py` does not import `signal`, so `close` never kills
the process (the NameError is swallowed).  An agent is interrupted at most once;
a second Ctrl-C inside `close` would skip the stop request.  `LockStep` says
whose turn it is, episode by episode; the refinement mapping reads the turn off
the simulation's position.

In `main-loadbalancer.cc` the lines that create the bridge are commented out
(67-69, 78), so the bridge is modelled as the library it is, for any agent.

## 3. Runs

| run | asks | bounds, and why they are enough |
|---|---|---|
| `queue` | counters, limits, statistics | 8 calls, two sizes, limits of 1 and 2 packets and 4 bytes, 4-bit counters: the queue fills, wraps, and changes unit with packets in it |
| `link` | order, exact readings, the inductive invariant with all it contains, assertions, conservation and arrival | 3 packets of two sizes, limit 3 bytes, receive errors, no interframe gap (the default), packets offered and usage read up to instant 2: one packet in flight, one transmitting, one queued or refused in each direction, a larger packet refused where a smaller one is not, readings inside transmissions |
| `fabric` | forwarding | 2 spines, 2 leaves, 4 servers, 2 packets, each duplicated at every leaf, ECMP on and off; traffic inside a leaf and between leaves; every queue may drop |
| `simulator` | the event loop: safety, inductive invariant, who may overtake an event, and that an event no longer overtaken runs | 3 events (uids start at 4, `MaxUid` is 7), delays 0 and 1: ties, cancellation, removal, stop, destroy events and hand-overs in every order |
| `gym` | turn-taking, closing, calls return | 3 episodes, up to 4 states each, crashes, one interrupt: reset twice, end of simulation and game over at every state |
| `schedulers` | every event list is a sorted set | 6 events, delays 0, 1 and 3, five kinds exchanged at will: the calendar grows and shrinks, widths differ from 1, a search runs through a whole year in vain; deadlock is checked |
| `telemetry` | what the readers get | every fabric of 1 to 3 spines and 1 to 4 leaves, traffic up, down and to a server, 3 packets through each device, so that a queue of 1 packet drops one; readings every 2 ticks and every tick, alone and together, up to tick 5 |
| `flowmon` | what the flow statistics mean | a flow over 1 router (2 packets) and a doubled one over 3 routers (1 packet), per-hop delay 1, check every 2 ticks, one call of Start or Stop |
| `spf` | shortest paths and tables | all graphs of 4 routers with metrics 1 and 4, one network (absent, or joining 2 to 4 of them, up to renaming), links changed one after the other without limit |

The type invariant of a module is a conjunct of one property of its run
(`ContentsCounted`, `LinkInv`, `NoAssertionFails` of the fabric, `SimInv`,
`ObservationFresh`, `WellFormed`, `ReadingsDefined`, `FlowBalance`,
`QueueAgrees`).  The inductive invariants likewise contain the smaller
properties that theorems state by name (`TransmitterConsistent`,
`UsageAccurate`, `CountExact`, `KeysAhead`, `FlagAgrees`), so that these are
model-checked with them.

The distinct states range from twenty-six thousand (`queue`) to three million
(`flowmon`); every run takes less than four minutes.

The bounds that limit a counter are `MaxOps`, `MaxSends`,
`Horizon`, `MaxPackets`, `MaxUid`, `MaxEpisodes`, `MaxStates`, `MaxCalls`,
`MaxTime` and `SimTime`; when they are used up the model stops, hence
`CHECK_DEADLOCK FALSE` where no action is left then.  Three bounds deserve a
word.  `MaxUid` leaves no endless chain of events: in the program an event
without delay that schedules itself again, or a thread that goes on handing over
events, keeps a later event from its turn for ever.  `EventsRun` therefore has
the hypothesis that the event is not overtaken again and again (`Overtaken`),
which the run makes true and the program may not; what does not depend on it is
the action property `TurnComesCloser`: every event the loop runs is one of those
ahead of a waiting one, and only an event for an earlier time than its own can be
put ahead of it.  That is proved for any number of events
(`BoundedWait`): an event waits as long as such events keep coming, no longer.
The metrics of `spf` include 4 because a candidate's place in the queue depends on its distance being lowered past another's, which
smaller metrics do not produce on four routers.  With six events the calendar
never samples more than five of them in `NewWidth`; the branch for larger queues
takes more samples and is otherwise the same.

### Findings

Three runs are expected to fail, each refuting what the repository says of
itself (`PROJECT.json`, "findings", has the quotations):

* `fabric_twice`: with several candidates Ipv4RlRouting forwards the packet and
  then returns false, so Ipv4GlobalRouting forwards it again: every packet
  between leaves is sent twice;
* `heap_remove`: HeapScheduler's Remove puts the last node in the place of the
  removed one and only moves it down; if it is earlier than its new parent the
  heap is out of order, and PeekNext returns an event that is not the earliest.
  The seven events this takes are the bound of the run;
* `telemetry_default`: with the defaults of the command line (2 spines, 4 leaves)
  the first GetStats writes outside the tables of the leaves, which have a row
  per leaf and are indexed by spine.  `RangeOfGetData` proves for which fabrics
  GetData is defined: two spines and at most two leaves, no other.

`schedulers` therefore does not call Remove while the events are in a heap.

Other disagreements between code and text, met while modelling.  The models have
the code's behaviour, and where a property is named it states what is true
instead:

* with any number of spines but 2 the index GetData computes of a leaf is wrong
  (`spine-leaf.cc:46` subtracts 2), and wraps below zero with one spine;
* an observation has all cells of tables that were sized before the command line
  was parsed, 56 values whatever the fabric, while `mygym.cc:71` declares
  7 * spineCount * leafCount: 28 in the largest fabric whose links can be read;
* path drops are never reset, since the loop that zeroes them works on a copy
  (`mygym.cc:168-173`), and they include drops of the queues towards the servers,
  of which the observation shows nothing else (`DropsCumulative`);
* SPFVertex::GetRootExitDirection asserts that there is at most one root exit
  (`global-route-manager-impl.cc:310-317`), so a transit network reached in
  several equal-cost ways, with a router behind it, ends the program
  (`AssertionExplained` says exactly when); the comment at 1440-1442 promises
  all equal-cost paths.  The fabric of this program has point-to-point links
  only and is not affected;
* a packet of which one copy is dropped counts as lost although the other
  arrives, and may be counted as lost twice (`DoubledBounds`);
* `resetStats`, which the telemetry calls at each reading, clears a counter that
  `queue.h:129` documents to start again only at ResetStatistics;
* InitRLRouting installs two weights, so that with three spines the first packet
  between leaves fails the assertion at `aarl-ipv4-routing.cpp:126`;
* events at the stop time that were scheduled before `Stop(delay)` still run
  (`simulator.h:160-162` says Run returns before them), and Run may return while
  an event of another thread waits in the hand-over list (`simulator.h:139`).

## 4. Fairness

* Link: a due event is executed and time goes on while events are pending, as
  `Simulator::Run` does.  Nothing is assumed of Send or of readings.
* Event loop: inside Run the loop turns, and the code of an event returns.  No
  fairness of other threads, nor of the program outside Run.
* Shortest paths: the calculation is one call that runs to its end; a change of
  metrics need never come.
* Bridge: a simulation process that does not wait goes on, and its Run returns
  at the stop time; a blocking receive returns when there is a message; a reset
  that has closed goes on to create the new bridge.  Nothing is assumed of the
  agent between calls.  A crash is never required and may always happen.

## 5. What is proved

Every safety property that a passing run checks is also a theorem, for all
values of the constants, and so are both refinements.  `PROJECT.json`,
"theorems", lists them.

Assumptions, all evaluated by TLC in the runs: `UINT32Assumption` (a width of at
least one bit), `QueueAssumption` (positive sizes, limits that are `uint32_t`),
`LinkAssumption` (two devices, positive sizes and transmission times, any gap,
delay and limit), `NoPktAssumption`, `SimulatorAssumption`, `GymAssumption`,
`TelemetryAssumption`, `FlowMonitorAssumption`, `FabricAssumption`,
`SchedulersAssumption` (any delays, any number of events, any of the five kinds)
and `RoutesAssumption` (some routers, any number of networks, positive metrics out of a
finite set).  They say of what kind a constant is and leave its size open.

Some theorems need more, because the property can be false without it.  These
hypotheses stand in the statement of the theorem:

| hypothesis | theorems | why |
|---|---|---|
| `LimitFits`: the limit is in packets and below the last `uint32_t`, or in bytes and leaves room for one packet more | those on the link | otherwise the stored length, or what is compared with the limit, wraps; the program's "1500p" (`topology-builder.h:81`) satisfies it |
| `BytesFit`: if the limit is in packets, the largest packet times (limit + 1) fits a `uint32_t` | `AssertionsHold` of the link | otherwise the stored size may wrap to zero with packets in the list |
| `NoWrap`: the same for every limit that SetMaxSize may install, and for a limit in bytes that one packet more fits | `ContentsAreCounted`, `DequeueNeverAsserts` | likewise |
| `MaxPerHopDelay > 0` | `PacketsGivenUp` | with zero, a packet seen at the instant of a check but after it waits a whole interval; the proof failed on this case |
| at most 2 spines, no more leaves than `DefaultLeaves`, one weight per spine | `FabricAssertionsHold` | the static table and the two weights of InitRLRouting |
| `SafeRemove`: no heap, or no Remove while the events are in it | those on the schedulers | HeapScheduler::Remove breaks the order of the heap (section 3, `heap_remove`) |
| `TableFits`: 2 spines, leaves as above, a TTL above 3 | `DropsAttributed` | with one spine nothing is tagged; with TTL 3 copies expire uncounted |

**LinkProofs: the queue.**  The stored size is compared with the sum of the
sizes in the list, a recursive function of the list.  What that function does
for Append and Tail is an induction over the length.  The library's induction
theorems take an operator as a parameter, which the provers cannot instantiate, so
`SetInduction` restates induction for a set of naturals, from the theorem that
every nonempty set has a least element; `BytesSum`, `BytesAppend`, `BytesTail` and
the bound `BytesBounds` follow.  The same induction treats the loop of Flush
(`FlushRemoves`).  `StatisticsBalance` needs no bound on anything: it is an
equation modulo the width of a counter, so the invariant `BalanceInv` keeps the
eight statistics congruent (`Same`) to the sums they stand for, also when the
stored length itself has wrapped.  `ContentsAreCounted` is the other side: where
nothing can wrap, stored length and size equal those of the list and respect
the limit, and so the assertions of DoDequeue and DoRemove never fail
(`DequeueNeverAsserts`).

**LinkProofs: the link.**  The second part proves `Spec => []LinkInv` and from it
the type invariant, `TransmitterConsistent`, `NothingStranded`, `UsageAccurate`,
`NoOvertaking` and, as an action property, `ReadingExact`.  None of these is
inductive alone.  Order of arrival needs to know that uids in the queue ascend (`Numbered`) and that
arrivals on the wire are apart: every arrival is at most one delay after the
pending completion, or after the present when the transmitter is READY, so the
next packet, whose transmission takes time, arrives strictly later (`Spaced`).
That a completion finds the device BUSY needs the transmitter's consistency,
which needs `NothingStranded` only in one direction: the queue of a READY device
is empty, so a Send puts its own packet on the wire.  Both ways of starting a
transmission go through one lemma, `TransmitStartInv`.  `EveryPacketAccounted`
adds that the five places a packet can be in share no uid and together hold all
uids handed out: an action moves one packet from one place to another.
`AssertionsHold` is the whole of `NoAssertionFails`, the queue's
assertion included, from the lemmas on sums of sizes.  A queue limited in bytes
bounds the number of its packets only through their sizes, so its invariant
(`SoundQueue`) has the stored size right as well, and `BytesRoom` derives that
neither counter wraps.

**SimulatorProofs** proves `Spec => []SimInv` for any delays and any number of
events, and from it that no assertion of the loop fails, that IsExpired is right,
that the count is the length of the list, that events run in order of time
and uid, and that the turn of a waiting event comes closer (`BoundedWait`: the
events ahead of it after a step are among those ahead before it, or came with the
step and are earlier; `ListMoves` says what each action does to the list).  The strengthening is `KeysAhead` (all keys in the list are after the
current one, distinct, and were handed out) and `UidsPast` (no EventId, cancelled
flag or destroy event has a uid yet to be handed out); with them the comparison of
two numbers in IsExpired decides membership in the list.  The lemmas on finite
sets give the count for an insertion, a removal and a hand-over of many events.

**SchedulerProofs** shows that each structure is the sorted set.  `Row`, `HeapOf`
and `CalendarOf` say that a list, a heap and a calendar hold a given set of
events, and every operation has a lemma on what it does to that set.  The loops
are functions of the round; that such a function exists is one induction for all
of them (`RoundsExist`), and the invariant of each loop is another: in `BottomUp`
only the node under way may be earlier than its parent, and its children are not
earlier than that parent (`UpInv`); in `TopDown` the mirror image (`DownInv`);
after k rounds of `Sample` the k earliest events are in the list, in order, and the
calendar begins its search at the last of them; after k rounds of `MoveAll` the new
scheduler holds k events and the old one the rest.  The calendar's search is the
hard part (`SearchFinds`): bucket and year of an event are remainder and quotient
of its slot, time over width; as the search begins in the slot of the last
priority and no event is before it, the first turn that meets an event of its own
year meets the earliest of all, and if no turn does, every event is a year or more
away and the least of the first events is taken.  This needs that the search
begins exactly where `lastPrio` is (`Start`): that the three members are put back
after the sampling and are recomputed by a resize.  `SchedulerInv` adds that uids
are distinct, for Remove, and that a calendar's last priority is not later than
the event under way, so that what is scheduled next is not before the search.
`SchedulerImplements` is the refinement of `EventList`, step by step.

**GymProofs** proves `GymInv`: for each episode, which messages are on the two
sockets and what each end waits for (`SimOK`), what the agent holds (`AgentOK`),
and that a simulation whose bridge was given up is stopping (`Abandoned`).
Moves of the simulation and of the agent each have one lemma on what they leave
alone, so that an action's proof is about its own episode.  From it follow
`ObservationFresh`, `ClosedMeansStopped` and, by `StepRefines`, that the two
processes implement `LockStep`: each step of `Next` is a step of the abstract
specification under the mapping, or leaves every turn as it is.

**TelemetryProofs** proves the three properties as one invariant: a reading's
effect on the slots and on the counters is only known where it is defined.
`RangeOfGetData` decides for every fabric when all accesses are inside their
tables.  `CountersCorrect` sets two counts of drops against each other that
different code keeps, the queues' and the trace's: a drop at a device of the way
up, of the way down or of the last hop raises one term on each side, and the sum
is per leaf of the sender since that is what the tag says.

**FlowProofs** has two invariants.  `FlowInv` concerns the monitor's tables
alone: per flow the counters balance against the number of tracked packets
(`Balanced`), sums of delays lie between first and last times (`Timely`), and the
next check is due in time.  `CheckForLostPackets` is treated as the erasure of a
set of keys.  `PathInv` relates the tables to the wire, packet by packet, in an
undisturbed monitor: a packet has one copy, or two paired copies whose hops and
forwarding counts agree (`CopyOK`), and the counters of a flow are the
cardinalities of sets of packets (`CountsOK`, `StraysOK`).  The doubled flow is
the hard case: a router reports the first copy, may drop it, and then reports the
second (`PathForwardTwice`).

**FabricProofs** proves that every copy anywhere is `Good`: a frame on the way
from its first leaf over a spine to its last leaf with the hops counted, tagged by
its first leaf or not at all.  The chain of protocols is evaluated once for each
kind of node (`RouteDown`, `RouteAcross`, `RouteUp`); the rest follows from where
they send the packet.  For `DropsAttributed` the copies of a bag become a set
(`CopiesOf`), so that a counter of the trace is the cardinality of the copies
dropped on its path, and a tag determines the spine (`ViaOK`).

**RouteProofs** is a proof of Dijkstra's algorithm as the code has it.  The
reference, rounds of relaxation, is treated first: each round settles one vertex
more, so that the last one changes nothing, and the distances are the greatest
function that no edge raises by more than its cost, attained over a last and over
a first edge.  `PushEffect`, `ReorderEffect` and `PopEffect` say that the candidate
queue stays a sorted arrangement of the candidates.  `LoopInv` is the invariant of
the loop of SPFNext after each record: the tree has exact distances (`Exact`), the
candidates have as parents and exits what the tree has offered so far (`Offered`),
nothing outside is nearer than the current vertex (`Ordered`), and no network left
with a router behind it had several exits (`Unambiguous`).  Since leaving a network
costs nothing, a vertex can have a parent at its own distance: that the parents of
a vertex are complete when it is popped rests on the tie-break of CompareSPFVertex,
networks before routers (`NetworksFirst`).  The root exits are compared with a
definition that knows nothing of parents, the first hops of shortest paths
(`FirstHops`); `HopsDecompose` shows that they are the union over the last edges,
when no network on the way is ambiguous.  `RouteInv` adds the tables: those of
earlier routers hold exactly the first hops of all shortest paths, that of the
root the part for its tree, and the others nothing.  `HopByHop` and `NothingStale`
are then about finished tables only.

## 6. What is only model-checked

* Liveness (`AcceptedArrives`, `EventsRun`, `CallsReturn`, `NoOrphans`, `Terminates`): TLAPS
  does not treat fairness and ENABLED.
* That the default fabric is read outside its tables: the run `telemetry_default`
  has the trace; the theorem is about GetData alone.
* Remove from a heap: the run `heap_remove` shows a violation, and the theorems on
  the schedulers exclude it (`SafeRemove`).

## 7. Plan

Modelled: the queue, the link, forwarding, the event loop and the lists behind
it, the bridge, the telemetry, the flow statistics and the shortest paths.
Proved: the safety of all of them.

Next, of the models: parallel links between two routers (next hop by interface
address, `global-route-manager-impl.cc:1046`), the link in place of the abstract
device in the fabric.

## 8. Not modelled, and why

* Of GlobalRouteManager: the discovery of the link state database from devices,
  channels and bridges (DiscoverLSAs), external LSAs, parallel links, interfaces
  that go down.  The program has none of them, except discovery, which runs once
  over point-to-point channels.
* Ipv4L3Protocol beyond forwarding and delivery of unicast packets
  (fragmentation, multicast, options, ICMP): of these the program's traffic meets
  only the port-unreachable replies of servers where no sink listens, which are
  unicast packets like any other to the fabric.
* Byte counters, histograms, IPv6 and XML output of the flow monitor.
* The RL agents and the plotting scripts: numeric code without control state.
* Generated protobuf code, build files, bindings, and the ns-3 modules the load
  balancer does not use (wifi, lte, mesh, olsr, aodv, dsr and the rest: most of
  the repository's lines are theirs).
* Wrapping of the event loop's 32-bit uid and of its 64-bit clock: after 2^32
  events ties would be broken the wrong way and IsExpired be wrong
  (`default-simulator-impl.cc:182`), beyond any instance.
* Traffic generators, statistics files and animation: input and output.
