------------------------------ MODULE Telemetry ------------------------------
(***************************************************************************)
(* What the program reports of its links: StateActionManager::GetData      *)
(* copies the state of every spine-leaf device into static tables, for two *)
(* readers, GetStats (once a second) and the agent's GetObservation (once  *)
(* a step, when DataCenterEnv is compiled in; main has it commented out).  *)
(* Each reading restarts the usage history of every device.                *)
(*                                                                         *)
(* The tables are static objects: they are sized before main parses the    *)
(* command line that sets spineCount and leafCount.                        *)
(*                                                                         *)
(* A device is abstracted to what is read: its queue's length, its drop    *)
(* counter, and the busy time since the last reading, which is what        *)
(* time_slot returns (theorem ReadingCorrect of LinkProofs).  The devices  *)
(* of a leaf towards its servers are not read, but main connects the drop  *)
(* trace to them too.  A packet is abstracted to the leaf of its sender;   *)
(* which packets a device meets, and with which tag, is what forwarding    *)
(* (SpineLeafRouting) makes of it.                                         *)
(***************************************************************************)
EXTENDS Integers

CONSTANTS UINT32,      \* number of values of a uint32_t, above every index
          Options,     \* command lines: <<spineCount, leafCount>>
          ServerCount, \* Globals::serverCount: servers of a leaf
          Loaded,      \* the devices that traffic goes through
          QueueMax,    \* "MaxSize" of a device's queue, in packets
          TxTime,      \* ticks to transmit a packet
          Second,      \* ticks between two calls of GetStats
          StepTime,    \* ticks between two calls of GetObservation
          MaxPackets,  \* bound: packets offered to a device
          SimTime      \* Globals::simulationTime, in ticks

ASSUME TelemetryAssumption ==
  /\ Options \subseteq (Nat \ {0}) \X (Nat \ {0})
  /\ UINT32 \in Nat /\ \A o \in Options : o[1] + o[2] + 2 <= UINT32
  /\ {ServerCount, TxTime, Second, StepTime, QueueMax} \subseteq Nat \ {0}
  /\ {MaxPackets, SimTime} \subseteq Nat

(* The initial values in globals.h. *)
DefaultSpines == 2
DefaultLeaves == 4

VARIABLES
  spineCount, leafCount,   \* as parsed
  env,                     \* DataCenterEnv is compiled in
  now,
  dev,                     \* the devices: queue, counter, transmission, usage
  m_spines, m_leaves,      \* the tables of GetData, by row and column
  m_path_drops,
  nextStats, nextStep,     \* when the readers' events are due
  obs,                     \* m_path_drops, as in the agent's last observation
  undefined,               \* an access outside a vector
  failed,                  \* an NS_ASSERT of ApplyNewAction
  offered, busy,           \* history: packets offered to, and work of, a device
  lastHop,                 \* history: packets of a leaf's servers that were
                           \* dropped before the server of another leaf
  slots                    \* history: the time slots each reader was given

options == <<spineCount, leafCount, env>>
traffic == <<dev, offered, busy, m_path_drops, lastHop>>
readers == <<m_spines, m_leaves, nextStats, nextStep, obs, slots, failed>>
vars == <<options, now, traffic, readers, undefined>>

Reader == {"stats", "env"}

(* p2pSpinesLeavesNetdevs ("down") and p2pLeavesSpinesNetdevs ("up"), both *)
(* filled by BuildTopology in the order [spine][leaf], and the devices of  *)
(* the leaves towards their servers.                                       *)
Links(S, L) == {"down", "up"} \X (0 .. S - 1) \X (0 .. L - 1)
ServerLinks(L) == {"server"} \X (0 .. L - 1) \X (0 .. ServerCount - 1)

Devices == Links(spineCount, leafCount) \cup ServerLinks(leafCount)

Idle == [len |-> 0, dropped |-> 0, left |-> 0, sending |-> FALSE, used |-> 0]
Cell == [drops |-> 0, size |-> 0, used |-> 0]

(* The vectors' sizes: one kind of table has a row per spine, the other a  *)
(* row per leaf.                                                           *)
SpineCells == (0 .. DefaultSpines - 1) \X (0 .. DefaultLeaves - 1)

LeafCells == (0 .. DefaultLeaves - 1) \X (0 .. DefaultSpines - 1)

Init ==
  /\ \E o \in Options : spineCount = o[1] /\ leafCount = o[2]
  /\ env \in BOOLEAN
  /\ now = 0
  /\ dev = [d \in Devices |-> Idle]
  /\ m_spines = [c \in SpineCells |-> Cell]
  /\ m_leaves = [c \in LeafCells |-> Cell]
  /\ m_path_drops = [c \in SpineCells |-> 0]
  /\ nextStats = Second
  /\ nextStep = 0
  /\ obs = m_path_drops
  /\ undefined = FALSE /\ failed = FALSE
  /\ offered = [d \in Devices |-> 0]
  /\ busy = [d \in Devices |-> 0]
  /\ lastHop = [f \in 0 .. leafCount - 1 |-> 0]
  /\ slots = [r \in Reader |-> [d \in Devices |-> 0]]

Running == ~undefined /\ ~failed /\ now < SimTime

-----------------------------------------------------------------------------
(* Traffic: a packet of a server of leaf "from" comes to device d. *)

(* Its way leads over a spine. *)
Crosses(d, from) == d[1] # "server" \/ from # d[2]

(* The RL router of the first leaf sends it there: to the only spine       *)
(* untagged, or to the first of two, tagged; with more spines its          *)
(* assertion on the weights fails and nothing gets past the leaf.  The     *)
(* second copy, which Ipv4GlobalRouting forwards, may take the other spine *)
(* with the same tag.                                                      *)
Carries(d, from) ==
  /\ d[1] = "up" => from = d[3] /\ leafCount > 1
  /\ d[1] = "down" => from # d[3]
  /\ Crosses(d, from) => spineCount <= 2

(* TraceP2PDevQueueDrop: the drop of a tagged packet counts, wherever it   *)
(* happens, for the path in the tag.                                       *)
Traced(d, from) == Crosses(d, from) /\ spineCount > 1

(* Mutant: the indices the wrong way round. *)
BlamedSwapped(from) == <<from, 0>>

Blamed(from) == <<0, from>>

Send(d, from) ==
  /\ Running /\ offered[d] < MaxPackets /\ Carries(d, from)
  /\ offered' = [offered EXCEPT ![d] = @ + 1]
  /\ \/ /\ ~dev[d].sending
        /\ dev' = [dev EXCEPT ![d].sending = TRUE, ![d].left = TxTime]
        /\ UNCHANGED <<m_path_drops, lastHop, undefined>>
     \/ /\ dev[d].sending /\ dev[d].len < QueueMax
        /\ dev' = [dev EXCEPT ![d].len = @ + 1]
        /\ UNCHANGED <<m_path_drops, lastHop, undefined>>
     \/ /\ dev[d].sending /\ dev[d].len = QueueMax
        /\ dev' = [dev EXCEPT ![d].dropped = @ + 1]
        /\ undefined' = (Traced(d, from) /\ Blamed(from) \notin DOMAIN m_path_drops)
        /\ m_path_drops' = [c \in DOMAIN m_path_drops |-> m_path_drops[c] +
                              IF Traced(d, from) /\ c = Blamed(from) THEN 1 ELSE 0]
        /\ lastHop' = [f \in DOMAIN lastHop |-> lastHop[f] +
                         IF d[1] = "server" /\ f = from /\ f # d[2] THEN 1 ELSE 0]
  /\ UNCHANGED <<options, now, readers, busy>>

TransmitComplete(d) ==
  /\ Running /\ dev[d].sending /\ dev[d].left = 0
  /\ dev' = IF dev[d].len = 0
            THEN [dev EXCEPT ![d].sending = FALSE]
            ELSE [dev EXCEPT ![d].len = @ - 1, ![d].left = TxTime]
  /\ UNCHANGED <<options, now, readers, undefined, offered, busy, m_path_drops, lastHop>>

-----------------------------------------------------------------------------
(* GetData.  Node numbers below spineCount are spines; a leaf's index is   *)
(* computed in a uint32_t.                                                 *)

(* Mutant: the leaves are counted from one. *)
LeafIndexFromOne(i) == (i - 1) % UINT32

LeafIndex(i) == (i - 2) % UINT32

(* The cells and devices GetData visits on the leaves' side. *)
LeafVisits ==
  {<<j, LeafIndex(i)>> : j \in 0 .. spineCount - 1,
                         i \in spineCount .. spineCount + leafCount - 1}

SpineVisits == (0 .. spineCount - 1) \X (0 .. leafCount - 1)

OutOfRange ==
  \/ ~(SpineVisits \subseteq SpineCells)
  \/ ~(LeafVisits \subseteq LeafCells)
  \/ \E v \in LeafVisits : <<"up", v[1], v[2]>> \notin Devices

Read(dir, c) ==
  LET d == dev[<<dir, c[1], c[2]>>] IN [drops |-> d.dropped, size |-> d.len, used |-> d.used]

(* Mutant: time_slot leaves the usage history alone. *)
NotRestarted == dev

(* time_slot and resetStats; the latter clears a counter of bytes only. *)
Restarted ==
  [d \in Devices |-> IF d[1] = "server" THEN dev[d] ELSE [dev[d] EXCEPT !.used = 0]]

(* What the reader is given of device d. *)
Slot(d) == IF d[1] = "server" THEN 0 ELSE dev[d].used

GetData(reader) ==
  /\ undefined' = OutOfRange
  /\ IF OutOfRange
     THEN UNCHANGED <<dev, m_spines, m_leaves, slots>>
     ELSE /\ m_spines' = [c \in SpineCells |->
                            IF c \in SpineVisits THEN Read("down", c) ELSE m_spines[c]]
          /\ m_leaves' = [c \in LeafCells |->
                            IF c \in LeafVisits THEN Read("up", c) ELSE m_leaves[c]]
          /\ dev' = Restarted
          /\ slots' = [slots EXCEPT ![reader] = [d \in Devices |-> @[d] + Slot(d)]]

GetStats ==
  /\ Running /\ now = nextStats
  /\ GetData("stats")
  /\ nextStats' = now + Second
  /\ UNCHANGED <<options, now, nextStep, obs, failed, offered, busy, m_path_drops, lastHop>>

(* main sets action_space from spineCount before it parses the options. *)
ActionSpace == DefaultSpines

(* ApplyNewAction's assertions on a vector of the size GetActionSpace gives. *)
ActionRefused ==
  LET size == spineCount * leafCount
  IN  size % ActionSpace # 0 \/ size \div ActionSpace # leafCount

(* ScheduleNextStateRead: the event schedules the next one, then Notify    *)
(* collects the observation and executes the agent's action.  Of the       *)
(* observation only the drops of the paths are kept; "val = 0" in          *)
(* GetObservation goes to path_links_drops, a copy of the counters.        *)
ScheduleNextStateRead ==
  /\ Running /\ env /\ now = nextStep
  /\ nextStep' = now + StepTime
  /\ GetData("env")
  /\ failed' = (~undefined' /\ ActionRefused)
  /\ obs' = IF undefined' THEN obs ELSE m_path_drops
  /\ UNCHANGED <<options, now, nextStats, offered, busy, m_path_drops, lastHop>>

(* Nothing is due: time goes on, and devices that send are in use. *)
Tick ==
  /\ Running
  /\ now < nextStats /\ (env => now < nextStep)
  /\ \A d \in Devices : dev[d].sending => dev[d].left > 0
  /\ now' = now + 1
  /\ dev' = [d \in Devices |-> IF dev[d].sending
                               THEN [dev[d] EXCEPT !.left = @ - 1, !.used = @ + 1]
                               ELSE dev[d]]
  /\ busy' = [d \in Devices |-> busy[d] + IF dev[d].sending THEN 1 ELSE 0]
  /\ UNCHANGED <<options, readers, undefined, offered, m_path_drops, lastHop>>

Next ==
  \/ \E d \in Devices \cap Loaded, from \in 0 .. leafCount - 1 : Send(d, from)
  \/ \E d \in Devices : TransmitComplete(d)
  \/ GetStats
  \/ ScheduleNextStateRead
  \/ Tick

Spec == Init /\ [][Next]_vars

-----------------------------------------------------------------------------
(* Values are in their types; a device holds packets in its queue only     *)
(* while it sends.                                                         *)
TypeOK ==
  /\ <<spineCount, leafCount>> \in Options /\ env \in BOOLEAN /\ now \in 0 .. SimTime
  /\ dev \in [Devices -> [len : 0 .. QueueMax, dropped : Nat, left : 0 .. TxTime,
                          sending : BOOLEAN, used : Nat]]
  /\ \A d \in Devices : dev[d].len > 0 => dev[d].sending
  /\ m_spines \in [SpineCells -> [drops : Nat, size : Nat, used : Nat]]
  /\ m_leaves \in [LeafCells -> [drops : Nat, size : Nat, used : Nat]]
  /\ m_path_drops \in [SpineCells -> Nat]
  /\ nextStats \in now .. now + Second /\ (env => nextStep \in now .. now + StepTime)
  /\ obs \in [SpineCells -> Nat]
  /\ undefined \in BOOLEAN /\ failed \in BOOLEAN
  /\ offered \in [Devices -> Nat] /\ busy \in [Devices -> Nat]
  /\ lastHop \in [0 .. leafCount - 1 -> Nat]
  /\ slots \in [Reader -> [Devices -> Nat]]

(* The fabrics whose size agrees with the tables and with GetData's way of *)
(* numbering the leaves.                                                   *)
Fits == spineCount = 2 /\ leafCount <= 2

(* In a fabric that fits, whatever the traffic and whoever reads, GetData  *)
(* and the drop trace stay inside the vectors that were sized before the   *)
(* options were parsed (spine-leaf.cc:6-16), and the agent's action passes *)
(* the assertions on an action_space that was set then too.                *)
ReadingsDefined == TypeOK /\ (Fits => ~undefined /\ ~failed)

(* What main-loadbalancer.cc:19-20 offers as the default, four leaves and  *)
(* two spines, is a fabric whose links can be read: no access of GetData   *)
(* or of the drop trace is outside its vector.                             *)
NoUndefinedAccess == ~undefined

(* Two readers share one usage history: what a device did between two      *)
(* readings goes to whoever reads next, but nothing is lost or given to    *)
(* both.  The agent alone would see less than the device's work.           *)
SlotsShared ==
  ~undefined => \A d \in Devices :
    slots["stats"][d] + slots["env"][d] + dev[d].used = busy[d]

Dropped(d) == IF d \in Devices THEN dev[d].dropped ELSE 0

(* What the agent is told of the packets of leaf f is every one of them    *)
(* that a queue dropped after the first leaf: by f itself, by a spine, or  *)
(* on the last hop, which no other counter of the agent shows; all in the  *)
(* row of the first spine (a fabric that fits has at most two leaves).     *)
DropsCounted(f) ==
  /\ m_path_drops[<<0, f>>] =
       Dropped(<<"up", 0, f>>) + Dropped(<<"up", 1, f>>)
         + Dropped(<<"down", 0, 1 - f>>) + Dropped(<<"down", 1, 1 - f>>) + lastHop[f]
  /\ m_path_drops[<<1, f>>] = 0

(* A cell shows no more drops than its device has had, nor more use than   *)
(* was read.                                                               *)
Shows(cell, d) ==
  /\ cell.drops <= dev[d].dropped
  /\ cell.used <= slots["stats"][d] + slots["env"][d]

(* The counters of drops, by queue and by path, agree although they are    *)
(* kept by different code (the queue; the trace, from a tag set hops       *)
(* before) and read in between: no drop of a tagged packet is missed,      *)
(* counted twice or blamed on another leaf, an observation never shows     *)
(* more of a path than there was, and a cell shows no other device than    *)
(* its own.                                                                *)
DropsCumulative ==
  Fits => \A l \in 0 .. leafCount - 1 :
    /\ DropsCounted(l)
    /\ \A s \in 0 .. 1 :
         /\ obs[<<s, l>>] <= m_path_drops[<<s, l>>]
         /\ Shows(m_spines[<<s, l>>], <<"down", s, l>>)
         /\ Shows(m_leaves[<<s, l>>], <<"up", s, l>>)
=============================================================================
