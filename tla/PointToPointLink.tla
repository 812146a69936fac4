-------------------------- MODULE PointToPointLink --------------------------
(***************************************************************************)
(* Two PointToPointNetDevices on one PointToPointChannel                   *)
(* (src/src/point-to-point/model), each with its DropTailQueue and the     *)
(* fork's usage history (hist_t, start_tx, stopped_tx, time_slot), which   *)
(* is what the load balancer reads as the bandwidth of a link.             *)
(*                                                                         *)
(* The simulator is here only as far as the device uses it: the events the *)
(* device and the channel schedule are kept with the time they are due,    *)
(* time does not pass a due event, and events due at the same time run in  *)
(* any order (DefaultSimulatorImpl models the event list).  An NS_ASSERT   *)
(* that fails stops the program: "halted".                                 *)
(***************************************************************************)
EXTENDS QueueOps

CONSTANTS Dev,          \* the two devices
          Sizes,        \* packet sizes, PPP header included
          TxTime,       \* DataRate::CalculateBytesTxTime
          Gap,          \* m_tInterframeGap
          Delay,        \* the channel's m_delay
          Lossy,        \* a receive error model is installed
          MaxSize,      \* the queue's m_maxSize
          NoPkt,        \* the null packet pointer
          MaxSends,     \* bound: packets offered to the devices
          Horizon       \* bound: last instant a packet is offered or usage is read

ASSUME LinkAssumption ==
  /\ \E x, y \in Dev : x # y /\ Dev = {x, y}
  /\ Sizes \subseteq Nat \ {0}
  /\ TxTime \in [Sizes -> Nat \ {0}]
  /\ Gap \in Nat /\ Delay \in Nat
  /\ Lossy \in BOOLEAN
  /\ MaxSize \in [unit : Units, value : Uint32 \ {0}]
  /\ MaxSends \in Nat /\ Horizon \in Nat

VARIABLES
  now,                  \* Simulator::Now
  m_link,               \* the channel: devices in the order they attached
  m_linkUp,
  m_txMachineState,
  m_currentPkt,
  m_queue,
  m_history,            \* hist_t
  completions,          \* due times of the TransmitComplete events
  wire,                 \* the Receive events: packets in flight
  halted,               \* "no", or the part of the code whose assertion failed
  sent,                 \* packets offered so far; a packet's uid is its number
  fate,                 \* history: what became of the packets that left the device
  busy,                 \* history: time spent BUSY since the last time_slot
  readAt,               \* history: time of the last time_slot
  reading               \* the last value time_slot returned

devVars == <<m_txMachineState, m_currentPkt, m_queue, m_history, completions>>
vars == <<now, m_link, m_linkUp, devVars, wire, halted, sent, fate, busy,
          readAt, reading>>

Peer(d) == CHOOSE e \in Dev : e # d

Packet == [uid : Nat, src : Dev, size : Sizes]

ASSUME NoPktAssumption == NoPkt \notin Packet

(* The channel has both its ends: its links are no longer INITIALIZING. *)
Attached == Len(m_link) = 2

Init ==
  /\ now = 0
  /\ m_link = << >>
  /\ m_linkUp = [d \in Dev |-> FALSE]
  /\ m_txMachineState = [d \in Dev |-> "READY"]
  /\ m_currentPkt = [d \in Dev |-> NoPkt]
  /\ m_queue = [d \in Dev |-> NewQueue(MaxSize)]
  /\ m_history = [d \in Dev |->
                    [up_duration |-> 0, start_tx |-> 0, was_down |-> TRUE]]
  /\ completions = [d \in Dev |-> {}]
  /\ wire = {}
  /\ halted = "no"
  /\ sent = 0
  /\ fate = [dropped |-> {}, delivered |-> {}, corrupted |-> {}]
  /\ busy = [d \in Dev |-> 0]
  /\ readAt = [d \in Dev |-> 0]
  /\ reading = [d \in Dev |-> 0]

(* PointToPointNetDevice::Attach: the link is up as soon as this end is on *)
(* the channel, whether or not the other one is.  Each device is attached  *)
(* once (PointToPointHelper::Install).                                     *)
Attach(d) ==
  /\ halted = "no"
  /\ \A i \in 1 .. Len(m_link) : m_link[i] # d
  /\ m_link' = Append(m_link, d)
  /\ m_linkUp' = [m_linkUp EXCEPT ![d] = TRUE]
  /\ UNCHANGED <<now, devVars, wire, halted, sent, fate, busy, readAt, reading>>

-----------------------------------------------------------------------------
(* The usage history, as functions of the record. *)

StartTx(h) ==
  IF h.was_down THEN [h EXCEPT !.start_tx = now, !.was_down = FALSE] ELSE h

(* Mutant: "=" for "+=". *)
StoppedTxOverwrites(h) ==
  [h EXCEPT !.up_duration = now - h.start_tx, !.was_down = TRUE]

StoppedTx(h) ==
  [h EXCEPT !.up_duration = @ + (now - h.start_tx), !.was_down = TRUE]

(* Mutant: the slot under way is not restarted. *)
ReadSlotKeepsStart(h) ==
  IF h.was_down THEN h ELSE [h EXCEPT !.up_duration = @ + (now - h.start_tx)]

(* time_slot splits the transmission under way at the present instant. *)
ReadSlot(h) ==
  IF h.was_down
  THEN h
  ELSE [h EXCEPT !.up_duration = @ + (now - h.start_tx), !.start_tx = now]

-----------------------------------------------------------------------------
(* When the transmission of p that starts now completes, and arrives. *)

(* Mutant: the transmission time is forgotten. *)
CompleteAtGap(p) == now + Gap

CompleteAt(p) == now + TxTime[p.size] + Gap

ArriveAt(p) == now + TxTime[p.size] + Delay

(* TransmitStart.  Its caller leaves the queue q and the completion events *)
(* "others".  The channel asserts that both ends are attached, and         *)
(* otherwise always accepts the packet.                                    *)
TransmitStart(d, p, q, others) ==
  /\ m_queue' = [m_queue EXCEPT ![d] = q]
  /\ m_txMachineState' = [m_txMachineState EXCEPT ![d] = "BUSY"]
  /\ m_currentPkt' = [m_currentPkt EXCEPT ![d] = p]
  /\ completions' = [completions EXCEPT ![d] = others \cup {CompleteAt(p)}]
  /\ IF Attached
     THEN /\ wire' = wire \cup {[pkt |-> p, dst |-> Peer(d), at |-> ArriveAt(p)]}
          /\ m_history' = [m_history EXCEPT ![d] = StartTx(@)]
          /\ UNCHANGED halted
     ELSE /\ halted' = "channel"
          /\ UNCHANGED <<wire, m_history>>

(* An assertion fails: the program is gone. *)
Halt(where) ==
  /\ halted' = where
  /\ UNCHANGED <<devVars, wire>>

(* Mutant: the drop is not traced. *)
LoseSilently(p) == UNCHANGED fate

(* m_macTxDropTrace. *)
Lose(p) == fate' = [fate EXCEPT !.dropped = @ \cup {p}]

(* Send: refused while the link is down; otherwise through the queue, and  *)
(* from the queue straight to the wire when the transmitter is READY.      *)
Send(d, s) ==
  /\ halted = "no" /\ sent < MaxSends /\ now <= Horizon
  /\ sent' = sent + 1
  /\ LET p == [uid |-> sent, src |-> d, size |-> s]
         q == Enqueue(m_queue[d], p)
     IN \/ /\ ~ m_linkUp[d]
           /\ Lose(p)
           /\ UNCHANGED <<devVars, wire, halted>>
        \/ /\ m_linkUp[d] /\ ~ Accepts(m_queue[d], p)
           /\ m_queue' = [m_queue EXCEPT ![d] = q]
           /\ Lose(p)
           /\ UNCHANGED <<m_txMachineState, m_currentPkt, m_history,
                          completions, wire, halted>>
        \/ /\ m_linkUp[d] /\ Accepts(m_queue[d], p)
           /\ m_txMachineState[d] = "READY"
           /\ IF DequeueAsserts(q)
              THEN TransmitStart(d, FrontItem(q), Dequeue(q), completions[d])
              ELSE Halt("queue")
           /\ UNCHANGED fate
        \/ /\ m_linkUp[d] /\ Accepts(m_queue[d], p)
           /\ m_txMachineState[d] # "READY"
           /\ m_queue' = [m_queue EXCEPT ![d] = q]
           /\ UNCHANGED <<m_txMachineState, m_currentPkt, m_history,
                          completions, wire, halted, fate>>
  /\ UNCHANGED <<now, m_link, m_linkUp, busy, readAt, reading>>

(* TransmitComplete: the transmitter is READY again; the next queued       *)
(* packet, if there is one, goes on the wire in the same event.            *)
TransmitComplete(d) ==
  /\ halted = "no"
  /\ now \in completions[d]
  /\ LET others == completions[d] \ {now}
     IN \/ /\ m_txMachineState[d] # "BUSY" \/ m_currentPkt[d] = NoPkt
           /\ Halt("device")
        \/ /\ m_txMachineState[d] = "BUSY" /\ m_currentPkt[d] # NoPkt
           /\ IsEmpty(m_queue[d])
           /\ completions' = [completions EXCEPT ![d] = others]
           /\ m_txMachineState' = [m_txMachineState EXCEPT ![d] = "READY"]
           /\ m_currentPkt' = [m_currentPkt EXCEPT ![d] = NoPkt]
           /\ m_history' = [m_history EXCEPT ![d] = StoppedTx(@)]
           /\ UNCHANGED <<m_queue, wire, halted>>
        \/ /\ m_txMachineState[d] = "BUSY" /\ m_currentPkt[d] # NoPkt
           /\ ~ IsEmpty(m_queue[d])
           /\ IF DequeueAsserts(m_queue[d])
              THEN TransmitStart(d, FrontItem(m_queue[d]), Dequeue(m_queue[d]),
                                 others)
              ELSE Halt("queue")
  /\ UNCHANGED <<now, m_link, m_linkUp, sent, fate, busy, readAt, reading>>

(* Receive: the error model may lose the packet; otherwise GetRemote       *)
(* asserts that the channel has two devices and the packet goes up.        *)
Receive(m) ==
  /\ halted = "no"
  /\ m \in wire /\ m.at = now
  /\ wire' = wire \ {m}
  /\ \/ /\ Lossy
        /\ fate' = [fate EXCEPT !.corrupted = @ \cup {m.pkt}]
        /\ UNCHANGED halted
     \/ /\ Attached
        /\ fate' = [fate EXCEPT !.delivered = @ \cup {m.pkt}]
        /\ UNCHANGED halted
     \/ /\ ~ Attached
        /\ halted' = "remote"
        /\ UNCHANGED fate
  /\ UNCHANGED <<now, m_link, m_linkUp, devVars, sent, busy, readAt, reading>>

(* The load balancer reads the usage of a device and starts a new slot. *)
TimeSlot(d) ==
  /\ halted = "no" /\ now <= Horizon
  /\ LET h == ReadSlot(m_history[d])
     IN /\ reading' = [reading EXCEPT ![d] = h.up_duration]
        /\ m_history' = [m_history EXCEPT ![d] = [h EXCEPT !.up_duration = 0]]
  /\ busy' = [busy EXCEPT ![d] = 0]
  /\ readAt' = [readAt EXCEPT ![d] = now]
  /\ UNCHANGED <<now, m_link, m_linkUp, m_txMachineState, m_currentPkt, m_queue,
                 completions, wire, halted, sent, fate>>

Due(t) == (\E d \in Dev : t \in completions[d]) \/ (\E m \in wire : m.at = t)

Pending == (\E d \in Dev : completions[d] # {}) \/ wire # {}

(* Time passes while events are pending, but never past one that is due. *)
Tick ==
  /\ halted = "no" /\ ~ Due(now)
  /\ Pending \/ now < Horizon
  /\ now' = now + 1
  /\ busy' = [d \in Dev |->
                IF m_txMachineState[d] = "BUSY" THEN busy[d] + 1 ELSE busy[d]]
  /\ UNCHANGED <<m_link, m_linkUp, devVars, wire, halted, sent, fate, readAt,
                 reading>>

Next ==
  \/ \E d \in Dev : Attach(d)
  \/ \E d \in Dev, s \in Sizes : Send(d, s)
  \/ \E d \in Dev : TransmitComplete(d)
  \/ \E m \in wire : Receive(m)
  \/ \E d \in Dev : TimeSlot(d)
  \/ Tick

Spec == Init /\ [][Next]_vars

(* Simulator::Run executes pending events until there are none. *)
Fairness ==
  /\ \A d \in Dev : WF_vars(TransmitComplete(d))
  /\ WF_vars(\E m \in wire : Receive(m))
  /\ WF_vars(Tick)

FairSpec == Spec /\ Fairness

-----------------------------------------------------------------------------
Queued(d) == {m_queue[d].m_packets[i] : i \in 1 .. Len(m_queue[d].m_packets)}
InFlight == {m.pkt : m \in wire}
Arrived == fate.delivered \cup fate.corrupted

Flight == [pkt : Packet, dst : Dev, at : Nat]

(* Every variable holds a value of the C++ type it stands for; in          *)
(* particular no counter of a device's queue leaves the range of uint32_t. *)
TypeOK ==
  /\ now \in Nat /\ sent \in Nat
  /\ m_link \in Seq(Dev)
  /\ m_linkUp \in [Dev -> BOOLEAN]
  /\ m_txMachineState \in [Dev -> {"READY", "BUSY"}]
  /\ m_currentPkt \in [Dev -> Packet \cup {NoPkt}]
  /\ m_queue \in [Dev -> QueueOf(Packet)]
  /\ m_history \in [Dev -> [up_duration : Nat, start_tx : Nat, was_down : BOOLEAN]]
  /\ completions \in [Dev -> SUBSET Nat]
  /\ wire \subseteq Flight
  /\ halted \in {"no", "channel", "device", "queue", "remote"}
  /\ fate \in [dropped : SUBSET Packet, delivered : SUBSET Packet,
               corrupted : SUBSET Packet]
  /\ busy \in [Dev -> Nat] /\ readAt \in [Dev -> Nat] /\ reading \in [Dev -> Nat]

(* The transmitter's three pieces of state agree while the program runs: a *)
(* device is BUSY exactly when it holds a packet, exactly when one         *)
(* completion event is pending (due, if not now, later), and exactly when  *)
(* the usage history has a slot open.  TransmitStart and TransmitComplete  *)
(* change them at different places.                                        *)
TransmitterConsistent ==
  halted = "no" => \A d \in Dev :
    /\ m_txMachineState[d] = "BUSY" <=> m_currentPkt[d] # NoPkt
    /\ m_txMachineState[d] = "BUSY" <=> ~ m_history[d].was_down
    /\ m_txMachineState[d] = "BUSY" =>
         \E t \in completions[d] : t >= now /\ completions[d] = {t}
    /\ m_txMachineState[d] = "READY" => completions[d] = {}

(* No packet is stranded: a packet waits in the queue only while a         *)
(* completion event, which will take it out, is pending.                   *)
NothingStranded ==
  halted = "no" => \A d \in Dev :
    m_queue[d].m_packets # << >> => completions[d] # {}

(* Once the channel has both devices, no NS_ASSERT of the device, of the   *)
(* channel or of the queue ever fails, whatever the interleaving of sends, *)
(* completions, arrivals and readings.                                     *)
NoAssertionFails == halted # "no" => halted = "channel" /\ ~ Attached

(* The usage history is exact: what a reading at this instant would return *)
(* is the time the transmitter was BUSY since the last one, which is never *)
(* more than the time elapsed; so a link is never reported above its rate. *)
UsageAccurate ==
  halted = "no" => \A d \in Dev :
    LET h == m_history[d] IN
    /\ h.up_duration + (IF h.was_down THEN 0 ELSE now - h.start_tx) = busy[d]
    /\ busy[d] <= now - readAt[d]

(* A reading returns the busy time of its slot: time that was reported     *)
(* once is not reported again, and none is left out, when a reading falls  *)
(* in the middle of a transmission.                                        *)
ReadingExact ==
  [][\A d \in Dev : TimeSlot(d) => reading'[d] = busy[d]]_vars

(* The link is first in, first out in each direction, from the order of    *)
(* Send calls to the order of arrival: nothing in flight was sent before a *)
(* packet that arrived, nor anything in the queue before one in flight.    *)
(* The channel keeps no order of its own: it relies on the device spacing  *)
(* its transmissions.                                                      *)
NoOvertaking ==
  /\ \A p \in Arrived, r \in InFlight : p.src = r.src => p.uid < r.uid
  /\ \A p \in Arrived \cup InFlight :
       \A i \in 1 .. Len(m_queue[p.src].m_packets) :
         p.uid < m_queue[p.src].m_packets[i].uid

(* Conservation: every packet offered to a device is, once, dropped,       *)
(* queued, in flight, delivered or corrupted, while the program runs.      *)
Conservation ==
  halted = "no" =>
    LET places == <<fate.dropped, fate.delivered, fate.corrupted, InFlight>>
                  \o <<UNION {Queued(d) : d \in Dev}>>
        Uids(S) == {p.uid : p \in S}
    IN /\ UNION {Uids(places[i]) : i \in 1 .. 5} = 0 .. sent - 1
       /\ \A i, j \in 1 .. 5 : i # j => Uids(places[i]) \cap Uids(places[j]) = {}

(* Every packet a device accepted reaches the other end or the error model *)
(* (Simulator::Run executes every pending event).                          *)
AcceptedArrives ==
  \A n \in 0 .. MaxSends - 1 :
    (\E p \in InFlight \cup UNION {Queued(d) : d \in Dev} : p.uid = n)
      ~> (\E p \in Arrived : p.uid = n)

-----------------------------------------------------------------------------
(* The inductive invariant of the proofs: what the properties above need   *)
(* beside themselves.                                                      *)

(* The limit of the queues leaves their counters room for one packet more. *)
LimitFits ==
  IF MaxSize.unit = "PACKETS" THEN MaxSize.value < UINT32 - 1
  ELSE \A s \in Sizes : MaxSize.value + s < UINT32

QueueSound ==
  LimitFits /\ \A d \in Dev : SoundQueue(m_queue[d], Packet) /\ m_queue[d].m_maxSize = MaxSize

(* Packets are numbered in the order of Send, and queued in that order.    *)
Numbered ==
  /\ \A p \in Arrived \cup InFlight : p.uid < sent
  /\ \A d \in Dev : \A i \in 1 .. Len(m_queue[d].m_packets) :
       /\ m_queue[d].m_packets[i].src = d
       /\ m_queue[d].m_packets[i].uid < sent
       /\ \A j \in 1 .. Len(m_queue[d].m_packets) :
            i < j => m_queue[d].m_packets[i].uid < m_queue[d].m_packets[j].uid

(* The arrivals on the wire keep the order of their packets, and leave     *)
(* room after the last one for the next transmission.                      *)
Spaced ==
  halted = "no" =>
    /\ \A m \in wire :
         /\ m.at >= now
         /\ m_txMachineState[m.pkt.src] = "READY" => m.at <= now + Delay
         /\ \A t \in completions[m.pkt.src] : m.at <= t + Delay
    /\ \A m, n \in wire : m.pkt.src = n.pkt.src =>
         /\ m.pkt.uid < n.pkt.uid => m.at < n.at
         /\ m.pkt.uid = n.pkt.uid => m = n

(* The device and the receiver never fail an assertion; the channel fails  *)
(* its own only while one of its ends is missing.                          *)
DeviceAsserts ==
  /\ \A i, j \in 1 .. Len(m_link) : i # j => m_link[i] # m_link[j]
  /\ halted \notin {"device", "remote"}
  /\ halted = "channel" => ~ Attached
  /\ wire # {} => Attached

SlotsStarted == \A d \in Dev : m_history[d].start_tx <= now

LinkInv ==
  /\ TypeOK
  /\ QueueSound
  /\ TransmitterConsistent
  /\ NothingStranded
  /\ UsageAccurate /\ SlotsStarted
  /\ Numbered
  /\ Spaced
  /\ NoOvertaking
  /\ DeviceAsserts
=============================================================================
