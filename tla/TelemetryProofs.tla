--------------------------- MODULE TelemetryProofs ---------------------------
(***************************************************************************)
(* Where the readings of the links are defined, how two readers share the  *)
(* usage history and what the drop counters count, for every size of the   *)
(* fabric, every traffic and every period of the readers.                  *)
(***************************************************************************)
EXTENDS Telemetry, TLAPS

(* The numbers the options and the clock are made of. *)
LEMMA Numbers ==
  /\ TxTime \in Nat /\ TxTime > 0 /\ Second \in Nat /\ Second > 0
  /\ StepTime \in Nat /\ StepTime > 0 /\ QueueMax \in Nat /\ QueueMax > 0
  /\ MaxPackets \in Nat /\ SimTime \in Nat /\ UINT32 \in Nat
  BY TelemetryAssumption

(* The fabric has spines and leaves, and its size is below the indices'    *)
(* range.                                                                  *)
LEMMA FabricSize ==
  ASSUME <<spineCount, leafCount>> \in Options
  PROVE  /\ spineCount \in Nat /\ spineCount > 0 /\ leafCount \in Nat /\ leafCount > 0
         /\ spineCount + leafCount + 2 <= UINT32
  <1> DEFINE o == <<spineCount, leafCount>>
  <1>1. o \in (Nat \ {0}) \X (Nat \ {0}) /\ o[1] + o[2] + 2 <= UINT32
    BY TelemetryAssumption
  <1> QED
    BY <1>1

(* The size of the tables, in globals.h's numbers. *)
LEMMA Tables ==
  /\ SpineCells = (0 .. 1) \X (0 .. 3) /\ LeafCells = (0 .. 3) \X (0 .. 1)
  /\ \A s, l : <<s, l>> \in SpineCells <=> s \in 0 .. 1 /\ l \in 0 .. 3
  /\ \A s, l : <<s, l>> \in LeafCells <=> s \in 0 .. 3 /\ l \in 0 .. 1
  <1>1. DefaultSpines - 1 = 1 /\ DefaultLeaves - 1 = 3
    BY DEF DefaultSpines, DefaultLeaves
  <1> QED
    BY <1>1 DEF SpineCells, LeafCells

(* A remainder of a number that is in range, or just below zero. *)
LEMMA Remainders ==
  ASSUME NEW n \in Nat, n > 0
  PROVE  /\ \A k \in 0 .. n - 1 : k % n = k
         /\ (-1) % n = n - 1
  OBVIOUS

(* GetData (OutOfRange) stays inside its vectors in the fabrics that fit,  *)
(* and in no other, be it the default one.                                 *)
THEOREM RangeOfGetData ==
  ASSUME <<spineCount, leafCount>> \in Options
  PROVE  OutOfRange <=> ~Fits
  <1>1. /\ spineCount \in Nat /\ spineCount > 0 /\ leafCount \in Nat /\ leafCount > 0
        /\ spineCount + leafCount + 2 <= UINT32 /\ UINT32 \in Nat
    BY FabricSize, Numbers
  <1>2. ASSUME Fits PROVE ~ OutOfRange
    <2>1. spineCount = 2 /\ leafCount \in 1 .. 2
      BY <1>1, <1>2 DEF Fits
    <2>2. \A i \in spineCount .. spineCount + leafCount - 1 : LeafIndex(i) \in 0 .. leafCount - 1
      BY <1>1, <2>1, Remainders DEF LeafIndex
    <2>3. \A v \in LeafVisits : \E j \in 0 .. 1, l \in 0 .. leafCount - 1 : v = <<j, l>>
      BY <2>1, <2>2 DEF LeafVisits
    <2>4. LeafVisits \subseteq LeafCells
      BY <2>1, <2>3, Tables
    <2>5. SpineVisits \subseteq SpineCells
      BY <2>1, Tables DEF SpineVisits
    <2>6. \A v \in LeafVisits : <<"up", v[1], v[2]>> \in Devices
      BY <2>1, <2>3 DEF Devices, Links
    <2> QED
      BY <2>4, <2>5, <2>6 DEF OutOfRange
  <1>3. ASSUME ~ Fits PROVE OutOfRange
    <2>1. CASE spineCount > 2
      <3>1. <<2, 0>> \in SpineVisits /\ <<2, 0>> \notin SpineCells
        BY <1>1, <2>1, Tables DEF SpineVisits
      <3> QED
        BY <3>1 DEF OutOfRange
    <2>2. CASE spineCount = 1
      <3>1. LeafIndex(1) = UINT32 - 1
        BY <1>1, Remainders DEF LeafIndex
      <3>2. <<0, LeafIndex(1)>> \in LeafVisits
        BY <1>1, <2>2 DEF LeafVisits
      <3>3. <<0, LeafIndex(1)>> \notin LeafCells
        BY <1>1, <2>2, <3>1, Tables
      <3> QED
        BY <3>2, <3>3 DEF OutOfRange
    <2>3. CASE spineCount = 2 /\ leafCount > 2
      <3>1. LeafIndex(4) = 2
        BY <1>1, <2>3, Remainders DEF LeafIndex
      <3>2. <<0, LeafIndex(4)>> \in LeafVisits
        BY <1>1, <2>3 DEF LeafVisits
      <3>3. <<0, LeafIndex(4)>> \notin LeafCells
        BY <3>1, Tables
      <3> QED
        BY <3>2, <3>3 DEF OutOfRange
    <2> QED
      BY <1>1, <1>3, <2>1, <2>2, <2>3 DEF Fits
  <1> QED
    BY <1>2, <1>3

-----------------------------------------------------------------------------
(* The invariants together: none of them can do without the others.        *)
TelemetryInv == ReadingsDefined /\ SlotsShared /\ DropsCumulative

DeviceState == [len : 0 .. QueueMax, dropped : Nat, left : 0 .. TxTime,
                sending : BOOLEAN, used : Nat]

(* The devices of a fabric, by their parts. *)
LEMMA DeviceParts ==
  ASSUME <<spineCount, leafCount>> \in Options
  PROVE  /\ \A x \in {"down", "up"}, s \in 0 .. spineCount - 1, l \in 0 .. leafCount - 1 :
              <<x, s, l>> \in Devices
         /\ \A d \in Devices : d[1] # "server" =>
              /\ d = <<d[1], d[2], d[3]>> /\ d[1] \in {"down", "up"}
              /\ d[2] \in 0 .. spineCount - 1 /\ d[3] \in 0 .. leafCount - 1
  BY DEF Devices, Links, ServerLinks

(* The state of a device with some of its fields replaced. *)
LEMMA DeviceUpdates ==
  ASSUME NEW r \in DeviceState
  PROVE  /\ \A t \in 0 .. TxTime : [r EXCEPT !.sending = TRUE, !.left = t] \in DeviceState
         /\ [r EXCEPT !.sending = FALSE] \in DeviceState
         /\ \A n \in 0 .. QueueMax, t \in 0 .. TxTime :
              [r EXCEPT !.len = n, !.left = t] \in DeviceState
         /\ [r EXCEPT !.used = 0] \in DeviceState
  BY DEF DeviceState

(* One tick of a transmission. *)
LEMMA DeviceTicks ==
  ASSUME NEW r \in DeviceState, r.left > 0
  PROVE  LET q == [r EXCEPT !.left = @ - 1, !.used = @ + 1]
         IN  /\ q \in DeviceState /\ q.dropped = r.dropped /\ q.sending = r.sending
             /\ q.len = r.len /\ q.used = r.used + 1
  <1> DEFINE t == r.left - 1
             k == r.used + 1
  <1>1. t \in 0 .. TxTime /\ k \in Nat
    BY Numbers DEF DeviceState
  <1>2. [r EXCEPT !.left = @ - 1, !.used = @ + 1] = [r EXCEPT !.left = t, !.used = k]
    BY DEF DeviceState
  <1> HIDE DEF t, k
  <1>3. /\ [r EXCEPT !.left = t, !.used = k] \in DeviceState
        /\ [r EXCEPT !.left = t, !.used = k].dropped = r.dropped
        /\ [r EXCEPT !.left = t, !.used = k].sending = r.sending
        /\ [r EXCEPT !.left = t, !.used = k].len = r.len
        /\ [r EXCEPT !.left = t, !.used = k].used = k
    BY <1>1 DEF DeviceState
  <1> QED
    BY <1>2, <1>3 DEF k

(* What TypeOK says of the sizes. *)
LEMMA SizeFacts ==
  ASSUME TypeOK
  PROVE  /\ <<spineCount, leafCount>> \in Options
         /\ spineCount \in Nat /\ spineCount > 0 /\ leafCount \in Nat /\ leafCount > 0
  BY FabricSize DEF TypeOK

(* And of the clock. *)
LEMMA ClockFacts ==
  ASSUME TypeOK
  PROVE  /\ now \in Nat /\ now <= SimTime
         /\ nextStats \in Nat /\ now <= nextStats /\ nextStats <= now + Second
         /\ env => nextStep \in Nat /\ now <= nextStep /\ nextStep <= now + StepTime
  <1>1. now \in 0 .. SimTime /\ nextStats \in now .. now + Second
    BY DEF TypeOK
  <1>2. env => nextStep \in now .. now + StepTime
    BY DEF TypeOK
  <1> QED
    BY <1>1, <1>2, Numbers

(* Nothing has been sent, dropped or read. *)
LEMMA InitInv == Init => TelemetryInv
  <1> SUFFICES ASSUME Init PROVE TelemetryInv
    OBVIOUS
  <1>1. <<spineCount, leafCount>> \in Options
    <2>1. PICK o \in Options : spineCount = o[1] /\ leafCount = o[2]
      BY DEF Init
    <2>2. o = <<o[1], o[2]>>
      BY TelemetryAssumption
    <2> QED
      BY <2>1, <2>2
  <1>2. Idle \in DeviceState /\ Idle.len = 0 /\ Idle.used = 0 /\ Idle.dropped = 0
    BY Numbers DEF Idle, DeviceState
  <1>3. Cell \in [drops : Nat, size : Nat, used : Nat] /\ Cell.drops = 0 /\ Cell.used = 0
    BY DEF Cell
  <1>4. m_path_drops \in [SpineCells -> Nat]
    BY DEF Init
  <1>5. obs \in [SpineCells -> Nat] /\ obs = m_path_drops
    BY <1>4 DEF Init
  <1>6. env \in BOOLEAN /\ undefined \in BOOLEAN /\ failed \in BOOLEAN /\ ~undefined /\ ~failed
    BY Zenon DEF Init
  <1>7. dev \in [Devices -> DeviceState]
    BY <1>2 DEF Init
  <1>8. /\ offered \in [Devices -> Nat] /\ busy \in [Devices -> Nat]
        /\ lastHop \in [0 .. leafCount - 1 -> Nat]
        /\ slots \in [Reader -> [Devices -> Nat]]
    BY DEF Init
  <1>9. /\ m_spines \in [SpineCells -> [drops : Nat, size : Nat, used : Nat]]
        /\ m_leaves \in [LeafCells -> [drops : Nat, size : Nat, used : Nat]]
    BY <1>3 DEF Init
  <1>10. /\ now \in 0 .. SimTime /\ nextStats \in now .. now + Second
         /\ nextStep \in now .. now + StepTime
    BY Numbers DEF Init
  <1>11. \A d \in Devices : dev[d].len > 0 => dev[d].sending
    BY <1>2 DEF Init
  <1>12. TypeOK
    BY <1>1, <1>4, <1>5, <1>6, <1>7, <1>8, <1>9, <1>10, <1>11 DEF TypeOK, DeviceState
  <1>14. ReadingsDefined
    BY <1>6, <1>12 DEF ReadingsDefined
  <1>15. \A d \in Devices : /\ dev[d] = Idle /\ busy[d] = 0
                            /\ slots["stats"][d] = 0 /\ slots["env"][d] = 0
    BY DEF Init, Reader
  <1>16. SlotsShared
    BY <1>2, <1>15 DEF SlotsShared
  <1>17. DropsCumulative
    <2> SUFFICES ASSUME Fits, NEW l \in 0 .. leafCount - 1
                 PROVE  /\ DropsCounted(l)
                        /\ \A s \in 0 .. 1 :
                             /\ obs[<<s, l>>] <= m_path_drops[<<s, l>>]
                             /\ Shows(m_spines[<<s, l>>], <<"down", s, l>>)
                             /\ Shows(m_leaves[<<s, l>>], <<"up", s, l>>)
      BY DEF DropsCumulative
    <2>1. spineCount = 2 /\ leafCount \in 1 .. 2 /\ l \in 0 .. 1
      BY <1>1, FabricSize DEF Fits
    <2>2. \A s \in 0 .. 1 : <<s, l>> \in SpineCells /\ <<s, l>> \in LeafCells
      BY <2>1, Tables
    <2>3. \A d \in Devices : Dropped(d) = 0
      BY <1>2, <1>15 DEF Dropped
    <2>4. \A d : Dropped(d) = 0
      BY <2>3 DEF Dropped
    <2>5. \A s \in 0 .. 1 : /\ m_path_drops[<<s, l>>] = 0 /\ obs[<<s, l>>] = 0
                            /\ m_spines[<<s, l>>] = Cell /\ m_leaves[<<s, l>>] = Cell
      BY <1>5, <2>2 DEF Init
    <2>6. \A s \in 0 .. 1 : <<"down", s, l>> \in Devices /\ <<"up", s, l>> \in Devices
      BY <1>1, <2>1, DeviceParts
    <2>7. lastHop[l] = 0
      BY DEF Init
    <2> QED
      BY <1>2, <1>3, <1>15, <2>4, <2>5, <2>6, <2>7 DEF DropsCounted, Shows
  <1> QED
    BY <1>14, <1>16, <1>17 DEF TelemetryInv

-----------------------------------------------------------------------------
(* What the drop counters show stays true while no drop is counted and no  *)
(* table is written.                                                       *)
LEMMA DropsKept ==
  ASSUME TypeOK, DropsCumulative, UNCHANGED <<options, slots, m_path_drops, lastHop, obs, m_spines, m_leaves>>,
         \A d \in Devices : dev'[d].dropped = dev[d].dropped
  PROVE  DropsCumulative'
  <1>1. Devices' = Devices /\ (Fits' <=> Fits)
    BY DEF options, Devices, Links, ServerLinks, Fits
  <1>2. \A d : Dropped(d)' = Dropped(d)
    BY <1>1 DEF Dropped
  <1>3. \A f : DropsCounted(f)' <=> DropsCounted(f)
    BY <1>2 DEF DropsCounted
  <1>4. Fits => \A s \in 0 .. 1, l \in 0 .. leafCount - 1 :
          <<"down", s, l>> \in Devices /\ <<"up", s, l>> \in Devices
    BY DeviceParts DEF TypeOK, Fits
  <1> QED
    BY <1>1, <1>3, <1>4 DEF DropsCumulative, Shows, options

(* Devices move, and nobody reads. *)
LEMMA DevicesMove ==
  ASSUME TelemetryInv, ~undefined,
         UNCHANGED <<options, readers, m_path_drops, lastHop, undefined>>,
         dev' \in [Devices -> DeviceState], busy' \in [Devices -> Nat],
         offered' \in [Devices -> Nat], now' \in now .. SimTime,
         now' <= nextStats, env => now' <= nextStep,
         \A d \in Devices : /\ dev'[d].dropped = dev[d].dropped
                            /\ dev'[d].len > 0 => dev'[d].sending
                            /\ dev'[d].used - dev[d].used = busy'[d] - busy[d]
  PROVE  TelemetryInv'
  <1>1. TypeOK /\ ReadingsDefined /\ SlotsShared /\ DropsCumulative
    BY DEF TelemetryInv, ReadingsDefined
  <1>2. Devices' = Devices /\ (Fits' <=> Fits)
    BY DEF options, Devices, Links, ServerLinks, Fits
  <1>3. UNCHANGED <<spineCount, leafCount, env, m_spines, m_leaves, nextStats, nextStep, obs, slots,
                    failed>>
    BY DEF options, readers
  <1>4. /\ now' \in 0 .. SimTime /\ nextStats' \in now' .. now' + Second
        /\ env' => nextStep' \in now' .. now' + StepTime
    BY <1>1, <1>3, ClockFacts, Numbers
  <1>5. TypeOK'
    BY <1>1, <1>2, <1>3, <1>4 DEF TypeOK, DeviceState
  <1>6. ReadingsDefined'
    BY <1>1, <1>2, <1>3, <1>5 DEF ReadingsDefined
  <1>7. SlotsShared'
    <2> SUFFICES ASSUME NEW d \in Devices
                 PROVE  slots["stats"][d] + slots["env"][d] + dev'[d].used = busy'[d]
      BY <1>2, <1>3 DEF SlotsShared
    <2>1. /\ slots["stats"][d] \in Nat /\ slots["env"][d] \in Nat /\ dev[d].used \in Nat
          /\ busy[d] \in Nat /\ dev'[d].used \in Nat /\ busy'[d] \in Nat
      BY <1>1 DEF TypeOK, Reader, DeviceState
    <2>2. slots["stats"][d] + slots["env"][d] + dev[d].used = busy[d]
      BY <1>1 DEF SlotsShared
    <2> QED
      BY <2>1, <2>2
  <1>8. DropsCumulative'
    BY <1>1, <1>3, DropsKept
  <1> QED
    BY <1>6, <1>7, <1>8 DEF TelemetryInv

(* The same in no time. *)
LEMMA StandStill ==
  ASSUME TelemetryInv, Running,
         UNCHANGED <<options, now, readers, m_path_drops, lastHop, undefined, busy>>,
         dev' \in [Devices -> DeviceState], offered' \in [Devices -> Nat],
         \A d \in Devices : /\ dev'[d].dropped = dev[d].dropped /\ dev'[d].used = dev[d].used
                            /\ dev'[d].len > 0 => dev'[d].sending
  PROVE  TelemetryInv'
  <1>1. TypeOK
    BY DEF TelemetryInv, ReadingsDefined
  <1>2. /\ busy' \in [Devices -> Nat] /\ now' \in now .. SimTime /\ now' <= nextStats
        /\ env => now' <= nextStep
    BY <1>1, Numbers DEF TypeOK
  <1>3. \A d \in Devices : dev'[d].used - dev[d].used = busy'[d] - busy[d]
    BY <1>1 DEF TypeOK, DeviceState
  <1>4. ~undefined
    BY DEF Running
  <1> QED
    BY <1>2, <1>3, <1>4, DevicesMove

(* A transmission ends, the next may begin. *)
LEMMA TransmitCompleteInv ==
  ASSUME TelemetryInv, NEW d \in Devices, TransmitComplete(d)
  PROVE  TelemetryInv'
  <1>1. /\ Running /\ dev[d].sending /\ dev[d].left = 0
        /\ dev' = IF dev[d].len = 0
                  THEN [dev EXCEPT ![d].sending = FALSE]
                  ELSE [dev EXCEPT ![d].len = @ - 1, ![d].left = TxTime]
        /\ UNCHANGED <<options, now, readers, undefined, offered, busy, m_path_drops, lastHop>>
    BY DEF TransmitComplete
  <1>2. TypeOK /\ dev \in [Devices -> DeviceState]
    BY DEF TelemetryInv, ReadingsDefined, TypeOK, DeviceState
  <1>3. dev' \in [Devices -> DeviceState]
    <2>1. dev[d] \in DeviceState /\ dev[d].len \in 0 .. QueueMax
      BY <1>2 DEF DeviceState
    <2>2. CASE dev[d].len = 0
      <3>1. [dev[d] EXCEPT !.sending = FALSE] \in DeviceState
        BY <2>1, DeviceUpdates
      <3> QED
        BY <1>1, <1>2, <2>2, <3>1
    <2>3. CASE dev[d].len # 0
      <3>1. dev[d].len - 1 \in 0 .. QueueMax /\ TxTime \in 0 .. TxTime
        BY <2>1, <2>3, Numbers
      <3>2. [dev[d] EXCEPT !.len = dev[d].len - 1, !.left = TxTime] \in DeviceState
        BY <2>1, <3>1, DeviceUpdates
      <3> QED
        BY <1>1, <1>2, <2>3, <3>2
    <2> QED
      BY <2>2, <2>3
  <1>4. \A e \in Devices : /\ dev'[e].dropped = dev[e].dropped /\ dev'[e].used = dev[e].used
                           /\ dev'[e].len > 0 => dev'[e].sending
    BY <1>1, <1>2 DEF TypeOK, DeviceState
  <1> QED
    <2>1. offered' \in [Devices -> Nat]
      BY <1>1, <1>2 DEF TypeOK
    <2> QED
      BY <1>1, <1>3, <1>4, <2>1, StandStill

(* A device takes a packet, or drops it and a path is blamed. *)
LEMMA SendInv ==
  ASSUME TelemetryInv, NEW d \in Devices, NEW from \in 0 .. leafCount - 1, Send(d, from)
  PROVE  TelemetryInv'
  <1>1. /\ Running /\ offered' = [offered EXCEPT ![d] = @ + 1]
        /\ UNCHANGED <<options, now, readers, busy>>
    BY DEF Send
  <1>2. TypeOK /\ dev \in [Devices -> DeviceState]
    BY DEF TelemetryInv, ReadingsDefined, TypeOK, DeviceState
  <1>3. offered' \in [Devices -> Nat]
    BY <1>1, <1>2 DEF TypeOK
  <1>4. CASE /\ ~dev[d].sending
             /\ dev' = [dev EXCEPT ![d].sending = TRUE, ![d].left = TxTime]
             /\ UNCHANGED <<m_path_drops, lastHop, undefined>>
    <2>1. dev' \in [Devices -> DeviceState]
      <3>1. TxTime \in 0 .. TxTime /\ dev[d] \in DeviceState
        BY <1>2, Numbers
      <3>2. [dev[d] EXCEPT !.sending = TRUE, !.left = TxTime] \in DeviceState
        BY <3>1, DeviceUpdates
      <3> QED
        BY <1>2, <1>4, <3>2
    <2>2. \A e \in Devices : /\ dev'[e].dropped = dev[e].dropped /\ dev'[e].used = dev[e].used
                             /\ dev'[e].len > 0 => dev'[e].sending
      BY <1>2, <1>4 DEF TypeOK, DeviceState
    <2> QED
      BY <1>1, <1>3, <1>4, <2>1, <2>2, StandStill
  <1>5. CASE /\ dev[d].sending /\ dev[d].len < QueueMax
             /\ dev' = [dev EXCEPT ![d].len = @ + 1]
             /\ UNCHANGED <<m_path_drops, lastHop, undefined>>
    <2>1. dev' \in [Devices -> DeviceState]
      BY <1>2, <1>5, Numbers DEF DeviceState
    <2>2. \A e \in Devices : /\ dev'[e].dropped = dev[e].dropped /\ dev'[e].used = dev[e].used
                             /\ dev'[e].len > 0 => dev'[e].sending
      BY <1>2, <1>5 DEF TypeOK, DeviceState
    <2> QED
      BY <1>1, <1>3, <1>5, <2>1, <2>2, StandStill
  <1>6. CASE /\ dev[d].sending /\ dev[d].len = QueueMax
             /\ dev' = [dev EXCEPT ![d].dropped = @ + 1]
             /\ undefined' = (Traced(d, from) /\ Blamed(from) \notin DOMAIN m_path_drops)
             /\ m_path_drops' = [c \in DOMAIN m_path_drops |-> m_path_drops[c] +
                                   IF Traced(d, from) /\ c = Blamed(from) THEN 1 ELSE 0]
             /\ lastHop' = [f \in DOMAIN lastHop |-> lastHop[f] +
                              IF d[1] = "server" /\ f = from /\ f # d[2] THEN 1 ELSE 0]
    <2>1. ReadingsDefined /\ SlotsShared /\ DropsCumulative /\ ~undefined /\ ~failed
      BY <1>1 DEF TelemetryInv, Running
    <2>2. Devices' = Devices /\ (Fits' <=> Fits)
      BY <1>1 DEF options, Devices, Links, ServerLinks, Fits
    <2>3. UNCHANGED <<spineCount, leafCount, env, now, m_spines, m_leaves, nextStats, nextStep, obs,
                      slots, failed, busy>>
      BY <1>1 DEF options, readers
    <2>4. dev' \in [Devices -> DeviceState]
      BY <1>2, <1>6 DEF DeviceState
    <2>5. \A e \in Devices : /\ dev'[e].used = dev[e].used
                             /\ dev'[e].dropped = dev[e].dropped + IF e = d THEN 1 ELSE 0
                             /\ dev'[e].len > 0 => dev'[e].sending
      BY <1>2, <1>6 DEF TypeOK, DeviceState
    <2>6. m_path_drops' \in [SpineCells -> Nat] /\ lastHop' \in [0 .. leafCount - 1 -> Nat]
      <3> DEFINE a(c) == IF Traced(d, from) /\ c = Blamed(from) THEN 1 ELSE 0
                 g(f) == IF d[1] = "server" /\ f = from /\ f # d[2] THEN 1 ELSE 0
      <3>1. /\ m_path_drops \in [SpineCells -> Nat] /\ lastHop \in [0 .. leafCount - 1 -> Nat]
            /\ m_path_drops' = [c \in SpineCells |-> m_path_drops[c] + a(c)]
            /\ lastHop' = [f \in 0 .. leafCount - 1 |-> lastHop[f] + g(f)]
        BY <1>2, <1>6 DEF TypeOK
      <3>2. (\A c : a(c) \in Nat) /\ (\A f : g(f) \in Nat)
        OBVIOUS
      <3> HIDE DEF a, g
      <3> QED
        BY <3>1, <3>2
    <2>7. undefined' \in BOOLEAN
      <3>1. (Traced(d, from) /\ Blamed(from) \notin DOMAIN m_path_drops) \in BOOLEAN
        BY Zenon DEF Traced
      <3> QED
        BY <1>6, <3>1, Zenon
    <2>8. TypeOK'
      BY <1>2, <1>3, <2>2, <2>3, <2>4, <2>5, <2>6, <2>7 DEF TypeOK, DeviceState
    <2>9. ASSUME Fits
          PROVE  /\ ~undefined' /\ from \in 0 .. 1 /\ spineCount = 2
                 /\ Traced(d, from) <=> Crosses(d, from)
                 /\ d[1] # "server" => /\ d = <<d[1], d[2], d[3]>> /\ d[2] \in 0 .. 1
                                       /\ \/ d[1] = "up" /\ d[3] = from
                                          \/ d[1] = "down" /\ d[3] = 1 - from
      <3>1. spineCount = 2 /\ leafCount \in 1 .. 2 /\ from \in 0 .. 1
        BY <1>2, <2>9, SizeFacts DEF Fits
      <3>2. DOMAIN m_path_drops = SpineCells /\ Blamed(from) \in SpineCells
        BY <1>2, <3>1, Tables DEF Blamed, TypeOK
      <3>3. d[1] # "server" => /\ d = <<d[1], d[2], d[3]>> /\ d[1] \in {"down", "up"}
                               /\ d[2] \in 0 .. 1 /\ d[3] \in 0 .. 1
        BY <1>2, <3>1, SizeFacts, DeviceParts
      <3>4. (d[1] = "up" => from = d[3]) /\ (d[1] = "down" => from # d[3])
        BY DEF Send, Carries
      <3> QED
        <4>1. ~undefined'
          BY <1>6, <3>2
        <4>2. Traced(d, from) <=> Crosses(d, from)
          BY <3>1 DEF Traced
        <4> QED
          BY <3>1, <3>3, <3>4, <4>1, <4>2
    <2>10. ReadingsDefined'
      BY <2>1, <2>2, <2>3, <2>8, <2>9 DEF ReadingsDefined
    <2>11. SlotsShared'
      BY <2>1, <2>2, <2>3, <2>5 DEF SlotsShared
    <2>12. DropsCumulative'
      <3> SUFFICES ASSUME Fits, NEW l \in 0 .. leafCount - 1
                   PROVE  /\ DropsCounted(l)'
                          /\ \A s \in 0 .. 1 :
                               /\ obs[<<s, l>>] <= m_path_drops'[<<s, l>>]
                               /\ Shows(m_spines[<<s, l>>], <<"down", s, l>>)'
                               /\ Shows(m_leaves[<<s, l>>], <<"up", s, l>>)'
        BY <2>2, <2>3 DEF DropsCumulative
      <3>1. /\ DropsCounted(l)
            /\ \A s \in 0 .. 1 :
                 /\ obs[<<s, l>>] <= m_path_drops[<<s, l>>]
                 /\ Shows(m_spines[<<s, l>>], <<"down", s, l>>)
                 /\ Shows(m_leaves[<<s, l>>], <<"up", s, l>>)
        BY <2>1 DEF DropsCumulative
      <3>2. spineCount = 2 /\ leafCount \in 1 .. 2 /\ l \in 0 .. 1
        BY <1>2, SizeFacts DEF Fits
      <3>3. \A s \in 0 .. 1 : <<s, l>> \in SpineCells /\ <<s, l>> \in LeafCells
        BY <3>2, Tables
      <3> DEFINE t == IF Crosses(d, from) /\ l = from THEN 1 ELSE 0
      <3>4. \A s \in 0 .. 1 : /\ m_path_drops[<<s, l>>] \in Nat
                              /\ m_path_drops'[<<s, l>>]
                                   = m_path_drops[<<s, l>>] + IF s = 0 THEN t ELSE 0
        <4> SUFFICES ASSUME NEW s \in 0 .. 1
                     PROVE  /\ m_path_drops[<<s, l>>] \in Nat
                            /\ m_path_drops'[<<s, l>>]
                                  = m_path_drops[<<s, l>>] + IF s = 0 THEN t ELSE 0
          OBVIOUS
        <4>1. m_path_drops \in [SpineCells -> Nat] /\ <<s, l>> \in SpineCells
          BY <1>2, <3>3 DEF TypeOK
        <4>2. <<s, l>> = Blamed(from) <=> s = 0 /\ l = from
          BY DEF Blamed
        <4>3. m_path_drops'[<<s, l>>] = m_path_drops[<<s, l>>] +
                IF Traced(d, from) /\ <<s, l>> = Blamed(from) THEN 1 ELSE 0
          BY <1>6, <4>1
        <4> QED
          BY <2>9, <4>1, <4>2, <4>3
      <3>5. \A e : Dropped(e)' = Dropped(e) + IF e = d THEN 1 ELSE 0
        BY <1>2, <2>2, <2>5 DEF Dropped, DeviceState
      <3>6. \A e : Dropped(e) \in Nat
        BY <1>2 DEF Dropped, DeviceState
      <3>7. DropsCounted(l)'
        <4> DEFINE n(e) == IF e = d THEN 1 ELSE 0
                   h == IF d[1] = "server" /\ l = from /\ l # d[2] THEN 1 ELSE 0
        <4>1. n(<<"up", 0, l>>) + n(<<"up", 1, l>>) + n(<<"down", 0, 1 - l>>)
                + n(<<"down", 1, 1 - l>>) + h = t
          <5>1. CASE d[1] = "server"
            <6>1. n(<<"up", 0, l>>) = 0 /\ n(<<"up", 1, l>>) = 0
                  /\ n(<<"down", 0, 1 - l>>) = 0 /\ n(<<"down", 1, 1 - l>>) = 0
              BY <5>1
            <6>2. h = t
              BY <5>1 DEF Crosses
            <6> HIDE DEF n, h, t
            <6>3. h \in Nat
              BY DEF h
            <6> QED
              BY <6>1, <6>2, <6>3
          <5>2. CASE d[1] = "up"
            <6>1. d = <<"up", d[2], from>> /\ d[2] \in 0 .. 1 /\ from \in 0 .. 1
              BY <2>9, <5>2
            <6>2. h = 0 /\ t = IF l = from THEN 1 ELSE 0
              BY <5>2 DEF Crosses
            <6>3. n(<<"down", 0, 1 - l>>) = 0 /\ n(<<"down", 1, 1 - l>>) = 0
              BY <5>2
            <6>4. n(<<"up", 0, l>>) + n(<<"up", 1, l>>) = IF l = from THEN 1 ELSE 0
              BY <6>1
            <6>5. \A e : n(e) \in Nat
              OBVIOUS
            <6> HIDE DEF n, h, t
            <6> QED
              BY <6>2, <6>3, <6>4, <6>5
          <5>3. CASE d[1] = "down"
            <6>1. d = <<"down", d[2], 1 - from>> /\ d[2] \in 0 .. 1 /\ from \in 0 .. 1
              BY <2>9, <5>3
            <6>2. h = 0 /\ t = IF l = from THEN 1 ELSE 0
              BY <5>3 DEF Crosses
            <6>3. n(<<"up", 0, l>>) = 0 /\ n(<<"up", 1, l>>) = 0
              BY <5>3
            <6>4. n(<<"down", 0, 1 - l>>) + n(<<"down", 1, 1 - l>>) = IF l = from THEN 1 ELSE 0
              BY <3>2, <6>1
            <6>5. \A e : n(e) \in Nat
              OBVIOUS
            <6> HIDE DEF n, h, t
            <6> QED
              BY <6>2, <6>3, <6>4, <6>5
          <5> QED
            BY <2>9, <5>1, <5>2, <5>3
        <4>2. lastHop[l] \in Nat /\ lastHop'[l] = lastHop[l] + h
          BY <1>2, <1>6 DEF TypeOK
        <4>3. \A e : Dropped(e)' = Dropped(e) + n(e)
          BY <3>5
        <4>4. (\A e : n(e) \in Nat) /\ h \in Nat /\ t \in Nat
          OBVIOUS
        <4>5. /\ m_path_drops'[<<0, l>>] = m_path_drops[<<0, l>>] + t
              /\ m_path_drops'[<<1, l>>] = m_path_drops[<<1, l>>] + 0
              /\ m_path_drops[<<0, l>>] \in Nat /\ m_path_drops[<<1, l>>] \in Nat
          BY <3>4
        <4> HIDE DEF n, h, t
        <4> QED
          BY <3>1, <3>6, <4>1, <4>2, <4>3, <4>4, <4>5 DEF DropsCounted
      <3>8. \A s \in 0 .. 1 :
              /\ <<"down", s, l>> \in Devices /\ <<"up", s, l>> \in Devices
              /\ obs[<<s, l>>] \in Nat
              /\ m_spines[<<s, l>>].drops \in Nat /\ m_leaves[<<s, l>>].drops \in Nat
        <4> SUFFICES ASSUME NEW s \in 0 .. 1
                     PROVE  /\ <<"down", s, l>> \in Devices /\ <<"up", s, l>> \in Devices
                            /\ obs[<<s, l>>] \in Nat
                            /\ m_spines[<<s, l>>].drops \in Nat
                            /\ m_leaves[<<s, l>>].drops \in Nat
          OBVIOUS
        <4>1. <<s, l>> \in SpineCells /\ <<s, l>> \in LeafCells
          BY <3>3
        <4>2. <<"down", s, l>> \in Devices /\ <<"up", s, l>> \in Devices
          BY <1>2, <3>2, SizeFacts, DeviceParts
        <4> QED
          BY <1>2, <4>1, <4>2 DEF TypeOK
      <3>9. \A e \in Devices : dev[e].dropped \in Nat /\ dev'[e].dropped >= dev[e].dropped
        BY <1>2, <2>5 DEF DeviceState
      <3>10. \A s \in 0 .. 1 : obs[<<s, l>>] <= m_path_drops'[<<s, l>>]
        <4> SUFFICES ASSUME NEW s \in 0 .. 1
                     PROVE  obs[<<s, l>>] <= m_path_drops'[<<s, l>>]
          OBVIOUS
        <4>1. obs[<<s, l>>] \in Nat /\ obs[<<s, l>>] <= m_path_drops[<<s, l>>]
          BY <3>1, <3>8
        <4>2. t \in Nat
          OBVIOUS
        <4> HIDE DEF t
        <4> QED
          BY <3>4, <4>1, <4>2
      <3>11. \A c, e : (Shows(c, e) /\ e \in Devices /\ c.drops \in Nat) =>
                         /\ c.drops <= dev'[e].dropped
                         /\ c.used <= slots["stats"][e] + slots["env"][e]
        <4> SUFFICES ASSUME NEW c, NEW e \in Devices, c.drops \in Nat, Shows(c, e)
                     PROVE  c.drops <= dev'[e].dropped
          BY DEF Shows
        <4>1. c.drops <= dev[e].dropped /\ dev[e].dropped \in Nat /\ dev'[e].dropped \in Nat
          BY <1>2, <2>4 DEF Shows, DeviceState
        <4> QED
          BY <3>9, <4>1
      <3>12. \A s \in 0 .. 1 : /\ Shows(m_spines[<<s, l>>], <<"down", s, l>>)'
                               /\ Shows(m_leaves[<<s, l>>], <<"up", s, l>>)'
        BY <2>3, <3>1, <3>8, <3>11 DEF Shows
      <3> QED
        BY <3>7, <3>10, <3>12
    <2> QED
      BY <2>10, <2>11, <2>12 DEF TelemetryInv
  <1> QED
    BY <1>4, <1>5, <1>6 DEF Send

(* Time passes, and no reading is due. *)
LEMMA TickInv == ASSUME TelemetryInv, Tick PROVE TelemetryInv'
  <1>1. /\ Running /\ now < nextStats /\ (env => now < nextStep)
        /\ \A d \in Devices : dev[d].sending => dev[d].left > 0
        /\ now' = now + 1
        /\ dev' = [d \in Devices |-> IF dev[d].sending
                                     THEN [dev[d] EXCEPT !.left = @ - 1, !.used = @ + 1]
                                     ELSE dev[d]]
        /\ busy' = [d \in Devices |-> busy[d] + IF dev[d].sending THEN 1 ELSE 0]
        /\ UNCHANGED <<options, readers, undefined, offered, m_path_drops, lastHop>>
    BY DEF Tick
  <1>2. TypeOK /\ dev \in [Devices -> DeviceState] /\ ~undefined /\ now < SimTime
    BY <1>1 DEF TelemetryInv, ReadingsDefined, TypeOK, DeviceState, Running
  <1>3. ASSUME NEW d \in Devices
        PROVE  /\ dev'[d] \in DeviceState /\ dev'[d].dropped = dev[d].dropped
               /\ dev'[d].len > 0 => dev'[d].sending
               /\ dev'[d].used - dev[d].used = busy'[d] - busy[d]
    <2>1. /\ dev[d] \in DeviceState /\ busy[d] \in Nat /\ dev[d].used \in Nat
          /\ dev[d].len > 0 => dev[d].sending
      BY <1>2 DEF TypeOK, DeviceState
    <2>2. CASE dev[d].sending
      <3>1. /\ dev'[d] = [dev[d] EXCEPT !.left = @ - 1, !.used = @ + 1]
            /\ busy'[d] = busy[d] + 1 /\ dev[d].left > 0
        BY <1>1, <2>2
      <3>2. /\ dev'[d] \in DeviceState /\ dev'[d].dropped = dev[d].dropped
            /\ dev'[d].sending = dev[d].sending /\ dev'[d].used = dev[d].used + 1
        BY <2>1, <3>1, DeviceTicks
      <3> QED
        BY <2>1, <2>2, <3>1, <3>2
    <2>3. CASE ~dev[d].sending
      <3>1. dev'[d] = dev[d] /\ busy'[d] = busy[d] + 0
        BY <1>1, <2>3
      <3> QED
        BY <2>1, <3>1
    <2> QED
      BY <2>2, <2>3
  <1>4. dev' \in [Devices -> DeviceState]
    BY <1>1, <1>3
  <1>5. busy' \in [Devices -> Nat] /\ offered' \in [Devices -> Nat]
    <2>1. busy \in [Devices -> Nat] /\ offered \in [Devices -> Nat] /\ offered' = offered
      BY <1>1, <1>2 DEF TypeOK
    <2>2. \A d \in Devices : busy[d] + (IF dev[d].sending THEN 1 ELSE 0) \in Nat
      BY <2>1
    <2> QED
      BY <1>1, <2>1, <2>2
  <1>6. now' \in now .. SimTime /\ now' <= nextStats /\ (env => now' <= nextStep)
    <2>1. now' = now + 1 /\ now < nextStats /\ (env => now < nextStep) /\ now < SimTime
      BY <1>1, <1>2
    <2>2. /\ now \in Nat /\ nextStats \in Nat /\ (env => nextStep \in Nat) /\ SimTime \in Nat
      BY <1>2, ClockFacts, Numbers
    <2> QED
      BY <2>1, <2>2
  <1> QED
    BY <1>1, <1>2, <1>3, <1>4, <1>5, <1>6, DevicesMove

-----------------------------------------------------------------------------
(* A reading that stays in range: every cell that shows a device shows     *)
(* what it had, and its usage goes to the reader.                          *)
LEMMA ReadingTaken ==
  ASSUME TelemetryInv, NEW reader \in Reader, GetData(reader), Fits, ~undefined,
         UNCHANGED <<options, busy, lastHop>>, m_path_drops' = m_path_drops,
         obs' \in [SpineCells -> Nat],
         obs' \in {obs, m_path_drops}
  PROVE  /\ ~undefined' /\ dev' \in [Devices -> DeviceState]
         /\ \A d \in Devices : dev'[d].len > 0 => dev'[d].sending
         /\ m_spines' \in [SpineCells -> [drops : Nat, size : Nat, used : Nat]]
         /\ m_leaves' \in [LeafCells -> [drops : Nat, size : Nat, used : Nat]]
         /\ slots' \in [Reader -> [Devices -> Nat]]
         /\ SlotsShared' /\ DropsCumulative'
  <1>1. /\ TypeOK /\ dev \in [Devices -> DeviceState] /\ SlotsShared /\ DropsCumulative
        /\ <<spineCount, leafCount>> \in Options
    BY DEF TelemetryInv, ReadingsDefined, TypeOK, DeviceState
  <1>2. Devices' = Devices /\ (Fits' <=> Fits) /\ UNCHANGED <<spineCount, leafCount>>
    BY DEF options, Devices, Links, ServerLinks, Fits
  <1>3. ~ OutOfRange
    BY <1>1, RangeOfGetData
  <1>4. /\ undefined' = FALSE
        /\ m_spines' = [c \in SpineCells |->
                          IF c \in SpineVisits THEN Read("down", c) ELSE m_spines[c]]
        /\ m_leaves' = [c \in LeafCells |->
                          IF c \in LeafVisits THEN Read("up", c) ELSE m_leaves[c]]
        /\ dev' = [d \in Devices |-> IF d[1] = "server" THEN dev[d]
                                     ELSE [dev[d] EXCEPT !.used = 0]]
        /\ slots' = [slots EXCEPT ![reader] = [d \in Devices |-> @[d] + Slot(d)]]
    BY <1>3 DEF GetData, Restarted
  <1>5. ~undefined'
    BY <1>4
  <1>6. \A d \in Devices : /\ dev[d] \in DeviceState
                           /\ dev'[d] \in DeviceState /\ dev'[d].dropped = dev[d].dropped
                           /\ dev'[d].len = dev[d].len /\ dev'[d].sending = dev[d].sending
                           /\ Slot(d) \in Nat /\ dev'[d].used = dev[d].used - Slot(d)
                           /\ d[1] # "server" => Slot(d) = dev[d].used
    <2> SUFFICES ASSUME NEW d \in Devices
                 PROVE  /\ dev[d] \in DeviceState
                        /\ dev'[d] \in DeviceState /\ dev'[d].dropped = dev[d].dropped
                        /\ dev'[d].len = dev[d].len /\ dev'[d].sending = dev[d].sending
                        /\ Slot(d) \in Nat /\ dev'[d].used = dev[d].used - Slot(d)
                        /\ d[1] # "server" => Slot(d) = dev[d].used
      OBVIOUS
    <2>1. dev[d] \in DeviceState /\ dev[d].used \in Nat
      BY <1>1 DEF DeviceState
    <2>2. CASE d[1] = "server"
      BY <1>4, <2>1, <2>2 DEF Slot
    <2>3. CASE d[1] # "server"
      <3>1. dev'[d] = [dev[d] EXCEPT !.used = 0] /\ Slot(d) = dev[d].used
        BY <1>4, <2>3 DEF Slot
      <3>2. dev'[d] \in DeviceState
        BY <2>1, <3>1, DeviceUpdates
      <3> QED
        BY <2>1, <3>1, <3>2 DEF DeviceState
    <2> QED
      BY <2>2, <2>3
  <1>7. dev' \in [Devices -> DeviceState]
    BY <1>4, <1>6
  <1>8. \A d \in Devices : dev'[d].len > 0 => dev'[d].sending
    BY <1>1, <1>6 DEF TypeOK
  <1>9. spineCount = 2 /\ leafCount \in 1 .. 2
    BY <1>1, SizeFacts DEF Fits
  (* The cells GetData visits, and the devices it finds there. *)
  <1>10. \A v \in SpineVisits : v \in SpineCells /\ <<"down", v[1], v[2]>> \in Devices
    BY <1>3, <1>1, DeviceParts DEF OutOfRange, SpineVisits
  <1>11. \A v \in LeafVisits : v \in LeafCells /\ <<"up", v[1], v[2]>> \in Devices
    BY <1>3 DEF OutOfRange
  <1>12. \A x, c : <<x, c[1], c[2]>> \in Devices =>
            /\ Read(x, c) \in [drops : Nat, size : Nat, used : Nat]
            /\ Read(x, c).drops = dev[<<x, c[1], c[2]>>].dropped
            /\ Read(x, c).used = dev[<<x, c[1], c[2]>>].used
    BY <1>1, Numbers DEF Read, DeviceState
  <1>13. /\ m_spines' \in [SpineCells -> [drops : Nat, size : Nat, used : Nat]]
         /\ m_leaves' \in [LeafCells -> [drops : Nat, size : Nat, used : Nat]]
    BY <1>1, <1>4, <1>10, <1>11, <1>12 DEF TypeOK
  <1> DEFINE given == [d \in Devices |-> slots[reader][d] + Slot(d)]
  <1>a. /\ slots \in [Reader -> [Devices -> Nat]] /\ slots' = [slots EXCEPT ![reader] = given]
        /\ given \in [Devices -> Nat] /\ \A d \in Devices : given[d] = slots[reader][d] + Slot(d)
    <2>1. slots \in [Reader -> [Devices -> Nat]]
      BY <1>1 DEF TypeOK
    <2>2. \A d \in Devices : slots[reader][d] + Slot(d) \in Nat
      BY <2>1, <1>6
    <2> QED
      BY <1>4, <2>1, <2>2
  <1> HIDE DEF given
  <1>14. slots' \in [Reader -> [Devices -> Nat]]
    BY <1>a
  <1>15. \A d \in Devices : /\ slots["stats"][d] \in Nat /\ slots["env"][d] \in Nat
                            /\ slots'["stats"][d] + slots'["env"][d]
                                 = slots["stats"][d] + slots["env"][d] + Slot(d)
    <2> SUFFICES ASSUME NEW d \in Devices
                 PROVE  /\ slots["stats"][d] \in Nat /\ slots["env"][d] \in Nat
                        /\ slots'["stats"][d] + slots'["env"][d]
                             = slots["stats"][d] + slots["env"][d] + Slot(d)
      OBVIOUS
    <2>1. slots["stats"][d] \in Nat /\ slots["env"][d] \in Nat /\ Slot(d) \in Nat
      BY <1>1, <1>6 DEF TypeOK, Reader
    <2>2. \A r \in Reader : slots'[r][d] = slots[r][d] + IF r = reader THEN Slot(d) ELSE 0
      BY <1>a, <2>1 DEF Reader
    <2> QED
      BY <2>1, <2>2 DEF Reader
  <1>16. SlotsShared'
    <2> SUFFICES ASSUME NEW d \in Devices
                 PROVE  slots'["stats"][d] + slots'["env"][d] + dev'[d].used = busy[d]
      BY <1>2 DEF SlotsShared
    <2>1. slots["stats"][d] + slots["env"][d] + dev[d].used = busy[d]
      BY <1>1 DEF SlotsShared
    <2>2. Slot(d) \in Nat /\ dev'[d].used = dev[d].used - Slot(d) /\ dev[d].used \in Nat
      BY <1>6 DEF DeviceState
    <2> QED
      BY <1>15, <2>1, <2>2
  <1>17. DropsCumulative'
    <2> SUFFICES ASSUME NEW l \in 0 .. leafCount - 1
                 PROVE  /\ DropsCounted(l)'
                        /\ \A s \in 0 .. 1 :
                             /\ obs'[<<s, l>>] <= m_path_drops[<<s, l>>]
                             /\ Shows(m_spines[<<s, l>>], <<"down", s, l>>)'
                             /\ Shows(m_leaves[<<s, l>>], <<"up", s, l>>)'
      BY <1>2 DEF DropsCumulative
    <2>1. /\ DropsCounted(l)
          /\ \A s \in 0 .. 1 :
               /\ obs[<<s, l>>] <= m_path_drops[<<s, l>>]
               /\ Shows(m_spines[<<s, l>>], <<"down", s, l>>)
               /\ Shows(m_leaves[<<s, l>>], <<"up", s, l>>)
      BY <1>1 DEF DropsCumulative
    <2>2. \A e : Dropped(e)' = Dropped(e)
      BY <1>2, <1>6 DEF Dropped
    <2>3. DropsCounted(l)'
      BY <2>1, <2>2 DEF DropsCounted
    <2>4. ASSUME NEW s \in 0 .. 1
          PROVE  /\ obs'[<<s, l>>] <= m_path_drops[<<s, l>>]
                 /\ Shows(m_spines[<<s, l>>], <<"down", s, l>>)'
                 /\ Shows(m_leaves[<<s, l>>], <<"up", s, l>>)'
      <3> DEFINE c == <<s, l>>
                 d == <<"down", s, l>>
                 u == <<"up", s, l>>
      <3>1. c \in SpineCells /\ c \in LeafCells
        BY <1>9, Tables
      <3>2. d \in Devices /\ u \in Devices
        BY <1>1, <1>9, DeviceParts
      <3>3. c[1] = s /\ c[2] = l
        OBVIOUS
      <3>4. m_path_drops[c] \in Nat
        BY <1>1, <3>1 DEF TypeOK
      <3>5. /\ m_spines[c].drops <= dev[d].dropped
            /\ m_spines[c].used <= slots["stats"][d] + slots["env"][d]
            /\ m_leaves[c].drops <= dev[u].dropped
            /\ m_leaves[c].used <= slots["stats"][u] + slots["env"][u]
            /\ m_spines[c].used \in Nat /\ m_leaves[c].used \in Nat
        BY <1>1, <2>1, <3>1 DEF Shows, TypeOK
      <3> HIDE DEF c, d, u
      <3>6. obs'[c] <= m_path_drops[c]
        <4>1. obs[c] <= m_path_drops[c]
          BY <2>1 DEF c
        <4> QED
          BY <3>4, <4>1
      <3>7. m_spines'[c] = Read("down", c) \/ m_spines'[c] = m_spines[c]
        BY <1>4, <3>1
      <3>8. m_leaves'[c] = Read("up", c) \/ m_leaves'[c] = m_leaves[c]
        BY <1>4, <3>1
      <3>9. /\ Read("down", c).drops = dev[d].dropped /\ Read("down", c).used = dev[d].used
            /\ Read("up", c).drops = dev[u].dropped /\ Read("up", c).used = dev[u].used
        BY <1>12, <3>2, <3>3 DEF d, u
      <3>10. dev[d].dropped \in Nat /\ dev[u].dropped \in Nat
        BY <1>1, <3>2 DEF DeviceState
      <3>11. Shows(m_spines[c], d)'
        <4>1. /\ dev'[d].dropped = dev[d].dropped
              /\ slots["stats"][d] \in Nat /\ slots["env"][d] \in Nat /\ dev[d].used \in Nat
              /\ slots'["stats"][d] + slots'["env"][d]
                   = slots["stats"][d] + slots["env"][d] + dev[d].used
          <5>1. d[1] # "server"
            BY DEF d
          <5> QED
            BY <5>1, <1>6, <1>15, <3>2 DEF DeviceState
        <4>2. /\ m_spines'[c].drops <= dev[d].dropped
              /\ m_spines'[c].used <= slots["stats"][d] + slots["env"][d] + dev[d].used
          BY <3>5, <3>7, <3>9, <3>10, <4>1
        <4>3. c' = c /\ d' = d
          BY DEF c, d
        <4> QED
          BY <4>1, <4>2, <4>3 DEF Shows
      <3>12. Shows(m_leaves[c], u)'
        <4>1. /\ dev'[u].dropped = dev[u].dropped
              /\ slots["stats"][u] \in Nat /\ slots["env"][u] \in Nat /\ dev[u].used \in Nat
              /\ slots'["stats"][u] + slots'["env"][u]
                   = slots["stats"][u] + slots["env"][u] + dev[u].used
          <5>1. u[1] # "server"
            BY DEF u
          <5> QED
            BY <5>1, <1>6, <1>15, <3>2 DEF DeviceState
        <4>2. /\ m_leaves'[c].drops <= dev[u].dropped
              /\ m_leaves'[c].used <= slots["stats"][u] + slots["env"][u] + dev[u].used
          BY <3>5, <3>8, <3>9, <3>10, <4>1
        <4>3. c' = c /\ u' = u
          BY DEF c, u
        <4> QED
          BY <4>1, <4>2, <4>3 DEF Shows
      <3> QED
        BY <3>6, <3>11, <3>12 DEF c, d, u
    <2> QED
      BY <2>3, <2>4
  <1> QED
    BY <1>5, <1>7, <1>8, <1>13, <1>14, <1>16, <1>17

(* A reading outside the vectors: undefined, and nothing else is known.    *)
LEMMA ReadingUndefined ==
  ASSUME TelemetryInv, NEW reader \in Reader, GetData(reader), ~Fits
  PROVE  undefined' /\ UNCHANGED <<dev, m_spines, m_leaves, slots>>
  <1>1. OutOfRange
    BY RangeOfGetData, SizeFacts DEF TelemetryInv, ReadingsDefined
  <1> QED
    BY <1>1 DEF GetData

(* A reading by either of the readers. *)
LEMMA ReadingInv ==
  ASSUME TelemetryInv, Running, NEW reader \in Reader, GetData(reader),
         UNCHANGED <<options, now, offered, busy, lastHop>>, m_path_drops' = m_path_drops,
         nextStats' \in now .. now + Second, env => nextStep' \in now .. now + StepTime,
         failed' \in BOOLEAN, ~failed',
         obs' \in [SpineCells -> Nat],
         obs' \in {obs, m_path_drops}
  PROVE  TelemetryInv'
  <1>1. /\ TypeOK /\ dev \in [Devices -> DeviceState] /\ SlotsShared /\ DropsCumulative /\ ~undefined
    BY DEF TelemetryInv, ReadingsDefined, TypeOK, DeviceState, Running
  <1>2. /\ Devices' = Devices /\ (Fits' <=> Fits)
        /\ UNCHANGED <<spineCount, leafCount, env>>
    BY DEF options, Devices, Links, ServerLinks, Fits
  <1>3. undefined' \in BOOLEAN
    <2>1. undefined' = OutOfRange
      BY Zenon DEF GetData
    <2>2. OutOfRange \in BOOLEAN
      BY Zenon DEF OutOfRange
    <2> QED
      BY <2>1, <2>2, Zenon
  <1>4. /\ undefined' <=> ~Fits
        /\ dev' \in [Devices -> DeviceState] /\ slots' \in [Reader -> [Devices -> Nat]]
        /\ \A d \in Devices : dev'[d].len > 0 => dev'[d].sending
        /\ m_spines' \in [SpineCells -> [drops : Nat, size : Nat, used : Nat]]
        /\ m_leaves' \in [LeafCells -> [drops : Nat, size : Nat, used : Nat]]
        /\ SlotsShared' /\ DropsCumulative'
    <2>1. CASE Fits
      BY <1>1, <2>1, ReadingTaken
    <2>2. CASE ~Fits
      <3>1. undefined' /\ UNCHANGED <<dev, m_spines, m_leaves, slots>>
        BY <2>2, ReadingUndefined
      <3>2. SlotsShared' /\ DropsCumulative'
        BY <1>2, <2>2, <3>1 DEF SlotsShared, DropsCumulative
      <3> QED
        BY <1>1, <2>2, <3>1, <3>2 DEF TypeOK
    <2> QED
      BY <2>1, <2>2
  <1>5. /\ now' \in 0 .. SimTime /\ nextStats' \in now' .. now' + Second
        /\ env' => nextStep' \in now' .. now' + StepTime
    BY <1>1, <1>2 DEF TypeOK
  <1>6. TypeOK'
    BY <1>1, <1>2, <1>3, <1>4, <1>5 DEF TypeOK, DeviceState
  <1>7. ReadingsDefined'
    BY <1>2, <1>4, <1>6 DEF ReadingsDefined
  <1> QED
    BY <1>4, <1>7 DEF TelemetryInv

(* The statistics' own reading of the devices. *)
LEMMA GetStatsInv == ASSUME TelemetryInv, GetStats PROVE TelemetryInv'
  <1>1. /\ Running /\ GetData("stats") /\ nextStats' = now + Second
        /\ UNCHANGED <<options, now, nextStep, obs, failed, offered, busy, m_path_drops, lastHop>>
    BY DEF GetStats
  <1>2. TypeOK /\ ReadingsDefined
    BY DEF TelemetryInv, ReadingsDefined
  <1>3. nextStats' \in now .. now + Second /\ (env => nextStep' \in now .. now + StepTime)
    BY <1>1, <1>2, ClockFacts, Numbers
  <1>4. failed' \in BOOLEAN
    BY <1>1, <1>2 DEF TypeOK
  <1>5. /\ ~failed' /\ obs' \in [SpineCells -> Nat]
        /\ obs' \in {obs, m_path_drops}
    BY <1>1, <1>2 DEF TypeOK, Running
  <1>6. "stats" \in Reader /\ UNCHANGED <<options, now, offered, busy, lastHop>> /\ m_path_drops' = m_path_drops
    BY <1>1 DEF Reader
  <1> QED
    BY <1>1, <1>3, <1>4, <1>5, <1>6, ReadingInv

(* The agent's step: where the reading is defined, the action is accepted. *)
LEMMA ScheduleNextStateReadInv == ASSUME TelemetryInv, ScheduleNextStateRead PROVE TelemetryInv'
  <1>1. /\ Running /\ GetData("env") /\ nextStep' = now + StepTime
        /\ failed' = (~undefined' /\ ActionRefused)
        /\ UNCHANGED <<options, now, nextStats, offered, busy, m_path_drops, lastHop>>
    BY Zenon DEF ScheduleNextStateRead
  <1>2. TypeOK /\ ReadingsDefined
    BY DEF TelemetryInv, ReadingsDefined
  <1>3. "env" \in Reader
    BY DEF Reader
  <1>4. undefined' <=> ~Fits
    <2>1. OutOfRange <=> ~Fits
      BY <1>2, SizeFacts, RangeOfGetData
    <2> QED
      BY <1>1, <2>1 DEF GetData
  <1>5. failed' \in BOOLEAN /\ ~failed'
    <2>1. ASSUME Fits PROVE ~ActionRefused
      <3>1. spineCount = 2 /\ leafCount \in 1 .. 2
        BY <1>2, <2>1, SizeFacts DEF Fits
      <3>2. CASE leafCount = 1
        BY <3>1, <3>2 DEF ActionRefused, ActionSpace, DefaultSpines
      <3>3. CASE leafCount = 2
        BY <3>1, <3>3 DEF ActionRefused, ActionSpace, DefaultSpines
      <3> QED
        BY <3>1, <3>2, <3>3
    <2>2. ~(~undefined' /\ ActionRefused)
      BY <1>4, <2>1
    <2> QED
      BY <1>1, <2>2, Zenon
  <1>6. nextStats' \in now .. now + Second /\ nextStep' \in now .. now + StepTime
    BY <1>1, <1>2, ClockFacts, Numbers
  <1>7. /\ obs' \in [SpineCells -> Nat]
        /\ obs' \in {obs, m_path_drops}
    <2>1. obs' = IF undefined' THEN obs ELSE m_path_drops
      BY DEF ScheduleNextStateRead
    <2> QED
      BY <1>2, <2>1 DEF TypeOK
  <1> QED
    BY <1>1, <1>3, <1>5, <1>6, <1>7, ReadingInv

(* Every step keeps the invariants. *)
LEMMA NextInv == TelemetryInv /\ [Next]_vars => TelemetryInv'
  <1> SUFFICES ASSUME TelemetryInv, [Next]_vars PROVE TelemetryInv'
    OBVIOUS
  <1>1. ASSUME NEW d \in Devices \cap Loaded, NEW from \in 0 .. leafCount - 1, Send(d, from)
        PROVE  TelemetryInv'
    BY <1>1, SendInv
  <1>2. ASSUME NEW d \in Devices, TransmitComplete(d) PROVE TelemetryInv'
    BY <1>2, TransmitCompleteInv
  <1>3. CASE GetStats
    BY <1>3, GetStatsInv
  <1>4. CASE ScheduleNextStateRead
    BY <1>4, ScheduleNextStateReadInv
  <1>5. CASE Tick
    BY <1>5, TickInv
  <1>6. CASE UNCHANGED vars
    <2>1. UNCHANGED <<spineCount, leafCount, env, now, dev, offered, busy, m_path_drops, lastHop, m_spines,
                      m_leaves, nextStats, nextStep, obs, slots, failed, undefined>>
      BY <1>6 DEF vars, options, traffic, readers
    <2>2. Devices' = Devices /\ (Fits' <=> Fits)
      BY <2>1 DEF Devices, Links, ServerLinks, Fits
    <2>3. TypeOK'
      BY <2>1, <2>2 DEF TelemetryInv, ReadingsDefined, TypeOK
    <2>4. ReadingsDefined' /\ SlotsShared'
      BY <2>1, <2>2, <2>3 DEF TelemetryInv, ReadingsDefined, SlotsShared
    <2>5. \A s : DropsCounted(s)' <=> DropsCounted(s)
      BY <2>1, <2>2 DEF DropsCounted, Dropped
    <2>6. DropsCumulative'
      BY <2>1, <2>2, <2>5 DEF TelemetryInv, DropsCumulative, Shows
    <2> QED
      BY <2>4, <2>6 DEF TelemetryInv
  <1> QED
    BY <1>1, <1>2, <1>3, <1>4, <1>5, <1>6 DEF Next

-----------------------------------------------------------------------------
(* In a fabric with two spines and at most two leaves every reading and    *)
(* every traced drop is inside the tables, and every action is accepted    *)
(* (ReadingsDefined).                                                      *)
THEOREM ReadingsCorrect == Spec => []ReadingsDefined
  <1>1. TelemetryInv => ReadingsDefined
    BY DEF TelemetryInv
  <1> QED
    BY <1>1, InitInv, NextInv, PTL DEF Spec

(* GetStats and the agent together are given all the work of a device, and *)
(* none of it twice (SlotsShared).                                         *)
THEOREM SlotsAddUp == Spec => []SlotsShared
  <1>1. TelemetryInv => SlotsShared
    BY DEF TelemetryInv
  <1> QED
    BY <1>1, InitInv, NextInv, PTL DEF Spec

(* The counters of the queues and of the drop trace agree and are never    *)
(* reset, and the tables show each device in its own cell                  *)
(* (DropsCumulative).                                                      *)
THEOREM CountersCorrect == Spec => []DropsCumulative
  <1>1. TelemetryInv => DropsCumulative
    BY DEF TelemetryInv
  <1> QED
    BY <1>1, InitInv, NextInv, PTL DEF Spec
=============================================================================
