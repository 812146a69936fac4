------------------------------ MODULE QueueOps ------------------------------
(***************************************************************************)
(* QueueBase, Queue<Item> and DropTailQueue<Item>                          *)
(* (src/src/network/utils/queue.{h,cc}, queue-size.h, drop-tail-queue.h)   *)
(* as operators on a record that holds the C++ data members.  The device   *)
(* model (PointToPointLink) keeps one such record per device, the queue    *)
(* model (DropTailQueue) drives one through every public operation.        *)
(*                                                                         *)
(* An item is a record with a field "size".  The counters are uint32_t:    *)
(* they wrap at UINT32 (2^32 in the code, any larger-than-one modulus      *)
(* here).                                                                  *)
(***************************************************************************)
EXTENDS Integers, Sequences

CONSTANT UINT32        \* the modulus of the uint32_t counters

ASSUME UINT32Assumption == UINT32 \in Nat /\ UINT32 > 1

Units == {"PACKETS", "BYTES"}

QueueSize(unit, value) == [unit |-> unit, value |-> value]

Wrap(n) == n % UINT32

(* What the counters start at, and what ResetStatistics puts them back to. *)
ZeroStats == [received |-> [packets |-> 0, bytes |-> 0],
              dropped  |-> [packets |-> 0, bytes |-> 0],
              before   |-> [packets |-> 0, bytes |-> 0],
              after    |-> [packets |-> 0, bytes |-> 0]]

(* The data members of a queue of items taken from P. *)
Uint32 == 0 .. UINT32 - 1
Count == [packets : Uint32, bytes : Uint32]
Stats == [received : Count, dropped : Count, before : Count, after : Count]
QueueOf(P) ==
  [m_packets : Seq(P), m_nBytes : Uint32, m_nPackets : Uint32,
   m_maxSize : [unit : Units, value : Uint32], m_nTotal : Stats]

(* The size of the items of a list together. *)
Bytes(s) ==
  LET sum[i \in 0 .. Len(s)] == IF i = 0 THEN 0 ELSE sum[i - 1] + s[i].size
  IN  sum[Len(s)]

NewQueue(max) ==
  [m_packets |-> << >>, m_nBytes |-> 0, m_nPackets |-> 0,
   m_maxSize |-> max, m_nTotal |-> ZeroStats]

GetCurrentSize(q) ==
  IF q.m_maxSize.unit = "PACKETS" THEN q.m_nPackets ELSE q.m_nBytes

(* QueueSize::operator+: the size the queue would have with the item in. *)
SizeWith(q, item) ==
  IF q.m_maxSize.unit = "PACKETS"
  THEN Wrap(q.m_nPackets + 1)
  ELSE Wrap(q.m_nBytes + item.size)

WouldOverflow(q, nPackets, nBytes) ==
  IF q.m_maxSize.unit = "PACKETS"
  THEN Wrap(q.m_nPackets + nPackets) > q.m_maxSize.value
  ELSE Wrap(q.m_nBytes + nBytes) > q.m_maxSize.value

Counted(c, item) ==
  [packets |-> Wrap(c.packets + 1), bytes |-> Wrap(c.bytes + item.size)]

DropBeforeEnqueue(q, item) ==
  [q EXCEPT !.m_nTotal.dropped = Counted(@, item),
            !.m_nTotal.before  = Counted(@, item)]

DropAfterDequeue(q, item) ==
  [q EXCEPT !.m_nTotal.dropped = Counted(@, item),
            !.m_nTotal.after   = Counted(@, item)]

(* True when Enqueue returns true. *)
Accepts(q, item) == ~ (SizeWith(q, item) > q.m_maxSize.value)

(* Mutant: the bytes of the item are not counted. *)
EnqueueUncountedBytes(q, item) ==
  IF Accepts(q, item)
  THEN [q EXCEPT !.m_packets = Append(@, item),
                 !.m_nPackets = Wrap(@ + 1),
                 !.m_nTotal.received = Counted(@, item)]
  ELSE DropBeforeEnqueue(q, item)

Enqueue(q, item) ==
  IF Accepts(q, item)
  THEN [q EXCEPT !.m_packets = Append(@, item),
                 !.m_nBytes = Wrap(@ + item.size),
                 !.m_nPackets = Wrap(@ + 1),
                 !.m_nTotal.received = Counted(@, item)]
  ELSE DropBeforeEnqueue(q, item)

(* Mutant: off by one. *)
IsEmptyOffByOne(q) == q.m_nPackets <= 1

IsEmpty(q) == q.m_nPackets = 0

(* The item Dequeue, Remove and Peek return, when the queue is not empty. *)
FrontItem(q) == Head(q.m_packets)

(* What NS_ASSERT checks in DoDequeue and DoRemove. *)
DequeueAsserts(q) == ~ IsEmpty(q) =>
  q.m_nBytes >= FrontItem(q).size /\ q.m_nPackets > 0

(* Mutant: Dequeue leaves the packet count alone. *)
DequeueKeepsCount(q) ==
  IF IsEmpty(q)
  THEN q
  ELSE [q EXCEPT !.m_packets = Tail(@),
                 !.m_nBytes = Wrap(@ - FrontItem(q).size)]

Dequeue(q) ==
  IF IsEmpty(q)
  THEN q
  ELSE [q EXCEPT !.m_packets = Tail(@),
                 !.m_nBytes = Wrap(@ - FrontItem(q).size),
                 !.m_nPackets = Wrap(@ - 1)]

(* Mutant: a removed packet is not recorded as dropped after dequeue. *)
RemoveUnrecorded(q) == IF IsEmpty(q) THEN q ELSE Dequeue(q)

Remove(q) ==
  IF IsEmpty(q) THEN q ELSE DropAfterDequeue(Dequeue(q), FrontItem(q))

ResetStatistics(q) == [q EXCEPT !.m_nTotal = ZeroStats]

(* The fork's resetStats: one of the eight counters. *)
ResetStats(q) == [q EXCEPT !.m_nTotal.before.bytes = 0]

(* SetMaxSize ignores a null size.  The new size is stored before it is    *)
(* compared with the current one; SetMaxSizeAborts is NS_ABORT_MSG_IF.     *)
SetMaxSize(q, max) ==
  IF max.value = 0 THEN q ELSE [q EXCEPT !.m_maxSize = max]

SetMaxSizeAborts(q, max) ==
  max.value # 0 /\ max.value < GetCurrentSize(SetMaxSize(q, max))

(* A queue whose stored length is right and within the limit: a limit in   *)
(* packets below the last uint32_t value, or one in bytes, and then the    *)
(* stored size is right as well.                                           *)
SoundQueue(q, P) ==
  /\ q \in QueueOf(P)
  /\ q.m_nPackets = Len(q.m_packets)
  /\ IF q.m_maxSize.unit = "PACKETS"
     THEN q.m_maxSize.value < UINT32 - 1 /\ Len(q.m_packets) <= q.m_maxSize.value
     ELSE q.m_nBytes = Bytes(q.m_packets) /\ Bytes(q.m_packets) <= q.m_maxSize.value
=============================================================================
