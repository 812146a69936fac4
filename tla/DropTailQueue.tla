---------------------------- MODULE DropTailQueue ----------------------------
(***************************************************************************)
(* One DropTailQueue<Packet> driven through every public operation, in any *)
(* order, by the code that owns it.                                        *)
(***************************************************************************)
EXTENDS QueueOps

CONSTANTS ItemSizes,   \* packet sizes
          MaxSizes,    \* the QueueSize values SetMaxSize is called with
          InitialMax,  \* the "MaxSize" attribute
          MaxOps       \* bound: operations in a behaviour

ASSUME QueueAssumption ==
  /\ ItemSizes \subseteq Nat \ {0}
  /\ MaxSizes \cup {InitialMax} \subseteq [unit : Units, value : Uint32]
  /\ MaxOps \in Nat

VARIABLES queue,       \* the data members
          aborted,     \* an assertion or NS_ABORT fired
          served,      \* history: packets that Dequeue returned, since the reset
          carried,     \* history: packets in the queue at the last reset
          ops          \* operations so far, at most MaxOps

queueVars == <<queue, aborted, served, carried, ops>>

Item == [size : ItemSizes]

QueueInit ==
  /\ queue = NewQueue(InitialMax)
  /\ aborted = FALSE
  /\ served = 0
  /\ carried = 0
  /\ ops = 0

Step == ~ aborted /\ ops < MaxOps /\ ops' = ops + 1

DoEnqueue(p) ==
  /\ Step
  /\ queue' = Enqueue(queue, p)
  /\ UNCHANGED <<aborted, served, carried>>

DoDequeue ==
  /\ Step
  /\ queue' = Dequeue(queue)
  /\ aborted' = ~ DequeueAsserts(queue)
  /\ served' = IF IsEmpty(queue) THEN served ELSE served + 1
  /\ UNCHANGED carried

DoRemove ==
  /\ Step
  /\ queue' = Remove(queue)
  /\ aborted' = ~ DequeueAsserts(queue)
  /\ UNCHANGED <<served, carried>>

(* Flush: Remove until the queue is empty. *)
Flush ==
  /\ Step
  /\ LET n == queue.m_nPackets
         removed[k \in 0 .. n] == IF k = 0 THEN queue ELSE Remove(removed[k - 1])
     IN  /\ queue' = removed[n]
         /\ aborted' = \E k \in 0 .. n - 1 : ~ DequeueAsserts(removed[k])
  /\ UNCHANGED <<served, carried>>

DoResetStatistics ==
  /\ Step
  /\ queue' = ResetStatistics(queue)
  /\ served' = 0
  /\ carried' = queue.m_nPackets
  /\ UNCHANGED aborted

DoResetStats ==
  /\ Step
  /\ queue' = ResetStats(queue)
  /\ UNCHANGED <<aborted, served, carried>>

DoSetMaxSize(max) ==
  /\ Step
  /\ queue' = SetMaxSize(queue, max)
  /\ aborted' = SetMaxSizeAborts(queue, max)
  /\ UNCHANGED <<served, carried>>

QueueNext ==
  \/ \E p \in Item : DoEnqueue(p)
  \/ DoDequeue
  \/ DoRemove
  \/ Flush
  \/ DoResetStatistics
  \/ DoResetStats
  \/ \E max \in MaxSizes : DoSetMaxSize(max)

QueueSpec == QueueInit /\ [][QueueNext]_queueVars

-----------------------------------------------------------------------------
(* The data members stay in the ranges their C++ types and the queue's own *)
(* bookkeeping give them (queue.h, the private members of QueueBase).      *)
QueueTypeOK ==
  /\ queue \in QueueOf(Item)
  /\ aborted \in BOOLEAN
  /\ served \in Nat /\ carried \in Nat
  /\ ops \in 0 .. MaxOps

(* m_nPackets and m_nBytes are kept beside the list, never recomputed from *)
(* it; the admission test, IsEmpty and every assertion trust them.  They   *)
(* agree with the list after any sequence of operations (also when the     *)
(* size limit changed unit with packets in the queue), counters that wrap  *)
(* stay in a uint32_t, and as long as the program has not aborted the list *)
(* respects the limit in force.                                            *)
ContentsCounted ==
  /\ QueueTypeOK
  /\ queue.m_nPackets = Len(queue.m_packets)
  /\ queue.m_nBytes = Bytes(queue.m_packets)
  /\ ~ aborted => GetCurrentSize(queue) <= queue.m_maxSize.value

(* The statistics balance: every packet received since the last            *)
(* ResetStatistics, or carried over it, was dequeued, dropped after        *)
(* dequeue, or is still there; the total of drops is the two kinds'.       *)
PacketsBalance ==
  LET n == queue.m_nTotal IN
  /\ Wrap(n.received.packets + carried) =
       Wrap(served + n.after.packets + queue.m_nPackets)
  /\ n.dropped.packets = Wrap(n.before.packets + n.after.packets)
=============================================================================
