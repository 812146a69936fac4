----------------------------- MODULE Schedulers -----------------------------
(***************************************************************************)
(* The event list behind DefaultSimulatorImpl as the program can have it:  *)
(* HeapScheduler, ListScheduler, CalendarScheduler (also "Reverse") and,   *)
(* with the standard library's ordered container doing the work,           *)
(* MapScheduler and PriorityQueueScheduler ("map").  SetScheduler moves    *)
(* the events from one to another in mid-simulation.                       *)
(***************************************************************************)
EXTENDS CalendarQueue

CONSTANTS Kinds,       \* the schedulers the program may choose
          Delays,      \* delays the program schedules with
          MaxUid,      \* bound: events scheduled in a behaviour
          HeapRemove   \* Remove is called while the events are in a heap

ASSUME SchedulersAssumption ==
  /\ Kinds \subseteq {"map", "list", "heap", "calendar", "reverse"}
  /\ Delays \subseteq Nat /\ MaxUid \in Nat /\ HeapRemove \in BOOLEAN

VARIABLES m_events,    \* the scheduler: its kind and its data
          m_uid,       \* uids used up
          last,        \* the event under way: what RemoveNext returned last
          removed      \* history: calls of Remove so far

vars == <<m_events, m_uid, last, removed>>

-----------------------------------------------------------------------------
(* HeapScheduler.  m_heap[0] is never used, so indices are the code's. *)

Parent(id) == id \div 2
LeftChild(id) == 2 * id
RightChild(id) == 2 * id + 1

IsBottom(heap, id) == id > Len(heap)

Exch(heap, a, b) == [heap EXCEPT ![a] = heap[b], ![b] = heap[a]]

Smallest(heap, a, b) == IF Before(heap[a], heap[b]) THEN a ELSE b

(* A step of BottomUp moves the node at index up, until it is the root or  *)
(* not earlier than its parent.                                            *)
Rises(heap, index) == index # 1 /\ Before(heap[index], heap[Parent(index)])

BottomUp(heap) ==
  LET after[k \in 0 .. Len(heap)] ==
        IF k = 0 THEN [heap |-> heap, index |-> Len(heap)]
        ELSE LET was == after[k - 1]
             IN  IF Rises(was.heap, was.index)
                 THEN [heap  |-> Exch(was.heap, was.index, Parent(was.index)),
                       index |-> Parent(was.index)]
                 ELSE was
  IN  after[Len(heap)].heap

(* A step of TopDown exchanges it with the earlier of its children, unless *)
(* it has none or is earlier itself.                                       *)
Child(heap, index) ==
  IF IsBottom(heap, RightChild(index)) THEN LeftChild(index)
  ELSE Smallest(heap, LeftChild(index), RightChild(index))

Sinks(heap, index) ==
  LET child == Child(heap, index)
  IN  ~IsBottom(heap, child) /\ ~Before(heap[index], heap[child])

TopDown(heap, start) ==
  LET after[k \in 0 .. Len(heap)] ==
        IF k = 0 THEN [heap |-> heap, index |-> start]
        ELSE LET was == after[k - 1]
             IN  IF Sinks(was.heap, was.index)
                 THEN LET child == Child(was.heap, was.index)
                      IN  [heap |-> Exch(was.heap, was.index, child), index |-> child]
                 ELSE was
  IN  after[Len(heap)].heap

(* Exchange with the last, pop, move down: RemoveNext at the root, Remove  *)
(* anywhere.                                                               *)
TakeOut(heap, id) == TopDown(Front(Exch(heap, id, Len(heap))), id)

-----------------------------------------------------------------------------
(* The interface of Scheduler, by kind. *)

IsCalendar(s) == s.kind \in {"calendar", "reverse"}

Create(kind) ==
  [kind |-> kind,
   data |-> CASE kind = "map" -> {}
              [] kind \in {"list", "heap"} -> << >>
              [] kind = "calendar" -> NewCalendar(FALSE)
              [] kind = "reverse" -> NewCalendar(TRUE)]

(* The events of a scheduler. *)
Content(s) ==
  CASE s.kind = "map" -> s.data
    [] s.kind \in {"list", "heap"} -> ToSet(s.data)
    [] IsCalendar(s) -> Events(s.data)

IsEmpty(s) ==
  CASE s.kind = "map" -> s.data = {}
    [] s.kind \in {"list", "heap"} -> s.data = << >>
    [] IsCalendar(s) -> s.data.qSize = 0

Insert(s, ev) ==
  [s EXCEPT !.data =
     CASE s.kind = "map" -> @ \cup {ev}
       [] s.kind = "list" -> InsertInOrder(@, ev, FALSE)
       [] s.kind = "heap" -> BottomUp(Append(@, ev))
       [] IsCalendar(s) -> CalendarInsert(@, ev)]

(* The first key of the ordered container. *)
FirstOf(set) == CHOOSE e \in set : \A f \in set \ {e} : Before(e, f)

PeekNext(s) ==
  CASE s.kind = "map" -> FirstOf(s.data)
    [] s.kind \in {"list", "heap"} -> Head(s.data)
    [] IsCalendar(s) -> CalendarPeekNext(s.data)

(* The event RemoveNext returns, and the scheduler it leaves. *)
RemoveNext(s) ==
  CASE s.kind = "map" ->
         [ev |-> FirstOf(s.data), sched |-> [s EXCEPT !.data = @ \ {FirstOf(@)}]]
    [] s.kind = "list" ->
         [ev |-> Head(s.data), sched |-> [s EXCEPT !.data = Tail(@)]]
    [] s.kind = "heap" ->
         [ev |-> Head(s.data), sched |-> [s EXCEPT !.data = TakeOut(@, 1)]]
    [] IsCalendar(s) ->
         LET r == CalendarRemoveNext(s.data)
         IN  [ev |-> r.ev, sched |-> [s EXCEPT !.data = r.cal]]

(* Remove. *)
RemoveOne(s, ev) ==
  [s EXCEPT !.data =
     CASE s.kind = "map" -> @ \ {ev}
       [] s.kind = "list" -> Erase(@, ev)
       [] s.kind = "heap" ->
            TakeOut(@, CHOOSE i \in 1 .. Len(@) : @[i].uid = ev.uid)
       [] IsCalendar(s) -> CalendarRemove(@, ev)]

(* Mutant: the events go to the new scheduler, and the last one stays. *)
MoveAllButLast(from, to) ==
  LET n == Cardinality(Content(from))
      after[k \in 0 .. n] ==
        IF k = 0 THEN [from |-> from, to |-> to]
        ELSE LET was == after[k - 1]
                 r   == RemoveNext(was.from)
             IN  IF k = n THEN was
                 ELSE [from |-> r.sched, to |-> Insert(was.to, r.ev)]
  IN  after[n].to

(* The earliest event of the one goes to the other, until the one is empty. *)
MoveAll(from, to) ==
  LET after[k \in 0 .. Cardinality(Content(from))] ==
        IF k = 0 THEN [from |-> from, to |-> to]
        ELSE LET was == after[k - 1]
                 r   == RemoveNext(was.from)
             IN  IF IsEmpty(was.from) THEN was
                 ELSE [from |-> r.sched, to |-> Insert(was.to, r.ev)]
  IN  after[Cardinality(Content(from))].to

-----------------------------------------------------------------------------
(* The calls of the event loop. *)

Init ==
  /\ \E kind \in Kinds : m_events = Create(kind)
  /\ m_uid = 0
  /\ last = [ts |-> 0, uid |-> 0]
  /\ removed = 0

Schedule(delay) ==
  /\ m_uid < MaxUid
  /\ m_uid' = m_uid + 1
  /\ m_events' = Insert(m_events, [ts |-> last.ts + delay, uid |-> m_uid'])
  /\ UNCHANGED <<last, removed>>

ProcessOneEvent ==
  LET r == RemoveNext(m_events)
  IN  /\ ~IsEmpty(m_events)
      /\ m_events' = r.sched
      /\ last' = r.ev
      /\ UNCHANGED <<m_uid, removed>>

(* DefaultSimulatorImpl::Remove of an event that has not expired. *)
RemoveEvent(ev) ==
  /\ m_events.kind = "heap" => HeapRemove
  /\ m_events' = RemoveOne(m_events, ev)
  /\ removed' = removed + 1
  /\ UNCHANGED <<m_uid, last>>

SetScheduler(kind) ==
  /\ m_events' = MoveAll(m_events, Create(kind))
  /\ UNCHANGED <<m_uid, last, removed>>

Next ==
  \/ \E d \in Delays : Schedule(d)
  \/ ProcessOneEvent
  \/ \E ev \in Content(m_events) : RemoveEvent(ev)
  \/ \E kind \in Kinds : SetScheduler(kind)

Spec == Init /\ [][Next]_vars

-----------------------------------------------------------------------------
Event == [ts : Nat, uid : 1 .. MaxUid]

(* Resizing doubles or halves the number of buckets, from 2. *)
BucketCounts ==
  {1, 2, 4, 8, 16, 32, 64, 128, 256, 512, 1024, 2048, 4096, 8192, 16384, 32768}

IsSeqOf(s, S) == s \in Seq(S)

(* The data members of a CalendarScheduler: a power of two of buckets, a   *)
(* width of at least one (Hash divides by it) and a search that begins at  *)
(* one of the buckets.                                                     *)
CalendarType(c) ==
  /\ DOMAIN c = {"reverse", "buckets", "width", "lastBucket", "lastPrio", "bucketTop", "qSize"}
  /\ \E n \in BucketCounts : DOMAIN c.buckets = 0 .. n - 1
  /\ \A i \in DOMAIN c.buckets : IsSeqOf(c.buckets[i], Event)
  /\ c.reverse \in BOOLEAN /\ c.width \in Nat \ {0}
  /\ c.lastBucket \in DOMAIN c.buckets
  /\ c.lastPrio \in Nat /\ c.bucketTop \in Nat /\ c.qSize \in Nat

(* The data of every kind of scheduler has its C++ type. *)
TypeOK ==
  LET d == m_events.data IN
  /\ m_events.kind \in Kinds
  /\ m_events.kind = "map" => d \subseteq Event
  /\ m_events.kind \in {"list", "heap"} => IsSeqOf(d, Event)
  /\ IsCalendar(m_events) => CalendarType(d)
  /\ m_uid \in 0 .. MaxUid
  /\ last \in Event \cup {[ts |-> 0, uid |-> 0]} /\ removed \in Nat

(* Every event of a list precedes the ones behind it. *)
Ordered(list, reverse) ==
  \A i, j \in 1 .. Len(list) : i < j => Precedes(reverse, list[i], list[j])

(* In a calendar every event is in the bucket that Remove will look in,    *)
(* buckets are sorted, m_qSize is the number of events, the search begins  *)
(* in the bucket and year of m_lastPrio, and no event is earlier.          *)
CalendarSound(c) ==
  /\ \A i \in DOMAIN c.buckets :
       /\ Ordered(c.buckets[i], c.reverse)
       /\ \A k \in 1 .. Len(c.buckets[i]) : Hash(c, c.buckets[i][k].ts) = i
  /\ \A e \in Events(c) : c.lastPrio <= e.ts
  /\ c.qSize = Cardinality(Events(c))
  /\ c.lastBucket = Hash(c, c.lastPrio)
  /\ c.bucketTop = (c.lastPrio \div c.width + 1) * c.width

(* What the searches rely on: besides its types, a heap is ordered from    *)
(* parent to child, a list is sorted, and a calendar is sound and does not *)
(* begin its search after the event under way.                             *)
WellFormed ==
  LET d == m_events.data IN
  /\ TypeOK
  /\ m_events.kind = "list" => Ordered(d, FALSE)
  /\ m_events.kind = "heap" => \A i \in 2 .. Len(d) : Before(d[Parent(i)], d[i])
  /\ IsCalendar(m_events) => CalendarSound(d) /\ d.lastPrio <= last.ts

(* PeekNext returns "the next earliest event" (scheduler.h:207), also when *)
(* the calendar's search finds nothing in a whole year or the structure    *)
(* was resized, thinned out by Remove or replaced since.                   *)
PeekIsEarliest ==
  ~IsEmpty(m_events) =>
    LET next    == PeekNext(m_events)
        content == Content(m_events)
    IN  next \in content /\ \A e \in content \ {next} : Before(next, e)

List == INSTANCE EventList WITH events <- Content(m_events)

(* Every scheduler implements the event list that DefaultSimulatorImpl is  *)
(* built on: the insertions, the removals and the order of the events are  *)
(* those of the sorted set, and SetScheduler changes nothing of it.        *)
Implements == List!Spec
=============================================================================
