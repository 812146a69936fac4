---------------------------- MODULE CalendarQueue ----------------------------
(***************************************************************************)
(* The data structure of CalendarScheduler                                 *)
(* (src/src/core/model/calendar-scheduler.cc): a year of m_nBuckets        *)
(* buckets, m_width wide, each a sorted list; the search for the next      *)
(* event begins at the bucket of the event removed last.  The structure    *)
(* resizes itself, with a width sampled from its own first events.         *)
(***************************************************************************)
EXTENDS Integers, Sequences, FiniteSets, FiniteSetsExt, SequencesExt

Before(e, f) == e.ts < f.ts \/ (e.ts = f.ts /\ e.uid < f.uid)

(* The order of a list that begins with the earliest, or the latest, event. *)
Precedes(reverse, e, f) == IF reverse THEN Before(f, e) ELSE Before(e, f)

(* The list with ev put before the first event that it precedes. *)
InsertInOrder(list, ev, reverse) ==
  LET later == {i \in 1 .. Len(list) : Precedes(reverse, ev, list[i])}
  IN  InsertAt(list, IF later = {} THEN Len(list) + 1 ELSE Min(later), ev)

(* The list without the event of ev's uid. *)
Erase(list, ev) ==
  RemoveAt(list, Min({i \in 1 .. Len(list) : list[i].uid = ev.uid}))

-----------------------------------------------------------------------------
(* m_reverse turns the lists round: the next event is the last of them. *)

nBuckets(c) == Cardinality(DOMAIN c.buckets)

NextEvent(c, i) == IF c.reverse THEN Last(c.buckets[i]) ELSE Head(c.buckets[i])

Pop(c, i) ==
  [c EXCEPT !.buckets[i] = IF c.reverse THEN Front(@) ELSE Tail(@)]

Hash(c, ts) == (ts \div c.width) % nBuckets(c)

(* The search begins at the bucket of prio, in prio's year. *)
StartAt(c, prio) ==
  [c EXCEPT !.lastPrio = prio,
            !.lastBucket = Hash(c, prio),
            !.bucketTop = (prio \div c.width + 1) * c.width]

(* Init, which leaves m_qSize and m_reverse alone. *)
InitCalendar(c, n, width, startPrio) ==
  StartAt([c EXCEPT !.buckets = [i \in 0 .. n - 1 |-> << >>], !.width = width], startPrio)

NewCalendar(reverse) ==
  InitCalendar([reverse |-> reverse, buckets |-> << >>, width |-> 1, lastBucket |-> 0,
                lastPrio |-> 0, bucketTop |-> 1, qSize |-> 0], 2, 1, 0)

DoInsert(c, ev) ==
  [c EXCEPT !.buckets[Hash(c, ev.ts)] = InsertInOrder(@, ev, c.reverse)]

(* DoInsert, for every event of a list. *)
InsertList(c, list) ==
  LET after[k \in 0 .. Len(list)] ==
        IF k = 0 THEN c ELSE DoInsert(after[k - 1], list[k])
  IN  after[Len(list)]

(* The events of the buckets together. *)
Events(c) == UNION {ToSet(c.buckets[i]) : i \in DOMAIN c.buckets}

-----------------------------------------------------------------------------
(* The search of PeekNext and DoRemoveNext.  In turn k it looks at the     *)
(* bucket k after m_lastBucket, for an event of the year.                  *)

BucketOf(c, k) == (c.lastBucket + k) % nBuckets(c)

Turns(c) == {k \in 0 .. nBuckets(c) - 1 : c.buckets[BucketOf(c, k)] # << >>}

(* The turns that would end the search with an event of this year. *)
Hits(c) ==
  {k \in Turns(c) : NextEvent(c, BucketOf(c, k)).ts < c.bucketTop + k * c.width}

(* After a year without a hit: the bucket whose first event is earliest. *)
MinBucket(c) ==
  LET first(k) == NextEvent(c, BucketOf(c, k))
  IN  BucketOf(c, CHOOSE k \in Turns(c) :
                    \A j \in Turns(c) \ {k} : Before(first(k), first(j)))

(* Mutant: without a hit, the first event met. *)
NextBucketFirstMet(c) ==
  LET hits == Hits(c)
  IN  BucketOf(c, Min(IF hits # {} THEN hits ELSE Turns(c)))

(* Where the search of PeekNext ends. *)
NextBucket(c) ==
  LET hits == Hits(c)
  IN  IF hits # {} THEN BucketOf(c, Min(hits)) ELSE MinBucket(c)

CalendarPeekNext(c) == NextEvent(c, NextBucket(c))

(* The event removed and the calendar left. *)
DoRemoveNext(c) ==
  LET hits == Hits(c)
      k    == Min(hits)
      b    == IF hits # {} THEN BucketOf(c, k) ELSE MinBucket(c)
      next == NextEvent(c, b)
  IN  [ev  |-> next,
       cal |-> IF hits # {}
               THEN [Pop(c, b) EXCEPT !.lastBucket = b, !.lastPrio = next.ts,
                                      !.bucketTop = c.bucketTop + k * c.width]
               ELSE StartAt(Pop(c, b), next.ts)]

-----------------------------------------------------------------------------
(* CalculateNewWidth takes its samples out of the calendar, in order, and  *)
(* puts them back.                                                         *)

nSamples(c) ==
  IF c.qSize <= 5 THEN c.qSize
  ELSE IF 5 + (c.qSize \div 10) > 25 THEN 25 ELSE 5 + (c.qSize \div 10)

Sample(c) ==
  LET taken[i \in 0 .. nSamples(c)] ==
        IF i = 0 THEN [cal |-> c, evs |-> << >>]
        ELSE LET was == taken[i - 1]
                 r   == DoRemoveNext(was.cal)
             IN  [cal |-> r.cal, evs |-> Append(was.evs, r.ev)]
  IN  taken[nSamples(c)]

(* The calendar c after the sampling. *)
PutBack(c, sample) ==
  [InsertList(sample.cal, sample.evs) EXCEPT
     !.lastBucket = c.lastBucket, !.bucketTop = c.bucketTop, !.lastPrio = c.lastPrio]

(* Three times the sum of the separations of the samples that are at most  *)
(* twice the average.                                                      *)
NewWidth(evs) ==
  LET n == Len(evs) - 1
      diff(i) == evs[i + 1].ts - evs[i].ts
      total[i \in 0 .. n] == IF i = 0 THEN 0 ELSE total[i - 1] + diff(i)
      twiceAvg == (total[n] \div n) * 2
      near[i \in 0 .. n] ==
        IF i = 0 THEN 0 ELSE near[i - 1] + (IF diff(i) <= twiceAvg THEN diff(i) ELSE 0)
  IN  IF 3 * near[n] > 1 THEN 3 * near[n] ELSE 1

(* Mutant: the events are put back by the old width. *)
DoResizeOldWidth(c, newSize, newWidth) ==
  LET moved[i \in 0 .. nBuckets(c)] ==
        IF i = 0 THEN InitCalendar(c, newSize, c.width, c.lastPrio)
        ELSE InsertList(moved[i - 1], c.buckets[i - 1])
  IN  StartAt([moved[nBuckets(c)] EXCEPT !.width = newWidth], c.lastPrio)

DoResize(c, newSize, newWidth) ==
  LET moved[i \in 0 .. nBuckets(c)] ==
        IF i = 0 THEN InitCalendar(c, newSize, newWidth, c.lastPrio)
        ELSE InsertList(moved[i - 1], c.buckets[i - 1])
  IN  moved[nBuckets(c)]

Resize(c, newSize) ==
  IF c.qSize < 2 THEN DoResize(c, newSize, 1)
  ELSE LET sample == Sample(c)
       IN  DoResize(PutBack(c, sample), newSize, NewWidth(sample.evs))

ResizeUp(c) ==
  IF c.qSize > 2 * nBuckets(c) /\ nBuckets(c) < 32768 THEN Resize(c, 2 * nBuckets(c)) ELSE c

ResizeDown(c) ==
  IF c.qSize < nBuckets(c) \div 2 THEN Resize(c, nBuckets(c) \div 2) ELSE c

CalendarInsert(c, ev) == ResizeUp([DoInsert(c, ev) EXCEPT !.qSize = @ + 1])

CalendarRemoveNext(c) ==
  LET r == DoRemoveNext(c)
  IN  [ev |-> r.ev, cal |-> ResizeDown([r.cal EXCEPT !.qSize = @ - 1])]

CalendarRemove(c, ev) ==
  ResizeDown([c EXCEPT !.buckets[Hash(c, ev.ts)] = Erase(@, ev), !.qSize = @ - 1])
=============================================================================
