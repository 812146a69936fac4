--------------------------- MODULE SimulatorProofs ---------------------------
(***************************************************************************)
(* The event loop of DefaultSimulatorImpl, for all delays and any number   *)
(* of events: time never goes back, IsExpired is right about every         *)
(* EventId, and none of the loop's assertions fails.                       *)
(***************************************************************************)
EXTENDS DefaultSimulatorImpl, TLAPS, FiniteSetTheorems, FunctionTheorems,
        SequenceTheorems

(* The event list and its count, as one operation leaves them. *)
ListSound(events, count) == IsFiniteSet(events) /\ count = Cardinality(events)

(* Inserting an event that is not in the list, and taking one out. *)
LEMMA InsertEvent ==
  ASSUME NEW S, NEW x, NEW n \in Nat, ListSound(S, n), x \notin S
  PROVE  ListSound(S \cup {x}, n + 1)
  BY FS_AddElement DEF ListSound

(* A list that holds an event is counted by a positive number. *)
LEMMA TakeEvent ==
  ASSUME NEW S, NEW x \in S, NEW n \in Nat, ListSound(S, n)
  PROVE  ListSound(S \ {x}, n - 1) /\ n - 1 \in Nat
  <1>1. /\ IsFiniteSet(S \ {x})
        /\ Cardinality(S \ {x}) = n - 1
    BY FS_RemoveElement DEF ListSound
  <1>2. Cardinality(S \ {x}) \in Nat
    BY <1>1, FS_CardinalityType
  <1> QED
    BY <1>1, <1>2 DEF ListSound

(* Inserting the k events of other threads, all of them new to the list. *)
LEMMA InsertHandedOver ==
  ASSUME NEW S, NEW n \in Nat, ListSound(S, n), NEW k \in Nat, NEW R,
         NEW f \in Bijection(1 .. k, R), \A e \in R : e \notin S
  PROVE  ListSound(S \cup R, n + k)
  <1>1. ExistsBijection(1 .. k, R)
    BY Fun_ExistsBij
  <1>2. IsFiniteSet(R) /\ Cardinality(R) = k
    BY <1>1, FS_CountingElements, FS_NatBijection
  <1>3. S \cap R = {}
    OBVIOUS
  <1>4. Cardinality(S \cap R) = 0
    BY <1>3, FS_EmptySet
  <1>5. IsFiniteSet(S \cup R) /\ Cardinality(S \cup R) = n + k - 0
    BY <1>2, <1>4, FS_Union DEF ListSound
  <1> QED
    BY <1>5 DEF ListSound

(* The constructor establishes the invariant. *)
LEMMA InitInv == Init => SimInv
  <1> SUFFICES ASSUME Init PROVE SimInv
    OBVIOUS
  <1>1. m_eventsWithContextEmpty \in BOOLEAN /\ m_stop \in BOOLEAN /\ FlagAgrees
    BY Zenon DEF Init, FlagAgrees
  <1>2. m_eventsWithContext \in Seq(Delays) /\ m_destroyEvents \in Seq(Nat)
    BY DEF Init
  <1>3. TypeOK
    BY <1>1, <1>2, SimulatorAssumption DEF Init, TypeOK, VALID, INVALID
  <1>4. KeysAhead
    BY SimulatorAssumption DEF Init, KeysAhead, VALID, INVALID
  <1>5. IsFiniteSet(m_events) /\ CountExact
    BY FS_EmptySet DEF Init, CountExact
  <1>6. UidsPast /\ ExpiredIsRight /\ NoAssertionFails
    BY DEF Init, UidsPast, ExpiredIsRight, NoAssertionFails
  <1> QED
    BY <1>1, <1>3, <1>4, <1>5, <1>6 DEF SimInv

(* Schedule puts an event ahead of the clock, with a uid never used. *)
LEMMA ScheduleInv ==
  ASSUME SimInv, NEW delay \in Delays, NEW kind \in Kind, Schedule(delay, kind)
  PROVE  SimInv'
  <1> DEFINE ev == [ts |-> m_currentTs + delay, uid |-> m_uid, kind |-> kind]
  <1> USE DEF SimInv
  <1>0. /\ m_uid \in Nat /\ m_uid' \in Nat /\ m_currentTs \in Nat /\ delay \in Nat
        /\ MaxUid \in Nat /\ m_currentUid \in Nat /\ Len(m_eventsWithContext) \in Nat
        /\ VALID <= m_uid /\ m_uid + Len(m_eventsWithContext) < MaxUid
    BY SimulatorAssumption DEF Schedule, Room, TypeOK, VALID
  <1>1. ev \in Event /\ ev.uid = m_uid /\ ev.ts = m_currentTs + delay
    BY <1>0 DEF Event
  <1> HIDE DEF ev
  <1>2. /\ m_events' = m_events \cup {ev} /\ ids' = ids \cup {ev}
        /\ m_uid' = m_uid + 1 /\ m_unscheduledEvents' = m_unscheduledEvents + 1
        /\ UNCHANGED <<pc, m_eventsWithContext, m_eventsWithContextEmpty, m_destroyEvents,
                       m_stop, m_currentUid, m_currentTs, cancelled, failed>>
    BY DEF Schedule, loopVars, ev
  <1>3. ev \notin m_events /\ ev.uid \notin cancelled
    BY <1>0, <1>1 DEF KeysAhead, UidsPast
  <1>4. TypeOK'
    <2>1. m_eventsWithContextEmpty' \in BOOLEAN /\ m_stop' \in BOOLEAN
      BY <1>2, Zenon DEF TypeOK
    <2>2. m_uid' \in VALID .. MaxUid /\ m_unscheduledEvents' \in Nat
      BY <1>0, <1>2 DEF TypeOK, VALID
    <2> QED
      BY <2>1, <2>2, <1>1, <1>2 DEF TypeOK
  <1>5. KeysAhead'
    <2>1. m_currentUid' < m_uid' /\ m_uid' + Len(m_eventsWithContext') <= MaxUid
      BY <1>0, <1>2 DEF KeysAhead
    <2>2. \A e \in m_events' :
            /\ VALID <= e.uid /\ e.uid < m_uid'
            /\ m_currentTs' < e.ts \/ (m_currentTs' = e.ts /\ m_currentUid' < e.uid)
      <3> TAKE e \in m_events'
      <3>1. CASE e = ev
        BY <3>1, <1>0, <1>1, <1>2 DEF KeysAhead
      <3>2. CASE e \in m_events
        BY <3>2, <1>0, <1>2 DEF KeysAhead, TypeOK, Event
      <3> QED
        BY <3>1, <3>2, <1>2
    <2>3. \A e, f \in m_events' : e.uid = f.uid => e = f
      BY <1>0, <1>1, <1>2 DEF KeysAhead
    <2> QED
      BY <2>1, <2>2, <2>3 DEF KeysAhead
  <1>6. UidsPast'
    BY <1>0, <1>1, <1>2 DEF UidsPast, TypeOK, Event
  <1>7. IsFiniteSet(m_events') /\ CountExact'
    BY <1>2, <1>3, InsertEvent DEF ListSound, CountExact, TypeOK
  <1>8. ExpiredIsRight'
    <2> SUFFICES ASSUME NEW id \in ids'
                 PROVE  ~IsExpired(id)' <=> (id \in m_events' /\ id.uid \notin cancelled')
      BY DEF ExpiredIsRight
    <2>1. CASE id = ev
      BY <2>1, <1>0, <1>1, <1>2, <1>3 DEF IsExpired, KeysAhead
    <2>2. CASE id # ev /\ id \in ids
      BY <2>2, <1>2 DEF IsExpired, ExpiredIsRight
    <2> QED
      BY <2>1, <2>2, <1>2
  <1>9. NoAssertionFails' /\ FlagAgrees'
    BY <1>2 DEF NoAssertionFails, FlagAgrees
  <1> QED
    BY <1>4, <1>5, <1>6, <1>7, <1>8, <1>9

(* An event handed over by another thread waits outside the event list. *)
LEMMA ScheduleWithContextInv ==
  ASSUME SimInv, NEW delay \in Delays, ScheduleWithContext(delay)
  PROVE  SimInv'
  <1> USE DEF SimInv
  <1>1. /\ m_eventsWithContext' = Append(m_eventsWithContext, delay)
        /\ m_eventsWithContextEmpty' = FALSE
        /\ UNCHANGED <<pc, m_events, m_destroyEvents, m_stop, m_uid, m_currentUid,
                       m_currentTs, m_unscheduledEvents, cancelled, ids, failed>>
    BY DEF ScheduleWithContext
  <1>2. /\ m_eventsWithContext' \in Seq(Delays)
        /\ Len(m_eventsWithContext') = Len(m_eventsWithContext) + 1
        /\ m_eventsWithContext' # << >>
    BY <1>1 DEF TypeOK
  <1>3. TypeOK'
    <2>1. m_eventsWithContextEmpty' \in BOOLEAN /\ m_stop' \in BOOLEAN
      BY <1>1, Zenon DEF TypeOK
    <2> QED
      BY <2>1, <1>1, <1>2 DEF TypeOK
  <1>4. KeysAhead'
    <2>1. m_uid + Len(m_eventsWithContext) + 1 <= MaxUid
      BY SimulatorAssumption DEF ScheduleWithContext, Room, TypeOK, VALID
    <2>2. m_uid' + Len(m_eventsWithContext') <= MaxUid
      BY <2>1, <1>1, <1>2, SimulatorAssumption DEF TypeOK, VALID
    <2> QED
      BY <2>2, <1>1 DEF KeysAhead
  <1>5. UidsPast' /\ IsFiniteSet(m_events') /\ CountExact' /\ NoAssertionFails'
    BY <1>1 DEF UidsPast, CountExact, NoAssertionFails
  <1>6. ExpiredIsRight'
    BY <1>1 DEF ExpiredIsRight, IsExpired
  <1>7. FlagAgrees'
    BY <1>1, <1>2 DEF FlagAgrees
  <1> QED
    BY <1>3, <1>4, <1>5, <1>6, <1>7

(* The calls that change neither the event list nor the clock: destroy     *)
(* events come and go, uids are used up, events are cancelled, the loop    *)
(* moves on.                                                               *)
LEMMA ListKeptInv ==
  ASSUME SimInv,
         UNCHANGED <<m_events, m_eventsWithContext, m_eventsWithContextEmpty,
                     m_currentUid, m_currentTs, m_unscheduledEvents, ids, failed>>,
         pc' \in {"main", "loop", "invoke", "returned", "destroy", "skipped", "gone"},
         m_stop' \in BOOLEAN,
         m_destroyEvents' \in Seq(Nat),
         m_uid' \in VALID .. MaxUid, m_uid <= m_uid',
         m_uid' + Len(m_eventsWithContext) <= MaxUid,
         cancelled \subseteq cancelled', \A u \in cancelled' : u \in Nat /\ u < m_uid',
         \A i \in 1 .. Len(m_destroyEvents') : m_destroyEvents'[i] < m_uid'
  PROVE  SimInv'
  <1> USE DEF SimInv
  <1>0. m_uid \in Nat /\ m_uid' \in Nat /\ m_currentUid \in Nat
    BY SimulatorAssumption DEF TypeOK, VALID
  <1>1. TypeOK'
    <2>1. m_eventsWithContextEmpty' \in BOOLEAN /\ m_stop' \in BOOLEAN
      BY Zenon DEF TypeOK
    <2> QED
      BY <2>1 DEF TypeOK
  <1>2. KeysAhead'
    BY <1>0 DEF KeysAhead, TypeOK, Event, VALID
  <1>3. UidsPast'
    BY <1>0 DEF UidsPast, TypeOK, Event
  <1>4. IsFiniteSet(m_events') /\ CountExact' /\ NoAssertionFails' /\ FlagAgrees'
    BY DEF CountExact, NoAssertionFails, FlagAgrees
  <1>5. ExpiredIsRight'
    BY DEF ExpiredIsRight, IsExpired
  <1> QED
    BY <1>1, <1>2, <1>3, <1>4, <1>5

(* Every action that keeps the event list and the clock. *)
LEMMA OtherCallsInv ==
  ASSUME SimInv,
         \/ ScheduleDestroy \/ Stop \/ RunReturns \/ Destroy
         \/ \E id \in ids : Cancel(id)
         \/ \E i \in 1 .. Len(m_destroyEvents) : RemoveDestroy(i)
         \/ \E i \in 1 .. Len(m_destroyEvents) : CancelDestroy(i)
  PROVE  SimInv'
  <1> USE DEF SimInv
  <1>0. /\ m_uid \in Nat /\ m_uid \in VALID .. MaxUid /\ m_stop \in BOOLEAN
        /\ m_destroyEvents \in Seq(Nat) /\ Len(m_eventsWithContext) \in Nat
        /\ m_uid + Len(m_eventsWithContext) <= MaxUid
        /\ \A u \in cancelled : u \in Nat /\ u < m_uid
        /\ \A i \in 1 .. Len(m_destroyEvents) :
             m_destroyEvents[i] \in Nat /\ m_destroyEvents[i] < m_uid
        /\ pc \in {"main", "loop", "invoke", "returned", "destroy", "skipped", "gone"}
    <2>1. m_stop \in BOOLEAN
      BY Zenon DEF TypeOK
    <2> QED
      BY <2>1, SimulatorAssumption DEF TypeOK, KeysAhead, UidsPast, VALID
  <1>1. CASE ScheduleDestroy
    <2>1. /\ m_destroyEvents' = Append(m_destroyEvents, m_uid) /\ m_uid' = m_uid + 1
          /\ m_uid + Len(m_eventsWithContext) < MaxUid
          /\ UNCHANGED <<pc, m_events, m_eventsWithContext, m_eventsWithContextEmpty, m_stop,
                         m_currentUid, m_currentTs, m_unscheduledEvents, cancelled, ids,
                         failed>>
      BY <1>1 DEF ScheduleDestroy, Room, loopVars
    <2>2. /\ m_uid' \in VALID .. MaxUid /\ m_uid <= m_uid'
          /\ m_uid' + Len(m_eventsWithContext) <= MaxUid
      BY <2>1, <1>0, SimulatorAssumption DEF VALID
    <2>3. /\ m_destroyEvents' \in Seq(Nat)
          /\ \A i \in 1 .. Len(m_destroyEvents') : m_destroyEvents'[i] < m_uid'
      BY <2>1, <1>0
    <2>4. \A u \in cancelled' : u \in Nat /\ u < m_uid'
      BY <2>1, <1>0
    <2> QED
      BY <2>1, <2>2, <2>3, <2>4, <1>0, ListKeptInv
  <1>2. CASE Stop
    <2>1. /\ m_stop' = TRUE
          /\ UNCHANGED <<pc, m_events, m_eventsWithContext, m_eventsWithContextEmpty,
                         m_destroyEvents, m_uid, m_currentUid, m_currentTs,
                         m_unscheduledEvents, cancelled, ids, failed>>
      BY <1>2 DEF Stop, loopVars
    <2> QED
      BY <2>1, <1>0, ListKeptInv
  <1>3. CASE RunReturns
    <2>1. /\ pc' = "main"
          /\ UNCHANGED <<m_events, m_eventsWithContext, m_eventsWithContextEmpty,
                         m_destroyEvents, m_stop, m_uid, m_currentUid, m_currentTs,
                         m_unscheduledEvents, cancelled, ids>>
          /\ failed' = IF m_events # {} \/ m_unscheduledEvents = 0 THEN failed ELSE "Run"
      BY <1>3 DEF RunReturns, loopVars
    <2>2. m_events = {} => m_unscheduledEvents = 0
      BY FS_EmptySet DEF CountExact
    <2>3. UNCHANGED failed
      BY <2>1, <2>2
    <2> QED
      BY <2>1, <2>3, <1>0, ListKeptInv
  <1>4. CASE Destroy
    <2>1. /\ pc' \in {"destroy", "skipped", "gone"}
          /\ \/ m_destroyEvents # << >> /\ m_destroyEvents' = Tail(m_destroyEvents)
             \/ UNCHANGED m_destroyEvents
          /\ UNCHANGED <<m_events, m_eventsWithContext, m_eventsWithContextEmpty, m_stop, m_uid,
                         m_currentUid, m_currentTs, m_unscheduledEvents, cancelled, ids,
                         failed>>
      BY <1>4 DEF Destroy, DestroyNext, DestroyReturns, loopVars
    <2>2. /\ m_destroyEvents' \in Seq(Nat)
          /\ \A i \in 1 .. Len(m_destroyEvents') : m_destroyEvents'[i] < m_uid'
      <3>1. CASE m_destroyEvents # << >> /\ m_destroyEvents' = Tail(m_destroyEvents)
        <4>1. /\ m_destroyEvents' \in Seq(Nat)
              /\ Len(m_destroyEvents') = Len(m_destroyEvents) - 1
              /\ Len(m_destroyEvents) \in Nat
          BY <3>1, <1>0, HeadTailProperties
        <4>2. \A i \in 1 .. Len(m_destroyEvents) - 1 :
                m_destroyEvents'[i] = m_destroyEvents[i + 1]
          BY <3>1, <1>0, HeadTailProperties
        <4>3. ASSUME NEW i \in 1 .. Len(m_destroyEvents')
              PROVE  m_destroyEvents'[i] < m_uid'
          <5>1. i \in 1 .. Len(m_destroyEvents) - 1 /\ i + 1 \in 1 .. Len(m_destroyEvents)
            BY <4>1
          <5> QED
            BY <5>1, <4>2, <2>1, <1>0
        <4> QED
          BY <4>1, <4>3
      <3>2. CASE UNCHANGED m_destroyEvents
        BY <3>2, <2>1, <1>0
      <3> QED
        BY <3>1, <3>2, <2>1
    <2> QED
      BY <2>1, <2>2, <1>0, ListKeptInv
  <1>5. CASE \E id \in ids : Cancel(id)
    <2> PICK id \in ids : Cancel(id)
      BY <1>5
    <2>1. /\ cancelled' = cancelled \cup {id.uid}
          /\ UNCHANGED <<pc, m_events, m_eventsWithContext, m_eventsWithContextEmpty,
                         m_destroyEvents, m_stop, m_uid, m_currentUid, m_currentTs,
                         m_unscheduledEvents, ids, failed>>
      BY DEF Cancel, loopVars
    <2>2. \A u \in cancelled' : u \in Nat /\ u < m_uid'
      BY <2>1, <1>0 DEF UidsPast, TypeOK, Event
    <2> QED
      BY <2>1, <2>2, <1>0, ListKeptInv
  <1>6. CASE \E i \in 1 .. Len(m_destroyEvents) : RemoveDestroy(i)
    <2> PICK i \in 1 .. Len(m_destroyEvents) : RemoveDestroy(i)
      BY <1>6
    <2> DEFINE n == Len(m_destroyEvents) - 1
    <2>1. UNCHANGED <<pc, m_events, m_eventsWithContext, m_eventsWithContextEmpty, m_stop,
                      m_uid, m_currentUid, m_currentTs, m_unscheduledEvents, cancelled,
                      ids, failed>>
      BY DEF RemoveDestroy, loopVars
    <2>2. n \in Nat
      BY <1>0
    <2>3. m_destroyEvents' =
            [j \in 1 .. n |-> m_destroyEvents[IF j < i THEN j ELSE j + 1]]
      BY DEF RemoveDestroy
    <2>4. \A j \in 1 .. n : (IF j < i THEN j ELSE j + 1) \in 1 .. Len(m_destroyEvents)
      BY <2>2, <1>0
    <2>5. m_destroyEvents' \in [1 .. n -> Nat]
      BY <2>3, <2>4, <1>0
    <2>6. m_destroyEvents' \in Seq(Nat) /\ Len(m_destroyEvents') = n
      BY <2>2, <2>5, SeqDef, LenProperties
    <2>7. \A j \in 1 .. Len(m_destroyEvents') : m_destroyEvents'[j] < m_uid'
      BY <2>1, <2>3, <2>4, <2>6, <1>0
    <2> QED
      BY <2>1, <2>6, <2>7, <1>0, ListKeptInv
  <1>7. CASE \E i \in 1 .. Len(m_destroyEvents) : CancelDestroy(i)
    <2> PICK i \in 1 .. Len(m_destroyEvents) : CancelDestroy(i)
      BY <1>7
    <2>1. /\ cancelled' = cancelled \cup {m_destroyEvents[i]}
          /\ UNCHANGED <<pc, m_events, m_eventsWithContext, m_eventsWithContextEmpty,
                         m_destroyEvents, m_stop, m_uid, m_currentUid, m_currentTs,
                         m_unscheduledEvents, ids, failed>>
      BY DEF CancelDestroy, loopVars
    <2>2. \A u \in cancelled' : u \in Nat /\ u < m_uid'
      BY <2>1, <1>0
    <2> QED
      BY <2>1, <2>2, <1>0, ListKeptInv
  <1> QED
    BY <1>1, <1>2, <1>3, <1>4, <1>5, <1>6, <1>7

(* Remove finds the event, since an unexpired EventId names one in the     *)
(* list.                                                                   *)
LEMMA RemoveInv ==
  ASSUME SimInv, NEW id \in ids, Remove(id)
  PROVE  SimInv'
  <1> USE DEF SimInv
  <1>1. id \in m_events
    BY DEF Remove, ExpiredIsRight
  <1>2. /\ m_events' = m_events \ {id}
        /\ cancelled' = cancelled \cup {id.uid}
        /\ m_unscheduledEvents' = m_unscheduledEvents - 1
        /\ UNCHANGED <<pc, m_eventsWithContext, m_eventsWithContextEmpty, m_destroyEvents,
                       m_stop, m_uid, m_currentUid, m_currentTs, ids, failed>>
    BY <1>1 DEF Remove, loopVars
  <1>3. id.uid \in Nat /\ id.uid < m_uid
    BY DEF TypeOK, Event, UidsPast
  <1>4. /\ IsFiniteSet(m_events') /\ CountExact'
        /\ m_unscheduledEvents' \in Nat
    BY <1>1, <1>2, TakeEvent DEF ListSound, CountExact, TypeOK
  <1>5. TypeOK'
    <2>1. m_eventsWithContextEmpty' \in BOOLEAN /\ m_stop' \in BOOLEAN
      BY <1>2, Zenon DEF TypeOK
    <2> QED
      BY <2>1, <1>2, <1>3, <1>4 DEF TypeOK
  <1>6. KeysAhead'
    BY <1>2 DEF KeysAhead
  <1>7. UidsPast'
    BY <1>2, <1>3 DEF UidsPast
  <1>8. ExpiredIsRight'
    BY <1>2 DEF ExpiredIsRight, IsExpired
  <1>9. NoAssertionFails' /\ FlagAgrees'
    BY <1>2 DEF NoAssertionFails, FlagAgrees
  <1> QED
    BY <1>4, <1>5, <1>6, <1>7, <1>8, <1>9

(* The events of other threads enter the list at the current time, each    *)
(* with the next uid; until the flag is seen they stay where they are.     *)
LEMMA HandOverInv ==
  ASSUME SimInv, ProcessEventsWithContext,
         pc' \in {"main", "loop", "invoke", "returned", "destroy", "skipped", "gone"},
         m_stop' \in BOOLEAN,
         UNCHANGED <<m_destroyEvents, m_currentUid, m_currentTs, cancelled, ids, failed>>
  PROVE  SimInv'
  <1> USE DEF SimInv
  <1>0. /\ m_uid \in Nat /\ m_uid \in VALID .. MaxUid /\ MaxUid \in Nat
        /\ m_currentTs \in Nat /\ m_currentUid \in Nat
        /\ m_eventsWithContext \in Seq(Delays) /\ Delays \subseteq Nat
        /\ Len(m_eventsWithContext) \in Nat
        /\ m_currentUid < m_uid
        /\ m_uid + Len(m_eventsWithContext) <= MaxUid
        /\ m_destroyEvents \in Seq(Nat)
        /\ \A u \in cancelled : u \in Nat /\ u < m_uid
    BY SimulatorAssumption DEF TypeOK, KeysAhead, UidsPast, VALID
  <1>1. CASE UNCHANGED <<m_events, m_uid, m_unscheduledEvents, loopVars>>
    <2>1. UNCHANGED <<m_events, m_uid, m_unscheduledEvents, m_eventsWithContext,
                      m_eventsWithContextEmpty>>
      BY <1>1 DEF loopVars
    <2> QED
      BY <2>1, <1>0, ListKeptInv DEF UidsPast
  <1>2. CASE ~UNCHANGED <<m_events, m_uid, m_unscheduledEvents, loopVars>>
    <2> DEFINE k == Len(m_eventsWithContext)
               f == [i \in 1 .. k |-> [ts |-> m_currentTs + m_eventsWithContext[i],
                                       uid |-> m_uid + i - 1, kind |-> "user"]]
               new == {f[i] : i \in 1 .. k}
    <2>1. /\ m_events' = m_events \cup new
          /\ m_uid' = m_uid + k
          /\ m_unscheduledEvents' = m_unscheduledEvents + k
          /\ m_eventsWithContext' = << >>
          /\ m_eventsWithContextEmpty' = TRUE
      BY <1>2 DEF ProcessEventsWithContext
    <2>2. \A i \in 1 .. k :
            /\ f[i] \in Event
            /\ f[i].uid = m_uid + i - 1
            /\ m_currentTs <= f[i].ts
      <3> TAKE i \in 1 .. k
      <3>1. m_eventsWithContext[i] \in Nat
        BY <1>0, ElementOfSeq
      <3> QED
        BY <3>1, <1>0 DEF Event, Kind
    <2>3. f \in [1 .. k -> Event]
      BY <2>2
    <2> HIDE DEF f
    <2>4. \A e \in new : /\ e \in Event /\ e.uid \in Nat /\ e.ts \in Nat
                         /\ m_uid <= e.uid /\ e.uid < m_uid + k /\ m_currentTs <= e.ts
      BY <2>2, <1>0 DEF Event
    <2>5. \A i, j \in 1 .. k : f[i].uid = f[j].uid => i = j
      BY <2>2, <1>0
    <2>6. \A e \in m_events : e \in Event /\ e.uid \in Nat /\ e.ts \in Nat /\ e.uid < m_uid
      BY DEF KeysAhead, TypeOK, Event
    <2>7. \A e \in new : e \notin m_events
      BY <2>4, <2>6, <1>0
    <2>8. IsFiniteSet(m_events') /\ CountExact'
      <3>1. ListSound(m_events, m_unscheduledEvents) /\ m_unscheduledEvents \in Nat
        BY DEF ListSound, CountExact, TypeOK
      <3>2. f \in Bijection(1 .. k, new)
        BY <2>3, <2>5, Fun_IsBij
      <3>3. k \in Nat
        BY <1>0
      <3> HIDE DEF k, new
      <3>4. ListSound(m_events \cup new, m_unscheduledEvents + k)
        BY <3>1, <3>2, <3>3, <2>7, InsertHandedOver
      <3> QED
        BY <3>4, <2>1 DEF ListSound, CountExact
    <2>9. TypeOK'
      <3>1. m_eventsWithContextEmpty' \in BOOLEAN /\ m_stop' \in BOOLEAN
        BY <2>1, Zenon DEF TypeOK
      <3>2. m_uid' \in VALID .. MaxUid /\ m_unscheduledEvents' \in Nat
        BY <2>1, <1>0 DEF TypeOK, VALID
      <3>3. m_events' \subseteq Event /\ m_eventsWithContext' \in Seq(Delays)
        BY <2>1, <2>4, <2>6
      <3> QED
        BY <3>1, <3>2, <3>3 DEF TypeOK
    <2>10. KeysAhead'
      <3>1. m_currentUid' < m_uid' /\ m_uid' + Len(m_eventsWithContext') <= MaxUid
        BY <2>1, <1>0
      <3>2. \A e \in m_events' :
              /\ VALID <= e.uid /\ e.uid < m_uid'
              /\ m_currentTs' < e.ts \/ (m_currentTs' = e.ts /\ m_currentUid' < e.uid)
        <4> TAKE e \in m_events'
        <4>1. CASE e \in new
          <5>1. /\ e.uid \in Nat /\ e.ts \in Nat /\ m_currentTs <= e.ts
                /\ m_uid <= e.uid /\ e.uid < m_uid + k
            BY <4>1, <2>4
          <5> HIDE DEF k, new
          <5> QED
            BY <5>1, <2>1, <1>0 DEF VALID
        <4>2. CASE e \in m_events
          BY <4>2, <2>1, <2>6, <1>0 DEF KeysAhead
        <4> QED
          BY <4>1, <4>2, <2>1
      <3>3. \A e, g \in m_events' : e.uid = g.uid => e = g
        <4> SUFFICES ASSUME NEW e \in m_events', NEW g \in m_events', e.uid = g.uid
                     PROVE  e = g
          OBVIOUS
        <4>1. CASE e \in new /\ g \in new
          BY <4>1, <2>5
        <4>2. CASE e \in m_events /\ g \in m_events
          BY <4>2 DEF KeysAhead
        <4>3. ~(e \in m_events /\ g \in new) /\ ~(e \in new /\ g \in m_events)
          BY <2>4, <2>6, <1>0 DEF Event
        <4> QED
          BY <4>1, <4>2, <4>3, <2>1
      <3> QED
        BY <3>1, <3>2, <3>3 DEF KeysAhead
    <2>11. UidsPast'
      BY <2>1, <1>0 DEF UidsPast, TypeOK, Event
    <2>12. ExpiredIsRight'
      <3> SUFFICES ASSUME NEW id \in ids'
                   PROVE  ~IsExpired(id)' <=> (id \in m_events' /\ id.uid \notin cancelled')
        BY DEF ExpiredIsRight
      <3>1. id \in ids /\ id.uid \in Nat /\ id.uid < m_uid
        BY DEF UidsPast, TypeOK, Event
      <3>2. id \in m_events' <=> id \in m_events
        <4>1. id \notin new
          <5> HIDE DEF new
          <5>1. id \in new => m_uid <= id.uid
            BY <2>4
          <5> QED
            BY <5>1, <3>1, <1>0
        <4> QED
          BY <4>1, <2>1
      <3>3. IsExpired(id)' <=> IsExpired(id)
        BY DEF IsExpired
      <3> QED
        BY <3>1, <3>2, <3>3 DEF ExpiredIsRight
    <2>13. NoAssertionFails' /\ FlagAgrees'
      BY <2>1 DEF NoAssertionFails, FlagAgrees
    <2> QED
      BY <2>8, <2>9, <2>10, <2>11, <2>12, <2>13
  <1> QED
    BY <1>1, <1>2

(* The loop takes the first event of the list: the clock moves to its key, *)
(* which is later than the last, and what is left is later still.          *)
LEMMA ProcessOneEventInv ==
  ASSUME SimInv, NEW next \in m_events, ProcessOneEvent(next)
  PROVE  /\ SimInv'
         /\ m_currentTs < m_currentTs'
              \/ (m_currentTs = m_currentTs' /\ m_currentUid < m_currentUid')
  <1> USE DEF SimInv
  <1>0. /\ next.ts \in Nat /\ next.uid \in Nat /\ m_currentTs \in Nat /\ m_currentUid \in Nat
        /\ m_uid \in Nat /\ next.uid < m_uid
        /\ m_currentTs < next.ts \/ (m_currentTs = next.ts /\ m_currentUid < next.uid)
    BY SimulatorAssumption DEF TypeOK, Event, KeysAhead, VALID
  <1>1. /\ m_events' = m_events \ {next}
        /\ m_unscheduledEvents' = m_unscheduledEvents - 1
        /\ m_currentTs' = next.ts
        /\ m_currentUid' = next.uid
        /\ m_stop' = (m_stop \/ (next.kind = "stop" /\ next.uid \notin cancelled))
        /\ pc' \in {"invoke", "returned"}
        /\ UNCHANGED <<m_eventsWithContext, m_eventsWithContextEmpty, m_destroyEvents, m_uid,
                       cancelled, ids, failed>>
    BY <1>0 DEF ProcessOneEvent, loopVars
  <1>2. \A e \in m_events' :
          /\ e.ts \in Nat /\ e.uid \in Nat
          /\ next.ts < e.ts \/ (next.ts = e.ts /\ next.uid < e.uid)
    BY <1>1 DEF ProcessOneEvent, Before, TypeOK, Event
  <1>3. /\ IsFiniteSet(m_events') /\ CountExact'
        /\ m_unscheduledEvents' \in Nat
    BY <1>1, TakeEvent DEF ListSound, CountExact, TypeOK
  <1>4. TypeOK'
    <2>1. m_eventsWithContextEmpty' \in BOOLEAN /\ m_stop' \in BOOLEAN
      BY <1>1, Zenon DEF TypeOK
    <2> QED
      BY <2>1, <1>0, <1>1, <1>3 DEF TypeOK
  <1>5. KeysAhead'
    BY <1>0, <1>1, <1>2 DEF KeysAhead
  <1>6. UidsPast' /\ NoAssertionFails' /\ FlagAgrees'
    BY <1>1 DEF UidsPast, NoAssertionFails, FlagAgrees
  <1>7. ExpiredIsRight'
    <2> SUFFICES ASSUME NEW id \in ids
                 PROVE  ~IsExpired(id)' <=> (id \in m_events' /\ id.uid \notin cancelled')
      BY <1>1 DEF ExpiredIsRight
    <2>0. id.ts \in Nat /\ id.uid \in Nat
      BY DEF TypeOK, Event
    <2>1. CASE id = next
      BY <2>1, <1>0, <1>1 DEF IsExpired
    <2>2. CASE id \in m_events'
      BY <2>0, <2>2, <1>0, <1>1, <1>2 DEF IsExpired
    <2>3. CASE id \notin m_events
      <3>1. IsExpired(id)
        BY <2>3 DEF ExpiredIsRight
      <3>2. IsExpired(id)'
        BY <3>1, <2>0, <1>0, <1>1 DEF IsExpired
      <3> QED
        BY <3>2, <2>3, <1>1
    <2> QED
      BY <2>1, <2>2, <2>3, <1>1
  <1> QED
    BY <1>0, <1>1, <1>3, <1>4, <1>5, <1>6, <1>7

(* Every step keeps the invariant, and only ProcessOneEvent moves the      *)
(* clock.                                                                  *)
LEMMA NextInv ==
  ASSUME SimInv, [Next]_vars
  PROVE  /\ SimInv'
         /\ \/ UNCHANGED <<m_currentTs, m_currentUid>>
            \/ m_currentTs < m_currentTs'
            \/ m_currentTs = m_currentTs' /\ m_currentUid < m_currentUid'
  <1>1. CASE \E d \in Delays, k \in Kind : Schedule(d, k)
    BY <1>1, ScheduleInv DEF Schedule
  <1>2. CASE \E d \in Delays : ScheduleWithContext(d)
    BY <1>2, ScheduleWithContextInv DEF ScheduleWithContext
  <1>3. CASE \/ ScheduleDestroy \/ Stop \/ RunReturns \/ Destroy
             \/ \E id \in ids : Cancel(id)
             \/ \E i \in 1 .. Len(m_destroyEvents) : RemoveDestroy(i)
             \/ \E i \in 1 .. Len(m_destroyEvents) : CancelDestroy(i)
    <2>1. UNCHANGED <<m_currentTs, m_currentUid>>
      BY <1>3 DEF ScheduleDestroy, Stop, RunReturns, Destroy, DestroyNext, DestroyReturns,
                  Cancel, RemoveDestroy, CancelDestroy
    <2> QED
      BY <2>1, <1>3, OtherCallsInv
  <1>4. CASE \E id \in ids : Remove(id)
    BY <1>4, RemoveInv DEF Remove
  <1>5. CASE Run
    <2>1. /\ ProcessEventsWithContext /\ pc' = "loop" /\ m_stop' = FALSE
          /\ UNCHANGED <<m_destroyEvents, m_currentUid, m_currentTs, cancelled, ids, failed>>
      BY <1>5 DEF Run
    <2>2. m_stop' \in BOOLEAN
      BY <2>1, Zenon
    <2> QED
      BY <2>1, <2>2, HandOverInv
  <1>6. CASE EndEvent
    <2>1. /\ ProcessEventsWithContext /\ pc' = "loop"
          /\ UNCHANGED <<m_destroyEvents, m_stop, m_currentUid, m_currentTs, cancelled, ids,
                         failed>>
      BY <1>6 DEF EndEvent
    <2>2. m_stop' \in BOOLEAN
      BY <2>1, Zenon DEF SimInv, TypeOK
    <2> QED
      BY <2>1, <2>2, HandOverInv
  <1>7. CASE \E e \in m_events : ProcessOneEvent(e)
    BY <1>7, ProcessOneEventInv
  <1>8. CASE UNCHANGED vars
    <2>1. UNCHANGED <<pc, m_events, m_eventsWithContext, m_eventsWithContextEmpty,
                      m_destroyEvents, m_stop, m_uid, m_currentUid, m_currentTs,
                      m_unscheduledEvents, cancelled, ids, failed>>
      BY <1>8 DEF vars, loopVars
    <2> QED
      BY <2>1 DEF SimInv, TypeOK, KeysAhead, UidsPast, CountExact, ExpiredIsRight, IsExpired,
                  NoAssertionFails, FlagAgrees
  <1> QED
    BY <1>1, <1>2, <1>3, <1>4, <1>5, <1>6, <1>7, <1>8 DEF Next, MainThread

(* What a step does to the events of the list: it leaves the clock alone   *)
(* and adds events of fresh uids that are not in the past, or it runs the  *)
(* first event.                                                            *)
LEMMA ListMoves ==
  ASSUME SimInv, [Next]_vars
  PROVE  \/ /\ UNCHANGED <<m_currentTs, m_currentUid>>
            /\ \A f \in m_events' \ m_events :
                 f.ts \in Nat /\ f.uid \in Nat /\ m_currentTs <= f.ts /\ m_uid <= f.uid
         \/ \E next \in m_events :
              /\ m_events' = m_events \ {next}
              /\ \A e \in m_events \ {next} : Before(next, e)
  <1>0. m_uid \in Nat /\ m_currentTs \in Nat /\ Delays \subseteq Nat
    BY SimulatorAssumption DEF SimInv, TypeOK, VALID
  <1>1. CASE \E d \in Delays, k \in Kind : Schedule(d, k)
    BY <1>1, <1>0 DEF Schedule
  <1>2. CASE Run \/ EndEvent
    <2>1. UNCHANGED <<m_currentTs, m_currentUid>> /\ ProcessEventsWithContext
      BY <1>2 DEF Run, EndEvent
    <2>2. ASSUME NEW f \in m_events' \ m_events
          PROVE  f.ts \in Nat /\ f.uid \in Nat /\ m_currentTs <= f.ts /\ m_uid <= f.uid
      <3>1. PICK i \in 1 .. Len(m_eventsWithContext) :
              f = [ts |-> m_currentTs + m_eventsWithContext[i], uid |-> m_uid + i - 1,
                   kind |-> "user"]
        BY <2>1, <2>2 DEF ProcessEventsWithContext
      <3>2. m_eventsWithContext \in Seq(Delays)
        BY DEF SimInv, TypeOK
      <3>3. m_eventsWithContext[i] \in Nat
        BY <3>2, <1>0, ElementOfSeq
      <3>4. i \in Nat /\ 1 <= i
        BY <3>2
      <3> QED
        BY <3>1, <3>3, <3>4, <1>0
    <2> QED
      BY <2>1, <2>2
  <1>3. CASE \E e \in m_events : ProcessOneEvent(e)
    BY <1>3 DEF ProcessOneEvent
  <1>4. CASE \/ ScheduleDestroy \/ Stop \/ RunReturns \/ Destroy \/ UNCHANGED vars
             \/ \E id \in ids : Cancel(id)
             \/ \E id \in ids : Remove(id)
             \/ \E i \in 1 .. Len(m_destroyEvents) : RemoveDestroy(i)
             \/ \E i \in 1 .. Len(m_destroyEvents) : CancelDestroy(i)
             \/ \E d \in Delays : ScheduleWithContext(d)
    <2>1. UNCHANGED <<m_currentTs, m_currentUid>> /\ m_events' \subseteq m_events
      BY <1>4 DEF ScheduleDestroy, Stop, RunReturns, Destroy, DestroyNext, DestroyReturns,
                  Cancel, Remove, RemoveDestroy, CancelDestroy, ScheduleWithContext, vars
    <2> QED
      BY <2>1
  <1> QED
    BY <1>1, <1>2, <1>3, <1>4 DEF Next, MainThread

-----------------------------------------------------------------------------
(* The event loop keeps its invariant under any interleaving of the main   *)
(* thread with the threads that hand it events (SimInv).                   *)
THEOREM SimulatorInvariant == Spec => []SimInv
  <1>1. SimInv /\ [Next]_vars => SimInv'
    BY NextInv
  <1> QED
    BY <1>1, InitInv, PTL DEF Spec

(* No assertion of ProcessOneEvent, Run or the scheduler's Remove fails    *)
(* (NoAssertionFails).                                                     *)
THEOREM LoopAssertionsHold == Spec => []NoAssertionFails
  <1>1. SimInv => NoAssertionFails
    BY DEF SimInv
  <1> QED
    BY <1>1, SimulatorInvariant, PTL

(* IsExpired tells of every EventId whether its event will still run       *)
(* (ExpiredIsRight).                                                       *)
THEOREM ExpirationCorrect == Spec => []ExpiredIsRight
  <1>1. SimInv => ExpiredIsRight
    BY DEF SimInv
  <1> QED
    BY <1>1, SimulatorInvariant, PTL

(* m_unscheduledEvents is the number of events in the list (CountExact). *)
THEOREM CountCorrect == Spec => []CountExact
  <1>1. SimInv => CountExact
    BY DEF SimInv
  <1> QED
    BY <1>1, SimulatorInvariant, PTL

(* Events run in the order of their keys (EventsInOrder). *)
THEOREM TimeOrder == Spec => EventsInOrder
  <1>1. ASSUME SimInv, [Next]_vars
        PROVE  [\/ UNCHANGED <<m_currentTs, m_currentUid>>
                \/ m_currentTs < m_currentTs'
                \/ m_currentTs = m_currentTs' /\ m_currentUid < m_currentUid']_vars
    BY <1>1, NextInv
  <1> QED
    BY <1>1, SimulatorInvariant, PTL DEF Spec, EventsInOrder

(* Of the events that wait, none is overtaken by one for its own time or a *)
(* later one, and whatever is run stood ahead of it (TurnComesCloser).     *)
THEOREM BoundedWait == Spec => TurnComesCloser
  <1> DEFINE Step ==
        \A e \in m_events \cap m_events' :
          /\ \A f \in Ahead(e, m_events') \ m_events : m_currentTs <= f.ts /\ f.ts < e.ts
          /\ \/ UNCHANGED <<m_currentTs, m_currentUid>>
             \/ \E f \in Ahead(e, m_events) : m_events' = m_events \ {f}
  <1>1. ASSUME SimInv, [Next]_vars PROVE Step
    <2> SUFFICES ASSUME NEW e \in m_events, e \in m_events'
                 PROVE  /\ \A f \in Ahead(e, m_events') \ m_events :
                             m_currentTs <= f.ts /\ f.ts < e.ts
                        /\ \/ UNCHANGED <<m_currentTs, m_currentUid>>
                           \/ \E f \in Ahead(e, m_events) : m_events' = m_events \ {f}
      OBVIOUS
    <2>1. /\ e.ts \in Nat /\ e.uid \in Nat /\ e.uid < m_uid
          /\ m_uid \in Nat /\ m_currentTs \in Nat
      BY <1>1, SimulatorAssumption DEF SimInv, TypeOK, Event, KeysAhead, VALID
    <2>2. CASE /\ UNCHANGED <<m_currentTs, m_currentUid>>
               /\ \A f \in m_events' \ m_events :
                    f.ts \in Nat /\ f.uid \in Nat /\ m_currentTs <= f.ts /\ m_uid <= f.uid
      BY <2>1, <2>2 DEF Ahead, Before
    <2>3. CASE \E next \in m_events :
                 /\ m_events' = m_events \ {next}
                 /\ \A g \in m_events \ {next} : Before(next, g)
      BY <2>3 DEF Ahead
    <2> QED
      BY <1>1, <2>2, <2>3, ListMoves
  <1>2. SimInv /\ [Next]_vars => [Step]_vars
    BY <1>1
  <1>3. TurnComesCloser <=> [][Step]_vars
    BY DEF TurnComesCloser
  <1> QED
    BY <1>2, <1>3, SimulatorInvariant, PTL DEF Spec
=============================================================================
