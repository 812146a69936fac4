------------------------ MODULE DefaultSimulatorImpl ------------------------
(***************************************************************************)
(* The event loop (src/src/core/model/default-simulator-impl.cc): the main *)
(* thread schedules, cancels, removes and runs events, other threads hand  *)
(* it events through ScheduleWithContext.                                  *)
(*                                                                         *)
(* m_events is the event list as any Scheduler promises it: a set ordered  *)
(* by Scheduler::EventKey (time, then uid).  What an event does when it is *)
(* invoked is a sequence of calls to the simulator, one action each.  The  *)
(* context of an event is payload and is left out.                         *)
(***************************************************************************)
EXTENDS Integers, Sequences, FiniteSets

CONSTANTS Delays,     \* delays the program schedules with
          MaxUid      \* bound: m_uid stops here, far from the uint32 limit

VALID == 4            \* EventId::UID::VALID, the first uid of an event
INVALID == 0          \* EventId::UID::INVALID

ASSUME SimulatorAssumption ==
  /\ Delays \subseteq Nat
  /\ MaxUid \in Nat /\ VALID <= MaxUid

VARIABLES
  pc,                   \* where the main thread is
  m_events,             \* the scheduler's content
  m_eventsWithContext,  \* delays of the events other threads have handed over
  m_eventsWithContextEmpty,
  m_destroyEvents,      \* the destroy events, each by the uid it used up
  m_stop,
  m_uid,
  m_currentUid,
  m_currentTs,
  m_unscheduledEvents,
  cancelled,            \* EventImpl::m_cancel of every event and destroy event
  ids,                  \* the EventIds that Schedule has returned
  failed                \* "no", or the NS_ASSERT that failed

loopVars == <<m_eventsWithContext, m_eventsWithContextEmpty>>
vars == <<pc, m_events, loopVars, m_destroyEvents, m_stop, m_uid, m_currentUid,
          m_currentTs, m_unscheduledEvents, cancelled, ids, failed>>

Kind == {"user", "stop"}
Event == [ts : Nat, uid : Nat, kind : Kind]

(* Room for one more event under the bound. *)
Room == m_uid + Len(m_eventsWithContext) < MaxUid

(* The program's code runs: outside Run, in an event, in a destroy event. *)
UserCode == failed = "no" /\ pc \in {"main", "invoke", "destroy"}

Init ==
  /\ pc = "main"
  /\ m_events = {}
  /\ m_eventsWithContext = << >>
  /\ m_eventsWithContextEmpty = TRUE
  /\ m_destroyEvents = << >>
  /\ m_stop = FALSE
  /\ m_uid = VALID
  /\ m_currentUid = INVALID
  /\ m_currentTs = 0
  /\ m_unscheduledEvents = 0
  /\ cancelled = {}
  /\ ids = {}
  /\ failed = "no"

-----------------------------------------------------------------------------
(* Scheduler::EventKey: earlier in time, or scheduled first. *)

(* Mutant: ties are broken the other way round. *)
BeforeTiesLast(e, f) == e.ts < f.ts \/ (e.ts = f.ts /\ e.uid > f.uid)

Before(e, f) == e.ts < f.ts \/ (e.ts = f.ts /\ e.uid < f.uid)

(* Mutant: "<" for "<=": the event under way does not count as expired. *)
IsExpiredStrict(id) ==
  \/ id.ts < m_currentTs
  \/ id.ts = m_currentTs /\ id.uid < m_currentUid
  \/ id.uid \in cancelled

IsExpired(id) ==
  \/ id.ts < m_currentTs
  \/ id.ts = m_currentTs /\ id.uid <= m_currentUid
  \/ id.uid \in cancelled

(* Schedule, ScheduleNow (no delay), Stop with a delay, which schedules    *)
(* the event that calls Stop, and ScheduleWithContext on the main thread,  *)
(* whose EventId nobody gets to use.                                       *)
Schedule(delay, kind) ==
  LET ev == [ts |-> m_currentTs + delay, uid |-> m_uid, kind |-> kind]
  IN  /\ UserCode /\ Room
      /\ m_events' = m_events \cup {ev}
      /\ m_uid' = m_uid + 1
      /\ m_unscheduledEvents' = m_unscheduledEvents + 1
      /\ ids' = ids \cup {ev}
      /\ UNCHANGED <<pc, loopVars, m_destroyEvents, m_stop, m_currentUid, m_currentTs,
                     cancelled, failed>>

(* Mutant: the flag is not lowered. *)
ScheduleWithContextNoFlag(delay) ==
  /\ pc # "gone" /\ Room
  /\ m_eventsWithContext' = Append(m_eventsWithContext, delay)
  /\ UNCHANGED <<pc, m_events, m_eventsWithContextEmpty, m_destroyEvents, m_stop, m_uid,
                 m_currentUid, m_currentTs, m_unscheduledEvents, cancelled, ids, failed>>

(* ScheduleWithContext from another thread, under the mutex. *)
ScheduleWithContext(delay) ==
  /\ pc # "gone" /\ Room
  /\ m_eventsWithContext' = Append(m_eventsWithContext, delay)
  /\ m_eventsWithContextEmpty' = FALSE
  /\ UNCHANGED <<pc, m_events, m_destroyEvents, m_stop, m_uid, m_currentUid, m_currentTs,
                 m_unscheduledEvents, cancelled, ids, failed>>

ScheduleDestroy ==
  /\ UserCode /\ Room
  /\ m_destroyEvents' = Append(m_destroyEvents, m_uid)
  /\ m_uid' = m_uid + 1
  /\ UNCHANGED <<pc, m_events, loopVars, m_stop, m_currentUid, m_currentTs,
                 m_unscheduledEvents, cancelled, ids, failed>>

(* Remove of an event that has not expired; of any other it does nothing.  *)
(* The scheduler asserts that it holds the event.                          *)
Remove(id) ==
  /\ UserCode /\ ~IsExpired(id)
  /\ IF id \in m_events
     THEN /\ m_events' = m_events \ {id}
          /\ cancelled' = cancelled \cup {id.uid}
          /\ m_unscheduledEvents' = m_unscheduledEvents - 1
          /\ UNCHANGED failed
     ELSE /\ failed' = "Scheduler::Remove"
          /\ UNCHANGED <<m_events, cancelled, m_unscheduledEvents>>
  /\ UNCHANGED <<pc, loopVars, m_destroyEvents, m_stop, m_uid, m_currentUid, m_currentTs,
                 ids>>

Cancel(id) ==
  /\ UserCode /\ ~IsExpired(id)
  /\ cancelled' = cancelled \cup {id.uid}
  /\ UNCHANGED <<pc, m_events, loopVars, m_destroyEvents, m_stop, m_uid, m_currentUid,
                 m_currentTs, m_unscheduledEvents, ids, failed>>

(* Remove and Cancel of the i-th destroy event; one that is not in the     *)
(* list, or is cancelled, is expired.                                      *)
RemoveDestroy(i) ==
  /\ UserCode
  /\ m_destroyEvents' = [j \in 1 .. Len(m_destroyEvents) - 1 |->
                           m_destroyEvents[IF j < i THEN j ELSE j + 1]]
  /\ UNCHANGED <<pc, m_events, loopVars, m_stop, m_uid, m_currentUid, m_currentTs,
                 m_unscheduledEvents, cancelled, ids, failed>>

CancelDestroy(i) ==
  /\ UserCode /\ m_destroyEvents[i] \notin cancelled
  /\ cancelled' = cancelled \cup {m_destroyEvents[i]}
  /\ UNCHANGED <<pc, m_events, loopVars, m_destroyEvents, m_stop, m_uid, m_currentUid,
                 m_currentTs, m_unscheduledEvents, ids, failed>>

Stop ==
  /\ UserCode
  /\ m_stop' = TRUE
  /\ UNCHANGED <<pc, m_events, loopVars, m_destroyEvents, m_uid, m_currentUid, m_currentTs,
                 m_unscheduledEvents, cancelled, ids, failed>>

-----------------------------------------------------------------------------
(* ProcessEventsWithContext, in the calling step.  The flag is read without *)
(* the mutex: another thread's FALSE may not be seen yet.                   *)

ProcessEventsWithContext ==
  \/ UNCHANGED <<m_events, m_uid, m_unscheduledEvents, loopVars>>
  \/ /\ ~m_eventsWithContextEmpty
     /\ m_events' = m_events \cup
          {[ts |-> m_currentTs + m_eventsWithContext[i], uid |-> m_uid + i - 1, kind |-> "user"]
             : i \in 1 .. Len(m_eventsWithContext)}
     /\ m_uid' = m_uid + Len(m_eventsWithContext)
     /\ m_unscheduledEvents' = m_unscheduledEvents + Len(m_eventsWithContext)
     /\ m_eventsWithContext' = << >>
     /\ m_eventsWithContextEmpty' = TRUE

(* Run, up to its loop. *)
Run ==
  /\ failed = "no" /\ pc = "main"
  /\ ProcessEventsWithContext
  /\ m_stop' = FALSE
  /\ pc' = "loop"
  /\ UNCHANGED <<m_destroyEvents, m_currentUid, m_currentTs, cancelled, ids, failed>>

(* ProcessOneEvent, up to the call of Invoke, which does nothing for a     *)
(* cancelled event; a stop event's only call is Stop.                      *)
ProcessOneEvent(next) ==
  /\ failed = "no" /\ pc = "loop" /\ ~m_stop
  /\ next \in m_events /\ \A e \in m_events \ {next} : Before(next, e)
  /\ m_events' = m_events \ {next}
  /\ IF next.ts < m_currentTs
     THEN /\ failed' = "ProcessOneEvent"
          /\ UNCHANGED <<pc, m_stop, m_currentUid, m_currentTs, m_unscheduledEvents>>
     ELSE /\ m_unscheduledEvents' = m_unscheduledEvents - 1
          /\ m_currentTs' = next.ts
          /\ m_currentUid' = next.uid
          /\ m_stop' = (m_stop \/ (next.kind = "stop" /\ next.uid \notin cancelled))
          /\ pc' = IF next.kind = "user" /\ next.uid \notin cancelled
                   THEN "invoke" ELSE "returned"
          /\ UNCHANGED failed
  /\ UNCHANGED <<loopVars, m_destroyEvents, m_uid, cancelled, ids>>

(* Mutant: "if" for "while". *)
EndEventOnce ==
  /\ failed = "no" /\ pc \in {"invoke", "returned"}
  /\ ProcessEventsWithContext
  /\ pc' = "main"
  /\ UNCHANGED <<m_destroyEvents, m_stop, m_currentUid, m_currentTs, cancelled, ids, failed>>

(* The rest of ProcessOneEvent. *)
EndEvent ==
  /\ failed = "no" /\ pc \in {"invoke", "returned"}
  /\ ProcessEventsWithContext
  /\ pc' = "loop"
  /\ UNCHANGED <<m_destroyEvents, m_stop, m_currentUid, m_currentTs, cancelled, ids, failed>>

(* Run leaves its loop and checks its count. *)
RunReturns ==
  /\ failed = "no" /\ pc = "loop" /\ (m_events = {} \/ m_stop)
  /\ failed' = IF m_events # {} \/ m_unscheduledEvents = 0 THEN failed ELSE "Run"
  /\ pc' = "main"
  /\ UNCHANGED <<m_events, loopVars, m_destroyEvents, m_stop, m_uid, m_currentUid,
                 m_currentTs, m_unscheduledEvents, cancelled, ids>>

(* Destroy: one turn of its loop, which does not invoke a cancelled event, *)
(* and its end.                                                            *)
DestroyNext ==
  /\ failed = "no" /\ pc \in {"main", "destroy", "skipped"} /\ m_destroyEvents # << >>
  /\ m_destroyEvents' = Tail(m_destroyEvents)
  /\ pc' = IF Head(m_destroyEvents) \in cancelled THEN "skipped" ELSE "destroy"
  /\ UNCHANGED <<m_events, loopVars, m_stop, m_uid, m_currentUid, m_currentTs,
                 m_unscheduledEvents, cancelled, ids, failed>>

DestroyReturns ==
  /\ failed = "no" /\ pc \in {"main", "destroy", "skipped"} /\ m_destroyEvents = << >>
  /\ pc' = "gone"
  /\ UNCHANGED <<m_events, loopVars, m_destroyEvents, m_stop, m_uid, m_currentUid,
                 m_currentTs, m_unscheduledEvents, cancelled, ids, failed>>

Destroy == DestroyNext \/ DestroyReturns

MainThread ==
  \/ \E d \in Delays, k \in Kind : Schedule(d, k)
  \/ ScheduleDestroy
  \/ \E id \in ids : Remove(id)
  \/ \E id \in ids : Cancel(id)
  \/ \E i \in 1 .. Len(m_destroyEvents) : RemoveDestroy(i)
  \/ \E i \in 1 .. Len(m_destroyEvents) : CancelDestroy(i)
  \/ Stop
  \/ Run
  \/ \E e \in m_events : ProcessOneEvent(e)
  \/ EndEvent
  \/ RunReturns
  \/ Destroy

Next == MainThread \/ \E d \in Delays : ScheduleWithContext(d)

Spec == Init /\ [][Next]_vars

(* Once in Run the main thread goes on: events return and the loop turns.  *)
FairSpec ==
  /\ Spec
  /\ WF_vars(\E e \in m_events : ProcessOneEvent(e))
  /\ WF_vars(EndEvent)
  /\ WF_vars(RunReturns)

-----------------------------------------------------------------------------
(* Every variable has its C++ type; the signed m_unscheduledEvents is      *)
(* never negative, although removed, cancelled and handed-over events are  *)
(* counted at different places.                                            *)
TypeOK ==
  /\ pc \in {"main", "loop", "invoke", "returned", "destroy", "skipped", "gone"}
  /\ m_events \subseteq Event /\ ids \subseteq Event
  /\ m_eventsWithContext \in Seq(Delays)
  /\ m_eventsWithContextEmpty \in BOOLEAN /\ m_stop \in BOOLEAN
  /\ m_destroyEvents \in Seq(Nat)
  /\ m_uid \in VALID .. MaxUid /\ m_currentUid \in Nat /\ m_currentTs \in Nat
  /\ m_unscheduledEvents \in Nat
  /\ cancelled \subseteq Nat

(* The event list is ahead of the event under way: its keys are later than *)
(* the current one, distinct, and already handed out.                      *)
KeysAhead ==
  /\ m_currentUid < m_uid
  /\ m_uid + Len(m_eventsWithContext) <= MaxUid
  /\ \A e \in m_events :
       /\ VALID <= e.uid /\ e.uid < m_uid
       /\ m_currentTs < e.ts \/ (m_currentTs = e.ts /\ m_currentUid < e.uid)
  /\ \A e, f \in m_events : e.uid = f.uid => e = f

(* m_unscheduledEvents counts the event list, through removals, cancelled  *)
(* events and events from other threads: the consistency test at the end   *)
(* of Run (default-simulator-impl.cc:202-204) cannot fail.                 *)
CountExact == m_unscheduledEvents = Cardinality(m_events)

(* IsExpired answers from two numbers and a flag, and answers right: an    *)
(* EventId is unexpired exactly while its event is in the list and will    *)
(* run.  Remove relies on it to find the event it removes.                 *)
ExpiredIsRight ==
  \A id \in ids : ~IsExpired(id) <=> (id \in m_events /\ id.uid \notin cancelled)

(* Neither the check that time does not go back, nor that Remove finds its *)
(* event, nor the final count fails.                                       *)
NoAssertionFails == failed = "no"

(* The flag another thread reads and writes agrees with the list. *)
FlagAgrees == m_eventsWithContextEmpty <=> m_eventsWithContext = << >>

(* What is known of a uid was handed out before. *)
UidsPast ==
  /\ \A id \in ids : id.uid < m_uid
  /\ \A u \in cancelled : u < m_uid
  /\ \A i \in 1 .. Len(m_destroyEvents) : m_destroyEvents[i] < m_uid

(* The inductive invariant: with keys ahead of the clock, an exact count   *)
(* and uids never reused, every test of the event loop is decided.         *)
SimInv ==
  /\ TypeOK /\ KeysAhead /\ UidsPast
  /\ IsFiniteSet(m_events) /\ CountExact
  /\ ExpiredIsRight /\ NoAssertionFails /\ FlagAgrees

(* Events run in the order of time, and of scheduling at the same time. *)
EventsInOrder ==
  [][ \/ UNCHANGED <<m_currentTs, m_currentUid>>
      \/ m_currentTs < m_currentTs'
      \/ m_currentTs = m_currentTs' /\ m_currentUid < m_currentUid' ]_vars

(* The events that are to run before e. *)
Ahead(e, events) == {f \in events : Before(f, e)}

(* How long an event can be kept waiting: only an event for an earlier     *)
(* time than its own can still be put ahead of it, whoever schedules it,   *)
(* so that none can once its time has come, and every event that is run    *)
(* is one of those ahead of it.                                            *)
TurnComesCloser ==
  [][ \A e \in m_events \cap m_events' :
        /\ \A f \in Ahead(e, m_events') \ m_events : m_currentTs <= f.ts /\ f.ts < e.ts
        /\ \/ UNCHANGED <<m_currentTs, m_currentUid>>
           \/ \E f \in Ahead(e, m_events) : m_events' = m_events \ {f} ]_vars

Waits(u) == \E e \in m_events : e.uid = u

(* An event is put ahead of the one that waits with uid u. *)
Overtaken(u) ==
  \E e \in m_events, f \in m_events' \ m_events : e.uid = u /\ Before(f, e)

(* Every event in the list of a running simulation gets its turn, unless   *)
(* the simulation is stopped or the event is overtaken without end: a      *)
(* chain of events that reschedule themselves without delay, or threads    *)
(* that hand over events faster than they are run, starve what is          *)
(* scheduled for later.                                                    *)
EventsRun ==
  \A u \in VALID .. MaxUid :
    <>[][~Overtaken(u)]_vars =>
      ((pc = "loop" /\ Waits(u)) ~> (m_stop \/ ~Waits(u)))
=============================================================================
