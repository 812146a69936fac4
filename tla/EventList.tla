------------------------------ MODULE EventList ------------------------------
(***************************************************************************)
(* What a Scheduler promises the event loop (scheduler.h): a set of events *)
(* from which RemoveNext takes the earliest and Remove a given one.        *)
(* DefaultSimulatorImpl is built on this list; Schedulers implements it.   *)
(***************************************************************************)
EXTENDS Naturals

VARIABLES events,     \* the events in the list, [ts, uid]
          last,       \* the event RemoveNext returned last
          removed     \* calls of Remove so far

vars == <<events, last, removed>>

(* operator < of Scheduler::EventKey: earlier, or scheduled first. *)
Before(e, f) == e.ts < f.ts \/ (e.ts = f.ts /\ e.uid < f.uid)

Earliest(e) == e \in events /\ \A f \in events \ {e} : Before(e, f)

Init == events = {} /\ last = [ts |-> 0, uid |-> 0] /\ removed = 0

(* One new event, not earlier than the one under way. *)
Insert ==
  /\ UNCHANGED <<last, removed>>
  /\ \E e \in events' \ events : last.ts <= e.ts /\ events' = events \cup {e}

RemoveNext(e) ==
  /\ last' = e /\ UNCHANGED removed
  /\ Earliest(e)
  /\ events' = events \ {e}

Remove(e) ==
  /\ removed' = removed + 1 /\ UNCHANGED last
  /\ events' = events \ {e}

Next ==
  \/ Insert
  \/ \E e \in events : RemoveNext(e) \/ Remove(e)

Spec == Init /\ [][Next]_vars
=============================================================================
