------------------------------ MODULE LockStep ------------------------------
(***************************************************************************)
(* What the OpenGym bridge promises an agent, episode by episode: the      *)
(* simulation and the agent take turns.  The simulation shows a state and  *)
(* stands still; it goes on only with the action chosen for that state, or *)
(* ends; an episode that has ended never moves again.                      *)
(***************************************************************************)
EXTENDS Naturals

CONSTANT Episode

VARIABLES turn,      \* whose turn it is in an episode
          shown,     \* states the simulation has shown
          applied    \* the state the last applied action was chosen for

vars == <<turn, shown, applied>>

Init ==
  /\ turn = [e \in Episode |-> "sim"]
  /\ shown = [e \in Episode |-> 0]
  /\ applied = [e \in Episode |-> 0]

Show(e) ==
  /\ turn[e] = "sim"
  /\ turn' = [turn EXCEPT ![e] = "agent"]
  /\ shown' = [shown EXCEPT ![e] = @ + 1]
  /\ UNCHANGED applied

Apply(e) ==
  /\ turn[e] = "agent"
  /\ turn' = [turn EXCEPT ![e] = "sim"]
  /\ applied' = [applied EXCEPT ![e] = shown[e]]
  /\ UNCHANGED shown

End(e) ==
  /\ turn[e] # "over"
  /\ turn' = [turn EXCEPT ![e] = "over"]
  /\ UNCHANGED <<shown, applied>>

Next == \E e \in Episode : Show(e) \/ Apply(e) \/ End(e)

Spec == Init /\ [][Next]_vars
=============================================================================
