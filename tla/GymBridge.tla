----------------------------- MODULE GymBridge ------------------------------
(***************************************************************************)
(* The OpenGym bridge: OpenGymInterface (opengym_interface.cc), in the     *)
(* simulation process, and Ns3ZmqBridge with Ns3Env (ns3env.py), in the    *)
(* agent's.  The simulation's REQ socket and the agent's REP socket are    *)
(* ZeroMQ: one request, one reply, and a send in the wrong order raises.   *)
(*                                                                         *)
(* Every episode has a simulation process and a Ns3ZmqBridge of its own;   *)
(* the agent is any sequence of step, reset and close, and may be          *)
(* interrupted while it waits (the agents catch KeyboardInterrupt and      *)
(* close).  Spaces, observations and rewards are payload: a state is its   *)
(* serial number, an action the number of the state it was chosen for.     *)
(***************************************************************************)
EXTENDS Naturals

CONSTANTS MaxEpisodes,   \* bound: bridges the agent creates
          MaxStates      \* bound: states a simulation shows before it ends

ASSUME GymAssumption ==
  MaxEpisodes \in Nat \ {0} /\ MaxStates \in Nat \ {0}

Episode == 1 .. MaxEpisodes

VARIABLES
  sim,             \* where the simulation process is
  m_initSimMsgSent,
  m_simEnd,
  request,         \* message from the simulation, not yet received
  reply,           \* message from the agent, not yet received
  shown,           \* EnvStateMsgs sent
  applied,         \* history: the state the last executed action was chosen for
  cur,             \* the agent's bridge; 0 before there is one
  agent,           \* where the agent is
  rep,             \* what the bridge's REP socket must do next
  envStopped, forceEnvStop, newStateRx, gameOver, obs,
  envDirty,
  resetting,       \* the close under way is reset's
  interrupted      \* the agent has been interrupted

simVars == <<sim, m_initSimMsgSent, m_simEnd, shown, applied>>
bridgeVars == <<rep, envStopped, forceEnvStop, newStateRx, gameOver, obs>>
envVars == <<cur, agent, envDirty, resetting, interrupted>>
vars == <<simVars, request, reply, bridgeVars, envVars>>

None == [type |-> "none"]
SimInitMsg == [type |-> "init"]
SimInitAck == [type |-> "ack", stop |-> FALSE]
EnvStateMsg(n, over, end) == [type |-> "state", n |-> n, over |-> over, end |-> end]
EnvActMsg(n, stop) == [type |-> "act", n |-> n, stop |-> stop]

Init ==
  /\ sim = [e \in Episode |-> "none"]
  /\ m_initSimMsgSent = [e \in Episode |-> FALSE]
  /\ m_simEnd = [e \in Episode |-> FALSE]
  /\ request = [e \in Episode |-> None]
  /\ reply = [e \in Episode |-> None]
  /\ shown = [e \in Episode |-> 0]
  /\ applied = [e \in Episode |-> 0]
  /\ cur = 0
  /\ agent = "new"
  /\ rep = "recv"
  /\ envStopped = FALSE /\ forceEnvStop = FALSE /\ newStateRx = FALSE
  /\ gameOver = FALSE /\ obs = 0
  /\ envDirty = FALSE /\ resetting = FALSE /\ interrupted = FALSE

-----------------------------------------------------------------------------
(* The simulation process. *)

(* NotifyCurrentState, from the call of GetObservation to the send. *)
SendState(e, over, end) ==
  /\ shown' = [shown EXCEPT ![e] = @ + 1]
  /\ request' = [request EXCEPT ![e] = EnvStateMsg(shown[e] + 1, over \/ end, end)]
  /\ sim' = [sim EXCEPT ![e] = "stateWait"]

(* NotifyCurrentState at a step of the simulation: Init comes first. *)
NotifyCurrentState(e) ==
  /\ sim[e] = "running"
  /\ IF m_initSimMsgSent[e]
     THEN /\ shown[e] < MaxStates
          /\ \E over \in BOOLEAN : SendState(e, over, FALSE)
          /\ UNCHANGED m_initSimMsgSent
     ELSE /\ m_initSimMsgSent' = [m_initSimMsgSent EXCEPT ![e] = TRUE]
          /\ request' = [request EXCEPT ![e] = SimInitMsg]
          /\ sim' = [sim EXCEPT ![e] = "initWait"]
          /\ UNCHANGED shown
  /\ UNCHANGED <<m_simEnd, applied, reply, bridgeVars, envVars>>

(* Mutant: Init does not look at the stop request of its acknowledgement. *)
RecvInitAckOnly(e) ==
  /\ sim[e] = "initWait" /\ reply[e].type # "none"
  /\ reply' = [reply EXCEPT ![e] = None]
  /\ \E over \in BOOLEAN : SendState(e, over, FALSE)
  /\ UNCHANGED <<m_initSimMsgSent, m_simEnd, applied, bridgeVars, envVars>>

(* Init receives its acknowledgement, and NotifyCurrentState goes on.  A   *)
(* close command reads as an acknowledgement that asks to stop: both       *)
(* messages carry stopSimReq as field 2 (messages.proto).                  *)
RecvInitAck(e) ==
  /\ sim[e] = "initWait" /\ reply[e].type # "none"
  /\ reply' = [reply EXCEPT ![e] = None]
  /\ IF reply[e].stop
     THEN sim' = [sim EXCEPT ![e] = "exited"] /\ UNCHANGED <<shown, request>>
     ELSE \E over \in BOOLEAN : SendState(e, over, FALSE)
  /\ UNCHANGED <<m_initSimMsgSent, m_simEnd, applied, bridgeVars, envVars>>

(* Mutant: the stop request is ignored. *)
RecvActIgnoresStop(e) ==
  /\ sim[e] = "stateWait" /\ reply[e].type = "act"
  /\ reply' = [reply EXCEPT ![e] = None]
  /\ IF m_simEnd[e]
     THEN sim' = [sim EXCEPT ![e] = "exited"] /\ UNCHANGED applied
     ELSE /\ sim' = [sim EXCEPT ![e] = "running"]
          /\ applied' = [applied EXCEPT ![e] = reply[e].n]
  /\ UNCHANGED <<m_initSimMsgSent, m_simEnd, shown, request, bridgeVars, envVars>>

(* The rest of NotifyCurrentState.  After the end of the simulation the    *)
(* reply is only read, and main returns; a stop request exits; otherwise   *)
(* the action is executed.                                                 *)
RecvAct(e) ==
  /\ sim[e] = "stateWait" /\ reply[e].type = "act"
  /\ reply' = [reply EXCEPT ![e] = None]
  /\ IF m_simEnd[e] \/ reply[e].stop
     THEN sim' = [sim EXCEPT ![e] = "exited"] /\ UNCHANGED applied
     ELSE /\ sim' = [sim EXCEPT ![e] = "running"]
          /\ applied' = [applied EXCEPT ![e] = reply[e].n]
  /\ UNCHANGED <<m_initSimMsgSent, m_simEnd, shown, request, bridgeVars, envVars>>

(* Mutant: the end of the simulation is not announced. *)
NotifySimulationEndQuiet(e) ==
  /\ sim[e] = "running"
  /\ m_simEnd' = [m_simEnd EXCEPT ![e] = TRUE]
  /\ sim' = [sim EXCEPT ![e] = "exited"]
  /\ UNCHANGED <<m_initSimMsgSent, shown, applied, request, reply, bridgeVars, envVars>>

(* Simulator::Run returns and main calls NotifySimulationEnd. *)
NotifySimulationEnd(e) ==
  /\ sim[e] = "running"
  /\ m_simEnd' = [m_simEnd EXCEPT ![e] = TRUE]
  /\ IF m_initSimMsgSent[e]
     THEN \E over \in BOOLEAN : SendState(e, over, TRUE)
     ELSE sim' = [sim EXCEPT ![e] = "exited"] /\ UNCHANGED <<shown, request>>
  /\ UNCHANGED <<m_initSimMsgSent, applied, reply, bridgeVars, envVars>>

(* An assertion of the simulation fails: the process is gone. *)
Crash(e) ==
  /\ sim[e] \in {"running", "initWait", "stateWait"}
  /\ sim' = [sim EXCEPT ![e] = "crashed"]
  /\ UNCHANGED <<m_initSimMsgSent, m_simEnd, shown, applied, request, reply, bridgeVars,
                 envVars>>

SimStep(e) ==
  NotifyCurrentState(e) \/ RecvInitAck(e) \/ RecvAct(e) \/ NotifySimulationEnd(e)

-----------------------------------------------------------------------------
(* The agent's process. *)

(* Ns3ZmqBridge(): a new bridge and a new simulation, which the bridge or  *)
(* the user starts.                                                        *)
NewBridge ==
  /\ agent \in {"new", "renew"} /\ cur < MaxEpisodes
  /\ cur' = cur + 1
  /\ sim' = [sim EXCEPT ![cur + 1] = "running"]
  /\ agent' = "init"
  /\ rep' = "recv"
  /\ envStopped' = FALSE /\ forceEnvStop' = FALSE /\ newStateRx' = FALSE
  /\ gameOver' = FALSE /\ obs' = 0
  /\ envDirty' = FALSE
  /\ UNCHANGED <<m_initSimMsgSent, m_simEnd, shown, applied, request, reply, resetting,
                 interrupted>>

Received(type) == cur > 0 /\ request[cur].type = type

(* initialize_env *)
InitializeEnv ==
  /\ agent = "init" /\ Received("init")
  /\ request' = [request EXCEPT ![cur] = None]
  /\ reply' = [reply EXCEPT ![cur] = SimInitAck]
  /\ agent' = "first"
  /\ UNCHANGED <<simVars, bridgeVars, cur, envDirty, resetting, interrupted>>

(* The agent's socket: one reply for each request. *)
SendReply(m) == rep' = "recv" /\ reply' = [reply EXCEPT ![cur] = m]

(* Mutant: a finished episode is left to the agent to close. *)
RxStateOpen ==
  LET m == request[cur]
  IN  /\ request' = [request EXCEPT ![cur] = None]
      /\ obs' = m.n /\ gameOver' = m.over /\ newStateRx' = TRUE
      /\ envStopped' = (envStopped \/ (m.over /\ m.end))
      /\ rep' = "send"
      /\ UNCHANGED <<forceEnvStop, reply>>

(* rx_env_state, when it reads a state: game over is answered at once with *)
(* a close command.                                                        *)
RxState ==
  LET m == request[cur]
  IN  /\ request' = [request EXCEPT ![cur] = None]
      /\ obs' = m.n /\ gameOver' = m.over /\ newStateRx' = TRUE
      /\ envStopped' = (envStopped \/ (m.over /\ m.end))
      /\ forceEnvStop' = (forceEnvStop \/ (m.over /\ ~m.end))
      /\ IF m.over THEN SendReply(EnvActMsg(0, TRUE)) ELSE rep' = "send" /\ UNCHANGED reply

(* The first state, read by Ns3Env's constructor or by reset. *)
RxFirst ==
  /\ agent = "first" /\ Received("state")
  /\ RxState
  /\ agent' = "idle"
  /\ UNCHANGED <<simVars, cur, envDirty, resetting, interrupted>>

(* Mutant: the state just answered is not forgotten. *)
StepKeepsState ==
  /\ agent = "idle" /\ ~interrupted /\ rep = "send"
  /\ SendReply(EnvActMsg(obs, forceEnvStop))
  /\ agent' = "step"
  /\ UNCHANGED <<simVars, request, envStopped, forceEnvStop, newStateRx, gameOver, obs, cur,
                 envDirty, resetting, interrupted>>

(* step up to the send of the action; in the wrong order the send raises   *)
(* and nothing changes.                                                    *)
Step ==
  /\ agent = "idle" /\ ~interrupted /\ rep = "send"
  /\ SendReply(EnvActMsg(obs, forceEnvStop))
  /\ newStateRx' = FALSE
  /\ agent' = "step"
  /\ UNCHANGED <<simVars, request, envStopped, forceEnvStop, gameOver, obs, cur, envDirty,
                 resetting, interrupted>>

(* step's rx_env_state, and its return. *)
RxStep ==
  /\ agent = "step"
  /\ IF newStateRx
     THEN UNCHANGED <<request, reply, bridgeVars>>
     ELSE Received("state") /\ RxState
  /\ agent' = "idle"
  /\ envDirty' = TRUE
  /\ UNCHANGED <<simVars, cur, resetting, interrupted>>

(* KeyboardInterrupt while step or reset waits for the simulation; the     *)
(* agents catch it, once, around the loop that follows the first reset.    *)
Interrupt ==
  /\ ~interrupted
  /\ agent = "step" \/ (agent \in {"init", "first"} /\ cur > 1)
  /\ agent' = "idle"
  /\ interrupted' = TRUE
  /\ UNCHANGED <<simVars, request, reply, bridgeVars, cur, envDirty, resetting>>

(* Where the agent is after Ns3ZmqBridge.close. *)
AfterClose(reset) == IF reset THEN "renew" ELSE "closed"

(* Ns3ZmqBridge.close up to its rx_env_state, called by reset or by close. *)
StartClose(reset) ==
  /\ resetting' = reset
  /\ envStopped' = TRUE
  /\ forceEnvStop' = (forceEnvStop \/ ~envStopped)
  /\ agent' = IF envStopped THEN AfterClose(reset) ELSE "closing"
  /\ UNCHANGED <<simVars, request, reply, rep, newStateRx, gameOver, obs, cur, envDirty,
                 interrupted>>

(* Ns3Env.close; an agent that was interrupted does nothing else. *)
Close == agent = "idle" /\ StartClose(FALSE)

(* Ns3Env.reset; before the first step it changes nothing. *)
Reset ==
  /\ agent = "idle" /\ ~interrupted /\ envDirty /\ cur < MaxEpisodes
  /\ StartClose(TRUE)

(* The rest of Ns3ZmqBridge.close: rx_env_state and the close command.  A  *)
(* state that is game over has been answered with the command already, and *)
(* the second one raises and is swallowed.  A SimInitMsg read here has     *)
(* none of the fields of an EnvStateMsg.                                   *)
CloseRx ==
  /\ agent = "closing"
  /\ \/ newStateRx /\ rep = "recv" /\ UNCHANGED <<request, reply, bridgeVars>>
     \/ /\ newStateRx /\ rep = "send"
        /\ SendReply(EnvActMsg(0, TRUE))
        /\ newStateRx' = FALSE
        /\ UNCHANGED <<request, envStopped, forceEnvStop, gameOver, obs>>
     \/ ~newStateRx /\ Received("state") /\ request[cur].over /\ RxState
     \/ /\ ~newStateRx /\ Received("state") /\ ~request[cur].over
        /\ request' = [request EXCEPT ![cur] = None]
        /\ obs' = request[cur].n /\ gameOver' = FALSE
        /\ SendReply(EnvActMsg(0, TRUE))
        /\ UNCHANGED <<envStopped, forceEnvStop, newStateRx>>
     \/ /\ ~newStateRx /\ Received("init")
        /\ request' = [request EXCEPT ![cur] = None]
        /\ obs' = 0 /\ gameOver' = FALSE
        /\ SendReply(EnvActMsg(0, TRUE))
        /\ UNCHANGED <<envStopped, forceEnvStop, newStateRx>>
  /\ agent' = AfterClose(resetting)
  /\ UNCHANGED <<simVars, cur, envDirty, resetting, interrupted>>

-----------------------------------------------------------------------------
Wait == InitializeEnv \/ RxFirst \/ RxStep \/ CloseRx

Next ==
  \/ \E e \in Episode : SimStep(e) \/ Crash(e)
  \/ NewBridge \/ Wait \/ Step \/ Interrupt \/ Close \/ Reset

Spec == Init /\ [][Next]_vars

(* The simulation runs until it waits for the agent and its Run returns at *)
(* the stop time; a blocking receive returns when there is a message.      *)
FairSpec ==
  /\ Spec
  /\ WF_vars(NewBridge) /\ WF_vars(Wait)
  /\ \A e \in Episode : WF_vars(SimStep(e))

-----------------------------------------------------------------------------
Request == {None, SimInitMsg} \cup
           [type : {"state"}, n : 1 .. MaxStates + 1, over : BOOLEAN, end : BOOLEAN]
Reply == {None, SimInitAck} \cup [type : {"act"}, n : 0 .. MaxStates + 1, stop : BOOLEAN]

(* Every variable has its type, and the sockets of an episode never carry  *)
(* a request and a reply at once.                                          *)
TypeOK ==
  /\ sim \in [Episode -> {"none", "running", "initWait", "stateWait", "exited", "crashed"}]
  /\ m_initSimMsgSent \in [Episode -> BOOLEAN] /\ m_simEnd \in [Episode -> BOOLEAN]
  /\ request \in [Episode -> Request] /\ reply \in [Episode -> Reply]
  /\ shown \in [Episode -> 0 .. MaxStates + 1]
  /\ applied \in [Episode -> 0 .. MaxStates]
  /\ cur \in 0 .. MaxEpisodes
  /\ agent \in {"new", "init", "first", "idle", "step", "closing", "renew", "closed"}
  /\ rep \in {"recv", "send"} /\ obs \in 0 .. MaxStates + 1
  /\ envStopped \in BOOLEAN /\ forceEnvStop \in BOOLEAN /\ newStateRx \in BOOLEAN
  /\ gameOver \in BOOLEAN /\ envDirty \in BOOLEAN
  /\ resetting \in BOOLEAN /\ interrupted \in BOOLEAN
  /\ \A e \in Episode : request[e] = None \/ reply[e] = None

(* Ns3Env.step returns get_state(): what the agent holds when it chooses   *)
(* is the last state the simulation has shown, and no step of the          *)
(* simulation makes it old while the agent thinks.  If the game is not     *)
(* over it can step: send_actions finds the REP socket holding a request,  *)
(* and the simulation waits or has died, but has not exited.  A socket     *)
(* never carries a request and a reply at once.                            *)
ObservationFresh ==
  /\ TypeOK
  /\ (agent = "idle" /\ ~interrupted) =>
       /\ obs = shown[cur] /\ applied[cur] < obs
       /\ ~gameOver => rep = "send" /\ sim[cur] \in {"stateWait", "crashed"}
                         /\ reply[cur] = None

Abandoned(e) == e < cur \/ (e = cur /\ agent \in {"closed", "renew"})

(* The episode has ended or the stop request is on its way to it. *)
Stopping(e) ==
  \/ sim[e] \in {"exited", "crashed"}
  \/ reply[e].type = "act" /\ reply[e].stop

(* Ns3ZmqBridge.close swallows every exception, among them the one of a    *)
(* close command sent twice; still, a simulation whose bridge is gone has  *)
(* ended or has the stop request on its way to it.                         *)
ClosedMeansStopped ==
  \A e \in Episode : Abandoned(e) => Stopping(e)

(* What the sockets of an episode carry, given where its simulation is. *)
SimOK(e) ==
  /\ sim[e] = "none" => /\ request[e] = None /\ reply[e] = None
                        /\ ~m_initSimMsgSent[e] /\ ~m_simEnd[e]
                        /\ shown[e] = 0 /\ applied[e] = 0
  /\ sim[e] = "running" => /\ request[e] = None /\ reply[e] = None /\ ~m_simEnd[e]
                           /\ applied[e] = shown[e] /\ shown[e] <= MaxStates
                           /\ m_initSimMsgSent[e] <=> shown[e] > 0
  /\ sim[e] = "initWait" => /\ m_initSimMsgSent[e] /\ ~m_simEnd[e]
                            /\ shown[e] = 0 /\ applied[e] = 0
  /\ sim[e] = "stateWait" => /\ m_initSimMsgSent[e] /\ applied[e] < shown[e]
                             /\ shown[e] <= MaxStates \/ m_simEnd[e]
  /\ sim[e] = "exited" => request[e] = None /\ reply[e] = None
  /\ request[e].type = "init" => sim[e] \in {"initWait", "crashed"}
  /\ request[e].type = "state" => /\ sim[e] \in {"stateWait", "crashed"}
                                  /\ request[e].n = shown[e] /\ applied[e] < shown[e]
  /\ reply[e].type = "ack" => sim[e] \in {"initWait", "crashed"}
  /\ reply[e].type = "act" => \/ reply[e].stop
                              \/ sim[e] \in {"stateWait", "crashed"} /\ reply[e].n = shown[e]

(* What the bridge remembers, given where the agent is. *)
AgentOK ==
  /\ agent = "new" <=> cur = 0
  /\ agent \in {"init", "first", "step"} => rep = "recv" /\ ~newStateRx /\ ~envStopped
  /\ agent = "init" => shown[cur] = 0 /\ reply[cur] = None
  /\ interrupted => agent \in {"idle", "closing", "closed"}
  /\ (agent = "idle" /\ interrupted) => rep = "recv" /\ ~newStateRx /\ ~envStopped
  /\ (agent = "idle" /\ ~interrupted) =>
       /\ newStateRx /\ obs = shown[cur] /\ applied[cur] < obs
       /\ sim[cur] \in {"stateWait", "exited", "crashed"}
       /\ rep = "send" => ~gameOver /\ ~envStopped
       /\ rep = "recv" => gameOver /\ Stopping(cur)
  /\ rep = "send" => /\ request[cur] = None /\ reply[cur] = None /\ newStateRx
                     /\ sim[cur] \in {"stateWait", "crashed"} /\ agent \in {"idle", "closing"}
  /\ (agent = "closing" /\ newStateRx /\ rep = "recv") => Stopping(cur)
  /\ (agent = "closing" /\ interrupted) => ~resetting

(* The inductive invariant: the two processes agree about every episode,   *)
(* so that observations are fresh and closed bridges stop their            *)
(* simulation.                                                             *)
GymInv ==
  /\ TypeOK
  /\ \A e \in Episode : SimOK(e) /\ (sim[e] = "none" <=> e > cur)
  /\ AgentOK
  /\ \A e \in Episode : Abandoned(e) => Stopping(e)

(* The bridge implements LockStep: simulation and agent take turns, and an *)
(* action is executed for the state it was chosen for.                     *)
Turn(e) == CASE sim[e] \in {"none", "running", "initWait"} -> "sim"
             [] sim[e] = "stateWait" -> "agent"
             [] OTHER -> "over"

Abstract == INSTANCE LockStep WITH turn <- [e \in Episode |-> Turn(e)]

(* NotifyCurrentState, step, reset and close, run by two processes over    *)
(* ZeroMQ, implement the turn-taking of LockStep.                          *)
TakesTurns == Abstract!Spec

(* A simulation that has sent its SimInitMsg never leaves the agent        *)
(* waiting, unless it dies: reset, step and close return.                  *)
CallsReturn ==
  (agent \in {"first", "step", "closing"} /\ m_initSimMsgSent[cur])
    ~> (agent \in {"idle", "renew", "init", "closed"}
        \/ (cur > 0 /\ sim[cur] = "crashed"))

(* close and reset leave no simulation process behind. *)
NoOrphans == \A e \in Episode : Abandoned(e) ~> (sim[e] \in {"exited", "crashed"})
=============================================================================
