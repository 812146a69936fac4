------------------------------ MODULE GymProofs ------------------------------
(***************************************************************************)
(* The bridge keeps its invariant, and implements the turn-taking of       *)
(* LockStep, for any number of episodes and states.                        *)
(***************************************************************************)
EXTENDS GymBridge, TLAPS

(* The messages are told apart by their type. *)
LEMMA RequestKinds ==
  \A m \in Request : /\ m.type \in {"none", "init", "state"}
                     /\ m.type = "none" <=> m = None
                     /\ m.type = "init" <=> m = SimInitMsg
                     /\ m.type = "state" => /\ m.n \in 1 .. MaxStates + 1
                                            /\ m.over \in BOOLEAN /\ m.end \in BOOLEAN
  BY DEF Request, None, SimInitMsg

(* The same for the agent's messages. *)
LEMMA ReplyKinds ==
  \A m \in Reply : /\ m.type \in {"none", "ack", "act"}
                   /\ m.type = "none" <=> m = None
                   /\ m.type = "ack" => ~ m.stop
                   /\ m.type = "act" => m.n \in 0 .. MaxStates + 1 /\ m.stop \in BOOLEAN
  BY DEF Reply, None, SimInitAck

(* The messages the two processes build. *)
LEMMA MessagesBuilt ==
  /\ None \in Request /\ None \in Reply /\ None.type = "none"
  /\ SimInitMsg \in Request /\ SimInitMsg.type = "init"
  /\ SimInitAck \in Reply /\ SimInitAck.type = "ack"
  /\ \A n \in 1 .. MaxStates + 1, over \in BOOLEAN, end \in BOOLEAN :
       LET m == EnvStateMsg(n, over, end)
       IN  m \in Request /\ m.type = "state" /\ m.n = n /\ m.over = over /\ m.end = end
  /\ \A n \in 0 .. MaxStates + 1, stop \in BOOLEAN :
       LET m == EnvActMsg(n, stop)
       IN  m \in Reply /\ m.type = "act" /\ m.n = n /\ m.stop = stop
  BY DEF Request, Reply, None, SimInitMsg, SimInitAck, EnvStateMsg, EnvActMsg

(* The close command. *)
LEMMA CloseCommand ==
  LET m == EnvActMsg(0, TRUE) IN m \in Reply /\ m.type = "act" /\ m.n = 0 /\ m.stop
  BY GymAssumption DEF Reply, EnvActMsg

(* No simulation has been started. *)
LEMMA InitInv == Init => GymInv
  <1> SUFFICES ASSUME Init PROVE GymInv
    OBVIOUS
  <1>a. /\ envStopped \in BOOLEAN /\ forceEnvStop \in BOOLEAN /\ newStateRx \in BOOLEAN
        /\ gameOver \in BOOLEAN /\ envDirty \in BOOLEAN
        /\ resetting \in BOOLEAN /\ interrupted \in BOOLEAN
    BY Zenon DEF Init
  <1>b. m_initSimMsgSent \in [Episode -> BOOLEAN] /\ m_simEnd \in [Episode -> BOOLEAN]
    BY DEF Init
  <1>c. request \in [Episode -> Request] /\ reply \in [Episode -> Reply]
    BY MessagesBuilt DEF Init
  <1>1. TypeOK
    BY <1>a, <1>b, <1>c, GymAssumption DEF Init, TypeOK, Episode
  <1>2. \A e \in Episode : SimOK(e) /\ (sim[e] = "none" <=> e > cur)
    BY MessagesBuilt DEF Init, SimOK, Episode
  <1>3. AgentOK
    BY DEF Init, AgentOK
  <1>4. \A e \in Episode : ~ Abandoned(e)
    BY DEF Init, Abandoned, Episode
  <1> QED
    BY <1>1, <1>2, <1>3, <1>4 DEF GymInv

(* An episode that a step does not touch. *)
Same(e) ==
  /\ sim'[e] = sim[e] /\ m_initSimMsgSent'[e] = m_initSimMsgSent[e]
  /\ m_simEnd'[e] = m_simEnd[e] /\ request'[e] = request[e] /\ reply'[e] = reply[e]
  /\ shown'[e] = shown[e] /\ applied'[e] = applied[e]

(* An episode whose state stays is as well as before. *)
LEMMA SameOK ==
  ASSUME NEW e \in Episode, Same(e)
  PROVE  /\ SimOK(e)' <=> SimOK(e)
         /\ Stopping(e)' <=> Stopping(e)
  BY DEF Same, SimOK, Stopping

(* The simulation of one episode moves, and the agent's process does not:  *)
(* the invariant holds again if it does for that episode.                  *)
LEMMA SimMoves ==
  ASSUME GymInv, NEW e \in Episode, TypeOK',
         UNCHANGED <<bridgeVars, envVars>>,
         \A f \in Episode \ {e} : Same(f),
         SimOK(e)', sim[e] # "none", sim'[e] # "none",
         Stopping(e) => Stopping(e)',
         e = cur => /\ agent = "init" => shown'[e] = 0 /\ reply'[e] = None
                    /\ (agent = "idle" /\ ~interrupted) =>
                         /\ shown'[e] = shown[e] /\ applied'[e] = applied[e]
                         /\ sim'[e] \in {"stateWait", "exited", "crashed"}
                    /\ rep = "send" => /\ request'[e] = None /\ reply'[e] = None
                                       /\ sim'[e] \in {"stateWait", "crashed"}
  PROVE  GymInv'
  <1> USE DEF bridgeVars, envVars
  <1>1. \A f \in Episode : SimOK(f)' /\ (sim[f] = "none" <=> f > cur)'
    <2> SUFFICES ASSUME NEW f \in Episode PROVE SimOK(f)' /\ (sim[f] = "none" <=> f > cur)'
      OBVIOUS
    <2>1. CASE f = e
      BY <2>1 DEF GymInv
    <2>2. CASE f # e
      BY <2>2, SameOK DEF GymInv, Same
    <2> QED
      BY <2>1, <2>2
  <1>2. \A f \in Episode : Stopping(f) => Stopping(f)'
    BY SameOK
  <1>3. \A f \in Episode : (Abandoned(f) => Stopping(f))'
    BY <1>2 DEF GymInv, Abandoned
  <1>4. AgentOK'
    <2>1. CASE cur = e
      BY <2>1, <1>2 DEF GymInv, AgentOK
    <2>2. CASE cur \in Episode /\ cur # e
      <3>1. Same(cur)
        BY <2>2
      <3> QED
        BY <2>2, <3>1, <1>2 DEF GymInv, AgentOK, Same
    <2>3. CASE cur = 0
      BY <2>3 DEF GymInv, AgentOK
    <2> QED
      BY <2>1, <2>2, <2>3, GymAssumption DEF GymInv, TypeOK, Episode
  <1> QED
    BY <1>1, <1>3, <1>4 DEF GymInv

(* What NotifyCurrentState leaves behind when it waits for the action. *)
LEMMA SendStateEffect ==
  ASSUME TypeOK, NEW e \in Episode, NEW over \in BOOLEAN, NEW end \in BOOLEAN,
         SendState(e, over, end), shown[e] <= MaxStates
  PROVE  /\ sim' \in [Episode -> {"none", "running", "initWait", "stateWait", "exited",
                                  "crashed"}]
         /\ sim'[e] = "stateWait"
         /\ shown' \in [Episode -> 0 .. MaxStates + 1] /\ shown'[e] = shown[e] + 1
         /\ request' \in [Episode -> Request]
         /\ request'[e].type = "state" /\ request'[e].n = shown[e] + 1
         /\ \A f \in Episode \ {e} : /\ sim'[f] = sim[f] /\ shown'[f] = shown[f]
                                     /\ request'[f] = request[f]
  <1> DEFINE m == EnvStateMsg(shown[e] + 1, over \/ end, end)
  <1>1. (over \/ end) \in BOOLEAN
    BY Zenon
  <1>2. m \in Request /\ m.type = "state" /\ m.n = shown[e] + 1
    <2>1. shown[e] + 1 \in 1 .. MaxStates + 1
      BY GymAssumption DEF TypeOK
    <2> QED
      BY <1>1, <2>1, MessagesBuilt
  <1>3. request' = [request EXCEPT ![e] = m]
    BY DEF SendState
  <1> HIDE DEF m
  <1> QED
    BY <1>2, <1>3, GymAssumption DEF SendState, TypeOK

(* NotifyCurrentState, called at a step of the simulation, after Init or   *)
(* at the end, shows a state while no message is on its way.               *)
LEMMA SendStateInv ==
  ASSUME GymInv, NEW e \in Episode, NEW over \in BOOLEAN, NEW end \in BOOLEAN,
         SendState(e, over, end), sim[e] # "none", ~ Stopping(e),
         m_initSimMsgSent[e], applied[e] = shown[e],
         shown[e] < MaxStates \/ (shown[e] <= MaxStates /\ m_simEnd'[e]),
         m_simEnd' \in [Episode -> BOOLEAN],
         reply' \in [Episode -> Reply], reply'[e] = None,
         e = cur => agent # "init" /\ rep # "send" /\ (agent = "idle" => interrupted),
         \A f \in Episode \ {e} : Same(f),
         UNCHANGED <<m_initSimMsgSent, applied, bridgeVars, envVars>>
  PROVE  GymInv'
  <1>1. shown[e] <= MaxStates /\ shown[e] \in Nat
    BY GymAssumption DEF GymInv, TypeOK
  <1>2. /\ sim' \in [Episode -> {"none", "running", "initWait", "stateWait", "exited",
                                 "crashed"}]
        /\ sim'[e] = "stateWait"
        /\ shown' \in [Episode -> 0 .. MaxStates + 1] /\ shown'[e] = shown[e] + 1
        /\ request' \in [Episode -> Request]
        /\ request'[e].type = "state" /\ request'[e].n = shown[e] + 1
    BY <1>1, SendStateEffect DEF GymInv
  <1>3. /\ m_initSimMsgSent'[e] /\ applied'[e] = shown[e] /\ None.type = "none"
    BY MessagesBuilt
  <1>4. \A f \in Episode : request'[f] = None \/ reply'[f] = None
    BY DEF TypeOK, GymInv, Same
  <1>5. TypeOK'
    BY <1>2, <1>4 DEF TypeOK, bridgeVars, envVars, GymInv
  <1>6. SimOK(e)'
    BY <1>1, <1>2, <1>3, GymAssumption DEF SimOK
  <1> QED
    BY <1>2, <1>5, <1>6, SimMoves

(* The simulation sends a state and waits for the action. *)
LEMMA NotifyCurrentStateInv ==
  ASSUME GymInv, NEW e \in Episode, NotifyCurrentState(e)
  PROVE  GymInv'
  <1>1. /\ UNCHANGED <<m_simEnd, applied, reply, bridgeVars, envVars>>
        /\ \A f \in Episode \ {e} : Same(f)
    BY DEF NotifyCurrentState, SendState, Same, GymInv, TypeOK
  <1>2. /\ sim[e] = "running" /\ request[e] = None /\ reply[e] = None /\ ~m_simEnd[e]
        /\ applied[e] = shown[e] /\ shown[e] <= MaxStates
        /\ m_initSimMsgSent[e] <=> shown[e] > 0
    BY DEF NotifyCurrentState, GymInv, SimOK
  <1>3. ~ Stopping(e) /\ (e = cur => rep # "send" /\ (agent = "idle" => interrupted))
    BY <1>2, MessagesBuilt DEF Stopping, GymInv, AgentOK
  <1>4. CASE m_initSimMsgSent[e]
    <2>1. PICK over \in BOOLEAN : SendState(e, over, FALSE)
      BY <1>4 DEF NotifyCurrentState
    <2>2. shown[e] < MaxStates /\ UNCHANGED m_initSimMsgSent
      BY <1>4 DEF NotifyCurrentState
    <2>3. e = cur => agent # "init"
      BY <1>2, <1>4, GymAssumption DEF GymInv, AgentOK, TypeOK
    <2>4. m_simEnd' \in [Episode -> BOOLEAN] /\ reply' \in [Episode -> Reply] /\ reply'[e] = None
      BY <1>1, <1>2 DEF GymInv, TypeOK
    <2> QED
      BY <1>1, <1>2, <1>3, <1>4, <2>1, <2>2, <2>3, <2>4, SendStateInv
  <1>5. CASE ~m_initSimMsgSent[e]
    <2>1. /\ m_initSimMsgSent' = [m_initSimMsgSent EXCEPT ![e] = TRUE]
          /\ request' = [request EXCEPT ![e] = SimInitMsg]
          /\ sim' = [sim EXCEPT ![e] = "initWait"]
          /\ UNCHANGED shown
      BY <1>5 DEF NotifyCurrentState
    <2>2. /\ m_initSimMsgSent'[e] /\ request'[e].type = "init" /\ sim'[e] = "initWait"
      BY <2>1, MessagesBuilt DEF TypeOK, GymInv
    <2>3. TypeOK'
      BY <1>1, <2>1, <1>2, MessagesBuilt DEF TypeOK, bridgeVars, envVars, GymInv
    <2>4. SimOK(e)'
      BY <1>1, <2>1, <2>2, MessagesBuilt, <1>2, <1>5 DEF TypeOK, SimOK, GymInv
    <2>5. shown[e] = 0
      BY <1>2, <1>5, GymAssumption DEF GymInv, TypeOK
    <2> QED
      BY <1>1, <1>2, <1>3, <2>1, <2>2, <2>3, <2>4, <2>5, SimMoves
  <1> QED
    BY <1>4, <1>5

(* Init returns, and the first state is shown, or exits. *)
LEMMA RecvInitAckInv ==
  ASSUME GymInv, NEW e \in Episode, RecvInitAck(e)
  PROVE  GymInv'
  <1>1. /\ UNCHANGED <<m_initSimMsgSent, m_simEnd, applied, bridgeVars, envVars>>
        /\ reply' = [reply EXCEPT ![e] = None]
        /\ \A f \in Episode \ {e} : Same(f)
    BY DEF RecvInitAck, SendState, Same, GymInv, TypeOK
  <1>2. /\ sim[e] = "initWait" /\ reply[e].type # "none" /\ request[e] = None
        /\ m_initSimMsgSent[e] /\ ~m_simEnd[e] /\ shown[e] = 0 /\ applied[e] = 0
    BY MessagesBuilt DEF RecvInitAck, GymInv, SimOK, TypeOK
  <1>3. e = cur => agent # "init" /\ rep # "send" /\ (agent = "idle" => interrupted)
    BY <1>2, MessagesBuilt DEF GymInv, AgentOK
  <1>4. reply' \in [Episode -> Reply] /\ reply'[e] = None
    BY <1>1, MessagesBuilt DEF GymInv, TypeOK
  <1>5. CASE reply[e].stop
    <2>1. sim' = [sim EXCEPT ![e] = "exited"] /\ UNCHANGED <<shown, request>>
      BY <1>5 DEF RecvInitAck
    <2>2. sim'[e] = "exited" /\ request'[e] = None
      BY <1>2, <2>1 DEF GymInv, TypeOK
    <2>3. TypeOK'
      BY <1>1, <1>2, <1>4, <2>1 DEF TypeOK, bridgeVars, envVars, GymInv
    <2>4. SimOK(e)'
      BY <1>4, <2>2, MessagesBuilt DEF SimOK
    <2>5. Stopping(e)'
      BY <2>2 DEF Stopping
    <2> QED
      BY <1>1, <1>2, <1>3, <2>2, <2>3, <2>4, <2>5, SimMoves
  <1>6. CASE ~ reply[e].stop
    <2>1. PICK over \in BOOLEAN : SendState(e, over, FALSE)
      BY <1>6 DEF RecvInitAck
    <2>2. ~ Stopping(e)
      BY <1>2, <1>6 DEF Stopping
    <2>3. m_simEnd' \in [Episode -> BOOLEAN] /\ shown[e] < MaxStates
      BY <1>1, <1>2, GymAssumption DEF GymInv, TypeOK
    <2> QED
      BY <1>1, <1>2, <1>3, <1>4, <2>1, <2>2, <2>3, SendStateInv
  <1> QED
    BY <1>5, <1>6

(* The action is executed, or the simulation exits. *)
LEMMA RecvActInv ==
  ASSUME GymInv, NEW e \in Episode, RecvAct(e)
  PROVE  GymInv'
  <1>1. /\ UNCHANGED <<m_initSimMsgSent, m_simEnd, shown, request, bridgeVars, envVars>>
        /\ reply' = [reply EXCEPT ![e] = None]
        /\ \A f \in Episode \ {e} : Same(f)
    BY DEF RecvAct, Same, GymInv, TypeOK
  <1>2. /\ sim[e] = "stateWait" /\ reply[e].type = "act" /\ request[e] = None
        /\ m_initSimMsgSent[e] /\ applied[e] < shown[e]
        /\ shown[e] <= MaxStates \/ m_simEnd[e]
        /\ reply[e].stop \/ reply[e].n = shown[e]
        /\ applied[e] \in Nat
    BY MessagesBuilt, GymAssumption DEF RecvAct, GymInv, SimOK, TypeOK
  <1>3. e = cur => agent # "init" /\ rep # "send"
    BY <1>2, MessagesBuilt DEF GymInv, AgentOK
  <1>4. reply' \in [Episode -> Reply] /\ reply'[e] = None
    BY <1>1, MessagesBuilt DEF GymInv, TypeOK
  <1>5. CASE m_simEnd[e] \/ reply[e].stop
    <2>1. sim' = [sim EXCEPT ![e] = "exited"] /\ UNCHANGED applied
      BY <1>5 DEF RecvAct
    <2>2. sim'[e] = "exited" /\ request'[e] = None
      BY <1>1, <1>2, <2>1 DEF GymInv, TypeOK
    <2>3. TypeOK'
      BY <1>1, <1>2, <1>4, <2>1 DEF TypeOK, bridgeVars, envVars, GymInv
    <2>4. SimOK(e)'
      BY <1>4, <2>2, MessagesBuilt DEF SimOK
    <2>5. Stopping(e)'
      BY <2>2 DEF Stopping
    <2> QED
      BY <1>1, <1>2, <1>3, <2>1, <2>2, <2>3, <2>4, <2>5, SimMoves
  <1>6. CASE ~ (m_simEnd[e] \/ reply[e].stop)
    <2>1. sim' = [sim EXCEPT ![e] = "running"] /\ applied' = [applied EXCEPT ![e] = reply[e].n]
      BY <1>6 DEF RecvAct
    <2>2. /\ sim'[e] = "running" /\ request'[e] = None /\ applied'[e] = shown[e]
          /\ shown[e] \in 1 .. MaxStates /\ ~ m_simEnd'[e] /\ m_initSimMsgSent'[e]
          /\ shown'[e] = shown[e]
      BY <1>1, <1>2, <1>6, <2>1, GymAssumption DEF GymInv, TypeOK
    <2>3. TypeOK'
      <3>1. applied' \in [Episode -> 0 .. MaxStates]
        BY <1>2, <1>6, <2>1, <2>2, GymAssumption DEF GymInv, TypeOK
      <3> QED
        BY <1>1, <1>2, <1>4, <2>1, <3>1 DEF TypeOK, bridgeVars, envVars, GymInv
    <2>4. SimOK(e)'
      BY <1>4, <2>2, MessagesBuilt, GymAssumption DEF SimOK
    <2>5. ~ Stopping(e) /\ (e = cur => (agent = "idle" => interrupted))
      BY <1>2, <1>3, <1>6 DEF Stopping, GymInv, AgentOK, TypeOK
    <2> QED
      BY <1>1, <1>2, <1>3, <2>2, <2>3, <2>4, <2>5, SimMoves
  <1> QED
    BY <1>5, <1>6

(* The end of the simulation is announced, if Init had come. *)
LEMMA NotifySimulationEndInv ==
  ASSUME GymInv, NEW e \in Episode, NotifySimulationEnd(e)
  PROVE  GymInv'
  <1>1. /\ UNCHANGED <<m_initSimMsgSent, applied, reply, bridgeVars, envVars>>
        /\ m_simEnd' = [m_simEnd EXCEPT ![e] = TRUE]
        /\ \A f \in Episode \ {e} : Same(f)
    BY DEF NotifySimulationEnd, SendState, Same, GymInv, TypeOK
  <1>2. /\ sim[e] = "running" /\ request[e] = None /\ reply[e] = None
        /\ applied[e] = shown[e] /\ shown[e] <= MaxStates
        /\ m_initSimMsgSent[e] <=> shown[e] > 0
    BY DEF NotifySimulationEnd, GymInv, SimOK
  <1>3. ~ Stopping(e) /\ (e = cur => rep # "send" /\ (agent = "idle" => interrupted))
    BY <1>2, MessagesBuilt DEF Stopping, GymInv, AgentOK
  <1>4. m_simEnd' \in [Episode -> BOOLEAN] /\ m_simEnd'[e]
    BY <1>1 DEF GymInv, TypeOK
  <1>5. CASE m_initSimMsgSent[e]
    <2>1. PICK over \in BOOLEAN : SendState(e, over, TRUE)
      BY <1>5 DEF NotifySimulationEnd
    <2>2. e = cur => agent # "init"
      BY <1>2, <1>5, GymAssumption DEF GymInv, AgentOK, TypeOK
    <2>3. reply' \in [Episode -> Reply] /\ reply'[e] = None
      BY <1>1, <1>2 DEF GymInv, TypeOK
    <2> QED
      BY <1>1, <1>2, <1>3, <1>4, <1>5, <2>1, <2>2, <2>3, SendStateInv
  <1>6. CASE ~m_initSimMsgSent[e]
    <2>1. sim' = [sim EXCEPT ![e] = "exited"] /\ UNCHANGED <<shown, request>>
      BY <1>6 DEF NotifySimulationEnd
    <2>2. sim'[e] = "exited" /\ request'[e] = None /\ reply'[e] = None
      BY <1>1, <1>2, <2>1 DEF GymInv, TypeOK
    <2>3. TypeOK'
      BY <1>1, <1>2, <1>4, <2>1 DEF TypeOK, bridgeVars, envVars, GymInv
    <2>4. SimOK(e)'
      BY <2>2, MessagesBuilt DEF SimOK
    <2>5. shown'[e] = 0
      BY <1>2, <1>6, <2>1, GymAssumption DEF GymInv, TypeOK
    <2> QED
      BY <1>1, <1>2, <1>3, <2>2, <2>3, <2>4, <2>5, SimMoves
  <1> QED
    BY <1>5, <1>6

(* A process that dies leaves its messages behind. *)
LEMMA CrashInv ==
  ASSUME GymInv, NEW e \in Episode, Crash(e)
  PROVE  GymInv'
  <1>1. /\ UNCHANGED <<m_initSimMsgSent, m_simEnd, shown, applied, request, reply, bridgeVars,
                       envVars>>
        /\ sim[e] \in {"running", "initWait", "stateWait"} /\ sim'[e] = "crashed"
        /\ \A f \in Episode \ {e} : Same(f)
    BY DEF Crash, Same, GymInv, TypeOK
  <1>2. TypeOK'
    BY <1>1 DEF Crash, TypeOK, bridgeVars, envVars, GymInv
  <1>3. SimOK(e)'
    BY <1>1 DEF SimOK, GymInv
  <1>4. Stopping(e)'
    BY <1>1 DEF Stopping
  <1>5. e = cur => /\ agent = "init" => shown'[e] = 0 /\ reply'[e] = None
                   /\ rep = "send" => request'[e] = None /\ reply'[e] = None
    BY <1>1 DEF GymInv, AgentOK
  <1> QED
    BY <1>1, <1>2, <1>3, <1>4, <1>5, SimMoves

-----------------------------------------------------------------------------
(* The agent's process moves: only the messages of its own episode change. *)
LEMMA AgentMoves ==
  ASSUME GymInv, cur \in Episode, TypeOK', UNCHANGED <<simVars, cur>>,
         \A f \in Episode \ {cur} : request'[f] = request[f] /\ reply'[f] = reply[f],
         SimOK(cur)', AgentOK',
         agent' \in {"closed", "renew"} => Stopping(cur)'
  PROVE  GymInv'
  <1>1. \A f \in Episode \ {cur} : Same(f)
    BY DEF Same, simVars
  <1>2. \A f \in Episode : SimOK(f)' /\ (sim[f] = "none" <=> f > cur)'
    <2> SUFFICES ASSUME NEW f \in Episode PROVE SimOK(f)' /\ (sim[f] = "none" <=> f > cur)'
      OBVIOUS
    <2>1. CASE f = cur
      BY <2>1 DEF GymInv, simVars
    <2>2. CASE f # cur
      BY <2>2, <1>1, SameOK DEF GymInv, simVars
    <2> QED
      BY <2>1, <2>2
  <1>3. \A f \in Episode : (Abandoned(f) => Stopping(f))'
    <2> SUFFICES ASSUME NEW f \in Episode, Abandoned(f)' PROVE Stopping(f)'
      OBVIOUS
    <2>1. CASE f < cur
      BY <2>1, <1>1, SameOK DEF GymInv, Abandoned, Episode
    <2>2. CASE f = cur
      BY <2>2 DEF Abandoned, Episode
    <2> QED
      BY <2>1, <2>2 DEF Abandoned
  <1> QED
    BY <1>2, <1>3 DEF GymInv

(* Replacing the messages of the agent's episode. *)
LEMMA NewMessages ==
  ASSUME TypeOK, cur \in Episode, NEW q \in Request, NEW r \in Reply, q = None \/ r = None,
         request' = [request EXCEPT ![cur] = q], reply' = [reply EXCEPT ![cur] = r]
  PROVE  /\ request' \in [Episode -> Request] /\ reply' \in [Episode -> Reply]
         /\ request'[cur] = q /\ reply'[cur] = r
         /\ \A f \in Episode \ {cur} : request'[f] = request[f] /\ reply'[f] = reply[f]
         /\ \A f \in Episode : request'[f] = None \/ reply'[f] = None
  BY DEF TypeOK

(* An agent that has a bridge has an episode. *)
LEMMA CurEpisode == ASSUME GymInv, agent # "new" PROVE cur \in Episode
  BY GymAssumption DEF GymInv, AgentOK, TypeOK, Episode

(* initialize_env answers the SimInitMsg. *)
LEMMA InitializeEnvInv ==
  ASSUME GymInv, InitializeEnv
  PROVE  GymInv'
  <1>1. /\ agent = "init" /\ request[cur].type = "init" /\ agent' = "first"
        /\ request' = [request EXCEPT ![cur] = None]
        /\ reply' = [reply EXCEPT ![cur] = SimInitAck]
        /\ UNCHANGED <<simVars, bridgeVars, cur, envDirty, resetting, interrupted>>
    BY DEF InitializeEnv, Received
  <1>2. cur \in Episode
    BY <1>1, CurEpisode
  <1>3. /\ request' \in [Episode -> Request] /\ reply' \in [Episode -> Reply]
        /\ request'[cur] = None /\ reply'[cur] = SimInitAck
        /\ \A f \in Episode \ {cur} : request'[f] = request[f] /\ reply'[f] = reply[f]
        /\ \A f \in Episode : request'[f] = None \/ reply'[f] = None
    BY <1>1, <1>2, NewMessages, MessagesBuilt DEF GymInv
  <1>4. TypeOK'
    BY <1>1, <1>3 DEF GymInv, TypeOK, simVars, bridgeVars
  <1>5. SimOK(cur)'
    BY <1>1, <1>2, <1>3, MessagesBuilt DEF GymInv, SimOK, simVars
  <1>6. AgentOK'
    BY <1>1, <1>2 DEF GymInv, AgentOK, bridgeVars
  <1> QED
    BY <1>1, <1>2, <1>3, <1>4, <1>5, <1>6, AgentMoves

(* What rx_env_state leaves behind when it reads a state: the observation  *)
(* is the last state shown, and either the socket holds the request or the *)
(* close command is on its way.                                            *)
LEMMA RxStateEffect ==
  ASSUME GymInv, Received("state"), RxState, UNCHANGED <<simVars, cur>>
  PROVE  /\ cur \in Episode /\ sim[cur] \in {"stateWait", "crashed"}
         /\ request' \in [Episode -> Request] /\ reply' \in [Episode -> Reply]
         /\ \A f \in Episode \ {cur} : request'[f] = request[f] /\ reply'[f] = reply[f]
         /\ \A f \in Episode : request'[f] = None \/ reply'[f] = None
         /\ request'[cur] = None
         /\ SimOK(cur)'
         /\ obs' = shown[cur] /\ obs' \in 0 .. MaxStates + 1 /\ applied[cur] < obs'
         /\ newStateRx' = TRUE /\ newStateRx' \in BOOLEAN
         /\ gameOver' \in BOOLEAN /\ envStopped' \in BOOLEAN /\ forceEnvStop' \in BOOLEAN
         /\ gameOver' => rep' = "recv" /\ Stopping(cur)'
         /\ ~ gameOver' => /\ rep' = "send" /\ reply'[cur] = None
                           /\ ~ envStopped => ~ envStopped'
  <1> DEFINE m == request[cur]
  <1>1. cur \in Episode
    BY GymAssumption DEF Received, GymInv, TypeOK, Episode
  <1>2. /\ m.type = "state" /\ m \in Request /\ m.n = shown[cur] /\ applied[cur] < shown[cur]
        /\ sim[cur] \in {"stateWait", "crashed"} /\ m # None /\ reply[cur] = None
    BY <1>1, MessagesBuilt DEF Received, GymInv, SimOK, TypeOK
  <1>3. m.over \in BOOLEAN /\ m.end \in BOOLEAN
    BY <1>2, RequestKinds
  <1>4. /\ request' = [request EXCEPT ![cur] = None]
        /\ obs' = m.n /\ gameOver' = m.over /\ newStateRx' = TRUE
        /\ envStopped' = (envStopped \/ (m.over /\ m.end))
        /\ forceEnvStop' = (forceEnvStop \/ (m.over /\ ~m.end))
        /\ IF m.over THEN SendReply(EnvActMsg(0, TRUE)) ELSE rep' = "send" /\ UNCHANGED reply
    BY Zenon DEF RxState
  <1>5. /\ envStopped' \in BOOLEAN /\ forceEnvStop' \in BOOLEAN
        /\ gameOver' \in BOOLEAN /\ newStateRx' \in BOOLEAN
    BY <1>3, <1>4, Zenon
  <1>6. obs' = shown[cur] /\ obs' \in 0 .. MaxStates + 1 /\ applied[cur] < obs'
    BY <1>1, <1>2, <1>4 DEF GymInv, TypeOK
  <1>7. CASE m.over
    <2> DEFINE r == EnvActMsg(0, TRUE)
    <2>1. r \in Reply /\ r.type = "act" /\ r.n = 0 /\ r.stop
      BY CloseCommand
    <2>2. rep' = "recv" /\ reply' = [reply EXCEPT ![cur] = r]
      BY <1>4, <1>7 DEF SendReply
    <2> HIDE DEF r, m
    <2>3. /\ request' \in [Episode -> Request] /\ reply' \in [Episode -> Reply]
          /\ request'[cur] = None /\ reply'[cur] = r
          /\ \A f \in Episode \ {cur} : request'[f] = request[f] /\ reply'[f] = reply[f]
          /\ \A f \in Episode : request'[f] = None \/ reply'[f] = None
      BY <1>1, <1>4, <2>1, <2>2, NewMessages, MessagesBuilt DEF GymInv
    <2>4. SimOK(cur)'
      BY <1>1, <1>2, <2>1, <2>3, MessagesBuilt DEF SimOK, simVars, GymInv
    <2>5. Stopping(cur)'
      BY <2>1, <2>3 DEF Stopping
    <2>6. gameOver'
      BY <1>4, <1>7
    <2> QED
      BY <1>1, <1>2, <1>4, <1>5, <1>6, <2>2, <2>3, <2>4, <2>5, <2>6
  <1>8. CASE ~ m.over
    <2>1. rep' = "send" /\ UNCHANGED reply
      BY <1>4, <1>8
    <2>2. ~ gameOver' /\ (~ envStopped => ~ envStopped')
      BY <1>4, <1>8
    <2> HIDE DEF m
    <2>3. /\ request' \in [Episode -> Request] /\ reply' \in [Episode -> Reply]
          /\ request'[cur] = None /\ reply'[cur] = None
          /\ \A f \in Episode \ {cur} : request'[f] = request[f] /\ reply'[f] = reply[f]
          /\ \A f \in Episode : request'[f] = None \/ reply'[f] = None
      BY <1>1, <1>2, <1>4, <2>1, MessagesBuilt DEF GymInv, TypeOK
    <2>4. SimOK(cur)'
      BY <1>1, <1>2, <2>3, MessagesBuilt DEF SimOK, simVars, GymInv
    <2> QED
      BY <1>1, <1>2, <1>4, <1>5, <1>6, <2>1, <2>2, <2>3, <2>4
  <1> QED
    BY <1>7, <1>8

(* A constructor, reset or step returns with a state it has just read. *)
LEMMA ObservedInv ==
  ASSUME GymInv, Received("state"), RxState, UNCHANGED <<simVars, cur>>, agent # "new",
         ~ envStopped, ~ interrupted, agent' = "idle", UNCHANGED <<resetting, interrupted>>,
         envDirty' \in BOOLEAN
  PROVE  GymInv'
  <1>1. /\ cur \in Episode /\ sim[cur] \in {"stateWait", "crashed"}
        /\ request' \in [Episode -> Request] /\ reply' \in [Episode -> Reply]
        /\ \A f \in Episode \ {cur} : request'[f] = request[f] /\ reply'[f] = reply[f]
        /\ \A f \in Episode : request'[f] = None \/ reply'[f] = None
        /\ request'[cur] = None
        /\ SimOK(cur)'
        /\ obs' = shown[cur] /\ obs' \in 0 .. MaxStates + 1 /\ applied[cur] < obs'
        /\ newStateRx' = TRUE /\ newStateRx' \in BOOLEAN
        /\ gameOver' \in BOOLEAN /\ envStopped' \in BOOLEAN /\ forceEnvStop' \in BOOLEAN
        /\ gameOver' => rep' = "recv" /\ Stopping(cur)'
        /\ ~ gameOver' => rep' = "send" /\ reply'[cur] = None /\ ~ envStopped'
    BY RxStateEffect
  <1>2. rep' \in {"recv", "send"}
    BY <1>1
  <1>3. TypeOK'
    BY <1>1, <1>2 DEF GymInv, TypeOK, simVars
  <1>4. AgentOK'
    BY <1>1 DEF GymInv, AgentOK, simVars, Episode, Stopping
  <1> QED
    BY <1>1, <1>3, <1>4, AgentMoves

(* The first state of an episode. *)
LEMMA RxFirstInv == ASSUME GymInv, RxFirst PROVE GymInv'
  <1>1. /\ agent = "first" /\ Received("state") /\ RxState /\ agent' = "idle"
        /\ UNCHANGED <<simVars, cur, resetting, interrupted>> /\ UNCHANGED envDirty
    BY DEF RxFirst
  <1>2. ~ envStopped /\ ~ interrupted
    BY <1>1 DEF GymInv, AgentOK
  <1>3. envDirty' \in BOOLEAN
    BY <1>1 DEF GymInv, TypeOK
  <1> QED
    BY <1>1, <1>2, <1>3, ObservedInv

(* The state that answers an action. *)
LEMMA RxStepInv == ASSUME GymInv, RxStep PROVE GymInv'
  <1>1. agent = "step" /\ ~ newStateRx /\ ~ envStopped /\ ~ interrupted
    BY DEF RxStep, GymInv, AgentOK
  <1>2. /\ Received("state") /\ RxState /\ agent' = "idle" /\ envDirty' = TRUE
        /\ UNCHANGED <<simVars, cur, resetting, interrupted>>
    BY <1>1 DEF RxStep
  <1>3. envDirty' \in BOOLEAN
    BY <1>2, Zenon
  <1> QED
    BY <1>1, <1>2, <1>3, ObservedInv

(* step sends an action for the state it holds. *)
LEMMA StepInv == ASSUME GymInv, Step PROVE GymInv'
  <1> DEFINE r == EnvActMsg(obs, forceEnvStop)
  <1>1. /\ agent = "idle" /\ ~ interrupted /\ rep = "send" /\ rep' = "recv"
        /\ reply' = [reply EXCEPT ![cur] = r] /\ newStateRx' = FALSE /\ agent' = "step"
        /\ UNCHANGED <<simVars, request, envStopped, forceEnvStop, gameOver, obs, cur, envDirty,
                       resetting, interrupted>>
    BY DEF Step, SendReply
  <1>2. cur \in Episode
    BY <1>1, CurEpisode
  <1>3. /\ obs = shown[cur] /\ ~ envStopped /\ request[cur] = None /\ reply[cur] = None
        /\ sim[cur] \in {"stateWait", "crashed"}
    BY <1>1 DEF GymInv, AgentOK
  <1>4. r \in Reply /\ r.type = "act" /\ r.n = shown[cur]
    BY <1>3, MessagesBuilt DEF GymInv, TypeOK
  <1> HIDE DEF r
  <1>5. request = [request EXCEPT ![cur] = None]
    BY <1>2, <1>3 DEF GymInv, TypeOK
  <1>6. /\ request' \in [Episode -> Request] /\ reply' \in [Episode -> Reply]
        /\ request'[cur] = None /\ reply'[cur] = r
        /\ \A f \in Episode \ {cur} : request'[f] = request[f] /\ reply'[f] = reply[f]
        /\ \A f \in Episode : request'[f] = None \/ reply'[f] = None
    BY <1>1, <1>2, <1>4, <1>5, NewMessages, MessagesBuilt DEF GymInv
  <1>7. newStateRx' \in BOOLEAN
    BY <1>1, Zenon
  <1>8. TypeOK'
    BY <1>1, <1>6, <1>7 DEF GymInv, TypeOK, simVars
  <1>9. SimOK(cur)'
    BY <1>1, <1>2, <1>3, <1>4, <1>6, MessagesBuilt DEF GymInv, SimOK, simVars
  <1>10. AgentOK'
    BY <1>1, <1>2, <1>3 DEF GymInv, AgentOK
  <1> QED
    BY <1>1, <1>2, <1>6, <1>8, <1>9, <1>10, AgentMoves

(* A step of the agent that sends and receives nothing. *)
LEMMA NoMessages ==
  ASSUME GymInv, cur \in Episode, TypeOK', UNCHANGED <<simVars, cur, request, reply>>, AgentOK',
         agent' \in {"closed", "renew"} => Stopping(cur)
  PROVE  GymInv'
  <1>1. Same(cur) /\ \A f \in Episode \ {cur} : request'[f] = request[f] /\ reply'[f] = reply[f]
    BY DEF Same, simVars
  <1>2. SimOK(cur)' /\ (Stopping(cur) => Stopping(cur)')
    BY <1>1, SameOK DEF GymInv, Stopping, simVars
  <1> QED
    BY <1>1, <1>2, AgentMoves

(* The agent is interrupted. *)
LEMMA InterruptInv == ASSUME GymInv, Interrupt PROVE GymInv'
  <1>1. /\ ~ interrupted /\ agent \in {"step", "init", "first"}
        /\ agent' = "idle" /\ interrupted' = TRUE
        /\ UNCHANGED <<simVars, request, reply, bridgeVars, cur, envDirty, resetting>>
    BY DEF Interrupt
  <1>2. cur \in Episode
    BY <1>1, CurEpisode
  <1>3. interrupted' \in BOOLEAN
    BY <1>1, Zenon
  <1>4. TypeOK'
    BY <1>1, <1>3 DEF GymInv, TypeOK, simVars, bridgeVars
  <1>5. AgentOK'
    BY <1>1, <1>2 DEF GymInv, AgentOK, bridgeVars, simVars
  <1> QED
    BY <1>1, <1>2, <1>4, <1>5, NoMessages

(* close, or reset's close, up to its rx_env_state. *)
LEMMA StartCloseInv ==
  ASSUME GymInv, NEW reset \in BOOLEAN, agent = "idle", StartClose(reset),
         reset => ~ interrupted
  PROVE  GymInv'
  <1>1. /\ resetting' = reset /\ envStopped' = TRUE
        /\ forceEnvStop' = (forceEnvStop \/ ~envStopped)
        /\ agent' = (IF envStopped THEN AfterClose(reset) ELSE "closing")
        /\ UNCHANGED <<simVars, request, reply, rep, newStateRx, gameOver, obs, cur, envDirty,
                       interrupted>>
    BY Zenon DEF StartClose
  <1>2. cur \in Episode
    BY CurEpisode
  <1>3. /\ resetting' \in BOOLEAN /\ envStopped' \in BOOLEAN /\ forceEnvStop' \in BOOLEAN
    BY <1>1, Zenon
  <1>4. /\ agent' \in {"closing", "renew", "closed"}
        /\ interrupted => agent' # "renew"
        /\ agent' # "closing" => envStopped
    BY <1>1 DEF AfterClose
  <1>5. TypeOK'
    BY <1>1, <1>3, <1>4 DEF GymInv, TypeOK, simVars
  <1>6. envStopped => /\ rep = "recv" /\ ~ interrupted /\ Stopping(cur)
    BY DEF GymInv, AgentOK, TypeOK
  <1>7. AgentOK'
    <2>1. Stopping(cur)' <=> Stopping(cur)
      BY <1>1 DEF Stopping, simVars
    <2>2. (agent' = "closing" /\ newStateRx /\ rep = "recv") => Stopping(cur)
      BY DEF GymInv, AgentOK
    <2>3. rep = "send" => agent' = "closing"
      BY <1>4, <1>6
    <2> QED
      BY <1>1, <1>2, <1>4, <2>1, <2>2, <2>3 DEF GymInv, AgentOK, simVars, Episode
  <1> QED
    BY <1>1, <1>2, <1>4, <1>5, <1>6, <1>7, NoMessages

(* close's rx_env_state and its close command. *)
LEMMA CloseRxInv == ASSUME GymInv, CloseRx PROVE GymInv'
  <1> DEFINE r == EnvActMsg(0, TRUE)
  <1>1. /\ agent = "closing" /\ agent' = AfterClose(resetting)
        /\ UNCHANGED <<simVars, cur, envDirty, resetting, interrupted>>
    BY DEF CloseRx
  <1>2. cur \in Episode
    BY <1>1, CurEpisode
  <1>3. agent' \in {"renew", "closed"}
    BY <1>1 DEF AfterClose
  <1>4. interrupted => agent' = "closed"
    BY <1>1 DEF AfterClose, GymInv, AgentOK
  (* The four ways to a close command, and the one that finds it sent. *)
  <1>5. ASSUME UNCHANGED newStateRx \/ newStateRx' \in BOOLEAN, envStopped' \in BOOLEAN,
               forceEnvStop' \in BOOLEAN, gameOver' \in BOOLEAN, obs' \in 0 .. MaxStates + 1,
               rep' = "recv",
               request' \in [Episode -> Request], reply' \in [Episode -> Reply],
               \A f \in Episode \ {cur} : request'[f] = request[f] /\ reply'[f] = reply[f],
               \A f \in Episode : request'[f] = None \/ reply'[f] = None,
               SimOK(cur)', Stopping(cur)'
        PROVE  GymInv'
    <2>1. TypeOK'
      BY <1>1, <1>3, <1>5 DEF GymInv, TypeOK, simVars
    <2>2. AgentOK'
      BY <1>1, <1>2, <1>3, <1>4, <1>5 DEF GymInv, AgentOK, simVars, Episode
    <2> QED
      BY <1>1, <1>2, <1>5, <2>1, <2>2, AgentMoves
  <1>6. r \in Reply /\ r.type = "act" /\ r.n = 0 /\ r.stop
    BY CloseCommand
  <1> HIDE DEF r
  <1>7. ASSUME request' = [request EXCEPT ![cur] = None], reply' = [reply EXCEPT ![cur] = r],
               sim[cur] # "none", sim[cur] # "running", sim[cur] # "exited"
        PROVE  /\ request' \in [Episode -> Request] /\ reply' \in [Episode -> Reply]
               /\ \A f \in Episode \ {cur} : request'[f] = request[f] /\ reply'[f] = reply[f]
               /\ \A f \in Episode : request'[f] = None \/ reply'[f] = None
               /\ SimOK(cur)' /\ Stopping(cur)'
    <2>1. /\ request' \in [Episode -> Request] /\ reply' \in [Episode -> Reply]
          /\ request'[cur] = None /\ reply'[cur] = r
          /\ \A f \in Episode \ {cur} : request'[f] = request[f] /\ reply'[f] = reply[f]
          /\ \A f \in Episode : request'[f] = None \/ reply'[f] = None
      BY <1>2, <1>6, <1>7, NewMessages, MessagesBuilt DEF GymInv
    <2>2. SimOK(cur)'
      BY <1>1, <1>2, <1>6, <1>7, <2>1, MessagesBuilt DEF GymInv, SimOK, simVars
    <2>3. Stopping(cur)'
      BY <1>1, <1>6, <2>1 DEF Stopping
    <2> QED
      BY <2>1, <2>2, <2>3
  <1>8. CASE newStateRx /\ rep = "recv" /\ UNCHANGED <<request, reply, bridgeVars>>
    <2>1. Stopping(cur) /\ Same(cur)
      BY <1>1, <1>8 DEF GymInv, AgentOK, Same, simVars
    <2>2. SimOK(cur)' /\ Stopping(cur)'
      BY <1>1, <1>2, <2>1, SameOK DEF GymInv
    <2>3. /\ UNCHANGED <<request, reply, rep, envStopped, forceEnvStop, newStateRx, gameOver, obs>>
          /\ rep = "recv"
      BY <1>8 DEF bridgeVars
    <2>4. /\ UNCHANGED newStateRx /\ envStopped' \in BOOLEAN /\ forceEnvStop' \in BOOLEAN
          /\ gameOver' \in BOOLEAN
      BY <2>3, Zenon DEF GymInv, TypeOK
    <2>5. /\ obs' \in 0 .. MaxStates + 1 /\ rep' = "recv"
          /\ request' \in [Episode -> Request] /\ reply' \in [Episode -> Reply]
          /\ \A f \in Episode \ {cur} : request'[f] = request[f] /\ reply'[f] = reply[f]
          /\ \A f \in Episode : request'[f] = None \/ reply'[f] = None
      BY <2>3 DEF GymInv, TypeOK
    <2> QED
      BY <1>5, <2>2, <2>4, <2>5
  <1>9. CASE /\ newStateRx /\ rep = "send"
             /\ SendReply(r)
             /\ newStateRx' = FALSE
             /\ UNCHANGED <<request, envStopped, forceEnvStop, gameOver, obs>>
    <2>1. request[cur] = None /\ sim[cur] \in {"stateWait", "crashed"}
      BY <1>9 DEF GymInv, AgentOK
    <2>2. request' = [request EXCEPT ![cur] = None] /\ reply' = [reply EXCEPT ![cur] = r]
      BY <1>2, <1>9, <2>1 DEF SendReply, GymInv, TypeOK
    <2>3. /\ newStateRx' \in BOOLEAN /\ envStopped' \in BOOLEAN /\ forceEnvStop' \in BOOLEAN
          /\ gameOver' \in BOOLEAN
      BY <1>9, Zenon DEF GymInv, TypeOK
    <2>4. obs' \in 0 .. MaxStates + 1 /\ rep' = "recv"
      BY <1>9 DEF SendReply, GymInv, TypeOK
    <2> QED
      BY <1>5, <1>7, <2>1, <2>2, <2>3, <2>4
  <1>10. CASE ~newStateRx /\ Received("state") /\ request[cur].over /\ RxState
    <2>1. gameOver'
      BY <1>10 DEF RxState
    <2> QED
      BY <1>1, <1>5, <1>10, <2>1, RxStateEffect
  <1>11. CASE /\ ~newStateRx /\ (Received("state") \/ Received("init"))
              /\ request' = [request EXCEPT ![cur] = None]
              /\ obs' \in {0, request[cur].n} /\ (Received("init") => obs' = 0)
              /\ gameOver' = FALSE
              /\ SendReply(r)
              /\ UNCHANGED <<envStopped, forceEnvStop, newStateRx>>
    <2>1. sim[cur] \in {"initWait", "stateWait", "crashed"}
      BY <1>2, <1>11 DEF GymInv, SimOK, Received
    <2>2. /\ newStateRx' \in BOOLEAN /\ envStopped' \in BOOLEAN /\ forceEnvStop' \in BOOLEAN
          /\ gameOver' \in BOOLEAN
      BY <1>11, Zenon DEF GymInv, TypeOK
    <2>3. obs' \in 0 .. MaxStates + 1
      BY <1>2, <1>11, GymAssumption DEF GymInv, SimOK, TypeOK, Received
    <2>4. rep' = "recv" /\ reply' = [reply EXCEPT ![cur] = r]
      BY <1>11 DEF SendReply
    <2> QED
      BY <1>5, <1>7, <1>11, <2>1, <2>2, <2>3, <2>4
  <1>12. CASE /\ ~newStateRx /\ Received("state") /\ ~request[cur].over
              /\ request' = [request EXCEPT ![cur] = None]
              /\ obs' = request[cur].n /\ gameOver' = FALSE
              /\ SendReply(r)
              /\ UNCHANGED <<envStopped, forceEnvStop, newStateRx>>
    BY <1>11, <1>12 DEF Received
  <1>13. CASE /\ ~newStateRx /\ Received("init")
              /\ request' = [request EXCEPT ![cur] = None]
              /\ obs' = 0 /\ gameOver' = FALSE
              /\ SendReply(r)
              /\ UNCHANGED <<envStopped, forceEnvStop, newStateRx>>
    BY <1>11, <1>13
  <1> QED
    BY <1>8, <1>9, <1>10, <1>12, <1>13 DEF CloseRx, r

(* A new bridge starts the next simulation. *)
LEMMA NewBridgeInv == ASSUME GymInv, NewBridge PROVE GymInv'
  <1> DEFINE e == cur + 1
  <1>1. /\ agent \in {"new", "renew"} /\ cur < MaxEpisodes /\ cur' = e
        /\ sim' = [sim EXCEPT ![e] = "running"] /\ agent' = "init" /\ rep' = "recv"
        /\ envStopped' = FALSE /\ forceEnvStop' = FALSE /\ newStateRx' = FALSE
        /\ gameOver' = FALSE /\ obs' = 0 /\ envDirty' = FALSE
        /\ UNCHANGED <<m_initSimMsgSent, m_simEnd, shown, applied, request, reply, resetting,
                       interrupted>>
    BY DEF NewBridge
  <1>2. e \in Episode /\ cur \in Nat /\ e > cur
    BY <1>1, GymAssumption DEF GymInv, TypeOK, Episode
  <1>3. /\ sim[e] = "none" /\ request[e] = None /\ reply[e] = None /\ shown[e] = 0
        /\ applied[e] = 0 /\ ~ m_initSimMsgSent[e] /\ ~ m_simEnd[e]
    BY <1>2 DEF GymInv, SimOK
  <1>4. /\ envStopped' \in BOOLEAN /\ forceEnvStop' \in BOOLEAN /\ newStateRx' \in BOOLEAN
        /\ gameOver' \in BOOLEAN /\ envDirty' \in BOOLEAN
    BY <1>1, Zenon
  <1>5. TypeOK'
    BY <1>1, <1>2, <1>4, GymAssumption DEF GymInv, TypeOK, Episode
  <1>6. sim'[e] = "running" /\ \A f \in Episode \ {e} : Same(f)
    BY <1>1, <1>2 DEF GymInv, TypeOK, Same
  <1>7. \A f \in Episode : SimOK(f)' /\ (sim[f] = "none" <=> f > cur)'
    <2> SUFFICES ASSUME NEW f \in Episode PROVE SimOK(f)' /\ (sim[f] = "none" <=> f > cur)'
      OBVIOUS
    <2>1. CASE f = e
      BY <2>1, <1>1, <1>2, <1>3, <1>6, MessagesBuilt, GymAssumption DEF SimOK
    <2>2. CASE f # e
      BY <2>2, <1>1, <1>2, <1>6, SameOK DEF GymInv, Same, Episode
    <2> QED
      BY <2>1, <2>2
  <1>8. AgentOK'
    BY <1>1, <1>2, <1>3, <1>6 DEF GymInv, AgentOK
  <1>9. \A f \in Episode : (Abandoned(f) => Stopping(f))'
    <2> SUFFICES ASSUME NEW f \in Episode, Abandoned(f)' PROVE Stopping(f)'
      OBVIOUS
    <2>1. f \in Nat /\ f < e
      BY <1>1, <1>2 DEF Abandoned, Episode
    <2>2. f <= cur /\ f # e
      BY <2>1, <1>2
    <2>3. Abandoned(f)
      BY <1>1, <1>2, <2>1, <2>2 DEF Abandoned, GymInv, AgentOK, Episode
    <2> QED
      BY <1>6, <2>2, <2>3, SameOK DEF GymInv
  <1> QED
    BY <1>5, <1>7, <1>8, <1>9 DEF GymInv

(* Every step of the two processes keeps the invariant. *)
LEMMA NextInv == GymInv /\ [Next]_vars => GymInv'
  <1> SUFFICES ASSUME GymInv, [Next]_vars PROVE GymInv'
    OBVIOUS
  <1>1. ASSUME NEW e \in Episode, SimStep(e) \/ Crash(e) PROVE GymInv'
    BY <1>1, NotifyCurrentStateInv, RecvInitAckInv, RecvActInv, NotifySimulationEndInv, CrashInv
       DEF SimStep
  <1>2. CASE NewBridge
    BY <1>2, NewBridgeInv
  <1>3. CASE Wait
    BY <1>3, InitializeEnvInv, RxFirstInv, RxStepInv, CloseRxInv DEF Wait
  <1>4. CASE Step
    BY <1>4, StepInv
  <1>5. CASE Interrupt
    BY <1>5, InterruptInv
  <1>6. CASE Close
    BY <1>6, StartCloseInv DEF Close
  <1>7. CASE Reset
    BY <1>7, StartCloseInv DEF Reset
  <1>8. CASE UNCHANGED vars
    <2>1. UNCHANGED <<simVars, request, reply, rep, envStopped, forceEnvStop, newStateRx, gameOver,
                      obs, cur, agent, envDirty, resetting, interrupted>>
      BY <1>8 DEF vars, bridgeVars, envVars
    <2>2. UNCHANGED <<sim, m_initSimMsgSent, m_simEnd, shown, applied>>
      BY <2>1 DEF simVars
    <2>3. \A e \in Episode : Same(e)
      BY <2>1, <2>2 DEF Same
    <2>4. \A e \in Episode : /\ SimOK(e)' /\ (sim[e] = "none" <=> e > cur)'
                             /\ (Abandoned(e) => Stopping(e))'
      BY <2>1, <2>2, <2>3, SameOK DEF GymInv, Abandoned
    <2>5. TypeOK'
      BY <2>1, <2>2 DEF GymInv, TypeOK
    <2>6. AgentOK'
      BY <2>1, <2>2 DEF GymInv, AgentOK, Stopping
    <2> QED
      BY <2>4, <2>5, <2>6 DEF GymInv
  <1> QED
    BY <1>1, <1>2, <1>3, <1>4, <1>5, <1>6, <1>7, <1>8 DEF Next

-----------------------------------------------------------------------------
(* Whatever the agent calls, however often it is interrupted, and whenever *)
(* a simulation dies, the two ends of the bridge agree (GymInv).           *)
THEOREM GymInvariant == Spec => []GymInv
  BY InitInv, NextInv, PTL DEF Spec

(* What step and reset return is the last state the simulation has shown,  *)
(* and an agent whose game is not over can act on it (ObservationFresh).   *)
THEOREM ObservationCorrect == Spec => []ObservationFresh
  <1>1. GymInv => ObservationFresh
    <2> SUFFICES ASSUME GymInv, agent = "idle", ~ interrupted
                 PROVE  /\ obs = shown[cur] /\ applied[cur] < obs
                        /\ ~gameOver => /\ rep = "send" /\ sim[cur] \in {"stateWait", "crashed"}
                                        /\ reply[cur] = None
      BY DEF GymInv, ObservationFresh
    <2> QED
      BY DEF GymInv, AgentOK, TypeOK
  <1> QED
    BY <1>1, GymInvariant, PTL

(* A simulation whose bridge is closed or replaced has ended, or its stop  *)
(* request is on its way (ClosedMeansStopped).                             *)
THEOREM CloseStops == Spec => []ClosedMeansStopped
  <1>1. GymInv => ClosedMeansStopped
    BY DEF GymInv, ClosedMeansStopped
  <1> QED
    BY <1>1, GymInvariant, PTL

-----------------------------------------------------------------------------
(* The state of LockStep that a state of the bridge stands for. *)
Turns == [e \in Episode |-> Turn(e)]

(* A step that moves one episode's simulation changes only its turn. *)
LEMMA TurnMoves ==
  ASSUME NEW e \in Episode, \A f \in Episode \ {e} : sim'[f] = sim[f]
  PROVE  Turns' = [Turns EXCEPT ![e] = Turn(e)']
  BY DEF Turns, Turn

(* A step of the bridge that shows, applies or ends nothing is a stutter. *)
LEMMA TurnStays ==
  ASSUME \A e \in Episode : Turn(e)' = Turn(e)
  PROVE  Turns' = Turns
  BY DEF Turns

(* NotifyCurrentState shows a state when it is the simulation's turn. *)
LEMMA ShowStep ==
  ASSUME GymInv, NEW e \in Episode, NEW over, NEW end, SendState(e, over, end),
         sim[e] \in {"running", "initWait"}, UNCHANGED applied
  PROVE  Abstract!Show(e)
  <1>1. sim'[e] = "stateWait" /\ \A f \in Episode \ {e} : sim'[f] = sim[f]
    BY DEF SendState, GymInv, TypeOK
  <1>2. Turn(e) = "sim" /\ Turn(e)' = "agent" /\ Turns[e] = Turn(e)
    BY <1>1 DEF Turn, Turns
  <1>3. Turns' = [Turns EXCEPT ![e] = "agent"]
    BY <1>1, <1>2, TurnMoves
  <1> QED
    BY <1>2, <1>3 DEF Abstract!Show, SendState, Turns

(* An episode ends that had not. *)
LEMMA EndStep ==
  ASSUME GymInv, NEW e \in Episode, sim[e] \notin {"exited", "crashed"},
         sim'[e] \in {"exited", "crashed"}, \A f \in Episode \ {e} : sim'[f] = sim[f],
         UNCHANGED <<shown, applied>>
  PROVE  Abstract!End(e)
  <1>1. Turn(e) # "over" /\ Turn(e)' = "over" /\ Turns[e] = Turn(e)
    BY DEF Turn, Turns, GymInv, TypeOK
  <1>2. Turns' = [Turns EXCEPT ![e] = "over"]
    BY <1>1, TurnMoves
  <1> QED
    BY <1>1, <1>2 DEF Abstract!End, Turns

(* Every step of the bridge is a step of LockStep or changes nothing in it. *)
LEMMA StepRefines == GymInv /\ [Next]_vars => [Abstract!Next]_(Abstract!vars)
  <1> SUFFICES ASSUME GymInv, [Next]_vars
               PROVE  Abstract!Next \/ (Turns' = Turns /\ UNCHANGED <<shown, applied>>)
    BY DEF Abstract!vars, Turns
  <1>1. ASSUME NEW e \in Episode, Abstract!Show(e) \/ Abstract!Apply(e) \/ Abstract!End(e)
        PROVE  Abstract!Next
    BY <1>1 DEF Abstract!Next
  <1>2. ASSUME NEW e \in Episode, NotifyCurrentState(e)
        PROVE  Abstract!Show(e) \/ (Turns' = Turns /\ UNCHANGED <<shown, applied>>)
    <2>1. CASE m_initSimMsgSent[e]
      BY <1>2, <2>1, ShowStep DEF NotifyCurrentState
    <2>2. CASE ~ m_initSimMsgSent[e]
      <3>1. /\ sim[e] = "running" /\ sim' = [sim EXCEPT ![e] = "initWait"]
            /\ UNCHANGED <<shown, applied>>
        BY <1>2, <2>2 DEF NotifyCurrentState
      <3>2. \A f \in Episode : Turn(f)' = Turn(f)
        BY <3>1 DEF Turn, GymInv, TypeOK
      <3> QED
        BY <3>1, <3>2, TurnStays
    <2> QED
      BY <2>1, <2>2
  <1>3. ASSUME NEW e \in Episode, RecvInitAck(e)
        PROVE  Abstract!Show(e) \/ Abstract!End(e)
    <2>1. CASE reply[e].stop
      <3>1. sim[e] = "initWait" /\ sim' = [sim EXCEPT ![e] = "exited"] /\ UNCHANGED <<shown, applied>>
        BY <1>3, <2>1 DEF RecvInitAck
      <3> QED
        BY <3>1, EndStep DEF GymInv, TypeOK
    <2>2. CASE ~ reply[e].stop
      BY <1>3, <2>2, ShowStep DEF RecvInitAck
    <2> QED
      BY <2>1, <2>2
  <1>4. ASSUME NEW e \in Episode, RecvAct(e)
        PROVE  Abstract!Apply(e) \/ Abstract!End(e)
    <2>1. CASE m_simEnd[e] \/ reply[e].stop
      <3>1. sim[e] = "stateWait" /\ sim' = [sim EXCEPT ![e] = "exited"] /\ UNCHANGED <<shown, applied>>
        BY <1>4, <2>1 DEF RecvAct
      <3> QED
        BY <3>1, EndStep DEF GymInv, TypeOK
    <2>2. CASE ~ (m_simEnd[e] \/ reply[e].stop)
      <3>1. /\ sim[e] = "stateWait" /\ sim' = [sim EXCEPT ![e] = "running"]
            /\ applied' = [applied EXCEPT ![e] = reply[e].n] /\ reply[e].type = "act"
            /\ UNCHANGED shown
        BY <1>4, <2>2 DEF RecvAct
      <3>2. reply[e].n = shown[e]
        BY <2>2, <3>1 DEF GymInv, SimOK
      <3>3. sim'[e] = "running" /\ \A f \in Episode \ {e} : sim'[f] = sim[f]
        BY <3>1 DEF GymInv, TypeOK
      <3>4. Turn(e) = "agent" /\ Turn(e)' = "sim" /\ Turns[e] = Turn(e)
        BY <3>1, <3>3 DEF Turn, Turns
      <3>5. Turns' = [Turns EXCEPT ![e] = "sim"]
        BY <3>3, <3>4, TurnMoves
      <3> QED
        BY <3>1, <3>2, <3>4, <3>5 DEF Abstract!Apply, Turns
    <2> QED
      BY <2>1, <2>2
  <1>5. ASSUME NEW e \in Episode, NotifySimulationEnd(e)
        PROVE  Abstract!Show(e) \/ Abstract!End(e)
    <2>1. CASE m_initSimMsgSent[e]
      BY <1>5, <2>1, ShowStep DEF NotifySimulationEnd
    <2>2. CASE ~ m_initSimMsgSent[e]
      <3>1. sim[e] = "running" /\ sim' = [sim EXCEPT ![e] = "exited"] /\ UNCHANGED <<shown, applied>>
        BY <1>5, <2>2 DEF NotifySimulationEnd
      <3> QED
        BY <3>1, EndStep DEF GymInv, TypeOK
    <2> QED
      BY <2>1, <2>2
  <1>6. ASSUME NEW e \in Episode, Crash(e)
        PROVE  Abstract!End(e)
    <2>1. /\ sim[e] \in {"running", "initWait", "stateWait"}
          /\ sim' = [sim EXCEPT ![e] = "crashed"] /\ UNCHANGED <<shown, applied>>
      BY <1>6 DEF Crash
    <2> QED
      BY <2>1, EndStep DEF GymInv, TypeOK
  <1>7. CASE NewBridge
    <2>1. /\ cur < MaxEpisodes /\ sim' = [sim EXCEPT ![cur + 1] = "running"]
          /\ UNCHANGED <<shown, applied>>
      BY <1>7 DEF NewBridge
    <2>2. cur + 1 \in Episode /\ sim[cur + 1] = "none"
      BY <2>1, GymAssumption DEF GymInv, TypeOK, Episode
    <2>3. \A f \in Episode : Turn(f)' = Turn(f)
      BY <2>1, <2>2 DEF Turn, GymInv, TypeOK
    <2> QED
      BY <2>1, <2>3, TurnStays
  <1>8. CASE Wait \/ Step \/ Interrupt \/ Close \/ Reset \/ UNCHANGED vars
    <2>1. UNCHANGED simVars
      BY <1>8 DEF Wait, InitializeEnv, RxFirst, RxStep, CloseRx, Step, Interrupt, Close, Reset,
                  StartClose, vars
    <2>2. \A f \in Episode : Turn(f)' = Turn(f)
      BY <2>1 DEF Turn, simVars
    <2> QED
      BY <2>1, <2>2, TurnStays DEF simVars
  <1> QED
    BY <1>1, <1>2, <1>3, <1>4, <1>5, <1>6, <1>7, <1>8 DEF Next, SimStep

(* The bridge implements LockStep (TakesTurns): the simulation stands      *)
(* still while the agent thinks, goes on only with the action chosen for   *)
(* the state it showed last, and an episode that ended never moves again.  *)
THEOREM BridgeTakesTurns == Spec => TakesTurns
  <1>1. Init => Abstract!Init
    BY DEF Init, Abstract!Init, Turn, Episode
  <1> QED
    BY <1>1, StepRefines, GymInvariant, PTL DEF Spec, TakesTurns, Abstract!Spec
=============================================================================
