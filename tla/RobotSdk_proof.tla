---------------------------- MODULE RobotSdk_proof ----------------------------
(***************************************************************************)
(* Proofs about the threewe SDK, for every value of the constants: the     *)
(* calls on a robot, the readings a program gets, the simulated robot and  *)
(* the training environments.                                              *)
(***************************************************************************)
EXTENDS MCRobotSdk, FiniteSetTheorems, WellFoundedInduction, TLAPS

-------------------------------------------------------------------------------
(***************************************************************************)
(* The calls.                                                              *)
(***************************************************************************)

\* The calls: where each stands, and the goal it waits for.
CallTypes ==
  /\ pc \in [Tasks -> Where] /\ kind \in [Tasks -> {"goals", "drive", "instruction"}]
  /\ far \in [Tasks -> BOOLEAN] /\ late \in [Tasks -> BOOLEAN]
  /\ goalOf \in [Tasks -> Goals \cup {NoGoal}] /\ result \in [Tasks -> Outcomes]
  /\ left \in [Tasks -> 0..(Waypoints + MaxSteps)]
  /\ onNode \in [Tasks -> Nat] /\ \A t \in Tasks : onNode[t] <= gen

Waits == \A t \in Tasks : pc[t] \in {"answer", "result"} <=> goalOf[t] # NoGoal

\* What Nav2 and the client know of the goals.
NavTypes ==
  /\ goal \in [Goals -> {None, "pending", "executing", "rejected", "over"}]
  /\ asked \subseteq Goals /\ answered \subseteq Goals /\ dropped \subseteq Goals

\* The VLM executor.
VlmTypes ==
  /\ exec \in {None, "running", "returned", "raised"}
  /\ inference \in {None, "look", "asked", "over", "raised"}
  /\ control \in {None, "running", "over", "raised"}
  /\ done \in BOOLEAN /\ action \in Actions \cup {None}

VlmCounts == steps \in 0..MaxSteps /\ since \in 0..(VlmTimeout + 1)

\* The node, and who published the velocity in force on which.
NodeTypes == connected \in BOOLEAN /\ gen \in 0..ConnectCap /\ (connected => gen > 0)
Published == cmd \in {Zero} \cup ((Tasks \cup {"vlm", "user"}) \X (1..gen))

\* A goal that Nav2 has not ended has somebody who is responsible for it, from
\* the moment it is sent.
GoalsHeld ==
  \A g \in Goals : goal[g] \in {"pending", "executing"} =>
    \/ g \in asked \/ g \in dropped
    \/ \E t \in Tasks : goalOf[t] = g

CallsInv ==
  /\ CallTypes /\ Waits /\ NavTypes /\ VlmTypes /\ VlmCounts /\ NodeTypes /\ Published
  /\ calls \in 0..CallCap /\ NoCommandLeft /\ GoalsHeld

\* The invariant gives the property.
LEMMA CallsInvTidy == CallsInv => CallsTidy
<1> SUFFICES ASSUME CallsInv PROVE CallsTidy OBVIOUS
<1> USE DEF CallsInv
<1>1. \A t \in Tasks :
        /\ pc[t] \in Where /\ kind[t] \in {"goals", "drive", "instruction"}
        /\ far[t] \in BOOLEAN /\ late[t] \in BOOLEAN
        /\ goalOf[t] \in Goals \cup {NoGoal} /\ result[t] \in Outcomes
  BY Zenon DEF CallTypes
<1>2. \A t \in Tasks : left[t] \in 0..(Waypoints + MaxSteps) /\ onNode[t] \in 0..gen
  BY DEF CallTypes, NodeTypes
<1>3. TypeOK
  BY <1>1, <1>2, Zenon DEF TypeOK, Waits, NavTypes, VlmTypes, VlmCounts, NodeTypes, Published
<1>4. GoalsLetGo BY DEF GoalsHeld, GoalsLetGo
<1>5. QED BY <1>3, <1>4 DEF CallsTidy

-----------------------------------------------------------------------------
\* The names a command can carry are told apart.
LEMMA Names == \A t \in Tasks : t # "zero" /\ t # "user" /\ t # "vlm"
BY RobotSdkAssumption

\* A velocity says whose it is.
LEMMA CommandNames ==
  /\ \A m, n : Zero # <<"vlm", m>> /\ <<"user", m>> # <<"vlm", n>>
  /\ \A t \in Tasks : \A m, n :
       Zero # <<t, m>> /\ <<"user", m>> # <<t, n>> /\ <<t, m>> # <<"vlm", n>>
<1>1. \A a, b, c, d : <<a, b>> = <<c, d>> => a = c /\ b = d OBVIOUS
<1>2. "zero" # "vlm" /\ "user" # "vlm" OBVIOUS
<1>3. QED BY <1>1, <1>2, Names, Zenon DEF Zero

\* A call that ends leaves the others as they are.
LEMMA ReturnsTypes ==
  ASSUME CallTypes, Waits, NEW t \in Tasks, NEW o \in Outcomes, Returns(t, o),
         gen' = gen, gen \in Nat
  PROVE  CallTypes' /\ Waits'
<1>1. pc' \in [Tasks -> Where] /\ result' \in [Tasks -> Outcomes]
  BY DEF CallTypes, Returns, Where
<1>2. kind' \in [Tasks -> {"goals", "drive", "instruction"}]
  BY DEF CallTypes, Returns
<1>3. far' \in [Tasks -> BOOLEAN] /\ late' \in [Tasks -> BOOLEAN]
  BY DEF CallTypes, Returns
<1>4. goalOf' \in [Tasks -> Goals \cup {NoGoal}] BY DEF CallTypes, Returns
<1>5. left' \in [Tasks -> 0..(Waypoints + MaxSteps)]
  BY RobotSdkAssumption DEF CallTypes, Returns
<1>6. onNode' \in [Tasks -> Nat] /\ \A u \in Tasks : onNode'[u] <= gen'
  BY DEF CallTypes, Returns
<1>7. CallTypes' BY <1>1, <1>2, <1>3, <1>4, <1>5, <1>6, Zenon DEF CallTypes
<1>8. Waits'
  <2> SUFFICES ASSUME NEW u \in Tasks
               PROVE  pc'[u] \in {"answer", "result"} <=> goalOf'[u] # NoGoal
    BY DEF Waits
  <2>1. CASE u = t
    <3>1. pc'[u] = "idle" /\ goalOf'[u] = NoGoal BY <2>1 DEF Returns, CallTypes
    <3>2. QED BY <3>1
  <2>2. CASE u # t
    <3>1. pc'[u] = pc[u] /\ goalOf'[u] = goalOf[u] BY <2>2 DEF Returns, CallTypes
    <3>2. QED BY <3>1 DEF Waits
  <2>3. QED BY <2>1, <2>2
<1>9. QED BY <1>7, <1>8

\* A call that goes on to another place without touching its goal: from outside the
\* two waits to outside them, or from one wait to the other.
LEMMA GoesOnTypes ==
  ASSUME CallTypes, Waits, NEW t \in Tasks, NEW where \in Where,
         pc' = [pc EXCEPT ![t] = where], goalOf' = goalOf,
         pc[t] \in {"answer", "result"} <=> where \in {"answer", "result"}
  PROVE  pc' \in [Tasks -> Where] /\ Waits'
<1>1. pc' \in [Tasks -> Where] BY DEF CallTypes
<1>2. Waits'
  <2> SUFFICES ASSUME NEW u \in Tasks
               PROVE  pc'[u] \in {"answer", "result"} <=> goalOf'[u] # NoGoal
    BY DEF Waits
  <2>1. CASE u = t
    <3>1. pc'[u] = where BY <2>1 DEF CallTypes
    <3>2. pc[u] \in {"answer", "result"} <=> where \in {"answer", "result"} BY <2>1
    <3>3. QED BY <3>1, <3>2 DEF Waits
  <2>2. CASE u # t
    <3>1. pc'[u] = pc[u] BY <2>2 DEF CallTypes
    <3>2. QED BY <3>1 DEF Waits
  <2>3. QED BY <2>1, <2>2
<1>3. QED BY <1>1, <1>2

\* A goal is held as long as nothing is taken away from what holds it.
LEMMA GoalsStillHeld ==
  ASSUME GoalsHeld, asked \subseteq asked', dropped \subseteq dropped', CallTypes,
         \A g \in Goals : goal'[g] \in {"pending", "executing"}
                            => goal[g] \in {"pending", "executing"},
         \A t \in Tasks : goalOf'[t] = goalOf[t] \/ goalOf[t] = NoGoal
                          \/ goalOf[t] \in asked' \/ goalOf[t] \in dropped'
                          \/ goal'[goalOf[t]] \notin {"pending", "executing"}
  PROVE  GoalsHeld'
<1> SUFFICES ASSUME NEW g \in Goals, goal'[g] \in {"pending", "executing"}
             PROVE  \/ g \in asked' \/ g \in dropped' \/ \E t \in Tasks : goalOf'[t] = g
  BY DEF GoalsHeld
<1>1. g # NoGoal BY RobotSdkAssumption
<1>2. \/ g \in asked \/ g \in dropped \/ \E t \in Tasks : goalOf[t] = g
  BY Zenon DEF GoalsHeld
<1>3. CASE \E t \in Tasks : goalOf[t] = g
  <2>1. PICK t \in Tasks : goalOf[t] = g BY <1>3
  <2>2. QED BY <1>1, <2>1, Zenon
<1>4. QED BY <1>2, <1>3, Zenon

\* No velocity is left when none is published and no call stops moving.
LEMMA CommandKept ==
  ASSUME NoCommandLeft, cmd' = cmd, connected' => connected, gen' = gen,
         control' = "over" => control = "over",
         \A t \in Tasks : Moving(t) => Moving(t)' \/ ~ connected'
  PROVE  NoCommandLeft'
BY Zenon DEF NoCommandLeft

\* Zero, and what a program publishes itself, is nobody's.
LEMMA CommandOfNobody ==
  ASSUME cmd' = Zero \/ cmd' = <<"user", gen>>, gen' = gen PROVE NoCommandLeft'
<1>1. CASE cmd' = Zero BY <1>1, CommandNames, Zenon DEF NoCommandLeft
<1>2. CASE cmd' = <<"user", gen>> BY <1>2, CommandNames, Zenon DEF NoCommandLeft
<1>3. QED BY <1>1, <1>2

\* Steps that leave the calls alone keep their types,
LEMMA SameCalls ==
  ASSUME CallsInv, UNCHANGED call, gen' \in Nat, gen' >= gen PROVE CallTypes' /\ Waits'
<1>1. /\ pc' = pc /\ kind' = kind /\ far' = far /\ left' = left /\ late' = late
      /\ onNode' = onNode /\ goalOf' = goalOf /\ result' = result
  BY DEF call
<1>2. \A t \in Tasks : onNode'[t] <= gen' BY <1>1 DEF CallsInv, CallTypes, NodeTypes
<1>3. CallTypes' BY <1>1, <1>2, Zenon DEF CallsInv, CallTypes
<1>4. Waits' BY <1>1, Zenon DEF CallsInv, Waits
<1>5. QED BY <1>3, <1>4

\* those that leave Nav2 alone keep its types,
LEMMA SameNav == ASSUME CallsInv, UNCHANGED nav PROVE NavTypes'
BY Zenon DEF CallsInv, NavTypes, nav

\* those that leave the executor alone keep its types,
LEMMA SameVlm == ASSUME CallsInv, UNCHANGED vlm PROVE VlmTypes' /\ VlmCounts'
BY Zenon DEF CallsInv, VlmTypes, VlmCounts, vlm

\* those that leave the connection alone keep its types,
LEMMA SameNode == ASSUME CallsInv, UNCHANGED <<connected, gen>> PROVE NodeTypes'
BY Zenon DEF CallsInv, NodeTypes

\* those that publish nothing, or a stop, keep the velocity that of somebody,
LEMMA SameCommand == ASSUME CallsInv, gen' = gen, cmd' = cmd \/ cmd' = Zero PROVE Published'
BY Zenon DEF CallsInv, Published

\* Whoever publishes does so on the node there is.
LEMMA NewCommand ==
  ASSUME CallsInv, connected, gen' = gen, NEW w \in Tasks \cup {"vlm", "user"}, cmd' = <<w, gen>>
  PROVE  Published'
<1>1. gen \in 1..gen BY DEF CallsInv, NodeTypes
<1>2. QED BY <1>1, Zenon DEF Published

\* and those that leave goals and calls alone keep every goal held.
LEMMA SameGoalsHeld == ASSUME CallsInv, UNCHANGED <<nav, goalOf>> PROVE GoalsHeld'
BY Zenon DEF CallsInv, GoalsHeld, nav

\* The steps of a call leave the node, the executor and the count of calls alone.
LEMMA BesideSame ==
  ASSUME CallsInv, Unchanged
  PROVE  /\ NodeTypes' /\ VlmTypes' /\ VlmCounts' /\ calls' \in 0..CallCap
         /\ gen' = gen /\ gen \in Nat /\ connected' = connected /\ control' = control
<1>1. calls' \in 0..CallCap BY Zenon DEF Unchanged, CallsInv
<1>2. gen \in Nat BY DEF CallsInv, NodeTypes
<1>3. QED BY <1>1, <1>2, SameNode, SameVlm, Zenon DEF Unchanged, vlm

-----------------------------------------------------------------------------
\* The node.
LEMMA ConnectTidy == ASSUME CallsInv, Connect PROVE CallsInv'
<1>1. /\ ~ connected /\ gen < ConnectCap /\ connected' = TRUE /\ gen' = gen + 1
      /\ UNCHANGED <<cmd, call, nav, vlm, calls>>
  BY DEF Connect
<1>2. gen \in Nat /\ gen' \in 0..ConnectCap /\ gen' > 0 /\ gen' >= gen
  BY <1>1, RobotSdkAssumption DEF CallsInv, NodeTypes
<1>3. CallTypes' /\ Waits' BY <1>1, <1>2, SameCalls
<1>4. NavTypes' /\ VlmTypes' /\ VlmCounts' BY <1>1, SameNav, SameVlm
<1>5. NodeTypes' BY <1>1, <1>2 DEF NodeTypes
<1>6. \A n \in 1..gen : n \in 1..gen' /\ n # gen' BY <1>1, <1>2
<1>7. Published' BY <1>1, <1>6, Zenon DEF CallsInv, Published
<1>8. NoCommandLeft'
  <2>1. \A w : cmd # <<w, gen'>>
    <3>1. \A a, b, c, d : <<a, b>> = <<c, d>> => b = d OBVIOUS
    <3>2. ~ (0 = gen') BY <1>2
    <3>3. ASSUME NEW w, cmd = <<w, gen'>> PROVE FALSE
      <4>1. cmd # Zero BY <3>1, <3>2, <3>3, Zenon DEF Zero
      <4>2. PICK v \in Tasks \cup {"vlm", "user"}, n \in 1..gen : cmd = <<v, n>>
        <5>1. cmd \in (Tasks \cup {"vlm", "user"}) \X (1..gen)
          BY <4>1, Zenon DEF CallsInv, Published
        <5>2. QED BY <5>1
      <4>3. QED BY <1>6, <3>1, <3>3, <4>2, Zenon
    <3>4. QED BY <3>3
  <2>2. QED BY <1>1, <2>1, Zenon DEF NoCommandLeft
<1>9. GoalsHeld' BY <1>1, SameGoalsHeld DEF call
<1>10. QED BY <1>1, <1>3, <1>4, <1>5, <1>7, <1>8, <1>9, Zenon DEF CallsInv

\* disconnect takes the node away and publishes nothing.
LEMMA DisconnectTidy == ASSUME CallsInv, Disconnect PROVE CallsInv'
<1>1. connected' = FALSE /\ UNCHANGED <<gen, cmd, call, nav, vlm, calls>> BY DEF Disconnect
<1>2. gen \in Nat /\ gen' \in Nat /\ gen' >= gen BY <1>1 DEF CallsInv, NodeTypes
<1>3. CallTypes' /\ Waits' BY <1>1, <1>2, SameCalls
<1>4. NavTypes' /\ VlmTypes' /\ VlmCounts' BY <1>1, SameNav, SameVlm
<1>5. NodeTypes' BY <1>1 DEF CallsInv, NodeTypes
<1>6. Published' BY <1>1, SameCommand
<1>7. NoCommandLeft' BY <1>1, Zenon DEF NoCommandLeft
<1>8. GoalsHeld' BY <1>1, SameGoalsHeld DEF call
<1>9. QED BY <1>1, <1>3, <1>4, <1>5, <1>6, <1>7, <1>8, Zenon DEF CallsInv

\* set_velocity and stop.
LEMMA UserTidy == ASSUME CallsInv, SetVelocity \/ Stop PROVE CallsInv'
<1>1. /\ connected /\ (cmd' = Zero \/ cmd' = <<"user", gen>>)
      /\ UNCHANGED <<connected, gen, call, nav, vlm, calls>>
  BY Zenon DEF SetVelocity, Stop
<1>2. gen \in Nat /\ gen' \in Nat /\ gen' >= gen BY <1>1 DEF CallsInv, NodeTypes
<1>3. CallTypes' /\ Waits' BY <1>1, <1>2, SameCalls
<1>4. NavTypes' /\ VlmTypes' /\ VlmCounts' /\ NodeTypes' BY <1>1, SameNav, SameVlm, SameNode
<1>5. Published'
  <2>1. CASE cmd' = Zero BY <1>1, <2>1, SameCommand
  <2>2. CASE cmd' = <<"user", gen>>
    <3>1. "user" \in Tasks \cup {"vlm", "user"} OBVIOUS
    <3>2. QED BY <1>1, <2>2, <3>1, NewCommand
  <2>3. QED BY <1>1, <2>1, <2>2
<1>6. NoCommandLeft' BY <1>1, CommandOfNobody
<1>7. GoalsHeld' BY <1>1, SameGoalsHeld DEF call
<1>8. QED BY <1>1, <1>3, <1>4, <1>5, <1>6, <1>7, Zenon DEF CallsInv

\* A call begins, at a place where it waits for no goal.
LEMMA StartsTidy ==
  ASSUME CallsInv, NEW t \in Tasks, NEW k \in {"goals", "drive", "instruction"},
         NEW where \in Where, where \notin {"answer", "result"},
         NEW n \in 0..(Waypoints + MaxSteps), NEW rotation \in BOOLEAN,
         Starts(t, k, where, n, rotation)
  PROVE  CallsInv'
<1>1. /\ pc[t] = "idle" /\ calls < CallCap /\ calls' = calls + 1
      /\ pc' = [pc EXCEPT ![t] = where] /\ kind' = [kind EXCEPT ![t] = k]
      /\ left' = [left EXCEPT ![t] = n] /\ far' = [far EXCEPT ![t] = rotation]
      /\ late' = [late EXCEPT ![t] = FALSE] /\ result' = [result EXCEPT ![t] = None]
      /\ UNCHANGED <<connected, gen, cmd, onNode, goalOf, nav, vlm>>
  BY DEF Starts
<1>2. CallTypes /\ Waits BY DEF CallsInv
<1>3. pc[t] \notin {"answer", "result"} BY <1>1
<1>4. pc' \in [Tasks -> Where] /\ Waits' BY <1>1, <1>2, <1>3, GoesOnTypes
<1>5. CallTypes'
  <2>1. kind' \in [Tasks -> {"goals", "drive", "instruction"}] BY <1>1, <1>2 DEF CallTypes
  <2>2. far' \in [Tasks -> BOOLEAN] /\ late' \in [Tasks -> BOOLEAN] BY <1>1, <1>2 DEF CallTypes
  <2>3. left' \in [Tasks -> 0..(Waypoints + MaxSteps)] BY <1>1, <1>2 DEF CallTypes
  <2>4. result' \in [Tasks -> Outcomes] BY <1>1, <1>2 DEF CallTypes, Outcomes
  <2>5. QED BY <1>1, <1>2, <1>4, <2>1, <2>2, <2>3, <2>4, Zenon DEF CallTypes
<1>6. calls' \in 0..CallCap BY <1>1, RobotSdkAssumption DEF CallsInv
<1>7. NavTypes' /\ VlmTypes' /\ VlmCounts' /\ NodeTypes' BY <1>1, SameNav, SameVlm, SameNode
<1>8. Published' BY <1>1, SameCommand
<1>9. NoCommandLeft'
  <2>1. ~ Moving(t) BY <1>1 DEF Moving
  <2>2. \A u \in Tasks : u # t => (Moving(u)' <=> Moving(u))
    BY <1>1, <1>2 DEF Moving, CallTypes
  <2>3. control' = control BY <1>1 DEF vlm
  <2>4. NoCommandLeft BY DEF CallsInv
  <2>5. QED BY <1>1, <2>1, <2>2, <2>3, <2>4, CommandKept, Zenon
<1>10. GoalsHeld' BY <1>1, SameGoalsHeld
<1>11. QED BY <1>4, <1>5, <1>6, <1>7, <1>8, <1>9, <1>10, Zenon DEF CallsInv

\* A call begins.
LEMMA CallTidy ==
  ASSUME CallsInv, NEW t \in Tasks,
         MoveTo(t) \/ FollowPath(t) \/ MoveForward(t) \/ Rotate(t) \/ Instruct(t)
  PROVE  CallsInv'
<1>1. /\ 1 \in 0..(Waypoints + MaxSteps) /\ Waypoints \in 0..(Waypoints + MaxSteps)
      /\ MaxSteps \in 0..(Waypoints + MaxSteps)
  BY RobotSdkAssumption
<1>2. /\ {"send", "look", "plan"} \subseteq Where
      /\ \A w \in {"send", "look", "plan"} : w \notin {"answer", "result"}
  BY DEF Where
<1>3. CASE MoveTo(t) BY <1>1, <1>2, <1>3, StartsTidy DEF MoveTo
<1>4. CASE FollowPath(t) BY <1>1, <1>2, <1>4, StartsTidy DEF FollowPath
<1>5. CASE MoveForward(t) BY <1>1, <1>2, <1>5, StartsTidy DEF MoveForward
<1>6. CASE Rotate(t)
  <2>1. PICK f \in BOOLEAN : Starts(t, "drive", "look", 1, f) BY <1>6 DEF Rotate
  <2>2. QED BY <1>1, <1>2, <2>1, StartsTidy
<1>7. CASE Instruct(t) BY <1>1, <1>2, <1>7, StartsTidy DEF Instruct
<1>8. QED BY <1>3, <1>4, <1>5, <1>6, <1>7

\* The time of a call is over, which the call sees at its next turn.
LEMMA ExpiresTidy == ASSUME CallsInv, NEW t \in Tasks, Expires(t) PROVE CallsInv'
<1>1. /\ late' = [late EXCEPT ![t] = TRUE]
      /\ UNCHANGED <<connected, gen, cmd, pc, kind, far, left, onNode, goalOf, result, nav, vlm,
                     calls>>
  BY DEF Expires
<1>2. late' \in [Tasks -> BOOLEAN] BY <1>1 DEF CallsInv, CallTypes
<1>3. CallTypes' /\ Waits' BY <1>1, <1>2, Zenon DEF CallsInv, CallTypes, Waits
<1>4. NavTypes' /\ VlmTypes' /\ VlmCounts' /\ NodeTypes' BY <1>1, SameNav, SameVlm, SameNode
<1>5. Published' BY <1>1, SameCommand
<1>6. NoCommandLeft' BY <1>1, Zenon DEF CallsInv, NoCommandLeft, Moving, vlm
<1>7. GoalsHeld' BY <1>1, SameGoalsHeld
<1>8. QED BY <1>1, <1>3, <1>4, <1>5, <1>6, <1>7, Zenon DEF CallsInv

-----------------------------------------------------------------------------
\* A call that ends where no velocity of its own is in force, and whose goal is
\* left to somebody else or was over.
LEMMA ReturnsTidy ==
  ASSUME CallsInv, NEW t \in Tasks, NEW o \in Outcomes, Returns(t, o), Unchanged,
         cmd' = cmd \/ cmd' = Zero, UNCHANGED <<goal, answered>>,
         asked' \in {asked, asked \cup {goalOf[t]}}, dropped' \in {dropped, dropped \cup {goalOf[t]}},
         ~ Moving(t) \/ cmd' = Zero \/ ~ connected,
         \/ goalOf[t] = NoGoal \/ goalOf[t] \in asked' \/ goalOf[t] \in dropped'
         \/ goal[goalOf[t]] \notin {"pending", "executing"},
         goalOf[t] = NoGoal => asked' = asked /\ dropped' = dropped
  PROVE  CallsInv'
<1>1. CallTypes /\ Waits /\ GoalsHeld /\ NoCommandLeft /\ NavTypes BY DEF CallsInv
<1>2. /\ NodeTypes' /\ VlmTypes' /\ VlmCounts' /\ calls' \in 0..CallCap
      /\ gen' = gen /\ gen \in Nat /\ connected' = connected /\ control' = control
  BY BesideSame
<1>3. CallTypes' /\ Waits' BY <1>1, <1>2, ReturnsTypes
<1>4. Published' BY <1>2, SameCommand
<1>5. NavTypes'
  <2>1. goalOf[t] \in Goals \cup {NoGoal} BY <1>1 DEF CallTypes
  <2>2. asked' \subseteq Goals /\ dropped' \subseteq Goals BY <1>1, <2>1 DEF NavTypes
  <2>3. QED BY <1>1, <2>2, Zenon DEF NavTypes
<1>6. \A u \in Tasks : u # t => pc'[u] = pc[u] /\ goalOf'[u] = goalOf[u]
  BY <1>1 DEF Returns, CallTypes
<1>7. NoCommandLeft'
  <2>1. CASE cmd' = Zero BY <1>2, <2>1, CommandOfNobody
  <2>2. CASE cmd' = cmd /\ (~ Moving(t) \/ ~ connected)
    <3>1. \A u \in Tasks : Moving(u) => Moving(u)' \/ ~ connected'
      BY <1>2, <1>6, <2>2, Zenon DEF Moving
    <3>2. QED BY <1>1, <1>2, <2>2, <3>1, CommandKept
  <2>3. QED BY <2>1, <2>2
<1>8. GoalsHeld'
  <2>1. asked \subseteq asked' /\ dropped \subseteq dropped' BY Zenon
  <2>2. \A u \in Tasks : goalOf'[u] = goalOf[u] \/ goalOf[u] = NoGoal
                         \/ goalOf[u] \in asked' \/ goalOf[u] \in dropped'
                         \/ goal'[goalOf[u]] \notin {"pending", "executing"}
    BY <1>6, Zenon
  <2>3. QED BY <1>1, <2>1, <2>2, GoalsStillHeld, Zenon
<1>9. QED BY <1>2, <1>3, <1>4, <1>5, <1>7, <1>8, Zenon DEF CallsInv

\* The outcomes of a call.
LEMMA OutcomesKnown ==
  {None, "reached", "timeout", "rejected", "unavailable", "raised"} \subseteq Outcomes
BY DEF Outcomes

\* A call returns when there is no server.
LEMMA ServerMissingTidy == ASSUME CallsInv, NEW t \in Tasks, ServerMissing(t) PROVE CallsInv'
<1>1. pc[t] = "send" /\ Unchanged /\ UNCHANGED <<cmd, nav>> BY DEF ServerMissing
<1>2. PICK o \in Outcomes : Returns(t, o) BY DEF ServerMissing, Outcomes
<1>3. ~ Moving(t) BY <1>1 DEF Moving
<1>4. goalOf[t] = NoGoal BY <1>1 DEF CallsInv, Waits
<1>5. UNCHANGED <<goal, asked, answered, dropped>> BY <1>1 DEF nav
<1>6. QED BY <1>1, <1>2, <1>3, <1>4, <1>5, ReturnsTidy

\* A call that gives up before Nav2 has answered lets its goal go.
LEMMA AnswerTimesOutTidy == ASSUME CallsInv, NEW t \in Tasks, AnswerTimesOut(t) PROVE CallsInv'
<1>1. /\ pc[t] = "answer" /\ dropped' = dropped \cup {goalOf[t]} /\ Returns(t, "timeout")
      /\ Unchanged /\ UNCHANGED <<cmd, goal, asked, answered>>
  BY DEF AnswerTimesOut
<1>2. ~ Moving(t) BY <1>1 DEF Moving
<1>3. goalOf[t] # NoGoal BY <1>1 DEF CallsInv, Waits
<1>4. "timeout" \in Outcomes BY DEF Outcomes
<1>5. QED BY <1>1, <1>2, <1>3, <1>4, ReturnsTidy

\* A call goes on to another place, with the same goal.
LEMMA GoesOnTidy ==
  ASSUME CallsInv, NEW t \in Tasks, NEW where \in Where, pc' = [pc EXCEPT ![t] = where],
         pc[t] \in {"answer", "result"} <=> where \in {"answer", "result"},
         ~ Moving(t) \/ where \in {"look", "sleep"} \/ cmd' = Zero,
         cmd' = cmd \/ cmd' = Zero, Unchanged,
         UNCHANGED <<kind, far, left, late, onNode, goalOf, result, nav>>
  PROVE  CallsInv'
<1>1. CallTypes /\ Waits /\ NoCommandLeft BY DEF CallsInv
<1>2. /\ NodeTypes' /\ VlmTypes' /\ VlmCounts' /\ calls' \in 0..CallCap
      /\ gen' = gen /\ gen \in Nat /\ connected' = connected /\ control' = control
  BY BesideSame
<1>3. pc' \in [Tasks -> Where] /\ Waits' BY <1>1, GoesOnTypes
<1>4. CallTypes' BY <1>1, <1>2, <1>3, Zenon DEF CallTypes
<1>5. NavTypes' /\ Published' /\ GoalsHeld' BY <1>2, SameNav, SameCommand, SameGoalsHeld
<1>6. NoCommandLeft'
  <2>1. CASE cmd' = Zero BY <1>2, <2>1, CommandOfNobody
  <2>2. CASE cmd' = cmd /\ (~ Moving(t) \/ where \in {"look", "sleep"})
    <3>1. pc'[t] = where /\ \A u \in Tasks : u # t => pc'[u] = pc[u] BY <1>1 DEF CallTypes
    <3>2. \A u \in Tasks : Moving(u) => Moving(u)' \/ ~ connected'
      BY <2>2, <3>1, Zenon DEF Moving
    <3>3. QED BY <1>1, <1>2, <2>2, <3>2, CommandKept
  <2>3. QED BY <2>1, <2>2
<1>7. QED BY <1>2, <1>3, <1>4, <1>5, <1>6, Zenon DEF CallsInv

\* Nav2 has accepted or rejected the goal of a call.
LEMMA AnsweredTidy == ASSUME CallsInv, NEW t \in Tasks, Answered(t) PROVE CallsInv'
<1>1. /\ pc[t] = "answer" /\ Unchanged /\ UNCHANGED <<cmd, nav>>
  BY DEF Answered
<1>2. ~ Moving(t) BY <1>1 DEF Moving
<1>3. goalOf[t] # NoGoal BY <1>1 DEF CallsInv, Waits
<1>4. CASE goal[goalOf[t]] = "rejected" /\ Returns(t, "rejected")
  <2>1. "rejected" \in Outcomes BY DEF Outcomes
  <2>2. UNCHANGED <<goal, asked, answered, dropped>> BY <1>1 DEF nav
  <2>3. goal[goalOf[t]] \notin {"pending", "executing"} BY <1>4
  <2>4. QED BY <1>1, <1>2, <1>3, <1>4, <2>1, <2>2, <2>3, ReturnsTidy
<1>5. CASE /\ pc' = [pc EXCEPT ![t] = "result"]
           /\ UNCHANGED <<kind, far, left, late, onNode, goalOf, result>>
  <2>1. "result" \in Where BY DEF Where
  <2>2. pc[t] \in {"answer", "result"} /\ "result" \in {"answer", "result"} BY <1>1
  <2>3. QED BY <1>1, <1>2, <1>5, <2>1, <2>2, GoesOnTidy
<1>6. QED BY <1>4, <1>5 DEF Answered

\* A call that gives up before the result asks Nav2 to cancel.
LEMMA ResultTimesOutTidy == ASSUME CallsInv, NEW t \in Tasks, ResultTimesOut(t) PROVE CallsInv'
<1>1. pc[t] = "result" /\ Unchanged /\ UNCHANGED <<cmd, goal, answered>> BY DEF ResultTimesOut
<1>2. ~ Moving(t) BY <1>1 DEF Moving
<1>3. goalOf[t] # NoGoal BY <1>1 DEF CallsInv, Waits
<1>4. "timeout" \in Outcomes /\ "raised" \in Outcomes BY DEF Outcomes
<1>5. CASE /\ Returns(t, "timeout") /\ asked' = asked \cup {goalOf[t]} /\ UNCHANGED dropped
  BY <1>1, <1>2, <1>3, <1>4, <1>5, ReturnsTidy
<1>6. CASE /\ Returns(t, "raised") /\ dropped' = dropped \cup {goalOf[t]} /\ UNCHANGED asked
  BY <1>1, <1>2, <1>3, <1>4, <1>6, ReturnsTidy
<1>7. QED BY <1>5, <1>6 DEF ResultTimesOut

\* A goal is sent with the call that waits for it.
LEMMA SendGoalTidy == ASSUME CallsInv, NEW t \in Tasks, SendGoal(t) PROVE CallsInv'
<1>1. PICK g \in Goals : /\ goal[g] = None /\ goal' = [goal EXCEPT ![g] = "pending"]
                         /\ goalOf' = [goalOf EXCEPT ![t] = g]
  BY DEF SendGoal
<1>2. /\ pc[t] = "send" /\ connected /\ onNode' = [onNode EXCEPT ![t] = gen]
      /\ late' = [late EXCEPT ![t] = FALSE] /\ pc' = [pc EXCEPT ![t] = "answer"] /\ Unchanged
      /\ UNCHANGED <<cmd, kind, far, left, result, asked, answered, dropped>>
  BY DEF SendGoal
<1>3. CallTypes /\ Waits /\ NavTypes /\ NoCommandLeft /\ GoalsHeld BY DEF CallsInv
<1>4. /\ NodeTypes' /\ VlmTypes' /\ VlmCounts' /\ calls' \in 0..CallCap
      /\ gen' = gen /\ gen \in Nat /\ connected' = connected /\ control' = control
  BY <1>2, BesideSame
<1>5. CallTypes'
  <2>1. pc' \in [Tasks -> Where] BY <1>2, <1>3 DEF CallTypes, Where
  <2>2. late' \in [Tasks -> BOOLEAN] BY <1>2, <1>3 DEF CallTypes
  <2>3. goalOf' \in [Tasks -> Goals \cup {NoGoal}] BY <1>1, <1>3 DEF CallTypes
  <2>4. onNode' \in [Tasks -> Nat] /\ \A u \in Tasks : onNode'[u] <= gen'
    BY <1>2, <1>3, <1>4 DEF CallTypes
  <2>5. QED BY <1>2, <1>3, <2>1, <2>2, <2>3, <2>4, Zenon DEF CallTypes
<1>6. \A u \in Tasks : IF u = t THEN pc'[u] = "answer" /\ goalOf'[u] = g
                       ELSE pc'[u] = pc[u] /\ goalOf'[u] = goalOf[u]
  BY <1>1, <1>2, <1>3 DEF CallTypes
<1>7. Waits'
  <2> SUFFICES ASSUME NEW u \in Tasks
               PROVE  pc'[u] \in {"answer", "result"} <=> goalOf'[u] # NoGoal
    BY DEF Waits
  <2>1. g # NoGoal BY RobotSdkAssumption
  <2>2. CASE u = t BY <1>6, <2>1, <2>2
  <2>3. CASE u # t
    <3>1. pc'[u] = pc[u] /\ goalOf'[u] = goalOf[u] BY <1>6, <2>3
    <3>2. QED BY <1>3, <3>1 DEF Waits
  <2>4. QED BY <2>2, <2>3
<1>8. NavTypes' BY <1>1, <1>2, <1>3 DEF NavTypes
<1>9. Published' BY <1>2, <1>4, SameCommand
<1>10. NoCommandLeft'
  <2>1. ~ Moving(t) BY <1>2 DEF Moving
  <2>2. \A u \in Tasks : Moving(u) => Moving(u)' \/ ~ connected'
    BY <1>6, <2>1, Zenon DEF Moving
  <2>3. QED BY <1>2, <1>3, <1>4, <2>2, CommandKept
<1>11. GoalsHeld'
  <2> SUFFICES ASSUME NEW h \in Goals, goal'[h] \in {"pending", "executing"}
               PROVE  \/ h \in asked' \/ h \in dropped' \/ \E u \in Tasks : goalOf'[u] = h
    BY DEF GoalsHeld
  <2>1. CASE h = g BY <1>6, <2>1
  <2>2. CASE h # g
    <3>1. goal[h] \in {"pending", "executing"} BY <1>1, <1>3, <2>2 DEF NavTypes
    <3>2. h \in asked \/ h \in dropped \/ \E u \in Tasks : goalOf[u] = h
      BY <1>3, <3>1, Zenon DEF GoalsHeld
    <3>3. goalOf[t] = NoGoal BY <1>2, <1>3 DEF Waits
    <3>4. h # NoGoal BY RobotSdkAssumption
    <3>5. QED BY <1>2, <1>6, <3>2, <3>3, <3>4, Zenon
  <2>3. QED BY <2>1, <2>2
<1>12. QED BY <1>4, <1>5, <1>7, <1>8, <1>9, <1>10, <1>11, Zenon DEF CallsInv

\* A result ends the wait: the call returns or goes on to the next goal.
LEMMA ResultArrivesTidy == ASSUME CallsInv, NEW t \in Tasks, ResultArrives(t) PROVE CallsInv'
<1>1. /\ pc[t] = "result" /\ goal[goalOf[t]] = "over" /\ Unchanged /\ UNCHANGED <<cmd, nav>>
  BY DEF ResultArrives
<1>2. ~ Moving(t) BY <1>1 DEF Moving
<1>3. goalOf[t] # NoGoal BY <1>1 DEF CallsInv, Waits
<1>4. goal[goalOf[t]] \notin {"pending", "executing"} BY <1>1
<1>5. UNCHANGED <<goal, asked, answered, dropped>> BY <1>1 DEF nav
<1>6. CASE left[t] = 1 /\ Returns(t, "reached")
  <2>1. "reached" \in Outcomes BY DEF Outcomes
  <2>2. QED BY <1>1, <1>2, <1>3, <1>4, <1>5, <1>6, <2>1, ReturnsTidy
<1>7. CASE /\ left[t] > 1 /\ left' = [left EXCEPT ![t] = @ - 1]
           /\ pc' = [pc EXCEPT ![t] = "send"] /\ goalOf' = [goalOf EXCEPT ![t] = NoGoal]
           /\ UNCHANGED <<kind, far, late, onNode, result>>
  <2>1. CallTypes /\ Waits /\ NavTypes /\ NoCommandLeft /\ GoalsHeld BY DEF CallsInv
  <2>2. /\ NodeTypes' /\ VlmTypes' /\ VlmCounts' /\ calls' \in 0..CallCap
        /\ gen' = gen /\ gen \in Nat /\ connected' = connected /\ control' = control
    BY <1>1, BesideSame
  <2>3. CallTypes'
    <3>1. pc' \in [Tasks -> Where] BY <1>7, <2>1 DEF CallTypes, Where
    <3>2. goalOf' \in [Tasks -> Goals \cup {NoGoal}] BY <1>7, <2>1 DEF CallTypes
    <3>3. left' \in [Tasks -> 0..(Waypoints + MaxSteps)]
      BY <1>7, <2>1, RobotSdkAssumption DEF CallTypes
    <3>4. QED BY <1>7, <2>1, <2>2, <3>1, <3>2, <3>3, Zenon DEF CallTypes
  <2>4. \A u \in Tasks : IF u = t THEN pc'[u] = "send" /\ goalOf'[u] = NoGoal
                         ELSE pc'[u] = pc[u] /\ goalOf'[u] = goalOf[u]
    BY <1>7, <2>1 DEF CallTypes
  <2>5. Waits'
    <3> SUFFICES ASSUME NEW u \in Tasks
                 PROVE  pc'[u] \in {"answer", "result"} <=> goalOf'[u] # NoGoal
      BY DEF Waits
    <3>1. CASE u = t BY <2>4, <3>1
    <3>2. CASE u # t
      <4>1. pc'[u] = pc[u] /\ goalOf'[u] = goalOf[u] BY <2>4, <3>2
      <4>2. QED BY <2>1, <4>1 DEF Waits
    <3>3. QED BY <3>1, <3>2
  <2>6. NavTypes' /\ Published' BY <1>1, <2>2, SameNav, SameCommand
  <2>7. NoCommandLeft'
    <3>1. \A u \in Tasks : Moving(u) => Moving(u)' \/ ~ connected'
      BY <1>2, <2>4, Zenon DEF Moving
    <3>2. QED BY <1>1, <2>1, <2>2, <3>1, CommandKept
  <2>8. GoalsHeld'
    <3>1. \A u \in Tasks : goalOf'[u] = goalOf[u] \/ goalOf[u] = NoGoal
                           \/ goalOf[u] \in asked' \/ goalOf[u] \in dropped'
                           \/ goal'[goalOf[u]] \notin {"pending", "executing"}
      BY <1>4, <1>5, <2>4, Zenon
    <3>2. QED BY <1>5, <2>1, <3>1, GoalsStillHeld, Zenon
  <2>9. QED BY <2>2, <2>3, <2>5, <2>6, <2>7, <2>8, Zenon DEF CallsInv
<1>8. QED BY <1>6, <1>7 DEF ResultArrives

\* One publication of a motion call.
LEMMA DriveTidy == ASSUME CallsInv, NEW t \in Tasks, Drive(t) PROVE CallsInv'
<1>1. pc[t] = "look" /\ Unchanged /\ UNCHANGED nav BY DEF Drive
<1>2. goalOf[t] = NoGoal BY <1>1 DEF CallsInv, Waits
<1>3. UNCHANGED <<goal, asked, answered, dropped>> BY <1>1 DEF nav
<1>4. CASE ~ connected /\ Returns(t, "raised") /\ UNCHANGED cmd
  <2>1. "raised" \in Outcomes BY DEF Outcomes
  <2>2. QED BY <1>1, <1>2, <1>3, <1>4, <2>1, ReturnsTidy
<1>5. CASE /\ connected /\ cmd' = <<t, gen>> /\ pc' = [pc EXCEPT ![t] = "sleep"]
           /\ UNCHANGED <<kind, far, left, late, onNode, goalOf, result>>
  <2>1. CallTypes /\ Waits BY DEF CallsInv
  <2>2. /\ NodeTypes' /\ VlmTypes' /\ VlmCounts' /\ calls' \in 0..CallCap
        /\ gen' = gen /\ gen \in Nat /\ connected' = connected /\ control' = control
    BY <1>1, BesideSame
  <2>3. "sleep" \in Where /\ (pc[t] \in {"answer", "result"} <=> "sleep" \in {"answer", "result"})
    BY <1>1 DEF Where
  <2>4. pc' \in [Tasks -> Where] /\ Waits' BY <1>5, <2>1, <2>3, GoesOnTypes
  <2>5. CallTypes' BY <1>5, <2>1, <2>2, <2>4, Zenon DEF CallTypes
  <2>6. t \in Tasks \cup {"vlm", "user"} OBVIOUS
  <2>7. Published' BY <1>5, <2>2, <2>6, NewCommand
  <2>8. NavTypes' /\ GoalsHeld' BY <1>1, <1>5, SameNav, SameGoalsHeld
  <2>9. NoCommandLeft'
    <3>1. Moving(t)'
      <4>1. pc'[t] = "sleep" BY <1>5, <2>1 DEF CallTypes
      <4>2. QED BY <4>1, Zenon DEF Moving
    <3>2. \A u \in Tasks : cmd' = <<u, gen'>> => u = t
      <4>1. \A a, b, c, d : <<a, b>> = <<c, d>> => a = c OBVIOUS
      <4>2. QED BY <1>5, <4>1, Zenon
    <3>3. cmd' # <<"vlm", gen'>> BY <1>5, CommandNames, Zenon
    <3>4. QED BY <3>1, <3>2, <3>3, Zenon DEF NoCommandLeft
  <2>10. QED BY <2>2, <2>4, <2>5, <2>7, <2>8, <2>9, Zenon DEF CallsInv
<1>6. QED BY <1>4, <1>5 DEF Drive

\* A motion call looks again after its sleep.
LEMMA NotThereYetTidy == ASSUME CallsInv, NEW t \in Tasks, NotThereYet(t) PROVE CallsInv'
<1>1. /\ pc[t] = "sleep" /\ pc' = [pc EXCEPT ![t] = "look"] /\ Unchanged
      /\ UNCHANGED <<cmd, kind, far, left, late, onNode, goalOf, result, nav>>
  BY DEF NotThereYet
<1>2. "look" \in Where /\ (pc[t] \in {"answer", "result"} <=> "look" \in {"answer", "result"})
  BY <1>1 DEF Where
<1>3. QED BY <1>1, <1>2, GoesOnTidy

\* A motion stops the robot as it ends, if there is a node to stop it by.
LEMMA StopAndReturnTidy ==
  ASSUME CallsInv, NEW t \in Tasks, NEW o \in Outcomes, pc[t] \in {"look", "sleep"},
         StopAndReturn(t, o), Unchanged, UNCHANGED nav
  PROVE  CallsInv'
<1>1. goalOf[t] = NoGoal BY DEF CallsInv, Waits
<1>2. UNCHANGED <<goal, asked, answered, dropped>> BY DEF nav
<1>3. "raised" \in Outcomes BY DEF Outcomes
<1>4. CASE ~ connected /\ UNCHANGED cmd /\ Returns(t, "raised")
  BY <1>1, <1>2, <1>3, <1>4, ReturnsTidy
<1>5. CASE connected /\ cmd' = Zero /\ MotionEnds(t, o)
  <2>1. CASE Returns(t, o) BY <1>1, <1>2, <1>5, <2>1, ReturnsTidy
  <2>2. CASE /\ pc' = [pc EXCEPT ![t] = "plan"]
             /\ UNCHANGED <<kind, far, left, late, onNode, goalOf, result>>
    <3>1. "plan" \in Where /\ (pc[t] \in {"answer", "result"} <=> "plan" \in {"answer", "result"})
      BY DEF Where
    <3>2. QED BY <1>5, <2>2, <3>1, GoesOnTidy
  <2>3. QED BY <1>5, <2>1, <2>2 DEF MotionEnds
<1>6. QED BY <1>4, <1>5 DEF StopAndReturn

\* A motion call stops the robot before it returns.
LEMMA MotionOverTidy ==
  ASSUME CallsInv, NEW t \in Tasks, Arrives(t) \/ MotionTimesOut(t) PROVE CallsInv'
<1>1. "reached" \in Outcomes /\ "timeout" \in Outcomes BY DEF Outcomes
<1>2. CASE Arrives(t) BY <1>1, <1>2, StopAndReturnTidy DEF Arrives
<1>3. CASE MotionTimesOut(t) BY <1>1, <1>3, StopAndReturnTidy DEF MotionTimesOut
<1>4. QED BY <1>2, <1>3

\* The next step of an instruction.
LEMMA PlanTidy == ASSUME CallsInv, NEW t \in Tasks, Plan(t) PROVE CallsInv'
<1>1. pc[t] = "plan" /\ Unchanged /\ UNCHANGED nav BY DEF Plan
<1>2. ~ Moving(t) BY <1>1 DEF Moving
<1>3. goalOf[t] = NoGoal BY <1>1 DEF CallsInv, Waits
<1>4. UNCHANGED <<goal, asked, answered, dropped>> BY <1>1 DEF nav
<1>5. CASE UNCHANGED cmd /\ \E o \in Outcomes : Returns(t, o)
  <2>1. PICK o \in Outcomes : Returns(t, o) BY <1>5
  <2>2. QED BY <1>1, <1>2, <1>3, <1>4, <1>5, <2>1, ReturnsTidy
<1>6. CASE /\ left[t] > 0 /\ left' = [left EXCEPT ![t] = @ - 1]
           /\ \/ cmd' \in {cmd, Zero} /\ UNCHANGED <<pc, far, late>>
              \/ /\ pc' = [pc EXCEPT ![t] = "look"]
                 /\ far' \in {[far EXCEPT ![t] = f] : f \in BOOLEAN}
                 /\ late' = [late EXCEPT ![t] = FALSE] /\ UNCHANGED cmd
           /\ UNCHANGED <<kind, onNode, goalOf, result>>
  <2>1. CallTypes /\ Waits /\ NoCommandLeft BY DEF CallsInv
  <2>2. /\ NodeTypes' /\ VlmTypes' /\ VlmCounts' /\ calls' \in 0..CallCap
        /\ gen' = gen /\ gen \in Nat /\ connected' = connected /\ control' = control
    BY <1>1, BesideSame
  <2>3. pc' \in [Tasks -> Where] /\ Waits'
    <3>1. CASE pc' = pc BY <1>6, <2>1, <3>1 DEF CallTypes, Waits
    <3>2. CASE pc' = [pc EXCEPT ![t] = "look"]
      <4>1. "look" \in Where /\ (pc[t] \in {"answer", "result"} <=> "look" \in {"answer", "result"})
        BY <1>1 DEF Where
      <4>2. QED BY <1>6, <2>1, <3>2, <4>1, GoesOnTypes
    <3>3. QED BY <1>6, <3>1, <3>2
  <2>4. CallTypes'
    <3>1. left' \in [Tasks -> 0..(Waypoints + MaxSteps)]
      BY <1>6, <2>1, RobotSdkAssumption DEF CallTypes
    <3>2. far' \in [Tasks -> BOOLEAN] BY <1>6, <2>1 DEF CallTypes
    <3>3. late' \in [Tasks -> BOOLEAN] BY <1>6, <2>1 DEF CallTypes
    <3>4. QED BY <1>6, <2>1, <2>2, <2>3, <3>1, <3>2, <3>3, Zenon DEF CallTypes
  <2>5. cmd' = cmd \/ cmd' = Zero BY <1>6
  <2>6. NavTypes' /\ Published' /\ GoalsHeld'
    BY <1>1, <1>6, <2>2, <2>5, SameNav, SameCommand, SameGoalsHeld
  <2>7. NoCommandLeft'
    <3>1. CASE cmd' = Zero BY <2>2, <3>1, CommandOfNobody
    <3>2. CASE cmd' = cmd
      <4>1. \A u \in Tasks : u # t => pc'[u] = pc[u] BY <1>6, <2>1 DEF CallTypes
      <4>2. \A u \in Tasks : Moving(u) => Moving(u)' \/ ~ connected'
        BY <1>2, <4>1, Zenon DEF Moving
      <4>3. QED BY <2>1, <2>2, <3>2, <4>2, CommandKept
    <3>3. QED BY <2>5, <3>1, <3>2
  <2>8. QED BY <2>2, <2>3, <2>4, <2>6, <2>7, Zenon DEF CallsInv
<1>7. \A o \in {"timeout", "raised", "reached"} : o \in Outcomes BY DEF Outcomes
<1>8. QED BY <1>5, <1>6, <1>7 DEF Plan

-----------------------------------------------------------------------------
\* Nav2 and the spin thread: the calls see nothing of it yet.
LEMMA OutsideTidy ==
  ASSUME CallsInv, Outside, NavTypes', asked' = asked, dropped' = dropped,
         \A g \in Goals : goal'[g] \in {"pending", "executing"}
                            => goal[g] \in {"pending", "executing"}
  PROVE  CallsInv'
<1>1. /\ UNCHANGED <<connected, gen, cmd, call, vlm, calls>> BY DEF Outside
<1>2. gen \in Nat /\ gen' \in Nat /\ gen' >= gen BY <1>1 DEF CallsInv, NodeTypes
<1>3. CallTypes' /\ Waits' BY <1>1, <1>2, SameCalls
<1>4. VlmTypes' /\ VlmCounts' /\ NodeTypes' /\ Published' BY <1>1, SameVlm, SameNode, SameCommand
<1>5. NoCommandLeft' BY <1>1, Zenon DEF CallsInv, NoCommandLeft, Moving, vlm, call
<1>6. GoalsHeld'
  <2>1. CallTypes /\ GoalsHeld BY DEF CallsInv
  <2>2. goalOf' = goalOf BY <1>1 DEF call
  <2>3. QED BY <2>1, <2>2, GoalsStillHeld, Zenon
<1>7. QED BY <1>1, <1>3, <1>4, <1>5, <1>6, Zenon DEF CallsInv

\* Nav2 answers and ends goals on its own.
LEMMA Nav2Tidy ==
  ASSUME CallsInv, NEW g \in Goals, Nav2Answers(g) \/ Nav2Ends(g) PROVE CallsInv'
<1>1. PICK s \in {"executing", "rejected", "over"} :
        goal' = [goal EXCEPT ![g] = s] /\ goal[g] \in {"pending", "executing"}
  BY DEF Nav2Answers, Nav2Ends
<1>2. UNCHANGED <<asked, answered, dropped>> /\ Outside BY Zenon DEF Nav2Answers, Nav2Ends
<1>3. NavTypes' BY <1>1, <1>2 DEF CallsInv, NavTypes
<1>4. \A h \in Goals : h # g => goal'[h] = goal[h] BY <1>1 DEF CallsInv, NavTypes
<1>5. \A h \in Goals : goal'[h] \in {"pending", "executing"} => goal[h] \in {"pending", "executing"}
  BY <1>1, <1>4, Zenon
<1>6. QED BY <1>2, <1>3, <1>5, OutsideTidy

\* The spin thread delivers Nav2's answer.
LEMMA AnswerDeliveredTidy == ASSUME CallsInv, NEW t \in Tasks, AnswerDelivered(t) PROVE CallsInv'
<1>1. /\ pc[t] = "answer" /\ answered' = answered \cup {goalOf[t]}
      /\ UNCHANGED <<goal, asked, dropped>> /\ Outside
  BY DEF AnswerDelivered
<1>2. goalOf[t] \in Goals BY <1>1 DEF CallsInv, Waits, CallTypes
<1>3. NavTypes' BY <1>1, <1>2 DEF CallsInv, NavTypes
<1>4. \A g \in Goals : goal'[g] = goal[g] BY <1>1
<1>5. QED BY <1>1, <1>3, <1>4, OutsideTidy, Zenon

-----------------------------------------------------------------------------
\* The executor's own tasks touch no call and no goal.
LEMMA ExecutorTidy ==
  ASSUME CallsInv, OtherCalls, VlmTypes', VlmCounts', calls' \in 0..CallCap,
         \/ cmd' = cmd /\ (control' = "over" => control = "over")
         \/ cmd' = Zero
         \/ connected /\ cmd' = <<"vlm", gen>> /\ control' # "over"
  PROVE  CallsInv'
<1>1. UNCHANGED <<connected, gen, call, nav>> BY DEF OtherCalls
<1>2. gen \in Nat /\ gen' \in Nat /\ gen' >= gen BY <1>1 DEF CallsInv, NodeTypes
<1>3. CallTypes' /\ Waits' BY <1>1, <1>2, SameCalls
<1>4. NavTypes' /\ NodeTypes' BY <1>1, SameNav, SameNode
<1>5. GoalsHeld' BY <1>1, SameGoalsHeld DEF call
<1>6. Published' /\ NoCommandLeft'
  <2>1. CASE cmd' = cmd /\ (control' = "over" => control = "over")
    <3>1. Published' BY <1>1, <2>1, SameCommand
    <3>2. NoCommandLeft /\ \A t \in Tasks : Moving(t) => Moving(t)' \/ ~ connected'
      BY <1>1, Zenon DEF CallsInv, Moving, call
    <3>3. QED BY <1>1, <2>1, <3>1, <3>2, CommandKept
  <2>2. CASE cmd' = Zero BY <1>1, <2>2, SameCommand, CommandOfNobody
  <2>3. CASE connected /\ cmd' = <<"vlm", gen>> /\ control' # "over"
    <3>1. "vlm" \in Tasks \cup {"vlm", "user"} OBVIOUS
    <3>2. Published' BY <1>1, <2>3, <3>1, NewCommand
    <3>3. \A t \in Tasks : cmd' # <<t, gen'>> BY <1>1, <2>3, CommandNames, Zenon
    <3>4. QED BY <2>3, <3>2, <3>3, Zenon DEF NoCommandLeft
  <2>4. QED BY <2>1, <2>2, <2>3
<1>7. QED BY <1>3, <1>4, <1>5, <1>6, Zenon DEF CallsInv

\* The executor begins with its two tasks.
LEMMA ExecuteInstructionTidy == ASSUME CallsInv, ExecuteInstruction PROVE CallsInv'
<1>1. /\ calls < CallCap /\ calls' = calls + 1 /\ exec' = "running" /\ inference' = "look"
      /\ control' = "running" /\ steps' = 0 /\ action' = None /\ since' = 0 /\ done' = FALSE
      /\ OtherCalls /\ UNCHANGED cmd
  BY DEF ExecuteInstruction
<1>2. VlmTypes' BY <1>1, Zenon DEF VlmTypes
<1>3. VlmCounts' BY <1>1, RobotSdkAssumption DEF VlmCounts
<1>4. calls' \in 0..CallCap BY <1>1, RobotSdkAssumption DEF CallsInv
<1>5. control' # "over" BY <1>1
<1>6. QED BY <1>1, <1>2, <1>3, <1>4, <1>5, ExecutorTidy

\* Its inference task asks the model and hears from it.
LEMMA InferenceTidy == ASSUME CallsInv, InferenceAsks \/ InferenceAnswers PROVE CallsInv'
<1>1. /\ inference' \in {"asked", "raised", "over", "look"} /\ OtherCalls
      /\ UNCHANGED <<cmd, exec, control, since, done, calls>>
      /\ action' \in Actions \cup {action}
  BY DEF InferenceAsks, InferenceAnswers
<1>2. steps' = steps \/ (steps < MaxSteps /\ steps' = steps + 1)
  <2>1. CASE InferenceAsks BY <2>1 DEF InferenceAsks
  <2>2. CASE InferenceAnswers BY <2>2 DEF InferenceAnswers
  <2>3. QED BY <2>1, <2>2
<1>3. VlmTypes' BY <1>1 DEF CallsInv, VlmTypes
<1>4. VlmCounts' BY <1>1, <1>2, RobotSdkAssumption DEF CallsInv, VlmCounts
<1>5. calls' \in 0..CallCap BY <1>1 DEF CallsInv
<1>6. QED BY <1>1, <1>3, <1>4, <1>5, ExecutorTidy

\* It waits for the one task, then for the other.
LEMMA AwaitTidy == ASSUME CallsInv, AwaitInference \/ AwaitControl PROVE CallsInv'
<1>1. /\ exec' \in {exec, "raised", "returned"} /\ done' \in {done, TRUE} /\ OtherCalls
      /\ UNCHANGED <<cmd, inference, control, steps, action, since, calls>>
  BY DEF AwaitInference, AwaitControl
<1>2. VlmTypes' BY <1>1 DEF CallsInv, VlmTypes
<1>3. VlmCounts' BY <1>1 DEF CallsInv, VlmCounts
<1>4. calls' \in 0..CallCap BY <1>1 DEF CallsInv
<1>5. QED BY <1>1, <1>2, <1>3, <1>4, ExecutorTidy

\* Its control task publishes, or stops the robot and ends.
LEMMA ControlTurnTidy == ASSUME CallsInv, ControlTurn PROVE CallsInv'
<1>1. /\ control = "running" /\ UNCHANGED action /\ OtherCalls
      /\ UNCHANGED <<exec, inference, steps, done, calls>>
  BY DEF ControlTurn
<1>2. calls' \in 0..CallCap BY <1>1 DEF CallsInv
<1>3. CASE control' \in {"raised", "over"} /\ since' = since
           /\ (cmd' = Zero \/ (control' = "raised" /\ cmd' = cmd))
  <2>1. VlmTypes' BY <1>1, <1>3 DEF CallsInv, VlmTypes
  <2>2. VlmCounts' BY <1>1, <1>3 DEF CallsInv, VlmCounts
  <2>3. cmd' = Zero \/ (cmd' = cmd /\ (control' = "over" => control = "over")) BY <1>3
  <2>4. QED BY <1>1, <1>2, <2>1, <2>2, <2>3, ExecutorTidy
<1>4. CASE /\ connected /\ cmd' = Target /\ control' = control
           /\ since' = IF since > VlmTimeout THEN since ELSE since + 1
  <2>1. VlmTypes' BY <1>1, <1>4 DEF CallsInv, VlmTypes
  <2>2. VlmCounts' BY <1>1, <1>4, RobotSdkAssumption DEF CallsInv, VlmCounts
  <2>3. Target \in {Zero, <<"vlm", gen>>, cmd} BY Zenon DEF Target
  <2>4. control' # "over" BY <1>1, <1>4
  <2>5. QED BY <1>1, <1>2, <1>4, <2>1, <2>2, <2>3, <2>4, ExecutorTidy
<1>5. CASE ~ connected \/ (~ done /\ ~ Stale /\ action = "malformed")
  <2>1. control' = "raised" /\ cmd' = cmd /\ since' = since BY <1>5 DEF ControlTurn
  <2>2. QED BY <1>3, <2>1
<1>6. CASE connected /\ ~ (~ done /\ ~ Stale /\ action = "malformed") /\ done
  <2>1. control' = "over" /\ cmd' = Zero /\ since' = since BY <1>6, Zenon DEF ControlTurn
  <2>2. QED BY <1>3, <2>1
<1>7. CASE connected /\ ~ (~ done /\ ~ Stale /\ action = "malformed") /\ ~ done
  <2>1. /\ cmd' = Target /\ control' = control
        /\ since' = IF since > VlmTimeout THEN since ELSE since + 1
    BY <1>7, Zenon DEF ControlTurn
  <2>2. QED BY <1>4, <1>7, <2>1
<1>8. QED BY <1>5, <1>6, <1>7

-----------------------------------------------------------------------------
\* No call, no goal, no velocity.
LEMMA CallsInit == Init => CallsInv
<1> SUFFICES ASSUME Init PROVE CallsInv OBVIOUS
<1>1. \A t \in Tasks : pc[t] = "idle" /\ goalOf[t] = NoGoal BY DEF Init
<1>2. CallTypes
  <2>1. /\ pc \in [Tasks -> Where] /\ kind \in [Tasks -> {"goals", "drive", "instruction"}]
        /\ far \in [Tasks -> BOOLEAN] /\ late \in [Tasks -> BOOLEAN]
        /\ goalOf \in [Tasks -> Goals \cup {NoGoal}] /\ result \in [Tasks -> Outcomes]
    BY DEF Init, Where, Outcomes
  <2>2. /\ left \in [Tasks -> 0..(Waypoints + MaxSteps)]
        /\ onNode \in [Tasks -> Nat] /\ \A t \in Tasks : onNode[t] <= gen
    BY RobotSdkAssumption DEF Init
  <2>3. QED BY <2>1, <2>2 DEF CallTypes
<1>3. Waits
  <2> SUFFICES ASSUME NEW t \in Tasks
               PROVE  pc[t] \in {"answer", "result"} <=> goalOf[t] # NoGoal
    BY DEF Waits
  <2>1. QED BY <1>1
<1>4. NavTypes BY DEF Init, NavTypes
<1>5. VlmTypes BY Zenon DEF Init, VlmTypes
<1>6. VlmCounts /\ calls \in 0..CallCap BY RobotSdkAssumption DEF Init, VlmCounts
<1>7. NodeTypes
  <2>1. connected = FALSE /\ gen = 0 BY DEF Init
  <2>2. 0 \in 0..ConnectCap BY RobotSdkAssumption
  <2>3. QED BY <2>1, <2>2, Zenon DEF NodeTypes
<1>8. Published BY Zenon DEF Init, Published
<1>9. NoCommandLeft BY DEF Init, NoCommandLeft
<1>10. GoalsHeld
  <2>1. \A g \in Goals : goal[g] = None BY DEF Init
  <2>2. None \notin {"pending", "executing"} BY DEF None
  <2>3. QED BY <2>1, <2>2, Zenon DEF GoalsHeld
<1>11. QED BY <1>2, <1>3, <1>4, <1>5, <1>6, <1>7, <1>8, <1>9, <1>10, Zenon DEF CallsInv

\* Each turn of a call is one of these.
LEMMA TurnTidy == ASSUME CallsInv, NEW t \in Tasks, Turn(t) PROVE CallsInv'
BY ServerMissingTidy, SendGoalTidy, AnswerTimesOutTidy, AnsweredTidy, ResultTimesOutTidy,
   ResultArrivesTidy, DriveTidy, NotThereYetTidy, MotionOverTidy, PlanTidy, Zenon DEF Turn

\* Every step keeps the invariant.
LEMMA CallsNext == CallsInv /\ [Next]_vars => CallsInv'
<1> SUFFICES ASSUME CallsInv, [Next]_vars PROVE CallsInv' OBVIOUS
<1>1. ASSUME NEW t \in Tasks,
             \/ MoveTo(t) \/ FollowPath(t) \/ MoveForward(t) \/ Rotate(t) \/ Instruct(t)
             \/ Expires(t) \/ Turn(t) \/ AnswerDelivered(t)
      PROVE  CallsInv'
  BY <1>1, CallTidy, ExpiresTidy, TurnTidy, AnswerDeliveredTidy, Zenon
<1>2. ASSUME NEW g \in Goals, Nav2Answers(g) \/ Nav2Ends(g) PROVE CallsInv'
  BY <1>2, Nav2Tidy
<1>3. CASE UNCHANGED vars
  <2>1. UNCHANGED <<connected, gen, cmd, call, nav, vlm, calls>> BY <1>3 DEF vars
  <2>2. calls' \in 0..CallCap BY <2>1 DEF CallsInv
  <2>3. OtherCalls BY <2>1 DEF OtherCalls
  <2>4. VlmTypes' /\ VlmCounts' BY <2>1, SameVlm
  <2>5. control' = control BY <2>1 DEF vlm
  <2>6. QED BY <2>1, <2>2, <2>3, <2>4, <2>5, ExecutorTidy
<1>4. CASE Next
  BY <1>1, <1>2, <1>4, ConnectTidy, DisconnectTidy, UserTidy, ExecuteInstructionTidy,
     InferenceTidy, AwaitTidy, ControlTurnTidy, Zenon
  DEF Next
<1>5. QED BY <1>3, <1>4

\* No velocity of a call that is over stays in force, and no goal stays with Nav2 that nobody waits
\* for, but as CallsTidy says: for every number of calls, goals, waypoints, steps of a plan and
\* connections.
THEOREM CallsTidyAlways == Spec => []CallsTidy
<1>1. Spec => []CallsInv BY CallsInit, CallsNext, PTL DEF Spec
<1>2. QED BY <1>1, CallsInvTidy, PTL

-------------------------------------------------------------------------------
(***************************************************************************)
(* The readings.                                                           *)
(***************************************************************************)

SensorTypes ==
  /\ linked \in {"none", "spinning", "dead"}
  /\ sent \in [Topics -> Nat] /\ waiting \in [Topics -> Nat]
  /\ cache \in [Readings -> Nat] /\ last \in [Topics -> Nat]
  /\ pending \in Seq(Readings) /\ obs \in Seq([reading : Readings, of : Nat])
  /\ pending # <<>> => linked # "none"

\* What is stored of a topic is of one message, not newer than the one that waits, and not older
\* than what the program was given.
CacheInOrder ==
  \A t \in Topics :
    /\ waiting[t] <= sent[t]
    /\ \A r \in Feeds[t] :
         /\ last[t] <= cache[r] /\ cache[r] <= sent[t]
         /\ waiting[t] = 0 \/ cache[r] <= waiting[t]
         /\ \A s \in Feeds[t] : cache[r] = cache[s]

\* What an observation holds was given.
ObservationInOrder ==
  /\ \A i \in DOMAIN obs : obs[i].of <= last[TopicOf(obs[i].reading)]
  /\ \A i, j \in DOMAIN obs :
       i < j /\ TopicOf(obs[i].reading) = TopicOf(obs[j].reading) => obs[i].of <= obs[j].of

SensorInv == SensorTypes /\ CacheInOrder /\ ObservationInOrder

\* A reading is of one topic.
LEMMA OneTopic ==
  ASSUME NEW r \in Readings
  PROVE  TopicOf(r) \in Topics /\ r \in Feeds[TopicOf(r)]
BY DEF TopicOf, Readings

\* A topic feeds readings of its own.
LEMMA FeedsRead == ASSUME NEW t \in Topics, NEW r \in Feeds[t] PROVE r \in Readings /\ TopicOf(r) = t
<1>1. r \in Readings BY DEF Readings
<1>2. TopicOf(r) \in Topics /\ r \in Feeds[TopicOf(r)] BY <1>1, OneTopic
<1>3. QED BY <1>1, <1>2, SensorAssumption

\* What was observed are readings.
LEMMA Observed ==
  ASSUME SensorTypes
  PROVE  \A i \in DOMAIN obs : obs[i] \in [reading : Readings, of : Nat]
<1>1. \A S : \A seq \in Seq(S) : \A i \in DOMAIN seq : seq[i] \in S OBVIOUS
<1>2. obs \in Seq([reading : Readings, of : Nat]) BY DEF SensorTypes
<1>3. QED BY <1>1, <1>2, Zenon

\* No message and nothing read.
LEMMA SensorInitInv == SensorInit => SensorInv
<1> SUFFICES ASSUME SensorInit PROVE SensorInv OBVIOUS
<1>1. SensorTypes BY DEF SensorInit, SensorTypes, Empty
<1>2. CacheInOrder BY FeedsRead DEF SensorInit, CacheInOrder, Empty
<1>3. ObservationInOrder BY DEF SensorInit, ObservationInOrder
<1>4. QED BY <1>1, <1>2, <1>3 DEF SensorInv

\* The connection, and the start of an observation.
LEMMA LinkSensor ==
  ASSUME SensorInv,
         ConnectRobot \/ DisconnectRobot \/ \E list \in Modalities : GetObservation(list)
  PROVE  SensorInv'
<1> USE DEF SensorInv
<1>1. CASE ConnectRobot
  <2>1. SensorTypes' BY <1>1 DEF ConnectRobot, SensorTypes, Empty
  <2>2. CacheInOrder' BY <1>1, FeedsRead DEF ConnectRobot, CacheInOrder, Empty, SensorTypes
  <2>3. ObservationInOrder' BY <1>1 DEF ConnectRobot, ObservationInOrder
  <2>4. QED BY <2>1, <2>2, <2>3
<1>2. CASE DisconnectRobot
  BY <1>2 DEF DisconnectRobot, SensorTypes, CacheInOrder, ObservationInOrder
<1>3. ASSUME NEW list \in Modalities, GetObservation(list) PROVE SensorInv'
  <2>1. SensorTypes' BY <1>3, SensorAssumption DEF GetObservation, Connected, SensorTypes
  <2>2. QED BY <1>3, <2>1 DEF GetObservation, CacheInOrder, ObservationInOrder
<1>4. QED BY <1>1, <1>2, <1>3

\* A sensor sends a newer message than any before.
LEMMA SendsSensor == ASSUME SensorInv, NEW t \in Topics, SensorSends(t) PROVE SensorInv'
<1> USE DEF SensorInv
<1>1. /\ sent' = [sent EXCEPT ![t] = @ + 1]
      /\ waiting' \in {waiting, [waiting EXCEPT ![t] = sent'[t]]}
      /\ UNCHANGED <<linked, cache, last, pending, obs>>
  BY DEF SensorSends
<1>2. /\ sent'[t] = sent[t] + 1 /\ sent[t] \in Nat
      /\ \A s \in Topics \ {t} : sent'[s] = sent[s] /\ waiting'[s] = waiting[s]
      /\ waiting'[t] \in {waiting[t], sent[t] + 1}
  BY <1>1 DEF SensorTypes
<1>3. SensorTypes'
  <2>1. sent' \in [Topics -> Nat] BY <1>1 DEF SensorTypes
  <2>2. sent'[t] \in Nat BY <2>1
  <2>3. [waiting EXCEPT ![t] = sent'[t]] \in [Topics -> Nat] BY <2>2 DEF SensorTypes
  <2>4. waiting' \in [Topics -> Nat] BY <1>1, <2>3 DEF SensorTypes
  <2>5. QED BY <1>1, <2>1, <2>4 DEF SensorTypes
<1>4. CacheInOrder'
  <2>1. SUFFICES ASSUME NEW s \in Topics
                 PROVE  /\ waiting'[s] <= sent'[s]
                        /\ \A r \in Feeds[s] :
                             /\ last[s] <= cache[r] /\ cache[r] <= sent'[s]
                             /\ waiting'[s] = 0 \/ cache[r] <= waiting'[s]
                             /\ \A q \in Feeds[s] : cache[r] = cache[q]
    BY <1>1 DEF CacheInOrder
  <2>2. CASE s # t BY <1>2, <2>2 DEF CacheInOrder
  <2>3. CASE s = t
    <3>1. waiting[t] \in Nat /\ waiting[t] <= sent[t] BY DEF CacheInOrder, SensorTypes
    <3>2. ASSUME NEW r \in Feeds[t]
          PROVE  /\ last[t] <= cache[r] /\ cache[r] <= sent'[t]
                 /\ waiting'[t] = 0 \/ cache[r] <= waiting'[t]
                 /\ \A q \in Feeds[t] : cache[r] = cache[q]
      <4>1. cache[r] \in Nat BY FeedsRead DEF SensorTypes
      <4>2. QED BY <1>2, <4>1 DEF CacheInOrder
    <3>3. QED BY <1>2, <2>3, <3>1, <3>2
  <2>4. QED BY <2>2, <2>3
<1>5. ObservationInOrder' BY <1>1 DEF ObservationInOrder
<1>6. QED BY <1>3, <1>4, <1>5

\* A callback stores what its message holds, or ends the thread.
LEMMA CallbackSensor ==
  ASSUME SensorInv, NEW t \in Topics, Callback(t) \/ CallbackRaises(t)
  PROVE  SensorInv'
<1> USE DEF SensorInv
<1>1. /\ waiting[t] # 0 /\ waiting' = [waiting EXCEPT ![t] = 0]
      /\ cache' \in {cache, Stored(t)} /\ linked' \in {"spinning", "dead"}
      /\ UNCHANGED <<sent, last, pending, obs>>
  BY DEF Callback, CallbackRaises
<1>2. waiting'[t] = 0 /\ \A s \in Topics \ {t} : waiting'[s] = waiting[s]
  BY <1>1 DEF SensorTypes
<1>3. \A s \in Topics \ {t} : \A r \in Feeds[s] : cache'[r] = cache[r]
  BY <1>1, FeedsRead DEF Stored
<1>4. \/ \A r \in Feeds[t] : cache'[r] = cache[r]
      \/ \A r \in Feeds[t] : cache'[r] = waiting[t]
  BY <1>1, FeedsRead DEF Stored
<1>5. SensorTypes' BY <1>1 DEF SensorTypes, Stored
<1>6. CacheInOrder'
  <2>1. SUFFICES ASSUME NEW s \in Topics
                 PROVE  /\ waiting'[s] <= sent[s]
                        /\ \A r \in Feeds[s] :
                             /\ last[s] <= cache'[r] /\ cache'[r] <= sent[s]
                             /\ waiting'[s] = 0 \/ cache'[r] <= waiting'[s]
                             /\ \A q \in Feeds[s] : cache'[r] = cache'[q]
    BY <1>1 DEF CacheInOrder
  <2>2. CASE s # t BY <1>2, <1>3, <2>2 DEF CacheInOrder
  <2>3. CASE s = t
    <3>1. waiting[t] \in Nat /\ sent[t] \in Nat /\ last[t] \in Nat BY DEF SensorTypes
    <3>2. ASSUME NEW r \in Feeds[t]
          PROVE  last[t] <= cache[r] /\ cache[r] <= waiting[t] /\ waiting[t] <= sent[t]
      BY <1>1 DEF CacheInOrder
    <3>3. \A r \in Feeds[t] : cache[r] \in Nat BY FeedsRead DEF SensorTypes
    <3>4. CASE \A r \in Feeds[t] : cache'[r] = cache[r]
      BY <1>2, <2>3, <3>1, <3>4 DEF CacheInOrder
    <3>5. CASE \A r \in Feeds[t] : cache'[r] = waiting[t]
      BY <1>2, <2>3, <3>1, <3>2, <3>3, <3>5 DEF CacheInOrder
    <3>6. QED BY <1>4, <3>4, <3>5
  <2>4. QED BY <2>2, <2>3
<1>7. ObservationInOrder' BY <1>1 DEF ObservationInOrder
<1>8. QED BY <1>5, <1>6, <1>7

\* A reading given to the program is the newest given of its topic, and none stored is older.
LEMMA GivenReading ==
  ASSUME SensorInv, NEW r \in Readings, Connected, last' = Newest(TopicOf(r), BackendGives(r)),
         cache' = cache, waiting' = waiting, sent' = sent
  PROVE  /\ BackendGives(r) \in Nat /\ last[TopicOf(r)] <= BackendGives(r)
         /\ last' \in [Topics -> Nat]
         /\ last'[TopicOf(r)] = BackendGives(r)
         /\ \A s \in Topics : last[s] <= last'[s]
         /\ CacheInOrder'
<1> DEFINE t == TopicOf(r)
<1>1. t \in Topics /\ r \in Feeds[t] BY OneTopic
<1>2. BackendGives(r) = cache[r]
  BY DEF BackendGives, RealGives, GazeboGives, Given, Connected
<1>3. cache[r] \in Nat /\ last \in [Topics -> Nat] BY DEF SensorInv, SensorTypes
<1>4. last[t] <= cache[r] BY <1>1 DEF SensorInv, CacheInOrder
<1>5. last' = [last EXCEPT ![t] = cache[r]]
  <2>1. (IF cache[r] > last[t] THEN cache[r] ELSE last[t]) = cache[r] BY <1>1, <1>3, <1>4
  <2>2. last' = [last EXCEPT ![t] = IF cache[r] > last[t] THEN cache[r] ELSE last[t]]
    BY <1>2 DEF Newest
  <2>3. QED BY <2>1, <2>2
<1> HIDE DEF t
<1>6. last'[t] = cache[r] /\ \A s \in Topics \ {t} : last'[s] = last[s] BY <1>1, <1>3, <1>5
<1>7. \A s \in Topics : last[s] \in Nat BY <1>3
<1>8. CacheInOrder'
  <2>1. SUFFICES ASSUME NEW s \in Topics, NEW q \in Feeds[s] PROVE last'[s] <= cache[q]
    BY DEF SensorInv, CacheInOrder
  <2>2. CASE s # t BY <1>6, <2>2 DEF SensorInv, CacheInOrder
  <2>3. CASE s = t
    <3>1. cache[q] = cache[r] BY <1>1, <2>3 DEF SensorInv, CacheInOrder
    <3>2. QED BY <1>3, <1>6, <2>3, <3>1
  <2>4. QED BY <2>2, <2>3
<1>9. \A s \in Topics : last[s] <= last'[s]
  <2>1. SUFFICES ASSUME NEW s \in Topics PROVE last[s] <= last'[s] OBVIOUS
  <2>2. CASE s = t BY <1>4, <1>6, <2>2
  <2>3. CASE s # t BY <1>6, <1>7, <2>3
  <2>4. QED BY <2>2, <2>3
<1>10. QED BY <1>1, <1>2, <1>3, <1>4, <1>5, <1>6, <1>8, <1>9 DEF t

\* A getter gives what is stored.
LEMMA GetSensor == ASSUME SensorInv, NEW r \in Readings, Get(r) PROVE SensorInv'
<1>1. /\ Connected /\ last' = Newest(TopicOf(r), BackendGives(r))
      /\ UNCHANGED <<linked, sent, waiting, cache, pending, obs>>
  BY DEF Get
<1>2. last' \in [Topics -> Nat] /\ (\A s \in Topics : last[s] <= last'[s]) /\ CacheInOrder'
  BY <1>1, GivenReading
<1>3. SensorTypes' BY <1>1, <1>2 DEF SensorInv, SensorTypes
<1>4. ObservationInOrder'
  <2>1. ASSUME NEW i \in DOMAIN obs
        PROVE  obs[i].of <= last'[TopicOf(obs[i].reading)]
    <3>1. obs[i] \in [reading : Readings, of : Nat] BY Observed DEF SensorInv
    <3>2. TopicOf(obs[i].reading) \in Topics BY <3>1, OneTopic
    <3>3. obs[i].of <= last[TopicOf(obs[i].reading)] BY DEF SensorInv, ObservationInOrder
    <3>4. QED BY <1>2, <3>1, <3>2, <3>3 DEF SensorInv, SensorTypes
  <2>2. QED BY <1>1, <2>1 DEF SensorInv, ObservationInOrder
<1>5. QED BY <1>2, <1>3, <1>4 DEF SensorInv

\* get_observation reads one modality after another while messages come.
LEMMA NextModalitySensor == ASSUME SensorInv, NextModality PROVE SensorInv'
<1> USE DEF SensorInv
<1> DEFINE r == Head(pending)
           v == BackendGives(r)
           t == TopicOf(r)
           o == [reading |-> r, of |-> v]
<1>1. /\ pending # <<>> /\ pending' = Tail(pending) /\ obs' = Append(obs, o)
      /\ last' = Newest(t, v) /\ UNCHANGED <<linked, sent, waiting, cache>>
  BY DEF NextModality
<1>2. r \in Readings /\ pending' \in Seq(Readings) BY <1>1 DEF SensorTypes
<1>3. Connected BY <1>1 DEF Connected, SensorTypes
<1>4. /\ v \in Nat /\ last[t] <= v /\ last' \in [Topics -> Nat] /\ last'[t] = v
      /\ (\A s \in Topics : last[s] <= last'[s]) /\ CacheInOrder'
  BY <1>1, <1>2, <1>3, GivenReading
<1> HIDE DEF r, v, t
<1>5. o \in [reading : Readings, of : Nat] BY <1>2, <1>4
<1>6. o.reading = r /\ o.of = v OBVIOUS
<1>7. t = TopicOf(r) BY DEF t
<1> HIDE DEF o
<1>8. SensorTypes' BY <1>1, <1>2, <1>3, <1>4, <1>5 DEF SensorTypes, Connected
<1>9. ObservationInOrder'
  <2>1. /\ Len(obs) \in Nat /\ DOMAIN obs = 1..Len(obs) /\ DOMAIN obs' = 1..Len(obs) + 1
        /\ \A i \in 1..Len(obs) : obs'[i] = obs[i]
        /\ obs'[Len(obs) + 1] = o
    BY <1>1, <1>5 DEF SensorTypes
  <2>2. ASSUME NEW i \in 1..Len(obs)
        PROVE  /\ obs[i].of \in Nat /\ TopicOf(obs[i].reading) \in Topics
               /\ obs[i].of <= last[TopicOf(obs[i].reading)]
               /\ obs[i].of <= last'[TopicOf(obs[i].reading)]
    <3>1. obs[i] \in [reading : Readings, of : Nat] BY <2>1, Observed DEF SensorInv
    <3>2. TopicOf(obs[i].reading) \in Topics BY <3>1, OneTopic
    <3>3. obs[i].of <= last[TopicOf(obs[i].reading)] BY <2>1 DEF ObservationInOrder
    <3>4. QED BY <1>4, <3>1, <3>2, <3>3 DEF SensorTypes
  <2>3. ASSUME NEW i \in DOMAIN obs' PROVE obs'[i].of <= last'[TopicOf(obs'[i].reading)]
    <3>1. CASE i \in 1..Len(obs) BY <2>1, <2>2, <3>1
    <3>2. CASE i = Len(obs) + 1 BY <1>4, <1>6, <1>7, <2>1, <3>2
    <3>3. QED BY <2>1, <3>1, <3>2
  <2>4. ASSUME NEW i \in DOMAIN obs', NEW j \in DOMAIN obs', i < j,
               TopicOf(obs'[i].reading) = TopicOf(obs'[j].reading)
        PROVE  obs'[i].of <= obs'[j].of
    <3>1. i \in 1..Len(obs) BY <2>1, <2>4
    <3>2. CASE j \in 1..Len(obs) BY <2>1, <2>4, <3>1, <3>2 DEF ObservationInOrder
    <3>3. CASE j = Len(obs) + 1
      <4>1. TopicOf(obs[i].reading) = t BY <1>6, <1>7, <2>1, <2>4, <3>1, <3>3
      <4>2. t \in Topics /\ last[t] \in Nat BY <1>2, <1>7, OneTopic DEF SensorTypes
      <4>3. QED BY <1>4, <1>6, <2>1, <2>2, <3>1, <3>3, <4>1, <4>2
    <3>4. QED BY <2>1, <3>2, <3>3
  <2>5. QED BY <2>3, <2>4 DEF ObservationInOrder
<1>10. QED BY <1>4, <1>8, <1>9

\* Every step keeps the invariant.
LEMMA SensorStepInv == SensorInv /\ [SensorNext]_sensorVars => SensorInv'
<1> SUFFICES ASSUME SensorInv, [SensorNext]_sensorVars PROVE SensorInv' OBVIOUS
<1>1. CASE UNCHANGED sensorVars
  BY <1>1 DEF sensorVars, SensorInv, SensorTypes, CacheInOrder, ObservationInOrder
<1>2. CASE SensorNext
  BY <1>2, LinkSensor, SendsSensor, CallbackSensor, GetSensor, NextModalitySensor DEF SensorNext
<1>3. QED BY <1>1, <1>2

\* Nothing a program is given goes back in time, for every assignment of readings to topics and
\* any number of messages and connections.
THEOREM ReadingsAdvanceAlways == SensorSpec => []ReadingsAdvance
<1>1. SensorInv => ReadingsAdvance
  BY FeedsRead
     DEF SensorInv, SensorTypes, CacheInOrder, ObservationInOrder, ReadingsAdvance
<1>2. QED BY <1>1, SensorInitInv, SensorStepInv, PTL DEF SensorSpec

-------------------------------------------------------------------------------
(***************************************************************************)
(* The simulated robot.                                                    *)
(***************************************************************************)

\* Every set of numbers that is not empty has a least element.
LEMMA LeastNat ==
  ASSUME NEW T \in SUBSET Nat, T # {}
  PROVE  \E m \in T : \A k \in T : m <= k
<1> DEFINE Less == OpToRel(<, Nat)
<1>1. \A a, b \in Nat : a < b => <<a, b>> \in Less BY DEF OpToRel
<1>2. IsWellFoundedOn(Less, Nat) BY NatLessThanWellFounded
<1> HIDE DEF Less
<1>3. PICK m \in T : \A k \in T : ~ (<<k, m>> \in Less) BY <1>2, WFMin
<1>4. \A k \in T : ~ (k < m) BY <1>1, <1>3
<1>5. QED BY <1>4

\* The direction of a distance.
LEMMA Signs ==
  ASSUME NEW d \in Int
  PROVE  /\ Sign(d) \in {-1, 0, 1} /\ d * Sign(d) \in Nat
         /\ d = 0 => Sign(d) = 0
BY DEF Sign

\* The way to an obstacle or to the target ends on a free cell.
LEMMA FurthestFree ==
  ASSUME NEW a \in Int, NEW b \in Int, Free(a)
  PROVE  Free(Furthest(a, b))
<1> DEFINE way == Sign(b - a)
           gap == (b - a) * way
           Halts(n) == n = gap \/ ~Free(a + (n + 1) * way)
           Reaches(n) == (\A k \in 1..n : Free(a + k * way)) /\ Halts(n)
<1>1. way \in {-1, 0, 1} /\ gap \in Nat BY Signs
<1> HIDE DEF way, gap
<1> DEFINE Ends0 == {n \in 0..gap : Halts(n)}
<1>2. Ends0 \in SUBSET Nat /\ gap \in Ends0 BY <1>1
<1>3. PICK n \in Ends0 : \A k \in Ends0 : n <= k BY <1>2, LeastNat
<1>4. ASSUME NEW k \in 1..n PROVE Free(a + k * way)
  <2>1. k - 1 \in 0..gap /\ k - 1 < n /\ (k - 1) + 1 = k BY <1>1, <1>3
  <2>2. k - 1 \notin Ends0 BY <1>2, <1>3, <2>1
  <2>3. ~ Halts(k - 1) BY <2>1, <2>2
  <2>4. QED BY <2>1, <2>3
<1>5. n \in 0..gap /\ Reaches(n) BY <1>3, <1>4
<1> HIDE DEF Reaches
<1> DEFINE walked == CHOOSE s \in 0..gap : Reaches(s)
<1>6. walked \in 0..gap /\ Reaches(walked) BY <1>5
<1>7. Furthest(a, b) = a + walked * way BY DEF Furthest, way, gap, Reaches, Halts
<1> HIDE DEF walked
<1>8. CASE walked = 0
  <2>1. a + walked * way = a BY <1>1, <1>8
  <2>2. QED BY <1>7, <2>1
<1>9. CASE walked # 0
  <2>1. walked \in 1..walked BY <1>1, <1>6, <1>9
  <2>2. QED BY <1>6, <1>7, <2>1 DEF Reaches
<1>10. QED BY <1>8, <1>9

MockTypes ==
  /\ Free(place) /\ facing \in {-1, 1}
  /\ now \in Nat /\ pushed \in BOOLEAN
  /\ trip \in [going : BOOLEAN, to : Track, way : Int]
  /\ ~ trip.going => trip.way = 0

\* A move that no reading has disturbed knows how gap it still has to go.
WayKnown == trip.going /\ ~ pushed => place + trip.way = trip.to

\* No step of an episode is newer than what was read last.
EpisodeRead ==
  /\ stale \in [Methods -> Nat] /\ episode \in Seq([Methods -> Nat])
  /\ \A m \in Methods : stale[m] <= now /\ \A i \in DOMAIN episode : episode[i][m] <= stale[m]

MotionInv == MockTypes /\ WayKnown /\ ClearAndThere
MockInv == MotionInv /\ EpisodeRead /\ ReadingsInOrder

\* A robot that is not on its way.
LEMMA NoTripTypes ==
  NoTrip \in [going : BOOLEAN, to : Track, way : Int] /\ ~ NoTrip.going /\ NoTrip.way = 0
<1>1. Origin \in Track BY MockAssumption
<1>2. QED BY <1>1 DEF NoTrip

\* It stands clear, and nothing was recorded.
LEMMA MockInitInv == MockInit => MockInv
<1> SUFFICES ASSUME MockInit PROVE MockInv OBVIOUS
<1>1. Free(place) BY MockAssumption DEF MockInit, Free
<1>2. MockTypes BY <1>1, NoTripTypes DEF MockInit, MockTypes
<1>3. WayKnown BY DEF MockInit, WayKnown, NoTrip
<1>4. ClearAndThere BY <1>1 DEF MockInit, ClearAndThere, NoOutcome, Free
<1>5. EpisodeRead /\ ReadingsInOrder BY DEF MockInit, EpisodeRead, ReadingsInOrder
<1>6. QED BY <1>2, <1>3, <1>4, <1>5 DEF MockInv, MotionInv
-------------------------------------------------------------------------------
(* The robot.                                                              *)

\* A move in one piece.
LEMMA AtOnceMotion ==
  ASSUME MotionInv,
         (\E c \in Track : MoveAtOnce(c)) \/ \E n \in {-2, 2} : ForwardAtOnce(n)
  PROVE  MotionInv'
<1> USE DEF MotionInv
<1>1. place \in Int /\ Free(place) BY MockAssumption DEF MockTypes, Free
<1>2. ASSUME NEW c \in Track, MoveAtOnce(c) PROVE MotionInv'
  <2>1. /\ place' = Furthest(place, c) /\ facing' \in {-1, 1} /\ pushed' = FALSE
        /\ trip' = NoTrip /\ now' = now
        /\ outcome' = [to |-> c, at |-> place', reason |-> Reason(c), pushed |-> pushed']
    BY <1>2 DEF MoveAtOnce, Ends
  <2>2. c \in Int BY MockAssumption
  <2>3. Free(place') BY <1>1, <2>1, <2>2, FurthestFree
  <2>4. MockTypes' BY <2>1, <2>3, NoTripTypes DEF MockTypes
  <2>5. WayKnown' BY <2>1, NoTripTypes DEF WayKnown
  <2>6. outcome'.reason = "reached" => outcome'.at = outcome'.to BY <2>1 DEF Reason
  <2>7. QED BY <2>3, <2>4, <2>5, <2>6 DEF ClearAndThere, Free
<1>3. ASSUME NEW n \in {-2, 2}, ForwardAtOnce(n) PROVE MotionInv'
  <2>1. /\ place' = Furthest(place, place + n * facing)
        /\ pushed' = (pushed \/ (trip.going /\ place' # place))
        /\ UNCHANGED <<facing, now, trip, outcome>>
    BY <1>3 DEF ForwardAtOnce
  <2>2. place + n * facing \in Int BY <1>1 DEF MockTypes
  <2>3. Free(place') BY <1>1, <2>1, <2>2, FurthestFree
  <2>4. QED BY <2>1, <2>3 DEF MockTypes, WayKnown, ClearAndThere, Free
<1>4. QED BY <1>2, <1>3

\* A move that sleeps between its walked.
LEMMA TripMotion ==
  ASSUME MotionInv, (\E c \in Track : SetOut(c)) \/ Travel \/ ArriveOrCollide
  PROVE  MotionInv'
<1> USE DEF MotionInv
<1>1. place \in Int /\ Free(place) BY MockAssumption DEF MockTypes, Free
<1>2. trip.to \in Int /\ trip.way \in Int BY MockAssumption DEF MockTypes
<1>3. ASSUME NEW c \in Track, SetOut(c) PROVE MotionInv'
  <2>1. c \in Int BY MockAssumption
  <2>2. /\ trip' = [going |-> TRUE, to |-> c, way |-> c - place] /\ pushed' = FALSE
        /\ outcome' = NoOutcome /\ UNCHANGED <<place, facing, now>>
    BY <1>3 DEF SetOut, motionVars
  <2>3. trip' \in [going : BOOLEAN, to : Track, way : Int] BY <1>1, <2>1, <2>2
  <2>4. MockTypes' BY <2>2, <2>3 DEF MockTypes
  <2>5. WayKnown' BY <1>1, <2>1, <2>2 DEF WayKnown
  <2>6. ClearAndThere' BY <2>2 DEF ClearAndThere, NoOutcome
  <2>7. QED BY <2>4, <2>5, <2>6
<1>4. CASE Travel
  <2> DEFINE d == Sign(trip.way)
  <2>1. d \in {-1, 0, 1} BY <1>2, Signs
  <2>2. /\ trip.way # 0 /\ Free(place + d) /\ place' = place + d
        /\ trip' = [trip EXCEPT !.way = @ - d] /\ UNCHANGED <<facing, now, pushed, outcome>>
    BY <1>4 DEF Travel
  <2> HIDE DEF d
  <2>3. trip' \in [going : BOOLEAN, to : Track, way : Int] /\ trip.going = trip'.going
        /\ trip'.to = trip.to /\ trip'.way = trip.way - d
    BY <1>2, <2>1, <2>2 DEF MockTypes
  <2>4. trip.going BY <2>2 DEF MockTypes
  <2>5. MockTypes' BY <2>2, <2>3, <2>4 DEF MockTypes
  <2>6. WayKnown' BY <1>1, <1>2, <2>1, <2>2, <2>3 DEF WayKnown
  <2>7. ClearAndThere' BY <2>2, <2>5 DEF ClearAndThere, MockTypes, Free
  <2>8. QED BY <2>5, <2>6, <2>7
<1>5. CASE ArriveOrCollide
  <2>1. /\ trip.going /\ facing' \in {-1, 1} /\ UNCHANGED <<place, pushed, now>>
        /\ trip' = NoTrip
        /\ outcome' = [to |-> trip.to, at |-> place,
                       reason |-> IF trip.way = 0 THEN "reached" ELSE "collision",
                       pushed |-> pushed]
    BY <1>5 DEF ArriveOrCollide, Ends
  <2>2. MockTypes' BY <2>1, NoTripTypes DEF MockTypes
  <2>3. WayKnown' BY <2>1, NoTripTypes DEF WayKnown
  <2>4. ASSUME outcome'.reason = "reached", ~ outcome'.pushed PROVE outcome'.at = outcome'.to
    <3>1. trip.way = 0 /\ ~ pushed BY <2>1, <2>4
    <3>2. place + trip.way = trip.to BY <2>1, <3>1 DEF WayKnown
    <3>3. QED BY <1>1, <1>2, <2>1, <3>1, <3>2
  <2>5. ClearAndThere' BY <2>1, <2>4 DEF ClearAndThere
  <2>6. QED BY <2>2, <2>3, <2>5
<1>6. QED BY <1>3, <1>4, <1>5

\* What only turns, speeds up, waits or records; a reading may move the robot.
LEMMA OtherMotion ==
  ASSUME MotionInv,
         \/ \E v \in {-1, 0, 1} : SetMockVelocity(v)
         \/ RotateAtOnce \/ ClockRuns \/ StartEpisode \/ EndEpisode
         \/ \E Dropped \in SUBSET Methods : RecordStep(Dropped)
  PROVE  MotionInv'
<1> USE DEF MotionInv, tripVars, motionVars
<1>1. CASE \/ \E v \in {-1, 0, 1} : SetMockVelocity(v)
           \/ RotateAtOnce \/ ClockRuns \/ StartEpisode \/ EndEpisode
  <2>1. facing' \in {facing, -facing} /\ now' \in {now, now + 1} /\ UNCHANGED <<place, tripVars>>
    BY <1>1 DEF SetMockVelocity, RotateAtOnce, ClockRuns, StartEpisode, EndEpisode
  <2>2. MockTypes' BY <2>1 DEF MockTypes
  <2>3. QED BY <2>1, <2>2 DEF WayKnown, ClearAndThere
<1>2. ASSUME NEW Dropped \in SUBSET Methods, RecordStep(Dropped) PROVE MotionInv'
  <2>1. /\ place' = place \/ Free(place')
        /\ pushed' \in BOOLEAN /\ (pushed => pushed')
        /\ trip.going /\ ~ pushed' => place' = place
    <3>1. CASE IsDisconnected BY <1>2, <3>1 DEF RecordStep, MockTypes
    <3>2. CASE ~ IsDisconnected /\ TickIf(Dropped # Methods)
      BY <3>2 DEF TickIf, Integrated, MockTypes
    <3>3. QED BY <1>2, <3>1, <3>2 DEF RecordStep
  <2>2. UNCHANGED <<facing, now, trip, outcome>> BY <1>2 DEF RecordStep
  <2>3. MockTypes' BY <2>1, <2>2 DEF MockTypes
  <2>4. WayKnown' BY <2>1, <2>2 DEF WayKnown, MockTypes
  <2>5. ClearAndThere' BY <2>2, <2>3 DEF ClearAndThere, MockTypes, Free
  <2>6. QED BY <2>3, <2>4, <2>5
<1>3. QED BY <1>1, <1>2

-------------------------------------------------------------------------------
(* The recorder.                                                           *)

\* A step that is not older than those before it, and is what was read last.
LEMMA StepRecorded ==
  ASSUME EpisodeRead, ReadingsInOrder, NEW step \in [Methods -> Nat],
         episode' = Append(episode, step), now' = now,
         stale' \in [Methods -> Nat],
         \A m \in Methods : stale[m] <= step[m] /\ step[m] <= stale'[m] /\ stale'[m] <= now
  PROVE  EpisodeRead' /\ ReadingsInOrder'
<1>1. /\ Len(episode) \in Nat /\ DOMAIN episode = 1..Len(episode)
      /\ DOMAIN episode' = 1..Len(episode) + 1 /\ episode' \in Seq([Methods -> Nat])
      /\ \A i \in 1..Len(episode) : episode'[i] = episode[i]
      /\ episode'[Len(episode) + 1] = step
  BY DEF EpisodeRead
<1>2. ASSUME NEW m \in Methods, NEW i \in 1..Len(episode)
      PROVE  /\ episode[i][m] \in Nat /\ episode[i][m] <= step[m] /\ episode[i][m] <= stale'[m]
  <2>1. \A S : \A s \in Seq(S) : \A k \in DOMAIN s : s[k] \in S OBVIOUS
  <2>2. episode[i] \in [Methods -> Nat] BY <1>1, <2>1 DEF EpisodeRead
  <2>3. episode[i][m] <= stale[m] /\ stale[m] \in Nat BY <1>1 DEF EpisodeRead
  <2>4. step[m] \in Nat /\ stale'[m] \in Nat OBVIOUS
  <2>5. QED BY <2>2, <2>3, <2>4
<1>3. EpisodeRead'
  <2>1. ASSUME NEW m \in Methods, NEW i \in DOMAIN episode' PROVE episode'[i][m] <= stale'[m]
    <3>1. CASE i \in 1..Len(episode) BY <1>1, <1>2, <3>1
    <3>2. CASE i = Len(episode) + 1 BY <1>1, <3>2
    <3>3. QED BY <1>1, <3>1, <3>2
  <2>2. QED BY <1>1, <2>1 DEF EpisodeRead
<1>4. ReadingsInOrder'
  <2>1. SUFFICES ASSUME NEW m \in Methods, NEW i \in DOMAIN episode', NEW j \in DOMAIN episode', i < j
                 PROVE  episode'[i][m] <= episode'[j][m]
    BY DEF ReadingsInOrder
  <2>2. i \in 1..Len(episode) BY <1>1, <2>1
  <2>3. CASE j \in 1..Len(episode) BY <1>1, <2>1, <2>2, <2>3 DEF ReadingsInOrder
  <2>4. CASE j = Len(episode) + 1 BY <1>1, <1>2, <2>2, <2>4
  <2>5. QED BY <1>1, <2>3, <2>4
<1>5. QED BY <1>3, <1>4

\* A recorded step holds readings that are no older than those before.
LEMMA RecordReadings ==
  ASSUME MockTypes, EpisodeRead, ReadingsInOrder, NEW Dropped \in SUBSET Methods,
         RecordStep(Dropped)
  PROVE  EpisodeRead' /\ ReadingsInOrder'
<1>1. now \in Nat /\ now' = now /\ stale \in [Methods -> Nat] /\ \A m \in Methods : stale[m] <= now
  BY DEF MockTypes, EpisodeRead, RecordStep
<1>2. CASE IsDisconnected
  <2>1. stale' = stale /\ episode' = IF Dropped = Methods THEN Append(episode, stale) ELSE episode
    BY <1>2 DEF RecordStep
  <2>2. CASE Dropped = Methods
    <3>1. \A m \in Methods : stale[m] <= stale[m] BY <1>1
    <3>2. QED BY <1>1, <2>1, <2>2, <3>1, StepRecorded
  <2>3. CASE Dropped # Methods BY <1>1, <2>1, <2>3 DEF EpisodeRead, ReadingsInOrder
  <2>4. QED BY <2>2, <2>3
<1>3. CASE ~ IsDisconnected
  <2> DEFINE step == [m \in Methods |-> IF m \in Dropped THEN stale[m] ELSE now]
  <2>1. stale' = step /\ episode' = Append(episode, step)
    BY <1>3 DEF RecordStep, Refreshed
  <2>2. step \in [Methods -> Nat] BY <1>1
  <2>3. \A m \in Methods : stale[m] <= step[m] /\ step[m] <= now BY <1>1
  <2> HIDE DEF step
  <2>4. \A m \in Methods : step[m] <= step[m] BY <2>2
  <2>5. QED BY <1>1, <2>1, <2>2, <2>3, <2>4, StepRecorded
<1>4. QED BY <1>2, <1>3

\* Other steps record nothing.
LEMMA OtherReadings ==
  ASSUME MockInv, MockNext, ~ \E Dropped \in SUBSET Methods : RecordStep(Dropped)
  PROVE  EpisodeRead' /\ ReadingsInOrder'
<1> USE DEF MockInv, MotionInv
<1>1. stale' = stale /\ episode' \in {episode, <<>>} /\ now' \in {now, now + 1}
  BY DEF MockNext, SetMockVelocity, MoveAtOnce, SetOut, ForwardAtOnce, Travel, ArriveOrCollide,
         RotateAtOnce, ClockRuns, StartEpisode, EndEpisode, recordVars
<1>2. now \in Nat /\ now' \in Nat /\ now <= now' BY <1>1 DEF MockTypes
<1>3. \A m \in Methods : stale[m] \in Nat /\ stale[m] <= now' BY <1>2 DEF EpisodeRead
<1>4. CASE episode' = episode BY <1>1, <1>3, <1>4 DEF EpisodeRead, ReadingsInOrder
<1>5. CASE episode' = <<>> BY <1>1, <1>3, <1>5 DEF EpisodeRead, ReadingsInOrder
<1>6. QED BY <1>1, <1>4, <1>5

\* Every step keeps the invariant.
LEMMA MockStepInv == MockInv /\ [MockNext]_mockVars => MockInv'
<1> SUFFICES ASSUME MockInv, [MockNext]_mockVars PROVE MockInv' OBVIOUS
<1> USE DEF MockInv
<1>1. CASE UNCHANGED mockVars
  BY <1>1 DEF mockVars, motionVars, tripVars, recordVars, MotionInv, MockTypes, WayKnown,
              ClearAndThere, EpisodeRead, ReadingsInOrder
<1>2. CASE MockNext
  <2>1. MotionInv' BY <1>2, AtOnceMotion, TripMotion, OtherMotion DEF MockNext
  <2>2. EpisodeRead' /\ ReadingsInOrder'
    <3>1. CASE \E Dropped \in SUBSET Methods : RecordStep(Dropped)
      BY <3>1, RecordReadings DEF MotionInv
    <3>2. CASE ~ \E Dropped \in SUBSET Methods : RecordStep(Dropped) BY <1>2, <3>2, OtherReadings
    <3>3. QED BY <3>1, <3>2
  <2>3. QED BY <2>1, <2>2
<1>3. QED BY <1>1, <1>2

\* The simulated robot stands clear, has reached what it says it reached, and its recordings do not
\* go back in time, for every track and obstacles, and whenever the readings fail.
THEOREM SimulationHonestAlways == MockSpec => []SimulationHonest
<1>1. MockInv => SimulationHonest BY DEF MockInv, MotionInv, SimulationHonest
<1>2. QED BY <1>1, MockInitInv, MockStepInv, PTL DEF MockSpec

-------------------------------------------------------------------------------
(***************************************************************************)
(* The training environments.                                              *)
(***************************************************************************)

\* The nearest of some cells has a distance.
LEMMA MinOfNat == ASSUME NEW T \in SUBSET Nat, T # {} PROVE Min(T) \in Nat
<1>1. \E m \in T : \A k \in T : m <= k BY LeastNat
<1>2. Min(T) \in T BY <1>1 DEF Min
<1>3. QED BY <1>2

\* What is to be reached, leg by leg; nothing where cells are to be covered.
RouteSet == {r \in Seq(SUBSET Int) : \A l \in 1..Len(r) : r[l] # {}}

\* So has what is next on a route.
LEMMA DistanceNat ==
  ASSUME NEW r \in RouteSet, NEW l \in Nat \ {0}, NEW p \in Int
  PROVE  DistanceTo(r, l, p) \in Nat
<1>1. CASE l > Len(r) BY <1>1 DEF DistanceTo
<1>2. CASE ~ (l > Len(r))
  <2>1. Len(r) \in Nat /\ l \in 1..Len(r) BY <1>2 DEF RouteSet
  <2>2. r[l] \in SUBSET Int /\ r[l] # {} BY <2>1 DEF RouteSet
  <2>3. \A q \in Int : Apart(p, q) \in Nat BY DEF Apart
  <2> DEFINE D == {Apart(p, q) : q \in r[l]}
  <2>4. D \in SUBSET Nat /\ D # {} BY <2>2, <2>3
  <2>5. DistanceTo(r, l, p) = Min(D) BY <1>2 DEF DistanceTo
  <2> HIDE DEF D
  <2>6. QED BY <2>4, <2>5, MinOfNat
<1>3. QED BY <1>1, <1>2

\* What a reset draws: one leg, or Legs of them, or nothing.
LEMMA RouteDrawn ==
  ASSUME NEW e \in Distances \cup Coverings, NEW r \in Routes(e)
  PROVE  r \in RouteSet /\ (e = "VLNEnv" => Len(r) = Legs)
<1>1. (-Span)..Span \subseteq Int /\ Legs \in Nat BY GymAssumption
<1>2. CASE e = "NavigationEnv"
  <2>1. PICK g \in (-Span)..Span : r = <<{g}>> BY <1>2 DEF Routes
  <2>2. r \in Seq(SUBSET Int) /\ Len(r) = 1 /\ r[1] = {g} BY <1>1, <2>1
  <2>3. \A l \in 1..Len(r) : r[l] # {}
    <3>1. \A l \in 1..Len(r) : r[l] = {g} BY <2>2
    <3>2. QED BY <3>1, Zenon
  <2>4. QED BY <1>2, <2>2, <2>3 DEF RouteSet
<1>3. CASE e = "ObjectNavEnv"
  <2>1. PICK S \in SUBSET ((-Span)..Span) : Cardinality(S) \in 1..2 /\ r = <<S>>
    BY <1>3 DEF Routes
  <2>2. S # {} BY <2>1, FS_EmptySet
  <2>3. r \in Seq(SUBSET Int) /\ Len(r) = 1 /\ r[1] = S BY <1>1, <2>1
  <2>4. \A l \in 1..Len(r) : r[l] # {} BY <2>2, <2>3
  <2>5. QED BY <1>3, <2>3, <2>4 DEF RouteSet
<1>4. CASE e = "VLNEnv"
  <2>1. PICK w \in [1..Legs -> (-Span)..Span] : r = [l \in 1..Legs |-> {w[l]}]
    BY <1>4 DEF Routes
  <2>2. \A l \in 1..Legs : {w[l]} \in SUBSET Int BY <1>1
  <2>3. r \in Seq(SUBSET Int) /\ Len(r) = Legs /\ \A l \in 1..Legs : r[l] = {w[l]}
    BY <1>1, <2>1, <2>2
  <2>4. QED BY <2>3 DEF RouteSet
<1>5. CASE e \in Coverings
  <2>1. r = <<>> BY <1>5 DEF Routes, Coverings
  <2>2. QED BY <1>5, <2>1 DEF RouteSet, Coverings
<1>6. QED BY <1>2, <1>3, <1>4, <1>5 DEF Distances

\* A part of the map has a number of cells.
LEMMA MapCells == ASSUME NEW c \in SUBSET Map PROVE Cardinality(c) \in Nat
<1>1. -Arena \in Int /\ Arena - 1 \in Int BY GymAssumption
<1>2. IsFiniteSet(Map) BY <1>1, FS_Interval DEF Map
<1>3. IsFiniteSet(c) BY <1>2, FS_Subset
<1>4. QED BY <1>3, FS_CardinalityType

\* Robots in the way are counted.
LEMMA CollisionCount == ASSUME NEW r \in Robots PROVE Collisions(r) \in Nat
<1>1. IsFiniteSet(Robots) BY GymAssumption
<1> DEFINE C == {q \in Robots \ {r} : Apart(pose'[r], pose'[q]) < Near}
<1>2. C \in SUBSET Robots OBVIOUS
<1> HIDE DEF C
<1>3. IsFiniteSet(C) BY <1>1, <1>2, FS_Subset
<1>4. Cardinality(C) \in Nat BY <1>3, FS_CardinalityType
<1>5. QED BY <1>4 DEF Collisions, C
GymTypes ==
  /\ env \in {"none"} \cup Distances \cup Coverings
  /\ pose \in [Robots -> Int] /\ route \in RouteSet /\ leg \in Nat \ {0}
  /\ prev \in Int /\ count \in Nat /\ over \in BOOLEAN /\ return \in Int /\ from \in Int
  /\ hits \in Int /\ covered \in SUBSET Map
  /\ env = "none" => over
  /\ env = "VLNEnv" => leg <= Len(route) + 1

\* In an episode that goes on, nothing that ends one has been paid or fined.
NothingPaid ==
  ~ over =>
    /\ env \in Distances => ~ OffMap(pose[Ego])
    /\ env \in {"NavigationEnv", "ObjectNavEnv"} /\ count > 0 => ~ (prev < Near)
    /\ env = "VLNEnv" => leg <= Len(route)
    /\ env = "ExplorationEnv" /\ count > 0 => ~ Enough(covered)

GymInv == GymTypes /\ NothingPaid /\ RewardsAddUp

\* Earned, one environment at a time.
LEMMA EarnedToGoal ==
  ASSUME env \in {"NavigationEnv", "ObjectNavEnv"}
  PROVE  Earned = 10 * (from - prev) + (IF prev < Near /\ count > 0 THEN 100 ELSE 0)
                  - (IF OffMap(pose[Ego]) THEN 50 ELSE 0)
BY DEF Earned

\* ... along a route,
LEMMA EarnedAlongRoute ==
  ASSUME env = "VLNEnv"
  PROVE  Earned = 5 * (from - prev) + 20 * (leg - 1) + (IF leg > Len(route) THEN 100 ELSE 0)
                  - (IF OffMap(pose[Ego]) THEN 50 ELSE 0)
BY DEF Earned

\* ... by exploring,
LEMMA EarnedExploring ==
  ASSUME env = "ExplorationEnv"
  PROVE  Earned = Cardinality(covered) - Cardinality(Marked(0))
                  + (IF Enough(covered) /\ count > 0 THEN 100 ELSE 0)
BY DEF Earned

\* ... and together.
LEMMA EarnedByTeam ==
  ASSUME env = "MultiAgentEnv"
  PROVE  Earned = 10 * (Cardinality(covered)
                        - Cardinality(UNION {Marked(StartCell[r]) : r \in Robots})) - 5 * hits
BY DEF Earned

\* No episode, no reward.
LEMMA GymInitInv == GymInit => GymInv
<1> SUFFICES ASSUME GymInit PROVE GymInv OBVIOUS
<1>1. GymTypes BY DEF GymInit, GymTypes, RouteSet
<1>2. Earned = 0 BY DEF GymInit, Earned
<1>3. QED BY <1>1, <1>2 DEF GymInit, GymInv, NothingPaid, RewardsAddUp

\* reset measures the new episode from where it begins.
LEMMA ResetPays == ASSUME GymInv, NEW e \in Distances \cup Coverings, Reset(e) PROVE GymInv'
<1>1. /\ env' = e /\ route' \in Routes(e) /\ leg' = 1 /\ count' = 0 /\ over' = FALSE
      /\ return' = 0 /\ hits' = 0 /\ prev' = DistanceTo(route', 1, 0) /\ from' = prev'
      /\ pose' = [r \in Robots |-> IF e = "MultiAgentEnv" THEN StartCell[r] ELSE 0]
      /\ covered' = IF e = "MultiAgentEnv" THEN UNION {Marked(pose'[r]) : r \in Robots}
                    ELSE IF e = "ExplorationEnv" THEN Marked(0) ELSE {}
  BY DEF Reset
<1>2. route' \in RouteSet /\ (e = "VLNEnv" => Len(route') = Legs) BY <1>1, RouteDrawn
<1>3. prev' \in Nat BY <1>1, <1>2, DistanceNat
<1>4. \A r \in Robots : StartCell[r] \in Int BY GymAssumption
<1>5. \A p \in Int : Marked(p) \in SUBSET Map BY DEF Marked
<1>6. covered' \in SUBSET Map BY <1>1, <1>5 DEF Marked
<1>7. pose' \in [Robots -> Int] BY <1>1, <1>4
<1>8. GymTypes'
  <2>1. leg' <= Len(route') + 1
    <3>1. Len(route') \in Nat BY <1>2 DEF RouteSet
    <3>2. QED BY <1>1, <3>1
  <2>2. /\ leg' \in Nat \ {0} /\ prev' \in Int /\ from' \in Int /\ count' \in Nat
        /\ return' \in Int /\ hits' \in Int
    BY <1>1, <1>3
  <2>3. env' \in {"none"} \cup Distances \cup Coverings /\ env' # "none"
    BY <1>1 DEF Distances, Coverings
  <2>4. over' \in BOOLEAN BY <1>1
  <2>5. QED BY <1>2, <1>6, <1>7, <2>1, <2>2, <2>3, <2>4, Zenon DEF GymTypes
<1>9. e \in Distances => ~ OffMap(pose'[Ego])
  <2>1. e \in Distances => pose'[Ego] = 0 BY <1>1, GymAssumption DEF Distances
  <2>2. ~ OffMap(0) BY GymAssumption DEF OffMap
  <2>3. QED BY <2>1, <2>2
<1>10. NothingPaid'
  <2>1. e = "VLNEnv" => leg' <= Len(route') BY <1>1, <1>2, GymAssumption
  <2>2. QED BY <1>1, <1>9, <2>1 DEF NothingPaid
<1>11. RewardsAddUp'
  <2>1. CASE e \in {"NavigationEnv", "ObjectNavEnv"}
    <3>1. ~ OffMap(pose'[Ego]) BY <1>9, <2>1 DEF Distances
    <3>2. Earned' = 0 BY <1>1, <1>3, <2>1, <3>1 DEF Earned
    <3>3. QED BY <1>1, <3>2 DEF RewardsAddUp
  <2>2. CASE e = "VLNEnv"
    <3>1. ~ OffMap(pose'[Ego]) BY <1>9, <2>2 DEF Distances
    <3>2. ~ (leg' > Len(route')) BY <1>1, <1>2, <2>2, GymAssumption
    <3>3. Earned' = 0 BY <1>1, <1>3, <2>2, <3>1, <3>2 DEF Earned
    <3>4. QED BY <1>1, <3>3 DEF RewardsAddUp
  <2>3. CASE e = "ExplorationEnv"
    <3>1. Cardinality(Marked(0)) \in Nat BY <1>5, MapCells
    <3>2. covered' = Marked(0) BY <1>1, <2>3
    <3>3. Earned' = 0 BY <1>1, <2>3, <3>1, <3>2 DEF Earned
    <3>4. QED BY <1>1, <3>3 DEF RewardsAddUp
  <2>4. CASE e = "MultiAgentEnv"
    <3> DEFINE start == UNION {Marked(StartCell[r]) : r \in Robots}
    <3>1. covered' = start BY <1>1, <2>4
    <3>2. Cardinality(start) \in Nat BY <1>6, <3>1, MapCells
    <3>3. Earned' = 10 * (Cardinality(covered') - Cardinality(start)) - 5 * hits'
      BY <1>1, <2>4 DEF Earned
    <3> HIDE DEF start
    <3>4. QED BY <1>1, <3>1, <3>2, <3>3 DEF RewardsAddUp
  <2>5. QED BY <2>1, <2>2, <2>3, <2>4 DEF Distances, Coverings
<1>12. QED BY <1>8, <1>10, <1>11 DEF GymInv

\* Ego's cell after any action.
LEMMA EgoCell == ASSUME GymTypes, EgoMoves PROVE pose' \in [Robots -> Int] /\ pose'[Ego] \in Int
BY GymAssumption DEF GymTypes, EgoMoves

\* A step pays for the way it has brought the robot nearer to its goal,
LEMMA StepToGoalPays == ASSUME GymInv, StepToGoal PROVE GymInv'
<1> USE DEF GymInv
<1> DEFINE distance == DistanceTo(route, leg, pose'[Ego])
           off == OffMap(pose'[Ego])
<1>1. /\ ~ over /\ env \in {"NavigationEnv", "ObjectNavEnv"} /\ EgoMoves /\ count' = count + 1
      /\ prev' = distance
      /\ return' = return + 10 * (prev - distance)
                   + (IF distance < Near THEN 100 ELSE 0) - (IF off THEN 50 ELSE 0)
      /\ over' = (distance < Near \/ off \/ Truncated)
      /\ UNCHANGED <<env, route, leg, covered, from, hits>>
  BY DEF StepToGoal
<1>2. pose' \in [Robots -> Int] /\ pose'[Ego] \in Int BY <1>1, EgoCell
<1>3. distance \in Nat BY <1>2, DistanceNat DEF GymTypes
<1> HIDE DEF distance
<1>4. ~ OffMap(pose[Ego]) /\ ~ (prev < Near /\ count > 0)
  BY <1>1 DEF NothingPaid, Distances
<1>5. /\ count \in Nat /\ prev \in Int /\ return \in Int /\ from \in Int /\ Near \in Nat
  BY GymAssumption DEF GymTypes
<1>6. return = 10 * (from - prev) BY <1>1, <1>4, <1>5, EarnedToGoal DEF RewardsAddUp
<1>7. Earned' = 10 * (from' - prev') + (IF prev' < Near /\ count' > 0 THEN 100 ELSE 0)
                - (IF off THEN 50 ELSE 0)
  BY <1>1 DEF Earned
<1> HIDE DEF off
<1>8. RewardsAddUp' BY <1>1, <1>3, <1>5, <1>6, <1>7 DEF RewardsAddUp
<1>9. GymTypes'
  <2>1. count' \in Nat /\ prev' \in Int /\ return' \in Int
    <3>1. return' = Earned' BY <1>8 DEF RewardsAddUp
    <3>2. QED BY <1>1, <1>3, <1>5, <1>7, <3>1
  <2>2. over' \in BOOLEAN BY <1>1
  <2>3. env' # "none" BY <1>1
  <2>4. QED BY <1>1, <1>2, <2>1, <2>2, <2>3, Zenon DEF GymTypes
<1>10. NothingPaid' BY <1>1 DEF NothingPaid, off
<1>11. QED BY <1>8, <1>9, <1>10

\* or to the next waypoint,
LEMMA StepAlongRoutePays == ASSUME GymInv, StepAlongRoute PROVE GymInv'
<1> USE DEF GymInv
<1> DEFINE distance == DistanceTo(route, leg, pose'[Ego])
           off == OffMap(pose'[Ego])
           passed == distance < Near
           atEnd == passed /\ leg = Len(route)
<1>1. /\ ~ over /\ env = "VLNEnv" /\ EgoMoves /\ count' = count + 1
      /\ leg' = IF passed THEN leg + 1 ELSE leg
      /\ prev' = IF passed /\ ~atEnd THEN DistanceTo(route, leg', pose'[Ego]) ELSE distance
      /\ from' = from + (prev' - distance)
      /\ return' = return + 5 * (prev - distance) + (IF passed THEN 20 ELSE 0)
                   + (IF atEnd THEN 100 ELSE 0) - (IF off THEN 50 ELSE 0)
      /\ over' = (atEnd \/ off \/ Truncated)
      /\ UNCHANGED <<env, route, covered, hits>>
  BY DEF StepAlongRoute
<1>2. pose' \in [Robots -> Int] /\ pose'[Ego] \in Int BY <1>1, EgoCell
<1>3. distance \in Nat BY <1>2, DistanceNat DEF GymTypes
<1>4. ~ OffMap(pose[Ego]) /\ leg <= Len(route)
  BY <1>1 DEF NothingPaid, Distances
<1>5. /\ count \in Nat /\ prev \in Int /\ return \in Int /\ from \in Int /\ Near \in Nat
      /\ leg \in Nat \ {0} /\ Len(route) \in Nat
  BY GymAssumption DEF GymTypes, RouteSet
<1>6. leg' \in Nat \ {0} BY <1>1, <1>5
<1>7. DistanceTo(route, leg', pose'[Ego]) \in Nat BY <1>2, <1>6, DistanceNat DEF GymTypes
<1>8. return = 5 * (from - prev) + 20 * (leg - 1)
  BY <1>1, <1>4, <1>5, EarnedAlongRoute DEF RewardsAddUp
<1>9. Earned' = 5 * (from' - prev') + 20 * (leg' - 1) + (IF leg' > Len(route) THEN 100 ELSE 0)
                - (IF off THEN 50 ELSE 0)
  BY <1>1 DEF Earned
<1> HIDE DEF distance, off
<1>10. prev' \in Nat /\ from' \in Int /\ leg' <= Len(route) + 1 /\ (leg' > Len(route) <=> atEnd)
  BY <1>1, <1>3, <1>4, <1>5, <1>7
<1>11. RewardsAddUp'
  <2>1. CASE ~ passed BY <1>1, <1>3, <1>5, <1>8, <1>9, <1>10, <2>1 DEF RewardsAddUp
  <2>2. CASE passed /\ atEnd
    BY <1>1, <1>3, <1>5, <1>8, <1>9, <1>10, <2>2 DEF RewardsAddUp
  <2>3. CASE passed /\ ~ atEnd
    <3>1. leg' = leg + 1 /\ ~ (leg' > Len(route)) BY <1>1, <1>10, <2>3
    <3>2. from' - prev' = from - distance BY <1>1, <1>3, <1>5, <1>10
    <3> HIDE DEF atEnd
    <3>3. return' = return + 5 * (prev - distance) + 20 - (IF off THEN 50 ELSE 0)
      BY <1>1, <1>3, <1>5, <2>3
    <3>4. Earned' = 5 * (from - distance) + 20 * leg - (IF off THEN 50 ELSE 0)
      <4>1. leg' - 1 = leg BY <1>5, <3>1
      <4>2. Earned' = 5 * (from' - prev') + 20 * (leg' - 1) + 0 - (IF off THEN 50 ELSE 0)
        BY <1>9, <3>1
      <4>3. Earned' = 5 * (from - distance) + 20 * leg + 0 - (IF off THEN 50 ELSE 0)
        BY <3>2, <4>1, <4>2, Zenon
      <4>4. 20 * leg + 0 = 20 * leg BY <1>5
      <4>5. QED BY <1>3, <1>5, <4>3, <4>4
    <3>5. return' = Earned' BY <1>3, <1>5, <1>8, <3>3, <3>4
    <3>6. QED BY <3>5 DEF RewardsAddUp
  <2>4. QED BY <2>1, <2>2, <2>3
<1>12. GymTypes'
  <2>1. count' \in Nat /\ return' \in Int BY <1>1, <1>3, <1>5
  <2>2. over' \in BOOLEAN BY <1>1
  <2>3. env' # "none" BY <1>1
  <2>4. prev' \in Int BY <1>10
  <2>5. QED BY <1>1, <1>2, <1>6, <1>10, <2>1, <2>2, <2>3, <2>4, Zenon DEF GymTypes
<1>13. NothingPaid'
  <2>1. SUFFICES ASSUME ~ over' PROVE ~ OffMap(pose'[Ego]) /\ leg' <= Len(route')
    BY <1>1 DEF NothingPaid, Distances
  <2>2. ~ atEnd /\ ~ off BY <1>1, <2>1
  <2>3. QED BY <1>1, <1>5, <1>6, <1>10, <2>2 DEF off
<1>14. QED BY <1>11, <1>12, <1>13

\* or for the cells it has seen first,
LEMMA StepToExplorePays == ASSUME GymInv, StepToExplore PROVE GymInv'
<1> USE DEF GymInv
<1>1. /\ ~ over /\ env = "ExplorationEnv" /\ count' = count + 1
      /\ covered' = covered \cup Marked(pose'[Ego])
      /\ return' = return + (Cardinality(covered') - Cardinality(covered))
                   + (IF Enough(covered') THEN 100 ELSE 0)
      /\ over' = (Enough(covered') \/ Truncated)
      /\ UNCHANGED <<env, route, leg, prev, from, hits>>
  BY DEF StepToExplore
<1>2. pose' \in [Robots -> Int]
  <2>1. PICK d \in {-1, 0, 1} : pose' = [pose EXCEPT ![Ego] = Clip(@ + d, Arena)]
    BY DEF StepToExplore
  <2>2. pose[Ego] \in Int /\ Arena \in Int BY GymAssumption DEF GymTypes
  <2>3. Clip(pose[Ego] + d, Arena) \in Int BY <2>2 DEF Clip
  <2>4. QED BY <2>1, <2>3 DEF GymTypes
<1>3. covered' \in SUBSET Map BY <1>1 DEF GymTypes, Marked
<1>4. /\ Cardinality(covered) \in Nat /\ Cardinality(covered') \in Nat
      /\ Cardinality(Marked(0)) \in Nat
  BY <1>3, MapCells DEF GymTypes, Marked
<1>5. count \in Nat /\ return \in Int BY DEF GymTypes
<1>6. ~ (Enough(covered) /\ count > 0) BY <1>1 DEF NothingPaid
<1>7. return = Cardinality(covered) - Cardinality(Marked(0))
  BY <1>1, <1>4, <1>6, EarnedExploring DEF RewardsAddUp
<1>8. Earned' = Cardinality(covered') - Cardinality(Marked(0))
                + (IF Enough(covered') /\ count' > 0 THEN 100 ELSE 0)
  BY <1>1 DEF Earned
<1>9. count' > 0 /\ count' \in Nat BY <1>1, <1>5
<1>10. RewardsAddUp' BY <1>1, <1>4, <1>7, <1>8, <1>9 DEF RewardsAddUp
<1>11. GymTypes'
  <2>1. return' \in Int BY <1>1, <1>4, <1>5
  <2>2. over' \in BOOLEAN BY <1>1
  <2>3. env' # "none" BY <1>1
  <2>4. QED BY <1>1, <1>2, <1>3, <1>9, <2>1, <2>2, <2>3, Zenon DEF GymTypes
<1>12. NothingPaid' BY <1>1 DEF NothingPaid, Distances
<1>13. QED BY <1>10, <1>11, <1>12

\* or a team for those, less its collisions.
LEMMA StepTeamPays == ASSUME GymInv, StepTeam PROVE GymInv'
<1> USE DEF GymInv
<1> DEFINE start == UNION {Marked(StartCell[r]) : r \in Robots}
<1>1. /\ env = "MultiAgentEnv" /\ count' = count + 1
      /\ covered' = covered \cup UNION {Marked(pose'[r]) : r \in Robots}
      /\ hits' = hits + Collisions(Ego)
      /\ return' = return + 10 * (Cardinality(covered') - Cardinality(covered))
                   - 5 * Collisions(Ego)
      /\ over' = Truncated
      /\ UNCHANGED <<env, route, leg, prev, from>>
  BY DEF StepTeam
<1>2. pose' \in [Robots -> Int]
  <2>1. PICK d \in [Robots -> {-1, 0, 1}] : pose' = [r \in Robots |-> Clip(pose[r] + d[r], Fence)]
    BY DEF StepTeam
  <2>2. Fence \in Int BY GymAssumption
  <2>3. ASSUME NEW r \in Robots PROVE Clip(pose[r] + d[r], Fence) \in Int
    <3>1. pose[r] \in Int /\ d[r] \in {-1, 0, 1} BY <2>1 DEF GymTypes
    <3>2. QED BY <2>2, <3>1 DEF Clip
  <2>4. QED BY <2>1, <2>3
<1>3. covered' \in SUBSET Map BY <1>1 DEF GymTypes, Marked
<1>4. start \in SUBSET Map BY DEF Marked
<1>5. /\ Cardinality(covered) \in Nat /\ Cardinality(covered') \in Nat
      /\ Cardinality(start) \in Nat /\ Collisions(Ego) \in Nat
  BY <1>3, <1>4, MapCells, CollisionCount, GymAssumption DEF GymTypes
<1>6. return = 10 * (Cardinality(covered) - Cardinality(start)) - 5 * hits
  BY <1>1, EarnedByTeam DEF RewardsAddUp
<1>7. Earned' = 10 * (Cardinality(covered') - Cardinality(start)) - 5 * hits'
  BY <1>1 DEF Earned
<1> HIDE DEF start
<1>8. count \in Nat /\ hits \in Int /\ return \in Int BY DEF GymTypes
<1>9. RewardsAddUp' BY <1>1, <1>5, <1>6, <1>7, <1>8 DEF RewardsAddUp
<1>10. GymTypes'
  <2>1. return' \in Int /\ hits' \in Int /\ count' \in Nat BY <1>1, <1>5, <1>8
  <2>2. over' \in BOOLEAN BY <1>1 DEF Truncated
  <2>3. env' # "none" BY <1>1
  <2>4. QED BY <1>1, <1>2, <1>3, <2>1, <2>2, <2>3, Zenon DEF GymTypes
<1>11. NothingPaid' BY <1>1 DEF NothingPaid, Distances
<1>12. QED BY <1>9, <1>10, <1>11

\* Every step keeps the sum.
LEMMA GymStepInv == GymInv /\ [GymNext]_gymVars => GymInv'
<1> SUFFICES ASSUME GymInv, [GymNext]_gymVars PROVE GymInv' OBVIOUS
<1>1. CASE UNCHANGED gymVars
  <2>1. Earned' = Earned BY <1>1 DEF gymVars, Earned
  <2>2. QED BY <1>1, <2>1 DEF gymVars, GymInv, GymTypes, NothingPaid, RewardsAddUp
<1>2. CASE GymNext
  BY <1>2, ResetPays, StepToGoalPays, StepAlongRoutePays, StepToExplorePays, StepTeamPays
     DEF GymNext
<1>3. QED BY <1>1, <1>2

\* The rewards of an episode add up, for every arena, route, number of robots and limit.
THEOREM RewardsAddUpAlways == GymSpec => []RewardsAddUp
<1>1. GymInv => RewardsAddUp BY DEF GymInv
<1>2. QED BY <1>1, GymInitInv, GymStepInv, PTL DEF GymSpec

-------------------------------------------------------------------------------
\* A behaviour of the instance is one of each of the four, three of which stay as they began.
LEMMA ThreeweIsOne == ThreeweSpec => Spec /\ SensorSpec /\ GymSpec /\ MockSpec
<1>1. ThreeweInit => Init /\ SensorInit /\ GymInit /\ MockInit BY DEF ThreeweInit
<1>2. [ThreeweNext]_<<program, vars, sensorVars, gymVars, mockVars>>
      => [Next]_vars /\ [SensorNext]_sensorVars /\ [GymNext]_gymVars /\ [MockNext]_mockVars
  BY Zenon DEF ThreeweNext
<1>3. QED BY <1>1, <1>2, PTL DEF ThreeweSpec, Spec, SensorSpec, GymSpec, MockSpec

\* All that the run checks of the SDK's safety holds of the instance whatever the constants:
\* calls, readings, simulated robot and environments.
THEOREM ThreeweCorrect ==
  ThreeweSpec => [](CallsTidy /\ ReadingsAdvance /\ SimulationHonest /\ RewardsAddUp)
<1>1. ThreeweSpec => []CallsTidy BY ThreeweIsOne, CallsTidyAlways, PTL
<1>2. ThreeweSpec => []ReadingsAdvance BY ThreeweIsOne, ReadingsAdvanceAlways, PTL
<1>3. ThreeweSpec => []SimulationHonest BY ThreeweIsOne, SimulationHonestAlways, PTL
<1>4. ThreeweSpec => []RewardsAddUp BY ThreeweIsOne, RewardsAddUpAlways, PTL
<1>5. QED BY <1>1, <1>2, <1>3, <1>4, PTL
===============================================================================
