------------------------------ MODULE RobotSdk ------------------------------
(***************************************************************************)
(* The motion calls of the threewe SDK on a ROS 2 backend (robot.py,       *)
(* backends/real.py, backends/gazebo.py, backends/_ros2_node.py) and the   *)
(* decoupled VLM executor on top of them (ai/vlm_runner.py).               *)
(*                                                                         *)
(* A call is a task of one event loop: what it does between two awaits is  *)
(* one step.  The spin thread, Nav2 and the model that is asked for the    *)
(* next action run beside the loop.  The last /cmd_vel stays in force      *)
(* until another is published; cmd names the call that published it, and the *)
(* node it was published on.                                               *)
(***************************************************************************)
EXTENDS Naturals, FiniteSets

CONSTANTS Tasks,        \* calls a program may have under way at once
          Goals,        \* goals Nav2 may be sent
          Waypoints,    \* length of the paths that are followed
          MaxSteps,     \* max_steps of an instruction
          VlmTimeout,   \* _VLM_TIMEOUT, in turns of the control loop
          CallCap, ConnectCap   \* bounds of the model

Zero == <<"zero", 0>>
NoGoal == "no goal"
None == "none"

\* A path has at least one waypoint; a call has none of the names below.
ASSUME RobotSdkAssumption ==
    /\ Waypoints \in Nat \ {0} /\ MaxSteps \in Nat /\ VlmTimeout \in Nat
    /\ CallCap \in Nat /\ ConnectCap \in Nat
    /\ NoGoal \notin Goals /\ {"zero", "user", "vlm"} \cap Tasks = {}

VARIABLES
    connected,   \* the backend has a running node
    gen,         \* how many nodes there have been
    cmd,         \* the last /cmd_vel: Zero, or <<who published it, the node>>
    pc,          \* [Tasks -> where the call stands]
    kind,        \* [Tasks -> the call: "goals", "drive" or "instruction"]
    far,         \* [Tasks -> the rotation asked for is more than half a turn]
    left,        \* [Tasks -> waypoints still to go to, or steps of the instruction]
    late,        \* [Tasks -> its timeout has passed]
    onNode,      \* [Tasks -> the node its goal was sent from]
    goalOf,      \* [Tasks -> the goal it waits for]
    result,      \* [Tasks -> the outcome of the last call]
    goal,        \* [Goals -> state of the goal at Nav2; however it ends, it is "over"]
    asked,       \* goals whose cancellation was asked for
    answered,    \* goals whose acceptance or rejection has reached the client
    dropped,     \* history: goals whose caller gave up before the answer, or lost its node
    exec,        \* execute() of the VLM executor
    inference,   \* its inference task
    control,     \* its control task
    steps,       \* actions asked of the model so far
    action,      \* _current_action
    since,       \* time_since_action
    done,        \* _done
    calls        \* counter for the bound

call == <<pc, kind, far, left, late, onNode, goalOf, result>>
nav == <<goal, asked, answered, dropped>>
vlm == <<exec, inference, control, steps, action, since, done>>
vars == <<connected, gen, cmd, call, nav, vlm, calls>>

Actions == {"move", "stop", "unknown", "malformed"}

Init ==
    /\ connected = FALSE /\ gen = 0 /\ cmd = Zero
    /\ pc = [t \in Tasks |-> "idle"] /\ kind = [t \in Tasks |-> "goals"]
    /\ far = [t \in Tasks |-> FALSE] /\ left = [t \in Tasks |-> 0]
    /\ late = [t \in Tasks |-> FALSE] /\ onNode = [t \in Tasks |-> 0]
    /\ goalOf = [t \in Tasks |-> NoGoal] /\ result = [t \in Tasks |-> None]
    /\ goal = [g \in Goals |-> None] /\ asked = {} /\ answered = {} /\ dropped = {}
    /\ exec = None /\ inference = None /\ control = None
    /\ steps = 0 /\ action = None /\ since = 0 /\ done = FALSE
    /\ calls = 0

-----------------------------------------------------------------------------
(* connect and disconnect.                                                 *)

Connect ==
    /\ ~connected /\ gen < ConnectCap
    /\ connected' = TRUE /\ gen' = gen + 1
    /\ UNCHANGED <<cmd, call, nav, vlm, calls>>

Disconnect ==
    /\ connected /\ connected' = FALSE
    /\ UNCHANGED <<gen, cmd, call, nav, vlm, calls>>

\* The node that sent the goal still exists.
OnLiveNode(t) == connected /\ onNode[t] = gen

\* What a call keeps to itself ends with it.
Returns(t, outcome) ==
    /\ pc' = [pc EXCEPT ![t] = "idle"]
    /\ result' = [result EXCEPT ![t] = outcome]
    /\ kind' = [kind EXCEPT ![t] = "goals"]
    /\ far' = [far EXCEPT ![t] = FALSE]
    /\ left' = [left EXCEPT ![t] = 0]
    /\ late' = [late EXCEPT ![t] = FALSE]
    /\ onNode' = [onNode EXCEPT ![t] = 0]
    /\ goalOf' = [goalOf EXCEPT ![t] = NoGoal]

Starts(t, k, where, n, rotation) ==
    /\ connected /\ pc[t] = "idle" /\ calls < CallCap
    /\ calls' = calls + 1
    /\ pc' = [pc EXCEPT ![t] = where]
    /\ kind' = [kind EXCEPT ![t] = k]
    /\ left' = [left EXCEPT ![t] = n]
    /\ far' = [far EXCEPT ![t] = rotation]
    /\ late' = [late EXCEPT ![t] = FALSE]
    /\ result' = [result EXCEPT ![t] = None]
    /\ UNCHANGED <<connected, gen, cmd, onNode, goalOf, nav, vlm>>

\* time.time() - start_time > timeout becomes true.
Expires(t) ==
    /\ pc[t] \in {"answer", "result", "look", "sleep"} /\ ~late[t]
    /\ late' = [late EXCEPT ![t] = TRUE]
    /\ UNCHANGED <<connected, gen, cmd, pc, kind, far, left, onNode, goalOf, result, nav, vlm, calls>>

-----------------------------------------------------------------------------
(* set_velocity and stop: calls without an await.                          *)

SetVelocity ==
    /\ connected /\ cmd' = <<"user", gen>>
    /\ UNCHANGED <<connected, gen, call, nav, vlm, calls>>

Stop ==
    /\ connected /\ cmd' = Zero
    /\ UNCHANGED <<connected, gen, call, nav, vlm, calls>>

-----------------------------------------------------------------------------
(* move_to and follow_path: a goal of Nav2 at a time.                      *)

MoveTo(t) == Starts(t, "goals", "send", 1, FALSE)
FollowPath(t) == Starts(t, "goals", "send", Waypoints, FALSE)

Unchanged == UNCHANGED <<connected, gen, vlm, calls>>

\* wait_for_server finds no server, or finds the node gone.
ServerMissing(t) ==
    /\ pc[t] = "send"
    /\ Returns(t, IF connected THEN "unavailable" ELSE "raised")
    /\ Unchanged /\ UNCHANGED <<cmd, nav>>

SendGoal(t) ==
    /\ pc[t] = "send" /\ connected
    /\ \E g \in Goals :
        /\ goal[g] = None
        /\ goal' = [goal EXCEPT ![g] = "pending"]
        /\ goalOf' = [goalOf EXCEPT ![t] = g]
    /\ onNode' = [onNode EXCEPT ![t] = gen]
    /\ late' = [late EXCEPT ![t] = FALSE]
    /\ pc' = [pc EXCEPT ![t] = "answer"]
    /\ Unchanged /\ UNCHANGED <<cmd, kind, far, left, result, asked, answered, dropped>>

\* Mutant: the wait for the answer has no timeout.
AnswerTimesOut_Never(t) == FALSE /\ UNCHANGED vars

\* Each turn of a waiting loop sleeps, and looks at the clock before it looks
\* at the future again.
AnswerTimesOut(t) ==
    /\ pc[t] = "answer" /\ late[t]
    /\ dropped' = dropped \cup {goalOf[t]}
    /\ Returns(t, "timeout")
    /\ Unchanged /\ UNCHANGED <<cmd, goal, asked, answered>>

Answered(t) ==
    /\ pc[t] = "answer" /\ ~late[t] /\ goalOf[t] \in answered
    /\ \/ /\ goal[goalOf[t]] = "rejected" /\ Returns(t, "rejected")
       \/ /\ goal[goalOf[t]] # "rejected" /\ pc' = [pc EXCEPT ![t] = "result"]
          /\ UNCHANGED <<kind, far, left, late, onNode, goalOf, result>>
    /\ Unchanged /\ UNCHANGED <<cmd, nav>>

\* A client whose node is gone may or may not raise when asked to cancel.
ResultTimesOut(t) ==
    /\ pc[t] = "result" /\ late[t]
    /\ \/ /\ Returns(t, "timeout")
          /\ asked' = asked \cup {goalOf[t]} /\ UNCHANGED dropped
       \/ /\ ~OnLiveNode(t) /\ Returns(t, "raised")
          /\ dropped' = dropped \cup {goalOf[t]} /\ UNCHANGED asked
    /\ Unchanged /\ UNCHANGED <<cmd, goal, answered>>

\* The result is there: whatever its status, move_to has reached its target,
\* and follow_path goes on to the next.
ResultArrives(t) ==
    /\ pc[t] = "result" /\ ~late[t] /\ goal[goalOf[t]] = "over" /\ OnLiveNode(t)
    /\ \/ /\ left[t] > 1
          /\ left' = [left EXCEPT ![t] = @ - 1] /\ pc' = [pc EXCEPT ![t] = "send"]
          /\ goalOf' = [goalOf EXCEPT ![t] = NoGoal]
          /\ UNCHANGED <<kind, far, late, onNode, result>>
       \/ left[t] = 1 /\ Returns(t, "reached")
    /\ Unchanged /\ UNCHANGED <<cmd, nav>>

-----------------------------------------------------------------------------
(* Nav2, as its clients see it.                                            *)

Outside == UNCHANGED <<connected, gen, cmd, call, vlm, calls>>

Nav2Answers(g) ==
    /\ goal[g] = "pending"
    /\ goal' \in {[goal EXCEPT ![g] = s] : s \in {"executing", "rejected"}}
    /\ UNCHANGED <<asked, answered, dropped>> /\ Outside

\* The spin thread delivers the answer, as long as the node is there.
AnswerDelivered(t) ==
    /\ pc[t] = "answer" /\ OnLiveNode(t) /\ goal[goalOf[t]] # "pending"
    /\ goalOf[t] \notin answered
    /\ answered' = answered \cup {goalOf[t]}
    /\ UNCHANGED <<goal, asked, dropped>> /\ Outside

Nav2Ends(g) ==
    /\ goal[g] = "executing" /\ goal' = [goal EXCEPT ![g] = "over"]
    /\ UNCHANGED <<asked, answered, dropped>> /\ Outside

-----------------------------------------------------------------------------
(* move_forward and rotate: velocities until the odometry has moved far    *)
(* enough.  Too small a distance returns at once and is left out.          *)

MoveForward(t) == Starts(t, "drive", "look", 1, FALSE)
Rotate(t) == \E f \in BOOLEAN : Starts(t, "drive", "look", 1, f)

Moving(t) == pc[t] \in {"look", "sleep"}

\* A turn of the loop publishes, sleeps, and measures.  It publishes on the
\* node there is now; on one that has been destroyed it raises.
Drive(t) ==
    /\ pc[t] = "look" /\ ~late[t]
    /\ \/ /\ connected /\ cmd' = <<t, gen>>
          /\ pc' = [pc EXCEPT ![t] = "sleep"]
          /\ UNCHANGED <<kind, far, left, late, onNode, goalOf, result>>
       \/ /\ ~connected /\ Returns(t, "raised") /\ UNCHANGED cmd
    /\ Unchanged /\ UNCHANGED nav

NotThereYet(t) ==
    /\ pc[t] = "sleep" /\ pc' = [pc EXCEPT ![t] = "look"]
    /\ Unchanged /\ UNCHANGED <<cmd, kind, far, left, late, onNode, goalOf, result, nav>>

\* A motion of an instruction is followed by its next step, however it ended.
MotionEnds(t, outcome) ==
    IF kind[t] = "instruction"
    THEN pc' = [pc EXCEPT ![t] = "plan"] /\ UNCHANGED <<kind, far, left, late, onNode, goalOf, result>>
    ELSE Returns(t, outcome)

StopAndReturn(t, outcome) ==
    \/ connected /\ cmd' = Zero /\ MotionEnds(t, outcome)
    \/ ~connected /\ UNCHANGED cmd /\ Returns(t, "raised")

\* The turn is measured as the angle between two headings, which is never
\* more than half a turn.
CanMeasure(t) == ~far[t]

Arrives(t) ==
    /\ pc[t] = "sleep" /\ CanMeasure(t)
    /\ StopAndReturn(t, "reached")
    /\ Unchanged /\ UNCHANGED nav

\* Mutant: a motion that takes too long returns without a stop.
MotionTimesOut_NoStop(t) ==
    /\ pc[t] = "look" /\ late[t] /\ MotionEnds(t, "timeout")
    /\ Unchanged /\ UNCHANGED <<cmd, nav>>

MotionTimesOut(t) ==
    /\ pc[t] = "look" /\ late[t]
    /\ StopAndReturn(t, "timeout")
    /\ Unchanged /\ UNCHANGED nav

-----------------------------------------------------------------------------
(* execute_vlm_instruction: the model is asked, on the event loop, and what  *)
(* it says is done, before it is asked again.                                *)

Instruct(t) == Starts(t, "instruction", "plan", MaxSteps, FALSE)

\* get_image raises without a connection, and so does an action that is no
\* object or whose distance is no number; an answer that is no JSON, "stop" and
\* an unknown action cost the step, "done" ends the instruction.
Plan(t) ==
    /\ pc[t] = "plan"
    /\ \/ /\ left[t] = 0 \/ ~connected
          /\ Returns(t, IF left[t] = 0 THEN "timeout" ELSE "raised") /\ UNCHANGED cmd
       \/ /\ left[t] > 0 /\ connected
          /\ Returns(t, "raised") \/ Returns(t, "reached")
          /\ UNCHANGED cmd
       \/ /\ left[t] > 0 /\ connected
          /\ left' = [left EXCEPT ![t] = @ - 1]
          /\ \/ cmd' \in {cmd, Zero} /\ UNCHANGED <<pc, far, late>>
             \/ /\ pc' = [pc EXCEPT ![t] = "look"]
                /\ far' \in {[far EXCEPT ![t] = f] : f \in BOOLEAN}
                /\ late' = [late EXCEPT ![t] = FALSE] /\ UNCHANGED cmd
          /\ UNCHANGED <<kind, onNode, goalOf, result>>
    /\ Unchanged /\ UNCHANGED nav

-----------------------------------------------------------------------------
(* AsyncVLMExecutor: execute(), the inference task and the control task.   *)

OtherCalls == UNCHANGED <<connected, gen, call, nav>>

ExecuteInstruction ==
    /\ connected /\ exec # "running" /\ control # "running" /\ calls < CallCap
    /\ calls' = calls + 1
    /\ exec' = "running" /\ inference' = "look" /\ control' = "running"
    /\ steps' = 0 /\ action' = None /\ since' = 0 /\ done' = FALSE
    /\ OtherCalls /\ UNCHANGED cmd

\* get_image raises when the robot is not connected.
InferenceAsks ==
    /\ inference = "look"
    /\ \/ steps < MaxSteps /\ connected /\ inference' = "asked" /\ steps' = steps + 1
       \/ steps < MaxSteps /\ ~connected /\ inference' = "raised" /\ UNCHANGED steps
       \/ steps = MaxSteps /\ inference' = "over" /\ UNCHANGED steps
    /\ OtherCalls /\ UNCHANGED <<cmd, exec, control, action, since, done, calls>>

\* An answer that is no JSON, or no answer, costs a step; one that is JSON and
\* no object raises; "done" ends the task; the others are the next action:
\* a motion, "stop", one the control loop does not know, and a motion by
\* something that is no number.
InferenceAnswers ==
    /\ inference = "asked"
    /\ \/ inference' = "look" /\ UNCHANGED action
       \/ inference' \in {"raised", "over"} /\ UNCHANGED action
       \/ inference' = "look" /\ action' \in Actions
    /\ OtherCalls /\ UNCHANGED <<cmd, exec, control, steps, since, done, calls>>

AwaitInference ==
    /\ exec = "running" /\ ~done
    /\ \/ inference = "over" /\ done' = TRUE /\ UNCHANGED exec
       \/ inference = "raised" /\ exec' = "raised" /\ UNCHANGED done
    /\ OtherCalls /\ UNCHANGED <<cmd, inference, control, steps, action, since, calls>>

AwaitControl ==
    /\ exec = "running" /\ done /\ control # "running"
    /\ exec' = IF control = "over" THEN "returned" ELSE "raised"
    /\ OtherCalls /\ UNCHANGED <<cmd, inference, control, steps, action, since, done, calls>>

\* Mutant: the control loop has no timeout.
Stale_Never == FALSE

Stale == since > VlmTimeout

\* What a turn of the control loop publishes; it publishes nothing for an
\* action it does not know.
Target ==
    IF Stale \/ action \in {None, "stop"} THEN Zero
    ELSE IF action = "move" THEN <<"vlm", gen>> ELSE cmd

\* A turn of the loop.  It looks for a newer action in the same turn in which
\* it read the present one, so that since is never set back.
ControlTurn ==
    /\ control = "running" /\ UNCHANGED action
    /\ IF ~connected \/ (~done /\ ~Stale /\ action = "malformed")
       THEN control' = "raised" /\ UNCHANGED <<cmd, since>>
       ELSE IF done
       THEN control' = "over" /\ cmd' = Zero /\ UNCHANGED since
       ELSE /\ cmd' = Target /\ UNCHANGED control
            /\ since' = IF since > VlmTimeout THEN since ELSE since + 1
    /\ OtherCalls /\ UNCHANGED <<exec, inference, steps, done, calls>>

-----------------------------------------------------------------------------
Turn(t) == \/ ServerMissing(t) \/ SendGoal(t) \/ AnswerTimesOut(t) \/ Answered(t)
           \/ ResultTimesOut(t) \/ ResultArrives(t)
           \/ Drive(t) \/ NotThereYet(t) \/ Arrives(t) \/ MotionTimesOut(t)
           \/ Plan(t)

Next ==
    \/ Connect \/ Disconnect \/ SetVelocity \/ Stop
    \/ \E t \in Tasks : \/ MoveTo(t) \/ FollowPath(t) \/ MoveForward(t) \/ Rotate(t) \/ Instruct(t)
                        \/ Expires(t) \/ Turn(t) \/ AnswerDelivered(t)
    \/ \E g \in Goals : Nav2Answers(g) \/ Nav2Ends(g)
    \/ ExecuteInstruction \/ InferenceAsks \/ InferenceAnswers
    \/ AwaitInference \/ AwaitControl \/ ControlTurn

Spec == Init /\ [][Next]_vars

\* The event loop turns, clocks run, and a question to the model is answered
\* or fails.  Nothing is assumed of Nav2 or of the node.
FairSpec ==
    /\ Spec
    /\ \A t \in Tasks : WF_vars(Turn(t)) /\ WF_vars(Expires(t))
    /\ WF_vars(InferenceAsks) /\ WF_vars(InferenceAnswers)
    /\ WF_vars(AwaitInference) /\ WF_vars(AwaitControl) /\ WF_vars(ControlTurn)

-----------------------------------------------------------------------------
(* Properties.                                                             *)

Where == {"idle", "send", "answer", "result", "look", "sleep", "plan"}
Outcomes == {None, "reached", "timeout", "rejected", "unavailable", "raised"}

\* Every variable has its type; a call waits for a goal exactly when it stands
\* at one of the two waits.
TypeOK ==
    /\ connected \in BOOLEAN /\ gen \in 0..ConnectCap
    /\ cmd \in {Zero} \cup ((Tasks \cup {"vlm", "user"}) \X (1..gen))
    /\ \A t \in Tasks :
        /\ pc[t] \in Where /\ kind[t] \in {"goals", "drive", "instruction"}
        /\ far[t] \in BOOLEAN /\ left[t] \in 0..(Waypoints + MaxSteps) /\ late[t] \in BOOLEAN
        /\ onNode[t] \in 0..gen /\ goalOf[t] \in Goals \cup {NoGoal} /\ result[t] \in Outcomes
        /\ pc[t] \in {"answer", "result"} <=> goalOf[t] # NoGoal
    /\ goal \in [Goals -> {None, "pending", "executing", "rejected", "over"}]
    /\ asked \subseteq Goals /\ answered \subseteq Goals /\ dropped \subseteq Goals
    /\ exec \in {None, "running", "returned", "raised"}
    /\ inference \in {None, "look", "asked", "over", "raised"}
    /\ control \in {None, "running", "over", "raised"}
    /\ steps \in 0..MaxSteps /\ since \in 0..(VlmTimeout + 1) /\ done \in BOOLEAN
    /\ action \in Actions \cup {None} /\ calls \in 0..CallCap

\* A velocity that is not zero is never left behind by a call or by the VLM
\* executor that is over, unless the node was lost under it.
NoCommandLeft ==
    connected =>
        /\ \A t \in Tasks : cmd = <<t, gen>> => Moving(t)
        /\ cmd = <<"vlm", gen>> => control # "over"

\* A goal Nav2 still pursues has a caller that waits for it, or was asked to be
\* cancelled, or its caller gave up before the answer came, or lost its node:
\* those two leave the robot driving to it.
GoalsLetGo ==
    \A g \in Goals : goal[g] = "executing" =>
        \/ g \in asked \/ g \in dropped
        \/ \E t \in Tasks : goalOf[t] = g

\* Every call returns: also when Nav2 never answers, when the node is
\* destroyed under it, and when the rotation can never be measured.
CallsEnd == \A t \in Tasks : pc[t] # "idle" ~> pc[t] = "idle"

\* An instruction whose execute() raised leaves its control task running; that
\* task stops the robot, unless it fails itself.
OrphanStops ==
    (exec = "raised" /\ control = "running") ~> (cmd # <<"vlm", gen>> \/ control = "raised")

\* What holds whenever no call runs undisturbed to its end: no velocity and no goal is
\* left without somebody who is responsible for it.
CallsTidy == TypeOK /\ NoCommandLeft /\ GoalsLetGo

=============================================================================
