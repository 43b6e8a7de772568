-------------------------------- MODULE Docking --------------------------------
(***************************************************************************)
(* Autonomous docking: docking_controller.py with visual_servo.py,         *)
(* apriltag_detector.py and contact_detector.py, each a ROS node of its    *)
(* own.  The controller's subscriptions, timer and Nav2 answers share one  *)
(* mutually exclusive callback group; the dock action executes beside it   *)
(* in a reentrant group, in a loop that sleeps on a rate.  Who runs needs  *)
(* a thread of the executor, and so does the timer that ends the sleep.    *)
(***************************************************************************)
EXTENDS Naturals, FiniteSets, Sequences

CONSTANTS
  Goals,             \* dock goals clients may send, one at a time each
  NavIds,            \* Nav2 goals under way at once (bound)
  Threads,           \* threads of the executor (main: rclpy.spin, one)
  MaxRetries,        \* parameter max_retries
  ApproachTimeout, ServoTimeout, ContactTimeout,
  QueueCap           \* messages under way to the servo (bound)

ASSUME DockingAssumption ==
  /\ Threads \in Nat \ {0} /\ MaxRetries \in Nat
  /\ ApproachTimeout \in Nat /\ ServoTimeout \in Nat /\ ContactTimeout \in Nat
  /\ QueueCap \in Nat \ {0}
  /\ IsFiniteSet(Goals) /\ 0 \notin NavIds

VARIABLES
  stage, retries, contact, estop,       \* the controller's attributes
  tag,               \* how far the last tag pose puts the dock
  age,               \* time since _stage_start_time
  nav,               \* where each Nav2 goal is
  handle,            \* _nav2_goal_handle
  exec,              \* where each dock goal is
  cancel,            \* goals whose cancellation has been accepted
  grp,               \* what the callback group has still to do
  enables,           \* /docking/servo_enabled: the messages not yet delivered
  enabled, fresh,    \* visual_servo.py: _enabled, and _latest_pose is there and recent
  driving            \* the last velocity published for docking is not zero

controlVars == <<stage, retries, contact, estop, tag, age>>
navVars == <<nav, handle>>
goalVars == <<exec, cancel>>
servoVars == <<enabled, fresh, driving>>
vars == <<controlVars, navVars, goalVars, grp, enables, servoVars>>

DockingStage ==
  {"IDLE", "APPROACH", "VISUAL_SERVO_COARSE", "VISUAL_SERVO_FINE", "CONTACT_VERIFY",
   "DOCKED", "FAILED"}
Servoing == {"VISUAL_SERVO_COARSE", "VISUAL_SERVO_FINE"}
Final == {"none", "rejected", "succeeded", "canceled", "aborted"}
Distances == {"far", "near", "close"}   \* beyond 0.3 m (or no pose yet), within it, within 0.06 m
Largest(S) == CHOOSE m \in S : \A n \in S : n <= m
Ages == 0 .. Largest({ApproachTimeout, ServoTimeout, ContactTimeout}) + 1
NoHandle == 0
Idle == [do |-> "idle", to |-> "IDLE"]

ServoInit == enabled = FALSE /\ fresh = FALSE /\ driving = FALSE

Init ==
  /\ stage = "IDLE" /\ retries = 0 /\ contact = FALSE /\ estop = FALSE
  /\ tag = "far" /\ age = 0
  /\ nav = [n \in NavIds |-> "none"] /\ handle = NoHandle
  /\ exec = [g \in Goals |-> "none"] /\ cancel = {}
  /\ grp = Idle /\ enables = <<>>
  /\ ServoInit

-------------------------------------------------------------------------------
(* The executor.                                                           *)

Executing == {g \in Goals : exec[g] \notin Final \cup {"accepted"}}

\* Threads that are inside a callback.
Busy == Cardinality(Executing) + (IF grp = Idle THEN 0 ELSE 1)

\* A callback, and the timer of a rate, needs a thread that no dock action keeps.
FreeThread == Busy < Threads

\* Callbacks of the group exclude each other.
Group == grp = Idle /\ FreeThread

\* _set_servo_enabled: what is published is delivered in order.
PublishEnable(on) == /\ Len(enables) < QueueCap
                     /\ enables' = Append(enables, on)

-------------------------------------------------------------------------------
(* Nav2's side of a goal.                                                  *)

\* _send_nav2_goal: without a server after five seconds docking has failed.
SendNav2Goal(to) ==
  \/ \E n \in NavIds : /\ nav[n] = "none" /\ nav' = [nav EXCEPT ![n] = "sent"]
                       /\ stage' = to
  \/ stage' = "FAILED" /\ UNCHANGED nav

\* _cancel_nav2_goal knows only a goal that was accepted, and forgets it.
CancelNav2Goal ==
  /\ handle' = NoHandle
  /\ nav' = IF handle # NoHandle THEN [nav EXCEPT ![handle] = "stopping"] ELSE nav

NavAccepts(n) ==
  /\ Group /\ nav[n] = "sent"
  /\ nav' = [nav EXCEPT ![n] = "active"] /\ handle' = n
  /\ UNCHANGED <<controlVars, goalVars, grp, enables, servoVars>>

NavRejects(n) ==
  /\ Group /\ nav[n] = "sent"
  /\ nav' = [nav EXCEPT ![n] = "none"] /\ UNCHANGED handle
  /\ stage' = "FAILED"
  /\ UNCHANGED <<retries, contact, estop, tag, age, goalVars, grp, enables, servoVars>>

\* The goal is over; cancelling a goal that is over does nothing.
NavOver(n) ==
  /\ handle' = IF handle = n THEN NoHandle ELSE handle

\* Status 4, whatever the stage has become: the stage first, the servo after it.
NavSucceeds(n) ==
  /\ Group /\ nav[n] \in {"active", "stopping"}
  /\ nav' = [nav EXCEPT ![n] = "none"] /\ NavOver(n)
  /\ stage' = "VISUAL_SERVO_COARSE" /\ age' = 0
  /\ grp' = [do |-> "enable", to |-> "IDLE"]
  /\ UNCHANGED <<retries, contact, estop, tag, goalVars, enables, servoVars>>

\* Any other status, a cancelled goal's included, is a failed approach to be retried.
NavFails(n) ==
  /\ Group /\ nav[n] \in {"active", "stopping"}
  /\ NavOver(n)
  /\ IF retries < MaxRetries
     THEN /\ retries' = retries + 1
          /\ \/ stage' = stage /\ nav' = [nav EXCEPT ![n] = "sent"]
             \/ stage' = "FAILED" /\ nav' = [nav EXCEPT ![n] = "none"]
     ELSE /\ retries' = MaxRetries + 1
          /\ stage' = "FAILED" /\ nav' = [nav EXCEPT ![n] = "none"]
  /\ UNCHANGED <<contact, estop, tag, age, goalVars, grp, enables, servoVars>>

EnableServo ==
  /\ grp.do = "enable" /\ grp' = Idle
  /\ PublishEnable(TRUE)
  /\ UNCHANGED <<controlVars, navVars, goalVars, servoVars>>

-------------------------------------------------------------------------------
(* The dock action.                                                        *)

SendGoal(g) ==
  /\ exec[g] \in Final /\ FreeThread
  /\ exec' = [exec EXCEPT ![g] = IF stage \in {"IDLE", "DOCKED"} THEN "accepted" ELSE "rejected"]
  /\ cancel' = cancel \ {g}
  /\ UNCHANGED <<controlVars, navVars, grp, enables, servoVars>>

CancelGoal(g) ==
  /\ exec[g] \notin Final /\ FreeThread
  /\ cancel' = cancel \cup {g}
  /\ UNCHANGED <<controlVars, navVars, exec, grp, enables, servoVars>>

Execute(g) ==
  /\ exec[g] = "accepted" /\ FreeThread
  /\ exec' = [exec EXCEPT ![g] = "starting"]
  /\ stage' = "APPROACH" /\ age' = 0 /\ retries' = 0 /\ contact' = FALSE
  /\ UNCHANGED <<estop, tag, navVars, cancel, grp, enables, servoVars>>

\* Waiting for Nav2's server leaves the others up to five seconds.
Approach(g) ==
  /\ exec[g] = "starting"
  /\ exec' = [exec EXCEPT ![g] = "check"]
  /\ SendNav2Goal(stage)
  /\ UNCHANGED <<retries, contact, estop, tag, age, handle, cancel, grp, enables, servoVars>>

\* The loop's checks, in order; a cancellation or an E-stop first takes the robot's motion away.
Check(g) ==
  /\ exec[g] = "check"
  /\ IF g \in cancel \/ estop
     THEN /\ exec' = [exec EXCEPT ![g] = IF g \in cancel THEN "canceling" ELSE "aborting"]
          /\ CancelNav2Goal
          /\ PublishEnable(FALSE) /\ driving' = FALSE
     ELSE /\ exec' = [exec EXCEPT ![g] = CASE stage = "DOCKED" -> "succeeded"
                                           [] stage = "FAILED" -> "aborted"
                                           [] OTHER -> "sleep"]
          /\ UNCHANGED <<navVars, enables, driving>>
  /\ UNCHANGED <<controlVars, cancel, grp, enabled, fresh>>

\* ... and then sets the stage.
Ended(g) ==
  /\ exec[g] \in {"canceling", "aborting"}
  /\ stage' = IF exec[g] = "canceling" THEN "IDLE" ELSE "FAILED"
  /\ exec' = [exec EXCEPT ![g] = IF @ = "canceling" THEN "canceled" ELSE "aborted"]
  /\ UNCHANGED <<retries, contact, estop, tag, age, navVars, cancel, grp, enables, servoVars>>

\* rate.sleep ends when the executor runs the rate's timer.
Wake(g) ==
  /\ exec[g] = "sleep" /\ FreeThread
  /\ exec' = [exec EXCEPT ![g] = "check"]
  /\ UNCHANGED <<controlVars, navVars, cancel, grp, enables, servoVars>>

-------------------------------------------------------------------------------
(* The control loop, a timer of the group.  It acts on the stage it has    *)
(* read, and sets the next one, while the dock action may set another.     *)

SetStage(to) == grp' = [do |-> "set", to |-> to]
LoopFrame == UNCHANGED <<stage, retries, contact, estop, tag, goalVars, enabled, fresh>>
StopRobot == driving' = FALSE

LoopEstop ==
  /\ Group /\ stage \notin {"IDLE", "DOCKED", "FAILED"} /\ estop
  /\ CancelNav2Goal /\ PublishEnable(FALSE) /\ StopRobot /\ SetStage("FAILED")
  /\ UNCHANGED age /\ LoopFrame

ApproachTimesOut ==
  /\ Group /\ stage = "APPROACH" /\ ~ estop /\ age > ApproachTimeout
  /\ CancelNav2Goal /\ StopRobot /\ SetStage("FAILED")
  /\ UNCHANGED <<age, enables>> /\ LoopFrame

\* Mutant: a servo stage has no timeout.
ServoTimesOut_Never ==
  /\ Group /\ stage \in Servoing /\ ~ estop /\ age > ServoTimeout
  /\ UNCHANGED <<age, enables, navVars, grp, driving>> /\ LoopFrame

ServoTimesOut ==
  /\ Group /\ stage \in Servoing /\ ~ estop /\ age > ServoTimeout
  /\ PublishEnable(FALSE) /\ StopRobot /\ SetStage("FAILED")
  /\ UNCHANGED <<age, navVars>> /\ LoopFrame

\* One pass goes as far as the distance allows: from coarse to fine, on to the contact check,
\* and with the contact already confirmed to DOCKED.
Align ==
  /\ Group /\ stage \in Servoing /\ ~ estop /\ ~ age > ServoTimeout
  /\ tag \in {"near", "close"}
  /\ IF tag = "close"
     THEN /\ PublishEnable(FALSE) /\ StopRobot
          /\ age' = 0 /\ SetStage(IF contact THEN "DOCKED" ELSE "CONTACT_VERIFY")
     ELSE /\ stage = "VISUAL_SERVO_COARSE"
          /\ age' = 0 /\ SetStage("VISUAL_SERVO_FINE") /\ UNCHANGED <<enables, driving>>
  /\ UNCHANGED navVars /\ LoopFrame

VerifyContact ==
  /\ Group /\ stage = "CONTACT_VERIFY" /\ ~ estop
  /\ contact \/ age > ContactTimeout
  /\ SetStage(IF contact THEN "DOCKED" ELSE "FAILED")
  /\ UNCHANGED <<age, navVars, enables, driving>> /\ LoopFrame

Assign ==
  /\ grp.do = "set" /\ grp' = Idle
  /\ stage' = grp.to
  /\ UNCHANGED <<retries, contact, estop, tag, age, navVars, goalVars, enables, servoVars>>

ControlLoop ==
  LoopEstop \/ ApproachTimesOut \/ ServoTimesOut \/ Align \/ VerifyContact \/ Assign

OnEstop ==
  /\ Group /\ estop' = ~ estop
  /\ UNCHANGED <<stage, retries, contact, tag, age, navVars, goalVars, grp, enables, servoVars>>

OnContact ==
  /\ Group /\ contact' = ~ contact
  /\ UNCHANGED <<stage, retries, estop, tag, age, navVars, goalVars, grp, enables, servoVars>>

-------------------------------------------------------------------------------
(* The tag detector publishes a pose for whatever its latest frame shows,  *)
(* to the controller and to the servo.                                     *)

DetectForController(d) ==
  /\ Group /\ tag # d
  /\ tag' = d
  /\ UNCHANGED <<stage, retries, contact, estop, age, navVars, goalVars, grp, enables, servoVars>>

DetectForServo ==
  /\ fresh' = TRUE
  /\ UNCHANGED <<controlVars, navVars, goalVars, grp, enables, enabled, driving>>

-------------------------------------------------------------------------------
(* The visual servo.                                                       *)

ServoFrame == UNCHANGED <<controlVars, navVars, goalVars, grp>>

OnEnable ==
  /\ enables # <<>> /\ enables' = Tail(enables)
  /\ enabled' = Head(enables)
  /\ driving' = (driving /\ enabled')
  /\ UNCHANGED fresh /\ ServoFrame

\* Mutant: the age of the pose is not looked at.
ServoLoop_AnyPose ==
  /\ enabled
  /\ driving' = TRUE
  /\ UNCHANGED <<enabled, fresh, enables>> /\ ServoFrame

ServoLoop ==
  /\ enabled
  /\ \/ fresh /\ driving' = TRUE
     \/ driving' = FALSE
  /\ UNCHANGED <<enabled, fresh, enables>> /\ ServoFrame

-------------------------------------------------------------------------------
Tick ==
  /\ age' = IF age + 1 \in Ages THEN age + 1 ELSE age
  /\ fresh' = FALSE
  /\ UNCHANGED <<stage, retries, contact, estop, tag, navVars, goalVars, grp, enables,
                 enabled, driving>>

NavAnswers(n) == NavAccepts(n) \/ NavRejects(n) \/ NavSucceeds(n) \/ NavFails(n)
DockAction(g) == Execute(g) \/ Approach(g) \/ Check(g) \/ Ended(g) \/ Wake(g)

Next ==
  \/ \E g \in Goals : SendGoal(g) \/ CancelGoal(g) \/ DockAction(g)
  \/ \E n \in NavIds : NavAnswers(n)
  \/ EnableServo \/ ControlLoop \/ OnEstop \/ OnContact
  \/ \E d \in Distances : DetectForController(d)
  \/ DetectForServo \/ OnEnable \/ ServoLoop
  \/ Tick

Spec == Init /\ [][Next]_vars

\* The executor serves what is ready, Nav2 answers a goal, timers and messages arrive, time passes.
FairSpec ==
  /\ Spec
  /\ \A g \in Goals : WF_vars(DockAction(g))
  /\ \A n \in NavIds : WF_vars(NavAnswers(n))
  /\ WF_vars(EnableServo) /\ WF_vars(ControlLoop)
  /\ WF_vars(OnEnable) /\ WF_vars(ServoLoop) /\ WF_vars(Tick)

-------------------------------------------------------------------------------
(* Properties.                                                             *)

\* Every variable keeps to its values.
TypeOK ==
  /\ stage \in DockingStage /\ retries \in 0 .. MaxRetries + 1
  /\ contact \in BOOLEAN /\ estop \in BOOLEAN /\ tag \in Distances /\ age \in Ages
  /\ nav \in [NavIds -> {"none", "sent", "active", "stopping"}]
  /\ handle \in NavIds \cup {NoHandle}
  /\ exec \in [Goals -> Final \cup {"accepted", "starting", "check", "sleep", "canceling",
                                     "aborting"}]
  /\ cancel \subseteq Goals
  /\ grp \in [do : {"idle", "set", "enable"}, to : DockingStage]
  /\ enables \in Seq(BOOLEAN) /\ Len(enables) <= QueueCap
  /\ enabled \in BOOLEAN /\ driving \in BOOLEAN
  /\ fresh \in BOOLEAN

\* With a thread to spare every accepted dock goal gets its result, however Nav2's retries, the
\* E-stop, a cancellation and the tag interleave.
GoalEnds == \A g \in Goals : exec[g] = "accepted" ~> exec[g] \in Final

\* No stage that moves the robot or waits for the contact lasts, even one a late answer of Nav2
\* has entered after its dock goal was over.
StagesEnd ==
  stage \in Servoing \cup {"APPROACH", "CONTACT_VERIFY"} ~> stage \in {"IDLE", "DOCKED", "FAILED"}

\* Without new poses the servo does not keep driving on the last one it has seen.
TagLostStops == ~ fresh ~> (~ driving \/ fresh)

\* Docking ends: its goals with a result, its stages at rest.
DockingEnds == GoalEnds /\ StagesEnd

\* Types, and a servo that lets go when the tag is lost.
DockingTagLost == []TypeOK /\ TagLostStops
===============================================================================
