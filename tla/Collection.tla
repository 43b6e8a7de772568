------------------------------ MODULE Collection ------------------------------
(***************************************************************************)
(* Ball collection: collection_manager_node.py with the arm                *)
(* (arm_controller_node.py) and the tracker that finds balls               *)
(* (ball_tracker_node.py).  The manager's callbacks share one mutually     *)
(* exclusive group; the collect_balls action runs beside it in a loop that *)
(* sleeps on a rate, so it needs a second thread (see Docking).  A         *)
(* callback and a pass of the action's loop are atomic here.               *)
(***************************************************************************)
EXTENDS Naturals

CONSTANTS
  MaxBalls,          \* max_balls of the goal, 0 for no limit
  Capacity,          \* basket_capacity
  MaxPickRetries, SearchTimeout, PickTimeout, ReturnTimeout, DumpTimeout, OverallTimeout,
  MinFrames,         \* ball_tracker_node.py: min_consecutive_frames
  MotionsFail,       \* may the arm's motions fail? (in the repository they are stubs)
  CountCap,          \* balls counted in one operation (bound)
  PickCap            \* pick requests waiting at the arm (bound)

ASSUME CollectionAssumption ==
  /\ MaxBalls \in Nat /\ Capacity \in Nat \ {0} /\ MaxPickRetries \in Nat
  /\ {SearchTimeout, PickTimeout, ReturnTimeout, DumpTimeout, OverallTimeout} \subseteq Nat
  /\ MinFrames \in Nat \ {0} /\ MotionsFail \in BOOLEAN
  /\ CountCap \in Nat \ {0} /\ PickCap \in Nat \ {0}

VARIABLES
  stage, basket, total, retries, target,   \* the manager's attributes
  age, opAge,        \* time since _stage_start_time and _operation_start_time
  armStatus,         \* _arm_status: the last state of the arm delivered to the manager
  pickRequested,
  done, succeeded,   \* _nav2_done, _nav2_succeeded
  nav, handle,       \* the Nav2 goal under way; is it in _nav2_goal_handle?
  exec, cancel,      \* the action goal
  lowBattery,
  frames,            \* tracker: frames in a row with the closest ball at one place
  arm, picks,        \* the arm's state; the picks it has been asked for
  picked             \* has the arm completed a pick since the last ball was counted?

stageVars == <<stage, age, opAge>>
countVars == <<basket, total, retries>>
pickVars == <<armStatus, pickRequested>>
navVars == <<done, succeeded, nav, handle>>
goalVars == <<exec, cancel>>
armVars == <<arm, picks>>
vars == <<stageVars, countVars, target, pickVars, navVars, goalVars, lowBattery, frames, armVars,
          picked>>

CollectionStage == {"IDLE", "SEARCHING", "APPROACHING", "PICKING", "RETURNING", "DUMPING"}
ArmState == {"idle", "moving", "holding", "error"}
Final == {"none", "rejected", "succeeded", "canceled", "aborted"}
Largest(S) == CHOOSE m \in S : \A n \in S : n <= m
Ages == 0 .. Largest({SearchTimeout, PickTimeout, ReturnTimeout, DumpTimeout}) + 1
OpAges == 0 .. OverallTimeout + 1
Unset == OverallTimeout + 2     \* _operation_start_time is None

Init ==
  /\ stage = "IDLE" /\ age = 0 /\ opAge = Unset
  /\ basket = 0 /\ total = 0 /\ retries = 0 /\ target = FALSE
  /\ armStatus = "idle" /\ pickRequested = FALSE
  /\ done = FALSE /\ succeeded = FALSE /\ nav = "none" /\ handle = FALSE
  /\ exec = "none" /\ cancel = FALSE /\ lowBattery = FALSE
  /\ frames = 0 /\ arm = "idle" /\ picks = 0 /\ picked = FALSE

-------------------------------------------------------------------------------
(* Navigation.                                                             *)

\* A goal is sent with the flags cleared, or without a server it is done at once.
SendNav2 ==
  /\ succeeded' = FALSE /\ UNCHANGED handle
  /\ \/ nav = "none" /\ nav' = "sent" /\ done' = FALSE
     \/ UNCHANGED nav /\ done' = TRUE

\* Only a goal that has been accepted can be cancelled.
CancelNavigation ==
  /\ handle' = FALSE
  /\ nav' = IF handle /\ nav = "active" THEN "stopping" ELSE nav
  /\ UNCHANGED <<done, succeeded>>

NavFrame == UNCHANGED <<stageVars, countVars, target, pickVars, goalVars, lowBattery, frames,
                        armVars, picked>>

NavAccepted ==
  /\ nav = "sent" /\ nav' = "active" /\ handle' = TRUE
  /\ UNCHANGED <<done, succeeded>> /\ NavFrame

NavRejected ==
  /\ nav = "sent" /\ nav' = "none" /\ done' = TRUE /\ succeeded' = FALSE
  /\ UNCHANGED handle /\ NavFrame

\* The flags do not say which goal they are about.
NavResult(ok) ==
  /\ nav \in {"active", "stopping"} /\ nav' = "none"
  /\ done' = TRUE /\ succeeded' = ok
  /\ UNCHANGED handle /\ NavFrame

-------------------------------------------------------------------------------
(* The action.                                                             *)

ActionFrame == UNCHANGED <<pickVars, lowBattery, frames, armVars, picked>>

SendGoal ==
  /\ exec \in Final
  /\ exec' = IF stage = "IDLE" THEN "accepted" ELSE "rejected"
  /\ cancel' = FALSE
  /\ UNCHANGED <<stageVars, countVars, target, navVars>> /\ ActionFrame

CancelGoal ==
  /\ exec \notin Final /\ ~ cancel /\ cancel' = TRUE
  /\ UNCHANGED <<stageVars, countVars, target, navVars, exec>> /\ ActionFrame

Execute ==
  /\ exec = "accepted" /\ exec' = "running"
  /\ stage' = "SEARCHING" /\ age' = 0 /\ opAge' = 0
  /\ basket' = 0 /\ total' = 0 /\ retries' = 0 /\ target' = FALSE
  /\ UNCHANGED <<navVars, cancel>> /\ ActionFrame

\* A pass of the loop; a stage that has become IDLE, by a timeout too, is a success.
Supervise ==
  /\ exec = "running"
  /\ IF cancel \/ lowBattery
     THEN /\ CancelNavigation /\ stage' = "IDLE"
          /\ exec' = IF cancel THEN "canceled" ELSE "aborted"
     ELSE /\ stage = "IDLE" \/ (MaxBalls > 0 /\ total >= MaxBalls)
          /\ stage' = "IDLE" /\ exec' = "succeeded" /\ UNCHANGED navVars
  /\ UNCHANGED <<age, opAge, countVars, target, cancel>> /\ ActionFrame

-------------------------------------------------------------------------------
(* The control loop.                                                       *)

LoopFrame == UNCHANGED <<goalVars, lowBattery, frames, arm>>
Overdue == opAge \in OpAges /\ opAge > OverallTimeout
To(s) == stage' = s /\ age' = 0 /\ UNCHANGED opAge
Stop == stage' = "IDLE" /\ opAge' = Unset /\ UNCHANGED age

\* Mutant: the operation as a whole is not timed.
OverallTimesOut_Never ==
  /\ stage # "IDLE" /\ Overdue
  /\ UNCHANGED <<stageVars, countVars, target, pickVars, navVars, picks, picked>> /\ LoopFrame

OverallTimesOut ==
  /\ stage # "IDLE" /\ Overdue
  /\ CancelNavigation /\ Stop
  /\ UNCHANGED <<countVars, target, pickVars, picks, picked>> /\ LoopFrame

HandleSearching ==
  /\ stage = "SEARCHING" /\ ~ Overdue
  /\ IF age > SearchTimeout
     THEN Stop /\ UNCHANGED navVars
     ELSE target /\ To("APPROACHING") /\ SendNav2
  /\ UNCHANGED <<countVars, target, pickVars, picks, picked>> /\ LoopFrame

\* _request_arm_pick asks for nothing without a target.
RequestArmPick ==
  /\ pickRequested' = TRUE
  /\ picks' = IF target THEN picks + 1 ELSE picks

HandleApproaching ==
  /\ stage = "APPROACHING" /\ ~ Overdue
  /\ \/ /\ ~ target
        /\ CancelNavigation /\ To("SEARCHING")
        /\ UNCHANGED <<retries, pickRequested, picks>>
     \/ /\ target /\ done /\ succeeded /\ picks < PickCap
        /\ To("PICKING") /\ retries' = 0 /\ RequestArmPick
        /\ done' = FALSE /\ UNCHANGED <<succeeded, nav, handle>>
     \/ /\ target /\ done /\ ~ succeeded
        /\ To("SEARCHING") /\ done' = FALSE
        /\ UNCHANGED <<succeeded, nav, handle, retries, pickRequested, picks>>
  /\ UNCHANGED <<basket, total, target, armStatus, picked>> /\ LoopFrame

PickTimesOut ==
  /\ stage = "PICKING" /\ ~ Overdue /\ age > PickTimeout
  /\ target' = FALSE /\ To("SEARCHING")
  /\ UNCHANGED <<countVars, pickVars, navVars, picks, picked>> /\ LoopFrame

\* Mutant: an idle arm is believed without having been seen at work.
Waiting_Never == FALSE

\* The request stands until the arm has been seen at work.
Waiting == pickRequested /\ armStatus = "idle"

\* Mutant: a full basket is not brought back.
CountBall_NoReturn ==
  /\ stage = "PICKING" /\ ~ Overdue /\ ~ age > PickTimeout /\ ~ Waiting /\ armStatus = "idle"
  /\ total < CountCap
  /\ basket' = basket + 1 /\ total' = total + 1 /\ target' = FALSE
  /\ To("SEARCHING") /\ UNCHANGED navVars
  /\ picked' = FALSE
  /\ UNCHANGED <<retries, pickVars, picks>> /\ LoopFrame

\* The arm is idle again: the ball counts.
CountBall ==
  /\ stage = "PICKING" /\ ~ Overdue /\ ~ age > PickTimeout /\ ~ Waiting /\ armStatus = "idle"
  /\ total < CountCap
  /\ basket' = basket + 1 /\ total' = total + 1 /\ target' = FALSE
  /\ IF basket' >= Capacity THEN To("RETURNING") /\ SendNav2
                            ELSE To("SEARCHING") /\ UNCHANGED navVars
  /\ picked' = FALSE
  /\ UNCHANGED <<retries, pickVars, picks>> /\ LoopFrame

ArmSeenAtWork ==
  /\ stage = "PICKING" /\ ~ Overdue /\ ~ age > PickTimeout
  /\ pickRequested /\ armStatus \in {"moving", "holding"}
  /\ pickRequested' = FALSE
  /\ UNCHANGED <<stageVars, countVars, target, armStatus, navVars, picks, picked>> /\ LoopFrame

MayRetry == retries < MaxPickRetries

\* Whether the arm's error is about this request is not asked.
PickFailed ==
  /\ stage = "PICKING" /\ ~ Overdue /\ ~ age > PickTimeout /\ armStatus = "error"
  /\ retries' = retries + 1
  /\ IF MayRetry
     THEN /\ picks < PickCap /\ RequestArmPick
          /\ UNCHANGED <<stageVars, target>>
     ELSE /\ target' = FALSE /\ To("SEARCHING")
          /\ pickRequested' = FALSE /\ UNCHANGED picks
  /\ UNCHANGED <<basket, total, armStatus, navVars, picked>> /\ LoopFrame

HandleReturning ==
  /\ stage = "RETURNING" /\ ~ Overdue
  /\ IF age > ReturnTimeout
     THEN CancelNavigation /\ Stop
     ELSE /\ done
          /\ IF succeeded
             THEN To("DUMPING") /\ done' = FALSE /\ UNCHANGED <<succeeded, nav, handle>>
             ELSE SendNav2 /\ UNCHANGED stageVars
  /\ UNCHANGED <<countVars, target, pickVars, picks, picked>> /\ LoopFrame

HandleDumping ==
  /\ stage = "DUMPING" /\ ~ Overdue /\ age > DumpTimeout
  /\ basket' = 0 /\ To("SEARCHING")
  /\ UNCHANGED <<total, retries, target, pickVars, navVars, picks, picked>> /\ LoopFrame

ControlLoop ==
  \/ OverallTimesOut \/ HandleSearching \/ HandleApproaching \/ PickTimesOut \/ CountBall
  \/ ArmSeenAtWork \/ PickFailed \/ HandleReturning \/ HandleDumping

-------------------------------------------------------------------------------
(* Messages: the battery, and the tracker's targets.                       *)

OnBattery ==
  /\ lowBattery' = ~ lowBattery
  /\ UNCHANGED <<stageVars, countVars, target, pickVars, navVars, goalVars, frames, armVars, picked>>

\* The closest ball is where it was, or elsewhere, or there is none.
OnDetections(where) ==
  /\ frames' = CASE where = "same" -> IF frames < MinFrames THEN frames + 1 ELSE frames
                 [] where = "elsewhere" -> 1
                 [] where = "nowhere" -> 0
  /\ target' = (target \/ frames' >= MinFrames)
  /\ <<frames, target>>' # <<frames, target>>
  /\ UNCHANGED <<stageVars, countVars, pickVars, navVars, goalVars, lowBattery, armVars, picked>>

-------------------------------------------------------------------------------
(* The arm serves one request after the other and publishes each state.    *)

ArmFrame == UNCHANGED <<stageVars, countVars, target, navVars, goalVars, lowBattery, frames>>

\* A state is published, and the next one after it has been delivered.
SetState(s) == armStatus = arm /\ arm' = s

StartPick ==
  /\ arm \in {"idle", "error"} /\ picks > 0
  /\ SetState("moving")
  /\ UNCHANGED <<picks, picked, pickVars>> /\ ArmFrame

Hold ==
  /\ arm = "moving"
  /\ SetState("holding")
  /\ UNCHANGED <<picks, picked, pickVars>> /\ ArmFrame

Drop ==
  /\ arm = "holding"
  /\ SetState("idle") /\ picks' = picks - 1 /\ picked' = TRUE
  /\ UNCHANGED pickVars /\ ArmFrame

Fail ==
  /\ MotionsFail /\ arm \in {"moving", "holding"}
  /\ SetState("error") /\ picks' = picks - 1
  /\ UNCHANGED <<picked, pickVars>> /\ ArmFrame

OnArmStatus ==
  /\ armStatus # arm /\ armStatus' = arm
  /\ UNCHANGED <<pickRequested, arm, picks, picked>> /\ ArmFrame

Arm == StartPick \/ Hold \/ Drop \/ Fail

-------------------------------------------------------------------------------
Older(a, S) == IF a + 1 \in S THEN a + 1 ELSE a

Tick ==
  /\ age' = Older(age, Ages) /\ opAge' = Older(opAge, OpAges)
  /\ <<age, opAge>>' # <<age, opAge>>
  /\ UNCHANGED <<stage, countVars, target, pickVars, navVars, goalVars, lowBattery, frames, armVars,
                 picked>>

NavAnswers == NavAccepted \/ NavRejected \/ \E ok \in BOOLEAN : NavResult(ok)

Next ==
  \/ SendGoal \/ CancelGoal \/ Execute \/ Supervise \/ ControlLoop \/ NavAnswers
  \/ OnBattery \/ \E where \in {"same", "elsewhere", "nowhere"} : OnDetections(where)
  \/ Arm \/ OnArmStatus \/ Tick

Spec == Init /\ [][Next]_vars

\* The executor has a thread for the action's loop and one for the callbacks; timers fire.
FairSpec ==
  /\ Spec
  /\ WF_vars(Execute) /\ WF_vars(Supervise) /\ WF_vars(Tick)
  /\ WF_vars(OverallTimesOut)

-------------------------------------------------------------------------------
(* Properties.                                                             *)

\* Every variable keeps to its values.
TypeOK ==
  /\ stage \in CollectionStage /\ age \in Ages /\ opAge \in OpAges \cup {Unset}
  /\ total \in 0 .. CountCap /\ retries \in 0 .. MaxPickRetries + 1
  /\ basket \in Nat
  /\ target \in BOOLEAN /\ lowBattery \in BOOLEAN /\ picked \in BOOLEAN
  /\ armStatus \in ArmState /\ pickRequested \in BOOLEAN
  /\ done \in BOOLEAN /\ succeeded \in BOOLEAN /\ handle \in BOOLEAN
  /\ nav \in {"none", "sent", "active", "stopping"}
  /\ exec \in Final \cup {"accepted", "running"} /\ cancel \in BOOLEAN
  /\ frames \in 0 .. MinFrames
  /\ arm \in ArmState /\ picks \in 0 .. PickCap

\* The manager never believes more balls in the basket than it holds, and with a full one it
\* does nothing but bring it back and dump it, until the operation is over.
CapacityRespected ==
  /\ basket <= Capacity
  /\ basket = Capacity => stage \in {"RETURNING", "DUMPING", "IDLE"}

\* A ball is counted only for a pick the arm has completed since the last one was counted,
\* however late the arm's statuses are and however many picks the manager has given up.
CountedBallsPicked == [][total' > total => picked]_vars

\* What makes the counts right: an idle arm that has been seen at work for this request, or whose
\* return to idle is still on its way, has completed a pick that no ball was counted for.
CountInv ==
  /\ stage = "PICKING" /\ ~ pickRequested /\ armStatus = "idle" => picked
  /\ arm = "idle" /\ armStatus # "idle" => picked /\ armStatus = "holding"

\* Every goal gets its result: no cycle of searches, failed approaches, retried returns and
\* skipped balls outlasts the overall timeout.
GoalEnds == exec = "accepted" ~> exec \in Final

\* The safety of the collection: the counts the manager works with keep to their bounds.
CollectionSafety == TypeOK /\ CapacityRespected
===============================================================================
